------------------------------ MODULE MCServer ------------------------------
(***************************************************************************)
(* Small instances for TLC of the plugins of the AGFS server: the disjoint *)
(* union of their state spaces, as in MCComponents.  `plugin` is the one   *)
(* that runs.                                                              *)
(***************************************************************************)
EXTENDS QueueFS, StreamFS

CONSTANT Plugins    \* plugins to try

VARIABLE plugin

serverVars == <<plugin, queueVars, streamVars>>

\* A queue below another, and one whose table has the name of that below.
TheBelow == {<<"jobs", "jobs/old">>}
TheTables == [q \in Queue |-> IF q = "jobs_old" THEN "jobs/old" ELSE q]

\* Bounds of StreamFS: two chunks of a stream; a stream that is made again.
TheStreamBudgets == {[streams |-> 1, chunks |-> 2], [streams |-> 2, chunks |-> 1]}

ServerInit ==
    /\ plugin \in Plugins
    /\ (plugin = "queuefs" \/ backend = "memory") /\ QueueInit
    /\ (plugin = "streamfs" \/ granted = [streams |-> 1, chunks |-> 2]) /\ StreamInit

ServerNext ==
    /\ UNCHANGED plugin
    /\ \/ plugin = "queuefs" /\ QueueNext /\ UNCHANGED streamVars
       \/ plugin = "streamfs" /\ StreamNext /\ UNCHANGED queueVars

ServerTypeOK ==
    CASE plugin = "queuefs" -> QueueTypeOK
      [] plugin = "streamfs" -> StreamTypeOK
=============================================================================
