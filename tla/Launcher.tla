------------------------------ MODULE Launcher ------------------------------
(***************************************************************************)
(* The plugin starts and stops the two local servers: hooks and the MCP    *)
(* server start them when the backend does not answer, the Stop hook and   *)
(* the MCP server that started them stop them.  What is known of a server  *)
(* is the process id in its file; a second server of a kind exits, for its *)
(* port is taken.  Sources: src/claude-plugin/scripts/rtc_terminal.py,     *)
(* hook_stop.sh, src/claude-plugin/retrieval_token_cutter_mcp/server.py    *)
(*                                                                         *)
(* Starting a process and writing its id is one step; process ids are not  *)
(* used again, and RTC_PLUGIN_AUTO_START and AUTO_STOP are on.             *)
(***************************************************************************)
EXTENDS Naturals, FiniteSets

CONSTANTS
    Caller,       \* hooks and MCP servers
    MaxProcs,     \* bound on the processes started
    MaxCommands,  \* bound on the commands begun
    MaxDeaths     \* bound on the servers that die of themselves

ASSUME LauncherAssumption == MaxProcs \in Nat /\ MaxCommands \in Nat /\ MaxDeaths \in Nat

Servers == {"agfs", "rtc"}
Procs == 1..MaxProcs

VARIABLES
    procs,    \* [Procs -> what runs]
    disk,     \* the files of the ids, and the state of the runtime tree
    cmd,      \* [Caller -> what it does, how far it is, does it own the backend]
    past      \* history: commands begun, deaths; did commands overlap, was a start cut
              \* between its two servers

launchVars == <<procs, disk, cmd, past>>

NoCommand == [does |-> "none", at |-> "idle", owns |-> FALSE]

LauncherInit ==
    /\ procs = [p \in Procs |-> "unused"]
    /\ disk = [agfs |-> 0, rtc |-> 0, tree |-> "none"]
    /\ cmd = [c \in Caller |-> NoCommand]
    /\ past = [commands |-> 0, deaths |-> 0, overlap |-> FALSE, cut |-> FALSE, stopped |-> FALSE]

Alive(server) == {p \in Procs : procs[p] = server}
PidAlive(p) == p # 0 /\ procs[p] \in Servers \cup {"late agfs", "late rtc"}

\* backend_healthy: the server that has the port answers.
Healthy == Alive("rtc") # {}
Unused == {p \in Procs : procs[p] = "unused"}
Goes(c, at) == cmd' = [cmd EXCEPT ![c].at = at]

\* ensure_backend_for_hook, _start_backend_if_needed, hook_stop.sh.
BeginCommand(c, does) ==
    /\ cmd[c].at = "idle" /\ past.commands < MaxCommands
    /\ does \in {"hook", "mcp"} => ~Healthy /\ Cardinality(Unused) >= 2
    /\ cmd' = [cmd EXCEPT ![c] = [does |-> does, owns |-> FALSE,
                                  at |-> IF does = "stop" THEN "stop rtc" ELSE "files"]]
    /\ past' = [past EXCEPT !.commands = @ + 1, !.stopped = FALSE,
           !.overlap = @ \/ \E d \in Caller : cmd[d].at \notin {"idle", "serves"}]
    /\ UNCHANGED <<procs, disk>>

\* A server that is there already; the MCP server takes it for its own.
Finished(c, code) ==
    cmd' = [cmd EXCEPT ![c] = IF cmd[c].does = "mcp" /\ code = 0
                              THEN [@ EXCEPT !.at = "serves", !.owns = TRUE] ELSE NoCommand]

\* command_start: both ids are of live processes?
ReadPidFiles(c) ==
    /\ cmd[c].at = "files"
    /\ IF PidAlive(disk.rtc) /\ PidAlive(disk.agfs) THEN Finished(c, 0) ELSE Goes(c, "clear")
    /\ UNCHANGED <<procs, disk, past>>

\* build_runtime_tree removes the tree and copies it; the copy fails when
\* another has made one meanwhile, or removes it while it is being made.
ClearTree(c) ==
    /\ cmd[c].at = "clear"
    /\ disk' = [disk EXCEPT !.tree = "none"] /\ Goes(c, "copy")
    /\ UNCHANGED <<procs, past>>

BeginCopy(c) ==
    /\ cmd[c].at = "copy"
    /\ IF disk.tree = "none" THEN disk' = [disk EXCEPT !.tree = "part"] /\ Goes(c, "copying")
       ELSE Finished(c, 1) /\ UNCHANGED disk
    /\ UNCHANGED <<procs, past>>

EndCopy(c) ==
    /\ cmd[c].at = "copying"
    /\ IF disk.tree = "part" THEN disk' = [disk EXCEPT !.tree = "whole"] /\ Goes(c, "agfs")
       ELSE Finished(c, 1) /\ UNCHANGED disk
    /\ UNCHANGED <<procs, past>>

\* Popen and the file of the id.  The process is late: it may fail yet.
SpawnServer(c, server) ==
    /\ cmd[c].at = server /\ Unused # {}
    /\ LET p == CHOOSE q \in Unused : \A r \in Unused : q <= r IN
       /\ procs' = [procs EXCEPT ![p] = IF server = "agfs" THEN "late agfs" ELSE "late rtc"]
       /\ disk' = IF server = "agfs" THEN [disk EXCEPT !.agfs = p] ELSE [disk EXCEPT !.rtc = p]
    /\ Goes(c, IF server = "agfs" THEN "rtc" ELSE "check")
    /\ UNCHANGED past

\* The process takes its port, or exits: the port is taken, its code is gone.
ComeUp(p) ==
    /\ \/ /\ procs[p] = "late agfs"
          /\ procs' = [procs EXCEPT ![p] = IF Alive("agfs") = {} THEN "agfs" ELSE "gone"]
       \/ /\ procs[p] = "late rtc"
          /\ procs' = [procs EXCEPT ![p] = IF Alive("rtc") = {} /\ disk.tree = "whole"
                                           THEN "rtc" ELSE "gone"]
    /\ UNCHANGED <<disk, cmd, past>>

\* One that has exited by now makes the start fail, as does a health check
\* that does not pass in time; the servers and the files stay as they are.
CheckStarted(c) ==
    /\ cmd[c].at = "check"
    /\ \/ Healthy /\ Finished(c, 0)
       \/ Finished(c, 1)
    /\ UNCHANGED <<procs, disk, past>>

\* subprocess.run ends the start of a hook, and not its servers.
StartTimesOut(c) ==
    /\ cmd[c].does = "hook" /\ cmd[c].at # "idle"
    /\ cmd' = [cmd EXCEPT ![c] = NoCommand]
    /\ past' = [past EXCEPT !.cut = @ \/ cmd[c].at = "rtc"]
    /\ UNCHANGED <<procs, disk>>

\* The MCP server ends, and stops what it owns.
EndServing(c) ==
    /\ cmd[c].at = "serves" /\ cmd[c].owns /\ past.commands < MaxCommands
    /\ cmd' = [cmd EXCEPT ![c] = [does |-> "stop", at |-> "stop rtc", owns |-> FALSE]]
    /\ past' = [past EXCEPT !.commands = @ + 1, !.stopped = FALSE,
           !.overlap = @ \/ \E d \in Caller : cmd[d].at \notin {"idle", "serves"}]
    /\ UNCHANGED <<procs, disk>>

\* Mutant: both files are removed with the first process.
StopForgets(c, server) ==
    /\ cmd[c].at = (IF server = "rtc" THEN "stop rtc" ELSE "stop agfs")
    /\ LET p == IF server = "rtc" THEN disk.rtc ELSE disk.agfs IN
       procs' = IF PidAlive(p) THEN [procs EXCEPT ![p] = "gone"] ELSE procs
    /\ disk' = [disk EXCEPT !.rtc = 0, !.agfs = 0]
    /\ IF server = "rtc" THEN Goes(c, "stop agfs") ELSE cmd' = [cmd EXCEPT ![c] = NoCommand]
    /\ past' = [past EXCEPT !.stopped = server = "agfs"]

\* command_stop: the server, then AGFS; a process without a file is unknown.
StopServer(c, server) ==
    /\ cmd[c].at = (IF server = "rtc" THEN "stop rtc" ELSE "stop agfs")
    /\ LET p == IF server = "rtc" THEN disk.rtc ELSE disk.agfs IN
       /\ procs' = IF PidAlive(p) THEN [procs EXCEPT ![p] = "gone"] ELSE procs
       /\ disk' = IF server = "rtc" THEN [disk EXCEPT !.rtc = 0] ELSE [disk EXCEPT !.agfs = 0]
    /\ IF server = "rtc" THEN Goes(c, "stop agfs") ELSE cmd' = [cmd EXCEPT ![c] = NoCommand]
    /\ past' = [past EXCEPT !.stopped = server = "agfs"]

\* A server ends of itself.
Dies(p) ==
    /\ procs[p] \in Servers /\ past.deaths < MaxDeaths
    /\ procs' = [procs EXCEPT ![p] = "gone"]
    /\ past' = [past EXCEPT !.deaths = @ + 1]
    /\ UNCHANGED <<disk, cmd>>

LauncherNext ==
    \/ \E c \in Caller :
          \/ \E does \in {"hook", "mcp", "stop"} : BeginCommand(c, does)
          \/ ReadPidFiles(c) \/ ClearTree(c) \/ BeginCopy(c) \/ EndCopy(c)
          \/ CheckStarted(c) \/ StartTimesOut(c) \/ EndServing(c)
          \/ \E server \in Servers : SpawnServer(c, server) \/ StopServer(c, server)
    \/ \E p \in Procs : ComeUp(p) \/ Dies(p)

LauncherSpec == LauncherInit /\ [][LauncherNext]_launchVars
-----------------------------------------------------------------------------
LauncherTypeOK ==
    /\ procs \in [Procs -> {"unused", "late agfs", "late rtc", "agfs", "rtc", "gone"}]
    /\ {disk.agfs, disk.rtc} \subseteq 0..MaxProcs /\ disk.tree \in {"none", "part", "whole"}
    /\ \A c \in Caller : cmd[c].owns => cmd[c].does = "mcp"
    /\ past.commands \in 0..MaxCommands /\ past.deaths \in 0..MaxDeaths
    /\ \A server \in Servers : Cardinality(Alive(server)) <= 1

(***************************************************************************)
(* A server that runs can be stopped: its id is in its file.  A start that *)
(* fails or that its hook gives up keeps that so; only commands that       *)
(* overlap, and one server without the other (it died, or the start was    *)
(* given up between the two), make the next start write over a live id.    *)
(* (rtc_terminal.py:380-459, 462-481)                                      *)
(***************************************************************************)
Stoppable ==
    ~past.overlap /\ ~past.cut /\ past.deaths = 0 =>
        \A p \in Procs : PidAlive(p) => p \in {disk.agfs, disk.rtc}

(***************************************************************************)
(* "stop local services on exit": when a stop has ended, and nothing else  *)
(* is under way, no server runs.                                           *)
(* (claude-plugin/hooks/hooks.json:2, rtc_terminal.py:462-481)             *)
(***************************************************************************)
StopEndsAll ==
    past.stopped /\ ~past.overlap => \A p \in Procs : ~PidAlive(p)
=============================================================================
