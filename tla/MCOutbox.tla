------------------------------ MODULE MCOutbox ------------------------------
(* Small instances of OutboxSync for TLC. *)
EXTENDS OutboxSync, TLC

CONSTANTS n1, n2, w1, w2

Symmetry == Permutations({w1, w2})

\* All events are about the one node of the instance, so that the writes, the
\* deletion and the dead letters of a node meet.
UriOne == [e \in Event |-> n1]

\* The second event is about another node.
UriTwo == <<n1, n2, n2>>

\* Two writes of the same node.
KindSame == <<"UPSERT", "UPSERT">>

\* A write and the deletion of what it wrote.
KindDelete == <<"UPSERT", "DELETE">>

\* A write, an event without "records", a directory event, a write that leaves
\* nothing to index.
KindMixed == <<"UPSERT", "MALFORMED", "OTHER", "EMPTY">>

\* A write to a node, a write to another node, the deletion of the latter.
KindAcross == <<"UPSERT", "UPSERT", "DELETE">>
=============================================================================
