--------------------------- MODULE EventDelivery ---------------------------
(***************************************************************************)
(* What the outbox promises about its events, without workers, locks or    *)
(* retries: an event that was registered stays in the outbox until its     *)
(* handler has succeeded or a dead letter has been kept, unless its node   *)
(* directory is removed with everything in it.  Delivery is at least once  *)
(* and in any order: a handler may run for an event again, even after the  *)
(* event has left the outbox, and an event that has left may come back.    *)
(* OutboxSync implements this specification.                               *)
(***************************************************************************)
CONSTANT Event

VARIABLES
  known,      \* events that were registered
  pending,    \* events in the outbox
  dead,       \* events in the dead letter queue
  delivered,  \* events whose handler has succeeded at least once
  wiped       \* events destroyed together with their node

vars == <<known, pending, dead, delivered, wiped>>

Init ==
  /\ known = {}
  /\ pending = {}
  /\ dead = {}
  /\ delivered = {}
  /\ wiped = {}

Register(e) ==
  /\ known' = known \cup {e}
  /\ pending' = pending \cup {e}
  /\ UNCHANGED <<dead, delivered, wiped>>

Deliver(e) ==
  /\ e \in known
  /\ delivered' = delivered \cup {e}
  /\ UNCHANGED <<known, pending, dead, wiped>>

\* A failed attempt writes the event back.
Requeue(e) ==
  /\ e \in known
  /\ pending' = pending \cup {e}
  /\ UNCHANGED <<known, dead, delivered, wiped>>

Bury(e) ==
  /\ e \in known
  /\ dead' = dead \cup {e}
  /\ UNCHANGED <<known, pending, delivered, wiped>>

\* The one way out of the outbox that is not a loss.
Settle(e) ==
  /\ e \in delivered \cup dead \cup wiped
  /\ pending' = pending \ {e}
  /\ UNCHANGED <<known, dead, delivered, wiped>>

\* A node is deleted: its events S go with it.
Wipe(S) ==
  /\ pending' = pending \ S
  /\ dead' = dead \ S
  /\ wiped' = wiped \cup (S \cap (pending \cup dead))
  /\ UNCHANGED <<known, delivered>>

Next ==
  \/ \E e \in Event : Register(e) \/ Deliver(e) \/ Requeue(e) \/ Bury(e) \/ Settle(e)
  \/ \E S \in SUBSET Event : Wipe(S)

Spec == Init /\ [][Next]_vars

\* No registered event disappears: it waits, was delivered, is a dead letter,
\* or its node was deleted.
NothingLost == known \subseteq pending \cup dead \cup delivered \cup wiped
=============================================================================
