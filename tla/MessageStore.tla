---------------------------- MODULE MessageStore ----------------------------
(***************************************************************************)
(* What the device message queue promises: a bounded store of messages.    *)
(* One that is accepted is delivered or, only when the store is full and   *)
(* one more message is in flight, lost.  It is never duplicated, taken     *)
(* back to its submitter or forgotten, and what was delivered stays so.    *)
(***************************************************************************)
EXTENDS Integers, FiniteSets

CONSTANTS Messages, Capacity

VARIABLES pending, sent, lost

MInit == pending = {} /\ sent = {} /\ lost = {}

Accept(m) ==
  /\ m \notin pending \cup sent \cup lost
  /\ Cardinality(pending) <= Capacity
  /\ pending' = pending \cup {m}
  /\ UNCHANGED <<sent, lost>>

Deliver(m) ==
  /\ m \in pending
  /\ pending' = pending \ {m}
  /\ sent' = sent \cup {m}
  /\ UNCHANGED lost

Lose(m) ==
  /\ m \in pending
  /\ Cardinality(pending) = Capacity + 1
  /\ pending' = pending \ {m}
  /\ lost' = lost \cup {m}
  /\ UNCHANGED sent

MNext == \E m \in Messages : Accept(m) \/ Deliver(m) \/ Lose(m)

MSpec == MInit /\ [][MNext]_<<pending, sent, lost>>
=============================================================================
