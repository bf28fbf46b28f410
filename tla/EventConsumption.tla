-------------------------- MODULE EventConsumption --------------------------
(***************************************************************************)
(* What the outbox promises the control plane: an event that was committed *)
(* is consumed at most once, whatever is redelivered, and what consuming   *)
(* it came to (applied or skipped) is never revised.  Nothing is said here *)
(* of relays, leases, handlers or failures.                                *)
(***************************************************************************)
EXTENDS Naturals

CONSTANT Events      \* outbox_events rows

VARIABLES
  inserted,          \* committed events
  settled,           \* events whose consumption is settled
  applications       \* how often each event changed the control plane

consumptionVars == <<inserted, settled, applications>>

Init ==
  /\ inserted = {}
  /\ settled = {}
  /\ applications = [e \in Events |-> 0]

Insert(e) ==
  /\ e \notin inserted
  /\ inserted' = inserted \union {e}
  /\ UNCHANGED <<settled, applications>>

Skip(e) ==
  /\ e \in inserted \ settled
  /\ settled' = settled \union {e}
  /\ UNCHANGED <<inserted, applications>>

Apply(e) ==
  /\ e \in inserted \ settled
  /\ settled' = settled \union {e}
  /\ applications' = [applications EXCEPT ![e] = @ + 1]
  /\ UNCHANGED inserted

Next == \E e \in Events : Insert(e) \/ Skip(e) \/ Apply(e)

Spec == Init /\ [][Next]_consumptionVars
=============================================================================
