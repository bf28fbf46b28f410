---------------------------- MODULE OutboxRelay ----------------------------
(***************************************************************************)
(* The outbox relay: outbox_events rows claimed under a lease by the timer *)
(* or a batch, or dispatched by an operator without one; handed to the     *)
(* handler of their type; marked processed or failed.  What a handler does *)
(* between receiving an event and returning or throwing belongs to the     *)
(* module that composes with this one.                                     *)
(***************************************************************************)
EXTENDS Integers, FiniteSets

CONSTANTS
  Events,     \* outbox_events rows, numbered in the order of created_at
  NoEvent,
  Slots,      \* bound: dispatches in flight at once, over all processes
  Faults      \* bound: crashes and infrastructure errors in a behaviour

ASSUME RelayAssumption ==
  /\ Events \subseteq Nat
  /\ NoEvent \notin Events
  /\ Faults \in Nat

VARIABLES
  inserted,   \* committed rows
  processed,  \* rows with processed_at set
  leased,     \* rows whose claim_expires_at is in the future
  event,      \* the event each slot is dispatching, or NoEvent
  phase,      \* how far that dispatch is
  faults      \* faults left (bounds the model)

relayVars == <<inserted, processed, leased, event, phase, faults>>

(* "handling", "read" and "planned" are inside the handler; "handled" and  *)
(* "thrown" are its two outcomes, not yet written to the row.              *)
Phase == {"idle", "handling", "read", "planned", "handled", "thrown"}
InHandler == {"handling", "read", "planned"}

RelayTypeOK ==
  /\ inserted \subseteq Events
  /\ processed \subseteq Events
  /\ leased \subseteq Events
  /\ event \in [Slots -> Events \union {NoEvent}]
  /\ phase \in [Slots -> Phase]
  /\ faults \in 0..Faults
  /\ \A s \in Slots : phase[s] = "idle" <=> event[s] = NoEvent

RelayInit ==
  /\ inserted = {}
  /\ processed = {}
  /\ leased = {}
  /\ event = [s \in Slots |-> NoEvent]
  /\ phase = [s \in Slots |-> "idle"]
  /\ faults = Faults

(* created_at is the start of the inserting transaction, so rows need not  *)
(* be committed in the order of their numbers.                             *)
Insert(e) ==
  /\ e \notin inserted
  /\ inserted' = inserted \union {e}
  /\ UNCHANGED <<processed, leased, event, phase, faults>>

(* Mutant: only the dispatch that holds a lease can see it run out. *)
LeaseOutlivesCrash(e) ==
  /\ e \in leased
  /\ \E s \in Slots : event[s] = e
  /\ leased' = leased \ {e}
  /\ UNCHANGED <<inserted, processed, event, phase, faults>>

LeaseExpires(e) ==
  /\ e \in leased
  /\ leased' = leased \ {e}
  /\ UNCHANGED <<inserted, processed, event, phase, faults>>

Claimable == inserted \ (processed \union leased)

Dispatch(s, e) ==
  /\ phase[s] = "idle"
  /\ event' = [event EXCEPT ![s] = e]
  /\ phase' = [phase EXCEPT ![s] = "handling"]
  /\ UNCHANGED <<inserted, processed, faults>>

(* The oldest claimable row; SKIP LOCKED passes over one that is locked,   *)
(* as by the markFailed of a dispatch whose lease has run out.             *)
Claim(s, e) ==
  /\ e \in Claimable
  /\ \A f \in Claimable : f < e => \E t \in Slots : event[t] = f
  /\ leased' = leased \union {e}
  /\ Dispatch(s, e)

(* An operator's request looks at processed_at, not at the lease. *)
ProcessEvent(s, e) ==
  /\ e \in inserted \ processed
  /\ Dispatch(s, e)
  /\ UNCHANGED leased

HandlerReturns(s) ==
  /\ phase' = [phase EXCEPT ![s] = "handled"]
  /\ UNCHANGED <<inserted, processed, leased, event, faults>>

(* Mutant: the slot is idle but still names its event. *)
ReleasePhaseOnly(s) ==
  /\ phase' = [phase EXCEPT ![s] = "idle"]
  /\ UNCHANGED event

Release(s) ==
  /\ event' = [event EXCEPT ![s] = NoEvent]
  /\ phase' = [phase EXCEPT ![s] = "idle"]

(* Mutant: the outcome of the handler is not looked at. *)
MarkProcessedAnyway(s) ==
  /\ phase[s] \in {"handled", "thrown"}
  /\ processed' = processed \union {event[s]}
  /\ leased' = leased \ {event[s]}
  /\ Release(s)
  /\ UNCHANGED <<inserted, faults>>

MarkProcessed(s) ==
  /\ phase[s] = "handled"
  /\ processed' = processed \union {event[s]}
  /\ leased' = leased \ {event[s]}
  /\ Release(s)
  /\ UNCHANGED <<inserted, faults>>

(* retry_count + 1, processed_at and the lease set to NULL: on whatever    *)
(* the row holds by then.  retry_count is read by nothing and left out.    *)
MarkFailed(s) ==
  /\ phase[s] = "thrown"
  /\ processed' = processed \ {event[s]}
  /\ leased' = leased \ {event[s]}
  /\ Release(s)
  /\ UNCHANGED <<inserted, faults>>

(* The handler, or the write of markProcessed, throws: both are inside the *)
(* try of dispatch().                                                      *)
Throw(s, cost) ==
  /\ phase[s] \in InHandler \union {"handled"}
  /\ faults >= cost
  /\ faults' = faults - cost
  /\ phase' = [phase EXCEPT ![s] = "thrown"]
  /\ UNCHANGED <<inserted, processed, leased, event>>

(* The process dies, or markFailed itself throws: the lease has to expire. *)
Crash(s) ==
  /\ phase[s] # "idle"
  /\ faults > 0
  /\ faults' = faults - 1
  /\ Release(s)
  /\ UNCHANGED <<inserted, processed, leased>>

(* The steps of the relay itself. *)
RelayStep ==
  \/ \E e \in Events : Insert(e) \/ LeaseExpires(e)
  \/ \E s \in Slots, e \in Events : Claim(s, e) \/ ProcessEvent(s, e)
  \/ \E s \in Slots : MarkProcessed(s) \/ MarkFailed(s) \/ Crash(s)
=============================================================================
