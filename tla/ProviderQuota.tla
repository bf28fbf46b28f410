---------------------------- MODULE ProviderQuota ----------------------------
(***************************************************************************)
(* The daily budget of a model provider's key (provider-quota-enforcer.ts  *)
(* and provider-quota-ledger.repository.ts).  Every agent call of every    *)
(* worker reads the ledger row of its day under SELECT ... FOR UPDATE,     *)
(* decides, writes the new totals and commits before it sends anything.    *)
(* One provider key is modelled: rows of different keys share nothing.     *)
(***************************************************************************)
EXTENDS Naturals, FiniteSets

CONSTANTS
  Callers,          \* execute() calls of the agent runtime, in all workers
  RequestLimit,     \* dailyRequestLimit, or Unlimited for null
  CostLimit,        \* dailyCostLimitCents, or Unlimited for null
  CostPerRequest,   \* estimatedCostPerRequestCents
  Unlimited,        \* no limit
  LastDay           \* bound of the model: days are 1..LastDay

ASSUME QuotaAssumption ==
  /\ IsFiniteSet(Callers)
  /\ RequestLimit \in Nat \cup {Unlimited}
  /\ CostLimit \in Nat \cup {Unlimited}
  /\ Unlimited \notin Nat
  /\ CostPerRequest \in Nat
  /\ LastDay \in Nat \ {0}

VARIABLES
  day,              \* the calendar day of now()
  ledger,           \* execution_provider_quota_ledger: the totals of a window
  rowLock,          \* who holds the row of a window, a set of at most one
  call,             \* what each caller is doing, and for which window
  sends             \* requests sent on the account of a window (history)

quotaVars == <<day, ledger, rowLock, call, sends>>

Days == 1 .. LastDay
Usage == [requests : Nat, cost : Nat]
NoCall == [at |-> "idle"]

QuotaTypeOK ==
  /\ day \in Days
  /\ ledger \in [Days -> Usage]
  /\ rowLock \in [Days -> SUBSET Callers]
  /\ call \in [Callers -> {NoCall}
                 \cup [at : {"asking", "allowed"}, window : Days]
                 \cup [at : {"locked"}, window : Days, seen : Usage]]
  /\ sends \in [Days -> Nat]

QuotaInit ==
  /\ day = 1
  /\ ledger = [w \in Days |-> [requests |-> 0, cost |-> 0]]
  /\ rowLock = [w \in Days |-> {}]
  /\ call = [c \in Callers |-> NoCall]
  /\ sends = [w \in Days |-> 0]

(* Blocked: the budget has no room for one more request. *)
Blocked(used) ==
  \/ RequestLimit # Unlimited /\ used.requests >= RequestLimit
  \/ CostLimit # Unlimited /\ used.cost + CostPerRequest > CostLimit

Charged(used) ==
  [requests |-> used.requests + 1, cost |-> used.cost + CostPerRequest]

(* The window key is computed before the transaction begins. *)
AskQuota(c) ==
  /\ call[c].at = "idle"
  /\ call' = [call EXCEPT ![c] = [at |-> "asking", window |-> day]]
  /\ UNCHANGED <<day, ledger, rowLock, sends>>

\* Mutant: the row is read without FOR UPDATE.
MutantLockLedger(c) ==
  /\ call[c].at = "asking"
  /\ LET w == call[c].window
     IN call' = [call EXCEPT ![c] =
                   [at |-> "locked", window |-> w, seen |-> ledger[w]]]
  /\ UNCHANGED <<day, ledger, rowLock, sends>>

(* INSERT ... ON CONFLICT DO NOTHING, then SELECT ... FOR UPDATE. *)
LockLedger(c) ==
  /\ call[c].at = "asking"
  /\ LET w == call[c].window
     IN /\ rowLock[w] = {}
        /\ rowLock' = [rowLock EXCEPT ![w] = {c}]
        /\ call' = [call EXCEPT ![c] =
                      [at |-> "locked", window |-> w, seen |-> ledger[w]]]
  /\ UNCHANGED <<day, ledger, sends>>

Consume(c) ==
  /\ call[c].at = "locked"
  /\ ~ Blocked(call[c].seen)
  /\ LET w == call[c].window
     IN /\ ledger' = [ledger EXCEPT ![w] = Charged(call[c].seen)]
        /\ rowLock' = [rowLock EXCEPT ![w] = @ \ {c}]
        /\ call' = [call EXCEPT ![c] = [at |-> "allowed", window |-> w]]
  /\ UNCHANGED <<day, sends>>

(* Throttled, or the transaction fails: nothing is written, the lock goes. *)
LeaveLedger(c) ==
  /\ call[c].at \in {"asking", "locked"}
  /\ rowLock' = [rowLock EXCEPT ![call[c].window] = @ \ {c}]
  /\ call' = [call EXCEPT ![c] = NoCall]
  /\ UNCHANGED <<day, ledger, sends>>

SendRequest(c) ==
  /\ call[c].at = "allowed"
  /\ sends' = [sends EXCEPT ![call[c].window] = @ + 1]
  /\ call' = [call EXCEPT ![c] = NoCall]
  /\ UNCHANGED <<day, ledger, rowLock>>

(* The client's own checks refuse the request, or the worker dies: *)
(* the charge stays.                                                *)
DropRequest(c) ==
  /\ call[c].at = "allowed"
  /\ call' = [call EXCEPT ![c] = NoCall]
  /\ UNCHANGED <<day, ledger, rowLock, sends>>

NextDay ==
  /\ day < LastDay
  /\ day' = day + 1
  /\ UNCHANGED <<ledger, rowLock, call, sends>>

QuotaNext ==
  \/ NextDay
  \/ \E c \in Callers :
       \/ AskQuota(c) \/ LockLedger(c) \/ Consume(c) \/ LeaveLedger(c)
       \/ SendRequest(c) \/ DropRequest(c)

QuotaSpec == QuotaInit /\ [][QuotaNext]_quotaVars

-----------------------------------------------------------------------------
(* However many calls race, and however many die or come back after        *)
(* midnight, what is sent on the account of a day stays within both of its *)
(* limits (checkAndConsume).                                               *)
QuotaHolds ==
  \A w \in Days :
    /\ RequestLimit # Unlimited => sends[w] <= RequestLimit
    /\ CostLimit # Unlimited => sends[w] * CostPerRequest <= CostLimit
=============================================================================
