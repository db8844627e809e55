----------------------------- MODULE CostLedger -----------------------------
(***************************************************************************)
(* CostLedger of src/spechunter/costs.py and the paid calls that use it,   *)
(* VertexGeminiProvider._generate of agents.py: several processes share    *)
(* one JSON file, which each rewrites as a whole while it holds flock on   *)
(* the adjacent lock file.  Processes may die at any point; a new run      *)
(* starts with a new provider and the old file.                            *)
(***************************************************************************)
EXTENDS Naturals
Sums == INSTANCE FiniteSetsExt

CONSTANTS
  Processes, Free,   \* Free: nobody holds the lock
  Amounts,           \* what a call may reserve
  Budget, MaxCalls,
  Retries,
  MaxRuns            \* bound on the runs of a process

ASSUME LedgerAssumption ==
  /\ Free \notin Processes
  /\ Amounts \subseteq Nat \ {0}
  /\ Budget \in Nat \ {0} /\ MaxCalls \in Nat \ {0} /\ Retries \in Nat /\ MaxRuns \in Nat \ {0}

VARIABLES
  file,    \* the entries of the JSON file
  lock,    \* the holder of flock on the lock file
  pc,
  data,    \* what a process read under the lock
  call,    \* the call of a process: its reservation, what to settle it with
  calls,   \* provider.calls
  runs,
  billed   \* what the service charged for each reservation, unknown to the code

vars == <<file, lock, pc, data, call, calls, runs, billed>>

\* uuid4: a process, a run of it and a call of that run.
Ids == Processes \X (1..MaxRuns) \X (1..MaxCalls)
Entry == [id : Ids, state : {"reserved", "settled"}, amount : Nat]
Call == [id : Ids, amount : Amounts, attempt : 0..Retries, charge : Nat,
         outcome : {"pending", "success", "unknown-error"}]
NoCall == [amount |-> 0]

TypeOK ==
  /\ file \subseteq Entry
  /\ lock \in Processes \cup {Free}
  /\ pc \in [Processes -> {"idle", "reserve", "reserving", "request", "settle", "settling",
                           "stopped"}]
  /\ data \in [Processes -> SUBSET Entry]
  /\ call \in [Processes -> Call \cup {NoCall}]
  /\ calls \in [Processes -> 0..MaxCalls]
  /\ runs \in [Processes -> 1..MaxRuns]
  /\ billed \in [Ids -> Nat]

Init ==
  /\ file = {} /\ lock = Free
  /\ pc = [p \in Processes |-> "idle"]
  /\ data = [p \in Processes |-> {}]
  /\ call = [p \in Processes |-> NoCall]
  /\ calls = [p \in Processes |-> 0]
  /\ runs = [p \in Processes |-> 1]
  /\ billed = [id \in Ids |-> 0]

\* _total: the sum of all amounts, reserved and settled alike.
Total(entries) == Sums!MapThenSumSet(LAMBDA entry : entry.amount, entries)

Goto(p, label) == pc' = [pc EXCEPT ![p] = label]
Leave(p, label) == Goto(p, label) /\ call' = [call EXCEPT ![p] = NoCall]

-----------------------------------------------------------------------------
\* _generate up to reserve: the call limit, and the cost estimate.
AtOrBelowLimit(p) == calls[p] <= MaxCalls
BelowLimit(p) == calls[p] < MaxCalls

Begin(p) ==
  /\ pc[p] = "idle" /\ BelowLimit(p)
  /\ \E amount \in Amounts :
       call' = [call EXCEPT ![p] =
                  [id |-> <<p, runs[p], calls[p] + 1>>, amount |-> amount, attempt |-> 0,
                   charge |-> 0, outcome |-> "pending"]]
  /\ Goto(p, "reserve")
  /\ UNCHANGED <<file, lock, data, calls, runs, billed>>

\* flock(LOCK_EX), then _read.
MayLockShared == TRUE
MayLock == lock = Free

LockAndRead(p) ==
  /\ pc[p] \in {"reserve", "settle"} /\ MayLock
  /\ lock' = p
  /\ data' = [data EXCEPT ![p] = file]
  /\ Goto(p, IF pc[p] = "reserve" THEN "reserving" ELSE "settling")
  /\ UNCHANGED <<file, call, calls, runs, billed>>

\* Leaving _locked, normally or with an exception, closes the lock file.
Unlock(p) == lock' = Free /\ data' = [data EXCEPT ![p] = {}]

FitsBefore(entries, amount) == Total(entries) <= Budget
Fits(entries, amount) == Total(entries) + amount <= Budget

Refuse(p) ==
  /\ pc[p] = "reserving" /\ ~Fits(data[p], call[p].amount)
  /\ Unlock(p)
  /\ Leave(p, "stopped")
  /\ UNCHANGED <<file, calls, runs, billed>>

\* _write replaces the file by what was read and the new entry.
Reserve(p) ==
  /\ pc[p] = "reserving" /\ Fits(data[p], call[p].amount)
  /\ file' = data[p] \cup {[id |-> call[p].id, state |-> "reserved", amount |-> call[p].amount]}
  /\ Unlock(p)
  /\ calls' = [calls EXCEPT ![p] = @ + 1]
  /\ Goto(p, "request")
  /\ UNCHANGED <<call, runs, billed>>

-----------------------------------------------------------------------------
\* The service charges at most what was reserved for one request, answered or not.
Charge(p, amount) == billed' = [billed EXCEPT ![call[p].id] = @ + amount]

\* An answer is settled at its price, at the full reservation without usage data.
Answer(p) ==
  /\ pc[p] = "request"
  /\ \E price \in 1..call[p].amount :
       /\ Charge(p, price)
       /\ \E charge \in {price, call[p].amount} :
            call' = [call EXCEPT ![p].charge = charge, ![p].outcome = "success"]
  /\ Goto(p, "settle")
  /\ UNCHANGED <<file, lock, data, calls, runs>>

\* A retryable error with retries left: the request is sent again.
Retry(p) ==
  /\ pc[p] = "request" /\ call[p].attempt < Retries
  /\ \E price \in 0..call[p].amount : Charge(p, price)
  /\ call' = [call EXCEPT ![p].attempt = @ + 1]
  /\ UNCHANGED <<file, lock, pc, data, calls, runs>>

\* What an error is settled with: the code keeps the whole reservation.
ChargeReserved(p) == call[p].amount

\* The last attempt, or an error that is not retryable.
RequestFails(p) ==
  /\ pc[p] = "request"
  /\ \E price \in 0..call[p].amount : Charge(p, price)
  /\ call' = [call EXCEPT ![p].charge = ChargeReserved(p), ![p].outcome = "unknown-error"]
  /\ Goto(p, "settle")
  /\ UNCHANGED <<file, lock, data, calls, runs>>

-----------------------------------------------------------------------------
Pending(p) == {entry \in data[p] : entry.id = call[p].id}

\* settle: success goes on to the next call unless the answer is not an object;
\* an error is raised again.
Settle(p) ==
  /\ pc[p] = "settling"
  /\ file' = (data[p] \ Pending(p))
               \cup {[id |-> call[p].id, state |-> "settled", amount |-> call[p].charge]}
  /\ Unlock(p)
  /\ \/ call[p].outcome = "success" /\ Leave(p, "idle")
     \/ Leave(p, "stopped")
  /\ UNCHANGED <<calls, runs, billed>>

\* _write raises before os.replace: the file stays as it was.  A success that
\* could not be settled is settled once more, as an unknown error.
ReserveWriteFails(p) ==
  /\ pc[p] = "reserving" /\ Fits(data[p], call[p].amount)
  /\ Unlock(p)
  /\ Leave(p, "stopped")
  /\ UNCHANGED <<file, calls, runs, billed>>

SettleWriteFails(p) ==
  /\ pc[p] = "settling"
  /\ Unlock(p)
  /\ IF call[p].outcome = "success"
     THEN /\ call' = [call EXCEPT ![p].charge = ChargeReserved(p), ![p].outcome = "unknown-error"]
          /\ Goto(p, "settle")
     ELSE Leave(p, "stopped")
  /\ UNCHANGED <<file, calls, runs, billed>>

\* The process dies; the kernel releases its lock.
ReleasesNothing(p) == UNCHANGED <<lock, data>>
ReleaseOfDead(p) == IF lock = p THEN Unlock(p) ELSE UNCHANGED <<lock, data>>

Crash(p) ==
  /\ pc[p] \notin {"idle", "stopped"}
  /\ ReleaseOfDead(p)
  /\ Leave(p, "stopped")
  /\ UNCHANGED <<file, calls, runs, billed>>

\* The next run of the command: a new provider, the same ledger.
Restart(p) ==
  /\ pc[p] = "stopped" /\ runs[p] < MaxRuns
  /\ runs' = [runs EXCEPT ![p] = @ + 1]
  /\ calls' = [calls EXCEPT ![p] = 0]
  /\ Goto(p, "idle")
  /\ UNCHANGED <<file, lock, data, call, billed>>

Locked(p) ==
  \/ LockAndRead(p) \/ Refuse(p) \/ Reserve(p) \/ ReserveWriteFails(p)
  \/ Settle(p) \/ SettleWriteFails(p)
Requests(p) == Begin(p) \/ Answer(p) \/ Retry(p) \/ RequestFails(p)
Next == \E p \in Processes : Locked(p) \/ Requests(p) \/ Crash(p) \/ Restart(p)

Spec == Init /\ [][Next]_vars

\* The kernel grants a free lock and the file system answers; the service may
\* hang for ever (generate_content is called without a timeout).
FairSpec == Spec /\ \A p \in Processes : WF_vars(Locked(p))

-----------------------------------------------------------------------------
(* Properties                                                              *)

\* The accounted total never passes the budget, whatever processes, crashes and
\* restarts share the file (costs.py:107-125).
WithinBudget == Total(file) <= Budget

\* A call past reserve finds its own entry in the file, reserved, until it settles
\* it: no other process's rewrite loses it (costs.py:138-140 never raises).
ReservationKept ==
  \A p \in Processes : pc[p] \in {"request", "settle", "settling"} =>
    [id |-> call[p].id, state |-> "reserved", amount |-> call[p].amount] \in file

\* Money the service may have charged is accounted for, by the reservation or by
\* the settlement, also after errors, lost writes and crashes (agents.py:190-193,
\* docs/DEVELOPMENT.md:47-49).
BilledIsAccounted ==
  \A id \in Ids : billed[id] > 0 => \E entry \in file : entry.id = id /\ billed[id] <= entry.amount

\* What makes the above inductive: the lock keeps what was read current, and the
\* identifiers of a process run ahead of those in the file.
LockProtects ==
  \A p \in Processes : pc[p] \in {"reserving", "settling"} => lock = p /\ data[p] = file
CallsNumbered ==
  \A p \in Processes : pc[p] \notin {"idle", "stopped"} =>
    /\ call[p] \in Call
    /\ call[p].id = <<p, runs[p], IF pc[p] \in {"reserve", "reserving"} THEN calls[p] + 1 ELSE calls[p]>>
    /\ call[p].charge <= call[p].amount
IdsUnique == \A e, f \in file : e.id = f.id => e = f
IdsUsed ==
  \A e \in file : \E p \in Processes, run \in 1..MaxRuns, n \in 1..MaxCalls :
    e.id = <<p, run, n>> /\ (run < runs[p] \/ (run = runs[p] /\ n <= calls[p]))
FileProtected == LockProtects /\ CallsNumbered /\ IdsUnique /\ IdsUsed

\* The locked file implements the atomic ledger.
Atomic == INSTANCE AtomicLedger WITH entries <- file
ImplementsAtomicLedger == Atomic!Spec

\* Whoever waits for the ledger gets it: nobody keeps the lock, neither by dying
\* nor during a request that may hang (costs.py:69-77, agents.py:139-193).
LockGranted ==
  \A p \in Processes, waiting \in {"reserve", "settle"} : pc[p] = waiting ~> pc[p] # waiting
=============================================================================
