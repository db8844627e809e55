----------------------------- MODULE Validation -----------------------------
(***************************************************************************)
(* validate of src/spechunter/loop.py on the BOOM backend: 2 * Repeats     *)
(* executions of one program, alternating between the two secrets, on a    *)
(* pool of threads that share the simulator hashes of the Backend.  The    *)
(* simulator (an external runner) may answer, fail, time out, be flaky, or *)
(* be rebuilt between two executions.                                      *)
(***************************************************************************)
EXTENDS Naturals, FiniteSets

CONSTANTS
  Variants,
  Simulators, None,  \* the SHA-256 of the simulators; None: not seen yet
  Output,            \* [Variants -> [Simulators -> [{0, 1} -> SUBSET Observation]]]
  Repeats,
  MaxValidations, MaxRebuilds   \* bounds on the validations of one Backend

Observation == [shown : {0, 1}, events : {"user-load", "transient-load"}]

ASSUME ValidationAssumption ==
  /\ None \notin Simulators
  /\ Output \in [Variants -> [Simulators -> [{0, 1} -> (SUBSET Observation) \ {{}}]]]
  /\ Repeats \in 2..10 /\ MaxValidations \in Nat /\ MaxRebuilds \in Nat

Workers == 4
Requests == 1..(2 * Repeats)

\* secrets = [secret for _ in range(repeats) for secret in (0, 1)]
Secret(r) == (r - 1) % 2

VARIABLES
  phase,     \* of the calling thread
  variant,   \* bug, under validation
  step,      \* of each request: its future and its thread
  prior,     \* what a thread read of the pinned hashes
  reply,     \* the simulator's answer to each request
  awaiting,  \* the request whose result the caller waits for
  pin,       \* _boom_simulator_sha256_by_variant
  firstPin,  \* _boom_simulator_sha256, of whichever variant answered first
  pinLock,   \* _boom_provenance_lock
  verdict,   \* the last Validation
  installed, \* the simulator the runner starts
  validations, rebuilds

caller == <<phase, variant, awaiting, verdict, validations>>
threads == <<step, prior, reply>>
shared == <<pin, firstPin, pinLock>>
external == <<installed, rebuilds>>
vars == <<caller, threads, shared, external>>

Reply == [observation : Observation, simulator : Simulators]
NoReply == [simulator |-> None]

TypeOK ==
  /\ phase \in {"idle", "executing", "cancelling"}
  /\ variant \in Variants
  /\ step \in [Requests -> {"queued", "running", "replied", "checking", "done", "failed", "cancelled"}]
  /\ prior \in [Requests -> Simulators \cup {None}]
  /\ reply \in [Requests -> Reply \cup {NoReply}]
  /\ awaiting \in 1..(2 * Repeats + 1)
  /\ pin \in [Variants -> Simulators \cup {None}]
  /\ firstPin \in Simulators \cup {None}
  /\ pinLock \in Requests \cup {0}
  /\ verdict \in {"none", "inconclusive", "violation", "clean"}
  /\ installed \in [Variants -> Simulators]
  /\ validations \in 0..MaxValidations /\ rebuilds \in 0..MaxRebuilds

Init ==
  /\ phase = "idle" /\ variant \in Variants /\ awaiting = 1 /\ verdict = "none"
  /\ step = [r \in Requests |-> "cancelled"]
  /\ prior = [r \in Requests |-> None]
  /\ reply = [r \in Requests |-> NoReply]
  /\ pin = [v \in Variants |-> None] /\ firstPin = None /\ pinLock = 0
  /\ installed \in [Variants -> Simulators]
  /\ validations = 0 /\ rebuilds = 0

-----------------------------------------------------------------------------
\* The loop validates the next candidate, or the same one on another variant.
Validate ==
  /\ phase = "idle" /\ validations < MaxValidations
  /\ variant' \in Variants
  /\ step' = [r \in Requests |-> "queued"]
  /\ prior' = [r \in Requests |-> None]
  /\ reply' = [r \in Requests |-> NoReply]
  /\ awaiting' = 1 /\ verdict' = "none"
  /\ phase' = "executing"
  /\ validations' = validations + 1
  /\ UNCHANGED <<shared, external>>

Busy == {r \in Requests : step[r] \in {"running", "replied", "checking"}}

\* A free thread takes the oldest queued request.
Start(r) ==
  /\ step[r] = "queued" /\ \A q \in 1..(r - 1) : step[q] # "queued"
  /\ Cardinality(Busy) < Workers
  /\ step' = [step EXCEPT ![r] = "running"]
  /\ UNCHANGED <<caller, prior, reply, shared, external>>

Answer(r) ==
  /\ step[r] = "running"
  /\ \E observation \in Output[variant][installed[variant]][Secret(r)] :
       reply' = [reply EXCEPT ![r] = [observation |-> observation,
                                      simulator |-> installed[variant]]]
  /\ step' = [step EXCEPT ![r] = "replied"]
  /\ UNCHANGED <<caller, prior, shared, external>>

\* A deadline, an exit status, too much output, a mismatched request.
Fail(r) ==
  /\ step[r] = "running"
  /\ step' = [step EXCEPT ![r] = "failed"]
  /\ UNCHANGED <<caller, prior, reply, shared, external>>

AlwaysFree == TRUE
PinLockFree == pinLock = 0

\* with self._boom_provenance_lock: prior = ...get(bug)
ReadPin(r) ==
  /\ step[r] = "replied" /\ PinLockFree
  /\ pinLock' = r
  /\ prior' = [prior EXCEPT ![r] = pin[variant]]
  /\ step' = [step EXCEPT ![r] = "checking"]
  /\ UNCHANGED <<caller, reply, pin, firstPin, external>>

\* The exception of a changed simulator leaves the lock as well.
KeptByFailure(r) == pinLock' = IF prior[r] \in {None, reply[r].simulator} THEN 0 ELSE pinLock
Released(r) == pinLock' = 0

AgreesAlways(r) == TRUE
Agrees(r) == prior[r] \in {None, reply[r].simulator}

\* The simulator is pinned before its observation is parsed, which may still fail.
\* With the thread's execution its local variables end.
Pin(r) ==
  /\ step[r] = "checking" /\ Agrees(r)
  /\ pin' = [pin EXCEPT ![variant] = reply[r].simulator]
  /\ firstPin' = IF firstPin = None THEN reply[r].simulator ELSE firstPin
  /\ \/ step' = [step EXCEPT ![r] = "done"] /\ UNCHANGED reply
     \/ step' = [step EXCEPT ![r] = "failed"] /\ reply' = [reply EXCEPT ![r] = NoReply]
  /\ Released(r)
  /\ prior' = [prior EXCEPT ![r] = None]
  /\ UNCHANGED <<caller, external>>

Changed(r) ==
  /\ step[r] = "checking" /\ ~Agrees(r)
  /\ step' = [step EXCEPT ![r] = "failed"]
  /\ Released(r)
  /\ prior' = [prior EXCEPT ![r] = None]
  /\ reply' = [reply EXCEPT ![r] = NoReply]
  /\ UNCHANGED <<caller, pin, firstPin, external>>

-----------------------------------------------------------------------------
(* list(executor.map(...)) and the verdict                                 *)

Following == awaiting + 1

AwaitNext ==
  /\ phase = "executing" /\ awaiting \in Requests /\ step[awaiting] = "done"
  /\ awaiting' = Following
  /\ UNCHANGED <<phase, variant, verdict, validations, threads, shared, external>>

\* The first failure in request order cancels what no thread has taken.
AwaitFailed ==
  /\ phase = "executing" /\ awaiting \in Requests /\ step[awaiting] = "failed"
  /\ step' = [r \in Requests |-> IF step[r] = "queued" THEN "cancelled" ELSE step[r]]
  /\ phase' = "cancelling"
  /\ UNCHANGED <<variant, awaiting, verdict, validations, prior, reply, shared, external>>

\* Leaving the executor waits for its threads.
JoinedNone == TRUE
Joined == Busy = {}

Abandon ==
  /\ phase = "cancelling" /\ Joined
  /\ verdict' = "inconclusive"
  /\ phase' = "idle"
  /\ UNCHANGED <<variant, awaiting, validations, threads, shared, external>>

Observed(r) == reply[r].observation
Repeated == \A r, q \in Requests : r % 2 = q % 2 => Observed(r) = Observed(q)
DiffersAnyhow == Observed(1) # Observed(2)
Differs == Observed(1).shown # Observed(2).shown

Conclude ==
  /\ phase = "executing" /\ awaiting = 2 * Repeats + 1
  /\ verdict' = IF ~Repeated THEN "inconclusive" ELSE IF Differs THEN "violation" ELSE "clean"
  /\ phase' = "idle"
  /\ UNCHANGED <<variant, awaiting, validations, threads, shared, external>>

\* Somebody rebuilds the simulator the runner starts.
Rebuild ==
  /\ rebuilds < MaxRebuilds
  /\ \E v \in Variants : \E simulator \in Simulators \ {installed[v]} :
       installed' = [installed EXCEPT ![v] = simulator]
  /\ rebuilds' = rebuilds + 1
  /\ UNCHANGED <<caller, threads, shared>>

Thread(r) == Start(r) \/ Answer(r) \/ Fail(r) \/ ReadPin(r) \/ Pin(r) \/ Changed(r)
Caller == AwaitNext \/ AwaitFailed \/ Abandon \/ Conclude
Next == Validate \/ Caller \/ Rebuild \/ \E r \in Requests : Thread(r)

Spec == Init /\ [][Next]_vars

\* Threads are scheduled, and process.run kills what passes its deadline.
FairSpec == Spec /\ WF_vars(Caller) /\ \A r \in Requests : WF_vars(Thread(r))

-----------------------------------------------------------------------------
(* Properties                                                              *)

Conclusive == phase = "idle" /\ verdict \in {"violation", "clean"}

\* A conclusive verdict compares executions of one simulator, the one pinned for
\* its variant, also if the simulator was rebuilt meanwhile (backends.py:193-199).
OneSimulator == Conclusive => \A r \in Requests : reply[r].simulator = pin[variant]

\* What a variant's simulator was seen to be never changes within a Backend, so
\* verdicts of different validations can be compared (backends.py:194-197).
PinsStay == [][\A v \in Variants : pin[v] # None => pin'[v] = pin[v]]_vars

\* On a simulator that answers each secret in one way, a conclusive verdict is the
\* truth about it: answers are compared with those of the other secret whatever
\* the order the threads finish in (backends.py:102-107, loop.py:28-52).
VerdictIsTrue ==
  LET truth == Output[variant][pin[variant]]
  IN Conclusive /\ (\A secret \in {0, 1} : Cardinality(truth[secret]) = 1) =>
       (verdict = "violation" <=>
          {o.shown : o \in truth[0]} # {o.shown : o \in truth[1]})

\* When validate returns no simulator is left running for it and the lock is free:
\* the next validation starts afresh (backends.py:106-107).
NothingLeftRunning == phase = "idle" => Busy = {} /\ pinLock = 0

\* validate returns, whatever fails and in whatever order.
ValidationEnds == phase = "executing" ~> phase = "idle"
=============================================================================
