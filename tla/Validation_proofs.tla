------------------------- MODULE Validation_proofs -------------------------
(***************************************************************************)
(* For any number of repetitions, simulators and variants: verdicts come   *)
(* from the one simulator pinned for their variant, and are true of it if  *)
(* it repeats itself; pins never change, and a validation leaves nothing   *)
(* behind.                                                                 *)
(***************************************************************************)
EXTENDS Validation, FiniteSetTheorems, TLAPS

USE DEF caller, threads, shared, external

Steps == {"queued", "running", "replied", "checking", "done", "failed", "cancelled"}

\* The part of TypeOK the invariants need.
Typed ==
  /\ step \in [Requests -> Steps]
  /\ prior \in [Requests -> Simulators \cup {None}]
  /\ reply \in [Requests -> Reply \cup {NoReply}]
  /\ pin \in [Variants -> Simulators \cup {None}]
  /\ variant \in Variants
  /\ installed \in [Variants -> Simulators]
  /\ awaiting \in 1..(2 * Repeats + 1)

\* Who checks a pin holds its lock, and has read the current one.
Checked ==
  /\ \A r \in Requests : step[r] = "checking" => pinLock = r /\ prior[r] = pin[variant]
  /\ pinLock # 0 => pinLock \in Requests /\ step[pinLock] = "checking"

\* An accepted answer is of the pinned simulator.
Accepted ==
  \A r \in Requests :
    /\ step[r] \in {"replied", "checking", "done"} => reply[r].simulator \in Simulators
    /\ step[r] = "done" => reply[r].simulator = pin[variant]

\* An answer is one the simulator that gave it has for the secret of its request.
Told ==
  \A r \in Requests : step[r] \in {"replied", "checking", "done"} =>
    reply[r].observation \in Output[variant][reply[r].simulator][Secret(r)]

\* A conclusive verdict stands for the answers it was concluded from.
Compared == Conclusive => Repeated /\ (verdict = "violation" <=> Differs)

\* The caller has waited for what it passed, and concludes from all of it.
Awaited ==
  /\ phase = "executing" => \A r \in 1..(awaiting - 1) : step[r] = "done"
  /\ phase = "cancelling" => \A r \in Requests : step[r] # "queued"
  /\ phase = "idle" => \A r \in Requests : step[r] \in {"done", "failed", "cancelled"}
  /\ Conclusive => \A r \in Requests : step[r] = "done"

Inv == Typed /\ Checked /\ Accepted /\ Awaited

\* The steps, grouped as the proofs below treat them.
LEMMA NextCases ==
  ASSUME Inv, [Next]_vars
  PROVE  \/ Validate \/ AwaitNext \/ AwaitFailed \/ Abandon \/ Conclude \/ Rebuild
         \/ (\E r \in Requests : Start(r) \/ Answer(r) \/ Fail(r))
         \/ (\E r \in Requests : ReadPin(r) \/ Pin(r) \/ Changed(r))
         \/ UNCHANGED vars
  BY DEF Next, Caller, Thread

\* Requests are numbered from one, and zero holds no lock.
LEMMA RequestFacts ==
  /\ Requests \subseteq Nat /\ 0 \notin Requests /\ Repeats \in Nat /\ 2 * Repeats + 1 \in Nat
  /\ \A n \in 1..(2 * Repeats + 1) : n # 2 * Repeats + 1 => n \in Requests
  BY ValidationAssumption DEF ValidationAssumption, Requests

\* Types survive every step.
LEMMA TypedPreserved ==
  ASSUME Inv, [Next]_vars
  PROVE  Typed'
<1> USE RequestFacts DEF Inv, Typed
<1>1. CASE Validate
  BY <1>1 DEF Validate, Steps
<1>2. CASE AwaitNext
  <2>1. awaiting + 1 \in 1..(2 * Repeats + 1)
    BY <1>2 DEF AwaitNext, Requests
  <2>2. QED
    BY <1>2, <2>1 DEF AwaitNext, Following
<1>3. CASE AwaitFailed
  BY <1>3 DEF AwaitFailed, Steps
<1>4. CASE Abandon \/ Conclude
  BY <1>4 DEF Abandon, Conclude
<1>5. CASE Rebuild
  BY <1>5 DEF Rebuild
<1>6. ASSUME NEW r \in Requests, Start(r) \/ Fail(r) PROVE Typed'
  BY <1>6 DEF Start, Fail, Steps
<1>7. ASSUME NEW r \in Requests, Answer(r) PROVE Typed'
  <2>1. PICK observation \in Output[variant][installed[variant]][Secret(r)] :
          reply' = [reply EXCEPT ![r] = [observation |-> observation,
                                         simulator |-> installed[variant]]]
    BY <1>7 DEF Answer
  <2>2. Secret(r) \in {0, 1}
    BY DEF Secret
  <2>3. observation \in Observation
    <3>1. installed[variant] \in Simulators
      OBVIOUS
    <3>2. Output[variant][installed[variant]] \in [{0, 1} -> (SUBSET Observation) \ {{}}]
      BY <3>1, ValidationAssumption DEF ValidationAssumption
    <3>3. QED
      BY <2>2, <3>2
  <2>4. [observation |-> observation, simulator |-> installed[variant]] \in Reply
    BY <2>3 DEF Reply
  <2>5. reply' \in [Requests -> Reply \cup {NoReply}]
    BY <2>1, <2>4
  <2>6. QED
    BY <1>7, <2>5 DEF Answer, Steps
<1>8. ASSUME NEW r \in Requests, ReadPin(r) PROVE Typed'
  BY <1>8 DEF ReadPin, Steps
<1>9. ASSUME NEW r \in Requests, Pin(r) PROVE Typed'
  <2>1. reply[r].simulator \in Simulators
    BY <1>9 DEF Pin, Accepted
  <2>2. QED
    BY <1>9, <2>1 DEF Pin, Steps
<1>10. ASSUME NEW r \in Requests, Changed(r) PROVE Typed'
  BY <1>10 DEF Changed, Steps
<1>11. CASE UNCHANGED vars
  BY <1>11 DEF vars
<1>12. QED
  BY <1>1, <1>2, <1>3, <1>4, <1>5, <1>6, <1>7, <1>8, <1>9, <1>10, <1>11, NextCases

\* One thread at a time checks a pin, against the current one.
LEMMA CheckedPreserved ==
  ASSUME Inv, [Next]_vars
  PROVE  Checked'
<1> USE RequestFacts DEF Inv, Typed, Checked
<1>1. CASE Validate
  <2>1. pinLock = 0
    BY <1>1 DEF Validate, Awaited
  <2>2. QED
    BY <1>1, <2>1 DEF Validate
<1>2. CASE AwaitNext \/ Abandon \/ Conclude \/ Rebuild
  BY <1>2 DEF AwaitNext, Abandon, Conclude, Rebuild
<1>3. CASE AwaitFailed
  BY <1>3 DEF AwaitFailed
<1>4. ASSUME NEW r \in Requests, Start(r) \/ Answer(r) \/ Fail(r) PROVE Checked'
  <2>1. /\ step[r] \in {"queued", "running"}
        /\ \E s \in {"running", "replied", "failed"} : step' = [step EXCEPT ![r] = s]
        /\ UNCHANGED <<prior, pin, pinLock, variant>>
    BY <1>4 DEF Start, Answer, Fail
  <2>2. \A q \in Requests : step'[q] = "checking" <=> step[q] = "checking"
    BY <2>1
  <2>3. QED
    BY <2>1, <2>2
<1>5. ASSUME NEW r \in Requests, ReadPin(r) PROVE Checked'
  BY <1>5 DEF ReadPin, PinLockFree
<1>6. ASSUME NEW r \in Requests, Pin(r) \/ Changed(r) PROVE Checked'
  BY <1>6 DEF Pin, Changed, Released
<1>7. CASE UNCHANGED vars
  BY <1>7 DEF vars
<1>8. QED
  BY <1>1, <1>2, <1>3, <1>4, <1>5, <1>6, <1>7, NextCases

\* Only an unpinned variant is pinned anew.
LEMMA PinAgrees ==
  ASSUME Inv, NEW r \in Requests, Pin(r)
  PROVE  /\ pin[variant] \in {None, reply[r].simulator}
         /\ pin' = [pin EXCEPT ![variant] = reply[r].simulator]
  BY DEF Inv, Checked, Pin, Agrees

\* Accepted answers stay those of the pinned simulator.
LEMMA AcceptedPreserved ==
  ASSUME Inv, [Next]_vars
  PROVE  Accepted'
<1> USE RequestFacts DEF Inv, Typed, Accepted
<1>1. CASE Validate
  BY <1>1 DEF Validate
<1>2. CASE AwaitNext \/ Abandon \/ Conclude \/ Rebuild
  BY <1>2 DEF AwaitNext, Abandon, Conclude, Rebuild
<1>3. CASE AwaitFailed
  BY <1>3 DEF AwaitFailed
<1>4. ASSUME NEW r \in Requests, Start(r) \/ Fail(r) \/ ReadPin(r) \/ Changed(r) PROVE Accepted'
  BY <1>4 DEF Start, Fail, ReadPin, Changed
<1>5. ASSUME NEW r \in Requests, Answer(r) PROVE Accepted'
  <2>1. PICK observation : reply' = [reply EXCEPT ![r] = [observation |-> observation,
                                                          simulator |-> installed[variant]]]
    BY <1>5 DEF Answer
  <2>2. installed[variant] \in Simulators
    OBVIOUS
  <2>3. QED
    BY <1>5, <2>1, <2>2 DEF Answer
<1>6. ASSUME NEW r \in Requests, Pin(r) PROVE Accepted'
  <2>1. \A q \in Requests : step[q] = "done" => reply[q].simulator = reply[r].simulator
    BY <1>6, PinAgrees, ValidationAssumption DEF ValidationAssumption
  <2>2. pin'[variant] = reply[r].simulator /\ variant' = variant /\ step[r] = "checking"
    BY <1>6 DEF Pin, Released
  <2>3. CASE step' = [step EXCEPT ![r] = "done"] /\ UNCHANGED reply
    BY <2>1, <2>2, <2>3
  <2>4. CASE step' = [step EXCEPT ![r] = "failed"] /\ reply' = [reply EXCEPT ![r] = NoReply]
    BY <2>1, <2>2, <2>4
  <2>5. QED
    BY <1>6, <2>3, <2>4 DEF Pin
<1>7. CASE UNCHANGED vars
  BY <1>7 DEF vars
<1>8. QED
  BY <1>1, <1>2, <1>3, <1>4, <1>5, <1>6, <1>7, NextCases

\* The caller goes on only past requests that are done, and leaves none running.
LEMMA AwaitedPreserved ==
  ASSUME Inv, [Next]_vars
  PROVE  Awaited'
<1> USE RequestFacts DEF Inv, Typed, Awaited, Conclusive
<1>1. CASE Validate
  BY <1>1 DEF Validate
<1>2. CASE AwaitNext
  BY <1>2 DEF AwaitNext, Following, Requests
<1>3. CASE AwaitFailed
  BY <1>3 DEF AwaitFailed
<1>4. CASE Abandon
  <2>1. \A r \in Requests : step[r] \in {"done", "failed", "cancelled"}
    BY <1>4 DEF Abandon, Joined, Busy, Steps
  <2>2. QED
    BY <1>4, <2>1 DEF Abandon
<1>5. CASE Conclude
  <2>1. \A r \in Requests : step[r] = "done"
    BY <1>5 DEF Conclude, Requests
  <2>2. QED
    BY <1>5, <2>1 DEF Conclude
<1>6. CASE Rebuild
  BY <1>6 DEF Rebuild
<1>7. ASSUME NEW r \in Requests,
             Start(r) \/ Answer(r) \/ Fail(r) \/ ReadPin(r) \/ Pin(r) \/ Changed(r)
      PROVE  Awaited'
  <2>1. /\ step[r] \in {"queued", "running", "replied", "checking"}
        /\ UNCHANGED <<phase, awaiting, verdict>>
        /\ \E s \in Steps \ {"queued"} : step' = [step EXCEPT ![r] = s]
    BY <1>7 DEF Start, Answer, Fail, ReadPin, Pin, Changed, Steps
  <2>2. phase # "idle"
    BY <2>1
  <2>3. \A q \in Requests : step[q] = "done" => step'[q] = "done"
    BY <2>1
  <2>4. \A q \in 1..(awaiting - 1) : q \in Requests
    BY DEF Requests
  <2>5. QED
    BY <2>1, <2>2, <2>3, <2>4
<1>8. CASE UNCHANGED vars
  BY <1>8 DEF vars
<1>9. QED
  BY <1>1, <1>2, <1>3, <1>4, <1>5, <1>6, <1>7, <1>8, NextCases

\* The inductive invariant of a validation.
LEMMA InvInductive == Spec => []Inv
<1>1. Init => Inv
  BY RequestFacts DEF Init, Inv, Typed, Checked, Accepted, Awaited, Conclusive, Steps
<1>2. Inv /\ [Next]_vars => Inv'
  BY TypedPreserved, CheckedPreserved, AcceptedPreserved, AwaitedPreserved DEF Inv
<1>3. QED
  BY <1>1, <1>2, PTL DEF Spec

\* The variables of a validation keep their types, its counters their bounds.
THEOREM TypeCorrect == Spec => []TypeOK
<1>1. Init => TypeOK
  BY RequestFacts, ValidationAssumption DEF Init, TypeOK, ValidationAssumption
<1>2. ASSUME Inv, TypeOK, [Next]_vars PROVE TypeOK'
  <2>1. Typed'
    BY <1>2, TypedPreserved
  <2>2. pinLock' \in Requests \cup {0}
    BY <1>2, RequestFacts, NextCases DEF TypeOK, Validate, AwaitNext, AwaitFailed, Abandon,
       Conclude, Rebuild, Start, Answer, Fail, ReadPin, Pin, Changed, Released, vars
  <2>3. firstPin' \in Simulators \cup {None}
    <3>1. ASSUME NEW r \in Requests, Pin(r) PROVE firstPin' \in Simulators \cup {None}
      <4>1. reply[r].simulator \in Simulators
        BY <1>2, <3>1 DEF Inv, Accepted, Pin
      <4>2. QED
        BY <1>2, <3>1, <4>1 DEF TypeOK, Pin
    <3>2. CASE UNCHANGED firstPin
      BY <1>2, <3>2 DEF TypeOK
    <3>3. QED
      BY <1>2, <3>1, <3>2, NextCases DEF Validate, AwaitNext, AwaitFailed, Abandon,
         Conclude, Rebuild, Start, Answer, Fail, ReadPin, Changed, vars
  <2>4. /\ phase' \in {"idle", "executing", "cancelling"}
        /\ verdict' \in {"none", "inconclusive", "violation", "clean"}
        /\ validations' \in 0..MaxValidations /\ rebuilds' \in 0..MaxRebuilds
    <3>1. CASE Validate
      BY <1>2, <3>1, ValidationAssumption DEF TypeOK, Validate, ValidationAssumption
    <3>2. CASE Rebuild
      BY <1>2, <3>2, ValidationAssumption DEF TypeOK, Rebuild, ValidationAssumption
    <3>3. CASE AwaitNext \/ AwaitFailed \/ Abandon \/ Conclude \/ UNCHANGED vars
      BY <1>2, <3>3 DEF TypeOK, AwaitNext, AwaitFailed, Abandon, Conclude, vars
    <3>4. ASSUME NEW r \in Requests,
                 Start(r) \/ Answer(r) \/ Fail(r) \/ ReadPin(r) \/ Pin(r) \/ Changed(r)
          PROVE  UNCHANGED <<phase, verdict, validations, rebuilds>>
      BY <3>4 DEF Start, Answer, Fail, ReadPin, Pin, Changed
    <3>5. CASE UNCHANGED <<phase, verdict, validations, rebuilds>>
      BY <1>2, <3>5 DEF TypeOK
    <3>6. QED
      BY <1>2, <3>1, <3>2, <3>3, <3>4, <3>5, NextCases
  <2>5. QED
    BY <2>1, <2>2, <2>3, <2>4 DEF Typed, TypeOK, Steps
<1>3. QED
  BY <1>1, <1>2, InvInductive, PTL DEF Spec

\* A conclusive verdict compares executions of the one simulator pinned for its
\* variant (backends.py:193-199, loop.py:25-46).
THEOREM OneSimulatorOnly == Spec => []OneSimulator
<1>1. Inv => OneSimulator
  BY DEF Inv, Awaited, Accepted, OneSimulator
<1>2. QED
  BY <1>1, InvInductive, PTL

\* validate returns only when its threads have ended and the lock is free
\* (backends.py:106-107).
THEOREM NothingLeft == Spec => []NothingLeftRunning
<1>1. Inv => NothingLeftRunning
  BY RequestFacts DEF Inv, Awaited, Checked, NothingLeftRunning, Busy
<1>2. QED
  BY <1>1, InvInductive, PTL

\* The simulator a variant was first seen with stays its simulator
\* (backends.py:193-199).
THEOREM PinsNeverChange == Spec => PinsStay
<1>1. Inv /\ [Next]_vars => [\A v \in Variants : pin[v] # None => pin'[v] = pin[v]]_vars
  <2>1. SUFFICES ASSUME Inv, [Next]_vars, NEW v \in Variants, pin[v] # None PROVE pin'[v] = pin[v]
    OBVIOUS
  <2>2. ASSUME NEW r \in Requests, Pin(r) PROVE pin'[v] = pin[v]
    BY <2>1, <2>2, PinAgrees DEF Inv, Typed
  <2>3. CASE UNCHANGED pin
    BY <2>3
  <2>4. QED
    BY <2>1, <2>2, <2>3, NextCases DEF Validate, AwaitNext, AwaitFailed, Abandon, Conclude,
       Rebuild, Start, Answer, Fail, ReadPin, Changed, vars
<1>2. QED
  BY <1>1, InvInductive, PTL DEF Spec, PinsStay

-----------------------------------------------------------------------------
\* What each step keeps of the answers: each is one of its simulator's.
LEMMA ToldPreserved ==
  ASSUME Inv, Told, [Next]_vars
  PROVE  Told'
<1> USE DEF Inv, Typed, Told
<1>1. CASE Validate
  BY <1>1 DEF Validate
<1>2. CASE AwaitNext \/ Abandon \/ Conclude \/ Rebuild \/ UNCHANGED vars
  BY <1>2 DEF AwaitNext, Abandon, Conclude, Rebuild, vars
<1>3. CASE AwaitFailed
  BY <1>3 DEF AwaitFailed
<1>4. ASSUME NEW r \in Requests, Start(r) \/ Fail(r) \/ ReadPin(r) \/ Changed(r) PROVE Told'
  BY <1>4 DEF Start, Fail, ReadPin, Changed
<1>5. ASSUME NEW r \in Requests, Answer(r) PROVE Told'
  <2>1. PICK observation \in Output[variant][installed[variant]][Secret(r)] :
          reply' = [reply EXCEPT ![r] = [observation |-> observation,
                                         simulator |-> installed[variant]]]
    BY <1>5 DEF Answer
  <2>2. reply'[r].observation = observation /\ reply'[r].simulator = installed[variant]
    BY <2>1
  <2>3. QED
    BY <1>5, <2>1, <2>2 DEF Answer
<1>6. ASSUME NEW r \in Requests, Pin(r) PROVE Told'
  BY <1>6 DEF Pin
<1>7. QED
  BY <1>1, <1>2, <1>3, <1>4, <1>5, <1>6, NextCases

\* The verdict and its answers change together or not at all.
LEMMA ComparedPreserved ==
  ASSUME Inv, Compared, [Next]_vars
  PROVE  Compared'
<1> USE DEF Compared, Conclusive, Repeated, Differs, Observed
<1>1. CASE Validate \/ AwaitNext \/ AwaitFailed
  BY <1>1 DEF Validate, AwaitNext, AwaitFailed
<1>2. CASE Abandon
  BY <1>2 DEF Abandon
<1>3. CASE Conclude
  BY <1>3 DEF Conclude
<1>4. CASE Rebuild \/ UNCHANGED vars
  BY <1>4 DEF Rebuild, vars
<1>5. ASSUME NEW r \in Requests,
             Start(r) \/ Answer(r) \/ Fail(r) \/ ReadPin(r) \/ Pin(r) \/ Changed(r)
      PROVE  Compared'
  <2>1. step[r] \in {"queued", "running", "replied", "checking"} /\ phase' = phase
    BY <1>5 DEF Start, Answer, Fail, ReadPin, Pin, Changed
  <2>2. phase' # "idle"
    BY <2>1 DEF Inv, Awaited
  <2>3. QED
    BY <2>2
<1>6. QED
  BY <1>1, <1>2, <1>3, <1>4, <1>5, NextCases

\* There are finitely many observations, so a set of them with cardinality one
\* has one element.
LEMMA OneObservation ==
  ASSUME NEW S \in SUBSET Observation, Cardinality(S) = 1, NEW o \in S
  PROVE  S = {o}
<1>1. Observation \subseteq {[shown |-> 0, events |-> "user-load"],
                            [shown |-> 0, events |-> "transient-load"],
                            [shown |-> 1, events |-> "user-load"],
                            [shown |-> 1, events |-> "transient-load"]}
  BY DEF Observation
<1>2. \A a, b, c, d : IsFiniteSet({a, b, c, d})
  <2>1. TAKE a, b, c, d
  <2>2. IsFiniteSet({a})
    BY FS_Singleton
  <2>3. IsFiniteSet({a} \cup {b})
    BY <2>2, FS_AddElement
  <2>4. IsFiniteSet(({a} \cup {b}) \cup {c})
    BY <2>3, FS_AddElement
  <2>5. IsFiniteSet((({a} \cup {b}) \cup {c}) \cup {d})
    BY <2>4, FS_AddElement
  <2>6. {a, b, c, d} = (({a} \cup {b}) \cup {c}) \cup {d}
    OBVIOUS
  <2>7. QED
    BY <2>5, <2>6
<1>3. IsFiniteSet(S)
  <2>1. IsFiniteSet({[shown |-> 0, events |-> "user-load"],
                     [shown |-> 0, events |-> "transient-load"],
                     [shown |-> 1, events |-> "user-load"],
                     [shown |-> 1, events |-> "transient-load"]})
    BY <1>2
  <2>2. QED
    BY <1>1, <2>1, FS_Subset
<1>4. \E x : S = {x}
  BY <1>3, FS_Singleton
<1>5. QED
  BY <1>4

\* On a simulator with one answer for each secret, a conclusive verdict says
\* whether the answers to the two secrets differ, in whatever order the threads
\* came to their results (backends.py:102-107, loop.py:28-52).
THEOREM VerdictTrue == Spec => []VerdictIsTrue
<1>1. Init => Told /\ Compared
  BY DEF Init, Told, Compared, Conclusive
<1>2. ASSUME Inv, Told, Compared PROVE VerdictIsTrue
  <2> DEFINE truth == Output[variant][pin[variant]]
  <2>1. SUFFICES ASSUME Conclusive, \A secret \in {0, 1} : Cardinality(truth[secret]) = 1
                 PROVE  verdict = "violation" <=>
                          {o.shown : o \in truth[0]} # {o.shown : o \in truth[1]}
    BY DEF VerdictIsTrue
  <2>2. 1 \in Requests /\ 2 \in Requests /\ Secret(1) = 0 /\ Secret(2) = 1
    BY ValidationAssumption DEF ValidationAssumption, Requests, Secret
  <2>3. \A r \in Requests :
          step[r] = "done" /\ reply[r].simulator = pin[variant] /\ pin[variant] \in Simulators
    BY <1>2, <2>1 DEF Inv, Awaited, Accepted
  <2>4. reply[1].observation \in truth[0] /\ reply[2].observation \in truth[1]
    BY <1>2, <2>2, <2>3 DEF Told
  <2>5. truth[0] \in SUBSET Observation /\ truth[1] \in SUBSET Observation
    BY <1>2, <2>2, <2>3, ValidationAssumption DEF ValidationAssumption, Inv, Typed
  <2> HIDE DEF truth
  <2>6. truth[0] = {reply[1].observation} /\ truth[1] = {reply[2].observation}
    BY <2>1, <2>4, <2>5, OneObservation
  <2>7. verdict = "violation" <=> reply[1].observation.shown # reply[2].observation.shown
    BY <1>2, <2>1 DEF Compared, Differs, Observed
  <2>8. /\ {o.shown : o \in truth[0]} = {reply[1].observation.shown}
        /\ {o.shown : o \in truth[1]} = {reply[2].observation.shown}
    BY <2>6
  <2>9. QED
    BY <2>7, <2>8
<1>3. Inv /\ Told /\ Compared /\ [Next]_vars => Told' /\ Compared'
  BY ToldPreserved, ComparedPreserved
<1>4. QED
  BY <1>1, <1>2, <1>3, InvInductive, PTL DEF Spec
=============================================================================
