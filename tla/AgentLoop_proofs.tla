-------------------------- MODULE AgentLoop_proofs --------------------------
(***************************************************************************)
(* Theorems about AgentLoop, for all programs, validators, benchmarks and  *)
(* limits LoopAssumption allows.  TypeOK and FlagsHaveReasons are          *)
(* inductive together; the other results follow from them.                 *)
(***************************************************************************)
EXTENDS AgentLoop, TLAPS

USE DEF counters, flags, verdict, repairState, Statuses, Null

\* Names for the steps of the loop, without those that leave the state alone.
LEMMA NextCases ==
  ASSUME [Next]_vars
  PROVE  \/ Recon \/ Attack \/ Exhausted \/ AttemptsSpent
         \/ Inconclusive \/ CleanForRepair \/ CleanUnrepaired \/ Violation
         \/ NotReproduced \/ FindingAtLimit \/ FindingToRepair \/ Repair
         \/ EndCycle \/ ProviderRaises \/ UNCHANGED vars
  BY DEF Next

\* An answer of the validator about a program is a status.
LEMMA AnswersAreStatuses ==
  ASSUME NEW p \in Programs, NEW v \in Variants
  PROVE  Outcomes[p][v] \subseteq Statuses
  BY LoopAssumption DEF LoopAssumption

\* An event the validator records is of the running cycle and the active variant.
LEMMA RecordedEvents ==
  ASSUME TypeOK, candidate \in Programs, NEW status \in Statuses,
         NEW baseline \in Statuses \cup {Null}, Record(status, baseline)
  PROVE  log' \subseteq Event
<1>1. Eligible \in BOOLEAN
  BY DEF TypeOK, Eligible, Distinct
<1>2. cycle \in Nat
  BY LoopAssumption DEF LoopAssumption, TypeOK
<1>3. [cycle |-> cycle, program |-> candidate, variant |-> active, status |-> status,
       eligible |-> Eligible, baseline |-> baseline] \in Event
  BY <1>1, <1>2 DEF TypeOK, Event
<1>4. QED
  BY <1>3 DEF Record, TypeOK

\* The invariants of the control flow hold at the start.
LEMMA TypeInitial == Init => TypeOK /\ Position
<1>1. SUFFICES ASSUME Init PROVE TypeOK /\ Position
  OBVIOUS
<1>2. /\ cycle \in 0..ReconCycles /\ attempt \in 0..AttackLimit /\ round \in 0..RepairLimit
      /\ cycle < ReconCycles
  BY <1>1, LoopAssumption DEF LoopAssumption, Init
<1>3. findings \in Seq(Finding) /\ log \subseteq Event
  BY <1>1 DEF Init
<1>4. active \in Variants
  BY <1>1, LoopAssumption DEF LoopAssumption, Init, Variants
<1>5. QED
  BY <1>1, <1>2, <1>3, <1>4 DEF Init, TypeOK, Position

\* Types and positions survive every step of the loop.
LEMMA TypePreserved ==
  ASSUME TypeOK, Position, [Next]_vars
  PROVE  TypeOK' /\ Position'
<1> USE LoopAssumption DEF LoopAssumption
<1>1. CASE Recon
  <2>1. cycle' \in 0..ReconCycles /\ attempt' \in 0..AttackLimit
    BY <1>1 DEF Recon, TypeOK, Position
  <2>2. /\ repaired' \in BOOLEAN /\ exhausted' = FALSE
        /\ verified' = FALSE /\ cleanSince' = FALSE /\ novelClean' = FALSE
    BY <1>1 DEF Recon, ForgetVerdict
  <2>3. QED
    BY <1>1, <2>1, <2>2 DEF Recon, TypeOK, Position
<1>2. CASE Attack
  BY <1>2 DEF Attack, NextAttempt, Decisions, TypeOK, Position
<1>3. CASE Exhausted
  BY <1>3 DEF Exhausted, NextAttempt, Proven, TypeOK, Position
<1>4. CASE AttemptsSpent
  BY <1>4 DEF AttemptsSpent, TypeOK, Position
<1>5. CASE Inconclusive
  BY <1>5 DEF Inconclusive, TypeOK, Position
<1>6. CASE CleanForRepair
  <2>1. PICK baseline \in BaselineAnswers :
          /\ novelClean' = (novelClean \/ Novel(baseline))
          /\ Record("clean", baseline)
    BY <1>6 DEF CleanForRepair
  <2>2. Bug \in Variants /\ candidate \in Programs
    BY <1>6 DEF CleanForRepair, Position, Variants
  <2>3. baseline \in Statuses \cup {Null}
    BY <2>1, <2>2, AnswersAreStatuses DEF BaselineAnswers
  <2>4. log' \subseteq Event
    BY <2>1, <2>2, <2>3, RecordedEvents
  <2>5. novelClean' \in BOOLEAN
    BY <2>1 DEF Novel, TypeOK
  <2>6. QED
    BY <1>6, <2>4, <2>5 DEF CleanForRepair, TypeOK, Position
<1>7. CASE CleanUnrepaired
  <2>1. candidate \in Programs
    BY <1>7 DEF CleanUnrepaired, Position
  <2>2. log' \subseteq Event
    BY <1>7, <2>1, RecordedEvents DEF CleanUnrepaired
  <2>3. QED
    BY <1>7, <2>2 DEF CleanUnrepaired, TypeOK, Position
<1>8. CASE Violation
  <2>1. candidate \in Programs
    BY <1>8 DEF Violation, Position
  <2>2. log' \subseteq Event
    BY <1>8, <2>1, RecordedEvents DEF Violation
  <2>3. QED
    BY <1>8, <2>2 DEF Violation, ForgetVerdict, TypeOK, Position
<1>9. CASE NotReproduced
  BY <1>9 DEF NotReproduced, TypeOK, Position
<1>10. ASSUME NEW p \in Programs, Reproduced(p)
       PROVE  findings' \in Seq(Finding)
  <2>1. [cycle |-> cycle, program |-> p, variant |-> active] \in Finding
    BY DEF Finding, TypeOK
  <2>2. QED
    BY <1>10, <2>1 DEF Reproduced, TypeOK
<1>11. CASE FindingAtLimit
  <2>1. findings' \in Seq(Finding)
    BY <1>10, <1>11 DEF FindingAtLimit
  <2>2. QED
    BY <1>11, <2>1 DEF FindingAtLimit, Reproduced, TypeOK, Position
<1>12. CASE FindingToRepair
  <2>1. PICK p \in Programs : Reproduced(p) /\ candidate' = p
    BY <1>12 DEF FindingToRepair
  <2>2. findings' \in Seq(Finding)
    BY <1>10, <2>1
  <2>3. ~cleanSince /\ ~novelClean
    BY <2>1 DEF Reproduced, Position
  <2>4. QED
    BY <1>12, <2>1, <2>2, <2>3 DEF FindingToRepair, Reproduced, AtLimit, TypeOK, Position
<1>13. CASE Repair
  <2>1. active' \in Variants
    BY <1>13 DEF Repair, Patched, Variants, Bugs, RepairIds
  <2>2. QED
    BY <1>13, <2>1 DEF Repair, ForgetVerdict, MandatoryRetest, TypeOK, Position
<1>14. CASE EndCycle
  <2>1. ~Stops => cycle < ReconCycles
    BY DEF Stops, TypeOK
  <2>2. QED
    BY <1>14, <2>1 DEF EndCycle, TypeOK, Position
<1>15. CASE ProviderRaises
  BY <1>15 DEF ProviderRaises, TypeOK, Position
<1>16. CASE UNCHANGED vars
  BY <1>16 DEF vars, TypeOK, Position
<1>17. QED
  BY <1>1, <1>2, <1>3, <1>4, <1>5, <1>6, <1>7, <1>8, <1>9, <1>11, <1>12, <1>13, <1>14,
     <1>15, <1>16, NextCases

\* The state of the loop stays within its types and its limits: no interleaving
\* of verdicts and repairs passes --recon-cycles, --attack-attempts or
\* --repair-rounds (agent_loop.py:64, 77, 178).
THEOREM TypeCorrect == Spec => []TypeOK
<1>1. TypeOK /\ Position /\ [Next]_vars => (TypeOK /\ Position)'
  BY TypePreserved
<1>2. QED
  BY TypeInitial, <1>1, PTL DEF Spec

-----------------------------------------------------------------------------
(* Reasons persist while the witness, the variant and, for a challenge, the *)
(* cycle stay: recording only adds to the log.                              *)

\* Recording an event never removes one.
LEMMA RecordGrows ==
  ASSUME NEW status, NEW baseline, Record(status, baseline)
  PROVE  log \subseteq log'
  BY DEF Record

\* A clean replay stays on record while the witness and the variant stay.
LEMMA ReplayPersists ==
  ASSUME Replayed, log \subseteq log', UNCHANGED <<witness, active>>
  PROVE  Replayed'
  BY DEF Replayed

\* A survived challenge stays on record while its cycle, witness and variant stay.
LEMMA ChallengePersists ==
  ASSUME Challenged, log \subseteq log', UNCHANGED <<witness, active, cycle>>
  PROVE  Challenged'
  BY DEF Challenged

\* A baseline violation is only executed for an eligible candidate, and then the
\* recorded event is a challenge.
LEMMA NovelIsChallenge ==
  ASSUME TypeOK, candidate \in Programs, NEW baseline \in BaselineAnswers, Novel(baseline),
         Record("clean", baseline), UNCHANGED <<witness, active, cycle>>
  PROVE  /\ retest = NoProgram /\ witness # NoProgram
         /\ Challenged'
<1>1. Eligible
  BY DEF BaselineAnswers, Novel
<1>2. /\ retest = NoProgram /\ witness # NoProgram
      /\ candidate \in Relevant /\ Essence[candidate] # Essence[witness]
  BY <1>1 DEF Eligible, Distinct
<1>3. [cycle |-> cycle, program |-> candidate, variant |-> active, status |-> "clean",
       eligible |-> Eligible, baseline |-> baseline] \in log'
  BY <1>2 DEF Record
<1>4. Challenged'
  BY <1>2, <1>3 DEF Challenged, Novel
<1>5. QED
  BY <1>2, <1>4

\* What the three invariants read, left alone.
LEMMA QuietSteps ==
  ASSUME FlagsHaveReasons, UNCHANGED <<cycle, repaired, exhausted, verdict, repairState, log>>
  PROVE  (Verdicts /\ Duties)'
  BY DEF FlagsHaveReasons, Verdicts, Duties, Replayed, Challenged

\* The flags keep the reasons they have in the log.
LEMMA VerdictsPreserved ==
  ASSUME TypeOK, FlagsHaveReasons, [Next]_vars
  PROVE  Verdicts'
<1> USE DEF FlagsHaveReasons
<1>1. CASE Recon
  BY <1>1 DEF Recon, ForgetVerdict, Verdicts
<1>2. CASE Exhausted
  <2>1. Challenged => Challenged'
    BY <1>2, ChallengePersists DEF Exhausted
  <2>2. verified' => exhausted' /\ novelClean /\ retest = NoProgram
    BY <1>2 DEF Exhausted, Proven, Verdicts
  <2>3. QED
    BY <1>2, <2>1, <2>2 DEF Exhausted, Verdicts
<1>3. CASE CleanForRepair
  <2>1. PICK baseline \in BaselineAnswers :
          /\ novelClean' = (novelClean \/ Novel(baseline))
          /\ Record("clean", baseline)
    BY <1>3 DEF CleanForRepair
  <2>2. candidate \in Programs /\ ~verified
    BY <1>3 DEF CleanForRepair, Position, Verdicts
  <2>3. CASE Novel(baseline)
    BY <1>3, <2>1, <2>2, <2>3, NovelIsChallenge DEF CleanForRepair, Verdicts
  <2>4. CASE ~Novel(baseline)
    <3>1. Challenged => Challenged'
      BY <1>3, <2>1, RecordGrows, ChallengePersists DEF CleanForRepair
    <3>2. QED
      BY <1>3, <2>1, <2>2, <2>4, <3>1 DEF CleanForRepair, Verdicts
  <2>5. QED
    BY <2>3, <2>4
<1>4. CASE CleanUnrepaired
  <2>1. Challenged => Challenged'
    BY <1>4, RecordGrows, ChallengePersists DEF CleanUnrepaired
  <2>2. QED
    BY <1>4, <2>1 DEF CleanUnrepaired, Verdicts
<1>5. CASE Violation
  BY <1>5 DEF Violation, ForgetVerdict, Verdicts
<1>6. CASE Repair
  <2>1. candidate # NoProgram
    BY <1>6, LoopAssumption DEF Repair, Position, LoopAssumption
  <2>2. QED
    BY <1>6, <2>1 DEF Repair, ForgetVerdict, MandatoryRetest, Verdicts
<1>7. CASE \/ Attack \/ AttemptsSpent \/ Inconclusive \/ NotReproduced \/ FindingAtLimit
           \/ EndCycle \/ ProviderRaises \/ UNCHANGED vars
  BY <1>7, QuietSteps DEF Attack, AttemptsSpent, Inconclusive, NotReproduced,
     FindingAtLimit, EndCycle, ProviderRaises, vars
<1>8. CASE FindingToRepair
  <2>1. UNCHANGED <<repaired, exhausted, verified, novelClean, active, retest, witness, log, cycle>>
    BY <1>8 DEF FindingToRepair
  <2>2. QED
    BY <2>1 DEF Verdicts, Challenged
<1>9. QED
  BY <1>1, <1>2, <1>3, <1>4, <1>5, <1>6, <1>7, <1>8, NextCases

\* A pending retest is the witness, and a discharged one left its clean replay.
LEMMA DutiesPreserved ==
  ASSUME TypeOK, FlagsHaveReasons, [Next]_vars
  PROVE  Duties'
<1> USE DEF FlagsHaveReasons
\* A step that records an event of the active variant and keeps the retest.
<1>1. ASSUME NEW status, NEW baseline, Record(status, baseline),
             UNCHANGED <<retest, witness, active>>
      PROVE  Duties'
  <2>1. Replayed => Replayed'
    BY <1>1, RecordGrows, ReplayPersists
  <2>2. QED
    BY <1>1, <2>1 DEF Record, Duties
<1>2. CASE CleanForRepair
  <2>1. PICK baseline \in BaselineAnswers : Record("clean", baseline)
    BY <1>2 DEF CleanForRepair
  <2>2. witness # NoProgram
    BY <1>2 DEF CleanForRepair, Counts, Verdicts
  <2>3. candidate \in Programs /\ NoProgram \notin Programs
    BY <1>2, LoopAssumption DEF CleanForRepair, Position, LoopAssumption
  <2>4. CASE retest = NoProgram
    BY <1>1, <1>2, <2>1, <2>4 DEF CleanForRepair
  <2>5. CASE retest # NoProgram
    <3>1. candidate = witness
      BY <1>2, <2>5 DEF CleanForRepair, Counts, Duties
    <3>2. [cycle |-> cycle, program |-> witness, variant |-> active, status |-> "clean",
           eligible |-> Eligible, baseline |-> baseline] \in log'
      BY <2>1, <2>2, <3>1 DEF Record
    <3>3. Replayed'
      BY <1>2, <3>2 DEF CleanForRepair, Replayed
    <3>4. QED
      BY <1>2, <2>1, <2>2, <3>3 DEF CleanForRepair, Record, Duties
  <2>6. QED
    BY <2>4, <2>5
<1>3. CASE CleanUnrepaired
  BY <1>1, <1>3 DEF CleanUnrepaired
<1>4. CASE Violation
  BY <1>1, <1>4 DEF Violation
<1>5. CASE Repair
  <2>1. candidate # NoProgram
    BY <1>5, LoopAssumption DEF Repair, Position, LoopAssumption
  <2>2. QED
    BY <1>5, <2>1 DEF Repair, MandatoryRetest, Duties
<1>6. CASE \/ Recon \/ Attack \/ Exhausted \/ AttemptsSpent \/ Inconclusive \/ NotReproduced
           \/ FindingAtLimit \/ FindingToRepair \/ EndCycle \/ ProviderRaises \/ UNCHANGED vars
  <2>1. UNCHANGED <<active, retest, witness, log>>
    BY <1>6 DEF Recon, Attack, Exhausted, AttemptsSpent, Inconclusive, NotReproduced,
       FindingAtLimit, FindingToRepair, EndCycle, ProviderRaises, vars
  <2>2. QED
    BY <2>1 DEF Duties, Replayed
<1>7. QED
  BY <1>2, <1>3, <1>4, <1>5, <1>6, NextCases

\* A logged violation leads to a repair or to the end of the benchmark.
LEMMA ViolationsEndPreserved ==
  ASSUME TypeOK, FlagsHaveReasons, [Next]_vars
  PROVE  ViolationsEnd'
<1> USE DEF FlagsHaveReasons
<1> DEFINE Violated == \E e \in log : e.status = "violation"
<1>1. CASE \/ Recon \/ Attack \/ Exhausted \/ AttemptsSpent \/ Inconclusive
  BY <1>1 DEF Recon, Attack, Exhausted, AttemptsSpent, Inconclusive, ForgetVerdict, ViolationsEnd
<1>2. CASE CleanForRepair \/ CleanUnrepaired
  <2>1. PICK baseline : Record("clean", baseline)
    BY <1>2 DEF CleanForRepair, CleanUnrepaired
  <2>2. ~Violated
    BY <1>2 DEF CleanForRepair, CleanUnrepaired, ViolationsEnd
  <2>3. ~Violated'
    BY <2>1, <2>2 DEF Record
  <2>4. QED
    BY <2>3 DEF ViolationsEnd
<1>3. CASE Violation
  BY <1>3 DEF Violation, ForgetVerdict, ViolationsEnd
<1>4. CASE NotReproduced \/ FindingAtLimit
  <2>1. ~exhausted /\ ~verified
    BY <1>4 DEF NotReproduced, FindingAtLimit, Reproduced, Position, Verdicts
  <2>2. QED
    BY <1>4, <2>1 DEF NotReproduced, FindingAtLimit, ViolationsEnd
<1>5. CASE FindingToRepair
  BY <1>5 DEF FindingToRepair, Reproduced, ViolationsEnd
<1>6. CASE Repair
  BY <1>6 DEF Repair, ViolationsEnd
<1>7. CASE EndCycle
  BY <1>7 DEF EndCycle, Stops, ViolationsEnd
<1>8. CASE ProviderRaises \/ UNCHANGED vars
  BY <1>8 DEF ProviderRaises, vars, ViolationsEnd
<1>9. QED
  BY <1>1, <1>2, <1>3, <1>4, <1>5, <1>6, <1>7, <1>8, NextCases

\* The flags of the loop always have their reasons in the transcript since the
\* last repair (agent_loop.py:55-63, 74-75, 104-109, 135-150, 199-208).
THEOREM FlagsCorrect == Spec => [](TypeOK /\ FlagsHaveReasons)
<1>1. Init => TypeOK /\ FlagsHaveReasons
  <2>1. SUFFICES ASSUME Init PROVE TypeOK /\ FlagsHaveReasons
    OBVIOUS
  <2>2. Verdicts /\ Duties /\ ViolationsEnd
    BY <2>1 DEF Init, Verdicts, Duties, ViolationsEnd
  <2>3. QED
    BY <2>1, <2>2, TypeInitial DEF FlagsHaveReasons
<1>2. TypeOK /\ FlagsHaveReasons /\ [Next]_vars => (TypeOK /\ FlagsHaveReasons)'
  BY TypePreserved, VerdictsPreserved, DutiesPreserved, ViolationsEndPreserved
     DEF FlagsHaveReasons
<1>3. QED
  BY <1>1, <1>2, PTL DEF Spec

\* A verified repair stands on a clean replay of its witness, on a distinct
\* relevant challenge of the same cycle that only the unrepaired variant fails,
\* on a transcript without violations and on the attacker's exhaustion
\* (agent_loop.py:94-109, 135-150).
THEOREM VerdictCorrect == Spec => []VerdictJustified
<1>1. TypeOK /\ FlagsHaveReasons => VerdictJustified
  BY DEF FlagsHaveReasons, Verdicts, Duties, ViolationsEnd, VerdictJustified
<1>2. QED
  BY <1>1, FlagsCorrect, PTL

\* An empty log holds no challenge.
LEMMA ChallengeInitial == Init => ChallengeAfterReplay
  BY DEF Init, ChallengeAfterReplay

\* No step logs a challenge before the clean replay of the witness.
LEMMA ChallengePreserved ==
  ASSUME TypeOK, FlagsHaveReasons, ChallengeAfterReplay, [Next]_vars
  PROVE  ChallengeAfterReplay'
\* An event is recorded as eligible only when no retest is due.
<1>1. ASSUME NEW status, NEW baseline, Record(status, baseline), UNCHANGED <<witness, active>>
      PROVE  ChallengeAfterReplay'
  <2>1. Replayed => Replayed'
    BY <1>1, RecordGrows, ReplayPersists
  <2>2. Eligible => Replayed
    BY DEF Eligible, Distinct, FlagsHaveReasons, Duties
  <2>3. QED
    BY <1>1, <2>1, <2>2 DEF Record, ChallengeAfterReplay
<1>2. CASE CleanForRepair \/ CleanUnrepaired \/ Violation
  BY <1>1, <1>2 DEF CleanForRepair, CleanUnrepaired, Violation
<1>3. CASE Repair
  BY <1>3 DEF Repair, ChallengeAfterReplay
<1>4. CASE \/ Recon \/ Attack \/ Exhausted \/ AttemptsSpent \/ Inconclusive \/ NotReproduced
           \/ FindingAtLimit \/ FindingToRepair \/ EndCycle \/ ProviderRaises \/ UNCHANGED vars
  <2>1. UNCHANGED <<active, witness, log>>
    BY <1>4 DEF Recon, Attack, Exhausted, AttemptsSpent, Inconclusive, NotReproduced,
       FindingAtLimit, FindingToRepair, EndCycle, ProviderRaises, vars
  <2>2. QED
    BY <2>1 DEF ChallengeAfterReplay, Replayed
<1>5. QED
  BY <1>2, <1>3, <1>4, NextCases

\* No challenge is counted before the exact witness was replayed clean on the
\* variant it challenges (agent_loop.py:115-120).
THEOREM ChallengeOrder == Spec => []ChallengeAfterReplay
<1>1. (TypeOK /\ FlagsHaveReasons) /\ ChallengeAfterReplay /\ [Next]_vars => ChallengeAfterReplay'
  BY ChallengePreserved
<1>2. QED
  BY <1>1, ChallengeInitial, FlagsCorrect, PTL DEF Spec

-----------------------------------------------------------------------------
\* On BOOM only the trusted repair ever replaces the benchmark's own variant, so
\* no published verdict stands for a free-form proposal (lines 183-198, 233-237).
THEOREM TrustedRepairOnly == Spec => []VerifiedIsTrustedRepair
<1> DEFINE Trusted == Boom => active \in {Bug, TrustedRepair}
<1>1. Init => Trusted
  BY DEF Init
<1>2. Trusted /\ [Next]_vars => Trusted'
  <2>1. SUFFICES ASSUME Trusted, [Next]_vars PROVE Trusted'
    OBVIOUS
  <2>2. CASE Repair
    BY <2>2 DEF Repair, Patched
  <2>3. CASE UNCHANGED active
    BY <2>1, <2>3
  <2>4. QED
    BY <2>1, <2>2, <2>3, NextCases DEF Recon, Attack, Exhausted, AttemptsSpent, Inconclusive,
       CleanForRepair, CleanUnrepaired, Violation, NotReproduced, FindingAtLimit,
       FindingToRepair, EndCycle, ProviderRaises, vars
<1>3. Trusted => VerifiedIsTrustedRepair
  BY LoopAssumption DEF LoopAssumption, VerifiedIsTrustedRepair, ReportedVerified, Bugs, RepairIds
<1>4. QED
  BY <1>1, <1>2, <1>3, PTL DEF Spec

\* Every finding is followed by a repair round before the attack resumes, except
\* one at the repair limit, which ends the benchmark (lines 178-182, 221).
THEOREM FindingsCorrect == Spec => []FindingsDriveRepairs
<1>1. Init => FindingsDriveRepairs
  BY DEF Init, FindingsDriveRepairs
<1>2. TypeOK /\ FindingsDriveRepairs /\ [Next]_vars => FindingsDriveRepairs'
  <2>1. SUFFICES ASSUME TypeOK, FindingsDriveRepairs, [Next]_vars PROVE FindingsDriveRepairs'
    OBVIOUS
  <2>2. Len(findings) \in Nat /\ round \in Nat
    BY <2>1, LoopAssumption DEF LoopAssumption, TypeOK
  <2>3. ASSUME NEW p, Reproduced(p)
        PROVE  Len(findings) = round /\ Len(findings') = round + 1
    BY <2>1, <2>2, <2>3 DEF Reproduced, FindingsDriveRepairs, TypeOK
  <2>4. CASE FindingAtLimit
    <3>1. Len(findings') = round + 1 /\ round = RepairLimit
      BY <2>1, <2>3, <2>4, LoopAssumption DEF FindingAtLimit, AtLimit, TypeOK, LoopAssumption
    <3>2. QED
      BY <2>2, <2>4, <3>1 DEF FindingAtLimit, FindingsDriveRepairs
  <2>5. CASE FindingToRepair
    <3>1. Len(findings') = round'
      BY <2>3, <2>5 DEF FindingToRepair
    <3>2. round' # round' + 1
      BY <2>2, <2>5 DEF FindingToRepair
    <3>3. QED
      BY <3>1, <3>2 DEF FindingsDriveRepairs
  <2>6. CASE EndCycle \/ UNCHANGED vars
    BY <2>1, <2>6 DEF EndCycle, Stops, vars, FindingsDriveRepairs
  <2>7. CASE \/ Recon \/ Attack \/ Exhausted \/ AttemptsSpent \/ Inconclusive \/ CleanForRepair
             \/ CleanUnrepaired \/ Violation \/ NotReproduced \/ Repair \/ ProviderRaises
    <3>1. UNCHANGED <<findings, round>> /\ pc \notin {"endcycle", "done"}
      BY <2>7 DEF Recon, Attack, Exhausted, AttemptsSpent, Inconclusive, CleanForRepair,
         CleanUnrepaired, Violation, NotReproduced, Repair, ProviderRaises
    <3>2. QED
      BY <2>1, <2>2, <3>1 DEF FindingsDriveRepairs
  <2>8. QED
    BY <2>1, <2>4, <2>5, <2>6, <2>7, NextCases
<1>3. QED
  BY <1>1, <1>2, TypeCorrect, PTL DEF Spec

-----------------------------------------------------------------------------
\* A step of the loop is a step of the acceptance protocol or leaves it alone.
LEMMA AcceptanceStep ==
  ASSUME TypeOK, FlagsHaveReasons, [Next]_vars
  PROVE  [Acceptance!Next]_<<Stage, active>>
<1> USE DEF FlagsHaveReasons
<1>1. CASE Recon
  BY <1>1 DEF Recon, ForgetVerdict, Verdicts, Stage, Acceptance!Next, Acceptance!Setback
<1>2. CASE Exhausted
  <2>1. Proven => novelClean /\ witness # NoProgram
    BY DEF Proven, Verdicts
  <2>2. QED
    BY <1>2, <2>1 DEF Exhausted, Verdicts, Stage, Acceptance!Next, Acceptance!Accept
<1>3. CASE CleanForRepair
  <2>1. PICK baseline \in BaselineAnswers : novelClean' = (novelClean \/ Novel(baseline))
    BY <1>3 DEF CleanForRepair
  <2>2. witness # NoProgram /\ ~verified
    BY <1>3 DEF CleanForRepair, Counts, Verdicts, Position
  <2>3. CASE retest # NoProgram
    <3>1. ~novelClean'
      BY <2>1, <2>3 DEF BaselineAnswers, Eligible, Novel, Verdicts
    <3>2. Stage = "replaying" /\ Stage' = "challenging"
      BY <1>3, <2>2, <2>3, <3>1 DEF CleanForRepair, Stage
    <3>3. QED
      BY <1>3, <3>2 DEF CleanForRepair, Acceptance!Next, Acceptance!ReplayedClean
  <2>4. CASE retest = NoProgram
    BY <1>3, <2>1, <2>2, <2>4
       DEF CleanForRepair, Stage, Acceptance!Next, Acceptance!ChallengeSurvived
  <2>5. QED
    BY <2>3, <2>4
<1>4. CASE Violation
  BY <1>4 DEF Violation, ForgetVerdict, Position, Verdicts, Stage,
     Acceptance!Next, Acceptance!Setback
<1>5. CASE Repair
  <2>1. candidate # NoProgram /\ active' \in Variants
    BY <1>5, LoopAssumption DEF Repair, Patched, Position, LoopAssumption, Variants, Bugs, RepairIds
  <2>2. Stage \notin {"challenged", "accepted"}
    BY <1>5 DEF Repair, Position, Verdicts, Stage
  <2>3. Stage' = "replaying"
    BY <1>5, <2>1 DEF Repair, MandatoryRetest, Stage
  <2>4. QED
    BY <2>1, <2>2, <2>3 DEF Acceptance!Next, Acceptance!Patch
<1>6. CASE \/ Attack \/ AttemptsSpent \/ Inconclusive \/ CleanUnrepaired \/ NotReproduced
           \/ FindingAtLimit \/ FindingToRepair \/ EndCycle \/ ProviderRaises \/ UNCHANGED vars
  <2>1. UNCHANGED <<active, retest, witness, verified, novelClean>>
    BY <1>6 DEF Attack, AttemptsSpent, Inconclusive, CleanUnrepaired, NotReproduced,
       FindingAtLimit, FindingToRepair, EndCycle, ProviderRaises, vars
  <2>2. QED
    BY <2>1 DEF Stage
<1>7. QED
  BY <1>1, <1>2, <1>3, <1>4, <1>5, <1>6, NextCases

\* The loop implements RepairAcceptance: a patch is replayed, then challenged,
\* then accepted, in that order, and every new patch starts over.
THEOREM LoopImplementsAcceptance == Spec => ImplementsAcceptance
<1>1. Init => Acceptance!Init
  BY DEF Init, Acceptance!Init, Stage
<1>2. (TypeOK /\ FlagsHaveReasons) /\ [Next]_vars => [Acceptance!Next]_<<Stage, active>>
  BY AcceptanceStep
<1>3. QED
  BY <1>1, <1>2, FlagsCorrect, PTL DEF Spec, ImplementsAcceptance, Acceptance!Spec
=============================================================================
