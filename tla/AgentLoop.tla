------------------------------ MODULE AgentLoop ------------------------------
(***************************************************************************)
(* The nested recon / attack / validate / repair loop of one benchmark:    *)
(* _run_benchmark of src/spechunter/agent_loop.py, with AgentProvider      *)
(* (the LLM) and Backend (the simulator) as its nondeterministic           *)
(* environment.  One action per decision, per validator verdict and per    *)
(* loop exit.  A program is an element of Programs: what the loop reads of *)
(* its operations (its text without NOPs, its relevance as a repair        *)
(* challenge, whether it loads the secret before entering user mode, what  *)
(* validate may answer about it, what minimize may reduce it to) is given  *)
(* by the constants.                                                       *)
(***************************************************************************)
EXTENDS Naturals, Sequences

CONSTANTS
  Programs,      \* the candidates the attacker may propose and their reductions
  NoProgram,     \* None
  Essence,       \* [Programs -> _]: the operations without NOP
  Relevant,      \* the programs _relevant_repair_challenge accepts here
  Outside,       \* the programs that load the secret outside user mode
  Reductions,    \* [Programs -> SUBSET Programs]: what deletions can reach
  Outcomes,      \* [Programs -> [Variants -> SUBSET Statuses]]: the answers of validate
  Bug,           \* benchmark.bug
  Boom,          \* backend.config.kind = "boom"
  TrustedRepair, \* the repair id accepted for this benchmark on BOOM
  ReconCycles, AttackLimit, RepairLimit

Statuses == {"violation", "clean", "inconclusive"}
Bugs == {"none", "privilege", "transient", "seeded-cache-leak"}
RepairIds == {"gate-faulting-loads", "remove-seeded-cache-leak"}
Variants == Bugs \cup RepairIds
Null == "null"

ASSUME LoopAssumption ==
  /\ NoProgram \notin Programs
  /\ Relevant \subseteq Programs
  /\ Outside \subseteq Programs
  /\ Reductions \in [Programs -> SUBSET Programs]
  /\ \A p \in Programs : p \in Reductions[p]
  /\ Outcomes \in [Programs -> [Variants -> SUBSET Statuses]]
  /\ \A p \in Programs, v \in Variants : Outcomes[p][v] # {}
  /\ \A p \in Outside, v \in Variants : Outcomes[p][v] = {"inconclusive"}
  /\ Bug \in Bugs
  /\ Boom \in BOOLEAN
  /\ TrustedRepair \in RepairIds
  /\ ReconCycles \in Nat \ {0} /\ AttackLimit \in Nat \ {0} /\ RepairLimit \in Nat \ {0}

VARIABLES
  pc,          \* where the loop stands
  cycle,       \* the outer loop's counter
  attempt,     \* the inner loop's counter
  repaired, exhausted, verified,
  cleanSince,  \* clean_since_repair
  novelClean,  \* novel_clean_since_repair
  active,      \* active_variant
  round,       \* repair_round
  retest,      \* required_retest
  witness,     \* repaired_witness
  candidate,   \* the program under validation, then its reduction
  last,        \* what lines 221-223 read of transcript[-1]
  findings,
  log          \* the conclusive validator events of the transcript since its last repair

counters == <<cycle, attempt>>
flags == <<repaired, exhausted>>
verdict == <<verified, cleanSince, novelClean>>
repairState == <<active, round, retest, witness>>
vars == <<pc, counters, flags, verdict, repairState, candidate, last, findings, log>>

Finding == [cycle : Nat, program : Programs, variant : Variants]
Event == [cycle : Nat, program : Programs, variant : Variants, status : Statuses,
          eligible : BOOLEAN, baseline : Statuses \cup {Null}]

TypeOK ==
  /\ pc \in {"recon", "attack", "validate", "minimize", "repair", "endcycle", "done", "aborted"}
  /\ cycle \in 0..ReconCycles
  /\ attempt \in 0..AttackLimit
  /\ repaired \in BOOLEAN /\ exhausted \in BOOLEAN /\ verified \in BOOLEAN
  /\ cleanSince \in BOOLEAN /\ novelClean \in BOOLEAN
  /\ active \in Variants
  /\ round \in 0..RepairLimit
  /\ retest \in Programs \cup {NoProgram}
  /\ witness \in Programs \cup {NoProgram}
  /\ candidate \in Programs \cup {NoProgram}
  /\ last \in {"other", "inconclusive", "limit"}
  /\ findings \in Seq(Finding)
  /\ log \subseteq Event

Init ==
  /\ pc = "recon" /\ cycle = 0 /\ attempt = 0
  /\ repaired = FALSE /\ exhausted = FALSE
  /\ verified = FALSE /\ cleanSince = FALSE /\ novelClean = FALSE
  /\ active = Bug /\ round = 0
  /\ retest = NoProgram /\ witness = NoProgram /\ candidate = NoProgram
  /\ last = "other" /\ findings = <<>> /\ log = {}

-----------------------------------------------------------------------------
\* Withdraws the verdict but not what was tested for it.
WithdrawVerdict == verified' = FALSE /\ UNCHANGED <<cleanSince, novelClean>>
ForgetVerdict == verified' = FALSE /\ cleanSince' = FALSE /\ novelClean' = FALSE

\* A new cycle starts from provider.recon with nothing proved yet.
Recon ==
  /\ pc = "recon"
  /\ cycle' = cycle + 1 /\ attempt' = 0
  /\ ForgetVerdict
  /\ repaired' = (active # Bug)
  /\ exhausted' = FALSE
  /\ last' = "other"
  /\ pc' = "attack"
  /\ UNCHANGED <<repairState, candidate, findings, log>>

Decisions == IF retest # NoProgram THEN {retest} ELSE Programs

\* A mandatory retest that does not count as an attempt.
RetestIsFree == IF retest # NoProgram THEN attempt ELSE attempt + 1
NextAttempt == attempt + 1

\* The attacker's candidate, or the mandatory retest of the repaired witness.
Attack ==
  /\ pc = "attack" /\ attempt < AttackLimit
  /\ attempt' = NextAttempt
  /\ candidate' \in Decisions
  /\ last' = "other"
  /\ pc' = "validate"
  /\ UNCHANGED <<cycle, flags, verdict, repairState, findings, log>>

\* The exact replay alone, and what exhaustion really asks for.
ProvenByReplay == repaired /\ cleanSince /\ retest = NoProgram
Proven == repaired /\ cleanSince /\ novelClean /\ retest = NoProgram

Exhausted ==
  /\ pc = "attack" /\ attempt < AttackLimit /\ retest = NoProgram
  /\ attempt' = NextAttempt
  /\ exhausted' = TRUE
  /\ verified' = (verified \/ Proven)
  /\ last' = IF repaired /\ ~Proven THEN "inconclusive" ELSE "other"
  /\ pc' = "endcycle"
  /\ UNCHANGED <<cycle, repaired, cleanSince, novelClean, repairState, candidate, findings, log>>

AttemptsSpent ==
  /\ pc = "attack" /\ attempt = AttackLimit
  /\ pc' = "endcycle"
  /\ UNCHANGED <<counters, flags, verdict, repairState, candidate, last, findings, log>>

-----------------------------------------------------------------------------
(* validate(backend, decision.program, benchmark, bug=active_variant)      *)

Distinct(p) == witness # NoProgram /\ Essence[p] # Essence[witness]
Eligible == repaired /\ retest = NoProgram /\ Distinct(candidate) /\ candidate \in Relevant

Record(status, baseline) ==
  log' = IF witness = NoProgram THEN log
         ELSE log \cup {[cycle |-> cycle, program |-> candidate, variant |-> active,
                         status |-> status, eligible |-> Eligible, baseline |-> baseline]}

\* Only a candidate outside the threat model lets the attacker try again.
Inconclusive ==
  /\ pc = "validate"
  /\ "inconclusive" \in Outcomes[candidate][active]
  /\ last' = "inconclusive"
  /\ pc' = IF candidate \in Outside THEN "attack" ELSE "endcycle"
  /\ candidate' = NoProgram
  /\ UNCHANGED <<counters, flags, verdict, repairState, findings, log>>

\* A clean run counts for the repair if no retest is due, or if it is the retest.
Counts == repaired /\ retest \in {NoProgram, candidate}

BaselineAnswers == IF Eligible THEN Outcomes[candidate][Bug] ELSE {Null}

Novel(baseline) == baseline = "violation"

CleanForRepair ==
  /\ pc = "validate" /\ Counts
  /\ "clean" \in Outcomes[candidate][active]
  /\ \E baseline \in BaselineAnswers :
       /\ novelClean' = (novelClean \/ Novel(baseline))
       /\ Record("clean", baseline)
  /\ cleanSince' = TRUE
  /\ retest' = NoProgram
  /\ last' = "other"
  /\ pc' = "attack"
  /\ candidate' = NoProgram
  /\ UNCHANGED <<counters, flags, verified, active, round, witness, findings>>

CleanUnrepaired ==
  /\ pc = "validate" /\ ~Counts
  /\ "clean" \in Outcomes[candidate][active]
  /\ Record("clean", Null)
  /\ last' = "other"
  /\ pc' = "attack"
  /\ candidate' = NoProgram
  /\ UNCHANGED <<counters, flags, verdict, repairState, findings>>

Violation ==
  /\ pc = "validate"
  /\ "violation" \in Outcomes[candidate][active]
  /\ ForgetVerdict
  /\ Record("violation", Null)
  /\ last' = "other"
  /\ pc' = "minimize"
  /\ UNCHANGED <<counters, flags, repairState, candidate, findings>>

-----------------------------------------------------------------------------
(* minimize, the revalidation of its result, and the repair                *)

\* minimize returns its argument or a deletion it saw violate the same variant.
Reduced == {p \in Reductions[candidate] :
              p = candidate \/ "violation" \in Outcomes[p][active]}

NotReproduced ==
  /\ pc = "minimize"
  /\ \E p \in Reduced : Outcomes[p][active] # {"violation"}
  /\ last' = "inconclusive"
  /\ pc' = "endcycle"
  /\ candidate' = NoProgram
  /\ UNCHANGED <<counters, flags, verdict, repairState, findings, log>>

OverLimit == round > RepairLimit
AtLimit == round >= RepairLimit

Reproduced(p) ==
  /\ pc = "minimize" /\ p \in Reduced
  /\ "violation" \in Outcomes[p][active]
  /\ findings' = Append(findings, [cycle |-> cycle, program |-> p, variant |-> active])

FindingAtLimit ==
  /\ \E p \in Programs : Reproduced(p)
  /\ AtLimit
  /\ last' = "limit"
  /\ pc' = "endcycle"
  /\ candidate' = NoProgram
  /\ UNCHANGED <<counters, flags, verdict, repairState, log>>

FindingToRepair ==
  /\ \E p \in Programs : Reproduced(p) /\ candidate' = p
  /\ ~AtLimit
  /\ round' = round + 1
  /\ pc' = "repair"
  /\ UNCHANGED <<counters, flags, verdict, active, retest, witness, last, log>>

\* What the provider may select, and the variant the loop tests from then on.
PatchedByAnyId(fixtureVariant, repairId) ==
  IF Boom THEN IF repairId # Null THEN repairId ELSE Bug
          ELSE IF fixtureVariant # Null THEN fixtureVariant ELSE Bug
Patched(fixtureVariant, repairId) ==
  IF Boom THEN IF repairId = TrustedRepair THEN repairId ELSE Bug
          ELSE IF fixtureVariant # Null THEN fixtureVariant ELSE Bug

MandatoryRetest == candidate

Repair ==
  /\ pc = "repair"
  /\ \E fixtureVariant \in {"none", Null}, repairId \in RepairIds \cup {Null} :
       active' = Patched(fixtureVariant, repairId)
  /\ repaired' = TRUE
  /\ ForgetVerdict
  /\ retest' = MandatoryRetest /\ witness' = candidate
  /\ candidate' = NoProgram
  /\ log' = {}
  /\ last' = "other"
  /\ pc' = "attack"
  /\ UNCHANGED <<cycle, attempt, exhausted, round, findings>>

-----------------------------------------------------------------------------
StopsOnInconclusive == (~exhausted /\ last = "inconclusive") \/ cycle = ReconCycles
Stops == \/ last = "limit"
         \/ ~exhausted /\ last = "inconclusive"
         \/ cycle = ReconCycles

EndCycle ==
  /\ pc = "endcycle"
  /\ pc' = IF Stops THEN "done" ELSE "recon"
  /\ UNCHANGED <<counters, flags, verdict, repairState, candidate, last, findings, log>>

\* An exception of the provider (call limit, budget, malformed answer) leaves
\* the benchmark, and the experiment, without a report.
ProviderRaises ==
  /\ \/ pc \in {"recon", "repair"}
     \/ pc = "attack" /\ attempt < AttackLimit /\ retest = NoProgram
  /\ pc' = "aborted"
  /\ UNCHANGED <<counters, flags, verdict, repairState, candidate, last, findings, log>>

Next ==
  \/ Recon \/ Attack \/ Exhausted \/ AttemptsSpent
  \/ Inconclusive \/ CleanForRepair \/ CleanUnrepaired \/ Violation
  \/ NotReproduced \/ FindingAtLimit \/ FindingToRepair \/ Repair
  \/ EndCycle \/ ProviderRaises

Spec == Init /\ [][Next]_vars

\* The loop is one sequential thread whose calls all return or raise.
FairSpec == Spec /\ WF_vars(Next)

-----------------------------------------------------------------------------
(* Properties                                                              *)

\* result["repair"]["verified"], the verdict the report publishes.
ReportedVerified == verified /\ (Boom => active \in RepairIds)

\* The log shows the repaired witness retested clean under the active variant.
Replayed == \E e \in log : e.program = witness /\ e.variant = active /\ e.status = "clean"

\* The log shows, in the running cycle, a relevant program that differs from the
\* witness by more than NOPs, clean under the active variant and still a
\* violation without the repair.
Challenged ==
  \E e \in log : /\ e.cycle = cycle /\ e.variant = active
                 /\ e.status = "clean" /\ e.baseline = "violation"
                 /\ e.program \in Relevant /\ Essence[e.program] # Essence[witness]

\* No repair is called verified (agent_loop.py:94-100) unless the transcript
\* since that repair holds a clean replay of the exact witness, a distinct
\* relevant challenge of this very cycle that the repair survives and the
\* baseline does not, no violation, and the attacker's exhaustion.
VerdictJustified ==
  verified => /\ witness # NoProgram /\ exhausted
              /\ Replayed /\ Challenged
              /\ \A e \in log : e.status # "violation"

\* A challenge is only ever counted after the exact witness was replayed clean
\* (agent_loop.py:115-120): the log never holds the one without the other.
ChallengeAfterReplay == (\E e \in log : e.eligible) => Replayed

\* On BOOM a published verdict stands for the trusted repair of this benchmark,
\* never for a free-form proposal that changed no hardware (lines 183-198, 233-237).
VerifiedIsTrustedRepair ==
  Boom /\ ReportedVerified => active = TrustedRepair /\ active # Bug

\* Each finding is answered by a repair before the attack resumes; only the one
\* at the repair limit is not, and it ends the benchmark (lines 178-181, 221).
FindingsDriveRepairs ==
  /\ Len(findings) = round \/ Len(findings) = round + 1
  /\ Len(findings) = round + 1 => round = RepairLimit /\ last = "limit"
                                  /\ pc \in {"endcycle", "done"}

\* What ties the loop's flags to its position and to the log, and makes the
\* invariants above inductive.
Position ==
  /\ pc = "recon" => cycle < ReconCycles
  /\ pc \in {"validate", "minimize", "repair"} => candidate \in Programs
  /\ exhausted => pc \in {"endcycle", "recon", "done", "aborted"}
  /\ pc \in {"minimize", "repair"} => ~cleanSince /\ ~novelClean
Verdicts ==
  /\ verified => exhausted /\ novelClean /\ retest = NoProgram
  /\ novelClean => retest = NoProgram /\ witness # NoProgram /\ Challenged
  /\ repaired \/ active # Bug => witness # NoProgram
Duties ==
  /\ retest \in {NoProgram, witness}
  /\ witness # NoProgram /\ retest = NoProgram => Replayed
  /\ \A e \in log : e.variant = active
  /\ witness = NoProgram => log = {}
\* A logged violation is repaired, or ends the benchmark.
ViolationsEnd ==
  (\E e \in log : e.status = "violation") =>
    /\ ~verified
    /\ \/ pc \in {"minimize", "repair", "done", "aborted"}
       \/ pc = "endcycle" /\ (last = "limit" \/ (last = "inconclusive" /\ ~exhausted))

\* Every flag of the loop has its reason in the transcript and its place in the
\* control flow (agent_loop.py:55-63, 74-75, 104-109, 135-150, 199-208).
FlagsHaveReasons == Position /\ Verdicts /\ Duties /\ ViolationsEnd

\* The loop implements the acceptance protocol: its flags and its pending retest
\* are a stage of the current patch.
Stage ==
  CASE witness = NoProgram -> "unpatched"
    [] witness # NoProgram /\ retest # NoProgram -> "replaying"
    [] witness # NoProgram /\ retest = NoProgram /\ verified -> "accepted"
    [] witness # NoProgram /\ retest = NoProgram /\ ~verified /\ novelClean -> "challenged"
    [] witness # NoProgram /\ retest = NoProgram /\ ~verified /\ ~novelClean -> "challenging"

Acceptance == INSTANCE RepairAcceptance
                WITH stage <- Stage, patch <- active, Patches <- Variants, Unpatched <- Bug

\* Every step of the loop is a step of RepairAcceptance or leaves it unchanged.
ImplementsAcceptance == Acceptance!Spec

\* The benchmark comes to an end, with a verdict or with an exception: every
\* loop is bounded by its limit.
Terminates == <>(pc \in {"done", "aborted"})
=============================================================================
