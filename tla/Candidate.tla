------------------------------ MODULE Candidate ------------------------------
(***************************************************************************)
(* What tools/boom/trusted_runner.py makes of one program: the gate of     *)
(* validate_request, the ELF of render_candidate as the path a core takes  *)
(* through it, the exit word run_htif_observation reads, and the comparison*)
(* of Spike with BOOM.  A core is external: it raises some cause at the    *)
(* denied load (0: none) and finds line zero faster or not.                *)
(***************************************************************************)
EXTENDS Fixture, FiniteSets

AccessFault == 5
Cores == [cause : {0, AccessFault, 13}, faster : BOOLEAN]

Issue715 == {"issue-715-baseline", "issue-715-repaired"}
PositiveControl == {"seeded-cache-leak", "remove-seeded-cache-leak"}
RunnerVariants == {"none", "gate-faulting-loads"} \cup PositiveControl \cup Issue715

Count(ops, op) == Cardinality({i \in DOMAIN ops : ops[i] = op})
Has(ops, op) == Count(ops, op) > 0
FixedProgram == <<"enter_user", "load_secret", "probe">>

\* validate_request: one program in user mode, one denied load, one probe at most.
Acceptable(ops, variant) ==
  /\ Len(ops) \in 1..128 /\ variant \in RunnerVariants
  /\ Count(ops, "enter_user") = 1
  /\ \A i \in 1..FirstIn(ops, "enter_user", 1, Len(ops)) : ops[i] \notin {"load_secret", "probe"}
  /\ Count(ops, "load_secret") <= 1 /\ Count(ops, "probe") <= 1
  /\ variant \in PositiveControl => Has(ops, "load_secret") /\ Has(ops, "probe")
  /\ variant \in Issue715 => ops = FixedProgram

-----------------------------------------------------------------------------
(* The rendered program                                                    *)

Load(ops) == FirstIn(ops, "load_secret", 1, Len(ops))

\* The operation the trap handler resumes after: the squash that follows the load,
\* else the encode, else the load.  (The first form looks for the encode first.)
ResumeAfterEncode(ops) ==
  LET encode == FirstIn(ops, "encode", Load(ops) + 1, Len(ops))
      squash == FirstIn(ops, "squash", Load(ops) + 1, Len(ops))
  IN IF encode # 0 THEN encode ELSE IF squash # 0 THEN squash ELSE Load(ops)
ResumeAfter(ops) ==
  LET encode == FirstIn(ops, "encode", Load(ops) + 1, Len(ops))
      squash == FirstIn(ops, "squash", Load(ops) + 1, Len(ops))
  IN IF squash # 0 THEN squash ELSE IF encode # 0 THEN encode ELSE Load(ops)

Skipped(ops) == IF Has(ops, "load_secret") THEN (Load(ops) + 1)..ResumeAfter(ops) ELSE {}

Measures(ops) ==
  \E i \in DOMAIN ops \ Skipped(ops) : ops[i] = "probe"

\* The epilogue tests s3, which the handler sets, then s4, which the probe sets.
\* (The first form lacks the test of s3.)
ExitUnlessOtherCause(ops, core) ==
  IF Has(ops, "load_secret") /\ core.cause \notin {0, AccessFault} THEN 10
  ELSE IF Measures(ops) /\ core.faster THEN 2 ELSE 0
ExitOfCandidate(ops, core) ==
  IF Has(ops, "load_secret") /\ core.cause # AccessFault THEN 10
  ELSE IF Measures(ops) /\ core.faster THEN 2 ELSE 0

\* The issue-715 program: the pages its branch falls through to load from, while
\* s5 counts the training down; the attempt with the protected page comes last, and
\* its branch is taken.
LoadedFrom[s5 \in 0..12, attempt \in BOOLEAN] ==
  (IF attempt THEN {} ELSE {"safe_secret"})
    \cup (IF s5 = 0 THEN {} ELSE LoadedFrom[<<s5 - 1, s5 = 1>>])

ExitOfIssue715(core) ==
  IF "protected_secret" \in LoadedFrom[<<12, FALSE>>] /\ core.cause # 0 THEN 10
  ELSE IF core.faster THEN 2 ELSE 0

ExitWord(ops, variant, core) ==
  IF variant \in Issue715 THEN ExitOfIssue715(core) ELSE ExitOfCandidate(ops, core)

-----------------------------------------------------------------------------
(* run_htif_observation and execute                                        *)

Completed(ops, exit) == exit = 0 \/ (Has(ops, "probe") /\ exit = 2)

HtifObservation(ops, variant, exit) ==
  [probes |-> IF Has(ops, "probe") THEN <<Bit(exit = 2)>> ELSE <<>>,
   events |-> IF Has(ops, "load_secret") /\ variant \notin Issue715
              THEN <<"load-access-fault">> ELSE <<>>]

\* An observation is returned when both executors complete and their events agree.
Answers(ops, variant, spike, boom) ==
  LET words == {ExitWord(ops, variant, spike), ExitWord(ops, variant, boom)}
      events == {HtifObservation(ops, variant, word).events : word \in words}
  IN (\A word \in words : Completed(ops, word)) /\ Cardinality(events) = 1
Answer(ops, variant, boom) == HtifObservation(ops, variant, ExitWord(ops, variant, boom))
=============================================================================
