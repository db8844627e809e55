------------------------------ MODULE Minimize ------------------------------
(***************************************************************************)
(* The life of one candidate program: proposed an operation at a time,     *)
(* judged by the workflow and by the trusted runner, validated, and, if it *)
(* violates, reduced by minimize of src/spechunter/loop.py: deletions      *)
(* tried from the left, each validated against the variant that was just   *)
(* violated, the scan started again after every deletion that still        *)
(* violates.                                                               *)
(***************************************************************************)
EXTENDS Candidate
Seqs == INSTANCE SequencesExt

CONSTANTS
  Alphabet,    \* the operations of the programs TLC builds
  MaxLength,   \* bound on those programs; the code's is 128
  NoBenchmark, \* the program is still being proposed
  Reliable     \* FALSE: an execution of the backend may fail or time out

ASSUME MinimizeAssumption ==
  /\ Alphabet \subseteq Ops /\ MaxLength \in 1..128 /\ Reliable \in BOOLEAN
  /\ NoBenchmark \notin Benchmarks

VARIABLES
  benchmark, original,
  program,   \* the shortest violating program so far
  i,         \* the deletion to try next
  tries,     \* validations so far (each is four executions)
  pc

vars == <<benchmark, original, program, i, tries, pc>>

Judgement(ops) == Verdict(ops, benchmark.invariant, benchmark.bug)
Violates(ops) == Judgement(ops) = "violation"

Init ==
  /\ benchmark = NoBenchmark
  /\ original \in {<<op>> : op \in Alphabet}
  /\ program = original /\ i = 1 /\ tries = 0 /\ pc = "proposed"

\* Program: a list of 1..128 operations.
Extend(op) ==
  /\ pc = "proposed" /\ Len(original) < MaxLength
  /\ original' = Append(original, op) /\ program' = original'
  /\ UNCHANGED <<benchmark, i, tries, pc>>

\* The caller minimizes what it has just seen violate.
Minimize ==
  /\ pc = "proposed"
  /\ benchmark' \in Benchmarks
  /\ Verdict(original, benchmark'.invariant, benchmark'.bug) = "violation"
  /\ pc' = "trying"
  /\ UNCHANGED <<original, program, i, tries>>

Shorter == Seqs!RemoveAt(program, i)
Trying == pc = "trying" /\ Len(program) > 1 /\ i <= Len(program)

\* The positive control must keep its protected load.
KeepsLoad ==
  benchmark.id = "boom-positive-control" /\ \A j \in DOMAIN Shorter : Shorter[j] # "load_secret"

AfterKeep == i + 1
Keep ==
  /\ Trying /\ KeepsLoad
  /\ i' = AfterKeep
  /\ UNCHANGED <<benchmark, original, program, tries, pc>>

\* After a deletion that still violates the scan starts from the left again.
Restart == 1

Accepted == Judgement(Shorter) = "violation"

Delete ==
  /\ Trying /\ ~KeepsLoad /\ Accepted
  /\ program' = Shorter
  /\ i' = Restart
  /\ tries' = tries + 1
  /\ UNCHANGED <<benchmark, original, pc>>

\* Clean and inconclusive alike leave the operation in.
SameAgain == i
SkipsNext == i + 2
AfterReject == i + 1
Reject ==
  /\ Trying /\ ~KeepsLoad /\ (Reliable => ~Accepted)
  /\ i' = AfterReject
  /\ tries' = tries + 1
  /\ UNCHANGED <<benchmark, original, program, pc>>

Return ==
  /\ pc = "trying" /\ (Len(program) = 1 \/ i > Len(program))
  /\ pc' = "returned"
  /\ UNCHANGED <<benchmark, original, program, i, tries>>

Scan == Keep \/ Delete \/ Reject \/ Return
Next == (\E op \in Alphabet : Extend(op)) \/ Minimize \/ Scan

Spec == Init /\ [][Next]_vars

-----------------------------------------------------------------------------
\* What is returned is 1-minimal: no single deletion still violates, but for the
\* load the positive control keeps (docstring of loop.py:82, README.md:26).
OneMinimal ==
  pc = "returned" /\ Len(program) > 1 =>
    \A j \in DOMAIN program :
      LET shorter == Seqs!RemoveAt(program, j)
      IN Violates(shorter) => /\ benchmark.id = "boom-positive-control"
                              /\ "load_secret" \notin {shorter[k] : k \in DOMAIN shorter}

\* Restarting from the left costs at most n(n+1)/2 validations, so the while loop
\* ends: a scan that is not restarted only moves right (loop.py:84-92).
QuadraticCost == 2 * tries <= Len(original) * (Len(original) + 1)

\* A challenge the loop accepts as relevant does exploit the unrepaired variant
\* of the cache benchmarks (agent_loop.py:11-36), so its clean run on the
\* repaired variant means something even before the baseline is executed.
\* (privilege-bypass is left out: a trained load is relevant and shows nothing.)
RelevantBreaksBaseline ==
  pc = "proposed" =>
    \A b \in Benchmarks :
      b.bug \in {"transient", "seeded-cache-leak"} /\ ~OutsideUser(original)
        /\ RelevantChallenge(original, b)
      => Verdict(original, b.invariant, b.bug) = "violation"

\* The runner never sees a fault: it writes one into every answer to a program
\* with a load (trusted_runner.py:464).  It is true all the same: such a program
\* completes on Spike and on BOOM only if both raised an access fault at the load.
FaultReportIsTrue ==
  pc = "proposed" =>
    \A variant \in {v \in RunnerVariants \ Issue715 : Acceptable(original, v)} :
      \A spike, boom \in Cores : Answers(original, variant, spike, boom) =>
        (Answer(original, variant, boom).events # <<>>
           <=> Has(original, "load_secret") /\ {spike.cause, boom.cause} = {AccessFault})

\* The probe bit of an answer is what BOOM measured, unless the probe stands
\* between the denied load and the squash that closes its window (or the encode,
\* if no squash follows): that probe is skipped and reported as zero, unmeasured
\* (trusted_runner.py:354-361, 378-386, 463).
ProbeReportIsMeasured ==
  pc = "proposed" =>
    \A variant \in {v \in RunnerVariants : Acceptable(original, v)} :
      \A spike, boom \in Cores :
        Answers(original, variant, spike, boom) /\ Has(original, "probe")
      => LET load == Load(original)
             probe == FirstIn(original, "probe", 1, Len(original))
             Between(op) == \E k \in (load + 1)..(probe - 1) : original[k] = op
             Later(op) == \E k \in probe..Len(original) : original[k] = op
             hidden == /\ load # 0 /\ load < probe /\ ~Between("squash")
                       /\ Later("squash") \/ (~Between("encode") /\ Later("encode"))
         IN Answer(original, variant, boom).probes
              = <<IF hidden THEN 0 ELSE Bit(boom.faster)>>
=============================================================================
