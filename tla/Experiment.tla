----------------------------- MODULE Experiment -----------------------------
(***************************************************************************)
(* experiment of src/spechunter/loop.py, the workflow without a language   *)
(* model: for each benchmark in turn, attack until a violation is found,   *)
(* minimize and revalidate it, try the secure variant, and sum up.  On the *)
(* fixture validate is the function Fixture computes; on BOOM any answer   *)
(* is possible every time it is asked.                                     *)
(***************************************************************************)
EXTENDS Fixture, FiniteSets

CONSTANTS
  Iterations,    \* the limit of attacks per benchmark
  RandomLength   \* bound on the operations of a random program; the code's is 12

ASSUME ExperimentAssumption ==
  Iterations \in 1..1000 /\ RandomLength \in 2..12

Statuses == {"violation", "clean", "inconclusive"}
Null == "null"

\* BENCHMARKS, a tuple: the order of the results.
Order == <<"privilege-bypass", "transient-cache", "secure-control", "boom-positive-control">>
Benchmark(id) == CHOOSE b \in Benchmarks : b.id = id

VARIABLES
  kind,       \* backend.config.kind; "rtl", its tools installed, answers as "model"
  strategy,
  pc,
  results,    \* of the benchmarks done: attempts and finding
  attempts,   \* of the current one: what each validation answered
  program,    \* under validation
  metrics

vars == <<kind, strategy, pc, results, attempts, program, metrics>>

Current == Benchmark(Order[Len(results) + 1])

Attempt == [status : Statuses, minimized : Statuses \cup {Null}]
Result == [id : {Order[k] : k \in DOMAIN Order}, attempts : Seq(Attempt),
           finding : {"none", "proposal-only", "verified", "unverified"}]
NoMetrics == [discovered |-> 0, falsePositives |-> 0, inconclusiveCases |-> 0]

TypeOK ==
  /\ kind \in {"model", "boom"}
  /\ strategy \in {"guided", "random"}
  /\ pc \in {"attack", "validate", "minimize", "repair", "metrics", "done"}
  /\ results \in Seq(Result) /\ Len(results) <= Len(Order)
  /\ attempts \in Seq(Attempt) /\ Len(attempts) <= Iterations
  /\ program \in Seq(Ops)
  /\ \A count \in {metrics.discovered, metrics.falsePositives, metrics.inconclusiveCases} :
       count \in 0..Len(Order)

Init ==
  /\ kind \in {"model", "boom"}
  /\ strategy \in {"guided", "random"}
  /\ pc = "attack" /\ results = <<>> /\ attempts = <<>> /\ program = <<>>
  /\ metrics = NoMetrics

-----------------------------------------------------------------------------
Boom == kind = "boom"

Answers(ops, benchmark, bug) ==
  IF OutsideUser(ops) THEN {"inconclusive"}
  ELSE IF Boom THEN Statuses ELSE {Verdict(ops, benchmark.invariant, bug)}

LoadOnly == <<"nop", "enter_user", "load_secret", "probe">>
Speculative == <<"nop", "train", "enter_user", "load_secret", "encode", "squash", "probe">>

Guided(benchmark, iteration) ==
  IF iteration = 0 \/ benchmark.invariant = "architectural-isolation" THEN LoadOnly ELSE Speculative
RandomPrograms ==
  {<<"enter_user">> \o ops : ops \in UNION {[1..n -> Ops] : n \in 2..RandomLength}}

OneMore == Len(attempts) <= Iterations
IterationsLeft == Len(attempts) < Iterations

Attack ==
  /\ pc = "attack" /\ IterationsLeft
  /\ program' \in IF strategy = "guided" THEN {Guided(Current, Len(attempts))} ELSE RandomPrograms
  /\ pc' = "validate"
  /\ UNCHANGED <<kind, strategy, results, attempts, metrics>>

\* The result of a benchmark, and on to the next one.
Finish(tried, finding) ==
  /\ results' = Append(results, [id |-> Current.id, attempts |-> tried, finding |-> finding])
  /\ attempts' = <<>> /\ program' = <<>>
  /\ pc' = IF Len(results) + 1 = Len(Order) THEN "metrics" ELSE "attack"

IterationsSpent ==
  /\ pc = "attack" /\ ~IterationsLeft
  /\ Finish(attempts, "none")
  /\ UNCHANGED <<kind, strategy, metrics>>

Tried(status) == Append(attempts, [status |-> status, minimized |-> Null])

Clean ==
  /\ pc = "validate" /\ "clean" \in Answers(program, Current, Current.bug)
  /\ attempts' = Tried("clean")
  /\ pc' = "attack"
  /\ program' = <<>>
  /\ UNCHANGED <<kind, strategy, results, metrics>>

Inconclusive ==
  /\ pc = "validate" /\ "inconclusive" \in Answers(program, Current, Current.bug)
  /\ Finish(Tried("inconclusive"), "none")
  /\ UNCHANGED <<kind, strategy, metrics>>

\* minimize returns its argument or a deletion it saw violate.
Deletions(ops) ==
  {[k \in 1..Cardinality(kept) |->
      ops[CHOOSE i \in kept : Cardinality({j \in kept : j <= i}) = k]] :
     kept \in (SUBSET DOMAIN ops) \ {{}}}
Minimized ==
  {ops \in Deletions(program) :
     ops = program \/ "violation" \in Answers(ops, Current, Current.bug)}

Violation ==
  /\ pc = "validate" /\ "violation" \in Answers(program, Current, Current.bug)
  /\ attempts' = Tried("violation")
  /\ program' \in Minimized
  /\ pc' = "minimize"
  /\ UNCHANGED <<kind, strategy, results, metrics>>

Revalidated(status) == [attempts EXCEPT ![Len(attempts)].minimized = status]

\* An unstable reduction is no finding, and the benchmark is given up.
NotReproduced ==
  /\ pc = "minimize"
  /\ \E status \in Answers(program, Current, Current.bug) \ {"violation"} :
       Finish(Revalidated(status), "none")
  /\ UNCHANGED <<kind, strategy, metrics>>

Reproduced ==
  /\ pc = "minimize" /\ "violation" \in Answers(program, Current, Current.bug)
  /\ attempts' = Revalidated("violation")
  /\ pc' = "repair"
  /\ UNCHANGED <<kind, strategy, results, program, metrics>>

\* The witness and the guided attack of every benchmark, on the secure variant.
SecureRegressions ==
  /\ Verdict(program, Current.invariant, "none") = "clean"
  /\ \A b \in Benchmarks : Verdict(Guided(b, 1), b.invariant, "none") = "clean"

RepairOutcome ==
  IF Boom THEN "proposal-only" ELSE IF SecureRegressions THEN "verified" ELSE "unverified"

Repair ==
  /\ pc = "repair"
  /\ Finish(attempts, RepairOutcome)
  /\ UNCHANGED <<kind, strategy, metrics>>

-----------------------------------------------------------------------------
InconclusiveAnswers(result) ==
  \E k \in DOMAIN result.attempts : result.attempts[k].status = "inconclusive"
InconclusiveCase(result) ==
  \E k \in DOMAIN result.attempts :
    \/ result.attempts[k].status = "inconclusive"
    \/ result.attempts[k].minimized \notin {Null, "violation"}

Found(positive) ==
  Cardinality({k \in DOMAIN results :
    Benchmark(results[k].id).positive = positive /\ results[k].finding # "none"})

Metrics ==
  /\ pc = "metrics"
  /\ metrics' = [discovered |-> Found(TRUE), falsePositives |-> Found(FALSE),
                 inconclusiveCases |->
                   Cardinality({k \in DOMAIN results : InconclusiveCase(results[k])})]
  /\ pc' = "done"
  /\ UNCHANGED <<kind, strategy, results, attempts, program>>

Next ==
  \/ Attack \/ IterationsSpent \/ Clean \/ Inconclusive \/ Violation
  \/ NotReproduced \/ Reproduced \/ Repair \/ Metrics

Spec == Init /\ [][Next]_vars

-----------------------------------------------------------------------------
(* Properties                                                              *)

\* What is found on the fixture the secure variant stops (loop.py:103-112); on
\* BOOM the workflow never claims a repair (loop.py:97-102).
RepairsAsClaimed ==
  \A k \in DOMAIN results :
    results[k].finding \in {"none", IF Boom THEN "proposal-only" ELSE "verified"}

\* A benchmark given up before its last iteration without a finding is counted as
\* inconclusive: no early stop looks like a clean run (loop.py:153-155, 165-166, 186-196).
StopsAreCounted ==
  pc = "done" =>
    Cardinality({k \in DOMAIN results :
      results[k].finding = "none" /\ \E a \in DOMAIN results[k].attempts :
        results[k].attempts[a].status # "clean"}) = metrics.inconclusiveCases
=============================================================================
