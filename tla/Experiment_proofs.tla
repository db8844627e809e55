-------------------------- MODULE Experiment_proofs --------------------------
(***************************************************************************)
(* The offline experiment claims only repairs it has: what it verifies on  *)
(* the fixture is clean for every program, and every benchmark it gave up  *)
(* is counted, for every limit of iterations and length of programs.       *)
(***************************************************************************)
EXTENDS Experiment, FixtureLockstep_proofs

\* The order of the benchmarks names each of them.
LEMMA CurrentIs ==
  ASSUME NEW k \in 1..Len(Order)
  PROVE  /\ Benchmark(Order[k]) \in Benchmarks /\ Benchmark(Order[k]).id = Order[k]
         /\ Order[k] \in {Order[j] : j \in DOMAIN Order}
<1>1. Len(Order) = 4 /\ DOMAIN Order = 1..4
  BY DEF Order
<1>2. k = 1 \/ k = 2 \/ k = 3 \/ k = 4
  BY <1>1
<1>3. \E b \in Benchmarks : b.id = Order[k]
  BY <1>2 DEF Order, Benchmarks
<1>4. QED
  BY <1>1, <1>3 DEF Benchmark

\* The elements a finite set of numbers has up to one of them, counted.
UpTo(kept, n) == Cardinality({j \in kept : j <= n})

\* A set of numbers has an element of every rank up to its size.
LEMMA Ranked ==
  ASSUME NEW N \in Nat, NEW kept \in SUBSET (1..N), NEW k \in 1..Cardinality(kept)
  PROVE  \E i \in kept : UpTo(kept, i) = k
<1> DEFINE part(n) == {j \in kept : j <= n}
           reached == {n \in 0..N : UpTo(kept, n) >= k}
<1>0. \A j \in kept : j \in Nat /\ 1 <= j /\ j <= N
  OBVIOUS
<1>1. IsFiniteSet(kept) /\ Cardinality(kept) \in Nat /\ k \in Nat /\ k >= 1
  <2>1. IsFiniteSet(1..N)
    BY FS_Interval
  <2>2. IsFiniteSet(kept) /\ Cardinality(kept) \in Nat
    BY <2>1, FS_Subset, FS_CardinalityType
  <2>3. QED
    BY <2>2
<1>2. \A n \in Nat : IsFiniteSet(part(n)) /\ UpTo(kept, n) \in Nat
  <2>1. TAKE n \in Nat
  <2>2. part(n) \in SUBSET kept
    OBVIOUS
  <2> HIDE DEF part
  <2>3. IsFiniteSet(part(n))
    BY <1>1, <2>2, FS_Subset
  <2>4. Cardinality(part(n)) \in Nat
    BY <2>3, FS_CardinalityType
  <2>5. QED
    BY <2>3, <2>4 DEF UpTo, part
<1>3. UpTo(kept, N) = Cardinality(kept)
  <2>1. part(N) = kept
    BY <1>0
  <2>2. QED
    BY <2>1 DEF UpTo
<1>4. reached # {} /\ reached \in SUBSET Nat
  <2>1. N \in 0..N /\ UpTo(kept, N) >= k
    BY <1>1, <1>3
  <2>2. QED
    BY <2>1
<1>5. PICK i \in reached : \A m \in reached : i <= m
  <2> HIDE DEF reached
  <2>1. QED
    BY <1>4, LeastExists
<1>6. i \in 0..N /\ UpTo(kept, i) >= k /\ i \in Nat
  BY <1>5
<1>7. i # 0
  <2>0. \A j \in kept : ~(j <= 0)
    BY <1>0
  <2>1. part(0) = {}
    BY <2>0
  <2>2. UpTo(kept, 0) = 0
    BY <2>1, FS_EmptySet DEF UpTo
  <2>3. QED
    BY <1>1, <1>6, <2>2
<1>8. UpTo(kept, i - 1) < k /\ UpTo(kept, i - 1) \in Nat
  <2>1. i - 1 \in 0..N /\ i - 1 \in Nat /\ ~(i <= i - 1)
    BY <1>6, <1>7
  <2>2. i - 1 \notin reached
    BY <1>5, <2>1
  <2>3. UpTo(kept, i - 1) \in Nat
    BY <1>2, <2>1
  <2>4. QED
    BY <1>1, <2>1, <2>2, <2>3
<1>9. /\ i \in kept => part(i) = part(i - 1) \cup {i}
      /\ i \notin kept => part(i) = part(i - 1)
  <2>1. \A j \in kept : j <= i <=> (j <= i - 1 \/ j = i)
    BY <1>0, <1>6
  <2>2. QED
    BY <2>1
<1>10. i \in kept
  <2>1. UpTo(kept, i) # UpTo(kept, i - 1)
    BY <1>1, <1>6, <1>8
  <2>2. part(i) # part(i - 1)
    BY <2>1 DEF UpTo
  <2>3. QED
    BY <1>9, <2>2
<1>11. UpTo(kept, i) <= UpTo(kept, i - 1) + 1
  <2>1. i - 1 \in Nat
    BY <1>6, <1>7
  <2>2. IsFiniteSet(part(i - 1))
    BY <1>2, <2>1
  <2>3. part(i) = part(i - 1) \cup {i}
    BY <1>9, <1>10
  <2> HIDE DEF part
  <2>4. Cardinality(part(i - 1) \cup {i}) =
          IF i \in part(i - 1) THEN Cardinality(part(i - 1)) ELSE Cardinality(part(i - 1)) + 1
    BY <2>2, FS_AddElement
  <2>5. UpTo(kept, i) = Cardinality(part(i)) /\ UpTo(kept, i - 1) = Cardinality(part(i - 1))
    BY DEF part, UpTo
  <2>6. QED
    BY <1>8, <2>3, <2>4, <2>5
<1>12. UpTo(kept, i) \in Nat
  BY <1>2, <1>6
<1>13. UpTo(kept, i) = k
  BY <1>1, <1>6, <1>8, <1>11, <1>12
<1>14. QED
  BY <1>10, <1>13

\* Deletions of a program are programs.
LEMMA DeletionsAreProgramsOf ==
  ASSUME NEW ops \in Seq(Ops)
  PROVE  Deletions(ops) \subseteq Seq(Ops)
<1>1. SUFFICES ASSUME NEW kept \in SUBSET DOMAIN ops
               PROVE  [k \in 1..Cardinality(kept) |->
                         ops[CHOOSE i \in kept : Cardinality({j \in kept : j <= i}) = k]]
                        \in Seq(Ops)
  BY DEF Deletions
<1>2. Len(ops) \in Nat /\ kept \in SUBSET (1..Len(ops))
  OBVIOUS
<1>3. Cardinality(kept) \in Nat
  <2>1. IsFiniteSet(1..Len(ops))
    BY <1>2, FS_Interval
  <2>2. QED
    BY <1>2, <2>1, FS_Subset, FS_CardinalityType
<1>4. ASSUME NEW k \in 1..Cardinality(kept)
      PROVE  ops[CHOOSE i \in kept : Cardinality({j \in kept : j <= i}) = k] \in Ops
  <2>1. \E i \in kept : UpTo(kept, i) = k
    BY <1>2, Ranked
  <2>2. (CHOOSE i \in kept : UpTo(kept, i) = k) \in kept
    BY <2>1
  <2>3. (CHOOSE i \in kept : Cardinality({j \in kept : j <= i}) = k) \in kept
    BY <2>2 DEF UpTo
  <2>4. QED
    BY <1>2, <2>3
<1> DEFINE e(k) == ops[CHOOSE i \in kept : Cardinality({j \in kept : j <= i}) = k]
<1>5. \A k \in 1..Cardinality(kept) : e(k) \in Ops
  BY <1>4
<1> HIDE DEF e
<1>6. [k \in 1..Cardinality(kept) |-> e(k)] \in Seq(Ops)
  BY <1>3, <1>5
<1>7. QED
  BY <1>6 DEF e

-----------------------------------------------------------------------------
(* The state machine                                                       *)

LEMMA OrderLength == Len(Order) = 4
  BY DEF Order

\* Where the control is, and what the attempts of the current benchmark were.
AllClean(tried) == \A k \in DOMAIN tried : tried[k] = [status |-> "clean", minimized |-> Null]
LastViolates(tried, minimized) ==
  /\ Len(tried) >= 1
  /\ tried[Len(tried)] = [status |-> "violation", minimized |-> minimized]
  /\ \A k \in 1..(Len(tried) - 1) : tried[k] = [status |-> "clean", minimized |-> Null]

Placed ==
  /\ pc \in {"attack", "validate", "minimize", "repair"} => Len(results) < Len(Order)
  /\ pc \in {"attack", "validate"} => AllClean(attempts)
  /\ pc = "validate" => Len(attempts) < Iterations
  /\ pc = "minimize" => LastViolates(attempts, Null)
  /\ pc = "repair" => LastViolates(attempts, "violation") /\ ~OutsideUser(program)

\* A benchmark without a finding was given up exactly if it is an inconclusive case.
AsCounted(result) ==
  (result.finding = "none" /\ \E a \in DOMAIN result.attempts : result.attempts[a].status # "clean")
    <=> InconclusiveCase(result)

ExperimentInv == TypeOK /\ Placed

\* An attempt, and one more attempt.
LEMMA TriedTyped ==
  ASSUME attempts \in Seq(Attempt), Len(attempts) < Iterations, NEW status \in Statuses
  PROVE  /\ Tried(status) \in Seq(Attempt)
         /\ Len(Tried(status)) = Len(attempts) + 1 /\ Len(Tried(status)) <= Iterations
         /\ Tried(status)[Len(attempts) + 1] = [status |-> status, minimized |-> Null]
         /\ \A k \in 1..Len(attempts) : Tried(status)[k] = attempts[k]
<1> DEFINE one == [status |-> status, minimized |-> Null]
<1>1. one \in Attempt
  BY DEF Attempt
<1>2. Len(attempts) \in Nat /\ Iterations \in Nat
  BY ExperimentAssumption
<1>3. Tried(status) = Append(attempts, one)
  BY DEF Tried
<1> HIDE DEF one
<1>4. QED
  BY <1>1, <1>2, <1>3 DEF one

LEMMA RevalidatedTyped ==
  ASSUME attempts \in Seq(Attempt), Len(attempts) >= 1, NEW status \in Statuses
  PROVE  /\ Revalidated(status) \in Seq(Attempt)
         /\ Len(Revalidated(status)) = Len(attempts)
         /\ Revalidated(status)[Len(attempts)]
              = [status |-> attempts[Len(attempts)].status, minimized |-> status]
         /\ \A k \in 1..(Len(attempts) - 1) : Revalidated(status)[k] = attempts[k]
<1> DEFINE n == Len(attempts)
           last == [attempts[n] EXCEPT !.minimized = status]
<1>1. n \in Nat /\ n \in 1..n /\ attempts \in [1..n -> Attempt] /\ attempts[n] \in Attempt
  OBVIOUS
<1>2. last \in Attempt /\ last = [status |-> attempts[n].status, minimized |-> status]
  BY <1>1 DEF Attempt
<1>3. Revalidated(status) = [attempts EXCEPT ![n] = last]
  BY DEF Revalidated
<1> HIDE DEF last
<1>4. [attempts EXCEPT ![n] = last] \in Seq(Attempt) /\ Len([attempts EXCEPT ![n] = last]) = n
  BY <1>1, <1>2
<1>5. \A k \in 1..n : [attempts EXCEPT ![n] = last][k] = IF k = n THEN last ELSE attempts[k]
  BY <1>1
<1>6. QED
  BY <1>1, <1>2, <1>3, <1>4, <1>5

\* The attacks proposed are programs.
LEMMA GuidedPrograms ==
  /\ LoadOnly \in Seq(Ops) /\ Speculative \in Seq(Ops)
  /\ ~OutsideUser(LoadOnly) /\ ~OutsideUser(Speculative)
<1>1. LoadOnly \in Seq(Ops) /\ Speculative \in Seq(Ops)
  BY DEF LoadOnly, Speculative, Ops
<1>2. ~OutsideUser(LoadOnly)
  <2> DEFINE s == LoadOnly
  <2>1. /\ DOMAIN s = 1..4 /\ s[1] = "nop" /\ s[2] = "enter_user" /\ s[3] = "load_secret"
        /\ s[4] = "probe"
    BY DEF LoadOnly
  <2> HIDE DEF s
  <2>2. \A i \in DOMAIN s : s[i] = "load_secret" => 2 \in 1..i
    BY <2>1
  <2>3. ~OutsideUser(s)
    BY <2>1, <2>2 DEF OutsideUser
  <2>4. QED
    BY <2>3 DEF s
<1>3. ~OutsideUser(Speculative)
  <2> DEFINE s == Speculative
  <2>1. /\ DOMAIN s = 1..7 /\ s[1] = "nop" /\ s[2] = "train" /\ s[3] = "enter_user"
        /\ s[4] = "load_secret" /\ s[5] = "encode" /\ s[6] = "squash" /\ s[7] = "probe"
    BY DEF Speculative
  <2> HIDE DEF s
  <2>2. \A i \in DOMAIN s : s[i] = "load_secret" => 3 \in 1..i
    BY <2>1
  <2>3. ~OutsideUser(s)
    BY <2>1, <2>2 DEF OutsideUser
  <2>4. QED
    BY <2>3 DEF s
<1>4. QED
  BY <1>1, <1>2, <1>3

LEMMA RandomProgramsTyped == RandomPrograms \subseteq Seq(Ops)
<1>1. SUFFICES ASSUME NEW n \in 2..RandomLength, NEW ops \in [1..n -> Ops]
               PROVE  <<"enter_user">> \o ops \in Seq(Ops)
  BY DEF RandomPrograms
<1>2. n \in Nat
  BY ExperimentAssumption
<1>3. ops \in Seq(Ops) /\ <<"enter_user">> \in Seq(Ops)
  BY <1>2 DEF Ops
<1>4. QED
  BY <1>3, ConcatProperties

\* What the workflow is told is a status, and a violation is told of programs in user mode.
LEMMA AnswersAre ==
  ASSUME NEW ops, NEW b, NEW v
  PROVE  /\ Answers(ops, b, v) \subseteq Statuses
         /\ "violation" \in Answers(ops, b, v) => ~OutsideUser(ops)
<1>1. Verdict(ops, b.invariant, v) \in Statuses
  BY DEF Verdict, Statuses
<1>2. QED
  BY <1>1 DEF Answers, Statuses

\* What Finish leaves for the next benchmark: one more result.
LEMMA FinishTyped ==
  ASSUME TypeOK, Len(results) < Len(Order), NEW tried \in Seq(Attempt),
         NEW finding \in {"none", "proposal-only", "verified", "unverified"},
         Finish(tried, finding)
  PROVE  /\ results' \in Seq(Result) /\ Len(results') = Len(results) + 1
         /\ Len(results') <= Len(Order)
         /\ attempts' = <<>> /\ program' = <<>> /\ pc' \in {"attack", "metrics"}
         /\ pc' = "attack" => Len(results') < Len(Order)
         /\ \A k \in 1..Len(results) : results'[k] = results[k]
         /\ results'[Len(results) + 1] = [id |-> Current.id, attempts |-> tried, finding |-> finding]
<1> DEFINE n == Len(results)
           new == [id |-> Current.id, attempts |-> tried, finding |-> finding]
<1>1. n \in Nat /\ n + 1 \in 1..Len(Order) /\ Len(Order) = 4 /\ results \in Seq(Result)
  BY OrderLength DEF TypeOK
<1>2. Current.id \in {Order[j] : j \in DOMAIN Order}
  <2> HIDE DEF n
  <2>1. /\ Benchmark(Order[n + 1]).id = Order[n + 1]
        /\ Order[n + 1] \in {Order[j] : j \in DOMAIN Order}
    BY <1>1, CurrentIs
  <2>2. QED
    BY <2>1 DEF Current, n
<1>3. new \in Result
  BY <1>2 DEF Result
<1>4. results' = Append(results, new)
  BY DEF Finish
<1> HIDE DEF new
<1>5. /\ results' \in Seq(Result) /\ Len(results') = n + 1 /\ results'[n + 1] = new
      /\ \A k \in 1..n : results'[k] = results[k]
  BY <1>1, <1>3, <1>4
<1>6. /\ attempts' = <<>> /\ program' = <<>>
      /\ pc' = IF n + 1 = Len(Order) THEN "metrics" ELSE "attack"
  BY DEF Finish
<1>7. n + 1 <= Len(Order)
  BY <1>1
<1>8. pc' \in {"attack", "metrics"} /\ (pc' = "attack" => n + 1 < Len(Order))
  BY <1>1, <1>6, <1>7
<1>9. QED
  BY <1>5, <1>6, <1>7, <1>8 DEF new

\* What the steps that finish a benchmark leave typed and placed.
LEMMA FinishKeeps ==
  ASSUME TypeOK, Len(results) < Len(Order), NEW tried \in Seq(Attempt),
         NEW finding \in {"none", "proposal-only", "verified", "unverified"},
         Finish(tried, finding), UNCHANGED <<kind, strategy, metrics>>
  PROVE  ExperimentInv'
<1>1. /\ results' \in Seq(Result) /\ Len(results') <= Len(Order)
      /\ attempts' = <<>> /\ program' = <<>> /\ pc' \in {"attack", "metrics"}
      /\ pc' = "attack" => Len(results') < Len(Order)
  BY FinishTyped
<1>2. <<>> \in Seq(Attempt) /\ <<>> \in Seq(Ops) /\ Len(<<>>) = 0 /\ DOMAIN <<>> = {}
  OBVIOUS
<1>3. 0 <= Iterations
  BY ExperimentAssumption
<1>4. TypeOK'
  <2>1. attempts' \in Seq(Attempt) /\ Len(attempts') <= Iterations /\ program' \in Seq(Ops)
    BY <1>1, <1>2, <1>3
  <2>2. /\ kind' \in {"model", "boom"} /\ strategy' \in {"guided", "random"}
        /\ \A count \in {metrics'.discovered, metrics'.falsePositives, metrics'.inconclusiveCases} :
             count \in 0..Len(Order)
    BY DEF TypeOK
  <2>3. QED
    BY <1>1, <2>1, <2>2 DEF TypeOK
<1>5. Placed'
  <2>1. AllClean(attempts')
    BY <1>1, <1>2 DEF AllClean
  <2>2. QED
    BY <1>1, <2>1 DEF Placed
<1>6. QED
  BY <1>4, <1>5 DEF ExperimentInv

\* The outcome of a repair is one of the three the code writes.
LEMMA OutcomeIs ==
  /\ RepairOutcome \in {"none", "proposal-only", "verified", "unverified"}
  /\ RepairOutcome # "none"
  BY DEF RepairOutcome

\* Counts of results stay within the benchmarks.
LEMMA ResultsCounted ==
  ASSUME TypeOK, NEW part \in SUBSET DOMAIN results
  PROVE  Cardinality(part) \in 0..Len(Order)
<1>1. DOMAIN results = 1..Len(results) /\ Len(results) \in Nat /\ Len(results) <= Len(Order)
      /\ Len(Order) \in Nat
  BY OrderLength DEF TypeOK
<1>2. IsFiniteSet(1..Len(results)) /\ Cardinality(1..Len(results)) = Len(results)
  <2> DEFINE n == Len(results)
  <2>1. n \in Nat /\ n \in Int /\ 1 \in Int
    BY <1>1
  <2> HIDE DEF n
  <2>2. IsFiniteSet(1..n) /\ Cardinality(1..n) = IF 1 > n THEN 0 ELSE n - 1 + 1
    BY <2>1, FS_Interval
  <2>3. IsFiniteSet(1..n) /\ Cardinality(1..n) = n
    BY <2>1, <2>2
  <2>4. QED
    BY <2>3 DEF n
<1>3. Cardinality(part) <= Len(results) /\ Cardinality(part) \in Nat
  BY <1>1, <1>2, FS_Subset, FS_CardinalityType
<1>4. QED
  BY <1>1, <1>3

\* The inductive invariant of the experiment.
LEMMA ExperimentInductive == Spec => []ExperimentInv
<1>1. Init => ExperimentInv
  <2> SUFFICES ASSUME Init PROVE ExperimentInv
    OBVIOUS
  <2>1. /\ <<>> \in Seq(Attempt) /\ <<>> \in Seq(Ops) /\ <<>> \in Seq(Result)
        /\ Len(<<>>) = 0 /\ DOMAIN <<>> = {}
    OBVIOUS
  <2>2. 0 <= Iterations /\ 0 < Iterations
    BY ExperimentAssumption
  <2>3. TypeOK
    BY <2>1, <2>2, OrderLength DEF Init, TypeOK, NoMetrics
  <2>4. Placed
    BY <2>1, <2>2, OrderLength DEF Init, Placed, AllClean
  <2>5. QED
    BY <2>3, <2>4 DEF ExperimentInv
<1>2. ExperimentInv /\ [Next]_vars => ExperimentInv'
  <2> SUFFICES ASSUME ExperimentInv, [Next]_vars PROVE ExperimentInv'
    OBVIOUS
  <2>0. TypeOK /\ Placed /\ Len(attempts) \in Nat /\ Iterations \in Nat
    BY ExperimentAssumption DEF ExperimentInv, TypeOK
  <2>1. CASE Attack
    <3>1. program' \in Seq(Ops)
      BY <2>1, GuidedPrograms, RandomProgramsTyped DEF Attack, Guided
    <3>2. Len(attempts) < Iterations /\ Len(results) < Len(Order) /\ AllClean(attempts)
      BY <2>0, <2>1 DEF Attack, IterationsLeft, Placed
    <3>3. pc' = "validate" /\ UNCHANGED <<kind, strategy, results, attempts, metrics>>
      BY <2>1 DEF Attack
    <3>4. TypeOK'
      BY <2>0, <3>1, <3>3 DEF TypeOK
    <3>5. Placed'
      BY <3>2, <3>3 DEF Placed, AllClean
    <3>6. QED
      BY <3>4, <3>5 DEF ExperimentInv
  <2>2. CASE IterationsSpent
    <3>1. Len(results) < Len(Order) /\ attempts \in Seq(Attempt)
      BY <2>0, <2>2 DEF IterationsSpent, Placed, TypeOK
    <3>2. QED
      BY <2>0, <2>2, <3>1, FinishKeeps DEF IterationsSpent
  <2>3. CASE Clean
    <3>1. /\ attempts \in Seq(Attempt) /\ Len(attempts) < Iterations
          /\ Len(results) < Len(Order) /\ AllClean(attempts)
      BY <2>0, <2>3 DEF Clean, Placed, TypeOK
    <3>2. attempts' = Tried("clean") /\ pc' = "attack" /\ program' = <<>>
          /\ UNCHANGED <<kind, strategy, results, metrics>>
      BY <2>3 DEF Clean
    <3>3. /\ attempts' \in Seq(Attempt) /\ Len(attempts') = Len(attempts) + 1
          /\ Len(attempts') <= Iterations
          /\ attempts'[Len(attempts) + 1] = [status |-> "clean", minimized |-> Null]
          /\ \A k \in 1..Len(attempts) : attempts'[k] = attempts[k]
      BY <3>1, <3>2, TriedTyped DEF Statuses
    <3>4. AllClean(attempts')
      <4>1. \A k \in DOMAIN attempts' : k \in DOMAIN attempts \/ k = Len(attempts) + 1
        BY <2>0, <3>1, <3>3
      <4>2. DOMAIN attempts = 1..Len(attempts)
        BY <3>1
      <4>3. QED
        BY <3>1, <3>3, <4>1, <4>2 DEF AllClean
    <3>5. TypeOK'
      BY <2>0, <3>2, <3>3 DEF TypeOK
    <3>6. Placed'
      BY <3>1, <3>2, <3>4 DEF Placed
    <3>7. QED
      BY <3>5, <3>6 DEF ExperimentInv
  <2>4. CASE Inconclusive
    <3>1. Len(results) < Len(Order) /\ attempts \in Seq(Attempt) /\ Len(attempts) < Iterations
      BY <2>0, <2>4 DEF Inconclusive, Placed, TypeOK
    <3>2. Tried("inconclusive") \in Seq(Attempt)
      BY <3>1, TriedTyped DEF Statuses
    <3>3. QED
      BY <2>0, <2>4, <3>1, <3>2, FinishKeeps DEF Inconclusive
  <2>5. CASE Violation
    <3>1. /\ attempts \in Seq(Attempt) /\ Len(attempts) < Iterations
          /\ Len(results) < Len(Order) /\ AllClean(attempts) /\ program \in Seq(Ops)
      BY <2>0, <2>5 DEF Violation, Placed, TypeOK
    <3>2. attempts' = Tried("violation") /\ pc' = "minimize" /\ program' \in Minimized
          /\ UNCHANGED <<kind, strategy, results, metrics>>
      BY <2>5 DEF Violation
    <3>3. /\ attempts' \in Seq(Attempt) /\ Len(attempts') = Len(attempts) + 1
          /\ Len(attempts') <= Iterations
          /\ attempts'[Len(attempts) + 1] = [status |-> "violation", minimized |-> Null]
          /\ \A k \in 1..Len(attempts) : attempts'[k] = attempts[k]
      BY <3>1, <3>2, TriedTyped DEF Statuses
    <3>4. LastViolates(attempts', Null)
      <4>1. DOMAIN attempts = 1..Len(attempts) /\ (Len(attempts) + 1) - 1 = Len(attempts)
            /\ Len(attempts) + 1 >= 1
        BY <2>0, <3>1
      <4>2. QED
        BY <3>1, <3>3, <4>1 DEF LastViolates, AllClean
    <3>5. program' \in Seq(Ops)
      BY <3>1, <3>2, DeletionsAreProgramsOf DEF Minimized
    <3>6. TypeOK'
      BY <2>0, <3>2, <3>3, <3>5 DEF TypeOK
    <3>7. Placed'
      BY <3>1, <3>2, <3>4 DEF Placed
    <3>8. QED
      BY <3>6, <3>7 DEF ExperimentInv
  <2>6. CASE NotReproduced
    <3>1. Len(results) < Len(Order) /\ attempts \in Seq(Attempt) /\ Len(attempts) >= 1
      BY <2>0, <2>6 DEF NotReproduced, Placed, TypeOK, LastViolates
    <3>2. PICK status \in Answers(program, Current, Current.bug) \ {"violation"} :
            Finish(Revalidated(status), "none")
      BY <2>6 DEF NotReproduced
    <3>3. status \in Statuses
      BY AnswersAre
    <3>4. Revalidated(status) \in Seq(Attempt)
      BY <3>1, <3>3, RevalidatedTyped
    <3>5. QED
      BY <2>0, <2>6, <3>1, <3>2, <3>4, FinishKeeps DEF NotReproduced
  <2>7. CASE Reproduced
    <3>1. /\ attempts \in Seq(Attempt) /\ LastViolates(attempts, Null) /\ Len(attempts) >= 1
          /\ Len(results) < Len(Order)
      BY <2>0, <2>7 DEF Reproduced, Placed, TypeOK, LastViolates
    <3>2. /\ attempts' = Revalidated("violation") /\ pc' = "repair"
          /\ UNCHANGED <<kind, strategy, results, program, metrics>>
      BY <2>7 DEF Reproduced
    <3>3. /\ attempts' \in Seq(Attempt) /\ Len(attempts') = Len(attempts)
          /\ attempts'[Len(attempts)]
               = [status |-> attempts[Len(attempts)].status, minimized |-> "violation"]
          /\ \A k \in 1..(Len(attempts) - 1) : attempts'[k] = attempts[k]
      BY <3>1, <3>2, RevalidatedTyped DEF Statuses
    <3>4. LastViolates(attempts', "violation")
      BY <3>1, <3>3 DEF LastViolates
    <3>5. ~OutsideUser(program)
      BY <2>7, AnswersAre DEF Reproduced
    <3>6. TypeOK'
      BY <2>0, <3>2, <3>3 DEF TypeOK
    <3>7. Placed'
      BY <3>1, <3>2, <3>4, <3>5 DEF Placed
    <3>8. QED
      BY <3>6, <3>7 DEF ExperimentInv
  <2>8. CASE Repair
    <3>1. Len(results) < Len(Order) /\ attempts \in Seq(Attempt)
      BY <2>0, <2>8 DEF Repair, Placed, TypeOK
    <3>2. QED
      BY <2>0, <2>8, <3>1, OutcomeIs, FinishKeeps DEF Repair
  <2>9. CASE Metrics
    <3>1. pc' = "done" /\ UNCHANGED <<kind, strategy, results, attempts, program>>
      BY <2>9 DEF Metrics
    <3>2. /\ metrics'.discovered = Found(TRUE) /\ metrics'.falsePositives = Found(FALSE)
          /\ metrics'.inconclusiveCases =
               Cardinality({k \in DOMAIN results : InconclusiveCase(results[k])})
      BY <2>9 DEF Metrics
    <3>3. Found(TRUE) \in 0..Len(Order) /\ Found(FALSE) \in 0..Len(Order)
      BY <2>0, ResultsCounted DEF Found
    <3>4. Cardinality({k \in DOMAIN results : InconclusiveCase(results[k])}) \in 0..Len(Order)
      BY <2>0, ResultsCounted
    <3>5. TypeOK'
      BY <2>0, <3>1, <3>2, <3>3, <3>4 DEF TypeOK
    <3>6. Placed'
      BY <3>1 DEF Placed
    <3>7. QED
      BY <3>5, <3>6 DEF ExperimentInv
  <2>10. CASE UNCHANGED vars
    BY <2>0, <2>10 DEF vars, ExperimentInv, TypeOK, Placed, AllClean, LastViolates
  <2>11. QED
    BY <2>1, <2>2, <2>3, <2>4, <2>5, <2>6, <2>7, <2>8, <2>9, <2>10 DEF Next
<1>3. QED
  BY <1>1, <1>2, PTL DEF Spec

\* The variables of the experiment keep their shapes.
THEOREM ExperimentTypeCorrect == Spec => []TypeOK
  BY ExperimentInductive, PTL DEF ExperimentInv

-----------------------------------------------------------------------------
\* What is found on the fixture is stopped by the secure variant, whatever the
\* program found (loop.py:103-112), and on BOOM no repair is claimed (loop.py:97-102).
THEOREM ClaimsHold == Spec => []RepairsAsClaimed
<1> DEFINE Allowed == {"none", IF Boom THEN "proposal-only" ELSE "verified"}
<1>1. Init => RepairsAsClaimed
  <2>1. DOMAIN <<>> = {}
    OBVIOUS
  <2>2. QED
    BY <2>1 DEF Init, RepairsAsClaimed
<1>2. ExperimentInv /\ RepairsAsClaimed /\ [Next]_vars => RepairsAsClaimed'
  <2> SUFFICES ASSUME ExperimentInv, RepairsAsClaimed, [Next]_vars PROVE RepairsAsClaimed'
    OBVIOUS
  <2>0. /\ TypeOK /\ Placed /\ DOMAIN results = 1..Len(results) /\ Len(results) \in Nat
        /\ attempts \in Seq(Attempt)
    BY DEF ExperimentInv, TypeOK
  <2>1. kind' = kind
    BY DEF Next, vars, Attack, IterationsSpent, Clean, Inconclusive, Violation,
           NotReproduced, Reproduced, Repair, Metrics
  <2>2. CASE UNCHANGED results
    BY <2>1, <2>2 DEF RepairsAsClaimed, Boom
  <2>3. ASSUME NEW tried \in Seq(Attempt), NEW finding \in Allowed,
               finding \in {"none", "proposal-only", "verified", "unverified"},
               Len(results) < Len(Order), Finish(tried, finding)
        PROVE  RepairsAsClaimed'
    <3>1. /\ results' \in Seq(Result) /\ Len(results') = Len(results) + 1
          /\ \A k \in 1..Len(results) : results'[k] = results[k]
          /\ results'[Len(results) + 1].finding = finding
      <4> HIDE DEF Allowed
      <4>1. /\ results' \in Seq(Result) /\ Len(results') = Len(results) + 1
            /\ \A k \in 1..Len(results) : results'[k] = results[k]
            /\ results'[Len(results) + 1]
                 = [id |-> Current.id, attempts |-> tried, finding |-> finding]
        BY <2>0, <2>3, FinishTyped
      <4>2. QED
        BY <4>1
    <3>2. \A k \in DOMAIN results' : k \in 1..Len(results) \/ k = Len(results) + 1
      BY <2>0, <3>1
    <3>3. \A k \in DOMAIN results' : results'[k].finding \in Allowed
      BY <2>0, <2>3, <3>1, <3>2 DEF RepairsAsClaimed
    <3>4. Boom' = Boom
      BY <2>1 DEF Boom
    <3>5. QED
      BY <3>3, <3>4 DEF RepairsAsClaimed
  <2>4. CASE IterationsSpent
    BY <2>0, <2>3, <2>4 DEF IterationsSpent, Placed
  <2>5. CASE Inconclusive
    <3>1. Len(results) < Len(Order) /\ Len(attempts) < Iterations
      BY <2>0, <2>5 DEF Inconclusive, Placed
    <3>2. Tried("inconclusive") \in Seq(Attempt)
      BY <2>0, <3>1, TriedTyped DEF Statuses
    <3>3. QED
      BY <2>3, <2>5, <3>1, <3>2 DEF Inconclusive
  <2>6. CASE NotReproduced
    <3>1. Len(results) < Len(Order) /\ Len(attempts) >= 1
      BY <2>0, <2>6 DEF NotReproduced, Placed, LastViolates
    <3>2. PICK status \in Answers(program, Current, Current.bug) \ {"violation"} :
            Finish(Revalidated(status), "none")
      BY <2>6 DEF NotReproduced
    <3>3. status \in Statuses
      BY AnswersAre
    <3>4. Revalidated(status) \in Seq(Attempt)
      BY <2>0, <3>1, <3>3, RevalidatedTyped
    <3>5. QED
      BY <2>3, <3>1, <3>2, <3>4
  <2>7. CASE Repair
    <3>1. Len(results) < Len(Order) /\ ~OutsideUser(program) /\ program \in Seq(Ops)
      BY <2>0, <2>7 DEF Repair, Placed, TypeOK
    <3>2. \A b \in Benchmarks : Guided(b, 1) \in Seq(Ops) /\ ~OutsideUser(Guided(b, 1))
      BY GuidedPrograms DEF Guided
    <3>3. SecureRegressions
      BY <3>1, <3>2, SecureIsClean DEF SecureRegressions, Secure
    <3>4. RepairOutcome \in Allowed
      BY <3>3 DEF RepairOutcome
    <3>5. Finish(attempts, RepairOutcome)
      BY <2>7 DEF Repair
    <3> HIDE DEF Allowed
    <3>6. QED
      BY <2>0, <2>3, <3>1, <3>4, <3>5, OutcomeIs
  <2>8. QED
    BY <2>2, <2>4, <2>5, <2>6, <2>7
    DEF Next, vars, Attack, Clean, Violation, Reproduced, Metrics
<1>3. QED
  BY <1>1, <1>2, ExperimentInductive, PTL DEF Spec

\* The three ways a benchmark ends, and the one that finds something.
LEMMA SpentAsCounted ==
  ASSUME NEW id, NEW tried, AllClean(tried), NEW finding
  PROVE  AsCounted([id |-> id, attempts |-> tried, finding |-> finding])
<1> DEFINE result == [id |-> id, attempts |-> tried, finding |-> finding]
<1>1. result.attempts = tried /\ result.finding = finding
  OBVIOUS
<1>2. \A k \in DOMAIN tried : tried[k].status = "clean" /\ tried[k].minimized = Null
  BY DEF AllClean
<1> HIDE DEF result
<1>3. AsCounted(result)
  BY <1>1, <1>2 DEF AsCounted, InconclusiveCase
<1>4. QED
  BY <1>3 DEF result

LEMMA GivenUpAsCounted ==
  ASSUME NEW id, NEW tried, NEW k \in DOMAIN tried,
         \/ tried[k].status = "inconclusive"
         \/ tried[k].status = "violation" /\ tried[k].minimized \in Statuses \ {"violation"}
  PROVE  AsCounted([id |-> id, attempts |-> tried, finding |-> "none"])
<1> DEFINE result == [id |-> id, attempts |-> tried, finding |-> "none"]
<1>1. result.attempts = tried /\ result.finding = "none"
  OBVIOUS
<1> HIDE DEF result
<1>2. AsCounted(result)
  BY <1>1 DEF AsCounted, InconclusiveCase, Statuses, Null
<1>3. QED
  BY <1>2 DEF result

LEMMA FoundAsCounted ==
  ASSUME NEW id, NEW tried \in Seq(Attempt), LastViolates(tried, "violation"),
         NEW finding, finding # "none"
  PROVE  AsCounted([id |-> id, attempts |-> tried, finding |-> finding])
<1> DEFINE result == [id |-> id, attempts |-> tried, finding |-> finding]
<1>1. result.attempts = tried /\ result.finding = finding
  OBVIOUS
<1>2. \A k \in DOMAIN tried :
        tried[k].status # "inconclusive" /\ tried[k].minimized \in {Null, "violation"}
  <2>1. \A k \in DOMAIN tried : k \in 1..(Len(tried) - 1) \/ k = Len(tried)
    OBVIOUS
  <2>2. QED
    BY <2>1 DEF LastViolates
<1> HIDE DEF result
<1>3. AsCounted(result)
  BY <1>1, <1>2 DEF AsCounted, InconclusiveCase
<1>4. QED
  BY <1>3 DEF result

Counted ==
  /\ \A k \in DOMAIN results : AsCounted(results[k])
  /\ pc = "done" =>
       metrics.inconclusiveCases =
         Cardinality({k \in DOMAIN results : InconclusiveCase(results[k])})

\* A benchmark given up without a finding is an inconclusive case in the metrics, so
\* no early stop looks like a clean run (loop.py:153-155, 165-166, 186-196).
THEOREM StopsCounted == Spec => []StopsAreCounted
<1>1. Init => Counted
  <2>1. DOMAIN <<>> = {}
    OBVIOUS
  <2>2. QED
    BY <2>1 DEF Init, Counted
<1>2. ExperimentInv /\ Counted /\ [Next]_vars => Counted'
  <2> SUFFICES ASSUME ExperimentInv, Counted, [Next]_vars PROVE Counted'
    OBVIOUS
  <2>0. /\ TypeOK /\ Placed /\ DOMAIN results = 1..Len(results) /\ Len(results) \in Nat
        /\ attempts \in Seq(Attempt) /\ DOMAIN attempts = 1..Len(attempts)
        /\ Len(attempts) \in Nat
    BY DEF ExperimentInv, TypeOK
  <2>1. ASSUME NEW tried \in Seq(Attempt), Len(results) < Len(Order),
               NEW finding \in {"none", "proposal-only", "verified", "unverified"},
               \A id : AsCounted([id |-> id, attempts |-> tried, finding |-> finding]),
               Finish(tried, finding)
        PROVE  Counted'
    <3>1. /\ results' \in Seq(Result) /\ Len(results') = Len(results) + 1
          /\ \A k \in 1..Len(results) : results'[k] = results[k]
          /\ results'[Len(results) + 1]
               = [id |-> Current.id, attempts |-> tried, finding |-> finding]
          /\ pc' \in {"attack", "metrics"}
      BY <2>0, <2>1, FinishTyped
    <3>2. \A k \in DOMAIN results' : k \in 1..Len(results) \/ k = Len(results) + 1
      BY <2>0, <3>1
    <3>3. AsCounted(results'[Len(results) + 1])
      BY <2>1, <3>1
    <3>4. \A k \in DOMAIN results' : AsCounted(results'[k])
      BY <2>0, <3>1, <3>2, <3>3 DEF Counted
    <3>5. QED
      BY <3>1, <3>4 DEF Counted
  <2>2. CASE IterationsSpent
    <3>1. AllClean(attempts) /\ Len(results) < Len(Order) /\ Finish(attempts, "none")
      BY <2>0, <2>2 DEF IterationsSpent, Placed
    <3>2. QED
      BY <2>0, <2>1, <3>1, SpentAsCounted
  <2>3. CASE Inconclusive
    <3>1. /\ Len(results) < Len(Order) /\ Len(attempts) < Iterations
          /\ Finish(Tried("inconclusive"), "none")
      BY <2>0, <2>3 DEF Inconclusive, Placed
    <3>2. /\ Tried("inconclusive") \in Seq(Attempt)
          /\ Len(Tried("inconclusive")) = Len(attempts) + 1
          /\ Tried("inconclusive")[Len(attempts) + 1].status = "inconclusive"
      BY <2>0, <3>1, TriedTyped DEF Statuses
    <3>3. Len(attempts) + 1 \in DOMAIN Tried("inconclusive")
      BY <2>0, <3>2
    <3>4. \A id : AsCounted([id |-> id, attempts |-> Tried("inconclusive"), finding |-> "none"])
      BY <3>2, <3>3, GivenUpAsCounted
    <3>5. QED
      BY <2>1, <3>1, <3>2, <3>4
  <2>4. CASE NotReproduced
    <3>1. LastViolates(attempts, Null) /\ Len(results) < Len(Order) /\ Len(attempts) >= 1
      BY <2>0, <2>4 DEF NotReproduced, Placed, LastViolates
    <3>2. PICK status \in Answers(program, Current, Current.bug) \ {"violation"} :
            Finish(Revalidated(status), "none")
      BY <2>4 DEF NotReproduced
    <3>3. status \in Statuses \ {"violation"}
      BY <3>2, AnswersAre
    <3>4. /\ Revalidated(status) \in Seq(Attempt)
          /\ Len(Revalidated(status)) = Len(attempts)
          /\ Revalidated(status)[Len(attempts)]
               = [status |-> attempts[Len(attempts)].status, minimized |-> status]
      BY <2>0, <3>1, <3>3, RevalidatedTyped
    <3>5. /\ Len(attempts) \in DOMAIN Revalidated(status)
          /\ Revalidated(status)[Len(attempts)].status = "violation"
          /\ Revalidated(status)[Len(attempts)].minimized = status
      BY <2>0, <3>1, <3>4 DEF LastViolates
    <3>6. \A id : AsCounted([id |-> id, attempts |-> Revalidated(status), finding |-> "none"])
      BY <3>3, <3>5, GivenUpAsCounted
    <3>7. QED
      BY <2>1, <3>1, <3>2, <3>4, <3>6
  <2>5. CASE Repair
    <3>1. /\ LastViolates(attempts, "violation") /\ Len(results) < Len(Order)
          /\ Finish(attempts, RepairOutcome)
      BY <2>0, <2>5 DEF Repair, Placed
    <3>2. \A id : AsCounted([id |-> id, attempts |-> attempts, finding |-> RepairOutcome])
      BY <2>0, <3>1, OutcomeIs, FoundAsCounted
    <3>3. QED
      BY <2>0, <2>1, <3>1, <3>2, OutcomeIs
  <2>6. CASE Attack \/ Clean \/ Violation \/ Reproduced
    BY <2>6 DEF Attack, Clean, Violation, Reproduced, Counted
  <2>7. CASE Metrics
    BY <2>7 DEF Metrics, Counted
  <2>8. CASE UNCHANGED vars
    BY <2>8 DEF vars, Counted
  <2>9. QED
    BY <2>2, <2>3, <2>4, <2>5, <2>6, <2>7, <2>8 DEF Next
<1>3. Counted => StopsAreCounted
  <2> SUFFICES ASSUME Counted, pc = "done"
               PROVE  Cardinality({k \in DOMAIN results :
                        results[k].finding = "none" /\ \E a \in DOMAIN results[k].attempts :
                          results[k].attempts[a].status # "clean"}) = metrics.inconclusiveCases
    BY DEF StopsAreCounted
  <2>1. {k \in DOMAIN results :
           results[k].finding = "none" /\ \E a \in DOMAIN results[k].attempts :
             results[k].attempts[a].status # "clean"}
          = {k \in DOMAIN results : InconclusiveCase(results[k])}
    BY DEF Counted, AsCounted
  <2>2. QED
    BY <2>1 DEF Counted
<1>4. QED
  BY <1>1, <1>2, <1>3, ExperimentInductive, PTL DEF Spec
=============================================================================
