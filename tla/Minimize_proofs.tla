--------------------------- MODULE Minimize_proofs ---------------------------
(***************************************************************************)
(* For programs of every length: what minimize returns is 1-minimal and    *)
(* costs a quadratic number of validations; relevance means what it says;  *)
(* and the runner reports what its cores did.                              *)
(***************************************************************************)
EXTENDS Minimize, FixtureLockstep_proofs

\* A deletion is a program one operation shorter.
LEMMA Removed ==
  ASSUME NEW s \in Seq(Ops), NEW j \in 1..Len(s)
  PROVE  Seqs!RemoveAt(s, j) \in Seq(Ops) /\ Len(Seqs!RemoveAt(s, j)) = Len(s) - 1
<1> DEFINE left == SubSeq(s, 1, j - 1)
           right == SubSeq(s, j + 1, Len(s))
<1>1. left \in Seq(Ops) /\ Len(left) = j - 1
  BY SubSeqProperties
<1>2. right \in Seq(Ops) /\ Len(right) = Len(s) - j
  BY SubSeqProperties
<1>3. left \o right \in Seq(Ops) /\ Len(left \o right) = Len(left) + Len(right)
  BY <1>1, <1>2, ConcatProperties
<1>4. Seqs!RemoveAt(s, j) = left \o right
  BY DEF Seqs!RemoveAt
<1>5. Len(s) \in Nat
  OBVIOUS
<1> HIDE DEF left, right
<1>6. (j - 1) + (Len(s) - j) = Len(s) - 1
  BY <1>5
<1>7. QED
  BY <1>1, <1>2, <1>3, <1>4, <1>6

\* The shapes of the variables: minimize works inside the program it was given.
MinimizeTypeOK ==
  /\ original \in Seq(Ops) /\ program \in Seq(Ops)
  /\ Len(program) >= 1 /\ Len(program) <= Len(original)
  /\ i \in Nat /\ 1 <= i /\ i <= Len(program) + 1
  /\ tries \in Nat
  /\ pc \in {"proposed", "trying", "returned"}
  /\ pc = "proposed" => program = original /\ i = 1 /\ tries = 0

\* The deletions left of the scan are settled: none violates, but for the kept load.
Settled ==
  \A j \in 1..(i - 1) :
    Violates(Seqs!RemoveAt(program, j)) =>
      /\ benchmark.id = "boom-positive-control"
      /\ \A k \in DOMAIN Seqs!RemoveAt(program, j) :
           Seqs!RemoveAt(program, j)[k] # "load_secret"

\* What the validations so far are paid from: the operations deleted, and the scan.
Paid ==
  2 * tries + Len(program) * (Len(program) + 1)
    <= Len(original) * (Len(original) + 1) + 2 * (i - 1)

LEMMA MinimizeTyped == Spec => []MinimizeTypeOK
<1>1. Init => MinimizeTypeOK
  <2>1. ASSUME NEW op \in Alphabet PROVE <<op>> \in Seq(Ops) /\ Len(<<op>>) = 1
    BY MinimizeAssumption
  <2>2. SUFFICES ASSUME Init PROVE MinimizeTypeOK
    OBVIOUS
  <2>3. PICK op \in Alphabet : original = <<op>>
    BY <2>2 DEF Init
  <2>4. original \in Seq(Ops) /\ Len(original) = 1
    BY <2>1, <2>3
  <2>5. QED
    BY <2>2, <2>4 DEF Init, MinimizeTypeOK
<1>2. MinimizeTypeOK /\ [Next]_vars => MinimizeTypeOK'
  <2> SUFFICES ASSUME MinimizeTypeOK, [Next]_vars PROVE MinimizeTypeOK'
    OBVIOUS
  <2>1. ASSUME NEW op \in Alphabet, Extend(op) PROVE MinimizeTypeOK'
    <3>1. op \in Ops
      BY MinimizeAssumption
    <3>2. Append(original, op) \in Seq(Ops) /\ Len(Append(original, op)) = Len(original) + 1
      BY <3>1 DEF MinimizeTypeOK
    <3>3. QED
      BY <2>1, <3>2 DEF Extend, MinimizeTypeOK
  <2>2. CASE Minimize
    BY <2>2 DEF Minimize, MinimizeTypeOK
  <2>3. CASE Keep
    BY <2>3 DEF Keep, Trying, AfterKeep, MinimizeTypeOK
  <2>4. CASE Delete
    <3>1. Shorter \in Seq(Ops) /\ Len(Shorter) = Len(program) - 1 /\ Len(Shorter) >= 1
      BY <2>4, Removed DEF Delete, Trying, Shorter, MinimizeTypeOK
    <3>2. QED
      BY <2>4, <3>1 DEF Delete, Trying, Restart, MinimizeTypeOK
  <2>5. CASE Reject
    BY <2>5 DEF Reject, Trying, AfterReject, MinimizeTypeOK
  <2>6. CASE Return
    BY <2>6 DEF Return, MinimizeTypeOK
  <2>7. CASE UNCHANGED vars
    BY <2>7 DEF vars, MinimizeTypeOK
  <2>8. QED
    BY <2>1, <2>2, <2>3, <2>4, <2>5, <2>6, <2>7 DEF Next, Scan
<1>3. QED
  BY <1>1, <1>2, PTL DEF Spec

\* On a backend whose executions do not fail, what minimize returns is 1-minimal
\* (loop.py:82-92), whatever the program it was given.
THEOREM ReturnsOneMinimal ==
  ASSUME Reliable
  PROVE  Spec => []OneMinimal
<1>1. Init => Settled
  BY DEF Init, Settled
<1>2. MinimizeTypeOK /\ Settled /\ [Next]_vars => Settled'
  <2> SUFFICES ASSUME MinimizeTypeOK, Settled, [Next]_vars PROVE Settled'
    OBVIOUS
  <2>1. ASSUME i' = 1 PROVE Settled'
    BY <2>1 DEF Settled
  <2>2. ASSUME NEW op \in Alphabet, Extend(op) PROVE Settled'
    BY <2>1, <2>2 DEF Extend, MinimizeTypeOK
  <2>3. CASE Minimize
    BY <2>1, <2>3 DEF Minimize, MinimizeTypeOK
  <2>4. CASE Keep
    <3>1. \A j \in 1..(i' - 1) : j \in 1..(i - 1) \/ j = i
      BY <2>4 DEF Keep, AfterKeep, MinimizeTypeOK
    <3>2. QED
      BY <2>4, <3>1 DEF Keep, KeepsLoad, Shorter, Settled, Violates, Judgement
  <2>5. CASE Delete
    BY <2>1, <2>5 DEF Delete, Restart
  <2>6. CASE Reject
    <3>1. \A j \in 1..(i' - 1) : j \in 1..(i - 1) \/ j = i
      BY <2>6 DEF Reject, AfterReject, MinimizeTypeOK
    <3>2. ~Violates(Seqs!RemoveAt(program, i))
      BY <2>6 DEF Reject, Accepted, Violates, Shorter
    <3>3. QED
      BY <2>6, <3>1, <3>2 DEF Reject, Settled, Violates, Judgement
  <2>7. CASE Return
    BY <2>7 DEF Return, Settled, Violates, Judgement
  <2>8. CASE UNCHANGED vars
    BY <2>8 DEF vars, Settled, Violates, Judgement
  <2>9. QED
    BY <2>2, <2>3, <2>4, <2>5, <2>6, <2>7, <2>8 DEF Next, Scan
<1> DEFINE AtTheEnd == pc = "returned" => Len(program) = 1 \/ i > Len(program)
<1>3. Init => AtTheEnd
  BY DEF Init
<1>4. AtTheEnd /\ [Next]_vars => AtTheEnd'
  BY DEF Next, Extend, Minimize, Scan, Keep, Delete, Reject, Return, Trying, vars
<1>5. MinimizeTypeOK /\ Settled /\ AtTheEnd => OneMinimal
  <2> SUFFICES ASSUME MinimizeTypeOK, Settled, AtTheEnd, pc = "returned", Len(program) > 1,
                      NEW j \in DOMAIN program, Violates(Seqs!RemoveAt(program, j))
               PROVE  LET shorter == Seqs!RemoveAt(program, j)
                      IN /\ benchmark.id = "boom-positive-control"
                         /\ "load_secret" \notin {shorter[k] : k \in DOMAIN shorter}
    BY DEF OneMinimal
  <2>1. DOMAIN program = 1..Len(program) /\ Len(program) \in Nat /\ i \in Nat
    BY DEF MinimizeTypeOK
  <2>2. j \in 1..(i - 1)
    BY <2>1
  <2>3. QED
    BY <2>2 DEF Settled
<1>6. QED
  BY <1>1, <1>2, <1>3, <1>4, <1>5, MinimizeTyped, PTL DEF Spec

\* Minimizing a program of n operations takes at most n(n+1)/2 validations
\* (loop.py:84-92): a restart has deleted an operation, and a scan moves right.
THEOREM CostIsQuadratic == Spec => []QuadraticCost
<1> DEFINE n == Len(original)
           l == Len(program)
<1>1. Init => Paid
  BY DEF Init, Paid
<1>2. MinimizeTypeOK /\ MinimizeTypeOK' /\ Paid /\ [Next]_vars => Paid'
  <2> SUFFICES ASSUME MinimizeTypeOK, MinimizeTypeOK', Paid, [Next]_vars PROVE Paid'
    OBVIOUS
  <2>0. CASE pc' = "proposed"
    <3>1. program' = original' /\ i' = 1 /\ tries' = 0 /\ Len(original') \in Nat
      BY <2>0 DEF MinimizeTypeOK
    <3>2. QED
      BY <3>1 DEF Paid
  <2>1. CASE UNCHANGED <<original, program, i, tries>>
    BY <2>1 DEF Paid
  <2>2. CASE Keep
    <3>1. l \in Nat /\ n \in Nat
      BY DEF MinimizeTypeOK
    <3>2. QED
      BY <2>2, <3>1 DEF Keep, AfterKeep, Paid, MinimizeTypeOK
  <2>3. CASE Delete
    <3>1. l \in Nat /\ n \in Nat /\ i <= l /\ tries \in Nat /\ i \in Nat
      BY <2>3 DEF MinimizeTypeOK, Delete, Trying
    <3>2. Len(program') = l - 1 /\ original' = original /\ i' = 1 /\ tries' = tries + 1
      BY <2>3, Removed DEF Delete, Trying, Shorter, Restart, MinimizeTypeOK
    <3>3. \A a, b, c, d \in Nat :
            2 * d + a * (a + 1) <= b * (b + 1) + 2 * (c - 1) /\ c <= a
            => 2 * (d + 1) + (a - 1) * ((a - 1) + 1) <= b * (b + 1) + 2 * (1 - 1)
      OBVIOUS
    <3>4. QED
      BY <3>1, <3>2, <3>3 DEF Paid
  <2>4. CASE Reject
    <3>1. l \in Nat /\ n \in Nat
      BY DEF MinimizeTypeOK
    <3>2. QED
      BY <2>4, <3>1 DEF Reject, AfterReject, Paid, MinimizeTypeOK
  <2>5. QED
    BY <2>0, <2>1, <2>2, <2>3, <2>4
    DEF Next, Extend, Minimize, Scan, Return, vars
<1>3. MinimizeTypeOK /\ Paid => QuadraticCost
  <2> SUFFICES ASSUME MinimizeTypeOK, Paid PROVE QuadraticCost
    OBVIOUS
  <2>1. l \in Nat /\ n \in Nat /\ 1 <= l /\ i \in Nat /\ i <= l + 1 /\ tries \in Nat
    BY DEF MinimizeTypeOK
  <2>2. \A a, b, c, d \in Nat :
          2 * d + a * (a + 1) <= b * (b + 1) + 2 * (c - 1) /\ c <= a + 1 /\ 1 <= a
          => 2 * d <= b * (b + 1)
    <3> SUFFICES ASSUME NEW a \in Nat, NEW b \in Nat, NEW c \in Nat, NEW d \in Nat,
                        2 * d + a * (a + 1) <= b * (b + 1) + 2 * (c - 1), c <= a + 1, 1 <= a
                 PROVE  2 * d <= b * (b + 1)
      OBVIOUS
    <3>1. a * (a + 1) = a * a + a /\ a * a >= a
      OBVIOUS
    <3>2. QED
      BY <3>1
  <2>3. QED
    BY <2>1, <2>2 DEF Paid, QuadraticCost
<1>4. QED
  BY <1>1, <1>2, <1>3, MinimizeTyped, PTL DEF Spec

\* A challenge the agent loop accepts as relevant exploits the unrepaired variant of
\* the cache benchmarks (agent_loop.py:11-36), whatever its length.
THEOREM RelevantBreaks == Spec => []RelevantBreaksBaseline
<1>1. MinimizeTypeOK => RelevantBreaksBaseline
  BY RelevantViolates DEF MinimizeTypeOK, RelevantBreaksBaseline
<1>2. QED
  BY <1>1, MinimizeTyped, PTL

-----------------------------------------------------------------------------
\* An answer is given only if both cores reached an exit word that completes.
LEMMA AnswersComplete ==
  ASSUME NEW ops, NEW variant, NEW spike, NEW boom, Answers(ops, variant, spike, boom)
  PROVE  /\ Completed(ops, ExitWord(ops, variant, spike))
         /\ Completed(ops, ExitWord(ops, variant, boom))
  BY DEF Answers

\* A fault is reported only when both executors raised an access fault at the load
\* (trusted_runner.py:464), although the runner never sees a fault.
THEOREM FaultReported == Spec => []FaultReportIsTrue
<1>1. ASSUME NEW ops, NEW variant \in RunnerVariants \ Issue715, NEW spike, NEW boom,
             Answers(ops, variant, spike, boom)
      PROVE  Answer(ops, variant, boom).events # <<>>
               <=> Has(ops, "load_secret") /\ {spike.cause, boom.cause} = {AccessFault}
  <2>1. /\ Completed(ops, ExitOfCandidate(ops, spike))
        /\ Completed(ops, ExitOfCandidate(ops, boom))
    BY <1>1, AnswersComplete DEF ExitWord
  <2>2. Has(ops, "load_secret") => spike.cause = AccessFault /\ boom.cause = AccessFault
    BY <2>1 DEF Completed, ExitOfCandidate
  <2>3. Answer(ops, variant, boom).events =
          IF Has(ops, "load_secret") THEN <<"load-access-fault">> ELSE <<>>
    BY DEF Answer, HtifObservation
  <2>4. <<"load-access-fault">> # <<>>
    OBVIOUS
  <2>5. QED
    BY <2>2, <2>3, <2>4
<1>2. FaultReportIsTrue
  BY <1>1 DEF FaultReportIsTrue
<1>3. QED
  BY <1>2, PTL

\* An operation a program has is at some place in it, and one that it has once is at one.
LEMMA HasOne ==
  ASSUME NEW ops \in Seq(Ops), NEW op
  PROVE  /\ Has(ops, op) <=> \E k \in 1..Len(ops) : ops[k] = op
         /\ Count(ops, op) <= 1 =>
              \A j, k \in 1..Len(ops) : ops[j] = op /\ ops[k] = op => j = k
<1> DEFINE at == {k \in DOMAIN ops : ops[k] = op}
<1>1. DOMAIN ops = 1..Len(ops) /\ Len(ops) \in Nat
  OBVIOUS
<1>2. IsFiniteSet(at) /\ Cardinality(at) \in Nat
  <2>1. IsFiniteSet(1..Len(ops))
    BY <1>1, FS_Interval
  <2>2. at \in SUBSET (1..Len(ops))
    BY <1>1
  <2>3. IsFiniteSet(at)
    BY <2>1, <2>2, FS_Subset
  <2>4. QED
    BY <2>3, FS_CardinalityType
<1>3. Count(ops, op) = Cardinality(at)
  BY DEF Count
<1>4. (Cardinality(at) > 0) <=> at # {}
  <2> HIDE DEF at
  <2>1. QED
    BY <1>2, FS_EmptySet
<1>5. ASSUME Cardinality(at) <= 1, NEW j \in at, NEW k \in at PROVE j = k
  <2> HIDE DEF at
  <2>1. Cardinality(at) = 1
    BY <1>2, <1>4, <1>5
  <2>2. PICK x : at = {x}
    BY <1>2, <2>1, FS_Singleton
  <2>3. QED
    BY <2>2
<1>6. \A k \in 1..Len(ops) : ops[k] = op => k \in at
  BY <1>1
<1>7. Has(ops, op) <=> at # {}
  BY <1>3, <1>4 DEF Has
<1>8. at # {} <=> \E k \in 1..Len(ops) : ops[k] = op
  BY <1>1
<1>9. Count(ops, op) <= 1 => \A j, k \in 1..Len(ops) : ops[j] = op /\ ops[k] = op => j = k
  <2> HIDE DEF at
  <2>1. QED
    BY <1>3, <1>5, <1>6
<1>10. QED
  BY <1>7, <1>8, <1>9

\* The probe between the denied load and the squash (or encode) that follows.
HiddenProbe(ops) ==
  LET load == Load(ops)
      probe == FirstIn(ops, "probe", 1, Len(ops))
      Between(op) == \E k \in (load + 1)..(probe - 1) : ops[k] = op
      Later(op) == \E k \in probe..Len(ops) : ops[k] = op
  IN /\ load # 0 /\ load < probe /\ ~Between("squash")
     /\ Later("squash") \/ (~Between("encode") /\ Later("encode"))

\* The handler resumes past a probe exactly where ProbeReportIsMeasured says.
LEMMA SkippedProbe ==
  ASSUME NEW ops \in Seq(Ops), Has(ops, "probe"), Count(ops, "probe") <= 1
  PROVE  Measures(ops) <=> ~HiddenProbe(ops)
<1> DEFINE n == Len(ops)
           load == Load(ops)
           probe == FirstIn(ops, "probe", 1, n)
           encode == FirstIn(ops, "encode", load + 1, n)
           squash == FirstIn(ops, "squash", load + 1, n)
           Between(op) == \E k \in (load + 1)..(probe - 1) : ops[k] = op
           Later(op) == \E k \in probe..n : ops[k] = op
<1>1. n \in Nat /\ n \in Int
  OBVIOUS
<1>2. /\ load \in Nat /\ load <= n
      /\ load = 0 => \A k \in 1..n : ops[k] # "load_secret"
      /\ load # 0 => ops[load] = "load_secret" /\ load \in 1..n
  <2>1. /\ load \in Nat
        /\ load = 0 => \A k \in 1..n : ops[k] # "load_secret"
        /\ load # 0 => load \in 1..n /\ ops[load] = "load_secret"
    <3>1. load = FirstIn(ops, "load_secret", 1, n)
      BY DEF Load
    <3>2. CASE load = 0
      BY <1>1, <3>1, <3>2, FirstInMissing
    <3>3. CASE load # 0
      <4>1. load \in 1..n /\ ops[load] = "load_secret"
        BY <1>1, <3>1, <3>3, FirstInFound
      <4> HIDE DEF load
      <4>2. QED
        BY <3>3, <4>1
    <3>4. QED
      BY <3>2, <3>3
  <2> HIDE DEF load
  <2>2. QED
    BY <1>1, <2>1
<1>3. probe \in 1..n /\ ops[probe] = "probe"
  <2>1. \E k \in 1..n : ops[k] = "probe"
    BY HasOne
  <2>2. probe # 0
    BY <1>1, <2>1, FirstInMissing
  <2>3. QED
    BY <1>1, <2>2, FirstInFound
<1>4. /\ squash = 0 => \A k \in (load + 1)..n : ops[k] # "squash"
      /\ squash # 0 => /\ squash \in (load + 1)..n /\ ops[squash] = "squash"
                       /\ \A k \in (load + 1)..(squash - 1) : ops[k] # "squash"
  <2> HIDE DEF load
  <2>1. load + 1 \in Nat /\ 1 <= load + 1
    BY <1>2
  <2>2. squash = 0 => \A k \in (load + 1)..n : ops[k] # "squash"
    BY <1>1, <2>1, FirstInMissing
  <2>3. squash # 0 => squash \in (load + 1)..n /\ ops[squash] = "squash"
    BY <1>1, <2>1, FirstInFound
  <2>4. squash # 0 => \A k \in (load + 1)..(squash - 1) : ops[k] # "squash"
    BY <1>1, <2>1, FirstInBefore
  <2>5. QED
    BY <2>2, <2>3, <2>4
<1>5. /\ encode = 0 => \A k \in (load + 1)..n : ops[k] # "encode"
      /\ encode # 0 => /\ encode \in (load + 1)..n /\ ops[encode] = "encode"
                       /\ \A k \in (load + 1)..(encode - 1) : ops[k] # "encode"
  <2> HIDE DEF load
  <2>1. load + 1 \in Nat /\ 1 <= load + 1
    BY <1>2
  <2>2. encode = 0 => \A k \in (load + 1)..n : ops[k] # "encode"
    BY <1>1, <2>1, FirstInMissing
  <2>3. encode # 0 => encode \in (load + 1)..n /\ ops[encode] = "encode"
    BY <1>1, <2>1, FirstInFound
  <2>4. encode # 0 => \A k \in (load + 1)..(encode - 1) : ops[k] # "encode"
    BY <1>1, <2>1, FirstInBefore
  <2>5. QED
    BY <2>2, <2>3, <2>4
<1>6. ResumeAfter(ops) = IF squash # 0 THEN squash ELSE IF encode # 0 THEN encode ELSE load
  BY DEF ResumeAfter
<1>7. Has(ops, "load_secret") <=> load # 0
  <2>1. Has(ops, "load_secret") <=> \E k \in 1..n : ops[k] = "load_secret"
    BY HasOne
  <2> HIDE DEF load
  <2>2. QED
    BY <1>2, <2>1
<1>8. HiddenProbe(ops) <=> /\ load # 0 /\ load < probe /\ ~Between("squash")
                           /\ Later("squash") \/ (~Between("encode") /\ Later("encode"))
  BY DEF HiddenProbe
<1>9. Measures(ops) <=> probe \notin Skipped(ops)
  <2>1. \A k \in 1..n : ops[k] = "probe" => k = probe
    BY <1>3, HasOne
  <2>2. DOMAIN ops = 1..n
    OBVIOUS
  <2> HIDE DEF probe
  <2>3. QED
    BY <1>3, <2>1, <2>2 DEF Measures
<1>10. probe \in Skipped(ops) <=> load # 0 /\ load < probe /\ probe <= ResumeAfter(ops)
  <2>1. Skipped(ops) = IF load # 0 THEN (load + 1)..ResumeAfter(ops) ELSE {}
    BY <1>7 DEF Skipped
  <2>2. ResumeAfter(ops) \in Nat
    <3> HIDE DEF load, squash, encode
    <3>1. QED
      BY <1>1, <1>2, <1>4, <1>5, <1>6
  <2> HIDE DEF load, probe
  <2>3. QED
    BY <1>1, <1>2, <1>3, <2>1, <2>2
<1> HIDE DEF load, probe, encode, squash
<1>11. ASSUME load # 0, load < probe
       PROVE  probe <= ResumeAfter(ops) <=>
                /\ ~Between("squash")
                /\ Later("squash") \/ (~Between("encode") /\ Later("encode"))
  <2>1. CASE squash # 0
    <3>1. Between("squash") <=> squash < probe
      BY <1>1, <1>2, <1>3, <1>4, <2>1
    <3>2. squash >= probe => Later("squash")
      BY <1>1, <1>3, <1>4, <2>1
    <3>3. ResumeAfter(ops) = squash /\ squash \in Nat /\ probe \in Nat
      BY <1>1, <1>2, <1>3, <1>4, <1>6, <2>1
    <3>4. QED
      BY <3>1, <3>2, <3>3
  <2>2. CASE squash = 0 /\ encode # 0
    <3>1. ~Between("squash") /\ ~Later("squash")
      BY <1>1, <1>2, <1>3, <1>4, <1>11, <2>2
    <3>2. Between("encode") <=> encode < probe
      BY <1>1, <1>2, <1>3, <1>5, <2>2
    <3>3. encode >= probe => Later("encode")
      BY <1>1, <1>3, <1>5, <2>2
    <3>4. ResumeAfter(ops) = encode /\ encode \in Nat /\ probe \in Nat
      BY <1>1, <1>2, <1>3, <1>5, <1>6, <2>2
    <3>5. QED
      BY <3>1, <3>2, <3>3, <3>4
  <2>3. CASE squash = 0 /\ encode = 0
    <3>1. ~Later("squash") /\ ~Later("encode")
      BY <1>1, <1>2, <1>3, <1>4, <1>5, <1>11, <2>3
    <3>2. ResumeAfter(ops) = load
      BY <1>6, <2>3
    <3>3. QED
      BY <1>2, <1>3, <1>11, <3>1, <3>2
  <2>4. QED
    BY <2>1, <2>2, <2>3
<1>12. QED
  BY <1>8, <1>9, <1>10, <1>11

\* The fixed program of issue 715 hides no probe.
LEMMA FixedProgramMeasures == ~HiddenProbe(FixedProgram)
<1> DEFINE s == FixedProgram
           load == Load(s)
           probe == FirstIn(s, "probe", 1, Len(s))
<1>1. /\ Len(s) = 3 /\ Len(s) \in Int
      /\ s[1] = "enter_user" /\ s[2] = "load_secret" /\ s[3] = "probe"
  BY DEF FixedProgram
<1> HIDE DEF s
<1>2. probe \in Nat /\ (probe # 0 => s[probe] = "probe" /\ probe \in 1..3)
  <2>1. probe # 0 => probe \in 1..Len(s) /\ s[probe] = "probe"
    BY <1>1, FirstInFound
  <2> HIDE DEF probe
  <2>2. QED
    BY <1>1, <2>1
<1>3. \A k \in 1..3 : s[k] # "squash" /\ s[k] # "encode"
  BY <1>1
<1>4. HiddenProbe(s) =>
        load < probe /\ \E k \in probe..Len(s) : s[k] = "squash" \/ s[k] = "encode"
  BY DEF HiddenProbe
<1>5. load \in Nat
  BY <1>1, FirstInIs DEF Load
<1> HIDE DEF load, probe
<1>6. ~HiddenProbe(s)
  BY <1>1, <1>2, <1>3, <1>4, <1>5
<1>7. QED
  BY <1>6 DEF s

\* A completed execution's probe is what BOOM measured, or was skipped and is zero.
LEMMA ProbeMeasured ==
  ASSUME NEW ops \in Seq(Ops), NEW variant \in RunnerVariants, Acceptable(ops, variant),
         NEW spike \in Cores, NEW boom \in Cores, Answers(ops, variant, spike, boom),
         Has(ops, "probe")
  PROVE  Answer(ops, variant, boom).probes = <<IF HiddenProbe(ops) THEN 0 ELSE Bit(boom.faster)>>
<1> DEFINE exit == ExitWord(ops, variant, boom)
<1>1. Answer(ops, variant, boom).probes = <<Bit(exit = 2)>>
  BY DEF Answer, HtifObservation
<1>2. exit \in {0, 2}
  BY AnswersComplete DEF Completed
<1>3. boom.faster \in BOOLEAN
  BY DEF Cores
<1>4. CASE variant \in Issue715
  <2>1. ops = FixedProgram
    BY <1>4 DEF Acceptable
  <2>2. exit = IF boom.faster THEN 2 ELSE 0
    BY <1>2, <1>4 DEF ExitWord, ExitOfIssue715
  <2>3. ~HiddenProbe(ops)
    BY <2>1, FixedProgramMeasures
  <2> HIDE DEF exit
  <2>4. QED
    BY <1>1, <1>3, <2>2, <2>3 DEF Bit
<1>5. CASE variant \notin Issue715
  <2>1. exit = IF Measures(ops) /\ boom.faster THEN 2 ELSE 0
    BY <1>2, <1>5 DEF ExitWord, ExitOfCandidate
  <2>2. Measures(ops) <=> ~HiddenProbe(ops)
    BY SkippedProbe DEF Acceptable
  <2> HIDE DEF exit
  <2>3. QED
    BY <1>1, <1>3, <2>1, <2>2 DEF Bit
<1>6. QED
  BY <1>4, <1>5

\* The probe bit of an answer is measured, unless the trap handler jumps over the
\* probe, and then it is zero (trusted_runner.py:354-361, 378-386, 463).
THEOREM ProbeReported == Spec => []ProbeReportIsMeasured
<1>1. ASSUME MinimizeTypeOK,
             NEW variant \in {v \in RunnerVariants : Acceptable(original, v)},
             NEW spike \in Cores, NEW boom \in Cores,
             Answers(original, variant, spike, boom), Has(original, "probe")
      PROVE  Answer(original, variant, boom).probes
               = <<IF HiddenProbe(original) THEN 0 ELSE Bit(boom.faster)>>
  BY <1>1, ProbeMeasured DEF MinimizeTypeOK
<1>2. MinimizeTypeOK => ProbeReportIsMeasured
  BY <1>1 DEF ProbeReportIsMeasured, HiddenProbe
<1>3. QED
  BY <1>2, MinimizeTyped, PTL
=============================================================================
