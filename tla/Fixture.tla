------------------------------- MODULE Fixture -------------------------------
(***************************************************************************)
(* The toy processor of SpecHunter, twice: model() of backends.py and the  *)
(* Verilog of rtl/fixture.sv, each as one step per operation, and what the *)
(* workflow computes from a program: the pair of observations validate     *)
(* compares, the threat model, the relevance of a repair challenge and the *)
(* comparison that ignores NOPs.                                           *)
(***************************************************************************)
EXTENDS Naturals, Sequences
Sets == INSTANCE FiniteSetsExt

Ops == {"nop", "train", "enter_user", "load_secret", "encode", "squash", "probe", "fence"}

\* execute's variants; the last three behave like the secure one.
Secure == {"none", "gate-faulting-loads", "remove-seeded-cache-leak"}
FixtureVariants == {"privilege", "transient", "seeded-cache-leak"} \cup Secure

Benchmarks ==
  { [id |-> "privilege-bypass", bug |-> "privilege",
     invariant |-> "architectural-isolation", positive |-> TRUE],
    [id |-> "transient-cache", bug |-> "transient",
     invariant |-> "observable-isolation", positive |-> TRUE],
    [id |-> "secure-control", bug |-> "none",
     invariant |-> "observable-isolation", positive |-> FALSE],
    [id |-> "boom-positive-control", bug |-> "seeded-cache-leak",
     invariant |-> "observable-isolation", positive |-> TRUE] }

-----------------------------------------------------------------------------
(* model(program, secret, bug), an operation at a time                     *)

Machine == [user : BOOLEAN, trained : BOOLEAN, speculative : BOOLEAN, valid : BOOLEAN,
            value : {0, 1}, cache : SUBSET {0, 1}]

PowerOn == [user |-> FALSE, trained |-> FALSE, speculative |-> FALSE, valid |-> FALSE,
            value |-> 0, cache |-> {}]

\* A gate that misses the loads of a trained branch, speculative or not.
LoadUngated(m, secret, bug) ==
  LET valid == ~m.user \/ bug = "privilege" \/ m.trained
  IN [m EXCEPT !.speculative = m.trained /\ bug = "transient", !.valid = valid,
               !.value = IF valid THEN secret ELSE @]
\* Speculation is judged by the previous load's flag.
LoadStaleSpeculation(m, secret, bug) ==
  LET valid == ~m.user \/ bug = "privilege" \/ (bug = "transient" /\ m.trained)
  IN [m EXCEPT !.valid = valid, !.value = IF valid THEN secret ELSE @]
LoadSecret(m, secret, bug) ==
  LET valid == ~m.user \/ bug = "privilege" \/ (bug = "transient" /\ m.trained)
  IN [m EXCEPT !.speculative = m.trained, !.valid = valid,
               !.value = IF valid THEN secret ELSE @]

\* Cache lines counted from one.
EncodeValue(m, bug) ==
  IF m.valid /\ (~m.speculative \/ bug = "transient")
  THEN [m EXCEPT !.cache = @ \cup {m.value}] ELSE m

Clear(m) == [m EXCEPT !.trained = FALSE, !.speculative = FALSE, !.valid = FALSE]

ProbeLine(m, secret, bug) ==
  IF m.user /\ bug = "seeded-cache-leak" THEN [m EXCEPT !.cache = @ \cup {secret}] ELSE m

Step(m, op, secret, bug) ==
  CASE op = "train"             -> [m EXCEPT !.trained = TRUE]
    [] op = "enter_user"        -> [m EXCEPT !.user = TRUE]
    [] op = "load_secret"       -> LoadSecret(m, secret, bug)
    [] op = "encode"            -> EncodeValue(m, bug)
    [] op = "probe"             -> ProbeLine(m, secret, bug)
    [] op \in {"squash", "fence"} -> Clear(m)
    [] op = "nop"               -> m

\* What the operation that led to machine m appends to each observation.
\* (The first form drops a zero, as Python's truth value of an integer would.)
ArchitecturalIfTruthy(m, op) ==
  IF op = "load_secret" /\ m.user /\ m.valid /\ ~m.speculative /\ m.value # 0
  THEN <<m.value>> ELSE <<>>
Architectural(m, op) ==
  IF op = "load_secret" /\ m.user /\ m.valid /\ ~m.speculative THEN <<m.value>> ELSE <<>>
Probes(m, op) ==
  IF op = "probe" /\ m.user THEN <<IF 0 \in m.cache THEN 1 ELSE 10>> ELSE <<>>
Events(m, op) ==
  IF op = "load_secret" /\ m.user
  THEN <<IF m.speculative THEN "transient-load" ELSE "user-load">> ELSE <<>>

Observed(m, op) == [architectural |-> Architectural(m, op), probes |-> Probes(m, op),
                    events |-> Events(m, op)]

-----------------------------------------------------------------------------
(* rtl/fixture.sv: registers of bits, operations and variants as numbers   *)

OpCode(op) ==
  CASE op = "nop" -> 0 [] op = "train" -> 1 [] op = "enter_user" -> 2
    [] op = "load_secret" -> 3 [] op = "encode" -> 4 [] op = "squash" -> 5
    [] op = "probe" -> 6 [] op = "fence" -> 7

BugCode(bug) ==
  CASE bug = "privilege" -> 1 [] bug = "transient" -> 2
    [] bug = "seeded-cache-leak" -> 3 [] bug \in Secure -> 0

Registers == [user_mode : {0, 1}, trained : {0, 1}, speculative : {0, 1}, valid : {0, 1},
              value : {0, 1}, cache_lines : [{0, 1} -> {0, 1}]]

RtlReset == [user_mode |-> 0, trained |-> 0, speculative |-> 0, valid |-> 0,
             value |-> 0, cache_lines |-> [line \in {0, 1} |-> 0]]

Bit(b) == IF b THEN 1 ELSE 0

RtlClearKeepsTraining(r) == [r EXCEPT !.speculative = 0, !.valid = 0]
RtlClear(r) == [r EXCEPT !.speculative = 0, !.valid = 0, !.trained = 0]

RtlStep(r, code, secret, bug) ==
  CASE code = 0 -> r
    [] code = 1 -> [r EXCEPT !.trained = 1]
    [] code = 2 -> [r EXCEPT !.user_mode = 1]
    [] code = 3 ->
         LET valid == Bit(r.user_mode = 0 \/ bug = 1 \/ (bug = 2 /\ r.trained = 1))
         IN [r EXCEPT !.speculative = r.trained, !.valid = valid,
                      !.value = IF valid = 1 THEN secret ELSE @]
    [] code = 4 -> IF r.valid = 1 /\ (r.speculative = 0 \/ bug = 2)
                   THEN [r EXCEPT !.cache_lines[r.value] = 1] ELSE r
    [] code \in {5, 7} -> RtlClear(r)
    [] code = 6 -> IF r.user_mode = 1 /\ bug = 3
                   THEN [r EXCEPT !.cache_lines[secret] = 1] ELSE r

\* The lines $display prints and _rtl parses back into an Observation.
RtlObserved(r, code) ==
  [architectural |-> IF code = 3 /\ r.user_mode = 1 /\ r.valid = 1 /\ r.speculative = 0
                     THEN <<r.value>> ELSE <<>>,
   probes |-> IF code = 6 /\ r.user_mode = 1
              THEN <<IF r.cache_lines[0] = 1 THEN 1 ELSE 10>> ELSE <<>>,
   events |-> IF code = 3 /\ r.user_mode = 1
              THEN <<IF r.speculative = 1 THEN "transient-load" ELSE "user-load">> ELSE <<>>]

-----------------------------------------------------------------------------
(* Whole programs                                                          *)

\* One operation, and what it appends to the two observations validate compares.
After(state, op, secret, bug) ==
  LET m == Step(state.machine, op, secret, bug)
  IN [machine |-> m,
      architectural |-> state.architectural \o Architectural(m, op),
      probes |-> state.probes \o Probes(m, op)]

\* The execution of a program: the state after each of its prefixes.
States(ops, secret, bug) ==
  LET states[n \in 0..Len(ops)] ==
        IF n = 0 THEN [machine |-> PowerOn, architectural |-> <<>>, probes |-> <<>>]
        ELSE After(states[n - 1], ops[n], secret, bug)
  IN states
Run(ops, secret, bug) == States(ops, secret, bug)[Len(ops)]

\* The check validate makes before it executes anything.
OutsideUser(ops) ==
  \E i \in DOMAIN ops : ops[i] = "load_secret" /\ \A j \in 1..i : ops[j] # "enter_user"

\* validate on a backend that always answers: the verdict for one variant.
Verdict(ops, invariant, bug) ==
  LET left == Run(ops, 0, bug)
      right == Run(ops, 1, bug)
  IN IF OutsideUser(ops) THEN "inconclusive"
     ELSE IF \/ left.architectural # right.architectural
             \/ invariant = "observable-isolation" /\ left.probes # right.probes
          THEN "violation" ELSE "clean"

\* ops.index(op, ...) within lo..hi, 0 where Python raises ValueError.
FirstIn(ops, op, lo, hi) ==
  LET at == {i \in lo..hi : ops[i] = op} IN IF at = {} THEN 0 ELSE Sets!Min(at)

RelevantDespiteFences(ops, benchmark) ==
  LET user == FirstIn(ops, "enter_user", 1, Len(ops))
      load == FirstIn(ops, "load_secret", user + 1, Len(ops))
      probe == FirstIn(ops, "probe", load + 1, Len(ops))
      train == FirstIn(ops, "train", 1, load - 1)
      encode == FirstIn(ops, "encode", load + 1, probe - 1)
  IN /\ user # 0 /\ load # 0
     /\ benchmark.invariant = "observable-isolation" =>
          probe # 0 /\ (benchmark.bug = "transient" => train # 0 /\ encode # 0)
RelevantChallenge(ops, benchmark) ==
  LET user == FirstIn(ops, "enter_user", 1, Len(ops))
      load == FirstIn(ops, "load_secret", user + 1, Len(ops))
      probe == FirstIn(ops, "probe", load + 1, Len(ops))
      train == FirstIn(ops, "train", 1, load - 1)
      encode == FirstIn(ops, "encode", load + 1, probe - 1)
  IN /\ user # 0 /\ load # 0
     /\ benchmark.invariant = "observable-isolation" =>
          /\ probe # 0
          /\ benchmark.bug = "transient" =>
               /\ train # 0 /\ encode # 0
               /\ \A i \in (train + 1)..(encode - 1) : ops[i] \notin {"fence", "squash"}

WithoutNops(ops) == SelectSeq(ops, LAMBDA op : op # "nop")
=============================================================================
