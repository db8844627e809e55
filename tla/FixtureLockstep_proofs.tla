----------------------- MODULE FixtureLockstep_proofs -----------------------
(***************************************************************************)
(* The two fixtures agree, and secure variants isolate the secret, after   *)
(* programs of any length.  The second half turns the facts about one step *)
(* into facts about Run, the execution of a whole program, for the proofs  *)
(* of the modules that judge programs.                                     *)
(***************************************************************************)
EXTENDS FixtureLockstep, FiniteSetTheorems, SequenceTheorems, TLAPS

USE DEF Worlds

\* One operation keeps a machine a machine, when variables name its variant.
LEMMA StepType ==
  ASSUME NEW m \in Machine, NEW op \in Ops, NEW secret \in Worlds, NEW v \in FixtureVariants
  PROVE  Step(m, op, secret, v) \in Machine
<1>1. CASE op = "train"
  BY <1>1 DEF Step, Machine
<1>2. CASE op = "enter_user"
  BY <1>2 DEF Step, Machine
<1>3. CASE op = "load_secret"
  BY <1>3 DEF Step, LoadSecret, Machine
<1>4. CASE op = "encode"
  BY <1>4 DEF Step, EncodeValue, Machine
<1>5. CASE op = "probe"
  BY <1>5 DEF Step, ProbeLine, Machine
<1>6. CASE op \in {"squash", "fence", "nop"}
  BY <1>6 DEF Step, Clear, Machine
<1>7. QED
  BY <1>1, <1>2, <1>3, <1>4, <1>5, <1>6 DEF Ops

\* One clock of the Verilog keeps registers registers.
LEMMA RtlStepType ==
  ASSUME NEW r \in Registers, NEW op \in Ops, NEW secret \in Worlds, NEW v \in FixtureVariants
  PROVE  RtlStep(r, OpCode(op), secret, BugCode(v)) \in Registers
<1>1. CASE op = "train"
  BY <1>1 DEF RtlStep, OpCode, Registers
<1>2. CASE op = "enter_user"
  BY <1>2 DEF RtlStep, OpCode, Registers
<1>3. CASE op = "load_secret"
  <2>1. OpCode(op) = 3
    BY <1>3 DEF OpCode
  <2> DEFINE valid == Bit(r.user_mode = 0 \/ BugCode(v) = 1 \/ (BugCode(v) = 2 /\ r.trained = 1))
             value == IF valid = 1 THEN secret ELSE r.value
  <2>2. valid \in {0, 1} /\ value \in {0, 1}
    BY DEF Bit, Registers, Worlds
  <2>3. RtlStep(r, 3, secret, BugCode(v)) =
          [r EXCEPT !.speculative = r.trained, !.valid = valid, !.value = value]
    BY DEF RtlStep
  <2> HIDE DEF valid, value
  <2>4. [r EXCEPT !.speculative = r.trained, !.valid = valid, !.value = value] \in Registers
    BY <2>2 DEF Registers
  <2>5. QED
    BY <2>1, <2>3, <2>4
<1>4. CASE op = "encode"
  BY <1>4 DEF RtlStep, OpCode, Registers
<1>5. CASE op = "probe"
  BY <1>5 DEF RtlStep, OpCode, Registers
<1>6. CASE op = "nop"
  BY <1>6 DEF RtlStep, OpCode
<1>7. CASE op \in {"squash", "fence"}
  <2>1. OpCode(op) \in {5, 7}
    BY <1>7 DEF OpCode
  <2>2. RtlStep(r, OpCode(op), secret, BugCode(v)) = RtlClear(r)
    BY <2>1 DEF RtlStep
  <2>3. QED
    BY <2>2 DEF RtlClear, Registers
<1>8. QED
  BY <1>1, <1>2, <1>3, <1>4, <1>5, <1>6, <1>7 DEF Ops

\* The variables keep their types under every operation.
THEOREM LockstepTypeCorrect == LockstepSpec => []LockstepTypeOK
<1>1. LockstepInit => LockstepTypeOK
  <2>1. PowerOn \in Machine
    BY DEF PowerOn, Machine
  <2>2. RtlReset \in Registers
    BY DEF RtlReset, Registers
  <2>3. QED
    BY <2>1, <2>2 DEF LockstepInit, LockstepTypeOK
<1>2. LockstepTypeOK /\ [LockstepNext]_lockstepVars => LockstepTypeOK'
  <2>1. ASSUME LockstepTypeOK, NEW op \in Ops, Execute(op) PROVE LockstepTypeOK'
    <3>1. model' \in [Worlds -> Machine]
      BY <2>1, StepType DEF Execute, LockstepTypeOK
    <3>2. rtl' \in [Worlds -> Registers]
      BY <2>1, RtlStepType DEF Execute, LockstepTypeOK
    <3>3. QED
      BY <2>1, <3>1, <3>2 DEF Execute, LockstepTypeOK
  <2>2. ASSUME LockstepTypeOK, UNCHANGED lockstepVars PROVE LockstepTypeOK'
    BY <2>2 DEF LockstepTypeOK, lockstepVars
  <2>3. QED
    BY <2>1, <2>2 DEF LockstepNext
<1>3. QED
  BY <1>1, <1>2, PTL DEF LockstepSpec

-----------------------------------------------------------------------------
\* Touching a cache line, as a set of lines and as an array of bits.
LEMMA TouchLine ==
  ASSUME NEW m \in Machine, NEW r \in Registers, Represents(r, m), NEW line \in {0, 1}
  PROVE  Represents([r EXCEPT !.cache_lines[line] = 1], [m EXCEPT !.cache = @ \cup {line}])
<1> DEFINE touched == [r EXCEPT !.cache_lines[line] = 1]
<1>1. /\ touched.user_mode = r.user_mode /\ touched.trained = r.trained
      /\ touched.speculative = r.speculative /\ touched.valid = r.valid
      /\ touched.value = r.value
      /\ touched.cache_lines = [r.cache_lines EXCEPT ![line] = 1]
  BY DEF Registers
<1>2. {l \in {0, 1} : touched.cache_lines[l] = 1}
        = {l \in {0, 1} : r.cache_lines[l] = 1} \cup {line}
  BY <1>1 DEF Registers
<1>3. QED
  BY <1>1, <1>2 DEF Represents, Machine

\* A load changes three fields of each machine.
LEMMA LoadedMachine ==
  ASSUME NEW m \in Machine, NEW valid \in BOOLEAN, NEW value
  PROVE  LET n == [m EXCEPT !.speculative = m.trained, !.valid = valid, !.value = value]
         IN /\ n.user = m.user /\ n.trained = m.trained /\ n.cache = m.cache
            /\ n.speculative = m.trained /\ n.valid = valid /\ n.value = value
  BY DEF Machine

LEMMA LoadedRegisters ==
  ASSUME NEW r \in Registers, NEW valid, NEW value
  PROVE  LET s == [r EXCEPT !.speculative = r.trained, !.valid = valid, !.value = value]
         IN /\ s.user_mode = r.user_mode /\ s.trained = r.trained
            /\ s.cache_lines = r.cache_lines
            /\ s.speculative = r.trained /\ s.valid = valid /\ s.value = value
  BY DEF Registers

\* A step of the Verilog represents the step of model().
LEMMA RepresentsStep ==
  ASSUME NEW m \in Machine, NEW r \in Registers, Represents(r, m),
         NEW op \in Ops, NEW secret \in Worlds, NEW v \in FixtureVariants
  PROVE  Represents(RtlStep(r, OpCode(op), secret, BugCode(v)), Step(m, op, secret, v))
<1>0. /\ (BugCode(v) = 1) = (v = "privilege")
      /\ (BugCode(v) = 2) = (v = "transient")
      /\ (BugCode(v) = 3) = (v = "seeded-cache-leak")
  BY DEF BugCode, FixtureVariants, Secure
<1>1. CASE op = "train"
  BY <1>1 DEF Step, RtlStep, OpCode, Represents, Machine, Registers
<1>2. CASE op = "enter_user"
  BY <1>2 DEF Step, RtlStep, OpCode, Represents, Machine, Registers
<1>3. CASE op = "load_secret"
  <2> DEFINE valid == ~m.user \/ v = "privilege" \/ (v = "transient" /\ m.trained)
             bit == Bit(r.user_mode = 0 \/ BugCode(v) = 1 \/ (BugCode(v) = 2 /\ r.trained = 1))
  <2>1. bit \in {0, 1} /\ (bit = 1 <=> valid) /\ valid \in BOOLEAN
    BY <1>0 DEF Bit, Represents, Machine, Registers
  <2>2. Step(m, op, secret, v) =
          [m EXCEPT !.speculative = m.trained, !.valid = valid,
                    !.value = IF valid THEN secret ELSE @]
    BY <1>3 DEF Step, LoadSecret
  <2>3. OpCode(op) = 3
    BY <1>3 DEF OpCode
  <2>4. RtlStep(r, 3, secret, BugCode(v)) =
          [r EXCEPT !.speculative = r.trained, !.valid = bit,
                    !.value = IF bit = 1 THEN secret ELSE @]
    BY DEF RtlStep
  <2> DEFINE m2 == Step(m, op, secret, v)
             r2 == RtlStep(r, OpCode(op), secret, BugCode(v))
  <2> HIDE DEF valid, bit
  <2>5. /\ m2.user = m.user /\ m2.trained = m.trained /\ m2.cache = m.cache
        /\ m2.speculative = m.trained /\ m2.valid = valid
        /\ m2.value = IF valid THEN secret ELSE m.value
    BY <2>1, <2>2, LoadedMachine
  <2>6. /\ r2.user_mode = r.user_mode /\ r2.trained = r.trained
        /\ r2.cache_lines = r.cache_lines
        /\ r2.speculative = r.trained /\ r2.valid = bit
        /\ r2.value = IF bit = 1 THEN secret ELSE r.value
    <3>1. r2 = [r EXCEPT !.speculative = r.trained, !.valid = bit,
                         !.value = IF bit = 1 THEN secret ELSE r.value]
      BY <2>3, <2>4
    <3> HIDE DEF r2
    <3>2. QED
      BY <2>1, <3>1, LoadedRegisters
  <2> HIDE DEF m2, r2
  <2>7. Represents(r2, m2)
    BY <2>1, <2>5, <2>6 DEF Represents
  <2>8. QED
    BY <2>7 DEF m2, r2
<1>4. CASE op = "encode"
  <2>1. OpCode(op) = 4
    BY <1>4 DEF OpCode
  <2>2. (r.valid = 1 /\ (r.speculative = 0 \/ BugCode(v) = 2))
          <=> (m.valid /\ (~m.speculative \/ v = "transient"))
    BY <1>0 DEF Represents, Machine, Registers
  <2>3. r.value = m.value /\ m.value \in {0, 1}
    BY DEF Represents, Machine
  <2>4. Step(m, op, secret, v) =
          IF m.valid /\ (~m.speculative \/ v = "transient")
          THEN [m EXCEPT !.cache = @ \cup {m.value}] ELSE m
    BY <1>4 DEF Step, EncodeValue
  <2>5. RtlStep(r, 4, secret, BugCode(v)) =
          IF r.valid = 1 /\ (r.speculative = 0 \/ BugCode(v) = 2)
          THEN [r EXCEPT !.cache_lines[r.value] = 1] ELSE r
    BY DEF RtlStep
  <2>6. Represents([r EXCEPT !.cache_lines[r.value] = 1], [m EXCEPT !.cache = @ \cup {m.value}])
    BY <2>3, TouchLine
  <2>7. QED
    BY <2>1, <2>2, <2>4, <2>5, <2>6
<1>5. CASE op = "probe"
  <2>1. OpCode(op) = 6
    BY <1>5 DEF OpCode
  <2>2. (r.user_mode = 1 /\ BugCode(v) = 3) <=> (m.user /\ v = "seeded-cache-leak")
    BY <1>0 DEF Represents, Machine, Registers
  <2>3. Step(m, op, secret, v) =
          IF m.user /\ v = "seeded-cache-leak"
          THEN [m EXCEPT !.cache = @ \cup {secret}] ELSE m
    BY <1>5 DEF Step, ProbeLine
  <2>4. RtlStep(r, 6, secret, BugCode(v)) =
          IF r.user_mode = 1 /\ BugCode(v) = 3
          THEN [r EXCEPT !.cache_lines[secret] = 1] ELSE r
    BY DEF RtlStep
  <2>5. Represents([r EXCEPT !.cache_lines[secret] = 1], [m EXCEPT !.cache = @ \cup {secret}])
    BY TouchLine
  <2>6. QED
    BY <2>1, <2>2, <2>3, <2>4, <2>5
<1>6. CASE op = "nop"
  BY <1>6 DEF Step, RtlStep, OpCode
<1>7. CASE op \in {"squash", "fence"}
  <2>1. OpCode(op) \in {5, 7}
    BY <1>7 DEF OpCode
  <2>2. RtlStep(r, OpCode(op), secret, BugCode(v)) = RtlClear(r) /\ Step(m, op, secret, v) = Clear(m)
    BY <1>7, <2>1 DEF RtlStep, Step
  <2>3. QED
    BY <2>2 DEF RtlClear, Clear, Represents, Machine, Registers
<1>8. QED
  BY <1>1, <1>2, <1>3, <1>4, <1>5, <1>6, <1>7 DEF Ops

\* Registers that represent the locals display what the model observes.
LEMMA RepresentsObserved ==
  ASSUME NEW m \in Machine, NEW r \in Registers, Represents(r, m), NEW op \in Ops
  PROVE  RtlObserved(r, OpCode(op)) = Observed(m, op)
<1>1. (OpCode(op) = 3 <=> op = "load_secret") /\ (OpCode(op) = 6 <=> op = "probe")
  BY DEF OpCode, Ops
<1>2. /\ (r.cache_lines[0] = 1) = (0 \in m.cache)
      /\ (r.speculative = 0) = ~m.speculative
  BY DEF Represents, Machine, Registers
<1>3. QED
  BY <1>1, <1>2 DEF RtlObserved, Observed, Architectural, Probes, Events, Represents

\* The two backends are interchangeable (backends.py:33-65 against
\* rtl/fixture.sv:18-43): same state and same observations after any program.
THEOREM BackendsAgree == LockstepSpec => []RtlMatchesModel
<1>1. LockstepInit => RtlMatchesModel
  BY DEF LockstepInit, RtlMatchesModel, Represents, PowerOn, RtlReset
<1>2. LockstepTypeOK /\ RtlMatchesModel /\ [LockstepNext]_lockstepVars => RtlMatchesModel'
  <2>1. ASSUME LockstepTypeOK, RtlMatchesModel, NEW op \in Ops, Execute(op), NEW secret \in Worlds
        PROVE  /\ Represents(rtl'[secret], model'[secret])
               /\ displayed'[secret] = shown'[secret]
    <3>1. /\ model[secret] \in Machine /\ rtl[secret] \in Registers /\ bug \in FixtureVariants
          /\ Represents(rtl[secret], model[secret])
      BY <2>1 DEF LockstepTypeOK, RtlMatchesModel
    <3>2. /\ model'[secret] = Step(model[secret], op, secret, bug)
          /\ rtl'[secret] = RtlStep(rtl[secret], OpCode(op), secret, BugCode(bug))
          /\ shown'[secret] = Observed(model'[secret], op)
          /\ displayed'[secret] = RtlObserved(rtl'[secret], OpCode(op))
      BY <2>1 DEF Execute
    <3>3. model'[secret] \in Machine /\ rtl'[secret] \in Registers
      BY <3>1, <3>2, StepType, RtlStepType
    <3>4. Represents(rtl'[secret], model'[secret])
      BY <3>1, <3>2, RepresentsStep
    <3>5. QED
      BY <3>2, <3>3, <3>4, RepresentsObserved
  <2>2. ASSUME RtlMatchesModel, UNCHANGED lockstepVars PROVE RtlMatchesModel'
    BY <2>2 DEF RtlMatchesModel, lockstepVars
  <2>3. QED
    BY <2>1, <2>2 DEF LockstepNext, RtlMatchesModel
<1>3. QED
  BY <1>1, <1>2, LockstepTypeCorrect, PTL DEF LockstepSpec

-----------------------------------------------------------------------------
\* Two machines whose control flags agree, whatever data they hold.
SameControl(m, n) ==
  m.user = n.user /\ m.trained = n.trained /\ m.speculative = n.speculative /\ m.valid = n.valid

\* Worlds that differ in data only still do after a step.
LEMMA SameControlStep ==
  ASSUME NEW m \in Machine, NEW n \in Machine, SameControl(m, n),
         NEW op \in Ops, NEW v \in FixtureVariants
  PROVE  SameControl(Step(m, op, 0, v), Step(n, op, 1, v))
<1>1. CASE op = "train"
  BY <1>1 DEF Step, SameControl, Machine
<1>2. CASE op = "enter_user"
  BY <1>2 DEF Step, SameControl, Machine
<1>3. CASE op = "load_secret"
  BY <1>3 DEF Step, LoadSecret, SameControl, Machine
<1>4. CASE op = "encode"
  BY <1>4 DEF Step, EncodeValue, SameControl, Machine
<1>5. CASE op = "probe"
  BY <1>5 DEF Step, ProbeLine, SameControl, Machine
<1>6. CASE op \in {"squash", "fence", "nop"}
  BY <1>6 DEF Step, Clear, SameControl, Machine
<1>7. QED
  BY <1>1, <1>2, <1>3, <1>4, <1>5, <1>6 DEF Ops

\* Control decides which observations are made.
LEMMA SameControlObserved ==
  ASSUME NEW m \in Machine, NEW n \in Machine, SameControl(m, n), NEW op \in Ops
  PROVE  /\ Events(m, op) = Events(n, op)
         /\ Len(Architectural(m, op)) = Len(Architectural(n, op))
         /\ Len(Probes(m, op)) = Len(Probes(n, op))
  BY DEF SameControl, Events, Architectural, Probes

\* The secret never steers the fixture, so observations of the two worlds can be
\* compared position by position (loop.py:44-47).
THEOREM ControlTheorem == LockstepSpec => []ControlIndependentOfSecret
<1> DEFINE Same == SameControl(model[0], model[1])
           Alike == /\ shown[0].events = shown[1].events
                    /\ Len(shown[0].architectural) = Len(shown[1].architectural)
                    /\ Len(shown[0].probes) = Len(shown[1].probes)
<1>1. LockstepInit => Same /\ Alike
  BY DEF LockstepInit, SameControl
<1>2. LockstepTypeOK /\ Same /\ Alike /\ [LockstepNext]_lockstepVars => (Same /\ Alike)'
  <2>1. ASSUME LockstepTypeOK, Same, NEW op \in Ops, Execute(op) PROVE (Same /\ Alike)'
    <3>1. /\ model'[0] = Step(model[0], op, 0, bug) /\ model'[1] = Step(model[1], op, 1, bug)
          /\ shown'[0] = Observed(model'[0], op) /\ shown'[1] = Observed(model'[1], op)
      BY <2>1 DEF Execute
    <3>2. model[0] \in Machine /\ model[1] \in Machine /\ bug \in FixtureVariants
      BY <2>1 DEF LockstepTypeOK
    <3>3. model'[0] \in Machine /\ model'[1] \in Machine
      BY <3>1, <3>2, StepType
    <3>4. Same'
      BY <2>1, <3>1, <3>2, SameControlStep
    <3>5. Alike'
      BY <3>1, <3>3, <3>4, SameControlObserved DEF Observed
    <3>6. QED
      BY <3>4, <3>5
  <2>2. ASSUME Same, Alike, UNCHANGED lockstepVars PROVE (Same /\ Alike)'
    BY <2>2 DEF lockstepVars
  <2>3. QED
    BY <2>1, <2>2 DEF LockstepNext
<1>3. Same /\ Alike => ControlIndependentOfSecret
  BY DEF SameControl, ControlIndependentOfSecret
<1>4. QED
  BY <1>1, <1>2, <1>3, LockstepTypeCorrect, PTL DEF LockstepSpec

-----------------------------------------------------------------------------
\* What a machine of variant v holds as long as the program stays within the
\* threat model: nothing loaded, or only under speculation, and no cache line.
Sealed(m, v) ==
  /\ v \in Secure \cup {"seeded-cache-leak"} => ~m.valid
  /\ v = "transient" => (m.valid => m.speculative)
  /\ v \in Secure => m.cache = {}

\* A machine that holds no secret stays so on a secure variant.
LEMMA SealedStep ==
  ASSUME NEW m \in Machine, NEW op \in Ops, NEW secret \in Worlds, NEW v \in FixtureVariants,
         Sealed(m, v), op = "load_secret" => m.user
  PROVE  Sealed(Step(m, op, secret, v), v)
<1>1. CASE op = "train"
  BY <1>1 DEF Step, Sealed, Machine
<1>2. CASE op = "enter_user"
  BY <1>2 DEF Step, Sealed, Machine
<1>3. CASE op = "load_secret"
  BY <1>3 DEF Step, LoadSecret, Sealed, Machine, Secure
<1>4. CASE op = "encode"
  BY <1>4 DEF Step, EncodeValue, Sealed, Machine
<1>5. CASE op = "probe"
  BY <1>5 DEF Step, ProbeLine, Sealed, Machine, Secure
<1>6. CASE op \in {"squash", "fence", "nop"}
  BY <1>6 DEF Step, Clear, Sealed, Machine
<1>7. QED
  BY <1>1, <1>2, <1>3, <1>4, <1>5, <1>6 DEF Ops

\* A sealed machine shows nothing architecturally, and a secure one probes alike.
LEMMA SealedObserved ==
  ASSUME NEW m, NEW n, NEW op, NEW v, Sealed(m, v), Sealed(n, v), SameControl(m, n)
  PROVE  /\ v \in Secure \cup {"transient", "seeded-cache-leak"} =>
              Architectural(m, op) = Architectural(n, op)
         /\ v \in Secure => Probes(m, op) = Probes(n, op)
  BY DEF Sealed, SameControl, Architectural, Probes

Isolation ==
  /\ SameControl(model[0], model[1])
  /\ ~outside => /\ Sealed(model[0], bug) /\ Sealed(model[1], bug)
                 /\ bug \in Secure \cup {"transient", "seeded-cache-leak"} => ~archDiffers
                 /\ bug \in Secure => ~probesDiffer

\* The inductive invariant of the isolation theorems.
LEMMA IsolationInductive == LockstepSpec => []Isolation
<1>1. LockstepInit => Isolation
  BY DEF LockstepInit, Isolation, SameControl, Sealed, PowerOn
<1>2. LockstepTypeOK /\ Isolation /\ [LockstepNext]_lockstepVars => Isolation'
  <2>1. ASSUME LockstepTypeOK, Isolation, NEW op \in Ops, Execute(op) PROVE Isolation'
    <3>1. /\ model'[0] = Step(model[0], op, 0, bug) /\ model'[1] = Step(model[1], op, 1, bug)
          /\ shown'[0] = Observed(model'[0], op) /\ shown'[1] = Observed(model'[1], op)
          /\ bug' = bug
      BY <2>1 DEF Execute
    <3>2. model[0] \in Machine /\ model[1] \in Machine /\ bug \in FixtureVariants
      BY <2>1 DEF LockstepTypeOK
    <3>3. SameControl(model'[0], model'[1])
      BY <2>1, <3>1, <3>2, SameControlStep DEF Isolation
    <3>4. SUFFICES ASSUME ~outside'
                   PROVE  /\ Sealed(model'[0], bug) /\ Sealed(model'[1], bug)
                          /\ bug \in Secure \cup {"transient", "seeded-cache-leak"} => ~archDiffers'
                          /\ bug \in Secure => ~probesDiffer'
      BY <3>1, <3>3 DEF Isolation
    <3>5. ~outside /\ (op = "load_secret" => model[0].user /\ model[1].user)
      BY <2>1, <3>4 DEF Execute, Isolation, SameControl
    <3>6. Sealed(model'[0], bug) /\ Sealed(model'[1], bug)
      BY <2>1, <3>1, <3>2, <3>5, SealedStep DEF Isolation
    <3>7. /\ bug \in Secure \cup {"transient", "seeded-cache-leak"} =>
               shown'[0].architectural = shown'[1].architectural
          /\ bug \in Secure => shown'[0].probes = shown'[1].probes
      BY <3>1, <3>3, <3>6, SealedObserved DEF Observed
    <3>8. QED
      BY <2>1, <3>5, <3>6, <3>7 DEF Execute, Isolation
  <2>2. ASSUME Isolation, UNCHANGED lockstepVars PROVE Isolation'
    BY <2>2 DEF Isolation, lockstepVars
  <2>3. QED
    BY <2>1, <2>2 DEF LockstepNext
<1>3. QED
  BY <1>1, <1>2, LockstepTypeCorrect, PTL DEF LockstepSpec

\* No program of any length within the threat model tells the two secrets apart on
\* a secure or repaired variant (backends.py:41-63): the fixture's repairs are
\* real and its negative control cannot be a false positive.
THEOREM SecureIsolation == LockstepSpec => []SecureVariantsIsolate
<1>1. Isolation => SecureVariantsIsolate
  BY DEF Isolation, SecureVariantsIsolate
<1>2. QED
  BY <1>1, IsolationInductive, PTL

\* The cache leaks never reach an architectural register (backends.py:49-52, 61).
THEOREM CacheLeaksOnly == LockstepSpec => []LeaksStayInTheCache
<1>1. Isolation => LeaksStayInTheCache
  BY DEF Isolation, LeaksStayInTheCache
<1>2. QED
  BY <1>1, IsolationInductive, PTL

-----------------------------------------------------------------------------
(* Whole programs: the states a program leads to, by induction on its      *)
(* prefixes.  The induction is over a set of lengths, so that it needs no  *)
(* operator for its predicate.                                             *)

\* No injection takes a finite set into itself without one of its elements.
LEMMA NoDescent ==
  ASSUME NEW D, IsFiniteSet(D), NEW k \in D, NEW f \in [D -> D \ {k}],
         \A x, y \in D : f[x] = f[y] => x = y
  PROVE  FALSE
<1>1. IsFiniteSet(D \ {k}) /\ Cardinality(D \ {k}) = Cardinality(D) - 1
  BY FS_RemoveElement
<1>2. Cardinality(D \ {k}) < Cardinality(D)
  BY <1>1, FS_CardinalityType
<1>3. QED
  BY <1>1, <1>2, FS_PigeonHole

\* Induction with a set for the predicate: what holds zero and each successor of
\* a member holds every natural number.
LEMMA Upward ==
  ASSUME NEW S, 0 \in S, \A n \in Nat : n \in S => n + 1 \in S
  PROVE  Nat \subseteq S
<1>1. SUFFICES ASSUME NEW k \in Nat, k \notin S PROVE FALSE
  OBVIOUS
<1> DEFINE D == {n \in 0..k : n \notin S}
           f == [n \in D |-> n - 1]
<1>2. IsFiniteSet(D)
  <2>1. IsFiniteSet(0..k)
    BY FS_Interval
  <2>2. QED
    BY <2>1, FS_Subset
<1>3. f \in [D -> D \ {k}]
  <2>1. \A n \in D : n # 0 /\ n - 1 \in Nat /\ n - 1 \notin S
    <3>1. TAKE n \in D
    <3>2. n # 0
      OBVIOUS
    <3>3. n - 1 \in Nat /\ (n - 1) + 1 = n
      BY <3>2
    <3>4. QED
      BY <3>2, <3>3
  <2>2. QED
    BY <1>1, <2>1
<1>4. k \in D /\ \A x, y \in D : f[x] = f[y] => x = y
  BY <1>1
<1> HIDE DEF D, f
<1>5. QED
  BY <1>2, <1>3, <1>4, NoDescent

\* Every non-empty set of natural numbers has a least element.
LEMMA LeastExists ==
  ASSUME NEW S \in SUBSET Nat, S # {}
  PROVE  \E n \in S : \A m \in S : n <= m
<1>1. SUFFICES ASSUME \A n \in S : \E m \in S : m < n PROVE FALSE
  OBVIOUS
<1> DEFINE below == {n \in Nat : \A m \in S : n < m}
<1>2. 0 \in below
  BY <1>1
<1>3. ASSUME NEW n \in Nat, n \in below PROVE n + 1 \in below
  BY <1>1, <1>3
<1>4. Nat \subseteq below
  <2> HIDE DEF below
  <2>1. QED
    BY <1>2, <1>3, Upward
<1>5. \A n \in S : n \in below
  BY <1>4
<1>6. PICK n \in S : TRUE
  OBVIOUS
<1>7. n \in Nat /\ n < n
  BY <1>5
<1>8. QED
  BY <1>7

\* ops.index: the first place in the range that holds the operation, if any does.
LEMMA FirstInIs ==
  ASSUME NEW ops, NEW op, NEW lo \in Nat, 1 <= lo, NEW hi \in Int,
         NEW first, first = FirstIn(ops, op, lo, hi)
  PROVE  /\ first \in Nat
         /\ first = 0 => \A k \in lo..hi : ops[k] # op
         /\ first # 0 => /\ first \in lo..hi /\ ops[first] = op
                         /\ \A k \in lo..(first - 1) : ops[k] # op
<1> DEFINE at == {k \in lo..hi : ops[k] = op}
<1>1. CASE at = {}
  <2>1. first = 0
    BY <1>1 DEF FirstIn
  <2>2. QED
    BY <1>1, <2>1
<1>2. CASE at # {}
  <2>1. at \in SUBSET Nat
    OBVIOUS
  <2>2. first = Sets!Min(at)
    BY <1>2 DEF FirstIn
  <2>3. \E k \in at : \A j \in at : k <= j
    <3> HIDE DEF at
    <3>1. QED
      BY <1>2, <2>1, LeastExists
  <2>4. first \in at /\ \A j \in at : first <= j
    <3> HIDE DEF at
    <3>1. QED
      BY <2>2, <2>3, Zenon DEF Sets!Min
  <2>5. first \in lo..hi /\ ops[first] = op /\ first \in Nat /\ first # 0
    BY <2>4
  <2>6. \A k \in lo..(first - 1) : ops[k] # op
    <3> SUFFICES ASSUME NEW k \in lo..(first - 1), ops[k] = op PROVE FALSE
      OBVIOUS
    <3>1. k \in at /\ k < first /\ k \in Int
      BY <2>5
    <3>2. first <= k
      BY <2>4, <3>1
    <3>3. QED
      BY <2>5, <3>1, <3>2
  <2>7. QED
    BY <2>5, <2>6
<1>3. QED
  BY <1>1, <1>2

PoweredOn == [machine |-> PowerOn, architectural |-> <<>>, probes |-> <<>>]

\* The states of a program: power on, then one operation after the other.
LEMMA StatesEquation ==
  ASSUME NEW ops \in Seq(Ops), NEW secret, NEW v
  PROVE  /\ States(ops, secret, v)[0] = PoweredOn
         /\ \A n \in 0..(Len(ops) - 1) :
              States(ops, secret, v)[n + 1] =
                After(States(ops, secret, v)[n], ops[n + 1], secret, v)
<1> DEFINE Follows(g, k) ==
             g = [n \in 0..k |-> IF n = 0 THEN PoweredOn
                                 ELSE After(g[n - 1], ops[n], secret, v)]
           built == {k \in Nat : \E g : Follows(g, k)}
<1>1. 0 \in built
  <2> DEFINE g == [n \in 0..0 |-> PoweredOn]
  <2>1. Follows(g, 0)
    OBVIOUS
  <2>2. QED
    BY <2>1
<1>2. ASSUME NEW k \in Nat, k \in built PROVE k + 1 \in built
  <2>1. PICK g : Follows(g, k)
    BY <1>2
  <2> DEFINE h == [n \in 0..(k + 1) |->
                     IF n <= k THEN g[n] ELSE After(g[k], ops[k + 1], secret, v)]
  <2>2. \A n \in 0..(k + 1) :
          h[n] = IF n = 0 THEN PoweredOn ELSE After(h[n - 1], ops[n], secret, v)
    <3> SUFFICES ASSUME NEW n \in 0..(k + 1)
                 PROVE  h[n] = IF n = 0 THEN PoweredOn ELSE After(h[n - 1], ops[n], secret, v)
      OBVIOUS
    <3>1. CASE n = 0
      <4>1. 0 \in 0..k /\ 0 \in 0..(k + 1) /\ 0 <= k
        OBVIOUS
      <4>2. h[0] = g[0]
        BY <4>1
      <4>3. g[0] = PoweredOn
        BY <2>1, <4>1
      <4>4. QED
        BY <3>1, <4>2, <4>3
    <3>2. CASE n # 0 /\ n <= k
      <4>1. n \in 0..k /\ n - 1 \in 0..(k + 1) /\ n - 1 <= k
        BY <3>2
      <4>2. h[n] = g[n] /\ h[n - 1] = g[n - 1]
        BY <3>2, <4>1
      <4>3. g[n] = After(g[n - 1], ops[n], secret, v)
        BY <2>1, <3>2, <4>1
      <4>4. QED
        BY <3>2, <4>2, <4>3
    <3>3. CASE n = k + 1
      <4>1. ~(n <= k) /\ n - 1 = k /\ k <= k /\ k \in 0..(k + 1) /\ n # 0
        BY <3>3
      <4>2. h[n] = After(g[k], ops[k + 1], secret, v) /\ h[k] = g[k]
        BY <4>1
      <4>3. QED
        BY <3>3, <4>1, <4>2
    <3>4. QED
      BY <3>1, <3>2, <3>3
  <2>3. h = [n \in 0..(k + 1) |-> h[n]]
    OBVIOUS
  <2> HIDE DEF h
  <2>4. Follows(h, k + 1)
    BY <2>2, <2>3
  <2>5. k + 1 \in Nat /\ \E g2 : Follows(g2, k + 1)
    <3> HIDE DEF Follows
    <3>1. QED
      BY <2>4
  <2>6. QED
    BY <2>5
<1>3. Len(ops) \in Nat
  OBVIOUS
<1>4. Len(ops) \in built
  <2> HIDE DEF built
  <2>1. QED
    BY <1>1, <1>2, <1>3, Upward
<1>5. \E g : Follows(g, Len(ops))
  BY <1>4
<1>6. Follows(States(ops, secret, v), Len(ops))
  <2>1. States(ops, secret, v) = CHOOSE g : Follows(g, Len(ops))
    BY DEF States, PoweredOn
  <2> HIDE DEF Follows
  <2>2. QED
    BY <1>5, <2>1
<1> DEFINE s == States(ops, secret, v)
<1>7. 0 \in 0..Len(ops) /\ \A n \in 0..(Len(ops) - 1) : n + 1 \in 0..Len(ops) /\ n + 1 # 0 /\ (n + 1) - 1 = n
  BY <1>3
<1> HIDE DEF s
<1>8. Follows(s, Len(ops))
  BY <1>6 DEF s
<1>9. s[0] = PoweredOn
  BY <1>7, <1>8
<1>10. \A n \in 0..(Len(ops) - 1) : s[n + 1] = After(s[n], ops[n + 1], secret, v)
  BY <1>7, <1>8
<1>11. QED
  BY <1>9, <1>10 DEF s

\* A world's data is its own secret, or none.
Own(m, secret) == (m.valid => m.value = secret) /\ m.cache \subseteq {secret}

\* A step keeps a world's data its own.
LEMMA OwnStep ==
  ASSUME NEW m \in Machine, NEW op \in Ops, NEW secret \in Worlds, NEW v \in FixtureVariants,
         Own(m, secret)
  PROVE  Own(Step(m, op, secret, v), secret)
<1>1. CASE op = "train"
  BY <1>1 DEF Step, Own, Machine
<1>2. CASE op = "enter_user"
  BY <1>2 DEF Step, Own, Machine
<1>3. CASE op = "load_secret"
  BY <1>3 DEF Step, LoadSecret, Own, Machine
<1>4. CASE op = "encode"
  BY <1>4 DEF Step, EncodeValue, Own, Machine
<1>5. CASE op = "probe"
  BY <1>5 DEF Step, ProbeLine, Own, Machine
<1>6. CASE op \in {"squash", "fence", "nop"}
  BY <1>6 DEF Step, Clear, Own, Machine
<1>7. QED
  BY <1>1, <1>2, <1>3, <1>4, <1>5, <1>6 DEF Ops

\* User mode is never left.
LEMMA UserStep ==
  ASSUME NEW m \in Machine, NEW op \in Ops, NEW secret \in Worlds, NEW v \in FixtureVariants,
         m.user \/ op = "enter_user"
  PROVE  Step(m, op, secret, v).user
<1>1. CASE op = "train"
  BY <1>1 DEF Step, Machine
<1>2. CASE op = "enter_user"
  BY <1>2 DEF Step, Machine
<1>3. CASE op = "load_secret"
  BY <1>3 DEF Step, LoadSecret, Machine
<1>4. CASE op = "encode"
  BY <1>4 DEF Step, EncodeValue, Machine
<1>5. CASE op = "probe"
  BY <1>5 DEF Step, ProbeLine, Machine
<1>6. CASE op \in {"squash", "fence", "nop"}
  BY <1>6 DEF Step, Clear, Machine
<1>7. QED
  BY <1>1, <1>2, <1>3, <1>4, <1>5, <1>6 DEF Ops

\* What an operation does to the state of an execution.
LEMMA AfterFields ==
  \A state, op, secret, v :
    /\ After(state, op, secret, v).machine = Step(state.machine, op, secret, v)
    /\ After(state, op, secret, v).architectural =
         state.architectural \o Architectural(After(state, op, secret, v).machine, op)
    /\ After(state, op, secret, v).probes =
         state.probes \o Probes(After(state, op, secret, v).machine, op)
<1> TAKE state, op, secret, v
<1> DEFINE m == Step(state.machine, op, secret, v)
           next == After(state, op, secret, v)
<1>1. next =
        [machine |-> m, architectural |-> state.architectural \o Architectural(m, op),
         probes |-> state.probes \o Probes(m, op)]
  BY DEF After
<1> HIDE DEF m, next
<1>2. /\ next.machine = m
      /\ next.architectural = state.architectural \o Architectural(m, op)
      /\ next.probes = state.probes \o Probes(m, op)
  BY <1>1
<1>3. QED
  BY <1>2 DEF m, next

\* What the states of one program in the two worlds share.
Twins(l, r) ==
  /\ l.machine \in Machine /\ r.machine \in Machine
  /\ SameControl(l.machine, r.machine)
  /\ Own(l.machine, 0) /\ Own(r.machine, 1)
  /\ l.probes \in Seq({1, 10}) /\ r.probes \in Seq({1, 10})
  /\ Len(l.probes) = Len(r.probes)

\* Twins take the same operation as twins.
LEMMA TwinsStep ==
  ASSUME NEW l, NEW r, Twins(l, r), NEW op \in Ops, NEW v \in FixtureVariants
  PROVE  Twins(After(l, op, 0, v), After(r, op, 1, v))
<1> DEFINE m == Step(l.machine, op, 0, v)
           n == Step(r.machine, op, 1, v)
<1>1. m \in Machine /\ n \in Machine /\ SameControl(m, n) /\ Own(m, 0) /\ Own(n, 1)
  BY StepType, SameControlStep, OwnStep DEF Twins
<1>2. /\ After(l, op, 0, v).machine = m /\ After(r, op, 1, v).machine = n
      /\ After(l, op, 0, v).probes = l.probes \o Probes(m, op)
      /\ After(r, op, 1, v).probes = r.probes \o Probes(n, op)
  <2>1. /\ After(l, op, 0, v).machine = m
        /\ After(l, op, 0, v).probes = l.probes \o Probes(After(l, op, 0, v).machine, op)
    BY AfterFields, Zenon
  <2>2. /\ After(r, op, 1, v).machine = n
        /\ After(r, op, 1, v).probes = r.probes \o Probes(After(r, op, 1, v).machine, op)
    BY AfterFields, Zenon
  <2> HIDE DEF m, n
  <2>3. QED
    BY <2>1, <2>2, Zenon
<1> HIDE DEF m, n
<1>3. Probes(m, op) \in Seq({1, 10}) /\ Probes(n, op) \in Seq({1, 10})
  <2>1. <<1>> \in Seq({1, 10}) /\ <<10>> \in Seq({1, 10}) /\ <<>> \in Seq({1, 10})
    OBVIOUS
  <2>2. QED
    BY <2>1 DEF Probes
<1>4. Len(Probes(m, op)) = Len(Probes(n, op))
  BY <1>1, SameControlObserved
<1>5. l.probes \in Seq({1, 10}) /\ r.probes \in Seq({1, 10}) /\ Len(l.probes) = Len(r.probes)
  BY DEF Twins
<1>6. /\ l.probes \o Probes(m, op) \in Seq({1, 10})
      /\ Len(l.probes \o Probes(m, op)) = Len(l.probes) + Len(Probes(m, op))
  BY <1>3, <1>5, ConcatProperties
<1>7. /\ r.probes \o Probes(n, op) \in Seq({1, 10})
      /\ Len(r.probes \o Probes(n, op)) = Len(r.probes) + Len(Probes(n, op))
  BY <1>3, <1>5, ConcatProperties
<1>8. QED
  BY <1>1, <1>2, <1>4, <1>5, <1>6, <1>7 DEF Twins

\* After any prefix of a program the two worlds are twins, in user mode if it was entered.
LEMMA RunTwins ==
  ASSUME NEW ops \in Seq(Ops), NEW v \in FixtureVariants, NEW n \in 0..Len(ops)
  PROVE  /\ Twins(States(ops, 0, v)[n], States(ops, 1, v)[n])
         /\ \A j \in 1..n : ops[j] = "enter_user" => States(ops, 0, v)[n].machine.user
<1> DEFINE l == States(ops, 0, v)
           r == States(ops, 1, v)
           Fine(k) == /\ Twins(l[k], r[k])
                      /\ \A j \in 1..k : ops[j] = "enter_user" => l[k].machine.user
           good == {k \in Nat : k <= Len(ops) => Fine(k)}
<1>1. /\ l[0] = PoweredOn /\ r[0] = PoweredOn
      /\ \A k \in 0..(Len(ops) - 1) : /\ l[k + 1] = After(l[k], ops[k + 1], 0, v)
                                      /\ r[k + 1] = After(r[k], ops[k + 1], 1, v)
  BY StatesEquation
<1> HIDE DEF l, r
<1>2. Fine(0)
  <2>1. Twins(PoweredOn, PoweredOn)
    BY DEF Twins, PoweredOn, PowerOn, Machine, SameControl, Own
  <2>2. QED
    BY <1>1, <2>1
<1>3. ASSUME NEW k \in Nat, k + 1 <= Len(ops), Fine(k) PROVE Fine(k + 1)
  <2>1. k \in 0..(Len(ops) - 1) /\ k + 1 \in 1..Len(ops) /\ ops[k + 1] \in Ops
    BY <1>3
  <2>2. l[k + 1] = After(l[k], ops[k + 1], 0, v) /\ r[k + 1] = After(r[k], ops[k + 1], 1, v)
    BY <1>1, <2>1
  <2>3. Twins(l[k + 1], r[k + 1])
    BY <1>3, <2>1, <2>2, TwinsStep
  <2>4. l[k + 1].machine = Step(l[k].machine, ops[k + 1], 0, v) /\ l[k].machine \in Machine
    BY <1>3, <2>2, AfterFields DEF Twins
  <2>5. ASSUME NEW j \in 1..(k + 1), ops[j] = "enter_user" PROVE l[k + 1].machine.user
    <3>1. j \in 1..k \/ j = k + 1
      BY <1>3
    <3>2. l[k].machine.user \/ ops[k + 1] = "enter_user"
      BY <1>3, <2>5, <3>1
    <3>3. QED
      BY <2>1, <2>4, <3>2, UserStep
  <2>6. QED
    BY <2>3, <2>5
<1> HIDE DEF Fine
<1>4. 0 \in good
  BY <1>2
<1>5. ASSUME NEW k \in Nat, k \in good PROVE k + 1 \in good
  <2>1. k + 1 <= Len(ops) => k <= Len(ops)
    OBVIOUS
  <2>2. QED
    BY <1>3, <1>5, <2>1
<1>6. Nat \subseteq good
  <2> HIDE DEF good
  <2>1. QED
    BY <1>4, <1>5, Upward
<1>7. n \in Nat /\ n <= Len(ops)
  OBVIOUS
<1>8. Fine(n)
  BY <1>6, <1>7
<1>9. QED
  BY <1>8 DEF Fine, l, r

\* The gate of the workflow: a load it lets through comes after user mode is entered.
LEMMA LoadsInUser ==
  ASSUME NEW ops \in Seq(Ops), ~OutsideUser(ops), NEW n \in 0..(Len(ops) - 1),
         ops[n + 1] = "load_secret"
  PROVE  \E j \in 1..n : ops[j] = "enter_user"
<1>1. n + 1 \in DOMAIN ops
  OBVIOUS
<1>2. PICK j \in 1..(n + 1) : ops[j] = "enter_user"
  BY <1>1 DEF OutsideUser
<1>3. j # n + 1
  BY <1>2
<1>4. QED
  BY <1>2, <1>3

\* Sealed twins that have shown alike still do after an operation.
Alike(l, r, v) ==
  /\ Sealed(l.machine, v) /\ Sealed(r.machine, v)
  /\ l.architectural = r.architectural /\ l.probes = r.probes

LEMMA AlikeStep ==
  ASSUME NEW l, NEW r, NEW op \in Ops, NEW v \in Secure, Twins(l, r), Alike(l, r, v),
         op = "load_secret" => l.machine.user /\ r.machine.user
  PROVE  Alike(After(l, op, 0, v), After(r, op, 1, v), v)
<1> DEFINE m == Step(l.machine, op, 0, v)
           n == Step(r.machine, op, 1, v)
           l2 == After(l, op, 0, v)
           r2 == After(r, op, 1, v)
<1>1. v \in FixtureVariants
  BY DEF FixtureVariants
<1>2. Sealed(m, v) /\ Sealed(n, v) /\ SameControl(m, n)
  BY <1>1, SealedStep, SameControlStep DEF Twins, Alike
<1>3. Architectural(m, op) = Architectural(n, op) /\ Probes(m, op) = Probes(n, op)
  BY <1>2, SealedObserved
<1>4. l2 = [machine |-> m, architectural |-> l.architectural \o Architectural(m, op),
            probes |-> l.probes \o Probes(m, op)]
  BY DEF After
<1>5. r2 = [machine |-> n, architectural |-> r.architectural \o Architectural(n, op),
            probes |-> r.probes \o Probes(n, op)]
  BY DEF After
<1> HIDE DEF m, n, l2, r2
<1>6. /\ l2.machine = m /\ l2.probes = l.probes \o Probes(m, op)
      /\ l2.architectural = l.architectural \o Architectural(m, op)
  BY <1>4
<1>7. /\ r2.machine = n /\ r2.probes = r.probes \o Probes(n, op)
      /\ r2.architectural = r.architectural \o Architectural(n, op)
  BY <1>5
<1>8. l.architectural = r.architectural /\ l.probes = r.probes
  BY DEF Alike
<1>9. Alike(l2, r2, v)
  BY <1>2, <1>3, <1>6, <1>7, <1>8 DEF Alike
<1>10. QED
  BY <1>9 DEF l2, r2

\* A program within the threat model is sealed on the secure variants, and shows alike.
LEMMA RunSealed ==
  ASSUME NEW ops \in Seq(Ops), ~OutsideUser(ops), NEW v \in Secure, NEW n \in 0..Len(ops)
  PROVE  LET left == States(ops, 0, v)[n]
             right == States(ops, 1, v)[n]
         IN left.architectural = right.architectural /\ left.probes = right.probes
<1> DEFINE l == States(ops, 0, v)
           r == States(ops, 1, v)
           Fine(k) == Alike(l[k], r[k], v)
           good == {k \in Nat : k <= Len(ops) => Fine(k)}
<1>0. v \in FixtureVariants
  BY DEF FixtureVariants
<1>1. /\ l[0] = PoweredOn /\ r[0] = PoweredOn
      /\ \A k \in 0..(Len(ops) - 1) : /\ l[k + 1] = After(l[k], ops[k + 1], 0, v)
                                      /\ r[k + 1] = After(r[k], ops[k + 1], 1, v)
  BY StatesEquation
<1>2. \A k \in 0..Len(ops) :
        /\ Twins(l[k], r[k])
        /\ \A j \in 1..k : ops[j] = "enter_user" => l[k].machine.user
  BY <1>0, RunTwins
<1> HIDE DEF l, r
<1>3. Fine(0)
  BY <1>1 DEF PoweredOn, PowerOn, Sealed, Alike
<1>4. ASSUME NEW k \in Nat, k + 1 <= Len(ops), Fine(k) PROVE Fine(k + 1)
  <2>1. /\ k \in 0..(Len(ops) - 1) /\ k + 1 \in 1..Len(ops) /\ ops[k + 1] \in Ops
        /\ k \in 0..Len(ops) /\ k + 1 \in 0..Len(ops)
    BY <1>4
  <2>2. l[k + 1] = After(l[k], ops[k + 1], 0, v) /\ r[k + 1] = After(r[k], ops[k + 1], 1, v)
    BY <1>1, <2>1
  <2>3. Twins(l[k], r[k]) /\ Twins(l[k + 1], r[k + 1])
    BY <1>2, <2>1
  <2>4. ops[k + 1] = "load_secret" => l[k].machine.user /\ r[k].machine.user
    BY <1>2, <2>1, <2>3, LoadsInUser DEF Twins, SameControl
  <2>5. QED
    BY <1>4, <2>1, <2>2, <2>3, <2>4, AlikeStep
<1> HIDE DEF Fine
<1>5. 0 \in good
  BY <1>3
<1>6. ASSUME NEW k \in Nat, k \in good PROVE k + 1 \in good
  <2>1. k + 1 <= Len(ops) => k <= Len(ops)
    OBVIOUS
  <2>2. QED
    BY <1>4, <1>6, <2>1
<1>7. Nat \subseteq good
  <2> HIDE DEF good
  <2>1. QED
    BY <1>5, <1>6, Upward
<1>8. Fine(n)
  BY <1>7
<1>9. QED
  BY <1>8 DEF Fine, l, r, Alike

\* No program the workflow judges violates a secure or repaired variant.
LEMMA SecureIsClean ==
  ASSUME NEW ops \in Seq(Ops), ~OutsideUser(ops), NEW v \in Secure, NEW invariant
  PROVE  Verdict(ops, invariant, v) = "clean"
<1>1. Len(ops) \in 0..Len(ops)
  OBVIOUS
<1>2. /\ Run(ops, 0, v).architectural = Run(ops, 1, v).architectural
      /\ Run(ops, 0, v).probes = Run(ops, 1, v).probes
  BY <1>1, RunSealed DEF Run
<1>3. QED
  BY <1>2 DEF Verdict

\* Induction from one number up to another.
LEMMA Onward ==
  ASSUME NEW S, NEW lo \in Nat, NEW hi \in Nat, lo \in S,
         \A n \in lo..(hi - 1) : n \in S => n + 1 \in S
  PROVE  lo..hi \subseteq S
<1> DEFINE T == {n \in Nat : n \in lo..hi => n \in S}
<1>1. 0 \in T
  OBVIOUS
<1>2. ASSUME NEW n \in Nat, n \in T PROVE n + 1 \in T
  <2>1. CASE n + 1 \in lo..hi
    <3>1. n + 1 = lo \/ n \in lo..(hi - 1)
      BY <2>1
    <3>2. n \in lo..(hi - 1) => n \in lo..hi
      OBVIOUS
    <3>3. n + 1 \in S
      BY <1>2, <3>1, <3>2
    <3>4. QED
      BY <3>3
  <2>2. CASE n + 1 \notin lo..hi
    BY <2>2
  <2>3. QED
    BY <2>1, <2>2
<1>3. Nat \subseteq T
  <2> HIDE DEF T
  <2>1. QED
    BY <1>1, <1>2, Upward
<1>4. QED
  BY <1>3

\* Two sequences of the same length that differ somewhere.
Apart(a, c) == \E k \in 1..Len(a) : a[k] # c[k]

\* Where the elements of a concatenation come from.
LEMMA JoinedElements ==
  ASSUME NEW T, NEW a \in Seq(T), NEW b \in Seq(T)
  PROVE  /\ Len(a \o b) = Len(a) + Len(b)
         /\ \A k \in 1..(Len(a) + Len(b)) :
              (a \o b)[k] = IF k <= Len(a) THEN a[k] ELSE b[k - Len(a)]
<1>1. Len(a \o b) = Len(a) + Len(b)
  BY ConcatProperties
<1>2. \A k \in 1..(Len(a) + Len(b)) :
        (a \o b)[k] = IF k <= Len(a) THEN a[k] ELSE b[k - Len(a)]
  BY ConcatProperties
<1>3. QED
  BY <1>1, <1>2

\* Sequences that differ still do when as much is appended to both.
LEMMA ApartAppend ==
  ASSUME NEW T, NEW a \in Seq(T), NEW b \in Seq(T), NEW c \in Seq(T), NEW d \in Seq(T),
         Len(a) = Len(c), Len(b) = Len(d), Apart(a, c) \/ Apart(b, d)
  PROVE  Apart(a \o b, c \o d)
<1>1. /\ Len(a \o b) = Len(a) + Len(b)
      /\ \A k \in 1..(Len(a) + Len(b)) :
           (a \o b)[k] = IF k <= Len(a) THEN a[k] ELSE b[k - Len(a)]
  BY JoinedElements
<1>2. /\ Len(c \o d) = Len(a) + Len(b)
      /\ \A k \in 1..(Len(a) + Len(b)) :
           (c \o d)[k] = IF k <= Len(a) THEN c[k] ELSE d[k - Len(a)]
  BY JoinedElements
<1>3. Len(a) \in Nat /\ Len(b) \in Nat
  OBVIOUS
<1> DEFINE e == a \o b
           f == c \o d
<1> HIDE DEF e, f
<1>4. CASE Apart(a, c)
  <2>1. PICK k \in 1..Len(a) : a[k] # c[k]
    BY <1>4 DEF Apart
  <2>2. k \in 1..(Len(a) + Len(b)) /\ k <= Len(a)
    BY <1>3
  <2>3. k \in 1..Len(e) /\ e[k] = a[k] /\ f[k] = c[k]
    BY <1>1, <1>2, <2>2 DEF e, f
  <2>4. Apart(e, f)
    BY <2>1, <2>3 DEF Apart
  <2>5. QED
    BY <2>4 DEF e, f
<1>5. CASE Apart(b, d)
  <2>1. PICK j \in 1..Len(b) : b[j] # d[j]
    BY <1>5 DEF Apart
  <2> DEFINE k == Len(a) + j
  <2>2. k \in 1..(Len(a) + Len(b)) /\ ~(k <= Len(a)) /\ k - Len(a) = j
    BY <1>3
  <2> HIDE DEF k
  <2>3. k \in 1..Len(e) /\ e[k] = b[j] /\ f[k] = d[j]
    BY <1>1, <1>2, <2>2 DEF e, f
  <2>4. Apart(e, f)
    BY <2>1, <2>3 DEF Apart
  <2>5. QED
    BY <2>4 DEF e, f
<1>6. QED
  BY <1>4, <1>5

\* The two worlds have printed different probes.
Differ(l, r) == Apart(l.probes, r.probes)

\* Worlds told apart stay so, and a probe that finds line zero tells them apart.
LEMMA DifferStep ==
  ASSUME NEW l, NEW r, Twins(l, r), NEW op \in Ops, NEW v \in FixtureVariants,
         LET m == Step(l.machine, op, 0, v)
         IN Differ(l, r) \/ (op = "probe" /\ m.user /\ 0 \in m.cache)
  PROVE  Differ(After(l, op, 0, v), After(r, op, 1, v))
<1> DEFINE m == Step(l.machine, op, 0, v)
           n == Step(r.machine, op, 1, v)
           l2 == After(l, op, 0, v)
           r2 == After(r, op, 1, v)
<1>1. m \in Machine /\ n \in Machine /\ SameControl(m, n) /\ Own(n, 1)
  BY StepType, SameControlStep, OwnStep DEF Twins
<1>2. l2.probes = l.probes \o Probes(m, op)
  BY DEF After
<1>3. r2.probes = r.probes \o Probes(n, op)
  BY DEF After
<1>4. Differ(l, r) \/ (op = "probe" /\ m.user /\ 0 \in m.cache)
  OBVIOUS
<1> HIDE DEF m, n, l2, r2
<1>5. Probes(m, op) \in Seq({1, 10}) /\ Probes(n, op) \in Seq({1, 10})
  <2>1. <<1>> \in Seq({1, 10}) /\ <<10>> \in Seq({1, 10}) /\ <<>> \in Seq({1, 10})
    OBVIOUS
  <2>2. QED
    BY <2>1 DEF Probes
<1>6. l.probes \in Seq({1, 10}) /\ r.probes \in Seq({1, 10}) /\ Len(l.probes) = Len(r.probes)
  BY DEF Twins
<1>7. Len(Probes(m, op)) = Len(Probes(n, op))
  BY <1>1, SameControlObserved
<1>8. Apart(l.probes, r.probes) \/ Apart(Probes(m, op), Probes(n, op))
  <2>1. CASE Differ(l, r)
    BY <2>1 DEF Differ
  <2>2. CASE op = "probe" /\ m.user /\ 0 \in m.cache
    <3>1. Probes(m, op) = <<1>> /\ Probes(n, op) = <<10>>
      BY <1>1, <2>2 DEF Probes, SameControl, Own
    <3>2. Apart(<<1>>, <<10>>)
      BY DEF Apart
    <3>3. QED
      BY <3>1, <3>2
  <2>3. QED
    BY <1>4, <2>1, <2>2
<1>9. Apart(l.probes \o Probes(m, op), r.probes \o Probes(n, op))
  BY <1>5, <1>6, <1>7, <1>8, ApartAppend
<1>10. Differ(l2, r2)
  BY <1>2, <1>3, <1>9 DEF Differ
<1>11. QED
  BY <1>10 DEF l2, r2

\* Operations never take a line out of the cache.
LEMMA CacheStep ==
  ASSUME NEW m \in Machine, NEW op \in Ops, NEW secret \in Worlds, NEW v \in FixtureVariants
  PROVE  m.cache \subseteq Step(m, op, secret, v).cache
<1>1. CASE op = "train"
  BY <1>1 DEF Step, Machine
<1>2. CASE op = "enter_user"
  BY <1>2 DEF Step, Machine
<1>3. CASE op = "load_secret"
  BY <1>3 DEF Step, LoadSecret, Machine
<1>4. CASE op = "encode"
  BY <1>4 DEF Step, EncodeValue, Machine
<1>5. CASE op = "probe"
  BY <1>5 DEF Step, ProbeLine, Machine
<1>6. CASE op \in {"squash", "fence", "nop"}
  BY <1>6 DEF Step, Clear, Machine
<1>7. QED
  BY <1>1, <1>2, <1>3, <1>4, <1>5, <1>6 DEF Ops

\* Training, and a value loaded while trained, last until a fence or a squash.
LEMMA TrainedStep ==
  ASSUME NEW m \in Machine, NEW op \in Ops \ {"fence", "squash"}, NEW secret \in Worlds,
         m.trained \/ op = "train"
  PROVE  LET n == Step(m, op, secret, "transient")
         IN n.trained /\ (m.valid \/ op = "load_secret" => n.valid)
<1>1. CASE op = "train"
  BY <1>1 DEF Step, Machine
<1>2. CASE op = "enter_user"
  BY <1>2 DEF Step, Machine
<1>3. CASE op = "load_secret"
  BY <1>3 DEF Step, LoadSecret, Machine
<1>4. CASE op = "encode"
  BY <1>4 DEF Step, EncodeValue, Machine
<1>5. CASE op = "probe"
  BY <1>5 DEF Step, ProbeLine, Machine
<1>6. CASE op = "nop"
  BY <1>6 DEF Step, Machine
<1>7. QED
  BY <1>1, <1>2, <1>3, <1>4, <1>5, <1>6 DEF Ops

\* Each state is a step from the one before it.
LEMMA RunSteps ==
  ASSUME NEW ops \in Seq(Ops), NEW v \in FixtureVariants, NEW n \in 0..(Len(ops) - 1)
  PROVE  LET l == States(ops, 0, v)
             r == States(ops, 1, v)
         IN /\ Twins(l[n], r[n]) /\ ops[n + 1] \in Ops
            /\ l[n + 1] = After(l[n], ops[n + 1], 0, v)
            /\ r[n + 1] = After(r[n], ops[n + 1], 1, v)
            /\ l[n].machine \in Machine
            /\ l[n + 1].machine = Step(l[n].machine, ops[n + 1], 0, v)
<1>1. n \in 0..Len(ops) /\ n + 1 \in 1..Len(ops)
  OBVIOUS
<1>2. /\ States(ops, 0, v)[n + 1] = After(States(ops, 0, v)[n], ops[n + 1], 0, v)
      /\ States(ops, 1, v)[n + 1] = After(States(ops, 1, v)[n], ops[n + 1], 1, v)
  BY StatesEquation
<1>3. Twins(States(ops, 0, v)[n], States(ops, 1, v)[n])
  BY <1>1, RunTwins
<1>4. States(ops, 0, v)[n + 1].machine = Step(States(ops, 0, v)[n].machine, ops[n + 1], 0, v)
  BY <1>2, AfterFields
<1>5. ops[n + 1] \in Ops
  BY <1>1
<1>6. QED
  BY <1>2, <1>3, <1>4, <1>5 DEF Twins

\* A probe in user mode that finds line zero in the world of secret zero tells the worlds apart.
LEMMA ProbeTells ==
  ASSUME NEW ops \in Seq(Ops), NEW v \in FixtureVariants, NEW p \in 1..Len(ops),
         ops[p] = "probe", NEW u \in 1..(p - 1), ops[u] = "enter_user",
         0 \in States(ops, 0, v)[p].machine.cache
  PROVE  Run(ops, 0, v).probes # Run(ops, 1, v).probes
<1> DEFINE l == States(ops, 0, v)
           r == States(ops, 1, v)
           S == {n \in Nat : Differ(l[n], r[n])}
<1>1. \A n \in 0..(Len(ops) - 1) :
        /\ Twins(l[n], r[n]) /\ ops[n + 1] \in Ops
        /\ l[n + 1] = After(l[n], ops[n + 1], 0, v)
        /\ r[n + 1] = After(r[n], ops[n + 1], 1, v)
        /\ l[n + 1].machine = Step(l[n].machine, ops[n + 1], 0, v)
  BY RunSteps
<1>2. l[p].machine.user
  <2>1. p \in 0..Len(ops) /\ u \in 1..p
    OBVIOUS
  <2>2. QED
    BY <2>1, RunTwins
<1>3. 0 \in l[p].machine.cache
  OBVIOUS
<1>4. l[Len(ops)] = Run(ops, 0, v) /\ r[Len(ops)] = Run(ops, 1, v)
  BY DEF Run
<1> HIDE DEF l, r
<1>5. Differ(l[p], r[p])
  <2>1. p - 1 \in 0..(Len(ops) - 1) /\ (p - 1) + 1 = p
    OBVIOUS
  <2>2. /\ Twins(l[p - 1], r[p - 1]) /\ ops[p] \in Ops
        /\ l[p] = After(l[p - 1], ops[p], 0, v) /\ r[p] = After(r[p - 1], ops[p], 1, v)
        /\ l[p].machine = Step(l[p - 1].machine, ops[p], 0, v)
    BY <1>1, <2>1
  <2>3. QED
    BY <1>2, <1>3, <2>2, DifferStep
<1>6. ASSUME NEW n \in p..(Len(ops) - 1), n \in S PROVE n + 1 \in S
  <2>1. n \in 0..(Len(ops) - 1) /\ n + 1 \in Nat
    OBVIOUS
  <2>2. /\ Twins(l[n], r[n]) /\ ops[n + 1] \in Ops
        /\ l[n + 1] = After(l[n], ops[n + 1], 0, v) /\ r[n + 1] = After(r[n], ops[n + 1], 1, v)
    BY <1>1, <2>1
  <2>3. Differ(l[n], r[n])
    BY <1>6
  <2>4. QED
    BY <2>1, <2>2, <2>3, DifferStep
<1>7. p \in S /\ p \in Nat /\ Len(ops) \in Nat /\ Len(ops) \in p..Len(ops)
  BY <1>5
<1>8. Len(ops) \in S
  <2> HIDE DEF S
  <2>1. p..Len(ops) \subseteq S
    BY <1>6, <1>7, Onward
  <2>2. QED
    BY <1>7, <2>1
<1>9. l[Len(ops)].probes # r[Len(ops)].probes
  BY <1>8 DEF Differ, Apart
<1>10. QED
  BY <1>4, <1>9

\* The same, one case at a time.
LEMMA FirstInMissing ==
  ASSUME NEW ops, NEW op, NEW lo \in Nat, 1 <= lo, NEW hi \in Int, FirstIn(ops, op, lo, hi) = 0
  PROVE  \A k \in lo..hi : ops[k] # op
<1> DEFINE first == FirstIn(ops, op, lo, hi)
<1>1. first = 0 => \A k \in lo..hi : ops[k] # op
  BY FirstInIs
<1>2. QED
  BY <1>1

LEMMA FirstInFound ==
  ASSUME NEW ops, NEW op, NEW lo \in Nat, 1 <= lo, NEW hi \in Int, FirstIn(ops, op, lo, hi) # 0
  PROVE  FirstIn(ops, op, lo, hi) \in lo..hi /\ ops[FirstIn(ops, op, lo, hi)] = op
<1> DEFINE first == FirstIn(ops, op, lo, hi)
<1>1. first # 0 => first \in lo..hi /\ ops[first] = op
  BY FirstInIs
<1>2. QED
  BY <1>1

LEMMA FirstInBefore ==
  ASSUME NEW ops, NEW op, NEW lo \in Nat, 1 <= lo, NEW hi \in Int, FirstIn(ops, op, lo, hi) # 0
  PROVE  \A k \in lo..(FirstIn(ops, op, lo, hi) - 1) : ops[k] # op
<1> DEFINE first == FirstIn(ops, op, lo, hi)
<1>1. first # 0 => \A k \in lo..(first - 1) : ops[k] # op
  BY FirstInIs
<1>2. QED
  BY <1>1

\* On the seeded leak a probe in user mode leaves the secret's line in the cache.
LEMMA SeededLeaks ==
  ASSUME NEW ops \in Seq(Ops), NEW p \in 1..Len(ops), ops[p] = "probe",
         NEW u \in 1..(p - 1), ops[u] = "enter_user"
  PROVE  0 \in States(ops, 0, "seeded-cache-leak")[p].machine.cache
<1> DEFINE v == "seeded-cache-leak"
           l == States(ops, 0, v)
<1>1. v \in FixtureVariants
  BY DEF FixtureVariants
<1>2. p - 1 \in 0..(Len(ops) - 1) /\ (p - 1) + 1 = p /\ p - 1 \in 0..Len(ops) /\ u \in 1..(p - 1)
  OBVIOUS
<1>3. l[p - 1].machine \in Machine /\ l[p].machine = Step(l[p - 1].machine, ops[p], 0, v)
  BY <1>1, <1>2, RunSteps
<1>4. l[p - 1].machine.user
  BY <1>1, <1>2, RunTwins
<1> HIDE DEF l
<1>5. l[p].machine = [l[p - 1].machine EXCEPT !.cache = @ \cup {0}]
  BY <1>3, <1>4 DEF Step, ProbeLine
<1>6. 0 \in l[p].machine.cache
  BY <1>3, <1>5 DEF Machine
<1>7. QED
  BY <1>6 DEF l

\* On the transient leak a load that follows training and precedes an encode, with
\* neither fence nor squash on the way, leaves the secret's line in the cache.
LEMMA TransientLeaks ==
  ASSUME NEW ops \in Seq(Ops), NEW p \in 1..Len(ops),
         NEW t \in 1..p, NEW d \in 1..p, NEW e \in 1..p, t < d, d < e,
         ops[t] = "train", ops[d] = "load_secret", ops[e] = "encode",
         \A k \in (t + 1)..(e - 1) : ops[k] \notin {"fence", "squash"}
  PROVE  0 \in States(ops, 0, "transient")[p].machine.cache
<1> DEFINE v == "transient"
           l == States(ops, 0, v)
           m(n) == l[n].machine
           Trained == {n \in Nat : m(n).trained}
           Valid == {n \in Nat : m(n).trained /\ m(n).valid}
           Cached == {n \in Nat : 0 \in m(n).cache}
<1>0. v \in FixtureVariants
  BY DEF FixtureVariants
<1>1. \A n \in 0..(Len(ops) - 1) :
        m(n) \in Machine /\ ops[n + 1] \in Ops /\ m(n + 1) = Step(m(n), ops[n + 1], 0, v)
  BY <1>0, RunSteps
<1>2. \A n \in 0..Len(ops) : Own(m(n), 0)
  BY <1>0, RunTwins DEF Twins
<1> HIDE DEF l, m
<1>3. p \in Nat /\ t \in Nat /\ d \in Nat /\ e \in Nat /\ Len(ops) \in Nat /\ p <= Len(ops)
  OBVIOUS
<1>4. t \in Trained
  <2>1. t - 1 \in 0..(Len(ops) - 1) /\ (t - 1) + 1 = t
    BY <1>3
  <2>2. m(t - 1) \in Machine /\ m(t) = Step(m(t - 1), "train", 0, v)
    BY <1>1, <2>1
  <2>3. m(t).trained
    BY <2>2, TrainedStep DEF Ops
  <2>4. QED
    BY <1>3, <2>3
<1>5. ASSUME NEW n \in t..(e - 2), n \in Trained
      PROVE  /\ n + 1 \in Trained
             /\ m(n).valid \/ ops[n + 1] = "load_secret" => n + 1 \in Valid
  <2>1. n \in 0..(Len(ops) - 1) /\ n + 1 \in (t + 1)..(e - 1) /\ n + 1 \in Nat
    BY <1>3
  <2>2. /\ m(n) \in Machine /\ ops[n + 1] \in Ops \ {"fence", "squash"}
        /\ m(n + 1) = Step(m(n), ops[n + 1], 0, v)
    BY <1>1, <2>1
  <2>3. m(n).trained
    BY <1>5
  <2>4. m(n + 1).trained /\ (m(n).valid \/ ops[n + 1] = "load_secret" => m(n + 1).valid)
    BY <2>2, <2>3, TrainedStep
  <2>5. QED
    BY <2>1, <2>4
<1>6. d - 1 \in Trained
  <2>1. \A n \in t..((d - 1) - 1) : n \in t..(e - 2)
    BY <1>3
  <2>2. \A n \in t..((d - 1) - 1) : n \in Trained => n + 1 \in Trained
    BY <1>5, <2>1
  <2>3. d - 1 \in Nat /\ d - 1 \in t..(d - 1)
    BY <1>3
  <2> HIDE DEF Trained
  <2>4. t..(d - 1) \subseteq Trained
    BY <1>3, <1>4, <2>2, <2>3, Onward
  <2>5. QED
    BY <2>3, <2>4
<1>7. d \in Valid
  <2>1. d - 1 \in t..(e - 2) /\ (d - 1) + 1 = d
    BY <1>3
  <2>2. QED
    BY <1>5, <1>6, <2>1
<1>8. e - 1 \in Valid
  <2>1. ASSUME NEW n \in d..((e - 1) - 1), n \in Valid PROVE n + 1 \in Valid
    <3>1. n \in t..(e - 2) /\ n \in Trained /\ m(n).valid
      BY <1>3, <2>1
    <3>2. QED
      BY <1>5, <3>1
  <2>2. e - 1 \in Nat /\ e - 1 \in d..(e - 1)
    BY <1>3
  <2> HIDE DEF Valid
  <2>3. d..(e - 1) \subseteq Valid
    BY <1>3, <1>7, <2>1, <2>2, Onward
  <2>4. QED
    BY <2>2, <2>3
<1>9. e \in Cached
  <2>1. e - 1 \in 0..(Len(ops) - 1) /\ (e - 1) + 1 = e /\ e - 1 \in 0..Len(ops)
    BY <1>3
  <2>2. /\ m(e - 1) \in Machine /\ m(e) = Step(m(e - 1), "encode", 0, v)
        /\ Own(m(e - 1), 0)
    BY <1>1, <1>2, <2>1
  <2>3. m(e - 1).valid
    BY <1>8
  <2>4. m(e - 1).value = 0
    BY <2>2, <2>3 DEF Own
  <2>5. m(e) = [m(e - 1) EXCEPT !.cache = @ \cup {m(e - 1).value}]
    BY <2>2, <2>3 DEF Step, EncodeValue
  <2>6. 0 \in m(e).cache
    BY <2>2, <2>4, <2>5 DEF Machine
  <2>7. QED
    BY <1>3, <2>6
<1>10. ASSUME NEW n \in e..(p - 1), n \in Cached PROVE n + 1 \in Cached
  <2>1. n \in 0..(Len(ops) - 1) /\ n + 1 \in Nat
    BY <1>3
  <2>2. m(n).cache \subseteq m(n + 1).cache
    BY <1>0, <1>1, <2>1, CacheStep
  <2>3. QED
    BY <1>10, <2>1, <2>2
<1>11. p \in Cached
  <2>1. p \in e..p
    BY <1>3
  <2> HIDE DEF Cached
  <2>2. e..p \subseteq Cached
    BY <1>3, <1>9, <1>10, Onward
  <2>3. QED
    BY <2>1, <2>2
<1>12. QED
  BY <1>11 DEF m, l

\* A relevant challenge of a cache benchmark exploits the unrepaired variant.
LEMMA RelevantViolates ==
  ASSUME NEW ops \in Seq(Ops), NEW b \in Benchmarks, b.bug \in {"transient", "seeded-cache-leak"},
         ~OutsideUser(ops), RelevantChallenge(ops, b)
  PROVE  Verdict(ops, b.invariant, b.bug) = "violation"
<1> DEFINE user == FirstIn(ops, "enter_user", 1, Len(ops))
           load == FirstIn(ops, "load_secret", user + 1, Len(ops))
           probe == FirstIn(ops, "probe", load + 1, Len(ops))
           train == FirstIn(ops, "train", 1, load - 1)
           encode == FirstIn(ops, "encode", load + 1, probe - 1)
<1>1. b.invariant = "observable-isolation" /\ b.bug \in FixtureVariants
  BY DEF Benchmarks, FixtureVariants
<1>2. /\ user # 0 /\ load # 0 /\ probe # 0
      /\ b.bug = "transient" =>
           /\ train # 0 /\ encode # 0
           /\ \A i \in (train + 1)..(encode - 1) : ops[i] \notin {"fence", "squash"}
  BY <1>1 DEF RelevantChallenge
<1>3. user \in 1..Len(ops) /\ ops[user] = "enter_user"
  <2>1. Len(ops) \in Int
    OBVIOUS
  <2>2. QED
    BY <1>2, <2>1, FirstInFound
<1>4. load \in (user + 1)..Len(ops) /\ ops[load] = "load_secret"
  <2> HIDE DEF user
  <2>1. user + 1 \in Nat /\ 1 <= user + 1 /\ Len(ops) \in Int
    BY <1>3
  <2>2. QED
    BY <1>2, <2>1, FirstInFound
<1>5. probe \in (load + 1)..Len(ops) /\ ops[probe] = "probe"
  <2> HIDE DEF user, load
  <2>1. load + 1 \in Nat /\ 1 <= load + 1 /\ Len(ops) \in Int
    BY <1>3, <1>4
  <2>2. QED
    BY <1>2, <2>1, FirstInFound
<1>6. b.bug = "transient" => train \in 1..(load - 1) /\ ops[train] = "train"
  <2> HIDE DEF user, load
  <2>1. load - 1 \in Int
    BY <1>3, <1>4
  <2>2. QED
    BY <1>2, <2>1, FirstInFound
<1>7. b.bug = "transient" => encode \in (load + 1)..(probe - 1) /\ ops[encode] = "encode"
  <2> HIDE DEF user, load, probe
  <2>1. load + 1 \in Nat /\ 1 <= load + 1 /\ probe - 1 \in Int
    BY <1>3, <1>4, <1>5
  <2>2. QED
    BY <1>2, <2>1, FirstInFound
<1> HIDE DEF user, load, probe, train, encode
<1>8. probe \in 1..Len(ops) /\ user \in 1..(probe - 1)
  BY <1>3, <1>4, <1>5
<1>9. 0 \in States(ops, 0, b.bug)[probe].machine.cache
  <2>1. CASE b.bug = "seeded-cache-leak"
    BY <1>3, <1>5, <1>8, <2>1, SeededLeaks
  <2>2. CASE b.bug = "transient"
    <3>1. /\ train \in 1..probe /\ load \in 1..probe /\ encode \in 1..probe
          /\ train < load /\ load < encode
      BY <1>3, <1>4, <1>5, <1>6, <1>7, <2>2
    <3>2. QED
      BY <1>2, <1>4, <1>6, <1>7, <1>8, <2>2, <3>1, TransientLeaks
  <2>3. QED
    BY <2>1, <2>2
<1>10. Run(ops, 0, b.bug).probes # Run(ops, 1, b.bug).probes
  BY <1>1, <1>3, <1>5, <1>8, <1>9, ProbeTells
<1>11. QED
  BY <1>1, <1>10 DEF Verdict
=============================================================================
