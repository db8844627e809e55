--------------------------- MODULE FixtureLockstep ---------------------------
(***************************************************************************)
(* model() and the Verilog fixture executing one program of any length in  *)
(* lockstep, each in the two secret worlds validate compares.              *)
(***************************************************************************)
EXTENDS Fixture

Worlds == {0, 1}

VARIABLES
  bug,       \* the variant under test
  model,     \* model()'s locals, per world
  rtl,       \* the registers of fixture.sv, per world
  shown,     \* what the last operation appended to the model's observation
  displayed, \* what the last operation made the RTL print
  outside,   \* the program so far loads the secret outside user mode
  archDiffers, probesDiffer \* left # right, as validate compares them

lockstepVars == <<bug, model, rtl, shown, displayed, outside, archDiffers, probesDiffer>>

Nothing == [architectural |-> <<>>, probes |-> <<>>, events |-> <<>>]

LockstepInit ==
  /\ bug \in FixtureVariants
  /\ model = [secret \in Worlds |-> PowerOn]
  /\ rtl = [secret \in Worlds |-> RtlReset]
  /\ shown = [secret \in Worlds |-> Nothing]
  /\ displayed = [secret \in Worlds |-> Nothing]
  /\ outside = FALSE /\ archDiffers = FALSE /\ probesDiffer = FALSE

Execute(op) ==
  /\ model' = [secret \in Worlds |-> Step(model[secret], op, secret, bug)]
  /\ rtl' = [secret \in Worlds |-> RtlStep(rtl[secret], OpCode(op), secret, BugCode(bug))]
  /\ shown' = [secret \in Worlds |-> Observed(model'[secret], op)]
  /\ displayed' = [secret \in Worlds |-> RtlObserved(rtl'[secret], OpCode(op))]
  /\ outside' = (outside \/ (op = "load_secret" /\ ~model[0].user))
  /\ archDiffers' = (archDiffers \/ shown'[0].architectural # shown'[1].architectural)
  /\ probesDiffer' = (probesDiffer \/ shown'[0].probes # shown'[1].probes)
  /\ UNCHANGED bug

LockstepNext == \E op \in Ops : Execute(op)

LockstepSpec == LockstepInit /\ [][LockstepNext]_lockstepVars

-----------------------------------------------------------------------------
\* The variables range over machines, registers and observations.
LockstepTypeOK ==
  /\ bug \in FixtureVariants
  /\ model \in [Worlds -> Machine]
  /\ rtl \in [Worlds -> Registers]
  /\ outside \in BOOLEAN /\ archDiffers \in BOOLEAN /\ probesDiffer \in BOOLEAN

\* The Verilog registers r represent the locals m of model().
Represents(r, m) ==
  /\ r.user_mode = 1 <=> m.user
  /\ r.trained = 1 <=> m.trained
  /\ r.speculative = 1 <=> m.speculative
  /\ r.valid = 1 <=> m.valid
  /\ r.value = m.value
  /\ m.cache = {line \in {0, 1} : r.cache_lines[line] = 1}

\* The two backends are interchangeable: after any program, in both worlds and
\* for every variant, the RTL holds the model's state and has printed the same
\* observation (backends.py:33-65 against rtl/fixture.sv:18-43).
RtlMatchesModel ==
  \A secret \in Worlds : /\ Represents(rtl[secret], model[secret])
                         /\ displayed[secret] = shown[secret]

\* The secret reaches data (value, cache) and never control: both worlds emit at
\* the same operations, so comparing whole tuples (loop.py:44-47) compares
\* observations of the same operation.
ControlIndependentOfSecret ==
  /\ \A f \in {"user", "trained", "speculative", "valid"} : model[0][f] = model[1][f]
  /\ shown[0].events = shown[1].events
  /\ Len(shown[0].architectural) = Len(shown[1].architectural)
  /\ Len(shown[0].probes) = Len(shown[1].probes)

\* No program within the threat model tells the worlds apart on a secure or
\* repaired variant, however long it is: a clean repair is clean for every attack.
SecureVariantsIsolate ==
  bug \in Secure /\ ~outside => ~archDiffers /\ ~probesDiffer

\* The two cache leaks stay microarchitectural: they never show the secret
\* architecturally, so architectural-isolation alone would miss them.
LeaksStayInTheCache ==
  bug \in {"transient", "seeded-cache-leak"} /\ ~outside => ~archDiffers
=============================================================================
