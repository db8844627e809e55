# SpecHunter in TLA+

SpecHunter looks for secret-dependent behaviour of processors. It proposes short
programs (by rule, at random, or by a language model), executes each of them several
times in two worlds that differ in one secret bit, calls a difference a violation,
reduces the program to a small witness, asks for a repair and attacks the repair again.
Its claims are only as good as its bookkeeping: which verdict belongs to which variant,
what was retested after which repair, which simulator produced an observation, what a
model call may have cost. This directory models that bookkeeping, checks it with TLC and
proves the central parts with TLAPS.

All paths below are relative to the repository. Library sources are in
`src/spechunter/`, abbreviated to their file names.

## The system

| Component | State it keeps | Operations | Modules |
|---|---|---|---|
| Agent repair loop (`agent_loop.py`) | cycle and attempt, active variant, repair round, verdict flags, pending retest, repaired witness, findings, transcript | recon, attack or exhaust, validate, minimize, revalidate, repair, end of cycle | `AgentLoop`, `RepairAcceptance`, `MCAgentLoop` |
| Fixture (`backends.py` `model`, `rtl/fixture.sv`, `domain.py`) | machine state of the toy processor, in Python and in Verilog | one step per operation | `Fixture`, `FixtureLockstep` |
| Validation on BOOM (`loop.py` `validate`, `backends.py` `execute_many`, `_boom`) | threads and futures, pinned simulator hashes, their lock | submit, execute, check the hash, collect in order, judge | `Validation`, `MCValidation` |
| Minimization (`loop.py` `minimize`) | current program, scan position | try a deletion, restart | `Minimize` |
| Offline experiment (`loop.py` `experiment`, `attack`, `repair`) | results, attempts, metrics | attack, validate, minimize, revalidate, repair, sum up | `Experiment` |
| Cost ledger and paid calls (`costs.py`, `agents.py` `_generate`) | JSON file, lock file, call counter | reserve, request, retry, settle | `CostLedger`, `AtomicLedger` |
| Agent provider (`agents.py`) | the client | recon, attack, repair decisions | nondeterminism of `AgentLoop` |
| Process execution (`process.py` `run`) | one child process group, two output files, a deadline | start, check the size, poll, kill, read | `BoomRequest` |
| GCP transport (`tools/boom/gcp_runner.py`) | a remote request file | upload, execute, remove | `BoomRequest` |
| Trusted runner (`tools/boom/trusted_runner.py`, `historical_issue_715_runner.py`) | files of one request; it reads a checkout, its simulator and a build manifest | gate, install check, build check, compile, Spike, BOOM, hash | `TrustedRunner`, `Candidate` |
| Build scripts (`build_repair_variant.sh`, `build_historical_issue_715.sh`) | the checkout, the build manifest | check or patch, make, document | `TrustedRunner`, `Evidence` |
| Matrices, positive control, corpus (`run_secure_matrix.py`, `run_positive_control.py`, `run_attack_corpus.py`, `run_historical_issue_715.py`) | evidence files under fixed names | run batches, classify, publish, pair | `Evidence`, `MCCampaigns` |
| Seals of the corpus and of issue 715 (`seal_attack_corpus.py`, `seal_historical_issue_715.py`) | a seal file | compare files, seal | `Evidence`, `MCCampaigns` |
| VCD scanner (`scan_issue_715_vcd.py`) | the signals' values, lists of events | one cycle after another; three flags at the end | `Witness`, `MCWitness`, `MCCampaigns` |
| Other seals, evaluation, CHIA nodes, attachment tools, CLI, presentation | files | sequential | not modelled, see the end |

### Interactions

    cli / chia_nodes
       |                                   file, flock
       v            decisions                   |
    agent_experiment ----------> AgentProvider -+-> CostLedger <- other processes
       |  per benchmark
       v
    _run_benchmark --validate--> Backend.execute_many --threads--> process.run
       |      \--minimize--> validate       \-> pinned hashes         | process group
       v                                        (lock)                v
    report                                                       gcp_runner.py
       |                                                              | scp, ssh
       |        matrices, control, corpus --subprocess--+             v
       |                 |                              +---> trusted_runner.py
       v                 v                                     |  reads
      seals <----- evidence files                              v
                                        checkout, simulator, build manifest
                                                  ^
                                        build scripts, a developer

The loop is sequential. Concurrency is in four places: the executions of one validation
on BOOM, which share the pinned hashes of the `Backend`; the processes that share one
ledger file; a request, whose caller, transport and remote runner go on without each
other; and the checkout, which somebody may edit and rebuild while any of this runs.
Nothing locks the checkout. Failure is everywhere: executions fail, time out, are flaky or
come from a rebuilt simulator; a provider raises; a request fails with an unknown billing
status; a connection is lost; a process dies holding a lock or between two files.

### What makes each part correct

* Agent loop: a repair is verified only with the evidence for that very repair, gathered
  in the right order and not contradicted later; on BOOM only the trusted repair counts;
  every finding is repaired or ends the benchmark; the loop ends.
* Fixture: the two implementations agree; the secret does not reach control; secure
  variants leak nothing within the threat model.
* Validation: a conclusive verdict is of one simulator, of equal repetitions, and true;
  nothing keeps running after a failure; pins do not change.
* Minimization: a 1-minimal witness, in bounded time.
* Experiment: the report's counts are what happened.
* Ledger: no reservation is lost, the budget holds, whatever may have been billed is
  accounted for, nobody waits for ever.
* Request: `run` ends, with the whole answer of a runner that answered or with an error,
  and leaves no process; without a fault nothing stays on the worker.
* Runner: an answer is of the simulator it names, and that one was built from the
  reviewed source; the reported fault and probe are what the cores showed.
* Evidence: what is paired or sealed was observed on one simulator, the documented one,
  whatever files earlier runs have left.
* Scanner: an event is attributed to the load it belongs to, and what happens after the
  branch was resolved changes no verdict.

`PROJECT.json` lists, under `hazards`, each place in the code where one of these could
fail in a way a test hardly reaches, and the property that would show it.

## Modules

**`Fixture`** holds pure operators. `Step` is one iteration of the loop of `model`,
`RtlStep` one iteration of the `case` in `fixture.sv`, with registers as bits and
operations as the codes of `OP_CODES`. `Architectural`, `Probes`, `Events` and
`RtlObserved` are what an operation appends to the observation or prints. `States` is the
`for` of `model` over the operations, one state for each prefix, and `Run` the last of them.
`Verdict`, `OutsideUser` are `validate` on a backend that always answers;
`RelevantChallenge` and `WithoutNops` are the two judgements of `agent_loop.py:11-44`.

**`FixtureLockstep`** executes the two machines side by side in both worlds, one
operation at a time, remembering whether the program left the threat model (`outside`)
and whether the worlds were told apart (`archDiffers`, `probesDiffer`). Its state is
finite although programs are not bounded: TLC's result and the theorems are about
programs of any length.

**`AgentLoop`** is `_run_benchmark`. `pc` names the place in the loop; each action is a
piece of code between two calls of the provider or backend: `Recon` (lines 65-74),
`Attack` (75-91), `Exhausted` (92-112), the outcomes of `validate` (`Inconclusive`,
`CleanForRepair`, `CleanUnrepaired`, `Violation`: 114-153), `NotReproduced`,
`FindingAtLimit`, `FindingToRepair` (154-181), `Repair` (182-220), `EndCycle` (221-224),
`AttemptsSpent` (the `for` is done), `ProviderRaises` (an exception leaves the function).
The transcript is reduced to what the code and the properties read of it: `last` is what
lines 221-223 read of `transcript[-1]`, `log` holds the conclusive validator events since
the last repair. `log` is not read by any action: it is the evidence the flags are
compared with. Programs are abstract: constants give their essence without NOPs, their
relevance, their possible reductions and the answers `validate` may give for each
variant. `MCAgentLoop` computes these constants from `Fixture` for five real programs:
the witness of the benchmark, the witness padded with a NOP, a different relevant program,
a probed load (irrelevant for transient-cache), and one outside the threat model.

**`RepairAcceptance`** is the abstract specification of the loop: five stages of a patch,
without cycles, attempts or programs. `AgentLoop!ImplementsAcceptance` maps the flags to
the stages.

**`Validation`** is one `Backend` and the validations it serves. A request is queued,
taken by one of four workers, answered or failed, checked against the pin under
`_boom_provenance_lock` (`ReadPin`, then `Pin` or `Changed`), parsed. The caller collects
results in request order; the first failure cancels what is queued, and leaving the
executor joins what runs (`AwaitFailed`, `Abandon`). `Conclude` is `loop.py:35-54`. What a
simulator shows is the constant `Output`; `Rebuild` changes the installed simulator at
any time. `firstPin` is the hash that `provenance` reports.

**`Candidate`** holds pure operators on a program: the gate of `validate_request`
(`Acceptable`), which operations the trap handler of the rendered ELF skips (`Skipped`),
the exit word of a core that raises some cause at the load and measures some probe
(`ExitWord`), and the observation the runner makes of it. `LoadedFrom` follows the loop of
the issue-715 program and shows which pages its architectural path loads from: never the
protected one.

**`Minimize`** is the life of a program: proposed an operation at a time, then, if it
violates, reduced by the deletion scan with its restart; `Reliable = FALSE` lets any
deletion be inconclusive. The judgements of `Fixture` and `Candidate` are checked on every
proposed program. **`Experiment`** is `experiment` for all benchmarks in order;
on the model backend answers are those of `Fixture`, on BOOM they are arbitrary.

**`CostLedger`** is the ledger file with the processes that use it. Locking and reading is
one step, the rewrite and unlocking another, so what a process read can be stale if the
lock fails. A call is `Begin` (limit and estimate), `Reserve` or `Refuse`, `Answer`,
`Retry` or `RequestFails`, `Settle`. A write can fail before `os.replace`
(`ReserveWriteFails`, `SettleWriteFails`), a process can die anywhere (`Crash`) and be
started again with a fresh call counter (`Restart`). `billed` is what the service charged,
which the code never sees. **`AtomicLedger`** is the abstract specification: a set of
entries, reserved and settled atomically.

**`TrustedRunner`** is `main` of the two runners, one action per check, and beside it the
checkout: `Edit`, `Make`, `Clean`, and the build scripts in two steps (`RunScript` checks
the source and installs a build, `WriteManifest` documents it; `ScriptDies` between them).
A simulator is a number in the order of the builds and stands for its SHA-256. A step that
may fail for reasons outside (git, gcc, a time-out) may always fail. `checked`, `ranOn` and
`answer` are the simulator at the three moments at which the code opens it. `QuietSpec`
leaves the checkout alone while the runner runs.

**`BoomRequest`** composes it with `process.run` (`Popen`, `CheckSize`, `Poll`, `Kill`,
`ReadOutput`) and `gcp_runner.py` (`Upload`, `RunnerEnds` or `ConnectionLost`, `CleanUp`).
Every step of one process may fall between two steps of another: that is the composition.
Output is counted in blocks; `strays` are children that a timed-out `gcloud` leaves in the
process group; `fault` records that the network, the worker or the deadline interfered.

**`Evidence`** is a campaign on one kind of checkout. A `task` is the script that is
executing: batches of four requests are sent and received (`SendBatch`, `ReceiveBatch`), a
response naming some simulator that was installed between the two, and for a batch the
oldest simulator that in truth made one of its observations is kept for the properties. `files` are
what is on disk; a crash loses everything else, and an earlier run's files stay. The seeded
campaign has the positive control with its two matrices, read by exit status, the corpus,
and the seal over both; the historical campaign has the matrices of two checkouts, the
builds' evidence, and the seal over all four.

**`Witness`** is the scanner reading a trace. The core is a list of loads that are given
registers, queue slots and reorder-buffer entries again and again; each cycle is one
event, and `seen` is what `scan` has appended to its lists. `WitnessFlags`,
`DependentDispatches`, `DependentRequests` are the functions at the end of the scan, as
operators on `seen`, so that their value is known after every prefix of the trace.

**`MCCampaigns`** gives a behaviour one of the three (seeded, historical, trace): they share
no state.

## Runs

| Run | Module and bounds | Shows |
|---|---|---|
| `agentloop` | BOOM, five programs, 2 cycles, 3 attempts, 2 repairs; any answer every time, so contradictory answers to one program too | flags have their reasons in the transcript, findings and repairs in step, verdicts are justified and only for the trusted repair; refinement of `RepairAcceptance`; termination |
| `fixture_lockstep` | complete: 6 variants, 2 worlds, programs of any length | the backends agree; isolation of the secure variants |
| `programs` | `Minimize`: all programs of up to 6 of 7 operations, a reliable backend | relevance says of a program what its execution says; the runner's fault and probe reports are true; 1-minimality and cost of `minimize` |
| `minimize_flaky` | the same up to 4, unreliable backend | violated: see the findings |
| `cost_ledger` | 2 processes, 2 runs of 1 call each, 1 retry, budget of 4 units | refinement of `AtomicLedger`, budget, progress of lock waiters, across retries, crashes and restarts |
| `cost_ledger_ambiguous` | the same with a budget of 2 | violated: see the findings |
| `validation` | 2 validations of 4 requests, 2 variants, 2 simulators, 1 rebuild | one simulator, true verdicts, pins, joins, progress |
| `experiment` | 4 benchmarks, 2 iterations, random programs of 2 operations, fixture and BOOM | repairs and metrics are what happened |
| `boom_request` | both runners, both sides of the repair, 4 changes to the checkout, an output limit of 2 blocks | whole answers of reviewed builds, nothing left behind, `run` ends; the inductive invariant of the proofs |
| `stale_build` | `QuietSpec`, 4 changes | violated: see the findings |
| `campaigns` | 2 scenarios, 1 corpus program (2 batches), 2 builds of each checkout; 3 cores of 3 loads, 7 cycles | pairs and seals bind one simulator; requests are attributed to their loads, verdicts settle |
| `witness_late` | the same cores, 9 cycles | violated: see the findings |

The bounds. *Agent loop*: three attempts still reach a verified repair with the last one,
since a retest and a finding can fall in different cycles; two cycles let a verdict become
stale; two repairs let a repair be broken and repaired. On BOOM the programs differ only in
the judgements of the loop, so five cover relevant and irrelevant, equal up to NOPs, and
outside the threat model. *Programs*: the shortest transient leak has five operations, so
six leave room for one that is superfluous or destroys it, and every order of load, squash,
encode and probe occurs. *Ledger*: two processes suffice for every interleaving of two
read-modify-write cycles; a budget of four units is exceeded by three of the four calls
that can be reserved. *Validation*: two repetitions are what the code asks for; the second
validation meets the pins of the first; one rebuild can fall between any two steps.
*Experiment*: every random program of two operations, the shortest length the code draws, and the
guided programs. *Request*: four changes are an edit or a build before the request, a
documented build (two changes), and one more in the middle of it; two blocks tell an answer that fits from
one that fits only without the message on stderr. *Campaigns*: two builds put one rebuild
between any two steps; two scenarios are what the control has; the corpus has two batches
per program, and a second program adds more of the same. *Trace*: the three cores reuse
the source's register and entry, the sink's register and slot in another entry, and both;
seven cycles are the fetch of branch and gadget, two dispatches, two requests and a
misprediction, or the reuse of a slot instead of one of them; the violation of `witness_late`
needs one more request.

`CHECK_DEADLOCK FALSE` is set where the modelled function returns or a process has used
its calls.

### Fairness

`AgentLoop` has weak fairness of `Next`: one sequential thread whose calls return or raise. `process.run` kills a simulator at its deadline, so `validate` returns;
that a provider call returns is an assumption (`generate_content` has no timeout), and
`Terminates` depends on it. `Validation` has weak fairness per thread and for the caller,
for the same reason: a running request is answered or failed. Nothing is assumed of
`Validate` and `Rebuild`. `CostLedger` has weak fairness only of the steps at the ledger
(`Locked`): the kernel grants a free lock and the file system answers. A request may hang
for ever, a process may die or never call again. Weak fairness is enough for
`LockGranted` because the bounds on calls and runs make contention finite; `flock` itself
promises no order. `BoomRequest` has weak fairness of `Caller` and of `Deadline`: the poll
loop wakes every 10 ms and the monotonic clock goes on. Nothing is assumed of `gcloud`, the
worker or the network; `RunEnds` holds although they may do nothing at all.

## Findings

* `minimize_flaky`. The README and the docstring of `minimize` promise a 1-minimal
  witness. A deletion whose validation is inconclusive is treated like a clean one
  (`loop.py:90`), and a failed execution is exactly that. With a backend that always
  answers the promise holds (`programs`).
* `cost_ledger_ambiguous`. `docs/DEVELOPMENT.md` promises that unknown failures keep
  their reservation because they may be billed. When such a failure is retried and the retry
  succeeds, the call is settled with the usage of the last response alone
  (`agents.py:153-189`).
* `stale_build`. `docs/BOOM.md:159-161` says that a patched or stale build cannot be
  mislabelled as baseline evidence because the tree must be pristine. The runner checks the
  tree but, for every variant except the repairs, nothing about the build
  (`trusted_runner.py:472-473`): a simulator made from patched source, in a tree that was
  restored afterwards, answers as the baseline. Where a manifest is checked the promise holds
  (`CheckedAnswerIsReviewed`), up to a rebuild between check and answer that the hash shows.
* `witness_late`. `docs/BOOM.md:454-457` says that a request after the resolution cannot
  establish transient dataflow. It cannot be one of the two requests of the witness, but it
  can be the source that makes a dispatch dependent (`scan_issue_715_vcd.py:477-487` takes
  every protected request), and so turn the flag on for earlier ones. The code agrees with
  the document on `same_branch_mask_request_chain_witnessed` (`VerdictSettles`).

## Proofs

The theorems are in the `_proofs` modules, each for every value of the constants under
the `ASSUME` of its module. TLC checks the same formulas first, on the runs above.

* `AgentLoop_proofs`. The invariants the loop is judged by are not inductive: nothing in
  `verified` says that a replay was logged. `FlagsHaveReasons` is the strengthening.
  `Position` says what each `pc` guarantees (an exhausted attacker ends its cycle; no
  evidence while a violation is handled), `Verdicts` ties the flags to `log`, `Duties` the pending retest to the
  witness and to its replay, `ViolationsEnd` says that a logged violation is repaired or
  ends the benchmark, which is why no stale violation coexists with a new verdict.
  `TypeCorrect` and `FlagsCorrect` prove it inductive; `VerdictCorrect`, `ChallengeOrder`,
  `TrustedRepairOnly` and `FindingsCorrect` follow or need one more step;
  `LoopImplementsAcceptance` shows each action to be a step of `RepairAcceptance` or a
  stutter.
* `FixtureLockstep_proofs`. `BackendsAgree` is a simulation: `Represents` is preserved by
  each operation and determines what is displayed. `ControlTheorem` shows the two worlds to
  have equal control state. `SecureIsolation` and `CacheLeaksOnly` rest on `Isolation`: on
  a secure variant, within the threat model, neither the value nor the cache has ever seen
  the secret. Together: no program of any length leaks on a repaired fixture.
  A second part is about whole programs, as `Verdict` executes them: after every prefix the
  two worlds are `Twins` (`RunTwins`); on a secure variant they have shown `Alike`, so the
  verdict is clean (`SecureIsClean`); and once one probe tells them apart they stay apart
  (`SeededLeaks`, `TransientLeaks`), so a relevant challenge violates (`RelevantViolates`).
* `CostLedger_proofs`. `FileProtected` is the strengthening: what a process read under
  the lock is the file (`LockProtects`), identifiers are fresh and unique
  (`CallsNumbered`, `IdsUnique`, `IdsUsed`). From it follow `NothingLost` and
  `LedgerImplementsAtomic`, for any number of processes, retries and restarts. `BudgetKept`
  needs only the atomic ledger, and that the sum over a finite set does not depend on the
  order of summation (`SumAnyOrder`, by induction on the size of the set).
  `BilledWithoutRetries` is the other side of the finding `cost_ledger_ambiguous`: with
  `retries=0`, which the provider allows, the promise holds. Its invariant `Charges` says how
  far the charges of a call have got: none before its request, and afterwards no more than
  what it is settled with.
* `Validation_proofs`. The invariant says that who checks a pin holds the lock and has
  read the current pin (`Checked`), that accepted answers are of the pinned simulator
  (`Accepted`), and that the caller passes only finished requests and leaves none behind
  (`Awaited`). `OneSimulatorOnly`, `NothingLeft` and the action property
  `PinsNeverChange` follow, for any number of repetitions. `VerdictTrue` adds that each
  result is what the pinned simulator shows for its own request (`Told`) and that the verdict
  compares exactly these (`Compared`).
* `BoomRequest_proofs`. Two arguments. Of the runner: a manifest tells the truth about the
  build it names, builds are only appended, and `main` reads the installed simulator three
  times, so `checked <= ranOn <= answer` in the order of the builds (`HashesInOrder`). If the
  last equals the first, the middle one does too: the observation is of the checked simulator
  although nothing locked it. Of the request: `StagesAgree` says for each place of one
  process what the others must have done; for instance a caller that reads output has seen the
  transport exit, so the output no longer grows. `RequestTypeOK`, `HashesInOrder` and these
  conjuncts together are inductive. `RunnerAnswersReviewed` is the first argument alone;
  `StagesCorrect`, `GroupIsKilled`, `AnswersComplete`, `WorkerLeftClean` and
  `RequestAnswersReviewed` are of the composition, for any output limit and any number of
  changes to the checkout.
* `Minimize_proofs`. `Settled` says that no deletion left of the scan violates, but for the load the
  positive control keeps; on
  returning that is 1-minimality (`ReturnsOneMinimal`, which assumes `Reliable`: the run
  `minimize_flaky` shows that it fails otherwise). `Paid` weighs the validations so far
  against the operations deleted and the place of the scan; `CostIsQuadratic` follows,
  unreliable backends included. The other three are of every proposed program, whatever its
  length: `RelevantBreaks` from the lemmas on whole programs, `FaultReported` and
  `ProbeReported` from what the trap handler skips (`SkippedProbe`).
* `Experiment_proofs`. `ExperimentInv` joins the types with the place each `pc` has among
  benchmarks and results. `ClaimsHold` rests on `SecureIsClean`: the repaired variant of the
  fixture stops whatever program was found. `StopsCounted` adds that the metrics count the
  finished benchmarks (`Counted`). Deletions of a program are the subsequences of kept
  positions; that they are programs needs an element of every rank (`Ranked`).
* `Campaigns_proofs`. Of the evidence: `Typed`, `InTime` and `FilesMade`. A batch lies between
  two installed simulators and batches follow each other (`Ordered`), so equal hashes in all
  responses mean one simulator in every batch after the first (`OrderedByOne`); a published
  file keeps that fact, whichever run wrote it. `ControlPairsOne`, `SealBindsOne` and
  `ValidatedRepairDocumented` follow, for any number of scenarios, programs, builds and
  deaths. Of the scanner: events are `InThePast`, loads are `Numbered` in the order of their
  birth, the load in flight in a reorder-buffer entry is the last one born there
  (`LastInFlight`), and so is the load of every request listed (`LastRequests`).
  From it `DependentTheirs`, and the action property `VerdictsSettle`, for any cores and any
  number of cycles.

The prover has no induction with an operator for the predicate. Where data need induction,
the predicate is a set: a set of naturals with zero and all its successors is all of them
(`Upward`, `Onward`), for otherwise the predecessor function would map the finite set of
its gaps injectively into a smaller one, against the pigeonhole principle (`NoDescent`). For
the same reason `States` is one function on the prefixes of a program. `Total`, the deletions
and `Min` come from the community modules by a named `INSTANCE`, which keeps their names apart
from those of the proof library.

Assumptions beyond the constants' types: a request outside the threat model is always
inconclusive (`LoopAssumption`, which is `loop.py:20-24`); a program is a reduction of
itself; an answer costs at least one unit and at most the reservation; the cores of a trace
are sequences of loads (`WitnessAssumption`).

Model-checked only: the liveness properties (`Terminates`, `LockGranted`, `ValidationEnds`,
`RunEnds`), since the prover treats neither fairness nor ENABLED. The four findings are
counterexamples and come from TLC by nature. Every other property of a passing run is proved.

## Abstractions to know

* In `Validation` the runner's answer is one step: observation and hash are of the
  simulator installed then. The real runner hashes the binary after the run; what that
  allows is `TrustedRunner`'s and `Evidence`'s subject.
* A build that reproduces an earlier binary byte for byte is not modelled; with one, equal
  hashes would not imply an unchanged simulator in between, only an equal one at the ends.
* The first batch of a matrix may come from a simulator that was replaced during it, since
  its hash is read afterwards; the properties of `Evidence` claim nothing of the first batch.
  A file is assumed unchanged between two reads of it by one script
  (`run_positive_control.py:98-110` reads each matrix twice).
* `run_historical_issue_715.py` and the seals write their files in place; a file torn by a
  crash is not JSON and is refused by every reader.
* The seal of the corpus also requires the report of the agent loop to name the simulator,
  and the historical seal can be made without a repair; both are left out.
* In `Witness` one event happens per cycle and signals are defined from the start. The
  scanner keeps the last defined value of a signal when it becomes x or z.
* A reservation bounds what one request costs. The code reserves the bytes of the
  contents and the maximal output; the system instruction and the schema are not counted.
* uuid4 identifiers are distinct. `os.replace` is atomic; a torn ledger file does not occur.
* In `AgentLoop` an answer of `validate` is drawn afresh every time, from the set allowed
  for that program and variant; in the fixture configuration the inconclusive answer stands
  for a failing RTL simulation.
* `Experiment` and `AgentLoop` replace `minimize` by what `Minimize` shows of it: its
  argument, or a deletion that was seen to violate.
* On BOOM the trusted runner refuses the seeded fixture variants and some program shapes;
  the models of the loops allow any answer there (`Candidate` has the gate).
* `agent_experiment` (the sum over benchmarks), observation limits, digests, JSON and
  assembly text are left out.

## Not modelled

`agent_experiment` (the sum over benchmarks); the RTL backend's compilation, whose failure
is one more inconclusive answer; the attachment's runner, its download and the gadget
preparation (sequential checks of pinned files around one external command); issue events
and fast wake-ups of the scanner, which are only listed; the other seals and
`verify_evidence.py` (predicates on finished files); `evaluation.py` and
`evaluate_vertex_repeatability.py` (arithmetic on reports); `chia_nodes.py` (the framework
schedules); `cli.py` and `presentation.py` (input and output); bootstrap and smoke scripts,
paper and patches.

## Plan

Done, in this order: the agent loop, because its verdict is what the system is for; the
fixture it is tested on; minimization; the ledger; concurrent validation; the offline
experiment; the request from `process.run` to the runner; the evidence and its seals; the
scanner.

Proved since: every invariant and action property of the passing runs.

Next, by what they add:

1. `agent_experiment` over `AgentLoop`'s results, and the stage gate of
   `seal_chia_vertex_loop.py` against its transcripts.
2. Under which quiet checkout `BaselineIsPristineBuild` does hold, as `BilledWithoutRetries`
   and `ReturnsOneMinimal` say it of the other findings.
3. The RTL backend's cached binary, with its compilation that is never tried again.
