------------------------------ MODULE Evidence ------------------------------
(***************************************************************************)
(* The evidence files of the BOOM experiments and the seals over them,     *)
(* while somebody may rebuild the simulator at any time.                   *)
(*   seeded: run_positive_control.py, which runs run_secure_matrix.py      *)
(*     twice and pairs the two files; run_attack_corpus.py;                *)
(*     seal_attack_corpus.py over both;                                    *)
(*   historical: run_historical_issue_715.py on the baseline and on the    *)
(*     repaired checkout, and seal_historical_issue_715.py.                *)
(* Each writes files under fixed names over those of an earlier run.       *)
(* A simulator stands for its SHA-256 and is a number, in the order of the *)
(* builds: a build that reproduces an earlier binary is not modelled.      *)
(***************************************************************************)
EXTENDS Naturals, Sequences

CONSTANTS
  None,       \* no file, no task
  Scenarios,  \* programs of a matrix
  Programs,   \* programs of the corpus
  MaxBuilds   \* bound on the simulators of a checkout

ASSUME EvidenceAssumption == {Scenarios, Programs, MaxBuilds} \subseteq Nat \ {0}

Repeats == (1..2) \X {0, 1}   \* REPEATS of both secrets
Sides == {"baseline", "repaired"}
Checkouts == {"pinned"} \cup Sides

VARIABLES
  campaign,   \* "seeded" or "historical"
  installed,  \* the simulator of each checkout
  driver,     \* run_positive_control.py: "idle", the matrix it waits for, or "pairing"
  task,       \* the matrix, corpus or historical run that is executing
  files       \* what the last writer left under each name

vars == <<campaign, installed, driver, task, files>>

Matrices == {"mutated", "fixed"}
Checkout(name) == IF name \in Sides THEN name ELSE "pinned"
Batches(name) ==
  CASE name \in Matrices -> Scenarios
    [] name = "corpus" -> 2 * Programs
    [] name \in Sides -> 4

\* Of a batch: the hash its responses name, the oldest simulator that in truth
\* made one of its observations, and what classify says of them.
Statuses == {"clean", "violation", "inconclusive"}
Batch == [simulator : 1..MaxBuilds, oldest : 1..MaxBuilds, status : Statuses \cup {None}]
Evidences(name) ==
  [simulator : 1..MaxBuilds, batches : [1..Batches(name) -> Batch], status : Statuses]

TypeOK ==
  /\ campaign \in {"seeded", "historical"}
  /\ installed \in [Checkouts -> 1..MaxBuilds]
  /\ driver \in {"idle", "pairing"} \cup Matrices
  /\ task # None =>
       /\ task.name \in Matrices \cup {"corpus"} \cup Sides
       /\ task.since \in 0..MaxBuilds
       /\ Len(task.batches) <= Batches(task.name)
       /\ driver \in Matrices => task.name = driver
  /\ \A name \in Matrices \cup {"corpus"} \cup Sides :
       files[name] \in Evidences(name) \cup {None}
  /\ files.build \in [Sides -> 1..MaxBuilds]

Init ==
  /\ campaign \in {"seeded", "historical"}
  /\ installed = [c \in Checkouts |-> 1]
  /\ driver = "idle" /\ task = None
  /\ files = [mutated |-> None, fixed |-> None, control |-> None, corpus |-> None,
              seal |-> None, baseline |-> None, repaired |-> None,
              build |-> [s \in Sides |-> 1]]

-----------------------------------------------------------------------------
(* The checkouts                                                           *)

\* With build_historical_issue_715.sh, which documents the build, or with make.
Rebuild(checkout, documented) ==
  /\ installed[checkout] < MaxBuilds
  /\ installed' = [installed EXCEPT ![checkout] = @ + 1]
  /\ files' = IF documented THEN [files EXCEPT !.build[checkout] = installed'[checkout]] ELSE files
  /\ UNCHANGED <<campaign, driver, task>>

Rebuilds ==
  \/ campaign = "seeded" /\ Rebuild("pinned", FALSE)
  \/ campaign = "historical" /\ \E s \in Sides, documented \in BOOLEAN : Rebuild(s, documented)

-----------------------------------------------------------------------------
(* Requests to the runner                                                  *)

\* classify, of the probe each request reports; the rest of an observation is
\* the same for every request that completes.
Classify(probe) ==
  IF \E s \in {0, 1} : probe[<<1, s>>] # probe[<<2, s>>] THEN "inconclusive"
  ELSE IF probe[<<1, 0>>] # probe[<<1, 1>>] THEN "violation" ELSE "clean"
Verdicts == {Classify(probe) : probe \in [Repeats -> {0, 1}]}

\* The four requests of a historical run are batches of one, classified at its end.
VerdictsOfBatch(name) == IF name \in Sides THEN {None} ELSE Verdicts

Start(name) == task' = [name |-> name, since |-> 0, batches |-> <<>>]
Over(next) == task' = None /\ driver' = next
UnfinishedOrFull == task # None /\ Len(task.batches) <= Batches(task.name)
Unfinished == task # None /\ Len(task.batches) < Batches(task.name)
Finished(names) == task # None /\ task.name \in names /\ ~Unfinished

SendBatch ==
  /\ Unfinished /\ task.since = 0
  /\ task' = [task EXCEPT !.since = installed[Checkout(task.name)]]
  /\ UNCHANGED <<campaign, installed, driver, files>>

\* A response names the simulator its runner found after it had run one.
ReceiveBatch ==
  /\ Unfinished /\ task.since # 0
  /\ \E hash \in task.since..installed[Checkout(task.name)], status \in VerdictsOfBatch(task.name) :
       \E oldest \in task.since..hash :
         task' = [task EXCEPT !.since = 0, !.batches = Append(@,
                    [simulator |-> hash, oldest |-> oldest, status |-> status])]
  /\ UNCHANGED <<campaign, installed, driver, files>>

\* A runner fails, or the responses of a batch name two simulators: exit status 2.
BatchFails ==
  /\ Unfinished /\ task.since # 0
  /\ Over("idle") /\ UNCHANGED <<campaign, installed, files>>

\* The thread pool cannot start a thread: a traceback, and exit status 1.
MatrixRaises ==
  /\ driver \in Matrices /\ Unfinished
  /\ Over(IF driver = "mutated" THEN "fixed" ELSE "idle")
  /\ UNCHANGED <<campaign, installed, files>>

\* Everything but the files is lost.
Crash == task # None /\ Over("idle") /\ UNCHANGED <<campaign, installed, files>>

-----------------------------------------------------------------------------
(* The seeded campaign                                                     *)

Simulators(batches) == {batches[i].simulator : i \in DOMAIN batches}
LastIsInstalled(batches, current) == batches[Len(batches)].simulator = current
AllAreInstalled(batches, current) == Simulators(batches) = {current}

StatusOf(batches) ==
  IF \A i \in DOMAIN batches : batches[i].status = "clean" THEN "clean"
  ELSE IF \A i \in DOMAIN batches : batches[i].status = "violation" THEN "violation"
  ELSE "inconclusive"

File(batches) ==
  [simulator |-> installed.pinned, batches |-> batches, status |-> StatusOf(batches)]

StartControl ==
  /\ campaign = "seeded" /\ driver = "idle" /\ task = None
  /\ driver' = "mutated" /\ Start("mutated")
  /\ UNCHANGED <<campaign, installed, files>>

StartSecondMatrix ==
  /\ driver = "fixed" /\ task = None
  /\ Start("fixed") /\ UNCHANGED <<campaign, installed, driver, files>>

\* The end of run_secure_matrix.py, and run_matrix reading its exit status: 0 if
\* all is clean, 1 otherwise, 2 on an error.
MatrixEnds ==
  /\ Finished(Matrices)
  /\ LET good == AllAreInstalled(task.batches, installed.pinned)
         clean == StatusOf(task.batches) = "clean" IN
     /\ files' = IF good THEN [files EXCEPT ![task.name] = File(task.batches)] ELSE files
     /\ Over(CASE good /\ driver = "mutated" /\ ~clean -> "fixed"
               [] good /\ driver = "fixed" /\ clean -> "pairing"
               [] OTHER -> "idle")
  /\ UNCHANGED <<campaign, installed>>

ByExitStatus(before, after) == TRUE
SameRun(before, after) ==
  before.simulator = after.simulator /\ before.status = "violation" /\ after.status = "clean"
Validated(before, after) == before # None /\ after # None /\ SameRun(before, after)

Pair ==
  /\ driver = "pairing"
  /\ driver' = "idle"
  /\ files' = IF Validated(files.mutated, files.fixed)
              THEN [files EXCEPT !.control = [mutated |-> files.mutated, fixed |-> files.fixed,
                                              simulator |-> files.mutated.simulator]]
              ELSE files
  /\ UNCHANGED <<campaign, installed, task>>

StartCorpus ==
  /\ campaign = "seeded" /\ driver = "idle" /\ task = None
  /\ Start("corpus") /\ UNCHANGED <<campaign, installed, driver, files>>

\* Each program is tried with the seeded variant, then with the repaired one.
DetectedAndRepaired(batches) ==
  \A i \in DOMAIN batches : batches[i].status = IF i % 2 = 1 THEN "violation" ELSE "clean"

CorpusEnds ==
  /\ Finished({"corpus"})
  /\ files' = IF AllAreInstalled(task.batches, installed.pinned) /\ DetectedAndRepaired(task.batches)
              THEN [files EXCEPT !.corpus = File(task.batches)] ELSE files
  /\ Over("idle") /\ UNCHANGED <<campaign, installed>>

Sealable(corpus, control) ==
  corpus # None /\ control # None /\ corpus.simulator = control.simulator

\* The report of the agent loop, which must name the simulator too, is not modelled.
SealCorpus ==
  /\ campaign = "seeded" /\ driver = "idle" /\ task = None
  /\ Sealable(files.corpus, files.control)
  /\ files' = [files EXCEPT !.seal = [corpus |-> files.corpus, control |-> files.control]]
  /\ UNCHANGED <<campaign, installed, driver, task>>

-----------------------------------------------------------------------------
(* The historical campaign                                                 *)

StartHistorical(s) ==
  /\ campaign = "historical" /\ task = None
  /\ Start(s) /\ UNCHANGED <<campaign, installed, driver, files>>

\* This matrix compares no hashes and names no simulator of its own.
HistoricalEnds ==
  /\ Finished(Sides)
  /\ \E status \in Verdicts :
       files' = [files EXCEPT ![task.name] =
                   [simulator |-> task.batches[1].simulator, batches |-> task.batches,
                    status |-> status]]
  /\ Over("idle") /\ UNCHANGED <<campaign, installed>>

FirstMatches(evidence, build) == evidence.simulator = build
RunsMatch(evidence, build) == Simulators(evidence.batches) = {build}

SealHistorical ==
  /\ campaign = "historical" /\ task = None
  /\ \A s \in Sides : files[s] # None /\ RunsMatch(files[s], files.build[s])
  /\ files.baseline.status = "violation" /\ files.repaired.status = "clean"
  /\ files' = [files EXCEPT !.seal = [baseline |-> files.baseline, repaired |-> files.repaired,
                                      build |-> files.build]]
  /\ UNCHANGED <<campaign, installed, driver, task>>

Next ==
  \/ Rebuilds \/ SendBatch \/ ReceiveBatch \/ BatchFails \/ MatrixRaises \/ Crash
  \/ StartControl \/ StartSecondMatrix \/ MatrixEnds \/ Pair
  \/ StartCorpus \/ CorpusEnds \/ SealCorpus
  \/ (\E s \in Sides : StartHistorical(s)) \/ HistoricalEnds \/ SealHistorical

Spec == Init /\ [][Next]_vars

-----------------------------------------------------------------------------
(* Properties.  The hash of a response is read after its run, so the first *)
(* batch may come from a simulator that was replaced meanwhile; no later   *)
(* one can, although nothing is locked.                                    *)

MadeBy(evidence, simulator) ==
  /\ Simulators(evidence.batches) = {simulator}
  /\ \A i \in 2..Len(evidence.batches) : evidence.batches[i].oldest = simulator

\* The positive control pairs a violation in every scenario with a clean repair of the
\* same simulator, even when a matrix died with the exit status of a violation and left
\* the file of an earlier control (run_positive_control.py:47 and 64-81).
ControlPairsOneSimulator ==
  files.control # None =>
    /\ files.control.mutated.status = "violation" /\ files.control.fixed.status = "clean"
    /\ \A name \in Matrices : MadeBy(files.control[name], files.control.simulator)

\* A sealed corpus and the control it is sealed with observed one simulator, the one
\* their files name, in every batch after the first (seal_attack_corpus.py:49-51,
\* run_attack_corpus.py:138-140 and 186-195, run_secure_matrix.py:174-194).
SealBindsOneSimulator ==
  campaign = "seeded" /\ files.seal # None =>
    /\ MadeBy(files.seal.corpus, files.seal.control.simulator)
    /\ \A name \in Matrices : MadeBy(files.seal.control[name], files.seal.control.simulator)

\* A repair is sealed as validated only if the documented build of the baseline
\* violates and the documented build of the repair is clean
\* (seal_historical_issue_715.py:59-63, 81-89 and 124-138).
ValidatedRepairIsDocumented ==
  campaign = "historical" /\ files.seal # None =>
    /\ \A s \in Sides : MadeBy(files.seal[s], files.seal.build[s])
    /\ files.seal.baseline.status = "violation" /\ files.seal.repaired.status = "clean"
=============================================================================
