------------------------- MODULE BoomRequest_proofs -------------------------
(***************************************************************************)
(* For any number of changes to the checkout and any limit on the output:  *)
(* a checked answer is of the reviewed build, run returns whole answers of *)
(* a runner that answered, and nothing is left running or lying about.     *)
(***************************************************************************)
EXTENDS BoomRequest, TLAPS

USE RunnerAssumption, RequestAssumption DEF RunnerAssumption, RequestAssumption

RunnerInv == RunnerTypeOK /\ HashesInOrder

\* What may happen to the runner and the checkout, alone or within a request.
RunnerStep ==
  \/ StartRunner \/ (\E readable \in BOOLEAN : Main(readable)) \/ Developer
  \/ UNCHANGED runnerVars

-----------------------------------------------------------------------------
(* The checkout                                                            *)

\* An installed build is the next one, and the earlier ones stay what they were.
LEMMA InstallAppends ==
  ASSUME built \in Seq(Sources), NEW tree_ \in Sources, Install(tree_)
  PROVE  /\ built' \in Seq(Sources) /\ Len(built') = Len(built) + 1 /\ Len(built) \in Nat
         /\ simulator' = Len(built) + 1 /\ built'[Len(built) + 1] = tree_
         /\ \A n \in 1..Len(built) : built'[n] = built[n]
  BY DEF Install

\* A change to the checkout leaves main where it was.
LEMMA DeveloperLeavesMain ==
  ASSUME Developer
  PROVE  UNCHANGED <<request, progress>> /\ changes < MaxChanges /\ changes' = changes + 1
  BY DEF Developer, Edit, Make, Clean, RunScript, WriteManifest, ScriptDies, ByHand, Change

\* A build keeps what it was made from.
LEMMA BuildsKept ==
  ASSUME RunnerInv, Developer
  PROVE  /\ built' \in Seq(Sources) /\ Len(built) \in Nat
         /\ Len(built') \in {Len(built), Len(built) + 1}
         /\ \A n \in 1..Len(built) : built'[n] = built[n]
<1> USE DEF RunnerInv, RunnerTypeOK
<1>1. CASE Make
  BY <1>1, InstallAppends DEF Make
<1>2. CASE RunScript
  <2>1. source' \in Sources /\ Install(source')
    BY <1>2 DEF RunScript, Sources
  <2>2. QED
    BY <2>1, InstallAppends
<1>3. CASE UNCHANGED built
  BY <1>3
<1>4. QED
  BY <1>1, <1>2, <1>3 DEF Developer, Edit, Clean, WriteManifest, ScriptDies

LEMMA DeveloperKeepsTypes ==
  ASSUME RunnerInv, Developer
  PROVE  RunnerTypeOK'
<1> USE DEF RunnerInv, RunnerTypeOK, HashesInOrder, progress
<1>1. /\ UNCHANGED <<request, progress>>
      /\ changes < MaxChanges /\ changes' = changes + 1 /\ changes' \in 0..MaxChanges
  BY DeveloperLeavesMain
<1>2. /\ built' \in Seq(Sources) /\ Len(built) \in Nat /\ Len(built') \in Nat
      /\ Len(built) <= Len(built') /\ Len(built') <= changes'
  BY <1>1, BuildsKept
<1>3. {checked, ranOn, answer} \subseteq 0..Len(built')
  BY <1>2
<1>4. /\ source' \in Sources /\ script' \in {"none", "pristine", "patched"}
      /\ simulator' \in 0..Len(built') /\ manifest' \in Manifest \cup {None}
  <2>1. CASE Edit
    BY <2>1 DEF Edit, ByHand
  <2>2. CASE Make
    BY <2>2, InstallAppends DEF Make, ByHand
  <2>3. CASE Clean
    BY <2>3 DEF Clean, ByHand
  <2>4. CASE RunScript
    <3>1. source' \in Sources /\ Install(source')
      BY <2>4 DEF RunScript, Sources
    <3>2. simulator' \in 0..Len(built')
      BY <3>1, InstallAppends
    <3>3. QED
      BY <2>4, <3>1, <3>2 DEF RunScript, Lsu
  <2>5. CASE WriteManifest
    <3>1. [lsu |-> script, simulator |-> simulator] \in Manifest
      BY <2>5, <1>2 DEF WriteManifest, Manifest, Builds
    <3>2. QED
      BY <2>5, <3>1 DEF WriteManifest
  <2>6. CASE ScriptDies
    BY <2>6 DEF ScriptDies
  <2>7. QED
    BY <2>1, <2>2, <2>3, <2>4, <2>5, <2>6 DEF Developer
<1>5. QED
  BY <1>1, <1>2, <1>3, <1>4

\* A manifest names a build of the source its script compiled, whoever builds next.
LEMMA DeveloperKeepsOrder ==
  ASSUME RunnerInv, Developer
  PROVE  HashesInOrder'
<1> USE DEF RunnerInv, RunnerTypeOK, HashesInOrder, progress, Answered
<1>1. UNCHANGED <<request, progress>> /\ changes' = changes + 1
  BY DeveloperLeavesMain
<1>2. /\ Len(built) \in Nat /\ Len(built') \in {Len(built), Len(built) + 1}
      /\ \A n \in 1..Len(built) : built'[n] = built[n]
  BY BuildsKept
<1>3. checked # 0 => MadeFrom(checked, request.side)'
  BY <1>1, <1>2 DEF MadeFrom
<1>4. manifest # None /\ UNCHANGED manifest =>
        manifest'.simulator \in 1..Len(built') /\ MadeFrom(manifest.simulator, manifest.lsu)'
  BY <1>1, <1>2 DEF MadeFrom
<1>5. /\ simulator' \in {0, Len(built')}
      /\ script' # "none" => simulator' # 0 /\ MadeFrom(simulator, script)'
      /\ manifest' # None => /\ manifest'.simulator \in 1..Len(built')
                             /\ MadeFrom(manifest.simulator, manifest.lsu)'
  <2>1. CASE Edit
    BY <1>4, <2>1 DEF Edit, ByHand
  <2>2. CASE Make
    BY <1>4, <2>2, InstallAppends DEF Make, ByHand
  <2>3. CASE Clean
    BY <1>4, <2>3 DEF Clean, ByHand
  <2>4. CASE ScriptDies
    BY <1>4, <2>4 DEF ScriptDies
  <2>5. CASE RunScript
    <3>1. source' \in Sources /\ Install(source')
      BY <2>5 DEF RunScript, Sources
    <3>2. simulator' = Len(built') /\ simulator' # 0 /\ built'[simulator'] = source'
      BY <3>1, InstallAppends
    <3>3. MadeFrom(simulator, script)'
      BY <1>1, <2>5, <3>2 DEF RunScript, MadeFrom, Lsu
    <3>4. manifest' = None \/ UNCHANGED manifest
      BY <2>5 DEF RunScript
    <3>5. QED
      BY <1>4, <3>2, <3>3, <3>4
  <2>6. CASE WriteManifest
    <3>1. /\ simulator # 0 /\ MadeFrom(simulator, script)
          /\ UNCHANGED <<built, simulator>> /\ script' = "none"
          /\ manifest' = [lsu |-> script, simulator |-> simulator]
      BY <2>6 DEF WriteManifest
    <3>2. simulator \in 1..Len(built)
      BY <1>2, <3>1
    <3>3. manifest'.lsu = script /\ manifest'.simulator = simulator
      BY <3>1
    <3>4. MadeFrom(manifest.simulator, manifest.lsu)'
      BY <1>1, <3>1, <3>3 DEF MadeFrom
    <3>5. QED
      BY <3>1, <3>2, <3>3, <3>4
  <2>7. QED
    BY <2>1, <2>2, <2>3, <2>4, <2>5, <2>6 DEF Developer
<1>6. Len(built') <= changes'
  <2>1. CASE Len(built') = Len(built)
    BY <1>1, <1>2, <2>1
  <2>2. QED
    BY <1>1, <1>2, <2>1
<1>7. QED
  BY <1>1, <1>3, <1>5, <1>6

-----------------------------------------------------------------------------
(* main                                                                    *)

LEMMA MainKeepsTypes ==
  ASSUME RunnerInv, NEW readable \in BOOLEAN, Main(readable) \/ StartRunner
  PROVE  RunnerTypeOK'
<1>1. UNCHANGED <<request, tree>> /\ runner' \in Steps
  BY DEF Main, StartRunner, ReadRequest, ValidateInstall, FindSimulator, ValidateBuild, Compile,
     Spike, StartBoom, Observe, Bind, From, Steps
<1>2. {checked, ranOn, answer}' \subseteq {checked, ranOn, answer, simulator, 0}
  BY DEF Main, StartRunner, ReadRequest, ValidateInstall, FindSimulator, ValidateBuild, Compile,
     Spike, StartBoom, Observe, Bind
<1>3. {checked, ranOn, answer, simulator, 0} \subseteq 0..Len(built)
  BY DEF RunnerInv, RunnerTypeOK
<1>4. QED
  BY <1>1, <1>2, <1>3 DEF RunnerInv, RunnerTypeOK, tree

\* main reads the simulator three times, and in between it can only become a later one.
LEMMA MainKeepsOrder ==
  ASSUME RunnerInv, NEW readable \in BOOLEAN, Main(readable) \/ StartRunner
  PROVE  HashesInOrder'
<1> USE DEF RunnerInv, RunnerTypeOK, HashesInOrder, Answered, tree, From, Steps
<1>1. Len(built) \in Nat /\ {checked, ranOn, answer, simulator} \subseteq 0..Len(built)
  OBVIOUS
<1>2. UNCHANGED <<request, tree>>
  BY DEF Main, StartRunner, ReadRequest, ValidateInstall, FindSimulator, ValidateBuild, Compile,
     Spike, StartBoom, Observe, Bind
<1>3. \A n, lsu : MadeFrom(n, lsu)' = MadeFrom(n, lsu)
  BY <1>2 DEF MadeFrom
<1>4. checked' # 0 => MadeFrom(checked', request.side)
  <2>1. CASE ValidateBuild /\ checked' # 0
    <3>1. /\ manifest # None /\ manifest.lsu = request.side /\ manifest.simulator = simulator
          /\ checked' = simulator
      BY <2>1 DEF ValidateBuild, DescribesSimulator
    <3>2. QED
      BY <3>1
  <2>2. CASE UNCHANGED checked
    BY <2>2
  <2>3. QED
    BY <2>1, <2>2 DEF Main, StartRunner, ReadRequest, ValidateInstall, FindSimulator,
       ValidateBuild, Compile, Spike, StartBoom, Observe, Bind
<1>5. runner' \in {"observing", "bind", "answered"} => ranOn' # 0 /\ checked' <= ranOn'
  <2>1. CASE StartBoom
    BY <1>1, <2>1 DEF StartBoom, Passes
  <2>2. CASE Observe \/ Bind
    BY <2>2 DEF Observe, Bind
  <2>3. QED
    BY <2>1, <2>2 DEF Main, StartRunner, ReadRequest, ValidateInstall, FindSimulator,
       ValidateBuild, Compile, Spike
<1>6. runner' = "answered" => ranOn' <= answer'
  <2>1. CASE Bind
    BY <1>1, <2>1 DEF Bind, Passes
  <2>2. QED
    BY <2>1 DEF Main, StartRunner, ReadRequest, ValidateInstall, FindSimulator,
       ValidateBuild, Compile, Spike, StartBoom, Observe
<1>7. QED
  BY <1>2, <1>3, <1>4, <1>5, <1>6

LEMMA RunnerInvPreserved ==
  ASSUME RunnerInv, RunnerStep
  PROVE  RunnerInv'
<1>1. CASE Developer
  BY <1>1, DeveloperKeepsTypes, DeveloperKeepsOrder DEF RunnerInv
<1>2. ASSUME NEW readable \in BOOLEAN, Main(readable) \/ StartRunner PROVE RunnerInv'
  BY <1>2, MainKeepsTypes, MainKeepsOrder DEF RunnerInv
<1>3. CASE UNCHANGED runnerVars
  BY <1>3 DEF RunnerInv, RunnerTypeOK, HashesInOrder, MadeFrom, Answered, runnerVars, tree, progress
<1>4. QED
  BY <1>1, <1>2, <1>3 DEF RunnerStep

LEMMA RunnerInvInitially ==
  ASSUME RunnerInit
  PROVE  RunnerInv
  BY DEF RunnerInit, RunnerInv, RunnerTypeOK, HashesInOrder, Sources, Steps, Answered

\* The three hashes are in the order of the builds: if the last is the first, so is the
\* one between them.
LEMMA InOrderIsReviewed ==
  ASSUME RunnerInv
  PROVE  CheckedAnswerIsReviewed
<1>1. SUFFICES ASSUME Answered, answer = checked
               PROVE  ranOn = answer /\ MadeFrom(ranOn, request.side)
  BY DEF CheckedAnswerIsReviewed
<1>2. ranOn # 0 /\ checked <= ranOn /\ ranOn <= answer /\ {checked, ranOn, answer} \subseteq Nat
  BY <1>1 DEF RunnerInv, RunnerTypeOK, HashesInOrder, Answered
<1>3. ranOn = answer
  BY <1>1, <1>2
<1>4. QED
  BY <1>1, <1>2, <1>3 DEF RunnerInv, HashesInOrder

\* The runner called by itself, as the matrices call it: a checked answer that names
\* the simulator it was checked with is of that simulator and of the reviewed source
\* (trusted_runner.py:469-491, 559-574, 611).
THEOREM RunnerAnswersReviewed == RunnerSpec => []CheckedAnswerIsReviewed
<1>1. RunnerInv /\ [RunnerNext]_runnerVars => RunnerInv'
  BY RunnerInvPreserved DEF RunnerNext, RunnerStep
<1>2. RunnerInit => RunnerInv
  BY RunnerInvInitially
<1>3. RunnerInv => CheckedAnswerIsReviewed
  BY InOrderIsReviewed
<1>4. QED
  BY <1>1, <1>2, <1>3, PTL DEF RunnerSpec

-----------------------------------------------------------------------------
(* The request                                                             *)

\* What the steps of the worker, the caller and the transport leave alone.
LEMMA WorkerSteps ==
  ASSUME StagesAgree, Worker
  PROVE  /\ RunnerInv' /\ UNCHANGED <<local, remote, fault>>
         /\ runner \in {"answered", "failed"} => runner' = runner
         /\ transport \in {"none", "uploading"} => runner = "idle" /\ runner' = "idle"
<1>1. UNCHANGED <<local, remote, fault>> /\ RunnerStep
  BY DEF Worker, RunnerStep, StagesAgree, RequestTypeOK
<1>2. RunnerInv'
  BY <1>1, RunnerInvPreserved DEF StagesAgree, RequestTypeOK, RunnerInv
<1>3. \/ transport = "executing" /\ runner = "idle"
      \/ runner \notin {"idle", "answered", "failed"}
      \/ UNCHANGED runner
  BY DeveloperLeavesMain DEF Worker, StartRunner, Main, ReadRequest, ValidateInstall,
     FindSimulator, ValidateBuild, Compile, Spike, StartBoom, Observe, Bind, From, progress
<1>4. QED
  BY <1>1, <1>2, <1>3 DEF StagesAgree

LEMMA OthersLeaveRunner ==
  ASSUME StagesAgree, Caller \/ Deadline \/ Transport
  PROVE  RunnerInv' /\ UNCHANGED runner
<1>1. UNCHANGED runnerVars
  BY DEF Caller, Popen, CheckSize, Poll, Kill, ReadOutput, CallerOnly, Deadline, Transport,
     TransportOnly, Upload, RunnerEnds, ConnectionLost, CleanUp
<1>2. QED
  BY <1>1, RunnerInvPreserved DEF StagesAgree, RequestTypeOK, RunnerInv, RunnerStep, runnerVars,
     progress

LEMMA CallerPreserves ==
  ASSUME StagesAgree, Caller \/ Deadline
  PROVE  StagesAgree'
<1> USE DEF StagesAgree, RequestTypeOK, local, remote, CallerOnly
<1>1. RunnerInv' /\ UNCHANGED runner
  BY OthersLeaveRunner
<1>2. CASE Popen
  BY <1>1, <1>2 DEF Popen, RunnerInv
<1>3. CASE CheckSize
  BY <1>1, <1>3 DEF CheckSize, RunnerInv
<1>4. CASE Poll
  BY <1>1, <1>4 DEF Poll, NextRound, RunnerInv
<1>5. CASE Kill
  BY <1>1, <1>5 DEF Kill, KillsGroup, RunnerInv
<1>6. CASE ReadOutput
  <2>1. status = 0 => output = held /\ held <= MaxOutput
    BY <1>6 DEF ReadOutput
  <2>2. QED
    BY <1>1, <1>6, <2>1 DEF ReadOutput, RunnerInv
<1>7. CASE Deadline
  BY <1>1, <1>7 DEF Deadline, RunnerInv
<1>8. QED
  BY <1>2, <1>3, <1>4, <1>5, <1>6, <1>7 DEF Caller

LEMMA TransportPreserves ==
  ASSUME StagesAgree, Transport
  PROVE  StagesAgree'
<1> USE DEF StagesAgree, RequestTypeOK, local, TransportOnly, Fault, Exit, Then
<1>1. RunnerInv' /\ UNCHANGED runner
  BY OthersLeaveRunner
<1>2. CASE Upload
  <2>1. file' \in BOOLEAN /\ strays' \in BOOLEAN /\ fault' \in BOOLEAN
    BY <1>2, Zenon DEF Upload
  <2>2. CASE transport' = "executing"
    BY <1>1, <1>2, <2>1, <2>2 DEF Upload, RunnerInv
  <2>3. CASE transport' = "exited"
    <3>1. PICK part \in BOOLEAN, child \in BOOLEAN :
            Exit(2) /\ file' = part /\ strays' = child /\ Fault(TRUE)
      BY <1>2, <2>3, Zenon DEF Upload
    <3>2. status' = 2 /\ output' = held + 1
      BY <3>1, SMT
    <3>3. fault' = TRUE
      BY <3>1, Zenon
    <3>4. QED
      BY <1>1, <1>2, <2>1, <2>3, <3>2, <3>3 DEF Upload, RunnerInv
  <2>4. QED
    BY <1>2, <2>2, <2>3 DEF Upload
<1>3. CASE RunnerEnds
  <2>1. PICK out \in 1..(MaxOutput + 1), err \in 0..1 :
          LET ok == runner = "answered" /\ Fits(out, err) IN
          /\ status' = IF ok THEN 0 ELSE 2
          /\ held' = IF ok THEN out ELSE 0
    BY <1>3 DEF RunnerEnds
  <2>2. /\ status' \in {0, 2} /\ held' \in 0..MaxOutput
        /\ status' = 0 => runner = "answered" /\ held' > 0
    BY <2>1 DEF Fits
  <2>3. QED
    BY <1>1, <1>3, <2>2 DEF RunnerEnds, RunnerInv
<1>4. CASE ConnectionLost
  <2>1. strays' \in BOOLEAN /\ fault' = TRUE
    BY <1>4, Zenon DEF ConnectionLost
  <2>2. QED
    BY <1>1, <1>4, <2>1 DEF ConnectionLost, RunnerInv
<1>5. CASE CleanUp
  <2>1. file' \in BOOLEAN /\ strays' \in BOOLEAN /\ fault' \in BOOLEAN
    BY <1>5, Zenon DEF CleanUp
  <2>2. /\ transport' = "exited" /\ status' \in {status, 2}
        /\ output' = held + (IF status' = 0 THEN 0 ELSE 1)
        /\ (file' => fault') /\ (~fault' => ~fault)
    BY <1>5 DEF CleanUp
  <2>3. QED
    BY <1>1, <1>5, <2>1, <2>2 DEF CleanUp, RunnerInv
<1>6. QED
  BY <1>2, <1>3, <1>4, <1>5 DEF Transport

\* The inductive invariant: where one process stands says what the others have done.
THEOREM StagesCorrect == RequestSpec => []StagesAgree
<1>1. ASSUME RequestInit PROVE StagesAgree
  <2>1. RunnerInv /\ runner = "idle"
    BY <1>1, RunnerInvInitially DEF RequestInit, RunnerInit
  <2>2. 0 \in 0..MaxOutput /\ 0 \in 0..(MaxOutput + 1)
    OBVIOUS
  <2>3. late \in BOOLEAN /\ file \in BOOLEAN /\ strays \in BOOLEAN /\ fault \in BOOLEAN
    BY <1>1, Zenon DEF RequestInit
  <2>4. RequestTypeOK
    BY <1>1, <2>1, <2>2, <2>3 DEF RequestInit, RunnerInv, RequestTypeOK
  <2>5. QED
    BY <1>1, <2>1, <2>4 DEF RequestInit, RunnerInv, StagesAgree
<1>2. ASSUME StagesAgree, [RequestNext]_requestVars PROVE StagesAgree'
  <2>1. CASE Worker
    BY <2>1, <1>2, WorkerSteps DEF StagesAgree, RequestTypeOK, RunnerInv, local, remote
  <2>2. CASE UNCHANGED requestVars
    <3>1. RunnerInv'
      BY <1>2, <2>2, RunnerInvPreserved DEF requestVars, RunnerStep, StagesAgree, RequestTypeOK,
         RunnerInv
    <3>2. QED
      BY <1>2, <2>2, <3>1 DEF requestVars, runnerVars, progress, local, remote, StagesAgree,
         RequestTypeOK, RunnerInv
  <2>3. QED
    BY <1>2, <2>1, <2>2, CallerPreserves, TransportPreserves DEF RequestNext
<1>3. QED
  BY <1>1, <1>2, PTL DEF RequestSpec

\* No process of the transport's group outlives run (process.py:51-57).
THEOREM GroupIsKilled == RequestSpec => []NoSurvivor
<1>1. StagesAgree => NoSurvivor
  BY DEF StagesAgree, NoSurvivor, Over
<1>2. QED
  BY <1>1, StagesCorrect, PTL

\* run returns the whole answer of a runner that answered (process.py:41-64,
\* gcp_runner.py:39-40 and 108-112).
THEOREM AnswersComplete == RequestSpec => []AnswerIsComplete
<1>1. StagesAgree => AnswerIsComplete
  BY DEF StagesAgree, RequestTypeOK, AnswerIsComplete
<1>2. QED
  BY <1>1, StagesCorrect, PTL

\* A request that met no fault leaves neither its file nor a runner on the worker
\* (gcp_runner.py:94-127).
THEOREM WorkerLeftClean == RequestSpec => []NothingLeftRemotely
<1>1. StagesAgree => NothingLeftRemotely
  BY DEF StagesAgree, NothingLeftRemotely, Over
<1>2. QED
  BY <1>1, StagesCorrect, PTL

\* The same of the checked answers of a runner that is called over the transport.
THEOREM RequestAnswersReviewed == RequestSpec => []CheckedAnswerIsReviewed
<1>1. StagesAgree => CheckedAnswerIsReviewed
  BY InOrderIsReviewed DEF StagesAgree, RequestTypeOK, RunnerInv
<1>2. QED
  BY <1>1, StagesCorrect, PTL
=============================================================================
