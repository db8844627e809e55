---------------------------- MODULE TrustedRunner ----------------------------
(***************************************************************************)
(* One request on the BOOM worker: main of tools/boom/trusted_runner.py,   *)
(* or of historical_issue_715_runner.py, step by step, while the checkout  *)
(* it reads is edited and built by somebody else.  What the runner makes   *)
(* of the program itself is Candidate's.                                   *)
(***************************************************************************)
EXTENDS Naturals, Sequences

CONSTANTS
  None,        \* no build manifest
  MaxChanges   \* bound on what is done to the checkout

ASSUME RunnerAssumption == MaxChanges \in Nat

\* The checkout as git and SHA-256 see it; "elsewhere" is a change outside lsu.scala.
Sources == {"pristine", "patched", "elsewhere"}
Lsu(tree) == IF tree = "patched" THEN "patched" ELSE "pristine"

VARIABLES
  request,    \* which runner, for which side of the repair
  source,     \* the checkout's BOOM source
  built,      \* the source each simulator was built from, in the order of the builds
  simulator,  \* the installed one, 0 if there is none; it stands for its SHA-256
  manifest,   \* the build manifest beside it
  script,     \* a build script that has built but not yet written the manifest
  changes,
  runner,     \* where main stands
  checked,    \* the simulator the manifest was compared with, 0 if none was
  ranOn,      \* the simulator that made the observation
  answer      \* response["simulator_sha256"], 0 before the response

tree == <<source, built, simulator, manifest, script, changes>>
progress == <<runner, checked, ranOn, answer>>
runnerVars == <<request, tree, progress>>

Builds == 0..MaxChanges
Manifest == [lsu : {"pristine", "patched"}, simulator : Builds]
Steps == {"idle", "reading", "install", "find", "manifest", "compile", "spike", "boom",
          "observing", "bind", "answered", "failed"}

RunnerTypeOK ==
  /\ request \in [tool : {"trusted", "historical"}, side : {"pristine", "patched"}]
  /\ source \in Sources
  /\ built \in Seq(Sources) /\ Len(built) <= MaxChanges
  /\ simulator \in 0..Len(built)
  /\ manifest \in Manifest \cup {None}
  /\ script \in {"none", "pristine", "patched"}
  /\ changes \in 0..MaxChanges
  /\ runner \in Steps
  /\ {checked, ranOn, answer} \subseteq 0..Len(built)

RunnerInit ==
  /\ request \in [tool : {"trusted", "historical"}, side : {"pristine", "patched"}]
  /\ source = "pristine" /\ built = <<>> /\ simulator = 0 /\ manifest = None
  /\ script = "none" /\ changes = 0
  /\ runner = "idle" /\ checked = 0 /\ ranOn = 0 /\ answer = 0

-----------------------------------------------------------------------------
(* The checkout: nobody edits it while a build script runs in it           *)

Change == changes < MaxChanges /\ changes' = changes + 1
ByHand == Change /\ script = "none" /\ UNCHANGED <<request, manifest, script, progress>>

Install(tree_) == built' = Append(built, tree_) /\ simulator' = Len(built')

\* git apply, git checkout, an editor.
Edit ==
  /\ ByHand
  /\ source' \in Sources \ {source}
  /\ UNCHANGED <<built, simulator>>

\* build_and_smoke.sh, or make: no manifest is written.
Make == ByHand /\ Install(source) /\ UNCHANGED source

Clean == ByHand /\ simulator # 0 /\ simulator' = 0 /\ UNCHANGED <<source, built>>

\* build_repair_variant.sh makes the repaired checkout, a new copy of the pristine
\* one; build_historical_issue_715.sh takes whatever has a reviewed lsu.scala.
RunScript ==
  /\ Change /\ script = "none"
  /\ request.tool = "trusted" => request.side = "patched"
  /\ source' \in IF request.tool = "trusted" THEN {"patched"} ELSE {source}
  /\ Install(source')
  /\ manifest' = IF request.tool = "trusted" THEN None ELSE manifest
  /\ script' = Lsu(source')
  /\ UNCHANGED <<request, progress>>

WriteManifest ==
  /\ Change /\ script # "none"
  /\ manifest' = [lsu |-> script, simulator |-> simulator]
  /\ script' = "none"
  /\ UNCHANGED <<request, source, built, simulator, progress>>

\* The script dies before it writes the manifest.
ScriptDies ==
  /\ Change /\ script # "none"
  /\ script' = "none"
  /\ UNCHANGED <<request, source, built, simulator, manifest, progress>>

Developer == Edit \/ Make \/ Clean \/ RunScript \/ WriteManifest \/ ScriptDies

-----------------------------------------------------------------------------
(* main, step by step; a step that raises ends in exit status 2            *)

From(step, next) == runner = step /\ runner' \in {next, "failed"}
Passes == runner' # "failed"

StartRunner == runner = "idle" /\ runner' = "reading" /\ UNCHANGED <<request, tree, checked, ranOn, answer>>

\* validate_request; the gate on the program is Candidate's Acceptable.
ReadRequest(readable) ==
  /\ From("reading", "install") /\ (Passes => readable)
  /\ UNCHANGED <<request, tree, checked, ranOn, answer>>

\* validate_install: revision, digest, status and, for a repair, the diff.
InstallReviewed == source = request.side
ValidateInstall ==
  /\ From("install", "find") /\ (Passes => InstallReviewed)
  /\ UNCHANGED <<request, tree, checked, ranOn, answer>>

FindSimulator ==
  /\ From("find", "manifest") /\ (Passes => simulator # 0)
  /\ UNCHANGED <<request, tree, checked, ranOn, answer>>

\* The trusted runner reads a manifest only for a repair.
HasManifest == request.tool = "historical" \/ request.side = "patched"

DescribesSource == manifest.lsu = request.side
DescribesSimulator == manifest.lsu = request.side /\ manifest.simulator = simulator

ValidateBuild ==
  /\ From("manifest", "compile")
  /\ Passes => (HasManifest => manifest # None /\ DescribesSimulator)
  /\ checked' = IF Passes /\ HasManifest THEN simulator ELSE 0
  /\ UNCHANGED <<request, tree, ranOn, answer>>

Compile == From("compile", "spike") /\ UNCHANGED <<request, tree, checked, ranOn, answer>>
Spike == From("spike", "boom") /\ UNCHANGED <<request, tree, checked, ranOn, answer>>

StartBoom ==
  /\ From("boom", "observing") /\ (Passes => simulator # 0)
  /\ ranOn' = IF Passes THEN simulator ELSE 0
  /\ UNCHANGED <<request, tree, checked, answer>>

Observe == From("observing", "bind") /\ UNCHANGED <<request, tree, checked, ranOn, answer>>

\* The hash is read again, after the observation.
Bind ==
  /\ From("bind", "answered") /\ (Passes => simulator # 0)
  /\ answer' = IF Passes THEN simulator ELSE 0
  /\ UNCHANGED <<request, tree, checked, ranOn>>

Main(readable) ==
  \/ ReadRequest(readable) \/ ValidateInstall \/ FindSimulator \/ ValidateBuild
  \/ Compile \/ Spike \/ StartBoom \/ Observe \/ Bind

\* The runner by itself, as run_secure_matrix.py calls it.
RunnerNext == StartRunner \/ Main(TRUE) \/ Developer
RunnerSpec == RunnerInit /\ [][RunnerNext]_runnerVars

\* The same with nobody at the checkout while it runs.
QuietNext == StartRunner \/ Main(TRUE) \/ (runner = "idle" /\ Developer)
QuietSpec == RunnerInit /\ [][QuietNext]_runnerVars

-----------------------------------------------------------------------------
(* Properties                                                              *)

Answered == runner = "answered"

\* Of this lsu.scala; on the repaired tree of the trusted runner, which its script
\* builds from a clean copy, of this source as a whole.
MadeFrom(build, lsu) ==
  Lsu(built[build]) = lsu /\ (request.tool = "trusted" => built[build] = lsu)

\* Whatever is done to the checkout, a manifest tells the truth about the build it
\* names, and what main reads of the simulator it reads in the order of the builds:
\* the one it checks, the one it runs, the one whose hash it reports.
HashesInOrder ==
  /\ Len(built) <= changes /\ simulator \in {0, Len(built)}
  /\ script # "none" => simulator # 0 /\ MadeFrom(simulator, script)
  /\ manifest # None =>
       manifest.simulator \in 1..Len(built) /\ MadeFrom(manifest.simulator, manifest.lsu)
  /\ checked # 0 => MadeFrom(checked, request.side)
  /\ runner \in {"observing", "bind", "answered"} => ranOn # 0 /\ checked <= ranOn
  /\ Answered => ranOn <= answer

\* Where a build manifest is checked, an answer that names the simulator it was
\* checked with comes from that simulator, and that one was built from the
\* reviewed source of the request
\* (trusted_runner.py:469-491, 559-574, 611; historical_issue_715_runner.py:92-113).
CheckedAnswerIsReviewed ==
  Answered /\ HasManifest /\ answer = checked =>
    ranOn = answer /\ MadeFrom(ranOn, request.side)

\* A patched or stale build is never mislabelled as baseline evidence
\* (docs/BOOM.md:159-161, of trusted_runner.py:88-95 and 469-473).
BaselineIsPristineBuild ==
  Answered /\ request = [tool |-> "trusted", side |-> "pristine"] =>
    built[ranOn] = "pristine"
=============================================================================
