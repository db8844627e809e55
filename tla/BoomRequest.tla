----------------------------- MODULE BoomRequest -----------------------------
(***************************************************************************)
(* A request on its way to the worker and back: run of process.py waits    *)
(* for gcp_runner.py, which uploads the request, runs trusted_runner.py    *)
(* over ssh and removes the request again.  The processes share nothing    *)
(* but the process group of the transport, its output files and the        *)
(* worker, so every step of one may fall between two steps of another.     *)
(***************************************************************************)
EXTENDS TrustedRunner

CONSTANT MaxOutput   \* max_output and MAX_OUTPUT, in blocks

ASSUME RequestAssumption == MaxOutput \in Nat \ {0}

VARIABLES
  caller,     \* where run stands
  late,       \* the deadline has passed
  transport,  \* where gcp_runner.py stands
  status,     \* its exit status, once it is settled
  held,       \* blocks of the answer it writes when it exits
  output,     \* blocks in the two temporary files
  received,   \* blocks run returned
  strays,     \* local children of a gcloud that was timed out
  file,       \* the request is on the worker
  fault       \* the network, the worker or the deadline interfered

local == <<caller, late, received>>
remote == <<transport, status, held, output, strays, file>>
requestVars == <<runnerVars, local, remote, fault>>

RequestTypeOK ==
  /\ RunnerTypeOK
  /\ caller \in {"idle", "sizing", "polling", "killing", "failing", "reading", "returned", "raised"}
  /\ late \in BOOLEAN /\ file \in BOOLEAN /\ strays \in BOOLEAN /\ fault \in BOOLEAN
  /\ transport \in {"none", "uploading", "executing", "cleaning", "exited", "killed"}
  /\ status \in {0, 2}
  /\ held \in 0..MaxOutput /\ output \in 0..(MaxOutput + 1)
  /\ received \in 0..MaxOutput

RequestInit ==
  /\ RunnerInit
  /\ caller = "idle" /\ late = FALSE /\ received = 0
  /\ transport = "none" /\ status = 0 /\ held = 0 /\ output = 0
  /\ strays = FALSE /\ file = FALSE /\ fault = FALSE

-----------------------------------------------------------------------------
(* run                                                                     *)

CallerOnly == UNCHANGED <<runnerVars, late, remote, fault>>

Popen ==
  /\ caller = "idle"
  /\ \/ caller' = "sizing" /\ transport' = "uploading"
     \/ caller' = "raised" /\ UNCHANGED transport      \* OSError
  /\ UNCHANGED <<runnerVars, late, received, status, held, output, strays, file, fault>>

CheckSize ==
  /\ caller = "sizing"
  /\ caller' = IF output > MaxOutput THEN "failing" ELSE "polling"
  /\ CallerOnly /\ UNCHANGED received

\* poll, the deadline, and the sleep before the next round.
AlwaysRound == "sizing"
NextRound == IF late THEN "failing" ELSE "sizing"
Poll ==
  /\ caller = "polling"
  /\ caller' = IF transport = "exited" THEN "killing" ELSE NextRound
  /\ CallerOnly /\ UNCHANGED received

\* finally: killpg and wait, whatever ended the loop.
KillsIfRunning == transport # "exited"
KillsGroup == TRUE
Kill ==
  /\ caller \in {"killing", "failing"}
  /\ caller' = IF caller = "killing" THEN "reading" ELSE "raised"
  /\ transport' = IF transport = "exited" THEN transport ELSE "killed"
  /\ strays' = (strays /\ ~KillsGroup)
  /\ UNCHANGED <<runnerVars, late, received, status, held, output, file, fault>>

ReadOutput ==
  /\ caller = "reading"
  /\ \/ status = 0 /\ caller' = "returned"
        /\ received' = IF output > MaxOutput THEN MaxOutput ELSE output
     \/ status # 0 /\ caller' = "raised" /\ UNCHANGED received
  /\ CallerOnly

Deadline ==
  /\ caller \in {"sizing", "polling"} /\ ~late
  /\ late' = TRUE /\ fault' = TRUE
  /\ UNCHANGED <<runnerVars, caller, received, remote>>

Caller == Popen \/ CheckSize \/ Poll \/ Kill \/ ReadOutput

-----------------------------------------------------------------------------
(* gcp_runner.py; each step waits for one call of gcloud                   *)

TransportOnly == UNCHANGED <<runnerVars, local>>
Fault(happens) == fault' = (fault \/ happens)

\* The message of a failure is one block on stderr, written before the exit.
Exit(code) ==
  /\ transport' = "exited" /\ status' = code
  /\ output' = held + (IF code = 0 THEN 0 ELSE 1)

Upload ==
  /\ transport = "uploading"
  /\ \/ transport' = "executing" /\ file' = TRUE /\ Fault(FALSE)
        /\ UNCHANGED <<status, output, strays>>
     \/ \* an error, or the time-out of 90 s, which may leave a child of gcloud
        \E part \in BOOLEAN, child \in BOOLEAN :
          /\ Exit(2) /\ file' = part /\ strays' = child /\ Fault(TRUE)
  /\ TransportOnly /\ UNCHANGED held

FitsWithMessage(out, err) == out + err <= MaxOutput + 1
Fits(out, err) == out + err <= MaxOutput

\* finally: the clean-up follows whatever the call of the runner came to.
CleanUpIfAnswered(code) == IF code = 0 THEN "cleaning" ELSE "exited"
Then(code) == "cleaning"

RunnerEnds ==
  /\ transport = "executing" /\ runner \in {"answered", "failed"}
  /\ \E out \in 1..(MaxOutput + 1), err \in 0..1 :
       LET ok == runner = "answered" /\ Fits(out, err) IN
       /\ status' = IF ok THEN 0 ELSE 2
       /\ held' = IF ok THEN out ELSE 0
  /\ transport' = Then(status')
  /\ TransportOnly /\ UNCHANGED <<output, strays, file, fault>>

\* ssh fails, or has not answered after 1000 s; the remote runner goes on.
ConnectionLost ==
  /\ transport = "executing"
  /\ \E child \in BOOLEAN : strays' = (strays \/ child)
  /\ status' = 2 /\ transport' = Then(2) /\ Fault(TRUE)
  /\ TransportOnly /\ UNCHANGED <<held, output, file>>

CleanUp ==
  /\ transport = "cleaning"
  /\ \/ file' = FALSE /\ Exit(status) /\ Fault(FALSE) /\ UNCHANGED strays
     \/ Exit(status) /\ Fault(TRUE) /\ UNCHANGED <<file, strays>>   \* its status is not read
     \/ \E gone \in BOOLEAN, child \in BOOLEAN :                    \* 60 s
          Exit(2) /\ file' = (file /\ ~gone) /\ strays' = (strays \/ child) /\ Fault(TRUE)
  /\ TransportOnly /\ UNCHANGED held

Transport == Upload \/ RunnerEnds \/ ConnectionLost \/ CleanUp

-----------------------------------------------------------------------------
(* The worker goes on whatever becomes of the transport                    *)

Worker ==
  /\ \/ transport = "executing" /\ StartRunner
     \/ Main(file)
     \/ Developer
  /\ UNCHANGED <<local, remote, fault>>

RequestNext == Caller \/ Deadline \/ Transport \/ Worker

\* run polls every 10 ms and its clock goes on; nothing is assumed of gcloud or the worker.
RequestFairness == WF_requestVars(Caller) /\ WF_requestVars(Deadline)

RequestSpec == RequestInit /\ [][RequestNext]_requestVars /\ RequestFairness

-----------------------------------------------------------------------------
(* Properties                                                              *)

Over == caller \in {"returned", "raised"}

\* Where one process stands says what the others have done: the caller goes on from
\* killing only with a transport that has exited, the transport exits with status 0
\* only for an answer that fits, and it writes nothing before it exits.
StagesAgree ==
  /\ RequestTypeOK /\ HashesInOrder
  /\ transport \in {"none", "uploading"} => runner = "idle" /\ ~strays /\ (file => fault)
  /\ caller = "idle" => transport = "none"
  /\ transport # "exited" => output = 0
  /\ transport \in {"cleaning", "exited"} /\ status = 0 => runner = "answered" /\ held > 0
  /\ transport = "exited" => output = held + (IF status = 0 THEN 0 ELSE 1)
  /\ transport \in {"cleaning", "exited"} /\ ~fault => runner \in {"answered", "failed"}
  /\ transport = "exited" /\ ~fault => ~file
  /\ transport = "killed" \/ late => fault
  /\ caller \in {"killing", "reading", "returned"} => transport = "exited"
  /\ caller = "failing" => late \/ transport = "exited"
  /\ caller \in {"reading", "returned", "raised"} =>
       transport \in {"none", "exited", "killed"} /\ ~strays
  /\ caller = "returned" => status = 0 /\ received = output

\* When run is over, no process of the transport's group is left, not even a
\* descendant of a gcloud that was timed out or that outlived the transport
\* (process.py:51-57: "Also reap descendants of a wrapper that exited before its
\* children").
NoSurvivor == Over => transport \in {"none", "exited", "killed"} /\ ~strays

\* What run returns is the whole answer of a runner that answered: the size check,
\* the poll and the bounded read are three steps, and only the transport's own
\* limit keeps output from growing in between (process.py:41-64, gcp_runner.py:39-40,
\* 108-112).
AnswerIsComplete == caller = "returned" => runner = "answered" /\ received = held /\ held > 0

\* Without a fault of the network, the worker or the deadline, a request that is over
\* has left neither its file nor a runner on the worker, whether or not the runner
\* accepted it (gcp_runner.py:94-127).
NothingLeftRemotely ==
  Over /\ ~fault => ~file /\ runner \in {"idle", "answered", "failed"}

\* run comes to an end, whatever gcloud and the worker do (process.py:38-50).
RunEnds == caller = "sizing" ~> Over
=============================================================================
