-------------------------- MODULE Campaigns_proofs --------------------------
(***************************************************************************)
(* For any number of scenarios, programs, builds, loads and cycles: the    *)
(* evidence files and their seals were made by the simulators they name,   *)
(* and the scanner of traces takes requests for those of the right load.   *)
(***************************************************************************)
EXTENDS MCCampaigns, FiniteSetTheorems, TLAPS

-----------------------------------------------------------------------------
(* Evidence: what the files say of the simulators that made them.          *)

Tasks == Matrices \cup {"corpus"} \cup Sides
FileNames == {"mutated", "fixed", "control", "corpus", "seal", "baseline", "repaired", "build"}
Task == [name : Tasks, since : 0..MaxBuilds, batches : Seq(Batch)]

\* The types, with those of what a task has gathered.
Typed ==
  /\ campaign \in {"seeded", "historical"}
  /\ installed \in [Checkouts -> 1..MaxBuilds]
  /\ driver \in {"idle", "pairing"} \cup Matrices
  /\ task # None => task \in Task /\ Len(task.batches) <= Batches(task.name)
  /\ task # None /\ driver \in Matrices => task.name = driver
  /\ campaign = "historical" => driver = "idle" /\ (task # None => task.name \in Sides)
  /\ DOMAIN files = FileNames
  /\ \A name \in Tasks : files[name] \in Evidences(name) \cup {None}
  /\ files.build \in [Sides -> 1..MaxBuilds]

\* No batch comes from a simulator older than the one an earlier response named.
Ordered(batches) ==
  \A j \in 1..Len(batches) :
    /\ batches[j].oldest <= batches[j].simulator
    /\ \A i \in 1..(j - 1) : batches[i].simulator <= batches[j].oldest

InTime ==
  task # None =>
    /\ Ordered(task.batches)
    /\ task.since <= installed[Checkout(task.name)]
    /\ \A i \in 1..Len(task.batches) :
         task.batches[i].simulator <=
           IF task.since = 0 THEN installed[Checkout(task.name)] ELSE task.since

\* A file of the seeded campaign was made by the simulator it names; one of the
\* historical campaign is in the order of the builds.
FilesMade ==
  /\ \A name \in Matrices \cup {"corpus"} :
       files[name] # None => MadeBy(files[name], files[name].simulator)
  /\ \A s \in Sides : files[s] # None => Ordered(files[s].batches)

EvidenceInv == Typed /\ InTime /\ FilesMade

LEMMA EvidenceFacts ==
  /\ Scenarios \in Nat /\ Programs \in Nat /\ MaxBuilds \in Nat /\ 1 \in 1..MaxBuilds
  /\ \A name \in Tasks : Batches(name) \in Nat /\ Checkout(name) \in Checkouts
  BY EvidenceAssumption DEF EvidenceAssumption, Tasks, Batches, Checkout, Checkouts, Sides, Matrices

LEMMA VerdictsAreStatuses == Verdicts \subseteq Statuses
  BY DEF Verdicts, Classify, Statuses

\* If all responses name one simulator, it made every batch after the first.
LEMMA OrderedByOne ==
  ASSUME NEW batches \in Seq(Batch), Ordered(batches), NEW s, Simulators(batches) = {s},
         NEW i \in 2..Len(batches)
  PROVE  batches[i].oldest = s
<1>1. i \in DOMAIN batches /\ 1 \in DOMAIN batches /\ i \in 1..Len(batches) /\ 1 \in 1..(i - 1)
  OBVIOUS
<1>2. batches[i].simulator = s /\ batches[1].simulator = s
  BY <1>1 DEF Simulators
<1>3. batches[i].oldest <= s /\ s <= batches[i].oldest
  BY <1>1, <1>2 DEF Ordered
<1>4. batches[i] \in Batch
  BY <1>1
<1>5. s \in Nat /\ batches[i].oldest \in Nat
  BY <1>2, <1>4, EvidenceFacts DEF Batch
<1>6. QED
  BY <1>3, <1>5

\* The fields of the files are apart: what a write to one leaves of the others.
LEMMA FieldsApart ==
  /\ Tasks \subseteq FileNames
  /\ {"control", "seal", "build"} \cap Tasks = {}
  /\ Tasks = {"mutated", "fixed", "corpus", "baseline", "repaired"}
  BY DEF Tasks, FileNames, Matrices, Sides

-----------------------------------------------------------------------------
\* The steps by what they do: change a checkout, send or receive, give up, start or
\* end a task, pair, and seal.
Quiet == BatchFails \/ MatrixRaises \/ Crash
Starts == StartControl \/ StartSecondMatrix \/ StartCorpus \/ \E s \in Sides : StartHistorical(s)
Seals == SealCorpus \/ SealHistorical

LEMMA EvidenceCases ==
  ASSUME [Next]_vars
  PROVE  \/ Rebuilds \/ SendBatch \/ ReceiveBatch \/ Quiet \/ Starts
         \/ MatrixEnds \/ CorpusEnds \/ HistoricalEnds \/ Pair \/ Seals \/ UNCHANGED vars
  BY DEF Next, Quiet, Starts, Seals

\* What a finished task writes.
LEMMA FileOfTask ==
  ASSUME EvidenceInv, task # None, ~Unfinished, NEW hash \in 1..MaxBuilds, NEW status \in Statuses
  PROVE  [simulator |-> hash, batches |-> task.batches, status |-> status] \in Evidences(task.name)
<1>1. task \in Task /\ Len(task.batches) <= Batches(task.name) /\ Batches(task.name) \in Nat
  BY EvidenceFacts DEF EvidenceInv, Typed, Task
<1>2. Len(task.batches) = Batches(task.name) /\ task.batches \in Seq(Batch)
  BY <1>1 DEF Unfinished, Task
<1>3. task.batches \in [1..Batches(task.name) -> Batch]
  BY <1>2
<1>4. QED
  BY <1>3 DEF Evidences

LEMMA TypedKept ==
  ASSUME EvidenceInv, [Next]_vars
  PROVE  Typed'
<1> USE DEF EvidenceInv
<1>1. CASE Rebuilds
  <2>1. PICK c \in Checkouts, documented \in BOOLEAN :
          Rebuild(c, documented) /\ (documented => c \in Sides)
    BY <1>1 DEF Rebuilds, Checkouts
  <2>2. /\ installed' = [installed EXCEPT ![c] = @ + 1] /\ installed[c] < MaxBuilds
        /\ UNCHANGED <<campaign, driver, task>>
    BY <2>1 DEF Rebuild
  <2>3. installed' \in [Checkouts -> 1..MaxBuilds]
    BY <2>2, EvidenceFacts DEF Typed
  <2>4. CASE files' = files
    BY <2>2, <2>3, <2>4 DEF Typed
  <2>5. CASE c \in Sides /\ files' = [files EXCEPT !.build[c] = installed'[c]]
    <3>1. installed'[c] \in 1..MaxBuilds
      BY <2>3
    <3>2. files'.build \in [Sides -> 1..MaxBuilds]
      BY <2>5, <3>1 DEF Typed, FileNames
    <3>3. DOMAIN files' = FileNames /\ \A name \in Tasks : files'[name] = files[name]
      BY <2>5, FieldsApart DEF Typed
    <3>4. QED
      BY <2>2, <2>3, <3>2, <3>3 DEF Typed
  <2>6. QED
    BY <2>1, <2>4, <2>5 DEF Rebuild
<1>2. CASE SendBatch
  <2>1. task \in Task
    BY <1>2 DEF SendBatch, Unfinished, Typed
  <2>2. installed[Checkout(task.name)] \in 0..MaxBuilds
    BY <2>1, EvidenceFacts DEF Typed, Task
  <2>3. task' \in Task /\ task'.name = task.name /\ task'.batches = task.batches
    BY <1>2, <2>1, <2>2 DEF SendBatch, Task
  <2>4. QED
    BY <1>2, <2>3 DEF SendBatch, Unfinished, Typed
<1>3. CASE ReceiveBatch
  <2>1. task \in Task /\ Len(task.batches) < Batches(task.name) /\ Batches(task.name) \in Nat
    BY <1>3, EvidenceFacts DEF ReceiveBatch, Unfinished, Typed, Task
  <2>2. PICK hash \in task.since..installed[Checkout(task.name)],
             status \in VerdictsOfBatch(task.name) :
             \E oldest \in task.since..hash :
               task' = [task EXCEPT !.since = 0, !.batches = Append(@,
                          [simulator |-> hash, oldest |-> oldest, status |-> status])]
    BY <1>3 DEF ReceiveBatch
  <2>3. PICK oldest \in task.since..hash :
               task' = [task EXCEPT !.since = 0, !.batches = Append(@,
                          [simulator |-> hash, oldest |-> oldest, status |-> status])]
    BY <2>2
  <2>4. task.since \in 1..MaxBuilds /\ installed[Checkout(task.name)] \in 1..MaxBuilds
    BY <1>3, <2>1, EvidenceFacts DEF ReceiveBatch, Typed, Task
  <2>5. hash \in 1..MaxBuilds /\ oldest \in 1..MaxBuilds
    BY <2>2, <2>3, <2>4, EvidenceFacts
  <2>6. status \in Statuses \cup {None}
    BY VerdictsAreStatuses DEF VerdictsOfBatch
  <2> DEFINE batch == [simulator |-> hash, oldest |-> oldest, status |-> status]
  <2>7. batch \in Batch
    BY <2>5, <2>6 DEF Batch
  <2> HIDE DEF batch
  <2>8. Append(task.batches, batch) \in Seq(Batch)
        /\ Len(Append(task.batches, batch)) = Len(task.batches) + 1
    BY <2>1, <2>7 DEF Task
  <2>9. task' = [name |-> task.name, since |-> 0, batches |-> Append(task.batches, batch)]
    BY <2>1, <2>3 DEF Task, batch
  <2>10. task' \in Task /\ Len(task'.batches) <= Batches(task'.name) /\ task'.name = task.name
    <3>1. Len(task.batches) \in Nat /\ task.name \in Tasks /\ 0 \in 0..MaxBuilds
      BY <2>1, EvidenceFacts DEF Task
    <3>2. QED
      BY <2>1, <2>8, <2>9, <3>1 DEF Task
  <2>11. task # None
    BY <1>3 DEF ReceiveBatch, Unfinished
  <2>12. QED
    BY <1>3, <2>10, <2>11 DEF ReceiveBatch, Typed
<1>4. CASE Quiet
  BY <1>4 DEF Quiet, BatchFails, MatrixRaises, Crash, Over, Typed, Matrices
<1>5. CASE Starts
  <2>1. PICK name \in Tasks :
          /\ task' = [name |-> name, since |-> 0, batches |-> <<>>]
          /\ UNCHANGED <<campaign, installed, files>>
          /\ driver' \in {"idle", "pairing"} \cup Matrices
          /\ driver' \in Matrices => driver' = name
          /\ campaign = "historical" => driver' = "idle" /\ name \in Sides
    <3>1. CASE StartControl
      BY <3>1 DEF StartControl, Start, Tasks, Matrices
    <3>2. CASE StartSecondMatrix
      BY <3>2 DEF StartSecondMatrix, Start, Tasks, Matrices, Typed
    <3>3. CASE StartCorpus
      BY <3>3 DEF StartCorpus, Start, Tasks, Matrices
    <3>4. ASSUME NEW s \in Sides, StartHistorical(s)
          PROVE  /\ s \in Tasks /\ task' = [name |-> s, since |-> 0, batches |-> <<>>]
                 /\ UNCHANGED <<campaign, installed, files, driver>>
      BY <3>4 DEF StartHistorical, Start, Tasks
    <3>5. CASE \E s \in Sides : StartHistorical(s)
      <4>1. PICK s \in Sides : StartHistorical(s)
        BY <3>5
      <4>2. driver = "idle" /\ driver \notin Matrices
        BY <4>1 DEF StartHistorical, Typed, Matrices
      <4>3. QED
        BY <3>4, <4>1, <4>2
    <3>6. QED
      BY <1>5, <3>1, <3>2, <3>3, <3>5 DEF Starts
  <2>2. task' \in Task /\ Len(task'.batches) = 0 /\ task'.name = name
    BY <2>1, EvidenceFacts DEF Task
  <2>3. Len(task'.batches) <= Batches(task'.name)
    BY <2>2, EvidenceFacts
  <2>4. QED
    BY <2>1, <2>2, <2>3 DEF Typed
\* The end of a task: its file, and no task.
<1>6. ASSUME NEW file \in Evidences(task.name), task # None, task' = None,
             files' = [files EXCEPT ![task.name] = file] \/ files' = files,
             driver' \in {"idle", "pairing"} \cup Matrices, UNCHANGED <<campaign, installed>>,
             campaign = "historical" => driver' = "idle"
      PROVE  Typed'
  <2>1. task.name \in Tasks
    BY <1>6 DEF Typed, Task
  <2>2. DOMAIN files' = FileNames /\ files'.build = files.build
    <3>1. DOMAIN files = FileNames /\ task.name # "build"
      BY <2>1, FieldsApart DEF Typed
    <3>2. CASE files' = files
      BY <3>1, <3>2
    <3>3. CASE files' = [files EXCEPT ![task.name] = file]
      BY <3>1, <3>3 DEF FileNames
    <3>4. QED
      BY <1>6, <3>2, <3>3
  <2>3. \A name \in Tasks : files'[name] \in Evidences(name) \cup {None}
    BY <1>6, <2>1, FieldsApart DEF Typed
  <2>4. QED
    BY <1>6, <2>2, <2>3 DEF Typed
<1>7. CASE MatrixEnds \/ CorpusEnds
  <2>1. installed.pinned \in 1..MaxBuilds
    BY DEF Typed, Checkouts
  <2>2. StatusOf(task.batches) \in Statuses
    BY DEF StatusOf, Statuses
  <2>3. task # None /\ ~Unfinished /\ task' = None
    BY <1>7 DEF MatrixEnds, CorpusEnds, Finished, Over
  <2>4. File(task.batches) \in Evidences(task.name)
    BY <2>1, <2>2, <2>3, FileOfTask DEF File
  <2>5. driver' \in {"idle", "pairing"} \cup Matrices /\ UNCHANGED <<campaign, installed>>
    BY <1>7 DEF MatrixEnds, CorpusEnds, Over, Matrices
  <2>6. files' = [files EXCEPT ![task.name] = File(task.batches)] \/ files' = files
    BY <1>7 DEF MatrixEnds, CorpusEnds, Finished
  <2>7. campaign = "historical" => driver' = "idle"
    BY <1>7, <2>3 DEF MatrixEnds, CorpusEnds, Over, Finished, Typed, Matrices, Sides
  <2>8. QED
    BY <1>6, <2>3, <2>4, <2>5, <2>6, <2>7
<1>8. CASE HistoricalEnds
  <2>1. task # None /\ ~Unfinished /\ task.name \in Sides /\ task \in Task
    BY <1>8 DEF HistoricalEnds, Finished, Typed
  <2>2. PICK status \in Verdicts :
          files' = [files EXCEPT ![task.name] =
                      [simulator |-> task.batches[1].simulator, batches |-> task.batches,
                       status |-> status]]
    BY <1>8 DEF HistoricalEnds
  <2>3. task.batches[1].simulator \in 1..MaxBuilds
    <3>1. Len(task.batches) = 4 /\ task.batches \in Seq(Batch)
      <4>1. Batches(task.name) = 4
        BY <2>1 DEF Batches, Sides, Matrices
      <4>2. task.batches \in Seq(Batch) /\ Len(task.batches) \in Nat
        BY <2>1 DEF Task
      <4>3. Len(task.batches) <= 4
        BY <2>1, <4>1 DEF Typed
      <4>4. ~(Len(task.batches) < 4)
        BY <2>1, <4>1 DEF Unfinished
      <4>5. \A n \in Nat : n <= 4 /\ ~(n < 4) => n = 4
        OBVIOUS
      <4>6. QED
        BY <4>2, <4>3, <4>4, <4>5
    <3>2. task.batches[1] \in Batch
      BY <3>1
    <3>3. QED
      BY <3>2 DEF Batch
  <2>4. QED
    BY <1>6, <1>8, <2>1, <2>2, <2>3, FileOfTask, VerdictsAreStatuses DEF HistoricalEnds, Over
<1>9. CASE Pair
  <2>1. DOMAIN files' = FileNames /\ files'.build = files.build
        /\ \A name \in Tasks : files'[name] = files[name]
    BY <1>9, FieldsApart DEF Pair, Typed, FileNames
  <2>2. QED
    BY <1>9, <2>1 DEF Pair, Typed, Matrices
<1>10. CASE Seals
  <2>1. DOMAIN files' = FileNames /\ files'.build = files.build
        /\ \A name \in Tasks : files'[name] = files[name]
    <3>1. CASE SealCorpus
      BY <3>1, FieldsApart DEF SealCorpus, Typed, FileNames
    <3>2. CASE SealHistorical
      BY <3>2, FieldsApart DEF SealHistorical, Typed, FileNames
    <3>3. QED
      BY <1>10, <3>1, <3>2 DEF Seals
  <2>2. QED
    BY <1>10, <2>1 DEF Seals, SealCorpus, SealHistorical, Typed
<1>11. CASE UNCHANGED vars
  BY <1>11 DEF vars, Typed
<1>12. QED
  BY <1>1, <1>2, <1>3, <1>4, <1>5, <1>7, <1>8, <1>9, <1>10, <1>11, EvidenceCases

\* A response never names a simulator that was installed after it, nor one older
\* than what an earlier response named.
LEMMA InTimeKept ==
  ASSUME EvidenceInv, [Next]_vars
  PROVE  InTime'
<1> USE DEF EvidenceInv
<1>1. CASE Rebuilds
  <2>1. UNCHANGED task /\ \A c \in Checkouts : installed[c] \in Nat /\ installed'[c] \in Nat
                                              /\ installed[c] <= installed'[c]
    <3>1. PICK c \in Checkouts : installed' = [installed EXCEPT ![c] = @ + 1] /\ UNCHANGED task
      BY <1>1 DEF Rebuilds, Rebuild, Checkouts
    <3>2. QED
      BY <3>1, EvidenceFacts DEF Typed
  <2>2. SUFFICES ASSUME task # None PROVE InTime'
    BY <2>1 DEF InTime
  <2>3. task \in Task
    BY <2>2 DEF Typed
  <2>4. Checkout(task.name) \in Checkouts /\ task.since \in Nat
    BY <2>3, EvidenceFacts DEF Task
  <2>5. \A i \in 1..Len(task.batches) : task.batches[i] \in Batch
    BY <2>3 DEF Task
  <2>6. \A i \in 1..Len(task.batches) : task.batches[i].simulator \in Nat
    BY <2>5, EvidenceFacts DEF Batch
  <2>7. QED
    BY <2>1, <2>2, <2>4, <2>6 DEF InTime
<1>2. CASE SendBatch
  <2>1. /\ task \in Task /\ task.since = 0
        /\ task' = [task EXCEPT !.since = installed[Checkout(task.name)]] /\ UNCHANGED installed
    BY <1>2 DEF SendBatch, Unfinished, Typed
  <2>2. /\ task'.name = task.name /\ task'.batches = task.batches
        /\ task'.since = installed[Checkout(task.name)]
    BY <2>1 DEF Task
  <2>3. installed[Checkout(task.name)] \in 1..MaxBuilds
    BY <2>1, EvidenceFacts DEF Typed, Task
  <2>4. task # None
    BY <1>2 DEF SendBatch, Unfinished
  <2>5. QED
    BY <2>1, <2>2, <2>3, <2>4, EvidenceFacts DEF InTime
<1>3. CASE ReceiveBatch
  <2> DEFINE top == installed[Checkout(task.name)]
             n == Len(task.batches)
  <2>1. task # None /\ task \in Task /\ task.since # 0 /\ UNCHANGED installed
    BY <1>3 DEF ReceiveBatch, Unfinished, Typed
  <2>2. PICK hash \in task.since..top, status \in VerdictsOfBatch(task.name) :
             \E oldest \in task.since..hash :
               task' = [task EXCEPT !.since = 0, !.batches = Append(@,
                          [simulator |-> hash, oldest |-> oldest, status |-> status])]
    BY <1>3 DEF ReceiveBatch
  <2>3. PICK oldest \in task.since..hash :
               task' = [task EXCEPT !.since = 0, !.batches = Append(@,
                          [simulator |-> hash, oldest |-> oldest, status |-> status])]
    BY <2>2
  <2> DEFINE batch == [simulator |-> hash, oldest |-> oldest, status |-> status]
             next == Append(task.batches, batch)
  <2>4. task'.name = task.name /\ task'.since = 0 /\ task'.batches = next
    BY <2>1, <2>3 DEF Task
  <2>5. task.since \in Nat /\ top \in Nat /\ hash \in Nat /\ oldest \in Nat
        /\ task.since <= oldest /\ oldest <= hash /\ hash <= top
    <3>1. task.since \in Nat /\ top \in Nat
      BY <2>1, EvidenceFacts DEF Typed, Task
    <3>2. QED
      BY <2>2, <2>3, <3>1
  <2>6. task.batches \in Seq(Batch) /\ n \in Nat
    BY <2>1 DEF Task
  <2>7. Len(next) = n + 1 /\ next[n + 1] = batch /\ \A i \in 1..n : next[i] = task.batches[i]
    BY <2>6
  <2>8. batch.simulator = hash /\ batch.oldest = oldest
    OBVIOUS
  <2> HIDE DEF batch, next
  <2>9. \A i \in 1..n : task.batches[i].simulator <= task.since /\ task.batches[i].simulator \in Nat
    <3>1. \A i \in 1..n : task.batches[i] \in Batch
      BY <2>6
    <3>2. \A i \in 1..n : task.batches[i].simulator \in Nat
      BY <3>1, EvidenceFacts DEF Batch
    <3>3. QED
      BY <2>1, <3>2 DEF InTime
  <2>10. Ordered(next)
    <3>1. SUFFICES ASSUME NEW j \in 1..(n + 1)
                   PROVE  /\ next[j].oldest <= next[j].simulator
                          /\ \A i \in 1..(j - 1) : next[i].simulator <= next[j].oldest
      BY <2>7 DEF Ordered
    <3>2. CASE j = n + 1
      <4>1. ASSUME NEW i \in 1..n PROVE next[i].simulator <= oldest
        <5>1. next[i].simulator <= task.since /\ next[i].simulator \in Nat
          BY <2>7, <2>9
        <5>2. QED
          BY <2>5, <5>1
      <4>2. QED
        BY <2>5, <2>6, <2>7, <2>8, <3>2, <4>1
    <3>3. CASE j \in 1..n
      <4>1. \A i \in 1..(j - 1) : i \in 1..n
        BY <2>6, <3>3
      <4>2. QED
        BY <2>1, <2>7, <3>3, <4>1 DEF InTime, Ordered
    <3>4. QED
      BY <2>6, <3>2, <3>3
  <2>11. \A i \in 1..(n + 1) : next[i].simulator <= top
    <3>1. ASSUME NEW i \in 1..n PROVE next[i].simulator <= top
      <4>1. next[i].simulator <= task.since /\ next[i].simulator \in Nat
        BY <2>7, <2>9
      <4>2. QED
        BY <2>5, <4>1
    <3>2. QED
      BY <2>5, <2>6, <2>7, <2>8, <3>1
  <2>12. 0 <= top
    BY <2>5
  <2> HIDE DEF n
  <2>13. QED
    BY <2>1, <2>4, <2>7, <2>10, <2>11, <2>12 DEF InTime
<1>4. CASE Quiet \/ MatrixEnds \/ CorpusEnds \/ HistoricalEnds
  <2>1. task' = None
    BY <1>4 DEF Quiet, BatchFails, MatrixRaises, Crash, MatrixEnds, CorpusEnds, HistoricalEnds, Over
  <2>2. QED
    BY <2>1 DEF InTime
<1>5. CASE Starts
  <2>1. PICK name \in Tasks :
          task' = [name |-> name, since |-> 0, batches |-> <<>>] /\ UNCHANGED installed
    BY <1>5 DEF Starts, StartControl, StartSecondMatrix, StartCorpus, StartHistorical, Start,
       Tasks, Matrices
  <2>2. installed[Checkout(name)] \in 1..MaxBuilds
    BY EvidenceFacts DEF Typed
  <2>3. task'.name = name /\ task'.since = 0 /\ task'.batches = <<>>
    BY <2>1
  <2>4. QED
    BY <2>1, <2>2, <2>3, EvidenceFacts DEF InTime, Ordered
<1>6. CASE Pair \/ Seals \/ UNCHANGED vars
  BY <1>6 DEF Pair, Seals, SealCorpus, SealHistorical, vars, InTime
<1>7. QED
  BY <1>1, <1>2, <1>3, <1>4, <1>5, <1>6, EvidenceCases

\* A finished matrix or corpus is filed only if every response named the installed
\* simulator.
LEMMA FileMade ==
  ASSUME EvidenceInv, task # None, AllAreInstalled(task.batches, installed.pinned)
  PROVE  MadeBy(File(task.batches), File(task.batches).simulator)
<1>1. task.batches \in Seq(Batch) /\ Ordered(task.batches)
  BY DEF EvidenceInv, Typed, InTime, Task
<1>2. Simulators(task.batches) = {installed.pinned}
  BY DEF AllAreInstalled
<1>3. \A i \in 2..Len(task.batches) : task.batches[i].oldest = installed.pinned
  BY <1>1, <1>2, OrderedByOne
<1>4. QED
  BY <1>2, <1>3 DEF MadeBy, File

LEMMA FilesKept ==
  ASSUME EvidenceInv, [Next]_vars
  PROVE  FilesMade'
<1> USE DEF EvidenceInv
<1>1. DOMAIN files = FileNames /\ Tasks \subseteq FileNames
  BY FieldsApart DEF Typed
<1>2. CASE \A name \in Tasks : files'[name] = files[name]
  BY <1>2 DEF FilesMade, Tasks
<1>3. CASE Rebuilds
  <2>1. \A name \in Tasks : files'[name] = files[name]
    BY <1>1, <1>3, FieldsApart DEF Rebuilds, Rebuild
  <2>2. QED
    BY <1>2, <2>1
<1>4. CASE Pair \/ Seals
  <2>1. \A name \in Tasks : files'[name] = files[name]
    BY <1>1, <1>4, FieldsApart DEF Pair, Seals, SealCorpus, SealHistorical
  <2>2. QED
    BY <1>2, <2>1
<1>5. CASE MatrixEnds \/ CorpusEnds
  <2>1. task # None /\ task.name \in Matrices \cup {"corpus"}
    BY <1>5 DEF MatrixEnds, CorpusEnds, Finished
  <2>2. CASE files' = files
    BY <1>2, <2>2
  <2>3. CASE /\ AllAreInstalled(task.batches, installed.pinned)
             /\ files' = [files EXCEPT ![task.name] = File(task.batches)]
    <3>1. files'[task.name] = File(task.batches)
      BY <1>1, <2>1, <2>3 DEF Tasks
    <3>2. \A name \in Tasks : name # task.name => files'[name] = files[name]
      BY <1>1, <2>3
    <3>3. MadeBy(files'[task.name], files'[task.name].simulator)
      BY <2>1, <2>3, <3>1, FileMade
    <3>4. task.name \notin Sides
      BY <2>1 DEF Matrices, Sides
    <3>5. QED
      BY <3>2, <3>3, <3>4 DEF FilesMade, Tasks
  <2>4. QED
    BY <1>5, <2>2, <2>3 DEF MatrixEnds, CorpusEnds, Finished
<1>6. CASE HistoricalEnds
  <2>1. task # None /\ task.name \in Sides
    BY <1>6 DEF HistoricalEnds, Finished
  <2>2. PICK file : files' = [files EXCEPT ![task.name] = file] /\ file.batches = task.batches
    <3>1. PICK status \in Verdicts :
            files' = [files EXCEPT ![task.name] =
                        [simulator |-> task.batches[1].simulator, batches |-> task.batches,
                         status |-> status]]
      BY <1>6 DEF HistoricalEnds
    <3> DEFINE made == [simulator |-> task.batches[1].simulator, batches |-> task.batches,
                        status |-> status]
    <3>2. made.batches = task.batches
      OBVIOUS
    <3>3. files' = [files EXCEPT ![task.name] = made]
      BY <3>1
    <3> HIDE DEF made
    <3>4. QED
      BY <3>2, <3>3
  <2>3. files'[task.name] = file /\ \A name \in Tasks : name # task.name => files'[name] = files[name]
    BY <1>1, <2>1, <2>2 DEF Tasks
  <2>4. Ordered(files'[task.name].batches)
    BY <2>1, <2>2, <2>3 DEF InTime
  <2>5. task.name \notin Matrices \cup {"corpus"}
    BY <2>1 DEF Matrices, Sides
  <2>6. QED
    BY <2>3, <2>4, <2>5 DEF FilesMade, Tasks
<1>7. CASE SendBatch \/ ReceiveBatch \/ Quiet \/ Starts \/ UNCHANGED vars
  BY <1>2, <1>7 DEF SendBatch, ReceiveBatch, Quiet, BatchFails, MatrixRaises, Crash, Starts,
     StartControl, StartSecondMatrix, StartCorpus, StartHistorical, vars
<1>8. QED
  BY <1>3, <1>4, <1>5, <1>6, <1>7, EvidenceCases

LEMMA EvidenceInductive == Spec => []EvidenceInv
<1>1. Init => EvidenceInv
  <2>1. ASSUME Init PROVE Typed
    <3>1. installed \in [Checkouts -> 1..MaxBuilds] /\ files.build \in [Sides -> 1..MaxBuilds]
      BY <2>1, EvidenceFacts DEF Init
    <3>2. DOMAIN files = FileNames /\ \A name \in Tasks : files[name] = None
      BY <2>1, FieldsApart DEF Init, FileNames
    <3>3. QED
      BY <2>1, <3>1, <3>2 DEF Init, Typed
  <2>2. ASSUME Init PROVE InTime /\ FilesMade
    BY <2>2 DEF Init, InTime, FilesMade, Matrices, Sides
  <2>3. QED
    BY <2>1, <2>2 DEF EvidenceInv
<1>2. EvidenceInv /\ [Next]_vars => EvidenceInv'
  BY TypedKept, InTimeKept, FilesKept DEF EvidenceInv
<1>3. QED
  BY <1>1, <1>2, PTL DEF Spec

\* Only the pairing writes the control, and only the sealing the seal.
LEMMA OthersKept ==
  ASSUME EvidenceInv, [Next]_vars
  PROVE  /\ Pair \/ files'.control = files.control
         /\ Seals \/ files'.seal = files.seal
<1>1. DOMAIN files = FileNames /\ {"control", "seal"} \subseteq FileNames
      /\ {"control", "seal"} \cap Tasks = {} /\ (task # None => task.name \in Tasks)
  BY FieldsApart DEF EvidenceInv, Typed, Task, FileNames
<1>2. CASE MatrixEnds \/ CorpusEnds \/ HistoricalEnds
  BY <1>1, <1>2 DEF MatrixEnds, CorpusEnds, HistoricalEnds, Finished
<1>3. CASE Rebuilds
  <2>1. \/ files' = files
        \/ \E build : files' = [files EXCEPT !.build = build]
    BY <1>3 DEF Rebuilds, Rebuild
  <2>2. QED
    BY <1>1, <2>1
<1>4. CASE Seals
  <2>1. \E seal : files' = [files EXCEPT !.seal = seal]
    BY <1>4 DEF Seals, SealCorpus, SealHistorical
  <2>2. QED
    BY <1>1, <1>4, <2>1
<1>5. CASE Pair
  <2>1. files' = files \/ \E control : files' = [files EXCEPT !.control = control]
    BY <1>5 DEF Pair
  <2>2. QED
    BY <1>1, <1>5, <2>1
<1>6. CASE SendBatch \/ ReceiveBatch \/ Quiet \/ Starts \/ UNCHANGED vars
  BY <1>6 DEF SendBatch, ReceiveBatch, Quiet, BatchFails, MatrixRaises, Crash, Starts,
     StartControl, StartSecondMatrix, StartCorpus, StartHistorical, vars
<1>7. QED
  BY <1>2, <1>3, <1>4, <1>5, <1>6, EvidenceCases

-----------------------------------------------------------------------------
\* The campaigns' variables keep their types.
THEOREM EvidenceTypeCorrect == Spec => []TypeOK
<1>1. EvidenceInv => TypeOK
  BY DEF EvidenceInv, Typed, TypeOK, Task, Tasks
<1>2. QED
  BY <1>1, EvidenceInductive, PTL

\* The pair the positive control files is a violation and its clean repair, each made
\* by the one simulator it names but for its first batch, whatever run died with which
\* exit status in between (run_positive_control.py:47 and 64-81).
THEOREM ControlPairsOne == Spec => []ControlPairsOneSimulator
<1>1. Init => ControlPairsOneSimulator
  BY DEF Init, ControlPairsOneSimulator
<1>2. ASSUME EvidenceInv, ControlPairsOneSimulator, [Next]_vars PROVE ControlPairsOneSimulator'
  <2>1. DOMAIN files = FileNames /\ "control" \in FileNames /\ "control" \notin Tasks
        /\ (task # None => task.name \in Tasks)
    BY <1>2, FieldsApart DEF EvidenceInv, Typed, FileNames, Task
  <2>2. CASE Pair /\ Validated(files.mutated, files.fixed)
    <3>1. files' = [files EXCEPT !.control = [mutated |-> files.mutated, fixed |-> files.fixed,
                                              simulator |-> files.mutated.simulator]]
      BY <2>2 DEF Pair
    <3>2. files'.control = [mutated |-> files.mutated, fixed |-> files.fixed,
                            simulator |-> files.mutated.simulator]
      BY <2>1, <3>1
    <3>3. /\ files.mutated # None /\ files.fixed # None
          /\ files.mutated.simulator = files.fixed.simulator
          /\ files.mutated.status = "violation" /\ files.fixed.status = "clean"
      BY <2>2 DEF Validated, SameRun
    <3>4. /\ MadeBy(files.mutated, files.mutated.simulator)
          /\ MadeBy(files.fixed, files.mutated.simulator)
      BY <1>2, <3>3 DEF EvidenceInv, FilesMade, Matrices
    <3>5. QED
      BY <3>2, <3>3, <3>4 DEF ControlPairsOneSimulator, Matrices
  <2>3. CASE files'.control = files.control
    BY <1>2, <2>3 DEF ControlPairsOneSimulator
  <2>4. CASE ~(Pair /\ Validated(files.mutated, files.fixed))
    <3>1. files'.control = files.control
      <4>1. CASE Pair
        BY <2>4, <4>1 DEF Pair
      <4>2. QED
        BY <1>2, <4>1, OthersKept
    <3>2. QED
      BY <2>3, <3>1
  <2>5. QED
    BY <2>2, <2>4
<1>3. QED
  BY <1>1, <1>2, EvidenceInductive, PTL DEF Spec

LEMMA CampaignStays == [Next]_vars => campaign' = campaign
  BY EvidenceCases DEF Rebuilds, Rebuild, SendBatch, ReceiveBatch, Quiet, BatchFails, MatrixRaises,
     Crash, Starts, StartControl, StartSecondMatrix, StartCorpus, StartHistorical, MatrixEnds,
     CorpusEnds, HistoricalEnds, Pair, Seals, SealCorpus, SealHistorical, vars

LEMMA SealAgreesWithItsFiles ==
  ASSUME EvidenceInv, ControlPairsOneSimulator, SealCorpus
  PROVE  /\ MadeBy(files'.seal.corpus, files'.seal.control.simulator)
         /\ \A name \in Matrices : MadeBy(files'.seal.control[name], files'.seal.control.simulator)
<1>1. /\ files.corpus # None /\ files.control # None
      /\ files.corpus.simulator = files.control.simulator
      /\ files' = [files EXCEPT !.seal = [corpus |-> files.corpus, control |-> files.control]]
  BY DEF SealCorpus, Sealable
<1>2. files'.seal = [corpus |-> files.corpus, control |-> files.control]
  BY <1>1 DEF EvidenceInv, Typed, FileNames
<1>3. MadeBy(files.corpus, files.corpus.simulator)
  BY <1>1 DEF EvidenceInv, FilesMade
<1>4. \A name \in Matrices : MadeBy(files.control[name], files.control.simulator)
  BY <1>1 DEF ControlPairsOneSimulator
<1>5. QED
  BY <1>1, <1>2, <1>3, <1>4

\* A seal binds a corpus and a control that observed one simulator, the one their
\* files name (seal_attack_corpus.py:49-51, run_secure_matrix.py:174-194).
THEOREM SealBindsOne == Spec => []SealBindsOneSimulator
<1>1. Init => SealBindsOneSimulator
  BY DEF Init, SealBindsOneSimulator
<1>2. ASSUME EvidenceInv, ControlPairsOneSimulator, SealBindsOneSimulator, [Next]_vars
      PROVE  SealBindsOneSimulator'
  <2>1. CASE SealCorpus
    BY <1>2, <2>1, SealAgreesWithItsFiles DEF SealBindsOneSimulator
  <2>2. CASE SealHistorical
    BY <2>2 DEF SealHistorical, SealBindsOneSimulator
  <2>3. CASE ~Seals
    <3>1. files'.seal = files.seal
      BY <1>2, <2>3, OthersKept
    <3>2. campaign' = campaign
      BY <1>2, CampaignStays
    <3>3. QED
      BY <1>2, <3>1, <3>2 DEF SealBindsOneSimulator
  <2>4. QED
    BY <2>1, <2>2, <2>3 DEF Seals
<1>3. QED
  BY <1>1, <1>2, EvidenceInductive, ControlPairsOne, PTL DEF Spec

\* A side that is sealed ran the documented build of its side in every batch after the
\* first.
LEMMA SealedSideMade ==
  ASSUME EvidenceInv, SealHistorical, NEW s \in Sides
  PROVE  MadeBy(files[s], files.build[s])
<1>1. files[s] # None /\ Simulators(files[s].batches) = {files.build[s]}
  BY DEF SealHistorical, RunsMatch
<1>2. Ordered(files[s].batches) /\ files[s] \in Evidences(s)
  BY <1>1 DEF EvidenceInv, Typed, FilesMade, Tasks
<1>3. files[s].batches \in [1..Batches(s) -> Batch] /\ Batches(s) \in Nat
  BY <1>2, EvidenceFacts DEF Evidences, Tasks
<1>4. files[s].batches \in Seq(Batch)
  BY <1>3
<1>5. \A i \in 2..Len(files[s].batches) : files[s].batches[i].oldest = files.build[s]
  BY <1>1, <1>2, <1>4, OrderedByOne
<1>6. QED
  BY <1>1, <1>5 DEF MadeBy

\* A validated repair is sealed only of the documented builds: the baseline's violates,
\* the repaired one's is clean (seal_historical_issue_715.py:59-63, 81-89 and 124-138).
THEOREM ValidatedRepairDocumented == Spec => []ValidatedRepairIsDocumented
<1>1. Init => ValidatedRepairIsDocumented
  BY DEF Init, ValidatedRepairIsDocumented
<1>2. ASSUME EvidenceInv, ValidatedRepairIsDocumented, [Next]_vars
      PROVE  ValidatedRepairIsDocumented'
  <2>1. CASE SealCorpus
    BY <2>1 DEF SealCorpus, ValidatedRepairIsDocumented
  <2>2. CASE SealHistorical
    <3>1. files' = [files EXCEPT !.seal = [baseline |-> files.baseline, repaired |-> files.repaired,
                                           build |-> files.build]]
      BY <2>2 DEF SealHistorical
    <3>2. files'.seal = [baseline |-> files.baseline, repaired |-> files.repaired,
                         build |-> files.build]
      BY <1>2, <3>1 DEF EvidenceInv, Typed, FileNames
    <3>3. files.baseline.status = "violation" /\ files.repaired.status = "clean"
      BY <2>2 DEF SealHistorical
    <3>4. \A s \in Sides : MadeBy(files[s], files.build[s])
      BY <1>2, <2>2, SealedSideMade
    <3>5. \A s \in Sides : files'.seal[s] = files[s]
      BY <3>2 DEF Sides
    <3>6. QED
      BY <3>2, <3>3, <3>4, <3>5 DEF ValidatedRepairIsDocumented
  <2>3. CASE ~Seals
    <3>1. files'.seal = files.seal /\ campaign' = campaign
      BY <1>2, <2>3, OthersKept, CampaignStays
    <3>2. QED
      BY <1>2, <3>1 DEF ValidatedRepairIsDocumented
  <2>4. QED
    BY <2>1, <2>2, <2>3 DEF Seals
<1>3. QED
  BY <1>1, <1>2, EvidenceInductive, PTL DEF Spec

-----------------------------------------------------------------------------
(* Witness: the first resolution is a least number.                        *)

\* No injection takes a finite set into itself without one of its elements.
LEMMA NoDescent ==
  ASSUME NEW D, IsFiniteSet(D), NEW k \in D, NEW f \in [D -> D \ {k}],
         \A x, y \in D : f[x] = f[y] => x = y
  PROVE  FALSE
<1>1. IsFiniteSet(D \ {k}) /\ Cardinality(D \ {k}) = Cardinality(D) - 1
  BY FS_RemoveElement
<1>2. Cardinality(D \ {k}) < Cardinality(D)
  BY <1>1, FS_CardinalityType
<1>3. QED
  BY <1>1, <1>2, FS_PigeonHole

\* Induction with a set for the predicate: what holds zero and each successor of
\* a member holds every natural number.
LEMMA Upward ==
  ASSUME NEW S, 0 \in S, \A n \in Nat : n \in S => n + 1 \in S
  PROVE  Nat \subseteq S
<1>1. SUFFICES ASSUME NEW k \in Nat, k \notin S PROVE FALSE
  OBVIOUS
<1> DEFINE D == {n \in 0..k : n \notin S}
           f == [n \in D |-> n - 1]
<1>2. IsFiniteSet(D)
  <2>1. IsFiniteSet(0..k)
    BY FS_Interval
  <2>2. QED
    BY <2>1, FS_Subset
<1>3. f \in [D -> D \ {k}]
  <2>1. \A n \in D : n # 0 /\ n - 1 \in Nat /\ n - 1 \notin S
    <3>1. TAKE n \in D
    <3>2. n # 0
      OBVIOUS
    <3>3. n - 1 \in Nat /\ (n - 1) + 1 = n
      BY <3>2
    <3>4. QED
      BY <3>2, <3>3
  <2>2. QED
    BY <1>1, <2>1
<1>4. k \in D /\ \A x, y \in D : f[x] = f[y] => x = y
  BY <1>1
<1> HIDE DEF D, f
<1>5. QED
  BY <1>2, <1>3, <1>4, NoDescent

\* Every non-empty set of natural numbers has a least element.
LEMMA LeastExists ==
  ASSUME NEW S \in SUBSET Nat, S # {}
  PROVE  \E n \in S : \A m \in S : n <= m
<1>1. SUFFICES ASSUME \A n \in S : \E m \in S : m < n PROVE FALSE
  OBVIOUS
<1> DEFINE below == {n \in Nat : \A m \in S : n < m}
<1>2. 0 \in below
  BY <1>1
<1>3. ASSUME NEW n \in Nat, n \in below PROVE n + 1 \in below
  BY <1>1, <1>3
<1>4. Nat \subseteq below
  <2> HIDE DEF below
  <2>1. QED
    BY <1>2, <1>3, Upward
<1>5. \A n \in S : n \in below
  BY <1>4
<1>6. PICK n \in S : TRUE
  OBVIOUS
<1>7. n \in Nat /\ n < n
  BY <1>5
<1>8. QED
  BY <1>7

LEMMA MinIsLeast ==
  ASSUME NEW S \in SUBSET Nat, S # {}
  PROVE  Min(S) \in S /\ \A m \in S : Min(S) <= m
<1>1. \E n \in S : \A m \in S : n <= m
  BY LeastExists
<1>2. QED
  BY <1>1, Zenon DEF Min

-----------------------------------------------------------------------------
Sighting == [load : born, cycle : 1..MaxCycles]
Sightings ==
  [branch : 0..MaxCycles, first : 0..MaxCycles, second : 0..MaxCycles,
   dispatches : SUBSET Sighting, exes : SUBSET Sighting, requests : SUBSET Sighting,
   faults : SUBSET Sighting, mispredicts : SUBSET (1..MaxCycles)]

TraceTyped ==
  /\ core \in Cores /\ cycle \in 0..MaxCycles
  /\ born \subseteq {core[i] : i \in DOMAIN core} /\ flying \subseteq born
  /\ seen \in Sightings
  /\ seen.exes \subseteq seen.requests

\* What has been seen was seen by now, and one request in a cycle.
Seens == seen.requests \cup seen.dispatches \cup seen.faults
InThePast ==
  /\ \A r \in Seens : r.cycle <= cycle
  /\ \A c \in seen.mispredicts : c <= cycle
  /\ \A r, q \in seen.requests : r.cycle = q.cycle => r = q

\* Loads are numbered in the order of their dispatch; of those that were given one
\* reorder-buffer entry only the last can be in flight, and only it can send a request.
Numbered == IsFiniteSet(born) /\ \A load \in born : load.id \in 1..Cardinality(born)
LastInFlight == \A a \in flying, b \in born : a.rob = b.rob => b.id <= a.id
LastRequests ==
  \A r \in seen.requests, d \in seen.dispatches :
    d.cycle <= r.cycle /\ r.load.rob = d.load.rob => d.load.id <= r.load.id

TraceInv == TraceTyped /\ InThePast /\ Numbered /\ LastInFlight /\ LastRequests

LEMMA LoadFacts ==
  ASSUME TraceTyped
  PROVE  /\ core \in Seq(Load) /\ MaxCycles \in Nat
         /\ \A i \in 1..Len(core) : core[i] \in Load /\ core[i].id = i
         /\ \A load \in born : load.id \in Nat
<1>1. core \in Seq(Load) /\ MaxCycles \in Nat /\ \A i \in DOMAIN core : core[i].id = i
  BY WitnessAssumption DEF WitnessAssumption, TraceTyped
<1>2. \A i \in 1..Len(core) : core[i] \in Load /\ core[i].id = i
  BY <1>1
<1>3. DOMAIN core = 1..Len(core) /\ Len(core) \in Nat
  BY <1>1
<1>4. QED
  BY <1>1, <1>2, <1>3 DEF TraceTyped

\* What a step of the core adds to what scan has seen, all of it in the new cycle.
Added(old, new) == \A x \in new : x \in old \/ x.cycle = cycle'
Grows ==
  /\ cycle' = cycle + 1
  /\ seen' \in Sightings'
  /\ seen.requests \subseteq seen'.requests /\ Added(seen.requests, seen'.requests)
  /\ seen.faults \subseteq seen'.faults /\ Added(seen.faults, seen'.faults)
  /\ seen.dispatches \subseteq seen'.dispatches /\ Added(seen.dispatches, seen'.dispatches)
  /\ seen'.mispredicts \in {seen.mispredicts, seen.mispredicts \cup {cycle'}}
  /\ seen'.branch \in {seen.branch, First(seen.branch)}
  /\ seen'.first \in {seen.first, First(seen.first)}
  /\ seen'.second \in {seen.second, First(seen.second)}

LEMMA TraceCases ==
  ASSUME [TraceNext]_traceVars
  PROVE  \/ FetchBranch \/ FetchGadget \/ Dispatch
         \/ \E load \in flying : Execute(load) \/ Retry(load) \/ Fault(load) \/ Leave(load)
         \/ \E bit : Mispredict(bit)
         \/ UNCHANGED traceVars
  BY DEF TraceNext

\* A step that lets a cycle pass, by what it records.
Records == FetchBranch \/ FetchGadget \/ Dispatch
           \/ (\E load \in flying : Execute(load) \/ Retry(load) \/ Fault(load))
           \/ \E bit : Mispredict(bit)

\* The dispatch of the next load.
LEMMA NextLoad ==
  ASSUME TraceTyped, Numbered, Dispatch, NEW load, load = core[Cardinality(born) + 1]
  PROVE  /\ load \in Load /\ load.id = Cardinality(born) + 1 /\ load \notin born
         /\ load \in {core[i] : i \in DOMAIN core}
         /\ \A other \in born : other.id < load.id
<1>1. Cardinality(born) \in Nat /\ Cardinality(born) < Len(core)
  BY FS_CardinalityType DEF Numbered, Dispatch
<1>2. Cardinality(born) + 1 \in 1..Len(core) /\ DOMAIN core = 1..Len(core) /\ Len(core) \in Nat
  BY <1>1, LoadFacts
<1>3. load \in Load /\ load.id = Cardinality(born) + 1
  BY <1>2, LoadFacts
<1>4. \A other \in born : other.id < load.id
  BY <1>1, <1>3 DEF Numbered
<1>5. QED
  BY <1>2, <1>3, <1>4

LEMMA RecordsGrow ==
  ASSUME TraceInv, Records
  PROVE  Grows /\ core' = core /\ cycle' \in 1..MaxCycles /\ born \subseteq born'
<1> USE DEF TraceInv
<1>1. Tick => cycle' = cycle + 1 /\ cycle' \in 1..MaxCycles
  BY LoadFacts DEF TraceTyped, Tick
<1>2. \A old \in 0..MaxCycles : Tick => First(old) \in 0..MaxCycles
  BY <1>1 DEF First
<1>3. seen \in Sightings
  BY DEF TraceTyped
<1>4. ASSUME born \subseteq born' PROVE seen \in Sightings'
  BY <1>3, <1>4 DEF Sightings, Sighting
<1>5. CASE FetchBranch
  <2>1. Tick /\ seen' = [seen EXCEPT !.branch = First(seen.branch)] /\ UNCHANGED <<core, born>>
    BY <1>5 DEF FetchBranch, Notes
  <2>2. seen' \in Sightings'
    BY <1>2, <1>3, <2>1 DEF Sightings, Sighting
  <2>3. QED
    BY <1>1, <1>3, <2>1, <2>2 DEF Grows, Added, Sightings
<1>6. CASE FetchGadget
  <2>1. /\ Tick /\ UNCHANGED <<core, born>>
        /\ \/ seen' = [seen EXCEPT !.first = First(seen.first)]
           \/ seen' = [seen EXCEPT !.second = First(seen.second)]
    BY <1>6 DEF FetchGadget, Notes
  <2>2. seen' \in Sightings'
    BY <1>2, <1>3, <2>1 DEF Sightings, Sighting
  <2>3. QED
    BY <1>1, <1>3, <2>1, <2>2 DEF Grows, Added, Sightings
<1>7. CASE Dispatch
  <2> DEFINE load == core[Cardinality(born) + 1]
             note == Seen(load)
  <2>1. /\ Tick /\ core' = core /\ born' = born \cup {load}
        /\ seen' \in {seen, [seen EXCEPT !.dispatches = @ \cup {note}]}
    BY <1>7 DEF Dispatch, Notes
  <2>2. note \in Sighting' /\ note.cycle = cycle'
    BY <1>1, <2>1 DEF Sighting, Seen
  <2> HIDE DEF note, load
  <2>3. seen \in Sightings'
    BY <1>4, <2>1
  <2>4. seen' \in Sightings'
    BY <2>1, <2>2, <2>3 DEF Sightings
  <2>5. QED
    BY <1>1, <1>3, <2>1, <2>2, <2>4 DEF Grows, Added, Sightings
\* The three that send a request or report a fault.
<1>8. ASSUME NEW load \in flying, Execute(load) \/ Retry(load) \/ Fault(load)
      PROVE  Grows /\ core' = core /\ cycle' \in 1..MaxCycles /\ born \subseteq born'
  <2> DEFINE note == Seen(load)
  <2>1. /\ Tick /\ core' = core /\ born' = born
        /\ \/ seen' = [seen EXCEPT !.requests = @ \cup {note}, !.exes = @ \cup {note}]
           \/ seen' = [seen EXCEPT !.requests = @ \cup {note}, !.exes = @]
           \/ seen' = [seen EXCEPT !.requests = @ \cup {note}]
           \/ seen' = [seen EXCEPT !.faults = @ \cup {note}]
    BY <1>8 DEF Execute, Retry, Fault, Notes
  <2>2. note \in Sighting /\ note.cycle = cycle' /\ Sightings' = Sightings
    BY <1>1, <2>1 DEF Sighting, Sightings, Seen, TraceTyped
  <2> HIDE DEF note
  <2>3. /\ seen'.requests \in {seen.requests, seen.requests \cup {note}}
        /\ seen'.faults \in {seen.faults, seen.faults \cup {note}}
        /\ seen'.dispatches = seen.dispatches /\ seen'.mispredicts = seen.mispredicts
        /\ seen'.branch = seen.branch /\ seen'.first = seen.first /\ seen'.second = seen.second
    BY <1>3, <2>1 DEF Sightings
  <2>4. seen' \in Sightings'
    BY <1>3, <2>1, <2>2 DEF Sightings
  <2>5. \A old, new : new \in {old, old \cup {note}} => old \subseteq new /\ Added(old, new)
    BY <2>2 DEF Added
  <2>6. /\ seen.requests \subseteq seen'.requests /\ Added(seen.requests, seen'.requests)
        /\ seen.faults \subseteq seen'.faults /\ Added(seen.faults, seen'.faults)
        /\ seen.dispatches \subseteq seen'.dispatches /\ Added(seen.dispatches, seen'.dispatches)
    BY <2>3, <2>5
  <2>7. QED
    BY <1>1, <2>1, <2>3, <2>4, <2>6 DEF Grows
<1>9. ASSUME NEW bit, Mispredict(bit)
      PROVE  Grows /\ core' = core /\ cycle' \in 1..MaxCycles /\ born \subseteq born'
  <2>1. /\ Tick /\ UNCHANGED <<core, born>>
        /\ seen' = [seen EXCEPT !.mispredicts = @ \cup {cycle'}]
    BY <1>9 DEF Mispredict, Notes
  <2>2. seen' \in Sightings'
    BY <1>1, <1>3, <2>1 DEF Sightings, Sighting
  <2>3. QED
    BY <1>1, <1>3, <2>1, <2>2 DEF Grows, Added, Sightings
<1>10. QED
  BY <1>5, <1>6, <1>7, <1>8, <1>9 DEF Records

\* A step records, or a load leaves, or nothing happens.
LEMMA TraceSteps ==
  ASSUME [TraceNext]_traceVars
  PROVE  \/ Records
         \/ \E load \in flying : flying' = flying \ {load} /\ UNCHANGED <<core, cycle, born, seen>>
         \/ UNCHANGED traceVars
  BY TraceCases DEF Records, Leave

\* Loads in flight and requests: what a recording step makes of them.
LEMMA LoadsInFlight ==
  ASSUME TraceInv, Records
  PROVE  \/ /\ Dispatch /\ born' = born \cup {core[Cardinality(born) + 1]}
            /\ flying' = flying \cup {core[Cardinality(born) + 1]}
            /\ \A other \in flying : other.rob # core[Cardinality(born) + 1].rob
            /\ seen'.requests = seen.requests /\ seen'.exes = seen.exes
         \/ /\ born' = born /\ flying' \subseteq flying
            /\ seen'.dispatches = seen.dispatches
            /\ \/ seen'.requests = seen.requests /\ seen'.exes = seen.exes
               \/ \E load \in flying :
                    /\ seen'.requests = seen.requests \cup {Seen(load)}
                    /\ seen'.exes \subseteq seen.exes \cup {Seen(load)}
<1>0. seen \in Sightings
  BY DEF TraceInv, TraceTyped
<1>1. CASE Dispatch
  <2>1. /\ born' = born \cup {core[Cardinality(born) + 1]}
        /\ flying' = flying \cup {core[Cardinality(born) + 1]}
        /\ \A other \in flying : other.rob # core[Cardinality(born) + 1].rob
    BY <1>1 DEF Dispatch
  <2>2. \E new : seen' \in {seen, [seen EXCEPT !.dispatches = new]}
    BY <1>1 DEF Dispatch, Notes
  <2>3. seen'.requests = seen.requests /\ seen'.exes = seen.exes
    BY <1>0, <2>2 DEF Sightings
  <2>4. QED
    BY <1>1, <2>1, <2>3
<1>2. ASSUME NEW load \in flying, Execute(load) \/ Retry(load) \/ Fault(load)
      PROVE  /\ born' = born /\ flying' = flying /\ seen'.dispatches = seen.dispatches
             /\ \/ seen'.requests = seen.requests /\ seen'.exes = seen.exes
                \/ /\ seen'.requests = seen.requests \cup {Seen(load)}
                   /\ seen'.exes \subseteq seen.exes \cup {Seen(load)}
  <2> DEFINE note == Seen(load)
  <2>1. /\ born' = born /\ flying' = flying
        /\ \/ seen' = [seen EXCEPT !.requests = @ \cup {note}, !.exes = @ \cup {note}]
           \/ seen' = [seen EXCEPT !.requests = @ \cup {note}, !.exes = @]
           \/ seen' = [seen EXCEPT !.requests = @ \cup {note}]
           \/ \E faults : seen' = [seen EXCEPT !.faults = faults]
    BY <1>2 DEF Execute, Retry, Fault, Notes
  <2> HIDE DEF note
  <2>2. /\ seen'.dispatches = seen.dispatches
        /\ \/ seen'.requests = seen.requests /\ seen'.exes = seen.exes
           \/ seen'.requests = seen.requests \cup {note} /\ seen'.exes \subseteq seen.exes \cup {note}
    BY <1>0, <2>1 DEF Sightings
  <2>3. QED
    BY <2>1, <2>2 DEF note
<1>3. CASE FetchBranch \/ FetchGadget \/ \E bit : Mispredict(bit)
  <2>1. /\ born' = born /\ flying' \subseteq flying
        /\ \E new : \/ seen' = [seen EXCEPT !.branch = new]
                    \/ seen' = [seen EXCEPT !.first = new]
                    \/ seen' = [seen EXCEPT !.second = new]
                    \/ seen' = [seen EXCEPT !.mispredicts = new]
    BY <1>3 DEF FetchBranch, FetchGadget, Mispredict, Notes
  <2>2. seen'.requests = seen.requests /\ seen'.exes = seen.exes
        /\ seen'.dispatches = seen.dispatches
    BY <1>0, <2>1 DEF Sightings
  <2>3. QED
    BY <2>1, <2>2
<1>4. QED
  BY <1>1, <1>2, <1>3 DEF Records

LEMMA TraceTypedKept ==
  ASSUME TraceInv, Records
  PROVE  TraceTyped'
<1>1. Grows /\ core' = core /\ cycle' \in 1..MaxCycles
  BY RecordsGrow
<1>2. seen' \in Sightings' /\ cycle' \in 0..MaxCycles
  BY <1>1 DEF Grows
<1>3. seen'.exes \subseteq seen'.requests
  BY LoadsInFlight DEF TraceInv, TraceTyped
<1>4. CASE /\ Dispatch /\ born' = born \cup {core[Cardinality(born) + 1]}
           /\ flying' = flying \cup {core[Cardinality(born) + 1]}
  <2>1. core[Cardinality(born) + 1] \in {core[i] : i \in DOMAIN core}
    BY <1>4, NextLoad DEF TraceInv
  <2>2. QED
    BY <1>1, <1>2, <1>3, <1>4, <2>1 DEF TraceInv, TraceTyped
<1>5. CASE born' = born /\ flying' \subseteq flying
  BY <1>1, <1>2, <1>3, <1>5 DEF TraceInv, TraceTyped
<1>6. QED
  BY <1>4, <1>5, LoadsInFlight

LEMMA InThePastKept ==
  ASSUME TraceInv, Records
  PROVE  InThePast'
<1>1. Grows
  BY RecordsGrow
<1>2. cycle \in Nat /\ MaxCycles \in Nat /\ cycle' = cycle + 1 /\ seen \in Sightings
  BY <1>1, LoadFacts DEF Grows, TraceInv, TraceTyped
<1>3. \A r \in Seens : r.cycle \in Nat /\ r.cycle <= cycle /\ r.cycle # cycle'
  <2>1. \A r \in Seens : r \in Sighting
    BY <1>2 DEF Seens, Sightings
  <2>2. \A r \in Seens : r.cycle \in Nat
    BY <1>2, <2>1 DEF Sighting
  <2>3. QED
    BY <1>2, <2>2 DEF TraceInv, InThePast
<1>4. \A r \in Seens' : r.cycle <= cycle'
  <2>1. \A r \in Seens' : r \in Seens \/ r.cycle = cycle'
    BY <1>1 DEF Grows, Added, Seens
  <2>2. QED
    BY <1>2, <1>3, <2>1
<1>5. \A c \in seen'.mispredicts : c <= cycle'
  <2>1. \A c \in seen.mispredicts : c \in Nat /\ c <= cycle
    BY <1>2 DEF TraceInv, InThePast, Sightings
  <2>2. QED
    BY <1>1, <1>2, <2>1 DEF Grows
<1>6. \A r, q \in seen'.requests : r.cycle = q.cycle => r = q
  <2>1. PICK old, new : seen'.requests \subseteq seen.requests \cup {new} /\ old = new
    BY LoadsInFlight
  <2>2. \A r \in seen.requests : r.cycle # cycle'
    BY <1>3 DEF Seens
  <2>3. \A r \in seen'.requests : r \in seen.requests \/ r.cycle = cycle'
    BY <1>1 DEF Grows, Added
  <2>4. \A r, q \in seen.requests : r.cycle = q.cycle => r = q
    BY DEF TraceInv, InThePast
  <2>5. QED
    BY <2>1, <2>2, <2>3, <2>4
<1>7. QED
  BY <1>4, <1>5, <1>6 DEF InThePast

LEMMA NumberedKept ==
  ASSUME TraceInv, Records
  PROVE  Numbered' /\ LastInFlight'
<1> DEFINE load == core[Cardinality(born) + 1]
<1>1. CASE /\ Dispatch /\ born' = born \cup {load} /\ flying' = flying \cup {load}
           /\ \A other \in flying : other.rob # load.rob
  <2>1. /\ load.id = Cardinality(born) + 1 /\ load \notin born
        /\ \A other \in born : other.id < load.id
    BY <1>1, NextLoad DEF TraceInv
  <2> HIDE DEF load
  <2>2. IsFiniteSet(born') /\ Cardinality(born') = Cardinality(born) + 1 /\ Cardinality(born) \in Nat
    BY <1>1, <2>1, FS_AddElement, FS_CardinalityType DEF TraceInv, Numbered
  <2>3. \A other \in born : other.id \in 1..Cardinality(born)
    BY DEF TraceInv, Numbered
  <2>4. Numbered'
    <3>1. \A other \in born' : other.id \in 1..(Cardinality(born) + 1)
      BY <1>1, <2>1, <2>2, <2>3
    <3>2. QED
      BY <2>2, <3>1 DEF Numbered
  <2>5. \A a \in flying', b \in born' : a.rob = b.rob => b.id <= a.id
    <3>1. SUFFICES ASSUME NEW a \in flying', NEW b \in born', a.rob = b.rob PROVE b.id <= a.id
      OBVIOUS
    <3>2. CASE a \in flying /\ b \in born
      BY <3>1, <3>2 DEF TraceInv, LastInFlight
    <3>3. CASE a = load
      BY <1>1, <2>1, <2>2, <2>3, <3>3
    <3>4. CASE a \in flying /\ b = load
      BY <1>1, <3>1, <3>4
    <3>5. QED
      BY <1>1, <3>2, <3>3, <3>4
  <2>6. QED
    BY <2>4, <2>5 DEF LastInFlight
<1>2. CASE born' = born /\ flying' \subseteq flying
  BY <1>2 DEF TraceInv, Numbered, LastInFlight
<1>3. QED
  BY <1>1, <1>2, LoadsInFlight

LEMMA LastRequestsKept ==
  ASSUME TraceInv, Records
  PROVE  LastRequests'
<1>1. Grows /\ cycle' = cycle + 1 /\ cycle \in Nat
  BY RecordsGrow, LoadFacts DEF Grows, TraceInv, TraceTyped
<1>2. seen \in Sightings /\ flying \subseteq born
  BY DEF TraceInv, TraceTyped
<1>3. \A x \in seen.requests \cup seen.dispatches : x.cycle \in Nat /\ x.cycle <= cycle /\ x.load \in born
  <2>1. \A x \in seen.requests \cup seen.dispatches : x \in Sighting
    BY <1>2 DEF Sightings
  <2>2. QED
    BY <2>1, LoadFacts DEF Sighting, TraceInv, InThePast, Seens
<1>4. CASE Dispatch /\ seen'.requests = seen.requests
  <2>1. \A d \in seen'.dispatches : d \in seen.dispatches \/ d.cycle = cycle'
    BY <1>1 DEF Grows, Added
  <2>2. \A r \in seen.requests : ~(cycle' <= r.cycle)
    BY <1>1, <1>3
  <2>3. QED
    BY <1>4, <2>1, <2>2 DEF TraceInv, LastRequests
<1>5. CASE seen'.dispatches = seen.dispatches /\ seen'.requests = seen.requests
  BY <1>5 DEF TraceInv, LastRequests
<1>6. ASSUME NEW load \in flying, seen'.dispatches = seen.dispatches,
             seen'.requests = seen.requests \cup {Seen(load)}
      PROVE  LastRequests'
  <2>1. Seen(load).load = load
    BY DEF Seen
  <2>2. \A d \in seen.dispatches : load.rob = d.load.rob => d.load.id <= load.id
    BY <1>3 DEF TraceInv, LastInFlight
  <2>3. QED
    BY <1>6, <2>1, <2>2 DEF TraceInv, LastRequests
<1>7. QED
  BY <1>4, <1>5, <1>6, LoadsInFlight

LEMMA TraceInductive == TraceSpec => []TraceInv
<1>1. TraceInit => TraceInv
  <2>1. ASSUME TraceInit PROVE TraceTyped
    <3>1. cycle \in 0..MaxCycles /\ 0 \in 0..MaxCycles
      BY <2>1, WitnessAssumption DEF TraceInit, WitnessAssumption
    <3>2. seen \in Sightings
      BY <2>1, <3>1 DEF TraceInit, Sightings
    <3>3. QED
      BY <2>1, <3>1, <3>2 DEF TraceInit, TraceTyped
  <2>2. ASSUME TraceInit PROVE InThePast /\ Numbered /\ LastInFlight /\ LastRequests
    BY <2>2, FS_EmptySet DEF TraceInit, InThePast, Seens, Numbered, LastInFlight, LastRequests
  <2>3. QED
    BY <2>1, <2>2 DEF TraceInv
<1>2. ASSUME TraceInv, [TraceNext]_traceVars PROVE TraceInv'
  <2>1. CASE Records
    BY <1>2, <2>1, TraceTypedKept, InThePastKept, NumberedKept, LastRequestsKept DEF TraceInv
  <2>2. CASE flying' \subseteq flying /\ UNCHANGED <<core, cycle, born, seen>>
    BY <1>2, <2>2 DEF TraceInv, TraceTyped, Sightings, Sighting, InThePast, Seens, Numbered,
       LastInFlight, LastRequests
  <2>3. QED
    BY <1>2, <2>1, <2>2, TraceSteps DEF traceVars
<1>3. QED
  BY <1>1, <1>2, PTL DEF TraceSpec

-----------------------------------------------------------------------------
\* What the scanner keeps has its types.
THEOREM TraceTypeCorrect == TraceSpec => []TraceTypeOK
<1>1. TraceInv => TraceTypeOK
  BY DEF TraceInv, TraceTyped, TraceTypeOK, Sightings, Sighting
<1>2. QED
  BY <1>1, TraceInductive, PTL

\* A request is taken for the dependent load's only if it is, or the reorder-buffer
\* entry of that load has been given to a later one (scan_issue_715_vcd.py:129 and
\* 133-148).
THEOREM DependentTheirs == TraceSpec => []DependentRequestsAreTheirs
<1>1. ASSUME TraceInv PROVE DependentRequestsAreTheirs
  <2>1. SUFFICES ASSUME NEW r \in DependentRequests
                 PROVE  \E d \in DependentDispatches :
                          \/ d.load.id = r.load.id
                          \/ \E later \in born : later.id > d.load.id /\ later.rob = d.load.rob
    BY DEF DependentRequestsAreTheirs
  <2>2. r \in seen.requests
    BY DEF DependentRequests
  <2>3. PICK exe \in seen.exes :
          exe.cycle = r.cycle /\ \E d \in DependentDispatches : Identifies(d, exe)
    BY DEF DependentRequests
  <2>4. PICK d \in DependentDispatches : Identifies(d, exe)
    BY <2>3
  <2>5. exe = r
    BY <1>1, <2>2, <2>3 DEF TraceInv, TraceTyped, InThePast
  <2>6. d \in seen.dispatches /\ d.cycle <= r.cycle /\ r.load.rob = d.load.rob
    BY <1>1, <2>2, <2>4, <2>5 DEF DependentDispatches, Identifies, SameEntry
  <2>7. d.load.id <= r.load.id
    BY <1>1, <2>2, <2>6 DEF TraceInv, LastRequests
  <2>8. r.load \in born /\ d.load \in born
    BY <1>1, <2>2, <2>6 DEF TraceInv, TraceTyped, Sightings, Sighting
  <2>9. r.load.id \in Nat /\ d.load.id \in Nat
    BY <1>1, <2>8, LoadFacts DEF TraceInv
  <2>10. QED
    BY <2>6, <2>7, <2>8, <2>9
<1>2. QED
  BY <1>1, TraceInductive, PTL

\* The first resolution of the branch is a cycle gone by, and stays the first.
LEMMA ResolutionStays ==
  ASSUME TraceInv, Resolved, [TraceNext]_traceVars
  PROVE  /\ Resolved' /\ seen'.branch = seen.branch
         /\ Resolution' = Resolution /\ Resolution \in Nat /\ Resolution <= cycle
<1>1. Resolutions \in SUBSET Nat /\ Resolutions # {} /\ seen.branch # 0
      /\ \A c \in Resolutions : c <= cycle
  BY DEF Resolved, Resolutions, TraceInv, TraceTyped, Sightings, InThePast
<1>2. Resolution \in Resolutions /\ \A c \in Resolutions : Resolution <= c
  BY <1>1, MinIsLeast DEF Resolution
<1>3. CASE UNCHANGED <<cycle, seen>>
  <2>1. Resolutions' = Resolutions
    BY <1>3 DEF Resolutions
  <2>2. QED
    BY <1>1, <1>2, <1>3, <2>1 DEF Resolved, Resolution
<1>4. CASE Records
  <2>1. /\ cycle' = cycle + 1 /\ cycle \in Nat /\ seen'.branch = seen.branch
        /\ seen'.mispredicts \in {seen.mispredicts, seen.mispredicts \cup {cycle'}}
    BY <1>1, <1>4, RecordsGrow DEF Grows, First, TraceInv, TraceTyped
  <2>2. Resolutions' = Resolutions \/ Resolutions' = Resolutions \cup {cycle'}
    <3>1. Resolutions' = {c \in seen'.mispredicts : c > seen.branch}
      BY <2>1 DEF Resolutions
    <3>2. CASE seen'.mispredicts = seen.mispredicts
      BY <3>1, <3>2 DEF Resolutions
    <3>3. CASE seen'.mispredicts = seen.mispredicts \cup {cycle'} /\ cycle' > seen.branch
      BY <3>1, <3>3 DEF Resolutions
    <3>4. CASE seen'.mispredicts = seen.mispredicts \cup {cycle'} /\ ~(cycle' > seen.branch)
      BY <3>1, <3>4 DEF Resolutions
    <3>5. QED
      BY <2>1, <3>2, <3>3, <3>4
  <2>3. Resolutions' \in SUBSET Nat /\ Resolutions' # {}
    <3>1. cycle' \in Nat
      BY <2>1
    <3> DEFINE old == Resolutions
               new == Resolutions'
    <3>2. old \in SUBSET Nat /\ old # {} /\ (new = old \/ new = old \cup {cycle'})
      BY <1>1, <2>2
    <3> HIDE DEF old, new
    <3>3. new \in SUBSET Nat /\ new # {}
      BY <3>1, <3>2
    <3>4. QED
      BY <3>3 DEF old, new
  <2>4. Resolution' \in Resolutions' /\ \A c \in Resolutions' : Resolution' <= c
    BY <2>3, MinIsLeast DEF Resolution
  <2>5. Resolution' = Resolution
    <3> DEFINE old == Resolution
               new == Resolution'
    <3>1. old \in Nat /\ new \in Nat /\ old <= cycle /\ old \in Resolutions'
      BY <1>1, <1>2, <2>2, <2>3, <2>4
    <3>2. new <= old
      BY <2>4, <3>1
    <3>3. new \in Resolutions
      BY <2>1, <2>2, <2>4, <3>1, <3>2
    <3>4. old <= new
      BY <1>2, <3>3
    <3> HIDE DEF old, new
    <3>5. old = new
      BY <3>1, <3>2, <3>4
    <3>6. QED
      BY <3>5 DEF old, new
  <2>6. QED
    BY <1>1, <1>2, <2>1, <2>3, <2>5 DEF Resolved
<1>5. QED
  BY <1>3, <1>4, TraceSteps DEF traceVars

\* What a step adds to the requests and faults comes after the resolution.
LEMMA AfterResolution ==
  ASSUME TraceInv, Resolved, [TraceNext]_traceVars
  PROVE  /\ \A x \in seen.requests \cup seen.faults : x.cycle \in Nat
         /\ seen.requests \subseteq seen'.requests /\ seen.faults \subseteq seen'.faults
         /\ \A r \in seen'.requests :
              r \in seen.requests \/ (r.cycle \in Nat /\ r.cycle > cycle /\ r.cycle > Resolution)
         /\ \A f \in seen'.faults :
              f \in seen.faults \/ (f.cycle \in Nat /\ f.cycle > cycle /\ f.cycle > Resolution)
         /\ seen'.first = seen.first \/ (seen.first = 0 /\ seen'.first \in Nat /\ seen'.first > cycle)
         /\ seen'.second = seen.second \/ (seen.second = 0 /\ seen'.second \in Nat /\ seen'.second > cycle)
<1>1. cycle \in Nat /\ Resolution \in Nat /\ Resolution <= cycle
  BY ResolutionStays, LoadFacts DEF TraceInv, TraceTyped
<1>2. \A x \in seen.requests \cup seen.faults : x.cycle \in Nat
  <2>1. \A x \in seen.requests \cup seen.faults : x \in Sighting
    BY DEF TraceInv, TraceTyped, Sightings
  <2>2. QED
    BY <2>1 DEF Sighting
<1>3. CASE UNCHANGED <<cycle, seen>>
  BY <1>2, <1>3
<1>4. CASE Records
  <2>1. Grows /\ cycle' = cycle + 1
    BY <1>4, RecordsGrow DEF Grows
  <2>2. cycle' \in Nat /\ cycle' > cycle /\ cycle' > Resolution
    BY <1>1, <2>1
  <2>3. QED
    BY <1>2, <2>1, <2>2 DEF Grows, Added, First
<1>5. QED
  BY <1>3, <1>4, TraceSteps DEF traceVars

\* Once the branch is resolved, no later event changes what the requests to the two
\* addresses witness (scan_issue_715_vcd.py:94-101).
THEOREM VerdictsSettle == TraceSpec => VerdictSettles
<1> DEFINE flags == WitnessFlags(Requests("observed"))
           pairs == Pairs(Requests("observed"))
<1>1. ASSUME TraceInv, [TraceNext]_traceVars, Resolved PROVE flags' = flags
  <2>1. /\ Resolved' /\ seen'.branch = seen.branch /\ Resolution' = Resolution
        /\ Resolution \in Nat /\ Resolution <= cycle /\ cycle \in Nat
    BY <1>1, ResolutionStays, LoadFacts DEF TraceInv, TraceTyped
  <2>2. \A p \in pairs : p[1] \in Requests("protected") /\ p[2] \in Requests("observed")
                         /\ p[1].cycle \in Nat /\ p[2].cycle \in Nat /\ p[1].cycle <= cycle
    <3>1. SUFFICES ASSUME NEW p \in pairs
                   PROVE  p[1] \in Requests("protected") /\ p[2] \in Requests("observed")
                          /\ p[1].cycle \in Nat /\ p[2].cycle \in Nat /\ p[1].cycle <= cycle
      OBVIOUS
    <3>2. /\ p[1] \in Requests("protected") /\ p[2] \in Requests("observed")
          /\ p[1].cycle < p[2].cycle /\ p[2].cycle < Resolution
      BY DEF Pairs
    <3>3. p[1].cycle \in Nat /\ p[2].cycle \in Nat
      BY <1>1, <3>2, AfterResolution DEF Requests
    <3>4. QED
      BY <2>1, <3>2, <3>3
  <2>3. \A address : /\ Requests(address) \subseteq Requests(address)'
                     /\ \A r \in Requests(address)' :
                          r \in Requests(address) \/ (r.cycle \in Nat /\ r.cycle > Resolution)
    BY <1>1, AfterResolution DEF Requests
  <2>4. pairs' = pairs
    <3>1. ASSUME NEW p \in pairs PROVE p \in pairs'
      BY <2>1, <2>3, <3>1 DEF Pairs
    <3>2. ASSUME NEW p \in pairs' PROVE p \in pairs
      <4>1. /\ p \in Requests("protected")' \X Requests("observed")'
            /\ p[1] \in Requests("protected")' /\ p[2] \in Requests("observed")'
            /\ seen.branch < p[1].cycle /\ p[1].cycle < p[2].cycle /\ p[2].cycle < Resolution
            /\ Overlap(p[1].load, p[2].load)
        BY <2>1, <3>2 DEF Pairs
      <4>2. p[2] \in Requests("observed") /\ p[2].cycle \in Nat
        <5>1. p[2] \in Requests("observed") \/ (p[2].cycle \in Nat /\ p[2].cycle > Resolution)
          BY <2>3, <4>1
        <5>2. p[2] \in Requests("observed")
          BY <2>1, <4>1, <5>1
        <5>3. QED
          BY <1>1, <5>2, AfterResolution DEF Requests
      <4>3. p[1] \in Requests("protected")
        <5>1. p[1] \in Requests("protected") \/ (p[1].cycle \in Nat /\ p[1].cycle > Resolution)
          BY <2>3, <4>1
        <5>2. QED
          BY <2>1, <4>1, <4>2, <5>1
      <4>4. p \in Requests("protected") \X Requests("observed")
        BY <4>1, <4>2, <4>3
      <4>5. QED
        BY <4>1, <4>4 DEF Pairs
    <3>3. QED
      BY <3>1, <3>2
  <2>5. ASSUME NEW p \in pairs PROVE Faulting(p[1], p[2])' <=> Faulting(p[1], p[2])
    <3> DEFINE source == p[1]
               sink == p[2]
    <3>1. source.cycle \in Nat /\ source.cycle <= cycle
      BY <2>2
    <3> HIDE DEF source, sink
    <3>2. (seen'.first # 0 /\ seen'.first < source.cycle) <=> (seen.first # 0 /\ seen.first < source.cycle)
      BY <1>1, <2>1, <3>1, AfterResolution
    <3>3. (seen'.second # 0 /\ seen'.second < source.cycle) <=> (seen.second # 0 /\ seen.second < source.cycle)
      BY <1>1, <2>1, <3>1, AfterResolution
    <3>4. /\ seen'.first = seen.first \/ ~(seen'.first < source.cycle)
          /\ seen'.second = seen.second \/ ~(seen'.second < source.cycle)
      BY <1>1, <2>1, <3>1, AfterResolution
    <3>5. \A f \in seen'.faults : f.cycle < Resolution => f \in seen.faults
      BY <1>1, <2>1, AfterResolution
    <3>6. seen.faults \subseteq seen'.faults
      BY <1>1, AfterResolution
    <3>7. Faulting(source, sink)' <=> Faulting(source, sink)
      BY <2>1, <3>2, <3>3, <3>4, <3>5, <3>6 DEF Faulting
    <3>8. QED
      BY <3>7 DEF source, sink
  <2>6. QED
    BY <1>1, <2>1, <2>4, <2>5 DEF WitnessFlags
<1>2. QED
  BY <1>1, TraceInductive, PTL DEF TraceSpec, VerdictSettles

-----------------------------------------------------------------------------
\* A behaviour of the worker is one of the campaigns and one of the scanner, of
\* which one stands still: what is proved of either holds of it.
LEMMA CampaignIsBoth == CampaignSpec => Spec /\ TraceSpec
<1>1. CampaignInit => Init /\ TraceInit
  BY DEF CampaignInit
<1>2. [CampaignNext]_<<vars, traceVars>> => [Next]_vars /\ [TraceNext]_traceVars
  BY DEF CampaignNext
<1>3. QED
  BY <1>1, <1>2, PTL DEF CampaignSpec, Spec, TraceSpec

\* The types of whatever the worker does.
THEOREM CampaignTypeCorrect == CampaignSpec => []CampaignTypeOK
  BY CampaignIsBoth, EvidenceTypeCorrect, TraceTypeCorrect, PTL DEF CampaignTypeOK
=============================================================================
