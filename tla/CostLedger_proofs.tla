------------------------- MODULE CostLedger_proofs -------------------------
(***************************************************************************)
(* For any number of processes, runs, calls, retries and any budget: the   *)
(* file under its lock is the atomic ledger, no reservation is lost, the   *)
(* total stays within the budget; and what may have been billed without a  *)
(* retry is accounted for.                                                 *)
(***************************************************************************)
EXTENDS CostLedger, WellFoundedInduction, FiniteSetTheorems, TLAPS

\* The actions of one process.
Acts(p) ==
  \/ Begin(p) \/ LockAndRead(p) \/ Refuse(p) \/ Reserve(p) \/ ReserveWriteFails(p)
  \/ Answer(p) \/ Retry(p) \/ RequestFails(p) \/ Settle(p) \/ SettleWriteFails(p)
  \/ Crash(p) \/ Restart(p)

\* Every step is a step of one process.
LEMMA NextActs == Next <=> \E p \in Processes : Acts(p)
  BY DEF Next, Acts, Locked, Requests

\* A leaf for each action: the state keeps its types.
LEMMA TypePreserved ==
  ASSUME TypeOK, CallsNumbered, NEW p \in Processes, Acts(p)
  PROVE  TypeOK'
<1> USE LedgerAssumption DEF LedgerAssumption, Goto, Leave, Unlock
<1>0. /\ pc[p] \notin {"idle", "stopped"} => call[p] \in Call
      /\ NoCall \in Call \cup {NoCall}
      /\ Amounts \subseteq Nat
  BY DEF CallsNumbered
<1>1. CASE Begin(p)
  <2>1. PICK amount \in Amounts :
          call' = [call EXCEPT ![p] =
                     [id |-> <<p, runs[p], calls[p] + 1>>, amount |-> amount, attempt |-> 0,
                      charge |-> 0, outcome |-> "pending"]]
    BY <1>1 DEF Begin
  <2>2. <<p, runs[p], calls[p] + 1>> \in Ids
    BY <1>1 DEF Begin, BelowLimit, TypeOK, Ids
  <2>3. [id |-> <<p, runs[p], calls[p] + 1>>, amount |-> amount, attempt |-> 0,
         charge |-> 0, outcome |-> "pending"] \in Call
    BY <2>2 DEF Call
  <2>4. call' \in [Processes -> Call \cup {NoCall}]
    BY <2>1, <2>3 DEF TypeOK
  <2>5. QED
    BY <1>1, <2>4 DEF Begin, TypeOK
<1>2. CASE LockAndRead(p)
  BY <1>2 DEF LockAndRead, TypeOK
<1>3. CASE Refuse(p)
  BY <1>3 DEF Refuse, TypeOK
<1>4. CASE Reserve(p)
  <2>1. [id |-> call[p].id, state |-> "reserved", amount |-> call[p].amount] \in Entry
    BY <1>0, <1>4 DEF Reserve, Call, Entry
  <2>2. file' \subseteq Entry
    BY <1>4, <2>1 DEF Reserve, TypeOK
  <2>3. calls[p] + 1 \in 0..MaxCalls
    <3>1. call[p].id = <<p, runs[p], calls[p] + 1>> /\ call[p].id \in Ids
      BY <1>0, <1>4 DEF Reserve, CallsNumbered, Call
    <3>2. QED
      BY <3>1 DEF Ids
  <2>4. QED
    BY <1>4, <2>2, <2>3 DEF Reserve, TypeOK
<1>5. CASE ReserveWriteFails(p)
  BY <1>5 DEF ReserveWriteFails, TypeOK
<1>6. ASSUME NEW price \in Nat, pc[p] = "request", Charge(p, price)
      PROVE  billed' \in [Ids -> Nat]
  BY <1>0, <1>6 DEF Charge, TypeOK, Call
<1>7. CASE Answer(p)
  <2>0. PICK price \in 1..call[p].amount :
          /\ Charge(p, price)
          /\ \E charge \in {price, call[p].amount} :
               call' = [call EXCEPT ![p].charge = charge, ![p].outcome = "success"]
    BY <1>7 DEF Answer
  <2>1. PICK charge \in {price, call[p].amount} :
          call' = [call EXCEPT ![p].charge = charge, ![p].outcome = "success"]
    BY <2>0
  <2>2. pc[p] = "request" /\ call[p] \in Call /\ price \in Nat /\ charge \in Nat
    BY <1>0, <1>7 DEF Answer, Call
  <2>3. [call[p] EXCEPT !.charge = charge, !.outcome = "success"] \in Call
    BY <2>2 DEF Call
  <2>4. call' = [call EXCEPT ![p] = [call[p] EXCEPT !.charge = charge, !.outcome = "success"]]
    BY <2>1 DEF TypeOK
  <2>5. call' \in [Processes -> Call \cup {NoCall}]
    BY <2>3, <2>4 DEF TypeOK
  <2>6. billed' \in [Ids -> Nat]
    BY <1>6, <2>0, <2>2
  <2>7. QED
    BY <1>7, <2>5, <2>6 DEF Answer, TypeOK
<1>8. CASE Retry(p)
  <2>1. PICK price \in 0..call[p].amount : Charge(p, price)
    BY <1>8 DEF Retry
  <2>2. pc[p] = "request" /\ call[p] \in Call /\ price \in Nat
    BY <1>0, <1>8 DEF Retry, Call
  <2>3. [call[p] EXCEPT !.attempt = @ + 1] \in Call
    BY <1>8, <2>2 DEF Retry, Call
  <2>4. call' = [call EXCEPT ![p] = [call[p] EXCEPT !.attempt = @ + 1]]
    BY <1>8 DEF Retry, TypeOK
  <2>5. call' \in [Processes -> Call \cup {NoCall}]
    BY <2>3, <2>4 DEF TypeOK
  <2>6. billed' \in [Ids -> Nat]
    BY <1>6, <2>1, <2>2
  <2>7. QED
    BY <1>8, <2>5, <2>6 DEF Retry, TypeOK
<1>9. ASSUME call[p] \in Call,
             call' = [call EXCEPT ![p].charge = ChargeReserved(p), ![p].outcome = "unknown-error"]
      PROVE  call' \in [Processes -> Call \cup {NoCall}]
  <2>1. [call[p] EXCEPT !.charge = ChargeReserved(p), !.outcome = "unknown-error"] \in Call
    BY <1>0, <1>9 DEF Call, ChargeReserved
  <2>2. call' = [call EXCEPT ![p] =
          [call[p] EXCEPT !.charge = ChargeReserved(p), !.outcome = "unknown-error"]]
    BY <1>9 DEF TypeOK
  <2>3. QED
    BY <2>1, <2>2 DEF TypeOK
<1>10. CASE RequestFails(p)
  <2>1. PICK price \in 0..call[p].amount : Charge(p, price)
    BY <1>10 DEF RequestFails
  <2>2. pc[p] = "request" /\ call[p] \in Call /\ price \in Nat
    BY <1>0, <1>10 DEF RequestFails, Call
  <2>3. billed' \in [Ids -> Nat] /\ call' \in [Processes -> Call \cup {NoCall}]
    BY <1>6, <1>9, <1>10, <2>1, <2>2 DEF RequestFails
  <2>4. QED
    BY <1>10, <2>3 DEF RequestFails, TypeOK
<1>11. CASE Settle(p)
  <2>1. [id |-> call[p].id, state |-> "settled", amount |-> call[p].charge] \in Entry
    BY <1>0, <1>11 DEF Settle, Call, Entry
  <2>2. file' \subseteq Entry
    BY <1>11, <2>1 DEF Settle, TypeOK
  <2>3. CASE Leave(p, "idle")
    BY <1>11, <2>2, <2>3 DEF Settle, TypeOK
  <2>4. CASE Leave(p, "stopped")
    BY <1>11, <2>2, <2>4 DEF Settle, TypeOK
  <2>5. QED
    BY <1>11, <2>3, <2>4 DEF Settle
<1>12. CASE SettleWriteFails(p)
  <2>1. call[p] \in Call
    BY <1>0, <1>12 DEF SettleWriteFails
  <2>2. CASE call[p].outcome = "success"
    BY <1>9, <1>12, <2>1, <2>2 DEF SettleWriteFails, TypeOK
  <2>3. CASE call[p].outcome # "success"
    BY <1>12, <2>3 DEF SettleWriteFails, TypeOK
  <2>4. QED
    BY <2>2, <2>3
<1>13. CASE Crash(p)
  BY <1>13 DEF Crash, ReleaseOfDead, TypeOK
<1>14. CASE Restart(p)
  BY <1>14 DEF Restart, TypeOK
<1>15. QED
  BY <1>1, <1>2, <1>3, <1>4, <1>5, <1>7, <1>8, <1>10, <1>11, <1>12, <1>13, <1>14 DEF Acts

-----------------------------------------------------------------------------
\* A process changes its own state only.
LEMMA OthersUnchanged ==
  ASSUME TypeOK, NEW p \in Processes, Acts(p), NEW q \in Processes, q # p
  PROVE  /\ pc'[q] = pc[q] /\ data'[q] = data[q] /\ call'[q] = call[q]
         /\ calls'[q] = calls[q] /\ runs'[q] = runs[q]
<1> USE DEF Goto, Leave, Unlock, TypeOK
<1>1. CASE Begin(p) \/ LockAndRead(p) \/ Refuse(p) \/ Reserve(p) \/ ReserveWriteFails(p)
  BY <1>1 DEF Begin, LockAndRead, Refuse, Reserve, ReserveWriteFails
<1>2. CASE Answer(p) \/ Retry(p) \/ RequestFails(p)
  BY <1>2 DEF Answer, Retry, RequestFails
<1>3. CASE Settle(p) \/ SettleWriteFails(p)
  BY <1>3 DEF Settle, SettleWriteFails
<1>4. CASE Crash(p) \/ Restart(p)
  BY <1>4 DEF Crash, ReleaseOfDead, Restart
<1>5. QED
  BY <1>1, <1>2, <1>3, <1>4 DEF Acts

\* The file changes in two actions only, under the lock.
LEMMA FileChanges ==
  ASSUME NEW p \in Processes, Acts(p), file' # file
  PROVE  Reserve(p) \/ Settle(p)
  BY DEF Acts, Begin, LockAndRead, Refuse, ReserveWriteFails, Answer, Retry, RequestFails,
     SettleWriteFails, Crash, Restart

\* What a process read under the lock stays current until it unlocks.
LEMMA LockPreserved ==
  ASSUME TypeOK, LockProtects, NEW p \in Processes, Acts(p)
  PROVE  LockProtects'
<1> DEFINE Inside(q) == pc[q] \in {"reserving", "settling"}
<1> USE DEF Goto, Leave, Unlock
<1>1. \A q \in Processes : q # p /\ Inside(q) => ~Inside(p) /\ lock = q /\ lock # Free
  BY LedgerAssumption DEF LedgerAssumption, LockProtects
<1>2. ASSUME NEW q \in Processes, q # p, Inside(q)
      PROVE  lock' = q /\ data'[q] = file'
  <2>1. ~Inside(p) /\ lock = q /\ lock # Free /\ data[q] = file
    BY <1>1, <1>2 DEF LockProtects
  <2>2. lock' = lock /\ file' = file
    BY <1>2, <2>1 DEF Acts, Begin, LockAndRead, MayLock, Refuse, Reserve, ReserveWriteFails,
       Answer, Retry, RequestFails, Settle, SettleWriteFails, Crash, ReleaseOfDead, Restart
  <2>3. QED
    BY <1>2, <2>1, <2>2, OthersUnchanged
<1>3. ASSUME Inside(p)' PROVE lock' = p /\ data'[p] = file'
  <2>1. CASE LockAndRead(p)
    BY <2>1 DEF LockAndRead, TypeOK
  <2>2. CASE ~LockAndRead(p)
    <3>1. CASE Begin(p) \/ Refuse(p) \/ Reserve(p) \/ ReserveWriteFails(p)
      BY <1>3, <3>1 DEF Begin, Refuse, Reserve, ReserveWriteFails, TypeOK
    <3>2. CASE Answer(p) \/ Retry(p) \/ RequestFails(p)
      BY <1>3, <3>2 DEF Answer, Retry, RequestFails, TypeOK
    <3>3. CASE Settle(p) \/ SettleWriteFails(p)
      BY <1>3, <3>3 DEF Settle, SettleWriteFails, TypeOK
    <3>4. CASE Crash(p) \/ Restart(p)
      BY <1>3, <3>4 DEF Crash, Restart, TypeOK
    <3>5. QED
      BY <2>2, <3>1, <3>2, <3>3, <3>4 DEF Acts
  <2>3. QED
    BY <2>1, <2>2
<1>4. ASSUME NEW q \in Processes, Inside(q)' PROVE lock' = q /\ data'[q] = file'
  <2>1. CASE q = p
    BY <1>3, <1>4, <2>1
  <2>2. CASE q # p
    BY <1>2, <1>4, <2>2, OthersUnchanged
  <2>3. QED
    BY <2>1, <2>2
<1>5. QED
  BY <1>4 DEF LockProtects

\* Deciding what a call is settled with changes nothing else of it.
LEMMA ChargedCall ==
  ASSUME NEW c \in Call, NEW amount \in Nat
  PROVE  LET d == [c EXCEPT !.charge = amount, !.outcome = "unknown-error"]
         IN d.id = c.id /\ d.amount = c.amount /\ d.charge = amount
  BY DEF Call

\* A call under way carries the number of its process, run and call.
LEMMA NumbersPreserved ==
  ASSUME TypeOK, TypeOK', CallsNumbered, NEW p \in Processes, Acts(p)
  PROVE  CallsNumbered'
<1> DEFINE Numbered(q) ==
      pc[q] \notin {"idle", "stopped"} =>
        /\ call[q] \in Call
        /\ call[q].id = <<q, runs[q], IF pc[q] \in {"reserve", "reserving"} THEN calls[q] + 1 ELSE calls[q]>>
        /\ call[q].charge <= call[q].amount
<1> USE DEF Goto, Leave, Unlock
<1>1. \A q \in Processes : Numbered(q)
  BY DEF CallsNumbered
<1>2. \A q \in Processes : q # p => Numbered(q)'
  BY <1>1, OthersUnchanged
<1>3. Numbered(p)'
  <2>1. Numbered(p)
    BY <1>1
  <2>2. CASE Begin(p)
    <3>1. PICK amount \in Amounts :
            call'[p] = [id |-> <<p, runs[p], calls[p] + 1>>, amount |-> amount, attempt |-> 0,
                        charge |-> 0, outcome |-> "pending"]
      BY <2>2 DEF Begin, TypeOK
    <3>2. call'[p] \in Call
      <4>1. <<p, runs[p], calls[p] + 1>> \in Ids
        BY <2>2, LedgerAssumption DEF LedgerAssumption, Begin, BelowLimit, TypeOK, Ids
      <4>2. QED
        BY <3>1, <4>1, LedgerAssumption DEF LedgerAssumption, Call
    <3>3. pc'[p] = "reserve" /\ UNCHANGED <<runs, calls>> /\ 0 <= amount
      BY <2>2, LedgerAssumption DEF LedgerAssumption, Begin, TypeOK
    <3>4. QED
      BY <3>1, <3>2, <3>3
  <2>3. CASE LockAndRead(p)
    BY <2>1, <2>3 DEF LockAndRead, TypeOK
  <2>4. CASE Reserve(p)
    BY <2>1, <2>4 DEF Reserve, TypeOK
  <2>5. CASE Answer(p)
    <3>1. call[p] \in Call
      BY <2>1, <2>5 DEF Answer
    <3>2. call[p].amount \in Nat
      BY <3>1, LedgerAssumption DEF LedgerAssumption, Call
    <3>3. PICK price \in 1..call[p].amount :
            \E charge \in {price, call[p].amount} :
              call' = [call EXCEPT ![p].charge = charge, ![p].outcome = "success"]
      BY <2>5 DEF Answer
    <3>4. PICK charge \in {price, call[p].amount} :
            call' = [call EXCEPT ![p].charge = charge, ![p].outcome = "success"]
      BY <3>3
    <3>5. charge \in Nat
      BY <3>2
    <3>6. /\ call'[p].id = call[p].id /\ call'[p].amount = call[p].amount
          /\ call'[p].charge = charge /\ charge <= call[p].amount
      BY <3>1, <3>4, <3>2 DEF Call, TypeOK
    <3>7. call'[p] \in Call
      <4>1. call'[p] = [call[p] EXCEPT !.charge = charge, !.outcome = "success"]
        BY <3>4 DEF TypeOK
      <4>2. QED
        BY <3>1, <3>5, <4>1 DEF Call
    <3>8. QED
      BY <2>1, <2>5, <3>6, <3>7 DEF Answer, TypeOK
  <2>6. CASE Retry(p)
    <3>1. call[p] \in Call
      BY <2>1, <2>6 DEF Retry
    <3>2. call'[p] = [call[p] EXCEPT !.attempt = @ + 1]
      BY <2>6 DEF Retry, TypeOK
    <3>3. call'[p] \in Call
      BY <2>6, <3>1, <3>2, LedgerAssumption DEF LedgerAssumption, Retry, Call
    <3>4. call'[p].id = call[p].id /\ call'[p].amount = call[p].amount /\ call'[p].charge = call[p].charge
      BY <3>1, <3>2 DEF Call
    <3>5. QED
      BY <2>1, <2>6, <3>3, <3>4 DEF Retry
  <2>7. ASSUME call[p] \in Call,
               call' = [call EXCEPT ![p].charge = ChargeReserved(p), ![p].outcome = "unknown-error"]
        PROVE  /\ call'[p] \in Call /\ call'[p].id = call[p].id
               /\ call'[p].charge <= call'[p].amount
    <3>1. call'[p] = [call[p] EXCEPT !.charge = ChargeReserved(p), !.outcome = "unknown-error"]
      BY <2>7 DEF TypeOK
    <3>2. call[p].amount \in Nat
      BY <2>7, LedgerAssumption DEF LedgerAssumption, Call
    <3>3. /\ call'[p].id = call[p].id /\ call'[p].amount = call[p].amount
          /\ call'[p].charge = call[p].amount
      <4> DEFINE d == [call[p] EXCEPT !.charge = call[p].amount, !.outcome = "unknown-error"]
      <4>1. d.id = call[p].id /\ d.amount = call[p].amount /\ d.charge = call[p].amount
        BY <2>7, <3>2, ChargedCall
      <4>2. call'[p] = d
        BY <3>1 DEF ChargeReserved
      <4>3. QED
        BY <4>1, <4>2
    <3>4. call'[p] \in Call
      <4>1. [call[p] EXCEPT !.charge = call[p].amount, !.outcome = "unknown-error"] \in Call
        BY <2>7, <3>2 DEF Call
      <4>2. QED
        BY <3>1, <4>1 DEF ChargeReserved
    <3>5. QED
      BY <3>2, <3>3, <3>4
  <2>8. CASE RequestFails(p)
    BY <2>1, <2>7, <2>8 DEF RequestFails, TypeOK
  <2>9. CASE SettleWriteFails(p)
    <3>1. CASE call[p].outcome = "success"
      BY <2>1, <2>7, <2>9, <3>1 DEF SettleWriteFails, TypeOK
    <3>2. CASE call[p].outcome # "success"
      BY <2>9, <3>2 DEF SettleWriteFails, TypeOK
    <3>3. QED
      BY <3>1, <3>2
  <2>10. CASE Refuse(p) \/ ReserveWriteFails(p) \/ Settle(p) \/ Crash(p) \/ Restart(p)
    BY <2>10 DEF Refuse, ReserveWriteFails, Settle, Crash, Restart, TypeOK
  <2>11. QED
    BY <2>2, <2>3, <2>4, <2>5, <2>6, <2>8, <2>9, <2>10 DEF Acts
<1>4. QED
  BY <1>2, <1>3 DEF CallsNumbered

-----------------------------------------------------------------------------
\* A reservation about to be written has a fresh identifier.
LEMMA ReservationFresh ==
  ASSUME TypeOK, CallsNumbered, IdsUsed, NEW p \in Processes, Reserve(p)
  PROVE  \A e \in file : e.id # call[p].id
<1>1. call[p].id = <<p, runs[p], calls[p] + 1>>
  BY DEF Reserve, CallsNumbered
<1>2. calls[p] \in Nat /\ runs[p] \in Nat
  BY LedgerAssumption DEF LedgerAssumption, TypeOK
<1>3. ASSUME NEW e \in file, e.id = call[p].id PROVE FALSE
  <2>1. PICK q \in Processes, run \in 1..MaxRuns, n \in 1..MaxCalls :
          e.id = <<q, run, n>> /\ (run < runs[q] \/ (run = runs[q] /\ n <= calls[q]))
    BY <1>3 DEF IdsUsed
  <2>2. q = p /\ run = runs[p] /\ n = calls[p] + 1
    BY <1>1, <1>3, <2>1
  <2>3. QED
    BY <1>2, <2>1, <2>2
<1>4. QED
  BY <1>3

\* settle finds exactly its own reservation.
LEMMA PendingIsReservation ==
  ASSUME ReservationKept, LockProtects, IdsUnique, NEW p \in Processes, Settle(p)
  PROVE  /\ [id |-> call[p].id, state |-> "reserved", amount |-> call[p].amount] \in file
         /\ Pending(p) = {[id |-> call[p].id, state |-> "reserved", amount |-> call[p].amount]}
         /\ data[p] = file
<1> DEFINE mine == [id |-> call[p].id, state |-> "reserved", amount |-> call[p].amount]
<1>1. mine \in file /\ data[p] = file /\ mine.id = call[p].id
  BY DEF Settle, ReservationKept, LockProtects
<1>2. \A e \in file : e.id = call[p].id => e = mine
  BY <1>1 DEF IdsUnique
<1>3. QED
  BY <1>1, <1>2 DEF Pending

\* No two entries of the file ever share an identifier.
LEMMA IdsUniquePreserved ==
  ASSUME TypeOK, FileProtected, ReservationKept, NEW p \in Processes, Acts(p)
  PROVE  IdsUnique'
<1> USE DEF FileProtected
<1>1. CASE Reserve(p)
  <2>1. data[p] = file
    BY <1>1 DEF Reserve, LockProtects
  <2>2. \A e \in file : e.id # call[p].id
    BY <1>1, ReservationFresh
  <2>3. QED
    BY <1>1, <2>1, <2>2 DEF Reserve, IdsUnique
<1>2. CASE Settle(p)
  <2>1. data[p] = file
    BY <1>2 DEF Settle, LockProtects
  <2>2. \A e \in file \ Pending(p) : e.id # call[p].id
    BY <2>1 DEF Pending
  <2>3. QED
    BY <1>2, <2>1, <2>2 DEF Settle, IdsUnique
<1>3. CASE file' = file
  BY <1>3 DEF IdsUnique
<1>4. QED
  BY <1>1, <1>2, <1>3, FileChanges

\* Runs and calls only advance: a used identifier stays used.
LEMMA NumbersAdvance ==
  ASSUME TypeOK, NEW p \in Processes, Acts(p), NEW q \in Processes,
         NEW run \in 1..MaxRuns, NEW n \in 1..MaxCalls,
         run < runs[q] \/ (run = runs[q] /\ n <= calls[q])
  PROVE  run < runs'[q] \/ (run = runs'[q] /\ n <= calls'[q])
<1>1. calls[q] \in Nat /\ runs[q] \in Nat /\ run \in Nat /\ n \in Nat
  BY LedgerAssumption DEF LedgerAssumption, TypeOK
<1>2. CASE q # p
  BY <1>2, OthersUnchanged
<1>3. CASE q = p /\ Restart(p)
  BY <1>1, <1>3 DEF Restart, TypeOK
<1>4. CASE q = p /\ Reserve(p)
  BY <1>1, <1>4 DEF Reserve, TypeOK
<1>5. CASE ~Restart(p) /\ ~Reserve(p)
  BY <1>5 DEF Acts, Begin, LockAndRead, Refuse, ReserveWriteFails, Answer, Retry, RequestFails,
     Settle, SettleWriteFails, Crash
<1>6. QED
  BY <1>2, <1>3, <1>4, <1>5

\* Identifiers in the file are of calls already begun.
LEMMA IdsUsedPreserved ==
  ASSUME TypeOK, TypeOK', FileProtected, ReservationKept, NEW p \in Processes, Acts(p)
  PROVE  IdsUsed'
<1> USE DEF FileProtected
<1> DEFINE Used(id) ==
      \E q \in Processes, run \in 1..MaxRuns, n \in 1..MaxCalls :
        id = <<q, run, n>> /\ (run < runs[q] \/ (run = runs[q] /\ n <= calls[q]))
<1>1. \A e \in file : Used(e.id)'
  <2>1. TAKE e \in file
  <2>2. PICK q \in Processes, run \in 1..MaxRuns, n \in 1..MaxCalls :
          e.id = <<q, run, n>> /\ (run < runs[q] \/ (run = runs[q] /\ n <= calls[q]))
    BY DEF IdsUsed
  <2>3. run < runs'[q] \/ (run = runs'[q] /\ n <= calls'[q])
    BY <2>2, NumbersAdvance
  <2>4. QED
    BY <2>2, <2>3
<1>2. CASE Reserve(p)
  <2>1. data[p] = file
    BY <1>2 DEF Reserve, LockProtects
  <2>2. call[p].id = <<p, runs[p], calls[p] + 1>>
    BY <1>2 DEF Reserve, CallsNumbered
  <2>3. /\ runs'[p] = runs[p] /\ calls'[p] = calls[p] + 1
        /\ runs[p] \in 1..MaxRuns /\ calls[p] \in Nat /\ calls'[p] \in 0..MaxCalls
    BY <1>2, LedgerAssumption DEF LedgerAssumption, Reserve, TypeOK
  <2>4. calls[p] + 1 \in 1..MaxCalls /\ calls[p] + 1 <= calls'[p]
    BY <2>3, LedgerAssumption DEF LedgerAssumption
  <2>5. Used(call[p].id)'
    <3>1. call'[p].id = call[p].id
      BY <1>2 DEF Reserve
    <3>2. QED
      BY <2>2, <2>3, <2>4, <3>1
  <2>6. QED
    BY <1>1, <1>2, <2>1, <2>2, <2>3, <2>4 DEF Reserve, IdsUsed
<1>3. CASE Settle(p)
  <2>1. PICK mine \in file : mine.id = call[p].id
    BY <1>3, PendingIsReservation
  <2>2. \A e \in file' : \E f \in file : e.id = f.id
    <3>1. data[p] = file
      BY <1>3, PendingIsReservation
    <3>2. file' = (file \ Pending(p))
            \cup {[id |-> call[p].id, state |-> "settled", amount |-> call[p].charge]}
      BY <1>3, <3>1 DEF Settle
    <3>3. QED
      BY <2>1, <3>2
  <2>3. QED
    BY <1>1, <2>2 DEF IdsUsed
<1>4. CASE file' = file
  BY <1>1, <1>4 DEF IdsUsed
<1>5. QED
  BY <1>2, <1>3, <1>4, FileChanges

\* No rewrite of the file loses the reservation of a call under way.
LEMMA ReservationPreserved ==
  ASSUME TypeOK, FileProtected, ReservationKept, NEW p \in Processes, Acts(p)
  PROVE  ReservationKept'
<1> USE DEF FileProtected, Goto, Leave, Unlock
<1> DEFINE Entered(q) == [id |-> call[q].id, state |-> "reserved", amount |-> call[q].amount]
           After(q) == pc[q] \in {"request", "settle", "settling"}
\* The entries of the other processes.
<1>1. ASSUME NEW q \in Processes, q # p, After(q) PROVE Entered(q) \in file'
  <2>1. Entered(q) \in file
    BY <1>1 DEF ReservationKept
  <2>2. CASE Reserve(p)
    BY <2>1, <2>2 DEF Reserve, LockProtects
  <2>3. CASE Settle(p)
    <3>1. call[p].id # call[q].id
      BY <1>1, <2>3 DEF Settle, CallsNumbered
    <3>2. Entered(q) \notin Pending(p) /\ data[p] = file
      BY <2>3, <3>1 DEF Pending, Settle, LockProtects
    <3>3. QED
      BY <2>1, <2>3, <3>2 DEF Settle
  <2>4. CASE file' = file
    BY <2>1, <2>4
  <2>5. QED
    BY <2>2, <2>3, <2>4, FileChanges
\* Its own.
<1>2. ASSUME After(p)' PROVE Entered(p)' \in file'
  <2>1. CASE Reserve(p)
    BY <2>1 DEF Reserve
  <2>2. CASE LockAndRead(p)
    BY <1>2, <2>2 DEF LockAndRead, ReservationKept, TypeOK
  <2>3. CASE Answer(p) \/ Retry(p) \/ RequestFails(p) \/ SettleWriteFails(p)
    <3>1. After(p) /\ file' = file /\ call[p] \in Call
      BY <2>3 DEF Answer, Retry, RequestFails, SettleWriteFails, CallsNumbered
    <3>2. call'[p].id = call[p].id /\ call'[p].amount = call[p].amount
      <4>1. CASE Retry(p)
        BY <3>1, <4>1 DEF Retry, TypeOK, Call
      <4>2. CASE Answer(p)
        <5>1. PICK charge : call' = [call EXCEPT ![p].charge = charge, ![p].outcome = "success"]
          BY <4>2 DEF Answer
        <5>2. QED
          BY <3>1, <5>1 DEF TypeOK, Call
      <4>3. CASE call' = [call EXCEPT ![p].charge = ChargeReserved(p), ![p].outcome = "unknown-error"]
        BY <3>1, <4>3 DEF TypeOK, Call
      <4>4. CASE pc'[p] = "stopped"
        BY <1>2, <4>4
      <4>5. QED
        BY <2>3, <4>1, <4>2, <4>3, <4>4 DEF RequestFails, SettleWriteFails, TypeOK
    <3>3. Entered(p) \in file
      BY <3>1 DEF ReservationKept
    <3>4. QED
      BY <3>1, <3>2, <3>3
  <2>4. CASE Begin(p) \/ Refuse(p) \/ ReserveWriteFails(p) \/ Settle(p) \/ Crash(p) \/ Restart(p)
    BY <1>2, <2>4 DEF Begin, Refuse, ReserveWriteFails, Settle, Crash, Restart, TypeOK
  <2>5. QED
    BY <2>1, <2>2, <2>3, <2>4 DEF Acts
<1>3. ASSUME NEW q \in Processes, After(q)' PROVE Entered(q)' \in file'
  <2>1. CASE q = p
    BY <1>2, <1>3, <2>1
  <2>2. CASE q # p
    BY <1>1, <1>3, <2>2, OthersUnchanged
  <2>3. QED
    BY <2>1, <2>2
<1>4. QED
  BY <1>3 DEF ReservationKept

\* The inductive invariant of the ledger.
LEMMA LedgerInductive == Spec => [](TypeOK /\ FileProtected /\ ReservationKept)
<1> DEFINE Inv == TypeOK /\ FileProtected /\ ReservationKept
<1>1. Init => Inv
  BY LedgerAssumption DEF LedgerAssumption, Init, TypeOK, FileProtected, LockProtects,
     CallsNumbered, IdsUnique, IdsUsed, ReservationKept
<1>2. Inv /\ [Next]_vars => Inv'
  <2>1. ASSUME Inv, NEW p \in Processes, Acts(p) PROVE Inv'
    <3>1. TypeOK'
      BY <2>1, TypePreserved DEF FileProtected
    <3>2. QED
      BY <2>1, <3>1, LockPreserved, NumbersPreserved, IdsUniquePreserved, IdsUsedPreserved,
         ReservationPreserved DEF FileProtected
  <2>2. ASSUME Inv, UNCHANGED vars PROVE Inv'
    BY <2>2 DEF vars, TypeOK, FileProtected, LockProtects, CallsNumbered, IdsUnique, IdsUsed,
       ReservationKept, Call
  <2>3. QED
    BY <2>1, <2>2, NextActs
<1>3. QED
  BY <1>1, <1>2, PTL DEF Spec

\* The ledger's processes, file and lock keep their types, the call limit included
\* (agents.py:133).
THEOREM TypeCorrect == Spec => []TypeOK
  BY LedgerInductive, PTL

\* No reservation is lost before it is settled, for any number of processes that
\* share the file, die and start again (costs.py:69-98, 104-148).
THEOREM NothingLost == Spec => []ReservationKept
  BY LedgerInductive, PTL

\* Each step is one of the atomic ledger's, or leaves the file alone.
LEMMA StepIsAtomic ==
  ASSUME TypeOK /\ FileProtected /\ ReservationKept, [Next]_vars
  PROVE  [Atomic!Reserve \/ Atomic!Settle]_file
<1>1. ASSUME NEW p \in Processes, Acts(p) PROVE Atomic!Reserve \/ Atomic!Settle \/ UNCHANGED file
  <2>1. CASE Reserve(p)
    <3>1. call[p] \in Call /\ data[p] = file
      BY <1>1, <2>1 DEF Reserve, FileProtected, CallsNumbered, LockProtects
    <3>2. call[p].id \in Ids /\ call[p].amount \in Amounts
      BY <3>1 DEF Call
    <3>3. \A e \in file : e.id # call[p].id
      BY <1>1, <2>1, ReservationFresh DEF FileProtected
    <3>4. Total(file) + call[p].amount <= Budget
      BY <2>1, <3>1 DEF Reserve, Fits
    <3>5. QED
      BY <2>1, <3>1, <3>2, <3>3, <3>4 DEF Reserve, Atomic!Reserve
  <2>2. CASE Settle(p)
    <3>1. call[p] \in Call /\ call[p].charge <= call[p].amount /\ call[p].charge \in Nat
          /\ call[p].amount \in Nat
      BY <1>1, <2>2, LedgerAssumption DEF LedgerAssumption, Settle, FileProtected, CallsNumbered, Call
    <3> DEFINE mine == [id |-> call[p].id, state |-> "reserved", amount |-> call[p].amount]
    <3>2. mine \in file /\ Pending(p) = {mine} /\ data[p] = file
      BY <1>1, <2>2, PendingIsReservation DEF FileProtected
    <3>3. file' = (file \ {mine})
                    \cup {[id |-> mine.id, state |-> "settled", amount |-> call[p].charge]}
      BY <2>2, <3>2 DEF Settle
    <3>4. mine.state = "reserved" /\ call[p].charge \in 0..mine.amount
      BY <3>1
    <3>5. QED
      BY <3>2, <3>3, <3>4 DEF Atomic!Settle
  <2>3. QED
    BY <1>1, <2>1, <2>2, FileChanges
<1>2. QED
  BY <1>1, NextActs DEF vars

\* The locked read-modify-write of a JSON file is the atomic ledger: entries are
\* reserved only within the budget, settled once and never for more.
THEOREM LedgerImplementsAtomic == Spec => ImplementsAtomicLedger
<1>1. Init => Atomic!Init
  BY DEF Init, Atomic!Init
<1>2. QED
  BY <1>1, StepIsAtomic, LedgerInductive, PTL DEF Spec, ImplementsAtomicLedger, Atomic!Spec

-----------------------------------------------------------------------------
(* The sum over a finite set.  The fold the module Total uses is a CHOOSE   *)
(* of a recursive function; the function is shown to exist, by induction on *)
(* cardinality, and to add up the elements in any order.                    *)

\* No injection takes a finite set into itself without one of its elements.
LEMMA NoDescent ==
  ASSUME NEW D, IsFiniteSet(D), NEW k \in D, NEW f \in [D -> D \ {k}],
         \A x, y \in D : f[x] = f[y] => x = y
  PROVE  FALSE
<1>1. IsFiniteSet(D \ {k}) /\ Cardinality(D \ {k}) = Cardinality(D) - 1
  BY FS_RemoveElement
<1>2. Cardinality(D \ {k}) < Cardinality(D)
  BY <1>1, FS_CardinalityType
<1>3. QED
  BY <1>1, <1>2, FS_PigeonHole

\* Induction with a set for the predicate: what holds zero and each successor of
\* a member holds every natural number.
LEMMA Upward ==
  ASSUME NEW S, 0 \in S, \A n \in Nat : n \in S => n + 1 \in S
  PROVE  Nat \subseteq S
<1>1. SUFFICES ASSUME NEW k \in Nat, k \notin S PROVE FALSE
  OBVIOUS
<1> DEFINE D == {n \in 0..k : n \notin S}
           f == [n \in D |-> n - 1]
<1>2. IsFiniteSet(D)
  <2>1. IsFiniteSet(0..k)
    BY FS_Interval
  <2>2. QED
    BY <2>1, FS_Subset
<1>3. f \in [D -> D \ {k}]
  <2>1. \A n \in D : n # 0 /\ n - 1 \in Nat /\ n - 1 \notin S
    <3>1. TAKE n \in D
    <3>2. n # 0
      OBVIOUS
    <3>3. n - 1 \in Nat /\ (n - 1) + 1 = n
      BY <3>2
    <3>4. QED
      BY <3>2, <3>3
  <2>2. QED
    BY <1>1, <2>1
<1>4. k \in D /\ \A x, y \in D : f[x] = f[y] => x = y
  BY <1>1
<1> HIDE DEF D, f
<1>5. QED
  BY <1>2, <1>3, <1>4, NoDescent

\* The same over the subsets of a finite set: good is the set of those that have
\* the property, and a set has it when every set with one element less does.
LEMMA SubsetsUpward ==
  ASSUME NEW S, IsFiniteSet(S), NEW good, {} \in good,
         \A s \in SUBSET S : s # {} /\ (\A x \in s : s \ {x} \in good) => s \in good
  PROVE  SUBSET S \subseteq good
<1> DEFINE Reached == {n \in Nat : \A s \in SUBSET S : Cardinality(s) = n => s \in good}
<1>1. \A s \in SUBSET S : IsFiniteSet(s) /\ Cardinality(s) \in Nat
  BY FS_Subset, FS_CardinalityType
<1>2. 0 \in Reached
  BY <1>1, FS_EmptySet
<1>3. ASSUME NEW n \in Nat, n \in Reached PROVE n + 1 \in Reached
  <2>1. ASSUME NEW s \in SUBSET S, Cardinality(s) = n + 1 PROVE s \in good
    <3>1. IsFiniteSet(s) /\ s # {}
      BY <1>1, <2>1, FS_EmptySet
    <3>2. ASSUME NEW x \in s PROVE s \ {x} \in good
      <4>1. Cardinality(s \ {x}) = Cardinality(s) - 1
        BY <3>1, FS_RemoveElement
      <4>2. Cardinality(s \ {x}) = n
        BY <2>1, <4>1
      <4>3. QED
        BY <1>3, <4>2
    <3>3. QED
      BY <3>1, <3>2
  <2>2. QED
    BY <2>1
<1>4. Nat \subseteq Reached
  <2> HIDE DEF Reached
  <2>1. QED
    BY <1>2, <1>3, Upward
<1>5. QED
  BY <1>1, <1>4

\* What MapThenSumSet unfolds to.
Pick(s) == CHOOSE x \in s : TRUE
IsSum(iter, S) ==
  iter = [s \in SUBSET S |-> IF s = {} THEN 0 ELSE Pick(s).amount + iter[s \ {Pick(s)}]]
SumOver(S) == CHOOSE iter : IsSum(iter, S)

LEMMA TotalIsSum == ASSUME NEW S PROVE Total(S) = SumOver(S)[S]
  BY DEF Total, Sums!MapThenSumSet, Sums!MapThenFoldSet, SumOver, IsSum, Pick

\* The recursive function exists: it is built up from the empty set, one
\* cardinality at a time.
LEMMA SumExists ==
  ASSUME NEW S, IsFiniteSet(S)
  PROVE  IsSum(SumOver(S), S)
<1> DEFINE Upto(n) == {s \in SUBSET S : Cardinality(s) <= n}
           Sum(g, s) == IF s = {} THEN 0 ELSE Pick(s).amount + g[s \ {Pick(s)}]
           Reached == {n \in Nat : \E g : g = [s \in Upto(n) |-> Sum(g, s)]}
<1>1. \A s \in SUBSET S : IsFiniteSet(s) /\ Cardinality(s) \in Nat /\ Cardinality(s) <= Cardinality(S)
  BY FS_Subset, FS_CardinalityType
<1>2. ASSUME NEW s \in SUBSET S, s # {}
      PROVE  /\ s \ {Pick(s)} \in SUBSET S
             /\ Cardinality(s \ {Pick(s)}) = Cardinality(s) - 1
  <2>1. Pick(s) \in s
    BY <1>2 DEF Pick
  <2>2. Cardinality(s \ {Pick(s)}) = Cardinality(s) - 1
    BY <1>1, <2>1, FS_RemoveElement
  <2>3. QED
    BY <2>1, <2>2
<1>3. 0 \in Reached
  <2>1. \A s \in Upto(0) : s = {}
    <3>1. SUFFICES ASSUME NEW s \in SUBSET S, Cardinality(s) <= 0 PROVE s = {}
      OBVIOUS
    <3>2. IsFiniteSet(s) /\ Cardinality(s) = 0
      BY <1>1, <3>1
    <3>3. QED
      BY <3>2, FS_EmptySet
  <2> DEFINE g == [s \in Upto(0) |-> 0]
  <2>2. g = [s \in Upto(0) |-> Sum(g, s)]
    BY <2>1
  <2>3. QED
    BY <2>2
<1>4. ASSUME NEW n \in Nat, n \in Reached PROVE n + 1 \in Reached
  <2>1. PICK g : g = [s \in Upto(n) |-> Sum(g, s)]
    BY <1>4
  <2> DEFINE h == [s \in Upto(n + 1) |-> IF s \in Upto(n) THEN g[s] ELSE Sum(g, s)]
  <2>2. ASSUME NEW s \in Upto(n + 1) PROVE h[s] = Sum(h, s)
    <3>1. Upto(n) \subseteq Upto(n + 1)
      BY <1>1
    <3>2. s # {} => s \ {Pick(s)} \in Upto(n)
      BY <1>1, <1>2
    <3>3. s # {} => h[s \ {Pick(s)}] = g[s \ {Pick(s)}]
      <4> HIDE DEF Upto
      <4> QED BY <3>1, <3>2
    <3>4. s \in Upto(n) => g[s] = Sum(g, s)
      <4> HIDE DEF Upto
      <4> QED BY <2>1
    <3>5. h[s] = Sum(g, s)
      <4> HIDE DEF Upto, Sum
      <4> QED BY <3>4
    <3> HIDE DEF Upto, h
    <3>6. QED
      BY <3>3, <3>5
  <2>3. h = [s \in Upto(n + 1) |-> Sum(h, s)]
    <3> HIDE DEF Upto, Sum
    <3> QED BY <2>2
  <2>4. \E f : f = [s \in Upto(n + 1) |-> Sum(f, s)]
    <3> HIDE DEF Upto, Sum, h
    <3> QED BY <2>3
  <2>5. QED
    <3> HIDE DEF Upto, Sum
    <3> QED BY <2>4
<1>5. Cardinality(S) \in Reached
  <2>1. \A n \in Nat : n \in Reached => n + 1 \in Reached
    BY <1>4
  <2> HIDE DEF Reached
  <2>2. Nat \subseteq Reached
    BY <1>3, <2>1, Upward
  <2>3. QED
    BY <1>1, <2>2
<1>6. Upto(Cardinality(S)) = SUBSET S
  BY <1>1
<1>7. \E iter : IsSum(iter, S)
  BY <1>5, <1>6 DEF IsSum
<1>8. QED
  BY <1>7 DEF SumOver

\* The function adds up any element first, not only the chosen one.
LEMMA SumAnyOrder ==
  ASSUME NEW S, IsFiniteSet(S), \A x \in S : x.amount \in Nat, NEW iter, IsSum(iter, S)
  PROVE  /\ iter[{}] = 0
         /\ \A s \in SUBSET S : iter[s] \in Nat
         /\ \A s \in SUBSET S : \A x \in s : iter[s] = x.amount + iter[s \ {x}]
<1>1. iter[{}] = 0
  BY DEF IsSum
<1>2. \A s \in SUBSET S :
        s # {} => Pick(s) \in s /\ iter[s] = Pick(s).amount + iter[s \ {Pick(s)}]
  BY DEF IsSum, Pick
<1>3. \A s \in SUBSET S : iter[s] \in Nat
  <2> DEFINE natural == {s \in SUBSET S : iter[s] \in Nat}
  <2>1. {} \in natural
    BY <1>1
  <2>2. ASSUME NEW s \in SUBSET S, s # {}, \A x \in s : s \ {x} \in natural PROVE s \in natural
    <3>1. Pick(s) \in s /\ iter[s] = Pick(s).amount + iter[s \ {Pick(s)}]
      BY <1>2, <2>2
    <3>2. Pick(s).amount \in Nat /\ iter[s \ {Pick(s)}] \in Nat
      BY <2>2, <3>1
    <3>3. iter[s] \in Nat
      BY <3>1, <3>2
    <3>4. QED
      BY <3>3
  <2>3. SUBSET S \subseteq natural
    <3> HIDE DEF natural
    <3>1. QED
      BY <2>1, <2>2, SubsetsUpward
  <2>4. QED
    BY <2>3
<1>4. \A s \in SUBSET S : \A x \in s : iter[s] = x.amount + iter[s \ {x}]
  <2> DEFINE good == {s \in SUBSET S : \A x \in s : iter[s] = x.amount + iter[s \ {x}]}
  <2>1. {} \in good
    OBVIOUS
  <2>2. ASSUME NEW s \in SUBSET S, s # {}, \A x \in s : s \ {x} \in good PROVE s \in good
    <3> DEFINE y == Pick(s)
    <3>1. y \in s /\ iter[s] = y.amount + iter[s \ {y}]
      BY <1>2, <2>2
    <3>2. ASSUME NEW x \in s, x # y PROVE iter[s] = x.amount + iter[s \ {x}]
      <4> HIDE DEF y
      <4>1. iter[s \ {y}] = x.amount + iter[(s \ {y}) \ {x}]
        BY <2>2, <3>1, <3>2
      <4>2. iter[s \ {x}] = y.amount + iter[(s \ {x}) \ {y}]
        BY <2>2, <3>1, <3>2
      <4>3. (s \ {y}) \ {x} = (s \ {x}) \ {y} /\ (s \ {x}) \ {y} \in SUBSET S
        OBVIOUS
      <4>4. iter[(s \ {x}) \ {y}] \in Nat /\ x.amount \in Nat /\ y.amount \in Nat
        BY <1>3, <3>1, <4>3
      <4>5. iter[s] = y.amount + (x.amount + iter[(s \ {x}) \ {y}])
        BY <3>1, <4>1, <4>3
      <4>6. iter[s] = x.amount + (y.amount + iter[(s \ {x}) \ {y}])
        BY <4>4, <4>5
      <4>7. QED
        BY <4>2, <4>6
    <3>3. QED
      BY <3>1, <3>2
  <2>3. SUBSET S \subseteq good
    <3> HIDE DEF good
    <3>1. QED
      BY <2>1, <2>2, SubsetsUpward
  <2>4. QED
    BY <2>3
<1>5. QED
  BY <1>1, <1>3, <1>4

\* The sum over part of a set is what the function of the whole set says of it.
LEMMA SumOfPart ==
  ASSUME NEW S, IsFiniteSet(S), \A x \in S : x.amount \in Nat, NEW T \in SUBSET S
  PROVE  Total(T) = SumOver(S)[T]
<1> DEFINE i == SumOver(S)
           j == SumOver(T)
           same == {s \in SUBSET T : i[s] = j[s]}
<1>1. IsFiniteSet(T) /\ IsSum(i, S) /\ IsSum(j, T)
  BY SumExists, FS_Subset
<1> HIDE DEF i, j
<1>2. {} \in same
  BY <1>1 DEF IsSum
<1>3. ASSUME NEW s \in SUBSET T, s # {}, \A x \in s : s \ {x} \in same PROVE s \in same
  <2>1. Pick(s) \in s
    BY <1>3 DEF Pick
  <2>2. i[s] = Pick(s).amount + i[s \ {Pick(s)}] /\ j[s] = Pick(s).amount + j[s \ {Pick(s)}]
    BY <1>1, <1>3 DEF IsSum
  <2>3. QED
    BY <1>3, <2>1, <2>2
<1>4. SUBSET T \subseteq same
  <2> HIDE DEF same
  <2>1. QED
    BY <1>1, <1>2, <1>3, SubsetsUpward
<1>5. QED
  BY <1>4, TotalIsSum DEF i, j

\* What the ledger uses of its total: it is a natural number, nothing adds up to
\* zero, and an entry adds its own amount.
LEMMA TotalOfNone == Total({}) = 0
<1>1. IsFiniteSet({}) /\ IsSum(SumOver({}), {})
  BY FS_EmptySet, SumExists
<1>2. QED
  BY <1>1, TotalIsSum DEF IsSum

LEMMA TotalStep ==
  ASSUME NEW S, IsFiniteSet(S), \A y \in S : y.amount \in Nat, NEW x \in S
  PROVE  /\ Total(S) \in Nat /\ Total(S \ {x}) \in Nat
         /\ Total(S) = x.amount + Total(S \ {x})
<1>1. IsSum(SumOver(S), S)
  BY SumExists
<1>2. Total(S) = SumOver(S)[S] /\ Total(S \ {x}) = SumOver(S)[S \ {x}]
  BY SumOfPart
<1>3. S \in SUBSET S /\ S \ {x} \in SUBSET S
  OBVIOUS
<1>4. /\ \A s \in SUBSET S : SumOver(S)[s] \in Nat
      /\ SumOver(S)[S] = x.amount + SumOver(S)[S \ {x}]
  BY <1>1, <1>3, SumAnyOrder
<1>5. QED
  BY <1>2, <1>3, <1>4

LEMMA TotalIsNatural ==
  ASSUME NEW S, IsFiniteSet(S), \A y \in S : y.amount \in Nat
  PROVE  Total(S) \in Nat
<1>1. IsSum(SumOver(S), S)
  BY SumExists
<1>2. S \in SUBSET S /\ \A s \in SUBSET S : SumOver(S)[s] \in Nat
  BY <1>1, SumAnyOrder
<1>3. QED
  BY <1>2, TotalIsSum

\* One entry more adds at most its amount.
LEMMA TotalAdd ==
  ASSUME NEW S, IsFiniteSet(S), \A y \in S : y.amount \in Nat, NEW x, x.amount \in Nat
  PROVE  /\ IsFiniteSet(S \cup {x})
         /\ Total(S \cup {x}) \in Nat
         /\ Total(S \cup {x}) <= Total(S) + x.amount
<1>1. IsFiniteSet(S \cup {x}) /\ \A y \in S \cup {x} : y.amount \in Nat
  BY FS_AddElement
<1>2. /\ Total(S \cup {x}) \in Nat /\ Total((S \cup {x}) \ {x}) \in Nat
      /\ Total(S \cup {x}) = x.amount + Total((S \cup {x}) \ {x})
  BY <1>1, TotalStep
<1>3. CASE x \in S
  <2>1. S \cup {x} = S
    BY <1>3
  <2>2. Total(S) \in Nat /\ Total(S) <= Total(S) + x.amount
    BY <1>2, <2>1
  <2>3. QED
    BY <1>1, <2>1, <2>2
<1>4. CASE x \notin S
  <2>1. (S \cup {x}) \ {x} = S
    BY <1>4
  <2>2. Total(S \cup {x}) = Total(S) + x.amount
    BY <1>2, <2>1
  <2>3. QED
    BY <1>1, <1>2, <2>2
<1>5. QED
  BY <1>3, <1>4

-----------------------------------------------------------------------------
\* The promises of the atomic ledger keep the total within the budget: a
\* reservation is weighed against it, and a settlement frees the difference.
LEMMA AtomicWithinBudget ==
  ASSUME file \subseteq Entry, IsFiniteSet(file), WithinBudget,
         Atomic!Reserve \/ Atomic!Settle
  PROVE  IsFiniteSet(file') /\ WithinBudget'
<1>1. \A e \in file : e.amount \in Nat
  BY DEF Entry
<1>2. Budget \in Nat
  BY LedgerAssumption DEF LedgerAssumption
<1>3. CASE Atomic!Reserve
  <2>1. PICK id \in Ids, amount \in Amounts :
          /\ Total(file) + amount <= Budget
          /\ file' = file \cup {[id |-> id, state |-> "reserved", amount |-> amount]}
    BY <1>3 DEF Atomic!Reserve
  <2> DEFINE new == [id |-> id, state |-> "reserved", amount |-> amount]
  <2>2. new.amount = amount /\ amount \in Nat
    BY LedgerAssumption DEF LedgerAssumption
  <2> HIDE DEF new
  <2>3. /\ IsFiniteSet(file \cup {new})
        /\ Total(file \cup {new}) \in Nat /\ Total(file \cup {new}) <= Total(file) + amount
    BY <1>1, <2>2, TotalAdd
  <2>4. file' = file \cup {new}
    BY <2>1 DEF new
  <2>5. Total(file) \in Int
    BY <1>1, TotalIsNatural
  <2>6. Total(file \cup {new}) <= Budget
    BY <1>2, <2>1, <2>2, <2>3, <2>5
  <2>7. QED
    BY <2>3, <2>4, <2>6 DEF WithinBudget
<1>4. CASE Atomic!Settle
  <2>1. PICK entry \in file : \E amount \in 0..entry.amount :
          file' = (file \ {entry}) \cup {[id |-> entry.id, state |-> "settled", amount |-> amount]}
    BY <1>4 DEF Atomic!Settle
  <2>2. PICK amount \in 0..entry.amount :
          file' = (file \ {entry}) \cup {[id |-> entry.id, state |-> "settled", amount |-> amount]}
    BY <2>1
  <2> DEFINE new == [id |-> entry.id, state |-> "settled", amount |-> amount]
             rest == file \ {entry}
  <2>3. new.amount = amount /\ entry.amount \in Nat /\ amount \in Nat /\ amount <= entry.amount
    BY <1>1
  <2>4. file' = rest \cup {new}
    BY <2>2
  <2>5. Total(file) \in Nat /\ Total(rest) \in Nat /\ Total(file) = entry.amount + Total(rest)
    BY <1>1, TotalStep
  <2>6. IsFiniteSet(rest) /\ \A e \in rest : e.amount \in Nat
    BY <1>1, FS_RemoveElement
  <2> HIDE DEF new, rest
  <2>7. /\ IsFiniteSet(rest \cup {new})
        /\ Total(rest \cup {new}) \in Nat /\ Total(rest \cup {new}) <= Total(rest) + amount
    BY <2>3, <2>6, TotalAdd
  <2>8. Total(rest \cup {new}) <= Total(file)
    BY <2>3, <2>5, <2>7
  <2>9. Total(rest \cup {new}) <= Budget
    BY <1>2, <2>5, <2>7, <2>8 DEF WithinBudget
  <2>10. QED
    BY <2>4, <2>7, <2>9 DEF WithinBudget
<1>5. QED
  BY <1>3, <1>4

\* The accounted total never passes the budget, for any number of processes that
\* share the file, any budget and any reservations (costs.py:104-125).
THEOREM BudgetKept == Spec => []WithinBudget
<1> DEFINE Inv == IsFiniteSet(file) /\ WithinBudget
<1>1. Init => Inv
  <2>1. IsFiniteSet({}) /\ Total({}) = 0
    BY FS_EmptySet, TotalOfNone
  <2>2. QED
    BY <2>1, LedgerAssumption DEF LedgerAssumption, Init, WithinBudget
<1>2. ASSUME Inv, TypeOK /\ FileProtected /\ ReservationKept, [Next]_vars PROVE Inv'
  <2>1. CASE file' = file
    BY <1>2, <2>1 DEF WithinBudget
  <2>2. CASE Atomic!Reserve \/ Atomic!Settle
    BY <1>2, <2>2, AtomicWithinBudget DEF TypeOK
  <2>3. QED
    BY <1>2, <2>1, <2>2, StepIsAtomic
<1>3. QED
  BY <1>1, <1>2, LedgerInductive, PTL DEF Spec
-----------------------------------------------------------------------------
(* What the service charges, in a configuration without retries.           *)

\* How far the charges of a call have got.  Nothing is charged before its request,
\* and what it is settled with covers the one request.
Charges ==
  /\ \A p \in Processes, run \in 1..MaxRuns, n \in 1..MaxCalls :
       billed[<<p, run, n>>] > 0 => run < runs[p] \/ (run = runs[p] /\ n <= calls[p])
  /\ \A p \in Processes : pc[p] = "request" => billed[call[p].id] = 0
  /\ \A p \in Processes : pc[p] \in {"settle", "settling"} =>
       billed[call[p].id] <= call[p].charge
  /\ BilledIsAccounted

\* Without retries only the end of a request is charged, for at most what the call
\* is then settled with.
LEMMA OneRequest ==
  ASSUME Retries = 0, TypeOK, CallsNumbered, Charges, NEW p \in Processes, Acts(p),
         billed' # billed
  PROVE  /\ pc[p] = "request" /\ pc' = [pc EXCEPT ![p] = "settle"]
         /\ call[p].id = <<p, runs[p], calls[p]>> /\ call[p].id \in Ids
         /\ call'[p].id = call[p].id
         /\ UNCHANGED <<file, runs, calls>>
         /\ \E price \in 0..call[p].amount :
              billed' = [billed EXCEPT ![call[p].id] = price] /\ price <= call'[p].charge
<1>1. Answer(p) \/ RequestFails(p)
  <2>1. ~Retry(p)
    BY DEF Retry, CallsNumbered, Call
  <2>2. QED
    BY <2>1 DEF Acts, Begin, LockAndRead, Refuse, Reserve, ReserveWriteFails, Settle,
       SettleWriteFails, Crash, Restart
<1>2. /\ pc[p] = "request" /\ pc' = [pc EXCEPT ![p] = "settle"] /\ UNCHANGED <<file, runs, calls>>
      /\ call[p] \in Call /\ call[p].id = <<p, runs[p], calls[p]>> /\ call[p].id \in Ids
  <2>1. /\ pc[p] = "request" /\ pc' = [pc EXCEPT ![p] = "settle"]
        /\ UNCHANGED <<file, runs, calls>>
    BY <1>1 DEF Answer, RequestFails, Goto
  <2>2. call[p] \in Call /\ call[p].id = <<p, runs[p], calls[p]>>
    BY <2>1 DEF CallsNumbered
  <2>3. QED
    BY <2>1, <2>2 DEF Call
<1>3. call[p].amount \in Nat /\ billed[call[p].id] = 0
  BY <1>2, LedgerAssumption DEF LedgerAssumption, Call, Charges
<1>4. ASSUME NEW price \in 0..call[p].amount, Charge(p, price)
      PROVE  billed' = [billed EXCEPT ![call[p].id] = price]
  <2>1. 0 + price = price
    BY <1>3
  <2>2. billed' = [billed EXCEPT ![call[p].id] = billed[call[p].id] + price]
    BY <1>4 DEF Charge
  <2>3. QED
    BY <1>3, <2>1, <2>2
<1>5. CASE Answer(p)
  <2>1. PICK price \in 1..call[p].amount :
          /\ Charge(p, price)
          /\ \E charge \in {price, call[p].amount} :
               call' = [call EXCEPT ![p].charge = charge, ![p].outcome = "success"]
    BY <1>5 DEF Answer
  <2>2. PICK charge \in {price, call[p].amount} :
          call' = [call EXCEPT ![p].charge = charge, ![p].outcome = "success"]
    BY <2>1
  <2>3. call'[p].charge = charge /\ call'[p].id = call[p].id
    BY <1>2, <2>2 DEF TypeOK, Call
  <2>4. price \in 0..call[p].amount /\ price <= charge
    BY <1>3
  <2>5. QED
    BY <1>2, <1>4, <2>1, <2>3, <2>4
<1>6. CASE RequestFails(p)
  <2>1. PICK price \in 0..call[p].amount : Charge(p, price)
    BY <1>6 DEF RequestFails
  <2>2. call'[p].charge = call[p].amount /\ call'[p].id = call[p].id
    BY <1>2, <1>6 DEF RequestFails, ChargeReserved, TypeOK, Call
  <2>3. price <= call[p].amount
    BY <1>3
  <2>4. QED
    BY <1>2, <1>4, <2>1, <2>2, <2>3
<1>7. QED
  BY <1>1, <1>5, <1>6

LEMMA ChargesPreserved ==
  ASSUME Retries = 0, TypeOK, FileProtected, ReservationKept, Charges, TypeOK', CallsNumbered',
         NEW p \in Processes, Acts(p)
  PROVE  Charges'
<1> USE DEF FileProtected
<1>0. /\ \A q \in Processes : calls[q] \in Nat /\ runs[q] \in Nat
      /\ \A id \in Ids : billed[id] \in Nat
  BY LedgerAssumption DEF LedgerAssumption, TypeOK
\* A charge.
<1>1. ASSUME billed' # billed PROVE Charges'
  <2>1. /\ pc[p] = "request" /\ pc' = [pc EXCEPT ![p] = "settle"]
        /\ call[p].id = <<p, runs[p], calls[p]>> /\ call[p].id \in Ids
        /\ call'[p].id = call[p].id
        /\ UNCHANGED <<file, runs, calls>>
    BY <1>1, OneRequest
  <2>2. PICK price \in 0..call[p].amount :
          billed' = [billed EXCEPT ![call[p].id] = price] /\ price <= call'[p].charge
    BY <1>1, OneRequest
  <2>3. /\ \A id \in Ids : id # call[p].id => billed'[id] = billed[id]
        /\ billed'[call[p].id] = price
    BY <2>1, <2>2 DEF TypeOK
  <2>4. ASSUME NEW q \in Processes, NEW run \in 1..MaxRuns, NEW n \in 1..MaxCalls,
               billed'[<<q, run, n>>] > 0
        PROVE  run < runs'[q] \/ (run = runs'[q] /\ n <= calls'[q])
    <3>1. <<q, run, n>> \in Ids
      BY DEF Ids
    <3>2. CASE <<q, run, n>> = call[p].id
      BY <1>0, <2>1, <3>2
    <3>3. CASE <<q, run, n>> # call[p].id
      BY <2>1, <2>3, <2>4, <3>1, <3>3 DEF Charges
    <3>4. QED
      BY <3>2, <3>3
  <2>5. ASSUME NEW q \in Processes, q # p, pc[q] \in {"request", "settle", "settling"}
        PROVE  billed'[call'[q].id] = billed[call[q].id] /\ pc'[q] = pc[q] /\ call'[q] = call[q]
    <3>1. call'[q] = call[q] /\ pc'[q] = pc[q]
      BY <2>5, OthersUnchanged
    <3>2. call[q].id = <<q, runs[q], calls[q]>> /\ call[q].id \in Ids
      BY <2>5 DEF CallsNumbered, Call
    <3>3. QED
      BY <2>1, <2>3, <2>5, <3>1, <3>2
  <2>6. ASSUME NEW q \in Processes, q # p PROVE pc'[q] = pc[q]
    BY <2>6, OthersUnchanged
  <2>7. pc'[p] = "settle"
    BY <2>1 DEF TypeOK
  <2>8. ASSUME NEW q \in Processes, pc'[q] = "request" PROVE billed'[call'[q].id] = 0
    BY <2>5, <2>6, <2>7, <2>8 DEF Charges
  <2>9. ASSUME NEW q \in Processes, pc'[q] \in {"settle", "settling"}
        PROVE  billed'[call'[q].id] <= call'[q].charge
    <3>1. CASE q = p
      BY <2>1, <2>2, <2>3, <3>1
    <3>2. CASE q # p
      BY <2>5, <2>6, <2>9, <3>2 DEF Charges
    <3>3. QED
      BY <3>1, <3>2
  <2>10. ASSUME NEW id \in Ids, billed'[id] > 0
         PROVE  \E entry \in file' : entry.id = id /\ billed'[id] <= entry.amount
    <3>1. CASE id = call[p].id
      <4> DEFINE mine == [id |-> call[p].id, state |-> "reserved", amount |-> call[p].amount]
      <4>1. mine \in file /\ mine.id = id /\ mine.amount = call[p].amount
        BY <2>1, <3>1 DEF ReservationKept
      <4>2. billed'[id] <= call[p].amount
        BY <2>1, <2>2, <2>3, <3>1, LedgerAssumption DEF LedgerAssumption, CallsNumbered, Call
      <4>3. QED
        BY <2>1, <4>1, <4>2
    <3>2. CASE id # call[p].id
      BY <2>1, <2>3, <2>10, <3>2 DEF Charges, BilledIsAccounted
    <3>3. QED
      BY <3>1, <3>2
  <2>11. QED
    BY <2>4, <2>8, <2>9, <2>10 DEF Charges, BilledIsAccounted
\* Any other step.
<1>2. ASSUME billed' = billed PROVE Charges'
  <2>1. ASSUME NEW q \in Processes, NEW run \in 1..MaxRuns, NEW n \in 1..MaxCalls,
               billed'[<<q, run, n>>] > 0
        PROVE  run < runs'[q] \/ (run = runs'[q] /\ n <= calls'[q])
    BY <1>2, <2>1, NumbersAdvance DEF Charges
  <2>2. ASSUME pc'[p] = "request" PROVE billed'[call'[p].id] = 0
    <3>1. Reserve(p) \/ Answer(p) \/ Retry(p) \/ RequestFails(p)
      BY <2>2 DEF Acts, Begin, LockAndRead, Refuse, Reserve, ReserveWriteFails, Settle,
         SettleWriteFails, Crash, Restart, Goto, Leave, TypeOK
    <3>2. ~Answer(p) /\ ~RequestFails(p)
      BY <2>2 DEF Answer, RequestFails, Goto, TypeOK
    <3>3. ~Retry(p)
      BY DEF Retry, CallsNumbered, Call
    <3>4. Reserve(p)
      BY <3>1, <3>2, <3>3
    <3>5. call'[p] = call[p] /\ call[p].id = <<p, runs[p], calls[p] + 1>> /\ call[p].id \in Ids
      BY <3>4 DEF Reserve, CallsNumbered, Call
    <3>6. runs[p] \in 1..MaxRuns /\ calls[p] + 1 \in 1..MaxCalls
      BY <3>5 DEF Ids
    <3>7. ~(billed[<<p, runs[p], calls[p] + 1>>] > 0)
      BY <1>0, <3>6 DEF Charges
    <3>8. QED
      BY <1>0, <1>2, <3>5, <3>7
  <2>3. ASSUME pc'[p] \in {"settle", "settling"}
        PROVE  billed'[call'[p].id] <= call'[p].charge
    <3>1. CASE Answer(p) \/ RequestFails(p)
      <4>1. /\ call'[p] \in Call /\ call'[p].id = call[p].id /\ call[p] \in Call
        <5>1. pc[p] = "request" /\ call[p] \in Call
          BY <3>1 DEF Answer, RequestFails, CallsNumbered
        <5>2. call'[p] \in Call
          BY <2>3 DEF CallsNumbered
        <5>3. CASE Answer(p)
          <6>1. PICK charge : call' = [call EXCEPT ![p].charge = charge, ![p].outcome = "success"]
            BY <5>3 DEF Answer
          <6>2. QED
            BY <5>1, <5>2, <6>1 DEF TypeOK, Call
        <5>4. CASE RequestFails(p)
          BY <5>1, <5>2, <5>4 DEF RequestFails, TypeOK, Call
        <5>5. QED
          BY <3>1, <5>1, <5>2, <5>3, <5>4
      <4>2. billed[call[p].id] = 0
        BY <3>1 DEF Answer, RequestFails, Charges
      <4>3. call'[p].charge \in Nat
        BY <4>1 DEF Call
      <4>4. QED
        BY <1>2, <4>1, <4>2, <4>3
    <3>2. CASE LockAndRead(p)
      BY <1>2, <2>3, <3>2 DEF LockAndRead, Goto, Charges, TypeOK
    <3>3. CASE SettleWriteFails(p)
      <4>1. pc[p] = "settling" /\ call[p] \in Call /\ call[p].charge <= call[p].amount
        BY <3>3 DEF SettleWriteFails, CallsNumbered
      <4>2. call' = [call EXCEPT ![p].charge = ChargeReserved(p), ![p].outcome = "unknown-error"]
        BY <2>3, <3>3 DEF SettleWriteFails, Goto, Leave, TypeOK
      <4>3. call'[p].charge = call[p].amount /\ call'[p].id = call[p].id
        BY <4>1, <4>2 DEF ChargeReserved, TypeOK, Call
      <4>4. billed[call[p].id] <= call[p].charge
        BY <4>1 DEF Charges
      <4>5. /\ billed[call[p].id] \in Nat /\ call[p].charge \in Nat /\ call[p].amount \in Nat
        BY <1>0, <4>1, LedgerAssumption DEF LedgerAssumption, Call
      <4>6. QED
        BY <1>2, <4>1, <4>3, <4>4, <4>5
    <3>4. QED
      BY <2>3, <3>1, <3>2, <3>3 DEF Acts, Begin, Refuse, Reserve, ReserveWriteFails, Retry, Settle,
         Crash, Restart, Goto, Leave, TypeOK
  <2>4. ASSUME NEW q \in Processes, q # p, pc'[q] \in {"request", "settle", "settling"}
        PROVE  /\ pc'[q] = "request" => billed'[call'[q].id] = 0
               /\ pc'[q] \in {"settle", "settling"} => billed'[call'[q].id] <= call'[q].charge
    BY <1>2, <2>4, OthersUnchanged DEF Charges
  <2>5. ASSUME NEW id \in Ids, billed'[id] > 0
        PROVE  \E entry \in file' : entry.id = id /\ billed'[id] <= entry.amount
    <3>1. PICK entry \in file : entry.id = id /\ billed[id] <= entry.amount
      BY <1>2, <2>5 DEF Charges, BilledIsAccounted
    <3>2. CASE Reserve(p)
      BY <1>2, <3>1, <3>2 DEF Reserve, LockProtects
    <3>3. CASE Settle(p)
      <4> DEFINE settled == [id |-> call[p].id, state |-> "settled", amount |-> call[p].charge]
      <4>1. file' = (file \ Pending(p)) \cup {settled} /\ data[p] = file
        BY <3>3 DEF Settle, LockProtects
      <4>2. CASE id = call[p].id
        <5>1. billed[id] <= settled.amount /\ settled.id = id
          BY <3>3, <4>2 DEF Settle, Charges
        <5>2. QED
          BY <1>2, <4>1, <5>1
      <4>3. CASE id # call[p].id
        <5>1. entry \in file'
          BY <3>1, <4>1, <4>3 DEF Pending
        <5>2. QED
          BY <1>2, <3>1, <5>1
      <4>4. QED
        BY <4>2, <4>3
    <3>4. QED
      BY <1>2, <3>1, <3>2, <3>3, FileChanges
  <2>6. QED
    BY <2>1, <2>2, <2>3, <2>4, <2>5 DEF Charges, BilledIsAccounted
<1>3. QED
  BY <1>1, <1>2

\* In a configuration without retries, which the provider allows (agents.py:99), what
\* the service may have charged is accounted for, also after errors, lost writes and
\* crashes (agents.py:190-193, docs/DEVELOPMENT.md:47-49).
THEOREM BilledWithoutRetries ==
  ASSUME Retries = 0
  PROVE  Spec => []BilledIsAccounted
<1> DEFINE Inv == TypeOK /\ FileProtected /\ ReservationKept
<1>1. Init => Charges
  BY DEF Init, Charges, BilledIsAccounted, Ids
<1>2. Inv /\ Inv' /\ Charges /\ [Next]_vars => Charges'
  <2>1. ASSUME Inv, Inv', Charges, NEW p \in Processes, Acts(p) PROVE Charges'
    BY <2>1, ChargesPreserved DEF FileProtected
  <2>2. ASSUME Charges, UNCHANGED vars PROVE Charges'
    BY <2>2 DEF vars, Charges, BilledIsAccounted
  <2>3. QED
    BY <2>1, <2>2, NextActs
<1>3. Charges => BilledIsAccounted
  BY DEF Charges
<1>4. QED
  BY <1>1, <1>2, <1>3, LedgerInductive, PTL DEF Spec
=============================================================================
