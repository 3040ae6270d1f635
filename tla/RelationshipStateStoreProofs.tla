-------------------- MODULE RelationshipStateStoreProofs --------------------
(***************************************************************************)
(* Machine-checked safety of the relationship-state store, for every set   *)
(* of hosts and records and every bound, and that it implements the atomic *)
(* register AnchoredRegister.                                              *)
(***************************************************************************)
EXTENDS RelationshipStateStore, TLAPS

LEMMA NoAnchorType == NoAnchor \in Anchors
  BY DEF NoAnchor, Anchors, Contents

LEMMA NoJournalType == NoJournal \in Journals
  BY NoAnchorType DEF NoJournal, Journals

LEMMA NoFileType == NoFile \in StateFiles
  BY DEF NoFile, NoAnchor, StateOf, StateFiles, Contents

LEMMA StateOfType ==
  ASSUME NEW a \in Anchors PROVE StateOf(a) \in StateFiles
  BY DEF Anchors, StateOf, StateFiles

LEMMA NoRequestType == NoRequest \in Requests
  BY NoAnchorType DEF NoRequest, Requests, Contents

LEMMA AnswerType ==
  /\ Pending \in Answers
  /\ \A k \in {"error", "live", "gone", "erased", "destroyed"} : Answer(k) \in Answers
  BY DEF Pending, Answer, Answers, Contents

LEMMA HoldingType ==
  ASSUME NEW f, f.generation \in Nat, f.record \in Contents
  PROVE  /\ Holding("value", f) \in Answers
         /\ Holding("committed", f) \in Answers
  BY DEF Holding, Answers

LEMMA AdvanceType ==
  ASSUME NEW a \in Anchors, NEW r \in Contents, NEW gone \in BOOLEAN
  PROVE  Advance(a, r, gone) \in Anchors
  BY DEF Advance, Anchors

LEMMA JournalType ==
  ASSUME NEW k \in {"commit", "destroy"}, NEW a \in Anchors, NEW b \in Anchors
  PROVE  [kind |-> k, expected |-> a, next |-> b] \in Journals
  BY DEF Journals

\* A host's next answer, when the operation ends in this step, keeps the type.
LEMMA FinishType ==
  ASSUME TypeOK, NEW h \in Hosts, NEW a \in Answers, Finish(h, a)
  PROVE  /\ pc' \in [Hosts -> Steps]
         /\ answer' \in [Hosts -> Answers]
  BY DEF TypeOK, Finish, Steps

LEMMA ThrowType ==
  ASSUME TypeOK, NEW h \in Hosts, Throw(h)
  PROVE  /\ pc' \in [Hosts -> Steps]
         /\ answer' \in [Hosts -> Answers]
         /\ faults' \in Nat
  BY FinishType, AnswerType DEF TypeOK, Throw

LEMMA ResetType ==
  ASSUME TypeOK, NEW h \in Hosts, Reset(h)
  PROVE  /\ pc' \in [Hosts -> Steps]
         /\ request' \in [Hosts -> Requests]
         /\ txn' \in [Hosts -> Journals]
         /\ answer' \in [Hosts -> Answers]
  BY NoRequestType, NoJournalType, AnswerType DEF TypeOK, Reset, Steps

LEMMA ThenOrThrowType ==
  ASSUME TypeOK, NEW h \in Hosts, NEW step \in Steps, ThenOrThrow(h, step)
  PROVE  /\ pc' \in [Hosts -> Steps]
         /\ answer' \in [Hosts -> Answers]
         /\ faults' \in Nat
  <1>1. CASE Goto(h, step) /\ UNCHANGED faults
    BY <1>1 DEF Goto, TypeOK
  <1>2. CASE Throw(h)
    BY <1>2, ThrowType
  <1>3. QED
    BY <1>1, <1>2 DEF ThenOrThrow

LEMMA FinishOrThrowType ==
  ASSUME TypeOK, NEW h \in Hosts, NEW a \in Answers, FinishOrThrow(h, a)
  PROVE  /\ pc' \in [Hosts -> Steps]
         /\ answer' \in [Hosts -> Answers]
         /\ faults' \in Nat
  <1>1. CASE Finish(h, a) /\ UNCHANGED faults
    BY <1>1, FinishType DEF TypeOK
  <1>2. CASE Throw(h)
    BY <1>2, ThrowType
  <1>3. QED
    BY <1>1, <1>2 DEF FinishOrThrow

\* Every step of the store keeps every variable in its type.
LEMMA TypeStep == TypeOK /\ [Next]_vars => TypeOK'
  <1> SUFFICES ASSUME TypeOK, [Next]_vars PROVE TypeOK'
    OBVIOUS
  <1> USE DEF disk, locals, ghosts, environment
  <1>1. ASSUME NEW h \in Hosts, Start(h) PROVE TypeOK'
    <2>1. PICK op \in {"load", "status", "commit", "destroy"}, force \in BOOLEAN,
               e \in seen[h] \cup {NoAnchor}, r \in Contents :
            /\ request' = [request EXCEPT ![h] =
                 [op |-> op, expected |-> e, force |-> force, record |-> r]]
            /\ pc' = [pc EXCEPT ![h] = IF op = "destroy" THEN "body" ELSE "recover"]
      BY <1>1 DEF Start
    <2>2. e \in Anchors
      BY NoAnchorType DEF TypeOK
    <2>3. request' \in [Hosts -> Requests]
      BY <2>1, <2>2 DEF TypeOK, Requests
    <2>4. pc' \in [Hosts -> Steps]
      BY <2>1 DEF TypeOK, Steps
    <2>5. lock' \in BOOLEAN /\ UNCHANGED <<disk, txn, answer, seen, ghosts, environment, faults>>
      BY <1>1 DEF Start, Acquire
    <2>6. QED
      BY <2>3, <2>4, <2>5 DEF TypeOK
  <1>2. ASSUME NEW h \in Hosts, Recover(h) PROVE TypeOK'
    <2>1. pc' \in [Hosts -> Steps] /\ answer' \in [Hosts -> Answers]
      BY <1>2, FinishType, AnswerType DEF Recover, Goto, TypeOK, Steps, RedoStep
    <2>2. QED
      BY <1>2, <2>1 DEF Recover, TypeOK
  <1>3. ASSUME NEW h \in Hosts, RedoCommit(h) PROVE TypeOK'
    <2>1. ThenOrThrow(h, "dropJournal") /\ "dropJournal" \in Steps
      BY <1>3 DEF RedoCommit, Steps
    <2>2. state' \in StateFiles
      BY <1>3, StateOfType DEF RedoCommit, TypeOK, Journals
    <2>3. QED
      BY <1>3, <2>1, <2>2, ThenOrThrowType DEF RedoCommit, TypeOK
  <1>4. ASSUME NEW h \in Hosts, RedoDestroy(h) PROVE TypeOK'
    <2>1. ThenOrThrow(h, "dropJournal") /\ "dropJournal" \in Steps
      BY <1>4 DEF RedoDestroy, Steps
    <2>2. QED
      BY <1>4, <2>1, ThenOrThrowType, NoFileType
         DEF RedoDestroy, RemoveStateFile, TypeOK
  <1>5. ASSUME NEW h \in Hosts, DropJournal(h) PROVE TypeOK'
    <2>1. ThenOrThrow(h, "body") /\ "body" \in Steps
      BY <1>5 DEF DropJournal, Steps
    <2>2. QED
      BY <1>5, <2>1, ThenOrThrowType, NoJournalType DEF DropJournal, TypeOK
  <1>6. ASSUME NEW h \in Hosts, Load(h) PROVE TypeOK'
    <2>1. Holding("value", state) \in Answers
      BY HoldingType DEF TypeOK, StateFiles
    <2>2. pc' \in [Hosts -> Steps] /\ answer' \in [Hosts -> Answers]
      BY <1>6, <2>1, FinishType, AnswerType DEF Load
    <2>3. QED
      BY <1>6, <2>2 DEF Load, TypeOK
  <1>7. ASSUME NEW h \in Hosts, ErasureStatus(h) PROVE TypeOK'
    <2>1. /\ pc' \in [Hosts -> Steps] /\ answer' \in [Hosts -> Answers]
          /\ faults' \in Nat
      BY <1>7, FinishOrThrowType, FinishType, AnswerType DEF ErasureStatus, TypeOK
    <2>2. state' \in StateFiles
      BY <1>7, NoFileType DEF ErasureStatus, RemoveStateFile, TypeOK
    <2>3. QED
      BY <1>7, <2>1, <2>2 DEF ErasureStatus, TypeOK
  <1>8. ASSUME NEW h \in Hosts, PrepareCommit(h) PROVE TypeOK'
    <2>1. Advance(anchor, request[h].record, FALSE) \in Anchors
      BY AdvanceType DEF TypeOK, Requests
    <2>2. txn' \in [Hosts -> Journals]
      <3>1. [kind |-> "commit", expected |-> anchor,
             next |-> Advance(anchor, request[h].record, FALSE)] \in Journals
        BY <2>1, JournalType DEF TypeOK
      <3>2. QED
        BY <1>8, <3>1 DEF PrepareCommit, TypeOK
    <2>3. pc' \in [Hosts -> Steps] /\ answer' \in [Hosts -> Answers]
      BY <1>8, FinishType, AnswerType DEF PrepareCommit, Goto, TypeOK, Steps
    <2>4. QED
      BY <1>8, <2>2, <2>3 DEF PrepareCommit, TypeOK
  <1>9. ASSUME NEW h \in Hosts, PrepareDestroy(h) PROVE TypeOK'
    <2>1. Advance(anchor, NoRecord, TRUE) \in Anchors
      BY AdvanceType DEF TypeOK, Contents
    <2>2. txn' \in [Hosts -> Journals] /\ state' \in StateFiles
      <3>1. [kind |-> "destroy", expected |-> anchor,
             next |-> Advance(anchor, NoRecord, TRUE)] \in Journals
        BY <2>1, JournalType DEF TypeOK
      <3>2. QED
        BY <1>9, <3>1, NoFileType DEF PrepareDestroy, RemoveStateFile, TypeOK
    <2>3. /\ pc' \in [Hosts -> Steps] /\ answer' \in [Hosts -> Answers]
          /\ faults' \in Nat
      BY <1>9, FinishOrThrowType, FinishType, AnswerType
         DEF PrepareDestroy, Goto, TypeOK, Steps
    <2>4. QED
      BY <1>9, <2>2, <2>3 DEF PrepareDestroy, TypeOK
  <1>10. ASSUME NEW h \in Hosts, WriteJournal(h) PROVE TypeOK'
    <2>1. ThenOrThrow(h, "storeAnchor") /\ "storeAnchor" \in Steps
      BY <1>10 DEF WriteJournal, Steps
    <2>2. journal' \in Journals /\ displaced' \in BOOLEAN
      BY <1>10 DEF WriteJournal, TypeOK
    <2>3. QED
      BY <1>10, <2>1, <2>2, ThenOrThrowType DEF WriteJournal, TypeOK
  <1>11. ASSUME NEW h \in Hosts, StoreAnchor(h) PROVE TypeOK'
    <2>1. ThenOrThrow(h, "writeState") /\ "writeState" \in Steps
      BY <1>11 DEF StoreAnchor, Steps
    <2>2. anchor' \in Anchors
      BY <1>11 DEF StoreAnchor, TypeOK, Journals
    <2>3. QED
      BY <1>11, <2>1, <2>2, ThenOrThrowType DEF StoreAnchor, TypeOK
  <1>12. ASSUME NEW h \in Hosts, WriteState(h) PROVE TypeOK'
    <2>1. ThenOrThrow(h, "clearJournal") /\ "clearJournal" \in Steps
      BY <1>12 DEF WriteState, Steps
    <2>2. state' \in StateFiles
      BY <1>12, StateOfType, NoFileType DEF WriteState, TypeOK, Journals
    <2>3. QED
      BY <1>12, <2>1, <2>2, ThenOrThrowType DEF WriteState, TypeOK
  <1>13. ASSUME NEW h \in Hosts, ClearJournal(h) PROVE TypeOK'
    <2>1. txn[h].next.generation \in Nat /\ txn[h].next.record \in Contents
      BY DEF TypeOK, Journals, Anchors
    <2>2. /\ Holding("committed", txn[h].next) \in Answers
          /\ Answer("destroyed") \in Answers
      BY <2>1, HoldingType, AnswerType
    <2>3. /\ pc' \in [Hosts -> Steps] /\ answer' \in [Hosts -> Answers]
          /\ faults' \in Nat
      BY <1>13, <2>2, FinishOrThrowType DEF ClearJournal
    <2>4. QED
      BY <1>13, <2>3, NoJournalType DEF ClearJournal, TypeOK
  <1>14. ASSUME NEW h \in Hosts, Release(h) PROVE TypeOK'
    <2>1. DEFINE given == [generation |-> answer[h].generation,
                           record |-> answer[h].record]
    <2>2. given \in StateFiles /\ RuntimeAnchor(given) \in Anchors
      BY DEF TypeOK, Answers, StateFiles, Anchors, RuntimeAnchor
    <2>3. observed' \subseteq StateFiles /\ seen' \in [Hosts -> SUBSET Anchors]
      BY <1>14, <2>2 DEF Release, TypeOK
    <2>4. lock' \in BOOLEAN /\ Reset(h)
      BY <1>14 DEF Release
    <2>5. QED
      BY <1>14, <2>3, <2>4, ResetType DEF Release, TypeOK
  <1>15. ASSUME NEW h \in Hosts, HostFault(h) PROVE TypeOK'
    <2>1. CASE LeakLock(h)
      BY <2>1 DEF LeakLock, Acquire, TypeOK
    <2>2. CASE ReleaseFails(h)
      BY <2>2, ResetType DEF ReleaseFails, TypeOK
    <2>3. CASE IOError(h)
      BY <2>3, ThrowType DEF IOError, TypeOK
    <2>4. CASE Crash(h)
      BY <2>4, ResetType DEF Crash, TypeOK
    <2>5. QED
      BY <1>15, <2>1, <2>2, <2>3, <2>4 DEF HostFault
  <1>16. ASSUME OperatorCleanup \/ TakeBackup \/ RestoreBackup PROVE TypeOK'
    <2>1. CASE OperatorCleanup
      BY <2>1 DEF OperatorCleanup, TypeOK
    <2>2. CASE TakeBackup
      <3>1. backup' \in [state: StateFiles, journal: Journals]
        BY <2>2 DEF TakeBackup, TypeOK
      <3>2. QED
        BY <2>2, <3>1 DEF TakeBackup, TypeOK
    <2>3. CASE RestoreBackup
      <3>1. state' \in StateFiles /\ journal' \in Journals
        BY <2>3 DEF RestoreBackup, TypeOK
      <3>2. restores' \in Nat
        BY <2>3 DEF RestoreBackup, TypeOK
      <3>3. QED
        BY <2>3, <3>1, <3>2 DEF RestoreBackup, TypeOK
    <2>4. QED
      BY <1>16, <2>1, <2>2, <2>3
  <1>17. CASE UNCHANGED vars
    BY <1>17 DEF vars, TypeOK
  <1>18. QED
    BY <1>1, <1>2, <1>3, <1>4, <1>5, <1>6, <1>7, <1>8, <1>9, <1>10, <1>11, <1>12,
       <1>13, <1>14, <1>15, <1>16, <1>17 DEF Next, HostStep

LEMMA TypeInit == Init => TypeOK
  <1> SUFFICES ASSUME Init PROVE TypeOK
    OBVIOUS
  <1>1. anchor \in Anchors /\ state \in StateFiles /\ journal \in Journals
    BY NoAnchorType, NoFileType, NoJournalType DEF Init
  <1>2. pc \in [Hosts -> Steps] /\ request \in [Hosts -> Requests]
    BY NoRequestType DEF Init, Steps
  <1>3. txn \in [Hosts -> Journals] /\ answer \in [Hosts -> Answers]
    BY NoJournalType, AnswerType DEF Init
  <1>4. seen \in [Hosts -> SUBSET Anchors] /\ observed \subseteq StateFiles
    BY DEF Init
  <1>5. backup \in [state: StateFiles, journal: Journals]
    BY NoFileType, NoJournalType DEF Init
  <1>6. QED
    BY <1>1, <1>2, <1>3, <1>4, <1>5 DEF Init, TypeOK

\* The store's variables keep their types through every fault.
THEOREM TypeCorrect == Spec => []TypeOK
  BY TypeInit, TypeStep, PTL DEF Spec

-----------------------------------------------------------------------------
(* The inductive invariant.  Only the host inside the scope can be about to *)
(* answer, so a step is judged by the answer it gives, if it gives one.     *)

Inside(h) == pc[h] \notin {"idle", "unlock"}

AnswerInv == AnswersAwaitRelease /\ AnswersAreAnchored /\ ReportedErasureIsReal

LEMMA NobodyAnswering ==
  ASSUME StoreInv, NEW h \in Hosts, Inside(h)
  PROVE  \A g \in Hosts : answer[g].kind = "pending"
  <1> SUFFICES ASSUME NEW g \in Hosts, answer[g].kind # "pending" PROVE FALSE
    OBVIOUS
  <1>1. pc[g] = "unlock"
    BY DEF StoreInv, AnswersAwaitRelease
  <1>2. g = h
    BY <1>1 DEF StoreInv, MutualExclusion, Inside
  <1>3. QED
    BY <1>1, <1>2 DEF Inside

LEMMA GotoAnswers ==
  ASSUME StoreInv, NEW h \in Hosts, Inside(h), NEW step, Goto(h, step)
  PROVE  AnswerInv'
  <1>1. \A g \in Hosts : answer'[g].kind = "pending"
    BY NobodyAnswering DEF Goto
  <1>2. QED
    BY <1>1 DEF AnswerInv, AnswersAwaitRelease, AnswersAreAnchored, ReportedErasureIsReal

LEMMA FinishAnswers ==
  ASSUME StoreInv, NEW h \in Hosts, Inside(h), NEW a, Finish(h, a),
         a.kind \in {"value", "committed"} =>
           /\ ~anchor'.erased
           /\ a.generation = anchor'.generation
           /\ a.record = anchor'.record,
         a.kind \in {"erased", "destroyed"} => anchor'.erased /\ state' = NoFile
  PROVE  AnswerInv'
  <1>1. answer'[h] = a /\ pc'[h] = "unlock"
    BY DEF Finish, StoreInv, TypeOK
  <1>2. \A g \in Hosts \ {h} : answer'[g].kind = "pending"
    BY NobodyAnswering DEF Finish, StoreInv, TypeOK
  <1>3. AnswersAwaitRelease'
    BY <1>1, <1>2 DEF AnswersAwaitRelease
  <1>4. AnswersAreAnchored'
    BY <1>1, <1>2 DEF AnswersAreAnchored
  <1>5. ReportedErasureIsReal'
    BY <1>1, <1>2 DEF ReportedErasureIsReal
  <1>6. QED
    BY <1>3, <1>4, <1>5 DEF AnswerInv

LEMMA ThrowAnswers ==
  ASSUME StoreInv, NEW h \in Hosts, Inside(h), Throw(h)
  PROVE  AnswerInv'
  <1>1. Finish(h, Answer("error")) /\ Answer("error").kind = "error"
    BY DEF Throw, Answer
  <1>2. QED
    BY <1>1, FinishAnswers

LEMMA ThenOrThrowAnswers ==
  ASSUME StoreInv, NEW h \in Hosts, Inside(h), NEW step, ThenOrThrow(h, step)
  PROVE  AnswerInv'
  BY GotoAnswers, ThrowAnswers DEF ThenOrThrow

\* A host that stays inside, with the lock untouched, keeps the others out.
LEMMA MoveMutex ==
  ASSUME StoreInv, NEW h \in Hosts, pc[h] # "idle", UNCHANGED lock,
         NEW step, pc' = [pc EXCEPT ![h] = step]
  PROVE  MutualExclusion'
  BY DEF StoreInv, TypeOK, MutualExclusion

LEMMA ThenOrThrowMoves ==
  ASSUME StoreInv, NEW h \in Hosts, NEW step, ThenOrThrow(h, step)
  PROVE  pc' = [pc EXCEPT ![h] = step] \/ pc' = [pc EXCEPT ![h] = "unlock"]
  BY DEF ThenOrThrow, Goto, Throw, Finish

\* Steps that leave the anchor and the transactions alone and enter none of
\* the transaction's steps keep its currency.
LEMMA QuietTransactions ==
  ASSUME StoreInv, UNCHANGED <<anchor, request, txn>>,
         NEW h \in Hosts, Inside(h),
         NEW step \in Steps \ {"writeJournal", "storeAnchor", "writeState", "clearJournal"},
         pc' = [pc EXCEPT ![h] = step]
  PROVE  TransactionsAreCurrent'
  <1> SUFFICES ASSUME NEW g \in Hosts PROVE TransactionsAreCurrent!(g)'
    BY DEF TransactionsAreCurrent
  <1>1. CASE g = h
    BY <1>1 DEF StoreInv, TypeOK, TransactionsAreCurrent
  <1>2. CASE g # h
    <2>1. pc[g] = "idle" /\ pc'[g] = "idle"
      BY <1>2 DEF StoreInv, TypeOK, MutualExclusion, Inside
    <2>2. QED
      BY <2>1 DEF StoreInv, TransactionsAreCurrent
  <1>3. QED
    BY <1>1, <1>2

LEMMA QuietObserved ==
  ASSUME StoreInv, UNCHANGED <<anchor, observed>>
  PROVE  AnchorCoversObserved' /\ ObservedNeverForks'
  BY DEF StoreInv, AnchorCoversObserved, ObservedNeverForks

\* A host that leaves the scope: every other host is outside already.
LEMMA ResetInv ==
  ASSUME StoreInv, TypeOK', UNCHANGED <<anchor, state>>,
         NEW h \in Hosts, Reset(h),
         lock' = lock \/ pc[h] # "idle",
         AnchorCoversObserved', ObservedNeverForks'
  PROVE  StoreInv'
  <1>1. /\ pc'[h] = "idle" /\ answer'[h] = Pending /\ request'[h] = NoRequest
        /\ \A g \in Hosts \ {h} : /\ pc'[g] = pc[g] /\ answer'[g] = answer[g]
                                  /\ request'[g] = request[g] /\ txn'[g] = txn[g]
    BY DEF Reset, StoreInv, TypeOK
  <1>2. MutualExclusion'
    BY <1>1 DEF StoreInv, MutualExclusion
  <1>3. AnswersAwaitRelease'
    BY <1>1 DEF StoreInv, AnswersAwaitRelease, Pending, Answer
  <1>4. TransactionsAreCurrent'
    <2> SUFFICES ASSUME NEW g \in Hosts PROVE TransactionsAreCurrent!(g)'
      BY DEF TransactionsAreCurrent
    <2>1. CASE g = h
      BY <1>1, <2>1 DEF NoRequest
    <2>2. CASE g # h
      BY <1>1, <2>2 DEF StoreInv, TransactionsAreCurrent
    <2>3. QED
      BY <2>1, <2>2
  <1>5. AnswersAreAnchored' /\ ReportedErasureIsReal'
    BY <1>1 DEF StoreInv, AnswersAreAnchored, ReportedErasureIsReal, Pending, Answer
  <1>6. QED
    BY <1>2, <1>3, <1>4, <1>5 DEF StoreInv

\* Steps outside every operation.
LEMMA OutsideInv ==
  ASSUME StoreInv, TypeOK', UNCHANGED <<anchor, locals, observed>>,
         Idle \/ UNCHANGED state, lock' \/ Idle
  PROVE  StoreInv'
  <1>1. MutualExclusion' /\ AnswersAwaitRelease'
    BY DEF StoreInv, MutualExclusion, AnswersAwaitRelease, Idle, locals
  <1>2. AnswersAreAnchored'
    BY DEF StoreInv, AnswersAreAnchored, locals
  <1>3. TransactionsAreCurrent' /\ ReportedErasureIsReal'
    <2>1. CASE UNCHANGED state
      BY <2>1 DEF StoreInv, TransactionsAreCurrent, ReportedErasureIsReal, locals
    <2>2. CASE Idle
      <3>1. \A h \in Hosts : pc'[h] = "idle" /\ answer'[h].kind = "pending"
        BY <2>2 DEF StoreInv, AnswersAwaitRelease, Idle, locals
      <3>2. QED
        BY <3>1 DEF StoreInv, TransactionsAreCurrent, ReportedErasureIsReal, locals
    <2>3. QED
      BY <2>1, <2>2
  <1>4. QED
    BY <1>1, <1>2, <1>3, QuietObserved DEF StoreInv

LEMMA StoreInvStep == StoreInv /\ [Next]_vars => StoreInv'
  <1> SUFFICES ASSUME StoreInv, [Next]_vars PROVE StoreInv'
    OBVIOUS
  <1>0. TypeOK'
    BY TypeStep DEF StoreInv
  <1> USE DEF disk, locals, ghosts, environment
  <1>1. ASSUME NEW h \in Hosts, Start(h) PROVE StoreInv'
    <2>1. PICK q \in Requests :
            /\ Call(h, q) /\ request' = [request EXCEPT ![h] = q]
            /\ \E step \in {"body", "recover"} : pc' = [pc EXCEPT ![h] = step]
      BY <1>0, <1>1 DEF Start, StoreInv, TypeOK, Requests
    <2>2. /\ pc[h] = "idle" /\ ~lock /\ lock'
          /\ UNCHANGED <<disk, txn, answer, seen, ghosts>>
      BY <1>1 DEF Start, Acquire
    <2>3. MutualExclusion'
      BY <2>1, <2>2 DEF StoreInv, TypeOK, MutualExclusion
    <2>4. AnswersAwaitRelease'
      BY <2>1, <2>2 DEF StoreInv, TypeOK, AnswersAwaitRelease
    <2>5. (q.op = "commit" => ~q.force) /\ (q.op = "destroy" => q.record = NoRecord)
      BY <2>1 DEF Call, NoRequest
    <2>6. TransactionsAreCurrent'
      BY <2>1, <2>2, <2>5 DEF StoreInv, TypeOK, TransactionsAreCurrent
    <2>7. QED
      BY <1>0, <2>2, <2>3, <2>4, <2>6
         DEF StoreInv, AnswersAreAnchored, ReportedErasureIsReal, AnchorCoversObserved,
             ObservedNeverForks
  <1>2. ASSUME NEW h \in Hosts, Recover(h) PROVE StoreInv'
    <2>1. Inside(h)
      BY <1>2 DEF Recover, Inside
    <2>2. \E step \in {"body", "redoCommit", "redoDestroy", "dropJournal", "unlock"} :
            pc' = [pc EXCEPT ![h] = step]
      BY <1>2 DEF Recover, RedoStep, Goto, Finish
    <2>3. MutualExclusion' /\ TransactionsAreCurrent'
      BY <1>2, <2>1, <2>2, MoveMutex, QuietTransactions DEF Recover, Inside, Steps
    <2>4. AnswerInv'
      <3>1. CASE \E step : Goto(h, step)
        BY <2>1, <3>1, GotoAnswers
      <3>2. CASE Finish(h, Answer("error"))
        BY <2>1, <3>2, FinishAnswers DEF Answer
      <3>3. QED
        BY <1>2, <3>1, <3>2 DEF Recover
    <2>5. QED
      BY <1>0, <1>2, <2>3, <2>4, QuietObserved DEF Recover, StoreInv, AnswerInv
  <1>3. ASSUME NEW h \in Hosts, RedoCommit(h) PROVE StoreInv'
    <2>1. Inside(h) /\ ThenOrThrow(h, "dropJournal")
      BY <1>3 DEF RedoCommit, Inside
    <2>2. MutualExclusion'
      BY <1>3, <2>1, ThenOrThrowMoves, MoveMutex DEF RedoCommit, Inside
    <2>3. TransactionsAreCurrent'
      BY <1>3, <2>1, ThenOrThrowMoves, QuietTransactions DEF RedoCommit, Steps
    <2>4. QED
      BY <1>0, <1>3, <2>1, <2>2, <2>3, ThenOrThrowAnswers, QuietObserved
         DEF RedoCommit, StoreInv, AnswerInv
  <1>4. ASSUME NEW h \in Hosts, RedoDestroy(h) PROVE StoreInv'
    <2>1. Inside(h) /\ ThenOrThrow(h, "dropJournal")
      BY <1>4 DEF RedoDestroy, Inside
    <2>2. MutualExclusion'
      BY <1>4, <2>1, ThenOrThrowMoves, MoveMutex DEF RedoDestroy, Inside
    <2>3. TransactionsAreCurrent'
      BY <1>4, <2>1, ThenOrThrowMoves, QuietTransactions DEF RedoDestroy, Steps
    <2>4. QED
      BY <1>0, <1>4, <2>1, <2>2, <2>3, ThenOrThrowAnswers, QuietObserved
         DEF RedoDestroy, StoreInv, AnswerInv
  <1>5. ASSUME NEW h \in Hosts, DropJournal(h) PROVE StoreInv'
    <2>1. Inside(h) /\ ThenOrThrow(h, "body")
      BY <1>5 DEF DropJournal, Inside
    <2>2. MutualExclusion'
      BY <1>5, <2>1, ThenOrThrowMoves, MoveMutex DEF DropJournal, Inside
    <2>3. TransactionsAreCurrent'
      BY <1>5, <2>1, ThenOrThrowMoves, QuietTransactions DEF DropJournal, Steps
    <2>4. QED
      BY <1>0, <1>5, <2>1, <2>2, <2>3, ThenOrThrowAnswers, QuietObserved
         DEF DropJournal, StoreInv, AnswerInv
  <1>6. ASSUME NEW h \in Hosts, Load(h) PROVE StoreInv'
    <2>1. Inside(h) /\ \E a : Finish(h, a)
      BY <1>6 DEF Load, Inside
    <2>2. MutualExclusion' /\ TransactionsAreCurrent'
      BY <1>6, <2>1, MoveMutex, QuietTransactions DEF Load, Inside, Finish, Steps
    <2>3. AnswerInv'
      <3>1. CASE Finish(h, Answer("gone")) \/ Finish(h, Answer("error"))
        BY <2>1, <3>1, FinishAnswers DEF Answer
      <3>2. CASE ValidStateAndAnchor(state, anchor) /\ Finish(h, Holding("value", state))
        <4>1. /\ Holding("value", state).kind = "value"
              /\ Holding("value", state).generation = anchor.generation
              /\ Holding("value", state).record = anchor.record
              /\ ~anchor.erased /\ anchor' = anchor
          BY <1>6, <3>2 DEF Holding, ValidStateAndAnchor, StateOf, Load
        <4>2. QED
          BY <2>1, <3>2, <4>1, FinishAnswers
      <3>3. QED
        BY <1>6, <3>1, <3>2 DEF Load
    <2>4. QED
      BY <1>0, <1>6, <2>2, <2>3, QuietObserved DEF Load, StoreInv, AnswerInv
  <1>7. ASSUME NEW h \in Hosts, ErasureStatus(h) PROVE StoreInv'
    <2>1. Inside(h) /\ pc' = [pc EXCEPT ![h] = "unlock"]
      BY <1>7 DEF ErasureStatus, FinishOrThrow, Throw, Finish, Inside
    <2>2. MutualExclusion' /\ TransactionsAreCurrent'
      BY <1>7, <2>1, MoveMutex, QuietTransactions DEF ErasureStatus, Inside, Steps
    <2>3. AnswerInv'
      <3>1. CASE Throw(h)
        BY <2>1, <3>1, ThrowAnswers
      <3>2. CASE Finish(h, Answer("live")) \/ Finish(h, Answer("error"))
        BY <2>1, <3>2, FinishAnswers DEF Answer
      <3>3. CASE anchor.erased /\ RemoveStateFile /\ Finish(h, Answer("erased"))
        <4>1. anchor'.erased /\ state' = NoFile /\ Answer("erased").kind = "erased"
          BY <1>7, <3>3 DEF ErasureStatus, RemoveStateFile, Answer
        <4>2. QED
          BY <2>1, <3>3, <4>1, FinishAnswers
      <3>4. QED
        BY <1>7, <3>1, <3>2, <3>3 DEF ErasureStatus, FinishOrThrow
    <2>4. QED
      BY <1>0, <1>7, <2>2, <2>3, QuietObserved DEF ErasureStatus, StoreInv, AnswerInv
  <1>8. ASSUME NEW h \in Hosts, PrepareCommit(h) PROVE StoreInv'
    <2>1. Inside(h) /\ pc[h] = "body" /\ request[h].op = "commit"
      BY <1>8 DEF PrepareCommit, Inside
    <2>2. CASE Finish(h, Answer("error")) /\ UNCHANGED txn
      <3>1. MutualExclusion' /\ TransactionsAreCurrent'
        BY <1>8, <2>1, <2>2, MoveMutex, QuietTransactions
           DEF PrepareCommit, Inside, Finish, Steps
      <3>2. AnswerInv'
        BY <2>1, <2>2, FinishAnswers DEF Answer
      <3>3. QED
        BY <1>0, <1>8, <3>1, <3>2, QuietObserved DEF PrepareCommit, StoreInv, AnswerInv
    <2>3. CASE ValidStateAndAnchor(state, anchor) /\ Expected(h) /\ Goto(h, "writeJournal")
      <3>1. txn' = [txn EXCEPT ![h] =
              [kind |-> "commit", expected |-> anchor,
               next |-> Advance(anchor, request[h].record, FALSE)]]
        BY <1>8, <2>1, <2>3 DEF PrepareCommit, Goto, Finish, StoreInv, TypeOK
      <3>2. MutualExclusion' /\ AnswerInv'
        BY <1>8, <2>1, <2>3, MoveMutex, GotoAnswers DEF PrepareCommit, Inside, Goto
      <3>3. TransactionsAreCurrent'
        <4> SUFFICES ASSUME NEW g \in Hosts PROVE TransactionsAreCurrent!(g)'
          BY DEF TransactionsAreCurrent
        <4>1. UNCHANGED <<anchor, request>> /\ pc' = [pc EXCEPT ![h] = "writeJournal"]
          BY <1>8, <2>3 DEF PrepareCommit, Goto
        <4>2. CASE g = h
          <5>1. /\ txn'[h].kind = "commit" /\ txn'[h].expected = anchor
                /\ txn'[h].next = Advance(anchor, request[h].record, FALSE)
                /\ pc'[h] = "writeJournal"
            BY <3>1, <4>1 DEF StoreInv, TypeOK
          <5>2. /\ txn'[h].next.generation = anchor.generation + 1
                /\ txn'[h].next.record = request[h].record
                /\ txn'[h].next.erased = FALSE
            BY <5>1 DEF Advance
          <5>3. ~anchor.erased /\ (request[h].force \/ request[h].expected = anchor)
            BY <2>3 DEF ValidStateAndAnchor, Expected
          <5>4. ~request[h].force
            BY <2>1 DEF StoreInv, TransactionsAreCurrent
          <5>5. QED
            BY <2>1, <4>1, <4>2, <5>1, <5>2, <5>3, <5>4
        <4>3. CASE g # h
          <5>1. pc[g] = "idle" /\ pc'[g] = "idle"
            BY <2>1, <4>1, <4>3 DEF StoreInv, TypeOK, MutualExclusion, Inside
          <5>2. QED
            BY <4>1, <5>1 DEF StoreInv, TransactionsAreCurrent
        <4>4. QED
          BY <4>2, <4>3
      <3>4. QED
        BY <1>0, <1>8, <3>2, <3>3, QuietObserved DEF PrepareCommit, StoreInv, AnswerInv
    <2>4. QED
      BY <1>8, <2>2, <2>3 DEF PrepareCommit
  <1>9. ASSUME NEW h \in Hosts, PrepareDestroy(h) PROVE StoreInv'
    <2>1. Inside(h) /\ pc[h] = "body" /\ request[h].op = "destroy"
      BY <1>9 DEF PrepareDestroy, Inside
    <2>2. CASE /\ UNCHANGED txn
               /\ \/ Throw(h) \/ Finish(h, Answer("error"))
                  \/ anchor.erased /\ RemoveStateFile /\ Finish(h, Answer("destroyed"))
      <3>1. pc' = [pc EXCEPT ![h] = "unlock"]
        BY <2>2 DEF Throw, Finish
      <3>2. MutualExclusion' /\ TransactionsAreCurrent'
        BY <1>9, <2>1, <2>2, <3>1, MoveMutex, QuietTransactions
           DEF PrepareDestroy, Inside, Steps
      <3>3. AnswerInv'
        <4>1. CASE Throw(h)
          BY <2>1, <4>1, ThrowAnswers
        <4>2. CASE Finish(h, Answer("error"))
          BY <2>1, <4>2, FinishAnswers DEF Answer
        <4>3. CASE anchor.erased /\ RemoveStateFile /\ Finish(h, Answer("destroyed"))
          <5>1. anchor'.erased /\ state' = NoFile /\ Answer("destroyed").kind = "destroyed"
            BY <1>9, <4>3 DEF PrepareDestroy, RemoveStateFile, Answer
          <5>2. QED
            BY <2>1, <4>3, <5>1, FinishAnswers
        <4>4. QED
          BY <2>2, <4>1, <4>2, <4>3
      <3>4. QED
        BY <1>0, <1>9, <3>2, <3>3, QuietObserved DEF PrepareDestroy, StoreInv, AnswerInv
    <2>3. CASE /\ ~anchor.erased /\ Expected(h) /\ Goto(h, "writeJournal")
               /\ txn' = [txn EXCEPT ![h] =
                    [kind |-> "destroy", expected |-> anchor,
                     next |-> Advance(anchor, NoRecord, TRUE)]]
      <3>1. MutualExclusion' /\ AnswerInv'
        BY <1>9, <2>1, <2>3, MoveMutex, GotoAnswers DEF PrepareDestroy, Inside, Goto
      <3>2. TransactionsAreCurrent'
        <4> SUFFICES ASSUME NEW g \in Hosts PROVE TransactionsAreCurrent!(g)'
          BY DEF TransactionsAreCurrent
        <4>1. UNCHANGED <<anchor, request>> /\ pc' = [pc EXCEPT ![h] = "writeJournal"]
          BY <1>9, <2>3 DEF PrepareDestroy, Goto
        <4>2. CASE g = h
          <5>1. /\ txn'[h].kind = "destroy" /\ txn'[h].expected = anchor
                /\ txn'[h].next = Advance(anchor, NoRecord, TRUE)
                /\ pc'[h] = "writeJournal"
            BY <2>3, <4>1 DEF StoreInv, TypeOK
          <5>2. /\ txn'[h].next.generation = anchor.generation + 1
                /\ txn'[h].next.record = NoRecord /\ txn'[h].next.erased = TRUE
            BY <5>1 DEF Advance
          <5>3. request[h].record = NoRecord
            BY <2>1 DEF StoreInv, TransactionsAreCurrent
          <5>4. request[h].force \/ request[h].expected = anchor
            BY <2>3 DEF Expected
          <5>5. ~anchor.erased
            BY <2>3
          <5>6. QED
            BY <2>1, <5>5, <4>1, <4>2, <5>1, <5>2, <5>3, <5>4
        <4>3. CASE g # h
          <5>1. pc[g] = "idle" /\ pc'[g] = "idle"
            BY <2>1, <4>1, <4>3 DEF StoreInv, TypeOK, MutualExclusion, Inside
          <5>2. QED
            BY <4>1, <5>1 DEF StoreInv, TransactionsAreCurrent
        <4>4. QED
          BY <4>2, <4>3
      <3>3. QED
        BY <1>0, <1>9, <3>1, <3>2, QuietObserved DEF PrepareDestroy, StoreInv, AnswerInv
    <2>4. QED
      BY <1>9, <2>2, <2>3 DEF PrepareDestroy, FinishOrThrow
  <1>10. ASSUME NEW h \in Hosts, WriteJournal(h) PROVE StoreInv'
    <2>1. Inside(h) /\ ThenOrThrow(h, "storeAnchor") /\ pc[h] = "writeJournal"
      BY <1>10 DEF WriteJournal, Inside
    <2>2. MutualExclusion'
      BY <1>10, <2>1, ThenOrThrowMoves, MoveMutex DEF WriteJournal, Inside
    <2>3. TransactionsAreCurrent'
      BY <1>10, <2>1, ThenOrThrowMoves
         DEF WriteJournal, StoreInv, TypeOK, TransactionsAreCurrent
    <2>4. QED
      BY <1>0, <1>10, <2>1, <2>2, <2>3, ThenOrThrowAnswers, QuietObserved
         DEF WriteJournal, StoreInv, AnswerInv
  <1>11. ASSUME NEW h \in Hosts, StoreAnchor(h) PROVE StoreInv'
    <2>1. Inside(h) /\ ThenOrThrow(h, "writeState") /\ pc[h] = "storeAnchor"
      BY <1>11 DEF StoreAnchor, Inside
    <2>2. MutualExclusion'
      BY <1>11, <2>1, ThenOrThrowMoves, MoveMutex DEF StoreAnchor, Inside
    <2>3. \A g \in Hosts \ {h} : pc'[g] = "idle"
      BY <2>1, ThenOrThrowMoves DEF StoreInv, TypeOK, MutualExclusion, Inside
    <2>4. TransactionsAreCurrent'
      BY <1>11, <2>1, <2>3, ThenOrThrowMoves
         DEF StoreAnchor, StoreInv, TypeOK, TransactionsAreCurrent
    <2>5. /\ anchor.generation \in Nat
          /\ anchor'.generation = anchor.generation + 1
      BY <1>11, <2>1 DEF StoreAnchor, StoreInv, TypeOK, Anchors, TransactionsAreCurrent
    <2>6. AnchorCoversObserved'
      BY <1>11, <2>5
         DEF StoreAnchor, StoreInv, TypeOK, StateFiles, AnchorCoversObserved
    <2>7. ObservedNeverForks'
      BY <1>11 DEF StoreAnchor, StoreInv, ObservedNeverForks
    <2>8. QED
      BY <1>0, <2>7, <2>1, <2>2, <2>4, <2>6, ThenOrThrowAnswers DEF StoreInv, AnswerInv
  <1>12. ASSUME NEW h \in Hosts, WriteState(h) PROVE StoreInv'
    <2>1. Inside(h) /\ ThenOrThrow(h, "clearJournal") /\ pc[h] = "writeState"
      BY <1>12 DEF WriteState, Inside
    <2>2. MutualExclusion'
      BY <1>12, <2>1, ThenOrThrowMoves, MoveMutex DEF WriteState, Inside
    <2>3. \A g \in Hosts \ {h} : pc'[g] = "idle"
      BY <2>1, ThenOrThrowMoves DEF StoreInv, TypeOK, MutualExclusion, Inside
    <2>4. TransactionsAreCurrent'
      BY <1>12, <2>1, <2>3, ThenOrThrowMoves
         DEF WriteState, StoreInv, TypeOK, TransactionsAreCurrent
    <2>5. QED
      BY <1>0, <1>12, <2>1, <2>2, <2>4, ThenOrThrowAnswers, QuietObserved
         DEF WriteState, StoreInv, AnswerInv
  <1>13. ASSUME NEW h \in Hosts, ClearJournal(h) PROVE StoreInv'
    <2>1. Inside(h) /\ pc[h] = "clearJournal" /\ pc' = [pc EXCEPT ![h] = "unlock"]
      BY <1>13 DEF ClearJournal, Inside, FinishOrThrow, Throw, Finish
    <2>2. MutualExclusion' /\ TransactionsAreCurrent'
      BY <1>13, <2>1, MoveMutex, QuietTransactions DEF ClearJournal, Inside, Steps
    <2>3. /\ anchor = txn[h].next
          /\ txn[h].kind \in {"commit", "destroy"}
          /\ anchor.erased = (txn[h].kind = "destroy")
          /\ txn[h].kind = "destroy" => state = NoFile
      BY <2>1 DEF StoreInv, TransactionsAreCurrent
    <2>4. AnswerInv'
      <3>1. CASE Throw(h)
        BY <2>1, <3>1, ThrowAnswers
      <3>2. CASE txn[h].kind = "commit" /\ Finish(h, Holding("committed", txn[h].next))
        <4>1. /\ Holding("committed", txn[h].next).kind = "committed"
              /\ Holding("committed", txn[h].next).generation = anchor'.generation
              /\ Holding("committed", txn[h].next).record = anchor'.record
              /\ ~anchor'.erased
          BY <1>13, <2>3, <3>2 DEF ClearJournal, Holding
        <4>2. QED
          BY <2>1, <3>2, <4>1, FinishAnswers
      <3>3. CASE txn[h].kind = "destroy" /\ Finish(h, Answer("destroyed"))
        <4>1. anchor'.erased /\ state' = NoFile /\ Answer("destroyed").kind = "destroyed"
          BY <1>13, <2>3, <3>3 DEF ClearJournal, Answer
        <4>2. QED
          BY <2>1, <3>3, <4>1, FinishAnswers
      <3>4. QED
        BY <1>13, <2>3, <3>1, <3>2, <3>3 DEF ClearJournal, FinishOrThrow
    <2>5. QED
      BY <1>0, <1>13, <2>2, <2>4, QuietObserved DEF ClearJournal, StoreInv, AnswerInv
  <1>14. ASSUME NEW h \in Hosts, Release(h) PROVE StoreInv'
    <2>1. pc[h] = "unlock" /\ Reset(h) /\ UNCHANGED <<anchor, state>>
      BY <1>14 DEF Release
    <2>2. AnchorCoversObserved' /\ ObservedNeverForks'
      <3>1. CASE observed' = observed
        BY <2>1, <3>1, QuietObserved
      <3>2. CASE observed' # observed
        <4>1. /\ answer[h].kind \in {"value", "committed"}
              /\ observed' = observed \cup
                   {[generation |-> answer[h].generation, record |-> answer[h].record]}
          BY <1>14, <3>2 DEF Release
        <4>2. ~anchor.erased /\ observed' = observed \cup {StateOf(anchor)}
          BY <4>1 DEF StoreInv, AnswersAreAnchored, StateOf
        <4>3. anchor.generation \in Nat /\ StateOf(anchor).generation = anchor.generation
          BY DEF StoreInv, TypeOK, Anchors, StateOf
        <4>4. AnchorCoversObserved'
          BY <2>1, <4>2, <4>3 DEF StoreInv, AnchorCoversObserved
        <4>5. ObservedNeverForks'
          BY <4>2, <4>3 DEF StoreInv, AnchorCoversObserved, ObservedNeverForks
        <4>6. QED
          BY <4>4, <4>5
      <3>3. QED
        BY <3>1, <3>2
    <2>3. QED
      BY <1>0, <2>1, <2>2, ResetInv
  <1>15. ASSUME NEW h \in Hosts, HostFault(h) PROVE StoreInv'
    <2>1. CASE LeakLock(h)
      BY <1>0, <2>1, OutsideInv DEF LeakLock, Acquire
    <2>2. CASE ReleaseFails(h)
      BY <1>0, <2>2, ResetInv, QuietObserved DEF ReleaseFails
    <2>3. CASE IOError(h)
      <3>1. Inside(h) /\ Throw(h) /\ pc' = [pc EXCEPT ![h] = "unlock"]
        BY <2>3 DEF IOError, Inside, Throw, Finish
      <3>2. MutualExclusion' /\ TransactionsAreCurrent'
        BY <2>3, <3>1, MoveMutex, QuietTransactions DEF IOError, Inside, Steps
      <3>3. QED
        BY <1>0, <2>3, <3>1, <3>2, ThrowAnswers, QuietObserved
           DEF IOError, StoreInv, AnswerInv
    <2>4. CASE Crash(h)
      <3>1. lock' = lock
        BY <2>4 DEF Crash
      <3>2. QED
        BY <1>0, <2>4, <3>1, ResetInv, QuietObserved DEF Crash
    <2>5. QED
      BY <1>15, <2>1, <2>2, <2>3, <2>4 DEF HostFault
  <1>16. ASSUME OperatorCleanup \/ TakeBackup \/ RestoreBackup PROVE StoreInv'
    BY <1>0, <1>16, OutsideInv DEF OperatorCleanup, TakeBackup, RestoreBackup
  <1>17. CASE UNCHANGED vars
    <2>1. UNCHANGED <<anchor, state, lock, locals, observed>>
      BY <1>17 DEF vars
    <2>2. MutualExclusion' /\ AnswersAwaitRelease' /\ TransactionsAreCurrent'
      BY <2>1 DEF StoreInv, MutualExclusion, AnswersAwaitRelease, TransactionsAreCurrent
    <2>3. QED
      BY <1>0, <2>1, <2>2, QuietObserved
         DEF StoreInv, AnswersAreAnchored, ReportedErasureIsReal
  <1>18. QED
    BY <1>1, <1>2, <1>3, <1>4, <1>5, <1>6, <1>7, <1>8, <1>9, <1>10, <1>11, <1>12,
       <1>13, <1>14, <1>15, <1>16, <1>17 DEF Next, HostStep

LEMMA StoreInvInit == Init => StoreInv
  <1> SUFFICES ASSUME Init PROVE StoreInv
    OBVIOUS
  <1>1. \A h \in Hosts : /\ pc[h] = "idle" /\ answer[h].kind = "pending"
                         /\ request[h] = NoRequest
    BY DEF Init, Pending, Answer
  <1>2. MutualExclusion /\ AnswersAwaitRelease
    BY <1>1 DEF MutualExclusion, AnswersAwaitRelease
  <1>3. TransactionsAreCurrent
    BY <1>1 DEF TransactionsAreCurrent, NoRequest
  <1>4. AnswersAreAnchored /\ ReportedErasureIsReal
    BY <1>1 DEF AnswersAreAnchored, ReportedErasureIsReal
  <1>5. AnchorCoversObserved /\ ObservedNeverForks
    BY DEF Init, AnchorCoversObserved, ObservedNeverForks
  <1>6. QED
    BY <1>2, <1>3, <1>4, <1>5, TypeInit DEF StoreInv

\* The inductive invariant holds in every reachable state.
THEOREM StoreInvariant == Spec => []StoreInv
  BY StoreInvInit, StoreInvStep, PTL DEF Spec

\* No two runtimes are ever given different records of one generation.
THEOREM NeverForks == Spec => []ObservedNeverForks
  <1>1. StoreInv => ObservedNeverForks
    BY DEF StoreInv
  <1>2. QED
    BY <1>1, StoreInvariant, PTL

\* What a runtime was given never lies ahead of the anchor.
THEOREM NeverRollsBack == Spec => []AnchorCoversObserved
  <1>1. StoreInv => AnchorCoversObserved
    BY DEF StoreInv
  <1>2. QED
    BY <1>1, StoreInvariant, PTL

\* Restored older files are never answered as the current record.
THEOREM AnsweredIsAnchored == Spec => []AnswersAreAnchored
  <1>1. StoreInv => AnswersAreAnchored
    BY DEF StoreInv
  <1>2. QED
    BY <1>1, StoreInvariant, PTL

\* A reported erasure has both the tombstone and the missing file behind it.
THEOREM ErasureIsReal == Spec => []ReportedErasureIsReal
  <1>1. StoreInv => ReportedErasureIsReal
    BY DEF StoreInv
  <1>2. QED
    BY <1>1, StoreInvariant, PTL

\* The anchor moves one generation at a time, and never past a tombstone.
THEOREM AnchorMovesForward == Spec => AnchorAdvances
  <1>1. StoreInv /\ [Next]_vars =>
          [anchor' # anchor =>
             /\ ~anchor.erased
             /\ anchor'.generation = anchor.generation + 1]_vars
    <2> SUFFICES ASSUME StoreInv, Next, anchor' # anchor
                 PROVE  /\ ~anchor.erased
                        /\ anchor'.generation = anchor.generation + 1
      BY DEF vars, disk
    <2>1. PICK h \in Hosts : StoreAnchor(h)
      BY DEF Next, HostStep, HostFault, Start, Recover, RedoCommit, RedoDestroy,
             DropJournal, Load, ErasureStatus, PrepareCommit, PrepareDestroy,
             WriteJournal, WriteState, ClearJournal, Release, LeakLock, ReleaseFails,
             IOError, Crash, OperatorCleanup, TakeBackup, RestoreBackup, disk
    <2>2. QED
      BY <2>1 DEF StoreAnchor, StoreInv, TransactionsAreCurrent
  <1>2. QED
    BY <1>1, StoreInvariant, PTL DEF Spec, AnchorAdvances

-----------------------------------------------------------------------------
(* Where the files stand.  As long as nobody put older files back, a journal *)
(* names the anchor, as what it expected or as what comes next, and the      *)
(* state file is the anchored record whenever there is no journal or its     *)
(* transaction has not reached the anchor.  A destruction that replaced the  *)
(* journal of an anchored commit is the exception, until it is anchored.     *)

FileIsAnchored == IF anchor.erased THEN state = NoFile ELSE state = StateOf(anchor)

JournalNamesAnchor ==
  journal.kind # "none" =>
    /\ anchor \in {journal.expected, journal.next}
    /\ journal.expected # journal.next
    /\ ~journal.expected.erased
    /\ journal.next.erased = (journal.kind = "destroy")

FilesAgree ==
  (displaced => anchor.erased) /\ (journal.kind = "none" \/ anchor = journal.expected)
    => FileIsAnchored

\* What the host inside knows of the journal at each of its steps.
StepAgrees(h) ==
  /\ pc[h] = "redoCommit" => journal.kind = "commit" /\ anchor = journal.next
  /\ pc[h] = "redoDestroy" => journal.kind = "destroy" /\ anchor = journal.next
  /\ pc[h] = "dropJournal" => journal.kind # "none"
                              /\ (anchor = journal.expected \/ FileIsAnchored)
  /\ pc[h] = "body" /\ request[h].op # "destroy" => journal.kind = "none"
  /\ pc[h] = "writeJournal" /\ txn[h].kind = "commit" => journal.kind = "none"
  /\ pc[h] \in {"storeAnchor", "writeState", "clearJournal"} => journal = txn[h]
  /\ pc[h] = "clearJournal" => FileIsAnchored

SettleInv ==
  restores = 0 => /\ JournalNamesAnchor /\ FilesAgree
                  /\ \A h \in Hosts : StepAgrees(h)

LEMMA SettleInit == Init => SettleInv
  <1> SUFFICES ASSUME Init PROVE SettleInv
    OBVIOUS
  <1>1. journal.kind = "none" /\ anchor = NoAnchor /\ state = NoFile
    BY DEF Init, NoJournal
  <1>2. FileIsAnchored /\ \A h \in Hosts : pc[h] = "idle"
    BY <1>1 DEF Init, FileIsAnchored, NoAnchor, NoFile
  <1> QED
    BY <1>1, <1>2 DEF SettleInv, JournalNamesAnchor, FilesAgree, StepAgrees

\* A step outside every operation, or one that leaves the files alone and
\* the host it moves outside.
LEMMA SettleOutside ==
  ASSUME SettleInv, UNCHANGED <<disk, displaced, request, txn>>,
         restores' = 0 => restores = 0,
         \A g \in Hosts : pc'[g] = pc[g] \/ pc'[g] \in {"idle", "unlock"}
  PROVE  SettleInv'
  <1> SUFFICES ASSUME restores' = 0
               PROVE  /\ JournalNamesAnchor' /\ FilesAgree'
                      /\ \A h \in Hosts : StepAgrees(h)'
    BY DEF SettleInv
  <1>1. JournalNamesAnchor' /\ FilesAgree'
    BY DEF SettleInv, JournalNamesAnchor, FilesAgree, FileIsAnchored, disk
  <1>2. ASSUME NEW g \in Hosts PROVE StepAgrees(g)'
    BY DEF SettleInv, StepAgrees, FileIsAnchored, disk
  <1> QED
    BY <1>1, <1>2

\* A host that leaves the scope forgets its request and its transaction.
LEMMA SettleLeaves ==
  ASSUME StoreInv, SettleInv, UNCHANGED <<disk, displaced, restores>>,
         NEW h \in Hosts, Reset(h)
  PROVE  SettleInv'
  <1>1. restores' = 0 => JournalNamesAnchor' /\ FilesAgree'
    BY DEF SettleInv, JournalNamesAnchor, FilesAgree, FileIsAnchored, disk
  <1>2. ASSUME NEW g \in Hosts, restores' = 0 PROVE StepAgrees(g)'
    <2>1. CASE g = h
      BY <2>1 DEF Reset, StoreInv, TypeOK, StepAgrees
    <2>2. CASE g # h
      <3>1. pc'[g] = pc[g] /\ request'[g] = request[g] /\ txn'[g] = txn[g]
        BY <2>2 DEF Reset, StoreInv, TypeOK
      <3> QED
        BY <1>2, <3>1 DEF SettleInv, StepAgrees, FileIsAnchored, disk
    <2> QED
      BY <2>1, <2>2
  <1> QED
    BY <1>1, <1>2 DEF SettleInv

\* A step of the host inside is judged by that host alone.
LEMMA SettleInside ==
  ASSUME StoreInv, NEW h \in Hosts, Inside(h),
         NEW step, pc' = [pc EXCEPT ![h] = step],
         restores' = 0 => JournalNamesAnchor' /\ FilesAgree' /\ StepAgrees(h)'
  PROVE  SettleInv'
  <1>1. ASSUME NEW g \in Hosts \ {h} PROVE StepAgrees(g)'
    <2>1. pc'[g] = "idle"
      BY DEF StoreInv, TypeOK, MutualExclusion, Inside
    <2> QED
      BY <2>1 DEF StepAgrees
  <1> QED
    BY <1>1 DEF SettleInv

LEMMA ThenOrThrowStep ==
  ASSUME StoreInv, NEW h \in Hosts, NEW step, ThenOrThrow(h, step)
  PROVE  \E s \in {step, "unlock"} : pc' = [pc EXCEPT ![h] = s] /\ pc'[h] = s
  BY ThenOrThrowMoves DEF StoreInv, TypeOK

\* A step that leaves the anchor, the files and the journal as they are.
LEMMA QuietFiles ==
  ASSUME SettleInv, UNCHANGED <<disk, displaced, restores>>, restores' = 0
  PROVE  JournalNamesAnchor' /\ FilesAgree'
  BY DEF SettleInv, JournalNamesAnchor, FilesAgree, FileIsAnchored, disk

LEMMA SettleStart ==
  ASSUME StoreInv, SettleInv, NEW h \in Hosts, Start(h)
  PROVE  SettleInv'
  <1>1. PICK op \in {"load", "status", "commit", "destroy"}, force \in BOOLEAN,
             e \in seen[h] \cup {NoAnchor}, r \in Contents :
          /\ request' = [request EXCEPT ![h] =
               [op |-> op, expected |-> e, force |-> force, record |-> r]]
          /\ pc' = [pc EXCEPT ![h] = IF op = "destroy" THEN "body" ELSE "recover"]
    BY DEF Start
  <1>2. pc[h] = "idle" /\ ~lock /\ UNCHANGED <<disk, displaced, restores>>
    BY DEF Start, Acquire, ghosts, environment
  <1>3. \A g \in Hosts \ {h} : pc'[g] = "idle"
    BY <1>1, <1>2 DEF StoreInv, TypeOK, MutualExclusion
  <1>4. pc'[h] \in {"body", "recover"} /\ (pc'[h] = "body" => request'[h].op = "destroy")
    BY <1>1 DEF StoreInv, TypeOK
  <1>5. \A g \in Hosts : StepAgrees(g)'
    BY <1>3, <1>4 DEF StepAgrees
  <1> QED
    BY <1>2, <1>5, QuietFiles DEF SettleInv

LEMMA SettleRecovers ==
  ASSUME StoreInv, SettleInv, NEW h \in Hosts,
         Recover(h) \/ RedoCommit(h) \/ RedoDestroy(h) \/ DropJournal(h)
  PROVE  SettleInv'
  <1>1. /\ Inside(h) /\ UNCHANGED <<anchor, displaced, restores, request, txn>>
    BY DEF Recover, RedoCommit, RedoDestroy, DropJournal, Inside, disk, ghosts, environment
  <1>2. CASE Recover(h)
    <2>1. /\ \E step : pc' = [pc EXCEPT ![h] = step]
          /\ pc'[h] \in {"body", "redoCommit", "redoDestroy", "dropJournal", "unlock"}
          /\ pc'[h] = "body" => journal.kind = "none"
          /\ pc'[h] = "redoCommit" => journal.kind = "commit" /\ anchor = journal.next
          /\ pc'[h] = "redoDestroy" => journal.kind = "destroy" /\ anchor = journal.next
          /\ pc'[h] = "dropJournal" => journal.kind # "none" /\ anchor = journal.expected
      <3>1. CASE journal.kind = "none" /\ Goto(h, "body")
        BY <3>1 DEF Goto, StoreInv, TypeOK
      <3>2. CASE /\ journal.kind # "none" /\ anchor = journal.next
                 /\ Goto(h, RedoStep(journal.kind))
        BY <3>2 DEF Goto, RedoStep, StoreInv, TypeOK, Journals
      <3>3. CASE journal.kind # "none" /\ NeverStored /\ Goto(h, "dropJournal")
        BY <3>3 DEF Goto, NeverStored, StoreInv, TypeOK
      <3>4. CASE Finish(h, Answer("error"))
        BY <3>4 DEF Finish, StoreInv, TypeOK
      <3> QED
        BY <1>2, <3>1, <3>2, <3>3, <3>4 DEF Recover
    <2>2. UNCHANGED disk
      BY <1>2 DEF Recover
    <2>3. StepAgrees(h)'
      BY <2>1, <2>2 DEF StepAgrees, disk
    <2> QED
      BY <1>1, <2>1, <2>2, <2>3, QuietFiles, SettleInside
  <1>3. CASE RedoCommit(h)
    <2>1. PICK step \in {"dropJournal", "unlock"} :
            pc' = [pc EXCEPT ![h] = step] /\ pc'[h] = step
      BY <1>3, ThenOrThrowStep DEF RedoCommit
    <2>2. journal' = journal /\ state' = StateOf(journal.next) /\ pc[h] = "redoCommit"
      BY <1>3 DEF RedoCommit
    <2>3. ASSUME restores' = 0
          PROVE  JournalNamesAnchor' /\ FilesAgree' /\ StepAgrees(h)'
      <3>1. journal.kind = "commit" /\ anchor = journal.next
        BY <1>1, <2>2, <2>3 DEF SettleInv, StepAgrees
      <3>2. JournalNamesAnchor
        BY <1>1, <2>3 DEF SettleInv
      <3>3. FileIsAnchored'
        BY <1>1, <2>2, <3>1, <3>2 DEF JournalNamesAnchor, FileIsAnchored
      <3> QED
        BY <1>1, <2>1, <2>2, <3>1, <3>2, <3>3 DEF JournalNamesAnchor, FilesAgree, StepAgrees
    <2> QED
      BY <1>1, <2>1, <2>3, SettleInside
  <1>4. CASE RedoDestroy(h)
    <2>1. PICK step \in {"dropJournal", "unlock"} :
            pc' = [pc EXCEPT ![h] = step] /\ pc'[h] = step
      BY <1>4, ThenOrThrowStep DEF RedoDestroy
    <2>2. journal' = journal /\ state' = NoFile /\ pc[h] = "redoDestroy"
      BY <1>4 DEF RedoDestroy, RemoveStateFile
    <2>3. ASSUME restores' = 0
          PROVE  JournalNamesAnchor' /\ FilesAgree' /\ StepAgrees(h)'
      <3>1. journal.kind = "destroy" /\ anchor = journal.next
        BY <1>1, <2>2, <2>3 DEF SettleInv, StepAgrees
      <3>2. JournalNamesAnchor
        BY <1>1, <2>3 DEF SettleInv
      <3>3. FileIsAnchored'
        BY <1>1, <2>2, <3>1, <3>2 DEF JournalNamesAnchor, FileIsAnchored
      <3> QED
        BY <1>1, <2>1, <2>2, <3>1, <3>2, <3>3 DEF JournalNamesAnchor, FilesAgree, StepAgrees
    <2> QED
      BY <1>1, <2>1, <2>3, SettleInside
  <1>5. CASE DropJournal(h)
    <2>1. PICK step \in {"body", "unlock"} :
            pc' = [pc EXCEPT ![h] = step] /\ pc'[h] = step
      BY <1>5, ThenOrThrowStep DEF DropJournal
    <2>2. journal' = NoJournal /\ state' = state /\ pc[h] = "dropJournal"
      BY <1>5 DEF DropJournal
    <2>3. journal'.kind = "none"
      BY <2>2 DEF NoJournal
    <2>4. ASSUME restores' = 0
          PROVE  JournalNamesAnchor' /\ FilesAgree' /\ StepAgrees(h)'
      <3>1. anchor = journal.expected \/ FileIsAnchored
        BY <1>1, <2>2, <2>4 DEF SettleInv, StepAgrees
      <3>2. (displaced => anchor.erased) => FileIsAnchored
        BY <1>1, <2>4, <3>1 DEF SettleInv, FilesAgree
      <3>3. FilesAgree'
        BY <1>1, <2>2, <3>2 DEF FilesAgree, FileIsAnchored
      <3> QED
        BY <2>1, <2>3, <3>3 DEF JournalNamesAnchor, StepAgrees
    <2> QED
      BY <1>1, <2>1, <2>4, SettleInside
  <1> QED
    BY <1>2, <1>3, <1>4, <1>5

\* Answering, refusing and preparing: the files stay, or an erased scope's is removed.
LEMMA SettleBody ==
  ASSUME StoreInv, SettleInv, NEW h \in Hosts,
         Load(h) \/ ErasureStatus(h) \/ PrepareCommit(h) \/ PrepareDestroy(h)
  PROVE  SettleInv'
  <1>1. /\ Inside(h) /\ pc[h] = "body"
        /\ UNCHANGED <<anchor, journal, displaced, restores, request>>
        /\ UNCHANGED state \/ (anchor.erased /\ state' = NoFile)
    BY DEF Load, ErasureStatus, PrepareCommit, PrepareDestroy, RemoveStateFile, Inside, disk,
           ghosts, environment
  <1>2. \/ pc' = [pc EXCEPT ![h] = "unlock"]
        \/ /\ pc' = [pc EXCEPT ![h] = "writeJournal"]
           /\ \/ request[h].op # "destroy"
              \/ txn'[h].kind # "commit"
    <2>1. CASE Load(h) \/ ErasureStatus(h)
      BY <2>1 DEF Load, ErasureStatus, FinishOrThrow, Throw, Finish
    <2>2. CASE PrepareCommit(h)
      BY <2>2 DEF PrepareCommit, Goto, Finish
    <2>3. CASE PrepareDestroy(h)
      <3>1. CASE pc' = [pc EXCEPT ![h] = "unlock"]
        BY <3>1
      <3>2. CASE /\ pc' = [pc EXCEPT ![h] = "writeJournal"]
                 /\ txn' = [txn EXCEPT ![h] =
                      [kind |-> "destroy", expected |-> anchor,
                       next |-> Advance(anchor, NoRecord, TRUE)]]
        BY <3>2 DEF StoreInv, TypeOK
      <3> QED
        BY <2>3, <3>1, <3>2 DEF PrepareDestroy, FinishOrThrow, Throw, Finish, Goto
    <2> QED
      BY <2>1, <2>2, <2>3
  <1>3. PICK step \in {"unlock", "writeJournal"} :
          pc' = [pc EXCEPT ![h] = step] /\ pc'[h] = step
    BY <1>2 DEF StoreInv, TypeOK
  <1>4. ASSUME restores' = 0
        PROVE  JournalNamesAnchor' /\ FilesAgree' /\ StepAgrees(h)'
    <2>1. JournalNamesAnchor /\ FilesAgree /\ StepAgrees(h)
      BY <1>1, <1>4 DEF SettleInv
    <2>2. FilesAgree'
      BY <1>1, <2>1 DEF FilesAgree, FileIsAnchored
    <2>3. pc'[h] = "writeJournal" /\ txn'[h].kind = "commit" => journal.kind = "none"
      BY <1>1, <1>2, <1>3, <2>1 DEF StepAgrees, StoreInv, TypeOK
    <2> QED
      BY <1>1, <1>3, <2>1, <2>2, <2>3 DEF JournalNamesAnchor, StepAgrees
  <1> QED
    BY <1>1, <1>3, <1>4, SettleInside

\* The journal is written: the transaction it names is about the anchor as it is, and the
\* file is that anchor's, unless this very step replaces the journal of an anchored commit.
LEMMA SettleJournal ==
  ASSUME StoreInv, SettleInv, NEW h \in Hosts, WriteJournal(h)
  PROVE  SettleInv'
  <1>1. /\ Inside(h) /\ pc[h] = "writeJournal" /\ journal' = txn[h]
        /\ UNCHANGED <<anchor, state, restores, request, txn>>
        /\ displaced' = (displaced \/ (/\ txn[h].kind = "destroy"
                                       /\ journal.kind = "commit"
                                       /\ journal.next = anchor
                                       /\ state # StateOf(anchor)))
    BY DEF WriteJournal, Inside, environment
  <1>2. PICK step \in {"storeAnchor", "unlock"} :
          pc' = [pc EXCEPT ![h] = step] /\ pc'[h] = step
    BY ThenOrThrowStep DEF WriteJournal
  <1>3. /\ txn[h].kind \in {"commit", "destroy"} /\ anchor = txn[h].expected
        /\ ~txn[h].expected.erased
        /\ txn[h].next.generation = txn[h].expected.generation + 1
        /\ txn[h].next.erased = (txn[h].kind = "destroy")
    BY <1>1 DEF StoreInv, TransactionsAreCurrent
  <1>4. txn[h].expected # txn[h].next
    BY <1>3 DEF StoreInv, TypeOK, Anchors
  <1>5. ASSUME restores' = 0
        PROVE  JournalNamesAnchor' /\ FilesAgree' /\ StepAgrees(h)'
    <2>1. JournalNamesAnchor /\ FilesAgree /\ StepAgrees(h)
      BY <1>1, <1>5 DEF SettleInv
    <2>2. JournalNamesAnchor'
      BY <1>1, <1>3, <1>4 DEF JournalNamesAnchor
    <2>3. FilesAgree'
      <3> SUFFICES ASSUME ~displaced' PROVE FileIsAnchored
        BY <1>1, <1>3 DEF FilesAgree, FileIsAnchored
      <3>1. ~displaced /\ (txn[h].kind = "destroy" /\ journal.kind = "commit"
                             /\ journal.next = anchor => state = StateOf(anchor))
        BY <1>1 DEF StoreInv, TypeOK
      <3>2. CASE journal.kind = "none" \/ anchor = journal.expected
        BY <2>1, <3>1, <3>2 DEF FilesAgree
      <3>3. CASE journal.kind # "none" /\ anchor # journal.expected
        <4>1. anchor = journal.next /\ journal.kind # "destroy"
          BY <1>3, <2>1, <3>3 DEF JournalNamesAnchor
        <4>2. journal.kind = "commit" /\ txn[h].kind = "destroy"
          BY <1>1, <1>3, <2>1, <3>3, <4>1 DEF StepAgrees, StoreInv, TypeOK, Journals
        <4> QED
          BY <1>3, <3>1, <4>1, <4>2 DEF FileIsAnchored
      <3> QED
        BY <3>2, <3>3
    <2>4. StepAgrees(h)'
      BY <1>1, <1>2 DEF StepAgrees
    <2> QED
      BY <2>2, <2>3, <2>4
  <1> QED
    BY <1>1, <1>2, <1>5, SettleInside

LEMMA SettleStores ==
  ASSUME StoreInv, SettleInv, NEW h \in Hosts, StoreAnchor(h)
  PROVE  SettleInv'
  <1>1. /\ Inside(h) /\ pc[h] = "storeAnchor" /\ anchor' = txn[h].next
        /\ UNCHANGED <<state, journal, displaced, restores, request, txn>>
    BY DEF StoreAnchor, Inside, ghosts, environment
  <1>2. PICK step \in {"writeState", "unlock"} :
          pc' = [pc EXCEPT ![h] = step] /\ pc'[h] = step
    BY ThenOrThrowStep DEF StoreAnchor
  <1>3. ASSUME restores' = 0
        PROVE  JournalNamesAnchor' /\ FilesAgree' /\ StepAgrees(h)'
    <2>1. JournalNamesAnchor /\ journal = txn[h]
      BY <1>1, <1>3 DEF SettleInv, StepAgrees
    <2>2. txn[h].kind \in {"commit", "destroy"}
      BY <1>1 DEF StoreInv, TransactionsAreCurrent
    <2>3. anchor' # journal'.expected /\ journal'.kind # "none"
      BY <1>1, <2>1, <2>2 DEF JournalNamesAnchor
    <2> QED
      BY <1>1, <1>2, <2>1, <2>2, <2>3 DEF JournalNamesAnchor, FilesAgree, StepAgrees
  <1> QED
    BY <1>1, <1>2, <1>3, SettleInside

LEMMA SettleWrites ==
  ASSUME StoreInv, SettleInv, NEW h \in Hosts, WriteState(h)
  PROVE  SettleInv'
  <1>1. /\ Inside(h) /\ pc[h] = "writeState"
        /\ state' = IF txn[h].kind = "commit" THEN StateOf(txn[h].next) ELSE NoFile
        /\ UNCHANGED <<anchor, journal, displaced, restores, request, txn>>
    BY DEF WriteState, Inside, ghosts, environment
  <1>2. PICK step \in {"clearJournal", "unlock"} :
          pc' = [pc EXCEPT ![h] = step] /\ pc'[h] = step
    BY ThenOrThrowStep DEF WriteState
  <1>3. /\ txn[h].kind \in {"commit", "destroy"} /\ anchor = txn[h].next
        /\ anchor.erased = (txn[h].kind = "destroy")
    BY <1>1 DEF StoreInv, TransactionsAreCurrent
  <1>4. FileIsAnchored'
    BY <1>1, <1>3 DEF FileIsAnchored
  <1>5. ASSUME restores' = 0
        PROVE  JournalNamesAnchor' /\ FilesAgree' /\ StepAgrees(h)'
    <2>1. JournalNamesAnchor /\ journal = txn[h]
      BY <1>1, <1>5 DEF SettleInv, StepAgrees
    <2> QED
      BY <1>1, <1>2, <1>4, <2>1 DEF JournalNamesAnchor, FilesAgree, StepAgrees
  <1> QED
    BY <1>1, <1>2, <1>5, SettleInside

LEMMA SettleClears ==
  ASSUME StoreInv, SettleInv, NEW h \in Hosts, ClearJournal(h)
  PROVE  SettleInv'
  <1>1. /\ Inside(h) /\ pc[h] = "clearJournal" /\ journal' = NoJournal
        /\ pc' = [pc EXCEPT ![h] = "unlock"]
        /\ UNCHANGED <<anchor, state, displaced, restores, request, txn>>
    BY DEF ClearJournal, Inside, FinishOrThrow, Throw, Finish, ghosts, environment
  <1>2. pc'[h] = "unlock" /\ journal'.kind = "none"
    BY <1>1 DEF StoreInv, TypeOK, NoJournal
  <1>3. ASSUME restores' = 0
        PROVE  JournalNamesAnchor' /\ FilesAgree' /\ StepAgrees(h)'
    <2>1. FileIsAnchored
      BY <1>1, <1>3 DEF SettleInv, StepAgrees
    <2> QED
      BY <1>1, <1>2, <2>1 DEF JournalNamesAnchor, FilesAgree, FileIsAnchored, StepAgrees
  <1> QED
    BY <1>1, <1>3, SettleInside

LEMMA SettleStep == StoreInv /\ SettleInv /\ [Next]_vars => SettleInv'
  <1> SUFFICES ASSUME StoreInv, SettleInv, [Next]_vars PROVE SettleInv'
    OBVIOUS
  <1>1. ASSUME NEW h \in Hosts, HostStep(h) PROVE SettleInv'
    <2>1. CASE Release(h)
      BY <2>1, SettleLeaves DEF Release, environment
    <2> QED
      BY <1>1, <2>1, SettleRecovers, SettleBody, SettleJournal, SettleStores, SettleWrites,
         SettleClears DEF HostStep
  <1>2. ASSUME NEW h \in Hosts, HostFault(h) PROVE SettleInv'
    <2>1. CASE LeakLock(h)
      BY <2>1, SettleOutside DEF LeakLock, locals, ghosts, environment
    <2>2. CASE ReleaseFails(h) \/ Crash(h)
      BY <2>2, SettleLeaves DEF ReleaseFails, Crash, ghosts, environment
    <2>3. CASE IOError(h)
      <3>1. pc' = [pc EXCEPT ![h] = "unlock"]
            /\ UNCHANGED <<disk, displaced, request, txn, restores>>
        BY <2>3 DEF IOError, Throw, Finish, ghosts, environment
      <3>2. \A g \in Hosts : pc'[g] = pc[g] \/ pc'[g] = "unlock"
        BY <3>1 DEF StoreInv, TypeOK
      <3> QED
        BY <3>1, <3>2, SettleOutside
    <2> QED
      BY <1>2, <2>1, <2>2, <2>3 DEF HostFault
  <1>3. CASE OperatorCleanup \/ TakeBackup
    BY <1>3, SettleOutside DEF OperatorCleanup, TakeBackup, locals, ghosts, environment
  <1>4. CASE RestoreBackup
    <2>1. restores' = restores + 1 /\ restores \in Nat
      BY <1>4 DEF RestoreBackup, StoreInv, TypeOK
    <2> QED
      BY <2>1 DEF SettleInv
  <1>5. CASE UNCHANGED vars
    BY <1>5, SettleOutside DEF vars, locals, ghosts, environment
  <1> QED
    BY <1>1, <1>2, <1>3, <1>4, <1>5, SettleStart DEF Next

\* Interrupted wherever it is, the store settles: with no journal left and no host inside,
\* the file is the anchored record, and absent once erased, unless older files were put back
\* or a destruction replaced the journal of an anchored commit and is not anchored yet.
THEOREM FilesSettle == Spec => []SettledUnlessDisplaced
  <1>1. Init => StoreInv /\ SettleInv
    BY StoreInvInit, SettleInit
  <1>2. StoreInv /\ SettleInv /\ [Next]_vars => StoreInv' /\ SettleInv'
    BY StoreInvStep, SettleStep
  <1>3. StoreInv /\ SettleInv => SettledUnlessDisplaced
    <2> SUFFICES ASSUME StoreInv, SettleInv, restores = 0, displaced => anchor.erased
                 PROVE  Settled
      BY DEF StoreInv, TypeOK, SettledUnlessDisplaced
    <2> QED
      BY DEF SettleInv, FilesAgree, FileIsAnchored, Settled
  <1> QED
    BY <1>1, <1>2, <1>3, PTL DEF Spec

-----------------------------------------------------------------------------
(* The crash-journalled store implements the atomic register its callers   *)
(* rely on: every step of it is one step of AnchoredRegister or none.      *)

\* A host outside the scope has nothing in flight.
IdleIsClean ==
  \A h \in Hosts : pc[h] = "idle" => request[h] = NoRequest /\ answer[h] = Pending

RegisterVars == <<anchor, CallPhase, request, answer>>

LEMMA FinishKeepsClean ==
  ASSUME TypeOK, IdleIsClean, NEW h \in Hosts, NEW a, Finish(h, a), UNCHANGED request
  PROVE  IdleIsClean'
  BY DEF TypeOK, IdleIsClean, Finish

LEMMA GotoKeepsClean ==
  ASSUME TypeOK, IdleIsClean, NEW h \in Hosts, NEW step \in Steps \ {"idle"},
         Goto(h, step), UNCHANGED request
  PROVE  IdleIsClean'
  BY DEF TypeOK, IdleIsClean, Goto

LEMMA ThenOrThrowKeepsClean ==
  ASSUME TypeOK, IdleIsClean, NEW h \in Hosts, NEW step \in Steps \ {"idle"},
         ThenOrThrow(h, step), UNCHANGED request
  PROVE  IdleIsClean'
  BY FinishKeepsClean, GotoKeepsClean DEF ThenOrThrow, Throw

LEMMA FinishOrThrowKeepsClean ==
  ASSUME TypeOK, IdleIsClean, NEW h \in Hosts, NEW a, FinishOrThrow(h, a),
         UNCHANGED request
  PROVE  IdleIsClean'
  BY FinishKeepsClean DEF FinishOrThrow, Throw

LEMMA CleanStep == TypeOK /\ IdleIsClean /\ [Next]_vars => IdleIsClean'
  <1> SUFFICES ASSUME TypeOK, IdleIsClean, [Next]_vars PROVE IdleIsClean'
    OBVIOUS
  <1> USE DEF locals
  <1>1. ASSUME NEW h \in Hosts, Start(h) PROVE IdleIsClean'
    <2>1. \E step \in {"body", "recover"} : pc' = [pc EXCEPT ![h] = step]
      BY <1>1 DEF Start
    <2>2. UNCHANGED answer /\ \E q : request' = [request EXCEPT ![h] = q]
      BY <1>1 DEF Start
    <2>3. QED
      BY <2>1, <2>2 DEF TypeOK, IdleIsClean
  <1>2. ASSUME NEW h \in Hosts, Recover(h) PROVE IdleIsClean'
    BY <1>2, GotoKeepsClean, FinishKeepsClean DEF Recover, RedoStep, Steps
  <1>3. ASSUME NEW h \in Hosts,
               \/ RedoCommit(h) \/ RedoDestroy(h) \/ DropJournal(h)
               \/ WriteJournal(h) \/ StoreAnchor(h) \/ WriteState(h)
        PROVE IdleIsClean'
    <2>1. UNCHANGED request /\ \E step \in Steps \ {"idle"} : ThenOrThrow(h, step)
      BY <1>3 DEF RedoCommit, RedoDestroy, DropJournal, WriteJournal, StoreAnchor,
                  WriteState, Steps
    <2>2. QED
      BY <2>1, ThenOrThrowKeepsClean
  <1>4. ASSUME NEW h \in Hosts,
               Load(h) \/ ErasureStatus(h) \/ ClearJournal(h) \/ IOError(h)
        PROVE IdleIsClean'
    <2>1. UNCHANGED request /\ \E a : Finish(h, a)
      BY <1>4 DEF Load, ErasureStatus, ClearJournal, IOError, FinishOrThrow, Throw
    <2>2. QED
      BY <2>1, FinishKeepsClean
  <1>5. ASSUME NEW h \in Hosts, PrepareCommit(h) \/ PrepareDestroy(h)
        PROVE IdleIsClean'
    <2>1. /\ UNCHANGED request
          /\ (\E a : Finish(h, a)) \/ Goto(h, "writeJournal")
      BY <1>5 DEF PrepareCommit, PrepareDestroy, FinishOrThrow, Throw
    <2>2. QED
      BY <2>1, FinishKeepsClean, GotoKeepsClean DEF Steps
  <1>6. ASSUME NEW h \in Hosts, Release(h) \/ ReleaseFails(h) \/ Crash(h)
        PROVE IdleIsClean'
    <2>1. Reset(h)
      BY <1>6 DEF Release, ReleaseFails, Crash
    <2>2. QED
      BY <2>1 DEF Reset, TypeOK, IdleIsClean
  <1>7. ASSUME UNCHANGED locals PROVE IdleIsClean'
    BY <1>7 DEF IdleIsClean
  <1>8. QED
    BY <1>1, <1>2, <1>3, <1>4, <1>5, <1>6, <1>7
       DEF Next, HostStep, HostFault, LeakLock, OperatorCleanup, TakeBackup,
           RestoreBackup, vars

THEOREM Clean == Spec => []IdleIsClean
  <1>1. Init => IdleIsClean
    BY DEF Init, IdleIsClean
  <1>2. QED
    BY <1>1, CleanStep, TypeCorrect, PTL DEF Spec

-----------------------------------------------------------------------------
LEMMA CallPhaseMoves ==
  ASSUME StoreInv, NEW h \in Hosts, NEW step, pc' = [pc EXCEPT ![h] = step]
  PROVE  CallPhase' = [CallPhase EXCEPT ![h] = PhaseOf(step)]
  <1>1. \A g \in Hosts : pc'[g] = IF g = h THEN step ELSE pc[g]
    BY DEF StoreInv, TypeOK
  <1>2. QED
    BY <1>1 DEF CallPhase, PhaseOf

LEMMA GotoStutters ==
  ASSUME StoreInv, NEW h \in Hosts, NEW step, Goto(h, step),
         PhaseOf(step) = PhaseOf(pc[h]), UNCHANGED <<anchor, request>>
  PROVE  UNCHANGED RegisterVars
  <1>1. CallPhase' = CallPhase
    BY CallPhaseMoves DEF Goto, CallPhase
  <1>2. QED
    BY <1>1 DEF Goto, RegisterVars

LEMMA FinishReplies ==
  ASSUME StoreInv, NEW h \in Hosts, NEW a \in Register!Truthful(h), Finish(h, a),
         PhaseOf(pc[h]) \in {"called", "applied"}, UNCHANGED <<anchor, request>>
  PROVE  Register!Reply(h)
  <1>1. CallPhase' = [CallPhase EXCEPT ![h] = "done"]
    BY CallPhaseMoves DEF Finish, PhaseOf
  <1>2. CallPhase[h] \in {"called", "applied"}
    BY DEF CallPhase
  <1>3. answer' = [answer EXCEPT ![h] = a]
    BY DEF Finish
  <1>4. QED
    BY <1>1, <1>2, <1>3 DEF Register!Reply

LEMMA ErrorIsTruthful ==
  ASSUME NEW h PROVE Answer("error") \in Register!Truthful(h)
  BY DEF Answer, Register!Answer, Register!Truthful

LEMMA ThrowReplies ==
  ASSUME StoreInv, NEW h \in Hosts, Throw(h),
         PhaseOf(pc[h]) \in {"called", "applied"}, UNCHANGED <<anchor, request>>
  PROVE  Register!Reply(h)
  BY FinishReplies, ErrorIsTruthful DEF Throw

LEMMA ThenOrThrowRegister ==
  ASSUME StoreInv, NEW h \in Hosts, NEW step, ThenOrThrow(h, step),
         PhaseOf(step) = PhaseOf(pc[h]), PhaseOf(pc[h]) \in {"called", "applied"},
         UNCHANGED <<anchor, request>>
  PROVE  Register!Reply(h) \/ UNCHANGED RegisterVars
  BY GotoStutters, ThrowReplies DEF ThenOrThrow

\* A call that ends, told or untold, ends the register's call.
LEMMA ResetFinishes ==
  ASSUME StoreInv, IdleIsClean, NEW h \in Hosts, Reset(h), UNCHANGED anchor
  PROVE  Register!Finish(h) \/ UNCHANGED RegisterVars
  <1>1. CallPhase' = [CallPhase EXCEPT ![h] = "idle"]
    BY CallPhaseMoves DEF Reset, PhaseOf
  <1>2. Register!NoRequest = NoRequest /\ Register!Pending = Pending
    BY DEF Register!NoRequest, NoRequest, Register!Pending, Pending,
           Register!Answer, Answer, Register!EmptyRegister, NoAnchor
  <1>3. CASE pc[h] = "idle"
    <2>1. request' = request /\ answer' = answer
      BY <1>3 DEF Reset, IdleIsClean, StoreInv, TypeOK
    <2>2. CallPhase' = CallPhase
      BY <1>1, <1>3 DEF CallPhase, PhaseOf
    <2>3. QED
      BY <2>1, <2>2 DEF RegisterVars
  <1>4. CASE pc[h] # "idle"
    <2>1. CallPhase[h] # "idle"
      BY <1>4 DEF CallPhase, PhaseOf
    <2>2. QED
      BY <1>1, <1>2, <2>1 DEF Reset, Register!Finish
  <1>5. QED
    BY <1>3, <1>4

LEMMA RefinementStep ==
  StoreInv /\ StoreInv' /\ IdleIsClean /\ [Next]_vars
    => [Register!Next]_(Register!registerVars)
  <1> SUFFICES ASSUME StoreInv, StoreInv', IdleIsClean, [Next]_vars
               PROVE  \/ \E h \in Hosts : \/ Register!Call(h) \/ Register!Apply(h)
                                          \/ Register!Reply(h) \/ Register!Finish(h)
                      \/ UNCHANGED RegisterVars
    BY DEF Register!Next, Register!registerVars, RegisterVars
  <1> USE DEF disk, locals
  <1>1. ASSUME NEW h \in Hosts, Start(h) PROVE Register!Call(h)
    <2>1. PICK step \in {"body", "recover"} : pc' = [pc EXCEPT ![h] = step]
      BY <1>1 DEF Start
    <2>2. CallPhase' = [CallPhase EXCEPT ![h] = "called"]
      BY <2>1, CallPhaseMoves DEF PhaseOf
    <2>3. PICK q : request' = [request EXCEPT ![h] = q]
      BY <1>1 DEF Start
    <2>4. request' = [request EXCEPT ![h] = request'[h]]
      BY <2>3 DEF StoreInv, TypeOK
    <2>5. request'[h] \in Register!Requests
      BY DEF StoreInv, TypeOK, Requests, Register!Requests, Anchors,
             Register!Registers, Contents, Register!Contents
    <2>6. CallPhase[h] = "idle" /\ UNCHANGED <<anchor, answer>>
      BY <1>1 DEF Start, CallPhase, PhaseOf
    <2>7. QED
      BY <2>2, <2>4, <2>5, <2>6 DEF Register!Call
  <1>2. ASSUME NEW h \in Hosts, Recover(h)
        PROVE  Register!Reply(h) \/ UNCHANGED RegisterVars
    <2>1. PhaseOf(pc[h]) = "called" /\ UNCHANGED <<anchor, request>>
      BY <1>2 DEF Recover, PhaseOf
    <2>2. CASE \E step \in {"body", "redoCommit", "redoDestroy", "dropJournal"} :
                 Goto(h, step)
      BY <2>1, <2>2, GotoStutters DEF PhaseOf
    <2>3. CASE Finish(h, Answer("error"))
      BY <2>1, <2>3, FinishReplies, ErrorIsTruthful
    <2>4. QED
      BY <1>2, <2>2, <2>3 DEF Recover, RedoStep
  <1>3. ASSUME NEW h \in Hosts,
               RedoCommit(h) \/ RedoDestroy(h) \/ DropJournal(h) \/ WriteJournal(h)
        PROVE  Register!Reply(h) \/ UNCHANGED RegisterVars
    <2>1. /\ PhaseOf(pc[h]) = "called" /\ UNCHANGED <<anchor, request>>
          /\ \E step \in {"dropJournal", "body", "storeAnchor"} : ThenOrThrow(h, step)
      BY <1>3 DEF RedoCommit, RedoDestroy, DropJournal, WriteJournal, PhaseOf
    <2>2. QED
      BY <2>1, ThenOrThrowRegister DEF PhaseOf
  <1>4. ASSUME NEW h \in Hosts, Load(h) PROVE Register!Reply(h)
    <2>1. /\ pc[h] = "body" /\ request[h].op = "load" /\ CallPhase[h] = "called"
          /\ UNCHANGED <<anchor, request>>
      BY <1>4 DEF Load, CallPhase, PhaseOf
    <2>2. \E a \in Register!Truthful(h) : Finish(h, a)
      <3>1. CASE Finish(h, Answer("error"))
        BY <3>1, ErrorIsTruthful
      <3>2. CASE anchor.erased /\ Finish(h, Answer("gone"))
        BY <2>1, <3>2 DEF Register!Truthful, Register!Answer, Answer
      <3>3. CASE ValidStateAndAnchor(state, anchor) /\ Finish(h, Holding("value", state))
        <4>1. ~anchor.erased /\ Holding("value", state) = Register!Holding("value", anchor)
          BY <3>3 DEF ValidStateAndAnchor, StateOf, Holding, Register!Holding
        <4>2. Register!Holding("value", anchor) \in Register!Truthful(h)
          BY <2>1, <4>1 DEF Register!Truthful
        <4>3. QED
          BY <3>3, <4>1, <4>2
      <3>4. QED
        BY <1>4, <3>1, <3>2, <3>3 DEF Load
    <2>3. QED
      BY <2>1, <2>2, FinishReplies DEF PhaseOf
  <1>5. ASSUME NEW h \in Hosts, ErasureStatus(h) PROVE Register!Reply(h)
    <2>1. /\ pc[h] = "body" /\ request[h].op = "status" /\ CallPhase[h] = "called"
          /\ UNCHANGED <<anchor, request>>
      BY <1>5 DEF ErasureStatus, CallPhase, PhaseOf
    <2>2. CASE Throw(h)
      BY <2>1, <2>2, ThrowReplies DEF PhaseOf
    <2>3. CASE Finish(h, Answer("error"))
      BY <2>1, <2>3, FinishReplies, ErrorIsTruthful DEF PhaseOf
    <2>4. CASE ~anchor.erased /\ Finish(h, Answer("live"))
      <3>1. Answer("live") \in Register!Truthful(h)
        BY <2>1, <2>4 DEF Register!Truthful, Register!Answer, Answer
      <3>2. QED
        BY <2>1, <2>4, <3>1, FinishReplies DEF PhaseOf
    <2>5. CASE anchor.erased /\ Finish(h, Answer("erased"))
      <3>1. Answer("erased") \in Register!Truthful(h)
        BY <2>1, <2>5 DEF Register!Truthful, Register!Answer, Answer
      <3>2. QED
        BY <2>1, <2>5, <3>1, FinishReplies DEF PhaseOf
    <2>6. QED
      BY <1>5, <2>2, <2>3, <2>4, <2>5 DEF ErasureStatus, FinishOrThrow
  <1>6. ASSUME NEW h \in Hosts, PrepareCommit(h)
        PROVE  Register!Reply(h) \/ UNCHANGED RegisterVars
    <2>1. PhaseOf(pc[h]) = "called" /\ UNCHANGED <<anchor, request>>
      BY <1>6 DEF PrepareCommit, PhaseOf
    <2>2. Goto(h, "writeJournal") \/ Finish(h, Answer("error"))
      BY <1>6 DEF PrepareCommit
    <2>3. QED
      BY <2>1, <2>2, GotoStutters, FinishReplies, ErrorIsTruthful DEF PhaseOf
  <1>7. ASSUME NEW h \in Hosts, PrepareDestroy(h)
        PROVE  Register!Reply(h) \/ UNCHANGED RegisterVars
    <2>1. /\ pc[h] = "body" /\ request[h].op = "destroy" /\ CallPhase[h] = "called"
          /\ PhaseOf(pc[h]) = "called" /\ UNCHANGED <<anchor, request>>
      BY <1>7 DEF PrepareDestroy, CallPhase, PhaseOf
    <2>2. CASE Throw(h)
      BY <2>1, <2>2, ThrowReplies
    <2>3. CASE Goto(h, "writeJournal")
      BY <2>1, <2>3, GotoStutters DEF PhaseOf
    <2>4. CASE Finish(h, Answer("error"))
      BY <2>1, <2>4, FinishReplies, ErrorIsTruthful
    <2>5. CASE anchor.erased /\ Finish(h, Answer("destroyed"))
      <3>1. Answer("destroyed") \in Register!Truthful(h)
        BY <2>1, <2>5 DEF Register!Truthful, Register!Answer, Answer
      <3>2. QED
        BY <2>1, <2>5, <3>1, FinishReplies
    <2>6. QED
      BY <1>7, <2>2, <2>3, <2>4, <2>5 DEF PrepareDestroy, FinishOrThrow
  <1>8. ASSUME NEW h \in Hosts, StoreAnchor(h) PROVE Register!Apply(h)
    <2>1. /\ pc[h] = "storeAnchor" /\ CallPhase[h] = "called"
          /\ anchor' = txn[h].next /\ UNCHANGED request
          /\ ThenOrThrow(h, "writeState")
      BY <1>8 DEF StoreAnchor, CallPhase, PhaseOf
    <2>2. /\ request[h].op \in {"commit", "destroy"} /\ ~anchor.erased
          /\ request[h].force \/ request[h].expected = anchor
          /\ request[h].op = "commit" => ~request[h].force
          /\ request[h].op = "destroy" => request[h].record = NoRecord
          /\ anchor'.generation = anchor.generation + 1
          /\ anchor'.record = request[h].record
          /\ anchor'.erased = (request[h].op = "destroy")
      BY <2>1 DEF StoreInv, TransactionsAreCurrent
    <2>3. anchor' = [generation |-> anchor.generation + 1,
                     record |-> request[h].record,
                     erased |-> (request[h].op = "destroy")]
      BY <2>2 DEF StoreInv, TypeOK, Anchors
    <2>4. Register!Commit(h) \/ Register!Erase(h)
      <3>1. CASE request[h].op = "commit"
        BY <2>1, <2>2, <2>3, <3>1 DEF Register!Commit
      <3>2. CASE request[h].op = "destroy"
        BY <2>1, <2>2, <2>3, <3>2 DEF Register!Erase
      <3>3. QED
        BY <2>2, <3>1, <3>2
    <2>5. \/ CallPhase' = [CallPhase EXCEPT ![h] = "applied"] /\ UNCHANGED answer
          \/ /\ CallPhase' = [CallPhase EXCEPT ![h] = "done"]
             /\ answer' = [answer EXCEPT ![h] = Answer("error")]
      BY <2>1, CallPhaseMoves DEF ThenOrThrow, Goto, Throw, Finish, PhaseOf
    <2>6. QED
      BY <2>4, <2>5 DEF Register!Apply, Register!Answer, Answer
  <1>9. ASSUME NEW h \in Hosts, WriteState(h)
        PROVE  Register!Reply(h) \/ UNCHANGED RegisterVars
    BY <1>9, ThenOrThrowRegister DEF WriteState, PhaseOf
  <1>10. ASSUME NEW h \in Hosts, ClearJournal(h) PROVE Register!Reply(h)
    <2>1. /\ pc[h] = "clearJournal" /\ CallPhase[h] = "applied"
          /\ PhaseOf(pc[h]) = "applied" /\ UNCHANGED <<anchor, request>>
      BY <1>10 DEF ClearJournal, CallPhase, PhaseOf
    <2>2. txn[h].kind = request[h].op /\ anchor = txn[h].next
      BY <2>1 DEF StoreInv, TransactionsAreCurrent
    <2>3. CASE Throw(h)
      BY <2>1, <2>3, ThrowReplies
    <2>4. CASE txn[h].kind = "commit" /\ Finish(h, Holding("committed", txn[h].next))
      <3>1. Holding("committed", txn[h].next) \in Register!Truthful(h)
        BY <2>1, <2>2, <2>4 DEF Register!Truthful, Register!Holding, Holding
      <3>2. QED
        BY <2>1, <2>4, <3>1, FinishReplies
    <2>5. CASE txn[h].kind # "commit" /\ Finish(h, Answer("destroyed"))
      <3>1. Answer("destroyed") \in Register!Truthful(h)
        BY <2>1, <2>2, <2>5 DEF Register!Truthful, Register!Answer, Answer
      <3>2. QED
        BY <2>1, <2>5, <3>1, FinishReplies
    <2>6. QED
      BY <1>10, <2>3, <2>4, <2>5 DEF ClearJournal, FinishOrThrow
  <1>11. ASSUME NEW h \in Hosts, Release(h) \/ ReleaseFails(h) \/ Crash(h)
         PROVE  Register!Finish(h) \/ UNCHANGED RegisterVars
    BY <1>11, ResetFinishes DEF Release, ReleaseFails, Crash
  <1>12. ASSUME NEW h \in Hosts, IOError(h) PROVE Register!Reply(h)
    <2>1. /\ PhaseOf(pc[h]) \in {"called", "applied"}
          /\ Throw(h) /\ UNCHANGED <<anchor, request>>
      BY <1>12 DEF IOError, PhaseOf
    <2>2. QED
      BY <2>1, ThrowReplies
  <1>13. ASSUME UNCHANGED <<anchor, locals>> PROVE UNCHANGED RegisterVars
    BY <1>13 DEF RegisterVars, CallPhase
  <1>14. QED
    BY <1>1, <1>2, <1>3, <1>4, <1>5, <1>6, <1>7, <1>8, <1>9, <1>10, <1>11, <1>12, <1>13
       DEF Next, HostStep, HostFault, LeakLock, OperatorCleanup, TakeBackup,
           RestoreBackup, vars

LEMMA RefinementInit == Init => Register!Init
  <1> SUFFICES ASSUME Init PROVE Register!Init
    OBVIOUS
  <1>1. CallPhase = [h \in Hosts |-> "idle"]
    BY DEF Init, CallPhase, PhaseOf
  <1>2. Register!NoRequest = NoRequest /\ Register!Pending = Pending
        /\ Register!EmptyRegister = NoAnchor
    BY DEF Register!NoRequest, NoRequest, Register!Pending, Pending,
           Register!Answer, Answer, Register!EmptyRegister, NoAnchor
  <1>3. QED
    BY <1>1, <1>2 DEF Init, Register!Init

\* Through crashes, thrown writes and restored files, callers see one atomic,
\* monotonic register that is erased once and for all.
THEOREM StoreImplementsRegister == Spec => ImplementsRegister
  <1>1. QED
    BY RefinementInit, RefinementStep, StoreInvariant, Clean, PTL
       DEF Spec, ImplementsRegister, Register!Spec
=============================================================================
