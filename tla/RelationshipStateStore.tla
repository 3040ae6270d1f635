----------------------- MODULE RelationshipStateStore -----------------------
(***************************************************************************)
(* The desktop host's crash-journalled store of one relationship scope     *)
(* (desktop/bun/relationship-state-store.js).  Three durable places hold   *)
(* it: the Keychain anchor (the commit point), the encrypted state file    *)
(* and the crash journal, beside the host.lock file that one operation at  *)
(* a time creates exclusively.  Every durable write is a step of its own,  *)
(* so a crash or an I/O error may fall between any two of them.            *)
(***************************************************************************)
EXTENDS Naturals, FiniteSets

CONSTANTS Hosts,          \* host processes sharing the scope directory
          Records,        \* encrypted records a runtime may commit
          NoRecord,       \* absence of a record
          MaxGeneration,  \* bound: no commit starts beyond this generation
          MaxFaults,      \* bound: crashes and I/O errors in a behaviour
          MaxRestores     \* bound: restorations of old files

ASSUME StoreAssumption ==
  /\ NoRecord \notin Records
  /\ {MaxGeneration, MaxFaults, MaxRestores} \subseteq Nat

VARIABLES
  anchor,     \* the Keychain item
  state,      \* state.json
  journal,    \* transaction.json
  lock,       \* host.lock exists
  pc,         \* the next step of each host's operation
  request,    \* the arguments of each host's operation
  txn,        \* the transaction each host has built
  answer,     \* the outcome each host will report once the lock is released
  seen,       \* the anchor each host's runtime last learned (a set of <= 1)
  observed,   \* history: every record a runtime was ever given or confirmed
  backup,     \* files copied aside, outside the store's control
  displaced,  \* history: a destroy journal replaced an anchored commit's
  faults, restores

disk == <<anchor, state, journal>>
locals == <<pc, request, txn, answer>>
ghosts == <<observed, displaced>>
environment == <<backup, restores>>
vars == <<disk, lock, locals, seen, ghosts, environment, faults>>

Contents == Records \cup {NoRecord}
Anchors == [generation: Nat, record: Contents, erased: BOOLEAN]
NoAnchor == [generation |-> 0, record |-> NoRecord, erased |-> FALSE]
StateFiles == [generation: Nat, record: Contents]
StateOf(a) == [generation |-> a.generation, record |-> a.record]
NoFile == StateOf(NoAnchor)
Journals == [kind: {"none", "commit", "destroy"}, expected: Anchors, next: Anchors]
NoJournal == [kind |-> "none", expected |-> NoAnchor, next |-> NoAnchor]

Requests == [op: {"load", "status", "commit", "destroy"},
             expected: Anchors, force: BOOLEAN, record: Contents]
NoRequest == [op |-> "load", expected |-> NoAnchor, force |-> FALSE,
              record |-> NoRecord]
Answers == [kind: {"pending", "error", "value", "live", "gone", "erased",
                   "committed", "destroyed"},
            generation: Nat, record: Contents]
Answer(kind) == [kind |-> kind, generation |-> 0, record |-> NoRecord]
Pending == Answer("pending")
Holding(kind, f) ==
  [kind |-> kind, generation |-> f.generation, record |-> f.record]

Steps == {"idle", "recover", "redoCommit", "redoDestroy", "dropJournal", "body",
          "writeJournal", "storeAnchor", "writeState", "clearJournal", "unlock"}

\* validateStateAndAnchor: an absent file goes only with an absent anchor, and
\* a present one must carry the anchor's generation and digests.
ValidStateAndAnchorUnchecked(f, a) == ~a.erased
ValidStateAndAnchor(f, a) == ~a.erased /\ f = StateOf(a)

\* The anchor as the runtime sees it.
RuntimeAnchorUnversioned(f) == f
RuntimeAnchor(f) ==
  [generation |-> f.generation, record |-> f.record, erased |-> FALSE]

RemoveStateFileSkipped == UNCHANGED state
RemoveStateFile == state' = NoFile

Advance(a, r, gone) ==
  [generation |-> a.generation + 1, record |-> r, erased |-> gone]

-----------------------------------------------------------------------------
(* Steps of an operation.  The lock is held from Start to Release.          *)

Goto(h, step) == pc' = [pc EXCEPT ![h] = step] /\ UNCHANGED answer

Finish(h, a) ==
  /\ pc' = [pc EXCEPT ![h] = "unlock"]
  /\ answer' = [answer EXCEPT ![h] = a]

\* An I/O error: the operation throws and goes on to release the lock.
Throw(h) ==
  /\ faults < MaxFaults
  /\ faults' = faults + 1
  /\ Finish(h, Answer("error"))

\* A durable write that took effect may still throw (a failed directory sync,
\* a failed exit of the keychain tool).
ThenOrThrow(h, step) == (Goto(h, step) /\ UNCHANGED faults) \/ Throw(h)
FinishOrThrow(h, a) == (Finish(h, a) /\ UNCHANGED faults) \/ Throw(h)

\* What a runtime asks for: a commit always extends the anchor it last
\* learned; a destruction passes that anchor or, when it could not load, null.
Call(h, q) ==
  \/ q = [NoRequest EXCEPT !.op = "load"]
  \/ q = [NoRequest EXCEPT !.op = "status"]
  \/ /\ q.op = "commit" /\ ~q.force /\ q.expected \in seen[h]
     /\ q.record \in Records /\ q.expected.generation < MaxGeneration
  \/ /\ q.op = "destroy" /\ q.record = NoRecord
     /\ \/ q.force /\ q.expected = NoAnchor
        \/ ~q.force /\ q.expected \in seen[h] /\ q.expected # NoAnchor

\* acquireScopeLock: host.lock is created exclusively.  While it exists every
\* operation is refused without touching the scope, which is no step here.
AcquireReclaiming == lock' = TRUE
Acquire == ~lock /\ lock' = TRUE

Start(h) ==
  /\ pc[h] = "idle"
  /\ Acquire
  /\ \E op \in {"load", "status", "commit", "destroy"}, force \in BOOLEAN,
        e \in seen[h] \cup {NoAnchor}, r \in Contents :
       LET q == [op |-> op, expected |-> e, force |-> force, record |-> r]
       IN /\ Call(h, q)
          /\ request' = [request EXCEPT ![h] = q]
          /\ pc' = [pc EXCEPT ![h] = IF op = "destroy" THEN "body" ELSE "recover"]
  /\ UNCHANGED <<disk, txn, answer, seen, ghosts, environment, faults>>

\* The lock file is written, then syncing it fails outside the try block.
LeakLock(h) ==
  /\ pc[h] = "idle" /\ Acquire
  /\ faults < MaxFaults /\ faults' = faults + 1
  /\ UNCHANGED <<disk, locals, seen, ghosts, environment>>

RedoStepDropsCommit(kind) == IF kind = "commit" THEN "dropJournal" ELSE "redoDestroy"
RedoStep(kind) == IF kind = "commit" THEN "redoCommit" ELSE "redoDestroy"

NeverStoredOverlooked == FALSE
NeverStored == anchor = journal.expected /\ anchor # journal.next

\* recoverUnlocked: an interrupted transaction is completed when the anchor
\* already moved, dropped when it did not, and refused otherwise.
Recover(h) ==
  /\ pc[h] = "recover"
  /\ \/ journal.kind = "none" /\ Goto(h, "body")
     \/ /\ journal.kind # "none" /\ anchor = journal.next
        /\ Goto(h, RedoStep(journal.kind))
     \/ journal.kind # "none" /\ NeverStored /\ Goto(h, "dropJournal")
     \/ /\ journal.kind # "none" /\ anchor # journal.next /\ ~NeverStored
        /\ Finish(h, Answer("error"))
  /\ UNCHANGED <<disk, lock, request, txn, seen, ghosts, environment, faults>>

RedoCommit(h) ==
  /\ pc[h] = "redoCommit"
  /\ state' = StateOf(journal.next)
  /\ ThenOrThrow(h, "dropJournal")
  /\ UNCHANGED <<anchor, journal, lock, request, txn, seen, ghosts, environment>>

RedoDestroy(h) ==
  /\ pc[h] = "redoDestroy"
  /\ RemoveStateFile
  /\ ThenOrThrow(h, "dropJournal")
  /\ UNCHANGED <<anchor, journal, lock, request, txn, seen, ghosts, environment>>

DropJournal(h) ==
  /\ pc[h] = "dropJournal"
  /\ journal' = NoJournal
  /\ ThenOrThrow(h, "body")
  /\ UNCHANGED <<anchor, state, lock, request, txn, seen, ghosts, environment>>

Load(h) ==
  /\ pc[h] = "body" /\ request[h].op = "load"
  /\ \/ anchor.erased /\ Finish(h, Answer("gone"))
     \/ /\ ~anchor.erased /\ ~ValidStateAndAnchor(state, anchor)
        /\ Finish(h, Answer("error"))
     \/ ValidStateAndAnchor(state, anchor) /\ Finish(h, Holding("value", state))
  /\ UNCHANGED <<disk, lock, request, txn, seen, ghosts, environment, faults>>

ErasureStatus(h) ==
  /\ pc[h] = "body" /\ request[h].op = "status"
  /\ \/ /\ anchor.erased
        /\ RemoveStateFile
        /\ FinishOrThrow(h, Answer("erased"))
     \/ /\ ~anchor.erased /\ UNCHANGED <<state, faults>>
        /\ Finish(h, Answer(IF ValidStateAndAnchor(state, anchor)
                            THEN "live" ELSE "error"))
  /\ UNCHANGED <<anchor, journal, lock, request, txn, seen, ghosts, environment>>

\* The compare-and-swap against the anchor just read; a null expectation
\* destroys whatever is there.
ExpectedIgnored(h) == TRUE
Expected(h) == request[h].force \/ anchor = request[h].expected

PrepareCommit(h) ==
  /\ pc[h] = "body" /\ request[h].op = "commit"
  /\ IF ValidStateAndAnchor(state, anchor) /\ Expected(h)
     THEN /\ txn' = [txn EXCEPT ![h] =
               [kind |-> "commit", expected |-> anchor,
                next |-> Advance(anchor, request[h].record, FALSE)]]
          /\ Goto(h, "writeJournal")
     ELSE Finish(h, Answer("error")) /\ UNCHANGED txn
  /\ UNCHANGED <<disk, lock, request, seen, ghosts, environment, faults>>

\* destroy neither recovers nor validates the files: only the anchor counts.
PrepareDestroy(h) ==
  /\ pc[h] = "body" /\ request[h].op = "destroy"
  /\ \/ /\ anchor.erased
        /\ RemoveStateFile
        /\ FinishOrThrow(h, Answer("destroyed")) /\ UNCHANGED txn
     \/ /\ ~anchor.erased /\ UNCHANGED <<state, faults>>
        /\ IF Expected(h)
           THEN /\ txn' = [txn EXCEPT ![h] =
                     [kind |-> "destroy", expected |-> anchor,
                      next |-> Advance(anchor, NoRecord, TRUE)]]
                /\ Goto(h, "writeJournal")
           ELSE Finish(h, Answer("error")) /\ UNCHANGED txn
  /\ UNCHANGED <<anchor, journal, lock, request, seen, ghosts, environment>>

WriteJournal(h) ==
  /\ pc[h] = "writeJournal"
  /\ journal' = txn[h]
  /\ displaced' = (displaced \/ (/\ txn[h].kind = "destroy"
                                 /\ journal.kind = "commit"
                                 /\ journal.next = anchor
                                 /\ state # StateOf(anchor)))
  /\ ThenOrThrow(h, "storeAnchor")
  /\ UNCHANGED <<anchor, state, lock, request, txn, seen, observed, environment>>

StoreAnchor(h) ==
  /\ pc[h] = "storeAnchor"
  /\ anchor' = txn[h].next
  /\ ThenOrThrow(h, "writeState")
  /\ UNCHANGED <<state, journal, lock, request, txn, seen, ghosts, environment>>

WriteState(h) ==
  /\ pc[h] = "writeState"
  /\ state' = IF txn[h].kind = "commit" THEN StateOf(txn[h].next) ELSE NoFile
  /\ ThenOrThrow(h, "clearJournal")
  /\ UNCHANGED <<anchor, journal, lock, request, txn, seen, ghosts, environment>>

ClearJournal(h) ==
  /\ pc[h] = "clearJournal"
  /\ journal' = NoJournal
  /\ FinishOrThrow(h, IF txn[h].kind = "commit"
                      THEN Holding("committed", txn[h].next)
                      ELSE Answer("destroyed"))
  /\ UNCHANGED <<anchor, state, lock, request, txn, seen, ghosts, environment>>

Reset(h) ==
  /\ pc' = [pc EXCEPT ![h] = "idle"]
  /\ request' = [request EXCEPT ![h] = NoRequest]
  /\ txn' = [txn EXCEPT ![h] = NoJournal]
  /\ answer' = [answer EXCEPT ![h] = Pending]

\* The lock file is removed and the caller learns the outcome.
Release(h) ==
  /\ pc[h] = "unlock"
  /\ lock' = FALSE
  /\ LET given == [generation |-> answer[h].generation, record |-> answer[h].record]
     IN IF answer[h].kind \in {"value", "committed"}
        THEN /\ observed' = observed \cup {given}
             /\ seen' = [seen EXCEPT ![h] = {RuntimeAnchor(given)}]
        ELSE UNCHANGED <<observed, seen>>
  /\ Reset(h)
  /\ UNCHANGED <<disk, displaced, environment, faults>>

\* The release itself throws: the caller gets an error, the file may remain.
ReleaseFails(h) ==
  /\ pc[h] = "unlock"
  /\ faults < MaxFaults /\ faults' = faults + 1
  /\ lock' \in BOOLEAN
  /\ Reset(h)
  /\ UNCHANGED <<disk, seen, ghosts, environment>>

\* A read, or a write before it takes effect, fails.
IOError(h) ==
  /\ pc[h] \notin {"idle", "unlock"}
  /\ Throw(h)
  /\ UNCHANGED <<disk, lock, request, txn, seen, ghosts, environment>>

\* The host process dies; its lock file survives it.
Crash(h) ==
  /\ faults < MaxFaults /\ faults' = faults + 1
  /\ Reset(h)
  /\ seen' = [seen EXCEPT ![h] = {}]
  /\ UNCHANGED <<disk, lock, ghosts, environment>>

Idle == \A h \in Hosts : pc[h] = "idle"

\* A crashed host's lock is never reclaimed by another host: the operator
\* removes it, once no host is inside the scope.
OperatorCleanup ==
  /\ lock /\ Idle
  /\ lock' = FALSE
  /\ UNCHANGED <<disk, locals, seen, ghosts, environment, faults>>

\* Backups copy the two files, never the Keychain.
TakeBackup ==
  /\ restores < MaxRestores /\ Idle
  /\ backup' = [state |-> state, journal |-> journal]
  /\ UNCHANGED <<disk, lock, locals, seen, ghosts, restores, faults>>

RestoreBackup ==
  /\ restores < MaxRestores /\ Idle
  /\ restores' = restores + 1
  /\ state' = backup.state
  /\ journal' \in {journal, backup.journal}
  /\ UNCHANGED <<anchor, lock, locals, seen, ghosts, backup, faults>>

-----------------------------------------------------------------------------
Init ==
  /\ anchor = NoAnchor /\ state = NoFile /\ journal = NoJournal
  /\ lock = FALSE
  /\ pc = [h \in Hosts |-> "idle"]
  /\ request = [h \in Hosts |-> NoRequest]
  /\ txn = [h \in Hosts |-> NoJournal]
  /\ answer = [h \in Hosts |-> Pending]
  /\ seen = [h \in Hosts |-> {}]
  /\ observed = {} /\ displaced = FALSE
  /\ backup = [state |-> NoFile, journal |-> NoJournal]
  /\ faults = 0 /\ restores = 0

HostStep(h) ==
  \/ Recover(h) \/ RedoCommit(h) \/ RedoDestroy(h) \/ DropJournal(h)
  \/ Load(h) \/ ErasureStatus(h) \/ PrepareCommit(h) \/ PrepareDestroy(h)
  \/ WriteJournal(h) \/ StoreAnchor(h) \/ WriteState(h) \/ ClearJournal(h)
  \/ Release(h)

HostFault(h) == LeakLock(h) \/ ReleaseFails(h) \/ IOError(h) \/ Crash(h)

Next ==
  \/ \E h \in Hosts : Start(h) \/ HostStep(h) \/ HostFault(h)
  \/ OperatorCleanup \/ TakeBackup \/ RestoreBackup

Spec == Init /\ [][Next]_vars

-----------------------------------------------------------------------------
(* Safety *)

\* Every variable has the shape the code gives it.
TypeOK ==
  /\ anchor \in Anchors /\ state \in StateFiles /\ journal \in Journals
  /\ lock \in BOOLEAN
  /\ pc \in [Hosts -> Steps]
  /\ request \in [Hosts -> Requests]
  /\ txn \in [Hosts -> Journals]
  /\ answer \in [Hosts -> Answers]
  /\ seen \in [Hosts -> SUBSET Anchors]
  /\ observed \subseteq StateFiles
  /\ displaced \in BOOLEAN
  /\ backup \in [state: StateFiles, journal: Journals]
  /\ faults \in Nat /\ restores \in Nat

\* No fork: two runtimes, on any hosts and across any crashes, aborted commits
\* and restored files, are never given different records of one generation.
ObservedNeverForks ==
  \A a, b \in observed : a.generation = b.generation => a = b

\* No rollback: whatever a runtime was ever given or had confirmed is still
\* the anchored record, or lies behind it.
AnchorCoversObserved ==
  \A a \in observed :
    /\ a.generation <= anchor.generation
    /\ a.generation = anchor.generation => ~anchor.erased /\ a = StateOf(anchor)

\* An operation never reports a record the anchor does not name, even when
\* older files were put back: loads refuse rolled-back or replaced ciphertext.
AnswersAreAnchored ==
  \A h \in Hosts : answer[h].kind \in {"value", "committed"} =>
    /\ ~anchor.erased
    /\ answer[h].generation = anchor.generation
    /\ answer[h].record = anchor.record

\* The burn relies on it: when erasure is reported, the tombstone is anchored
\* and the ciphertext file, a restored one included, is gone.
ReportedErasureIsReal ==
  \A h \in Hosts : answer[h].kind \in {"erased", "destroyed"} =>
    anchor.erased /\ state = NoFile

\* With no host inside and no journal left, the file is the anchored record,
\* and absent once erased.
Settled ==
  (Idle /\ journal.kind = "none") =>
    IF anchor.erased THEN state = NoFile ELSE state = StateOf(anchor)

\* Files the store alone touched settle, the exception being a destruction
\* that replaced the journal of an anchored commit and then did not finish.
SettledUnlessDisplaced == (restores > 0 \/ (displaced /\ ~anchor.erased)) \/ Settled

\* The lock admits one operation at a time; dead hosts leave it behind.
MutualExclusion ==
  \A h \in Hosts : pc[h] # "idle" => lock /\ \A g \in Hosts : pc[g] # "idle" => g = h

AnswersAwaitRelease ==
  \A h \in Hosts : answer[h].kind # "pending" => pc[h] = "unlock"

\* From its compare-and-swap to its end a transaction is about the anchor it
\* read, and the anchor is its expected one until stored, its next one after.
TransactionsAreCurrent ==
  \A h \in Hosts :
    LET t == txn[h]  q == request[h]
    IN /\ pc[h] \in {"writeJournal", "storeAnchor", "writeState", "clearJournal"} =>
            /\ t.kind = q.op /\ t.kind \in {"commit", "destroy"}
            /\ q.force \/ q.expected = t.expected
            /\ ~t.expected.erased
            /\ t.next.generation = t.expected.generation + 1
            /\ t.next.record = q.record
            /\ t.next.erased = (q.op = "destroy")
       /\ pc[h] \in {"writeJournal", "storeAnchor"} => anchor = t.expected
       /\ pc[h] \in {"writeState", "clearJournal"} => anchor = t.next
       /\ pc[h] = "clearJournal" /\ t.kind = "destroy" => state = NoFile
       /\ q.op = "commit" => ~q.force
       /\ q.op = "destroy" => q.record = NoRecord

\* The inductive invariant behind the safety theorems.
StoreInv ==
  /\ TypeOK
  /\ MutualExclusion
  /\ AnswersAwaitRelease
  /\ TransactionsAreCurrent
  /\ AnswersAreAnchored
  /\ ReportedErasureIsReal
  /\ AnchorCoversObserved
  /\ ObservedNeverForks

\* The anchor moves one generation at a time and a tombstone is terminal.
AnchorAdvances ==
  [][anchor' # anchor =>
       /\ ~anchor.erased
       /\ anchor'.generation = anchor.generation + 1]_vars

\* How far a host's call has got, seen by its caller: the Keychain write is
\* the point where a commit or a destruction takes effect.
PhaseOf(step) ==
  CASE step = "idle" -> "idle"
    [] step \in {"writeState", "clearJournal"} -> "applied"
    [] step = "unlock" -> "done"
    [] OTHER -> "called"
CallPhase == [h \in Hosts |-> PhaseOf(pc[h])]

Register == INSTANCE AnchoredRegister WITH register <- anchor, phase <- CallPhase

\* The store is an atomic, monotonic, erasable register.
ImplementsRegister == Register!Spec

-----------------------------------------------------------------------------
(* Liveness.  Hosts run the operation they started to its end, the operator *)
(* removes a dead host's lock, and every start of the application loads the *)
(* scope again; a burn keeps asking until erasure is reported.  Faults and  *)
(* restorations are finitely many (MaxFaults, MaxRestores).                 *)

StartOp(h, op) == Start(h) /\ request'[h].op = op

Fairness ==
  /\ \A h \in Hosts : WF_vars(HostStep(h))
  /\ WF_vars(OperatorCleanup)
  /\ \A h \in Hosts : SF_vars(StartOp(h, "load")) /\ SF_vars(StartOp(h, "status"))

FairSpec == Spec /\ Fairness

\* Interrupted work is always resolved: no crash leaves a journal for ever,
\* as long as no older files are put back.
InterruptedWorkResolves ==
  [](journal.kind # "none" => <>(journal.kind = "none"))

\* Once the tombstone is anchored the ciphertext does not outlive it.
ErasedScopeIsEmptied == [](anchor.erased => <>(state = NoFile))
=============================================================================
