-------------------------- MODULE ApplicationVault --------------------------
(***************************************************************************)
(* The application window over its host-anchored stores: the fixed slot    *)
(* that holds the encrypted persona (HostAnchoredBrowserApplicationVaultV2 *)
(* in client/messaging-service.js), the coroutines of client/app.js that   *)
(* read the persona, wait, and write a whole new one, the durable scope of *)
(* every relationship, and the local burn that must erase them all.  Each  *)
(* commit to the slot or to a scope is the atomic register operation that  *)
(* AnchoredRegister specifies; awaits fall between the steps.              *)
(***************************************************************************)
EXTENDS Naturals, FiniteSets

CONSTANTS Pairings,     \* one-use pairings; each becomes one relationship
          Tasks,        \* coroutines of the window that save the persona
          Burns,        \* coroutines that run the local burn
          Writers,      \* relationship operations in flight
          MaxVaults,    \* bound: vault scopes ever initialized
          MaxSessions,  \* bound: sessions ever opened
          MaxWrites,    \* bound: generation a relationship operation starts from
          MaxFaults,    \* bound: crashes and failed calls
          MaxLosses     \* bound: ciphertext files lost or damaged

ASSUME VaultAssumption ==
  {MaxVaults, MaxSessions, MaxWrites, MaxFaults, MaxLosses} \subseteq Nat

VARIABLES
  slot,    \* the host-anchored vault record
  scope,   \* the anchored state of every relationship scope
  window,  \* memory of the application window
  task, burn, write,  \* its coroutines
  deleted, \* pairings whose rendezvous lanes the relay has deleted
  unsure,  \* history: relationships the slot lists and the window does not, as
           \* the save that added them took effect and answered with an error
  born,    \* history: the vault in which each pairing was prepared, 0 if none
  faults, losses

coroutines == <<task, burn, write>>
history == <<deleted, unsure, born, faults, losses>>
vars == <<slot, scope, window, coroutines, history>>

Phases == {"none", "pending", "ready", "paired"}
Personas == [Pairings -> Phases]
EmptyPersona == [p \in Pairings |-> "none"]
RelationshipsOf(persona) == {p \in Pairings : persona[p] = "paired"}

Slots == [status: {"empty", "active", "burning", "burned"}, vault: Nat,
          persona: Personas]
Scopes == [anchor: {"none", "live", "erased"}, generation: Nat,
           blocked: BOOLEAN, lost: BOOLEAN]
NoScope == [anchor |-> "none", generation |-> 0, blocked |-> FALSE, lost |-> FALSE]

\* open: a repository is bound to the session; loaded: a persona is in memory.
Windows == [ui: {"empty", "active", "burning", "burned"}, session: Nat,
            open: BOOLEAN, vault: Nat, loaded: BOOLEAN, persona: Personas,
            busy: SUBSET Pairings]

TaskKinds == {"prepare", "advance", "finalize", "cancel", "project"}
TaskStates == [step: {"idle", "draft", "cleaned", "saved"}, kind: TaskKinds,
               pairing: SUBSET Pairings, session: Nat, draft: Personas]
NoTask == [step |-> "idle", kind |-> "project", pairing |-> {}, session |-> 0,
           draft |-> EmptyPersona]

\* session: the session whose persona is burned, 0 for an unlocked recovery.
BurnSteps == {"off", "block", "blocking", "destroy", "destroying", "teardown"}
BurnStates == [step: BurnSteps, session: Nat, list: SUBSET Pairings,
               todo: SUBSET Pairings, target: SUBSET Pairings,
               force: BOOLEAN, expected: Nat]
NoBurn == [step |-> "off", session |-> 0, list |-> {}, todo |-> {},
           target |-> {}, force |-> FALSE, expected |-> 0]

WriteStates == [target: SUBSET Pairings, session: Nat, expected: Nat, blocked: BOOLEAN]
NoWrite == [target |-> {}, session |-> 0, expected |-> 0, blocked |-> FALSE]

-----------------------------------------------------------------------------
(* Relationship scopes                                                      *)

\* ensureState: an absent scope is created with its first generation.
Opened(s) == IF s.anchor = "none"
             THEN [s EXCEPT !.anchor = "live", !.generation = 1] ELSE s
Readable(s) == s.anchor # "erased" /\ ~s.lost

\* The compare-and-swap of a commit that was prepared from `expected`.
CommitsUnchecked(s, expected) == Readable(s)
Commits(s, expected) == Readable(s) /\ s.generation = expected
Committed(s, blocked) ==
  [s EXCEPT !.generation = @ + 1, !.blocked = blocked]
Erased(s) == [s EXCEPT !.anchor = "erased", !.generation = @ + 1, !.lost = FALSE]

\* erasureStatus: only a scope that is already a tombstone is passed over.
TerminalUnasked(s) == FALSE
TerminalWhenUnreadable(s) == ~Readable(s)
Terminal(s) == s.anchor = "erased"

-----------------------------------------------------------------------------
(* The vault slot.  Its operations are serialized: while the result of a     *)
(* committed save is on its way back, no other one starts.                   *)

VaultFree == \A t \in Tasks : task[t].step # "saved"

\* save: the slot is read again, and must still be the active vault this
\* session opened.
SavableUnchecked(w, s) == w.vault # 0
Savable(w, s) == w.vault # 0 /\ s.status = "active" /\ s.vault = w.vault

\* lockProfile: the session's references are dropped; coroutines live on.
Locked(w) == [w EXCEPT !.open = FALSE, !.vault = 0, !.loaded = FALSE,
                       !.persona = EmptyPersona, !.busy = {}]

OpenSession(w, s) ==
  [w EXCEPT !.ui = "active", !.session = @ + 1, !.open = TRUE,
            !.vault = s.vault, !.loaded = TRUE, !.persona = s.persona]

CanInitialize ==
  /\ ~window.open /\ window.ui \notin {"active", "burning"} /\ VaultFree
  /\ slot.status \in {"empty", "burned"}
  /\ slot.vault < MaxVaults /\ window.session < MaxSessions

NextVault == [status |-> "active", vault |-> slot.vault + 1, persona |-> EmptyPersona]

Initialize ==
  /\ CanInitialize /\ slot' = NextVault
  /\ window' = OpenSession(window, slot') /\ unsure' = {}
  /\ UNCHANGED <<scope, coroutines, deleted, born, faults, losses>>

\* The new slot is stored and commitSlot throws: no session is adopted, and the
\* window learns of its vault at the next Boot.
InitializeUnanswered ==
  /\ CanInitialize
  /\ faults < MaxFaults /\ faults' = faults + 1
  /\ slot' = NextVault
  /\ UNCHANGED <<scope, window, coroutines, deleted, unsure, born, losses>>

Unlock ==
  /\ ~window.open /\ window.ui = "active" /\ VaultFree
  /\ slot.status = "active" /\ window.session < MaxSessions
  /\ window' = OpenSession(window, slot) /\ unsure' = {}
  /\ UNCHANGED <<slot, scope, coroutines, deleted, born, faults, losses>>

\* The lock button, a hidden tab, a removed security key.
Lock ==
  /\ window.open \/ window.loaded
  /\ window' = Locked(window)
  /\ UNCHANGED <<slot, scope, coroutines, history>>

\* boot: a closed and quiet application is started again and inspects the slot.
Boot ==
  /\ ~window.open
  /\ \A t \in Tasks : task[t] = NoTask
  /\ \A b \in Burns : burn[b] = NoBurn
  /\ window' = [Locked(window) EXCEPT !.ui = slot.status]
  /\ UNCHANGED <<slot, scope, coroutines, history>>

\* The process dies, or the page is reloaded, between any two steps.
Crash ==
  /\ faults < MaxFaults /\ faults' = faults + 1
  /\ window' = [Locked(window) EXCEPT !.ui = slot.status]
  /\ task' = [t \in Tasks |-> NoTask]
  /\ burn' = [b \in Burns |-> NoBurn]
  /\ write' = [w \in Writers |-> NoWrite] /\ unsure' = {}
  /\ UNCHANGED <<slot, scope, deleted, born, losses>>

-----------------------------------------------------------------------------
(* Coroutines that replace the persona.  A pairing step (prepareOfferer- and *)
(* prepareResponderPairing, pumpPairing, finalizePairing, cancelPairing)     *)
(* edits a clone, awaits the relay, then calls persistPersona; "project" is  *)
(* persistRuntimeRelationship, which also checks that its session is current.*)

Edits == [prepare |-> <<{"none"}, "pending">>, advance |-> <<{"pending"}, "ready">>,
          finalize |-> <<{"ready"}, "paired">>,
          cancel |-> <<{"pending", "ready"}, "none">>,
          project |-> <<{"paired"}, "paired">>]

Guarded(kind) == kind \in {"advance", "finalize", "cancel"}
SameSession(t) == window.open /\ window.session = task[t].session

\* The clone is made from the persona in memory, which may be replaced by
\* another coroutine before this one saves.
Draft(t, kind, p) ==
  /\ task[t] = NoTask /\ window.open
  /\ window.persona[p] \in Edits[kind][1]
  /\ kind = "prepare" => born[p] = 0
  /\ kind = "advance" => p \notin deleted
  /\ Guarded(kind) => p \notin window.busy
  /\ task' = [task EXCEPT ![t] =
       [step |-> "draft", kind |-> kind, pairing |-> {p}, session |-> window.session,
        draft |-> [window.persona EXCEPT ![p] = Edits[kind][2]]]]
  /\ born' = IF kind = "prepare" THEN [born EXCEPT ![p] = window.vault] ELSE born
  /\ window' = IF Guarded(kind) THEN [window EXCEPT !.busy = @ \cup {p}] ELSE window
  /\ UNCHANGED <<slot, scope, burn, write, deleted, unsure, faults, losses>>

\* deleteRendezvousLanes comes before the persona that no longer needs them.
DeleteLanes(t) ==
  /\ task[t].step = "draft" /\ task[t].kind \in {"finalize", "cancel"}
  /\ deleted' = deleted \cup task[t].pairing
  /\ task' = [task EXCEPT ![t].step = "cleaned"]
  /\ UNCHANGED <<slot, scope, window, burn, write, unsure, born, faults, losses>>

ReadyToSave(t) ==
  task[t].step = IF task[t].kind \in {"finalize", "cancel"} THEN "cleaned" ELSE "draft"

Save(t) ==
  /\ ReadyToSave(t) /\ VaultFree
  /\ window.open /\ Savable(window, slot)
  /\ task[t].kind = "project" => SameSession(t)
  /\ slot' = [slot EXCEPT !.persona = task[t].draft]
  /\ task' = [task EXCEPT ![t].step = "saved"]
  /\ UNCHANGED <<scope, window, burn, write, history>>

\* The coroutine ends; its `finally` releases the pairing in whatever session.
Released(t, w) ==
  IF Guarded(task[t].kind) THEN [w EXCEPT !.busy = @ \ task[t].pairing] ELSE w

Installed(w, persona) == [w EXCEPT !.loaded = TRUE, !.persona = persona]

Outlived(t) == task[t].kind = "project" /\ ~SameSession(t)

Install(t) ==
  /\ task[t].step = "saved"
  /\ window' = Released(t, IF Outlived(t) THEN window
                           ELSE Installed(window, task[t].draft))
  /\ unsure' = IF Outlived(t) THEN unsure ELSE {}
  /\ task' = [task EXCEPT ![t] = NoTask]
  /\ UNCHANGED <<slot, scope, burn, write, deleted, born, faults, losses>>

\* The commit took effect and save throws: the persona in memory stays as it was.
SaveUnanswered(t) ==
  /\ task[t].step = "saved"
  /\ faults < MaxFaults /\ faults' = faults + 1
  /\ window' = Released(t, window)
  /\ unsure' = unsure \cup
       (RelationshipsOf(task[t].draft) \ RelationshipsOf(window.persona))
  /\ task' = [task EXCEPT ![t] = NoTask]
  /\ UNCHANGED <<slot, scope, burn, write, deleted, born, losses>>

\* The relay does not answer, the vault refuses, or the repository is gone.
Abandon(t) ==
  /\ task[t].step \in {"draft", "cleaned"}
  /\ window' = Released(t, window)
  /\ task' = [task EXCEPT ![t] = NoTask]
  /\ UNCHANGED <<slot, scope, burn, write, history>>

-----------------------------------------------------------------------------
(* Relationship operations: ensureState loads a generation, saveCandidate    *)
(* commits over it, and a long synchronization repeats both.  The runtime of *)
(* a locked session keeps running.                                           *)

\* messageBusy: the session runs one relationship operation or a burn.
Messaging(session) ==
  \/ \E w \in Writers : write[w].target # {} /\ write[w].session = session
  \/ \E b \in Burns : burn[b].step # "off" /\ burn[b].session = session

\* What ensureState holds after loading, or first creating, the scope of p.
Loads(w, p, session, blocked) ==
  /\ Readable(scope[p]) /\ Opened(scope[p]).generation <= MaxWrites
  /\ scope' = [scope EXCEPT ![p] = Opened(@)]
  /\ write' = [write EXCEPT ![w] =
       [target |-> {p}, session |-> session, expected |-> scope'[p].generation,
        blocked |-> blocked \/ scope[p].blocked]]

StartWrite(w, p, blocked) ==
  /\ write[w] = NoWrite /\ window.open /\ ~Messaging(window.session)
  /\ p \in RelationshipsOf(window.persona)
  /\ Loads(w, p, window.session, blocked)
  /\ UNCHANGED <<slot, window, task, burn, history>>

\* The compare-and-swap, won or lost; an error ends the operation.
CommitWrite(w) ==
  \E p \in write[w].target :
    /\ write[w].expected # 0
    /\ IF Commits(scope[p], write[w].expected)
       THEN /\ scope' = [scope EXCEPT ![p] = Committed(@, write[w].blocked)]
            /\ write' = [write EXCEPT ![w].expected = 0]
       ELSE write' = [write EXCEPT ![w] = NoWrite] /\ UNCHANGED scope
    /\ UNCHANGED <<slot, window, task, burn, history>>

NextWrite(w) ==
  \E p \in write[w].target :
    /\ write[w].expected = 0
    /\ Loads(w, p, write[w].session, FALSE)
    /\ UNCHANGED <<slot, window, task, burn, history>>

EndWrite(w) ==
  /\ write[w].target # {} /\ write[w].expected = 0
  /\ write' = [write EXCEPT ![w] = NoWrite]
  /\ UNCHANGED <<slot, scope, window, task, burn, history>>

\* The disk loses or damages the ciphertext of a relationship.
Lose(p) ==
  /\ losses < MaxLosses /\ losses' = losses + 1
  /\ scope[p].anchor = "live" /\ ~scope[p].lost
  /\ scope' = [scope EXCEPT ![p].lost = TRUE]
  /\ UNCHANGED <<slot, window, coroutines, deleted, unsure, born, faults>>

-----------------------------------------------------------------------------
(* The local burn: the slot enters "burning" before any relationship is      *)
(* touched, then every relationship of the persona is blocked, every one is  *)
(* destroyed, and the slot is finished.                                      *)

Begun(s) == [s EXCEPT !.status = "burning"]

Burning(session, persona) ==
  [NoBurn EXCEPT !.step = "block", !.session = session,
                 !.list = RelationshipsOf(persona), !.todo = RelationshipsOf(persona)]

CanBurn(b) ==
  /\ burn[b] = NoBurn /\ window.open /\ ~Messaging(window.session)
  /\ VaultFree /\ slot.status \in {"active", "burning"}

\* burnLocalPersona: the list is the persona in memory once the slot burns.
StartBurn(b) ==
  /\ CanBurn(b) /\ slot' = Begun(slot)
  /\ window' = [window EXCEPT !.ui = "burning"]
  /\ burn' = [burn EXCEPT ![b] = Burning(window.session, window.persona)]
  /\ UNCHANGED <<scope, task, write, history>>

\* beginBurn took effect and throws: `began` is not set, so the profile is not
\* locked and the window stays open, and looks active, over a burning slot.
BeginUnanswered(b) ==
  /\ CanBurn(b) /\ slot.status = "active"
  /\ faults < MaxFaults /\ faults' = faults + 1
  /\ slot' = Begun(slot)
  /\ UNCHANGED <<scope, window, coroutines, deleted, unsure, born, losses>>

\* unlockBurnRecovery opens a slot that burns, and adopts no session.
Recoverable(s) == s.status = "burning"

\* unlockVault on a burning slot: the list is the persona in the slot.
RecoverBurn(b) ==
  /\ burn[b] = NoBurn /\ ~window.open /\ window.ui = "burning"
  /\ VaultFree /\ Recoverable(slot)
  /\ burn' = [burn EXCEPT ![b] = Burning(0, slot.persona)] /\ unsure' = {}
  /\ UNCHANGED <<slot, scope, window, task, write, deleted, born, faults, losses>>

\* anchorRelationshipsForBurn: a tombstone or a terminal policy is passed over,
\* unreadable state throws (Refused), anything else is read to be blocked.
Block(b) ==
  \E p \in burn[b].todo :
    /\ burn[b].step = "block"
    /\ \/ /\ Terminal(scope[p]) \/ (Readable(scope[p]) /\ scope[p].blocked)
          /\ burn' = [burn EXCEPT ![b].todo = @ \ {p}]
          /\ UNCHANGED scope
       \/ /\ ~Terminal(scope[p]) /\ Readable(scope[p]) /\ ~scope[p].blocked
          /\ scope' = [scope EXCEPT ![p] = Opened(@)]
          /\ burn' = [burn EXCEPT ![b].step = "blocking", ![b].target = {p},
                                  ![b].expected = scope'[p].generation]
    /\ UNCHANGED <<slot, window, task, write, history>>

BlockCommit(b) ==
  \E p \in burn[b].target :
    /\ burn[b].step = "blocking" /\ Commits(scope[p], burn[b].expected)
    /\ scope' = [scope EXCEPT ![p] = Committed(@, TRUE)]
    /\ burn' = [burn EXCEPT ![b].step = "block", ![b].todo = @ \ {p},
                            ![b].target = {}, ![b].expected = 0]
    /\ UNCHANGED <<slot, window, task, write, history>>

AllBlocked(b) ==
  /\ burn[b].step = "block" /\ burn[b].todo = {}
  /\ burn' = [burn EXCEPT ![b].step = "destroy", ![b].todo = @ \cup burn[b].list]
  /\ UNCHANGED <<slot, scope, window, task, write, history>>

\* destroyRollbackAnchors: unreadable state is destroyed without expectation.
Destroy(b) ==
  \E p \in burn[b].todo :
    /\ burn[b].step = "destroy"
    /\ \/ /\ Terminal(scope[p])
          /\ burn' = [burn EXCEPT ![b].todo = @ \ {p}]
          /\ UNCHANGED scope
       \/ /\ ~Terminal(scope[p]) /\ scope[p].anchor # "erased"
          /\ scope' = IF scope[p].lost THEN scope ELSE [scope EXCEPT ![p] = Opened(@)]
          /\ burn' = [burn EXCEPT ![b].step = "destroying", ![b].target = {p},
                                  ![b].force = scope[p].lost,
                                  ![b].expected = scope'[p].generation]
    /\ UNCHANGED <<slot, window, task, write, history>>

Destroys(s, b) ==
  s.anchor # "erased" /\ (burn[b].force \/ s.generation = burn[b].expected)

DestroyCommit(b) ==
  \E p \in burn[b].target :
    /\ burn[b].step = "destroying" /\ Destroys(scope[p], b)
    /\ scope' = [scope EXCEPT ![p] = Erased(@)]
    /\ burn' = [burn EXCEPT ![b].step = "destroy", ![b].todo = @ \ {p},
                            ![b].target = {}, ![b].force = FALSE, ![b].expected = 0]
    /\ UNCHANGED <<slot, window, task, write, history>>

CanFinish(b) ==
  /\ burn[b].step = "destroy" /\ burn[b].todo = {} /\ VaultFree
  /\ slot.status \in {"burning", "burned"}

Burned(s) == [s EXCEPT !.status = "burned", !.persona = EmptyPersona]

\* finishBurn also locks the vault; the window still holds its repository.
FinishBurn(b) ==
  /\ CanFinish(b) /\ slot' = Burned(slot)
  /\ window' = [window EXCEPT !.vault = 0]
  /\ burn' = [burn EXCEPT ![b].step = "teardown"]
  /\ UNCHANGED <<scope, task, write, history>>

\* Best-effort route teardown is over: completeLocalBurn locks the profile.
EndBurn(b) ==
  /\ burn[b].step = "teardown"
  /\ window' = [Locked(window) EXCEPT !.ui = "burned"]
  /\ burn' = [burn EXCEPT ![b] = NoBurn]
  /\ UNCHANGED <<slot, scope, task, write, history>>

\* A step that throws whenever it is tried in this state.
Refused(b) ==
  \/ burn[b].step = "block" /\ \E p \in burn[b].todo :
       ~Terminal(scope[p]) /\ ~Readable(scope[p])
  \/ burn[b].step = "blocking" /\ \E p \in burn[b].target :
       ~Commits(scope[p], burn[b].expected)
  \/ burn[b].step = "destroy" /\ \E p \in burn[b].todo :
       ~Terminal(scope[p]) /\ scope[p].anchor = "erased"
  \/ burn[b].step = "destroying" /\ \E p \in burn[b].target : ~Destroys(scope[p], b)
  \/ /\ burn[b].step = "destroy" /\ burn[b].todo = {}
     /\ slot.status \notin {"burning", "burned"}

\* A thrown step ends the burn; only burnLocalPersona locks the profile.
Thrown(b) ==
  /\ burn' = [burn EXCEPT ![b] = NoBurn]
  /\ window' = IF burn[b].session = 0 THEN window ELSE Locked(window)
  /\ UNCHANGED <<scope, task, write, deleted, unsure, born, losses>>

Refuse(b) == Refused(b) /\ Thrown(b) /\ UNCHANGED <<slot, faults>>
Falter(b) ==
  /\ burn[b].step \notin {"off", "teardown"}
  /\ faults < MaxFaults /\ faults' = faults + 1
  /\ Thrown(b) /\ UNCHANGED slot

\* The slot is burned and finishBurn throws before it locks the vault.
FinishUnanswered(b) ==
  /\ CanFinish(b) /\ slot.status = "burning"
  /\ faults < MaxFaults /\ faults' = faults + 1
  /\ slot' = Burned(slot) /\ Thrown(b)

-----------------------------------------------------------------------------

Init ==
  /\ slot = [status |-> "empty", vault |-> 0, persona |-> EmptyPersona]
  /\ scope = [p \in Pairings |-> NoScope]
  /\ window = [ui |-> "empty", session |-> 0, open |-> FALSE, vault |-> 0,
               loaded |-> FALSE, persona |-> EmptyPersona, busy |-> {}]
  /\ task = [t \in Tasks |-> NoTask]
  /\ burn = [b \in Burns |-> NoBurn]
  /\ write = [w \in Writers |-> NoWrite]
  /\ deleted = {} /\ unsure = {} /\ born = [p \in Pairings |-> 0]
  /\ faults = 0 /\ losses = 0

Session == \/ Initialize \/ InitializeUnanswered \/ Unlock \/ Lock \/ Boot
           \/ Crash
TaskStep(t) ==
  \/ \E kind \in TaskKinds, p \in Pairings : Draft(t, kind, p)
  \/ DeleteLanes(t) \/ Save(t) \/ Install(t) \/ SaveUnanswered(t) \/ Abandon(t)
WriteStep(w) ==
  \/ \E p \in Pairings, blocked \in BOOLEAN : StartWrite(w, p, blocked)
  \/ CommitWrite(w) \/ NextWrite(w) \/ EndWrite(w)
BurnStep(b) ==
  \/ Block(b) \/ BlockCommit(b) \/ AllBlocked(b) \/ Destroy(b) \/ DestroyCommit(b)
  \/ FinishBurn(b) \/ EndBurn(b) \/ Refuse(b)

Next ==
  \/ Session
  \/ \E t \in Tasks : TaskStep(t)
  \/ \E w \in Writers : WriteStep(w)
  \/ \E b \in Burns : \/ StartBurn(b) \/ BeginUnanswered(b) \/ RecoverBurn(b)
                      \/ BurnStep(b) \/ Falter(b) \/ FinishUnanswered(b)
  \/ \E p \in Pairings : Lose(p)

Spec == Init /\ [][Next]_vars

\* Coroutines make progress (every await is bounded by a timeout), and the owner
\* of a burning vault burns again from a window that is still open over it, or
\* locks it, then reopens the application and unlocks it again and again.
Fairness ==
  /\ WF_vars(Boot)
  /\ WF_vars(slot.status = "burning" /\ (Lock \/ \E b \in Burns : StartBurn(b)))
  /\ \A t \in Tasks : WF_vars(DeleteLanes(t) \/ Save(t) \/ Install(t) \/ Abandon(t))
  /\ \A b \in Burns : WF_vars(BurnStep(b)) /\ SF_vars(RecoverBurn(b))

FairSpec == Spec /\ Fairness

-----------------------------------------------------------------------------

\* Every variable has its type, and an open window holds the persona it shows:
\* lockProfile drops the repository and the persona together.
TypeOK ==
  /\ slot \in Slots /\ scope \in [Pairings -> Scopes] /\ window \in Windows
  /\ task \in [Tasks -> TaskStates] /\ burn \in [Burns -> BurnStates]
  /\ write \in [Writers -> WriteStates]
  /\ deleted \subseteq Pairings /\ unsure \subseteq Pairings /\ born \in [Pairings -> Nat]
  /\ faults \in 0..MaxFaults /\ losses \in 0..MaxLosses
  /\ window.open => window.loaded

\* A blocked relationship stays blocked until it is erased, and an erased one
\* stays erased, also under the runtime of a session that was locked mid-way.
ScopeNeverRelapses ==
  [][\A p \in Pairings :
       /\ scope[p].anchor = "erased" => scope'[p].anchor = "erased"
       /\ scope[p].blocked => scope'[p].blocked]_vars

\* Once the slot burns, the persona it recovers from is fixed: no coroutine of
\* the burned session adds to it or drops from it.
PersonaFrozenByBurn ==
  [][slot.status \in {"burning", "burned"} /\ slot'.vault = slot.vault
       => slot'.persona = IF slot'.status = "burned" THEN EmptyPersona
                          ELSE slot.persona]_vars

\* The slot gives up its ciphertext only when every relationship it lists is a
\* tombstone.  A burn from memory does not see what a save has added to the slot
\* if that save answered with an error; a recovery, which reads the slot, does.
ErasedBeforeBurned ==
  [][slot.status = "burning" /\ slot'.status = "burned" =>
       \A p \in RelationshipsOf(slot.persona) \ unsure : scope'[p].anchor = "erased"]_vars

\* A burn that has begun is finished, through crashes and failed calls, unless the
\* ciphertext of a relationship is lost (the runtime then throws at every recovery).
BurnCompletes ==
  slot.status = "burning" ~> (slot.status = "burned" \/ \E p \in Pairings : scope[p].lost)
=============================================================================
