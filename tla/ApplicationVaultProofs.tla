----------------------- MODULE ApplicationVaultProofs -----------------------
(***************************************************************************)
(* Theorems about the application vault, for any pairings, coroutines,     *)
(* burners and bounds: type correctness, the persona a burn freezes, and   *)
(* the relationship policy and erasure that never relapse.                 *)
(***************************************************************************)
EXTENDS ApplicationVault, TLAPS

-----------------------------------------------------------------------------
(* What the helpers return. *)

LEMMA PersonaTypes ==
  /\ EmptyPersona \in Personas
  /\ \A f \in Personas : \A p \in Pairings : \A x \in Phases : [f EXCEPT ![p] = x] \in Personas
  /\ \A f \in Personas : RelationshipsOf(f) \subseteq Pairings
BY DEF EmptyPersona, Personas, Phases, RelationshipsOf

LEMMA ScopeTypes ==
  ASSUME NEW s \in Scopes
  PROVE  /\ Opened(s) \in Scopes /\ Erased(s) \in Scopes
         /\ \A blocked \in BOOLEAN : Committed(s, blocked) \in Scopes
         /\ [s EXCEPT !.lost = TRUE] \in Scopes
<1>0. s.generation + 1 \in Nat  BY DEF Scopes
<1>. DEFINE n == s.generation + 1
<1>. n \in Nat  BY <1>0
<1>. HIDE DEF n
<1>1. Opened(s) \in Scopes
  <2>1. [s EXCEPT !.anchor = "live", !.generation = 1] \in Scopes  BY DEF Scopes
  <2>2. QED  BY <2>1 DEF Opened
<1>2. Erased(s) \in Scopes
  <2>1. [s EXCEPT !.anchor = "erased", !.generation = n, !.lost = FALSE] \in Scopes
    BY DEF Scopes
  <2>2. QED  BY <2>1 DEF Erased, n
<1>3. \A blocked \in BOOLEAN : Committed(s, blocked) \in Scopes
  <2>1. \A blocked \in BOOLEAN :
          [s EXCEPT !.generation = n, !.blocked = blocked] \in Scopes
    BY DEF Scopes
  <2>2. QED  BY <2>1 DEF Committed, n
<1>4. [s EXCEPT !.lost = TRUE] \in Scopes  BY DEF Scopes
<1>5. QED  BY <1>1, <1>2, <1>3, <1>4

LEMMA WindowTypes ==
  ASSUME NEW w \in Windows, NEW s \in Slots, NEW f \in Personas
  PROVE  /\ Locked(w) \in Windows /\ Locked(w).open = FALSE
         /\ OpenSession(w, s) \in Windows /\ OpenSession(w, s).loaded = TRUE
         /\ Installed(w, f) \in Windows /\ Installed(w, f).loaded = TRUE
<1>1. Locked(w) \in Windows /\ Locked(w).open = FALSE
  BY PersonaTypes DEF Windows, Locked
<1>2. OpenSession(w, s) \in Windows /\ OpenSession(w, s).loaded = TRUE
  <2>. DEFINE n == w.session + 1
  <2>0. w.session + 1 \in Nat  BY DEF Windows
  <2>1. n \in Nat  BY <2>0
  <2>2. s.vault \in Nat /\ s.persona \in Personas  BY DEF Slots
  <2>. HIDE DEF n
  <2>3. LET u == [w EXCEPT !.ui = "active", !.session = n, !.open = TRUE,
                           !.vault = s.vault, !.loaded = TRUE, !.persona = s.persona]
        IN u \in Windows /\ u.loaded = TRUE
    BY <2>1, <2>2 DEF Windows
  <2>4. QED  BY <2>3 DEF OpenSession, n
<1>3. Installed(w, f) \in Windows /\ Installed(w, f).loaded = TRUE
  BY DEF Windows, Installed
<1>4. QED  BY <1>1, <1>2, <1>3

LEMMA CoroutineTypes ==
  /\ NoTask \in TaskStates /\ NoBurn \in BurnStates /\ NoWrite \in WriteStates
  /\ NoScope \in Scopes
BY PersonaTypes DEF NoTask, TaskStates, TaskKinds, NoBurn, BurnStates, BurnSteps,
   NoWrite, WriteStates, NoScope, Scopes

-----------------------------------------------------------------------------
(* Type correctness *)

LEMMA VaultInit == Init => TypeOK
<1>. SUFFICES ASSUME Init PROVE TypeOK
  OBVIOUS
<1>1. slot \in Slots  BY PersonaTypes DEF Init, Slots
<1>2. window \in Windows /\ window.open = FALSE  BY PersonaTypes DEF Init, Windows
<1>3. faults \in 0..MaxFaults /\ losses \in 0..MaxLosses  BY VaultAssumption DEF Init
<1>4. QED  BY <1>1, <1>2, <1>3, CoroutineTypes DEF Init, TypeOK

LEMMA SessionTypes == TypeOK /\ Session => TypeOK'
<1>. SUFFICES ASSUME TypeOK, Session PROVE TypeOK'
  OBVIOUS
<1>. USE DEF TypeOK, coroutines, history
<1>0. NextVault \in Slots
  <2>1. slot.vault + 1 \in Nat  BY DEF Slots
  <2>2. QED  BY <2>1, PersonaTypes DEF NextVault, Slots
<1>1. CASE Initialize
  <2>1. slot' \in Slots  BY <1>0, <1>1 DEF Initialize
  <2>2. window' \in Windows /\ window'.loaded = TRUE
    BY <1>1, <2>1, WindowTypes, PersonaTypes DEF Initialize
  <2>3. QED  BY <1>1, <2>1, <2>2 DEF Initialize
<1>2. CASE Unlock
  <2>1. window' \in Windows /\ window'.loaded = TRUE
    BY <1>2, WindowTypes, PersonaTypes DEF Unlock
  <2>2. QED  BY <1>2, <2>1 DEF Unlock
<1>3. CASE Lock
  <2>1. window' \in Windows /\ window'.open = FALSE
    BY <1>3, WindowTypes, PersonaTypes DEF Lock
  <2>2. QED  BY <1>3, <2>1 DEF Lock
<1>4. ASSUME window' = [Locked(window) EXCEPT !.ui = slot.status]
      PROVE  window' \in Windows /\ window'.open = FALSE
  <2>1. Locked(window) \in Windows /\ Locked(window).open = FALSE
    BY WindowTypes, PersonaTypes
  <2>2. slot.status \in {"empty", "active", "burning", "burned"}  BY DEF Slots
  <2>3. QED  BY <1>4, <2>1, <2>2 DEF Windows
<1>5. CASE Boot
  BY <1>4, <1>5 DEF Boot
<1>6. CASE Crash
  <2>1. faults' \in 0..MaxFaults  BY <1>6, VaultAssumption DEF Crash
  <2>2. QED  BY <1>4, <1>6, <2>1, CoroutineTypes DEF Crash
<1>7. CASE InitializeUnanswered
  <2>1. faults' \in 0..MaxFaults
    BY <1>7, VaultAssumption DEF InitializeUnanswered
  <2>2. QED  BY <1>0, <1>7, <2>1 DEF InitializeUnanswered
<1>8. QED  BY <1>1, <1>2, <1>3, <1>5, <1>6, <1>7 DEF Session

LEMMA ReleasedTypes ==
  ASSUME TypeOK, NEW t \in Tasks, NEW w \in Windows
  PROVE  /\ Released(t, w) \in Windows
         /\ Released(t, w).open = w.open /\ Released(t, w).loaded = w.loaded
<1>1. w.busy \ task[t].pairing \in SUBSET Pairings  BY DEF Windows
<1>2. QED  BY <1>1 DEF Released, Windows

LEMMA TaskTypes == ASSUME TypeOK, NEW t \in Tasks, TaskStep(t) PROVE TypeOK'
<1>. USE DEF TypeOK, coroutines, history
<1>. task[t] \in TaskStates  OBVIOUS
<1>1. ASSUME NEW kind \in TaskKinds, NEW p \in Pairings, Draft(t, kind, p)
      PROVE  TypeOK'
  <2>1. window.session \in Nat /\ window.vault \in Nat /\ window.persona \in Personas
    BY DEF Windows
  <2>2. Edits[kind][2] \in Phases  BY DEF TaskKinds, Edits, Phases
  <2>3. [window.persona EXCEPT ![p] = Edits[kind][2]] \in Personas
    BY <2>1, <2>2, PersonaTypes
  <2>4. [step |-> "draft", kind |-> kind, pairing |-> {p}, session |-> window.session,
         draft |-> [window.persona EXCEPT ![p] = Edits[kind][2]]] \in TaskStates
    BY <2>1, <2>3 DEF TaskStates
  <2>5. task' \in [Tasks -> TaskStates]  BY <1>1, <2>4 DEF Draft
  <2>6. born' \in [Pairings -> Nat]  BY <1>1, <2>1 DEF Draft
  <2>7. window' \in Windows /\ window'.open = window.open /\ window'.loaded = window.loaded
    <3>1. window.busy \cup {p} \in SUBSET Pairings  BY DEF Windows
    <3>2. QED  BY <1>1, <3>1 DEF Draft, Windows
  <2>8. QED  BY <1>1, <2>5, <2>6, <2>7 DEF Draft
<1>2. CASE DeleteLanes(t)
  <2>1. [task[t] EXCEPT !.step = "cleaned"] \in TaskStates  BY DEF TaskStates
  <2>2. task' \in [Tasks -> TaskStates]  BY <1>2, <2>1 DEF DeleteLanes
  <2>3. deleted' \subseteq Pairings  BY <1>2 DEF DeleteLanes, TaskStates
  <2>4. QED  BY <1>2, <2>2, <2>3 DEF DeleteLanes
<1>3. CASE Save(t)
  <2>1. [task[t] EXCEPT !.step = "saved"] \in TaskStates  BY DEF TaskStates
  <2>2. task' \in [Tasks -> TaskStates]  BY <1>3, <2>1 DEF Save
  <2>3. task[t].draft \in Personas  BY DEF TaskStates
  <2>4. slot' \in Slots  BY <1>3, <2>3 DEF Save, Slots
  <2>5. QED  BY <1>3, <2>2, <2>4 DEF Save
<1>4. CASE Install(t)
  <2>1. task[t].draft \in Personas  BY DEF TaskStates
  <2>2. /\ Installed(window, task[t].draft) \in Windows
        /\ Installed(window, task[t].draft).loaded = TRUE
    BY <2>1, WindowTypes
  <2>3. window' \in Windows /\ (window'.open => window'.loaded)
    BY <1>4, <2>2, ReleasedTypes DEF Install
  <2>4. task' \in [Tasks -> TaskStates]  BY <1>4, CoroutineTypes DEF Install
  <2>5. unsure' \subseteq Pairings  BY <1>4 DEF Install
  <2>6. QED  BY <1>4, <2>3, <2>4, <2>5 DEF Install
<1>5. CASE SaveUnanswered(t)
  <2>1. window' \in Windows /\ (window'.open => window'.loaded)
    BY <1>5, ReleasedTypes DEF SaveUnanswered
  <2>2. task' \in [Tasks -> TaskStates]  BY <1>5, CoroutineTypes DEF SaveUnanswered
  <2>3. unsure' \subseteq Pairings
    BY <1>5 DEF SaveUnanswered, RelationshipsOf
  <2>4. faults' \in 0..MaxFaults  BY <1>5, VaultAssumption DEF SaveUnanswered
  <2>5. QED  BY <1>5, <2>1, <2>2, <2>3, <2>4 DEF SaveUnanswered
<1>6. CASE Abandon(t)
  <2>1. window' \in Windows /\ (window'.open => window'.loaded)
    BY <1>6, ReleasedTypes DEF Abandon
  <2>2. task' \in [Tasks -> TaskStates]  BY <1>6, CoroutineTypes DEF Abandon
  <2>3. QED  BY <1>6, <2>1, <2>2 DEF Abandon
<1>7. QED  BY <1>1, <1>2, <1>3, <1>4, <1>5, <1>6 DEF TaskStep

LEMMA LoadTypes ==
  ASSUME TypeOK, NEW w \in Writers, NEW p \in Pairings, NEW session \in Nat,
         NEW blocked \in BOOLEAN, Loads(w, p, session, blocked)
  PROVE  scope' \in [Pairings -> Scopes] /\ write' \in [Writers -> WriteStates]
<1>. USE DEF TypeOK
<1>1. Opened(scope[p]) \in Scopes  BY ScopeTypes
<1>2. scope' \in [Pairings -> Scopes]  BY <1>1 DEF Loads
<1>3. scope'[p].generation \in Nat /\ scope[p].blocked \in BOOLEAN
  BY <1>2 DEF Scopes
<1>4. [target |-> {p}, session |-> session, expected |-> scope'[p].generation,
       blocked |-> blocked \/ scope[p].blocked] \in WriteStates
  BY <1>3 DEF WriteStates
<1>5. write' \in [Writers -> WriteStates]  BY <1>4 DEF Loads
<1>6. QED  BY <1>2, <1>5

LEMMA WriteTypes == ASSUME TypeOK, NEW w \in Writers, WriteStep(w) PROVE TypeOK'
<1>. USE DEF TypeOK, coroutines, history
<1>. write[w] \in WriteStates  OBVIOUS
<1>1. ASSUME NEW p \in Pairings, NEW blocked \in BOOLEAN, StartWrite(w, p, blocked)
      PROVE  TypeOK'
  <2>1. window.session \in Nat  BY DEF Windows
  <2>2. scope' \in [Pairings -> Scopes] /\ write' \in [Writers -> WriteStates]
    BY <1>1, <2>1, LoadTypes DEF StartWrite
  <2>3. QED  BY <1>1, <2>2 DEF StartWrite
<1>2. CASE CommitWrite(w)
  <2>1. PICK p \in write[w].target :
          /\ IF Commits(scope[p], write[w].expected)
             THEN /\ scope' = [scope EXCEPT ![p] = Committed(@, write[w].blocked)]
                  /\ write' = [write EXCEPT ![w].expected = 0]
             ELSE write' = [write EXCEPT ![w] = NoWrite] /\ UNCHANGED scope
          /\ UNCHANGED <<slot, window, task, burn, history>>
    BY <1>2 DEF CommitWrite
  <2>2. p \in Pairings /\ write[w].blocked \in BOOLEAN  BY DEF WriteStates
  <2>3. Committed(scope[p], write[w].blocked) \in Scopes  BY <2>2, ScopeTypes
  <2>4. scope' \in [Pairings -> Scopes]  BY <2>1, <2>3
  <2>5. [write[w] EXCEPT !.expected = 0] \in WriteStates  BY DEF WriteStates
  <2>6. write' \in [Writers -> WriteStates]  BY <2>1, <2>5, CoroutineTypes
  <2>7. QED  BY <2>1, <2>4, <2>6
<1>3. CASE NextWrite(w)
  <2>1. PICK p \in write[w].target :
          /\ Loads(w, p, write[w].session, FALSE)
          /\ UNCHANGED <<slot, window, task, burn, history>>
    BY <1>3 DEF NextWrite
  <2>2. p \in Pairings /\ write[w].session \in Nat  BY DEF WriteStates
  <2>3. scope' \in [Pairings -> Scopes] /\ write' \in [Writers -> WriteStates]
    BY <2>1, <2>2, LoadTypes
  <2>4. QED  BY <2>1, <2>3
<1>4. CASE EndWrite(w)
  <2>1. write' \in [Writers -> WriteStates]  BY <1>4, CoroutineTypes DEF EndWrite
  <2>2. QED  BY <1>4, <2>1 DEF EndWrite
<1>5. QED  BY <1>1, <1>2, <1>3, <1>4 DEF WriteStep

LEMMA BurningTypes ==
  ASSUME NEW session \in Nat, NEW f \in Personas
  PROVE  Burning(session, f) \in BurnStates
BY PersonaTypes DEF Burning, NoBurn, BurnStates, BurnSteps

LEMMA BurnStartTypes ==
  ASSUME TypeOK, NEW b \in Burns,
         StartBurn(b) \/ BeginUnanswered(b) \/ RecoverBurn(b)
  PROVE  TypeOK'
<1>. USE DEF TypeOK, coroutines, history
<1>1. CASE StartBurn(b)
  <2>1. slot' \in Slots  BY <1>1 DEF StartBurn, Begun, Slots
  <2>2. window' \in Windows /\ window'.open = window.open /\ window'.loaded = window.loaded
    BY <1>1 DEF StartBurn, Windows
  <2>3. window.session \in Nat /\ window.persona \in Personas  BY DEF Windows
  <2>4. burn' \in [Burns -> BurnStates]  BY <1>1, <2>3, BurningTypes DEF StartBurn
  <2>5. QED  BY <1>1, <2>1, <2>2, <2>4 DEF StartBurn
<1>2. CASE RecoverBurn(b)
  <2>1. slot.persona \in Personas  BY DEF Slots
  <2>2. burn' \in [Burns -> BurnStates]  BY <1>2, <2>1, BurningTypes DEF RecoverBurn
  <2>3. QED  BY <1>2, <2>2 DEF RecoverBurn
<1>3. CASE BeginUnanswered(b)
  <2>1. slot' \in Slots  BY <1>3 DEF BeginUnanswered, Begun, Slots
  <2>2. faults' \in 0..MaxFaults  BY <1>3, VaultAssumption DEF BeginUnanswered
  <2>3. QED  BY <1>3, <2>1, <2>2 DEF BeginUnanswered
<1>4. QED  BY <1>1, <1>2, <1>3

\* The records that a burn steps through.
LEMMA BurnRecordTypes ==
  ASSUME NEW r \in BurnStates, NEW p \in Pairings
  PROVE  /\ [r EXCEPT !.todo = @ \ {p}] \in BurnStates
         /\ \A n \in Nat : [r EXCEPT !.step = "blocking", !.target = {p},
                                     !.expected = n] \in BurnStates
         /\ [r EXCEPT !.step = "block", !.todo = @ \ {p}, !.target = {},
                      !.expected = 0] \in BurnStates
         /\ [r EXCEPT !.step = "destroy", !.todo = @ \cup r.list] \in BurnStates
         /\ \A n \in Nat, force \in BOOLEAN :
              [r EXCEPT !.step = "destroying", !.target = {p}, !.force = force,
                        !.expected = n] \in BurnStates
         /\ [r EXCEPT !.step = "destroy", !.todo = @ \ {p}, !.target = {},
                      !.force = FALSE, !.expected = 0] \in BurnStates
         /\ [r EXCEPT !.step = "teardown"] \in BurnStates
BY DEF BurnStates, BurnSteps

LEMMA ThrownTypes ==
  ASSUME TypeOK, NEW b \in Burns, Thrown(b), slot' \in Slots, faults' \in 0..MaxFaults
  PROVE  TypeOK'
<1>. USE DEF TypeOK
<1>1. Locked(window) \in Windows /\ Locked(window).open = FALSE
  BY WindowTypes, PersonaTypes
<1>2. window' \in Windows /\ (window'.open => window'.loaded)
  BY <1>1 DEF Thrown
<1>3. burn' \in [Burns -> BurnStates]  BY CoroutineTypes DEF Thrown
<1>4. QED  BY <1>2, <1>3 DEF Thrown

LEMMA BurnTypes == ASSUME TypeOK, NEW b \in Burns, BurnStep(b) PROVE TypeOK'
<1>. USE DEF TypeOK, coroutines, history
<1>. burn[b] \in BurnStates  OBVIOUS
<1>0. \A p \in burn[b].todo \cup burn[b].target : p \in Pairings  BY DEF BurnStates
<1>1. CASE Block(b)
  <2>1. PICK p \in burn[b].todo :
          /\ \/ /\ burn' = [burn EXCEPT ![b].todo = @ \ {p}]
                /\ UNCHANGED scope
             \/ /\ scope' = [scope EXCEPT ![p] = Opened(@)]
                /\ burn' = [burn EXCEPT ![b].step = "blocking", ![b].target = {p},
                                        ![b].expected = scope'[p].generation]
          /\ UNCHANGED <<slot, window, task, write, history>>
    BY <1>1 DEF Block
  <2>2. p \in Pairings  BY <1>0, <2>1
  <2>3. Opened(scope[p]) \in Scopes  BY <2>2, ScopeTypes
  <2>4. scope' \in [Pairings -> Scopes]  BY <2>1, <2>3
  <2>. DEFINE n == scope'[p].generation
  <2>5. n \in Nat  BY <2>2, <2>4 DEF Scopes
  <2>6. \/ burn' = [burn EXCEPT ![b].todo = @ \ {p}]
        \/ burn' = [burn EXCEPT ![b].step = "blocking", ![b].target = {p},
                                ![b].expected = n]
    BY <2>1
  <2>. HIDE DEF n
  <2>8. burn' \in [Burns -> BurnStates]
    <3>1. /\ [burn[b] EXCEPT !.todo = @ \ {p}] \in BurnStates
          /\ [burn[b] EXCEPT !.step = "blocking", !.target = {p},
                             !.expected = n] \in BurnStates
      BY <2>2, <2>5, BurnRecordTypes
    <3>2. QED  BY <2>6, <3>1
  <2>9. QED  BY <2>1, <2>4, <2>8
<1>2. CASE BlockCommit(b)
  <2>1. PICK p \in burn[b].target :
          /\ scope' = [scope EXCEPT ![p] = Committed(@, TRUE)]
          /\ burn' = [burn EXCEPT ![b].step = "block", ![b].todo = @ \ {p},
                                  ![b].target = {}, ![b].expected = 0]
          /\ UNCHANGED <<slot, window, task, write, history>>
    BY <1>2 DEF BlockCommit
  <2>2. p \in Pairings  BY <1>0, <2>1
  <2>3. scope' \in [Pairings -> Scopes]  BY <2>1, <2>2, ScopeTypes
  <2>4. burn' \in [Burns -> BurnStates]  BY <2>1, <2>2, BurnRecordTypes
  <2>5. QED  BY <2>1, <2>3, <2>4
<1>3. CASE AllBlocked(b)
  <2>1. [burn[b] EXCEPT !.step = "destroy", !.todo = @ \cup burn[b].list] \in BurnStates
    BY DEF BurnStates, BurnSteps
  <2>2. burn' \in [Burns -> BurnStates]  BY <1>3, <2>1 DEF AllBlocked
  <2>3. QED  BY <1>3, <2>2 DEF AllBlocked
<1>4. CASE Destroy(b)
  <2>1. PICK p \in burn[b].todo :
          /\ \/ /\ burn' = [burn EXCEPT ![b].todo = @ \ {p}]
                /\ UNCHANGED scope
             \/ /\ scope' = IF scope[p].lost THEN scope
                            ELSE [scope EXCEPT ![p] = Opened(@)]
                /\ burn' = [burn EXCEPT ![b].step = "destroying", ![b].target = {p},
                                        ![b].force = scope[p].lost,
                                        ![b].expected = scope'[p].generation]
          /\ UNCHANGED <<slot, window, task, write, history>>
    BY <1>4 DEF Destroy
  <2>2. p \in Pairings  BY <1>0, <2>1
  <2>3. Opened(scope[p]) \in Scopes  BY <2>2, ScopeTypes
  <2>4. scope' \in [Pairings -> Scopes]  BY <2>1, <2>3
  <2>5. scope'[p].generation \in Nat /\ scope[p].lost \in BOOLEAN
    BY <2>2, <2>4 DEF Scopes
  <2>. DEFINE n == scope'[p].generation
             force == scope[p].lost
  <2>6. n \in Nat /\ force \in BOOLEAN  BY <2>5
  <2>7. \/ burn' = [burn EXCEPT ![b].todo = @ \ {p}]
        \/ burn' = [burn EXCEPT ![b].step = "destroying", ![b].target = {p},
                                ![b].force = force, ![b].expected = n]
    BY <2>1
  <2>. HIDE DEF n, force
  <2>8. burn' \in [Burns -> BurnStates]
    <3>1. /\ [burn[b] EXCEPT !.todo = @ \ {p}] \in BurnStates
          /\ [burn[b] EXCEPT !.step = "destroying", !.target = {p}, !.force = force,
                             !.expected = n] \in BurnStates
      BY <2>2, <2>6, BurnRecordTypes
    <3>2. QED  BY <2>7, <3>1
  <2>9. QED  BY <2>1, <2>4, <2>8
<1>5. CASE DestroyCommit(b)
  <2>1. PICK p \in burn[b].target :
          /\ scope' = [scope EXCEPT ![p] = Erased(@)]
          /\ burn' = [burn EXCEPT ![b].step = "destroy", ![b].todo = @ \ {p},
                                  ![b].target = {}, ![b].force = FALSE, ![b].expected = 0]
          /\ UNCHANGED <<slot, window, task, write, history>>
    BY <1>5 DEF DestroyCommit
  <2>2. p \in Pairings  BY <1>0, <2>1
  <2>3. scope' \in [Pairings -> Scopes]  BY <2>1, <2>2, ScopeTypes
  <2>4. burn' \in [Burns -> BurnStates]  BY <2>1, <2>2, BurnRecordTypes
  <2>5. QED  BY <2>1, <2>3, <2>4
<1>6. CASE FinishBurn(b)
  <2>1. slot' \in Slots  BY <1>6, PersonaTypes DEF FinishBurn, Burned, Slots
  <2>2. window' \in Windows /\ window'.open = window.open /\ window'.loaded = window.loaded
    BY <1>6 DEF FinishBurn, Windows
  <2>3. [burn[b] EXCEPT !.step = "teardown"] \in BurnStates  BY DEF BurnStates, BurnSteps
  <2>4. burn' \in [Burns -> BurnStates]  BY <1>6, <2>3 DEF FinishBurn
  <2>5. QED  BY <1>6, <2>1, <2>2, <2>4 DEF FinishBurn
<1>7. CASE EndBurn(b)
  <2>1. Locked(window) \in Windows /\ Locked(window).open = FALSE
    BY WindowTypes, PersonaTypes
  <2>2. window' \in Windows /\ window'.open = FALSE  BY <1>7, <2>1 DEF EndBurn, Windows
  <2>3. burn' \in [Burns -> BurnStates]  BY <1>7, CoroutineTypes DEF EndBurn
  <2>4. QED  BY <1>7, <2>2, <2>3 DEF EndBurn
<1>8. CASE Refuse(b)
  <2>1. slot' \in Slots /\ faults' \in 0..MaxFaults  BY <1>8 DEF Refuse
  <2>2. QED  BY <1>8, <2>1, ThrownTypes DEF Refuse
<1>9. QED
  BY <1>1, <1>2, <1>3, <1>4, <1>5, <1>6, <1>7, <1>8 DEF BurnStep

\* Every step of the window, of its coroutines and of the disk keeps the types.
LEMMA VaultTypes == TypeOK /\ [Next]_vars => TypeOK'
<1>. SUFFICES ASSUME TypeOK, [Next]_vars PROVE TypeOK'
  OBVIOUS
<1>1. CASE Session  BY <1>1, SessionTypes
<1>2. CASE \E t \in Tasks : TaskStep(t)  BY <1>2, TaskTypes
<1>3. CASE \E w \in Writers : WriteStep(w)  BY <1>3, WriteTypes
<1>4. ASSUME NEW b \in Burns,
             \/ StartBurn(b) \/ BeginUnanswered(b) \/ RecoverBurn(b)
             \/ BurnStep(b) \/ Falter(b) \/ FinishUnanswered(b)
      PROVE  TypeOK'
  <2>1. CASE StartBurn(b) \/ BeginUnanswered(b) \/ RecoverBurn(b)
    BY <2>1, BurnStartTypes
  <2>2. CASE BurnStep(b)  BY <2>2, BurnTypes
  <2>3. CASE Falter(b)
    <3>1. slot' \in Slots /\ faults' \in 0..MaxFaults
      BY <2>3, VaultAssumption DEF Falter, TypeOK
    <3>2. QED  BY <2>3, <3>1, ThrownTypes DEF Falter
  <2>4. CASE FinishUnanswered(b)
    <3>1. slot' \in Slots
      BY <2>4, PersonaTypes DEF FinishUnanswered, Burned, Slots, TypeOK
    <3>2. faults' \in 0..MaxFaults
      BY <2>4, VaultAssumption DEF FinishUnanswered, TypeOK
    <3>3. QED  BY <2>4, <3>1, <3>2, ThrownTypes DEF FinishUnanswered
  <2>5. QED  BY <1>4, <2>1, <2>2, <2>3, <2>4
<1>5. ASSUME NEW p \in Pairings, Lose(p) PROVE TypeOK'
  <2>1. losses' \in 0..MaxLosses  BY <1>5, VaultAssumption DEF Lose, TypeOK
  <2>2. scope[p] \in Scopes  BY DEF TypeOK
  <2>3. [scope[p] EXCEPT !.lost = TRUE] \in Scopes  BY <2>2, ScopeTypes
  <2>4. scope' \in [Pairings -> Scopes]  BY <1>5, <2>3 DEF Lose, TypeOK
  <2>5. QED  BY <1>5, <2>1, <2>4 DEF Lose, TypeOK, coroutines
<1>6. CASE UNCHANGED vars  BY <1>6 DEF TypeOK, vars, coroutines, history
<1>7. QED  BY <1>1, <1>2, <1>3, <1>4, <1>5, <1>6 DEF Next

\* Every variable keeps its type and an open window always holds a persona, for
\* any number of pairings, coroutines, burners, crashes and losses.
THEOREM VaultTypeCorrect == Spec => []TypeOK
<1>1. Init => TypeOK  BY VaultInit
<1>2. TypeOK /\ [Next]_vars => TypeOK'  BY VaultTypes
<1>3. QED  BY <1>1, <1>2, PTL DEF Spec

-----------------------------------------------------------------------------
(* The persona of a burn *)

\* The slot moves in five ways only; a burning slot is neither saved nor replaced.
LEMMA SlotMoves ==
  ASSUME TypeOK, [Next]_vars
  PROVE  \/ UNCHANGED slot
         \/ slot'.status = "active" /\ slot'.vault = slot.vault + 1
         \/ slot.status = "active" /\ slot'.status = "active"
         \/ /\ slot.status \in {"active", "burning"}
            /\ slot'.status = "burning" /\ slot'.persona = slot.persona
         \/ slot'.status = "burned" /\ slot'.persona = EmptyPersona
<1>. USE DEF TypeOK, coroutines, history
<1>1. CASE Initialize \/ InitializeUnanswered
  BY <1>1 DEF Initialize, InitializeUnanswered, NextVault
<1>2. CASE Unlock \/ Lock \/ Boot \/ Crash
  BY <1>2 DEF Unlock, Lock, Boot, Crash
<1>3. ASSUME NEW t \in Tasks, TaskStep(t)
      PROVE  UNCHANGED slot \/ (slot.status = "active" /\ slot'.status = "active")
  <2>1. CASE Save(t)  BY <2>1 DEF Save, Savable, Slots
  <2>2. CASE \E kind \in TaskKinds, p \in Pairings : Draft(t, kind, p)
    BY <2>2 DEF Draft
  <2>3. CASE DeleteLanes(t) \/ Install(t) \/ SaveUnanswered(t) \/ Abandon(t)
    BY <2>3 DEF DeleteLanes, Install, SaveUnanswered, Abandon
  <2>4. QED  BY <1>3, <2>1, <2>2, <2>3 DEF TaskStep
<1>4. ASSUME NEW w \in Writers, WriteStep(w) PROVE UNCHANGED slot
  BY <1>4 DEF WriteStep, StartWrite, CommitWrite, NextWrite, EndWrite
<1>5. ASSUME NEW b \in Burns, StartBurn(b) \/ BeginUnanswered(b)
      PROVE  /\ slot.status \in {"active", "burning"}
             /\ slot'.status = "burning" /\ slot'.persona = slot.persona
  BY <1>5 DEF StartBurn, BeginUnanswered, CanBurn, Begun, Slots
<1>6. ASSUME NEW b \in Burns, FinishBurn(b) \/ FinishUnanswered(b)
      PROVE  slot'.status = "burned" /\ slot'.persona = EmptyPersona
  BY <1>6 DEF FinishBurn, FinishUnanswered, Burned, Slots
<1>7. ASSUME NEW b \in Burns, \/ Block(b) \/ BlockCommit(b) \/ AllBlocked(b)
                              \/ Destroy(b) \/ DestroyCommit(b)
      PROVE  UNCHANGED slot
  BY <1>7 DEF Block, BlockCommit, AllBlocked, Destroy, DestroyCommit
<1>8. ASSUME NEW b \in Burns, RecoverBurn(b) \/ EndBurn(b) \/ Refuse(b) \/ Falter(b)
      PROVE  UNCHANGED slot
  BY <1>8 DEF RecoverBurn, EndBurn, Refuse, Falter
<1>9. ASSUME NEW p \in Pairings, Lose(p) PROVE UNCHANGED slot
  BY <1>9 DEF Lose
<1>10. CASE UNCHANGED vars  BY <1>10 DEF vars
<1>11. QED
  BY <1>1, <1>2, <1>3, <1>4, <1>5, <1>6, <1>7, <1>8, <1>9, <1>10
     DEF Next, Session, BurnStep

\* A burned slot has given its persona up; PersonaFrozenByBurn rests on it.
BurnedIsEmpty == slot.status = "burned" => slot.persona = EmptyPersona

\* Between the start of a burn and the next vault no coroutine changes the list
\* of relationships that a recovered burn works from.
THEOREM BurnFreezesPersona == Spec => PersonaFrozenByBurn
<1>1. Init => BurnedIsEmpty  BY DEF Init, BurnedIsEmpty
<1>2. TypeOK /\ BurnedIsEmpty /\ [Next]_vars => BurnedIsEmpty'
  <2>. SUFFICES ASSUME TypeOK, BurnedIsEmpty, [Next]_vars PROVE BurnedIsEmpty'
    OBVIOUS
  <2>1. QED  BY SlotMoves DEF BurnedIsEmpty
<1>3. TypeOK /\ BurnedIsEmpty /\ [Next]_vars =>
        [slot.status \in {"burning", "burned"} /\ slot'.vault = slot.vault
           => slot'.persona = IF slot'.status = "burned" THEN EmptyPersona
                              ELSE slot.persona]_vars
  <2>. SUFFICES ASSUME TypeOK, BurnedIsEmpty, [Next]_vars,
                       slot.status \in {"burning", "burned"}, slot'.vault = slot.vault
                PROVE  slot'.persona = IF slot'.status = "burned" THEN EmptyPersona
                                       ELSE slot.persona
    OBVIOUS
  <2>1. slot.vault \in Nat  BY DEF TypeOK, Slots
  <2>2. slot.vault + 1 # slot.vault  BY <2>1
  <2>3. QED  BY <2>2, SlotMoves DEF BurnedIsEmpty
<1>4. QED
  BY <1>1, <1>2, <1>3, VaultTypeCorrect, PTL DEF Spec, PersonaFrozenByBurn

-----------------------------------------------------------------------------
(* The policy and the erasure of a scope *)

\* What one step may do to a scope.
Grows(s, t) ==
  /\ s.anchor = "erased" => t.anchor = "erased"
  /\ s.blocked = TRUE => t.blocked = TRUE
  /\ s.generation <= t.generation
  /\ s.generation = t.generation => s.blocked = t.blocked
  /\ t.anchor = "none" <=> t.generation = 0

Fresh(s) == s.anchor = "none" <=> s.generation = 0

LEMMA ScopeGrows ==
  ASSUME NEW s \in Scopes, Fresh(s)
  PROVE  /\ Grows(s, s) /\ Grows(s, Opened(s)) /\ Grows(s, Erased(s))
         /\ Opened(s).generation # 0
         /\ Grows(s, [s EXCEPT !.lost = TRUE])
         /\ \A blocked \in BOOLEAN, expected \in Nat \ {0} :
              Commits(s, expected) /\ (s.blocked = TRUE => blocked = TRUE)
                => Grows(s, Committed(s, blocked))
<1>0. s.generation \in Nat  BY DEF Scopes
<1>1. Grows(s, s)  BY <1>0 DEF Grows, Fresh
<1>2. Grows(s, Opened(s)) /\ Opened(s).generation # 0
  <2>1. CASE s.anchor = "none"
    <3>1. s.generation = 0  BY <2>1 DEF Fresh
    <3>2. /\ Opened(s).anchor = "live" /\ Opened(s).generation = 1
          /\ Opened(s).blocked = s.blocked
      BY <2>1 DEF Opened, Scopes
    <3>3. QED  BY <2>1, <3>1, <3>2 DEF Grows
  <2>2. CASE s.anchor # "none"  BY <1>1, <2>2 DEF Opened, Fresh
  <2>3. QED  BY <2>1, <2>2
<1>3. Grows(s, Erased(s))
  <2>1. /\ Erased(s).anchor = "erased" /\ Erased(s).generation = s.generation + 1
        /\ Erased(s).blocked = s.blocked
    BY DEF Erased, Scopes
  <2>2. QED  BY <1>0, <2>1 DEF Grows
<1>4. Grows(s, [s EXCEPT !.lost = TRUE])  BY <1>0 DEF Grows, Fresh, Scopes
<1>5. ASSUME NEW blocked \in BOOLEAN, NEW expected \in Nat \ {0},
             Commits(s, expected), s.blocked = TRUE => blocked = TRUE
      PROVE  Grows(s, Committed(s, blocked))
  <2>1. /\ Committed(s, blocked).anchor = s.anchor
        /\ Committed(s, blocked).generation = s.generation + 1
        /\ Committed(s, blocked).blocked = blocked
    BY DEF Committed, Scopes
  <2>2. s.anchor # "none"  BY <1>5 DEF Commits, Fresh
  <2>3. QED  BY <1>0, <1>5, <2>1, <2>2 DEF Grows, Commits, Readable
<1>6. QED  BY <1>1, <1>2, <1>3, <1>4, <1>5

\* An operation in flight never runs ahead of its scope, and one that could
\* still commit knows whether the relationship is blocked.
WriteKnows(w) ==
  \A p \in write[w].target :
    /\ write[w].expected <= scope[p].generation
    /\ write[w].expected # 0 /\ write[w].expected = scope[p].generation
         /\ scope[p].blocked = TRUE => write[w].blocked = TRUE

\* A burn commits only over a generation that exists.
BurnKnows(b) == burn[b].step = "blocking" => burn[b].expected # 0

ScopeInv ==
  /\ TypeOK
  /\ \A p \in Pairings : Fresh(scope[p])
  /\ \A w \in Writers : WriteKnows(w)
  /\ \A b \in Burns : BurnKnows(b)

\* A step under which every scope grows, and every operation is the one it was,
\* is over, or knows its scope, keeps the invariant.
LEMMA KnowledgeKept ==
  ASSUME ScopeInv, TypeOK', \A p \in Pairings : Grows(scope[p], scope'[p]),
         \A w \in Writers : write'[w] \in {write[w], NoWrite} \/ WriteKnows(w)',
         \A b \in Burns : BurnKnows(b)'
  PROVE  ScopeInv'
<1>1. \A p \in Pairings : Fresh(scope'[p])  BY DEF Grows, Fresh
<1>2. ASSUME NEW w \in Writers PROVE WriteKnows(w)'
  <2>1. CASE write'[w] = NoWrite
    BY <2>1 DEF NoWrite, WriteKnows
  <2>2. CASE write'[w] = write[w]
    <3>. SUFFICES ASSUME NEW p \in write[w].target
                  PROVE  /\ write[w].expected <= scope'[p].generation
                         /\ write[w].expected # 0
                              /\ write[w].expected = scope'[p].generation
                              /\ scope'[p].blocked = TRUE
                            => write[w].blocked = TRUE
      BY <2>2 DEF WriteKnows
    <3>1. p \in Pairings /\ write[w].expected \in Nat
      BY DEF ScopeInv, TypeOK, WriteStates
    <3>2. scope[p].generation \in Nat /\ scope'[p].generation \in Nat
      BY <3>1 DEF ScopeInv, TypeOK, Scopes
    <3>3. Grows(scope[p], scope'[p])  BY <3>1
    <3>4. WriteKnows(w)  BY DEF ScopeInv
    <3>5. QED  BY <3>1, <3>2, <3>3, <3>4 DEF Grows, WriteKnows
  <2>3. QED  BY <2>1, <2>2
<1>3. QED  BY <1>1, <1>2 DEF ScopeInv

LEMMA ScopesGrow ==
  ASSUME ScopeInv
  PROVE  /\ \A p \in Pairings : scope[p] \in Scopes /\ Fresh(scope[p])
         /\ \A p \in Pairings : Grows(scope[p], scope[p])
         /\ \A q \in Pairings, x \in Scopes :
              Grows(scope[q], x) =>
                \A p \in Pairings : Grows(scope[p], [scope EXCEPT ![q] = x][p])
<1>1. \A p \in Pairings : scope[p] \in Scopes /\ Fresh(scope[p])
  BY DEF ScopeInv, TypeOK
<1>2. \A p \in Pairings : Grows(scope[p], scope[p])  BY <1>1, ScopeGrows
<1>3. scope \in [Pairings -> Scopes]  BY DEF ScopeInv, TypeOK
<1>4. QED  BY <1>1, <1>2, <1>3

Growing == \A p \in Pairings : Grows(scope[p], scope'[p])

LEMMA LoadGrows ==
  ASSUME ScopeInv, TypeOK', NEW w \in Writers, NEW p \in Pairings, NEW session \in Nat,
         NEW blocked \in BOOLEAN, Loads(w, p, session, blocked), UNCHANGED burn
  PROVE  Growing /\ ScopeInv'
<1>1. Growing
  <2>1. Grows(scope[p], Opened(scope[p])) /\ Opened(scope[p]) \in Scopes
    BY ScopesGrow, ScopeGrows, ScopeTypes
  <2>2. scope' = [scope EXCEPT ![p] = Opened(scope[p])]  BY DEF Loads
  <2>3. QED  BY <2>1, <2>2, ScopesGrow DEF Growing
<1>2. WriteKnows(w)'
  <2>1. scope \in [Pairings -> Scopes] /\ write \in [Writers -> WriteStates]
    BY DEF ScopeInv, TypeOK
  <2>2. scope'[p] = Opened(scope[p])  BY <2>1 DEF Loads
  <2>3. scope[p] \in Scopes /\ Opened(scope[p]).blocked = scope[p].blocked
    BY <2>1 DEF Opened, Scopes
  <2>4. scope[p].blocked \in BOOLEAN  BY <2>3 DEF Scopes
  <2>5. /\ write'[w].target = {p} /\ write'[w].expected = scope'[p].generation
        /\ write'[w].blocked = (blocked \/ scope[p].blocked)
    BY <2>1 DEF Loads
  <2>6. scope'[p].generation \in Nat  BY DEF TypeOK, Scopes
  <2>7. QED  BY <2>2, <2>3, <2>4, <2>5, <2>6 DEF WriteKnows
<1>3. \A v \in Writers : v # w => write'[v] = write[v]
  BY DEF Loads, ScopeInv, TypeOK
<1>4. \A b \in Burns : BurnKnows(b)'  BY DEF ScopeInv, BurnKnows
<1>5. QED  BY <1>1, <1>2, <1>3, <1>4, KnowledgeKept DEF Growing

LEMMA WriteGrows ==
  ASSUME ScopeInv, TypeOK', NEW w \in Writers, WriteStep(w)
  PROVE  Growing /\ ScopeInv'
<1>. TypeOK /\ write[w] \in WriteStates /\ write \in [Writers -> WriteStates]
  BY DEF ScopeInv, TypeOK
<1>1. ASSUME NEW p \in Pairings, NEW blocked \in BOOLEAN, StartWrite(w, p, blocked)
      PROVE  Growing /\ ScopeInv'
  <2>1. window.session \in Nat  BY DEF TypeOK, Windows
  <2>2. QED  BY <1>1, <2>1, LoadGrows DEF StartWrite
<1>2. CASE CommitWrite(w)
  <2>1. PICK p \in write[w].target :
          /\ write[w].expected # 0
          /\ IF Commits(scope[p], write[w].expected)
             THEN /\ scope' = [scope EXCEPT ![p] = Committed(@, write[w].blocked)]
                  /\ write' = [write EXCEPT ![w].expected = 0]
             ELSE write' = [write EXCEPT ![w] = NoWrite] /\ UNCHANGED scope
          /\ UNCHANGED burn
    BY <1>2 DEF CommitWrite
  <2>2. /\ p \in Pairings /\ write[w].blocked \in BOOLEAN
        /\ write[w].expected \in Nat \ {0}
    BY <2>1 DEF WriteStates
  <2>3. \A b \in Burns : BurnKnows(b)'  BY <2>1 DEF ScopeInv, BurnKnows
  <2>4. CASE Commits(scope[p], write[w].expected)
    <3>1. scope[p].blocked = TRUE => write[w].blocked = TRUE
      BY <2>1, <2>4 DEF ScopeInv, WriteKnows, Commits
    <3>2. /\ Grows(scope[p], Committed(scope[p], write[w].blocked))
          /\ Committed(scope[p], write[w].blocked) \in Scopes
      BY <2>2, <2>4, <3>1, ScopesGrow, ScopeGrows, ScopeTypes
    <3>3. Growing  BY <2>1, <2>2, <2>4, <3>2, ScopesGrow DEF Growing
    <3>4. WriteKnows(w)'
      <4>0. [write[w] EXCEPT !.expected = 0].expected = 0  BY DEF WriteStates
      <4>1. write'[w].expected = 0  BY <2>1, <2>4, <4>0
      <4>2. write'[w].target \subseteq Pairings  BY DEF TypeOK, WriteStates
      <4>3. \A q \in Pairings : scope'[q].generation \in Nat  BY DEF TypeOK, Scopes
      <4>4. QED  BY <4>1, <4>2, <4>3 DEF WriteKnows
    <3>5. \A v \in Writers : v # w => write'[v] = write[v]  BY <2>1, <2>4
    <3>6. QED  BY <2>3, <3>3, <3>4, <3>5, KnowledgeKept DEF Growing
  <2>5. CASE ~Commits(scope[p], write[w].expected)
    <3>1. Growing  BY <2>1, <2>5, ScopesGrow DEF Growing
    <3>2. \A v \in Writers : write'[v] \in {write[v], NoWrite}  BY <2>1, <2>5
    <3>3. QED  BY <2>3, <3>1, <3>2, KnowledgeKept DEF Growing
  <2>6. QED  BY <2>4, <2>5
<1>3. CASE NextWrite(w)
  <2>1. PICK p \in write[w].target : Loads(w, p, write[w].session, FALSE) /\ UNCHANGED burn
    BY <1>3 DEF NextWrite
  <2>2. p \in Pairings /\ write[w].session \in Nat  BY DEF WriteStates
  <2>3. QED  BY <2>1, <2>2, LoadGrows
<1>4. CASE EndWrite(w)
  <2>1. Growing  BY <1>4, ScopesGrow DEF EndWrite, Growing
  <2>2. \A v \in Writers : write'[v] \in {write[v], NoWrite}  BY <1>4 DEF EndWrite
  <2>3. \A b \in Burns : BurnKnows(b)'  BY <1>4 DEF EndWrite, ScopeInv, BurnKnows
  <2>4. QED  BY <2>1, <2>2, <2>3, KnowledgeKept DEF Growing
<1>5. QED  BY <1>1, <1>2, <1>3, <1>4 DEF WriteStep

\* A burn's record before and after one of its steps on the scope of q.
LEMMA BurnScopeGrows ==
  ASSUME ScopeInv, TypeOK', NEW b \in Burns, NEW q \in Pairings, NEW x \in Scopes,
         Grows(scope[q], x), scope' = [scope EXCEPT ![q] = x],
         UNCHANGED write, BurnKnows(b)',
         \A c \in Burns : c # b => burn'[c] = burn[c]
  PROVE  Growing /\ ScopeInv'
<1>1. Growing  BY ScopesGrow DEF Growing
<1>2. \A c \in Burns : BurnKnows(c)'  BY DEF ScopeInv, BurnKnows
<1>3. QED  BY <1>1, <1>2, KnowledgeKept DEF Growing

LEMMA BurnStepGrows ==
  ASSUME ScopeInv, TypeOK', NEW b \in Burns, BurnStep(b)
  PROVE  Growing /\ ScopeInv'
<1>. /\ TypeOK /\ burn[b] \in BurnStates
     /\ burn \in [Burns -> BurnStates] /\ scope \in [Pairings -> Scopes]
  BY DEF ScopeInv, TypeOK
<1>0. \A p \in burn[b].todo \cup burn[b].target : p \in Pairings  BY DEF BurnStates
<1>1. ASSUME UNCHANGED <<scope, write>>, BurnKnows(b)',
             \A c \in Burns : c # b => burn'[c] = burn[c]
      PROVE  Growing /\ ScopeInv'
  <2>1. Growing  BY <1>1, ScopesGrow DEF Growing
  <2>2. \A c \in Burns : BurnKnows(c)'  BY <1>1 DEF ScopeInv, BurnKnows
  <2>3. QED  BY <1>1, <2>1, <2>2, KnowledgeKept DEF Growing
<1>2. CASE Block(b)
  <2>1. PICK p \in burn[b].todo :
          /\ burn[b].step = "block"
          /\ \/ /\ burn' = [burn EXCEPT ![b].todo = @ \ {p}]
                /\ UNCHANGED scope
             \/ /\ scope' = [scope EXCEPT ![p] = Opened(@)]
                /\ burn' = [burn EXCEPT ![b].step = "blocking", ![b].target = {p},
                                        ![b].expected = scope'[p].generation]
          /\ UNCHANGED write
    BY <1>2 DEF Block
  <2>2. p \in Pairings  BY <1>0, <2>1
  <2>3. CASE burn' = [burn EXCEPT ![b].todo = @ \ {p}] /\ UNCHANGED scope
    <3>1. burn'[b].step = "block"  BY <2>1, <2>3 DEF BurnStates
    <3>2. QED  BY <1>1, <2>1, <2>3, <3>1 DEF BurnKnows
  <2>4. CASE /\ scope' = [scope EXCEPT ![p] = Opened(@)]
             /\ burn' = [burn EXCEPT ![b].step = "blocking", ![b].target = {p},
                                     ![b].expected = scope'[p].generation]
    <3>1. /\ Grows(scope[p], Opened(scope[p])) /\ Opened(scope[p]) \in Scopes
          /\ Opened(scope[p]).generation # 0
      BY <2>2, ScopesGrow, ScopeGrows, ScopeTypes
    <3>2. scope'[p] = Opened(scope[p])  BY <2>2, <2>4
    <3>. DEFINE n == scope'[p].generation
    <3>3. n # 0  BY <3>1, <3>2
    <3>4. burn' = [burn EXCEPT ![b].step = "blocking", ![b].target = {p},
                               ![b].expected = n]
      BY <2>4
    <3>. HIDE DEF n
    <3>5. burn'[b].expected = n  BY <3>4 DEF BurnStates
    <3>6. BurnKnows(b)'  BY <3>3, <3>5 DEF BurnKnows
    <3>7. \A c \in Burns : c # b => burn'[c] = burn[c]  BY <3>4
    <3>8. QED  BY <2>1, <2>2, <2>4, <3>1, <3>6, <3>7, BurnScopeGrows
  <2>5. QED  BY <2>1, <2>3, <2>4
<1>3. CASE BlockCommit(b)
  <2>1. PICK p \in burn[b].target :
          /\ burn[b].step = "blocking" /\ Commits(scope[p], burn[b].expected)
          /\ scope' = [scope EXCEPT ![p] = Committed(@, TRUE)]
          /\ burn' = [burn EXCEPT ![b].step = "block", ![b].todo = @ \ {p},
                                  ![b].target = {}, ![b].expected = 0]
          /\ UNCHANGED write
    BY <1>3 DEF BlockCommit
  <2>2. p \in Pairings  BY <1>0, <2>1
  <2>3. burn[b].expected \in Nat \ {0}
    BY <2>1 DEF ScopeInv, BurnKnows, BurnStates
  <2>4. Grows(scope[p], Committed(scope[p], TRUE)) /\ Committed(scope[p], TRUE) \in Scopes
    BY <2>1, <2>2, <2>3, ScopesGrow, ScopeGrows, ScopeTypes
  <2>5. burn'[b].step = "block"  BY <2>1 DEF BurnStates
  <2>6. QED  BY <2>1, <2>2, <2>4, <2>5, BurnScopeGrows DEF BurnKnows
<1>4. CASE AllBlocked(b)
  <2>1. burn'[b].step = "destroy"  BY <1>4 DEF AllBlocked, BurnStates
  <2>2. QED  BY <1>1, <1>4, <2>1 DEF AllBlocked, BurnKnows
<1>5. CASE Destroy(b)
  <2>1. PICK p \in burn[b].todo :
          /\ burn[b].step = "destroy"
          /\ \/ /\ burn' = [burn EXCEPT ![b].todo = @ \ {p}]
                /\ UNCHANGED scope
             \/ /\ scope' = IF scope[p].lost THEN scope
                            ELSE [scope EXCEPT ![p] = Opened(@)]
                /\ burn' = [burn EXCEPT ![b].step = "destroying", ![b].target = {p},
                                        ![b].force = scope[p].lost,
                                        ![b].expected = scope'[p].generation]
          /\ UNCHANGED write
    BY <1>5 DEF Destroy
  <2>2. p \in Pairings  BY <1>0, <2>1
  <2>3. burn'[b].step # "blocking" /\ \A c \in Burns : c # b => burn'[c] = burn[c]
    <3>1. CASE burn' = [burn EXCEPT ![b].todo = @ \ {p}]
      BY <2>1, <3>1 DEF BurnStates
    <3>2. ASSUME NEW n, NEW force,
                 burn' = [burn EXCEPT ![b].step = "destroying", ![b].target = {p},
                                      ![b].force = force, ![b].expected = n]
          PROVE  burn'[b].step = "destroying" /\ \A c \in Burns : c # b => burn'[c] = burn[c]
      BY <3>2 DEF BurnStates
    <3>3. QED  BY <2>1, <3>1, <3>2
  <2>4. BurnKnows(b)'  BY <2>3 DEF BurnKnows
  <2>5. CASE UNCHANGED scope  BY <1>1, <2>1, <2>3, <2>4, <2>5
  <2>6. CASE scope' = [scope EXCEPT ![p] = Opened(@)]
    <3>1. Grows(scope[p], Opened(scope[p])) /\ Opened(scope[p]) \in Scopes
      BY <2>2, ScopesGrow, ScopeGrows, ScopeTypes
    <3>2. QED  BY <2>1, <2>2, <2>3, <2>4, <2>6, <3>1, BurnScopeGrows
  <2>7. QED  BY <2>1, <2>5, <2>6
<1>6. CASE DestroyCommit(b)
  <2>1. PICK p \in burn[b].target :
          /\ scope' = [scope EXCEPT ![p] = Erased(@)]
          /\ burn' = [burn EXCEPT ![b].step = "destroy", ![b].todo = @ \ {p},
                                  ![b].target = {}, ![b].force = FALSE, ![b].expected = 0]
          /\ UNCHANGED write
    BY <1>6 DEF DestroyCommit
  <2>2. p \in Pairings  BY <1>0, <2>1
  <2>3. Grows(scope[p], Erased(scope[p])) /\ Erased(scope[p]) \in Scopes
    BY <2>2, ScopesGrow, ScopeGrows, ScopeTypes
  <2>4. burn'[b].step = "destroy"  BY <2>1 DEF BurnStates
  <2>5. QED  BY <2>1, <2>2, <2>3, <2>4, BurnScopeGrows DEF BurnKnows
<1>7. CASE FinishBurn(b)
  <2>1. burn'[b].step = "teardown"  BY <1>7 DEF FinishBurn, BurnStates
  <2>2. QED  BY <1>1, <1>7, <2>1 DEF FinishBurn, BurnKnows
<1>8. CASE EndBurn(b) \/ Refuse(b)
  <2>1. burn' = [burn EXCEPT ![b] = NoBurn] /\ UNCHANGED <<scope, write>>
    BY <1>8 DEF EndBurn, Refuse, Thrown
  <2>2. burn'[b].step = "off"  BY <2>1 DEF NoBurn
  <2>3. QED  BY <1>1, <2>1, <2>2 DEF BurnKnows
<1>9. QED
  BY <1>2, <1>3, <1>4, <1>5, <1>6, <1>7, <1>8 DEF BurnStep

\* Every step lets every scope grow and keeps what its operations know.
LEMMA ScopeStep == ScopeInv /\ [Next]_vars => Growing /\ ScopeInv'
<1>. SUFFICES ASSUME ScopeInv, [Next]_vars PROVE Growing /\ ScopeInv'
  OBVIOUS
<1>0. TypeOK /\ TypeOK'  BY VaultTypes DEF ScopeInv
<1>1. ASSUME UNCHANGED scope, \A b \in Burns : BurnKnows(b)',
             \A w \in Writers : write'[w] \in {write[w], NoWrite}
      PROVE  Growing /\ ScopeInv'
  <2>1. Growing  BY <1>1, ScopesGrow DEF Growing
  <2>2. QED  BY <1>0, <1>1, <2>1, KnowledgeKept DEF Growing
<1>2. CASE \/ Initialize \/ InitializeUnanswered \/ Unlock \/ Lock \/ Boot
           \/ \E t \in Tasks : TaskStep(t)
  <2>1. UNCHANGED <<scope, burn, write>>
    BY <1>2 DEF Initialize, InitializeUnanswered, Unlock, Lock, Boot, coroutines,
                TaskStep, Draft, DeleteLanes, Save, Install, SaveUnanswered, Abandon
  <2>2. QED  BY <1>1, <2>1 DEF ScopeInv, BurnKnows
<1>3. CASE Crash
  <2>1. UNCHANGED scope /\ burn' = [b \in Burns |-> NoBurn]
        /\ write' = [w \in Writers |-> NoWrite]
    BY <1>3 DEF Crash
  <2>2. QED  BY <1>1, <2>1 DEF BurnKnows, NoBurn
<1>4. CASE \E w \in Writers : WriteStep(w)  BY <1>0, <1>4, WriteGrows
<1>5. ASSUME NEW b \in Burns,
             StartBurn(b) \/ RecoverBurn(b) \/ Falter(b) \/ FinishUnanswered(b)
      PROVE  Growing /\ ScopeInv'
  <2>1. UNCHANGED <<scope, write>>
    BY <1>5 DEF StartBurn, RecoverBurn, Falter, FinishUnanswered, Thrown
  <2>2. /\ burn'[b].step # "blocking"
        /\ \A c \in Burns : c # b => burn'[c] = burn[c]
    <3>1. \A session, f : Burning(session, f).step = "block"  BY DEF Burning, NoBurn
    <3>2. burn \in [Burns -> BurnStates] /\ NoBurn.step = "off"
      BY <1>0 DEF TypeOK, NoBurn
    <3>3. QED
      BY <1>5, <3>1, <3>2 DEF StartBurn, RecoverBurn, Falter, FinishUnanswered, Thrown
  <2>3. QED  BY <1>1, <2>1, <2>2 DEF ScopeInv, BurnKnows
<1>6. CASE \E b \in Burns : BurnStep(b)  BY <1>0, <1>6, BurnStepGrows
<1>7. ASSUME NEW q \in Pairings, Lose(q) PROVE Growing /\ ScopeInv'
  <2>1. /\ scope' = [scope EXCEPT ![q] = [scope[q] EXCEPT !.lost = TRUE]]
        /\ UNCHANGED <<burn, write>>
    BY <1>7 DEF Lose, coroutines
  <2>2. /\ Grows(scope[q], [scope[q] EXCEPT !.lost = TRUE])
        /\ [scope[q] EXCEPT !.lost = TRUE] \in Scopes
    BY ScopesGrow, ScopeGrows, ScopeTypes
  <2>3. Growing  BY <2>1, <2>2, ScopesGrow DEF Growing
  <2>4. QED  BY <1>0, <2>1, <2>3, KnowledgeKept DEF Growing, ScopeInv, BurnKnows
<1>8. CASE UNCHANGED vars
  BY <1>1, <1>8 DEF vars, coroutines, ScopeInv, BurnKnows
<1>9. ASSUME NEW b \in Burns, BeginUnanswered(b) PROVE Growing /\ ScopeInv'
  BY <1>1, <1>9 DEF BeginUnanswered, coroutines, ScopeInv, BurnKnows
<1>10. QED
  BY <1>2, <1>3, <1>4, <1>5, <1>6, <1>7, <1>8, <1>9 DEF Next, Session

\* Whatever crashes, locks, lost files, late writers and competing burns do, a
\* blocked relationship is never opened again and an erased one never returns.
THEOREM ErasureIsFinal == Spec => ScopeNeverRelapses
<1>1. Init => ScopeInv
  <2>1. Init => \A p \in Pairings : Fresh(scope[p])  BY DEF Init, NoScope, Fresh
  <2>2. Init => \A w \in Writers : WriteKnows(w)  BY DEF Init, NoWrite, WriteKnows
  <2>3. Init => \A b \in Burns : BurnKnows(b)  BY DEF Init, NoBurn, BurnKnows
  <2>4. QED  BY <2>1, <2>2, <2>3, VaultInit DEF ScopeInv
<1>2. ScopeInv /\ [Next]_vars => ScopeInv'  BY ScopeStep
<1>3. ScopeInv /\ [Next]_vars =>
        [\A p \in Pairings :
           /\ scope[p].anchor = "erased" => scope'[p].anchor = "erased"
           /\ scope[p].blocked => scope'[p].blocked]_vars
  <2>. SUFFICES ASSUME ScopeInv, [Next]_vars, NEW p \in Pairings
                PROVE  /\ scope[p].anchor = "erased" => scope'[p].anchor = "erased"
                       /\ scope[p].blocked => scope'[p].blocked
    OBVIOUS
  <2>1. Grows(scope[p], scope'[p])  BY ScopeStep DEF Growing
  <2>2. scope[p].blocked \in BOOLEAN  BY DEF ScopeInv, TypeOK, Scopes
  <2>3. QED  BY <2>1, <2>2 DEF Grows
<1>4. QED  BY <1>1, <1>2, <1>3, PTL DEF Spec, ScopeNeverRelapses

=============================================================================
