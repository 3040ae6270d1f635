-------------------------- MODULE KeysAndCallsProofs --------------------------
(* What a device keeps to itself.  Why a vault never asks for a key, or hides  *)
(* one, when none is registered: proved for any set of keys and any number of *)
(* faults.  And why a receiver of a call delivers no frame twice: proved for   *)
(* any window size, any number of epochs, any signals, frames and restarts.    *)
EXTENDS SecurityKeyVault, Call, TLAPS

-----------------------------------------------------------------------------
(* Security keys *)

Waiting == op.step \in {"touch", "watch", "commit"}

\* While an operation waits for the key, the record is the one it was admitted
\* on: what it found there still allows what it is about to write.
AdmittedStill ==
  /\ op.step \in {"queued", "touch", "watch", "commit", "committed", "none"}
  /\ op.step = "none" => op = NoOp
  /\ op.step = "watch" => op.key \in Keys
  /\ op.step = "commit" /\ op.kind = "add" => op.key \in Keys
  /\ op.step \in {"watch", "commit"} /\ op.kind = "presence" => slot.keys # {}
  /\ Waiting /\ op.kind = "visibility" => MayHide(op.on)
  /\ Waiting /\ op.kind = "remove" => (slot.required => slot.keys # {op.victim})

OpShape == op \in Ops \cup {NoOp}

KeyInv == slot \in Slots /\ OpShape /\ AdmittedStill /\ NeverWithoutKeys

-----------------------------------------------------------------------------
\* What an admitted operation writes leaves a key wherever one is needed.
LEMMA RecordKeepsKeys ==
  ASSUME KeyInv, op.step = "commit"
  PROVE  /\ NextRecord \in Slots
         /\ NextRecord.required \/ NextRecord.hidden => NextRecord.keys # {}
<1>0. op \in Ops /\ op.kind \in Kinds
  BY DEF KeyInv, OpShape, NoOp, Ops
<1>1. CASE op.kind = "add"
  <2>1. op.key \in Keys /\ slot \in Slots
    BY <1>1 DEF KeyInv, AdmittedStill
  <2>2. NextRecord = [slot EXCEPT !.keys = @ \cup {op.key}]
    BY <1>1 DEF NextRecord
  <2>3. /\ NextRecord.keys = slot.keys \cup {op.key} /\ NextRecord.keys \subseteq Keys
        /\ NextRecord \in Slots
    BY <2>1, <2>2 DEF Slots
  <2> QED
    BY <2>3
<1>2. CASE op.kind = "remove"
  <2>1. NextRecord = Removed(op.victim) /\ slot \in Slots
    BY <1>2 DEF NextRecord, KeyInv
  <2>2. slot.required => slot.keys # {op.victim}
    BY <1>2 DEF KeyInv, AdmittedStill, Waiting
  <2>3. /\ NextRecord \in Slots /\ NextRecord.keys = slot.keys \ {op.victim}
        /\ NextRecord.required = slot.required
        /\ NextRecord.hidden = (slot.hidden /\ slot.keys # {op.victim})
    BY <2>1 DEF Removed, Slots
  <2>4. slot.required \/ slot.hidden => slot.keys # {}
    BY DEF KeyInv, NeverWithoutKeys
  <2>5. NextRecord.required \/ NextRecord.hidden
          => slot.keys # {} /\ slot.keys # {op.victim}
    BY <2>2, <2>3, <2>4
  <2>6. slot.keys # {} /\ slot.keys # {op.victim} => slot.keys \ {op.victim} # {}
    OBVIOUS
  <2> QED
    BY <2>3, <2>5, <2>6
<1>3. CASE op.kind = "presence"
  <2>1. NextRecord = [slot EXCEPT !.required = op.on] /\ slot \in Slots /\ op.on \in BOOLEAN
    BY <1>0, <1>3 DEF NextRecord, KeyInv, Ops
  <2>2. NextRecord \in Slots /\ NextRecord.keys = slot.keys
    BY <2>1 DEF Slots
  <2>3. slot.keys # {}
    BY <1>3 DEF KeyInv, AdmittedStill
  <2> QED
    BY <2>2, <2>3
<1>4. CASE op.kind = "visibility"
  <2>1. NextRecord = [slot EXCEPT !.hidden = op.on] /\ slot \in Slots /\ op.on \in BOOLEAN
    BY <1>0, <1>4 DEF NextRecord, KeyInv, Ops
  <2>2. /\ NextRecord \in Slots /\ NextRecord.keys = slot.keys
        /\ NextRecord.required = slot.required /\ NextRecord.hidden = op.on
    BY <2>1 DEF Slots
  <2>3. op.on => slot.keys # {}
    BY <1>4 DEF KeyInv, AdmittedStill, Waiting, MayHide
  <2>4. slot.required => slot.keys # {}
    BY DEF KeyInv, NeverWithoutKeys
  <2> QED
    BY <2>2, <2>3, <2>4
<1>5. CASE op.kind = "unlock"
  <2>1. NextRecord = slot
    BY <1>5 DEF NextRecord
  <2> QED
    BY <2>1 DEF KeyInv, NeverWithoutKeys
<1> QED BY <1>0, <1>1, <1>2, <1>3, <1>4, <1>5 DEF Kinds

\* The end of an operation, failed or not, leaves the record as it is.
LEMMA FailKeeps ==
  ASSUME KeyInv, Fail
  PROVE  KeyInv'
<1>1. slot' = slot /\ op' = NoOp
  BY DEF Fail, Finally
<1> QED
  BY <1>1 DEF KeyInv, OpShape, AdmittedStill, NeverWithoutKeys, NoOp, Waiting

\* A step that ends the operation or changes neither it nor the record.
LEMMA EndKeeps ==
  ASSUME KeyInv, slot' = slot, op' = NoOp \/ op' = op
  PROVE  KeyInv'
<1>1. CASE op' = NoOp
  BY <1>1 DEF KeyInv, OpShape, AdmittedStill, NeverWithoutKeys, NoOp, Waiting
<1>2. CASE op' = op
  BY <1>2 DEF KeyInv, OpShape, AdmittedStill, NeverWithoutKeys, NoOp, Waiting, MayHide
<1> QED BY <1>1, <1>2

\* Locking and cancelling only mark the operation.
LEMMA CancelledKeeps ==
  ASSUME KeyInv, slot' = slot, op' = Cancelled
  PROVE  KeyInv'
<1>1. CASE ~Busy
  BY <1>1, EndKeeps DEF Cancelled
<1>2. CASE Busy
  <2>1. op \in Ops
    BY <1>2 DEF KeyInv, OpShape, Busy
  <2>2. op' = [op EXCEPT !.cancelled = TRUE] /\ op' \in Ops
    BY <1>2, <2>1 DEF Cancelled, Ops
  <2>3. /\ op'.step = op.step /\ op'.kind = op.kind /\ op'.on = op.on
        /\ op'.victim = op.victim /\ op'.key = op.key
    BY <2>1, <2>2 DEF Ops
  <2>4. op.step # "none"
    BY <2>1 DEF Ops
  <2> QED
    BY <2>2, <2>3, <2>4 DEF KeyInv, OpShape, AdmittedStill, NeverWithoutKeys, Waiting, MayHide
<1> QED BY <1>1, <1>2

\* The committed record, or the one before it, when the operation stops there.
LEMMA CommitKeeps ==
  ASSUME KeyInv, op.step = "commit", slot' \in {slot, NextRecord},
         op' = NoOp \/ op' = [op EXCEPT !.step = "committed"]
  PROVE  KeyInv'
<1>1. slot' \in Slots /\ NeverWithoutKeys'
  BY RecordKeepsKeys DEF KeyInv, NeverWithoutKeys
<1>2. op \in Ops
  BY DEF KeyInv, OpShape, NoOp
<1>3. OpShape' /\ op'.step \in {"none", "committed"} /\ (op'.step = "none" => op' = NoOp)
  BY <1>2 DEF OpShape, Ops, NoOp
<1> QED
  BY <1>1, <1>3 DEF KeyInv, AdmittedStill, Waiting

-----------------------------------------------------------------------------
LEMMA InitKeeps == Init => KeyInv
BY DEF Init, KeyInv, OpShape, AdmittedStill, NeverWithoutKeys, NoOp, Slots, Waiting

LEMMA StepKeeps == KeyInv /\ [Next]_vars => KeyInv'
<1> SUFFICES ASSUME KeyInv, [Next]_vars PROVE KeyInv'
  OBVIOUS
<1>1. ASSUME NEW k \in Keys, Plug(k) PROVE KeyInv'
  BY <1>1, EndKeeps DEF Plug
<1>2. CASE Report \/ HelperFails \/ GoStale \/ Check \/ UnlockPassphrase
  BY <1>2, EndKeeps DEF Report, HelperFails, GoStale, Check, UnlockPassphrase
<1>3. CASE Disconnect \/ Lock \/ Cancel
  BY <1>3, CancelledKeeps DEF Disconnect, Lock, Cancel
<1>4. ASSUME NEW kind \in Kinds, NEW on \in BOOLEAN, NEW victim \in Keys \cup {NoKey},
             Begin(kind, on, victim)
      PROVE  KeyInv'
  <2>1. op' \in Ops /\ op'.step = "queued" /\ slot' = slot
    BY <1>4 DEF Begin, Ops, KeyInv, Slots
  <2> QED
    BY <2>1 DEF KeyInv, OpShape, AdmittedStill, NeverWithoutKeys, Waiting
<1>5. CASE Load
  <2>1. CASE Admitted
    <3>1. op \in Ops
      BY <1>5 DEF Load, KeyInv, OpShape, NoOp
    <3>2. /\ slot' = slot /\ op' \in Ops /\ op'.step \in {"touch", "commit"}
          /\ op'.kind = op.kind /\ op'.on = op.on /\ op'.victim = op.victim
          /\ op'.step = "commit" => ~NeedsKey
      BY <1>5, <2>1, <3>1 DEF Load, Ops
    <3>3. op.kind = "remove" => (slot.required => slot.keys # {op.victim})
      BY <2>1 DEF Admitted, MayRemove
    <3>4. op.kind = "visibility" => MayHide(op.on)
      BY <2>1 DEF Admitted
    <3> QED
      BY <3>2, <3>3, <3>4
      DEF KeyInv, OpShape, AdmittedStill, NeverWithoutKeys, Waiting, MayHide, NeedsKey
  <2>2. CASE ~Admitted
    BY <1>5, <2>2, FailKeeps DEF Load
  <2> QED BY <2>1, <2>2
<1>6. CASE Touch
  <2>1. op \in Ops /\ op.step = "touch" /\ slot' = slot
    BY <1>6 DEF Touch, KeyInv, OpShape, NoOp
  <2>2. PICK k \in Eligible \cap plugged : op' = [op EXCEPT !.step = "watch", !.key = k]
    BY <1>6 DEF Touch
  <2>3. k \in Keys /\ (op.kind = "presence" => slot.keys # {})
    BY DEF Eligible, KeyInv, Slots
  <2>4. /\ op' \in Ops /\ op'.step = "watch" /\ op'.key = k
        /\ op'.kind = op.kind /\ op'.on = op.on /\ op'.victim = op.victim
    BY <2>1, <2>2, <2>3 DEF Ops
  <2> QED
    BY <2>1, <2>3, <2>4
    DEF KeyInv, OpShape, AdmittedStill, NeverWithoutKeys, Waiting, MayHide
<1>7. CASE TouchFails \/ WrongPassphrase
  BY <1>7, FailKeeps DEF TouchFails, WrongPassphrase
<1>8. CASE Verify
  <2>1. op \in Ops /\ op.step = "watch"
    BY <1>8 DEF Verify, KeyInv, OpShape, NoOp
  <2>2. CASE op' = [op EXCEPT !.step = "commit"] /\ slot' = slot
    <3>1. /\ op' \in Ops /\ op'.step = "commit" /\ op'.key = op.key
          /\ op'.kind = op.kind /\ op'.on = op.on /\ op'.victim = op.victim
      BY <2>1, <2>2 DEF Ops
    <3> QED
      BY <2>1, <2>2, <3>1
      DEF KeyInv, OpShape, AdmittedStill, NeverWithoutKeys, Waiting, MayHide
  <2>3. CASE Fail
    BY <2>3, FailKeeps
  <2> QED BY <1>8, <2>2, <2>3 DEF Verify
<1>9. CASE Commit
  BY <1>9, CommitKeeps DEF Commit
<1>10. CASE CommitFails
  BY <1>10, CommitKeeps DEF CommitFails, Finally
<1>11. CASE Finish
  <2>1. slot' = slot /\ op' = NoOp
    BY <1>11 DEF Finish, FinishUnlock, FinishPresence, FinishVisibility, Fail, Finally
  <2> QED BY <2>1, EndKeeps
<1>12. CASE UNCHANGED vars
  BY <1>12, EndKeeps DEF vars
<1> QED
  BY <1>1, <1>2, <1>3, <1>4, <1>5, <1>6, <1>7, <1>8, <1>9, <1>10, <1>11, <1>12
  DEF Next, Operate

\* No sequence of registrations, removals and settings, with whatever is locked,
\* cancelled or lost in between, leaves a vault that asks for a key, or hides the
\* option to use one, without a registered key.
THEOREM AlwaysAKey == Spec => []NeverWithoutKeys
<1>1. KeyInv => NeverWithoutKeys
  BY DEF KeyInv
<1> QED BY <1>1, InitKeeps, StepKeeps, PTL DEF Spec

-----------------------------------------------------------------------------
(* What an open session owes to its watch.                                  *)

VaultShape == vault \in Vaults /\ (~vault.open => vault = LockedVault)

\* A ceremony ends with a key of the record; what is removed is not the watched
\* key; a committed requirement is the one the operation asked for.
KeyIsRegistered ==
  /\ Busy /\ op.kind = "remove" => op.victim # NoKey
  /\ op.step = "queued" => op.key = NoKey
  /\ op.step \in {"touch", "watch"} => op.kind # "remove"
  /\ op.step = "watch" /\ op.kind # "add" => op.key \in slot.keys
  /\ op.step \in {"commit", "committed"} /\ op.kind \in {"unlock", "presence"}
       => op.key \in slot.keys
  /\ op.step \in {"commit", "committed"} /\ op.kind = "visibility"
       => op.key \in slot.keys \cup {NoKey}
  /\ op.step = "commit" /\ op.kind = "remove" /\ slot.required
       => vault.lease # op.victim
  /\ op.step = "committed" /\ op.kind = "presence" => slot.required = op.on

Guarded == VaultShape /\ KeyIsRegistered /\ GuardedWhileOpen
GuardInv == KeyInv /\ Guarded

LEMMA NoOpIsNone == \A o \in Ops : o # NoOp
<1>1. ASSUME NEW o \in Ops PROVE o.step # "none"
  BY DEF Ops
<1> QED BY <1>1 DEF NoOp

LEMMA OpCases == ASSUME KeyInv PROVE op = NoOp \/ (op \in Ops /\ Busy)
BY NoOpIsNone DEF KeyInv, OpShape, Busy

\* The end of an operation, unless it is one that has just set the requirement.
LEMMA EndIsGuarded ==
  ASSUME GuardInv, slot' = slot, op' = NoOp,
         \/ vault' = LockedVault
         \/ vault' = vault /\ ~(op.kind = "presence" /\ op.step = "committed")
  PROVE  Guarded'
<1>1. KeyIsRegistered'
  BY DEF KeyIsRegistered, NoOp, Busy
<1>2. CASE vault' = LockedVault
  <2>1. VaultShape' /\ ~vault'.open
    BY <1>2 DEF VaultShape, LockedVault, Vaults
  <2> QED BY <1>1, <2>1 DEF Guarded, GuardedWhileOpen
<1>3. CASE vault' = vault /\ ~(op.kind = "presence" /\ op.step = "committed")
  BY <1>1, <1>3 DEF GuardInv, Guarded, GuardedWhileOpen, VaultShape
<1> QED BY <1>2, <1>3

\* A step that locks the vault or leaves it, and leaves the operation or marks it.
LEMMA MarkIsGuarded ==
  ASSUME KeyAssumption, GuardInv, slot' = slot, op' = op \/ op' = Cancelled,
         vault' = vault \/ vault' = LockedVault
  PROVE  Guarded'
<1>1. CASE op = NoOp
  <2>1. op' = NoOp /\ op.step # "committed"
    BY <1>1 DEF Cancelled, Busy, NoOp
  <2> QED BY <2>1, EndIsGuarded
<1>2. CASE op \in Ops /\ Busy
  <2>1. /\ op' \in Ops /\ op'.step = op.step /\ op'.kind = op.kind /\ op'.on = op.on
        /\ op'.victim = op.victim /\ op'.key = op.key /\ Busy'
    <3>1. op' = op \/ op' = [op EXCEPT !.cancelled = TRUE]
      BY <1>2 DEF Cancelled
    <3>2. /\ op' \in Ops /\ op'.step = op.step /\ op'.kind = op.kind /\ op'.on = op.on
          /\ op'.victim = op.victim /\ op'.key = op.key
      BY <1>2, <3>1 DEF Ops
    <3> QED BY <3>2, NoOpIsNone DEF Busy
  <2>2. CASE vault' = vault
    BY <1>2, <2>1, <2>2
    DEF GuardInv, Guarded, GuardedWhileOpen, VaultShape, KeyIsRegistered
  <2>3. CASE vault' = LockedVault
    <3>1. VaultShape' /\ ~vault'.open /\ vault'.lease = NoKey
      BY <2>3 DEF VaultShape, LockedVault, Vaults
    <3>2. KeyIsRegistered'
      BY <1>2, <2>1, <3>1 DEF GuardInv, Guarded, KeyIsRegistered
    <3> QED BY <3>1, <3>2 DEF Guarded, GuardedWhileOpen
  <2> QED BY <2>2, <2>3
<1> QED BY <1>1, <1>2, OpCases DEF GuardInv

\* A failed operation, wherever it failed but after its requirement was set.
LEMMA FailIsGuarded ==
  ASSUME GuardInv, Fail, ~(op.kind = "presence" /\ op.step = "committed")
  PROVE  Guarded'
<1>1. slot' = slot /\ op' = NoOp /\ (vault' = vault \/ vault' = LockedVault)
  BY DEF Fail, Finally, LockVault
<1> QED BY <1>1, EndIsGuarded

\* The record is written, or not, while the operation goes on or stops.
LEMMA CommitIsGuarded ==
  ASSUME KeyAssumption, GuardInv, Commit
  PROVE  Guarded'
<1>1. /\ op \in Ops /\ op.step = "commit" /\ vault' = vault /\ slot' = NextRecord
      /\ op' = [op EXCEPT !.step = "committed"]
  BY OpCases DEF Commit, GuardInv, NoOp
<1>2. /\ op' \in Ops /\ op'.step = "committed" /\ op'.kind = op.kind /\ op'.on = op.on
      /\ op'.victim = op.victim /\ op'.key = op.key /\ Busy' /\ Busy
  BY <1>1 DEF Ops, Busy, NoOp
<1>3. slot \in Slots /\ op.kind \in Kinds
  BY <1>1 DEF GuardInv, KeyInv, Ops
<1>4. VaultShape'
  BY <1>1 DEF GuardInv, Guarded, VaultShape
<1>5. CASE op.kind = "add"
  <2>1. slot' = [slot EXCEPT !.keys = @ \cup {op.key}]
    BY <1>1, <1>5 DEF NextRecord
  <2>2. slot.keys \subseteq slot'.keys /\ slot'.required = slot.required
    BY <1>3, <2>1 DEF Slots
  <2> QED BY <1>1, <1>2, <1>4, <1>5, <2>2
          DEF GuardInv, Guarded, GuardedWhileOpen, KeyIsRegistered
<1>6. CASE op.kind = "remove"
  <2>1. slot' = Removed(op.victim)
    BY <1>1, <1>6 DEF NextRecord
  <2>2. slot'.keys = slot.keys \ {op.victim} /\ slot'.required = slot.required
    BY <1>3, <2>1 DEF Slots, Removed
  <2> QED BY <1>1, <1>2, <1>4, <1>6, <2>2
          DEF GuardInv, Guarded, GuardedWhileOpen, KeyIsRegistered
<1>7. CASE op.kind = "presence"
  <2>1. slot' = [slot EXCEPT !.required = op.on]
    BY <1>1, <1>7 DEF NextRecord
  <2>2. slot'.keys = slot.keys /\ slot'.required = op.on
    BY <1>3, <2>1 DEF Slots
  <2> QED BY <1>1, <1>2, <1>4, <1>7, <2>2
          DEF GuardInv, Guarded, GuardedWhileOpen, KeyIsRegistered
<1>8. CASE op.kind \in {"visibility", "unlock"}
  <2>1. slot' = slot \/ slot' = [slot EXCEPT !.hidden = op.on]
    BY <1>1, <1>8 DEF NextRecord
  <2>2. slot'.keys = slot.keys /\ slot'.required = slot.required
    BY <1>3, <2>1 DEF Slots
  <2> QED BY <1>1, <1>2, <1>4, <1>8, <2>2
          DEF GuardInv, Guarded, GuardedWhileOpen, KeyIsRegistered
<1> QED BY <1>3, <1>5, <1>6, <1>7, <1>8 DEF Kinds

LEMMA LostCommitIsGuarded ==
  ASSUME KeyAssumption, GuardInv, CommitFails
  PROVE  Guarded'
<1>1. op \in Ops /\ op.step = "commit" /\ op' = NoOp /\ slot' \in {slot, NextRecord}
  BY OpCases DEF CommitFails, GuardInv, NoOp, Finally
<1>2. KeyIsRegistered'
  BY <1>1 DEF KeyIsRegistered, NoOp, Busy
<1>3. CASE op.kind = "unlock"
  <2>1. vault' = LockedVault
    BY <1>3 DEF CommitFails, LockVault
  <2>2. VaultShape' /\ ~vault'.open
    BY <2>1 DEF VaultShape, LockedVault, Vaults
  <2> QED BY <1>2, <2>2 DEF Guarded, GuardedWhileOpen
<1>4. CASE op.kind # "unlock"
  <2>1. vault' = [vault EXCEPT !.unsure = @ \/ (vault.open /\ op.kind = "presence")]
    BY <1>4 DEF CommitFails
  <2>2. vault \in Vaults /\ (~vault.open => vault = LockedVault)
    BY DEF GuardInv, Guarded, VaultShape
  <2>3. /\ vault' \in Vaults /\ vault'.open = vault.open /\ vault'.lease = vault.lease
        /\ vault'.unsure = (vault.unsure \/ (vault.open /\ op.kind = "presence"))
    BY <2>1, <2>2 DEF Vaults
  <2>4. VaultShape'
    <3>1. ~vault.open => vault.lease = NoKey /\ ~vault.unsure
      BY <2>2 DEF LockedVault
    <3>2. ~vault'.open => ~vault'.unsure /\ vault'.lease = NoKey
      BY <2>3, <3>1
    <3>3. ~vault'.open => vault' = LockedVault
      BY <2>3, <3>2 DEF Vaults, LockedVault
    <3> QED BY <2>3, <3>3 DEF VaultShape
  <2>5. ASSUME slot'.required, vault.open, op.kind # "presence", ~vault.unsure
        PROVE  vault.lease \in slot'.keys
    <3>1. slot \in Slots /\ op.kind \in {"add", "remove", "visibility"}
      BY <1>1, <1>4, <2>5 DEF GuardInv, KeyInv, Ops, Kinds
    <3>2. \/ slot' = slot
          \/ op.kind = "add" /\ slot' = [slot EXCEPT !.keys = @ \cup {op.key}]
          \/ op.kind = "remove" /\ slot' = Removed(op.victim)
          \/ slot' = [slot EXCEPT !.hidden = op.on]
      BY <1>1, <3>1 DEF NextRecord
    <3>3. /\ slot'.required = slot.required
          /\ \/ slot.keys \subseteq slot'.keys
             \/ op.kind = "remove" /\ slot'.keys = slot.keys \ {op.victim}
      BY <3>1, <3>2 DEF Slots, Removed
    <3>4. vault.lease \in slot.keys
      BY <1>1, <2>5, <3>3 DEF GuardInv, Guarded, GuardedWhileOpen
    <3> QED BY <1>1, <2>5, <3>3, <3>4 DEF GuardInv, Guarded, KeyIsRegistered
  <2> QED BY <1>2, <2>3, <2>4, <2>5 DEF Guarded, GuardedWhileOpen
<1> QED BY <1>3, <1>4

\* A session that is handed a registered key, or none where none is required.
LEMMA LeaseIsGuarded ==
  ASSUME GuardInv, NEW k \in Keys \cup {NoKey}, Lease(k), slot' = slot, op' = NoOp,
         slot.required => k \in slot.keys
  PROVE  Guarded'
<1>1. vault' \in Vaults /\ vault'.open /\ vault'.lease = k
  BY DEF GuardInv, Guarded, VaultShape, Lease, Vaults
<1>2. KeyIsRegistered'
  BY DEF KeyIsRegistered, NoOp, Busy
<1> QED BY <1>1, <1>2 DEF Guarded, GuardedWhileOpen, VaultShape

LEMMA FinishIsGuarded ==
  ASSUME GuardInv, Finish
  PROVE  Guarded'
<1>1. op \in Ops /\ op.step = "committed" /\ op.kind \in Kinds /\ slot \in Slots
      /\ slot.keys \subseteq Keys
  BY OpCases DEF Finish, GuardInv, KeyInv, NoOp, Ops, Slots
<1>2. CASE op.kind = "unlock"
  <2>1. FinishUnlock
    BY <1>1, <1>2 DEF Finish
  <2>2. CASE Fail
    BY <1>2, <2>2, FailIsGuarded
  <2>3. CASE ~Fail
    <3>1. /\ Lease(IF slot.required THEN op.key ELSE NoKey)
          /\ slot' = slot /\ op' = NoOp
      BY <2>1, <2>3 DEF FinishUnlock, Finally
    <3>2. op.key \in slot.keys
      BY <1>1, <1>2 DEF GuardInv, Guarded, KeyIsRegistered
    <3> QED BY <1>1, <3>1, <3>2, LeaseIsGuarded
  <2> QED BY <2>2, <2>3
<1>3. CASE op.kind = "presence"
  <2>1. FinishPresence
    BY <1>1, <1>3 DEF Finish
  <2>2. op.key \in slot.keys /\ slot.required = op.on
    BY <1>1, <1>3 DEF GuardInv, Guarded, KeyIsRegistered
  <2>3. CASE ~Confirmed
    <3>1. vault' = LockedVault /\ slot' = slot /\ op' = NoOp
      BY <2>1, <2>3 DEF FinishPresence, LockVault, Finally
    <3> QED BY <3>1, EndIsGuarded
  <2>4. CASE Confirmed
    <3>1. Lease(IF op.on THEN op.key ELSE NoKey) /\ slot' = slot /\ op' = NoOp
      BY <2>1, <2>4 DEF FinishPresence, Finally
    <3> QED BY <1>1, <2>2, <3>1, LeaseIsGuarded
  <2> QED BY <2>3, <2>4
<1>4. CASE op.kind = "visibility"
  <2>1. FinishVisibility
    BY <1>1, <1>4 DEF Finish
  <2>2. op.key \in slot.keys \cup {NoKey}
    BY <1>1, <1>4 DEF GuardInv, Guarded, KeyIsRegistered
  <2>3. CASE op.cancelled \/ op.key = NoKey
    BY <1>4, <2>1, <2>3, FailIsGuarded DEF FinishVisibility
  <2>4. CASE ~op.cancelled /\ op.key # NoKey /\ ~Confirmed
    <3>1. vault' = LockedVault /\ slot' = slot /\ op' = NoOp
      BY <2>1, <2>4 DEF FinishVisibility, LockVault, Finally
    <3> QED BY <3>1, EndIsGuarded
  <2>5. CASE ~op.cancelled /\ op.key # NoKey /\ Confirmed
    <3>1. Lease(op.key) /\ slot' = slot /\ op' = NoOp
      BY <2>1, <2>5 DEF FinishVisibility, Finally
    <3> QED BY <1>1, <2>2, <2>5, <3>1, LeaseIsGuarded
  <2> QED BY <2>3, <2>4, <2>5
<1>5. CASE op.kind \in {"add", "remove"}
  <2>1. Fail
    BY <1>1, <1>5 DEF Finish
  <2> QED BY <1>5, <2>1, FailIsGuarded
<1> QED BY <1>1, <1>2, <1>3, <1>4, <1>5 DEF Kinds

LEMMA StepIsGuarded ==
  ASSUME KeyAssumption, GuardInv, [Next]_vars
  PROVE  Guarded'
<1>1. CASE /\ slot' = slot
           /\ op' = op \/ op' = Cancelled
           /\ vault' = vault \/ vault' = LockedVault
  BY <1>1, MarkIsGuarded
<1>2. ASSUME NEW k \in Keys, Plug(k) PROVE Guarded'
  BY <1>1, <1>2 DEF Plug
<1>3. CASE Report \/ HelperFails \/ GoStale \/ Check
  BY <1>1, <1>3 DEF Report, HelperFails, GoStale, Check
<1>4. CASE Disconnect \/ Lock \/ Cancel
  BY <1>1, <1>4 DEF Disconnect, Lock, Cancel, LockVault
<1>5. CASE UnlockPassphrase
  <2>1. /\ slot' = slot /\ op' = op /\ op = NoOp /\ ~slot.required
        /\ vault' = [vault EXCEPT !.open = TRUE]
    BY <1>5 DEF UnlockPassphrase, Busy
  <2>2. VaultShape'
    BY <2>1 DEF GuardInv, Guarded, VaultShape, Vaults
  <2>3. KeyIsRegistered'
    BY <2>1 DEF KeyIsRegistered, NoOp, Busy
  <2> QED BY <2>1, <2>2, <2>3 DEF Guarded, GuardedWhileOpen
<1>6. ASSUME NEW kind \in Kinds, NEW on \in BOOLEAN, NEW victim \in Keys \cup {NoKey},
             Begin(kind, on, victim)
      PROVE  Guarded'
  <2>1. /\ slot' = slot /\ vault' = vault /\ op = NoOp
        /\ op'.kind = kind /\ op'.victim = victim /\ op'.key = NoKey /\ op'.step = "queued"
        /\ kind = "remove" => victim # NoKey
    BY <1>6 DEF Begin, Busy
  <2>2. KeyIsRegistered'
    BY <2>1 DEF KeyIsRegistered
  <2>3. GuardedWhileOpen' /\ VaultShape'
    BY <2>1 DEF GuardInv, Guarded, GuardedWhileOpen, VaultShape, Busy
  <2> QED BY <2>2, <2>3 DEF Guarded
<1>7. CASE Load
  <2>1. op \in Ops /\ op.step = "queued" /\ Busy
    BY <1>7, OpCases DEF Load, GuardInv, NoOp
  <2>2. CASE ~Admitted
    BY <1>7, <2>1, <2>2, FailIsGuarded DEF Load
  <2>3. CASE Admitted
    <3>1. /\ slot' = slot /\ vault' = vault
          /\ op' \in Ops /\ op'.step = (IF NeedsKey THEN "touch" ELSE "commit")
          /\ op'.kind = op.kind /\ op'.victim = op.victim /\ op'.key = op.key /\ op.key = NoKey
      BY <1>7, <2>1, <2>3 DEF Load, Ops, GuardInv, Guarded, KeyIsRegistered
    <3>2. op.kind = "remove" /\ slot.required => vault.lease # op.victim
      BY <2>3 DEF Admitted, MayRemove
    <3>3. KeyIsRegistered'
      BY <2>1, <3>1, <3>2 DEF KeyIsRegistered, NeedsKey, GuardInv, Guarded
    <3> QED BY <2>1, <3>1, <3>3 DEF Guarded, GuardInv, GuardedWhileOpen, VaultShape
  <2> QED BY <2>2, <2>3
<1>8. CASE TouchFails \/ WrongPassphrase
  BY <1>8, FailIsGuarded DEF TouchFails, WrongPassphrase
<1>9. CASE Touch
  <2>1. op \in Ops /\ op.step = "touch" /\ slot' = slot /\ vault' = vault /\ Busy
    BY <1>9, OpCases DEF Touch, GuardInv, NoOp
  <2>2. PICK k \in Eligible \cap plugged : op' = [op EXCEPT !.step = "watch", !.key = k]
    BY <1>9 DEF Touch
  <2>3. op.kind # "add" => k \in slot.keys
    BY DEF Eligible
  <2>4. /\ op'.step = "watch" /\ op'.key = k
        /\ op'.kind = op.kind /\ op'.victim = op.victim
    BY <2>1, <2>2 DEF Ops
  <2>5. KeyIsRegistered'
    BY <2>1, <2>3, <2>4 DEF KeyIsRegistered, GuardInv, Guarded
  <2> QED BY <2>1, <2>4, <2>5 DEF Guarded, GuardInv, GuardedWhileOpen, VaultShape
<1>10. CASE Verify
  <2>1. op \in Ops /\ op.step = "watch" /\ Busy
    BY <1>10, OpCases DEF Verify, GuardInv, NoOp
  <2>2. CASE Fail
    BY <2>1, <2>2, FailIsGuarded
  <2>3. CASE op' = [op EXCEPT !.step = "commit"] /\ slot' = slot /\ vault' = vault
    <3>1. /\ op'.step = "commit" /\ op'.key = op.key
          /\ op'.kind = op.kind /\ op'.victim = op.victim
      BY <2>1, <2>3 DEF Ops
    <3>2. KeyIsRegistered'
      BY <2>1, <2>3, <3>1 DEF KeyIsRegistered, GuardInv, Guarded
    <3> QED BY <2>1, <2>3, <3>1, <3>2 DEF Guarded, GuardInv, GuardedWhileOpen, VaultShape
  <2> QED BY <1>10, <2>2, <2>3 DEF Verify
<1>11. CASE Commit
  BY <1>11, CommitIsGuarded
<1>12. CASE CommitFails
  BY <1>12, LostCommitIsGuarded
<1>13. CASE Finish
  BY <1>13, FinishIsGuarded
<1>14. CASE UNCHANGED vars
  BY <1>1, <1>14 DEF vars
<1> QED
  BY <1>2, <1>3, <1>4, <1>5, <1>6, <1>7, <1>8, <1>9, <1>10, <1>11, <1>12, <1>13, <1>14
  DEF Next, Operate

\* An open vault that requires a key is watched over one of its registered keys,
\* whatever was locked, cancelled, removed, pulled or lost while an operation waited
\* (requireSecurityKeyPresence, keyPresenceLease in messaging-service.js).
THEOREM OpenIsGuarded == Spec => []GuardedWhileOpen
<1>1. Init => GuardInv
  <2> SUFFICES ASSUME Init PROVE Guarded
    BY InitKeeps DEF GuardInv
  <2> QED BY DEF Init, Guarded, VaultShape, KeyIsRegistered, GuardedWhileOpen, LockedVault,
                 Vaults, NoOp, Busy
<1>2. GuardInv /\ [Next]_vars => GuardInv'
  BY KeyAssumption, StepKeeps, StepIsGuarded DEF GuardInv
<1>3. GuardInv => GuardedWhileOpen
  BY DEF GuardInv, Guarded
<1> QED BY <1>1, <1>2, <1>3, PTL DEF Spec

-----------------------------------------------------------------------------
(* Calls *)

Numbered(f) == f.epoch \in Nat /\ f.seq \in Nat

Windows == [highest : Nat, seen : SUBSET Nat]

\* Frames and senders count in naturals; a receiver keeps windows of the epochs
\* it has reached.
MediaShape(d) ==
    /\ sender[d].epoch \in Nat /\ sender[d].next \in Nat
    /\ \A f \in aired[d] : Numbered(f)
    /\ receiver[d].highest \in Nat \cup {None}
    /\ \A e \in DOMAIN receiver[d].windows : receiver[d].windows[e] \in Windows

\* A delivered frame is of an epoch the receiver has reached, and while it would
\* still open frames of that epoch the window refuses this one.  A device that
\* has no key has delivered nothing.
Refused(r, f) == InReach(r, f.epoch) => Contains(WindowOf(r, f.epoch), f.seq)
Remembered(d) ==
    /\ keys[d] = None => heard[d].once = {}
    /\ \A f \in heard[d].once :
         /\ Numbered(f)
         /\ receiver[d].highest \in Nat /\ f.epoch <= receiver[d].highest
         /\ Refused(receiver[d], f)

CallShape ==
    /\ keys = [d \in Roles |-> keys[d]]
    /\ sender = [d \in Roles |-> sender[d]]
    /\ receiver = [d \in Roles |-> receiver[d]]
    /\ aired = [d \in Roles |-> aired[d]]
    /\ heard = [d \in Roles |-> heard[d]]

CallInv ==
    /\ CallShape
    /\ \A d \in Roles : MediaShape(d) /\ Remembered(d)
    /\ DeliveredOnce

-----------------------------------------------------------------------------
\* The larger of two numbers.
LEMMA MaxOfTwo ==
  ASSUME NEW a \in Nat, NEW b \in Nat
  PROVE  /\ Max({a, b}) \in Nat
         /\ Max({a, b}) >= a /\ Max({a, b}) >= b
         /\ Max({a, b}) = a \/ Max({a, b}) = b
<1>1. \E x \in {a, b} : \A y \in {a, b} : x >= y
  <2>1. a >= b \/ b >= a
    OBVIOUS
  <2> QED BY <2>1
<1>2. Max({a, b}) \in {a, b} /\ \A y \in {a, b} : Max({a, b}) >= y
  BY <1>1 DEF Max
<1> QED BY <1>2

\* A window holds the number inserted last and forgets none it would accept.
LEMMA InsertKeeps ==
  ASSUME CallAssumption, NEW w \in Windows, NEW n \in Nat
  PROVE  /\ Insert(w, n) \in Windows
         /\ Contains(Insert(w, n), n)
         /\ \A m \in Nat : Contains(w, m) => Contains(Insert(w, n), m)
<1> DEFINE top == Max({w.highest, n})
<1>1. w.highest \in Nat /\ w.seen \subseteq Nat /\ ReplayWindowSize \in Nat
  BY DEF Windows, CallAssumption
<1>2. top \in Nat /\ top >= w.highest /\ top >= n
  BY <1>1, MaxOfTwo
<1>3. /\ Insert(w, n).highest = top
      /\ Insert(w, n).seen = {v \in w.seen : v + ReplayWindowSize > top} \cup {n}
      /\ Insert(w, n) = [highest |-> top,
                         seen |-> {v \in w.seen : v + ReplayWindowSize > top} \cup {n}]
  BY DEF Insert
<1> HIDE DEF top
<1>4. Insert(w, n) \in Windows
  BY <1>1, <1>2, <1>3 DEF Windows
<1>5. Contains(Insert(w, n), n)
  BY <1>3 DEF Contains
<1>6. ASSUME NEW m \in Nat, Contains(w, m)
      PROVE  Contains(Insert(w, n), m)
  <2>1. CASE m + ReplayWindowSize <= w.highest
    BY <1>1, <1>2, <1>3, <2>1 DEF Contains
  <2>2. CASE m \in w.seen /\ m + ReplayWindowSize > top
    BY <1>3, <2>2 DEF Contains
  <2>3. CASE m \in w.seen /\ ~(m + ReplayWindowSize > top)
    BY <1>1, <1>2, <1>3, <2>3 DEF Contains
  <2> QED BY <1>6, <2>1, <2>2, <2>3 DEF Contains
<1> QED BY <1>4, <1>5, <1>6

\* A new window refuses nothing.
LEMMA NewIsEmpty ==
  ASSUME CallAssumption
  PROVE  NewWindow \in Windows /\ \A n \in Nat : ~Contains(NewWindow, n)
BY DEF CallAssumption, NewWindow, Windows, Contains

\* The window a receiver uses for an epoch.
LEMMA WindowShape ==
  ASSUME CallAssumption, NEW r, NEW e,
         \A i \in DOMAIN r.windows : r.windows[i] \in Windows
  PROVE  WindowOf(r, e) \in Windows
BY NewIsEmpty DEF WindowOf

\* Opening a frame: it is refused from then on, and so is every frame that was
\* refused, although the windows two epochs behind are dropped.
LEMMA OpenedRefuses ==
  ASSUME CallAssumption, NEW r, NEW f, Numbered(f),
         InReach(r, f.epoch),
         r.highest \in Nat \cup {None},
         \A i \in DOMAIN r.windows : r.windows[i] \in Windows
  PROVE  LET o == Opened(r, f) IN
         /\ o.highest \in Nat /\ f.epoch <= o.highest
         /\ r.highest # None => r.highest <= o.highest
         /\ \A i \in DOMAIN o.windows : o.windows[i] \in Windows
         /\ Refused(o, f)
         /\ \A g : /\ Numbered(g) /\ Refused(r, g)
                   /\ r.highest # None /\ g.epoch <= r.highest
                 => Refused(o, g)
<1> DEFINE o == Opened(r, f)
           top == IF r.highest = None THEN f.epoch ELSE Max({r.highest, f.epoch})
           kept == {e \in DOMAIN r.windows \cup {f.epoch} : e \in {top} \cup {top - 1}}
           put == Insert(WindowOf(r, f.epoch), f.seq)
<1>1. f.epoch \in Nat /\ f.seq \in Nat /\ None \notin Nat
  BY DEF Numbered, CallAssumption
<1>2. /\ top \in Nat /\ f.epoch <= top
      /\ r.highest # None => r.highest \in Nat /\ r.highest <= top
  BY <1>1, MaxOfTwo
<1>3. f.epoch + 1 >= top
  <2>1. CASE r.highest = None
    BY <1>1, <2>1
  <2>2. CASE r.highest # None
    BY <1>1, <2>2, MaxOfTwo DEF InReach
  <2> QED BY <2>1, <2>2
<1>4. o.highest = top /\ o.windows = [e \in kept |-> IF e = f.epoch THEN put ELSE r.windows[e]]
  BY DEF Opened
<1> HIDE DEF o, top
<1>5. WindowOf(r, f.epoch) \in Windows
  BY WindowShape
<1>6. /\ put \in Windows /\ Contains(put, f.seq)
      /\ \A m \in Nat : Contains(WindowOf(r, f.epoch), m) => Contains(put, m)
  BY <1>1, <1>5, InsertKeeps
<1> HIDE DEF put
<1>7. f.epoch \in kept
  BY <1>1, <1>2, <1>3
<1>8. WindowOf(o, f.epoch) = put
  BY <1>4, <1>7 DEF WindowOf
<1>9. \A i \in DOMAIN o.windows : o.windows[i] \in Windows
  BY <1>4, <1>6
<1>10. Refused(o, f)
  BY <1>6, <1>8 DEF Refused
<1>11. ASSUME NEW g, Numbered(g), Refused(r, g), r.highest # None, g.epoch <= r.highest,
              InReach(o, g.epoch)
       PROVE  Contains(WindowOf(o, g.epoch), g.seq)
  <2>1. g.epoch \in Nat /\ g.seq \in Nat
    BY <1>11 DEF Numbered
  <2>2. g.epoch + 1 >= top /\ g.epoch <= top
    BY <1>1, <1>2, <1>4, <1>11, <2>1 DEF InReach
  <2>3. InReach(r, g.epoch)
    BY <1>2, <1>11, <2>1, <2>2 DEF InReach
  <2>4. Contains(WindowOf(r, g.epoch), g.seq)
    BY <1>11, <2>3 DEF Refused
  <2>5. CASE g.epoch = f.epoch
    BY <1>6, <1>8, <2>1, <2>4, <2>5
  <2>6. CASE g.epoch # f.epoch
    <3>1. g.epoch \in DOMAIN r.windows
      BY <2>1, <2>4, NewIsEmpty DEF WindowOf
    <3>2. g.epoch \in kept
      BY <1>2, <2>1, <2>2, <3>1
    <3>3. WindowOf(o, g.epoch) = r.windows[g.epoch] /\ WindowOf(r, g.epoch) = r.windows[g.epoch]
      BY <1>4, <2>6, <3>1, <3>2 DEF WindowOf
    <3> QED BY <2>4, <3>3
  <2> QED BY <2>5, <2>6
<1>12. \A g : /\ Numbered(g) /\ Refused(r, g)
              /\ r.highest # None /\ g.epoch <= r.highest
            => Refused(o, g)
  BY <1>11 DEF Refused
<1> QED BY <1>2, <1>4, <1>9, <1>10, <1>12 DEF o

-----------------------------------------------------------------------------
\* What a device's media depend on.
LEMMA UntouchedStays ==
  ASSUME CallInv, UNCHANGED <<keys, media>>
  PROVE  CallInv'
BY DEF CallInv, CallShape, MediaShape, Remembered, Refused, InReach, WindowOf, Contains,
       DeliveredOnce, media

\* Starting media: whoever has no key yet has delivered nothing.
LEMMA StartRemembers ==
  ASSUME CallAssumption, CallInv, NEW d \in Roles, NEW answer, StartMedia(d, answer)
  PROVE  CallInv'
<1>1. CASE keys[d] # None
  <2>1. UNCHANGED <<keys, media>>
    BY <1>1 DEF StartMedia
  <2> QED BY <2>1, UntouchedStays
<1>2. CASE keys[d] = None
  <2>1. /\ keys' = [keys EXCEPT ![d] = answer]
        /\ sender' = [sender EXCEPT ![d] = NewSender]
        /\ receiver' = [receiver EXCEPT ![d] = NewReceiver]
        /\ aired' = aired /\ heard' = heard
    BY <1>2 DEF StartMedia
  <2>2. CallShape'
    BY <2>1 DEF CallInv, CallShape
  <2>3. ASSUME NEW e \in Roles
        PROVE  MediaShape(e)' /\ Remembered(e)'
    <3>1. CASE e = d
      <4>1. /\ keys'[e] = answer /\ sender'[e] = NewSender /\ receiver'[e] = NewReceiver
            /\ aired'[e] = aired[e] /\ heard'[e] = heard[e] /\ heard[e].once = {}
        BY <1>2, <2>1, <3>1 DEF CallInv, CallShape, Remembered
      <4> QED BY <4>1 DEF CallInv, MediaShape, Remembered, NewSender, NewReceiver
    <3>2. CASE e # d
      <4>1. /\ keys'[e] = keys[e] /\ sender'[e] = sender[e] /\ receiver'[e] = receiver[e]
            /\ aired'[e] = aired[e] /\ heard'[e] = heard[e]
        BY <2>1, <3>2 DEF CallInv, CallShape
      <4> QED BY <4>1 DEF CallInv, MediaShape, Remembered
    <3> QED BY <3>1, <3>2
  <2>4. DeliveredOnce'
    BY <2>1 DEF CallInv, DeliveredOnce
  <2> QED BY <2>2, <2>3, <2>4 DEF CallInv
<1> QED BY <1>1, <1>2

\* Opening a frame: it was not delivered before.
LEMMA OpenRemembers ==
  ASSUME CallAssumption, CallInv, NEW d \in Roles, NEW f \in aired[Peer(d)], Open(d, f)
  PROVE  CallInv'
<1>1. /\ keys' = keys /\ sender' = sender /\ aired' = aired /\ keys[d] # None
      /\ receiver' = [receiver EXCEPT ![d] = Opened(@, f)]
      /\ heard' = [heard EXCEPT ![d] = [once  |-> @.once \cup {f},
                                       again |-> @.again \cup (@.once \cap {f})]]
      /\ InReach(receiver[d], f.epoch)
      /\ ~Contains(WindowOf(receiver[d], f.epoch), f.seq)
  BY DEF Open, Opens
<1>2. Peer(d) \in Roles
  BY DEF Roles, Peer
<1>3. Numbered(f)
  BY <1>2 DEF CallInv, MediaShape
<1>4. f \notin heard[d].once
  BY <1>1 DEF CallInv, Remembered, Refused
<1>5. CallShape'
  BY <1>1 DEF CallInv, CallShape
<1>6. /\ receiver'[d] = Opened(receiver[d], f)
      /\ heard'[d].once = heard[d].once \cup {f}
      /\ heard'[d].again = heard[d].again \cup (heard[d].once \cap {f})
  BY <1>1 DEF CallInv, CallShape
<1>7. ASSUME NEW e \in Roles
      PROVE  MediaShape(e)' /\ Remembered(e)' /\ heard'[e].again = {}
  <2>1. CASE e = d
    <3> DEFINE r == receiver[d]
    <3>1. /\ r.highest \in Nat \cup {None}
          /\ \A i \in DOMAIN r.windows : r.windows[i] \in Windows
      BY DEF CallInv, MediaShape
    <3>2. /\ Opened(r, f).highest \in Nat /\ f.epoch <= Opened(r, f).highest
          /\ r.highest # None => r.highest <= Opened(r, f).highest
          /\ \A i \in DOMAIN Opened(r, f).windows : Opened(r, f).windows[i] \in Windows
          /\ Refused(Opened(r, f), f)
          /\ \A g : /\ Numbered(g) /\ Refused(r, g)
                    /\ r.highest # None /\ g.epoch <= r.highest
                  => Refused(Opened(r, f), g)
      BY <1>1, <1>3, <3>1, OpenedRefuses
    <3>3. MediaShape(e)'
      BY <1>1, <1>6, <2>1, <3>2 DEF CallInv, MediaShape
    <3>4. ASSUME NEW g \in heard[d].once
          PROVE  /\ Numbered(g) /\ g.epoch <= Opened(r, f).highest
                 /\ Refused(Opened(r, f), g)
      <4>1. /\ Numbered(g) /\ r.highest \in Nat /\ g.epoch <= r.highest /\ Refused(r, g)
        BY DEF CallInv, Remembered
      <4>2. r.highest # None
        BY <4>1 DEF CallAssumption
      <4>3. g.epoch \in Nat /\ Opened(r, f).highest \in Nat
            /\ r.highest <= Opened(r, f).highest
        BY <3>2, <4>1, <4>2 DEF Numbered
      <4>4. g.epoch <= Opened(r, f).highest
        BY <4>1, <4>3
      <4> QED BY <3>2, <4>1, <4>2, <4>4
    <3>5. Remembered(e)'
      <4>1. keys'[e] # None
        BY <1>1, <2>1
      <4>2. ASSUME NEW g \in heard'[e].once
            PROVE  /\ Numbered(g)
                   /\ receiver'[e].highest \in Nat /\ g.epoch <= receiver'[e].highest
                   /\ Refused(receiver'[e], g)
        BY <1>3, <1>6, <2>1, <3>2, <3>4
      <4> QED BY <4>1, <4>2 DEF Remembered, Refused, InReach, WindowOf, Contains, Numbered
    <3>6. heard'[e].again = {}
      BY <1>4, <1>6, <2>1 DEF CallInv, DeliveredOnce
    <3> QED BY <3>3, <3>5, <3>6
  <2>2. CASE e # d
    <3>1. /\ keys'[e] = keys[e] /\ sender'[e] = sender[e] /\ receiver'[e] = receiver[e]
          /\ aired'[e] = aired[e] /\ heard'[e] = heard[e]
      BY <1>1, <2>2 DEF CallInv, CallShape
    <3> QED BY <3>1 DEF CallInv, MediaShape, Remembered, DeliveredOnce
  <2> QED BY <2>1, <2>2
<1> QED BY <1>5, <1>7 DEF CallInv, DeliveredOnce

-----------------------------------------------------------------------------
LEMMA InitiallySilent == ASSUME CallAssumption, CallInit PROVE CallInv
<1>1. CallShape
  BY DEF CallInit, CallShape
<1>2. ASSUME NEW d \in Roles
      PROVE  MediaShape(d) /\ Remembered(d) /\ heard[d].again = {}
  <2>1. /\ sender[d] = NewSender /\ receiver[d] = NewReceiver /\ aired[d] = {}
        /\ heard[d] = Silence
    BY DEF CallInit
  <2> QED BY <2>1 DEF MediaShape, Remembered, NewSender, NewReceiver, Silence
<1> QED BY <1>1, <1>2 DEF CallInv, DeliveredOnce

LEMMA StepRemembers == ASSUME CallAssumption, CallInv, [CallNext]_callVars PROVE CallInv'
<1>1. CASE UNCHANGED <<keys, media>>
  BY <1>1, UntouchedStays
<1>2. CASE Answer
  <2>1. PICK answer : StartMedia("responder", answer)
    BY <1>2 DEF Answer
  <2> QED BY <2>1, StartRemembers DEF Roles
<1>3. ASSUME NEW s \in sent, Accept(s) PROVE CallInv'
  <2>1. StartMedia("initiator", s.answer)
    BY <1>3 DEF Accept
  <2> QED BY <2>1, StartRemembers DEF Roles
<1>4. ASSUME NEW d \in Roles, Restart(d) PROVE CallInv'
  <2>1. /\ keys' = [keys EXCEPT ![d] = None]
        /\ sender' = [sender EXCEPT ![d] = NewSender]
        /\ receiver' = [receiver EXCEPT ![d] = NewReceiver]
        /\ heard' = [heard EXCEPT ![d] = Silence]
        /\ aired' = aired
    BY <1>4 DEF Restart
  <2>2. CallShape'
    BY <2>1 DEF CallInv, CallShape
  <2>3. ASSUME NEW e \in Roles
        PROVE  MediaShape(e)' /\ Remembered(e)' /\ heard'[e].again = {}
    <3>1. CASE e = d
      <4>1. /\ sender'[e] = NewSender /\ receiver'[e] = NewReceiver
            /\ aired'[e] = aired[e] /\ heard'[e] = Silence
        BY <2>1, <3>1 DEF CallInv, CallShape
      <4> QED BY <4>1 DEF CallInv, MediaShape, Remembered, NewSender, NewReceiver, Silence
    <3>2. CASE e # d
      <4>1. /\ keys'[e] = keys[e] /\ sender'[e] = sender[e] /\ receiver'[e] = receiver[e]
            /\ aired'[e] = aired[e] /\ heard'[e] = heard[e]
        BY <2>1, <3>2 DEF CallInv, CallShape
      <4> QED BY <4>1 DEF CallInv, MediaShape, Remembered, DeliveredOnce
    <3> QED BY <3>1, <3>2
  <2> QED BY <2>2, <2>3 DEF CallInv, DeliveredOnce
<1>5. ASSUME NEW d \in Roles, Seal(d) PROVE CallInv'
  <2> DEFINE f == [key |-> keys[d], epoch |-> sender[d].epoch, seq |-> sender[d].next]
  <2>1. /\ sender' = [sender EXCEPT ![d].next = @ + 1]
        /\ aired' = [aired EXCEPT ![d] = @ \cup {f}]
        /\ UNCHANGED <<keys, receiver, heard>>
    BY <1>5 DEF Seal
  <2>2. Numbered(f)
    BY DEF CallInv, MediaShape, Numbered
  <2>3. CallShape'
    BY <2>1 DEF CallInv, CallShape
  <2>4. ASSUME NEW e \in Roles PROVE MediaShape(e)'
    <3>1. /\ sender'[e].epoch = sender[e].epoch /\ sender'[e].next \in Nat
          /\ \A g \in aired'[e] : g \in aired[e] \/ g = f
      BY <2>1 DEF CallInv, CallShape, MediaShape
    <3> QED BY <2>1, <2>2, <3>1 DEF CallInv, MediaShape
  <2> QED BY <2>1, <2>3, <2>4 DEF CallInv, Remembered, DeliveredOnce
<1>6. ASSUME NEW d \in Roles, RotateEpoch(d) PROVE CallInv'
  <2>1. /\ sender' = [sender EXCEPT ![d] = [epoch |-> @.epoch + 1, next |-> 1]]
        /\ UNCHANGED <<keys, receiver, aired, heard>>
    BY <1>6 DEF RotateEpoch
  <2>2. CallShape'
    BY <2>1 DEF CallInv, CallShape
  <2>3. ASSUME NEW e \in Roles PROVE MediaShape(e)'
    <3>1. sender'[e].epoch \in Nat /\ sender'[e].next \in Nat
      BY <2>1 DEF CallInv, CallShape, MediaShape
    <3> QED BY <2>1, <3>1 DEF CallInv, MediaShape
  <2> QED BY <2>1, <2>2, <2>3 DEF CallInv, Remembered, DeliveredOnce
<1>7. ASSUME NEW d \in Roles, NEW f \in aired[Peer(d)], Open(d, f) PROVE CallInv'
  BY <1>7, OpenRemembers
<1>8. ASSUME NEW d \in Roles, Create(d) PROVE UNCHANGED <<keys, media>>
  BY <1>8 DEF Create
<1>9. ASSUME NEW d \in Roles, NEW kind, Send(d, kind) PROVE UNCHANGED <<keys, media>>
  BY <1>9 DEF Send
<1>10. ASSUME NEW d \in Roles, NEW s, Receive(d, s) PROVE UNCHANGED <<keys, media>>
  BY <1>10 DEF Receive
<1>11. Tick => UNCHANGED <<keys, media>>
  BY DEF Tick
<1>12. UNCHANGED callVars => UNCHANGED <<keys, media>>
  BY DEF callVars, media
<1> QED BY <1>1, <1>2, <1>3, <1>4, <1>5, <1>6, <1>7, <1>8, <1>9, <1>10, <1>11, <1>12 DEF CallNext

\* No receiver delivers a frame twice, for any window, however many epochs, frames
\* and restarts there are (CallMediaReceiverV1.open, call-v1.js).
THEOREM NoFrameTwice == CallSpec => []DeliveredOnce
<1>1. CallInit => CallInv
  BY CallAssumption, InitiallySilent
<1>2. CallInv /\ [CallNext]_callVars => CallInv'
  BY CallAssumption, StepRemembers
<1>3. CallInv => DeliveredOnce
  BY DEF CallInv
<1> QED BY <1>1, <1>2, <1>3, PTL DEF CallSpec
===============================================================================
