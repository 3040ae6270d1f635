--------------------------- MODULE SecurityKeyVault ---------------------------
(***************************************************************************)
(* The security keys of the application vault (client/security-keys.js and *)
(* HostAnchoredBrowserApplicationVaultV2 in client/messaging-service.js),  *)
(* the window that runs one key operation at a time (client/app.js) and    *)
(* the desktop host whose helper processes talk to the key                 *)
(* (desktop/bun/security-key-host.ts).  An operation waits for the key     *)
(* inside the vault's queue, so nothing else writes the slot meanwhile,    *)
(* but locking, cancelling, the presence monitor and the key itself do not *)
(* wait for it.  Cryptography is what it decides: a touch of a registered  *)
(* key verifies and unwraps the passphrase.                                *)
(***************************************************************************)
EXTENDS Naturals, FiniteSets

CONSTANTS Keys,      \* FIDO2 keys
          NoKey,
          MaxFaults  \* bound: helper failures and lost answers to a commit

ASSUME KeyAssumption ==
  /\ IsFiniteSet(Keys) /\ NoKey \notin Keys
  /\ MaxFaults \in Nat

VARIABLES
  slot,     \* the key fields of the active vault record
  vault,    \* memory of the vault object
  op,       \* the key operation of the window, or NoOp
  missing,  \* a running check of the lease has found its key absent
  host,     \* the presence watch of the desktop host
  plugged,  \* the keys in a USB port
  faults

vars == <<slot, vault, op, missing, host, plugged, faults>>

\* required: requireSecurityKeyPresence; hidden: hiddenUnlockMethods.
Slots == [keys: SUBSET Keys, required: BOOLEAN, hidden: BOOLEAN]

\* lease: keyPresenceLease.  unsure: since it was opened, the answer to a commit
\* of its record was lost.
Vaults == [open: BOOLEAN, lease: Keys \cup {NoKey}, unsure: BOOLEAN]
LockedVault == [open |-> FALSE, lease |-> NoKey, unsure |-> FALSE]

Kinds == {"unlock", "add", "remove", "presence", "visibility"}
\* shown: keyPresenceRequired of the window when it started the operation.
Ops == [kind: Kinds, on: BOOLEAN, victim: Keys \cup {NoKey}, shown: BOOLEAN,
        step: {"queued", "touch", "watch", "commit", "committed"},
        key: Keys \cup {NoKey}, cancelled: BOOLEAN]
NoOp == [step |-> "none"]
Busy == op # NoOp

Hosts == [key: Keys \cup {NoKey}, present: BOOLEAN, wedged: BOOLEAN]
NoWatch == [key |-> NoKey, present |-> FALSE, wedged |-> FALSE]
Watching(k) == [NoWatch EXCEPT !.key = k]

TypeOK ==
  /\ slot \in Slots /\ vault \in Vaults /\ op \in Ops \cup {NoOp}
  /\ missing \in BOOLEAN /\ host \in Hosts
  /\ plugged \subseteq Keys /\ faults \in 0..MaxFaults

Init ==
  /\ slot = [keys |-> {}, required |-> FALSE, hidden |-> FALSE]
  /\ vault = LockedVault /\ op = NoOp /\ missing = FALSE
  /\ host = NoWatch /\ plugged = {} /\ faults = 0

Fault == faults < MaxFaults /\ faults' = faults + 1

\* presenceStatus, as the authenticator's isPresent reads it.
IsPresent(k) == k # NoKey /\ host.present /\ host.key = k

\* lock(): the lease is dropped and its watch released, the generation moves on.
HostAfterLock == IF vault.lease = NoKey THEN host ELSE NoWatch
LockVault == vault' = LockedVault /\ missing' = FALSE
Cancelled == IF Busy THEN [op EXCEPT !.cancelled = TRUE] ELSE op

\* startKeyPresenceMonitor: a check of an older lease no longer counts.
Lease(k) == /\ vault' = [vault EXCEPT !.open = TRUE, !.lease = k]
            /\ missing' = FALSE

-----------------------------------------------------------------------------
(* The desktop host and the keys.                                          *)

Plug(k) ==
  /\ plugged' = IF k \in plugged THEN plugged \ {k} ELSE plugged \cup {k}
  /\ UNCHANGED <<slot, vault, op, missing, host, faults>>

\* A line of the helper: the key is there, or it has gone and the watch ends.
Report ==
  /\ host.key # NoKey /\ ~host.wedged
  /\ host' = IF host.key \in plugged THEN [host EXCEPT !.present = TRUE] ELSE NoWatch
  /\ UNCHANGED <<slot, vault, op, missing, plugged, faults>>

\* The helper exits, or stops writing.
HelperFails ==
  /\ host.key # NoKey /\ Fault
  /\ host' \in {NoWatch, [host EXCEPT !.wedged = TRUE]}
  /\ UNCHANGED <<slot, vault, op, missing, plugged>>

\* A presence that was not confirmed for a second is given up.
\* Mutant: the age of the last confirmation is not looked at.
NeverStale == FALSE /\ UNCHANGED vars
GoStale ==
  /\ host.wedged /\ host.present
  /\ host' = NoWatch
  /\ UNCHANGED <<slot, vault, op, missing, plugged, faults>>

-----------------------------------------------------------------------------
(* The vault's monitor and the window's locks.                             *)

\* checkSecurityKeyPresence asks the host, and locks when the answer is in.
Check ==
  /\ vault.lease # NoKey /\ ~missing
  /\ ~IsPresent(vault.lease)
  /\ missing' = TRUE
  /\ UNCHANGED <<slot, vault, op, host, plugged, faults>>
Disconnect ==
  /\ missing
  /\ LockVault /\ host' = HostAfterLock /\ op' = Cancelled
  /\ UNCHANGED <<slot, plugged, faults>>

\* lockProfile: the lock button, a hidden window.
Lock ==
  /\ vault.open
  /\ LockVault /\ host' = HostAfterLock /\ op' = Cancelled
  /\ UNCHANGED <<slot, plugged, faults>>
Cancel ==
  /\ Busy /\ op' = Cancelled
  /\ UNCHANGED <<slot, vault, missing, host, plugged, faults>>

\* The passphrase alone opens a vault that requires no key.
UnlockPassphrase ==
  /\ ~Busy /\ ~vault.open /\ ~slot.required
  /\ vault' = [vault EXCEPT !.open = TRUE]
  /\ UNCHANGED <<slot, op, missing, host, plugged, faults>>

-----------------------------------------------------------------------------
(* A key operation.                                                        *)

\* performSecurityKeyAction: one at a time; the requirement is read before it.
Begin(kind, on, victim) ==
  /\ ~Busy
  /\ vault.open = (kind # "unlock")
  /\ kind = "add" => ~slot.required
  /\ kind \in {"unlock", "presence"} => slot.keys # {}
  /\ (kind = "remove") = (victim # NoKey)
  /\ kind = "remove" => victim \in slot.keys
  /\ kind \notin {"presence", "visibility"} => on = FALSE
  /\ op' = [kind |-> kind, on |-> on, victim |-> victim, shown |-> slot.required,
            step |-> "queued", key |-> NoKey, cancelled |-> FALSE]
  /\ UNCHANGED <<slot, vault, missing, host, plugged, faults>>

\* The window's `finally`: without a requirement no watch is kept.
Finally(watch) == /\ op' = NoOp
                  /\ host' = IF op.shown THEN watch ELSE NoWatch
\* An operation that throws; a failed unlock locks the vault.
Fail ==
  /\ IF op.kind = "unlock"
     THEN LockVault /\ Finally(HostAfterLock)
     ELSE UNCHANGED <<vault, missing>> /\ Finally(host)
  /\ UNCHANGED <<slot, plugged, faults>>

\* A required key is not removed while it is the last one or the watched one.
MayRemove(k) ==
  /\ k \in slot.keys
  /\ slot.required =>
       /\ slot.keys # {k} /\ vault.lease # k
       /\ IsPresent(vault.lease)
MayHide(hidden) == hidden => slot.keys # {}

\* What the record loaded at the head of the queue has to allow.
Admitted ==
  /\ ~op.cancelled
  /\ vault.open = (op.kind # "unlock")
  /\ op.kind = "add" => ~slot.required
  /\ op.kind = "remove" => MayRemove(op.victim)
  /\ op.kind = "visibility" => MayHide(op.on)
NeedsKey == \/ op.kind \in {"unlock", "add", "presence"}
            \/ op.kind = "visibility" /\ slot.required

Load ==
  /\ op.step = "queued"
  /\ IF Admitted
     THEN /\ op' = [op EXCEPT !.step = IF NeedsKey THEN "touch" ELSE "commit"]
          /\ UNCHANGED <<slot, vault, missing, host, plugged, faults>>
     ELSE Fail

\* verifiedPassphraseSession: settings are changed with the passphrase only.
WrongPassphrase == op.step = "queued" /\ op.kind # "unlock" /\ Fail

\* The ceremony: a registered key is touched, or a new one registered and then
\* touched; the host drops the watch it had and starts one over this key.
Eligible == IF op.kind = "add" THEN Keys \ slot.keys ELSE slot.keys
Touch ==
  /\ op.step = "touch"
  /\ \E k \in Eligible \cap plugged :
       /\ op' = [op EXCEPT !.step = "watch", !.key = k]
       /\ host' = Watching(k)
  /\ UNCHANGED <<slot, vault, missing, plugged, faults>>
\* Nobody touches it in time, the PIN is wrong, the request is cancelled.
TouchFails == op.step = "touch" /\ Fail

\* watchPresence resolves with the first report, the end of the helper, or after
\* three seconds of silence.
\* Mutant: silence is waited out.
ReadyWhenReported == host.present \/ host.key = NoKey
Ready == host.present \/ host.key = NoKey \/ host.wedged

\* The assertion is verified; a vault that requires the key, or is about to,
\* asks the host for it.
Verified == op.kind \in {"unlock", "visibility"} => (slot.required => IsPresent(op.key))
Verify ==
  /\ op.step = "watch" /\ Ready
  /\ IF ~op.cancelled /\ Verified /\ (op.kind = "presence" => IsPresent(op.key))
     THEN /\ op' = [op EXCEPT !.step = "commit"]
          /\ UNCHANGED <<slot, vault, missing, host, plugged, faults>>
     ELSE Fail

\* The record each operation writes.
\* Mutant: the hidden option of the last key outlives it.
RemovedStaysHidden(k) == [slot EXCEPT !.keys = @ \ {k}]
Removed(k) == [slot EXCEPT !.keys = @ \ {k},
                           !.hidden = @ /\ slot.keys # {k}]
NextRecord ==
  CASE op.kind = "add"        -> [slot EXCEPT !.keys = @ \cup {op.key}]
    [] op.kind = "remove"     -> Removed(op.victim)
    [] op.kind = "presence"   -> [slot EXCEPT !.required = op.on]
    [] op.kind = "visibility" -> [slot EXCEPT !.hidden = op.on]
    [] OTHER                  -> slot

Commit ==
  /\ op.step = "commit"
  /\ slot' = NextRecord
  /\ op' = [op EXCEPT !.step = "committed"]
  /\ UNCHANGED <<vault, missing, host, plugged, faults>>
\* The host refuses the commit, or makes it and its answer is lost.
CommitFails ==
  /\ op.step = "commit" /\ Fault
  /\ slot' \in {slot, NextRecord}
  /\ IF op.kind = "unlock"
     THEN LockVault /\ Finally(HostAfterLock)
     ELSE /\ vault' = [vault EXCEPT !.unsure =
                        @ \/ (vault.open /\ op.kind = "presence")]
          /\ UNCHANGED missing /\ Finally(host)
  /\ UNCHANGED plugged

\* After the commit the key is asked for once more before it guards a session.
Confirmed == ~op.cancelled /\ IsPresent(op.key)

FinishUnlock ==
  IF op.cancelled \/ (slot.required /\ ~Confirmed) THEN Fail
  ELSE /\ Lease(IF slot.required THEN op.key ELSE NoKey)
       /\ Finally(host) /\ UNCHANGED <<slot, plugged, faults>>

\* Mutant: a key that is gone by now does not lock the vault.
FinishPresenceLeniently ==
  IF ~Confirmed THEN Fail
  ELSE /\ Lease(IF op.on THEN op.key ELSE NoKey)
       /\ Finally(IF op.on THEN host ELSE HostAfterLock)
       /\ UNCHANGED <<slot, plugged, faults>>
FinishPresence ==
  IF ~Confirmed
  THEN LockVault /\ Finally(HostAfterLock) /\ UNCHANGED <<slot, plugged, faults>>
  ELSE /\ Lease(IF op.on THEN op.key ELSE NoKey)
       /\ Finally(IF op.on THEN host ELSE HostAfterLock)
       /\ UNCHANGED <<slot, plugged, faults>>

FinishVisibility ==
  CASE op.cancelled \/ op.key = NoKey -> Fail
    [] ~op.cancelled /\ op.key # NoKey /\ ~Confirmed ->
         LockVault /\ Finally(HostAfterLock) /\ UNCHANGED <<slot, plugged, faults>>
    [] OTHER -> /\ Lease(op.key) /\ Finally(host)
                /\ UNCHANGED <<slot, plugged, faults>>

\* Registering and removing end with the commit.
Finish ==
  /\ op.step = "committed"
  /\ CASE op.kind = "unlock"     -> FinishUnlock
       [] op.kind = "presence"   -> FinishPresence
       [] op.kind = "visibility" -> FinishVisibility
       [] OTHER                  -> Fail

Operate == Load \/ WrongPassphrase \/ TouchFails \/ Verify \/ Commit \/ Finish
Next ==
  \/ \E k \in Keys : Plug(k)
  \/ Report \/ HelperFails \/ GoStale
  \/ Check \/ Disconnect \/ Lock \/ Cancel \/ UnlockPassphrase
  \/ \E kind \in Kinds, on \in BOOLEAN, victim \in Keys \cup {NoKey} :
       Begin(kind, on, victim)
  \/ Touch \/ CommitFails \/ Operate

Spec == Init /\ [][Next]_vars

\* Ceremonies and helpers have timeouts, the monitor polls, helpers report.
FairSpec ==
  /\ Spec
  /\ WF_vars(Operate) /\ WF_vars(Report) /\ WF_vars(GoStale)
  /\ WF_vars(Check) /\ WF_vars(Disconnect)

-----------------------------------------------------------------------------
(* What has to hold.                                                       *)

\* While a vault that requires a key is open, the monitor watches over one of its
\* registered keys, whatever was locked, cancelled, removed or unplugged while
\* an operation waited; the exceptions are the last step of the operation that
\* introduces the requirement and a commit whose answer was lost.
GuardedWhileOpen ==
  vault.open /\ slot.required =>
    \/ vault.lease \in slot.keys
    \/ vault.unsure
    \/ Busy /\ op.kind = "presence" /\ op.step = "committed"

\* No order of registrations, removals and settings leaves a vault that asks for
\* a key, or hides the option to use one, without any key registered.
NeverWithoutKeys == slot.required \/ slot.hidden => slot.keys # {}

\* An open session whose watched key is pulled is locked, unless the key comes
\* back first or the session is handed to another key.
PulledKeyLocks ==
  \A k \in Keys :
    vault.lease = k /\ k \notin plugged ~> vault.lease # k \/ k \in plugged

\* A key operation ends, so the vault's queue moves on, although it waits for
\* people, helpers and keys.
OperationsEnd == Busy ~> ~Busy
=============================================================================
