# NoctweaveJS in TLA+

Specifications of the stateful core of NoctweaveJS, checked with TLC on small
instances and proved with TLAPS where it matters most. `PROJECT.json` maps every
definition to the source lines it models and lists the runs, their mutants, the
theorems, the hazards and the components with what is left out of each.

## 1. The system

| Part | State | Operations | What must hold |
| --- | --- | --- | --- |
| Desktop relationship-state store (`desktop/bun/relationship-state-store.js`) | Keychain anchor, `state.json`, `transaction.json`, `host.lock` per scope | load, erasureStatus, commit, destroy, recovery inside each but destroy | atomic compare-and-swap over crashes, no fork, no rollback, terminal erasure |
| Application vault (`client/messaging-service.js`) | one slot: empty, active, burning, burned; encrypted persona | initialize, unlock, save, beginBurn, unlockBurnRecovery, finishBurn, lock | one persona per vault scope; a burn is one-way and ends |
| Security keys and presence (`client/messaging-service.js`, `desktop/bun/security-key-host.ts`) | registered keys, the presence requirement, hidden unlock methods; the watch of the host and its lease in the window | add, remove, require, hide, unlock with a key; the 250 ms monitor | an open vault that requires a key watches a registered one; nobody is locked out |
| Application window (`client/app.js`) | session, persona, repository, busy flags | boot, create, unlock, lock, pairing pump, message operations, burn | memory and slot agree; locked sessions leave nothing behind |
| Contact pairing (`src/contact-pairing-v2.js`, `src/rendezvous-v2.js`, `src/browser-pairing-service.js`) | pending pairing: phase, outbound frames, sequences; two lanes at the relay | invite, accept, process, acknowledge, finalize, cancel | both sides derive one relationship or none |
| Pairing lobby (`src/pairing-lobby-v1.js`, `client/app.js`) | sessions, requests, cursors of a two-minute window | announce, find, request, approve, decline, poll, stop | an invitation is taken once, no request is lost |
| Pairwise runtime (`src/durable-pairwise-messaging-v2.js`) | sessions, intents, received events, routes, local policy | prepare, resume, discard, sync, controls, policy, destroy | journal before network, exactly-once events, terminal block |
| Ratchet (`src/crypto/noctweave-native-message.js`) | chains, skipped keys | encrypt, decrypt, bootstrap | each key used once, bounded skipping |
| Opaque routes (`src/pairwise-opaque-route-v2.js`, `src/opaque-route*.js`) | receive cursor, gap, lease, relay log, ledger of proofs | sync, commit, create, renew, tear down | nothing skipped or consumed twice; the lease is one chain |
| Packet reassembly (`src/opaque-route-packet-v2.js`) | pending and completed bundles | consume, discard | bounded, duplicate-proof |
| Route maintenance (`client/messaging-service.js`) | maintenance and teardown journals | advance, resume, block | make before break |
| Calls (`src/call-v1.js`) | call state machine, media key, replay windows | offer, answer, signal, seal, open, rotate | a frame is delivered once, an end reaches both |
| Noctweb data, IndexedDB anchors, storage, relay client, groups, shell | little or none of their own | | section 7 |

The window calls the vault and, per relationship, a runtime; both persist only
through an anchor store. On the desktop that store is an RPC to the host, where
every relationship scope and the vault slot itself are instances of the same
crash-journalled store. The runtime also talks to relays. All JavaScript of one
process is single-threaded: interleavings happen at `await`, and each object
serializes its own operations with a promise queue.

Hard behaviour: crashes between durable writes; several host processes over one
directory; coroutines that outlive the session that started them; whole-persona
saves computed before an `await` and applied after it; a burn that is
interrupted, recovered and raced; calls to a relay whose answer is lost, so that
a retry repeats what was already done; signed requests that grow older than the
clock skew a relay accepts; copies of one event on several routes, read in any
order; logs, buffers and tables at their limit; a user who clicks, locks or pulls a
key while an operation waits.

## 2. Modules

A module models one component, `MC<module>` instantiates it for TLC (symmetry,
constants a configuration cannot write), `<module>Proofs` holds its theorems.

| Module | Builds on | Stands for |
| --- | --- | --- |
| `AnchoredRegister` | | the abstract promise of an anchor store |
| `RelationshipStateStore`, `-Proofs` | `AnchoredRegister` | the desktop store |
| `ApplicationVault`, `-Proofs` | commits are atomic because of the refinement above | vault slot, window, relationship scopes, burn |
| `SecurityKeyVault`, proved in `KeysAndCallsProofs` | the same | keys, presence and locks of an existing vault |
| `ContactPairing`, `-Proofs` | | one invitation and everyone who holds it |
| `PairingLobby`, `-Proofs` | hands its invitation to `ContactPairing` | the two-minute window |
| `PairwiseMessaging`, `-Proofs` | anchored saves | two runtimes, their sessions, outboxes and relay logs |
| `OpaqueRoute`, `-Proofs` | refines the fetch, the cursor and the fragments of `PairwiseMessaging` in detail | one route: log, retention, reader, buffer |
| `RouteLease`, proved in `OpaqueRouteProofs` | | creation, renewal, teardown and use of a route at the relay |
| `RouteMaintenance`, `-Proofs` | the controls of `PairwiseMessaging`, the transitions of `RouteLease`, both in coarser steps | replacing and tearing down routes |
| `Call`, proved in `KeysAndCallsProofs` | signals are messages of `PairwiseMessaging` | an experimental call |

`AnchoredRegister` is one register with an atomic compare-and-swap commit, an
atomic terminal erasure, and calls whose error answers say nothing about whether
they took effect.

`RelationshipStateStore`: a host's `pc` walks through the durable steps of an
operation: take `host.lock` exclusively (`Start`), recover an interrupted
transaction (`Recover`, `RedoCommit`, `RedoDestroy`, `DropJournal`), read and
compare (`Load`, `ErasureStatus`, `PrepareCommit`, `PrepareDestroy`), then
`WriteJournal`, `StoreAnchor` (the commit point), `WriteState`, `ClearJournal`, and
`Release`. Each durable write may fail before or after it takes effect (`IOError`,
`ThenOrThrow`), a lock may leak (`LeakLock`, `ReleaseFails`), a host may die anywhere
(`Crash`) leaving its lock to an operator (`OperatorCleanup`), and the two files,
never the Keychain, may be replaced by older copies (`TakeBackup`,
`RestoreBackup`). `seen` is the anchor the runtime of that host last learned, so
every commit is one a runtime could really send. A record stands for a ciphertext
together with both its digests. The refusal of an operation that finds the lock
taken changes nothing and has no step.

`ApplicationVault`: `slot` is the vault record and `scope[p]` the anchored state of
relationship `p`. `window` is memory: a session number stands for the identity of
`state.messaging`, which every session check compares. `task` holds the coroutines
that replace the persona (draft a clone, delete rendezvous lanes, save, install in
memory), `write` the relationship operations with their load and commit, `burn`
the burn coroutines. `lockProfile` clears the window and none of the coroutines. A
vault operation that has committed but not yet answered keeps the vault's queue
(`VaultFree`), which is why an unlock waits for a save. A slot commit may also take
effect and answer with an error, as `AnchoredRegister` allows: `InitializeUnanswered`,
`SaveUnanswered`, `BeginUnanswered` and `FinishUnanswered` are what the window then
does, which holds the old persona, or no session, or an active session over a burning
slot. `unsure` remembers the relationships that such a save has listed in the slot and
not in memory. The second `beginBurn`,
inside `executeAnchoredBrowserLocalBurnV2`, finds the slot burning and is part of
`StartBurn`; a lock during the first has the same effect as `Falter` in the next
step.

`SecurityKeyVault`: `slot` holds the registered keys and policies, `vault` and `op`
the window and the operation it runs, `watch` the host's continuous-presence
session, `plugged` the hardware. Every ceremony is `Begin`, `Load` (the record read
inside the vault's queue), `Touch`, `Ready`, `Verify`, `Commit` and one of the
`Finish...` steps, each behind an await at which the user may lock or cancel, the key
may be pulled and the helper may die or fall silent. `Report`, `GoStale`, `Check` and
`Disconnect` are the helper's reports, their ageing, the window's monitor and the
host's cleanup.

`ContactPairing`: a participant has its pending pairing in memory (`pending`) and
in the vault (`stored`), and a pump that sends, syncs, processes, saves and
acknowledges frame by frame over two relay lanes. `Processed` is the phase table of
both roles with the sequence checks, `DeleteLane` and `Finish` what each side does
when it is ready, `CancelLanes` and `FinishCancel` the cancellation; the pump may
be interrupted (`Interrupt`) at every relay call and save.

`PairingLobby`: `Announced`, `Find`, `Request`, `Decide` and `Stop` are what the two
users click; `PollStart`, `Sync`, `OpenRequest`, `OpenResponse` and `PollEnds` are one
invocation of the poll, of which several may overlap; `Close` and `Dispose` are the
two halves of closing a session around its relay call.

`PairwiseMessaging`: an event, its client transaction and its sealed bundles are
one member of `Transactions`; a session is named by the transaction that
bootstraps it. `intent` and `outbox` are the durable outbox, `state` the rest of a
runtime's durable record (sessions, chains, received history, route cursors,
reassembler), `op` the operation a runtime is in, since it serializes them, and
`op.draft` the clone an operation works on until it is saved. `box[e][p]` is the log
the relay keeps for a route of `e`, `floor` what it has collected of it, `blobs` the
attachment chunks.
  - `Prepare` is `prepareApplication` and `prepareRelationshipControl`: encrypt in
    the active or a new session and save, before any network call.
  - `resumeOutbound` is `Resume`, one relay call at a time with the save that
    follows it, and `Finish`. The code handles several intents in one call; here
    each is a `Resume` of its own, which only adds interleavings.
  - `Discard` is `discard`, and `Download` fetches the chunks an event refers to.
  - `syncReceive` is `Fetch`, one `Consume` per record (reassembly, duplicate
    tests, session, ratchet, control effect, history, all on the draft),
    `SavePage`, and the best-effort `Collect`.
  - `Crash` ends an operation at any point; what was saved stays.
Counters are chain positions; a route set and a prekey are their revision.
`invalid` lists the intents whose packets the sender's own validation refused.

`OpaqueRoute`: `Enqueue`, `Collect` and `Restore` are the relay (packets appended or
recognised, retention, a fall back to an older log); `Sync`, `ApplyPage` and
`Commit` the reader, with `Verdict` for what the reassembler says of a packet. A
record digest covers every earlier record, so it is modelled as the sequence it
covers, and a gap is what the code compares: sequence and digest.

`RouteLease`: `Transition` is what the three transition functions do to a route,
`Accepts` when (creation time and skew, sequence, previous key, repeated
requests), `Use` the consumption of a proof from the bounded ledger. `Age` moves a
signed request out of the accepted clock skew.

`RouteMaintenance`: one action per save or relay call of the two journals.
`StartReplacement`, `CreateRoute`, `PublishTesting`, `Promote`, `Revoke`,
`SignTeardown`, `TearDown` and `Retire` are the branches of the replacement journal
in their order, `Block`, `JournalTeardown`, `ResumeTeardown` and `DropJournal` those
of a blocked relationship; `PrepareProbe`, `Submit`, `Settle` and `Receive` carry the
route sets and probes between the sides, packet by packet. A restart is a step not
taken; a lost answer is the relay's half of a step alone. `Expire`, `FindGap` and `Age`
are what time and retention do to routes and requests: `expired[e]` is one number,
because a route is leased for longer than its predecessor has left
(`messaging-service.js:44-46`). `Fail`, `Discard` and `Compact` are the ends of an intent
other than its acceptance, so that `RevocationAccepted`, the test that every pass
makes (`messaging-service.js:1268-1278`), is about an intent that can still be found,
and not about one that has been sent. Messages and everything that goes wrong draw on
one budget, `MaxExtras`.

`Call`: signals and frames stay in `sent` and `aired` and are delivered in any order,
any number of times, or never. `Apply` is the state machine with its sequence and
expiry tests, `Accept` the initiator's pending offer, `Seal`, `RotateEpoch` and `Open`
the media sender and receiver with one replay window per epoch in reach.

## 3. Runs

| Run | Instance | Shows |
| --- | --- | --- |
| `StoreCrash` | 2 hosts, 2 records, 3 generations, 3 faults, 1 restoration | no fork, no rollback, files settle, rolled-back files are refused, reported erasure is real, the register is implemented |
| `StoreRecovers` | 2 fair hosts, 1 record, 2 faults | journals are resolved, erased scopes are emptied |
| `VaultReplaced` | 2 pairings, 1 saving coroutine, 1 burner, 1 writer, 2 vaults, 2 sessions, 1 crash or call that takes effect and answers with an error, 1 loss; fair | the burn freezes the persona, finishes only over tombstones of the relationships it can know of and ends; policy and erasure never relapse |
| `KeysAndLocks` | 2 keys, 2 faults; fair | an open vault that requires a key watches one, a pulled key locks, no policy outlives the last key, operations end |
| `PairingInterrupted` | offerer and 2 responders, 2 attempts each; fair | one relationship at most and the same on both sides, every saved state can be resumed, no unread frame is deleted, pairings complete |
| `LobbyWindow` | 1 seeker, 2 requests, 2 overlapping polls; fair | an invitation is taken once, no request is passed over, an approval is taken |
| `MessagingTwoRoutes` | 3 events of all kinds, 2 routes, 2 sessions, 1 fault, 1 discard, a history of 1 shortened to 0 | applied once while the session is held, accepted never lost, ratchet and history agree, sessions introduced, controls in order |
| `MessagingArrives` | 2 events of 2 packets and 2 chunks on 1 route, 1 fault, 1 packet found invalid; fair | every event arrives |
| `RouteReads` | bundles of one packet, of two and damaged, a buffer of 1, pages of 2, a log of 4, 1 restore, 1 lapse, 1 fault | the cursor covers one history, every whole bundle of it is delivered, gaps are exactly losses |
| `LeaseRetries` | 3 proofs, a ledger of 2, 4 signed requests, 2 lost answers; fair | transitions are one chain, the teardown is learned |
| `RoutesReplaced` | 1 rotating side, 3 routes, bundles of 2 packets, any 2 of: message, lost answer, aged request, expiry, gap, failed, discarded or trimmed intent, block; fair | what is advertised is served, teardown after revocation, reported routes are gone, a replacement ends unless it is stalled |
| `CallSignals` | lifetime 2, window 2, epochs 0..2; 4 signals and a restart, or 5 signals, or 1 signal and 4 frames | a frame is delivered once, the end of a call reaches both |

*Store.* Two hosts are enough because the lock admits one operation at a time: a
second host supplies every competing expectation, a third would only repeat it.
Three generations allow a commit, a competing commit and a tombstone; three
faults allow a crash during the recovery from a crash.

*Vault.* Two pairings let a burn stop between two relationships; two vaults are
the least where something can outlive a burn; two sessions let an operation
survive a lock. `MaxWrites` bounds the generation a relationship operation starts
from, so that a late writer can lose the compare-and-swap to the burn and the
reverse. `ErasedBeforeBurned` excepts the relationships that are `unsure`; a recovery,
which reads the slot, leaves none. A second saving coroutine would take relationships
off the list the burn works from as well (section 6), in the slot too, which
`ErasedBeforeBurned` does not speak of. One burner
per run is a real restriction: `finishBurn` compares no scope, and a burner that
stalled through a recovery by another, a re-initialization and the next burn
could finish a slot that is not its own. Two keys are the least with a last one
and another that may be watched; two faults let a commit answer be lost and the
helper die in one ceremony.

*Pairing.* A second responder is the least for a one-use invitation to be
contested; `MaxMint` lets each participant process once more after an interruption
with freshly drawn keys. One seeker with two requests and two polls is the least
where an old request's answer meets a new session; the host's side is the same
for every seeker.

*Messaging.* Three events are the least for a copy to arrive after its original
was compacted out of the history, for a control between two messages, and for a third
session in a table of two (four in the code). The history keeps one entry and is
shortened to none, for the code's 512 and 384: with room for two, three events never
outlive both a session and its entry, and an event that is applied again by a session
begun anew (section 6) would not occur in the instance. With one fault one route misses a bundle the other has, which
is what makes copies late and orders differ. Two packets let an acceptance, a crash
or a page end inside a bundle. `MaxSkip` is 2, more than the gaps three events can
leave.

*Routes.* A buffer of one bundle is full as soon as one is incomplete, a page of two
splits a bundle, a log of four holds one whole bundle twice and a split one; one
restore and one lapse produce both kinds of gap. A ledger of two with three proofs
fills up. Three routes are two replacements, so that what the first leaves behind
meets the second; two mishaps let an expiry meet a lost answer, or a discarded message
take a revocation with it that had to be prepared behind it. `ReplacementEnds` excepts
a replacement that is in the states of `Stalled` for ever: a stall that the code gets
out of again excuses nothing. TLC refutes the property when any one of the fourteen
disjuncts of `Stalled` is dropped. With both sides rotating, two routes each, bundles of one packet and no
mishap it holds too; with mishaps that instance is too large to finish.

*Calls.* A window of two and epochs 0, 1, 2 are the least where a window slides and
an epoch falls out of reach; five signals are an offer, an answer and three that
can be reordered. A run takes one of three budgets, since the signal state and the
media state meet only in the agreed key.

Deadlock is checked for the store, the vault and the keys: the application can
always be started again, a key plugged again. The other runs end when their
events, requests or time are used up.

## 4. Fairness

- *Store*: a host that has begun an operation runs it to its end, the operator
  removes a dead host's lock, and the application keeps being started and keeps
  asking (strong fairness of starting a load and a status query, because another
  host may hold the lock each time). Faults and restorations are finite.
- *Vault*: coroutines progress, as every relay call has a timeout and every store
  call an answer, and the owner of a burning vault burns again or locks it if the
  window is still open over it, then restarts and unlocks it again. The first is an
  assumption about a person: after `BeginUnanswered` nothing in the window makes the
  burn go on (`app.js:1832-1839`), and without it TLC refutes `BurnCompletes`.
  `RecoverBurn` needs strong fairness as a save or a running burner disables it now
  and then. Nothing is assumed of starting a burn, locking, or any relationship
  operation.
- *Keys*: the ceremony under way takes its next step or fails (authenticator
  timeouts), reports arrive or go stale, the monitor's timer fires (250 ms), and the
  host cleans up a lost helper. Nothing is assumed of the people.
- *Pairing*: the pump of an unlocked application runs every second
  (`backgroundResume`), so a relay call whose turn it is gets made (weak), and what
  follows an answer is not interrupted every single time (strong). Cancelling,
  expiring and interrupting are never assumed.
- *Lobby*: the seeker's poll runs every second while its session is open: strong for
  starting its relay call, weak for the steps after the answer. Nothing is assumed
  of the host's user.
- *Messaging*: the message pump (`backgroundMessageResume` and the synchronization
  beside it) resumes the outbox and reads every route again and again, one
  operation at a time. Starting either is strongly fair, as the other operation
  disables it now and then; the steps of a started operation are weakly fair, as
  every relay call answers or times out. Preparing and discarding are not assumed.
- *Lease*: every request that was signed is resent. *Maintenance*: each side has one
  weakly fair pump, of the steps of both journals, the exchange and the end of an
  overlap: while it has a step to take it takes one, not a given one. Nothing is
  assumed of starting a replacement, of blocking or of anything that goes wrong. Lost
  answers are finite in both.
- *Calls*: a signal that could still be applied is at some time delivered
  (`Told`), since signals are messages of `PairwiseMessaging`; expiry may come first.

## 5. Proofs

Each theorem is for every value of the constants, from the module's assumption
only (sets that are disjoint where the code's identifiers are, bounds that are
naturals).

*Store* (`RelationshipStateStoreProofs`).
- `TypeCorrect`, then `StoreInvariant`: `StoreInv` is inductive. The safety
  properties are not so by themselves. What carries them is that the lock admits
  one operation (`MutualExclusion`), that an answer waits for the release
  (`AnswersAwaitRelease`), and that between its compare-and-swap and its end a
  transaction is about the anchor it read (`TransactionsAreCurrent`): then every
  anchor write extends the current anchor by one generation, which is what keeps
  `AnchorCoversObserved` and `ObservedNeverForks`.
- `NeverForks`, `NeverRollsBack`, `AnsweredIsAnchored`, `ErasureIsReal`,
  `AnchorMovesForward` follow. They include restored files: nothing in the
  argument depends on the state or journal file being the store's own.
- `FilesSettle`: whenever nobody holds the lock, the state file is the one the anchor
  names or a journal is there to make it so, unless a destruction displaced the
  journal of a stored commit (section 6) or a file was restored. `SettleInv` says the
  same of every moment inside an operation: a journal is about the anchor, as what it
  expects or what it leads to; without one, or before its transaction has reached the
  anchor, the file is the anchored record; and what the host inside has read and
  written so far says which of the two it is.
- `StoreImplementsRegister`: the store refines `AnchoredRegister`, with the
  Keychain write as the linearization point of a commit or a destruction and
  every other step a stutter or the delivery of an answer. This is what lets every
  other module treat a commit as one step.

*Vault* (`ApplicationVaultProofs`).
- `VaultTypeCorrect`.
- `BurnFreezesPersona`: no save changes the persona of a burning vault and a
  burned slot is empty. It needs `BurnedIsEmpty` beside the types, that a burned
  slot holds no persona, because the action property also speaks of the steps
  out of a burned slot.
- `ErasureIsFinal`: a blocked or erased relationship never becomes live again. The
  invariant under it (`ScopeInv`) says that an operation in flight never runs
  ahead of its scope, that one that could still win the compare-and-swap knows
  whether the relationship is blocked, and that generation 0 means no anchor.
  Without the second, an operation that loaded before the burn blocked the
  relationship could put the accepted policy back.

*Keys* (`KeysAndCallsProofs`).
- `AlwaysAKey`: no order of registrations, removals and settings leaves a policy
  without a key. `KeyInv` carries it: while an operation waits, the record is the
  one it was admitted on, because the vault's queue serializes the writers; lock
  and cancel touch only memory.
- `OpenIsGuarded`: an open vault that requires a key watches a registered one.
  `KeyIsRegistered` carries it: from the touch to its last step an operation holds a
  key of the record, and a removal that is about to commit is not of the watched
  key.

*Calls* (`KeysAndCallsProofs`): `NoFrameTwice`. `CallInv` relates what was delivered to the
windows: a delivered frame is of an epoch the receiver has reached, and as long
as frames of that epoch could still be opened its window refuses it, either
because it holds the number or because it lies behind; a window is dropped only
when its epoch is out of reach for good. A device without key material has
delivered nothing, which is why a restart is harmless here.

*Messaging* (`PairwiseMessagingProofs`): `MessagingInvariant` shows that
`MessagingInv` is inductive, and `TypeCorrect`, `NothingTwice`, `AcceptedIsKept`,
`ChainsMatchHistory`, `SessionsAreIntroduced` and `ControlsSucceed` follow from it,
for any number of events, routes, packets, sessions, faults and refused packets.
None of the properties is inductive alone; what carries them is said of three
places at once, of the durable state, of the draft an operation works on
(`CandidateInv` for both), and of the relay:
- an envelope names a session whose bootstrap is sealed, and if the other side
  created that session the bootstrap was delivered (`EnvelopesInv`); the outbox has
  the bootstrap of a session before every other event of it (`OutboxInv`), and
  `FirstBlocking` takes it first. So when an event goes to the relay its bootstrap
  is there, or was given up after its packets were refused (`Introduced`).
- the progress recorded of a route counts packets its log holds (`IntentInv`), and
  every record behind a cursor is in the reassembler or in an event received
  (`CursorInv`), while the relay collects only behind a cursor that is saved. The two
  meet in `AcceptedIsKept`.
- a held session's chain has spent exactly the keys of the events received in it
  since its bootstrap last began it (`Accounts`), and the bootstrap of a session
  the peer began is among them. So what the shortened history no longer recognises
  the chain refuses (`NothingTwice`); and the bootstrap that begins a session anew
  starts a new account, which is why `ReceivedIn` counts from its last receipt.
- `ListInv`, that a session is listed once and only listed sessions have chains: an
  eviction that left a chain behind, or removed one of two entries, would let the
  next session of that name inherit spent keys.

*Pairing* (`ContactPairingProofs`): `PairingsResume`, `PairingIsMutual` and
`FinishingLosesNothing`, for any number of responders and of attempts. `PairingInv` is
inductive; the properties are not, because each speaks of one end and what makes it
true is at the other, or on its way there.
- A state is well (`Well`) when its counters are those of its phase and its outbox
  holds the last frames it sealed, each in its place. `ProcessedStep` shows that every
  entry of the phase table leads from such a state to one, and `WellResumes` that it is
  one the code opens again.
- What a frame promises (`FrameWell`) is said of every frame in a lane or a batch: a
  confirmation was sealed by a side that still holds both introductions it names, as
  a pending pairing or as a relationship, or that has cancelled. Nothing takes that
  back (`FrameStays`), since a pairing leaves a persona only as its relationship
  (`Finish`) or by a cancellation. So the frame that makes a side ready makes it
  mutual (`ConfirmedByPeer`), and already the draft is, before it is saved.
- The invitation has one session (`OneSession`): the offerer's pending pairing, its
  relationship, the frames in its lane, and whatever a responder has read or become
  ready in are of the one session its open redeemed. It holds because the offerer
  saves that session before it seals anything in it, and never replaces it.
- A lane holds no more frames than its author seals in all (`LanesShort`), and a ready
  side has read that many. So what `DeleteLane` deletes is read; the session rules
  out that another responder still reads from the lane.

*Lobby* (`PairingLobbyProofs`): `InvitationTakenOnce`. A seeker has at most one
running poll, it is of the seeker's own request, and while it is opening an answer
the request is not yet consumed; a taken invitation means a consumed request.
`relayPairingBusy` gives the first; an answer is opened only in a session that has
not opened one, and nothing else opens it before the poll goes on.
`NoRequestLost`: the host's cursor passes over no request for good. `HostInv` carries
it: the host has at most one running poll, the cursor stays within the route, and each
request before it was processed or is still among those the running poll has to open.
The assumption that a request's identifier is never the name of a side is the code's
(identifiers are drawn at random, sides are two constants).

*Route maintenance* (`RouteMaintenanceProofs`): `AdvertisedAlwaysServed`,
`RevocationFirst`, `BlockedRoutesGo`. `RouteInv` says of each endpoint, from its own
half of the state: what it advertises is local and not torn down; a created route is
open; a torn-down route of an active owner is one that some signed set revokes, and a
relay has accepted that set; a blocked endpoint's routes are torn down, expired or on
its list. What has been accepted stays accepted, also when its intent is trimmed, which
is why `Compact` only stops a replacement and never lets one run ahead. Nothing is
assumed of the packets that come in, nor of what fails, so the theorems hold whatever
the peer sends.

*Opaque routes* (`OpaqueRouteProofs`).
- `CursorReadsOneHistory`, `GapsAreLosses`, `CursorSkipsNothing`, from one invariant.
  `LogEras` says that a record beyond a point the log fell back to was written after
  the fall; `OneHistory` says the same of the records the reader holds, once one of
  them is as new, and that they are the first of the log while nothing was lost. It
  is said of the durable cursor and of the cursor with the running page behind it,
  because the log may fall back between the answer and its application. A page whose
  digest equals the cursor's continues the log (`PageContinues`), which is all that
  makes `OneHistory` true again after a sync; without the digest a rewritten log of
  the same length would pass.
- `GapsAreLosses` needs `CollectedIsRead`: the relay is told only of what is durable,
  and without a lapse collects only what it was told.
- `CursorSkipsNothing` rests on `Accounted`, that a sound bundle is delivered or the
  buffer has exactly the fragments of it behind the cursor. It is shown per packet
  (`AccountedStep`, from what each verdict does), along a page by the least record at
  which it could fail (`PageAccounted`), and a refused page leaves the disk as it was.
- `LeaseChains`: whatever is resent, aged or lost, the renewals a lease counts are
  those on its chain of transitions. `LeaseInv` says it of every request signed, not
  only of the applied ones: it counts one more than the request it names if it is a
  renewal, and the state at the relay and the one the owner knows each carry the count
  of the request applied last.

Induction is available where it is over the naturals: the library's induction
theorems take an operator, but the well-foundedness of `<` does not, and it gives
`LeastNatural`, that a nonempty set of naturals has a least element. The choices of
`Reserve`, `FirstBlocking`, `NextPath` and `Latest` rest on it, and so do the functions
that `ReadPage` and `LeaseIsOneChain` define by recursion: that they have a solution
(`ReadPageSteps`), and that it is what the invariant says (`ChainCounts`).

Only model-checked, because the prover treats neither fairness nor `ENABLED`: all
liveness. `ErasedBeforeBurned` holds for one burner only, and with its exception, so
there is nothing to prove for all.

## 6. What came up while modelling

Behaviours of the code that a document, a comment or a reader would not expect.
None is assumed away: where one touches a property, the property excepts exactly
that state, or the instance that shows it is given here.

Store and vault:

- A destruction with a valid expectation overwrites the journal of a commit whose
  anchor is stored and whose file is not; if it then stops before its tombstone,
  recovery can neither complete nor abort the commit (`displaced`).
- A lost ciphertext stops a burn that has not erased its relationship: the
  relationship can no longer be opened to be blocked, and the slot stays burning
  (`BurnCompletes` excepts it).
- A save that commits and answers with an error leaves slot and memory apart: the slot
  lists the new relationship, `persistPersona` throws before it replaces the persona
  (`app.js:1344-1347`, `messaging-service.js:556-582`). A burn works from memory
  (`app.js:1837`, `:1848`), so it finishes over a relationship that the slot lists and
  nobody erased, while `INTEGRATION_GUIDE.md:470` says every relationship is blocked
  and tombstoned. One coroutine and one burner are enough: without the exception of
  `unsure`, TLC refutes `ErasedBeforeBurned` with `Pairings = {p1}`, `Tasks = {t1}`,
  `Burns = {b1}`, `Writers = {}`, `MaxVaults = 1`, `MaxSessions = 1`, `MaxWrites = 1`,
  `MaxFaults = 1`, `MaxLosses = 0`. A lock and an unlock, or a recovery of the burn,
  read the slot and close the difference.
- A pairing step clones the persona, awaits the relay and saves the clone whole
  (`app.js:1344-1346`); another save in between is lost, from the slot as well. With
  `Pairings = {p1, p2}`, `Tasks = {t1, t2}`, one burner, one writer, `MaxVaults = 1`,
  `MaxSessions = 2`, `MaxWrites = 1` and no faults, TLC refutes "once the slot is burned,
  no relationship born in its vault is live": the burn works from a persona that no
  longer lists the relationship. With one task it is refuted too as soon as a save may
  go unanswered (`MaxFaults = 1`): the next one saves a clone of the old memory over it.
  With one task and no faults it holds.
- `beginBurn` that commits and answers with an error leaves `began` unset
  (`app.js:1832-1839`): the window stays open, and looks active, over a burning slot,
  where every save is refused; only a second click on burn, or a lock and a recovery,
  ends it. The same of `initialize` leaves a vault that the window learns of at its next
  start, and of `finishBurn` a burned slot with the profile locked.
- `persistPersona` compares no session. A coroutine that awaits the relay across a
  burn and the creation of the next persona saves the old one into the new vault.
  `finishBurn` (`messaging-service.js:501`) compares the status and not the vault.

Keys:

- Enabling "Keep key connected" locks the window at once: the `finally` of
  `performSecurityKeyAction` (`app.js:745`) looks at the requirement as it was before
  the operation and releases the watch the operation has just leased.
- A ceremony under a lease drops the old watch before the new one is ready; a
  monitor tick in between locks the session.
- A requirement whose commit took effect and whose answer was lost leaves the open
  session without a watch until the next lock (`unsure`).

Pairing and lobby:

- A side that finishes deletes the inbound lane although the peer may not have
  saved the acceptance of its last frame; the peer's resend is then refused for
  ever (`Stranded`), where `app.js:1113` says a retry is safe. `app.js:1131` deletes
  before it persists, and the deletion throws once the offer has expired.
- A second responder that lost and cancels deletes both lanes under the winners.
- `resumeAllPairings` goes through the pairings in order and stops at the first
  that throws.
- The lobby's `Stop` while a request is in flight leaves the session active
  (`app.js:883-906`); a second click on Request replaces the first; two Approve clicks
  overwrite `state.invitation`; an approval that finishes after `Stop` closes
  whatever session is then current. The cursor moves before the records are
  opened (`app.js:1195`).

Messaging:

- `discard` of a bootstrap discards the controls behind it, and it looks at the
  recorded status: if the relay took the bundle and the answer was lost, the peer
  answers in a session its creator has dropped, and the page with the answer is
  refused at every attempt.
- A bootstrap whose packets the sender's own validation refuses on every route
  becomes a `permanentFailure` and loses its envelope
  (`durable-pairwise-messaging-v2.js:1037-1047`). Discarding it then does not count
  as abandoning a bootstrap (line 1083), so its session stays active and later
  events are encrypted in a session the peer can never open. `SessionIntroduced`
  excepts the sessions of such bootstraps; without the exception TLC refutes it
  with one route, one refused packet and two events.
- `reserveSessionCapacity` may evict a session that retained accepted intents name;
  `validateIntent` then refuses the state.
- Two controls accepted on different routes can be read in the other order. A route
  set waits for its predecessor, and two routes may wait for each other; an older
  prekey is refused for good (`durable-pairwise-messaging-v2.js:2528`).
  `MessagingArrives` has one route for this reason.
- A copy that a lagging route delivers after the history was compacted is refused
  for good as well (line 1352), as its counter is behind the chain. That holds while
  its session is held. If the session made room for another (line 2763) and its entry
  left the history (line 1481), and the prekey the bootstrap consumed is among the
  retained ones, the lagging copy begins the session anew, and it and the copies that
  follow are applied a second time. With the constants of `MessagingTwoRoutes` TLC
  refutes `\A e \in Endpoints : IsInjective(state[e].received)` this way; in the
  code it takes a fifth session, and 384 later events or a state of 7 MB, within the
  seven days a delivery may lag. `AppliesOnce`, `RatchetAccounts` and `ControlsInOrder` therefore
  speak of a session since its bootstrap last began it; a control applied again
  changes nothing.

Routes:

- A signed creation is refused once it is five minutes old, even if the relay
  knows it, and a signed teardown if the relay never applied it, although the
  journal keeps both "pending and retryable" for ever.
- Once the old route has expired, promotion throws `routeOverlapUnavailable` at every
  attempt (`messaging-service.js:1042-1049`): fresh pairing is required, and the journal
  stays. A testing route that has expired is not probed (`:997`); its predecessor has
  then expired before it.
- The teardown waits for a revocation that is found in the outbox as accepted
  (`messaging-service.js:1268-1278`). One that was trimmed from it
  (`durable-pairwise-messaging-v2.js:2740-2762`), or discarded with the session it was
  sent in, or has failed for good, is `revocationPublicationPending` for ever. A
  discarded probe stays in the list and is not prepared again.
- A bundle that will never be complete on a route that is torn down, or a continuity
  gap on it, blocks its retirement for ever; an intent that has failed, or whose only
  destinations are torn down or expired, holds up every intent behind it
  (`Stranded`). A full reassembler refuses every page that begins another bundle.
- A page is refused as a whole. A route set that has no usable route left when it is
  read (`durable-pairwise-messaging-v2.js:2472-2481`), or a probe that was prepared a
  second time after its first was trimmed and comes after the promotion, closes the
  route for everything behind it.
- `ReplacementEnds` excepts a replacement that these keep from ending for ever
  (`Stalled`), and one whose owner or peer has blocked.
- `Block` with the answer to a creation lost leaves a route at the relay that no
  record knows as created; the window reports the routes torn down
  (`app.js:1740-1742`). Routes whose lease has run out are left to the relay
  (`messaging-service.js:1425`).

Calls:

- Calls to one sender, receiver or state machine must be awaited one by one: each
  reads its counter, awaits the cipher and writes it back (`call-v1.js:776-789`,
  `:814-821`, `:870-877`). The model assumes they are.
- An answer that a later signal of its sender overtakes is stale to the state
  machine while the pending offer accepts it and derives keys.
- When every frame of one epoch is lost, those of the epochs after it are refused.
- A restarted device numbers its signals from 1 again (`EndReachesBoth` excepts it),
  and a new sender over the same key would reuse frame numbers.

## 7. Not modelled, and why

- *IndexedDB anchors*: a commit compares a snapshot and compares again inside the
  one readwrite transaction that writes anchor and state. What a second tab can
  interleave is decided by IndexedDB, which is not in the repository.
- *Noctweb data sessions and net host*: records, revisions and idempotency ledgers
  live at the relay; a page capability keeps a few timestamps and a flag.
- *Relay client and request decoding, cryptography, wire encoding, storage
  wrappers, groups, desktop shell, manifests, private services*: encoding,
  validation, one exchange or a view; their failures are the lost calls and
  answers of the modules above.
- *Relays*: their process is not in the repository. Logs, lanes and leases are
  modelled from what the code sends and which answers it accepts, and marked
  external. Of the rendezvous lanes it is assumed that appending is idempotent,
  that conflicting, deleted and expired ones are refused, and that a repeated
  deletion is answered.
- *Inside modelled components*: receipts and the freshness of envelopes;
  quarantine in the messaging model (it is in `OpaqueRoute`); the refresh of an
  expired send proof; endpoint bindings (the digest an envelope carries does not
  cover the prekeys); signature counters and the limit of eight keys; the burn of
  a vault with keys; invitation text; badges and announcements of the lobby;
  tracks, codecs and candidates of a call; in the maintenance of routes, the sessions
  that intents belong to (a discarded message goes alone or with all that is behind it,
  a bundle may fail for good at any place), the age at which a relay or a reader
  refuses an envelope other than as a gap, and the renewal of a lease, which
  `messaging-service.js` never asks for; counters near 2^53 and the skip limit,
  which no bounded instance comes near.

## 8. What could follow

1. An abstract log with a cursor that `OpaqueRoute` refines and
   `PairwiseMessaging` uses, so that the two models of the receive path share one
   specification.
2. The lobby and the contact pairing composed, with locks of the profile during
   the window.
