------------------------- MODULE PairwiseMessaging --------------------------
(***************************************************************************)
(* Two DurablePairwiseMessagingRuntimeV2 of one relationship and the relay *)
(* mailboxes between them (durable-pairwise-messaging-v2.js, with the      *)
(* chains of crypto/noctweave-native-message.js, the reassembly of         *)
(* opaque-route-packet-v2.js and the commit order of client.js).  A        *)
(* runtime serializes its own operations; every one of them works on a     *)
(* copy of its state and saves the copy through the anchored store, whose  *)
(* commit AnchoredRegister shows to be one step.  A save that fails        *)
(* without effect is the step not taken; a save or a process that fails    *)
(* inside an operation is Crash.                                           *)
(***************************************************************************)
EXTENDS Naturals, Sequences, FiniteSets, SequencesExt

CONSTANTS Endpoints,     \* the two sides of the relationship
          Transactions,  \* client transaction identifiers, for both sides
          None,
          RouteCount,    \* receive routes each side has advertised
          Packets,       \* packets of a sealed bundle
          Chunks,        \* encrypted chunks of an attachment
          MaxRetired,    \* MAX_RETIRED_SIGNED_PREKEYS
          MaxSessions,   \* MAXIMUM_SESSIONS
          MaxPending,    \* MAXIMUM_PENDING_INTENTS
          MaxSkip,       \* MAX_SKIP of a receive chain
          HistoryLimit,  \* MAXIMUM_RECEIVED_EVENTS, compacted to
          HistoryTarget, \*   this many
          BatchLimit,    \* records of one opaque-route page
          Kinds,         \* bound: the events a run sends
          MaxDiscards,   \* bound: intents that may be given up
          MaxFaults,     \* bound: crashes, lost calls and lost answers
          MaxInvalid     \* bound: packets the sender itself finds invalid

ASSUME MessagingAssumption ==
  /\ \E a, b \in Endpoints : a # b /\ Endpoints = {a, b}
  /\ None \notin Endpoints \cup Transactions
  /\ {RouteCount, Packets, Chunks, MaxSessions, BatchLimit} \subseteq Nat \ {0}
  /\ {MaxRetired, MaxPending, MaxSkip, MaxDiscards, MaxFaults, MaxInvalid} \subseteq Nat
  /\ {HistoryLimit, HistoryTarget} \subseteq Nat /\ HistoryTarget < HistoryLimit
  /\ Kinds \subseteq {"message", "attachment", "prekey", "routes"}

VARIABLES
  envelope,  \* the direct envelope each transaction was encrypted into
  intent,    \* the outbox record of each transaction
  outbox,    \* the intents of each endpoint in their sequence order
  state,     \* the rest of each endpoint's durable state
  op,        \* the operation each runtime is executing
  box,       \* the log the relay keeps for each route of each endpoint
  floor,     \* the part of each log the relay has collected
  blobs,     \* the attachment chunks the relay of each route holds
  faults,    \* how many there were
  invalid    \* the intents whose packets were found invalid, one entry for each time

history == <<faults, invalid>>
vars == <<envelope, intent, outbox, state, op, box, floor, blobs, history>>

Paths == 1..RouteCount
Pieces == Transactions \X (1..Chunks)
Peer(e) == CHOOSE o \in Endpoints : o # e

(***************************************************************************)
(* A session is named by the transaction that bootstraps it.  An event is  *)
(* an application message or receipt, a message with an attachment, or a   *)
(* control that renews the sender's prekey or publishes the next revision  *)
(* of its route set.  prekey: the peer's prekey a bootstrap encapsulates   *)
(* the secret of its session to.                                           *)
(***************************************************************************)
Controls == {"prekey", "routes"}
Envelopes == [from: Endpoints, session: Transactions, counter: Nat, boot: BOOLEAN,
              prekey: Nat, kind: {"message", "attachment"} \cup Controls, revision: Nat]
NoEnvelope == [from |-> None]

Statuses == {"none", "prepared", "publishing", "retryableFailure",
             "relayAccepted", "permanentFailure", "discarded"}
\* progress: nextPacketIndex of each route delivery.
Intents == [status: Statuses, progress: [Paths -> 0..Packets]]
NoProgress == [p \in Paths |-> 0]
NoIntent == [status |-> "none", progress |-> NoProgress]

\* sent: counter of the send chain; next, skipped: the receive chain.
Chains == [sent: Nat, next: Nat, skipped: SUBSET Nat]
NoChain == [sent |-> 0, next |-> 0, skipped |-> {}]

Records == [tx: Transactions, part: 1..Packets]

\* issued: revision of the endpoint's own prekey and route set; applied: of the
\* peer's.  received is never shortened here: forgotten says how much of it was.
\* source: the route an attachment's event came by; fetched: its chunks held so far.
States == [sessions: Seq(Transactions), active: Transactions \cup {None},
           chain: [Transactions -> Chains],
           received: Seq(Transactions), forgotten: Nat,
           cursor: [Paths -> Nat], fragments: [Paths -> SUBSET Records],
           completed: [Paths -> SUBSET Transactions],
           issued: [Controls -> Nat], applied: [Controls -> Nat],
           source: [Transactions -> Paths \cup {0}],
           fetched: [Transactions -> 0..Chunks]]
NewState == [sessions |-> <<>>, active |-> None,
             chain |-> [s \in Transactions |-> NoChain],
             received |-> <<>>, forgotten |-> 0,
             cursor |-> [p \in Paths |-> 0], fragments |-> [p \in Paths |-> {}],
             completed |-> [p \in Paths |-> {}],
             issued |-> [c \in Controls |-> 0],
             applied |-> [c \in Controls |-> 0],
             source |-> [tx \in Transactions |-> 0],
             fetched |-> [tx \in Transactions |-> 0]]

\* uploaded: chunks uploaded to the current route in this attempt; failures: what the
\* routes tried so far failed with; draft: the candidate.
Operations == [kind: {"idle", "send", "receive", "collect"},
               tx: Transactions \cup {None}, path: 1..(RouteCount + 1),
               uploaded: 0..Chunks,
               failures: SUBSET {"transient", "invalid"},
               until: Nat, draft: States]
Idle == [kind |-> "idle", tx |-> None, path |-> 1, uploaded |-> 0, failures |-> {},
         until |-> 0, draft |-> NewState]

TypeOK ==
  /\ envelope \in [Transactions -> Envelopes \cup {NoEnvelope}]
  /\ intent \in [Transactions -> Intents]
  /\ outbox \in [Endpoints -> Seq(Transactions)]
  /\ state \in [Endpoints -> States]
  /\ op \in [Endpoints -> Operations]
  /\ box \in [Endpoints -> [Paths -> Seq(Records)]]
  /\ floor \in [Endpoints -> [Paths -> Nat]]
  /\ blobs \in [Endpoints -> [Paths -> SUBSET Pieces]]
  /\ faults \in 0..MaxFaults /\ invalid \in Seq(Transactions)

Init ==
  /\ envelope = [tx \in Transactions |-> NoEnvelope]
  /\ intent = [tx \in Transactions |-> NoIntent]
  /\ outbox = [e \in Endpoints |-> <<>>]
  /\ state = [e \in Endpoints |-> NewState]
  /\ op = [e \in Endpoints |-> Idle]
  /\ box = [e \in Endpoints |-> [p \in Paths |-> <<>>]]
  /\ floor = [e \in Endpoints |-> [p \in Paths |-> 0]]
  /\ blobs = [e \in Endpoints |-> [p \in Paths |-> {}]]
  /\ faults = 0 /\ invalid = <<>>

-----------------------------------------------------------------------------
(* Helpers of the runtime. *)

Own(e) == {tx \in Transactions : envelope[tx].from = e}
\* Mutant: an attempt that was interrupted is not taken up again.
PendingUntouched(tx) == intent[tx].status \in {"prepared", "retryableFailure"}
Pending(tx) == intent[tx].status \in {"prepared", "publishing", "retryableFailure"}
Blocking(tx) == Pending(tx) \/ intent[tx].status = "permanentFailure"
Accepted(progress) == \E p \in Paths : progress[p] = Packets

\* Sessions no compaction may remove.
Protected(e, d) == {d.active} \cup {envelope[tx].session : tx \in {t \in Own(e) : Blocking(t)}}

Evictable(e, d) == {i \in DOMAIN d.sessions : d.sessions[i] \notin Protected(e, d)}

\* The session at one place of the list is removed, with its chains.
Close(d, i) == [d EXCEPT !.sessions = RemoveAt(@, i), !.chain[d.sessions[i]] = NoChain]

HasRoom(e, d) == Len(d.sessions) < MaxSessions \/ Evictable(e, d) # {}

\* reserveSessionCapacity: the oldest session that is not protected makes room.
Reserve(e, d) ==
  IF Len(d.sessions) < MaxSessions THEN d
  ELSE Close(d, CHOOSE i \in Evictable(e, d) : \A j \in Evictable(e, d) : i <= j)

\* A new session becomes the one to send in when there is none.
Open(d, s) == [d EXCEPT !.sessions = Append(@, s),
                        !.active = IF @ = None THEN s ELSE @]

\* A chain keeps at most MaxSkip keys, all of counters it has passed.
ValidChain(chain) ==
  /\ Cardinality(chain.skipped) <= MaxSkip
  /\ \A counter \in chain.skipped : counter < chain.next

ValidSessions(d) ==
  /\ d.active \in Range(d.sessions) \cup {None}
  /\ \A s \in Range(d.sessions) : ValidChain(d.chain[s])

\* What saveCandidate refuses to save.
Valid(e, d) ==
  /\ ValidSessions(d)
  /\ \A tx \in Own(e) : intent[tx].status # "discarded" =>
                          envelope[tx].session \in Range(d.sessions)

-----------------------------------------------------------------------------
(* The outbox. *)

\* createNativeOutboundSession: there is no session to send in, a new one is encapsulated to
\* the prekey of the peer that is known.
Outbound(e, d, tx) == Open(Reserve(e, d), tx)
Ready(e, d, tx) == IF d.active = None THEN Outbound(e, d, tx) ELSE d

\* The header an event is encrypted under: the next counter of the session's send chain.
Header(e, tx, kind, revision) ==
  LET d == state[e]
      boot == d.active = None
      s == Ready(e, d, tx).active
  IN [from |-> e, session |-> s, counter |-> Ready(e, d, tx).chain[s].sent, boot |-> boot,
      prekey |-> IF boot THEN d.applied["prekey"] ELSE 0, kind |-> kind, revision |-> revision]

ApplicationEnvelope(e, tx, kind) == Header(e, tx, kind, 0)
ControlEnvelope(e, tx, kind) == Header(e, tx, kind, state[e].issued[kind] + 1)

\* The key of that counter is spent.
Encrypted(d) == [d EXCEPT !.chain[d.active].sent = @ + 1]

\* assertOutboxCapacity
OutboxHasRoom(e) == Cardinality({t \in Own(e) : Pending(t)}) < MaxPending

\* The event is encrypted in the active session, or in a new one it bootstraps, and saved with
\* its local effect before any relay hears of it.
Prepare(e, tx, sealed, next) ==
  /\ op[e].kind = "idle"
  /\ envelope[tx] = NoEnvelope
  /\ OutboxHasRoom(e)
  /\ state[e].active = None => HasRoom(e, state[e])
  /\ Valid(e, next)
  /\ envelope' = [envelope EXCEPT ![tx] = sealed]
  /\ intent' = [intent EXCEPT ![tx].status = "prepared"]
  /\ outbox' = [outbox EXCEPT ![e] = Append(@, tx)]
  /\ state' = [state EXCEPT ![e] = next]
  /\ UNCHANGED <<op, box, floor, blobs, history>>

PrepareApplication(e, tx, kind) ==
  /\ kind \notin Controls
  /\ Prepare(e, tx, ApplicationEnvelope(e, tx, kind), Encrypted(Ready(e, state[e], tx)))

\* A renewal keeps the private part of the prekey it replaces, while there is room.
Renewable(d) == d.issued["prekey"] < MaxRetired

\* A new prekey ends the use of the session the control itself is sent in.
LocalEffect(d, kind) == [d EXCEPT !.issued[kind] = @ + 1,
                                  !.active = IF kind = "prekey" THEN None ELSE @]

PrepareControl(e, tx, kind) ==
  /\ kind \in Controls
  /\ kind = "prekey" => Renewable(state[e])
  /\ Prepare(e, tx, ControlEnvelope(e, tx, kind),
             LocalEffect(Encrypted(Ready(e, state[e], tx)), kind))

\* The first intent that is neither accepted nor discarded.
FirstBlocking(e) ==
  LET blocking == {i \in DOMAIN outbox[e] : Blocking(outbox[e][i])}
  IN IF blocking = {} THEN None
     ELSE outbox[e][CHOOSE i \in blocking : \A j \in blocking : i <= j]

\* The next route whose bundle the relay has not completely accepted.
NextPath(progress, p) ==
  CHOOSE q \in p..(RouteCount + 1) :
    /\ q \in Paths => progress[q] < Packets
    /\ \A r \in p..(q - 1) : progress[r] = Packets

Goto(e, operation) == op' = [op EXCEPT ![e] = operation]

\* resumeOutbound takes the intent at the head and saves that it is publishing.
Resume(e) ==
  LET tx == FirstBlocking(e)
  IN /\ op[e].kind = "idle"
     /\ tx # None
     /\ Pending(tx)
     /\ intent' = [intent EXCEPT ![tx].status = "publishing"]
     /\ Goto(e, [Idle EXCEPT !.kind = "send", !.tx = tx,
                             !.path = NextPath(intent[tx].progress, 1)])
     /\ UNCHANGED <<envelope, outbox, state, box, floor, blobs, history>>

Publishing(e) == op[e].kind = "send" /\ op[e].path \in Paths

\* Every attempt on a route begins with the upload of an attachment's chunks to its relay.
Uploading(e) ==
  /\ Publishing(e)
  /\ envelope[op[e].tx].kind = "attachment" /\ op[e].uploaded < Chunks
Sending(e) == Publishing(e) /\ ~Uploading(e)

Stored(e, tx, p, chunk) == [blobs EXCEPT ![Peer(e)][p] = @ \cup {<<tx, chunk>>}]

Upload(e) ==
  LET chunk == op[e].uploaded + 1
  IN /\ Uploading(e)
     /\ blobs' = Stored(e, op[e].tx, op[e].path, chunk)
     /\ Goto(e, [op[e] EXCEPT !.uploaded = chunk])
     /\ UNCHANGED <<envelope, intent, outbox, state, box, floor, history>>

\* The relay appends a packet; it may recognise one it already holds.
Enqueue(e, tx, p) ==
  LET packet == [tx |-> tx, part |-> intent[tx].progress[p] + 1]
      log == box[Peer(e)][p]
  IN \/ box' = [box EXCEPT ![Peer(e)][p] = Append(@, packet)]
     \/ packet \in Range(log) /\ UNCHANGED box

\* The relay accepts the next packet and the progress is saved.
Transmit(e) ==
  LET tx == op[e].tx
      p == op[e].path
      progress == [intent[tx].progress EXCEPT ![p] = @ + 1]
  IN /\ Sending(e)
     /\ Enqueue(e, tx, p)
     /\ intent' = [intent EXCEPT ![tx].progress = progress]
     /\ Goto(e, IF NextPath(progress, p) = p THEN op[e]
                 ELSE [op[e] EXCEPT !.path = NextPath(progress, p), !.uploaded = 0])
     /\ UNCHANGED <<envelope, outbox, state, floor, blobs, history>>

\* An error ends the attempt on this route only.
GiveUp(e, failure) ==
  Goto(e, [op[e] EXCEPT !.failures = @ \cup {failure}, !.uploaded = 0,
                        !.path = NextPath(intent[op[e].tx].progress, @ + 1)])

\* The call fails, before or after the relay has taken the packet.
TransmitFails(e) ==
  /\ Sending(e)
  /\ faults < MaxFaults
  /\ \/ UNCHANGED box
     \/ Enqueue(e, op[e].tx, op[e].path)
  /\ GiveUp(e, "transient")
  /\ faults' = faults + 1
  /\ UNCHANGED <<envelope, intent, outbox, state, floor, blobs, invalid>>

\* So may an upload.
UploadFails(e) ==
  /\ Uploading(e)
  /\ faults < MaxFaults
  /\ blobs' \in {blobs, Stored(e, op[e].tx, op[e].path, op[e].uploaded + 1)}
  /\ GiveUp(e, "transient")
  /\ faults' = faults + 1
  /\ UNCHANGED <<envelope, intent, outbox, state, box, floor, invalid>>

\* The sender's own validation refuses the packet.
TransmitInvalid(e) ==
  /\ Sending(e)
  /\ Len(invalid) < MaxInvalid
  /\ GiveUp(e, "invalid")
  /\ invalid' = Append(invalid, op[e].tx)
  /\ UNCHANGED <<envelope, intent, outbox, state, box, floor, blobs, faults>>

\* A later intent of the same session still has to be sent.
HasDependent(e, tx) ==
  \E i, j \in DOMAIN outbox[e] :
    /\ i < j /\ outbox[e][i] = tx
    /\ Pending(outbox[e][j]) /\ envelope[outbox[e][j]].session = envelope[tx].session

\* Every route has been tried: one complete acceptance is enough.
Outcome(e, tx) ==
  IF Accepted(intent[tx].progress) THEN "relayAccepted"
  ELSE IF op[e].failures = {"invalid"} /\ ~HasDependent(e, tx) THEN "permanentFailure"
  ELSE "retryableFailure"

Finish(e) ==
  LET tx == op[e].tx
      status == Outcome(e, tx)
  IN /\ op[e].kind = "send"
     /\ op[e].path \notin Paths
     /\ intent' = [intent EXCEPT ![tx] =
                     [status |-> status,
                      progress |-> IF status = "retryableFailure" THEN @.progress ELSE NoProgress]]
     /\ Goto(e, Idle)
     /\ UNCHANGED <<envelope, outbox, state, box, floor, blobs, history>>

\* Mutant: a bootstrap is given up like any other intent.
AbandonsNothing(tx) == FALSE

\* The intent still holds the envelope that bootstraps its session.
AbandonsBootstrap(tx) == envelope[tx].boot /\ Pending(tx)

Discarded(e, tx) ==
  IF AbandonsBootstrap(tx)
  THEN {t \in Own(e) : envelope[t].session = envelope[tx].session}
  ELSE {tx}

\* A bootstrap is abandoned with its session and all that was prepared in it.
Discard(e, tx) ==
  LET s == envelope[tx].session
      closed == Close(state[e], CHOOSE i \in DOMAIN state[e].sessions :
                                  state[e].sessions[i] = s)
  IN /\ op[e].kind = "idle"
     /\ envelope[tx].from = e
     /\ Blocking(tx)
     /\ envelope[tx].kind \notin Controls
     /\ AbandonsBootstrap(tx) => ~Accepted(intent[tx].progress)
     /\ \A t \in Discarded(e, tx) : intent[t].status # "relayAccepted"
     /\ Cardinality({t \in Transactions : intent[t].status = "discarded"}) < MaxDiscards
     /\ intent' = [t \in Transactions |->
                     IF t \in Discarded(e, tx)
                     THEN [status |-> "discarded", progress |-> NoProgress]
                     ELSE intent[t]]
     /\ state' = [state EXCEPT ![e] =
                    IF ~AbandonsBootstrap(tx) THEN @
                    ELSE [closed EXCEPT !.active = IF @ = s THEN None ELSE @]]
     /\ UNCHANGED <<envelope, outbox, op, box, floor, blobs, history>>

-----------------------------------------------------------------------------
(* Receiving. *)

Shorter(m, n) == IF m <= n THEN m ELSE n

\* syncReceive reads one page behind the committed cursor.
Fetch(e, p) ==
  LET at == state[e].cursor[p]
  IN /\ op[e].kind = "idle"
     /\ floor[e][p] <= at
     /\ at < Len(box[e][p])
     /\ Goto(e, [Idle EXCEPT !.kind = "receive", !.path = p,
                             !.until = Shorter(Len(box[e][p]), at + BatchLimit),
                             !.draft = state[e]])
     /\ UNCHANGED <<envelope, intent, outbox, state, box, floor, blobs, history>>

\* The envelope identifiers that are still in the received history.
Known(d) == {d.received[i] : i \in (d.forgotten + 1)..Len(d.received)}

\* Mutant: a counter behind the chain is taken for one ahead of it.
DecryptsBehind(chain, counter) ==
  counter \in chain.skipped \/ counter <= chain.next + MaxSkip

\* receiveMessageKey: a cached key, or one at most MaxSkip ahead.
Decrypts(chain, counter) ==
  \/ counter \in chain.skipped
  \/ chain.next <= counter /\ counter <= chain.next + MaxSkip

\* Mutant: the keys of the counters jumped over are not kept.
AdvanceWithoutSkipped(chain, counter) ==
  IF counter \in chain.skipped THEN [chain EXCEPT !.skipped = @ \ {counter}]
  ELSE [chain EXCEPT !.next = counter + 1]

Advance(chain, counter) ==
  IF counter \in chain.skipped
  THEN [chain EXCEPT !.skipped = @ \ {counter}]
  ELSE [chain EXCEPT !.skipped = @ \cup chain.next..(counter - 1),
                     !.next = counter + 1]

Holds(d, s) == s \in Range(d.sessions)

\* localSignedPrekeyForBootstrap: the current prekey and the retired ones.
HeldPrekeys(d) == {n \in 0..d.issued["prekey"] : d.issued["prekey"] - n <= MaxRetired}

\* createNativeInboundSession: with that prekey both sides come to the same session.
Inbound(e, d, s) == Open(Reserve(e, d), s)
Opened(e, d, s) == IF Holds(d, s) THEN d ELSE Inbound(e, d, s)

\* The session is known, or the envelope establishes it.
Establishes(e, d, m) == m.boot /\ HasRoom(e, d) /\ m.prekey \in HeldPrekeys(d)
InSession(e, d, m) == Holds(d, m.session) \/ Establishes(e, d, m)

\* verifyNativeEnvelope: the peer of this relationship signed it.
Attributed(e, m) == m.from = Peer(e)

\* Mutant: any newer route set is a successor.
ProcessableAnyNewer(e, d, tx) ==
  LET m == envelope[tx]
  IN /\ InSession(e, d, m) /\ Attributed(e, m)
     /\ Decrypts(Opened(e, d, m.session).chain[m.session], m.counter)
     /\ m.kind \in Controls => m.revision >= d.applied[m.kind]

\* Everything processReceivedBundle requires of an envelope it has not seen.
Processable(e, d, tx) ==
  LET m == envelope[tx]
  IN /\ InSession(e, d, m) /\ Attributed(e, m)
     /\ Decrypts(Opened(e, d, m.session).chain[m.session], m.counter)
     /\ m.kind = "prekey" => m.revision >= d.applied["prekey"]
     /\ m.kind = "routes" => m.revision \in {d.applied["routes"], d.applied["routes"] + 1}

\* decryptNativeEnvelopePayload commits the chain once the payload is open.
Decrypted(e, d, m) == [Opened(e, d, m.session) EXCEPT !.chain[m.session] = Advance(@, m.counter)]

\* A newer prekey of the peer ends the use of the session that encapsulated to the old one.
AfterControl(d, m) ==
  [d EXCEPT !.applied[m.kind] = m.revision,
            !.active = IF m.kind = "prekey" /\ m.revision > d.applied["prekey"] THEN None ELSE @]

\* The ratchet, the control's effect and the received event in one candidate.
Process(e, d, tx, p) ==
  LET m == envelope[tx]
      kept == Len(d.received) - d.forgotten
      decrypted == Decrypted(e, d, m)
  IN [(IF m.kind \in Controls THEN AfterControl(decrypted, m) ELSE decrypted) EXCEPT
        !.source[tx] = IF m.kind = "attachment" THEN p ELSE 0,
        !.received = Append(@, tx),
        !.forgotten = IF kept < HistoryLimit THEN @
                      ELSE Len(d.received) - HistoryTarget]

\* The reassembler holds every packet of the bundle once this one is added.
Fragments(d, p, packet) == d.fragments[p] \cup {packet}
Completes(d, p, packet) ==
  \A part \in 1..Packets : [packet EXCEPT !.part = part] \in Fragments(d, p, packet)
Reassemble(d, p, packet) ==
  [d EXCEPT !.cursor[p] = @ + 1,
            !.fragments[p] = IF Completes(d, p, packet)
                             THEN {f \in @ : f.tx # packet.tx}
                             ELSE Fragments(d, p, packet),
            !.completed[p] = IF Completes(d, p, packet) THEN @ \cup {packet.tx} ELSE @]

\* One record of the page, on the candidate only.  An error that is not known
\* to be terminal abandons the whole page.
Consume(e) ==
  LET d == op[e].draft
      p == op[e].path
      packet == box[e][p][d.cursor[p] + 1]
      tx == packet.tx
      added == Reassemble(d, p, packet)
      duplicate == tx \in d.completed[p] \/ packet \in d.fragments[p]
      fresh == ~duplicate /\ Completes(d, p, packet) /\ tx \notin Known(d)
  IN /\ op[e].kind = "receive"
     /\ d.cursor[p] < op[e].until
     /\ \/ /\ duplicate
           /\ Goto(e, [op[e] EXCEPT !.draft.cursor[p] = @ + 1])
        \/ /\ ~duplicate /\ ~fresh
           /\ Goto(e, [op[e] EXCEPT !.draft = added])
        \/ /\ fresh /\ Processable(e, added, tx)
           /\ Goto(e, [op[e] EXCEPT !.draft = Process(e, added, tx, p)])
        \/ /\ fresh /\ ~Processable(e, added, tx)
           /\ Goto(e, Idle)
     /\ UNCHANGED <<envelope, intent, outbox, state, box, floor, blobs, history>>

\* The effects of the page and its cursor become durable together.
SavePage(e) ==
  LET d == op[e].draft
      p == op[e].path
  IN /\ op[e].kind = "receive"
     /\ d.cursor[p] = op[e].until
     /\ \/ /\ Valid(e, d)
           /\ state' = [state EXCEPT ![e] = d]
           /\ Goto(e, [Idle EXCEPT !.kind = "collect", !.path = p,
                                   !.until = op[e].until])
        \/ /\ ~Valid(e, d)
           /\ UNCHANGED state
           /\ Goto(e, Idle)
     /\ UNCHANGED <<envelope, intent, outbox, box, floor, blobs, history>>

\* Mutant: the commit covers all the relay holds by then.
CollectEverything(e) ==
  LET p == op[e].path
  IN /\ op[e].kind = "collect"
     /\ floor' = [floor EXCEPT ![e][p] = Len(box[e][p])]
     /\ Goto(e, Idle)
     /\ UNCHANGED <<envelope, intent, outbox, state, box, blobs, history>>

\* Only then may the relay drop the records; that call is best effort.
Collect(e) ==
  LET p == op[e].path
  IN /\ op[e].kind = "collect"
     /\ floor' = [floor EXCEPT ![e][p] = op[e].until]
     /\ Goto(e, Idle)
     /\ UNCHANGED <<envelope, intent, outbox, state, box, blobs, history>>

\* downloadAttachment fetches a chunk from the relay its event came by and saves it; it goes
\* on with the first chunk it does not hold.
Download(e, tx) ==
  LET chunk == state[e].fetched[tx] + 1
      p == state[e].source[tx]
  IN /\ op[e].kind = "idle"
     /\ p # 0 /\ tx \in Known(state[e])
     /\ <<tx, chunk>> \in blobs[e][p]
     /\ state' = [state EXCEPT ![e].fetched[tx] = chunk]
     /\ UNCHANGED <<envelope, intent, outbox, op, box, floor, blobs, history>>

\* The process dies, or a call or save fails, in the middle of an operation.
Crash(e) ==
  /\ op[e].kind # "idle"
  /\ faults < MaxFaults
  /\ Goto(e, Idle)
  /\ faults' = faults + 1
  /\ UNCHANGED <<envelope, intent, outbox, state, box, floor, blobs, invalid>>

-----------------------------------------------------------------------------
Progress(e) ==
  Upload(e) \/ Transmit(e) \/ Finish(e) \/ Consume(e) \/ SavePage(e) \/ Collect(e)

Next == \E e \in Endpoints :
  \/ \E tx \in Transactions, kind \in Kinds :
       PrepareApplication(e, tx, kind) \/ PrepareControl(e, tx, kind)
  \/ \E tx \in Transactions : Discard(e, tx) \/ Download(e, tx)
  \/ Resume(e)
  \/ \E p \in Paths : Fetch(e, p)
  \/ Progress(e)
  \/ UploadFails(e) \/ TransmitFails(e) \/ TransmitInvalid(e) \/ Crash(e)

Spec == Init /\ [][Next]_vars

\* The message pump resumes the outbox and reads every route again and again;
\* an operation that has begun runs on.  Whoever wants an attachment asks again.
Fairness == \A e \in Endpoints :
  /\ WF_vars(Progress(e))
  /\ SF_vars(Resume(e))
  /\ \A p \in Paths : SF_vars(Fetch(e, p))
  /\ WF_vars(\E tx \in Transactions : Download(e, tx))
FairSpec == Spec /\ Fairness

-----------------------------------------------------------------------------
(* Properties. *)

Applied(tx) == \E e \in Endpoints : tx \in Range(state[e].received)

\* What was received in a session since its bootstrap last began it.
ReceivedIn(d, s) ==
  {d.received[i] : i \in {i \in DOMAIN d.received :
                            /\ envelope[d.received[i]].session = s
                            /\ \A j \in DOMAIN d.received : d.received[j] = s => j <= i}}

\* No envelope takes effect twice while its session is held, although retries
\* put it on the relay again, every route carries a copy, a page is read again
\* after a crash and the history that recognises copies is shortened
\* (processReceivedBundle).  A session that made room for another is begun anew
\* by a copy of its bootstrap; then what follows is applied again.
AppliesOnce ==
  [][\A e \in Endpoints :
       LET before == op[e].draft
           after == op'[e].draft.received
       IN op[e].kind = "receive" /\ op'[e].kind = "receive" =>
            \A i \in (Len(before.received) + 1)..Len(after) :
              LET s == envelope[after[i]].session
              IN Holds(before, s) => after[i] \notin ReceivedIn(before, s)]_vars

\* A packet the receiver holds, or can still read behind its cursor.
Reachable(e, p, packet) ==
  \/ packet \in state[e].fragments[p]
  \/ \E i \in (state[e].cursor[p] + 1)..Len(box[e][p]) :
       i > floor[e][p] /\ box[e][p][i] = packet

\* What the sender counts as accepted, and has wiped its retry material of, the
\* peer has applied or can still assemble on one route: neither a partial
\* acceptance, nor a crash around the cursor, nor the relay's collection of
\* records loses it (resumeOutbound and syncReceive).
AcceptedNotLost ==
  \A tx \in Transactions : intent[tx].status = "relayAccepted" =>
    \/ Applied(tx)
    \/ \E p \in Paths : \A part \in 1..Packets :
         Reachable(Peer(envelope[tx].from), p, [tx |-> tx, part |-> part])

\* Behind a chain's position the counters without a cached key are exactly those
\* of the events received in the session.
Accounts(d) ==
  \A s \in Range(d.sessions) :
    LET chain == d.chain[s]
    IN {envelope[tx].counter : tx \in ReceivedIn(d, s)}
         = (0..chain.next) \ (chain.skipped \cup {chain.next})

\* The receive chain and the history tell the same story, so no key is used
\* twice and none is lost with an abandoned page.
RatchetAccounts == \A e \in Endpoints : Accounts(state[e])

Delivered(tx) ==
  \E e \in Endpoints, p \in Paths : \A part \in 1..Packets :
    [tx |-> tx, part |-> part] \in Range(box[e][p])

\* Nothing reaches the relay in a session the peer could never open: the
\* bootstrap was completely delivered first, and abandoning a bootstrap leaves
\* nothing of its session to be sent (discard, the order of resumeOutbound).
\* Only a bootstrap whose own packets proved invalid is given up without its
\* session.
SessionIntroduced ==
  \A e \in Endpoints, p \in Paths : \A record \in Range(box[e][p]) :
    LET s == envelope[record.tx].session
    IN record.tx = s \/ Delivered(s) \/ s \in Range(invalid)

\* The revision of the last control of a kind among the first n events received.
Latest(d, n, kind) ==
  LET at == {i \in 1..n : envelope[d.received[i]].kind = kind}
  IN IF at = {} THEN 0
     ELSE envelope[d.received[CHOOSE i \in at : \A j \in at : j <= i]].revision

\* Each control received succeeds or repeats the one before it, and the last of
\* each kind is the one that is applied.
InOrder(d) ==
  /\ \A i \in DOMAIN d.received :
       LET m == envelope[d.received[i]]
           last == Latest(d, i - 1, m.kind)
       IN /\ m.kind = "routes" => m.revision \in {last, last + 1}
          /\ m.kind = "prekey" => m.revision >= last
  /\ \A kind \in Controls : d.applied[kind] = Latest(d, Len(d.received), kind)

\* However the copies arrive, the peer's route sets take effect one by one in
\* the order it signed them, its prekeys never backwards, and the state holds
\* the last of each (applyReceivedRelationshipControl).  A control that is
\* applied again changes nothing.
ControlsInOrder == \A e \in Endpoints : InOrder(state[e])

\* Every event that was prepared is applied by the peer, and an attachment is there to be
\* downloaded as long as its event is remembered, unless the sender gives the event up or holds
\* an intent back for good, as its packets proved invalid: no retry, restart or abandoned page
\* stops the outbox or the route (resumeOutbound, syncReceive, downloadAttachment).
HeldBack(tx) ==
  \E t \in Own(envelope[tx].from) : intent[t].status = "permanentFailure"

Downloaded(tx) ==
  LET d == state[Peer(envelope[tx].from)] IN d.fetched[tx] = Chunks \/ tx \notin Known(d)

Arrived(tx) == Applied(tx) /\ (envelope[tx].kind = "attachment" => Downloaded(tx))

EverythingArrives ==
  \A tx \in Transactions :
    envelope[tx] # NoEnvelope
      ~> intent[tx].status = "discarded" \/ Arrived(tx) \/ HeldBack(tx)

=============================================================================
