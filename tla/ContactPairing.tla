---------------------------- MODULE ContactPairing ----------------------------
(***************************************************************************)
(* Contact pairing over one one-use invitation (contact-pairing-v2.js and  *)
(* what it runs on: rendezvous-v2.js, rendezvous-relay-v2.js, the persona  *)
(* steps of browser-pairing-service.js and the pump of client/app.js).     *)
(* The offerer and everyone who holds the invitation keep a durable state  *)
(* machine each and exchange five frames over two lanes of the relay, one  *)
(* per direction.  The pump of a pairing is a coroutine with a relay call  *)
(* or a save between its steps, and it may stop at each of them.           *)
(*                                                                         *)
(* Nothing sealed is forged: a frame is what its author put in it, the     *)
(* session stands for its transcript digest and relationship ID, and an    *)
(* introduction for its digest.  A mint number tells apart the keys, frame *)
(* identifiers and introductions two attempts draw.                        *)
(***************************************************************************)
EXTENDS Naturals, Sequences, FiniteSets

CONSTANTS Offerer,     \* who made the invitation
          Responders,  \* the devices the invitation reached
          MaxMint      \* bound: attempts of one participant that draw fresh keys

ASSUME PairingAssumption ==
  /\ Offerer \notin Responders /\ IsFiniteSet(Responders)
  /\ MaxMint \in Nat \ {0}

VARIABLES
  pending,    \* the pending pairing in the participant's persona
  stored,     \* the same in the vault
  related,    \* the pairwise relationships in it
  minted,     \* attempts that drew fresh keys
  pump,       \* where its coroutine stands
  batch,      \* frames a sync brought and the pump has not processed
  draft,      \* the state of a processed frame, not yet saved
  lanes,      \* the two lanes at the relay
  expired,    \* the offer's ten minutes are over
  cancelled   \* who has cancelled

saved == <<pending, stored, related, minted>>
volatile == <<pump, batch, draft>>
vars == <<saved, volatile, lanes, expired, cancelled>>

Participants == {Offerer} \cup Responders
Role(p) == IF p = Offerer THEN "offerer" ELSE "responder"
Directions == {"offererToResponder", "responderToOfferer"}
Outbound(p) == IF p = Offerer THEN "offererToResponder" ELSE "responderToOfferer"
Inbound(p) == IF p = Offerer THEN "responderToOfferer" ELSE "offererToResponder"

-----------------------------------------------------------------------------
(* Sessions, introductions and frames.  An open names the session it makes. *)
Session(r, mint) == <<r, mint>>
Introduction(p, mint, session) == [by |-> p, mint |-> mint, session |-> session]
Introduces(introduction, p, session) ==
  introduction.session = session /\ (introduction.by = Offerer <=> p # Offerer)
Confirmation(offererIntroduction, responderIntroduction) ==
  <<offererIntroduction, responderIntroduction>>

\* A sealed frame: its place in the lane, who sealed it, its place in the
\* session, its message kind and what it carries.
Frame(sequence, role, number, kind, session, content) ==
  [sequence |-> sequence, role |-> role, number |-> number, kind |-> kind,
   session |-> session, content |-> content]

\* createRendezvousOpenV2: what redeems the invitation's one-time token.
Open(session) == Frame(1, "responder", 0, "open", session, <<>>)

\* prepareContactPairingParticipantV2: an attempt draws keys, an endpoint and
\* a receive route nothing else uses.
Fresh(p) == minted[p] + 1

None == [phase |-> "none"]
NoSession == <<>>

\* prepareContactPairingOffererV2: nothing is known of a responder yet.
OffererState ==
  [phase |-> "awaitingOpen", session |-> NoSession, redeemed |-> {},
   sealed |-> 0, opened |-> 0, local |-> <<>>, peer |-> <<>>,
   confirmation |-> <<>>, nextOut |-> 1, nextIn |-> 1, out |-> <<>>]

\* prepareContactPairingResponderV2: the open and the acceptance are sealed.
ResponderState(r, mint) ==
  LET session == Session(r, mint)
      local == Introduction(r, mint, session)
  IN [phase |-> "awaitingIntroduction", session |-> session, redeemed |-> {},
      sealed |-> 1, opened |-> 0, local |-> <<local>>, peer |-> <<>>,
      confirmation |-> <<>>, nextOut |-> 3, nextIn |-> 1,
      out |-> <<Open(session),
                Frame(2, "responder", 1, "contactAcceptance", session, <<local>>)>>]

\* sealJsonFrame and sealSessionFrame: the next frame of the session and of
\* the lane is added to the outbox.
Seal(s, p, kind, content) ==
  [s EXCEPT !.sealed = @ + 1, !.nextOut = @ + 1,
            !.out = Append(@, Frame(s.nextOut, Role(p), s.sealed + 1, kind,
                                    s.session, content))]

\* openJsonFrame: the frame is the next of this session, from the other
\* role, of the kind the phase expects.
Opens(s, p, frame, kind) ==
  /\ ~expired /\ frame.kind = kind /\ frame.session = s.session
  /\ frame.role # Role(p) /\ frame.number = s.opened + 1
Read(s) == [s EXCEPT !.opened = @ + 1, !.nextIn = @ + 1]

\* acceptRendezvousOpenV2: one open, while the offer lasts.
Redeems(s, frame) == ~expired /\ frame.kind = "open" /\ s.redeemed = {}
Redeemed(s, frame) ==
  [s EXCEPT !.phase = "awaitingAcceptance", !.session = frame.session,
            !.redeemed = {frame.session}, !.nextIn = @ + 1]

\* requireMatchingConfirmation: the peer has confirmed the introductions
\* this side holds.
Matches(s, frame) == frame.content = s.confirmation

-----------------------------------------------------------------------------
(* processContactPairingTransportFrameV2.  A frame gives a set: the state   *)
(* it leads to, or nothing when it is refused.                              *)
Introduced(s, p, frame, local) ==
  LET peer == frame.content[1] IN
  [Read(s) EXCEPT !.phase = "awaitingConfirmation", !.local = <<local>>,
     !.peer = <<peer>>,
     !.confirmation = IF p = Offerer THEN Confirmation(local, peer)
                                     ELSE Confirmation(peer, local)]
Carries(s, p, frame) == Introduces(frame.content[1], p, s.session)

\* Mutant: the offerer is ready once it has sent its introduction.
OffererReadyEarly(s, frame, mint) ==
  CASE s.phase = "awaitingOpen" /\ Redeems(s, frame) -> {Redeemed(s, frame)}
    [] /\ s.phase = "awaitingAcceptance"
       /\ Opens(s, Offerer, frame, "contactAcceptance")
       /\ Carries(s, Offerer, frame) ->
         LET local == Introduction(Offerer, mint, s.session)
             offered == Seal(Introduced(s, Offerer, frame, local), Offerer,
                             "contactOffer", <<local>>)
         IN {[Seal(offered, Offerer, "confirmation", offered.confirmation)
                EXCEPT !.phase = "ready"]}
    [] OTHER -> {}
OffererProcesses(s, frame, mint) ==
  CASE s.phase = "awaitingOpen" /\ Redeems(s, frame) -> {Redeemed(s, frame)}
    [] /\ s.phase = "awaitingAcceptance"
       /\ Opens(s, Offerer, frame, "contactAcceptance")
       /\ Carries(s, Offerer, frame) ->
         LET local == Introduction(Offerer, mint, s.session) IN
         {Seal(Introduced(s, Offerer, frame, local), Offerer,
               "contactOffer", <<local>>)}
    [] /\ s.phase = "awaitingConfirmation"
       /\ Opens(s, Offerer, frame, "confirmation") /\ Matches(s, frame) ->
         {[Seal(Read(s), Offerer, "confirmation", s.confirmation)
             EXCEPT !.phase = "ready"]}
    [] OTHER -> {}

ResponderProcesses(s, r, frame) ==
  CASE /\ s.phase = "awaitingIntroduction"
       /\ Opens(s, r, frame, "contactOffer") /\ Carries(s, r, frame) ->
         LET read == Introduced(s, r, frame, s.local[1]) IN
         {Seal(read, r, "confirmation", read.confirmation)}
    [] /\ s.phase = "awaitingConfirmation"
       /\ Opens(s, r, frame, "confirmation") /\ Matches(s, frame) ->
         {[Read(s) EXCEPT !.phase = "ready"]}
    [] OTHER -> {}

Processed(p, frame) ==
  IF frame.sequence # pending[p].nextIn THEN {}
  ELSE IF p = Offerer THEN OffererProcesses(pending[p], frame, Fresh(p))
  ELSE ResponderProcesses(pending[p], p, frame)

-----------------------------------------------------------------------------
(* The relay.  A lane takes frames in sequence, answers a frame it holds    *)
(* again, refuses another in its place, and refuses everything once it is   *)
(* deleted or the offer has expired.                                        *)
Registered == [d \in Directions |-> [open |-> TRUE, frames |-> <<>>]]
Live(direction) == lanes[direction].open /\ ~expired
Takes(direction, frame) ==
  LET held == lanes[direction].frames IN
  /\ Live(direction)
  /\ \/ frame.sequence = Len(held) + 1
     \/ frame.sequence <= Len(held) /\ held[frame.sequence] = frame
WithFrame(direction, frame) ==
  IF frame.sequence <= Len(lanes[direction].frames) THEN lanes
  ELSE [lanes EXCEPT ![direction].frames = Append(@, frame)]
Without(directions) ==
  [d \in Directions |-> IF d \in directions
                        THEN [open |-> FALSE, frames |-> <<>>] ELSE lanes[d]]

Idle(p) == pump[p] = "idle" /\ batch[p] = <<>> /\ draft[p] = None

Init ==
  /\ pending = [p \in Participants |-> None]
  /\ stored = pending
  /\ related = [p \in Participants |-> {}]
  /\ minted = [p \in Participants |-> 0]
  /\ pump = [p \in Participants |-> "idle"]
  /\ batch = [p \in Participants |-> <<>>]
  /\ draft = [p \in Participants |-> None]
  /\ lanes = [d \in Directions |-> [open |-> FALSE, frames |-> <<>>]]
  /\ expired = FALSE
  /\ cancelled = {}

\* persistPersona: the vault takes the persona before the program does.
\* Mutant: the program goes on with a persona the vault may not get.
PersistLater(p, s) ==
  pending' = [pending EXCEPT ![p] = s] /\ UNCHANGED stored
Persist(p, s) ==
  /\ stored' = [stored EXCEPT ![p] = s]
  /\ pending' = [pending EXCEPT ![p] = s]

\* validateContactPairingInvitationV2, and the offer is in time.
Offered == minted[Offerer] > 0 /\ ~expired

\* prepareOffererInvitation: the lanes are registered, the pairing is saved,
\* and only then is there an invitation.
Invite ==
  /\ pending[Offerer] = None /\ minted[Offerer] = 0
  /\ Persist(Offerer, OffererState)
  /\ minted' = [minted EXCEPT ![Offerer] = Fresh(Offerer)]
  /\ lanes' = Registered
  /\ UNCHANGED <<related, volatile, expired, cancelled>>

\* acceptInvitation: fresh keys, a fresh open, saved before anything is sent.
Accept(r) ==
  /\ Offered
  /\ pending[r] = None /\ minted[r] < MaxMint
  /\ minted' = [minted EXCEPT ![r] = Fresh(r)]
  /\ Persist(r, ResponderState(r, Fresh(r)))
  /\ UNCHANGED <<related, volatile, lanes, expired, cancelled>>

-----------------------------------------------------------------------------
(* pumpPairing.                                                             *)
\* The first frame of the outbox is sent, as often as it takes.
Send(p) ==
  /\ Idle(p) /\ pending[p] # None /\ pending[p].out # <<>>
  /\ LET frame == Head(pending[p].out) IN
     /\ Takes(Outbound(p), frame)
     /\ lanes' = WithFrame(Outbound(p), frame)
  /\ pump' = [pump EXCEPT ![p] = "accepted"]
  /\ UNCHANGED <<saved, batch, draft, expired, cancelled>>

\* acknowledgeContactPairingOutboundV2: the accepted frame leaves the outbox.
Acknowledged(s) == [s EXCEPT !.out = Tail(@)]
Acknowledge(p) ==
  /\ pump[p] = "accepted"
  /\ Persist(p, Acknowledged(pending[p]))
  /\ pump' = [pump EXCEPT ![p] = "idle"]
  /\ UNCHANGED <<related, minted, batch, draft, lanes, expired, cancelled>>

\* Frames after the last one processed; not before the outbox is empty, and
\* not once the pairing is ready.
Batch(p) == LET held == lanes[Inbound(p)].frames
            IN SubSeq(held, pending[p].nextIn, Len(held))
Sync(p) ==
  /\ Idle(p) /\ pending[p] # None
  /\ pending[p].out = <<>> /\ pending[p].phase # "ready"
  /\ Live(Inbound(p))
  /\ batch' = [batch EXCEPT ![p] = Batch(p)]
  /\ UNCHANGED <<saved, pump, draft, lanes, expired, cancelled>>

\* A frame of the batch is processed on a clone of the persona; one that is
\* refused ends the round.
Process(p) ==
  /\ batch[p] # <<>> /\ draft[p] = None
  /\ LET results == Processed(p, Head(batch[p])) IN
     \/ /\ results = {} /\ batch' = [batch EXCEPT ![p] = <<>>]
        /\ UNCHANGED <<draft, minted>>
     \/ \E s \in results :
          /\ draft' = [draft EXCEPT ![p] = s]
          /\ batch' = [batch EXCEPT ![p] = Tail(@)]
          /\ minted' = IF s.local # pending[p].local
                       THEN [minted EXCEPT ![p] = @ + 1] ELSE minted
  /\ UNCHANGED <<pending, stored, related, pump, lanes, expired, cancelled>>

\* The clone is saved.
Save(p) ==
  /\ draft[p] # None
  /\ Persist(p, draft[p])
  /\ draft' = [draft EXCEPT ![p] = None]
  /\ UNCHANGED <<related, minted, pump, batch, lanes, expired, cancelled>>

\* The round ends where it stands: an answer is lost, a save fails, the
\* profile is locked, the program stops.
Interrupt(p) ==
  /\ ~Idle(p)
  /\ draft[p] # None => minted[p] < MaxMint
  /\ pending' = [pending EXCEPT ![p] = stored[p]]
  /\ pump' = [pump EXCEPT ![p] = "idle"]
  /\ batch' = [batch EXCEPT ![p] = <<>>]
  /\ draft' = [draft EXCEPT ![p] = None]
  /\ UNCHANGED <<stored, related, minted, lanes, expired, cancelled>>

-----------------------------------------------------------------------------
(* finalizePairing: the own inbound lane is deleted, then the relationship  *)
(* replaces the pending pairing.                                            *)
\* Mutant: the peer's confirmation is not waited for.
FinalizesUnconfirmed(p) ==
  /\ Idle(p) /\ pending[p].phase \in {"awaitingConfirmation", "ready"}
  /\ pending[p].out = <<>>
Finalizes(p) ==
  Idle(p) /\ pending[p].phase = "ready" /\ pending[p].out = <<>>
\* Mutant: finishing deletes both lanes.
DeletedByBoth(p) == Directions
DeletedBy(p) == {Inbound(p)}
DeleteLane(p) ==
  /\ Finalizes(p) /\ ~expired
  /\ lanes' = Without(DeletedBy(p))
  /\ pump' = [pump EXCEPT ![p] = "finishing"]
  /\ UNCHANGED <<saved, batch, draft, expired, cancelled>>
Relationship(s) == [session |-> s.session, local |-> s.local, peer |-> s.peer]
Finish(p) ==
  /\ pump[p] = "finishing"
  /\ related' = [related EXCEPT ![p] = @ \cup {Relationship(pending[p])}]
  /\ Persist(p, None)
  /\ pump' = [pump EXCEPT ![p] = "idle"]
  /\ UNCHANGED <<minted, batch, draft, lanes, expired, cancelled>>

\* cancelPairing: the lanes go one after the other; after expiry there are
\* none.  Only then is the pairing removed.
CancelLanes(p) ==
  /\ Idle(p) /\ pending[p] # None
  /\ IF expired THEN /\ pump' = [pump EXCEPT ![p] = "cancelling"]
                     /\ UNCHANGED <<lanes, cancelled>>
     ELSE /\ cancelled' = cancelled \cup {p}
          /\ \/ /\ lanes' = Without({"offererToResponder"})
                /\ UNCHANGED pump
             \/ /\ lanes' = Without(Directions)
                /\ pump' = [pump EXCEPT ![p] = "cancelling"]
  /\ UNCHANGED <<saved, batch, draft, expired>>
FinishCancel(p) ==
  /\ pump[p] = "cancelling"
  /\ Persist(p, None)
  /\ pump' = [pump EXCEPT ![p] = "idle"]
  /\ cancelled' = cancelled \cup {p}
  /\ UNCHANGED <<related, minted, batch, draft, lanes, expired>>

Expire ==
  /\ Offered
  /\ expired' = TRUE
  /\ UNCHANGED <<saved, volatile, lanes, cancelled>>

Pump(p) == Send(p) \/ Acknowledge(p) \/ Sync(p) \/ Process(p) \/ Save(p)
             \/ DeleteLane(p) \/ Finish(p)
Next ==
  \/ Invite \/ Expire
  \/ \E r \in Responders : Accept(r)
  \/ \E p \in Participants :
       Pump(p) \/ Interrupt(p) \/ CancelLanes(p) \/ FinishCancel(p)

Spec == Init /\ [][Next]_vars

\* backgroundResume starts the pump of every pairing each second, so the
\* relay call whose turn it is gets made, and what follows an answer is not
\* interrupted every time.
Calls(p) == Send(p) \/ DeleteLane(p) \/ (Sync(p) /\ Batch(p) # <<>>)
FairSpec ==
  /\ Spec
  /\ \A p \in Participants :
       /\ WF_vars(Calls(p)) /\ SF_vars(Process(p))
       /\ SF_vars(Acknowledge(p) \/ Save(p) \/ Finish(p))

-----------------------------------------------------------------------------
(* validatePairingPhaseState and resumeContactPairingV2: what every state    *)
(* read from the vault has to satisfy, or the pairing cannot be opened       *)
(* again.                                                                    *)
Counters ==
  [offerer |->
     [awaitingOpen         |-> <<1, 1, 0, 0>>,
      awaitingAcceptance   |-> <<1, 2, 0, 0>>,
      awaitingConfirmation |-> <<2, 3, 1, 1>>,
      ready                |-> <<3, 4, 2, 2>>],
   responder |->
     [awaitingIntroduction |-> <<3, 1, 1, 0>>,
      awaitingConfirmation |-> <<4, 2, 2, 1>>,
      ready                |-> <<4, 3, 2, 2>>]]
PhaseAgrees(p, s) ==
  /\ s.phase \in DOMAIN Counters[Role(p)]
  /\ Counters[Role(p)][s.phase] = <<s.nextOut, s.nextIn, s.sealed, s.opened>>
  /\ s.session = NoSession <=> s.phase = "awaitingOpen"
  /\ s.local = <<>> <=> s.phase \in {"awaitingOpen", "awaitingAcceptance"}
  /\ s.peer = <<>> <=> s.phase \in
        {"awaitingOpen", "awaitingAcceptance", "awaitingIntroduction"}
OutboxAgrees(p, s) ==
  /\ \A i, j \in 1..Len(s.out) :
       i # j => s.out[i].sequence # s.out[j].sequence
  /\ \A i \in 1..Len(s.out) :
       s.out[i].sequence < s.nextOut /\ s.out[i].role = Role(p)
Resumable(p, s) ==
  /\ PhaseAgrees(p, s) /\ OutboxAgrees(p, s)
  /\ \A i \in 1..Len(s.local) : s.local[i].by = p /\ s.local[i].session = s.session
  /\ \A i \in 1..Len(s.peer) : Introduces(s.peer[i], p, s.session)
  /\ s.peer # <<>> => s.confirmation = IF p = Offerer THEN s.local \o s.peer
                                                      ELSE s.peer \o s.local
  /\ p \in Responders => s.redeemed = {}
  /\ p = Offerer => s.redeemed = {s.session} \ {NoSession}
\* validatePairwiseRelationshipV2 and validateBrowserPersonaState: the same of
\* a stored relationship, and no two of a persona share an ID or keys.
RelationshipAgrees(p, r) ==
  /\ Len(r.local) = 1 /\ Len(r.peer) = 1
  /\ r.local[1].by = p /\ r.local[1].session = r.session
  /\ Introduces(r.peer[1], p, r.session)
PersonaAgrees(p) ==
  /\ \A r \in related[p] : RelationshipAgrees(p, r)
  /\ \A r1, r2 \in related[p] : r1.session = r2.session => r1 = r2
  /\ pending[p] # None => \A r \in related[p] : r.session # pending[p].session
\* requireUniqueRelationshipScopes.
ScopesUnique(p) ==
  /\ \A r1, r2 \in related[p] :
       (r1.local[1].mint = r2.local[1].mint \/ r1.peer = r2.peer) => r1 = r2
  /\ \A r \in related[p] : (pending[p] # None /\ pending[p].local # <<>>) =>
       pending[p].local[1].mint # r.local[1].mint

-----------------------------------------------------------------------------
(* Every state that is saved, or about to be, is one its own validation      *)
(* opens: no sequence of frames, resends and restarts leaves a pairing that  *)
(* neither proceeds nor can be cancelled.                                    *)
EveryStateResumes ==
  \A p \in Participants :
    /\ pending[p] # None => Resumable(p, pending[p])
    /\ draft[p] # None => Resumable(p, draft[p])
    /\ PersonaAgrees(p) /\ ScopesUnique(p)

\* What a participant holds of a session, from the moment it knows both
\* introductions, and the sessions it is ready in or has a relationship of.
Holds(p, session) ==
  {<<r.local, r.peer>> : r \in {x \in related[p] : x.session = session}} \cup
  (IF pending[p] # None /\ pending[p].session = session /\ pending[p].peer # <<>>
   THEN {<<pending[p].local, pending[p].peer>>} ELSE {})
Confirmed(p) == related[p] \cup
  (IF pending[p] # None /\ pending[p].phase = "ready"
   THEN {Relationship(pending[p])} ELSE {})

(* Pairing is mutual and one-use: whoever is ready, or has stored the        *)
(* relationship, shares its session with a peer that holds the same two      *)
(* introductions or has cancelled, a responder only once the offerer is      *)
(* ready too, and the invitation never makes two relationships.              *)
ReadyIsMutual ==
  /\ \A r \in Responders : \A c \in Confirmed(r) :
       \/ [session |-> c.session, local |-> c.peer, peer |-> c.local]
             \in Confirmed(Offerer)
       \/ Offerer \in cancelled
  /\ \A c \in Confirmed(Offerer) :
       \/ <<c.peer, c.local>> \in Holds(c.session[1], c.session)
       \/ c.session[1] \in cancelled
  /\ Cardinality(UNION {{c.session : c \in Confirmed(p)} : p \in Participants})
       <= 1

(* Finishing deletes a lane only when its reader has saved every frame in    *)
(* it; only a cancellation deletes what somebody still has to read.          *)
NothingUnreadDeleted ==
  [][\A p \in Participants :
       lanes[Inbound(p)].open /\ ~lanes'[Inbound(p)].open /\ cancelled' = {}
       /\ lanes[Inbound(p)].frames # <<>> /\ pending[p] # None
       /\ (p = Offerer \/ lanes[Inbound(p)].frames[1].session = pending[p].session)
         => Len(lanes[Inbound(p)].frames) < stored[p].nextIn]_vars

\* Another responder's open holds the first place of the lane.
Beaten(p) ==
  LET opens == lanes["responderToOfferer"].frames IN
  /\ p \in Responders /\ pending[p] # None
  /\ opens # <<>> /\ opens[1].session # pending[p].session
\* The peer has finished and deleted the lane a frame was accepted in before
\* its acceptance was saved: it is sent for ever, and refused.
Stranded(p) ==
  pending[p] # None /\ pending[p].out # <<>> /\ ~lanes[Outbound(p)].open

(* A pairing both sides have begun finishes on both, whatever is interrupted *)
(* and resent, unless it is cancelled, expires, was begun by another         *)
(* responder, or is stranded by an acceptance that was not learned of in     *)
(* time.                                                                     *)
Begun(p) == pending[p] # None /\ pending[p].phase # "awaitingOpen"
PairingCompletes ==
  \A p \in Participants :
    Begun(p) ~> \/ ~Begun(p) \/ expired \/ cancelled # {}
                \/ Beaten(p) \/ Stranded(p)
===============================================================================
