-------------------------- MODULE RouteMaintenance --------------------------
(***************************************************************************)
(* Two endpoints replace the opaque receive routes they have disclosed to  *)
(* each other (maintenance in client/messaging-service.js, the signed      *)
(* route sets of pairwise-opaque-route-v2.js, the control transactions of  *)
(* durable-pairwise-messaging-v2.js and relationship-control-v2.js).  The  *)
(* owner of a route journals each step of its replacement and resumes the  *)
(* journal after any interruption, so a crash is the next step not taken   *)
(* and a lost answer is a step the relay took alone.  Every step here is   *)
(* one anchored save or one relay call.                                    *)
(* A route set is what it says of each route; its digest chain makes a     *)
(* revision and its predecessors one sequence.                             *)
(***************************************************************************)
EXTENDS Integers, Sequences, FiniteSets, Functions, SequencesExt

CONSTANTS Endpoints,   \* the two sides of the relationship
          Rotating,    \* bound: those whose routes run out
          Packets,     \* packets of a sealed bundle
          MaxRoutes,   \* bound: routes an endpoint ever creates
          MaxExtras    \* bound: messages sent and faults met, together

ASSUME MaintenanceAssumption ==
  /\ \E a, b \in Endpoints : a # b /\ Endpoints = {a, b}
  /\ Rotating \subseteq Endpoints
  /\ {Packets, MaxRoutes} \subseteq Nat \ {0}
  /\ MaxExtras \in Nat

VARIABLES
  sets,     \* the route sets each endpoint has signed, oldest first
  known,    \* how many of them its peer has accepted
  local,    \* the receive routes it holds
  journal,  \* its routeMaintenance record, or NoJournal
  closing,  \* its consent and its routeTeardown record
  outbox,   \* its outbound intents that no relay has accepted yet
  accepted, \* its announcements and probes that a relay has accepted
  compacted,\* those announcements whose intents it has dropped since
  probed,   \* the peer's routes it has prepared a probe for
  proven,   \* the routes on which it has stored its peer's probe
  seen,     \* the events it has received
  partial,  \* the incomplete bundles in its reassembly buffers
  overlap,  \* its draining routes whose drain time lies ahead
  expired,  \* its routes up to this one have expired
  gapped,   \* its routes that have lost packets it had not read
  lease,    \* the relay's state of each of its routes
  inbox,    \* the packets on each of its routes it has not committed
  extras    \* how many messages and faults there have been

outgoing == <<outbox, accepted, compacted, probed>>
received == <<known, proven, seen, partial>>
times == <<overlap, expired, gapped>>
vars == <<sets, local, journal, closing, outgoing, received, times, lease, inbox, extras>>

Routes == 1..MaxRoutes
Peer(e) == CHOOSE o \in Endpoints : o # e

States == {"none", "testing", "active", "draining", "revoked"}
Sets == [Routes -> States]
FirstSet == [r \in Routes |-> IF r = 1 THEN "active" ELSE "none"]
Current(e) == Last(sets[e])
View(e) == sets[e][known[e]]      \* what the peer of e believes

\* Where to reach an owner by one of its sets: its routes that are active, or drain
\* for a while yet, and have not expired.
Expired(owner, r) == r <= expired[owner]
Usable(owner, set) ==
  {r \in Routes : /\ ~Expired(owner, r)
                  /\ set[r] = "active" \/ (set[r] = "draining" /\ r \in overlap[owner])}
Destinations(e) == Usable(Peer(e), View(Peer(e)))

\* The successors of a set: a testing route joins and revoked ones leave; a probed
\* one takes over and the old one drains; a drained one is revoked.
AddTesting(set, new) ==
  [r \in Routes |-> IF r = new THEN "testing"
                   ELSE IF set[r] = "revoked" THEN "none" ELSE set[r]]
PromoteProbed(set, new, old) == [set EXCEPT ![new] = "active", ![old] = "draining"]
RevokeDrained(set, old) == [set EXCEPT ![old] = "revoked"]

Journals == [new: Routes, old: Routes, step:
               {"create", "created", "teardown", "tombstone"}, fresh: BOOLEAN]
NoJournal == [step |-> "none"]

\* A blocked endpoint stops everything but the teardown of its routes, which it
\* journals in a save of its own.
Closings == [state: {"no", "blocked", "journaled"}, pending: SUBSET Routes]
NotClosing == [state |-> "no", pending |-> {}]

\* An event: a signed route set, a probe of a peer route, or a message.
Events == [kind: {"set", "probe", "text"}, n: Nat, revision: Nat]
SetUpdate(n) == [kind |-> "set", n |-> n, revision |-> n]
Probe(r, revision) == [kind |-> "probe", n |-> r, revision |-> revision]
Text(n) == [kind |-> "text", n |-> n, revision |-> 0]

\* The packets of an event that each destination route has accepted; an intent that
\* has failed for good keeps no destination and holds up those behind it.
Intents == [event: Events, sent: UNION {[D -> 0..Packets] : D \in SUBSET Routes}]
Intent(event, to) == [event |-> event, sent |-> [r \in to |-> 0]]

TypeOK ==
  /\ sets \in [Endpoints -> Seq(Sets)]
  /\ \A e \in Endpoints : known[e] \in DOMAIN sets[e]
  /\ local \in [Endpoints -> SUBSET Routes]
  /\ journal \in [Endpoints -> Journals \cup {NoJournal}]
  /\ closing \in [Endpoints -> Closings]
  /\ outbox \in [Endpoints -> Seq(Intents)]
  /\ accepted \in [Endpoints -> SUBSET Events] /\ compacted \in [Endpoints -> SUBSET Events]
  /\ probed \in [Endpoints -> SUBSET Routes]
  /\ proven \in [Endpoints -> SUBSET Routes]
  /\ seen \in [Endpoints -> SUBSET Events]
  /\ partial \in [Endpoints -> SUBSET (Routes \X Events)]
  /\ overlap \in [Endpoints -> SUBSET Routes] /\ gapped \in [Endpoints -> SUBSET Routes]
  /\ expired \in [Endpoints -> 0..MaxRoutes]
  /\ lease \in [Endpoints -> [Routes -> {"absent", "open", "tornDown"}]]
  /\ inbox \in [Endpoints -> [Routes -> Seq(Events \X (1..Packets))]]
  /\ extras \in 0..MaxExtras

Init ==
  /\ sets = [e \in Endpoints |-> <<FirstSet>>]
  /\ known = [e \in Endpoints |-> 1]
  /\ local = [e \in Endpoints |-> {1}]
  /\ journal = [e \in Endpoints |-> NoJournal]
  /\ closing = [e \in Endpoints |-> NotClosing]
  /\ outbox = [e \in Endpoints |-> <<>>]
  /\ accepted = [e \in Endpoints |-> {}] /\ compacted = [e \in Endpoints |-> {}]
  /\ probed = [e \in Endpoints |-> {}]
  /\ proven = [e \in Endpoints |-> {}]
  /\ seen = [e \in Endpoints |-> {}]
  /\ partial = [e \in Endpoints |-> {}]
  /\ overlap = [e \in Endpoints |-> {}] /\ gapped = [e \in Endpoints |-> {}]
  /\ expired = [e \in Endpoints |-> 0]
  /\ lease = [e \in Endpoints |->
                [r \in Routes |-> IF r = 1 THEN "open" ELSE "absent"]]
  /\ inbox = [e \in Endpoints |-> [r \in Routes |-> <<>>]]
  /\ extras = 0

Active(e) == closing[e].state = "no"
At(e, step) == journal[e] # NoJournal /\ journal[e].step = step
Extra == extras < MaxExtras /\ extras' = extras + 1

\* Sign the next route set and queue its announcement, in one save.
Announce(e, set) ==
  /\ Destinations(e) # {}
  /\ sets' = [sets EXCEPT ![e] = Append(@, set)]
  /\ outbox' = [outbox EXCEPT ![e] =
       Append(@, Intent(SetUpdate(Len(sets[e]) + 1), Destinations(e)))]
  /\ UNCHANGED <<accepted, compacted, probed>>

\* Every pass of the maintenance asks this before it closes the old route: its
\* revocation is signed and its intent found among the accepted ones.
\* Mutant: it does not wait for the route to drain.
RevocationAcceptedDraining(e) ==
  /\ Current(e)[journal[e].old] \in {"draining", "revoked"}
  /\ SetUpdate(Len(sets[e])) \in accepted[e] \ compacted[e]
\* Mutant: it does not wait for a relay to accept the revocation.
RevocationSigned(e) == Current(e)[journal[e].old] = "revoked"
RevocationAccepted(e) ==
  /\ Current(e)[journal[e].old] = "revoked"
  /\ SetUpdate(Len(sets[e])) \in accepted[e] \ compacted[e]

-----------------------------------------------------------------------------
(* The owner's journal.                                                    *)

\* A route that runs out is replaced, while it still can be read and the peer be
\* told: fresh authority is saved first.
Candidates(e) ==
  IF e \notin Rotating \/ Destinations(e) = {} THEN {}
  ELSE {r \in local[e] \ gapped[e] : Current(e)[r] = "active" /\ ~Expired(e, r)}
StartReplacement(e) ==
  /\ Active(e) /\ journal[e] = NoJournal
  /\ \E old \in Candidates(e), new \in Routes :
       /\ lease[e][new] = "absent" /\ \A r \in Routes : r < new => lease[e][r] # "absent"
       /\ journal' = [journal EXCEPT ![e] =
            [new |-> new, old |-> old, step |-> "create", fresh |-> TRUE]]
  /\ UNCHANGED <<sets, local, closing, outgoing, received, times, lease, inbox, extras>>

\* The relay creates the route, again if it has to; the answer may be lost.
CreateRoute(e) ==
  /\ Active(e) /\ At(e, "create") /\ journal[e].fresh
  /\ lease[e][journal[e].new] # "tornDown"
  /\ lease' = [lease EXCEPT ![e][journal[e].new] = "open"]
  /\ \/ /\ journal' = [journal EXCEPT ![e].step = "created"]
        /\ UNCHANGED extras
     \/ Extra /\ UNCHANGED journal
  /\ UNCHANGED <<sets, local, closing, outgoing, received, times, inbox>>

\* A signed request that is older than the clock skew is refused from then on.
Age(e) ==
  /\ Extra
  /\ journal[e].step \in {"create", "teardown"} /\ journal[e].fresh
  /\ journal' = [journal EXCEPT ![e].fresh = FALSE]
  /\ UNCHANGED <<sets, local, closing, outgoing, received, times, lease, inbox>>

PublishTesting(e) ==
  /\ Active(e) /\ At(e, "created")
  /\ Current(e)[journal[e].new] = "none"
  /\ Announce(e, AddTesting(Current(e), journal[e].new))
  /\ local' = [local EXCEPT ![e] = @ \cup {journal[e].new}]
  /\ UNCHANGED <<journal, closing, received, times, lease, inbox, extras>>

\* The peer's probe has come in on the new route: it takes over, and the old one
\* drains. Once the old route has expired there is no overlap to offer, and every
\* attempt fails.
Promote(e) ==
  /\ Active(e) /\ At(e, "created")
  /\ journal[e].new \in proven[e]
  /\ Current(e)[journal[e].new] = "testing"
  /\ Current(e)[journal[e].old] = "active" /\ ~Expired(e, journal[e].old)
  /\ Announce(e, PromoteProbed(Current(e), journal[e].new, journal[e].old))
  /\ overlap' = [overlap EXCEPT ![e] = @ \cup {journal[e].old}]
  /\ UNCHANGED <<local, journal, closing, received, expired, gapped, lease, inbox, extras>>

OverlapEnds(e) ==
  /\ overlap[e] # {}
  /\ overlap' = [overlap EXCEPT ![e] = {}]
  /\ UNCHANGED <<sets, local, journal, closing, outgoing, received, expired, gapped, lease,
                 inbox, extras>>

Revoke(e) ==
  /\ Active(e) /\ At(e, "created")
  /\ Current(e)[journal[e].new] = "active"
  /\ Current(e)[journal[e].old] = "draining" /\ journal[e].old \notin overlap[e]
  /\ Announce(e, RevokeDrained(Current(e), journal[e].old))
  /\ UNCHANGED <<local, journal, closing, received, times, lease, inbox, extras>>

\* Once a relay has accepted the revocation the teardown is signed and saved.
SignTeardown(e) ==
  /\ Active(e) /\ At(e, "created") /\ RevocationAccepted(e)
  /\ journal' = [journal EXCEPT ![e].step = "teardown", ![e].fresh = TRUE]
  /\ UNCHANGED <<sets, local, closing, outgoing, received, times, lease, inbox, extras>>

\* The relay tears the route down, expired or not; a repeated request is answered
\* again.
\* Mutant: the relay refuses what it has done already.
TearDownOnce(e) ==
  /\ Active(e) /\ At(e, "teardown") /\ RevocationAccepted(e)
  /\ journal[e].fresh /\ lease[e][journal[e].old] = "open"
  /\ lease' = [lease EXCEPT ![e][journal[e].old] = "tornDown"]
  /\ \/ /\ journal' = [journal EXCEPT ![e].step = "tombstone"]
        /\ UNCHANGED extras
     \/ Extra /\ UNCHANGED journal
  /\ UNCHANGED <<sets, local, closing, outgoing, received, times, inbox>>
TearDown(e) ==
  /\ Active(e) /\ At(e, "teardown") /\ RevocationAccepted(e)
  /\ journal[e].fresh \/ lease[e][journal[e].old] = "tornDown"
  /\ lease' = [lease EXCEPT ![e][journal[e].old] = "tornDown"]
  /\ \/ /\ journal' = [journal EXCEPT ![e].step = "tombstone"]
        /\ UNCHANGED extras
     \/ Extra /\ UNCHANGED journal
  /\ UNCHANGED <<sets, local, closing, outgoing, received, times, inbox>>

\* finalizeLocalRouteRetirement, refused while a bundle is incomplete or after a
\* continuity gap; the pass after it drops the journal.
MayRetire(e, old) ==
  /\ Current(e)[old] = "revoked"
  /\ local[e] # {old}
  /\ old \notin gapped[e] /\ \A p \in partial[e] : p[1] # old
Retire(e) ==
  /\ Active(e) /\ At(e, "tombstone") /\ RevocationAccepted(e)
  /\ LET old == journal[e].old IN
     /\ old \in local[e] => MayRetire(e, old)
     /\ IF old \in local[e]
        THEN local' = [local EXCEPT ![e] = @ \ {old}] /\ UNCHANGED journal
        ELSE journal' = [journal EXCEPT ![e] = NoJournal] /\ UNCHANGED local
  /\ UNCHANGED <<sets, closing, outgoing, received, times, lease, inbox, extras>>

-----------------------------------------------------------------------------
(* What time and the relay's retention do to the routes.                   *)

\* The owner's routes expire in the order it made them: a new one is leased for
\* longer than its predecessor has left, and a drain ends before its lease. The
\* request that creates a route is refused long before.
Expire(e) ==
  /\ Extra
  /\ \E r \in Routes :
       /\ lease[e][r] = "open" /\ ~Expired(e, r) /\ r \notin overlap[e]
       /\ \A q \in 1..(r - 1) : lease[e][q] = "open" => Expired(e, q)
       /\ ~(At(e, "create") /\ journal[e].fresh /\ journal[e].new = r)
       /\ expired' = [expired EXCEPT ![e] = r]
  /\ UNCHANGED <<sets, local, journal, closing, outgoing, received, overlap, gapped, lease,
                 inbox>>

\* The owner's next read finds that the relay has dropped packets it had not read: a
\* continuity gap, after which the route is not read again.
Readable(e, r) ==
  r \in local[e] \ gapped[e] /\ lease[e][r] = "open" /\ ~Expired(e, r)
FindGap(e) ==
  /\ Active(e) /\ Extra
  /\ \E r \in Routes :
       /\ Readable(e, r) /\ inbox[e][r] # <<>>
       /\ gapped' = [gapped EXCEPT ![e] = @ \cup {r}]
  /\ UNCHANGED <<sets, local, journal, closing, outgoing, received, overlap, expired, lease,
                 inbox>>

-----------------------------------------------------------------------------
(* The intents and the relays between the endpoints.                       *)

\* Every testing route the peer has announced is probed, once, unless it has
\* expired.
PrepareProbe(e) ==
  /\ Active(e)
  /\ \E r \in Routes \ probed[e] :
       /\ View(Peer(e))[r] = "testing" /\ ~Expired(Peer(e), r)
       /\ probed' = [probed EXCEPT ![e] = @ \cup {r}]
       /\ outbox' = [outbox EXCEPT ![e] =
            Append(@, Intent(Probe(r, known[Peer(e)]), {r}))]
  /\ UNCHANGED <<sets, local, journal, closing, accepted, compacted, received, times, lease,
                 inbox, extras>>

PrepareText(e) ==
  /\ Active(e) /\ Extra
  /\ Destinations(e) # {}
  /\ outbox' = [outbox EXCEPT ![e] =
       Append(@, Intent(Text(extras + 1), Destinations(e)))]
  /\ UNCHANGED <<sets, local, journal, closing, accepted, compacted, probed, received,
                 times, lease, inbox>>

\* resumeOutbound: the first intent is offered to its routes packet by packet.
Submit(e) ==
  /\ Active(e) /\ outbox[e] # <<>>
  /\ LET head == Head(outbox[e]) IN
     \E r \in DOMAIN head.sent :
       /\ head.sent[r] < Packets
       /\ lease[Peer(e)][r] = "open" /\ ~Expired(Peer(e), r)
       /\ outbox' = [outbox EXCEPT ![e] = <<[head EXCEPT !.sent[r] = @ + 1]>> \o Tail(@)]
       /\ inbox' = [inbox EXCEPT ![Peer(e)][r] =
                      Append(@, <<head.event, head.sent[r] + 1>>)]
  /\ UNCHANGED <<sets, local, journal, closing, accepted, compacted, probed, received,
                 times, lease, extras>>

\* One route that has the whole bundle is enough: the other deliveries, failed
\* or not, are dropped.
Delivered(intent) == \E r \in DOMAIN intent.sent : intent.sent[r] = Packets
Settle(e) ==
  /\ Active(e) /\ outbox[e] # <<>>
  /\ Delivered(Head(outbox[e]))
  /\ outbox' = [outbox EXCEPT ![e] = Tail(@)]
  /\ accepted' = [accepted EXCEPT ![e] =
       IF Head(outbox[e]).event.kind = "text" THEN @ ELSE @ \cup {Head(outbox[e]).event}]
  /\ UNCHANGED <<sets, local, journal, closing, compacted, probed, received, times, lease,
                 inbox, extras>>

\* A bundle found damaged at every route will never be sent: it has failed for good.
Fail(e) ==
  /\ Active(e) /\ outbox[e] # <<>> /\ Extra
  /\ DOMAIN Head(outbox[e]).sent # {} /\ ~Delivered(Head(outbox[e]))
  /\ outbox' = [outbox EXCEPT ![e] = <<[Head(@) EXCEPT !.sent = <<>>]>> \o Tail(@)]
  /\ UNCHANGED <<sets, local, journal, closing, accepted, compacted, probed, received,
                 times, lease, inbox>>

\* The user discards a message; one that was to open a session and that no route
\* has taken goes with all that was prepared in the session, announcements too.
Discard(e) ==
  /\ Active(e) /\ Extra
  /\ \E i \in DOMAIN outbox[e] :
       /\ outbox[e][i].event.kind = "text"
       /\ \/ outbox' = [outbox EXCEPT ![e] = RemoveAt(@, i)]
          \/ /\ DOMAIN outbox[e][i].sent # {} /\ ~Delivered(outbox[e][i])
             /\ outbox' = [outbox EXCEPT ![e] = SubSeq(@, 1, i - 1)]
  /\ UNCHANGED <<sets, local, journal, closing, accepted, compacted, probed, received,
                 times, lease, inbox>>

\* The list of intents is trimmed: what is accepted, discarded or failed leaves it.
\* A probe that is not found there is prepared again.
Waiting(e, kind, n) ==
  \E i \in DOMAIN outbox[e] : outbox[e][i].event.kind = kind /\ outbox[e][i].event.n = n
Compact(e) ==
  /\ Active(e) /\ Extra
  /\ \/ \E event \in accepted[e] \ compacted[e] :
          /\ event.kind = "set" /\ compacted' = [compacted EXCEPT ![e] = @ \cup {event}]
          /\ UNCHANGED <<outbox, probed>>
     \/ /\ outbox[e] # <<>> /\ Head(outbox[e]).sent = <<>>
        /\ outbox' = [outbox EXCEPT ![e] = Tail(@)]
        /\ UNCHANGED <<compacted, probed>>
     \/ \E r \in probed[e] :
          /\ ~Waiting(e, "probe", r) /\ probed' = [probed EXCEPT ![e] = @ \ {r}]
          /\ UNCHANGED <<outbox, compacted>>
  /\ UNCHANGED <<sets, local, journal, closing, accepted, received, times, lease, inbox>>

\* What reading one packet does to what e has received; an event it cannot
\* apply leaves the reading marked as failed.
Reading(e) == [known |-> known[Peer(e)], seen |-> seen[e], proven |-> proven[e],
               partial |-> partial[e], failed |-> FALSE]
Succeeds(e, event, now) ==
  event.n = now.known + 1 /\ Usable(Peer(e), sets[Peer(e)][event.n]) # {}
ProbesTested(e, r, event) ==
  event.revision = Len(sets[e]) /\ event.n = r /\ Current(e)[r] = "testing"
Apply(e, r, event, now) ==
  CASE event.kind = "probe" ->
         [now EXCEPT !.proven = @ \cup {r}, !.seen = @ \cup {event},
                     !.failed = @ \/ ~ProbesTested(e, r, event)]
    [] event \in now.seen -> now
    [] event.kind = "set" /\ event \notin now.seen ->
         [now EXCEPT !.known = event.n, !.seen = @ \cup {event},
                     !.failed = @ \/ ~Succeeds(e, event, now)]
    [] OTHER -> [now EXCEPT !.seen = @ \cup {event}]
Consume(e, r, packet, now) ==
  IF packet[2] < Packets
  THEN [now EXCEPT !.partial = @ \cup {<<r, packet[1]>>}]
  ELSE Apply(e, r, packet[1], [now EXCEPT !.partial = @ \ {<<r, packet[1]>>}])
Page(e, r) ==
  LET packets == inbox[e][r]
      after[n \in 0..Len(packets)] ==
        IF n = 0 THEN Reading(e) ELSE Consume(e, r, packets[n], after[n - 1])
  IN  after[Len(packets)]

\* syncReceive: a page is stored as a whole, or not at all.
Receive(e) ==
  /\ Active(e)
  /\ \E r \in Routes :
       /\ Readable(e, r) /\ inbox[e][r] # <<>>
       /\ LET now == Page(e, r) IN
          /\ ~now.failed
          /\ known' = [known EXCEPT ![Peer(e)] = now.known]
          /\ seen' = [seen EXCEPT ![e] = now.seen]
          /\ proven' = [proven EXCEPT ![e] = now.proven]
          /\ partial' = [partial EXCEPT ![e] = now.partial]
       /\ inbox' = [inbox EXCEPT ![e][r] = <<>>]
  /\ UNCHANGED <<sets, local, journal, closing, outgoing, times, lease, extras>>

-----------------------------------------------------------------------------
(* Blocking a relationship.                                                *)

Block(e) ==
  /\ Active(e) /\ Extra
  /\ closing' = [closing EXCEPT ![e].state = "blocked"]
  /\ UNCHANGED <<sets, local, journal, outgoing, received, times, lease, inbox>>

\* The routes it holds, and the one its journal has been told of, are to go, but
\* for those whose lease has run out.
Unexpired(e, routes) == {r \in routes : ~Expired(e, r)}
\* Mutant: the journal's route is overlooked.
JournalLocal(e) ==
  /\ closing[e].state = "blocked"
  /\ closing' = [closing EXCEPT ![e] =
       [state |-> "journaled", pending |-> Unexpired(e, local[e])]]
  /\ UNCHANGED <<sets, local, journal, outgoing, received, times, lease, inbox, extras>>
JournalTeardown(e) ==
  /\ closing[e].state = "blocked"
  /\ closing' = [closing EXCEPT ![e] =
       [state |-> "journaled",
        pending |-> Unexpired(e, local[e] \cup
          IF journal[e].step \in {"created", "teardown"} THEN {journal[e].new} ELSE {})]]
  /\ UNCHANGED <<sets, local, journal, outgoing, received, times, lease, inbox, extras>>

ResumeTeardown(e) ==
  /\ \E r \in closing[e].pending :
       /\ lease' = [lease EXCEPT ![e][r] = "tornDown"]
       /\ \/ /\ closing' = [closing EXCEPT ![e].pending = @ \ {r}]
             /\ UNCHANGED extras
          \/ Extra /\ UNCHANGED closing
  /\ UNCHANGED <<sets, local, journal, outgoing, received, times, inbox>>

\* The maintenance journal is dropped once every teardown has been answered.
DropJournal(e) ==
  /\ closing[e].state = "journaled" /\ closing[e].pending = {}
  /\ journal[e] # NoJournal
  /\ journal' = [journal EXCEPT ![e] = NoJournal]
  /\ UNCHANGED <<sets, local, closing, outgoing, received, times, lease, inbox, extras>>

Maintain(e) ==
  \/ StartReplacement(e) \/ CreateRoute(e) \/ PublishTesting(e) \/ Promote(e)
  \/ OverlapEnds(e) \/ Revoke(e) \/ SignTeardown(e) \/ TearDown(e) \/ Retire(e)
Exchange(e) ==
  \/ PrepareProbe(e) \/ PrepareText(e) \/ Submit(e) \/ Settle(e) \/ Receive(e)
  \/ Fail(e) \/ Discard(e) \/ Compact(e)
Close(e) ==
  Block(e) \/ JournalTeardown(e) \/ ResumeTeardown(e) \/ DropJournal(e)
Lapse(e) == Age(e) \/ Expire(e) \/ FindGap(e)

Next == \E e \in Endpoints : Maintain(e) \/ Exchange(e) \/ Close(e) \/ Lapse(e)
Spec == Init /\ [][Next]_vars

\* The pumps of each side keep running (its maintenance, its outbox, its reading,
\* its teardown), and overlaps end: while there is a step to take, one is taken.
Pump(e) ==
  \/ CreateRoute(e) \/ PublishTesting(e) \/ PrepareProbe(e) \/ Promote(e)
  \/ OverlapEnds(e) \/ Revoke(e) \/ SignTeardown(e) \/ TearDown(e) \/ Retire(e)
  \/ Submit(e) \/ Settle(e) \/ Receive(e) \/ ResumeTeardown(e)
FairSpec == Spec /\ \A e \in Endpoints : WF_vars(Pump(e))

-----------------------------------------------------------------------------
(* What has to hold.                                                       *)

\* A route its owner advertises is one it still reads and that the relay has not
\* torn down: it is served until its lease runs out.
AdvertisedIsServed ==
  \A e \in Endpoints, r \in Routes :
    Active(e) /\ Current(e)[r] \in {"testing", "active", "draining"} =>
      r \in local[e] /\ lease[e][r] = "open"

\* Unless its owner blocks, a route is torn down only after its revocation has
\* been accepted by a relay of its peer.
TornDownAfterRevocation ==
  \A e \in Endpoints, r \in Routes :
    lease[e][r] = "tornDown" /\ Active(e) =>
      \E n \in DOMAIN sets[e] : sets[e][n][r] = "revoked" /\ SetUpdate(n) \in accepted[e]

\* When a blocked endpoint reports its routes torn down, each route it holds and
\* each creation it was told of is, or has expired.
ReportedRoutesAreTornDown ==
  \A e \in Endpoints :
    closing[e].state = "journaled" /\ closing[e].pending = {} =>
      \A r \in local[e] \cup
           (IF journal[e].step = "created" THEN {journal[e].new} ELSE {}) :
        lease[e][r] = "tornDown" \/ Expired(e, r)

\* The first intent of e has failed for good, or is addressed to routes alone that
\* are torn down or have expired: no relay will take it, and none of the intents
\* behind it is offered.
Stranded(e) ==
  /\ outbox[e] # <<>> /\ ~Delivered(Head(outbox[e]))
  /\ \A r \in DOMAIN Head(outbox[e]).sent :
       lease[Peer(e)][r] = "tornDown" \/ Expired(Peer(e), r)

\* Packets that e will not read: their route is closed to it or refuses the page.
Unread(e) ==
  \E r \in Routes :
    \/ ~Readable(e, r) /\ (inbox[e][r] # <<>> \/ \E p \in partial[e] : p[1] = r)
    \/ Readable(e, r) /\ Page(e, r).failed

\* An announcement of e, or its probe of route r, was discarded with a session or
\* trimmed as failed: it is neither waiting nor accepted.
AnnouncementDropped(e) ==
  \E n \in 2..Len(sets[e]) : SetUpdate(n) \notin accepted[e] /\ ~Waiting(e, "set", n)
ProbeDropped(e, r) ==
  /\ r \in probed[e] /\ ~Waiting(e, "probe", r)
  /\ \A event \in accepted[e] : event.kind = "probe" => event.n # r

\* What keeps a replacement from ending for ever. Nobody is told of it, or its
\* request is refused; the old route expired before it was drained; the new one has
\* a gap before it is proven; the revocation is no longer found as accepted; the
\* torn-down route has a gap or holds a bundle that will never be complete.
Stalled(e) ==
  LET new == journal[e].new
      old == journal[e].old IN
  \/ ~Active(e) \/ ~Active(Peer(e)) \/ ~journal[e].fresh
  \/ Stranded(e) \/ AnnouncementDropped(e) \/ Unread(Peer(e)) \/ Destinations(e) = {}
  \/ Stranded(Peer(e)) \/ ProbeDropped(Peer(e), new)
  \/ Current(e)[old] = "active" /\ (Expired(e, old) \/ new \in gapped[e])
  \/ Current(e)[old] = "revoked" /\ SetUpdate(Len(sets[e])) \in compacted[e]
  \/ At(e, "tombstone") /\ (old \in gapped[e] \/ \E p \in partial[e] : p[1] = old)

\* Every replacement ends, whatever answers are lost on the way, unless it is stalled
\* in the end and stays so.
ReplacementEnds ==
  \A e \in Rotating :
    []<>(journal[e] = NoJournal) \/ <>[](journal[e] # NoJournal /\ Stalled(e))
=============================================================================
