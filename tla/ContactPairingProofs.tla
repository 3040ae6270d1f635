------------------------- MODULE ContactPairingProofs -------------------------
(* Why a pairing is mutual, makes one relationship, leaves no state that cannot *)
(* be resumed and deletes no frame that is still to be read: proved for any     *)
(* responders and any number of attempts.                                       *)
EXTENDS ContactPairing, SequencesExt, FiniteSetTheorems, SequenceTheorems, TLAPS

-----------------------------------------------------------------------------
(* What the states are made of *)

Sessions == Responders \X Nat
Intros == [by: Participants, mint: Nat, session: Sessions]
Kinds == {"open", "contactAcceptance", "contactOffer", "confirmation"}
Frames == [sequence: Nat, role: {"offerer", "responder"}, number: Nat, kind: Kinds,
           session: Sessions, content: Seq(Intros)]
Phases == {"awaitingOpen", "awaitingAcceptance", "awaitingIntroduction",
           "awaitingConfirmation", "ready"}
States == [phase: Phases, session: Sessions \cup {NoSession}, redeemed: SUBSET Sessions,
           sealed: Nat, opened: Nat, local: Seq(Intros), peer: Seq(Intros),
           confirmation: Seq(Intros), nextOut: Nat, nextIn: Nat, out: Seq(Frames)]
Links == [session: Sessions, local: Seq(Intros), peer: Seq(Intros)]

TypeOK ==
  /\ pending \in [Participants -> States \cup {None}] /\ stored = pending
  /\ related \in [Participants -> SUBSET Links]
  /\ minted \in [Participants -> Nat]
  /\ pump \in [Participants -> {"idle", "accepted", "finishing", "cancelling"}]
  /\ batch \in [Participants -> Seq(Frames)]
  /\ draft \in [Participants -> States \cup {None}]
  /\ lanes \in [Directions -> [open: BOOLEAN, frames: Seq(Frames)]]
  /\ expired \in BOOLEAN /\ cancelled \in SUBSET Participants

\* Both introductions are known, and confirmed in the offerer's order.
Met(p, s) ==
  /\ s.session \in Sessions /\ Len(s.local) = 1 /\ Len(s.peer) = 1
  /\ s.local[1].by = p /\ s.local[1].session = s.session
  /\ Introduces(s.peer[1], p, s.session)
  /\ s.confirmation = IF p = Offerer THEN <<s.local[1], s.peer[1]>>
                                     ELSE <<s.peer[1], s.local[1]>>

Counts(s, nextOut, nextIn, sealed, opened) ==
  s.nextOut = nextOut /\ s.nextIn = nextIn /\ s.sealed = sealed /\ s.opened = opened

\* The outbox holds the last frames sealed, each in the place it was sealed for.
InPlace(s) ==
  /\ Len(s.out) < s.nextOut
  /\ \A i \in 1..Len(s.out) : s.out[i].sequence = s.nextOut - Len(s.out) + i - 1

\* A frame p sealed in this state or before it.
Sealed(p, s, f) ==
  /\ f.role = Role(p) /\ f.session = s.session
  /\ f.kind \in {"contactAcceptance", "contactOffer"} => Len(f.content) = 1
  /\ f.kind = "confirmation" => Len(s.peer) = 1 /\ f.content = s.confirmation
  /\ f.kind = "confirmation" /\ p = Offerer => s.phase = "ready"

Outbox(p, s) == InPlace(s) /\ \A f \in ToSet(s.out) : Sealed(p, s, f)

OffererWell(s) ==
  /\ Outbox(Offerer, s)
  /\ \/ /\ s.phase = "awaitingOpen" /\ s.session = NoSession /\ s.redeemed = {}
        /\ Counts(s, 1, 1, 0, 0) /\ s.local = <<>> /\ s.peer = <<>>
     \/ /\ s.phase = "awaitingAcceptance" /\ s.session \in Sessions
        /\ s.redeemed = {s.session}
        /\ Counts(s, 1, 2, 0, 0) /\ s.local = <<>> /\ s.peer = <<>>
     \/ /\ s.phase = "awaitingConfirmation" /\ Met(Offerer, s)
        /\ s.redeemed = {s.session} /\ Counts(s, 2, 3, 1, 1)
     \/ /\ s.phase = "ready" /\ Met(Offerer, s)
        /\ s.redeemed = {s.session} /\ Counts(s, 3, 4, 2, 2)

\* A responder introduces itself with the keys its session was made with.
ResponderWell(r, s) ==
  /\ Outbox(r, s) /\ s.redeemed = {}
  /\ s.session \in Sessions /\ s.session[1] = r
  /\ s.local = <<Introduction(r, s.session[2], s.session)>>
  /\ \/ s.phase = "awaitingIntroduction" /\ Counts(s, 3, 1, 1, 0) /\ s.peer = <<>>
     \/ s.phase = "awaitingConfirmation" /\ Counts(s, 4, 2, 2, 1) /\ Met(r, s)
     \/ s.phase = "ready" /\ Counts(s, 4, 3, 2, 2) /\ Met(r, s)

Well(p, s) == IF p = Offerer THEN OffererWell(s) ELSE ResponderWell(p, s)

\* A processed frame is a step forward.
Advances(s, d) ==
  /\ s.phase # "ready"
  /\ s.session # NoSession => d.session = s.session
  /\ s.peer # <<>> => d.peer = s.peer /\ d.local = s.local

PumpWell(p) ==
  /\ pending[p] # None => Well(p, pending[p])
  /\ draft[p] # None =>
       /\ pending[p] # None /\ Well(p, draft[p]) /\ Advances(pending[p], draft[p])
       /\ p # Offerer => draft[p].session = pending[p].session
  /\ batch[p] # <<>> => pending[p] # None
  /\ pump[p] # "idle" => pending[p] # None /\ batch[p] = <<>> /\ draft[p] = None
  /\ pump[p] = "accepted" => pending[p].out # <<>>
  /\ pump[p] = "finishing" => pending[p].phase = "ready"

-----------------------------------------------------------------------------
(* What a persona keeps *)

\* A relationship is what a ready pairing leaves.
LinkWell(p, c) ==
  /\ RelationshipAgrees(p, c)
  /\ p # Offerer => /\ c.session[1] = p
                    /\ c.local = <<Introduction(p, c.session[2], c.session)>>

OffererKeeps ==
  /\ pending[Offerer] # None => related[Offerer] = {} /\ minted[Offerer] > 0
  /\ minted[Offerer] = 0 => related[Offerer] = {}
  /\ \A c, d \in related[Offerer] : c = d
ResponderKeeps(r) ==
  /\ \A c \in related[r] : c.session[2] <= minted[r]
  /\ \A c, d \in related[r] : c.session = d.session => c = d
  /\ pending[r] # None => /\ pending[r].session[2] <= minted[r]
                          /\ \A c \in related[r] : c.session # pending[r].session
PersonaWell(p) ==
  /\ \A c \in related[p] : LinkWell(p, c)
  /\ IF p = Offerer THEN OffererKeeps ELSE ResponderKeeps(p)

-----------------------------------------------------------------------------
(* What the frames promise *)

\* The offerer confirms once it is ready, and then it is or has a relationship,
\* or it has cancelled; a responder once it knows both introductions.
OffererConfirmed(f) ==
  \/ Offerer \in cancelled
  \/ \E c \in Confirmed(Offerer) :
       c.session = f.session /\ f.content = <<c.local[1], c.peer[1]>>
ResponderConfirmed(f) ==
  \/ f.session[1] \in cancelled
  \/ \E h \in Holds(f.session[1], f.session) : f.content = <<h[2][1], h[1][1]>>

FrameWell(f) ==
  /\ f.kind \in {"contactAcceptance", "contactOffer"} => Len(f.content) = 1
  /\ f.kind = "confirmation" => IF f.role = "offerer" THEN OffererConfirmed(f)
                                                     ELSE ResponderConfirmed(f)

LanesWell == \A d \in Directions : \A f \in ToSet(lanes[d].frames) : FrameWell(f)
BatchWell(p) == \A f \in ToSet(batch[p]) : FrameWell(f)

LanesShort ==
  /\ Len(lanes["offererToResponder"].frames) <= 2
  /\ Len(lanes["responderToOfferer"].frames) <= 3

\* A ready pairing, a saved one and a relationship have their counterpart.
OffererMutual(c) ==
  \/ c.session[1] \in cancelled
  \/ <<c.peer, c.local>> \in Holds(c.session[1], c.session)
ResponderMutual(c) ==
  \/ Offerer \in cancelled
  \/ [session |-> c.session, local |-> c.peer, peer |-> c.local] \in Confirmed(Offerer)
Mutual(p, c) == IF p = Offerer THEN OffererMutual(c) ELSE ResponderMutual(c)

Drafted(p) == draft[p] # None /\ draft[p].phase = "ready"
PeersAgree(p) ==
  /\ \A c \in Confirmed(p) : Mutual(p, c)
  /\ Drafted(p) => Mutual(p, Relationship(draft[p]))

-----------------------------------------------------------------------------
(* The invitation has one session *)

BoundByOfferer(session) ==
  \/ /\ pending[Offerer] # None /\ pending[Offerer].session = session
     /\ session # NoSession
  \/ \E c \in related[Offerer] : c.session = session
  \/ \E f \in ToSet(lanes["offererToResponder"].frames) : f.session = session
BoundByResponder(r, session) ==
  \/ \E f \in ToSet(batch[r]) : f.session = session
  \/ \E c \in Confirmed(r) : c.session = session
  \/ Drafted(r) /\ draft[r].session = session
Bound(session) ==
  BoundByOfferer(session) \/ \E r \in Responders : BoundByResponder(r, session)

OneSession ==
  /\ \A s, t \in Sessions : Bound(s) /\ Bound(t) => s = t
  /\ \A s \in Sessions : Bound(s) =>
       /\ minted[Offerer] > 0
       /\ pending[Offerer] # None => pending[Offerer].session # NoSession

PairingInv ==
  /\ TypeOK /\ LanesWell /\ LanesShort /\ OneSession
  /\ \A p \in Participants : PumpWell(p) /\ PersonaWell(p) /\ BatchWell(p) /\ PeersAgree(p)

-----------------------------------------------------------------------------
(* Sequences and states *)

LEMMA Elements ==
  ASSUME NEW S, NEW q \in Seq(S)
  PROVE  /\ Len(q) \in Nat /\ DOMAIN q = 1..Len(q)
         /\ ToSet(q) \subseteq S /\ \A i \in 1..Len(q) : q[i] \in ToSet(q)
         /\ \A f \in ToSet(q) : \E i \in 1..Len(q) : q[i] = f
         /\ q = <<>> <=> Len(q) = 0
         /\ q = <<>> <=> ToSet(q) = {}
<1>1. Len(q) \in Nat /\ DOMAIN q = 1..Len(q) /\ \A i \in 1..Len(q) : q[i] \in S
  BY LenProperties, ElementOfSeq
<1>2. q = <<>> <=> Len(q) = 0
  BY EmptySeq
<1>3. ToSet(q) = {q[i] : i \in 1..Len(q)}
  BY <1>1 DEF ToSet
<1>4. q # <<>> => q[1] \in ToSet(q)
  BY <1>1, <1>2, <1>3
<1> QED BY <1>1, <1>2, <1>3, <1>4

LEMMA NoElements == ToSet(<<>>) = {} /\ Len(<<>>) = 0
BY DEF ToSet

LEMMA Appended ==
  ASSUME NEW S, NEW q \in Seq(S), NEW x \in S
  PROVE  /\ Append(q, x) \in Seq(S) /\ Len(Append(q, x)) = Len(q) + 1
         /\ ToSet(Append(q, x)) = ToSet(q) \cup {x} /\ Append(q, x) # <<>>
         /\ \A i \in 1..Len(q) : Append(q, x)[i] = q[i]
         /\ Append(q, x)[Len(q) + 1] = x
<1> DEFINE a == Append(q, x)
<1>1. /\ a \in Seq(S) /\ Len(a) = Len(q) + 1 /\ Len(q) \in Nat
      /\ \A i \in 1..Len(q) : a[i] = q[i]
      /\ a[Len(q) + 1] = x
  BY AppendProperties, LenProperties
<1> HIDE DEF a
<1>2. /\ \A f \in ToSet(a) : \E i \in 1..Len(a) : a[i] = f
      /\ \A i \in 1..Len(a) : a[i] \in ToSet(a)
      /\ \A f \in ToSet(q) : \E i \in 1..Len(q) : q[i] = f
      /\ \A i \in 1..Len(q) : q[i] \in ToSet(q)
  BY <1>1, Elements
<1>3. ToSet(a) \subseteq ToSet(q) \cup {x}
  BY <1>1, <1>2
<1>4. ToSet(q) \cup {x} \subseteq ToSet(a)
  <2>1. \A i \in 1..Len(q) : i \in 1..Len(a)
    BY <1>1
  <2>2. Len(q) + 1 \in 1..Len(a)
    BY <1>1
  <2> QED BY <1>1, <1>2, <2>1, <2>2
<1>5. a # <<>>
  BY <1>1, EmptySeq
<1> QED BY <1>1, <1>3, <1>4, <1>5 DEF a

LEMMA Taken ==
  ASSUME NEW S, NEW q \in Seq(S), q # <<>>
  PROVE  /\ Head(q) = q[1] /\ Head(q) \in ToSet(q) /\ Head(q) \in S
         /\ Tail(q) \in Seq(S) /\ Len(Tail(q)) = Len(q) - 1 /\ Len(q) \in Nat \ {0}
         /\ ToSet(Tail(q)) \subseteq ToSet(q)
         /\ \A i \in 1..Len(Tail(q)) : Tail(q)[i] = q[i + 1]
<1>1. /\ Head(q) = q[1] /\ Tail(q) \in Seq(S) /\ Len(Tail(q)) = Len(q) - 1
      /\ \A i \in 1..Len(Tail(q)) : Tail(q)[i] = q[i + 1]
  BY HeadTailProperties
<1>2. Len(q) \in Nat \ {0} /\ Len(q) \in Nat /\ 1 \in 1..Len(q) /\ ToSet(q) \subseteq S
      /\ \A i \in 1..Len(q) : q[i] \in ToSet(q)
  BY Elements
<1> DEFINE t == Tail(q)
<1> HIDE DEF t
<1>3. \A f \in ToSet(t) : \E i \in 1..Len(t) : t[i] = f
  BY <1>1, Elements DEF t
<1>4. \A i \in 1..Len(t) : i + 1 \in 1..Len(q)
  BY <1>1, <1>2 DEF t
<1>5. ToSet(t) \subseteq ToSet(q)
  BY <1>1, <1>2, <1>3, <1>4 DEF t
<1> QED BY <1>1, <1>2, <1>5 DEF t

LEMMA Suffix ==
  ASSUME NEW S, NEW q \in Seq(S), NEW m \in Nat \ {0}
  PROVE  /\ SubSeq(q, m, Len(q)) \in Seq(S)
         /\ ToSet(SubSeq(q, m, Len(q))) \subseteq ToSet(q)
<1>1. Len(q) \in Nat
  BY Elements
<1>2. /\ SubSeq(q, m, Len(q)) \in Seq(S)
      /\ Len(SubSeq(q, m, Len(q))) = IF m <= Len(q) THEN Len(q) - m + 1 ELSE 0
      /\ \A i \in 1..Len(q) - m + 1 : SubSeq(q, m, Len(q))[i] = q[m + i - 1]
  BY <1>1, SubSeqProperties, Elements
<1> DEFINE t == SubSeq(q, m, Len(q))
<1> HIDE DEF t
<1>3. \A f \in ToSet(t) : \E i \in 1..Len(t) : t[i] = f
  BY <1>2, Elements DEF t
<1>4. \A i \in 1..Len(t) : t[i] = q[m + i - 1] /\ m + i - 1 \in 1..Len(q)
  BY <1>1, <1>2 DEF t
<1>5. \A i \in 1..Len(q) : q[i] \in ToSet(q)
  BY Elements
<1> QED BY <1>2, <1>3, <1>4, <1>5 DEF t

\* Two sequences of one element each.
LEMMA Single ==
  ASSUME NEW S, NEW q \in Seq(S), NEW r \in Seq(S), Len(q) = 1, Len(r) = 1, q[1] = r[1]
  PROVE  q = r
<1>1. \A i \in 1..Len(q) : q[i] = r[i]
  OBVIOUS
<1> QED BY <1>1, SeqEqual

LEMMA Pair ==
  ASSUME NEW a, NEW b
  PROVE  <<a>> \o <<b>> = <<a, b>>
<1>1. <<a>> \in Seq({a, b}) /\ <<b>> \in Seq({a, b}) /\ <<a, b>> \in Seq({a, b})
  OBVIOUS
<1>2. /\ <<a>> \o <<b>> \in Seq({a, b}) /\ Len(<<a>> \o <<b>>) = 2
      /\ (<<a>> \o <<b>>)[1] = a /\ (<<a>> \o <<b>>)[2] = b
  BY <1>1, ConcatProperties
<1>3. Len(<<a, b>>) = 2 /\ <<a, b>>[1] = a /\ <<a, b>>[2] = b
  OBVIOUS
<1>4. \A i \in 1..2 : (<<a>> \o <<b>>)[i] = <<a, b>>[i]
  BY <1>2, <1>3
<1> QED BY <1>1, <1>2, <1>3, <1>4, SeqEqual

LEMMA NotNone == \A s \in States : s # None /\ s.phase \in Phases
BY DEF States, Phases, None

LEMMA StateFields ==
  ASSUME NEW s \in States
  PROVE  /\ s.phase \in Phases /\ s.session \in Sessions \cup {NoSession}
         /\ s.redeemed \in SUBSET Sessions /\ s.sealed \in Nat /\ s.opened \in Nat
         /\ s.local \in Seq(Intros) /\ s.peer \in Seq(Intros)
         /\ s.confirmation \in Seq(Intros) /\ s.nextOut \in Nat /\ s.nextIn \in Nat
         /\ s.out \in Seq(Frames)
BY DEF States

LEMMA FrameFields ==
  ASSUME NEW f \in Frames
  PROVE  /\ f.sequence \in Nat /\ f.role \in {"offerer", "responder"} /\ f.number \in Nat
         /\ f.kind \in Kinds /\ f.session \in Sessions /\ f.content \in Seq(Intros)
BY DEF Frames

LEMMA NoSessionIsNone == NoSession \notin Sessions
BY DEF Sessions, NoSession

LEMMA Roles ==
  /\ Offerer \in Participants /\ Role(Offerer) = "offerer"
  /\ \A r \in Responders : r \in Participants /\ r # Offerer /\ Role(r) = "responder"
  /\ \A p \in Participants : p # Offerer => p \in Responders
  /\ \A s \in Sessions : s[1] \in Responders /\ s[2] \in Nat
BY PairingAssumption DEF Participants, Role, Sessions

-----------------------------------------------------------------------------
(* A well state resumes *)

LEMMA OffererCounts ==
  LET c == Counters["offerer"] IN
  /\ DOMAIN c = {"awaitingOpen", "awaitingAcceptance", "awaitingConfirmation", "ready"}
  /\ c["awaitingOpen"] = <<1, 1, 0, 0>> /\ c["awaitingAcceptance"] = <<1, 2, 0, 0>>
  /\ c["awaitingConfirmation"] = <<2, 3, 1, 1>> /\ c["ready"] = <<3, 4, 2, 2>>
BY DEF Counters

LEMMA ResponderCounts ==
  LET c == Counters["responder"] IN
  /\ DOMAIN c = {"awaitingIntroduction", "awaitingConfirmation", "ready"}
  /\ c["awaitingIntroduction"] = <<3, 1, 1, 0>>
  /\ c["awaitingConfirmation"] = <<4, 2, 2, 1>> /\ c["ready"] = <<4, 3, 2, 2>>
BY DEF Counters

LEMMA PhaseOfWell ==
  ASSUME NEW p \in Participants, NEW s \in States, Well(p, s)
  PROVE  PhaseAgrees(p, s)
<1>1. /\ s.local = <<>> <=> Len(s.local) = 0
      /\ s.peer = <<>> <=> Len(s.peer) = 0
  BY StateFields, Elements
<1>2. s.session = NoSession <=> s.session \notin Sessions
  BY StateFields, NoSessionIsNone
<1>3. CASE p = Offerer
  <2>1. OffererWell(s) /\ Role(p) = "offerer"
    BY <1>3, Roles DEF Well
  <2> QED BY <1>1, <1>2, <2>1, OffererCounts DEF OffererWell, Counts, Met, PhaseAgrees
<1>4. CASE p # Offerer
  <2>1. ResponderWell(p, s) /\ Role(p) = "responder"
    BY <1>4, Roles DEF Well
  <2>2. Len(s.local) = 1
    BY <2>1 DEF ResponderWell
  <2> QED BY <1>1, <1>2, <2>1, <2>2, ResponderCounts
          DEF ResponderWell, Counts, Met, PhaseAgrees
<1> QED BY <1>3, <1>4

LEMMA OutboxOfWell ==
  ASSUME NEW p \in Participants, NEW s \in States, Well(p, s)
  PROVE  OutboxAgrees(p, s)
<1>1. Outbox(p, s)
  BY DEF Well, OffererWell, ResponderWell
<1>2. /\ Len(s.out) \in Nat /\ s.nextOut \in Nat
      /\ \A i \in 1..Len(s.out) : s.out[i] \in ToSet(s.out)
  BY StateFields, Elements
<1>3. /\ Len(s.out) < s.nextOut
      /\ \A i \in 1..Len(s.out) : s.out[i].sequence = s.nextOut - Len(s.out) + i - 1
  BY <1>1 DEF Outbox, InPlace
<1>4. \A i \in 1..Len(s.out) : s.out[i].role = Role(p)
  BY <1>1, <1>2 DEF Outbox, Sealed
<1> DEFINE l == Len(s.out)
           n == s.nextOut
<1>5. \A i, j \in 1..l : i # j => s.out[i].sequence # s.out[j].sequence
  BY <1>2, <1>3
<1>6. \A i \in 1..l : s.out[i].sequence < n
  BY <1>2, <1>3
<1> QED BY <1>4, <1>5, <1>6 DEF OutboxAgrees

LEMMA WellResumes ==
  ASSUME NEW p \in Participants, NEW s \in States, Well(p, s)
  PROVE  Resumable(p, s)
<1>1. PhaseAgrees(p, s) /\ OutboxAgrees(p, s)
  BY PhaseOfWell, OutboxOfWell
<1>2. CASE s.peer # <<>>
  <2>1. Met(p, s) /\ (IF p = Offerer THEN s.redeemed = {s.session} ELSE s.redeemed = {})
    BY <1>2 DEF Well, OffererWell, ResponderWell
  <2>2. Len(s.local) = 1 /\ Len(s.peer) = 1 /\ s.session \in Sessions
    BY <2>1 DEF Met
  <2>3. s.local = <<s.local[1]>> /\ s.peer = <<s.peer[1]>>
    BY <2>2, StateFields
  <2>4. s.confirmation = IF p = Offerer THEN s.local \o s.peer ELSE s.peer \o s.local
    <3> DEFINE a == s.local[1]
               b == s.peer[1]
    <3>1. s.confirmation = IF p = Offerer THEN <<a, b>> ELSE <<b, a>>
      BY <2>1 DEF Met
    <3>2. s.local = <<a>> /\ s.peer = <<b>>
      BY <2>3
    <3> HIDE DEF a, b
    <3>3. s.local \o s.peer = <<a, b>> /\ s.peer \o s.local = <<b, a>>
      BY <3>2, Pair
    <3> QED BY <3>1, <3>3
  <2>5. /\ \A i \in 1..Len(s.local) : s.local[i].by = p /\ s.local[i].session = s.session
        /\ \A i \in 1..Len(s.peer) : Introduces(s.peer[i], p, s.session)
    BY <2>1, <2>2 DEF Met
  <2>6. /\ p \in Responders => s.redeemed = {}
        /\ p = Offerer => s.redeemed = {s.session} \ {NoSession}
    BY <2>1, <2>2, NoSessionIsNone, Roles
  <2> QED BY <1>1, <2>4, <2>5, <2>6 DEF Resumable
<1>3. CASE s.peer = <<>>
  <2>1. CASE p = Offerer
    <3>1. /\ s.local = <<>> /\ s.redeemed = {s.session} \ {NoSession}
      <4>1. \/ s.session = NoSession /\ s.redeemed = {}
            \/ s.session \in Sessions /\ s.redeemed = {s.session}
        BY <1>3, <2>1, Roles DEF Well, OffererWell, Met
      <4>2. s.local = <<>>
        BY <1>3, <2>1 DEF Well, OffererWell, Met
      <4> QED BY <4>1, <4>2, NoSessionIsNone
    <3> QED BY <1>1, <1>3, <2>1, <3>1, Roles DEF Resumable
  <2>2. CASE p # Offerer
    <3>1. /\ s.redeemed = {} /\ s.session \in Sessions
          /\ s.local = <<Introduction(p, s.session[2], s.session)>>
      BY <2>2 DEF Well, ResponderWell
    <3>2. \A i \in 1..Len(s.local) : s.local[i].by = p /\ s.local[i].session = s.session
      BY <3>1 DEF Introduction
    <3> QED BY <1>1, <1>3, <2>2, <3>1, <3>2, Roles DEF Resumable
  <2> QED BY <2>1, <2>2
<1> QED BY <1>2, <1>3

-----------------------------------------------------------------------------
(* What processing a frame does to a state *)

LEMMA SealFacts ==
  ASSUME NEW s \in States, s.session \in Sessions, NEW p \in Participants,
         NEW kind \in Kinds, NEW content \in Seq(Intros)
  PROVE  LET t == Seal(s, p, kind, content)
             f == Frame(s.nextOut, Role(p), s.sealed + 1, kind, s.session, content)
         IN /\ t \in States /\ f \in Frames
            /\ t.phase = s.phase /\ t.session = s.session /\ t.redeemed = s.redeemed
            /\ t.opened = s.opened /\ t.local = s.local /\ t.peer = s.peer
            /\ t.confirmation = s.confirmation /\ t.nextIn = s.nextIn
            /\ t.sealed = s.sealed + 1 /\ t.nextOut = s.nextOut + 1
            /\ t.out = Append(s.out, f)
<1> DEFINE f == Frame(s.nextOut, Role(p), s.sealed + 1, kind, s.session, content)
<1>1. f \in Frames
  BY StateFields DEF Frame, Frames, Role
<1> HIDE DEF f
<1> DEFINE n == s.sealed + 1
           o == s.nextOut + 1
           a == Append(s.out, f)
<1>2. n \in Nat /\ o \in Nat /\ a \in Seq(Frames)
  BY <1>1, StateFields
<1>3. Seal(s, p, kind, content) = [s EXCEPT !.sealed = n, !.nextOut = o, !.out = a]
  BY DEF Seal, f
<1> HIDE DEF n, o, a
<1>4. LET t == [s EXCEPT !.sealed = n, !.nextOut = o, !.out = a]
      IN /\ t \in States
         /\ t.phase = s.phase /\ t.session = s.session /\ t.redeemed = s.redeemed
         /\ t.opened = s.opened /\ t.local = s.local /\ t.peer = s.peer
         /\ t.confirmation = s.confirmation /\ t.nextIn = s.nextIn
         /\ t.sealed = n /\ t.nextOut = o /\ t.out = a
  BY <1>2 DEF States
<1> QED BY <1>1, <1>3, <1>4 DEF n, o, a, f

LEMMA SealInPlace ==
  ASSUME NEW s \in States, s.session \in Sessions, NEW p \in Participants,
         NEW kind \in Kinds, NEW content \in Seq(Intros), InPlace(s)
  PROVE  LET t == Seal(s, p, kind, content)
             f == Frame(s.nextOut, Role(p), s.sealed + 1, kind, s.session, content)
         IN InPlace(t) /\ ToSet(t.out) = ToSet(s.out) \cup {f}
<1> DEFINE t == Seal(s, p, kind, content)
           f == Frame(s.nextOut, Role(p), s.sealed + 1, kind, s.session, content)
<1>1. f \in Frames /\ f.sequence = s.nextOut
  BY SealFacts DEF Frame
<1>2. t.nextOut = s.nextOut + 1 /\ t.out = Append(s.out, f)
  BY SealFacts
<1> HIDE DEF t, f
<1>3. /\ Len(s.out) \in Nat /\ s.nextOut \in Nat /\ s.out \in Seq(Frames)
      /\ Len(s.out) < s.nextOut
      /\ \A i \in 1..Len(s.out) : s.out[i].sequence = s.nextOut - Len(s.out) + i - 1
  BY StateFields, Elements DEF InPlace
<1>4. /\ Len(t.out) = Len(s.out) + 1 /\ ToSet(t.out) = ToSet(s.out) \cup {f}
      /\ \A i \in 1..Len(s.out) : t.out[i] = s.out[i]
      /\ t.out[Len(s.out) + 1] = f
  BY <1>1, <1>2, <1>3, Appended
<1>5. \A i \in 1..Len(t.out) : t.out[i].sequence = t.nextOut - Len(t.out) + i - 1
  <2> SUFFICES ASSUME NEW i \in 1..Len(t.out)
               PROVE  t.out[i].sequence = t.nextOut - Len(t.out) + i - 1
    OBVIOUS
  <2>1. CASE i \in 1..Len(s.out)
    <3>1. t.out[i].sequence = s.nextOut - Len(s.out) + i - 1
      BY <1>3, <1>4, <2>1
    <3> QED BY <1>2, <1>3, <1>4, <3>1
  <2>2. CASE i = Len(s.out) + 1
    <3>1. t.out[i].sequence = s.nextOut
      BY <1>1, <1>4, <2>2
    <3>2. /\ s.nextOut \in Nat /\ Len(s.out) \in Nat /\ t.nextOut = s.nextOut + 1
          /\ Len(t.out) = Len(s.out) + 1
      BY <1>2, <1>3, <1>4
    <3>3. t.nextOut - Len(t.out) + i - 1 = s.nextOut
      BY <2>2, <3>2
    <3> QED BY <3>1, <3>3
  <2> QED BY <1>3, <1>4, <2>1, <2>2
<1>6. Len(t.out) < t.nextOut
  BY <1>2, <1>3, <1>4
<1> QED BY <1>4, <1>5, <1>6 DEF InPlace, t, f

LEMMA ReadFacts ==
  ASSUME NEW s \in States
  PROVE  LET t == Read(s)
         IN /\ t \in States
            /\ t.phase = s.phase /\ t.session = s.session /\ t.redeemed = s.redeemed
            /\ t.sealed = s.sealed /\ t.local = s.local /\ t.peer = s.peer
            /\ t.confirmation = s.confirmation /\ t.nextOut = s.nextOut /\ t.out = s.out
            /\ t.opened = s.opened + 1 /\ t.nextIn = s.nextIn + 1
<1> DEFINE o == s.opened + 1
           n == s.nextIn + 1
<1>1. o \in Nat /\ n \in Nat
  BY StateFields
<1>2. Read(s) = [s EXCEPT !.opened = o, !.nextIn = n]
  BY DEF Read
<1> HIDE DEF o, n
<1>3. LET t == [s EXCEPT !.opened = o, !.nextIn = n]
      IN /\ t \in States
         /\ t.phase = s.phase /\ t.session = s.session /\ t.redeemed = s.redeemed
         /\ t.sealed = s.sealed /\ t.local = s.local /\ t.peer = s.peer
         /\ t.confirmation = s.confirmation /\ t.nextOut = s.nextOut /\ t.out = s.out
         /\ t.opened = o /\ t.nextIn = n
  BY <1>1 DEF States
<1> QED BY <1>2, <1>3 DEF o, n

LEMMA IntroducedFacts ==
  ASSUME NEW s \in States, NEW p \in Participants, NEW frame \in Frames,
         Len(frame.content) = 1, NEW local \in Intros
  PROVE  LET t == Introduced(s, p, frame, local)
             peer == frame.content[1]
         IN /\ t \in States /\ peer \in Intros
            /\ t.phase = "awaitingConfirmation" /\ t.session = s.session
            /\ t.redeemed = s.redeemed /\ t.sealed = s.sealed
            /\ t.local = <<local>> /\ t.peer = <<peer>>
            /\ t.confirmation = IF p = Offerer THEN <<local, peer>> ELSE <<peer, local>>
            /\ t.nextOut = s.nextOut /\ t.out = s.out
            /\ t.opened = s.opened + 1 /\ t.nextIn = s.nextIn + 1
<1> DEFINE r == Read(s)
           peer == frame.content[1]
           c == IF p = Offerer THEN <<local, peer>> ELSE <<peer, local>>
<1>1. peer \in Intros
  BY FrameFields
<1> HIDE DEF peer
<1>2. c \in Seq(Intros) /\ <<local>> \in Seq(Intros) /\ <<peer>> \in Seq(Intros)
  BY <1>1
<1>3. Introduced(s, p, frame, local) =
        [r EXCEPT !.phase = "awaitingConfirmation", !.local = <<local>>,
                  !.peer = <<peer>>, !.confirmation = c]
  BY DEF Introduced, Confirmation, peer
<1>4. /\ r \in States
      /\ r.phase = s.phase /\ r.session = s.session /\ r.redeemed = s.redeemed
      /\ r.sealed = s.sealed /\ r.nextOut = s.nextOut /\ r.out = s.out
      /\ r.opened = s.opened + 1 /\ r.nextIn = s.nextIn + 1
  BY ReadFacts
<1> HIDE DEF c, r
<1> DEFINE t == [r EXCEPT !.phase = "awaitingConfirmation", !.local = <<local>>,
                          !.peer = <<peer>>, !.confirmation = c]
<1>5. /\ t \in States /\ t.phase = "awaitingConfirmation" /\ t.session = r.session
      /\ t.redeemed = r.redeemed /\ t.sealed = r.sealed
      /\ t.local = <<local>> /\ t.peer = <<peer>> /\ t.confirmation = c
      /\ t.nextOut = r.nextOut /\ t.out = r.out /\ t.opened = r.opened
      /\ t.nextIn = r.nextIn
  BY <1>2, <1>4 DEF States, Phases
<1> QED BY <1>1, <1>3, <1>4, <1>5 DEF c, peer

\* What the pump may rely on after a frame.
Step(p, s, frame, d) ==
  /\ d \in States /\ Well(p, d) /\ Advances(s, d)
  /\ p # Offerer => d.session = s.session
  /\ d.phase = "ready" =>
       /\ frame.kind = "confirmation" /\ frame.session = s.session
       /\ frame.content = s.confirmation /\ frame.role # Role(p) /\ Met(p, s)
       /\ d.session = s.session /\ d.local = s.local /\ d.peer = s.peer

LEMMA Redeeming ==
  ASSUME NEW s \in States, NEW frame \in Frames, Well(Offerer, s),
         s.phase = "awaitingOpen", Redeems(s, frame)
  PROVE  Step(Offerer, s, frame, Redeemed(s, frame))
<1> DEFINE d == Redeemed(s, frame)
<1>1. frame.session \in Sessions
  BY FrameFields
<1>2. /\ d \in States /\ d.phase = "awaitingAcceptance" /\ d.session = frame.session
      /\ d.redeemed = {frame.session} /\ d.nextIn = s.nextIn + 1
      /\ d.sealed = s.sealed /\ d.opened = s.opened /\ d.local = s.local
      /\ d.peer = s.peer /\ d.nextOut = s.nextOut /\ d.out = s.out
  <2> DEFINE n == s.nextIn + 1
             e == frame.session
  <2>1. n \in Nat /\ e \in Sessions /\ {e} \in SUBSET Sessions
    BY <1>1, StateFields
  <2>2. d = [s EXCEPT !.phase = "awaitingAcceptance", !.session = e,
                      !.redeemed = {e}, !.nextIn = n]
    BY DEF Redeemed
  <2> HIDE DEF d, n, e
  <2>3. /\ d \in States /\ d.phase = "awaitingAcceptance" /\ d.session = e
        /\ d.redeemed = {e} /\ d.nextIn = n
        /\ d.sealed = s.sealed /\ d.opened = s.opened /\ d.local = s.local
        /\ d.peer = s.peer /\ d.nextOut = s.nextOut /\ d.out = s.out
    BY <2>1, <2>2 DEF States, Phases
  <2> QED BY <2>3 DEF n, e
<1> HIDE DEF d
<1>3. /\ Counts(s, 1, 1, 0, 0) /\ s.local = <<>> /\ s.peer = <<>> /\ InPlace(s)
      /\ s.session = NoSession
  BY DEF Well, OffererWell, Outbox, Met
<1>4. Len(s.out) \in Nat /\ Len(s.out) < 1
  BY <1>3, StateFields, Elements DEF InPlace, Counts
<1>5. ToSet(s.out) = {}
  BY <1>4, StateFields, Elements
<1>6. InPlace(d)
  BY <1>2, <1>3 DEF InPlace
<1>7. OffererWell(d)
  BY <1>1, <1>2, <1>3, <1>5, <1>6 DEF OffererWell, Outbox, Counts
<1>8. Advances(s, d)
  BY <1>2, <1>3 DEF Advances
<1> QED BY <1>2, <1>7, <1>8 DEF Step, Well, d

LEMMA ReadyFacts ==
  ASSUME NEW s \in States
  PROVE  LET t == [s EXCEPT !.phase = "ready"]
         IN /\ t \in States /\ t.phase = "ready"
            /\ t.session = s.session /\ t.redeemed = s.redeemed /\ t.sealed = s.sealed
            /\ t.opened = s.opened /\ t.local = s.local /\ t.peer = s.peer
            /\ t.confirmation = s.confirmation /\ t.nextOut = s.nextOut
            /\ t.nextIn = s.nextIn /\ t.out = s.out
BY DEF States, Phases

\* Both introductions are known: the outbox is what it was, and the frame sealed.
LEMMA IntroducedOutbox ==
  ASSUME NEW s \in States, s.session \in Sessions, NEW p \in Participants,
         NEW frame \in Frames, Len(frame.content) = 1, NEW local \in Intros,
         NEW kind \in Kinds, NEW content \in Seq(Intros),
         Outbox(p, s), s.peer = <<>>, s.phase # "ready",
         LET u == Introduced(s, p, frame, local) IN
           \/ kind = "contactOffer" /\ Len(content) = 1
           \/ kind = "confirmation" /\ p # Offerer /\ content = u.confirmation
  PROVE  Outbox(p, Seal(Introduced(s, p, frame, local), p, kind, content))
<1> DEFINE u == Introduced(s, p, frame, local)
           d == Seal(u, p, kind, content)
           f == Frame(u.nextOut, Role(p), u.sealed + 1, kind, u.session, content)
<1>1. /\ u \in States /\ u.session = s.session /\ u.out = s.out /\ u.nextOut = s.nextOut
      /\ Len(u.peer) = 1
  <2>1. /\ u \in States /\ u.session = s.session /\ u.out = s.out /\ u.nextOut = s.nextOut
        /\ u.peer = <<frame.content[1]>>
    BY ONLY s \in States, p \in Participants, frame \in Frames, Len(frame.content) = 1,
            local \in Intros, IntroducedFacts, ZenonT(60) DEF u
  <2> QED BY <2>1
<1>2. /\ kind \in {"contactAcceptance", "contactOffer"} => Len(content) = 1
      /\ kind = "confirmation" => content = u.confirmation /\ p # Offerer
  OBVIOUS
<1> HIDE DEF u
<1>3. InPlace(u)
  BY <1>1 DEF Outbox, InPlace
<1>4. InPlace(d) /\ ToSet(d.out) = ToSet(s.out) \cup {f}
  <2>1. u \in States /\ u.session \in Sessions /\ u.out = s.out
    BY <1>1
  <2>2. InPlace(d) /\ ToSet(d.out) = ToSet(u.out) \cup {f}
    BY ONLY <1>3, <2>1, p \in Participants, kind \in Kinds, content \in Seq(Intros),
            SealInPlace, ZenonT(60) DEF d, f
  <2> QED BY <2>1, <2>2
<1>5. d.session = s.session /\ d.peer = u.peer /\ d.confirmation = u.confirmation
  BY <1>1, SealFacts
<1>6. /\ f.role = Role(p) /\ f.session = s.session /\ f.kind = kind /\ f.content = content
  BY <1>1 DEF Frame
<1> HIDE DEF d, f
<1>7. Sealed(p, d, f)
  BY <1>1, <1>2, <1>5, <1>6 DEF Sealed
<1>8. ASSUME NEW g \in ToSet(s.out)
      PROVE  Sealed(p, d, g)
  <2>1. Sealed(p, s, g)
    BY DEF Outbox
  <2>2. g.kind # "confirmation"
    BY <2>1, NoElements DEF Sealed
  <2> QED BY <1>5, <2>1, <2>2 DEF Sealed
<1> QED BY <1>4, <1>7, <1>8 DEF Outbox, d, u

LEMMA OffererIntroduces ==
  ASSUME NEW s \in States, NEW frame \in Frames, NEW mint \in Nat, Well(Offerer, s),
         s.phase = "awaitingAcceptance", frame.session = s.session,
         Carries(s, Offerer, frame), Len(frame.content) = 1
  PROVE  LET local == Introduction(Offerer, mint, s.session)
         IN Step(Offerer, s, frame,
                 Seal(Introduced(s, Offerer, frame, local), Offerer, "contactOffer", <<local>>))
<1> DEFINE local == Introduction(Offerer, mint, s.session)
           peer == frame.content[1]
           u == Introduced(s, Offerer, frame, local)
           d == Seal(u, Offerer, "contactOffer", <<local>>)
<1>1. /\ s.session \in Sessions /\ s.redeemed = {s.session} /\ Counts(s, 1, 2, 0, 0)
      /\ s.peer = <<>> /\ Outbox(Offerer, s)
  BY DEF Well, OffererWell, Met
<1>2. /\ local \in Intros /\ local.by = Offerer /\ local.session = s.session
      /\ <<local>> \in Seq(Intros) /\ Len(<<local>>) = 1
  <2>1. local \in Intros /\ local.by = Offerer /\ local.session = s.session
    BY <1>1, Roles DEF Introduction, Intros
  <2> HIDE DEF local
  <2> QED BY <2>1
<1>3. Introduces(peer, Offerer, s.session)
  BY DEF Carries
<1> HIDE DEF local, peer
<1>4. /\ u \in States /\ u.phase = "awaitingConfirmation" /\ u.session = s.session
      /\ u.redeemed = s.redeemed /\ u.sealed = s.sealed /\ u.local = <<local>>
      /\ u.peer = <<peer>> /\ u.confirmation = <<local, peer>> /\ u.nextOut = s.nextOut
      /\ u.opened = s.opened + 1 /\ u.nextIn = s.nextIn + 1
  <2>1. local \in Intros /\ Offerer \in Participants
    BY <1>2, Roles
  <2> QED BY ONLY <2>1, s \in States, frame \in Frames, Len(frame.content) = 1,
                  IntroducedFacts, ZenonT(60) DEF u, peer
<1>5. Outbox(Offerer, d)
  <2>1. "contactOffer" \in Kinds
    BY DEF Kinds
  <2> QED BY <1>1, <1>2, <2>1, Roles, IntroducedOutbox
<1> HIDE DEF u
<1>6. /\ d \in States /\ d.phase = u.phase /\ d.session = u.session
      /\ d.redeemed = u.redeemed /\ d.opened = u.opened /\ d.local = u.local
      /\ d.peer = u.peer /\ d.confirmation = u.confirmation /\ d.nextIn = u.nextIn
      /\ d.sealed = u.sealed + 1 /\ d.nextOut = u.nextOut + 1
  <2>1. "contactOffer" \in Kinds
    BY DEF Kinds
  <2> QED BY <1>1, <1>2, <1>4, <2>1, Roles, SealFacts
<1> HIDE DEF d
<1>7. Counts(d, 2, 3, 1, 1)
  BY <1>1, <1>4, <1>6 DEF Counts
<1>8. Met(Offerer, d)
  BY <1>1, <1>2, <1>3, <1>4, <1>6 DEF Met
<1>9. OffererWell(d)
  BY <1>1, <1>4, <1>5, <1>6, <1>7, <1>8 DEF OffererWell
<1>10. Advances(s, d)
  BY <1>1, <1>4, <1>6 DEF Advances
<1> QED BY <1>4, <1>6, <1>9, <1>10 DEF Step, Well, d, u, local

LEMMA ResponderIntroduces ==
  ASSUME NEW s \in States, NEW frame \in Frames, NEW r \in Responders, Well(r, s),
         s.phase = "awaitingIntroduction", frame.session = s.session,
         Carries(s, r, frame), Len(frame.content) = 1
  PROVE  LET u == Introduced(s, r, frame, s.local[1])
         IN Step(r, s, frame, Seal(u, r, "confirmation", u.confirmation))
<1> DEFINE local == s.local[1]
           peer == frame.content[1]
           u == Introduced(s, r, frame, local)
           d == Seal(u, r, "confirmation", u.confirmation)
<1>0. r \in Participants /\ r # Offerer
  BY Roles
<1>1. /\ s.session \in Sessions /\ s.redeemed = {} /\ Counts(s, 3, 1, 1, 0)
      /\ s.peer = <<>> /\ Outbox(r, s) /\ s.session[1] = r
      /\ s.local = <<Introduction(r, s.session[2], s.session)>>
  BY <1>0 DEF Well, ResponderWell, Met
<1>2. /\ local \in Intros /\ local.by = r /\ local.session = s.session
      /\ s.local = <<local>>
  <2>1. local = Introduction(r, s.session[2], s.session)
    BY <1>1
  <2>2. local \in Intros
    BY <1>0, <1>1, <2>1, Roles DEF Introduction, Intros
  <2> QED BY <1>1, <2>1, <2>2 DEF Introduction
<1>3. Introduces(peer, r, s.session)
  BY DEF Carries
<1> HIDE DEF local, peer
<1>4. /\ u \in States /\ u.phase = "awaitingConfirmation" /\ u.session = s.session
      /\ u.redeemed = s.redeemed /\ u.sealed = s.sealed /\ u.local = <<local>>
      /\ u.peer = <<peer>> /\ u.confirmation = <<peer, local>> /\ u.nextOut = s.nextOut
      /\ u.opened = s.opened + 1 /\ u.nextIn = s.nextIn + 1
  <2>1. local \in Intros
    BY <1>2
  <2> QED BY ONLY <1>0, <2>1, s \in States, frame \in Frames, Len(frame.content) = 1,
                  IntroducedFacts, ZenonT(60) DEF u, peer
<1>5. u.confirmation \in Seq(Intros) /\ "confirmation" \in Kinds
  BY <1>4, StateFields DEF Kinds
<1>6. Outbox(r, d)
  BY <1>0, <1>1, <1>2, <1>5, IntroducedOutbox
<1> HIDE DEF u
<1>7. /\ d \in States /\ d.phase = u.phase /\ d.session = u.session
      /\ d.redeemed = u.redeemed /\ d.opened = u.opened /\ d.local = u.local
      /\ d.peer = u.peer /\ d.confirmation = u.confirmation /\ d.nextIn = u.nextIn
      /\ d.sealed = u.sealed + 1 /\ d.nextOut = u.nextOut + 1
  <2>1. u.session \in Sessions
    BY <1>1, <1>4
  <2>2. u \in States
    BY <1>4
  <2> QED BY ONLY <1>0, <1>5, <2>1, <2>2, SealFacts DEF d
<1> HIDE DEF d
<1>8. Counts(d, 4, 2, 2, 1)
  BY <1>1, <1>4, <1>7 DEF Counts
<1>9. Met(r, d)
  BY <1>0, <1>1, <1>2, <1>3, <1>4, <1>7 DEF Met
<1>10. ResponderWell(r, d)
  BY <1>1, <1>2, <1>4, <1>6, <1>7, <1>8, <1>9 DEF ResponderWell
<1>11. Advances(s, d)
  BY <1>1, <1>4, <1>7 DEF Advances
<1> QED BY <1>0, <1>4, <1>7, <1>10, <1>11 DEF Step, Well, d, u, local

LEMMA OffererConfirms ==
  ASSUME NEW s \in States, NEW frame \in Frames, Well(Offerer, s),
         s.phase = "awaitingConfirmation", frame.session = s.session,
         frame.kind = "confirmation", frame.content = s.confirmation,
         frame.role # Role(Offerer)
  PROVE  Step(Offerer, s, frame,
              [Seal(Read(s), Offerer, "confirmation", s.confirmation) EXCEPT !.phase = "ready"])
<1> DEFINE u == Read(s)
           t == Seal(u, Offerer, "confirmation", s.confirmation)
           f == Frame(u.nextOut, Role(Offerer), u.sealed + 1, "confirmation", u.session,
                      s.confirmation)
           d == [t EXCEPT !.phase = "ready"]
<1>1. /\ s.session \in Sessions /\ s.redeemed = {s.session} /\ Counts(s, 2, 3, 1, 1)
      /\ Met(Offerer, s) /\ Outbox(Offerer, s)
  BY DEF Well, OffererWell, Met
<1>2. /\ u \in States /\ u.session = s.session /\ u.redeemed = s.redeemed
      /\ u.sealed = s.sealed /\ u.local = s.local /\ u.peer = s.peer
      /\ u.confirmation = s.confirmation /\ u.nextOut = s.nextOut /\ u.out = s.out
      /\ u.opened = s.opened + 1 /\ u.nextIn = s.nextIn + 1
  BY ReadFacts
<1>3. s.confirmation \in Seq(Intros) /\ "confirmation" \in Kinds /\ Offerer \in Participants
      /\ u.session \in Sessions
  BY <1>1, <1>2, StateFields, Roles DEF Kinds
<1> HIDE DEF u
<1>4. /\ t \in States /\ t.session = u.session
      /\ t.redeemed = u.redeemed /\ t.opened = u.opened /\ t.local = u.local
      /\ t.peer = u.peer /\ t.confirmation = u.confirmation /\ t.nextIn = u.nextIn
      /\ t.sealed = u.sealed + 1 /\ t.nextOut = u.nextOut + 1
  BY ONLY <1>2, <1>3, SealFacts DEF t
<1>5. InPlace(t) /\ ToSet(t.out) = ToSet(s.out) \cup {f}
  <2>1. InPlace(u)
    BY <1>1, <1>2 DEF Outbox, InPlace
  <2>2. u \in States /\ u.out = s.out
    BY <1>2
  <2>3. InPlace(t) /\ ToSet(t.out) = ToSet(u.out) \cup {f}
    <3>1. ASSUME NEW p \in Participants, NEW k \in Kinds, NEW c \in Seq(Intros)
          PROVE  /\ InPlace(Seal(u, p, k, c))
                 /\ ToSet(Seal(u, p, k, c).out) = ToSet(u.out)
                      \cup {Frame(u.nextOut, Role(p), u.sealed + 1, k, u.session, c)}
      <4>1. u \in States /\ u.session \in Sessions
        BY <1>3, <2>2
      <4> QED BY ONLY <2>1, <4>1, p \in Participants, k \in Kinds, c \in Seq(Intros),
                      SealInPlace, ZenonT(60)
    <3> QED BY ONLY <1>3, <3>1 DEF t, f
  <2> QED BY <2>2, <2>3
<1>6. /\ f.role = Role(Offerer) /\ f.session = s.session /\ f.kind = "confirmation"
      /\ f.content = s.confirmation
  BY <1>2 DEF Frame
<1> HIDE DEF t, f
<1>7. /\ d \in States /\ d.phase = "ready" /\ d.session = t.session
      /\ d.redeemed = t.redeemed /\ d.sealed = t.sealed
      /\ d.opened = t.opened /\ d.local = t.local /\ d.peer = t.peer
      /\ d.confirmation = t.confirmation /\ d.nextOut = t.nextOut
      /\ d.nextIn = t.nextIn /\ d.out = t.out
  BY ONLY <1>4, ReadyFacts DEF d
<1> HIDE DEF d
<1>8. Sealed(Offerer, d, f)
  BY <1>1, <1>2, <1>4, <1>6, <1>7 DEF Sealed, Met
<1>9. ASSUME NEW g \in ToSet(s.out)
      PROVE  Sealed(Offerer, d, g)
  <2>1. Sealed(Offerer, s, g)
    BY <1>1 DEF Outbox
  <2> QED BY <1>2, <1>4, <1>7, <2>1 DEF Sealed
<1>10. Outbox(Offerer, d)
  BY <1>5, <1>7, <1>8, <1>9 DEF Outbox, InPlace
<1>11. Counts(d, 3, 4, 2, 2)
  BY <1>1, <1>2, <1>4, <1>7 DEF Counts
<1>12. Met(Offerer, d)
  BY <1>1, <1>2, <1>4, <1>7 DEF Met
<1>13. OffererWell(d)
  BY <1>1, <1>2, <1>4, <1>7, <1>10, <1>11, <1>12 DEF OffererWell
<1>14. Advances(s, d)
  BY <1>2, <1>4, <1>7 DEF Advances
<1> QED BY <1>1, <1>2, <1>4, <1>7, <1>13, <1>14 DEF Step, Well, d, t, u

LEMMA ResponderConfirms ==
  ASSUME NEW s \in States, NEW frame \in Frames, NEW r \in Responders, Well(r, s),
         s.phase = "awaitingConfirmation", frame.session = s.session,
         frame.kind = "confirmation", frame.content = s.confirmation, frame.role # Role(r)
  PROVE  Step(r, s, frame, [Read(s) EXCEPT !.phase = "ready"])
<1> DEFINE u == Read(s)
           d == [u EXCEPT !.phase = "ready"]
<1>0. r \in Participants /\ r # Offerer
  BY Roles
<1>1. /\ s.session \in Sessions /\ s.redeemed = {} /\ Counts(s, 4, 2, 2, 1)
      /\ Met(r, s) /\ Outbox(r, s) /\ s.session[1] = r
      /\ s.local = <<Introduction(r, s.session[2], s.session)>>
  BY <1>0 DEF Well, ResponderWell, Met
<1>2. /\ u \in States /\ u.session = s.session /\ u.redeemed = s.redeemed
      /\ u.sealed = s.sealed /\ u.local = s.local /\ u.peer = s.peer
      /\ u.confirmation = s.confirmation /\ u.nextOut = s.nextOut /\ u.out = s.out
      /\ u.opened = s.opened + 1 /\ u.nextIn = s.nextIn + 1
  BY ReadFacts
<1> HIDE DEF u
<1>3. /\ d \in States /\ d.phase = "ready" /\ d.session = u.session
      /\ d.redeemed = u.redeemed /\ d.sealed = u.sealed
      /\ d.opened = u.opened /\ d.local = u.local /\ d.peer = u.peer
      /\ d.confirmation = u.confirmation /\ d.nextOut = u.nextOut
      /\ d.nextIn = u.nextIn /\ d.out = u.out
  BY ONLY <1>2, ReadyFacts DEF d
<1> HIDE DEF d
<1>4. Outbox(r, d)
  <2>1. InPlace(d)
    BY <1>1, <1>2, <1>3 DEF Outbox, InPlace
  <2>2. ASSUME NEW g \in ToSet(s.out)
        PROVE  Sealed(r, d, g)
    <3>1. Sealed(r, s, g)
      BY <1>1 DEF Outbox
    <3> QED BY <1>0, <1>2, <1>3, <3>1 DEF Sealed
  <2> QED BY <1>2, <1>3, <2>1, <2>2 DEF Outbox
<1>5. Counts(d, 4, 3, 2, 2)
  BY <1>1, <1>2, <1>3 DEF Counts
<1>6. Met(r, d)
  BY <1>1, <1>2, <1>3 DEF Met
<1>7. ResponderWell(r, d)
  BY <1>1, <1>2, <1>3, <1>4, <1>5, <1>6 DEF ResponderWell
<1>8. Advances(s, d)
  BY <1>2, <1>3 DEF Advances
<1> QED BY <1>0, <1>1, <1>2, <1>3, <1>7, <1>8 DEF Step, Well, d, u

LEMMA ProcessedStep ==
  ASSUME NEW p \in Participants, pending[p] \in States, Well(p, pending[p]),
         minted[p] \in Nat, NEW frame \in Frames,
         frame.kind \in {"contactAcceptance", "contactOffer"} => Len(frame.content) = 1,
         NEW d \in Processed(p, frame)
  PROVE  Step(p, pending[p], frame, d)
<1> DEFINE s == pending[p]
<1>1. CASE p = Offerer
  <2> DEFINE mint == Fresh(p)
             local == Introduction(Offerer, mint, s.session)
  <2>1. d \in OffererProcesses(s, frame, mint) /\ mint \in Nat
    BY <1>1 DEF Processed, Fresh
  <2> HIDE DEF s, mint
  <2>2. CASE /\ s.phase = "awaitingOpen" /\ Redeems(s, frame) /\ d = Redeemed(s, frame)
    BY <1>1, <2>2, Redeeming DEF s
  <2>3. CASE /\ s.phase = "awaitingAcceptance"
             /\ Opens(s, Offerer, frame, "contactAcceptance") /\ Carries(s, Offerer, frame)
             /\ d = Seal(Introduced(s, Offerer, frame, local), Offerer, "contactOffer", <<local>>)
    <3>1. frame.session = s.session /\ Len(frame.content) = 1
      BY <2>3 DEF Opens
    <3> QED BY <1>1, <2>1, <2>3, <3>1, OffererIntroduces DEF s
  <2>4. CASE /\ s.phase = "awaitingConfirmation"
             /\ Opens(s, Offerer, frame, "confirmation") /\ Matches(s, frame)
             /\ d = [Seal(Read(s), Offerer, "confirmation", s.confirmation)
                       EXCEPT !.phase = "ready"]
    <3>1. /\ frame.session = s.session /\ frame.kind = "confirmation"
          /\ frame.content = s.confirmation /\ frame.role # Role(Offerer)
      BY <2>4 DEF Opens, Matches
    <3> QED BY <1>1, <2>4, <3>1, OffererConfirms DEF s
  <2> QED BY <2>1, <2>2, <2>3, <2>4 DEF OffererProcesses
<1>2. CASE p # Offerer
  <2> DEFINE u == Introduced(s, p, frame, s.local[1])
  <2>0. p \in Responders
    BY <1>2, Roles
  <2>1. d \in ResponderProcesses(s, p, frame)
    BY <1>2 DEF Processed
  <2> HIDE DEF s
  <2>2. CASE /\ s.phase = "awaitingIntroduction"
             /\ Opens(s, p, frame, "contactOffer") /\ Carries(s, p, frame)
             /\ d = Seal(u, p, "confirmation", u.confirmation)
    <3>1. frame.session = s.session /\ Len(frame.content) = 1
      BY <2>2 DEF Opens
    <3> QED BY <2>0, <2>2, <3>1, ResponderIntroduces DEF s
  <2>3. CASE /\ s.phase = "awaitingConfirmation"
             /\ Opens(s, p, frame, "confirmation") /\ Matches(s, frame)
             /\ d = [Read(s) EXCEPT !.phase = "ready"]
    <3>1. /\ frame.session = s.session /\ frame.kind = "confirmation"
          /\ frame.content = s.confirmation /\ frame.role # Role(p)
      BY <2>3 DEF Opens, Matches
    <3> QED BY <2>0, <2>3, <3>1, ResponderConfirms DEF s
  <2> QED BY <2>1, <2>2, <2>3 DEF ResponderProcesses
<1> QED BY <1>1, <1>2

-----------------------------------------------------------------------------
(* What is held stays held *)

\* Relationships and what is held of a session only grow, unless it is cancelled.
Grows ==
  /\ cancelled \subseteq cancelled'
  /\ \A c \in Confirmed(Offerer) : c \in Confirmed(Offerer)' \/ Offerer \in cancelled'
  /\ \A r \in Responders, session \in Sessions : \A h \in Holds(r, session) :
       h \in Holds(r, session)' \/ r \in cancelled'

\* A relationship is one there was, or that of a draft that was saved.
Keeps ==
  /\ Grows
  /\ \A p \in Participants :
       /\ \A c \in Confirmed(p)' :
            c \in Confirmed(p) \/ (Drafted(p) /\ c = Relationship(draft[p]))
       /\ related'[p] \subseteq Confirmed(p)

\* A frame was in its lane, or in the outbox it is sent from; a batch is read from
\* a lane; a new draft answers a frame of the batch.
Carried ==
  /\ \A p \in Participants :
       /\ minted[p] <= minted'[p]
       /\ Drafted(p)' => \/ Drafted(p) /\ draft'[p] = draft[p]
                         \/ /\ Mutual(p, Relationship(draft'[p]))
                            /\ \E f \in ToSet(batch[p]) : f.session = draft'[p].session
       /\ \A f \in ToSet(batch'[p]) :
            f \in ToSet(batch[p]) \/ f \in ToSet(lanes[Inbound(p)].frames)
  /\ \A d \in Directions : \A f \in ToSet(lanes'[d].frames) :
       \/ f \in ToSet(lanes[d].frames)
       \/ \E p \in Participants : /\ Outbound(p) = d /\ pending[p] # None
                                  /\ f \in ToSet(pending[p].out)

LEMMA FrameStays ==
  ASSUME Grows, NEW f \in Frames, FrameWell(f)
  PROVE  FrameWell(f)'
<1>1. f.session \in Sessions /\ f.session[1] \in Responders
  BY FrameFields, Roles
<1>2. OffererConfirmed(f) => OffererConfirmed(f)'
  BY DEF Grows, OffererConfirmed
<1>3. ResponderConfirmed(f) => ResponderConfirmed(f)'
  BY <1>1 DEF Grows, ResponderConfirmed
<1> QED BY <1>2, <1>3 DEF FrameWell

LEMMA MutualStays ==
  ASSUME Grows, NEW p \in Participants, NEW c \in Links, Mutual(p, c)
  PROVE  Mutual(p, c)'
<1>1. c.session \in Sessions /\ c.session[1] \in Responders
  BY Roles DEF Links
<1>2. OffererMutual(c) => OffererMutual(c)'
  BY <1>1 DEF Grows, OffererMutual
<1>3. ResponderMutual(c) => ResponderMutual(c)'
  BY DEF Grows, ResponderMutual
<1> QED BY <1>2, <1>3 DEF Mutual

LEMMA ReadyLink ==
  ASSUME NEW p \in Participants, NEW s \in States, Well(p, s), s.phase = "ready"
  PROVE  /\ Met(p, s) /\ Relationship(s) \in Links /\ LinkWell(p, Relationship(s))
         /\ Relationship(s).session = s.session /\ Relationship(s).local = s.local
         /\ Relationship(s).peer = s.peer
<1>1. /\ Met(p, s)
      /\ p # Offerer => /\ s.session[1] = p
                        /\ s.local = <<Introduction(p, s.session[2], s.session)>>
  BY DEF Well, OffererWell, ResponderWell
<1>2. s.session \in Sessions /\ s.local \in Seq(Intros) /\ s.peer \in Seq(Intros)
  BY <1>1, StateFields DEF Met
<1>3. /\ Relationship(s) \in Links /\ Relationship(s).session = s.session
      /\ Relationship(s).local = s.local /\ Relationship(s).peer = s.peer
  BY <1>2 DEF Relationship, Links
<1>4. LinkWell(p, Relationship(s))
  BY <1>1, <1>3 DEF Met, LinkWell, RelationshipAgrees
<1> QED BY <1>1, <1>3, <1>4

LEMMA PendingTyped ==
  ASSUME TypeOK, NEW p \in Participants
  PROVE  /\ pending[p] # None => pending[p] \in States
         /\ draft[p] # None => draft[p] \in States
         /\ batch[p] \in Seq(Frames) /\ minted[p] \in Nat /\ related[p] \subseteq Links
BY DEF TypeOK

LEMMA ConfirmedLinks ==
  ASSUME TypeOK, NEW p \in Participants, PumpWell(p), PersonaWell(p)
  PROVE  \A c \in Confirmed(p) : c \in Links /\ LinkWell(p, c)
<1>1. ASSUME pending[p] # None, pending[p].phase = "ready"
      PROVE  Relationship(pending[p]) \in Links /\ LinkWell(p, Relationship(pending[p]))
  BY <1>1, PendingTyped, ReadyLink DEF PumpWell
<1> QED BY <1>1, PendingTyped DEF Confirmed, PersonaWell

\* A frame of an outbox keeps its promise before it is sent.
LEMMA SealedWell ==
  ASSUME TypeOK, NEW p \in Participants, PumpWell(p), pending[p] # None,
         NEW f \in ToSet(pending[p].out)
  PROVE  /\ f \in Frames /\ FrameWell(f)
         /\ f.session = pending[p].session /\ f.session \in Sessions
<1> DEFINE s == pending[p]
<1>1. s \in States /\ Well(p, s)
  BY PendingTyped DEF PumpWell
<1>2. s.out \in Seq(Frames) /\ f \in Frames /\ f.session \in Sessions
  BY <1>1, StateFields, Elements, FrameFields
<1>3. Sealed(p, s, f)
  BY <1>1 DEF Well, OffererWell, ResponderWell, Outbox
<1>4. f.role = Role(p)
  BY <1>3 DEF Sealed
<1>5. f.session = s.session
  BY <1>3 DEF Sealed
<1>6. ASSUME f.kind = "confirmation" PROVE Met(p, s) /\ f.content = s.confirmation
  <2>1. Len(s.peer) = 1 /\ f.content = s.confirmation
    BY <1>3, <1>6 DEF Sealed
  <2>2. s.peer # <<>>
    <3>1. s.peer \in Seq(Intros)
      BY <1>1, StateFields
    <3> DEFINE q == s.peer
    <3> HIDE DEF q
    <3>2. Len(q) = 1 /\ q \in Seq(Intros)
      BY <2>1, <3>1 DEF q
    <3>3. q # <<>>
      BY ONLY <3>2, Elements
    <3> QED BY <3>3 DEF q
  <2> QED BY <1>1, <2>1, <2>2 DEF Well, OffererWell, ResponderWell
<1>7. ASSUME f.kind = "confirmation", p = Offerer PROVE OffererConfirmed(f)
  <2>1. s.phase = "ready"
    BY <1>3, <1>7 DEF Sealed
  <2>2. Relationship(s) \in Confirmed(Offerer)
    BY <1>7, <2>1 DEF Confirmed
  <2>3. f.content = <<s.local[1], s.peer[1]>>
    BY <1>6, <1>7 DEF Met
  <2> QED BY <1>5, <2>2, <2>3 DEF OffererConfirmed, Relationship
<1>8. ASSUME f.kind = "confirmation", p # Offerer PROVE ResponderConfirmed(f)
  <2>1. f.session[1] = p
    BY <1>1, <1>5, <1>8 DEF Well, ResponderWell
  <2>2. Met(p, s) /\ f.content = s.confirmation
    BY <1>6, <1>8
  <2>3. s.peer # <<>> /\ f.content = <<s.peer[1], s.local[1]>>
    BY <1>8, <2>2, NoElements DEF Met
  <2>4. <<s.local, s.peer>> \in Holds(p, f.session)
    BY <1>5, <2>3 DEF Holds
  <2> QED BY <2>1, <2>3, <2>4 DEF ResponderConfirmed
<1>9. FrameWell(f)
  <2>1. f.kind \in {"contactAcceptance", "contactOffer"} => Len(f.content) = 1
    BY <1>3 DEF Sealed
  <2>2. f.role = "offerer" <=> p = Offerer
    BY <1>4 DEF Role
  <2> QED BY <1>7, <1>8, <2>1, <2>2 DEF FrameWell
<1> QED BY <1>2, <1>4, <1>5, <1>9

LEMMA FramesStay ==
  ASSUME PairingInv, TypeOK', Keeps, Carried
  PROVE  LanesWell' /\ \A p \in Participants : BatchWell(p)'
<1>1. TypeOK /\ LanesWell /\ Grows /\ \A p \in Participants : PumpWell(p) /\ BatchWell(p)
  BY DEF PairingInv, Keeps
<1>2. \A d \in Directions : ToSet(lanes[d].frames) \subseteq Frames
  <2>1. \A d \in Directions : lanes[d].frames \in Seq(Frames)
    BY <1>1 DEF TypeOK
  <2> QED BY <2>1, Elements
<1>3. \A p \in Participants : ToSet(batch[p]) \subseteq Frames /\ Inbound(p) \in Directions
  BY <1>1, PendingTyped, Elements DEF Inbound, Directions
<1>4. ASSUME NEW d \in Directions, NEW f \in ToSet(lanes[d].frames)
      PROVE  FrameWell(f)'
  BY <1>1, <1>2, FrameStays DEF LanesWell
<1>5. ASSUME NEW d \in Directions, NEW f \in ToSet(lanes'[d].frames)
      PROVE  FrameWell(f)'
  <2>1. CASE f \in ToSet(lanes[d].frames)
    BY <1>4, <2>1
  <2>2. CASE \E p \in Participants : /\ Outbound(p) = d /\ pending[p] # None
                                     /\ f \in ToSet(pending[p].out)
    <3>1. PICK p \in Participants : /\ Outbound(p) = d /\ pending[p] # None
                                    /\ f \in ToSet(pending[p].out)
      BY <2>2
    <3>2. f \in Frames /\ FrameWell(f)
      BY <1>1, <3>1, SealedWell
    <3> QED BY <1>1, <3>2, FrameStays
  <2> QED BY <2>1, <2>2 DEF Carried
<1>6. ASSUME NEW p \in Participants, NEW f \in ToSet(batch'[p])
      PROVE  FrameWell(f)'
  <2>1. CASE f \in ToSet(batch[p])
    BY <1>1, <1>3, <2>1, FrameStays DEF BatchWell
  <2>2. CASE f \in ToSet(lanes[Inbound(p)].frames)
    BY <1>3, <1>4, <2>2
  <2> QED BY <2>1, <2>2 DEF Carried
<1> QED BY <1>5, <1>6 DEF LanesWell, BatchWell

LEMMA PeersStay ==
  ASSUME PairingInv, TypeOK', Keeps, Carried, NEW p \in Participants, PumpWell(p)'
  PROVE  PeersAgree(p)'
<1>1. /\ TypeOK /\ Grows /\ PumpWell(p) /\ PersonaWell(p) /\ PeersAgree(p)
  BY DEF PairingInv, Keeps
<1>2. ASSUME Drafted(p)
      PROVE  Relationship(draft[p]) \in Links /\ Mutual(p, Relationship(draft[p]))
  <2>1. draft[p] \in States /\ Well(p, draft[p])
    BY <1>1, <1>2, PendingTyped DEF PumpWell, Drafted
  <2> QED BY <1>1, <1>2, <2>1, ReadyLink DEF Drafted, PeersAgree
<1>3. ASSUME NEW c \in Confirmed(p)' PROVE Mutual(p, c)'
  <2>1. c \in Confirmed(p) \/ (Drafted(p) /\ c = Relationship(draft[p]))
    BY DEF Keeps
  <2>2. c \in Links /\ Mutual(p, c)
    BY <1>1, <1>2, <2>1, ConfirmedLinks DEF PeersAgree
  <2> QED BY <1>1, <2>2, MutualStays
<1>4. ASSUME Drafted(p)', NEW d, d = draft'[p]
      PROVE  Mutual(p, Relationship(d))'
  <2>1. d \in States /\ Well(p, d) /\ d.phase = "ready"
    BY <1>4, PendingTyped DEF TypeOK, PumpWell, Drafted
  <2>2. Relationship(d) \in Links
    BY <2>1, ReadyLink
  <2>3. Mutual(p, Relationship(d))
    BY <1>2, <1>4 DEF Carried
  <2> QED BY <1>1, <2>2, <2>3, MutualStays
<1> QED BY <1>3, <1>4 DEF PeersAgree

LEMMA BoundStays ==
  ASSUME PairingInv, TypeOK', Keeps, Carried, NEW s \in Sessions, Bound(s)'
  PROVE  Bound(s) \/ (pending'[Offerer] # None /\ pending'[Offerer].session = s)
<1>1. /\ TypeOK /\ \A p \in Participants : PumpWell(p) /\ PersonaWell(p)
  BY DEF PairingInv
<1>2. s # NoSession /\ Offerer \in Participants
  BY NoSessionIsNone, Roles
<1>3. ASSUME NEW c \in Confirmed(Offerer), c.session = s PROVE Bound(s)
  <2>1. CASE c \in related[Offerer]
    BY <1>3, <2>1 DEF Bound, BoundByOfferer
  <2>2. CASE /\ pending[Offerer] # None /\ c = Relationship(pending[Offerer])
    <3>1. pending[Offerer].session = s
      BY <1>3, <2>2 DEF Relationship
    <3> QED BY <1>2, <2>2, <3>1 DEF Bound, BoundByOfferer
  <2> QED BY <2>1, <2>2 DEF Confirmed
<1>4. ASSUME NEW f \in ToSet(lanes'["offererToResponder"].frames), f.session = s
      PROVE  Bound(s)
  <2>1. CASE f \in ToSet(lanes["offererToResponder"].frames)
    BY <1>4, <2>1 DEF Bound, BoundByOfferer
  <2>2. CASE \E p \in Participants : /\ Outbound(p) = "offererToResponder"
                                     /\ pending[p] # None /\ f \in ToSet(pending[p].out)
    <3>1. PICK p \in Participants : /\ Outbound(p) = "offererToResponder"
                                    /\ pending[p] # None /\ f \in ToSet(pending[p].out)
      BY <2>2
    <3>2. p = Offerer
      BY <3>1 DEF Outbound
    <3>3. f.session = pending[Offerer].session
      BY <1>1, <3>1, <3>2, SealedWell
    <3> QED BY <1>2, <1>4, <3>1, <3>2, <3>3 DEF Bound, BoundByOfferer
  <2>3. "offererToResponder" \in Directions
    BY DEF Directions
  <2> QED BY <2>1, <2>2, <2>3 DEF Carried
<1>5. ASSUME BoundByOfferer(s)'
      PROVE  Bound(s) \/ (pending'[Offerer] # None /\ pending'[Offerer].session = s)
  <2>1. \A c \in related'[Offerer] : c \in Confirmed(Offerer)
    BY <1>2 DEF Keeps
  <2> QED BY <1>3, <1>4, <1>5, <2>1 DEF BoundByOfferer
<1>6. ASSUME NEW r \in Responders, BoundByResponder(r, s)' PROVE Bound(s)
  <2>0. r \in Participants /\ Inbound(r) = "offererToResponder"
    BY Roles DEF Inbound
  <2>1. ASSUME BoundByResponder(r, s) PROVE Bound(s)
    BY <2>1 DEF Bound
  <2>2. ASSUME NEW f \in ToSet(batch'[r]), f.session = s PROVE Bound(s)
    <3>1. CASE f \in ToSet(batch[r])
      BY <2>1, <2>2, <3>1 DEF BoundByResponder
    <3>2. CASE f \in ToSet(lanes["offererToResponder"].frames)
      BY <2>2, <3>2 DEF Bound, BoundByOfferer
    <3> QED BY <2>0, <3>1, <3>2 DEF Carried
  <2>3. ASSUME NEW c \in Confirmed(r)', c.session = s PROVE Bound(s)
    <3>1. CASE c \in Confirmed(r)
      BY <2>1, <2>3, <3>1 DEF BoundByResponder
    <3>2. CASE Drafted(r) /\ c = Relationship(draft[r])
      <4>1. draft[r].session = s
        BY <2>3, <3>2 DEF Relationship
      <4> QED BY <2>1, <3>2, <4>1 DEF BoundByResponder
    <3> QED BY <2>0, <3>1, <3>2 DEF Keeps
  <2>4. ASSUME Drafted(r)', draft'[r].session = s PROVE Bound(s)
    <3>1. CASE Drafted(r) /\ draft'[r] = draft[r]
      BY <2>1, <2>4, <3>1 DEF BoundByResponder
    <3>2. CASE \E f \in ToSet(batch[r]) : f.session = draft'[r].session
      BY <2>1, <2>4, <3>2 DEF BoundByResponder
    <3> QED BY <2>0, <2>4, <3>1, <3>2 DEF Carried
  <2> QED BY <1>6, <2>2, <2>3, <2>4 DEF BoundByResponder
<1> QED BY <1>5, <1>6 DEF Bound

\* A step that gives the offerer no session, or gives it the first.
LEMMA SessionStays ==
  ASSUME PairingInv, TypeOK', Keeps, Carried,
         \/ pending'[Offerer] = None
         \/ pending[Offerer] # None /\ pending'[Offerer].session = pending[Offerer].session
         \/ minted'[Offerer] > 0 /\ \A s \in Sessions : ~Bound(s)
  PROVE  OneSession'
<1>1. OneSession /\ TypeOK /\ Offerer \in Participants
  BY Roles DEF PairingInv
<1>2. minted[Offerer] \in Nat /\ minted'[Offerer] \in Nat /\ minted[Offerer] <= minted'[Offerer]
  BY <1>1 DEF TypeOK, Carried
<1>3. CASE \/ pending'[Offerer] = None
           \/ pending[Offerer] # None /\ pending'[Offerer].session = pending[Offerer].session
  <2>1. ASSUME NEW s \in Sessions, Bound(s)' PROVE Bound(s)
    <3>1. CASE pending'[Offerer] # None /\ pending'[Offerer].session = s
      BY <1>3, <3>1, NoSessionIsNone DEF Bound, BoundByOfferer
    <3> QED BY <2>1, <3>1, BoundStays
  <2>2. \A s, t \in Sessions : Bound(s)' /\ Bound(t)' => s = t
    BY <1>1, <2>1 DEF OneSession
  <2>3. ASSUME NEW s \in Sessions, Bound(s)'
        PROVE  /\ minted'[Offerer] > 0
               /\ pending'[Offerer] # None => pending'[Offerer].session # NoSession
    <3>1. /\ minted[Offerer] > 0
          /\ pending[Offerer] # None => pending[Offerer].session # NoSession
      BY <1>1, <2>1, <2>3 DEF OneSession
    <3> QED BY <1>2, <1>3, <3>1
  <2> QED BY <2>2, <2>3 DEF OneSession
<1>4. CASE minted'[Offerer] > 0 /\ \A s \in Sessions : ~Bound(s)
  <2>1. ASSUME NEW s \in Sessions, Bound(s)'
        PROVE  pending'[Offerer] # None /\ pending'[Offerer].session = s
    BY <1>4, <2>1, BoundStays
  <2>2. \A s, t \in Sessions : Bound(s)' /\ Bound(t)' => s = t
    BY <2>1
  <2>3. \A s \in Sessions : Bound(s)' => pending'[Offerer].session # NoSession
    BY <2>1, NoSessionIsNone
  <2> QED BY <1>4, <2>2, <2>3 DEF OneSession
<1> QED BY <1>3, <1>4

-----------------------------------------------------------------------------
(* One participant steps *)

KeepsAt(p) ==
  /\ \A c \in Confirmed(p) : c \in Confirmed(p)' \/ p \in cancelled'
  /\ \A session \in Sessions : \A h \in Holds(p, session) :
       h \in Holds(p, session)' \/ p \in cancelled'
  /\ \A c \in Confirmed(p)' : c \in Confirmed(p) \/ (Drafted(p) /\ c = Relationship(draft[p]))
  /\ related'[p] \subseteq Confirmed(p)
CarriesAt(p) ==
  /\ minted[p] <= minted'[p]
  /\ Drafted(p)' => \/ Drafted(p) /\ draft'[p] = draft[p]
                    \/ /\ Mutual(p, Relationship(draft'[p]))
                       /\ \E f \in ToSet(batch[p]) : f.session = draft'[p].session
  /\ \A f \in ToSet(batch'[p]) :
       f \in ToSet(batch[p]) \/ f \in ToSet(lanes[Inbound(p)].frames)
Fares(p) == PumpWell(p)' /\ PersonaWell(p)' /\ KeepsAt(p) /\ CarriesAt(p)

\* What belongs to a participant and does not change.
SamePersona(p) == pending'[p] = pending[p] /\ related'[p] = related[p]
SamePump(p) == pump'[p] = pump[p] /\ batch'[p] = batch[p] /\ draft'[p] = draft[p]
Still(p) == SamePersona(p) /\ SamePump(p) /\ minted'[p] = minted[p]

LanesCarry ==
  /\ LanesShort'
  /\ \A d \in Directions : \A f \in ToSet(lanes'[d].frames) :
       \/ f \in ToSet(lanes[d].frames)
       \/ \E p \in Participants : /\ Outbound(p) = d /\ pending[p] # None
                                  /\ f \in ToSet(pending[p].out)
SessionKept ==
  \/ pending'[Offerer] = None
  \/ pending[Offerer] # None /\ pending'[Offerer].session = pending[Offerer].session
  \/ minted'[Offerer] > 0 /\ \A s \in Sessions : ~Bound(s)

LEMMA SameKeeps ==
  ASSUME NEW p \in Participants, SamePersona(p)
  PROVE  KeepsAt(p) /\ Confirmed(p)' = Confirmed(p)
<1>1. Confirmed(p)' = Confirmed(p)
  BY DEF SamePersona, Confirmed, Relationship
<1>2. \A session \in Sessions : Holds(p, session)' = Holds(p, session)
  BY DEF SamePersona, Holds
<1>3. related'[p] \subseteq Confirmed(p)
  BY DEF SamePersona, Confirmed
<1> QED BY <1>1, <1>2, <1>3 DEF KeepsAt

LEMMA SamePersonaWell ==
  ASSUME TypeOK, NEW p \in Participants, PumpWell(p), PersonaWell(p), SamePersona(p),
         minted'[p] \in Nat, minted[p] <= minted'[p]
  PROVE  PersonaWell(p)'
<1>1. \A c \in related'[p] : LinkWell(p, c)
  BY DEF SamePersona, PersonaWell
<1>2. CASE p = Offerer
  <2>1. OffererKeeps
    BY <1>2 DEF PersonaWell
  <2>2. OffererKeeps'
    BY <1>2, <2>1, PendingTyped DEF OffererKeeps, SamePersona
  <2> QED BY <1>1, <1>2, <2>2 DEF PersonaWell, LinkWell, RelationshipAgrees
<1>3. CASE p # Offerer
  <2>1. ResponderKeeps(p) /\ minted[p] \in Nat
    BY <1>3, PendingTyped DEF PersonaWell
  <2>2. \A c \in related[p] : c.session[2] \in Nat
    BY PendingTyped, Roles DEF Links
  <2>3. pending[p] # None => pending[p].session[2] \in Nat
    BY <1>3, Roles DEF PumpWell, Well, ResponderWell
  <2>4. \A c \in related[p] : c.session[2] <= minted'[p]
    BY <2>1, <2>2 DEF ResponderKeeps
  <2>5. pending[p] # None => pending[p].session[2] <= minted'[p]
    BY <2>1, <2>3 DEF ResponderKeeps
  <2>6. ResponderKeeps(p)'
    BY <2>1, <2>4, <2>5 DEF ResponderKeeps, SamePersona
  <2> QED BY <1>1, <1>3, <2>6 DEF PersonaWell, LinkWell, RelationshipAgrees
<1> QED BY <1>2, <1>3

LEMMA StillFares ==
  ASSUME PairingInv, TypeOK', NEW p \in Participants, Still(p)
  PROVE  Fares(p)
<1>1. TypeOK /\ PumpWell(p) /\ PersonaWell(p) /\ minted[p] \in Nat
  BY PendingTyped DEF PairingInv
<1>2. PersonaWell(p)'
  BY <1>1, SamePersonaWell DEF Still
<1>3. PumpWell(p)'
  BY <1>1 DEF PumpWell, Still, SamePersona, SamePump
<1>4. CarriesAt(p)
  BY <1>1 DEF CarriesAt, Still, SamePump, Drafted
<1> QED BY <1>2, <1>3, <1>4, SameKeeps DEF Fares, Still

\* A step of one participant keeps the invariant.
LEMMA Stepped ==
  ASSUME PairingInv, TypeOK', NEW p \in Participants, Fares(p),
         \A q \in Participants : q # p => Still(q),
         LanesCarry, SessionKept, cancelled \subseteq cancelled'
  PROVE  PairingInv'
<1>1. \A q \in Participants : Fares(q)
  BY StillFares
<1>2. Keeps
  BY <1>1, Roles DEF Keeps, Grows, KeepsAt, Fares
<1>3. Carried
  BY <1>1 DEF Carried, CarriesAt, Fares, LanesCarry
<1>4. LanesWell' /\ \A q \in Participants : BatchWell(q)'
  BY <1>2, <1>3, FramesStay
<1>5. \A q \in Participants : PeersAgree(q)'
  BY <1>1, <1>2, <1>3, PeersStay DEF Fares
<1>6. OneSession'
  BY <1>2, <1>3, SessionStays DEF SessionKept
<1> QED BY <1>1, <1>4, <1>5, <1>6 DEF PairingInv, Fares, LanesCarry

LEMMA SameLanes ==
  ASSUME PairingInv, UNCHANGED lanes
  PROVE  LanesCarry
BY DEF PairingInv, LanesCarry, LanesShort

-----------------------------------------------------------------------------
(* A pairing begins *)

LEMMA InitWell == Init => PairingInv
<1> SUFFICES ASSUME Init PROVE PairingInv
  OBVIOUS
<1>0. <<>> \in Seq(Frames) /\ ToSet(<<>>) = {} /\ Len(<<>>) = 0
  BY NoElements
<1>1. TypeOK
  BY <1>0 DEF Init, TypeOK
<1>2. \A d \in Directions : lanes[d].frames = <<>>
  BY DEF Init
<1>3. "offererToResponder" \in Directions /\ "responderToOfferer" \in Directions
  BY DEF Directions
<1>4. LanesWell /\ LanesShort
  BY <1>0, <1>2, <1>3 DEF LanesWell, LanesShort
<1>5. ASSUME NEW p \in Participants
      PROVE  /\ pending[p] = None /\ draft[p] = None /\ batch[p] = <<>> /\ pump[p] = "idle"
             /\ related[p] = {} /\ Confirmed(p) = {} /\ ~Drafted(p)
  BY DEF Init, Confirmed, Drafted
<1>6. ASSUME NEW p \in Participants
      PROVE  PumpWell(p) /\ PersonaWell(p) /\ BatchWell(p) /\ PeersAgree(p)
  <2>1. PumpWell(p) /\ BatchWell(p) /\ PeersAgree(p)
    BY <1>0, <1>5 DEF PumpWell, BatchWell, PeersAgree
  <2>2. PersonaWell(p)
    BY <1>5, Roles DEF PersonaWell, OffererKeeps, ResponderKeeps
  <2> QED BY <2>1, <2>2
<1>7. \A s \in Sessions : ~Bound(s)
  BY <1>0, <1>2, <1>3, <1>5, Roles DEF Bound, BoundByOfferer, BoundByResponder
<1> QED BY <1>1, <1>4, <1>6, <1>7 DEF PairingInv, OneSession

LEMMA OffererBegins == OffererState \in States /\ Well(Offerer, OffererState)
<1>0. <<>> \in Seq(Frames) /\ <<>> \in Seq(Intros) /\ ToSet(<<>>) = {} /\ Len(<<>>) = 0
  BY NoElements
<1>1. OffererState \in States
  BY <1>0 DEF OffererState, States, Phases
<1>2. Outbox(Offerer, OffererState)
  BY <1>0 DEF OffererState, Outbox, InPlace
<1>3. OffererWell(OffererState)
  BY <1>2 DEF OffererWell, OffererState, Counts
<1> QED BY <1>1, <1>3 DEF Well

LEMMA ResponderBegins ==
  ASSUME NEW r \in Responders, NEW mint \in Nat
  PROVE  LET s == ResponderState(r, mint)
         IN /\ s \in States /\ Well(r, s) /\ s.phase = "awaitingIntroduction"
            /\ s.peer = <<>> /\ s.session = <<r, mint>>
<1> DEFINE e == Session(r, mint)
           local == Introduction(r, mint, e)
           f == Open(e)
           g == Frame(2, "responder", 1, "contactAcceptance", e, <<local>>)
           out == <<f, g>>
           s == ResponderState(r, mint)
<1>1. e \in Sessions /\ e[1] = r /\ e[2] = mint
  BY DEF Session, Sessions
<1>2. local \in Intros
  BY <1>1, Roles DEF Introduction, Intros
<1>3. /\ f \in Frames /\ f.sequence = 1 /\ f.role = "responder" /\ f.kind = "open"
      /\ f.session = e
  BY <1>1 DEF Open, Frame, Frames, Kinds
<1>4. /\ g \in Frames /\ g.sequence = 2 /\ g.role = "responder"
      /\ g.kind = "contactAcceptance" /\ g.session = e /\ Len(g.content) = 1
  <2> HIDE DEF local, e
  <2> QED BY <1>1, <1>2 DEF Frame, Frames, Kinds
<1>5. /\ s.phase = "awaitingIntroduction" /\ s.session = e /\ s.redeemed = {}
      /\ s.sealed = 1 /\ s.opened = 0 /\ s.local = <<local>> /\ s.peer = <<>>
      /\ s.nextOut = 3 /\ s.nextIn = 1 /\ s.out = out
  BY DEF ResponderState
<1>6. s \in States
  <2>1. s = [phase |-> "awaitingIntroduction", session |-> e, redeemed |-> {},
             sealed |-> 1, opened |-> 0, local |-> <<local>>, peer |-> <<>>,
             confirmation |-> <<>>, nextOut |-> 3, nextIn |-> 1, out |-> out]
    BY DEF ResponderState
  <2> HIDE DEF e, local, f, g, s
  <2>2. out \in Seq(Frames) /\ <<local>> \in Seq(Intros) /\ <<>> \in Seq(Intros)
    BY <1>2, <1>3, <1>4
  <2> HIDE DEF out
  <2> QED BY <1>1, <2>1, <2>2 DEF States, Phases
<1> HIDE DEF s, f, g, e
<1>7. Len(out) = 2 /\ out[1] = f /\ out[2] = g /\ ToSet(out) = {f, g}
  <2>1. Len(out) = 2 /\ out[1] = f /\ out[2] = g /\ out \in Seq(Frames)
    BY <1>3, <1>4
  <2> HIDE DEF out
  <2>2. DOMAIN out = 1..2
    BY <2>1, Elements
  <2>3. ToSet(out) = {out[i] : i \in 1..2}
    BY <2>2 DEF ToSet
  <2> QED BY <2>1, <2>3
<1> HIDE DEF out
<1>8. Outbox(r, s)
  <2>1. InPlace(s)
    BY <1>3, <1>4, <1>5, <1>7 DEF InPlace
  <2>2. Sealed(r, s, f) /\ Sealed(r, s, g)
    BY <1>3, <1>4, <1>5, Roles DEF Sealed
  <2> QED BY <1>5, <1>7, <2>1, <2>2 DEF Outbox
<1>9. ResponderWell(r, s)
  BY <1>1, <1>5, <1>8 DEF ResponderWell, Counts
<1> QED BY <1>1, <1>5, <1>6, <1>9, Roles DEF Well, s, e, Session

LEMMA InviteKeeps ==
  ASSUME PairingInv, Invite
  PROVE  PairingInv'
<1> DEFINE p == Offerer
           s == OffererState
<1>0. <<>> \in Seq(Frames) /\ ToSet(<<>>) = {} /\ Len(<<>>) = 0
  BY NoElements
<1>1. /\ TypeOK /\ PumpWell(p) /\ PersonaWell(p) /\ p \in Participants /\ OneSession
      /\ pending[p] = None /\ minted[p] = 0
  BY Roles DEF PairingInv, Invite
<1>2. s \in States /\ Well(p, s) /\ s # None /\ s.phase = "awaitingOpen" /\ s.peer = <<>>
  BY OffererBegins, NotNone DEF OffererState
<1> HIDE DEF s
<1>3. /\ pending' = [pending EXCEPT ![p] = s] /\ stored' = [stored EXCEPT ![p] = s]
      /\ minted' = [minted EXCEPT ![p] = 1] /\ lanes' = Registered
      /\ UNCHANGED <<related, pump, batch, draft, expired, cancelled>>
  BY <1>1 DEF Invite, Persist, Fresh, volatile, s
<1>4. TypeOK'
  <2>1. Registered \in [Directions -> [open: BOOLEAN, frames: Seq(Frames)]]
    BY <1>0 DEF Registered
  <2> QED BY <1>1, <1>2, <1>3, <2>1 DEF TypeOK
<1>5. pending'[p] = s /\ minted'[p] = 1
  BY <1>1, <1>3 DEF TypeOK
<1>6. \A q \in Participants : q # p => Still(q)
  BY <1>1, <1>3 DEF TypeOK, Still, SamePersona, SamePump
<1>7. related[p] = {} /\ draft[p] = None /\ batch[p] = <<>> /\ pump[p] = "idle"
  <2>1. pump[p] \in {"idle", "accepted", "finishing", "cancelling"}
    BY <1>1 DEF TypeOK
  <2> QED BY <1>1, <2>1 DEF PersonaWell, OffererKeeps, PumpWell
<1>8. /\ PumpWell(p)' /\ PersonaWell(p)'
  <2>1. PumpWell(p)'
    BY <1>2, <1>3, <1>5, <1>7 DEF PumpWell
  <2>2. PersonaWell(p)'
    BY <1>3, <1>5, <1>7 DEF PersonaWell, OffererKeeps
  <2> QED BY <2>1, <2>2
<1>9. KeepsAt(p) /\ CarriesAt(p)
  <2>1. Confirmed(p) = {} /\ Confirmed(p)' = {}
    BY <1>1, <1>2, <1>3, <1>5, <1>7 DEF Confirmed
  <2>2. \A session \in Sessions : Holds(p, session) = {}
    BY <1>1, <1>7 DEF Holds
  <2>3. KeepsAt(p)
    BY <1>3, <1>7, <2>1, <2>2 DEF KeepsAt
  <2>4. CarriesAt(p)
    BY <1>0, <1>1, <1>3, <1>5, <1>7 DEF CarriesAt, Drafted
  <2> QED BY <2>3, <2>4
<1>10. LanesCarry
  <2>1. \A d \in Directions : lanes'[d].frames = <<>>
    BY <1>3 DEF Registered
  <2> QED BY <1>0, <2>1 DEF LanesCarry, LanesShort, Directions
<1>11. SessionKept
  BY <1>1, <1>5 DEF SessionKept, OneSession
<1> QED BY <1>1, <1>3, <1>4, <1>6, <1>8, <1>9, <1>10, <1>11, Stepped DEF Fares

LEMMA AcceptKeeps ==
  ASSUME PairingInv, NEW r \in Responders, Accept(r)
  PROVE  PairingInv'
<1> DEFINE mint == minted[r] + 1
           s == ResponderState(r, mint)
<1>0. r \in Participants /\ r # Offerer /\ ToSet(<<>>) = {}
  BY Roles, NoElements
<1>1. /\ TypeOK /\ PumpWell(r) /\ PersonaWell(r) /\ pending[r] = None
      /\ minted[r] \in Nat /\ mint \in Nat
  BY <1>0, PendingTyped DEF PairingInv, Accept
<1>2. /\ s \in States /\ Well(r, s) /\ s.phase = "awaitingIntroduction"
      /\ s.peer = <<>> /\ s.session = <<r, mint>>
  BY <1>1, ResponderBegins
<1>3. s # None
  BY <1>2, NotNone
<1>4. /\ pending' = [pending EXCEPT ![r] = s] /\ stored' = [stored EXCEPT ![r] = s]
      /\ minted' = [minted EXCEPT ![r] = mint]
      /\ UNCHANGED <<related, pump, batch, draft, lanes, expired, cancelled>>
  BY DEF Accept, Persist, Fresh, volatile
<1> HIDE DEF s
<1>5. TypeOK'
  BY <1>0, <1>1, <1>2, <1>4 DEF TypeOK
<1>6. pending'[r] = s /\ minted'[r] = mint /\ minted[r] <= mint /\ minted[r] < mint
  BY <1>0, <1>1, <1>4 DEF TypeOK
<1>7. \A q \in Participants : q # r => Still(q)
  BY <1>1, <1>4 DEF TypeOK, Still, SamePersona, SamePump
<1>8. draft[r] = None /\ batch[r] = <<>> /\ pump[r] = "idle"
  <2>1. pump[r] \in {"idle", "accepted", "finishing", "cancelling"}
    BY <1>0, <1>1 DEF TypeOK
  <2> QED BY <1>1, <2>1 DEF PumpWell
<1>9. PumpWell(r)'
  BY <1>2, <1>4, <1>6, <1>8 DEF PumpWell
<1>10. PersonaWell(r)'
  <2>1. \A c \in related[r] : LinkWell(r, c) /\ c.session[2] \in Nat /\ c.session[2] <= minted[r]
    BY <1>0, <1>1, PendingTyped, Roles DEF PersonaWell, ResponderKeeps, Links
  <2>2. \A c \in related[r] : c.session[2] <= mint /\ c.session[2] # mint
    BY <1>1, <2>1
  <2>3. s.session[2] = mint
    BY <1>2
  <2>4. \A c \in related[r] : c.session # s.session
    BY <2>2, <2>3
  <2>5. ResponderKeeps(r)'
    BY <1>0, <1>1, <1>4, <1>6, <2>2, <2>3, <2>4 DEF PersonaWell, ResponderKeeps
  <2> QED BY <1>0, <1>4, <2>1, <2>5 DEF PersonaWell, LinkWell, RelationshipAgrees
<1>11. KeepsAt(r)
  <2>1. Confirmed(r) = related[r] /\ Confirmed(r)' = related[r]
    BY <1>1, <1>2, <1>4, <1>6 DEF Confirmed
  <2>2. \A session \in Sessions : Holds(r, session)' = Holds(r, session)
    BY <1>1, <1>2, <1>4, <1>6 DEF Holds
  <2> QED BY <1>4, <2>1, <2>2 DEF KeepsAt
<1>12. CarriesAt(r)
  BY <1>0, <1>4, <1>6, <1>8 DEF CarriesAt, Drafted
<1>13. SessionKept
  BY <1>0, <1>1, <1>4 DEF SessionKept, TypeOK
<1> QED BY <1>0, <1>4, <1>5, <1>7, <1>9, <1>10, <1>11, <1>12, <1>13, SameLanes, Stepped
        DEF Fares

-----------------------------------------------------------------------------
(* The pump *)

\* The pending pairing of an offerer is still there with its session.
LEMMA SamePending ==
  ASSUME TypeOK, NEW p \in Participants,
         \A q \in Participants : q # p => pending'[q] = pending[q],
         \/ pending'[p] = None
         \/ pending[p] # None /\ pending'[p].session = pending[p].session
  PROVE  SessionKept
BY Roles DEF SessionKept

LEMMA Acknowledging ==
  ASSUME NEW p \in Participants, NEW s \in States, Well(p, s), s.out # <<>>
  PROVE  LET t == Acknowledged(s)
         IN /\ t \in States /\ Well(p, t) /\ t # None /\ t.phase = s.phase
            /\ t.session = s.session /\ t.local = s.local /\ t.peer = s.peer
<1> DEFINE o == Tail(s.out)
           t == Acknowledged(s)
<1>1. /\ s.out \in Seq(Frames) /\ o \in Seq(Frames) /\ Len(o) = Len(s.out) - 1
      /\ Len(s.out) \in Nat \ {0} /\ ToSet(o) \subseteq ToSet(s.out)
      /\ \A i \in 1..Len(o) : o[i] = s.out[i + 1]
  BY StateFields, Taken
<1>2. t = [s EXCEPT !.out = o]
  BY DEF Acknowledged
<1> HIDE DEF o, t
<1>3. /\ t \in States /\ t.phase = s.phase /\ t.session = s.session
      /\ t.redeemed = s.redeemed /\ t.sealed = s.sealed /\ t.opened = s.opened
      /\ t.local = s.local /\ t.peer = s.peer /\ t.confirmation = s.confirmation
      /\ t.nextOut = s.nextOut /\ t.nextIn = s.nextIn /\ t.out = o
  BY <1>1, <1>2 DEF States
<1>4. Outbox(p, s) => Outbox(p, t)
  <2> SUFFICES ASSUME Outbox(p, s) PROVE Outbox(p, t)
    OBVIOUS
  <2> DEFINE l == Len(o)
             m == Len(s.out)
             n == s.nextOut
  <2>1. l \in Nat /\ m \in Nat /\ l = m - 1 /\ n \in Nat /\ m < n
    BY <1>1, StateFields, Elements DEF Outbox, InPlace
  <2>2. \A i \in 1..m : s.out[i].sequence = n - m + i - 1
    BY DEF Outbox, InPlace
  <2>3. \A i \in 1..l : o[i] = s.out[i + 1]
    BY <1>1
  <2> HIDE DEF l, m, n
  <2>4. ASSUME NEW i \in 1..l PROVE o[i].sequence = n - l + i - 1
    <3>1. i + 1 \in 1..m /\ n - m + (i + 1) - 1 = n - l + i - 1
      BY <2>1
    <3>2. s.out[i + 1].sequence = n - m + (i + 1) - 1
      BY <2>2, <3>1
    <3> QED BY <2>3, <3>1, <3>2
  <2>5. InPlace(t)
    BY <1>3, <2>1, <2>4 DEF InPlace, l, n
  <2>6. \A f \in ToSet(o) : Sealed(p, s, f)
    BY <1>1 DEF Outbox
  <2>7. \A f \in ToSet(o) : Sealed(p, t, f)
    BY <1>3, <2>6 DEF Sealed
  <2> QED BY <1>3, <2>5, <2>7 DEF Outbox
<1>5. Met(p, s) => Met(p, t)
  BY <1>3 DEF Met
<1>6. Well(p, t)
  <2>1. CASE p = Offerer
    BY <1>3, <1>4, <1>5, <2>1 DEF Well, OffererWell, Counts
  <2>2. CASE p # Offerer
    BY <1>3, <1>4, <1>5, <2>2 DEF Well, ResponderWell, Counts
  <2> QED BY <2>1, <2>2
<1> QED BY <1>3, <1>6, NotNone DEF t

LEMMA AcknowledgeKeeps ==
  ASSUME PairingInv, NEW p \in Participants, Acknowledge(p)
  PROVE  PairingInv'
<1> DEFINE s == pending[p]
           t == Acknowledged(s)
<1>1. /\ TypeOK /\ PumpWell(p) /\ PersonaWell(p) /\ pump[p] = "accepted"
      /\ s # None /\ s.out # <<>> /\ batch[p] = <<>> /\ draft[p] = None
      /\ s \in States /\ Well(p, s)
  BY PendingTyped DEF PairingInv, Acknowledge, PumpWell
<1>2. /\ t \in States /\ Well(p, t) /\ t # None /\ t.phase = s.phase
      /\ t.session = s.session /\ t.local = s.local /\ t.peer = s.peer
  BY <1>1, Acknowledging
<1>3. /\ pending' = [pending EXCEPT ![p] = t] /\ stored' = [stored EXCEPT ![p] = t]
      /\ pump' = [pump EXCEPT ![p] = "idle"]
      /\ UNCHANGED <<related, minted, batch, draft, lanes, expired, cancelled>>
  BY DEF Acknowledge, Persist
<1> HIDE DEF t
<1>4. TypeOK'
  BY <1>1, <1>2, <1>3 DEF TypeOK
<1>5. pending'[p] = t /\ pump'[p] = "idle"
  BY <1>1, <1>3 DEF TypeOK
<1>6. \A q \in Participants : q # p => Still(q)
  BY <1>1, <1>3 DEF TypeOK, Still, SamePersona, SamePump
<1>7. PumpWell(p)'
  BY <1>1, <1>2, <1>3, <1>5 DEF PumpWell
<1>8. PersonaWell(p)'
  BY <1>1, <1>2, <1>3, <1>5
  DEF PersonaWell, OffererKeeps, ResponderKeeps, LinkWell, RelationshipAgrees
<1>9. KeepsAt(p)
  <2>1. Relationship(t) = Relationship(s)
    BY <1>2 DEF Relationship
  <2>2. Confirmed(p)' = Confirmed(p)
    BY <1>1, <1>2, <1>3, <1>5, <2>1 DEF Confirmed
  <2>3. \A session \in Sessions : Holds(p, session)' = Holds(p, session)
    BY <1>1, <1>2, <1>3, <1>5 DEF Holds
  <2> QED BY <1>3, <2>2, <2>3 DEF KeepsAt, Confirmed
<1>10. CarriesAt(p)
  BY <1>1, <1>3, PendingTyped DEF CarriesAt, Drafted
<1>11. SessionKept
  BY <1>1, <1>2, <1>5, <1>6, SamePending DEF Still, SamePersona
<1> QED BY <1>3, <1>4, <1>6, <1>7, <1>8, <1>9, <1>10, <1>11, SameLanes, Stepped DEF Fares

\* A step that leaves the persona and its draft alone.
LEMMA PumpSteps ==
  ASSUME PairingInv, TypeOK', NEW p \in Participants, UNCHANGED <<pending, related, minted>>,
         \A q \in Participants : q # p => SamePump(q),
         draft'[p] = draft[p] \/ draft'[p] = None,
         batch'[p] # <<>> => pending[p] # None,
         \A f \in ToSet(batch'[p]) :
           f \in ToSet(batch[p]) \/ f \in ToSet(lanes[Inbound(p)].frames),
         pump'[p] # "idle" => pending[p] # None /\ batch'[p] = <<>> /\ draft'[p] = None,
         pump'[p] = "accepted" => pending[p].out # <<>>,
         pump'[p] = "finishing" => pending[p].phase = "ready",
         LanesCarry, cancelled \subseteq cancelled'
  PROVE  PairingInv'
<1>1. TypeOK /\ PumpWell(p) /\ PersonaWell(p) /\ minted[p] \in Nat /\ OneSession
  BY PendingTyped DEF PairingInv
<1>2. \A q \in Participants : q # p => Still(q)
  BY DEF Still, SamePersona
<1>3. PumpWell(p)'
  BY <1>1 DEF PumpWell
<1>4. PersonaWell(p)'
  BY <1>1, SamePersonaWell DEF SamePersona
<1>5. KeepsAt(p)
  BY SameKeeps DEF SamePersona
<1>6. CarriesAt(p)
  BY <1>1 DEF CarriesAt, Drafted
<1>7. SessionKept
  BY SamePending, <1>1
<1> QED BY <1>2, <1>3, <1>4, <1>5, <1>6, <1>7, Stepped DEF Fares

LEMMA SentFrame ==
  ASSUME PairingInv, NEW p \in Participants, pending[p] # None, pending[p].out # <<>>
  PROVE  LET frame == Head(pending[p].out)
         IN /\ frame \in ToSet(pending[p].out) /\ frame \in Frames
            /\ frame.sequence <= IF p = Offerer THEN 2 ELSE 3
<1> DEFINE s == pending[p]
           frame == Head(s.out)
           l == Len(s.out)
           n == s.nextOut
<1>1. s \in States /\ Well(p, s)
  BY PendingTyped DEF PairingInv, PumpWell
<1>2. /\ s.out \in Seq(Frames) /\ frame = s.out[1] /\ frame \in ToSet(s.out)
      /\ frame \in Frames /\ l \in Nat \ {0} /\ n \in Nat
  BY <1>1, StateFields, Taken
<1>3. Outbox(p, s) /\ n <= IF p = Offerer THEN 3 ELSE 4
  BY <1>1 DEF Well, OffererWell, ResponderWell, Counts
<1>4. frame.sequence = n - l + 1 - 1
  BY <1>2, <1>3 DEF Outbox, InPlace
<1> HIDE DEF l, n, frame
<1>5. frame.sequence <= n - 1 /\ frame.sequence \in Nat
  BY <1>2, <1>4, FrameFields
<1>6. frame.sequence <= IF p = Offerer THEN 2 ELSE 3
  BY ONLY <1>2, <1>3, <1>5
<1> QED BY <1>2, <1>6 DEF frame

LEMMA SendKeeps ==
  ASSUME PairingInv, NEW p \in Participants, Send(p)
  PROVE  PairingInv'
<1> DEFINE o == Outbound(p)
           frame == Head(pending[p].out)
           held == lanes[o].frames
<1>1. /\ TypeOK /\ LanesShort /\ pending[p] # None /\ pending[p].out # <<>>
      /\ batch[p] = <<>> /\ draft[p] = None
  BY DEF PairingInv, Send, Idle
<1>2. /\ frame \in ToSet(pending[p].out) /\ frame \in Frames
      /\ frame.sequence <= IF p = Offerer THEN 2 ELSE 3
  BY <1>1, SentFrame
<1>3. /\ o \in Directions /\ held \in Seq(Frames) /\ Len(held) \in Nat
      /\ frame.sequence \in Nat
      /\ lanes \in [Directions -> [open: BOOLEAN, frames: Seq(Frames)]]
  BY <1>1, <1>2, Elements, FrameFields DEF Outbound, Directions, TypeOK
<1>4. /\ frame.sequence <= Len(held) + 1
      /\ lanes' = WithFrame(o, frame) /\ pump' = [pump EXCEPT ![p] = "accepted"]
      /\ UNCHANGED <<pending, stored, related, minted, batch, draft, expired, cancelled>>
  BY <1>3 DEF Send, Takes, saved
<1>5. o = IF p = Offerer THEN "offererToResponder" ELSE "responderToOfferer"
  BY DEF Outbound
<1> HIDE DEF o, frame
<1>6. \/ lanes' = lanes
      \/ /\ lanes' = [lanes EXCEPT ![o].frames = Append(held, frame)]
         /\ Len(held) + 1 = frame.sequence
  BY <1>3, <1>4 DEF WithFrame
<1>7. CASE lanes' = [lanes EXCEPT ![o].frames = Append(held, frame)]
           /\ Len(held) + 1 = frame.sequence
  <2> DEFINE a == Append(held, frame)
  <2>1. /\ a \in Seq(Frames) /\ Len(a) = frame.sequence
        /\ ToSet(a) = ToSet(held) \cup {frame}
    BY <1>2, <1>3, <1>7, Appended
  <2>2. lanes' = [lanes EXCEPT ![o].frames = a]
    BY <1>7
  <2> HIDE DEF a
  <2>3. /\ lanes' \in [Directions -> [open: BOOLEAN, frames: Seq(Frames)]]
        /\ lanes'[o].frames = a
        /\ \A d \in Directions : d # o => lanes'[d].frames = lanes[d].frames
    BY <1>3, <2>1, <2>2
  <2>4. TypeOK'
    BY <1>1, <1>4, <2>3 DEF TypeOK
  <2>5. LanesShort'
    BY <1>1, <1>2, <1>5, <2>1, <2>3 DEF LanesShort, Directions
  <2>6. \A d \in Directions : \A f \in ToSet(lanes'[d].frames) :
          f \in ToSet(lanes[d].frames) \/ (d = o /\ f \in ToSet(pending[p].out))
    BY <1>2, <2>1, <2>3
  <2>7. LanesCarry
    BY <1>1, <2>5, <2>6 DEF LanesCarry, o
  <2> QED BY <1>1, <1>4, <2>4, <2>7, PumpSteps DEF TypeOK, SamePump
<1>8. CASE lanes' = lanes
  <2>1. TypeOK'
    BY <1>1, <1>4, <1>8 DEF TypeOK
  <2> QED BY <1>1, <1>4, <1>8, <2>1, SameLanes, PumpSteps DEF TypeOK, SamePump
<1> QED BY <1>6, <1>7, <1>8

LEMMA SyncKeeps ==
  ASSUME PairingInv, NEW p \in Participants, Sync(p)
  PROVE  PairingInv'
<1> DEFINE held == lanes[Inbound(p)].frames
           b == Batch(p)
<1>1. /\ TypeOK /\ pending[p] # None /\ pump[p] = "idle" /\ draft[p] = None
      /\ pending[p] \in States /\ Well(p, pending[p])
  BY PendingTyped DEF PairingInv, Sync, Idle, PumpWell
<1>2. held \in Seq(Frames)
  BY <1>1 DEF TypeOK, Inbound, Directions
<1>3. pending[p].nextIn \in Nat \ {0}
  BY <1>1 DEF Well, OffererWell, ResponderWell, Counts
<1>4. b \in Seq(Frames) /\ ToSet(b) \subseteq ToSet(held)
  BY <1>2, <1>3, Suffix DEF Batch
<1>5. /\ batch' = [batch EXCEPT ![p] = b]
      /\ UNCHANGED <<pending, stored, related, minted, pump, draft, lanes, expired, cancelled>>
  BY DEF Sync, saved
<1> HIDE DEF b
<1>6. TypeOK'
  BY <1>1, <1>4, <1>5 DEF TypeOK
<1>7. batch'[p] = b /\ \A q \in Participants : q # p => batch'[q] = batch[q]
  BY <1>1, <1>5 DEF TypeOK
<1> QED BY <1>1, <1>4, <1>5, <1>6, <1>7, SameLanes, PumpSteps DEF SamePump

\* Lanes are deleted, and nothing is put into them.
LEMMA Deleting ==
  ASSUME PairingInv, NEW directions, lanes' = Without(directions)
  PROVE  /\ LanesCarry
         /\ lanes' \in [Directions -> [open: BOOLEAN, frames: Seq(Frames)]]
<1>0. <<>> \in Seq(Frames) /\ ToSet(<<>>) = {} /\ Len(<<>>) = 0
  BY NoElements
<1>1. lanes \in [Directions -> [open: BOOLEAN, frames: Seq(Frames)]] /\ LanesShort
  BY DEF PairingInv, TypeOK
<1>2. \A d \in Directions : lanes'[d].frames = lanes[d].frames \/ lanes'[d].frames = <<>>
  BY DEF Without
<1>3. LanesShort'
  <2>1. "offererToResponder" \in Directions /\ "responderToOfferer" \in Directions
    BY DEF Directions
  <2> QED BY <1>0, <1>1, <1>2, <2>1 DEF LanesShort
<1>4. lanes' \in [Directions -> [open: BOOLEAN, frames: Seq(Frames)]]
  BY <1>0, <1>1 DEF Without
<1> QED BY <1>0, <1>2, <1>3, <1>4 DEF LanesCarry

LEMMA DeleteLaneKeeps ==
  ASSUME PairingInv, NEW p \in Participants, DeleteLane(p)
  PROVE  PairingInv'
<1>1. /\ TypeOK /\ batch[p] = <<>> /\ draft[p] = None /\ pending[p].phase = "ready"
      /\ pending[p] \in States \cup {None}
  BY DEF PairingInv, DeleteLane, Finalizes, Idle, TypeOK
<1>2. pending[p] # None
  BY <1>1 DEF None
<1>3. /\ lanes' = Without(DeletedBy(p)) /\ pump' = [pump EXCEPT ![p] = "finishing"]
      /\ UNCHANGED <<pending, stored, related, minted, batch, draft, expired, cancelled>>
  BY DEF DeleteLane, saved
<1>4. /\ LanesCarry
      /\ lanes' \in [Directions -> [open: BOOLEAN, frames: Seq(Frames)]]
  BY <1>3, Deleting
<1>5. TypeOK'
  BY <1>1, <1>3, <1>4 DEF TypeOK
<1>6. pump'[p] = "finishing" /\ \A q \in Participants : q # p => pump'[q] = pump[q]
  BY <1>1, <1>3 DEF TypeOK
<1> QED BY <1>1, <1>2, <1>3, <1>4, <1>5, <1>6, PumpSteps DEF SamePump

LEMMA CancelLanesKeeps ==
  ASSUME PairingInv, NEW p \in Participants, CancelLanes(p)
  PROVE  PairingInv'
<1>1. /\ TypeOK /\ pump[p] = "idle" /\ batch[p] = <<>> /\ draft[p] = None
      /\ pending[p] # None
  BY DEF PairingInv, CancelLanes, Idle
<1>2. /\ UNCHANGED <<pending, stored, related, minted, batch, draft, expired>>
      /\ pump' = pump \/ pump' = [pump EXCEPT ![p] = "cancelling"]
      /\ cancelled' = cancelled \/ cancelled' = cancelled \cup {p}
      /\ lanes' = lanes \/ \E directions : lanes' = Without(directions)
  BY DEF CancelLanes, saved
<1>3. /\ LanesCarry
      /\ lanes' \in [Directions -> [open: BOOLEAN, frames: Seq(Frames)]]
  BY <1>1, <1>2, SameLanes, Deleting DEF TypeOK
<1>4. TypeOK'
  BY <1>1, <1>2, <1>3 DEF TypeOK
<1>5. /\ pump'[p] \in {"idle", "cancelling"}
      /\ \A q \in Participants : q # p => pump'[q] = pump[q]
  BY <1>1, <1>2 DEF TypeOK
<1>6. pump'[p] # "accepted" /\ pump'[p] # "finishing" /\ cancelled \subseteq cancelled'
  BY <1>2, <1>5
<1> QED BY <1>1, <1>2, <1>3, <1>4, <1>5, <1>6, PumpSteps DEF SamePump

LEMMA InterruptKeeps ==
  ASSUME PairingInv, NEW p \in Participants, Interrupt(p)
  PROVE  PairingInv'
<1>1. TypeOK /\ stored = pending /\ <<>> \in Seq(Frames) /\ ToSet(<<>>) = {}
  BY NoElements DEF PairingInv, TypeOK
<1>2. /\ pending' = pending /\ pump' = [pump EXCEPT ![p] = "idle"]
      /\ batch' = [batch EXCEPT ![p] = <<>>] /\ draft' = [draft EXCEPT ![p] = None]
      /\ UNCHANGED <<stored, related, minted, lanes, expired, cancelled>>
  BY <1>1 DEF Interrupt, TypeOK
<1>3. TypeOK'
  BY <1>1, <1>2 DEF TypeOK
<1>4. pump'[p] = "idle" /\ batch'[p] = <<>> /\ draft'[p] = None
  BY <1>1, <1>2 DEF TypeOK
<1>5. \A q \in Participants : q # p => SamePump(q)
  BY <1>1, <1>2 DEF TypeOK, SamePump
<1> QED BY <1>1, <1>2, <1>3, <1>4, <1>5, SameLanes, PumpSteps

LEMMA ExpireKeeps ==
  ASSUME PairingInv, Expire
  PROVE  PairingInv'
<1>1. TypeOK /\ Offerer \in Participants
  BY Roles DEF PairingInv
<1>2. /\ UNCHANGED <<pending, stored, related, minted, pump, batch, draft, lanes, cancelled>>
      /\ expired' = TRUE
  BY DEF Expire, saved, volatile
<1>3. TypeOK'
  BY <1>1, <1>2 DEF TypeOK
<1>4. \A q \in Participants : Still(q) /\ Fares(q)
  BY <1>2, <1>3, StillFares DEF Still, SamePersona, SamePump
<1>5. SessionKept
  BY <1>1, <1>2, SamePending
<1> QED BY <1>1, <1>2, <1>3, <1>4, <1>5, SameLanes, Stepped

-----------------------------------------------------------------------------
(* A frame is processed, and the draft saved *)

\* What is held of a session names both introductions.
LEMMA HeldPairs ==
  ASSUME PairingInv, NEW p \in Participants, NEW session \in Sessions,
         NEW h \in Holds(p, session)
  PROVE  \E a, b \in Seq(Intros) : h = <<a, b>> /\ Len(a) = 1 /\ Len(b) = 1
<1>1. TypeOK /\ PumpWell(p) /\ PersonaWell(p)
  BY DEF PairingInv
<1>2. CASE \E c \in related[p] : h = <<c.local, c.peer>>
  <2>1. PICK c \in related[p] : h = <<c.local, c.peer>>
    BY <1>2
  <2>2. c \in Links /\ RelationshipAgrees(p, c)
    BY <1>1, PendingTyped DEF PersonaWell, LinkWell
  <2> QED BY <2>1, <2>2 DEF Links, RelationshipAgrees
<1>3. CASE /\ pending[p] # None /\ pending[p].peer # <<>>
           /\ h = <<pending[p].local, pending[p].peer>>
  <2>1. pending[p] \in States /\ Well(p, pending[p])
    BY <1>1, <1>3, PendingTyped DEF PumpWell
  <2>2. Met(p, pending[p])
    BY <1>3, <2>1 DEF Well, OffererWell, ResponderWell
  <2> QED BY <1>3, <2>1, <2>2, StateFields DEF Met
<1> QED BY <1>2, <1>3 DEF Holds

\* The confirmation that makes a side ready comes from a peer that holds the same.
LEMMA ConfirmedByPeer ==
  ASSUME PairingInv, NEW p \in Participants, NEW s \in States, Met(p, s),
         NEW frame \in Frames, FrameWell(frame), frame.role # Role(p),
         frame.kind = "confirmation", frame.session = s.session,
         frame.content = s.confirmation
  PROVE  Mutual(p, Relationship(s))
<1> DEFINE c == Relationship(s)
           session == s.session
           a == s.local
           b == s.peer
<1>1. /\ session \in Sessions /\ session[1] \in Participants
      /\ a \in Seq(Intros) /\ b \in Seq(Intros) /\ Len(a) = 1 /\ Len(b) = 1
      /\ frame.session = session
      /\ frame.content = IF p = Offerer THEN <<a[1], b[1]>> ELSE <<b[1], a[1]>>
  BY StateFields, Roles DEF Met
<1>2. c.session = session /\ c.local = a /\ c.peer = b
  BY DEF Relationship
<1> HIDE DEF c, session, a, b
<1>3. CASE p = Offerer
  <2>1. ResponderConfirmed(frame)
    <3>1. frame.role # "offerer"
      BY <1>3, Roles
    <3> QED BY <3>1 DEF FrameWell
  <2>2. ASSUME NEW h \in Holds(session[1], session), frame.content = <<h[2][1], h[1][1]>>
        PROVE  <<b, a>> \in Holds(session[1], session)
    <3>1. PICK x, y \in Seq(Intros) : h = <<x, y>> /\ Len(x) = 1 /\ Len(y) = 1
      BY <1>1, HeldPairs
    <3>2. <<y[1], x[1]>> = <<a[1], b[1]>>
      BY <1>1, <1>3, <2>2, <3>1
    <3>3. y[1] = a[1] /\ x[1] = b[1]
      BY <3>2
    <3>4. x = b /\ y = a
      BY <1>1, <3>1, <3>3, Single
    <3> QED BY <3>1, <3>4
  <2>3. \/ session[1] \in cancelled
        \/ \E h \in Holds(session[1], session) : frame.content = <<h[2][1], h[1][1]>>
    BY <1>1, <2>1 DEF ResponderConfirmed
  <2>4. OffererMutual(c)
    BY <1>2, <2>2, <2>3 DEF OffererMutual
  <2> QED BY <1>3, <2>4 DEF Mutual, c
<1>4. CASE p # Offerer
  <2>1. OffererConfirmed(frame)
    <3>1. frame.role = "offerer"
      BY <1>4, FrameFields, Roles
    <3> QED BY <3>1 DEF FrameWell
  <2>2. ASSUME NEW d \in Confirmed(Offerer), d.session = session,
               frame.content = <<d.local[1], d.peer[1]>>
        PROVE  [session |-> session, local |-> b, peer |-> a] \in Confirmed(Offerer)
    <3>1. d \in Links /\ RelationshipAgrees(Offerer, d)
      BY Roles, ConfirmedLinks DEF PairingInv, LinkWell
    <3>2. /\ d = [session |-> d.session, local |-> d.local, peer |-> d.peer]
          /\ d.local \in Seq(Intros) /\ d.peer \in Seq(Intros)
          /\ Len(d.local) = 1 /\ Len(d.peer) = 1
      BY <3>1 DEF Links, RelationshipAgrees
    <3>3. d.local[1] = b[1] /\ d.peer[1] = a[1]
      BY <1>1, <1>4, <2>2
    <3>4. d.local = b /\ d.peer = a
      BY <1>1, <3>2, <3>3, Single
    <3> QED BY <2>2, <3>2, <3>4
  <2>3. \/ Offerer \in cancelled
        \/ \E d \in Confirmed(Offerer) :
             d.session = session /\ frame.content = <<d.local[1], d.peer[1]>>
    BY <1>1, <2>1 DEF OffererConfirmed
  <2>4. ResponderMutual(c)
    BY <1>2, <2>2, <2>3 DEF ResponderMutual
  <2> QED BY <1>4, <2>4 DEF Mutual, c
<1> QED BY <1>3, <1>4

LEMMA ProcessKeeps ==
  ASSUME PairingInv, NEW p \in Participants, Process(p)
  PROVE  PairingInv'
<1> DEFINE s == pending[p]
           frame == Head(batch[p])
           b == Tail(batch[p])
<1>0. ToSet(<<>>) = {} /\ <<>> \in Seq(Frames)
  BY NoElements
<1>1. /\ TypeOK /\ PumpWell(p) /\ PersonaWell(p) /\ BatchWell(p)
      /\ batch[p] # <<>> /\ draft[p] = None /\ minted[p] \in Nat
  BY PendingTyped DEF PairingInv, Process
<1>2. /\ s # None /\ s \in States /\ Well(p, s) /\ pump[p] = "idle"
  <2>1. pump[p] \in {"idle", "accepted", "finishing", "cancelling"}
    BY <1>1 DEF TypeOK
  <2> QED BY <1>1, <2>1, PendingTyped DEF PumpWell
<1>3. /\ batch[p] \in Seq(Frames) /\ frame \in Frames /\ frame \in ToSet(batch[p])
      /\ b \in Seq(Frames) /\ ToSet(b) \subseteq ToSet(batch[p])
  BY <1>1, PendingTyped, Taken
<1>4. FrameWell(frame)
  BY <1>1, <1>3 DEF BatchWell
<1>5. UNCHANGED <<pending, stored, related, pump, lanes, expired, cancelled>>
  BY DEF Process
<1>6. CASE batch' = [batch EXCEPT ![p] = <<>>] /\ UNCHANGED <<draft, minted>>
  <2>1. TypeOK'
    BY <1>0, <1>1, <1>5, <1>6 DEF TypeOK
  <2>2. batch'[p] = <<>> /\ \A q \in Participants : q # p => batch'[q] = batch[q]
    BY <1>1, <1>6 DEF TypeOK
  <2> QED BY <1>0, <1>1, <1>2, <1>5, <1>6, <2>1, <2>2, SameLanes, PumpSteps DEF SamePump
<1>7. ASSUME NEW d \in Processed(p, frame), draft' = [draft EXCEPT ![p] = d],
             batch' = [batch EXCEPT ![p] = b],
             minted' = IF d.local # s.local THEN [minted EXCEPT ![p] = @ + 1] ELSE minted
      PROVE  PairingInv'
  <2>1. Step(p, s, frame, d)
    BY <1>1, <1>2, <1>3, <1>4, ProcessedStep DEF FrameWell
  <2>2. d \in States /\ d # None /\ Well(p, d) /\ Advances(s, d)
        /\ (p # Offerer => d.session = s.session)
    BY <2>1, NotNone DEF Step
  <2> HIDE DEF s, frame, b
  <2>3. /\ draft'[p] = d /\ batch'[p] = b /\ minted'[p] \in Nat /\ minted[p] <= minted'[p]
        /\ minted' \in [Participants -> Nat]
        /\ \A q \in Participants : q # p =>
             draft'[q] = draft[q] /\ batch'[q] = batch[q] /\ minted'[q] = minted[q]
    BY <1>1, <1>7 DEF TypeOK
  <2>4. TypeOK'
    BY <1>1, <1>3, <1>5, <1>7, <2>2, <2>3 DEF TypeOK
  <2>5. \A q \in Participants : q # p => Still(q)
    BY <1>5, <2>3 DEF Still, SamePersona, SamePump
  <2>6. PumpWell(p)'
    BY <1>1, <1>2, <1>5, <2>2, <2>3 DEF PumpWell, s
  <2>7. PersonaWell(p)'
    BY <1>1, <1>5, <2>3, SamePersonaWell DEF SamePersona
  <2>8. KeepsAt(p)
    BY <1>5, SameKeeps DEF SamePersona
  <2>9. ASSUME d.phase = "ready"
        PROVE  Mutual(p, Relationship(d)) /\ frame.session = d.session
    <3>1. /\ frame.kind = "confirmation" /\ frame.session = s.session
          /\ frame.content = s.confirmation /\ frame.role # Role(p) /\ Met(p, s)
          /\ d.session = s.session /\ d.local = s.local /\ d.peer = s.peer
      BY <2>1, <2>9 DEF Step
    <3>2. Mutual(p, Relationship(s))
      BY <1>2, <1>3, <1>4, <3>1, ConfirmedByPeer
    <3>3. Relationship(d) = Relationship(s)
      BY <3>1 DEF Relationship
    <3> QED BY <3>1, <3>2, <3>3
  <2>10. CarriesAt(p)
    BY <1>3, <2>3, <2>9 DEF CarriesAt, Drafted
  <2>11. SessionKept
    BY <1>1, <1>5, SamePending
  <2> QED BY <1>5, <2>4, <2>5, <2>6, <2>7, <2>8, <2>10, <2>11, SameLanes, Stepped DEF Fares
<1> QED BY <1>6, <1>7 DEF Process

LEMMA SaveKeeps ==
  ASSUME PairingInv, NEW p \in Participants, Save(p)
  PROVE  PairingInv'
<1> DEFINE s == pending[p]
           d == draft[p]
<1>1. /\ TypeOK /\ PumpWell(p) /\ PersonaWell(p) /\ OneSession /\ d # None /\ s # None
      /\ d \in States /\ Well(p, d) /\ s \in States /\ Well(p, s) /\ Advances(s, d)
      /\ p # Offerer => d.session = s.session
  BY PendingTyped DEF PairingInv, PumpWell, Save
<1>2. /\ pending' = [pending EXCEPT ![p] = d] /\ stored' = [stored EXCEPT ![p] = d]
      /\ draft' = [draft EXCEPT ![p] = None]
      /\ UNCHANGED <<related, minted, pump, batch, lanes, expired, cancelled>>
  BY DEF Save, Persist
<1>3. pump[p] = "idle"
  <2>1. pump[p] \in {"idle", "accepted", "finishing", "cancelling"}
    BY <1>1 DEF TypeOK
  <2> QED BY <1>1, <2>1 DEF PumpWell
<1> HIDE DEF d
<1>4. TypeOK'
  BY <1>1, <1>2 DEF TypeOK
<1>5. pending'[p] = d /\ draft'[p] = None
  BY <1>1, <1>2 DEF TypeOK
<1>6. \A q \in Participants : q # p => Still(q)
  BY <1>1, <1>2 DEF TypeOK, Still, SamePersona, SamePump
<1>7. PumpWell(p)'
  BY <1>1, <1>2, <1>3, <1>5 DEF PumpWell
<1>8. PersonaWell(p)'
  BY <1>1, <1>2, <1>5
  DEF PersonaWell, OffererKeeps, ResponderKeeps, LinkWell, RelationshipAgrees
<1>9. KeepsAt(p)
  <2>1. Confirmed(p) = related[p]
    BY <1>1 DEF Confirmed, Advances
  <2>2. Confirmed(p)' = related[p] \cup
          (IF d.phase = "ready" THEN {Relationship(d)} ELSE {})
    BY <1>1, <1>2, <1>5 DEF Confirmed, Relationship
  <2>3. \A c \in Confirmed(p)' : c \in Confirmed(p) \/ (Drafted(p) /\ c = Relationship(draft[p]))
    BY <1>1, <2>1, <2>2 DEF Drafted, d
  <2>4. ASSUME NEW session \in Sessions, NEW h \in Holds(p, session)
        PROVE  h \in Holds(p, session)'
    <3>1. CASE \E c \in related[p] : c.session = session /\ h = <<c.local, c.peer>>
      BY <1>2, <3>1 DEF Holds
    <3>2. CASE s.session = session /\ s.peer # <<>> /\ h = <<s.local, s.peer>>
      <4>1. d.session = session /\ d.peer = s.peer /\ d.local = s.local
        BY <1>1, <3>2, NoSessionIsNone DEF Advances
      <4> QED BY <1>1, <1>2, <1>5, <3>2, <4>1 DEF Holds
    <3> QED BY <3>1, <3>2 DEF Holds
  <2> QED BY <1>2, <2>1, <2>2, <2>3, <2>4 DEF KeepsAt
<1>10. CarriesAt(p)
  BY <1>1, <1>2, <1>5, PendingTyped DEF CarriesAt, Drafted
<1>11. SessionKept
  <2>1. CASE p = Offerer /\ s.session = NoSession
    <3>1. \A session \in Sessions : ~Bound(session)
      BY <1>1, <2>1 DEF OneSession
    <3>2. minted'[Offerer] > 0
      BY <1>1, <1>2, <2>1 DEF PersonaWell, OffererKeeps
    <3> QED BY <3>1, <3>2 DEF SessionKept
  <2>2. CASE p = Offerer /\ s.session # NoSession
    BY <1>1, <1>5, <2>2 DEF SessionKept, Advances
  <2>3. CASE p # Offerer
    BY <1>6, <2>3, Roles DEF SessionKept, Still, SamePersona
  <2> QED BY <2>1, <2>2, <2>3
<1> QED BY <1>2, <1>4, <1>6, <1>7, <1>8, <1>9, <1>10, <1>11, SameLanes, Stepped DEF Fares

-----------------------------------------------------------------------------
(* The pairing ends *)

LEMMA FinishKeeps ==
  ASSUME PairingInv, NEW p \in Participants, Finish(p)
  PROVE  PairingInv'
<1> DEFINE s == pending[p]
           c == Relationship(s)
<1>1. /\ TypeOK /\ PumpWell(p) /\ PersonaWell(p) /\ s # None /\ s.phase = "ready"
      /\ s \in States /\ Well(p, s) /\ batch[p] = <<>> /\ draft[p] = None
  BY PendingTyped DEF PairingInv, PumpWell, Finish
<1>2. /\ c \in Links /\ LinkWell(p, c)
      /\ c.session = s.session /\ c.local = s.local /\ c.peer = s.peer
  BY <1>1, ReadyLink
<1>3. /\ pending' = [pending EXCEPT ![p] = None] /\ stored' = [stored EXCEPT ![p] = None]
      /\ related' = [related EXCEPT ![p] = @ \cup {c}]
      /\ pump' = [pump EXCEPT ![p] = "idle"]
      /\ UNCHANGED <<minted, batch, draft, lanes, expired, cancelled>>
  BY DEF Finish, Persist
<1>4. Confirmed(p) = related[p] \cup {c}
  BY <1>1 DEF Confirmed
<1> HIDE DEF c
<1>5. TypeOK'
  BY <1>1, <1>2, <1>3 DEF TypeOK
<1>6. pending'[p] = None /\ related'[p] = related[p] \cup {c} /\ pump'[p] = "idle"
  BY <1>1, <1>3 DEF TypeOK
<1>7. \A q \in Participants : q # p => Still(q)
  BY <1>1, <1>3 DEF TypeOK, Still, SamePersona, SamePump
<1>8. PumpWell(p)'
  BY <1>1, <1>3, <1>6 DEF PumpWell
<1>9. PersonaWell(p)'
  <2>1. \A e \in related'[p] : LinkWell(p, e)
    BY <1>1, <1>2, <1>6 DEF PersonaWell
  <2>2. CASE p = Offerer
    <3>1. related[p] = {} /\ minted[p] > 0 /\ minted[p] \in Nat
      BY <1>1, <2>2, PendingTyped DEF PersonaWell, OffererKeeps
    <3>2. OffererKeeps'
      BY <1>3, <1>6, <2>2, <3>1 DEF OffererKeeps
    <3> QED BY <2>1, <2>2, <3>2 DEF PersonaWell, LinkWell, RelationshipAgrees
  <2>3. CASE p # Offerer
    <3>1. ResponderKeeps(p)'
      BY <1>1, <1>2, <1>3, <1>6, <2>3 DEF PersonaWell, ResponderKeeps
    <3> QED BY <2>1, <2>3, <3>1 DEF PersonaWell, LinkWell, RelationshipAgrees
  <2> QED BY <2>2, <2>3
<1>10. KeepsAt(p)
  <2>1. Confirmed(p)' = Confirmed(p)
    BY <1>4, <1>6 DEF Confirmed
  <2>2. ASSUME NEW session \in Sessions, NEW h \in Holds(p, session)
        PROVE  h \in Holds(p, session)'
    <3>1. CASE \E e \in related[p] : e.session = session /\ h = <<e.local, e.peer>>
      BY <1>6, <3>1 DEF Holds
    <3>2. CASE s.session = session /\ h = <<s.local, s.peer>>
      <4>1. c \in related'[p] /\ c.session = session /\ h = <<c.local, c.peer>>
        BY <1>2, <1>6, <3>2
      <4> QED BY <4>1 DEF Holds
    <3> QED BY <3>1, <3>2 DEF Holds
  <2> QED BY <1>4, <1>6, <2>1, <2>2 DEF KeepsAt
<1>11. CarriesAt(p)
  BY <1>1, <1>3, PendingTyped DEF CarriesAt, Drafted
<1>12. SessionKept
  BY <1>1, <1>6, <1>7, SamePending DEF Still, SamePersona
<1> QED BY <1>3, <1>5, <1>7, <1>8, <1>9, <1>10, <1>11, <1>12, SameLanes, Stepped DEF Fares

LEMMA FinishCancelKeeps ==
  ASSUME PairingInv, NEW p \in Participants, FinishCancel(p)
  PROVE  PairingInv'
<1>1. /\ TypeOK /\ PumpWell(p) /\ PersonaWell(p)
      /\ batch[p] = <<>> /\ draft[p] = None
  BY DEF PairingInv, PumpWell, FinishCancel
<1>2. /\ pending' = [pending EXCEPT ![p] = None] /\ stored' = [stored EXCEPT ![p] = None]
      /\ pump' = [pump EXCEPT ![p] = "idle"] /\ cancelled' = cancelled \cup {p}
      /\ UNCHANGED <<related, minted, batch, draft, lanes, expired>>
  BY DEF FinishCancel, Persist
<1>3. TypeOK'
  BY <1>1, <1>2 DEF TypeOK
<1>4. pending'[p] = None /\ pump'[p] = "idle"
  BY <1>1, <1>2 DEF TypeOK
<1>5. \A q \in Participants : q # p => Still(q)
  BY <1>1, <1>2 DEF TypeOK, Still, SamePersona, SamePump
<1>6. PumpWell(p)'
  BY <1>1, <1>2, <1>4 DEF PumpWell
<1>7. PersonaWell(p)'
  BY <1>1, <1>2, <1>4
  DEF PersonaWell, OffererKeeps, ResponderKeeps, LinkWell, RelationshipAgrees
<1>8. KeepsAt(p)
  BY <1>2, <1>4 DEF KeepsAt, Confirmed
<1>9. CarriesAt(p)
  BY <1>1, <1>2, PendingTyped DEF CarriesAt, Drafted
<1>10. SessionKept
  BY <1>1, <1>4, <1>5, SamePending DEF Still, SamePersona
<1> QED BY <1>2, <1>3, <1>5, <1>6, <1>7, <1>8, <1>9, <1>10, SameLanes, Stepped DEF Fares

-----------------------------------------------------------------------------
(* The theorems *)

LEMMA Preserved ==
  ASSUME PairingInv, [Next]_vars
  PROVE  PairingInv'
<1>1. CASE Invite
  BY <1>1, InviteKeeps
<1>2. CASE Expire
  BY <1>2, ExpireKeeps
<1>3. ASSUME NEW r \in Responders, Accept(r) PROVE PairingInv'
  BY <1>3, AcceptKeeps
<1>4. ASSUME NEW p \in Participants, Pump(p) PROVE PairingInv'
  <2>1. CASE Send(p)
    BY <2>1, SendKeeps
  <2>2. CASE Acknowledge(p)
    BY <2>2, AcknowledgeKeeps
  <2>3. CASE Sync(p)
    BY <2>3, SyncKeeps
  <2>4. CASE Process(p)
    BY <2>4, ProcessKeeps
  <2>5. CASE Save(p)
    BY <2>5, SaveKeeps
  <2>6. CASE DeleteLane(p)
    BY <2>6, DeleteLaneKeeps
  <2>7. CASE Finish(p)
    BY <2>7, FinishKeeps
  <2> QED BY <1>4, <2>1, <2>2, <2>3, <2>4, <2>5, <2>6, <2>7 DEF Pump
<1>5. ASSUME NEW p \in Participants, Interrupt(p) PROVE PairingInv'
  BY <1>5, InterruptKeeps
<1>6. ASSUME NEW p \in Participants, CancelLanes(p) PROVE PairingInv'
  BY <1>6, CancelLanesKeeps
<1>7. ASSUME NEW p \in Participants, FinishCancel(p) PROVE PairingInv'
  BY <1>7, FinishCancelKeeps
<1>8. CASE UNCHANGED vars
  <2>1. UNCHANGED <<pending, stored, related, minted, pump, batch, draft, lanes, expired,
                    cancelled>>
    BY <1>8 DEF vars, saved, volatile
  <2>2. TypeOK' /\ Offerer \in Participants
    BY <2>1, Roles DEF PairingInv, TypeOK
  <2>3. \A q \in Participants : Still(q) /\ Fares(q)
    BY <2>1, <2>2, StillFares DEF Still, SamePersona, SamePump
  <2>4. SessionKept
    BY <2>1 DEF SessionKept
  <2> QED BY <2>1, <2>2, <2>3, <2>4, SameLanes, Stepped
<1> QED BY <1>1, <1>2, <1>3, <1>4, <1>5, <1>6, <1>7, <1>8 DEF Next

LEMMA Invariant == Spec => []PairingInv
<1>1. Init => PairingInv
  BY InitWell
<1>2. PairingInv /\ [Next]_vars => PairingInv'
  BY Preserved
<1> QED BY <1>1, <1>2, PTL DEF Spec

\* The type of the state, and of every frame, state and relationship in it.
THEOREM TypeCorrect == Spec => []TypeOK
<1>1. PairingInv => TypeOK
  BY DEF PairingInv
<1> QED BY <1>1, Invariant, PTL

LEMMA PersonaOpens ==
  ASSUME PairingInv, NEW p \in Participants
  PROVE  PersonaAgrees(p) /\ ScopesUnique(p)
<1>1. /\ TypeOK /\ PumpWell(p) /\ PersonaWell(p) /\ related[p] \subseteq Links
      /\ \A r \in related[p] : LinkWell(p, r) /\ RelationshipAgrees(p, r)
  BY PendingTyped DEF PairingInv, PersonaWell, LinkWell
<1>2. CASE p = Offerer
  <2>1. OffererKeeps
    BY <1>1, <1>2 DEF PersonaWell
  <2> QED BY <1>1, <1>2, <2>1 DEF OffererKeeps, PersonaAgrees, ScopesUnique
<1>3. CASE p # Offerer
  <2>1. ResponderKeeps(p)
    BY <1>1, <1>3 DEF PersonaWell
  <2>2. PersonaAgrees(p)
    BY <1>1, <2>1 DEF ResponderKeeps, PersonaAgrees
  <2>3. \A s, t \in Sessions : s[1] = t[1] /\ s[2] = t[2] => s = t
    BY DEF Sessions
  <2>4. ASSUME NEW r \in related[p]
        PROVE  /\ r.session \in Sessions /\ r.session[1] = p
               /\ r.local[1].mint = r.session[2] /\ r.peer[1].session = r.session
    <3>1. r \in Links /\ r.session \in Sessions
      BY <1>1 DEF Links
    <3>2. r.session[1] = p /\ r.local = <<Introduction(p, r.session[2], r.session)>>
      BY <1>1, <1>3 DEF LinkWell
    <3>3. r.local[1] = Introduction(p, r.session[2], r.session)
      BY <3>2
    <3>4. r.local[1].mint = r.session[2]
      BY <3>3 DEF Introduction
    <3>5. r.peer[1].session = r.session
      BY <1>1 DEF RelationshipAgrees, Introduces
    <3> QED BY <3>1, <3>2, <3>4, <3>5
  <2>5. ASSUME NEW r1 \in related[p], NEW r2 \in related[p],
               r1.local[1].mint = r2.local[1].mint \/ r1.peer = r2.peer
        PROVE  r1 = r2
    <3>1. r1.session = r2.session
      BY <2>3, <2>4, <2>5
    <3> QED BY <2>1, <3>1 DEF ResponderKeeps
  <2>6. ASSUME NEW r \in related[p], pending[p] # None
        PROVE  pending[p].local[1].mint # r.local[1].mint
    <3> DEFINE s == pending[p]
    <3>1. /\ s.session \in Sessions /\ s.session[1] = p
          /\ s.local[1].mint = s.session[2]
      BY <1>1, <1>3, <2>6 DEF PumpWell, Well, ResponderWell, Introduction
    <3>2. r.session # s.session
      BY <2>1, <2>6 DEF ResponderKeeps
    <3> QED BY <2>3, <2>4, <3>1, <3>2
  <2> QED BY <2>2, <2>5, <2>6 DEF ScopesUnique
<1> QED BY <1>2, <1>3

\* Every pairing state that is saved or about to be is one resumeContactPairingV2
\* opens, and every persona one that validateBrowserPersonaState accepts.
THEOREM PairingsResume == Spec => []EveryStateResumes
<1>1. ASSUME PairingInv PROVE EveryStateResumes
  <2> SUFFICES ASSUME NEW p \in Participants
               PROVE  /\ pending[p] # None => Resumable(p, pending[p])
                      /\ draft[p] # None => Resumable(p, draft[p])
                      /\ PersonaAgrees(p) /\ ScopesUnique(p)
    BY DEF EveryStateResumes
  <2>1. TypeOK /\ PumpWell(p)
    BY <1>1 DEF PairingInv
  <2>2. pending[p] # None => Resumable(p, pending[p])
    BY <2>1, PendingTyped, WellResumes DEF PumpWell
  <2>3. draft[p] # None => Resumable(p, draft[p])
    BY <2>1, PendingTyped, WellResumes DEF PumpWell
  <2> QED BY <1>1, <2>2, <2>3, PersonaOpens
<1> QED BY <1>1, Invariant, PTL

\* Sessions somebody is ready in are bound, and the invitation binds one.
LEMMA ConfirmedBound ==
  ASSUME PairingInv, NEW p \in Participants, NEW c \in Confirmed(p)
  PROVE  c.session \in Sessions /\ Bound(c.session)
<1>1. c \in Links /\ c.session \in Sessions /\ c.session # NoSession
  BY ConfirmedLinks, NoSessionIsNone DEF PairingInv, Links
<1>2. CASE p = Offerer
  BY <1>1, <1>2 DEF Confirmed, Relationship, Bound, BoundByOfferer
<1>3. CASE p # Offerer
  BY <1>1, <1>3, Roles DEF Bound, BoundByResponder
<1> QED BY <1>1, <1>2, <1>3

\* Whoever is ready shares its session with a peer that holds the same two
\* introductions or has cancelled, and one invitation makes one relationship.
THEOREM PairingIsMutual == Spec => []ReadyIsMutual
<1>1. ASSUME PairingInv PROVE ReadyIsMutual
  <2> DEFINE S == UNION {{c.session : c \in Confirmed(p)} : p \in Participants}
  <2>1. \A p \in Participants : \A c \in Confirmed(p) : Mutual(p, c)
    BY <1>1 DEF PairingInv, PeersAgree
  <2>2. \A r \in Responders : \A c \in Confirmed(r) : ResponderMutual(c)
    BY <2>1, Roles DEF Mutual
  <2>3. \A c \in Confirmed(Offerer) : OffererMutual(c)
    BY <2>1, Roles DEF Mutual
  <2>4. \A s, t \in S : s = t
    BY <1>1, ConfirmedBound DEF PairingInv, OneSession
  <2> HIDE DEF S
  <2>5. Cardinality(S) <= 1
    <3>1. CASE S = {}
      BY <3>1, FS_EmptySet
    <3>2. CASE S # {}
      <4>1. PICK s : S = {s}
        BY <2>4, <3>2
      <4>2. Cardinality({s}) = 1
        BY FS_Singleton
      <4> QED BY ONLY <4>1, <4>2
    <3> QED BY <3>1, <3>2
  <2>6. \A r \in Responders : \A c \in Confirmed(r) :
          \/ [session |-> c.session, local |-> c.peer, peer |-> c.local] \in Confirmed(Offerer)
          \/ Offerer \in cancelled
    BY <2>2 DEF ResponderMutual
  <2>7. \A c \in Confirmed(Offerer) :
          <<c.peer, c.local>> \in Holds(c.session[1], c.session) \/ c.session[1] \in cancelled
    BY <2>3 DEF OffererMutual
  <2> QED BY ONLY <2>5, <2>6, <2>7 DEF ReadyIsMutual, S
<1> QED BY <1>1, Invariant, PTL

\* Which step empties a lane: finishing empties the own one, a cancellation says so.
LEMMA LaneCloses ==
  ASSUME PairingInv, [Next]_vars, NEW d \in Directions, lanes[d].open, ~lanes'[d].open,
         cancelled' = {}
  PROVE  \E q \in Participants : DeleteLane(q) /\ Inbound(q) = d
<1>0. lanes' # lanes
  OBVIOUS
<1>1. ~Invite
  BY DEF Invite, Registered
<1>2. ~Expire /\ \A r \in Responders : ~Accept(r)
  BY <1>0 DEF Expire, Accept
<1>3. ASSUME NEW q \in Participants, Send(q) PROVE FALSE
  <2>1. lanes \in [Directions -> [open: BOOLEAN, frames: Seq(Frames)]]
    BY DEF PairingInv, TypeOK
  <2>2. lanes'[d].open = lanes[d].open
    BY <1>3, <2>1 DEF Send, WithFrame
  <2> QED BY <2>2
<1>4. ASSUME NEW q \in Participants
      PROVE  ~(Acknowledge(q) \/ Sync(q) \/ Process(q) \/ Save(q) \/ Finish(q)
               \/ Interrupt(q) \/ FinishCancel(q))
  BY <1>0 DEF Acknowledge, Sync, Process, Save, Finish, Interrupt, FinishCancel
<1>5. \A q \in Participants : ~CancelLanes(q)
  BY <1>0 DEF CancelLanes
<1>6. ~(UNCHANGED vars)
  BY <1>0 DEF vars
<1>7. PICK q \in Participants : DeleteLane(q)
  BY <1>1, <1>2, <1>3, <1>4, <1>5, <1>6 DEF Next, Pump
<1>8. Inbound(q) = d
  BY <1>7 DEF DeleteLane, Without, DeletedBy
<1> QED BY <1>7, <1>8

\* A lane is deleted that somebody reads from.
Unread(p) ==
  /\ lanes[Inbound(p)].open /\ ~lanes'[Inbound(p)].open /\ cancelled' = {}
  /\ lanes[Inbound(p)].frames # <<>> /\ pending[p] # None
  /\ (p = Offerer \/ lanes[Inbound(p)].frames[1].session = pending[p].session)

LEMMA SavedBeforeDeleted ==
  ASSUME PairingInv, [Next]_vars, NEW p \in Participants, Unread(p)
  PROVE  Len(lanes[Inbound(p)].frames) < stored[p].nextIn
<1> DEFINE held == lanes[Inbound(p)].frames
           s == pending[p]
<1>0. /\ lanes[Inbound(p)].open /\ ~lanes'[Inbound(p)].open /\ cancelled' = {}
      /\ held # <<>> /\ s # None /\ (p = Offerer \/ held[1].session = s.session)
  BY DEF Unread
<1>1. Inbound(p) \in Directions
  BY DEF Inbound, Directions
<1>2. PICK q \in Participants : DeleteLane(q) /\ Inbound(q) = Inbound(p)
  BY <1>0, <1>1, LaneCloses
<1>3. TypeOK /\ LanesShort /\ OneSession /\ stored = pending
  BY DEF PairingInv, TypeOK
<1>4. held \in Seq(Frames) /\ Len(held) \in Nat
  BY <1>1, <1>3, Elements DEF TypeOK
<1>5. /\ pending[q] \in States /\ pending[q] # None /\ pending[q].phase = "ready"
      /\ Well(q, pending[q])
  <2>1. pending[q] \in States \cup {None} /\ pending[q].phase = "ready"
    BY <1>2, <1>3 DEF DeleteLane, Finalizes, TypeOK
  <2>2. pending[q] # None
    BY <2>1 DEF None
  <2> QED BY <2>1, <2>2 DEF PairingInv, PumpWell
<1>6. CASE p = Offerer
  <2>1. q = Offerer /\ Inbound(p) = "responderToOfferer"
    BY <1>2, <1>6 DEF Inbound
  <2>2. s.nextIn = 4
    BY <1>5, <1>6, <2>1 DEF Well, OffererWell, Counts
  <2>3. Len(held) <= 3
    BY <1>3, <2>1 DEF LanesShort
  <2> QED BY <1>3, <1>4, <2>2, <2>3
<1>7. CASE p # Offerer
  <2>1. /\ q \in Responders /\ q # Offerer /\ p \in Responders
        /\ Inbound(p) = "offererToResponder"
    BY <1>2, <1>7, Roles DEF Inbound
  <2>2. Relationship(pending[q]) \in Confirmed(q)
    BY <1>5 DEF Confirmed
  <2>3. /\ pending[q].session \in Sessions /\ pending[q].session[1] = q
        /\ pending[q].nextIn = 3
    BY <1>5, <2>1 DEF Well, ResponderWell, Counts
  <2>4. Bound(pending[q].session)
    BY <2>2, ConfirmedBound DEF Relationship
  <2>5. held[1] \in ToSet(held) /\ s.session = held[1].session
    <3>1. Len(held) # 0
      BY <1>0, <1>4, Elements
    <3> QED BY <1>0, <1>4, <1>7, <3>1, Elements
  <2>6. s.session \in Sessions /\ Bound(s.session)
    <3>1. held[1] \in Frames
      BY <1>4, <2>5, Elements
    <3> QED BY <2>1, <2>5, <3>1, FrameFields DEF Bound, BoundByOfferer
  <2>7. s.session = pending[q].session
    BY <1>3, <2>3, <2>4, <2>6 DEF OneSession
  <2>8. s.session[1] = p
    <3>1. Well(p, s)
      BY <1>0 DEF PairingInv, PumpWell
    <3> QED BY <1>7, <3>1 DEF Well, ResponderWell
  <2>9. p = q
    BY <2>3, <2>7, <2>8
  <2>10. Len(held) <= 2
    BY <1>3, <2>1 DEF LanesShort
  <2> QED BY <1>3, <1>4, <2>3, <2>9, <2>10
<1> QED BY <1>6, <1>7

\* Finishing deletes a lane only when its reader has saved every frame in it.
THEOREM FinishingLosesNothing == Spec => NothingUnreadDeleted
<1>1. PairingInv /\ [Next]_vars =>
        [\A p \in Participants :
           lanes[Inbound(p)].open /\ ~lanes'[Inbound(p)].open /\ cancelled' = {}
           /\ lanes[Inbound(p)].frames # <<>> /\ pending[p] # None
           /\ (p = Offerer \/ lanes[Inbound(p)].frames[1].session = pending[p].session)
             => Len(lanes[Inbound(p)].frames) < stored[p].nextIn]_vars
  BY SavedBeforeDeleted DEF Unread
<1> QED BY <1>1, Invariant, PTL DEF Spec, NothingUnreadDeleted
===============================================================================
