------------------------ MODULE PairwiseMessagingProofs ------------------------
(***************************************************************************)
(* What TLAPS proves of PairwiseMessaging, for any number of transactions, *)
(* routes, packets and faults: nothing is applied twice while its session  *)
(* is held, the ratchet and the history agree, no session is used that the *)
(* peer cannot open, what was accepted is not lost, and controls take      *)
(* effect in their order.                                                  *)
(***************************************************************************)
EXTENDS PairwiseMessaging, SequenceTheorems, WellFoundedInduction, TLAPS

-----------------------------------------------------------------------------
(* The inductive invariant.                                                *)

Sealed(t) == envelope[t] \in Envelopes

\* A bootstrap begins the session named after it; an event names such a session.
Bootstrap(s) ==
  Sealed(s) /\ envelope[s].boot /\ envelope[s].session = s /\ envelope[s].counter = 0

\* The relay holds every packet of the bundle on one route of an endpoint.
HeldBy(e, t) ==
  \E p \in Paths : \A part \in 1..Packets : [tx |-> t, part |-> part] \in Range(box[e][p])

\* What the receiver needs to open an event is at the relay, unless its sender
\* found the bootstrap's own packets invalid.
Introduced(t) ==
  LET s == envelope[t].session IN t = s \/ Delivered(s) \/ s \in Range(invalid)

EnvelopesInv ==
  \A t \in Transactions : Sealed(t) =>
    LET s == envelope[t].session
    IN /\ Bootstrap(s)
       /\ envelope[t].boot => t = s
       /\ envelope[s].from # envelope[t].from => Delivered(s)

IntentInv(t) ==
  LET i == intent[t] IN
  /\ i.status = "none" => i = NoIntent
  /\ i.status # "none" <=> Sealed(t)
  /\ Sealed(t) => \A p \in Paths : \A part \in 1..i.progress[p] :
                    [tx |-> t, part |-> part] \in Range(box[Peer(envelope[t].from)][p])
  /\ i.status = "relayAccepted" => HeldBy(Peer(envelope[t].from), t)
  /\ i.status = "permanentFailure" => t \in Range(invalid)

OutboxInv(e) ==
  /\ Own(e) \subseteq Range(outbox[e])
  /\ \A i \in DOMAIN outbox[e] : Sealed(outbox[e][i]) /\ envelope[outbox[e][i]].from = e
  /\ \A i \in DOMAIN outbox[e] :
       LET s == envelope[outbox[e][i]].session
       IN envelope[s].from = e => \E j \in 1..i : outbox[e][j] = s

RelayInv(e) ==
  \A p \in Paths : \A record \in Range(box[e][p]) :
    LET t == record.tx
    IN Sealed(t) /\ envelope[t].from = Peer(e) /\ Introduced(t)

\* The sessions of a state or a candidate: a list without repetitions, and a
\* chain for each of its members only.
ListInv(d) ==
  /\ \A i, j \in 1..Len(d.sessions) : d.sessions[i] = d.sessions[j] => i = j
  /\ d.active # None => d.active \in Range(d.sessions)
  /\ \A s \in Transactions : s \notin Range(d.sessions) => d.chain[s] = NoChain
  /\ \A s \in Transactions : \A c \in d.chain[s].skipped : c < d.chain[s].next

\* Each was begun by its bootstrap, here or by an event received.
SessionsInv(e, d) ==
  \A s \in Range(d.sessions) :
    /\ Bootstrap(s)
    /\ envelope[s].from # e => s \in Range(d.received)
    /\ envelope[s].from = e /\ intent[s].status = "discarded" => s \in Range(invalid)

\* What it has received.
ReceivedInv(e, d) ==
  /\ d.forgotten <= Len(d.received)
  /\ \A i \in DOMAIN d.received :
       LET t == d.received[i]
       IN Sealed(t) /\ envelope[t].from = Peer(e) /\ HeldBy(e, t)

\* Every record behind a cursor waits in the reassembler or is in an event received.
CursorInv(e, d) ==
  \A p \in Paths :
    /\ d.cursor[p] <= Len(box[e][p])
    /\ d.completed[p] \subseteq Range(d.received)
    /\ d.fragments[p] \subseteq Range(box[e][p])
    /\ \A i \in 1..d.cursor[p] :
         box[e][p][i] \in d.fragments[p] \/ box[e][p][i].tx \in d.completed[p]

CandidateInv(e, d) ==
  /\ ListInv(d) /\ SessionsInv(e, d) /\ ReceivedInv(e, d) /\ CursorInv(e, d)
  /\ Accounts(d) /\ InOrder(d)

StateInv(e) ==
  /\ CandidateInv(e, state[e])
  /\ \A t \in Own(e) : intent[t].status # "discarded" =>
                         envelope[t].session \in Range(state[e].sessions)
  /\ \A p \in Paths : floor[e][p] <= state[e].cursor[p]

\* What an operation under way holds.
OperationInv(e) ==
  LET o == op[e] IN
  /\ o.kind = "receive" =>
       /\ CandidateInv(e, o.draft)
       /\ o.path \in Paths /\ o.until <= Len(box[e][o.path])
       /\ \A p \in Paths : floor[e][p] <= o.draft.cursor[p]
  /\ o.kind = "collect" => o.path \in Paths /\ o.until <= state[e].cursor[o.path]
  /\ o.kind = "send" =>
       /\ o.tx \in Transactions /\ Sealed(o.tx)
       /\ envelope[o.tx].from = e /\ intent[o.tx].status = "publishing"
       /\ o.path \in Paths => intent[o.tx].progress[o.path] < Packets
       /\ "invalid" \in o.failures => o.tx \in Range(invalid)
       /\ Introduced(o.tx)

MessagingInv ==
  /\ TypeOK
  /\ EnvelopesInv
  /\ \A t \in Transactions : IntentInv(t)
  /\ \A e \in Endpoints : OutboxInv(e) /\ RelayInv(e) /\ StateInv(e) /\ OperationInv(e)

-----------------------------------------------------------------------------
(* Facts about numbers, sequences and the two sides.                       *)

LEMMA LeastNatural ==
  ASSUME NEW S \in SUBSET Nat, S # {}
  PROVE  \E m \in S : \A n \in S : m <= n
<1>1. IsWellFoundedOn(OpToRel(<, Nat), Nat)
  BY NatLessThanWellFounded
<1>2. PICK m \in S : \A n \in S : ~ (<<n, m>> \in OpToRel(<, Nat))
  BY <1>1, WFMin
<1>3. \A n \in S : ~ (n < m)
  BY <1>2 DEF OpToRel
<1>. QED BY <1>3

LEMMA GreatestBelow ==
  ASSUME NEW n \in Nat, NEW S \in SUBSET (1..n), S # {}
  PROVE  \E m \in S : \A i \in S : i <= m
<1>. DEFINE T == {n - i : i \in S}
<1>1. \A i \in S : n - i \in Nat
  OBVIOUS
<1>2. T \in SUBSET Nat /\ T # {}
  BY <1>1
<1>3. PICK m \in T : \A i \in T : m <= i
  BY <1>2, LeastNatural
<1>4. PICK k \in S : m = n - k
  OBVIOUS
<1>5. \A i \in S : n - k <= n - i
  BY <1>3, <1>4
<1>. QED BY <1>5

LEMMA SequenceFacts ==
  ASSUME NEW S, NEW s \in Seq(S)
  PROVE  /\ Len(s) \in Nat /\ DOMAIN s = 1..Len(s)
         /\ Range(s) = {s[i] : i \in 1..Len(s)}
         /\ \A i \in 1..Len(s) : s[i] \in S
  BY DEF Range

LEMMA AppendFacts ==
  ASSUME NEW S, NEW s \in Seq(S), NEW x \in S
  PROVE  /\ Append(s, x) \in Seq(S) /\ Len(Append(s, x)) = Len(s) + 1
         /\ Range(Append(s, x)) = Range(s) \cup {x}
         /\ \A i \in 1..Len(s) : Append(s, x)[i] = s[i]
         /\ Append(s, x)[Len(s) + 1] = x
<1>1. /\ Append(s, x) \in Seq(S) /\ Len(Append(s, x)) = Len(s) + 1
      /\ \A i \in 1..Len(s) : Append(s, x)[i] = s[i]
      /\ Append(s, x)[Len(s) + 1] = x
  BY AppendProperties
<1>2. Range(Append(s, x)) = {Append(s, x)[i] : i \in 1..Len(s) + 1}
  BY <1>1, SequenceFacts
<1>3. Range(s) = {s[i] : i \in 1..Len(s)} /\ Len(s) \in Nat
  BY SequenceFacts
<1>4. 1..Len(s) + 1 = (1..Len(s)) \cup {Len(s) + 1}
  BY <1>3
<1>5. Range(Append(s, x)) = {Append(s, x)[i] : i \in (1..Len(s)) \cup {Len(s) + 1}}
  BY <1>2, <1>4
<1>6. ASSUME NEW y PROVE y \in Range(Append(s, x)) <=> y \in Range(s) \cup {x}
  BY <1>1, <1>3, <1>5
<1>. QED BY <1>1, <1>6

\* splice(i, 1): one element leaves a list without repetitions.
LEMMA RemoveAtFacts ==
  ASSUME NEW S, NEW s \in Seq(S), NEW i \in 1..Len(s),
         \A j, k \in 1..Len(s) : s[j] = s[k] => j = k
  PROVE  /\ RemoveAt(s, i) \in Seq(S) /\ Len(RemoveAt(s, i)) = Len(s) - 1
         /\ Range(RemoveAt(s, i)) = Range(s) \ {s[i]}
         /\ \A j, k \in 1..Len(RemoveAt(s, i)) :
              RemoveAt(s, i)[j] = RemoveAt(s, i)[k] => j = k
<1>. DEFINE a == SubSeq(s, 1, i - 1)
            b == SubSeq(s, i + 1, Len(s))
            r == RemoveAt(s, i)
<1>1. Len(s) \in Nat /\ \A j \in 1..Len(s) : s[j] \in S
  BY SequenceFacts
<1>2. a \in Seq(S) /\ Len(a) = i - 1 /\ \A j \in 1..(i - 1) : a[j] = s[j]
  <2>1. \A j \in 1..(i - 1) : s[j] \in S
    BY <1>1
  <2>. QED BY <2>1, <1>1, SubSeqProperties
<1>3. b \in Seq(S) /\ Len(b) = Len(s) - i /\ \A j \in 1..(Len(s) - i) : b[j] = s[i + j]
  <2>1. \A j \in (i + 1)..Len(s) : s[j] \in S
    BY <1>1
  <2>2. /\ b \in Seq(S) /\ Len(b) = IF i + 1 <= Len(s) THEN Len(s) - (i + 1) + 1 ELSE 0
        /\ \A j \in 1..(Len(s) - (i + 1) + 1) : b[j] = s[i + 1 + j - 1]
    BY <2>1, <1>1, SubSeqProperties
  <2>. QED BY <2>2, <1>1
<1>4. r = a \o b
  BY DEF RemoveAt
<1>5. r \in Seq(S) /\ Len(r) = Len(s) - 1
  <2>. HIDE DEF a, b, r
  <2>0. a \in Seq(S) /\ b \in Seq(S) /\ r = a \o b
    BY <1>2, <1>3, <1>4
  <2>1. r \in Seq(S) /\ Len(r) = Len(a) + Len(b)
    BY ONLY <2>0, ConcatProperties
  <2>2. Len(s) \in Nat /\ i \in 1..Len(s) /\ Len(a) = i - 1 /\ Len(b) = Len(s) - i
    BY <1>1, <1>2, <1>3
  <2>. QED BY ONLY <2>1, <2>2
<1>6. \A j \in 1..(Len(s) - 1) : r[j] = IF j < i THEN s[j] ELSE s[j + 1]
  <2>. HIDE DEF a, b, r
  <2>0. a \in Seq(S) /\ b \in Seq(S) /\ r = a \o b
    BY <1>2, <1>3, <1>4
  <2>1. \A j \in 1..Len(a) + Len(b) : r[j] = IF j <= Len(a) THEN a[j] ELSE b[j - Len(a)]
    BY ONLY <2>0, ConcatProperties
  <2>2. SUFFICES ASSUME NEW j \in 1..(Len(s) - 1)
                 PROVE  r[j] = IF j < i THEN s[j] ELSE s[j + 1]
    OBVIOUS
  <2>3. CASE j < i
    <3>1. j \in 1..(i - 1) /\ j \in 1..Len(a) + Len(b) /\ j <= Len(a)
      BY <2>3, <1>1, <1>2, <1>3
    <3>. QED BY <2>1, <2>3, <3>1, <1>2
  <2>4. CASE ~(j < i)
    <3>1. j - Len(a) \in 1..(Len(s) - i) /\ ~(j <= Len(a)) /\ i + (j - Len(a)) = j + 1
      BY <2>4, <1>1, <1>2
    <3>2. r[j] = b[j - Len(a)]
      BY <2>1, <3>1, <1>1, <1>2, <1>3
    <3>. QED BY <3>1, <3>2, <1>3, <2>4
  <2>. QED BY <2>3, <2>4
<1>. HIDE DEF a, b, r
<1>7. Range(r) = {r[j] : j \in 1..(Len(s) - 1)}
  BY <1>5, SequenceFacts
<1>8. Range(s) = {s[j] : j \in 1..Len(s)}
  BY SequenceFacts
<1>9. Range(r) \subseteq Range(s) \ {s[i]}
  <2>1. SUFFICES ASSUME NEW j \in 1..(Len(s) - 1)
                 PROVE  r[j] \in Range(s) \ {s[i]}
    BY <1>7
  <2>2. CASE j < i
    BY <2>2, <1>1, <1>6, <1>8
  <2>3. CASE ~(j < i)
    <3>1. j + 1 \in 1..Len(s) /\ j + 1 # i /\ r[j] = s[j + 1]
      BY <2>3, <1>1, <1>6
    <3>. QED BY <3>1, <1>8
  <2>. QED BY <2>2, <2>3
<1>10. Range(s) \ {s[i]} \subseteq Range(r)
  <2>1. SUFFICES ASSUME NEW j \in 1..Len(s), s[j] # s[i]
                 PROVE  s[j] \in Range(r)
    BY <1>8
  <2>2. CASE j < i
    BY <2>2, <1>1, <1>6, <1>7
  <2>3. CASE j > i
    <3>1. j - 1 \in 1..(Len(s) - 1) /\ r[j - 1] = s[j]
      BY <2>3, <1>1, <1>6
    <3>. QED BY <3>1, <1>7
  <2>. QED BY <2>1, <2>2, <2>3, <1>1
<1>11. \A j, k \in 1..Len(r) : r[j] = r[k] => j = k
  <2>1. SUFFICES ASSUME NEW j \in 1..(Len(s) - 1), NEW k \in 1..(Len(s) - 1), r[j] = r[k]
                 PROVE  j = k
    BY <1>5
  <2>. DEFINE at(n) == IF n < i THEN n ELSE n + 1
  <2>2. at(j) \in 1..Len(s) /\ at(k) \in 1..Len(s) /\ s[at(j)] = s[at(k)]
    BY <2>1, <1>1, <1>6
  <2>3. at(j) = at(k)
    BY <2>2
  <2>. QED BY <2>3, <1>1
<1>. QED BY <1>5, <1>9, <1>10, <1>11 DEF r

LEMMA PeerFacts ==
  ASSUME NEW e \in Endpoints
  PROVE  /\ Peer(e) \in Endpoints /\ Peer(e) # e /\ Peer(Peer(e)) = e
         /\ \A o \in Endpoints : o = e \/ o = Peer(e)
<1>1. PICK a \in Endpoints, b \in Endpoints : a # b /\ Endpoints = {a, b}
  BY MessagingAssumption
<1>2. \A o \in Endpoints : Peer(o) \in Endpoints /\ Peer(o) # o
  <2>1. SUFFICES ASSUME NEW o \in Endpoints PROVE Peer(o) \in Endpoints /\ Peer(o) # o
    OBVIOUS
  <2>2. \E x \in Endpoints : x # o
    BY <1>1
  <2>. QED BY <2>2 DEF Peer
<1>3. \A o \in Endpoints : o = e \/ o = Peer(e)
  BY <1>1, <1>2
<1>. QED BY <1>2, <1>3


LEMMA ConstantFacts ==
  /\ RouteCount \in Nat \ {0} /\ Packets \in Nat \ {0} /\ Chunks \in Nat \ {0}
  /\ MaxSessions \in Nat \ {0} /\ BatchLimit \in Nat \ {0}
  /\ MaxSkip \in Nat /\ MaxRetired \in Nat /\ MaxFaults \in Nat
  /\ HistoryLimit \in Nat /\ HistoryTarget \in Nat /\ HistoryTarget < HistoryLimit
  /\ None \notin Endpoints /\ None \notin Transactions
  BY MessagingAssumption

-----------------------------------------------------------------------------
(* Facts about the model's operators.                                      *)

\* The route an attempt goes on with is one the relay still misses a packet of.
LEMMA NextPathFacts ==
  ASSUME NEW progress \in [Paths -> 0..Packets], NEW p \in 1..(RouteCount + 1)
  PROVE  /\ NextPath(progress, p) \in 1..(RouteCount + 1)
         /\ NextPath(progress, p) \in Paths => progress[NextPath(progress, p)] < Packets
<1>. DEFINE Good(q) == /\ q \in Paths => progress[q] < Packets
                       /\ \A r \in p..(q - 1) : progress[r] = Packets
            S == {q \in p..(RouteCount + 1) : q \in Paths => progress[q] < Packets}
<1>1. RouteCount \in Nat /\ Packets \in Nat /\ p \in Nat
  BY ConstantFacts
<1>2. S \in SUBSET Nat /\ RouteCount + 1 \in S
  BY <1>1 DEF Paths
<1>3. PICK m \in S : \A n \in S : m <= n
  BY <1>2, LeastNatural
<1>4. \A r \in p..(m - 1) : progress[r] = Packets
  <2>1. SUFFICES ASSUME NEW r \in p..(m - 1) PROVE progress[r] = Packets
    OBVIOUS
  <2>2. r \notin S /\ r \in p..(RouteCount + 1)
    BY <1>1, <1>3
  <2>3. r \in Paths /\ ~(progress[r] < Packets)
    BY <2>2
  <2>. QED BY <2>3, <1>1
<1>5. \E q \in p..(RouteCount + 1) : Good(q)
  BY <1>3, <1>4
<1>6. NextPath(progress, p) = CHOOSE q \in p..(RouteCount + 1) : Good(q)
  BY DEF NextPath
<1>7. NextPath(progress, p) \in p..(RouteCount + 1) /\ Good(NextPath(progress, p))
  <2>. HIDE DEF Good
  <2>. QED BY <1>5, <1>6
<1>. QED BY <1>1, <1>7

LEMMA SealedFacts ==
  ASSUME TypeOK, NEW t \in Transactions
  PROVE  /\ Sealed(t) <=> envelope[t] # NoEnvelope
         /\ \A e \in Endpoints : t \in Own(e) <=> Sealed(t) /\ envelope[t].from = e
         /\ Sealed(t) => /\ envelope[t].from \in Endpoints
                         /\ envelope[t].session \in Transactions
                         /\ envelope[t].counter \in Nat /\ envelope[t].revision \in Nat
                         /\ envelope[t].boot \in BOOLEAN
<1>1. NoEnvelope.from \notin Endpoints
  BY ConstantFacts DEF NoEnvelope
<1>2. \A m \in Envelopes : /\ m.from \in Endpoints /\ m.session \in Transactions
                           /\ m.counter \in Nat /\ m.revision \in Nat /\ m.boot \in BOOLEAN
  BY DEF Envelopes
<1>3. envelope[t] \in Envelopes \cup {NoEnvelope}
  BY DEF TypeOK
<1>. QED BY <1>1, <1>2, <1>3 DEF Sealed, Own

LEMMA StateFields ==
  ASSUME NEW d \in States
  PROVE  /\ d.sessions \in Seq(Transactions) /\ d.active \in Transactions \cup {None}
         /\ d.chain \in [Transactions -> Chains]
         /\ d.received \in Seq(Transactions) /\ d.forgotten \in Nat
         /\ d.cursor \in [Paths -> Nat] /\ d.fragments \in [Paths -> SUBSET Records]
         /\ d.completed \in [Paths -> SUBSET Transactions]
         /\ d.issued \in [Controls -> Nat] /\ d.applied \in [Controls -> Nat]
         /\ d.source \in [Transactions -> Paths \cup {0}]
         /\ d.fetched \in [Transactions -> 0..Chunks]
  BY DEF States

LEMMA ListFacts ==
  ASSUME NEW d \in States
  PROVE  /\ Len(d.received) \in Nat /\ DOMAIN d.received = 1..Len(d.received)
         /\ Range(d.received) = {d.received[i] : i \in 1..Len(d.received)}
         /\ \A i \in 1..Len(d.received) : d.received[i] \in Transactions
         /\ Range(d.received) \subseteq Transactions
         /\ Range(d.sessions) \subseteq Transactions
<1>1. d.sessions \in Seq(Transactions) /\ d.received \in Seq(Transactions)
  BY StateFields
<1>2. Range(d.sessions) = {d.sessions[i] : i \in 1..Len(d.sessions)}
      /\ \A i \in 1..Len(d.sessions) : d.sessions[i] \in Transactions
  BY <1>1, SequenceFacts
<1>. QED BY <1>1, <1>2, SequenceFacts

LEMMA ChainFields ==
  ASSUME NEW c \in Chains
  PROVE  c.sent \in Nat /\ c.next \in Nat /\ c.skipped \in SUBSET Nat
  BY DEF Chains

\* All that does not belong to the sessions.
Rest(d) == <<d.received, d.forgotten, d.cursor, d.fragments, d.completed, d.issued,
             d.applied, d.source, d.fetched>>

LEMMA CloseFacts ==
  ASSUME NEW d \in States, ListInv(d), NEW i \in 1..Len(d.sessions)
  PROVE  LET n == Close(d, i) IN
         /\ n \in States /\ Rest(n) = Rest(d) /\ n.active = d.active
         /\ Len(n.sessions) = Len(d.sessions) - 1
         /\ Range(n.sessions) = Range(d.sessions) \ {d.sessions[i]}
         /\ \A j, k \in 1..Len(n.sessions) : n.sessions[j] = n.sessions[k] => j = k
         /\ n.chain = [d.chain EXCEPT ![d.sessions[i]] = NoChain]
<1>. DEFINE n == Close(d, i)
            r == RemoveAt(d.sessions, i)
<1>1. d.sessions \in Seq(Transactions) /\ d.chain \in [Transactions -> Chains]
  BY StateFields
<1>2. d.sessions[i] \in Transactions
  BY <1>1, SequenceFacts
<1>3. /\ r \in Seq(Transactions) /\ Len(r) = Len(d.sessions) - 1
      /\ Range(r) = Range(d.sessions) \ {d.sessions[i]}
      /\ \A j, k \in 1..Len(r) : r[j] = r[k] => j = k
  BY <1>1, RemoveAtFacts DEF ListInv
<1>. HIDE DEF r
<1>4. NoChain \in Chains
  BY DEF NoChain, Chains
<1>5. n = [[d EXCEPT !.sessions = r] EXCEPT !.chain[d.sessions[i]] = NoChain]
  BY DEF Close, r
<1>6. [d.chain EXCEPT ![d.sessions[i]] = NoChain] \in [Transactions -> Chains]
  BY <1>1, <1>4
<1>7. n.sessions = r /\ n.chain = [d.chain EXCEPT ![d.sessions[i]] = NoChain]
      /\ n.active = d.active /\ Rest(n) = Rest(d)
  BY <1>5 DEF States, Rest
<1>8. n \in States
  BY <1>5, <1>3, <1>6 DEF States
<1>. QED BY <1>3, <1>7, <1>8

\* Room is made without a session that is protected, and no chain is disturbed.
LEMMA ReserveFacts ==
  ASSUME NEW e, NEW d \in States, ListInv(d), HasRoom(e, d)
  PROVE  LET n == Reserve(e, d) IN
         /\ n \in States /\ Rest(n) = Rest(d) /\ n.active = d.active /\ ListInv(n)
         /\ Range(n.sessions) \subseteq Range(d.sessions)
         /\ Range(d.sessions) \cap Protected(e, d) \subseteq Range(n.sessions)
         /\ \A s \in Range(n.sessions) : n.chain[s] = d.chain[s]
<1>. DEFINE n == Reserve(e, d)
            E == Evictable(e, d)
            i == CHOOSE i \in E : \A j \in E : i <= j
<1>1. CASE Len(d.sessions) < MaxSessions
  <2>1. n = d
    BY <1>1 DEF Reserve
  <2>. QED BY <2>1
<1>2. CASE ~(Len(d.sessions) < MaxSessions)
  <2>1. n = Close(d, i)
    BY <1>2 DEF Reserve
  <2>2. d.sessions \in Seq(Transactions) /\ d.chain \in [Transactions -> Chains]
    BY StateFields
  <2>3. Len(d.sessions) \in Nat /\ DOMAIN d.sessions = 1..Len(d.sessions)
        /\ Range(d.sessions) = {d.sessions[j] : j \in 1..Len(d.sessions)}
        /\ \A j \in 1..Len(d.sessions) : d.sessions[j] \in Transactions
    BY <2>2, SequenceFacts
  <2>4. E \in SUBSET Nat /\ E # {}
    BY <1>2, <2>3 DEF HasRoom, Evictable
  <2>5. \E m \in E : \A j \in E : m <= j
    BY <2>4, LeastNatural
  <2>6. i \in E
    <3>. HIDE DEF E
    <3>. QED BY <2>5
  <2>7. i \in 1..Len(d.sessions) /\ d.sessions[i] \notin Protected(e, d)
    BY <2>3, <2>6 DEF Evictable
  <2>. HIDE DEF i, n, E
  <2>8. /\ n \in States /\ Rest(n) = Rest(d) /\ n.active = d.active
        /\ Range(n.sessions) = Range(d.sessions) \ {d.sessions[i]}
        /\ \A j, k \in 1..Len(n.sessions) : n.sessions[j] = n.sessions[k] => j = k
        /\ n.chain = [d.chain EXCEPT ![d.sessions[i]] = NoChain]
    BY <2>1, <2>7, CloseFacts
  <2>9. d.active \in Protected(e, d)
    BY DEF Protected
  <2>10. d.sessions[i] \in Transactions /\ d.sessions[i] \in Range(d.sessions)
    BY <2>3, <2>7
  <2>11. \A s \in Transactions : n.chain[s] = IF s = d.sessions[i] THEN NoChain ELSE d.chain[s]
    BY <2>2, <2>8
  <2>12. ListInv(n)
    <3>1. \A j, k \in 1..Len(n.sessions) : n.sessions[j] = n.sessions[k] => j = k
      BY <2>8
    <3>2. n.active # None => n.active \in Range(n.sessions)
      BY <2>7, <2>8, <2>9 DEF ListInv
    <3>3. \A s \in Transactions : s \notin Range(n.sessions) => n.chain[s] = NoChain
      BY <2>8, <2>11 DEF ListInv
    <3>4. \A s \in Transactions : \A c \in n.chain[s].skipped : c < n.chain[s].next
      BY <2>11 DEF ListInv, NoChain
    <3>. QED BY <3>1, <3>2, <3>3, <3>4 DEF ListInv
  <2>13. \A s \in Range(n.sessions) : n.chain[s] = d.chain[s]
    BY <2>3, <2>8, <2>11
  <2>. QED BY <2>7, <2>8, <2>12, <2>13 DEF n
<1>. QED BY <1>1, <1>2

LEMMA OpenFacts ==
  ASSUME NEW d \in States, ListInv(d), NEW s \in Transactions, s \notin Range(d.sessions)
  PROVE  LET n == Open(d, s) IN
         /\ n \in States /\ Rest(n) = Rest(d) /\ ListInv(n) /\ n.chain = d.chain
         /\ Range(n.sessions) = Range(d.sessions) \cup {s}
         /\ n.active = (IF d.active = None THEN s ELSE d.active)
<1>. DEFINE n == Open(d, s)
            q == Append(d.sessions, s)
<1>1. d.sessions \in Seq(Transactions) /\ d.active \in Transactions \cup {None}
  BY StateFields
<1>2. /\ q \in Seq(Transactions) /\ Len(q) = Len(d.sessions) + 1
      /\ Range(q) = Range(d.sessions) \cup {s}
      /\ \A i \in 1..Len(d.sessions) : q[i] = d.sessions[i]
      /\ q[Len(d.sessions) + 1] = s
  BY <1>1, AppendFacts
<1>3. /\ Len(d.sessions) \in Nat
      /\ Range(d.sessions) = {d.sessions[i] : i \in 1..Len(d.sessions)}
  BY <1>1, SequenceFacts
<1>. HIDE DEF q
<1>4. n = [d EXCEPT !.sessions = q, !.active = IF @ = None THEN s ELSE @]
  BY DEF Open, q
<1>5. /\ n.sessions = q /\ n.chain = d.chain /\ Rest(n) = Rest(d)
      /\ n.active = (IF d.active = None THEN s ELSE d.active)
  BY <1>4 DEF States, Rest
<1>6. n \in States
  BY <1>1, <1>2, <1>4 DEF States
<1>. HIDE DEF n
<1>7. ListInv(n)
  <2>1. ASSUME NEW i \in 1..Len(q), NEW j \in 1..Len(q), q[i] = q[j] PROVE i = j
    <3>1. \A k \in 1..Len(d.sessions) : q[k] # s
      BY <1>2, <1>3
    <3>. QED BY <2>1, <3>1, <1>2, <1>3 DEF ListInv
  <2>2. n.active # None => n.active \in Range(n.sessions)
    BY <1>2, <1>5 DEF ListInv
  <2>3. \A t \in Transactions : t \notin Range(n.sessions) => n.chain[t] = NoChain
    BY <1>2, <1>5 DEF ListInv
  <2>4. \A t \in Transactions : \A c \in n.chain[t].skipped : c < n.chain[t].next
    BY <1>5 DEF ListInv
  <2>. QED BY <2>1, <2>2, <2>3, <2>4, <1>5 DEF ListInv
<1>. QED BY <1>2, <1>5, <1>6, <1>7 DEF n

\* A session that is begun: room is made first.
LEMMA BeginFacts ==
  ASSUME NEW e, NEW d \in States, ListInv(d), HasRoom(e, d),
         NEW s \in Transactions, s \notin Range(d.sessions)
  PROVE  LET n == Open(Reserve(e, d), s) IN
         /\ n \in States /\ Rest(n) = Rest(d) /\ ListInv(n)
         /\ Range(n.sessions) \subseteq Range(d.sessions) \cup {s} /\ s \in Range(n.sessions)
         /\ Range(d.sessions) \cap Protected(e, d) \subseteq Range(n.sessions)
         /\ n.chain[s] = NoChain
         /\ \A t \in Range(n.sessions) : t # s => n.chain[t] = d.chain[t]
         /\ n.active = (IF d.active = None THEN s ELSE d.active)
<1>. DEFINE r == Reserve(e, d)
<1>1. /\ r \in States /\ Rest(r) = Rest(d) /\ r.active = d.active /\ ListInv(r)
      /\ Range(r.sessions) \subseteq Range(d.sessions)
      /\ Range(d.sessions) \cap Protected(e, d) \subseteq Range(r.sessions)
      /\ \A t \in Range(r.sessions) : r.chain[t] = d.chain[t]
  BY ReserveFacts
<1>. HIDE DEF r
<1>. DEFINE n == Open(r, s)
<1>2. /\ n \in States /\ Rest(n) = Rest(r) /\ ListInv(n) /\ n.chain = r.chain
      /\ Range(n.sessions) = Range(r.sessions) \cup {s}
      /\ n.active = (IF r.active = None THEN s ELSE r.active)
  BY <1>1, OpenFacts
<1>3. r.chain[s] = NoChain
  BY <1>1 DEF ListInv
<1>. HIDE DEF n
<1>4. \A t \in Range(n.sessions) : t # s => n.chain[t] = d.chain[t]
  BY <1>1, <1>2
<1>. QED BY <1>1, <1>2, <1>3, <1>4 DEF n, r

LEMMA RestFields ==
  ASSUME NEW d, NEW n, Rest(n) = Rest(d)
  PROVE  /\ n.received = d.received /\ n.forgotten = d.forgotten /\ n.cursor = d.cursor
         /\ n.fragments = d.fragments /\ n.completed = d.completed /\ n.issued = d.issued
         /\ n.applied = d.applied /\ n.source = d.source /\ n.fetched = d.fetched
  BY DEF Rest

\* A key that a chain still has is spent: afterwards its counter is one of those received.
LEMMA AdvanceFacts ==
  ASSUME NEW chain \in Chains, \A c \in chain.skipped : c < chain.next,
         NEW counter \in Nat, Decrypts(chain, counter)
  PROVE  LET n == Advance(chain, counter)
             Used(x) == (0..x.next) \ (x.skipped \cup {x.next})
         IN /\ n \in Chains /\ n.sent = chain.sent
            /\ \A c \in n.skipped : c < n.next
            /\ counter \notin Used(chain) /\ Used(n) = Used(chain) \cup {counter}
<1>. DEFINE n == Advance(chain, counter)
            Used(x) == (0..x.next) \ (x.skipped \cup {x.next})
<1>1. chain.sent \in Nat /\ chain.next \in Nat /\ chain.skipped \in SUBSET Nat
  BY ChainFields
<1>2. MaxSkip \in Nat
  BY ConstantFacts
<1>3. CASE counter \in chain.skipped
  <2>1. n.sent = chain.sent /\ n.next = chain.next /\ n.skipped = chain.skipped \ {counter}
    BY <1>3 DEF Advance, Chains
  <2>2. n \in Chains
    BY <1>3, <1>1 DEF Advance, Chains
  <2>. HIDE DEF n
  <2>3. Used(n) = Used(chain) \cup {counter}
    BY <1>1, <1>3, <2>1
  <2>. QED BY <1>1, <1>3, <2>1, <2>2, <2>3 DEF n
<1>4. CASE counter \notin chain.skipped
  <2>1. chain.next <= counter
    BY <1>4 DEF Decrypts
  <2>2. n = [chain EXCEPT !.skipped = @ \cup chain.next..(counter - 1), !.next = counter + 1]
    BY <1>4 DEF Advance
  <2>3. n.sent = chain.sent /\ n.next = counter + 1
        /\ n.skipped = chain.skipped \cup chain.next..(counter - 1)
    BY <2>2 DEF Chains
  <2>4. n.skipped \in SUBSET Nat
    BY <1>1, <2>3
  <2>. HIDE DEF n
  <2>5. n \in Chains
    <3>1. n = [sent |-> chain.sent, next |-> counter + 1, skipped |-> n.skipped]
      BY <2>2, <2>3 DEF Chains
    <3>. QED BY <1>1, <2>4, <3>1 DEF Chains
  <2>6. \A c \in n.skipped : c < n.next
    BY <1>1, <2>1, <2>3
  <2>7. Used(n) = Used(chain) \cup {counter}
    BY <1>1, <2>1, <2>3
  <2>8. counter \notin Used(chain)
    BY <1>1, <2>1
  <2>. QED BY <2>3, <2>5, <2>6, <2>7, <2>8 DEF n
<1>. QED BY <1>3, <1>4

-----------------------------------------------------------------------------
(* What the history says, before and after an event is received.           *)

\* An envelope never changes once it is sealed.
Agree(q) == \A i \in 1..Len(q) : envelope'[q[i]] = envelope[q[i]]

LEMMA ReceivedInSame ==
  ASSUME NEW d \in States, NEW n, n.received = d.received, Agree(d.received), NEW s
  PROVE  ReceivedIn(n, s)' = ReceivedIn(d, s)
<1>1. DOMAIN d.received = 1..Len(d.received)
  BY StateFields, SequenceFacts
<1>. QED BY <1>1 DEF ReceivedIn, Agree

Longer(n, d, t) == n.received = Append(d.received, t)

Follows(n, d, t) ==
  /\ Len(n.received) = Len(d.received) + 1 /\ Len(d.received) \in Nat
  /\ Range(n.received) = Range(d.received) \cup {t}
  /\ n.received[Len(d.received) + 1] = t
  /\ \A i \in 1..Len(d.received) : n.received[i] = d.received[i]
  /\ DOMAIN n.received = 1..Len(n.received)

LEMMA LongerFacts ==
  ASSUME NEW d \in States, NEW n \in States, NEW t \in Transactions, Longer(n, d, t)
  PROVE  Follows(n, d, t)
<1>1. d.received \in Seq(Transactions) /\ n.received = Append(d.received, t)
  BY StateFields DEF Longer
<1>2. /\ Len(n.received) = Len(d.received) + 1
      /\ Range(n.received) = Range(d.received) \cup {t}
      /\ n.received[Len(d.received) + 1] = t
      /\ \A i \in 1..Len(d.received) : n.received[i] = d.received[i]
  BY <1>1, AppendFacts
<1>3. Len(d.received) \in Nat /\ DOMAIN n.received = 1..Len(n.received)
  BY ListFacts
<1>. QED BY <1>2, <1>3 DEF Follows

LEMMA ReceivedInAppend ==
  ASSUME NEW d \in States, NEW n, NEW t \in Transactions,
         Longer(n, d, t), Agree(d.received), NEW s
  PROVE  /\ envelope'[t].session # s /\ t # s => ReceivedIn(n, s)' = ReceivedIn(d, s)
         /\ envelope'[t].session = s /\ t # s => ReceivedIn(n, s)' = ReceivedIn(d, s) \cup {t}
         /\ envelope'[t].session = s /\ t = s => ReceivedIn(n, s)' = {t}
<1>. DEFINE q == d.received
            r == n.received
            I(i) == envelope[q[i]].session = s /\ \A j \in 1..Len(q) : q[j] = s => j <= i
            J(i) == envelope'[r[i]].session = s /\ \A j \in 1..Len(r) : r[j] = s => j <= i
<1>1. /\ Len(q) \in Nat /\ DOMAIN q = 1..Len(q)
      /\ \A i \in 1..Len(q) : q[i] \in Transactions
  BY StateFields, SequenceFacts
<1>2. /\ Len(r) = Len(q) + 1 /\ r[Len(q) + 1] = t
      /\ \A i \in 1..Len(q) : r[i] = q[i]
      /\ r \in Seq(Transactions)
  BY StateFields, AppendFacts DEF Longer
<1>3. DOMAIN r = 1..Len(q) + 1
  BY <1>2, SequenceFacts
<1>4. /\ ReceivedIn(d, s) = {q[i] : i \in {i \in 1..Len(q) : I(i)}}
      /\ ReceivedIn(n, s)' = {r[i] : i \in {i \in 1..Len(q) + 1 : J(i)}}
  BY <1>1, <1>2, <1>3 DEF ReceivedIn
<1>14. \A i \in 1..Len(q) : envelope'[q[i]] = envelope[q[i]]
  BY DEF Agree
<1>. HIDE DEF q, r
<1>5. \A i \in 1..Len(q) : t # s => (I(i) <=> J(i))
  <2>1. SUFFICES ASSUME NEW i \in 1..Len(q), t # s PROVE I(i) <=> J(i)
    OBVIOUS
  <2>2. r[i] = q[i] /\ envelope'[r[i]] = envelope[q[i]]
    BY <1>2, <1>14
  <2>3. (\A j \in 1..Len(q) : q[j] = s => j <= i)
          <=> (\A j \in 1..Len(q) + 1 : r[j] = s => j <= i)
    BY <1>1, <1>2, <2>1
  <2>. QED BY <1>2, <2>2, <2>3
<1>6. \A i \in 1..Len(q) : t = s => ~J(i)
  BY <1>1, <1>2
<1>7. envelope'[t].session # s => ~J(Len(q) + 1)
  BY <1>2
<1>8. envelope'[t].session = s => J(Len(q) + 1)
  BY <1>1, <1>2
<1>9. 1..Len(q) + 1 = (1..Len(q)) \cup {Len(q) + 1}
  BY <1>1
<1>. HIDE DEF I, J
<1>10. ReceivedIn(n, s)' = {r[i] : i \in {i \in (1..Len(q)) \cup {Len(q) + 1} : J(i)}}
  BY <1>4, <1>9
<1>11. ASSUME envelope'[t].session # s, t # s PROVE ReceivedIn(n, s)' = ReceivedIn(d, s)
  BY <1>2, <1>4, <1>5, <1>7, <1>10, <1>11
<1>12. ASSUME envelope'[t].session = s, t # s PROVE ReceivedIn(n, s)' = ReceivedIn(d, s) \cup {t}
  BY <1>2, <1>4, <1>5, <1>8, <1>10, <1>12
<1>13. ASSUME envelope'[t].session = s, t = s PROVE ReceivedIn(n, s)' = {t}
  BY <1>2, <1>6, <1>8, <1>10, <1>13
<1>. QED BY <1>11, <1>12, <1>13

\* The last copy of a bootstrap that was received counts in its session.
LEMMA BootstrapCounted ==
  ASSUME NEW d \in States, NEW s \in Range(d.received), envelope[s].session = s
  PROVE  s \in ReceivedIn(d, s)
<1>. DEFINE q == d.received
            B == {i \in 1..Len(q) : q[i] = s}
<1>1. /\ Len(q) \in Nat /\ DOMAIN q = 1..Len(q) /\ Range(q) = {q[i] : i \in 1..Len(q)}
  <2>1. q \in Seq(Transactions)
    BY StateFields
  <2>. HIDE DEF q
  <2>. QED BY <2>1, SequenceFacts
<1>2. B \in SUBSET (1..Len(q)) /\ B # {}
  <2>1. PICK i \in 1..Len(q) : q[i] = s
    BY <1>1
  <2>2. i \in B
    BY <2>1
  <2>. QED BY <2>2
<1>3. PICK m \in B : \A i \in B : i <= m
  <2>. HIDE DEF B, q
  <2>. QED BY <1>1, <1>2, GreatestBelow
<1>. QED BY <1>1, <1>3 DEF ReceivedIn

LEMMA LatestSame ==
  ASSUME NEW d \in States, NEW n, NEW k, NEW kind, k \in 0..Len(d.received), Agree(d.received),
         \A i \in 1..Len(d.received) : n.received[i] = d.received[i]
  PROVE  Latest(n, k, kind)' = Latest(d, k, kind)
<1>. DEFINE q == d.received
            r == n.received
            A == {i \in 1..k : envelope[q[i]].kind = kind}
            m == CHOOSE i \in A : \A j \in A : j <= i
<1>1. Len(q) \in Nat /\ k \in Nat /\ 1..k \subseteq 1..Len(q)
  BY StateFields, SequenceFacts
<1>2. \A i \in 1..k : r[i] = q[i] /\ envelope'[r[i]] = envelope[q[i]]
  BY <1>1 DEF Agree
<1>3. {i \in 1..k : envelope'[r[i]].kind = kind} = A
  BY <1>2
<1>4. A \in SUBSET (1..k)
  OBVIOUS
<1>. HIDE DEF A
<1>5. ASSUME A # {} PROVE m \in 1..k
  <2>1. \E i \in A : \A j \in A : j <= i
    BY <1>1, <1>4, <1>5, GreatestBelow
  <2>2. m \in A
    BY <2>1
  <2>. QED BY <2>2, <1>4
<1>. HIDE DEF q, r, m
<1>6. Latest(d, k, kind) = IF A = {} THEN 0 ELSE envelope[q[m]].revision
  BY DEF Latest, A, m, q
<1>7. Latest(n, k, kind)' = IF A = {} THEN 0 ELSE envelope'[r[m]].revision
  <2>. DEFINE P == {i \in 1..k : envelope'[r[i]].kind = kind}
  <2>1. Latest(n, k, kind)' =
          IF P = {} THEN 0 ELSE envelope'[r[CHOOSE i \in P : \A j \in P : j <= i]].revision
    BY DEF Latest, r
  <2>2. P = A
    BY <1>3
  <2>. HIDE DEF P
  <2>. QED BY <2>1, <2>2 DEF m
<1>. QED BY <1>2, <1>5, <1>6, <1>7

LEMMA LatestAppend ==
  ASSUME NEW d \in States, NEW n, NEW t \in Transactions,
         n.received = Append(d.received, t), Agree(d.received), NEW kind
  PROVE  Latest(n, Len(d.received) + 1, kind)' =
           IF envelope'[t].kind = kind THEN envelope'[t].revision
           ELSE Latest(d, Len(d.received), kind)
<1>. DEFINE q == d.received
            r == n.received
            l == Len(q)
            A(k) == {i \in 1..k : envelope'[r[i]].kind = kind}
            M(k) == CHOOSE i \in A(k) : \A j \in A(k) : j <= i
<1>1. l \in Nat /\ l \in 0..l
  BY StateFields, SequenceFacts
<1>2. r[l + 1] = t /\ \A i \in 1..l : r[i] = q[i]
  BY StateFields, AppendFacts
<1>3. Latest(n, l, kind)' = Latest(d, l, kind)
  BY <1>1, <1>2, LatestSame
<1>4. \A k : Latest(n, k, kind)' = IF A(k) = {} THEN 0 ELSE envelope'[r[M(k)]].revision
  BY DEF Latest
<1>. HIDE DEF q, r, l
<1>5. CASE envelope'[t].kind = kind
  <2>1. l + 1 \in A(l + 1) /\ \A j \in A(l + 1) : j <= l + 1
    BY <1>1, <1>2, <1>5
  <2>2. \A i \in A(l + 1) : i \in Nat
    BY <1>1
  <2>. DEFINE G(i) == i \in A(l + 1) /\ \A j \in A(l + 1) : j <= i
  <2>3. \A i : G(i) <=> i = l + 1
    BY <2>1, <2>2, <1>1
  <2>4. M(l + 1) = CHOOSE i : G(i)
    OBVIOUS
  <2>5. M(l + 1) = l + 1
    <3>. HIDE DEF G, M
    <3>. QED BY <2>3, <2>4
  <2>. HIDE DEF A, M
  <2>. QED BY <2>1, <2>5, <1>2, <1>4, <1>5 DEF l, q
<1>6. CASE envelope'[t].kind # kind
  <2>1. A(l + 1) = A(l)
    BY <1>1, <1>2, <1>6
  <2>2. M(l + 1) = M(l)
    BY <2>1
  <2>. HIDE DEF A, M
  <2>. QED BY <2>1, <2>2, <1>3, <1>4, <1>6 DEF l, q
<1>. QED BY <1>5, <1>6

\* A change of the sessions alone: what is said of the chains and of the controls stays true.
LEMMA AccountsStay ==
  ASSUME NEW d \in States, NEW n \in States, Accounts(d),
         n.received = d.received, Agree(d.received),
         \A s \in Range(n.sessions) :
           \/ /\ s \in Range(d.sessions)
              /\ n.chain[s].next = d.chain[s].next /\ n.chain[s].skipped = d.chain[s].skipped
           \/ /\ ReceivedIn(d, s) = {}
              /\ n.chain[s].next = 0 /\ n.chain[s].skipped = {}
  PROVE  Accounts(n)'
<1>. DEFINE Used(x) == (0..x.next) \ (x.skipped \cup {x.next})
            Count(s) == {envelope[t].counter : t \in ReceivedIn(d, s)}
<1>1. SUFFICES ASSUME NEW s \in Range(n.sessions)
               PROVE  {envelope'[t].counter : t \in ReceivedIn(n, s)'} = Used(n.chain[s])
  BY DEF Accounts
<1>2. \A t \in ReceivedIn(d, s) : envelope'[t] = envelope[t]
  <2>1. DOMAIN d.received = 1..Len(d.received)
    BY StateFields, SequenceFacts
  <2>. QED BY <2>1 DEF ReceivedIn, Agree
<1>3. {envelope'[t].counter : t \in ReceivedIn(n, s)'} = Count(s)
  <2>1. ReceivedIn(n, s)' = ReceivedIn(d, s)
    BY ReceivedInSame
  <2>. QED BY <1>2, <2>1
<1>4. CASE /\ s \in Range(d.sessions)
           /\ n.chain[s].next = d.chain[s].next /\ n.chain[s].skipped = d.chain[s].skipped
  <2>1. Count(s) = Used(d.chain[s])
    BY <1>4 DEF Accounts
  <2>. QED BY <1>3, <1>4, <2>1
<1>5. CASE /\ ReceivedIn(d, s) = {}
           /\ n.chain[s].next = 0 /\ n.chain[s].skipped = {}
  BY <1>3, <1>5
<1>. QED BY <1>4, <1>5

LEMMA InOrderStays ==
  ASSUME NEW d \in States, NEW n \in States, InOrder(d),
         n.received = d.received, n.applied = d.applied, Agree(d.received)
  PROVE  InOrder(n)'
<1>1. Len(d.received) \in Nat /\ DOMAIN d.received = 1..Len(d.received)
      /\ \A i \in 1..Len(d.received) : i - 1 \in 0..Len(d.received)
  BY StateFields, SequenceFacts
<1>2. \A k \in 0..Len(d.received) : \A kind : Latest(n, k, kind)' = Latest(d, k, kind)
  BY LatestSame
<1>3. ASSUME NEW i \in 1..Len(d.received), NEW kind, kind = envelope[d.received[i]].kind
      PROVE  LET revision == envelope[d.received[i]].revision
                 last == Latest(n, i - 1, kind)'
             IN /\ kind = "routes" => revision \in {last, last + 1}
                /\ kind = "prekey" => revision >= last
  <2>1. Latest(n, i - 1, kind)' = Latest(d, i - 1, kind)
    BY <1>1, <1>2
  <2>. QED BY <1>1, <1>3, <2>1 DEF InOrder
<1>4. \A kind \in Controls : n.applied[kind] = Latest(n, Len(n.received), kind)'
  BY <1>1, <1>2 DEF InOrder
<1>5. \A i \in 1..Len(d.received) : envelope'[n.received[i]] = envelope[d.received[i]]
  BY DEF Agree
<1>6. ASSUME NEW i \in 1..Len(d.received)
      PROVE  /\ envelope'[n.received[i]].kind = "routes" =>
                  envelope'[n.received[i]].revision
                    \in {Latest(n, i - 1, envelope[n.received[i]].kind)',
                         Latest(n, i - 1, envelope[n.received[i]].kind)' + 1}
             /\ envelope'[n.received[i]].kind = "prekey" =>
                  envelope'[n.received[i]].revision
                    >= Latest(n, i - 1, envelope[n.received[i]].kind)'
  BY <1>3, <1>5
<1>. QED BY <1>1, <1>4, <1>6 DEF InOrder

LEMMA BoxFacts ==
  ASSUME TypeOK, NEW e \in Endpoints, NEW p \in Paths
  PROVE  /\ box[e][p] \in Seq(Records) /\ Len(box[e][p]) \in Nat
         /\ DOMAIN box[e][p] = 1..Len(box[e][p])
         /\ Range(box[e][p]) = {box[e][p][i] : i \in 1..Len(box[e][p])}
         /\ \A i \in 1..Len(box[e][p]) : box[e][p][i] \in Records
         /\ Range(box[e][p]) \subseteq Records
<1>1. box[e][p] \in Seq(Records)
  BY DEF TypeOK
<1>. QED BY <1>1, SequenceFacts

-----------------------------------------------------------------------------
(* What no step takes back: sealed envelopes, the records the relay has    *)
(* logged and the bootstraps found invalid.                                *)

Grows ==
  /\ \A t \in Transactions : Sealed(t) => envelope'[t] = envelope[t]
  /\ \A e \in Endpoints, p \in Paths :
       /\ Len(box[e][p]) <= Len(box'[e][p])
       /\ \A i \in 1..Len(box[e][p]) : box'[e][p][i] = box[e][p][i]
  /\ Range(invalid) \subseteq Range(invalid')

LEMMA GrowsKeeps ==
  ASSUME TypeOK, TypeOK', Grows
  PROVE  /\ \A t \in Transactions : Sealed(t) => Sealed(t)' /\ envelope'[t] = envelope[t]
         /\ \A t \in Transactions : Bootstrap(t) => Bootstrap(t)'
         /\ \A e \in Endpoints, p \in Paths : Range(box[e][p]) \subseteq Range(box'[e][p])
         /\ \A e \in Endpoints : \A t : HeldBy(e, t) => HeldBy(e, t)'
         /\ \A t : Delivered(t) => Delivered(t)'
         /\ \A t \in Transactions : Sealed(t) /\ Introduced(t) => Introduced(t)'
<1>1. \A t \in Transactions : Sealed(t) => Sealed(t)' /\ envelope'[t] = envelope[t]
  BY DEF Grows, Sealed
<1>2. \A t \in Transactions : Bootstrap(t) => Bootstrap(t)'
  BY <1>1 DEF Bootstrap
<1>3. \A e \in Endpoints, p \in Paths : Range(box[e][p]) \subseteq Range(box'[e][p])
  <2>1. SUFFICES ASSUME NEW e \in Endpoints, NEW p \in Paths
                 PROVE  Range(box[e][p]) \subseteq Range(box'[e][p])
    OBVIOUS
  <2>2. Range(box[e][p]) = {box[e][p][i] : i \in 1..Len(box[e][p])} /\ Len(box[e][p]) \in Nat
    BY BoxFacts
  <2>3. Range(box'[e][p]) = {box'[e][p][i] : i \in 1..Len(box'[e][p])} /\ Len(box'[e][p]) \in Nat
    <3>1. box'[e][p] \in Seq(Records)
      BY DEF TypeOK
    <3>. QED BY <3>1, SequenceFacts
  <2>4. /\ Len(box[e][p]) <= Len(box'[e][p])
        /\ \A i \in 1..Len(box[e][p]) : box'[e][p][i] = box[e][p][i]
    BY DEF Grows
  <2>. QED BY <2>2, <2>3, <2>4
<1>4. \A e \in Endpoints : \A t : HeldBy(e, t) => HeldBy(e, t)'
  BY <1>3 DEF HeldBy
<1>5. \A t : Delivered(t) => Delivered(t)'
  BY <1>3 DEF Delivered
<1>6. \A t \in Transactions : Sealed(t) /\ Introduced(t) => Introduced(t)'
  <2>1. SUFFICES ASSUME NEW t \in Transactions, Sealed(t), Introduced(t) PROVE Introduced(t)'
    OBVIOUS
  <2>2. envelope'[t].session = envelope[t].session
    BY <1>1, <2>1
  <2>3. \A s : s \in Range(invalid) => s \in Range(invalid')
    BY DEF Grows
  <2>. QED BY <2>1, <2>2, <2>3, <1>5 DEF Introduced
<1>. QED BY <1>1, <1>2, <1>3, <1>4, <1>5, <1>6

\* A state or a candidate nothing is done to keeps its invariant while the others go on.
LEMMA CandidateStays ==
  ASSUME TypeOK, TypeOK', Grows, NEW e \in Endpoints, NEW d \in States, CandidateInv(e, d),
         \A s \in Transactions : s \in Range(d.sessions) /\ envelope[s].from = e
                                 /\ intent'[s].status = "discarded"
                                   => intent[s].status = "discarded"
  PROVE  CandidateInv(e, d)'
<1>1. /\ ListInv(d) /\ SessionsInv(e, d) /\ ReceivedInv(e, d) /\ CursorInv(e, d)
      /\ Accounts(d) /\ InOrder(d)
  BY DEF CandidateInv
<1>2. /\ \A t \in Transactions : Sealed(t) => Sealed(t)' /\ envelope'[t] = envelope[t]
      /\ \A t \in Transactions : Bootstrap(t) => Bootstrap(t)'
      /\ \A o \in Endpoints, p \in Paths : Range(box[o][p]) \subseteq Range(box'[o][p])
      /\ \A o \in Endpoints : \A t : HeldBy(o, t) => HeldBy(o, t)'
  BY GrowsKeeps
<1>3. /\ DOMAIN d.received = 1..Len(d.received) /\ d.cursor \in [Paths -> Nat]
      /\ \A i \in 1..Len(d.received) : d.received[i] \in Transactions
      /\ Range(d.sessions) \subseteq Transactions
  BY StateFields, SequenceFacts
<1>4. Agree(d.received)
  BY <1>1, <1>2, <1>3 DEF Agree, ReceivedInv
<1>5. ListInv(d)'
  BY <1>1 DEF ListInv
<1>6. SessionsInv(e, d)'
  <2>1. SUFFICES ASSUME NEW s \in Range(d.sessions)
                 PROVE  /\ Bootstrap(s)'
                        /\ envelope'[s].from # e => s \in Range(d.received)
                        /\ envelope'[s].from = e /\ intent'[s].status = "discarded"
                             => s \in Range(invalid')
    BY DEF SessionsInv
  <2>2. s \in Transactions /\ Bootstrap(s) /\ envelope'[s] = envelope[s]
    BY <1>1, <1>2, <1>3 DEF SessionsInv, Bootstrap
  <2>3. Range(invalid) \subseteq Range(invalid')
    BY DEF Grows
  <2>. QED BY <1>1, <1>2, <2>2, <2>3 DEF SessionsInv
<1>7. ReceivedInv(e, d)'
  BY <1>1, <1>2, <1>3 DEF ReceivedInv
<1>8. CursorInv(e, d)'
  <2>1. SUFFICES ASSUME NEW p \in Paths
                 PROVE /\ d.cursor[p] <= Len(box'[e][p])
                       /\ d.completed[p] \subseteq Range(d.received)
                       /\ d.fragments[p] \subseteq Range(box'[e][p])
                       /\ \A i \in 1..d.cursor[p] :
                            box'[e][p][i] \in d.fragments[p] \/ box'[e][p][i].tx \in d.completed[p]
    BY DEF CursorInv
  <2>2. /\ d.cursor[p] \in Nat /\ Len(box[e][p]) \in Nat /\ Len(box'[e][p]) \in Nat
    <3>1. box'[e][p] \in Seq(Records)
      BY DEF TypeOK
    <3>. QED BY <3>1, <1>3, BoxFacts, SequenceFacts
  <2>3. /\ Len(box[e][p]) <= Len(box'[e][p])
        /\ \A i \in 1..Len(box[e][p]) : box'[e][p][i] = box[e][p][i]
    BY DEF Grows
  <2>4. /\ d.cursor[p] <= Len(box[e][p]) /\ d.completed[p] \subseteq Range(d.received)
        /\ d.fragments[p] \subseteq Range(box[e][p])
        /\ \A i \in 1..d.cursor[p] :
             box[e][p][i] \in d.fragments[p] \/ box[e][p][i].tx \in d.completed[p]
    BY <1>1 DEF CursorInv
  <2>5. \A i \in 1..d.cursor[p] : i \in 1..Len(box[e][p])
    BY <2>2, <2>4
  <2>6. d.fragments[p] \subseteq Range(box'[e][p])
    BY <2>4, <1>2
  <2>7. \A i \in 1..d.cursor[p] :
          box'[e][p][i] \in d.fragments[p] \/ box'[e][p][i].tx \in d.completed[p]
    BY <2>3, <2>4, <2>5
  <2>. QED BY <2>2, <2>3, <2>4, <2>6, <2>7
<1>9. Accounts(d)'
  BY <1>1, <1>4, AccountsStay
<1>10. InOrder(d)'
  BY <1>1, <1>4, InOrderStays
<1>. QED BY <1>5, <1>6, <1>7, <1>8, <1>9, <1>10 DEF CandidateInv

LEMMA EnvelopesStay ==
  ASSUME TypeOK, TypeOK', Grows, EnvelopesInv, UNCHANGED envelope
  PROVE  EnvelopesInv'
<1>1. SUFFICES ASSUME NEW t \in Transactions, Sealed(t),
                      NEW s \in Transactions, s = envelope[t].session
               PROVE  /\ Bootstrap(s)'
                      /\ envelope[t].boot => t = s
                      /\ envelope[s].from # envelope[t].from => Delivered(s)'
  BY SealedFacts DEF EnvelopesInv, Sealed
<1>2. /\ Bootstrap(s)
      /\ envelope[t].boot => t = s
      /\ envelope[s].from # envelope[t].from => Delivered(s)
  BY <1>1 DEF EnvelopesInv
<1>3. Bootstrap(s)' /\ (Delivered(s) => Delivered(s)')
  BY <1>2, GrowsKeeps
<1>. QED BY <1>2, <1>3

LEMMA IntentStays ==
  ASSUME TypeOK, TypeOK', Grows, NEW t \in Transactions, IntentInv(t),
         intent'[t] = intent[t], Sealed(t)' => Sealed(t)
  PROVE  IntentInv(t)'
<1>1. Sealed(t) => Sealed(t)' /\ envelope'[t] = envelope[t]
  BY GrowsKeeps
<1>2. ASSUME Sealed(t), NEW p \in Paths, NEW part \in 1..intent'[t].progress[p]
      PROVE  [tx |-> t, part |-> part] \in Range(box'[Peer(envelope'[t].from)][p])
  <2>1. Peer(envelope[t].from) \in Endpoints
    BY <1>2, SealedFacts, PeerFacts
  <2>2. [tx |-> t, part |-> part] \in Range(box[Peer(envelope[t].from)][p])
    BY <1>2 DEF IntentInv
  <2>. QED BY <1>1, <1>2, <2>1, <2>2, GrowsKeeps
<1>3. ASSUME intent[t].status = "relayAccepted" PROVE HeldBy(Peer(envelope[t].from), t)'
  <2>1. Sealed(t) /\ HeldBy(Peer(envelope[t].from), t)
    BY <1>3 DEF IntentInv
  <2>2. Peer(envelope[t].from) \in Endpoints
    BY <2>1, SealedFacts, PeerFacts
  <2>3. PICK o \in Endpoints : o = Peer(envelope[t].from)
    BY <2>2
  <2>4. HeldBy(o, t)'
    BY <2>1, <2>3, GrowsKeeps
  <2>5. o = Peer(envelope'[t].from)
    BY <1>1, <2>1, <2>3
  <2>. QED BY <2>4, <2>5
<1>4. Range(invalid) \subseteq Range(invalid')
  BY DEF Grows
<1>. QED BY <1>1, <1>2, <1>3, <1>4 DEF IntentInv

\* No event of this endpoint is prepared.
LEMMA OutboxStays ==
  ASSUME TypeOK, TypeOK', Grows, EnvelopesInv, NEW e \in Endpoints, OutboxInv(e),
         outbox'[e] = outbox[e], Own(e)' \subseteq Own(e)
  PROVE  OutboxInv(e)'
<1>1. outbox[e] \in Seq(Transactions)
  BY DEF TypeOK
<1>2. /\ DOMAIN outbox[e] = 1..Len(outbox[e])
      /\ \A i \in 1..Len(outbox[e]) : outbox[e][i] \in Transactions
  BY <1>1, SequenceFacts
<1>3. \A t \in Transactions : Sealed(t) => Sealed(t)' /\ envelope'[t] = envelope[t]
  BY GrowsKeeps
<1>4. Own(e)' \subseteq Range(outbox'[e])
  BY DEF OutboxInv
<1>5. ASSUME NEW i \in 1..Len(outbox[e])
      PROVE  LET t == outbox[e][i]
                 s == envelope[t].session
             IN /\ Sealed(t)' /\ envelope'[t] = envelope[t] /\ envelope[t].from = e
                /\ envelope'[s] = envelope[s]
                /\ envelope[s].from = e => \E j \in 1..i : outbox[e][j] = s
  <2>. DEFINE t == outbox[e][i]
              s == envelope[t].session
  <2>1. t \in Transactions /\ Sealed(t) /\ envelope[t].from = e
    BY <1>2 DEF OutboxInv
  <2>2. s \in Transactions /\ Sealed(s)
    BY <2>1, SealedFacts DEF EnvelopesInv, Bootstrap
  <2>3. envelope[s].from = e => \E j \in 1..i : outbox[e][j] = s
    BY <1>2 DEF OutboxInv
  <2>. QED BY <1>3, <2>1, <2>2, <2>3
<1>. QED BY <1>2, <1>4, <1>5 DEF OutboxInv

\* The durable state is not written, and no intent of this endpoint is given up.
LEMMA StateStays ==
  ASSUME TypeOK, TypeOK', Grows, NEW e \in Endpoints, StateInv(e),
         state'[e] = state[e], floor'[e] = floor[e], Own(e)' \subseteq Own(e),
         \A t \in Own(e) : intent'[t].status = "discarded" <=> intent[t].status = "discarded"
  PROVE  StateInv(e)'
<1>1. state[e] \in States /\ CandidateInv(e, state[e])
  BY DEF StateInv, TypeOK
<1>2. \A t \in Transactions : Sealed(t) => envelope'[t] = envelope[t]
  BY DEF Grows
<1>3. \A s \in Transactions : s \in Range(state[e].sessions) /\ envelope[s].from = e
                                /\ intent'[s].status = "discarded"
                                  => intent[s].status = "discarded"
  BY DEF Own
<1>4. CandidateInv(e, state[e])'
  <2>1. ASSUME NEW d \in States, d = state[e] PROVE CandidateInv(e, d)'
    BY <1>1, <1>3, <2>1, CandidateStays
  <2>2. PICK d \in States : d = state[e]
    BY <1>1
  <2>3. CandidateInv(e, d)'
    BY <2>1, <2>2
  <2>. QED BY <2>2, <2>3
<1>5. \A t \in Own(e) : t \in Transactions /\ Sealed(t)
  BY SealedFacts DEF Own
<1>6. \A t \in Own(e)' : intent'[t].status # "discarded" =>
                           envelope'[t].session \in Range(state'[e].sessions)
  BY <1>2, <1>5 DEF StateInv
<1>. QED BY <1>4, <1>6 DEF StateInv

\* The operation under way is another one's.
LEMMA OperationStays ==
  ASSUME TypeOK, TypeOK', Grows, NEW e \in Endpoints, OperationInv(e),
         op'[e] = op[e], state'[e] = state[e], floor'[e] = floor[e],
         \A t \in Own(e) : intent'[t] = intent[t]
  PROVE  OperationInv(e)'
<1>. DEFINE o == op[e]
<1>1. o \in Operations /\ o.draft \in States
  BY DEF TypeOK, Operations
<1>2. /\ \A t \in Transactions : Sealed(t) => Sealed(t)' /\ envelope'[t] = envelope[t]
      /\ \A t \in Transactions : Sealed(t) /\ Introduced(t) => Introduced(t)'
      /\ Range(invalid) \subseteq Range(invalid')
  BY GrowsKeeps DEF Grows
<1>3. ASSUME o.kind = "receive"
      PROVE  /\ CandidateInv(e, o.draft)'
             /\ o.path \in Paths /\ o.until <= Len(box'[e][o.path])
             /\ \A p \in Paths : floor'[e][p] <= o.draft.cursor[p]
  <2>1. /\ CandidateInv(e, o.draft)
        /\ o.path \in Paths /\ o.until <= Len(box[e][o.path])
        /\ \A p \in Paths : floor[e][p] <= o.draft.cursor[p]
    BY <1>3 DEF OperationInv
  <2>2. PICK d \in States : d = o.draft
    BY <1>1
  <2>3. \A s \in Transactions : envelope[s].from = e => intent'[s] = intent[s]
    BY DEF Own
  <2>4. CandidateInv(e, d)'
    BY <2>1, <2>2, <2>3, CandidateStays
  <2>5. o.draft' = d
    BY <2>2
  <2>6. o.until \in Nat /\ Len(box[e][o.path]) \in Nat /\ Len(box'[e][o.path]) \in Nat
    <3>1. box'[e][o.path] \in Seq(Records)
      BY <2>1 DEF TypeOK
    <3>. QED BY <1>1, <2>1, <3>1, BoxFacts, SequenceFacts DEF Operations
  <2>7. Len(box[e][o.path]) <= Len(box'[e][o.path])
    BY <2>1 DEF Grows
  <2>8. o.until <= Len(box'[e][o.path])
    <3> DEFINE u == o.until
               l == Len(box[e][o.path])
               m == Len(box'[e][o.path])
    <3>1. u \in Nat /\ l \in Nat /\ m \in Nat /\ u <= l /\ l <= m
      BY <2>1, <2>6, <2>7
    <3> HIDE DEF u, l, m
    <3>2. u <= m
      BY ONLY <3>1
    <3>. QED BY <3>2 DEF u, m
  <2>9. CandidateInv(e, o.draft)'
    BY <2>4, <2>5
  <2>. QED BY <2>1, <2>8, <2>9
<1>4. ASSUME o.kind = "collect"
      PROVE  o.path \in Paths /\ o.until <= state'[e].cursor[o.path]
  BY <1>4 DEF OperationInv
<1>5. ASSUME o.kind = "send"
      PROVE  /\ o.tx \in Transactions /\ Sealed(o.tx)'
             /\ envelope'[o.tx].from = e /\ intent'[o.tx].status = "publishing"
             /\ o.path \in Paths => intent'[o.tx].progress[o.path] < Packets
             /\ "invalid" \in o.failures => o.tx \in Range(invalid')
             /\ Introduced(o.tx)'
  <2>1. /\ o.tx \in Transactions /\ Sealed(o.tx)
        /\ envelope[o.tx].from = e /\ intent[o.tx].status = "publishing"
        /\ o.path \in Paths => intent[o.tx].progress[o.path] < Packets
        /\ "invalid" \in o.failures => o.tx \in Range(invalid)
        /\ Introduced(o.tx)
    BY <1>5 DEF OperationInv
  <2>2. intent'[o.tx] = intent[o.tx]
    BY <2>1 DEF Own
  <2>3. PICK t \in Transactions : t = o.tx
    BY <2>1
  <2>4. Sealed(t)' /\ envelope'[t] = envelope[t] /\ Introduced(t)'
    BY <1>2, <2>1, <2>3
  <2>5. o.tx' = t
    BY <2>3
  <2>. QED BY <1>2, <2>1, <2>2, <2>4, <2>5
<1>. HIDE DEF o
<1>6. op'[e] = o
  BY DEF o
<1>. QED BY <1>3, <1>4, <1>5, <1>6 DEF OperationInv, o

\* A step of one endpoint: what is to be shown of it is the part it changes.
LEMMA StepOf ==
  ASSUME MessagingInv, TypeOK', Grows, NEW e \in Endpoints,
         \A o \in Endpoints : o # e => /\ outbox'[o] = outbox[o] /\ state'[o] = state[o]
                                      /\ op'[o] = op[o] /\ floor'[o] = floor[o]
                                      /\ Own(o)' \subseteq Own(o)
         ,
         \A t \in Transactions \ Own(e)' : intent'[t] = intent[t],
         EnvelopesInv', \A t \in Transactions : IntentInv(t)',
         \A o \in Endpoints : RelayInv(o)',
         OutboxInv(e)', StateInv(e)', OperationInv(e)'
  PROVE  MessagingInv'
<1>1. TypeOK /\ EnvelopesInv
  BY DEF MessagingInv
<1>2. ASSUME NEW o \in Endpoints, o # e
      PROVE  OutboxInv(o)' /\ StateInv(o)' /\ OperationInv(o)'
  <2>1. OutboxInv(o) /\ StateInv(o) /\ OperationInv(o)
    BY DEF MessagingInv
  <2>2. \A t \in Own(o) : t \in Transactions \ Own(e)'
    <3>1. SUFFICES ASSUME NEW t \in Own(o) PROVE t \in Transactions /\ envelope'[t].from # e
      BY DEF Own
    <3>2. t \in Transactions /\ Sealed(t) /\ envelope[t].from = o
      BY <1>1, SealedFacts DEF Own
    <3>. QED BY <1>2, <3>2 DEF Grows
  <2>3. \A t \in Own(o) : intent'[t] = intent[t]
    BY <2>2
  <2>. QED BY <1>1, <1>2, <2>1, <2>3, OutboxStays, StateStays, OperationStays
<1>. QED BY <1>2 DEF MessagingInv

LEMMA RelayStays ==
  ASSUME TypeOK, TypeOK', Grows, NEW e \in Endpoints, RelayInv(e), box'[e] = box[e]
  PROVE  RelayInv(e)'
<1>1. SUFFICES ASSUME NEW p \in Paths, NEW record \in Range(box[e][p]),
                      NEW t \in Transactions, t = record.tx
               PROVE  Sealed(t)' /\ envelope'[t].from = Peer(e) /\ Introduced(t)'
  BY BoxFacts DEF RelayInv, Records
<1>2. Sealed(t) /\ envelope[t].from = Peer(e) /\ Introduced(t)
  BY <1>1 DEF RelayInv
<1>. QED BY <1>2, GrowsKeeps

\* A step that prepares no event and hands the relay no packet.
LEMMA QuietStep ==
  ASSUME MessagingInv, TypeOK', NEW e \in Endpoints,
         UNCHANGED <<envelope, outbox, box>>, Range(invalid) \subseteq Range(invalid'),
         \A o \in Endpoints : o # e =>
           state'[o] = state[o] /\ op'[o] = op[o] /\ floor'[o] = floor[o],
         \A t \in Transactions \ Own(e) : intent'[t] = intent[t],
         \A t \in Own(e) : intent'[t] # intent[t] => IntentInv(t)',
         StateInv(e)', OperationInv(e)'
  PROVE  MessagingInv'
<1>1. TypeOK /\ EnvelopesInv
  BY DEF MessagingInv
<1>2. Grows
  BY <1>1, BoxFacts DEF Grows
<1>3. EnvelopesInv'
  BY <1>1, <1>2, EnvelopesStay
<1>4. ASSUME NEW t \in Transactions PROVE IntentInv(t)'
  <2>1. CASE intent'[t] = intent[t]
    <3>1. Sealed(t)' => Sealed(t)
      BY DEF Sealed
    <3>. QED BY <1>1, <1>2, <2>1, <3>1, IntentStays DEF MessagingInv
  <2>2. CASE intent'[t] # intent[t]
    BY <2>2
  <2>. QED BY <2>1, <2>2
<1>5. \A o \in Endpoints : Own(o)' \subseteq Own(o) /\ Own(o)' = Own(o)
  BY DEF Own
<1>6. \A o \in Endpoints : RelayInv(o)' /\ OutboxInv(o)'
  BY <1>1, <1>2, <1>5, RelayStays, OutboxStays DEF MessagingInv
<1>. QED BY <1>2, <1>3, <1>4, <1>5, <1>6, StepOf

\* The durable state and the intents stay; an operation goes on or ends.
LEMMA OperationStep ==
  ASSUME MessagingInv, TypeOK', NEW e \in Endpoints,
         UNCHANGED <<envelope, intent, outbox, state, box, floor>>,
         Range(invalid) \subseteq Range(invalid'),
         \A o \in Endpoints : o # e => op'[o] = op[o],
         OperationInv(e)'
  PROVE  MessagingInv'
<1>1. TypeOK /\ StateInv(e)
  BY DEF MessagingInv
<1>2. Grows
  BY <1>1, BoxFacts DEF Grows
<1>3. Own(e)' \subseteq Own(e)
  BY DEF Own
<1>4. StateInv(e)'
  BY <1>1, <1>2, <1>3, StateStays
<1>. QED BY <1>4, QuietStep

LEMMA IdleFacts == NewState \in States /\ Idle \in Operations /\ Idle.kind = "idle"
<1>1. 0 \in 0..Chunks /\ 1 \in 1..(RouteCount + 1)
  BY ConstantFacts
<1>2. NoChain \in Chains
  BY DEF NoChain, Chains
<1>3. <<>> \in Seq(Transactions)
  BY EmptySeq
<1>4. NewState \in States
  BY <1>1, <1>2, <1>3 DEF NewState, States
<1>5. Idle \in Operations
  BY <1>1, <1>4 DEF Idle, Operations
<1>. QED BY <1>4, <1>5 DEF Idle

LEMMA OperationFields ==
  ASSUME TypeOK, NEW e \in Endpoints
  PROVE  /\ op[e] \in Operations /\ op[e].draft \in States /\ op[e].until \in Nat
         /\ op[e].path \in 1..(RouteCount + 1) /\ op[e].uploaded \in 0..Chunks
         /\ op[e].tx \in Transactions \cup {None}
         /\ op[e].failures \in SUBSET {"transient", "invalid"}
         /\ op[e].kind \in {"idle", "send", "receive", "collect"}
<1>1. op[e] \in Operations
  BY DEF TypeOK
<1>. QED BY <1>1 DEF Operations

LEMMA GotoFacts ==
  ASSUME TypeOK, NEW e \in Endpoints, NEW o \in Operations, Goto(e, o)
  PROVE  /\ op' \in [Endpoints -> Operations] /\ op'[e] = o
         /\ \A p \in Endpoints : p # e => op'[p] = op[p]
<1>1. op \in [Endpoints -> Operations]
  BY DEF TypeOK
<1>. QED BY <1>1 DEF Goto

\* Whatever ends an operation without another effect.
LEMMA IdleStep ==
  ASSUME MessagingInv, TypeOK', NEW e \in Endpoints, Goto(e, Idle),
         UNCHANGED <<envelope, intent, outbox, state, box, floor, invalid>>
  PROVE  MessagingInv'
<1>1. op'[e] = Idle /\ \A o \in Endpoints : o # e => op'[o] = op[o]
  BY IdleFacts, GotoFacts DEF MessagingInv
<1>2. OperationInv(e)'
  BY <1>1, IdleFacts DEF OperationInv
<1>. QED BY <1>1, <1>2, OperationStep

-----------------------------------------------------------------------------
(* The outbox.                                                             *)

LEMMA CrashKeeps ==
  ASSUME MessagingInv, NEW e \in Endpoints, Crash(e)
  PROVE  MessagingInv'
<1>1. TypeOK'
  <2>1. TypeOK
    BY DEF MessagingInv
  <2>2. op' \in [Endpoints -> Operations]
    BY <2>1, IdleFacts, GotoFacts DEF Crash
  <2>3. faults' \in 0..MaxFaults
    BY <2>1, ConstantFacts DEF TypeOK, Crash
  <2>. QED BY <2>1, <2>2, <2>3 DEF TypeOK, Crash
<1>. QED BY <1>1, IdleStep DEF Crash

LEMMA FirstBlockingFacts ==
  ASSUME TypeOK, NEW e \in Endpoints, FirstBlocking(e) # None
  PROVE  \E i \in 1..Len(outbox[e]) :
           /\ outbox[e][i] = FirstBlocking(e) /\ FirstBlocking(e) \in Transactions
           /\ Blocking(outbox[e][i])
           /\ \A j \in 1..(i - 1) : ~Blocking(outbox[e][j])
<1>. DEFINE B == {i \in DOMAIN outbox[e] : Blocking(outbox[e][i])}
            m == CHOOSE i \in B : \A j \in B : i <= j
<1>1. /\ DOMAIN outbox[e] = 1..Len(outbox[e]) /\ Len(outbox[e]) \in Nat
      /\ \A i \in 1..Len(outbox[e]) : outbox[e][i] \in Transactions
  <2>1. outbox[e] \in Seq(Transactions)
    BY DEF TypeOK
  <2>. QED BY <2>1, SequenceFacts
<1>2. B # {} /\ FirstBlocking(e) = outbox[e][m]
  BY DEF FirstBlocking
<1>3. B \in SUBSET Nat
  BY <1>1
<1>. HIDE DEF B
<1>4. \E i \in B : \A j \in B : i <= j
  BY <1>2, <1>3, LeastNatural
<1>5. m \in B /\ \A j \in B : m <= j
  BY <1>4
<1>. HIDE DEF m
<1>6. m \in 1..Len(outbox[e]) /\ Blocking(outbox[e][m])
  BY <1>1, <1>5 DEF B
<1>7. \A j \in 1..(m - 1) : ~Blocking(outbox[e][j])
  <2>1. SUFFICES ASSUME NEW j \in 1..(m - 1), Blocking(outbox[e][j]) PROVE FALSE
    OBVIOUS
  <2>2. j \in B
    BY <1>1, <1>6, <2>1 DEF B
  <2>. QED BY <1>5, <1>6, <2>2
<1>. QED BY <1>1, <1>2, <1>6, <1>7

\* What is known of an event while it is sent.
LEMMA SendFacts ==
  ASSUME MessagingInv, NEW e \in Endpoints, op[e].kind = "send"
  PROVE  LET tx == op[e].tx IN
         /\ tx \in Transactions /\ tx \in Own(e) /\ Sealed(tx) /\ envelope[tx].from = e
         /\ intent[tx].status = "publishing" /\ Introduced(tx)
         /\ intent[tx].progress \in [Paths -> 0..Packets]
         /\ op[e].path \in Paths => intent[tx].progress[op[e].path] < Packets
         /\ "invalid" \in op[e].failures => tx \in Range(invalid)
<1>1. OperationInv(e) /\ TypeOK
  BY DEF MessagingInv
<1>2. intent \in [Transactions -> Intents]
  BY <1>1 DEF TypeOK
<1>3. \A t \in Transactions : intent[t].progress \in [Paths -> 0..Packets]
  BY <1>2 DEF Intents
<1>. QED BY <1>1, <1>3 DEF OperationInv, Own

\* An attempt goes on: only what the step sets is to be shown.
LEMMA SendStays ==
  ASSUME TypeOK, TypeOK', Grows, NEW e \in Endpoints, NEW tx \in Transactions,
         op'[e].kind = "send", op'[e].tx = tx,
         Sealed(tx), Introduced(tx), envelope[tx].from = e, intent'[tx].status = "publishing",
         op'[e].path \in Paths => intent'[tx].progress[op'[e].path] < Packets,
         "invalid" \in op'[e].failures => tx \in Range(invalid')
  PROVE  OperationInv(e)'
<1>1. Sealed(tx)' /\ Introduced(tx)' /\ envelope'[tx] = envelope[tx]
  BY GrowsKeeps
<1>. QED BY <1>1 DEF OperationInv

LEMMA ResumeKeeps ==
  ASSUME MessagingInv, NEW e \in Endpoints, Resume(e)
  PROVE  MessagingInv'
<1>. DEFINE tx == FirstBlocking(e)
            o == [Idle EXCEPT !.kind = "send", !.tx = tx, !.path = NextPath(intent[tx].progress, 1)]
<1>1. TypeOK /\ EnvelopesInv /\ OutboxInv(e) /\ StateInv(e)
  BY DEF MessagingInv
<1>2. /\ op[e].kind = "idle" /\ tx # None /\ Pending(tx) /\ Goto(e, o)
      /\ intent' = [intent EXCEPT ![tx].status = "publishing"]
      /\ UNCHANGED <<envelope, outbox, state, box, floor, blobs, history>>
  BY DEF Resume
<1>3. PICK i \in 1..Len(outbox[e]) :
           /\ outbox[e][i] = tx /\ tx \in Transactions
           /\ \A j \in 1..(i - 1) : ~Blocking(outbox[e][j])
  BY <1>1, <1>2, FirstBlockingFacts
<1>4. i \in DOMAIN outbox[e] /\ i \in Nat /\ 1..i \subseteq 1..Len(outbox[e])
  <2>1. outbox[e] \in Seq(Transactions)
    BY <1>1 DEF TypeOK
  <2>. QED BY <2>1, SequenceFacts
<1>. HIDE DEF tx
<1>5. Sealed(tx) /\ envelope[tx].from = e
  BY <1>1, <1>3, <1>4 DEF OutboxInv
<1>6. intent \in [Transactions -> Intents] /\ intent[tx] \in Intents
      /\ intent[tx].progress \in [Paths -> 0..Packets]
  <2>1. intent \in [Transactions -> Intents]
    BY <1>1 DEF TypeOK
  <2>. QED BY <2>1, <1>3 DEF Intents
<1>. DEFINE n == NextPath(intent[tx].progress, 1)
<1>7. n \in 1..(RouteCount + 1) /\ (n \in Paths => intent[tx].progress[n] < Packets)
  BY <1>6, ConstantFacts, NextPathFacts
<1>8. o \in Operations /\ o.kind = "send" /\ o.tx = tx /\ o.path = n /\ o.failures = {}
  BY <1>3, <1>7, IdleFacts DEF Operations, Idle
<1>. HIDE DEF o, n
<1>9. op' \in [Endpoints -> Operations] /\ op'[e] = o
      /\ \A p \in Endpoints : p # e => op'[p] = op[p]
  BY <1>1, <1>2, <1>8, GotoFacts
<1>10. /\ intent' \in [Transactions -> Intents]
       /\ intent'[tx].status = "publishing" /\ intent'[tx].progress = intent[tx].progress
       /\ \A t \in Transactions : t # tx => intent'[t] = intent[t]
  BY <1>2, <1>3, <1>6 DEF Intents, Statuses
<1>11. TypeOK'
  BY <1>1, <1>2, <1>9, <1>10 DEF TypeOK, history
<1>12. Introduced(tx)
  <2>. DEFINE s == envelope[tx].session
  <2>1. CASE s = tx
    BY <2>1 DEF Introduced
  <2>2. CASE s # tx
    <3>1. s \in Transactions /\ Bootstrap(s) /\ (envelope[s].from # e => Delivered(s))
      BY <1>1, <1>3, <1>5, SealedFacts DEF EnvelopesInv
    <3>2. CASE envelope[s].from # e
      BY <3>1, <3>2 DEF Introduced
    <3>3. CASE envelope[s].from = e
      <4>1. PICK j \in 1..i : outbox[e][j] = s
        BY <1>1, <1>3, <1>4, <3>3 DEF OutboxInv
      <4>2. j \in 1..(i - 1)
        BY <1>3, <1>4, <2>2, <4>1
      <4>3. ~Blocking(s)
        BY <1>3, <4>1, <4>2
      <4>4. intent[s].status # "none"
        BY <3>1 DEF MessagingInv, IntentInv, Bootstrap
      <4>5. intent[s].status \in Statuses
        BY <1>6, <3>1 DEF Intents
      <4>6. intent[s].status \in {"relayAccepted", "discarded"}
        BY <4>3, <4>4, <4>5 DEF Blocking, Pending, Statuses
      <4>7. CASE intent[s].status = "relayAccepted"
        <5>1. HeldBy(Peer(e), s)
          BY <3>1, <3>3, <4>7 DEF MessagingInv, IntentInv
        <5>2. Peer(e) \in Endpoints
          BY PeerFacts
        <5>. QED BY <5>1, <5>2 DEF HeldBy, Delivered, Introduced
      <4>8. CASE intent[s].status = "discarded"
        <5>1. tx \in Own(e) /\ intent[tx].status # "discarded"
          BY <1>1, <1>2, <1>3, <1>5, SealedFacts DEF Pending
        <5>2. s \in Range(state[e].sessions)
          BY <1>1, <5>1 DEF StateInv
        <5>3. s \in Range(invalid)
          BY <1>1, <3>3, <4>8, <5>2 DEF StateInv, CandidateInv, SessionsInv
        <5>. QED BY <5>3 DEF Introduced
      <4>. QED BY <4>6, <4>7, <4>8
    <3>. QED BY <3>2, <3>3
  <2>. QED BY <2>1, <2>2
<1>13. Grows
  BY <1>1, <1>2, BoxFacts DEF Grows, history
<1>14. OperationInv(e)'
  <2>1. PICK t \in Transactions : t = tx
    BY <1>3
  <2>2. op'[e].kind = "send" /\ op'[e].tx = t /\ op'[e].path = n /\ op'[e].failures = {}
    BY <1>8, <1>9, <2>1
  <2>3. intent'[t].status = "publishing" /\ (n \in Paths => intent'[t].progress[n] < Packets)
    BY <1>7, <1>10, <2>1
  <2>. QED BY <1>1, <1>5, <1>11, <1>12, <1>13, <2>1, <2>2, <2>3, SendStays
<1>15. ASSUME NEW t \in Own(e), intent'[t] # intent[t] PROVE IntentInv(t)'
  <2>1. t = tx
    BY <1>10, <1>15 DEF Own
  <2>2. Sealed(t) /\ Sealed(t)' /\ envelope'[t] = envelope[t] /\ box' = box
    BY <1>2, <1>5, <2>1 DEF Sealed
  <2>3. IntentInv(t)
    BY <1>3, <2>1 DEF MessagingInv
  <2>. QED BY <1>10, <2>1, <2>2, <2>3 DEF IntentInv
<1>16. StateInv(e)'
  <2>1. \A t \in Own(e) : intent'[t].status = "discarded" <=> intent[t].status = "discarded"
    BY <1>2, <1>10 DEF Own, Pending
  <2>2. Own(e)' \subseteq Own(e)
    BY <1>2 DEF Own
  <2>. QED BY <1>1, <1>2, <1>11, <1>13, <2>1, <2>2, StateStays
<1>17. \A t \in Transactions \ Own(e) : intent'[t] = intent[t]
  BY <1>5, <1>10 DEF Own
<1>. QED BY <1>2, <1>9, <1>11, <1>14, <1>15, <1>16, <1>17, QuietStep DEF history

LEMMA UploadKeeps ==
  ASSUME MessagingInv, NEW e \in Endpoints, Upload(e)
  PROVE  MessagingInv'
<1>. DEFINE o == [op[e] EXCEPT !.uploaded = op[e].uploaded + 1]
<1>1. TypeOK /\ op[e].kind = "send" /\ op[e].path \in Paths
  BY DEF MessagingInv, Upload, Uploading, Publishing
<1>2. /\ blobs' = Stored(e, op[e].tx, op[e].path, op[e].uploaded + 1) /\ Goto(e, o)
      /\ UNCHANGED <<envelope, intent, outbox, state, box, floor, history>>
      /\ op[e].uploaded < Chunks
  BY DEF Upload, Uploading
<1>3. op[e].uploaded + 1 \in 1..Chunks /\ op[e].uploaded + 1 \in 0..Chunks
  BY <1>1, <1>2, OperationFields, ConstantFacts
<1>4. op[e].tx \in Transactions /\ Peer(e) \in Endpoints
  BY <1>1, SendFacts, PeerFacts
<1>5. /\ o \in Operations /\ o.kind = "send" /\ o.tx = op[e].tx
      /\ o.path = op[e].path /\ o.failures = op[e].failures
  <2>1. op[e] \in Operations
    BY <1>1, OperationFields
  <2>. QED BY <1>1, <1>3, <2>1 DEF Operations
<1>. HIDE DEF o
<1>6. op' \in [Endpoints -> Operations] /\ op'[e] = o
      /\ \A p \in Endpoints : p # e => op'[p] = op[p]
  BY <1>1, <1>2, <1>5, GotoFacts
<1>7. blobs' \in [Endpoints -> [Paths -> SUBSET Pieces]]
  <2>1. <<op[e].tx, op[e].uploaded + 1>> \in Pieces
    BY <1>3, <1>4 DEF Pieces
  <2>2. blobs \in [Endpoints -> [Paths -> SUBSET Pieces]]
    BY <1>1 DEF TypeOK
  <2>. QED BY <1>1, <1>2, <1>4, <2>1, <2>2 DEF Stored
<1>8. TypeOK'
  BY <1>1, <1>2, <1>6, <1>7 DEF TypeOK, history
<1>9. Grows
  BY <1>1, <1>2, BoxFacts DEF Grows, history
<1>10. OperationInv(e)'
  BY <1>1, <1>2, <1>5, <1>6, <1>8, <1>9, SendFacts, SendStays DEF history
<1>. QED BY <1>2, <1>6, <1>8, <1>10, OperationStep DEF history

\* The relay's logs after it took the packet, or did not.
LEMMA EnqueueFacts ==
  ASSUME MessagingInv, NEW e \in Endpoints, op[e].kind = "send", op[e].path \in Paths,
         Enqueue(e, op[e].tx, op[e].path) \/ UNCHANGED box
  PROVE  LET tx == op[e].tx
             packet == [tx |-> tx, part |-> intent[tx].progress[op[e].path] + 1]
         IN /\ box' \in [Endpoints -> [Paths -> Seq(Records)]]
            /\ \A o \in Endpoints, p \in Paths :
                 /\ Len(box[o][p]) <= Len(box'[o][p])
                 /\ \A i \in 1..Len(box[o][p]) : box'[o][p][i] = box[o][p][i]
                 /\ Range(box'[o][p]) \subseteq Range(box[o][p]) \cup {packet}
                 /\ o # Peer(e) => box'[o][p] = box[o][p]
            /\ Enqueue(e, tx, op[e].path) => packet \in Range(box'[Peer(e)][op[e].path])
<1>. DEFINE tx == op[e].tx
            p == op[e].path
            packet == [tx |-> tx, part |-> intent[tx].progress[p] + 1]
            log == box[Peer(e)][p]
<1>1. TypeOK /\ Peer(e) \in Endpoints /\ p \in Paths
  BY PeerFacts DEF MessagingInv
<1>2. /\ tx \in Transactions /\ intent[tx].progress \in [Paths -> 0..Packets]
      /\ intent[tx].progress[p] < Packets
  BY SendFacts
<1>3. packet \in Records
  <2>1. intent[tx].progress[p] + 1 \in 1..Packets
    BY <1>1, <1>2, ConstantFacts
  <2>. QED BY <1>2, <2>1 DEF Records
<1>. HIDE DEF packet
<1>4. box \in [Endpoints -> [Paths -> Seq(Records)]]
  BY <1>1 DEF TypeOK
<1>5. log \in Seq(Records)
  BY <1>1, <1>4
<1>6. CASE UNCHANGED box
  <2>1. \A o \in Endpoints, q \in Paths : Len(box[o][q]) \in Nat
    BY <1>1, BoxFacts
  <2>2. Enqueue(e, tx, p) => packet \in Range(log)
    <3>1. SUFFICES ASSUME box' = [box EXCEPT ![Peer(e)][p] = Append(@, packet)]
                   PROVE  FALSE
      BY DEF Enqueue, packet
    <3>2. box'[Peer(e)][p] = Append(log, packet)
      BY <1>1, <1>4, <3>1
    <3>3. Len(Append(log, packet)) = Len(log) + 1 /\ Len(log) \in Nat
      BY <1>3, <1>5, AppendFacts, SequenceFacts
    <3>4. Append(log, packet) = log
      BY <1>6, <3>2
    <3>. QED BY <3>3, <3>4
  <2>. QED BY <1>4, <1>6, <2>1, <2>2 DEF packet
<1>7. CASE box' = [box EXCEPT ![Peer(e)][p] = Append(@, packet)]
  <2>. DEFINE longer == Append(log, packet)
  <2>1. /\ longer \in Seq(Records) /\ Len(longer) = Len(log) + 1 /\ Len(log) \in Nat
        /\ Range(longer) = Range(log) \cup {packet}
        /\ \A i \in 1..Len(log) : longer[i] = log[i]
    BY <1>3, <1>5, AppendFacts, SequenceFacts
  <2>. HIDE DEF longer
  <2>2. box' = [box EXCEPT ![Peer(e)] = [box[Peer(e)] EXCEPT ![p] = longer]]
    BY <1>7 DEF longer
  <2>3. /\ box' \in [Endpoints -> [Paths -> Seq(Records)]] /\ box'[Peer(e)][p] = longer
        /\ \A o \in Endpoints, q \in Paths :
             box'[o][q] = IF o = Peer(e) /\ q = p THEN longer ELSE box[o][q]
        /\ \A o \in Endpoints : o # Peer(e) => box'[o] = box[o]
    BY <1>1, <1>4, <2>1, <2>2
  <2>4. ASSUME NEW o \in Endpoints, NEW q \in Paths
        PROVE  /\ Len(box[o][q]) <= Len(box'[o][q])
               /\ \A i \in 1..Len(box[o][q]) : box'[o][q][i] = box[o][q][i]
               /\ Range(box'[o][q]) \subseteq Range(box[o][q]) \cup {packet}
               /\ o # Peer(e) => box'[o][q] = box[o][q]
    <3>1. CASE o = Peer(e) /\ q = p
      <4>1. box'[o][q] = longer /\ box[o][q] = log
        BY <2>3, <3>1
      <4>. QED BY <2>1, <3>1, <4>1
    <3>2. CASE ~(o = Peer(e) /\ q = p)
      <4>1. box'[o][q] = box[o][q] /\ Len(box[o][q]) \in Nat
        BY <1>1, <2>3, <3>2, BoxFacts
      <4>. QED BY <4>1
    <3>. QED BY <3>1, <3>2
  <2>. QED BY <2>1, <2>3, <2>4 DEF packet
<1>. QED BY <1>6, <1>7 DEF Enqueue, packet

\* A step of an attempt at sending: the relay may take the packet the attempt is at.
LEMMA SendStep ==
  ASSUME MessagingInv, TypeOK', NEW e \in Endpoints, op[e].kind = "send",
         (op[e].path \in Paths /\ Enqueue(e, op[e].tx, op[e].path)) \/ UNCHANGED box,
         UNCHANGED <<envelope, outbox, state, floor>>, Range(invalid) \subseteq Range(invalid'),
         \A o \in Endpoints : o # e => op'[o] = op[o],
         \A t \in Transactions : intent'[t] # intent[t] => t = op[e].tx /\ IntentInv(t)',
         intent'[op[e].tx].status # "discarded",
         OperationInv(e)'
  PROVE  MessagingInv' /\ Grows
<1>. DEFINE tx == op[e].tx
            packet == [tx |-> tx, part |-> intent[tx].progress[op[e].path] + 1]
<1>1. TypeOK /\ EnvelopesInv /\ StateInv(e)
  BY DEF MessagingInv
<1>2. /\ tx \in Transactions /\ tx \in Own(e) /\ Sealed(tx) /\ envelope[tx].from = e
      /\ intent[tx].status = "publishing" /\ Introduced(tx)
  BY SendFacts
<1>3. ASSUME NEW o \in Endpoints, NEW p \in Paths
      PROVE  /\ Len(box[o][p]) <= Len(box'[o][p])
             /\ \A i \in 1..Len(box[o][p]) : box'[o][p][i] = box[o][p][i]
             /\ Range(box'[o][p]) \subseteq Range(box[o][p]) \cup {packet}
             /\ o # Peer(e) => box'[o][p] = box[o][p]
  <2>1. CASE UNCHANGED box
    BY <1>1, <2>1, BoxFacts
  <2>2. CASE op[e].path \in Paths /\ Enqueue(e, op[e].tx, op[e].path)
    BY <2>2, EnqueueFacts
  <2>. QED BY <2>1, <2>2
<1>. HIDE DEF packet, tx
<1>4. Grows
  BY <1>3 DEF Grows
<1>5. EnvelopesInv'
  BY <1>1, <1>4, EnvelopesStay
<1>6. ASSUME NEW t \in Transactions PROVE IntentInv(t)'
  <2>1. CASE intent'[t] = intent[t]
    <3>1. Sealed(t)' => Sealed(t)
      BY DEF Sealed
    <3>. QED BY <1>1, <1>4, <2>1, <3>1, IntentStays DEF MessagingInv
  <2>2. CASE intent'[t] # intent[t]
    BY <2>2
  <2>. QED BY <2>1, <2>2
<1>7. ASSUME NEW o \in Endpoints PROVE RelayInv(o)'
  <2>1. SUFFICES ASSUME NEW p \in Paths, NEW record \in Range(box'[o][p]),
                        NEW t \in Transactions, t = record.tx
                 PROVE  Sealed(t)' /\ envelope'[t].from = Peer(o) /\ Introduced(t)'
    <3>1. \A p \in Paths : Range(box'[o][p]) \subseteq Records
      <4>1. \A p \in Paths : box'[o][p] \in Seq(Records)
        BY DEF TypeOK
      <4>. QED BY <4>1, SequenceFacts
    <3>. QED BY <3>1 DEF RelayInv, Records
  <2>2. Sealed(t) /\ envelope[t].from = Peer(o) /\ Introduced(t)
    <3>1. CASE record \in Range(box[o][p])
      BY <2>1, <3>1 DEF MessagingInv, RelayInv
    <3>2. CASE record \notin Range(box[o][p])
      <4>1. o = Peer(e) /\ record = packet
        BY <1>3, <3>2
      <4>2. t = tx
        BY <2>1, <4>1 DEF packet
      <4>3. Peer(o) = e
        BY <4>1, PeerFacts
      <4>. QED BY <1>2, <4>2, <4>3
    <3>. QED BY <3>1, <3>2
  <2>. QED BY <1>1, <1>4, <2>2, GrowsKeeps
<1>8. \A o \in Endpoints : Own(o)' = Own(o)
  BY DEF Own
<1>9. OutboxInv(e)'
  BY <1>1, <1>4, <1>8, OutboxStays DEF MessagingInv
<1>10. StateInv(e)'
  <2>1. \A t \in Own(e) : intent'[t].status = "discarded" <=> intent[t].status = "discarded"
    BY <1>2 DEF Own, tx
  <2>. QED BY <1>1, <1>4, <1>8, <2>1, StateStays
<1>11. \A t \in Transactions \ Own(e)' : intent'[t] = intent[t]
  BY <1>2, <1>8 DEF tx
<1>12. MessagingInv'
  BY <1>4, <1>5, <1>6, <1>7, <1>8, <1>9, <1>10, <1>11, StepOf
<1>. QED BY <1>4, <1>12

LEMMA TransmitKeeps ==
  ASSUME MessagingInv, NEW e \in Endpoints, Transmit(e)
  PROVE  MessagingInv' /\ Grows
<1>. DEFINE progress == [intent[op[e].tx].progress EXCEPT ![op[e].path] = @ + 1]
            n == NextPath(progress, op[e].path)
            o == IF n = op[e].path THEN op[e] ELSE [op[e] EXCEPT !.path = n, !.uploaded = 0]
<1>1. TypeOK /\ op[e].kind = "send" /\ op[e].path \in Paths /\ op[e] \in Operations
  BY OperationFields DEF MessagingInv, Transmit, Sending, Publishing
<1>2. /\ Enqueue(e, op[e].tx, op[e].path) /\ Goto(e, o)
      /\ intent' = [intent EXCEPT ![op[e].tx].progress = progress]
      /\ UNCHANGED <<envelope, outbox, state, floor, blobs, history>>
  BY DEF Transmit
<1>3. PICK tx \in Transactions, p \in Paths : tx = op[e].tx /\ p = op[e].path
  BY <1>1, SendFacts
<1>4. /\ Sealed(tx) /\ envelope[tx].from = e /\ Introduced(tx)
      /\ intent[tx].status = "publishing" /\ intent[tx].progress \in [Paths -> 0..Packets]
      /\ intent[tx].progress[p] < Packets
      /\ "invalid" \in op[e].failures => tx \in Range(invalid)
  BY <1>1, <1>3, SendFacts
<1>5. /\ progress \in [Paths -> 0..Packets]
      /\ \A q \in Paths : progress[q] = IF q = p THEN intent[tx].progress[p] + 1
                                        ELSE intent[tx].progress[q]
  BY <1>3, <1>4, ConstantFacts
<1>. HIDE DEF progress
<1>6. n \in 1..(RouteCount + 1) /\ (n \in Paths => progress[n] < Packets)
  BY <1>1, <1>5, OperationFields, NextPathFacts
<1>. HIDE DEF n
<1>7. /\ o \in Operations /\ o.kind = "send" /\ o.tx = tx /\ o.path = n
      /\ o.failures = op[e].failures
  <2>1. 0 \in 0..Chunks
    BY ConstantFacts
  <2>. QED BY <1>1, <1>3, <1>6, <2>1 DEF Operations
<1>. HIDE DEF o
<1>8. op' \in [Endpoints -> Operations] /\ op'[e] = o
      /\ \A q \in Endpoints : q # e => op'[q] = op[q]
  BY <1>1, <1>2, <1>7, GotoFacts
<1>9. intent \in [Transactions -> Intents]
  BY <1>1 DEF TypeOK
<1>10. /\ intent' \in [Transactions -> Intents]
       /\ intent'[tx].status = "publishing" /\ intent'[tx].progress = progress
       /\ \A t \in Transactions : t # tx => intent'[t] = intent[t]
  BY <1>2, <1>3, <1>4, <1>5, <1>9 DEF Intents
<1>11. /\ box' \in [Endpoints -> [Paths -> Seq(Records)]]
       /\ \A q \in Endpoints, r \in Paths :
            /\ Len(box[q][r]) <= Len(box'[q][r])
            /\ \A i \in 1..Len(box[q][r]) : box'[q][r][i] = box[q][r][i]
       /\ [tx |-> tx, part |-> intent[tx].progress[p] + 1] \in Range(box'[Peer(e)][p])
  BY <1>1, <1>2, <1>3, EnqueueFacts
<1>12. TypeOK'
  BY <1>1, <1>2, <1>8, <1>10, <1>11 DEF TypeOK, history
<1>13. Grows
  BY <1>2, <1>11 DEF Grows, history
<1>14. OperationInv(e)'
  BY <1>1, <1>2, <1>4, <1>6, <1>7, <1>8, <1>10, <1>12, <1>13, SendStays DEF history
<1>15. IntentInv(tx)'
  <2>1. Sealed(tx)' /\ envelope'[tx].from = e
    BY <1>2, <1>4 DEF Sealed
  <2>2. IntentInv(tx) /\ Peer(e) \in Endpoints
    BY PeerFacts DEF MessagingInv
  <2>3. ASSUME NEW q \in Paths, NEW part \in 1..progress[q]
        PROVE  [tx |-> tx, part |-> part] \in Range(box'[Peer(e)][q])
    <3>1. CASE part \in 1..intent[tx].progress[q]
      <4>1. [tx |-> tx, part |-> part] \in Range(box[Peer(e)][q])
        BY <1>4, <2>2, <3>1 DEF IntentInv
      <4>. QED BY <1>1, <1>12, <1>13, <2>2, <4>1, GrowsKeeps
    <3>2. CASE part \notin 1..intent[tx].progress[q]
      <4>1. q = p /\ part = intent[tx].progress[p] + 1
        BY <1>4, <1>5, <2>3, <3>2, ConstantFacts
      <4>. QED BY <1>11, <4>1
    <3>. QED BY <3>1, <3>2
  <2>. QED BY <1>10, <2>1, <2>3 DEF IntentInv
<1>. QED BY <1>1, <1>2, <1>3, <1>8, <1>10, <1>12, <1>14, <1>15, SendStep DEF history

\* The attempt on one route is over, the next route is tried.
LEMMA GiveUpFacts ==
  ASSUME MessagingInv, NEW e \in Endpoints, op[e].kind = "send", op[e].path \in Paths,
         NEW failure \in {"transient", "invalid"}, GiveUp(e, failure)
  PROVE  /\ op' \in [Endpoints -> Operations]
         /\ \A o \in Endpoints : o # e => op'[o] = op[o]
         /\ op'[e].kind = "send" /\ op'[e].tx = op[e].tx
         /\ op'[e].failures = op[e].failures \cup {failure}
         /\ op'[e].path \in Paths => intent[op[e].tx].progress[op'[e].path] < Packets
<1>. DEFINE n == NextPath(intent[op[e].tx].progress, op[e].path + 1)
            o == [op[e] EXCEPT !.failures = @ \cup {failure}, !.uploaded = 0,
                               !.path = NextPath(intent[op[e].tx].progress, @ + 1)]
<1>1. TypeOK /\ op[e] \in Operations /\ op[e].failures \in SUBSET {"transient", "invalid"}
  BY OperationFields DEF MessagingInv
<1>2. intent[op[e].tx].progress \in [Paths -> 0..Packets]
  BY SendFacts
<1>3. n \in 1..(RouteCount + 1) /\ (n \in Paths => intent[op[e].tx].progress[n] < Packets)
  <2>1. op[e].path + 1 \in 1..(RouteCount + 1)
    BY ConstantFacts DEF Paths
  <2>. QED BY <1>2, <2>1, NextPathFacts
<1>. HIDE DEF n
<1>4. o = [op[e] EXCEPT !.failures = op[e].failures \cup {failure}, !.uploaded = 0, !.path = n]
  BY <1>1 DEF Operations, n
<1>5. /\ o \in Operations /\ o.kind = "send" /\ o.tx = op[e].tx /\ o.path = n
      /\ o.failures = op[e].failures \cup {failure}
  <2>1. 0 \in 0..Chunks
    BY ConstantFacts
  <2>. HIDE DEF o
  <2>. QED BY <1>1, <1>3, <1>4, <2>1 DEF Operations
<1>6. Goto(e, o)
  BY DEF GiveUp
<1>. HIDE DEF o
<1>. QED BY <1>1, <1>3, <1>5, <1>6, GotoFacts

LEMMA TransmitFailsKeeps ==
  ASSUME MessagingInv, NEW e \in Endpoints, TransmitFails(e)
  PROVE  MessagingInv' /\ Grows
<1>1. TypeOK /\ op[e].kind = "send" /\ op[e].path \in Paths
  BY DEF MessagingInv, TransmitFails, Sending, Publishing
<1>2. /\ Enqueue(e, op[e].tx, op[e].path) \/ UNCHANGED box
      /\ GiveUp(e, "transient") /\ faults' = faults + 1 /\ faults < MaxFaults
      /\ UNCHANGED <<envelope, intent, outbox, state, floor, blobs, invalid>>
  BY DEF TransmitFails
<1>3. /\ op' \in [Endpoints -> Operations]
      /\ \A o \in Endpoints : o # e => op'[o] = op[o]
      /\ op'[e].kind = "send" /\ op'[e].tx = op[e].tx
      /\ op'[e].failures = op[e].failures \cup {"transient"}
      /\ op'[e].path \in Paths => intent[op[e].tx].progress[op'[e].path] < Packets
  BY <1>1, <1>2, GiveUpFacts
<1>4. /\ box' \in [Endpoints -> [Paths -> Seq(Records)]]
      /\ \A o \in Endpoints, p \in Paths :
           /\ Len(box[o][p]) <= Len(box'[o][p])
           /\ \A i \in 1..Len(box[o][p]) : box'[o][p][i] = box[o][p][i]
  BY <1>1, <1>2, EnqueueFacts
<1>5. TypeOK'
  <2>1. faults' \in 0..MaxFaults
    BY <1>1, <1>2, ConstantFacts DEF TypeOK
  <2>. QED BY <1>1, <1>2, <1>3, <1>4, <2>1 DEF TypeOK
<1>6. Grows
  BY <1>2, <1>4 DEF Grows
<1>7. OperationInv(e)'
  <2>1. "invalid" \in op'[e].failures => op[e].tx \in Range(invalid')
    BY <1>1, <1>2, <1>3, SendFacts
  <2>. QED BY <1>1, <1>2, <1>3, <1>5, <1>6, <2>1, SendFacts, SendStays
<1>8. intent'[op[e].tx].status # "discarded"
  BY <1>1, <1>2, SendFacts
<1>. QED BY <1>1, <1>2, <1>3, <1>5, <1>7, <1>8, SendStep

LEMMA UploadFailsKeeps ==
  ASSUME MessagingInv, NEW e \in Endpoints, UploadFails(e)
  PROVE  MessagingInv' /\ Grows
<1>1. TypeOK /\ op[e].kind = "send" /\ op[e].path \in Paths /\ op[e].uploaded < Chunks
  BY DEF MessagingInv, UploadFails, Uploading, Publishing
<1>2. /\ blobs' \in {blobs, Stored(e, op[e].tx, op[e].path, op[e].uploaded + 1)}
      /\ GiveUp(e, "transient") /\ faults' = faults + 1 /\ faults < MaxFaults
      /\ UNCHANGED <<envelope, intent, outbox, state, box, floor, invalid>>
  BY DEF UploadFails
<1>3. /\ op' \in [Endpoints -> Operations]
      /\ \A o \in Endpoints : o # e => op'[o] = op[o]
      /\ op'[e].kind = "send" /\ op'[e].tx = op[e].tx
      /\ op'[e].failures = op[e].failures \cup {"transient"}
      /\ op'[e].path \in Paths => intent[op[e].tx].progress[op'[e].path] < Packets
  BY <1>1, <1>2, GiveUpFacts
<1>4. blobs' \in [Endpoints -> [Paths -> SUBSET Pieces]]
  <2>1. <<op[e].tx, op[e].uploaded + 1>> \in Pieces
    BY <1>1, SendFacts, OperationFields, ConstantFacts DEF Pieces
  <2>2. blobs \in [Endpoints -> [Paths -> SUBSET Pieces]] /\ Peer(e) \in Endpoints
    BY <1>1, PeerFacts DEF TypeOK
  <2>3. Stored(e, op[e].tx, op[e].path, op[e].uploaded + 1)
          \in [Endpoints -> [Paths -> SUBSET Pieces]]
    BY <1>1, <2>1, <2>2 DEF Stored
  <2>. QED BY <1>2, <2>2, <2>3
<1>5. TypeOK'
  <2>1. faults' \in 0..MaxFaults
    BY <1>1, <1>2, ConstantFacts DEF TypeOK
  <2>. QED BY <1>1, <1>2, <1>3, <1>4, <2>1 DEF TypeOK
<1>6. Grows
  BY <1>1, <1>2, BoxFacts DEF Grows
<1>7. OperationInv(e)'
  <2>1. "invalid" \in op'[e].failures => op[e].tx \in Range(invalid')
    BY <1>1, <1>2, <1>3, SendFacts
  <2>. QED BY <1>1, <1>2, <1>3, <1>5, <1>6, <2>1, SendFacts, SendStays
<1>8. intent'[op[e].tx].status # "discarded"
  BY <1>1, <1>2, SendFacts
<1>. QED BY <1>1, <1>2, <1>3, <1>5, <1>7, <1>8, SendStep

LEMMA TransmitInvalidKeeps ==
  ASSUME MessagingInv, NEW e \in Endpoints, TransmitInvalid(e)
  PROVE  MessagingInv' /\ Grows
<1>1. TypeOK /\ op[e].kind = "send" /\ op[e].path \in Paths
  BY DEF MessagingInv, TransmitInvalid, Sending, Publishing
<1>2. /\ GiveUp(e, "invalid") /\ invalid' = Append(invalid, op[e].tx)
      /\ UNCHANGED <<envelope, intent, outbox, state, box, floor, blobs, faults>>
  BY DEF TransmitInvalid
<1>3. /\ op' \in [Endpoints -> Operations]
      /\ \A o \in Endpoints : o # e => op'[o] = op[o]
      /\ op'[e].kind = "send" /\ op'[e].tx = op[e].tx
      /\ op'[e].path \in Paths => intent[op[e].tx].progress[op'[e].path] < Packets
  BY <1>1, <1>2, GiveUpFacts
<1>4. /\ invalid' \in Seq(Transactions) /\ Range(invalid') = Range(invalid) \cup {op[e].tx}
  <2>1. invalid \in Seq(Transactions) /\ op[e].tx \in Transactions
    BY <1>1, SendFacts DEF TypeOK
  <2>. QED BY <1>2, <2>1, AppendFacts
<1>5. TypeOK'
  BY <1>1, <1>2, <1>3, <1>4 DEF TypeOK
<1>6. Grows
  BY <1>1, <1>2, <1>4, BoxFacts DEF Grows
<1>7. OperationInv(e)'
  BY <1>1, <1>2, <1>3, <1>4, <1>5, <1>6, SendFacts, SendStays
<1>8. intent'[op[e].tx].status # "discarded"
  BY <1>1, <1>2, SendFacts
<1>. QED BY <1>1, <1>2, <1>3, <1>4, <1>5, <1>7, <1>8, SendStep

LEMMA FinishKeeps ==
  ASSUME MessagingInv, NEW e \in Endpoints, Finish(e)
  PROVE  MessagingInv' /\ Grows
<1>. DEFINE status == Outcome(e, op[e].tx)
            progress == IF status = "retryableFailure"
                        THEN intent[op[e].tx].progress ELSE NoProgress
<1>1. TypeOK /\ op[e].kind = "send"
  BY DEF MessagingInv, Finish
<1>2. /\ Goto(e, Idle)
      /\ UNCHANGED <<envelope, outbox, state, box, floor, blobs, history>>
  BY DEF Finish
<1>3. PICK tx \in Transactions : tx = op[e].tx
  BY <1>1, SendFacts
<1>4. /\ Sealed(tx) /\ envelope[tx].from = e /\ tx \in Own(e)
      /\ intent[tx].progress \in [Paths -> 0..Packets]
      /\ "invalid" \in op[e].failures => tx \in Range(invalid)
  BY <1>1, <1>3, SendFacts
<1>5. status \in {"relayAccepted", "permanentFailure", "retryableFailure"}
      /\ (status = "relayAccepted" => Accepted(intent[tx].progress))
      /\ (status = "permanentFailure" => "invalid" \in op[e].failures)
  BY <1>3 DEF Outcome
<1>6. NoProgress \in [Paths -> 0..Packets] /\ \A p \in Paths : NoProgress[p] = 0
  BY ConstantFacts DEF NoProgress
<1>7. intent' = [intent EXCEPT ![tx] = [status |-> status, progress |-> progress]]
  BY <1>1, <1>3 DEF Finish, TypeOK, Intents
<1>8. progress \in [Paths -> 0..Packets]
  BY <1>3, <1>4, <1>6
<1>9. \A p \in Paths : progress[p] = intent[tx].progress[p] \/ progress[p] = 0
  BY <1>3, <1>6
<1>. HIDE DEF status, progress
<1>10. /\ intent' \in [Transactions -> Intents]
       /\ intent'[tx].status = status /\ intent'[tx].progress = progress
       /\ \A t \in Transactions : t # tx => intent'[t] = intent[t]
  <2>1. [status |-> status, progress |-> progress] \in Intents
    BY <1>5, <1>8 DEF Intents, Statuses
  <2>2. intent \in [Transactions -> Intents]
    BY <1>1 DEF TypeOK
  <2>. QED BY <1>7, <2>1, <2>2
<1>11. /\ op' \in [Endpoints -> Operations] /\ op'[e] = Idle
       /\ \A o \in Endpoints : o # e => op'[o] = op[o]
  BY <1>1, <1>2, IdleFacts, GotoFacts
<1>12. TypeOK'
  BY <1>1, <1>2, <1>10, <1>11 DEF TypeOK, history
<1>13. OperationInv(e)'
  BY <1>11, IdleFacts DEF OperationInv
<1>14. IntentInv(tx)'
  <2>1. Sealed(tx)' /\ envelope'[tx].from = e
    BY <1>2, <1>4 DEF Sealed
  <2>2. \A p \in Paths : \A part \in 1..intent[tx].progress[p] :
          [tx |-> tx, part |-> part] \in Range(box[Peer(e)][p])
    BY <1>4 DEF MessagingInv, IntentInv
  <2>3. \A p \in Paths : \A part \in 1..progress[p] :
          [tx |-> tx, part |-> part] \in Range(box'[Peer(e)][p])
    BY <1>2, <1>9, <2>2
  <2>4. ASSUME status = "relayAccepted" PROVE HeldBy(Peer(e), tx)'
    <3>1. PICK p \in Paths : intent[tx].progress[p] = Packets
      BY <1>5, <2>4 DEF Accepted
    <3>2. \A part \in 1..Packets : [tx |-> tx, part |-> part] \in Range(box'[Peer(e)][p])
      BY <1>2, <2>2, <3>1
    <3>. QED BY <3>2 DEF HeldBy
  <2>5. status = "permanentFailure" => tx \in Range(invalid')
    BY <1>2, <1>4, <1>5 DEF history
  <2>6. /\ status # "none" /\ status \in Statuses
    BY <1>5 DEF Statuses
  <2>. QED BY <1>10, <2>1, <2>3, <2>4, <2>5, <2>6 DEF IntentInv
<1>15. intent'[op[e].tx].status # "discarded"
  BY <1>3, <1>5, <1>10
<1>. QED BY <1>1, <1>2, <1>3, <1>10, <1>11, <1>12, <1>13, <1>14, <1>15, SendStep DEF history

LEMMA DiscardKeeps ==
  ASSUME MessagingInv, NEW e \in Endpoints, NEW tx \in Transactions, Discard(e, tx)
  PROVE  MessagingInv' /\ Grows
<1>. DEFINE s == envelope[tx].session
            d == state[e]
            i == CHOOSE i \in DOMAIN d.sessions : d.sessions[i] = s
            closed == Close(d, i)
            next == IF ~AbandonsBootstrap(tx) THEN d
                 ELSE [closed EXCEPT !.active = IF @ = s THEN None ELSE @]
<1>1. TypeOK /\ EnvelopesInv /\ StateInv(e) /\ d \in States
  BY DEF MessagingInv, TypeOK
<1>2. /\ op[e].kind = "idle" /\ envelope[tx].from = e /\ Blocking(tx)
      /\ intent' = [t \in Transactions |-> IF t \in Discarded(e, tx)
                                           THEN [status |-> "discarded", progress |-> NoProgress]
                                           ELSE intent[t]]
      /\ state' = [state EXCEPT ![e] = next]
      /\ UNCHANGED <<envelope, outbox, op, box, floor, blobs, history>>
  BY DEF Discard
<1>3. tx \in Own(e) /\ Sealed(tx) /\ s \in Transactions
  BY <1>1, <1>2, SealedFacts DEF Own
<1>4. CandidateInv(e, d) /\ ListInv(d) /\ SessionsInv(e, d)
  BY <1>1 DEF StateInv, CandidateInv
<1>5. Discarded(e, tx) \subseteq Own(e)
  BY <1>3 DEF Discarded
<1>6. /\ DOMAIN d.sessions = 1..Len(d.sessions) /\ Range(d.sessions) \subseteq Transactions
      /\ Range(d.sessions) = {d.sessions[j] : j \in 1..Len(d.sessions)}
      /\ \A j \in 1..Len(d.received) : d.received[j] \in Transactions
      /\ d.chain \in [Transactions -> Chains]
  BY <1>1, StateFields, SequenceFacts
<1>. HIDE DEF s, d
\* The session is closed, or nothing is done to the state.
<1>0. /\ next \in States /\ Rest(next) = Rest(d) /\ ListInv(next)
      /\ Range(next.sessions) \subseteq Range(d.sessions)
      /\ \A t \in Range(next.sessions) : next.chain[t] = d.chain[t]
      /\ AbandonsBootstrap(tx) => Range(next.sessions) = Range(d.sessions) \ {s}
      /\ ~AbandonsBootstrap(tx) => next = d
  <2>1. CASE ~AbandonsBootstrap(tx)
    BY <1>1, <1>4, <2>1
  <2>2. CASE AbandonsBootstrap(tx)
    <3>1. s \in Range(d.sessions)
      BY <1>1, <1>3, <2>2 DEF StateInv, AbandonsBootstrap, Pending, s, d
    <3>2. i \in 1..Len(d.sessions) /\ d.sessions[i] = s
      BY <1>6, <3>1
    <3>. HIDE DEF i
    <3>3. /\ closed \in States /\ Rest(closed) = Rest(d) /\ closed.active = d.active
          /\ Range(closed.sessions) = Range(d.sessions) \ {s}
          /\ \A j, k \in 1..Len(closed.sessions) : closed.sessions[j] = closed.sessions[k] => j = k
          /\ closed.chain = [d.chain EXCEPT ![s] = NoChain]
      BY <1>1, <1>4, <3>2, CloseFacts
    <3>. HIDE DEF closed
    <3>4. next = [closed EXCEPT !.active = IF closed.active = s THEN None ELSE closed.active]
      BY <2>2, <3>3 DEF States
    <3>5. closed.active \in Transactions \cup {None}
      BY <3>3, StateFields
    <3>. HIDE DEF next
    <3>6. /\ next \in States /\ next.sessions = closed.sessions /\ next.chain = closed.chain
          /\ Rest(next) = Rest(closed)
          /\ next.active = IF d.active = s THEN None ELSE d.active
      BY <3>3, <3>4, <3>5 DEF States, Rest
    <3>7. \A t \in Transactions : next.chain[t] = IF t = s THEN NoChain ELSE d.chain[t]
      BY <1>3, <1>6, <3>3, <3>6
    <3>8. ListInv(next)
      <4>1. \A j, k \in 1..Len(next.sessions) : next.sessions[j] = next.sessions[k] => j = k
        BY <3>3, <3>6
      <4>2. next.active # None => next.active \in Range(next.sessions)
        BY <1>4, <3>3, <3>6 DEF ListInv
      <4>3. \A t \in Transactions : t \notin Range(next.sessions) => next.chain[t] = NoChain
        BY <1>4, <3>3, <3>6, <3>7 DEF ListInv
      <4>4. \A t \in Transactions : \A c \in next.chain[t].skipped : c < next.chain[t].next
        BY <1>4, <3>7 DEF ListInv, NoChain
      <4>. QED BY <4>1, <4>2, <4>3, <4>4 DEF ListInv
    <3>9. \A t \in Range(next.sessions) : next.chain[t] = d.chain[t]
      BY <1>6, <3>3, <3>6, <3>7
    <3>. QED BY <2>2, <3>3, <3>6, <3>8, <3>9
  <2>. QED BY <2>1, <2>2
<1>. HIDE DEF next
<1>7. PICK n \in States :
        /\ n = next /\ Rest(n) = Rest(d) /\ ListInv(n)
        /\ Range(n.sessions) \subseteq Range(d.sessions)
        /\ \A t \in Range(n.sessions) : n.chain[t] = d.chain[t]
        /\ AbandonsBootstrap(tx) => Range(n.sessions) = Range(d.sessions) \ {s}
        /\ ~AbandonsBootstrap(tx) => n = d
  BY <1>0
<1>8. /\ intent' \in [Transactions -> Intents]
      /\ \A t \in Transactions \ Discarded(e, tx) : intent'[t] = intent[t]
      /\ \A t \in Discarded(e, tx) : /\ t \in Transactions /\ intent'[t].status = "discarded"
                                     /\ intent'[t].progress = NoProgress
  <2>1. intent \in [Transactions -> Intents]
    BY <1>1 DEF TypeOK
  <2>2. [status |-> "discarded", progress |-> NoProgress] \in Intents
    BY ConstantFacts DEF Intents, NoProgress, Statuses
  <2>3. Discarded(e, tx) \subseteq Transactions
    BY <1>5 DEF Own
  <2>. QED BY <1>2, <2>1, <2>2, <2>3
<1>9. state' \in [Endpoints -> States] /\ state'[e] = n
      /\ \A o \in Endpoints : o # e => state'[o] = state[o]
  BY <1>1, <1>2, <1>7 DEF TypeOK
<1>10. TypeOK'
  BY <1>1, <1>2, <1>8, <1>9 DEF TypeOK, history
<1>11. Grows
  BY <1>1, <1>2, BoxFacts DEF Grows, history
\* The bootstrap of a session that stays was found invalid, if it is discarded.
<1>12. \A t \in Range(n.sessions) : t \in Discarded(e, tx) => t \in Range(invalid)
  <2>1. SUFFICES ASSUME NEW t \in Range(n.sessions), t \in Discarded(e, tx)
                 PROVE  t \in Range(invalid)
    OBVIOUS
  <2>2. Bootstrap(t) /\ t \in Range(d.sessions)
    BY <1>4, <1>7 DEF SessionsInv
  <2>3. ~AbandonsBootstrap(tx)
    BY <1>7, <2>1, <2>2 DEF Discarded, Bootstrap, s
  <2>4. t = tx
    BY <2>1, <2>3 DEF Discarded
  <2>5. intent[tx].status = "permanentFailure"
    BY <1>2, <2>2, <2>3, <2>4 DEF AbandonsBootstrap, Bootstrap, Blocking
  <2>. QED BY <2>4, <2>5 DEF MessagingInv, IntentInv
<1>13. CandidateInv(e, n)'
  <2>1. /\ ReceivedInv(e, d) /\ CursorInv(e, d) /\ Accounts(d) /\ InOrder(d)
    BY <1>4 DEF CandidateInv
  <2>2. /\ n.received = d.received /\ n.forgotten = d.forgotten /\ n.cursor = d.cursor
        /\ n.fragments = d.fragments /\ n.completed = d.completed /\ n.applied = d.applied
    BY <1>7, RestFields
  <2>3. Agree(d.received)
    BY <1>2 DEF Agree
  <2>4. Accounts(n)'
    BY <1>1, <1>7, <2>1, <2>2, <2>3, AccountsStay
  <2>5. InOrder(n)'
    BY <1>1, <1>7, <2>1, <2>2, <2>3, InOrderStays
  <2>6. ListInv(n)'
    BY <1>7 DEF ListInv
  <2>7. SessionsInv(e, n)'
    <3>1. SUFFICES ASSUME NEW t \in Range(n.sessions)
                   PROVE  /\ Bootstrap(t)'
                          /\ envelope'[t].from # e => t \in Range(n.received)
                          /\ envelope'[t].from = e /\ intent'[t].status = "discarded"
                               => t \in Range(invalid')
      BY DEF SessionsInv
    <3>2. t \in Range(d.sessions) /\ t \in Transactions
      BY <1>6, <1>7
    <3>3. Bootstrap(t)'
      BY <1>2, <1>4, <3>2 DEF SessionsInv, Bootstrap, Sealed
    <3>4. CASE t \in Discarded(e, tx)
      BY <1>2, <1>4, <1>12, <2>2, <3>2, <3>3, <3>4 DEF SessionsInv, history
    <3>5. CASE t \notin Discarded(e, tx)
      <4>1. intent'[t] = intent[t]
        BY <1>8, <3>2, <3>5
      <4>. QED BY <1>2, <1>4, <2>2, <3>2, <3>3, <4>1 DEF SessionsInv, history
    <3>. QED BY <3>4, <3>5
  <2>8. ReceivedInv(e, n)'
    BY <1>2, <2>1, <2>2 DEF ReceivedInv, Sealed, HeldBy
  <2>9. CursorInv(e, n)'
    BY <1>2, <2>1, <2>2 DEF CursorInv
  <2>. QED BY <2>4, <2>5, <2>6, <2>7, <2>8, <2>9 DEF CandidateInv
<1>14. StateInv(e)'
  <2>1. ASSUME NEW t \in Own(e), intent'[t].status # "discarded"
        PROVE  envelope[t].session \in Range(n.sessions)
    <3>1. t \in Transactions /\ t \notin Discarded(e, tx) /\ intent'[t] = intent[t]
      BY <1>8, <2>1 DEF Own
    <3>2. envelope[t].session \in Range(d.sessions)
      BY <1>1, <2>1, <3>1 DEF StateInv, d
    <3>3. AbandonsBootstrap(tx) => envelope[t].session # s
      BY <3>1, <2>1 DEF Discarded, s
    <3>. QED BY <1>7, <3>2, <3>3
  <2>2. \A p \in Paths : floor[e][p] <= n.cursor[p]
    BY <1>1, <1>7, RestFields DEF StateInv, d
  <2>3. Own(e)' = Own(e)
    BY <1>2 DEF Own
  <2>4. CandidateInv(e, state[e])'
    BY <1>9, <1>13
  <2>. QED BY <1>2, <1>9, <2>1, <2>2, <2>3, <2>4 DEF StateInv
<1>15. OperationInv(e)'
  BY <1>2 DEF OperationInv
<1>16. \A t \in Transactions \ Own(e) : intent'[t] = intent[t]
  BY <1>5, <1>8
<1>17. ASSUME NEW t \in Own(e), intent'[t] # intent[t] PROVE IntentInv(t)'
  <2>1. t \in Transactions /\ Sealed(t)
    BY <1>1, SealedFacts DEF Own
  <2>2. t \in Discarded(e, tx)
    BY <1>8, <1>17, <2>1
  <2>3. Sealed(t)'
    BY <1>2, <2>1 DEF Sealed
  <2>4. \A p \in Paths : NoProgress[p] = 0
    BY DEF NoProgress
  <2>. QED BY <1>8, <2>2, <2>3, <2>4 DEF IntentInv
<1>18. MessagingInv'
  BY <1>2, <1>9, <1>10, <1>14, <1>15, <1>16, <1>17, QuietStep DEF history
<1>. QED BY <1>11, <1>18

\* The session an event is prepared in is active, and begun here when there was none.
LEMMA ReadyFacts ==
  ASSUME NEW e, NEW d \in States, ListInv(d), d.active = None => HasRoom(e, d),
         NEW tx \in Transactions, tx \notin Range(d.sessions)
  PROVE  LET n == Ready(e, d, tx) IN
         /\ n \in States /\ Rest(n) = Rest(d) /\ ListInv(n)
         /\ n.active \in Range(n.sessions)
         /\ n.active = IF d.active = None THEN tx ELSE d.active
         /\ Range(n.sessions) \subseteq Range(d.sessions) \cup {n.active}
         /\ \A s \in Range(n.sessions) : s # tx => n.chain[s] = d.chain[s]
         /\ d.active = None => n.chain[tx] = NoChain
         /\ d.active # None => tx \notin Range(n.sessions)
<1>1. CASE d.active = None
  <2>. DEFINE n == Open(Reserve(e, d), tx)
  <2>1. Ready(e, d, tx) = n
    BY <1>1 DEF Ready, Outbound
  <2>2. /\ n \in States /\ Rest(n) = Rest(d) /\ ListInv(n)
        /\ Range(n.sessions) \subseteq Range(d.sessions) \cup {tx} /\ tx \in Range(n.sessions)
        /\ n.chain[tx] = NoChain
        /\ \A t \in Range(n.sessions) : t # tx => n.chain[t] = d.chain[t]
        /\ n.active = tx
    BY <1>1, BeginFacts
  <2>. QED BY <1>1, <2>1, <2>2
<1>2. CASE d.active # None
  <2>1. Ready(e, d, tx) = d
    BY <1>2 DEF Ready
  <2>. QED BY <1>2, <2>1 DEF ListInv
<1>. QED BY <1>1, <1>2

\* The next key of the send chain is spent; a control's local effect is on the revisions.
LEMMA EncryptedFacts ==
  ASSUME NEW d \in States, d.active \in Transactions, ListInv(d)
  PROVE  LET n == Encrypted(d) IN
         /\ n \in States /\ Rest(n) = Rest(d) /\ n.sessions = d.sessions /\ n.active = d.active
         /\ \A s \in Transactions : /\ n.chain[s].next = d.chain[s].next
                                    /\ n.chain[s].skipped = d.chain[s].skipped
                                    /\ s # d.active => n.chain[s] = d.chain[s]
<1>. DEFINE n == Encrypted(d)
            c == d.chain[d.active]
<1>1. d.chain \in [Transactions -> Chains] /\ c \in Chains
  BY StateFields
<1>2. /\ [c EXCEPT !.sent = @ + 1] \in Chains
      /\ [c EXCEPT !.sent = @ + 1].next = c.next /\ [c EXCEPT !.sent = @ + 1].skipped = c.skipped
  BY <1>1 DEF Chains
<1>3. n = [d EXCEPT !.chain = [d.chain EXCEPT ![d.active] = [c EXCEPT !.sent = @ + 1]]]
  BY <1>1 DEF Encrypted, States, Chains
<1>4. [d.chain EXCEPT ![d.active] = [c EXCEPT !.sent = @ + 1]] \in [Transactions -> Chains]
  BY <1>1, <1>2
<1>5. /\ n \in States /\ Rest(n) = Rest(d) /\ n.sessions = d.sessions /\ n.active = d.active
      /\ n.chain = [d.chain EXCEPT ![d.active] = [c EXCEPT !.sent = @ + 1]]
  BY <1>3, <1>4 DEF States, Rest
<1>. QED BY <1>1, <1>2, <1>5

LEMMA LocalEffectFacts ==
  ASSUME NEW d \in States, NEW kind \in Controls
  PROVE  LET n == LocalEffect(d, kind) IN
         /\ n \in States /\ n.sessions = d.sessions /\ n.chain = d.chain
         /\ n.active \in {d.active, None}
         /\ n.received = d.received /\ n.forgotten = d.forgotten /\ n.cursor = d.cursor
         /\ n.fragments = d.fragments /\ n.completed = d.completed /\ n.applied = d.applied
<1>. DEFINE n == LocalEffect(d, kind)
            revised == [d.issued EXCEPT ![kind] = @ + 1]
            on == IF kind = "prekey" THEN None ELSE d.active
<1>1. d.issued \in [Controls -> Nat] /\ d.active \in Transactions \cup {None}
  BY StateFields
<1>2. revised \in [Controls -> Nat] /\ on \in Transactions \cup {None} /\ on \in {d.active, None}
  BY <1>1
<1>3. n = [d EXCEPT !.issued = revised, !.active = on]
  BY DEF LocalEffect, States
<1>. HIDE DEF revised, on
<1>. QED BY <1>2, <1>3 DEF States

\* A fresh transaction is in no list yet.
LEMMA FreshFacts ==
  ASSUME MessagingInv, NEW e \in Endpoints, NEW tx \in Transactions, envelope[tx] = NoEnvelope
  PROVE  /\ ~Sealed(tx) /\ intent[tx] = NoIntent
         /\ tx \notin Range(state[e].sessions) /\ tx \notin Range(state[e].received)
         /\ \A t \in Transactions : Sealed(t) => envelope[t].session # tx
<1>1. TypeOK /\ IntentInv(tx) /\ StateInv(e) /\ EnvelopesInv
  BY DEF MessagingInv
<1>2. ~Sealed(tx)
  BY <1>1, SealedFacts
<1>3. intent[tx] = NoIntent
  BY <1>1, <1>2 DEF IntentInv
<1>4. tx \notin Range(state[e].sessions)
  BY <1>1, <1>2 DEF StateInv, CandidateInv, SessionsInv, Bootstrap
<1>5. tx \notin Range(state[e].received)
  <2>1. state[e].received \in Seq(Transactions)
    BY <1>1, StateFields DEF TypeOK
  <2>2. /\ DOMAIN state[e].received = 1..Len(state[e].received)
        /\ Range(state[e].received) = {state[e].received[i] : i \in 1..Len(state[e].received)}
    BY <2>1, SequenceFacts
  <2>. QED BY <1>1, <1>2, <2>2 DEF StateInv, CandidateInv, ReceivedInv
<1>6. \A t \in Transactions : Sealed(t) => envelope[t].session # tx
  BY <1>1, <1>2 DEF EnvelopesInv, Bootstrap
<1>. QED BY <1>2, <1>3, <1>4, <1>5, <1>6

\* An event m is sealed with a state n to be saved: what makes that save a good one.
Preparation(d, tx, m, n) ==
  /\ m.session \in Range(n.sessions)
  /\ m.boot => m.session = tx /\ m.counter = 0
  /\ ~m.boot => m.session \in Range(d.sessions)
  /\ ListInv(n)
  /\ Range(n.sessions) \subseteq Range(d.sessions) \cup {m.session}
  /\ \A s \in Range(n.sessions) :
       IF s = tx THEN n.chain[s].next = 0 /\ n.chain[s].skipped = {}
       ELSE n.chain[s].next = d.chain[s].next /\ n.chain[s].skipped = d.chain[s].skipped
  /\ n.received = d.received /\ n.forgotten = d.forgotten /\ n.cursor = d.cursor
  /\ n.fragments = d.fragments /\ n.completed = d.completed /\ n.applied = d.applied

LEMMA PrepareKeeps ==
  ASSUME MessagingInv, NEW e \in Endpoints, NEW tx \in Transactions,
         NEW m \in Envelopes, NEW n \in States, m.from = e,
         Prepare(e, tx, m, n), Preparation(state[e], tx, m, n)
  PROVE  MessagingInv' /\ Grows
<1>1. TypeOK /\ EnvelopesInv /\ StateInv(e) /\ OutboxInv(e)
  BY DEF MessagingInv
<1>2. /\ op[e].kind = "idle" /\ envelope[tx] = NoEnvelope /\ Valid(e, n)
      /\ envelope' = [envelope EXCEPT ![tx] = m]
      /\ intent' = [intent EXCEPT ![tx].status = "prepared"]
      /\ outbox' = [outbox EXCEPT ![e] = Append(@, tx)]
      /\ state' = [state EXCEPT ![e] = n]
      /\ UNCHANGED <<op, box, floor, blobs, history>>
  BY DEF Prepare
<1>3. PICK d \in States : d = state[e]
  BY <1>1 DEF TypeOK
<1>4. CandidateInv(e, d) /\ ListInv(d) /\ SessionsInv(e, d) /\ Accounts(d) /\ InOrder(d)
      /\ ReceivedInv(e, d) /\ CursorInv(e, d)
  BY <1>1, <1>3 DEF StateInv, CandidateInv
<1>5. /\ ~Sealed(tx) /\ intent[tx] = NoIntent
      /\ tx \notin Range(d.sessions) /\ tx \notin Range(d.received)
      /\ \A t \in Transactions : Sealed(t) => envelope[t].session # tx
  BY <1>2, <1>3, FreshFacts
<1>6. Preparation(d, tx, m, n)
  BY <1>3
<1>7. envelope'[tx] = m /\ \A t \in Transactions : t # tx => envelope'[t] = envelope[t]
      /\ envelope' \in [Transactions -> Envelopes \cup {NoEnvelope}]
  BY <1>1, <1>2 DEF TypeOK
<1>8. /\ intent' \in [Transactions -> Intents]
      /\ intent'[tx] = [NoIntent EXCEPT !.status = "prepared"]
      /\ \A t \in Transactions : t # tx => intent'[t] = intent[t]
  <2>1. intent \in [Transactions -> Intents] /\ intent[tx] \in Intents
    BY <1>1 DEF TypeOK
  <2>2. [intent[tx] EXCEPT !.status = "prepared"] \in Intents
    BY <2>1 DEF Intents, Statuses
  <2>3. intent' = [intent EXCEPT ![tx] = [intent[tx] EXCEPT !.status = "prepared"]]
    BY <1>2
  <2>. QED BY <1>5, <2>1, <2>2, <2>3
<1>9. /\ outbox' \in [Endpoints -> Seq(Transactions)]
      /\ Len(outbox'[e]) = Len(outbox[e]) + 1 /\ Len(outbox[e]) \in Nat
      /\ Range(outbox'[e]) = Range(outbox[e]) \cup {tx}
      /\ outbox'[e][Len(outbox[e]) + 1] = tx
      /\ DOMAIN outbox[e] = 1..Len(outbox[e]) /\ DOMAIN outbox'[e] = 1..Len(outbox[e]) + 1
      /\ \A i \in 1..Len(outbox[e]) : /\ outbox'[e][i] = outbox[e][i]
                                      /\ outbox[e][i] \in Transactions
      /\ \A o \in Endpoints : o # e => outbox'[o] = outbox[o]
  <2>1. outbox \in [Endpoints -> Seq(Transactions)] /\ outbox[e] \in Seq(Transactions)
    BY <1>1 DEF TypeOK
  <2>2. outbox'[e] = Append(outbox[e], tx) /\ \A o \in Endpoints : o # e => outbox'[o] = outbox[o]
    BY <1>2, <2>1
  <2>3. /\ Append(outbox[e], tx) \in Seq(Transactions)
        /\ Len(Append(outbox[e], tx)) = Len(outbox[e]) + 1
        /\ Range(Append(outbox[e], tx)) = Range(outbox[e]) \cup {tx}
        /\ \A i \in 1..Len(outbox[e]) : Append(outbox[e], tx)[i] = outbox[e][i]
        /\ Append(outbox[e], tx)[Len(outbox[e]) + 1] = tx
    BY <2>1, AppendFacts
  <2>4. /\ Len(outbox[e]) \in Nat /\ DOMAIN outbox[e] = 1..Len(outbox[e])
        /\ \A i \in 1..Len(outbox[e]) : outbox[e][i] \in Transactions
    BY <2>1, SequenceFacts
  <2>5. DOMAIN outbox'[e] = 1..Len(outbox[e]) + 1
    BY <2>2, <2>3, SequenceFacts
  <2>6. outbox' \in [Endpoints -> Seq(Transactions)]
    BY <1>2, <2>1, <2>3
  <2>. QED BY <2>2, <2>3, <2>4, <2>5, <2>6
<1>10. state' \in [Endpoints -> States] /\ state'[e] = n
       /\ \A o \in Endpoints : o # e => state'[o] = state[o]
  BY <1>1, <1>2 DEF TypeOK
<1>11. TypeOK'
  BY <1>1, <1>2, <1>7, <1>8, <1>9, <1>10 DEF TypeOK, history
<1>12. Grows
  <2>1. \A t \in Transactions : Sealed(t) => envelope'[t] = envelope[t]
    BY <1>5, <1>7
  <2>. QED BY <1>1, <1>2, <2>1, BoxFacts DEF Grows, history
<1>13. Sealed(tx)'
  BY <1>7 DEF Sealed
\* Its session was begun already, or it is the one that begins it.
<1>14. /\ m.session \in Transactions /\ Bootstrap(m.session)'
       /\ m.boot => tx = m.session
       /\ envelope'[m.session].from # e => Delivered(m.session)'
  <2>1. CASE m.boot
    BY <1>6, <1>7, <1>13, <2>1 DEF Preparation, Bootstrap
  <2>2. CASE ~m.boot
    <3>1. m.session \in Range(d.sessions) /\ m.session \in Transactions
      BY <1>6, <2>2 DEF Preparation, Envelopes
    <3>2. Bootstrap(m.session) /\ (envelope[m.session].from # e => m.session \in Range(d.received))
      BY <1>4, <3>1 DEF SessionsInv
    <3>3. Bootstrap(m.session)' /\ envelope'[m.session] = envelope[m.session]
      BY <1>1, <1>11, <1>12, <3>1, <3>2, GrowsKeeps DEF Bootstrap
    <3>4. ASSUME m.session \in Range(d.received) PROVE Delivered(m.session)'
      <4>1. /\ Range(d.received) = {d.received[i] : i \in 1..Len(d.received)}
            /\ DOMAIN d.received = 1..Len(d.received)
        BY StateFields, SequenceFacts
      <4>2. HeldBy(e, m.session)
        BY <1>4, <3>4, <4>1 DEF ReceivedInv
      <4>3. HeldBy(e, m.session)'
        BY <1>1, <1>11, <1>12, <4>2, GrowsKeeps
      <4>. QED BY <4>3 DEF HeldBy, Delivered
    <3>. QED BY <2>2, <3>1, <3>2, <3>3, <3>4
  <2>. QED BY <2>1, <2>2
<1>15. EnvelopesInv'
  <2>1. SUFFICES ASSUME NEW t \in Transactions, Sealed(t)', NEW s \in Transactions,
                        s = envelope'[t].session
                 PROVE  /\ Bootstrap(s)'
                        /\ envelope'[t].boot => t = s
                        /\ envelope'[s].from # envelope'[t].from => Delivered(s)'
    <3>1. \A t \in Transactions : Sealed(t)' => envelope'[t].session \in Transactions
      BY DEF Sealed, Envelopes
    <3>. QED BY <3>1 DEF EnvelopesInv
  <2>2. CASE t = tx
    BY <1>7, <1>14, <2>1, <2>2
  <2>3. CASE t # tx
    <3>1. Sealed(t) /\ envelope'[t] = envelope[t]
      BY <1>7, <2>1, <2>3 DEF Sealed
    <3>2. /\ Bootstrap(s)
          /\ envelope[t].boot => t = s
          /\ envelope[s].from # envelope[t].from => Delivered(s)
      BY <1>1, <2>1, <3>1 DEF EnvelopesInv
    <3>3. Bootstrap(s)' /\ envelope'[s] = envelope[s] /\ (Delivered(s) => Delivered(s)')
      BY <1>1, <1>11, <1>12, <3>2, GrowsKeeps DEF Bootstrap
    <3>. QED BY <3>1, <3>2, <3>3
  <2>. QED BY <2>2, <2>3
<1>16. ASSUME NEW t \in Transactions PROVE IntentInv(t)'
  <2>1. CASE t = tx
    <3>1. \A p \in Paths : intent'[tx].progress[p] = 0
      BY <1>8 DEF NoIntent, NoProgress
    <3>2. intent'[tx].status = "prepared"
      BY <1>8 DEF NoIntent
    <3>. QED BY <1>13, <2>1, <3>1, <3>2 DEF IntentInv
  <2>2. CASE t # tx
    <3>1. intent'[t] = intent[t] /\ (Sealed(t)' => Sealed(t)) /\ IntentInv(t)
      BY <1>7, <1>8, <2>2 DEF Sealed, MessagingInv
    <3>. QED BY <1>1, <1>11, <1>12, <3>1, IntentStays
  <2>. QED BY <2>1, <2>2
<1>17. \A o \in Endpoints : RelayInv(o)'
  BY <1>1, <1>2, <1>11, <1>12, RelayStays DEF MessagingInv
<1>18. \A o \in Endpoints : o # e => Own(o)' \subseteq Own(o)
  BY <1>7 DEF Own
<1>19. Own(e)' \subseteq Own(e) \cup {tx}
  BY <1>7 DEF Own
<1>20. OutboxInv(e)'
  <2>1. Own(e)' \subseteq Range(outbox'[e])
    BY <1>1, <1>9, <1>19 DEF OutboxInv
  <2>2. ASSUME NEW i \in 1..Len(outbox[e]) + 1, NEW t \in Transactions, t = outbox'[e][i],
               NEW s, s = envelope'[t].session
        PROVE  /\ Sealed(t)' /\ envelope'[t].from = e
               /\ envelope'[s].from = e => \E j \in 1..i : outbox'[e][j] = s
    <3>1. CASE i = Len(outbox[e]) + 1
      <4>1. t = tx /\ s = m.session
        BY <1>7, <1>9, <2>2, <3>1
      <4>2. CASE m.session = tx
        BY <1>7, <1>9, <1>13, <2>2, <3>1, <4>1, <4>2
      <4>3. CASE m.session # tx
        <5>1. Bootstrap(s)' /\ s \in Transactions
          BY <1>14, <4>1
        <5>2. envelope'[s] = envelope[s] /\ Sealed(s)
          BY <1>7, <4>1, <4>3, <5>1 DEF Bootstrap, Sealed
        <5>3. ASSUME envelope[s].from = e PROVE \E j \in 1..i : outbox'[e][j] = s
          <6>1. s \in Own(e)
            BY <5>1, <5>3 DEF Own
          <6>2. Range(outbox[e]) = {outbox[e][j] : j \in 1..Len(outbox[e])}
            BY <1>1, SequenceFacts DEF TypeOK
          <6>3. PICK j \in 1..Len(outbox[e]) : outbox[e][j] = s
            BY <1>1, <6>1, <6>2 DEF OutboxInv
          <6>. QED BY <1>9, <3>1, <6>3
        <5>. QED BY <1>7, <1>13, <4>1, <5>2, <5>3
      <4>. QED BY <4>2, <4>3
    <3>2. CASE i # Len(outbox[e]) + 1
      <4>1. i \in 1..Len(outbox[e]) /\ outbox'[e][i] = outbox[e][i]
        BY <1>9, <3>2
      <4>2. Sealed(t) /\ envelope[t].from = e
        BY <1>1, <1>9, <2>2, <4>1 DEF OutboxInv
      <4>3. t # tx /\ envelope'[t] = envelope[t] /\ Sealed(t)'
        BY <1>5, <1>7, <4>2 DEF Sealed
      <4>4. s = envelope[t].session /\ s # tx /\ s \in Transactions
        BY <1>1, <1>5, <2>2, <4>2, <4>3, SealedFacts
      <4>5. envelope[s].from = e => \E j \in 1..i : outbox[e][j] = s
        BY <1>1, <1>9, <2>2, <4>1, <4>4 DEF OutboxInv
      <4>6. \A j \in 1..i : outbox'[e][j] = outbox[e][j]
        BY <1>9, <4>1
      <4>. QED BY <1>7, <4>2, <4>3, <4>4, <4>5, <4>6
    <3>. QED BY <3>1, <3>2
  <2>3. \A i \in 1..Len(outbox[e]) + 1 : outbox'[e][i] \in Transactions
    BY <1>9
  <2>4. DOMAIN outbox'[e] = 1..Len(outbox[e]) + 1
    BY <1>9
  <2>5. \A i \in DOMAIN outbox'[e] : outbox'[e][i] \in Transactions
    BY <2>3, <2>4
  <2>. QED BY <2>1, <2>2, <2>4, <2>5, SMTT(30) DEF OutboxInv
<1>21. CandidateInv(e, n)'
  <2>1. /\ n.received = d.received /\ n.forgotten = d.forgotten /\ n.cursor = d.cursor
        /\ n.fragments = d.fragments /\ n.completed = d.completed /\ n.applied = d.applied
        /\ ListInv(n) /\ Range(n.sessions) \subseteq Range(d.sessions) \cup {m.session}
    BY <1>6 DEF Preparation
  <2>2. /\ DOMAIN d.received = 1..Len(d.received)
        /\ \A i \in 1..Len(d.received) : d.received[i] \in Transactions /\ Sealed(d.received[i])
        /\ Range(d.sessions) \subseteq Transactions /\ Range(n.sessions) \subseteq Transactions
    BY <1>4, ListFacts DEF ReceivedInv
  <2>3. Agree(d.received)
    BY <1>5, <1>7, <2>2 DEF Agree
  <2>4. Accounts(n)'
    <3>1. ReceivedIn(d, tx) = {}
      BY <1>5, <2>2 DEF ReceivedIn
    <3>2. ASSUME NEW s \in Range(n.sessions)
          PROVE  \/ /\ s \in Range(d.sessions)
                    /\ n.chain[s].next = d.chain[s].next /\ n.chain[s].skipped = d.chain[s].skipped
                 \/ /\ ReceivedIn(d, s) = {}
                    /\ n.chain[s].next = 0 /\ n.chain[s].skipped = {}
      BY <1>6, <3>1 DEF Preparation
    <3>. QED BY <1>4, <2>1, <2>3, <3>2, AccountsStay
  <2>5. InOrder(n)'
    BY <1>4, <2>1, <2>3, InOrderStays
  <2>6. ListInv(n)'
    BY <2>1 DEF ListInv
  <2>7. SessionsInv(e, n)'
    <3>1. SUFFICES ASSUME NEW s \in Range(n.sessions)
                   PROVE  /\ Bootstrap(s)'
                          /\ envelope'[s].from # e => s \in Range(n.received)
                          /\ envelope'[s].from = e /\ intent'[s].status = "discarded"
                               => s \in Range(invalid')
      BY DEF SessionsInv
    <3>2. s \in Transactions
      BY <2>2
    <3>3. CASE s = tx
      <4>1. m.session = tx
        BY <1>5, <2>1, <3>3
      <4>. QED BY <1>7, <1>8, <1>14, <3>3, <4>1 DEF NoIntent
    <3>4. CASE s # tx
      <4>1. s \in Range(d.sessions)
        BY <1>6, <2>1, <3>4 DEF Preparation
      <4>2. Bootstrap(s)'
        BY <1>1, <1>4, <1>11, <1>12, <3>2, <4>1, GrowsKeeps DEF SessionsInv
      <4>. QED BY <1>2, <1>4, <1>7, <1>8, <2>1, <3>2, <3>4, <4>1, <4>2 DEF SessionsInv, history
    <3>. QED BY <3>3, <3>4
  <2>8. ReceivedInv(e, n)'
    <3>1. \A i \in 1..Len(d.received) :
            Sealed(d.received[i])' /\ envelope'[d.received[i]].from = Peer(e)
            /\ HeldBy(e, d.received[i])'
      BY <1>1, <1>4, <1>11, <1>12, <2>2, GrowsKeeps DEF ReceivedInv
    <3>. QED BY <1>4, <2>1, <2>2, <3>1 DEF ReceivedInv
  <2>9. CursorInv(e, n)'
    BY <1>2, <1>4, <2>1 DEF CursorInv
  <2>. QED BY <2>4, <2>5, <2>6, <2>7, <2>8, <2>9 DEF CandidateInv
<1>22. StateInv(e)'
  <2>1. ASSUME NEW t \in Own(e)', intent'[t].status # "discarded"
        PROVE  envelope'[t].session \in Range(n.sessions)
    <3>1. CASE t = tx
      BY <1>6, <1>7, <3>1 DEF Preparation
    <3>2. CASE t # tx
      <4>1. t \in Own(e) /\ t \in Transactions
        BY <1>19, <2>1, <3>2 DEF Own
      <4>. QED BY <1>2, <1>7, <1>8, <2>1, <3>2, <4>1 DEF Valid
    <3>. QED BY <3>1, <3>2
  <2>2. \A p \in Paths : floor'[e][p] <= n.cursor[p]
    BY <1>1, <1>2, <1>3, <1>6 DEF StateInv, Preparation
  <2>3. CandidateInv(e, state[e])'
    BY <1>10, <1>21
  <2>. QED BY <1>10, <2>1, <2>2, <2>3 DEF StateInv
<1>23. OperationInv(e)'
  BY <1>2 DEF OperationInv
<1>24. \A t \in Transactions \ Own(e)' : intent'[t] = intent[t]
  BY <1>7, <1>8 DEF Own
<1>25. MessagingInv'
  BY <1>2, <1>9, <1>10, <1>11, <1>12, <1>15, <1>16, <1>17, <1>18, <1>20, <1>22, <1>23, <1>24, StepOf
<1>. QED BY <1>12, <1>25

LEMMA HeaderFacts ==
  ASSUME MessagingInv, NEW e \in Endpoints, NEW tx \in Transactions, envelope[tx] = NoEnvelope,
         state[e].active = None => HasRoom(e, state[e]),
         NEW kind \in {"message", "attachment"} \cup Controls, NEW revision \in Nat
  PROVE  LET m == Header(e, tx, kind, revision)
             n == Encrypted(Ready(e, state[e], tx))
         IN /\ m \in Envelopes /\ m.from = e
            /\ n \in States /\ Preparation(state[e], tx, m, n)
<1>. DEFINE d == state[e]
            r == Ready(e, d, tx)
            n == Encrypted(r)
            m == Header(e, tx, kind, revision)
<1>1. d \in States /\ ListInv(d)
  BY DEF MessagingInv, TypeOK, StateInv, CandidateInv
<1>2. tx \notin Range(d.sessions)
  BY FreshFacts
<1>3. /\ r \in States /\ Rest(r) = Rest(d) /\ ListInv(r)
      /\ r.active \in Range(r.sessions)
      /\ r.active = IF d.active = None THEN tx ELSE d.active
      /\ Range(r.sessions) \subseteq Range(d.sessions) \cup {r.active}
      /\ \A s \in Range(r.sessions) : s # tx => r.chain[s] = d.chain[s]
      /\ d.active = None => r.chain[tx] = NoChain
      /\ d.active # None => tx \notin Range(r.sessions)
  BY <1>1, <1>2, ReadyFacts
<1>4. m = [from |-> e, session |-> r.active, counter |-> r.chain[r.active].sent,
           boot |-> d.active = None,
           prekey |-> IF d.active = None THEN d.applied["prekey"] ELSE 0,
           kind |-> kind, revision |-> revision]
  BY DEF Header
<1>. HIDE DEF r, m, n, d
<1>5. Range(r.sessions) \subseteq Transactions /\ r.chain \in [Transactions -> Chains]
      /\ d.applied \in [Controls -> Nat]
  BY <1>1, <1>3, StateFields, ListFacts
<1>6. r.active \in Transactions /\ r.chain[r.active].sent \in Nat
  BY <1>3, <1>5, ChainFields
<1>7. m \in Envelopes
  <2>1. d.applied["prekey"] \in Nat
    BY <1>5 DEF Controls
  <2>2. (d.active = None) \in BOOLEAN
    OBVIOUS
  <2>3. (IF d.active = None THEN d.applied["prekey"] ELSE 0) \in Nat
    BY <2>1
  <2>. QED BY <1>4, <1>6, <2>2, <2>3 DEF Envelopes
<1>8. /\ n \in States /\ Rest(n) = Rest(r) /\ n.sessions = r.sessions /\ n.active = r.active
      /\ \A s \in Transactions : /\ n.chain[s].next = r.chain[s].next
                                 /\ n.chain[s].skipped = r.chain[s].skipped
                                 /\ s # r.active => n.chain[s] = r.chain[s]
  BY <1>3, <1>6, EncryptedFacts DEF n
<1>9. ListInv(n)
  <2>1. \A s \in Transactions : s \notin Range(n.sessions) => n.chain[s] = NoChain
    BY <1>3, <1>8 DEF ListInv
  <2>2. \A s \in Transactions : \A c \in n.chain[s].skipped : c < n.chain[s].next
    BY <1>3, <1>8 DEF ListInv
  <2>. QED BY <1>3, <1>8, <2>1, <2>2 DEF ListInv
<1>10. Preparation(d, tx, m, n)
  <2>1. m.session = r.active /\ m.boot = (d.active = None) /\ m.counter = r.chain[r.active].sent
    BY <1>4
  <2>2. ASSUME m.boot PROVE m.session = tx /\ m.counter = 0
    <3>1. d.active = None
      BY <2>1, <2>2
    <3>. QED BY <1>3, <2>1, <3>1 DEF NoChain
  <2>3. ~m.boot => m.session \in Range(d.sessions)
    BY <1>1, <1>3, <2>1 DEF ListInv
  <2>4. ASSUME NEW s \in Range(n.sessions)
        PROVE  IF s = tx THEN n.chain[s].next = 0 /\ n.chain[s].skipped = {}
               ELSE n.chain[s].next = d.chain[s].next /\ n.chain[s].skipped = d.chain[s].skipped
    <3>1. s \in Transactions /\ s \in Range(r.sessions)
      BY <1>5, <1>8
    <3>. QED BY <1>3, <1>8, <3>1 DEF NoChain
  <2>5. Rest(n) = Rest(d)
    BY <1>3, <1>8
  <2>. QED BY <1>3, <1>8, <1>9, <2>1, <2>2, <2>3, <2>4, <2>5, RestFields DEF Preparation
<1>. QED BY <1>4, <1>7, <1>8, <1>10 DEF m, n, d, r

LEMMA PrepareApplicationKeeps ==
  ASSUME MessagingInv, NEW e \in Endpoints, NEW tx \in Transactions, NEW kind \in Kinds,
         PrepareApplication(e, tx, kind)
  PROVE  MessagingInv' /\ Grows
<1>1. /\ kind \in {"message", "attachment"} \cup Controls
      /\ Prepare(e, tx, Header(e, tx, kind, 0), Encrypted(Ready(e, state[e], tx)))
  BY MessagingAssumption DEF PrepareApplication, ApplicationEnvelope, Controls
<1>2. envelope[tx] = NoEnvelope /\ (state[e].active = None => HasRoom(e, state[e]))
  BY <1>1 DEF Prepare
<1>3. PICK m \in Envelopes, n \in States :
        /\ m = Header(e, tx, kind, 0) /\ n = Encrypted(Ready(e, state[e], tx))
        /\ m.from = e /\ Preparation(state[e], tx, m, n)
  BY <1>1, <1>2, HeaderFacts
<1>4. Prepare(e, tx, m, n)
  BY <1>1, <1>3
<1>. QED BY <1>3, <1>4, PrepareKeeps

LEMMA PrepareControlKeeps ==
  ASSUME MessagingInv, NEW e \in Endpoints, NEW tx \in Transactions, NEW kind \in Kinds,
         PrepareControl(e, tx, kind)
  PROVE  MessagingInv' /\ Grows
<1>. DEFINE revision == state[e].issued[kind] + 1
            r == Encrypted(Ready(e, state[e], tx))
<1>1. /\ kind \in Controls
      /\ Prepare(e, tx, Header(e, tx, kind, revision), LocalEffect(r, kind))
  BY DEF PrepareControl, ControlEnvelope
<1>2. envelope[tx] = NoEnvelope /\ (state[e].active = None => HasRoom(e, state[e]))
  BY <1>1 DEF Prepare
<1>3. revision \in Nat
  <2>1. state[e] \in States
    BY DEF MessagingInv, TypeOK
  <2>. QED BY <1>1, <2>1, StateFields
<1>. HIDE DEF revision
<1>4. PICK m \in Envelopes, c \in States :
        /\ m = Header(e, tx, kind, revision) /\ c = r
        /\ m.from = e /\ Preparation(state[e], tx, m, c)
  BY <1>1, <1>2, <1>3, HeaderFacts
<1>. HIDE DEF r
<1>5. PICK n \in States :
        /\ n = LocalEffect(c, kind) /\ n.sessions = c.sessions /\ n.chain = c.chain
        /\ n.active \in {c.active, None}
        /\ n.received = c.received /\ n.forgotten = c.forgotten /\ n.cursor = c.cursor
        /\ n.fragments = c.fragments /\ n.completed = c.completed /\ n.applied = c.applied
  BY <1>1, LocalEffectFacts
<1>6. ListInv(n)
  BY <1>4, <1>5 DEF ListInv, Preparation
<1>7. Preparation(state[e], tx, m, n)
  BY <1>4, <1>5, <1>6 DEF Preparation
<1>8. Prepare(e, tx, m, n)
  BY <1>1, <1>4, <1>5
<1>. QED BY <1>4, <1>7, <1>8, PrepareKeeps

-----------------------------------------------------------------------------
(* Receiving.                                                              *)

\* Only the cursor and the reassembler move.
LEMMA CandidateMoves ==
  ASSUME NEW e \in Endpoints, NEW d \in States, NEW n \in States, CandidateInv(e, d),
         UNCHANGED <<envelope, intent, box, invalid>>,
         n.sessions = d.sessions, n.chain = d.chain, n.active = d.active,
         n.received = d.received, n.forgotten = d.forgotten, n.applied = d.applied,
         CursorInv(e, n)'
  PROVE  CandidateInv(e, n)'
<1>1. /\ ListInv(d) /\ SessionsInv(e, d) /\ ReceivedInv(e, d)
      /\ Accounts(d) /\ InOrder(d)
  BY DEF CandidateInv
<1>2. Agree(d.received)
  BY DEF Agree
<1>3. ListInv(n)'
  BY <1>1 DEF ListInv
<1>4. SessionsInv(e, n)'
  BY <1>1 DEF SessionsInv, Bootstrap, Sealed
<1>5. ReceivedInv(e, n)'
  BY <1>1 DEF ReceivedInv, Sealed, HeldBy
<1>6. Accounts(n)'
  BY <1>1, <1>2, AccountsStay
<1>7. InOrder(n)'
  BY <1>1, <1>2, InOrderStays
<1>. QED BY <1>3, <1>4, <1>5, <1>6, <1>7 DEF CandidateInv

\* A change of the bookkeeping that the invariant does not speak of.
LEMMA CandidateSame ==
  ASSUME NEW e \in Endpoints, NEW d \in States, NEW n \in States, CandidateInv(e, d),
         UNCHANGED <<envelope, intent, box, invalid>>,
         n.sessions = d.sessions, n.chain = d.chain, n.active = d.active,
         n.received = d.received, n.forgotten = d.forgotten, n.cursor = d.cursor,
         n.fragments = d.fragments, n.completed = d.completed, n.applied = d.applied
  PROVE  CandidateInv(e, n)'
<1>1. CursorInv(e, n)'
  BY DEF CandidateInv, CursorInv
<1>. QED BY <1>1, CandidateMoves

LEMMA DownloadKeeps ==
  ASSUME MessagingInv, NEW e \in Endpoints, NEW tx \in Transactions, Download(e, tx)
  PROVE  MessagingInv' /\ Grows
<1>. DEFINE chunk == state[e].fetched[tx] + 1
<1>1. TypeOK /\ StateInv(e)
  BY DEF MessagingInv
<1>2. /\ op[e].kind = "idle"
      /\ state[e].source[tx] # 0 /\ <<tx, chunk>> \in blobs[e][state[e].source[tx]]
      /\ state' = [state EXCEPT ![e].fetched[tx] = chunk]
      /\ UNCHANGED <<envelope, intent, outbox, op, box, floor, blobs, history>>
  BY DEF Download
<1>3. PICK d \in States : d = state[e]
  BY <1>1 DEF TypeOK
<1>4. chunk \in 0..Chunks
  <2>1. d.source[tx] \in Paths
    BY <1>2, <1>3, StateFields
  <2>2. <<tx, chunk>> \in Pieces
    BY <1>1, <1>2, <1>3, <2>1 DEF TypeOK
  <2>3. chunk \in 1..Chunks
    BY <2>2 DEF Pieces
  <2>. QED BY <2>3, ConstantFacts
<1>. HIDE DEF chunk
<1>. DEFINE next == [d EXCEPT !.fetched = [d.fetched EXCEPT ![tx] = chunk]]
<1>5. next \in States
  <2>1. [d.fetched EXCEPT ![tx] = chunk] \in [Transactions -> 0..Chunks]
    BY <1>4, StateFields
  <2>. QED BY <2>1 DEF States
<1>6. PICK n \in States : n = next
  BY <1>5
<1>7. /\ n.sessions = d.sessions /\ n.chain = d.chain /\ n.active = d.active
      /\ n.received = d.received /\ n.forgotten = d.forgotten /\ n.cursor = d.cursor
      /\ n.fragments = d.fragments /\ n.completed = d.completed /\ n.applied = d.applied
  BY <1>6 DEF States
<1>8. state' \in [Endpoints -> States] /\ state'[e] = n
      /\ \A o \in Endpoints : o # e => state'[o] = state[o]
  <2>1. state' = [state EXCEPT ![e] = n]
    BY <1>2, <1>3, <1>6 DEF States
  <2>. QED BY <1>1, <2>1 DEF TypeOK
<1>. HIDE DEF next
<1>9. TypeOK'
  BY <1>1, <1>2, <1>8 DEF TypeOK, history
<1>10. Grows
  BY <1>1, <1>2, BoxFacts DEF Grows, history
<1>11. CandidateInv(e, n)'
  BY <1>1, <1>2, <1>3, <1>7, CandidateSame DEF StateInv, history
<1>12. StateInv(e)'
  <2>1. Own(e)' = Own(e)
    BY <1>2 DEF Own
  <2>2. CandidateInv(e, state[e])'
    BY <1>8, <1>11
  <2>3. \A t \in Own(e) : intent'[t].status # "discarded" =>
                            envelope'[t].session \in Range(n.sessions)
    BY <1>1, <1>2, <1>3, <1>7 DEF StateInv
  <2>4. \A p \in Paths : floor'[e][p] <= n.cursor[p]
    BY <1>1, <1>2, <1>3, <1>7 DEF StateInv
  <2>. QED BY <1>8, <2>1, <2>2, <2>3, <2>4 DEF StateInv
<1>13. OperationInv(e)'
  BY <1>2 DEF OperationInv
<1>14. MessagingInv'
  BY <1>2, <1>8, <1>9, <1>12, <1>13, QuietStep DEF history
<1>. QED BY <1>10, <1>14

LEMMA CollectKeeps ==
  ASSUME MessagingInv, NEW e \in Endpoints, Collect(e)
  PROVE  MessagingInv' /\ Grows
<1>1. TypeOK /\ StateInv(e)
  BY DEF MessagingInv
<1>2. /\ op[e].kind = "collect" /\ Goto(e, Idle)
      /\ floor' = [floor EXCEPT ![e][op[e].path] = op[e].until]
      /\ UNCHANGED <<envelope, intent, outbox, state, box, blobs, history>>
  BY DEF Collect
<1>3. op[e].path \in Paths /\ op[e].until \in Nat /\ op[e].until <= state[e].cursor[op[e].path]
  BY <1>1, <1>2, OperationFields DEF MessagingInv, OperationInv
<1>4. /\ floor' \in [Endpoints -> [Paths -> Nat]]
      /\ \A o \in Endpoints : o # e => floor'[o] = floor[o]
      /\ \A p \in Paths : floor'[e][p] = IF p = op[e].path THEN op[e].until ELSE floor[e][p]
  <2>1. floor \in [Endpoints -> [Paths -> Nat]]
    BY <1>1 DEF TypeOK
  <2>. QED BY <1>2, <1>3, <2>1
<1>5. op' \in [Endpoints -> Operations] /\ op'[e] = Idle
      /\ \A o \in Endpoints : o # e => op'[o] = op[o]
  BY <1>1, <1>2, IdleFacts, GotoFacts
<1>6. TypeOK'
  BY <1>1, <1>2, <1>4, <1>5 DEF TypeOK, history
<1>7. Grows
  BY <1>1, <1>2, BoxFacts DEF Grows, history
<1>8. StateInv(e)'
  <2>1. PICK d \in States : d = state[e]
    BY <1>1 DEF TypeOK
  <2>2. CandidateInv(e, d)'
    BY <1>1, <1>2, <2>1, CandidateSame DEF StateInv, history
  <2>3. CandidateInv(e, state[e])'
    BY <1>2, <2>1, <2>2
  <2>4. Own(e)' = Own(e)
    BY <1>2 DEF Own
  <2>. QED BY <1>1, <1>2, <1>3, <1>4, <2>3, <2>4 DEF StateInv
<1>9. OperationInv(e)'
  BY <1>5, IdleFacts DEF OperationInv
<1>10. MessagingInv'
  BY <1>2, <1>4, <1>5, <1>6, <1>8, <1>9, QuietStep DEF history
<1>. QED BY <1>7, <1>10

LEMMA FetchKeeps ==
  ASSUME MessagingInv, NEW e \in Endpoints, NEW p \in Paths, Fetch(e, p)
  PROVE  MessagingInv' /\ Grows
<1>. DEFINE until == Shorter(Len(box[e][p]), state[e].cursor[p] + BatchLimit)
            o == [Idle EXCEPT !.kind = "receive", !.path = p, !.until = until, !.draft = state[e]]
<1>1. TypeOK /\ StateInv(e)
  BY DEF MessagingInv
<1>2. /\ Goto(e, o)
      /\ UNCHANGED <<envelope, intent, outbox, state, box, floor, blobs, history>>
  BY DEF Fetch
<1>3. PICK d \in States : d = state[e]
  BY <1>1 DEF TypeOK
<1>4. until \in Nat /\ until <= Len(box[e][p])
  <2>1. Len(box[e][p]) \in Nat /\ state[e].cursor[p] \in Nat
    BY <1>1, <1>3, BoxFacts, StateFields
  <2>. QED BY <2>1, ConstantFacts DEF Shorter
<1>. HIDE DEF until
<1>5. o \in Operations /\ o.kind = "receive" /\ o.path = p /\ o.until = until /\ o.draft = d
  <2>1. p \in 1..(RouteCount + 1)
    BY ConstantFacts DEF Paths
  <2>. QED BY <1>3, <1>4, <2>1, IdleFacts DEF Operations
<1>. HIDE DEF o
<1>6. op' \in [Endpoints -> Operations] /\ op'[e] = o
      /\ \A q \in Endpoints : q # e => op'[q] = op[q]
  BY <1>1, <1>2, <1>5, GotoFacts
<1>7. TypeOK'
  BY <1>1, <1>2, <1>6 DEF TypeOK, history
<1>8. Grows
  BY <1>1, <1>2, BoxFacts DEF Grows, history
<1>9. OperationInv(e)'
  <2>1. CandidateInv(e, d)'
    BY <1>1, <1>2, <1>3, CandidateSame DEF StateInv, history
  <2>2. CandidateInv(e, op[e].draft)'
    BY <1>5, <1>6, <2>1
  <2>3. \A q \in Paths : floor'[e][q] <= d.cursor[q]
    BY <1>1, <1>2, <1>3 DEF StateInv
  <2>. QED BY <1>2, <1>4, <1>5, <1>6, <2>2, <2>3 DEF OperationInv
<1>10. MessagingInv'
  BY <1>2, <1>6, <1>7, <1>9, OperationStep DEF history
<1>. QED BY <1>8, <1>10

LEMMA SavePageKeeps ==
  ASSUME MessagingInv, NEW e \in Endpoints, SavePage(e)
  PROVE  MessagingInv' /\ Grows
<1>1. TypeOK /\ StateInv(e) /\ OperationInv(e)
  BY DEF MessagingInv
<1>2. /\ op[e].kind = "receive" /\ op[e].draft.cursor[op[e].path] = op[e].until
      /\ UNCHANGED <<envelope, intent, outbox, box, floor, blobs, history>>
  BY DEF SavePage
<1>3. PICK d \in States, p \in Paths, until \in Nat :
        d = op[e].draft /\ p = op[e].path /\ until = op[e].until
  BY <1>1, <1>2, OperationFields DEF OperationInv
<1>4. CandidateInv(e, d) /\ until = d.cursor[p] /\ \A q \in Paths : floor[e][q] <= d.cursor[q]
  BY <1>1, <1>2, <1>3 DEF OperationInv
<1>5. Grows
  BY <1>1, <1>2, BoxFacts DEF Grows, history
<1>6. CASE Goto(e, Idle) /\ UNCHANGED state
  <2>1. TypeOK'
    BY <1>1, <1>2, <1>6, IdleFacts, GotoFacts DEF TypeOK, history
  <2>. QED BY <1>2, <1>5, <1>6, <2>1, IdleStep DEF history
<1>7. CASE /\ Valid(e, d) /\ state' = [state EXCEPT ![e] = d]
           /\ Goto(e, [Idle EXCEPT !.kind = "collect", !.path = p, !.until = until])
  <2>. DEFINE o == [Idle EXCEPT !.kind = "collect", !.path = p, !.until = until]
  <2>1. o \in Operations /\ o.kind = "collect" /\ o.path = p /\ o.until = until
    <3>1. p \in 1..(RouteCount + 1)
      BY ConstantFacts DEF Paths
    <3>. QED BY <3>1, IdleFacts DEF Operations
  <2>. HIDE DEF o
  <2>2. op' \in [Endpoints -> Operations] /\ op'[e] = o
        /\ \A q \in Endpoints : q # e => op'[q] = op[q]
    BY <1>1, <1>7, <2>1, GotoFacts DEF o
  <2>3. state' \in [Endpoints -> States] /\ state'[e] = d
        /\ \A q \in Endpoints : q # e => state'[q] = state[q]
    BY <1>1, <1>7 DEF TypeOK
  <2>4. TypeOK'
    BY <1>1, <1>2, <2>2, <2>3 DEF TypeOK, history
  <2>5. CandidateInv(e, d)'
    BY <1>2, <1>4, CandidateSame DEF history
  <2>6. StateInv(e)'
    <3>1. CandidateInv(e, state[e])'
      BY <2>3, <2>5
    <3>2. \A t \in Own(e)' : intent'[t].status # "discarded" =>
                               envelope'[t].session \in Range(d.sessions)
      BY <1>2, <1>7 DEF Valid, Own
    <3>. QED BY <1>2, <1>4, <2>3, <3>1, <3>2 DEF StateInv
  <2>7. OperationInv(e)'
    <3>1. d.cursor[p] \in Nat
      BY StateFields
    <3>. QED BY <1>4, <2>1, <2>2, <2>3, <3>1 DEF OperationInv
  <2>8. MessagingInv'
    BY <1>2, <2>2, <2>3, <2>4, <2>6, <2>7, QuietStep DEF history
  <2>. QED BY <1>5, <2>8
<1>. QED BY <1>3, <1>6, <1>7 DEF SavePage

\* The record read: it is behind the cursor of the candidate, and the relay logged it.
LEMMA RecordFacts ==
  ASSUME MessagingInv, NEW e \in Endpoints, op[e].kind = "receive",
         op[e].draft.cursor[op[e].path] < op[e].until
  PROVE  LET p == op[e].path
             k == op[e].draft.cursor[p] + 1
         IN /\ p \in Paths /\ k \in 1..Len(box[e][p])
            /\ box[e][p][k] \in Records /\ box[e][p][k] \in Range(box[e][p])
<1>1. TypeOK /\ op[e].path \in Paths /\ op[e].until <= Len(box[e][op[e].path])
  BY DEF MessagingInv, OperationInv
<1>2. op[e].draft.cursor[op[e].path] \in Nat /\ op[e].until \in Nat
  BY <1>1, OperationFields, StateFields
<1>3. op[e].draft.cursor[op[e].path] + 1 \in 1..Len(box[e][op[e].path])
  <2> DEFINE c == op[e].draft.cursor[op[e].path]
             l == Len(box[e][op[e].path])
             u == op[e].until
  <2>1. l \in Nat
    BY <1>1, BoxFacts
  <2>2. c \in Nat /\ u \in Nat /\ c < u /\ u <= l
    BY <1>1, <1>2
  <2> HIDE DEF c, l, u
  <2>3. c + 1 \in 1..l
    BY ONLY <2>1, <2>2
  <2>. QED BY <2>3 DEF c, l
<1>. QED BY <1>1, <1>3, BoxFacts

\* The cursor moves over one record, which is accounted for.
Moves(e, d, n, p, k) ==
  /\ k = d.cursor[p] + 1 /\ k \in 1..Len(box[e][p])
  /\ n.cursor = [d.cursor EXCEPT ![p] = k]
  /\ \A q \in Paths : q # p => /\ n.fragments[q] = d.fragments[q]
                               /\ n.completed[q] = d.completed[q]
  /\ Range(d.received) \subseteq Range(n.received)
  /\ n.fragments[p] \subseteq d.fragments[p] \cup {box[e][p][k]}
  /\ n.completed[p] \subseteq Range(n.received) /\ d.completed[p] \subseteq n.completed[p]
  /\ \A f \in d.fragments[p] \cup {box[e][p][k]} :
       f \in n.fragments[p] \/ f.tx \in n.completed[p]

LEMMA CursorMoves ==
  ASSUME TypeOK, NEW e \in Endpoints, NEW d \in States, NEW n \in States, CursorInv(e, d),
         NEW p \in Paths, NEW k, Moves(e, d, n, p, k), UNCHANGED box
  PROVE  CursorInv(e, n)'
<1>. USE DEF Moves
<1>1. SUFFICES ASSUME NEW q \in Paths
               PROVE  /\ n.cursor[q] <= Len(box[e][q])
                      /\ n.completed[q] \subseteq Range(n.received)
                      /\ n.fragments[q] \subseteq Range(box[e][q])
                      /\ \A i \in 1..n.cursor[q] :
                           box[e][q][i] \in n.fragments[q] \/ box[e][q][i].tx \in n.completed[q]
  BY DEF CursorInv
<1>2. /\ d.cursor[q] <= Len(box[e][q])
      /\ d.completed[q] \subseteq Range(d.received)
      /\ d.fragments[q] \subseteq Range(box[e][q])
      /\ \A i \in 1..d.cursor[q] :
           box[e][q][i] \in d.fragments[q] \/ box[e][q][i].tx \in d.completed[q]
  BY DEF CursorInv
<1>3. d.cursor \in [Paths -> Nat] /\ d.cursor[q] \in Nat
  BY StateFields
<1>4. CASE q # p
  <2>1. n.cursor[q] = d.cursor[q]
    BY <1>3, <1>4
  <2>. QED BY <1>2, <1>4, <2>1
<1>5. CASE q = p
  <2>1. n.cursor[q] = k /\ k \in Nat
    BY <1>3, <1>5
  <2>2. box[e][q][k] \in Range(box[e][q])
    <3>1. k \in 1..Len(box[e][q])
      BY <1>5
    <3>. QED BY <3>1, BoxFacts
  <2>3. n.fragments[q] \subseteq Range(box[e][q])
    BY <1>2, <1>5, <2>2
  <2>4. ASSUME NEW i \in 1..k
        PROVE  box[e][q][i] \in n.fragments[q] \/ box[e][q][i].tx \in n.completed[q]
    <3>1. CASE i = k
      BY <1>5, <3>1
    <3>2. CASE i # k
      <4>1. i \in 1..d.cursor[q]
        BY <1>3, <1>5, <3>2
      <4>. QED BY <1>2, <1>5, <4>1
    <3>. QED BY <3>1, <3>2
  <2>5. k <= Len(box[e][q])
    BY <1>5, <2>1, BoxFacts
  <2>. QED BY <1>5, <2>1, <2>3, <2>4, <2>5
<1>. QED BY <1>4, <1>5

\* A candidate goes on to the next record.
LEMMA DraftStep ==
  ASSUME MessagingInv, NEW e \in Endpoints, op[e].kind = "receive",
         NEW n \in States, Goto(e, [op[e] EXCEPT !.draft = n]),
         UNCHANGED <<envelope, intent, outbox, state, box, floor, blobs, history>>,
         \A p \in Paths : op[e].draft.cursor[p] <= n.cursor[p],
         CandidateInv(e, n)'
  PROVE  /\ MessagingInv' /\ Grows
         /\ op'[e].draft = n
<1>. DEFINE o == [op[e] EXCEPT !.draft = n]
<1>1. TypeOK /\ OperationInv(e) /\ op[e] \in Operations
  BY OperationFields DEF MessagingInv
<1>2. /\ o \in Operations /\ o.kind = op[e].kind /\ o.path = op[e].path
      /\ o.until = op[e].until /\ o.draft = n
  BY <1>1 DEF Operations
<1>. HIDE DEF o
<1>3. op' \in [Endpoints -> Operations] /\ op'[e] = o
      /\ \A q \in Endpoints : q # e => op'[q] = op[q]
  BY <1>1, <1>2, GotoFacts DEF o
<1>4. TypeOK'
  BY <1>1, <1>3 DEF TypeOK, history
<1>5. Grows
  BY <1>1, BoxFacts DEF Grows, history
<1>6. OperationInv(e)'
  <2>1. CandidateInv(e, op[e].draft)'
    BY <1>2, <1>3
  <2>2. ASSUME NEW p \in Paths PROVE floor'[e][p] <= n.cursor[p]
    <3>1. floor[e][p] <= op[e].draft.cursor[p]
      BY <1>1 DEF OperationInv
    <3>2. floor[e][p] \in Nat /\ op[e].draft.cursor[p] \in Nat /\ n.cursor[p] \in Nat
      BY <1>1, OperationFields, StateFields DEF TypeOK
    <3>. QED BY <3>1, <3>2
  <2>3. op[e].path \in Paths /\ op[e].until <= Len(box[e][op[e].path])
    BY <1>1 DEF OperationInv
  <2>. QED BY <1>2, <1>3, <2>1, <2>2, <2>3 DEF OperationInv
<1>7. MessagingInv'
  BY <1>3, <1>4, <1>6, OperationStep DEF history
<1>. QED BY <1>2, <1>3, <1>5, <1>7

\* What the reassembler does with a record that is not a copy.
Reassembled(n, d, p, packet) ==
  /\ n.sessions = d.sessions /\ n.chain = d.chain /\ n.active = d.active
  /\ n.received = d.received /\ n.forgotten = d.forgotten /\ n.applied = d.applied
  /\ n.issued = d.issued
  /\ n.cursor = [d.cursor EXCEPT ![p] = d.cursor[p] + 1]
  /\ \A q \in Paths : q # p => /\ n.fragments[q] = d.fragments[q]
                               /\ n.completed[q] = d.completed[q]
  /\ n.fragments[p] \subseteq d.fragments[p] \cup {packet}
  /\ n.completed[p] = IF Completes(d, p, packet) THEN d.completed[p] \cup {packet.tx}
                      ELSE d.completed[p]
  /\ \A f \in d.fragments[p] \cup {packet} :
       f \in n.fragments[p] \/ f.tx \in n.completed[p]

LEMMA ReassembleFacts ==
  ASSUME NEW d \in States, NEW p \in Paths, NEW packet \in Records
  PROVE  /\ Reassemble(d, p, packet) \in States
         /\ Reassembled(Reassemble(d, p, packet), d, p, packet)
<1>. DEFINE n == Reassemble(d, p, packet)
            tx == packet.tx
            done == Completes(d, p, packet)
            f0 == [d.fragments EXCEPT ![p] = IF done THEN {f \in d.fragments[p] : f.tx # packet.tx}
                                             ELSE Fragments(d, p, packet)]
            c0 == [d.completed EXCEPT ![p] = IF done THEN d.completed[p] \cup {packet.tx}
                                             ELSE d.completed[p]]
            k0 == [d.cursor EXCEPT ![p] = d.cursor[p] + 1]
<1>1. /\ d.cursor \in [Paths -> Nat] /\ d.fragments \in [Paths -> SUBSET Records]
      /\ d.completed \in [Paths -> SUBSET Transactions]
  BY StateFields
<1>2. tx \in Transactions
  BY DEF Records
<1>3. Fragments(d, p, packet) = d.fragments[p] \cup {packet}
  BY DEF Fragments
<1>4. /\ f0 \in [Paths -> SUBSET Records] /\ c0 \in [Paths -> SUBSET Transactions]
      /\ k0 \in [Paths -> Nat]
  BY <1>1, <1>2, <1>3
<1>5. n = [d EXCEPT !.cursor = k0, !.fragments = f0, !.completed = c0]
  BY <1>1 DEF Reassemble, States
<1>6. /\ f0[p] \subseteq d.fragments[p] \cup {packet}
      /\ c0[p] = IF done THEN d.completed[p] \cup {tx} ELSE d.completed[p]
      /\ \A q \in Paths : q # p => f0[q] = d.fragments[q] /\ c0[q] = d.completed[q]
      /\ \A f \in d.fragments[p] \cup {packet} : f \in f0[p] \/ f.tx \in c0[p]
  BY <1>1, <1>3
<1>. HIDE DEF f0, c0
<1>7. /\ n \in States
      /\ n.sessions = d.sessions /\ n.chain = d.chain /\ n.active = d.active
      /\ n.received = d.received /\ n.forgotten = d.forgotten /\ n.applied = d.applied
      /\ n.issued = d.issued
      /\ n.cursor = k0 /\ n.fragments = f0 /\ n.completed = c0
  BY <1>4, <1>5 DEF States
<1>. QED BY <1>6, <1>7 DEF Reassembled

\* A copy is passed over.
LEMMA DuplicateCandidate ==
  ASSUME TypeOK, NEW e \in Endpoints, NEW d \in States, CandidateInv(e, d), NEW p \in Paths,
         NEW k \in Nat, k = d.cursor[p] + 1, k \in 1..Len(box[e][p]),
         box[e][p][k].tx \in d.completed[p] \/ box[e][p][k] \in d.fragments[p],
         UNCHANGED <<envelope, intent, box, invalid>>
  PROVE  \E n \in States :
           /\ n = [d EXCEPT !.cursor = [d.cursor EXCEPT ![p] = k]]
           /\ n.received = d.received
           /\ \A q \in Paths : d.cursor[q] <= n.cursor[q]
           /\ CandidateInv(e, n)'
<1>. DEFINE next == [d EXCEPT !.cursor = [d.cursor EXCEPT ![p] = k]]
<1>1. d.cursor \in [Paths -> Nat]
  BY StateFields
<1>2. [d.cursor EXCEPT ![p] = k] \in [Paths -> Nat]
  BY <1>1
<1>3. next \in States
  BY <1>2 DEF States
<1>4. PICK n \in States : n = next
  BY <1>3
<1>5. /\ n.sessions = d.sessions /\ n.chain = d.chain /\ n.active = d.active
      /\ n.received = d.received /\ n.forgotten = d.forgotten /\ n.applied = d.applied
      /\ n.fragments = d.fragments /\ n.completed = d.completed
      /\ n.cursor = [d.cursor EXCEPT ![p] = k]
  BY <1>4 DEF States
<1>6. CursorInv(e, d) /\ d.completed[p] \subseteq Range(d.received)
  BY DEF CandidateInv, CursorInv
<1>7. \A q \in Paths : d.cursor[q] <= n.cursor[q]
  BY <1>1, <1>5
<1>. HIDE DEF next
<1>8. CursorInv(e, n)'
  <2>1. Moves(e, d, n, p, k)
    BY <1>5, <1>6 DEF Moves
  <2>. QED BY ONLY TypeOK, e \in Endpoints, d \in States, n \in States, p \in Paths,
                   <1>6, <2>1, UNCHANGED box, CursorMoves
<1>9. CandidateInv(e, n)'
  BY <1>5, <1>8, CandidateMoves
<1>. QED BY <1>4, <1>5, <1>7, <1>9 DEF next

\* A fragment is kept, or it completes a bundle that is a copy of one received.
LEMMA FragmentCandidate ==
  ASSUME TypeOK, NEW e \in Endpoints, NEW d \in States, CandidateInv(e, d), NEW p \in Paths,
         NEW k \in Nat, k = d.cursor[p] + 1, k \in 1..Len(box[e][p]),
         NEW packet \in Records, packet = box[e][p][k],
         Completes(d, p, packet) => packet.tx \in Known(d),
         UNCHANGED <<envelope, intent, box, invalid>>
  PROVE  \E n \in States :
           /\ n = Reassemble(d, p, packet)
           /\ n.received = d.received
           /\ \A q \in Paths : d.cursor[q] <= n.cursor[q]
           /\ CandidateInv(e, n)'
<1>1. d.cursor \in [Paths -> Nat]
  BY StateFields
<1>2. PICK n \in States : n = Reassemble(d, p, packet) /\ Reassembled(n, d, p, packet)
  BY ReassembleFacts
<1>3. /\ n.sessions = d.sessions /\ n.chain = d.chain /\ n.active = d.active
      /\ n.received = d.received /\ n.forgotten = d.forgotten /\ n.applied = d.applied
      /\ n.cursor = [d.cursor EXCEPT ![p] = d.cursor[p] + 1]
      /\ \A q \in Paths : q # p => /\ n.fragments[q] = d.fragments[q]
                                   /\ n.completed[q] = d.completed[q]
      /\ n.fragments[p] \subseteq d.fragments[p] \cup {packet}
      /\ n.completed[p] = IF Completes(d, p, packet) THEN d.completed[p] \cup {packet.tx}
                          ELSE d.completed[p]
      /\ \A f \in d.fragments[p] \cup {packet} :
           f \in n.fragments[p] \/ f.tx \in n.completed[p]
  BY <1>2 DEF Reassembled
<1>4. CursorInv(e, d) /\ d.completed[p] \subseteq Range(d.received)
  BY DEF CandidateInv, CursorInv
<1>5. Known(d) \subseteq Range(d.received)
  <2>1. \A i \in (d.forgotten + 1)..Len(d.received) : i \in 1..Len(d.received)
    <3>1. d.forgotten \in Nat /\ Len(d.received) \in Nat
      BY StateFields, ListFacts
    <3>. QED BY <3>1
  <2>2. Range(d.received) = {d.received[i] : i \in 1..Len(d.received)}
    BY ListFacts
  <2>. QED BY <2>1, <2>2 DEF Known
<1>6. n.completed[p] \subseteq Range(n.received) /\ d.completed[p] \subseteq n.completed[p]
  BY <1>3, <1>4, <1>5
<1>7. \A q \in Paths : d.cursor[q] <= n.cursor[q]
  BY <1>1, <1>3
<1>8. CursorInv(e, n)'
  <2>1. Moves(e, d, n, p, k)
    BY <1>3, <1>4, <1>6 DEF Moves
  <2>. QED BY ONLY TypeOK, e \in Endpoints, d \in States, n \in States, p \in Paths,
                   <1>4, <2>1, UNCHANGED box, CursorMoves
<1>9. CandidateInv(e, n)'
  BY <1>3, <1>8, CandidateMoves
<1>. QED BY <1>2, <1>3, <1>7, <1>9
\* The session of an envelope that is processed: it was held, or its bootstrap begins it.
LEMMA OpenedFacts ==
  ASSUME NEW e, NEW d \in States, ListInv(d), NEW s \in Transactions,
         Holds(d, s) \/ HasRoom(e, d)
  PROVE  LET n == Opened(e, d, s) IN
         /\ n \in States /\ Rest(n) = Rest(d) /\ ListInv(n)
         /\ s \in Range(n.sessions) /\ Range(n.sessions) \subseteq Range(d.sessions) \cup {s}
         /\ \A t \in Range(n.sessions) : t # s => n.chain[t] = d.chain[t]
         /\ n.chain[s] = IF Holds(d, s) THEN d.chain[s] ELSE NoChain
<1>1. CASE Holds(d, s)
  BY <1>1 DEF Opened, Holds
<1>2. CASE ~Holds(d, s)
  <2>1. Opened(e, d, s) = Open(Reserve(e, d), s)
    BY <1>2 DEF Opened, Inbound
  <2>2. s \notin Range(d.sessions) /\ HasRoom(e, d)
    BY <1>2 DEF Holds
  <2>. QED BY <1>2, <2>1, <2>2, BeginFacts
<1>. QED BY <1>1, <1>2

\* The counters whose keys a chain has spent.
Spent(chain) == (0..chain.next) \ (chain.skipped \cup {chain.next})

\* n is d once m is open: its session is held, and its key is spent for the first time.
OpensWith(n, d, m) ==
  LET s == m.session
      before == IF Holds(d, s) THEN d.chain[s] ELSE NoChain
  IN /\ Rest(n) = Rest(d) /\ ListInv(n)
     /\ s \in Range(n.sessions) /\ Range(n.sessions) \subseteq Range(d.sessions) \cup {s}
     /\ \A t \in Range(n.sessions) : t # s => n.chain[t] = d.chain[t]
     /\ m.counter \notin Spent(before) /\ Spent(n.chain[s]) = Spent(before) \cup {m.counter}

LEMMA DecryptedFacts ==
  ASSUME NEW e, NEW d \in States, ListInv(d), NEW m \in Envelopes,
         Holds(d, m.session) \/ HasRoom(e, d),
         Decrypts(Opened(e, d, m.session).chain[m.session], m.counter)
  PROVE  Decrypted(e, d, m) \in States /\ OpensWith(Decrypted(e, d, m), d, m)
<1>. DEFINE s == m.session
            o == Opened(e, d, s)
            before == IF Holds(d, s) THEN d.chain[s] ELSE NoChain
            after == Advance(o.chain[s], m.counter)
            n == Decrypted(e, d, m)
<1>1. s \in Transactions /\ m.counter \in Nat
  BY DEF Envelopes
<1>2. /\ o \in States /\ Rest(o) = Rest(d) /\ ListInv(o)
      /\ s \in Range(o.sessions) /\ Range(o.sessions) \subseteq Range(d.sessions) \cup {s}
      /\ \A t \in Range(o.sessions) : t # s => o.chain[t] = d.chain[t]
      /\ o.chain[s] = before
  BY <1>1, OpenedFacts
<1>3. o.chain \in [Transactions -> Chains] /\ o.chain[s] \in Chains
      /\ \A c \in o.chain[s].skipped : c < o.chain[s].next
  BY <1>1, <1>2, StateFields DEF ListInv
<1>. HIDE DEF o
<1>4. /\ after \in Chains /\ \A c \in after.skipped : c < after.next
      /\ m.counter \notin Spent(o.chain[s]) /\ Spent(after) = Spent(o.chain[s]) \cup {m.counter}
  BY <1>1, <1>3, AdvanceFacts DEF o, Spent
<1>5. n = [o EXCEPT !.chain = [o.chain EXCEPT ![s] = after]]
  BY <1>2 DEF Decrypted, States, o
<1>. HIDE DEF after
<1>6. [o.chain EXCEPT ![s] = after] \in [Transactions -> Chains]
  BY <1>1, <1>3, <1>4
<1>7. /\ n \in States /\ Rest(n) = Rest(o) /\ n.sessions = o.sessions /\ n.active = o.active
      /\ n.chain = [o.chain EXCEPT ![s] = after]
  BY <1>2, <1>5, <1>6 DEF States, Rest
<1>. HIDE DEF n
<1>8. \A t \in Transactions : n.chain[t] = IF t = s THEN after ELSE o.chain[t]
  BY <1>3, <1>7
<1>9. ListInv(n)
  <2>1. \A t \in Transactions : t \notin Range(n.sessions) => n.chain[t] = NoChain
    BY <1>2, <1>7, <1>8 DEF ListInv
  <2>2. \A t \in Transactions : \A c \in n.chain[t].skipped : c < n.chain[t].next
    BY <1>2, <1>4, <1>8 DEF ListInv
  <2>. QED BY <1>2, <1>7, <2>1, <2>2 DEF ListInv
<1>10. \A t \in Range(n.sessions) : t # s => n.chain[t] = d.chain[t]
  <2>1. Range(o.sessions) \subseteq Transactions
    BY <1>2, ListFacts
  <2>. QED BY <1>2, <1>7, <1>8, <2>1
<1>. QED BY <1>1, <1>2, <1>4, <1>7, <1>8, <1>9, <1>10 DEF n, OpensWith

\* What a control changes of the candidate it was opened in.
Controlled(n, d, m) ==
  /\ n.sessions = d.sessions /\ n.chain = d.chain /\ n.active \in {d.active, None}
  /\ n.received = d.received /\ n.forgotten = d.forgotten /\ n.cursor = d.cursor
  /\ n.fragments = d.fragments /\ n.completed = d.completed
  /\ \A kind \in Controls :
       n.applied[kind] = IF kind = m.kind THEN m.revision ELSE d.applied[kind]

LEMMA ControlFacts ==
  ASSUME NEW d \in States, NEW m \in Envelopes
  PROVE  LET n == IF m.kind \in Controls THEN AfterControl(d, m) ELSE d
         IN n \in States /\ Controlled(n, d, m)
<1>1. d.applied \in [Controls -> Nat] /\ d.active \in Transactions \cup {None}
  BY StateFields
<1>2. m.revision \in Nat
  BY DEF Envelopes
<1>3. CASE m.kind \notin Controls
  BY <1>3 DEF Controlled
<1>4. CASE m.kind \in Controls
  <2>. DEFINE active == IF m.kind = "prekey" /\ m.revision > d.applied["prekey"]
                        THEN None ELSE d.active
              applied == [d.applied EXCEPT ![m.kind] = m.revision]
              n == AfterControl(d, m)
  <2>1. applied \in [Controls -> Nat] /\ active \in Transactions \cup {None}
        /\ active \in {d.active, None}
        /\ \A kind \in Controls :
             applied[kind] = IF kind = m.kind THEN m.revision ELSE d.applied[kind]
    BY <1>1, <1>2
  <2>2. n = [d EXCEPT !.applied = applied, !.active = active]
    BY DEF AfterControl, States
  <2>. HIDE DEF n, active, applied
  <2>3. n \in States /\ n.applied = applied /\ n.active = active
        /\ n.sessions = d.sessions /\ n.chain = d.chain
        /\ n.received = d.received /\ n.forgotten = d.forgotten /\ n.cursor = d.cursor
        /\ n.fragments = d.fragments /\ n.completed = d.completed
    BY <2>1, <2>2 DEF States
  <2>4. Controlled(n, d, m)
    BY <2>1, <2>3 DEF Controlled
  <2>. QED BY <1>4, <2>3, <2>4 DEF n
<1>. QED BY <1>3, <1>4

\* The candidate an event leaves: c is what its opening left of d.
Processed(n, c, d, m, tx) ==
  /\ n.sessions = c.sessions /\ n.chain = c.chain /\ n.active \in {c.active, None}
  /\ n.received = Append(d.received, tx) /\ n.forgotten <= Len(d.received) + 1
  /\ n.cursor = d.cursor /\ n.fragments = d.fragments /\ n.completed = d.completed
  /\ \A kind \in Controls :
       n.applied[kind] = IF kind = m.kind THEN m.revision ELSE d.applied[kind]

LEMMA ProcessFacts ==
  ASSUME NEW e, NEW d \in States, NEW tx \in Transactions, NEW p \in Paths,
         NEW m \in Envelopes, m = envelope[tx], d.forgotten <= Len(d.received),
         Decrypted(e, d, m) \in States, Rest(Decrypted(e, d, m)) = Rest(d)
  PROVE  /\ Process(e, d, tx, p) \in States
         /\ Processed(Process(e, d, tx, p), Decrypted(e, d, m), d, m, tx)
<1>. DEFINE c == Decrypted(e, d, m)
            b == IF m.kind \in Controls THEN AfterControl(c, m) ELSE c
            kept == Len(d.received) - d.forgotten
            source == [b.source EXCEPT ![tx] = IF m.kind = "attachment" THEN p ELSE 0]
            received == Append(b.received, tx)
            forgotten == IF kept < HistoryLimit THEN b.forgotten
                         ELSE Len(d.received) - HistoryTarget
            n == Process(e, d, tx, p)
<1>1. b \in States /\ Controlled(b, c, m)
  BY ControlFacts
<1>2. n = [b EXCEPT !.source = source, !.received = received, !.forgotten = forgotten]
  <2>1. n = [b EXCEPT !.source[tx] = IF m.kind = "attachment" THEN p ELSE 0,
                      !.received = Append(@, tx),
                      !.forgotten = IF kept < HistoryLimit THEN @
                                    ELSE Len(d.received) - HistoryTarget]
    BY DEF Process
  <2>. HIDE DEF b, n, kept
  <2>. QED BY <1>1, <2>1 DEF States
<1>3. Rest(c) = Rest(d)
  OBVIOUS
<1>. HIDE DEF c, b
<1>4. /\ c.received = d.received /\ c.forgotten = d.forgotten /\ c.cursor = d.cursor
      /\ c.fragments = d.fragments /\ c.completed = d.completed /\ c.applied = d.applied
  BY <1>3, RestFields
<1>5. b.received = d.received /\ b.forgotten = d.forgotten
  BY <1>1, <1>4 DEF Controlled
<1>6. source \in [Transactions -> Paths \cup {0}]
  BY <1>1, StateFields
<1>7. received \in Seq(Transactions) /\ received = Append(d.received, tx)
  BY <1>5, StateFields, AppendFacts
<1>8. forgotten \in Nat /\ forgotten <= Len(d.received) + 1
  <2>1. Len(d.received) \in Nat /\ d.forgotten \in Nat
    BY ListFacts, StateFields
  <2>. QED BY <1>5, <2>1, ConstantFacts
<1>. HIDE DEF source, received, forgotten, n
<1>9. /\ n \in States /\ n.received = received /\ n.forgotten = forgotten
      /\ n.sessions = b.sessions /\ n.chain = b.chain /\ n.active = b.active
      /\ n.cursor = b.cursor /\ n.fragments = b.fragments /\ n.completed = b.completed
      /\ n.applied = b.applied
  BY <1>1, <1>2, <1>6, <1>7, <1>8 DEF States
<1>10. Processed(n, c, d, m, tx)
  BY <1>1, <1>4, <1>7, <1>8, <1>9 DEF Processed, Controlled
<1>. QED BY <1>9, <1>10 DEF n, c

\* An event is applied to a candidate: its session is held, or it is the bootstrap that begins
\* one, its key was not spent before and is spent now, and a control succeeds the last one.
Taken(e, n, d, tx) ==
  LET m == envelope[tx]
      s == m.session
      before == IF Holds(d, s) THEN d.chain[s] ELSE NoChain
  IN /\ Sealed(tx) /\ m.from = Peer(e)
     /\ n.received = Append(d.received, tx)
     /\ s \in Range(n.sessions) /\ Range(n.sessions) \subseteq Range(d.sessions) \cup {s}
     /\ \A t \in Range(n.sessions) : t # s => n.chain[t] = d.chain[t]
     /\ Holds(d, s) \/ m.boot
     /\ m.counter \notin Spent(before) /\ Spent(n.chain[s]) = Spent(before) \cup {m.counter}
     /\ m.kind = "prekey" => m.revision >= d.applied["prekey"]
     /\ m.kind = "routes" => m.revision \in {d.applied["routes"], d.applied["routes"] + 1}
     /\ \A kind \in Controls :
          n.applied[kind] = IF kind = m.kind THEN m.revision ELSE d.applied[kind]

\* The ratchet refuses what was received in a session that is held.
LEMMA TakenOnce ==
  ASSUME NEW e, NEW d \in States, NEW n, NEW tx, Accounts(d), Taken(e, n, d, tx)
  PROVE  Holds(d, envelope[tx].session) => tx \notin ReceivedIn(d, envelope[tx].session)
<1>. DEFINE s == envelope[tx].session
<1>1. SUFFICES ASSUME Holds(d, s), tx \in ReceivedIn(d, s) PROVE FALSE
  OBVIOUS
<1>2. s \in Range(d.sessions)
  BY <1>1 DEF Holds
<1>3. {envelope[t].counter : t \in ReceivedIn(d, s)} = Spent(d.chain[s])
  BY <1>2 DEF Accounts, Spent
<1>4. envelope[tx].counter \notin Spent(d.chain[s])
  BY <1>1 DEF Taken
<1>. QED BY <1>1, <1>3, <1>4

LEMMA TakenSessions ==
  ASSUME TypeOK, EnvelopesInv, NEW e \in Endpoints, NEW d \in States, NEW n \in States,
         NEW tx \in Transactions, SessionsInv(e, d), Taken(e, n, d, tx),
         UNCHANGED <<envelope, intent, box, invalid>>
  PROVE  SessionsInv(e, n)'
<1>. DEFINE s == envelope[tx].session
<1>1. /\ Sealed(tx) /\ envelope[tx].from = Peer(e) /\ n.received = Append(d.received, tx)
      /\ Range(n.sessions) \subseteq Range(d.sessions) \cup {s}
      /\ Holds(d, s) \/ envelope[tx].boot
  BY DEF Taken
<1>2. Range(n.received) = Range(d.received) \cup {tx}
  BY <1>1, StateFields, AppendFacts
<1>3. Peer(e) # e
  BY PeerFacts
<1>4. SUFFICES ASSUME NEW t \in Range(n.sessions)
               PROVE  /\ Bootstrap(t)
                      /\ envelope[t].from # e => t \in Range(n.received)
                      /\ envelope[t].from = e /\ intent[t].status = "discarded"
                           => t \in Range(invalid)
  BY DEF SessionsInv, Bootstrap, Sealed
<1>5. CASE t \in Range(d.sessions)
  BY <1>2, <1>5 DEF SessionsInv
<1>6. CASE t \notin Range(d.sessions)
  <2>1. t = s /\ envelope[tx].boot
    BY <1>1, <1>6 DEF Holds
  <2>2. Bootstrap(s) /\ tx = s
    BY <1>1, <2>1 DEF EnvelopesInv
  <2>. QED BY <1>1, <1>2, <1>3, <2>1, <2>2
<1>. QED BY <1>5, <1>6

LEMMA TakenAccounts ==
  ASSUME TypeOK, EnvelopesInv, NEW e \in Endpoints, NEW d \in States, NEW n \in States,
         NEW tx \in Transactions, SessionsInv(e, d), Accounts(d), Taken(e, n, d, tx),
         UNCHANGED <<envelope, intent, box, invalid>>
  PROVE  Accounts(n)'
<1>. DEFINE s == envelope[tx].session
            Count(t) == {envelope[x].counter : x \in ReceivedIn(d, t)}
<1>1. /\ Sealed(tx) /\ envelope[tx].from = Peer(e) /\ n.received = Append(d.received, tx)
      /\ Range(n.sessions) \subseteq Range(d.sessions) \cup {s}
      /\ \A t \in Range(n.sessions) : t # s => n.chain[t] = d.chain[t]
      /\ Holds(d, s) \/ envelope[tx].boot
  BY DEF Taken
<1>2. Agree(d.received) /\ Longer(n, d, tx) /\ envelope'[tx].session = s
  BY <1>1 DEF Agree, Longer
<1>3. Peer(e) # e
  BY PeerFacts
<1>9. ASSUME NEW t, tx # t
      PROVE  /\ s # t => ReceivedIn(n, t)' = ReceivedIn(d, t)
             /\ s = t => ReceivedIn(n, t)' = ReceivedIn(d, t) \cup {tx}
  <2>. HIDE DEF s
  <2>1. /\ envelope'[tx].session # t /\ tx # t => ReceivedIn(n, t)' = ReceivedIn(d, t)
        /\ envelope'[tx].session = t /\ tx # t => ReceivedIn(n, t)' = ReceivedIn(d, t) \cup {tx}
    BY <1>2, ReceivedInAppend
  <2>. QED BY <1>2, <1>9, <2>1
<1>4. SUFFICES ASSUME NEW t \in Range(n.sessions)
               PROVE  {envelope[x].counter : x \in ReceivedIn(n, t)'} = Spent(n.chain[t])
  BY DEF Accounts, Spent
<1>5. \A x \in Range(d.sessions) : Count(x) = Spent(d.chain[x])
  BY DEF Accounts, Spent
<1>6. CASE t # s
  <2>1. t \in Range(d.sessions) /\ n.chain[t] = d.chain[t]
    BY <1>1, <1>6
  <2>2. tx # t
    BY <1>6, <2>1 DEF SessionsInv, Bootstrap
  <2>3. ReceivedIn(n, t)' = ReceivedIn(d, t)
    BY <1>6, <1>9, <2>2
  <2>. QED BY <1>5, <2>1, <2>3
<1>7. CASE t = s /\ Holds(d, s)
  <2>1. Spent(n.chain[s]) = Spent(d.chain[s]) \cup {envelope[tx].counter}
    BY <1>7 DEF Taken
  <2>2. tx \notin ReceivedIn(d, s)
    BY <1>7, TakenOnce
  <2>3. s \in Range(d.sessions)
    BY <1>7 DEF Holds
  <2>4. tx # s
    <3>1. SUFFICES ASSUME tx = s PROVE FALSE
      OBVIOUS
    <3>2. s \in Range(d.received) /\ envelope[s].session = s
      BY <1>1, <1>3, <2>3, <3>1 DEF SessionsInv, Bootstrap
    <3>3. s \in ReceivedIn(d, s)
      BY <3>2, BootstrapCounted
    <3>. QED BY <2>2, <3>1, <3>3
  <2>5. ReceivedIn(n, s)' = ReceivedIn(d, s) \cup {tx}
    BY <1>9, <2>4
  <2>6. {envelope[x].counter : x \in ReceivedIn(n, s)'} = Count(s) \cup {envelope[tx].counter}
    BY <2>5
  <2>. QED BY <1>5, <1>7, <2>1, <2>3, <2>6
<1>8. CASE t = s /\ ~Holds(d, s)
  <2>1. Spent(n.chain[s]) = Spent(NoChain) \cup {envelope[tx].counter}
    BY <1>8 DEF Taken
  <2>2. Spent(NoChain) = {}
    BY DEF Spent, NoChain
  <2>3. tx = s
    BY <1>1, <1>8 DEF EnvelopesInv
  <2>4. ReceivedIn(n, s)' = {tx}
    BY <1>2, <2>3, ReceivedInAppend
  <2>. QED BY <1>8, <2>1, <2>2, <2>4
<1>. QED BY <1>6, <1>7, <1>8

LEMMA TakenOrder ==
  ASSUME TypeOK, NEW e, NEW d \in States, NEW n \in States, NEW tx \in Transactions,
         InOrder(d), Taken(e, n, d, tx), UNCHANGED envelope
  PROVE  InOrder(n)'
<1>. DEFINE l == Len(d.received)
            m == envelope[tx]
<1>1. n.received = Append(d.received, tx)
  BY DEF Taken
<1>2. Agree(d.received)
  BY DEF Agree
<1>3. l \in Nat /\ DOMAIN n.received = 1..(l + 1) /\ Len(n.received) = l + 1
      /\ DOMAIN d.received = 1..l
      /\ n.received[l + 1] = tx /\ \A i \in 1..l : n.received[i] = d.received[i]
  BY <1>1, ListFacts, StateFields, AppendFacts
<1>4. \A i \in 0..l : \A kind : Latest(n, i, kind)' = Latest(d, i, kind)
  BY <1>2, <1>3, LatestSame
<1>5. \A kind : Latest(n, l + 1, kind)' = IF m.kind = kind THEN m.revision
                                         ELSE Latest(d, l, kind)
  BY <1>1, <1>2, LatestAppend
<1>6. \A kind \in Controls : d.applied[kind] = Latest(d, l, kind)
  BY DEF InOrder
<1>7. ASSUME NEW i \in 1..(l + 1), NEW x, x = envelope[n.received[i]],
             NEW last, last = Latest(n, i - 1, x.kind)'
      PROVE  /\ x.kind = "routes" => x.revision \in {last, last + 1}
             /\ x.kind = "prekey" => x.revision >= last
  <2>1. CASE i \in 1..l
    <3>1. i - 1 \in 0..l /\ x = envelope[d.received[i]]
      BY <1>3, <1>7, <2>1
    <3>2. last = Latest(d, i - 1, x.kind)
      BY <1>4, <1>7, <3>1
    <3>. QED BY <1>3, <2>1, <3>1, <3>2 DEF InOrder
  <2>2. CASE i = l + 1
    <3>1. i - 1 = l /\ l \in 0..l /\ x = m
      BY <1>3, <1>7, <2>2
    <3>2. last = Latest(d, l, x.kind)
      BY <1>4, <1>7, <3>1
    <3>3. x.kind \in Controls => last = d.applied[x.kind]
      BY <1>6, <3>2
    <3>. QED BY <3>1, <3>3 DEF Taken, Controls
  <2>. QED BY <1>3, <2>1, <2>2
<1>8. \A kind \in Controls : n.applied[kind] = Latest(n, l + 1, kind)'
  BY <1>5, <1>6 DEF Taken
<1>9. \A i \in 1..(l + 1) :
        LET x == envelope[n.received[i]]
            last == Latest(n, i - 1, x.kind)'
        IN /\ x.kind = "routes" => x.revision \in {last, last + 1}
           /\ x.kind = "prekey" => x.revision >= last
  BY <1>7
<1>. QED BY <1>3, <1>8, <1>9 DEF InOrder

\* What processReceivedBundle does to a candidate whose reassembler completed a bundle.
Applies(e, n, a, d, tx) ==
  /\ ListInv(n) /\ Taken(e, n, d, tx) /\ n.forgotten <= Len(d.received) + 1
  /\ n.cursor = a.cursor /\ n.fragments = a.fragments /\ n.completed = a.completed

LEMMA ProcessTakes ==
  ASSUME TypeOK, NEW e \in Endpoints, NEW d \in States, NEW a \in States,
         NEW p \in Paths, NEW packet, NEW tx \in Transactions, Sealed(tx),
         ListInv(d), d.forgotten <= Len(d.received), Reassembled(a, d, p, packet),
         Processable(e, a, tx)
  PROVE  Process(e, a, tx, p) \in States /\ Applies(e, Process(e, a, tx, p), a, d, tx)
<1>1. PICK m \in Envelopes : m = envelope[tx]
  BY DEF Sealed
<1>2. /\ a.sessions = d.sessions /\ a.chain = d.chain /\ a.active = d.active
      /\ a.received = d.received /\ a.forgotten = d.forgotten /\ a.applied = d.applied
  BY DEF Reassembled
<1>3. ListInv(a)
  BY <1>2 DEF ListInv
<1>4. Holds(a, m.session) \/ (m.boot /\ HasRoom(e, a))
  BY <1>1 DEF Processable, InSession, Establishes
<1>5. /\ Decrypts(Opened(e, a, m.session).chain[m.session], m.counter) /\ m.from = Peer(e)
      /\ m.kind = "prekey" => m.revision >= a.applied["prekey"]
      /\ m.kind = "routes" => m.revision \in {a.applied["routes"], a.applied["routes"] + 1}
  BY <1>1 DEF Processable, Attributed
<1>6. PICK c \in States : c = Decrypted(e, a, m) /\ OpensWith(c, a, m)
  BY <1>3, <1>4, <1>5, DecryptedFacts
<1>7. LET s == m.session
          before == IF Holds(a, s) THEN a.chain[s] ELSE NoChain
      IN /\ Rest(c) = Rest(a) /\ ListInv(c)
         /\ s \in Range(c.sessions) /\ Range(c.sessions) \subseteq Range(a.sessions) \cup {s}
         /\ \A t \in Range(c.sessions) : t # s => c.chain[t] = a.chain[t]
         /\ m.counter \notin Spent(before) /\ Spent(c.chain[s]) = Spent(before) \cup {m.counter}
  BY <1>6 DEF OpensWith
<1>8. PICK n \in States : n = Process(e, a, tx, p) /\ Processed(n, c, a, m, tx)
  <2>1. Decrypted(e, a, m) \in States /\ Rest(Decrypted(e, a, m)) = Rest(a)
    BY <1>6, <1>7
  <2>2. a.forgotten <= Len(a.received)
    BY <1>2
  <2>. QED BY <1>1, <1>6, <2>1, <2>2, ProcessFacts
<1>9. Holds(a, m.session) <=> Holds(d, m.session)
  BY <1>2 DEF Holds
<1>10. ListInv(n)
  <2>1. n.sessions = c.sessions /\ n.chain = c.chain /\ n.active \in {c.active, None}
    BY <1>8 DEF Processed
  <2>. QED BY <1>7, <2>1 DEF ListInv
<1>11. Taken(e, n, d, tx)
  BY <1>1, <1>2, <1>4, <1>5, <1>7, <1>8, <1>9 DEF Taken, Processed
<1>12. Applies(e, n, a, d, tx)
  BY <1>2, <1>8, <1>10, <1>11 DEF Processed, Applies
<1>. QED BY <1>8, <1>12

\* The cursor of a candidate that took an event.
LEMMA AppliedCursor ==
  ASSUME TypeOK, NEW e \in Endpoints, NEW d \in States, NEW n \in States, NEW a \in States,
         CursorInv(e, d), NEW p \in Paths, NEW k \in Nat, k = d.cursor[p] + 1,
         k \in 1..Len(box[e][p]), Completes(d, p, box[e][p][k]), Reassembled(a, d, p, box[e][p][k]),
         n.cursor = a.cursor, n.fragments = a.fragments, n.completed = a.completed,
         Range(n.received) = Range(d.received) \cup {box[e][p][k].tx}, UNCHANGED box
  PROVE  CursorInv(e, n)' /\ \A q \in Paths : d.cursor[q] <= n.cursor[q]
<1>. DEFINE r == box[e][p][k]
<1>1. /\ n.cursor = [d.cursor EXCEPT ![p] = k]
      /\ \A q \in Paths : q # p => /\ n.fragments[q] = d.fragments[q]
                                   /\ n.completed[q] = d.completed[q]
      /\ n.fragments[p] \subseteq d.fragments[p] \cup {r}
      /\ n.completed[p] = d.completed[p] \cup {r.tx}
      /\ \A f \in d.fragments[p] \cup {r} : f \in n.fragments[p] \/ f.tx \in n.completed[p]
  BY DEF Reassembled
<1>2. d.completed[p] \subseteq Range(d.received)
  BY DEF CursorInv
<1>3. n.completed[p] \subseteq Range(n.received) /\ d.completed[p] \subseteq n.completed[p]
      /\ Range(d.received) \subseteq Range(n.received)
  BY <1>1, <1>2
<1>4. CursorInv(e, n)'
  <2>1. Moves(e, d, n, p, k)
    BY <1>1, <1>3 DEF Moves
  <2>. QED BY ONLY TypeOK, e \in Endpoints, d \in States, n \in States, CursorInv(e, d),
                   p \in Paths, <2>1, UNCHANGED box, CursorMoves
<1>5. \A q \in Paths : d.cursor[q] <= n.cursor[q]
  <2>1. d.cursor \in [Paths -> Nat]
    BY StateFields
  <2>2. n.cursor = [d.cursor EXCEPT ![p] = k] /\ k = d.cursor[p] + 1
    BY <1>1
  <2>. QED BY ONLY <2>1, <2>2, p \in Paths
<1>. QED BY <1>4, <1>5

\* The record behind the cursor of a candidate, and what the reassembler makes of it.
Reads(e, d, p, k, packet, tx, a) ==
  /\ k = d.cursor[p] + 1 /\ k \in 1..Len(box[e][p])
  /\ packet = box[e][p][k] /\ tx = packet.tx /\ a = Reassemble(d, p, packet)

LEMMA ProcessCandidate ==
  ASSUME TypeOK, EnvelopesInv, NEW e \in Endpoints, RelayInv(e),
         NEW d \in States, CandidateInv(e, d), NEW p \in Paths,
         NEW k \in Nat, NEW packet \in Records, NEW tx \in Transactions, NEW a \in States,
         Reads(e, d, p, k, packet, tx, a), Completes(d, p, packet), Processable(e, a, tx),
         UNCHANGED <<envelope, intent, box, invalid>>
  PROVE  \E n \in States :
           /\ n = Process(e, a, tx, p)
           /\ Taken(e, n, d, tx)
           /\ \A q \in Paths : d.cursor[q] <= n.cursor[q]
           /\ CandidateInv(e, n)'
<1>1. /\ ListInv(d) /\ SessionsInv(e, d) /\ ReceivedInv(e, d) /\ CursorInv(e, d)
      /\ Accounts(d) /\ InOrder(d)
  BY DEF CandidateInv
<1>0. /\ k = d.cursor[p] + 1 /\ k \in 1..Len(box[e][p])
      /\ packet = box[e][p][k] /\ tx = packet.tx /\ a = Reassemble(d, p, packet)
  BY DEF Reads
<1>2. packet \in Range(box[e][p])
  BY <1>0, BoxFacts
<1>3. Sealed(tx) /\ envelope[tx].from = Peer(e)
  BY <1>0, <1>2 DEF RelayInv
<1>4. Reassembled(a, d, p, packet)
  BY <1>0, ReassembleFacts
<1>5. d.forgotten <= Len(d.received)
  BY <1>1 DEF ReceivedInv
<1>6. PICK n \in States : n = Process(e, a, tx, p) /\ Applies(e, n, a, d, tx)
  BY <1>1, <1>3, <1>4, <1>5, ProcessTakes
<1>7. /\ ListInv(n) /\ Taken(e, n, d, tx) /\ n.forgotten <= Len(d.received) + 1
      /\ n.cursor = a.cursor /\ n.fragments = a.fragments /\ n.completed = a.completed
  BY <1>6 DEF Applies
<1>9. /\ Len(n.received) = Len(d.received) + 1 /\ Len(d.received) \in Nat
      /\ Range(n.received) = Range(d.received) \cup {tx}
      /\ n.received[Len(d.received) + 1] = tx
      /\ \A i \in 1..Len(d.received) : n.received[i] = d.received[i]
      /\ DOMAIN n.received = 1..Len(n.received)
  <2>1. Longer(n, d, tx)
    BY <1>7 DEF Taken, Longer
  <2>2. Follows(n, d, tx)
    BY ONLY <2>1, d \in States, n \in States, tx \in Transactions, LongerFacts
  <2>. QED BY <2>2 DEF Follows
<1>10. HeldBy(e, tx)
  <2>1. ASSUME NEW part \in 1..Packets
        PROVE  [tx |-> tx, part |-> part] \in Range(box[e][p])
    <3>1. [packet EXCEPT !.part = part] \in d.fragments[p] \cup {packet}
      BY DEF Completes, Fragments
    <3>2. [packet EXCEPT !.part = part] = [tx |-> tx, part |-> part]
      <4>1. packet \in Records /\ tx = packet.tx
        BY <1>0
      <4>. QED BY ONLY <4>1 DEF Records
    <3>3. d.fragments[p] \subseteq Range(box[e][p])
      BY <1>1 DEF CursorInv
    <3>. QED BY <1>2, <3>1, <3>2, <3>3
  <2>. QED BY <2>1 DEF HeldBy
<1>11. ListInv(n)'
  BY <1>7 DEF ListInv
<1>12. SessionsInv(e, n)'
  BY <1>1, <1>7, TakenSessions
<1>13. ReceivedInv(e, n)'
  <2>1. ASSUME NEW i \in 1..Len(n.received)
        PROVE  LET t == n.received[i]
               IN Sealed(t) /\ envelope[t].from = Peer(e) /\ HeldBy(e, t)
    <3>1. CASE i \in 1..Len(d.received)
      BY <1>1, <1>9, <3>1, ListFacts DEF ReceivedInv
    <3>2. CASE i = Len(d.received) + 1
      BY <1>3, <1>9, <1>10, <3>2
    <3>. QED BY <1>9, <3>1, <3>2
  <2>. QED BY <1>7, <1>9, <2>1 DEF ReceivedInv, Sealed, HeldBy
<1>14. CursorInv(e, n)' /\ \A q \in Paths : d.cursor[q] <= n.cursor[q]
  BY <1>0, <1>1, <1>4, <1>7, <1>9, AppliedCursor
<1>15. Accounts(n)' /\ InOrder(n)'
  BY <1>1, <1>7, TakenAccounts, TakenOrder
<1>16. CandidateInv(e, n)'
  BY <1>11, <1>12, <1>13, <1>14, <1>15 DEF CandidateInv
<1>. QED BY <1>6, <1>7, <1>14, <1>16

\* What AppliesOnce says of one endpoint.
AppliedOnce(e) ==
  LET before == op[e].draft
      after == op'[e].draft.received
  IN op[e].kind = "receive" /\ op'[e].kind = "receive" =>
       \A i \in (Len(before.received) + 1)..Len(after) :
         LET s == envelope[after[i]].session
         IN Holds(before, s) => after[i] \notin ReceivedIn(before, s)

LEMMA NothingAgain ==
  ASSUME NEW e, NEW d \in States, d = op[e].draft, op'[e].draft.received = d.received
  PROVE  AppliedOnce(e)
<1>1. Len(d.received) \in Nat
  BY ListFacts
<1>2. (Len(d.received) + 1)..Len(d.received) = {}
  BY <1>1
<1>. QED BY <1>2 DEF AppliedOnce

LEMMA OneMore ==
  ASSUME NEW e, NEW d \in States, NEW n \in States, NEW tx \in Transactions,
         d = op[e].draft, n = op'[e].draft, Longer(n, d, tx),
         Holds(d, envelope[tx].session) => tx \notin ReceivedIn(d, envelope[tx].session)
  PROVE  AppliedOnce(e)
<1>1. /\ Len(n.received) = Len(d.received) + 1 /\ Len(d.received) \in Nat
      /\ n.received[Len(d.received) + 1] = tx
  <2>1. Follows(n, d, tx)
    BY LongerFacts
  <2>. QED BY <2>1 DEF Follows
<1>2. \A i \in (Len(d.received) + 1)..Len(n.received) : n.received[i] = tx
  BY <1>1
<1>. QED BY <1>2 DEF AppliedOnce

\* A candidate goes on: the step of DraftStep, for a candidate that is given.
LEMMA ConsumeKeeps ==
  ASSUME MessagingInv, NEW e \in Endpoints, Consume(e)
  PROVE  MessagingInv' /\ Grows /\ AppliedOnce(e)
<1>1. /\ TypeOK /\ EnvelopesInv /\ RelayInv(e) /\ OperationInv(e)
  BY DEF MessagingInv
<1>2. /\ op[e].kind = "receive" /\ op[e].draft.cursor[op[e].path] < op[e].until
      /\ UNCHANGED <<envelope, intent, outbox, state, box, floor, blobs, history>>
  BY DEF Consume
<1>3. PICK d \in States, p \in Paths : d = op[e].draft /\ p = op[e].path
  BY <1>1, <1>2, OperationFields DEF OperationInv
<1>4. PICK k \in Nat : k = d.cursor[p] + 1 /\ k \in 1..Len(box[e][p])
  <2>1. d.cursor[p] + 1 \in 1..Len(box[e][p])
    BY <1>2, <1>3, RecordFacts
  <2>2. d.cursor[p] \in Nat
    BY StateFields
  <2>. QED BY <2>1, <2>2
<1>5. PICK packet \in Records : packet = box[e][p][k]
  BY <1>1, <1>4, BoxFacts
<1>6. PICK tx \in Transactions : tx = packet.tx
  BY DEF Records
<1>7. PICK a \in States : a = Reassemble(d, p, packet)
  BY ReassembleFacts
<1>8. CandidateInv(e, d) /\ \A q \in Paths : floor[e][q] <= d.cursor[q]
  BY <1>1, <1>2, <1>3 DEF OperationInv
<1>9. UNCHANGED <<envelope, intent, box, invalid>>
  BY <1>2 DEF history
<1>10. ASSUME NEW n \in States, Goto(e, [op[e] EXCEPT !.draft = n]),
              \A q \in Paths : d.cursor[q] <= n.cursor[q], CandidateInv(e, n)'
       PROVE  MessagingInv' /\ Grows /\ op'[e].draft = n
  <2>1. \A q \in Paths : op[e].draft.cursor[q] <= n.cursor[q]
    BY <1>3, <1>10
  <2>. QED BY ONLY MessagingInv, e \in Endpoints, n \in States, <1>2, <1>10, <2>1, DraftStep
<1>11. CASE /\ tx \in d.completed[p] \/ packet \in d.fragments[p]
            /\ Goto(e, [op[e] EXCEPT !.draft.cursor[p] = @ + 1])
  <2>1. PICK n \in States :
          /\ n = [d EXCEPT !.cursor = [d.cursor EXCEPT ![p] = k]]
          /\ n.received = d.received
          /\ \A q \in Paths : d.cursor[q] <= n.cursor[q]
          /\ CandidateInv(e, n)'
    <3>1. box[e][p][k].tx \in d.completed[p] \/ box[e][p][k] \in d.fragments[p]
      BY <1>5, <1>6, <1>11
    <3>. QED BY ONLY <1>1, e \in Endpoints, d \in States, p \in Paths, k \in Nat, <1>4, <1>8, <1>9,
                     <3>1, DuplicateCandidate
  <2>2. [op[e] EXCEPT !.draft.cursor[p] = @ + 1] = [op[e] EXCEPT !.draft = n]
    <3>1. op[e] \in Operations
      BY <1>1, OperationFields
    <3>. QED BY ONLY <1>3, <1>4, <2>1, <3>1, d \in States DEF Operations, States
  <2>3. MessagingInv' /\ Grows /\ op'[e].draft = n
    BY <1>10, <1>11, <2>1, <2>2
  <2>4. AppliedOnce(e)
    BY ONLY <1>3, <2>1, <2>3, d \in States, NothingAgain
  <2>. QED BY <2>3, <2>4
<1>12. CASE /\ Completes(d, p, packet) => tx \in Known(d)
            /\ Goto(e, [op[e] EXCEPT !.draft = a])
  <2>1. PICK n \in States :
          /\ n = Reassemble(d, p, packet)
          /\ n.received = d.received
          /\ \A q \in Paths : d.cursor[q] <= n.cursor[q]
          /\ CandidateInv(e, n)'
    <3>1. Completes(d, p, packet) => packet.tx \in Known(d)
      BY <1>6, <1>12
    <3>. QED BY ONLY <1>1, e \in Endpoints, d \in States, p \in Paths, k \in Nat, <1>4, <1>8, <1>9,
                     packet \in Records, <1>5, <3>1, FragmentCandidate
  <2>2. Goto(e, [op[e] EXCEPT !.draft = n])
    BY <1>7, <1>12, <2>1
  <2>3. MessagingInv' /\ Grows /\ op'[e].draft = n
    BY <1>10, <2>1, <2>2
  <2>4. AppliedOnce(e)
    BY ONLY <1>3, <2>1, <2>3, d \in States, NothingAgain
  <2>. QED BY <2>3, <2>4
<1>13. CASE /\ Completes(d, p, packet) /\ Processable(e, a, tx)
            /\ Goto(e, [op[e] EXCEPT !.draft = Process(e, a, tx, p)])
  <2>1. PICK n \in States :
          /\ n = Process(e, a, tx, p)
          /\ Taken(e, n, d, tx)
          /\ \A q \in Paths : d.cursor[q] <= n.cursor[q]
          /\ CandidateInv(e, n)'
    <3>1. Reads(e, d, p, k, packet, tx, a)
      BY <1>4, <1>5, <1>6, <1>7 DEF Reads
    <3>. QED BY ONLY <1>1, <1>8, <1>9, <1>13, <3>1, e \in Endpoints, d \in States, p \in Paths,
                     k \in Nat, packet \in Records, tx \in Transactions, a \in States,
                     ProcessCandidate
  <2>2. Goto(e, [op[e] EXCEPT !.draft = n])
    BY <1>13, <2>1
  <2>3. MessagingInv' /\ Grows /\ op'[e].draft = n
    BY <1>10, <2>1, <2>2
  <2>4. Holds(d, envelope[tx].session) => tx \notin ReceivedIn(d, envelope[tx].session)
    <3>1. Accounts(d)
      BY <1>8 DEF CandidateInv
    <3>. QED BY ONLY <2>1, <3>1, d \in States, TakenOnce
  <2>5. Longer(n, d, tx)
    BY ONLY <2>1 DEF Taken, Longer
  <2>6. AppliedOnce(e)
    BY ONLY <1>3, <2>3, <2>4, <2>5, d \in States, n \in States, tx \in Transactions, OneMore
  <2>. QED BY <2>3, <2>6
<1>14. CASE Goto(e, Idle)
  <2>1. TypeOK'
    BY <1>1, <1>2, <1>14, IdleFacts, GotoFacts DEF TypeOK, history
  <2>2. MessagingInv'
    BY <1>9, <1>2, <1>14, <2>1, IdleStep
  <2>3. Grows
    BY <1>1, <1>2, BoxFacts DEF Grows, history
  <2>4. op'[e].kind # "receive"
    BY <1>1, <1>14, IdleFacts, GotoFacts
  <2>. QED BY <2>2, <2>3, <2>4 DEF AppliedOnce
<1>15. \/ /\ tx \in d.completed[p] \/ packet \in d.fragments[p]
          /\ Goto(e, [op[e] EXCEPT !.draft.cursor[p] = @ + 1])
       \/ /\ Completes(d, p, packet) => tx \in Known(d)
          /\ Goto(e, [op[e] EXCEPT !.draft = a])
       \/ /\ Completes(d, p, packet) /\ Processable(e, a, tx)
          /\ Goto(e, [op[e] EXCEPT !.draft = Process(e, a, tx, p)])
       \/ Goto(e, Idle)
  BY <1>3, <1>4, <1>5, <1>6, <1>7, Zenon DEF Consume
<1>. QED BY <1>11, <1>12, <1>13, <1>14, <1>15

-----------------------------------------------------------------------------
(* Every step of every endpoint.                                           *)

Step(e) ==
  \/ \E tx \in Transactions, kind \in Kinds :
       PrepareApplication(e, tx, kind) \/ PrepareControl(e, tx, kind)
  \/ \E tx \in Transactions : Discard(e, tx) \/ Download(e, tx)
  \/ Resume(e)
  \/ \E p \in Paths : Fetch(e, p)
  \/ Progress(e)
  \/ UploadFails(e) \/ TransmitFails(e) \/ TransmitInvalid(e) \/ Crash(e)

LEMMA NextIsStep == Next <=> \E e \in Endpoints : Step(e)
  BY DEF Next, Step

LEMMA StepKeeps ==
  ASSUME MessagingInv, NEW e \in Endpoints, Step(e)
  PROVE  MessagingInv'
<1>1. CASE \E tx \in Transactions, kind \in Kinds :
             PrepareApplication(e, tx, kind) \/ PrepareControl(e, tx, kind)
  BY <1>1, PrepareApplicationKeeps, PrepareControlKeeps
<1>2. CASE \E tx \in Transactions : Discard(e, tx) \/ Download(e, tx)
  BY <1>2, DiscardKeeps, DownloadKeeps
<1>3. CASE Resume(e)
  BY <1>3, ResumeKeeps
<1>4. CASE \E p \in Paths : Fetch(e, p)
  BY <1>4, FetchKeeps
<1>5. CASE Progress(e)
  BY <1>5, UploadKeeps, TransmitKeeps, FinishKeeps, ConsumeKeeps, SavePageKeeps, CollectKeeps
     DEF Progress
<1>6. CASE UploadFails(e) \/ TransmitFails(e) \/ TransmitInvalid(e) \/ Crash(e)
  BY <1>6, UploadFailsKeeps, TransmitFailsKeeps, TransmitInvalidKeeps, CrashKeeps
<1>. QED BY <1>1, <1>2, <1>3, <1>4, <1>5, <1>6 DEF Step

LEMMA StutterKeeps == MessagingInv /\ UNCHANGED vars => MessagingInv'
<1>1. SUFFICES ASSUME MessagingInv, UNCHANGED vars PROVE MessagingInv'
  OBVIOUS
<1>2. UNCHANGED <<envelope, intent, outbox, state, op, box, floor, blobs, history>>
  BY <1>1 DEF vars
<1>3. TypeOK'
  BY <1>1, <1>2 DEF MessagingInv, TypeOK, history
<1>4. PICK e \in Endpoints : TRUE
  BY MessagingAssumption
<1>5. TypeOK /\ OperationInv(e) /\ op[e] \in Operations
  BY <1>1, OperationFields DEF MessagingInv
<1>6. OperationInv(e)'
  <2>1. op[e].kind = "receive" => CandidateInv(e, op[e].draft)'
    <3>1. SUFFICES ASSUME op[e].kind = "receive" PROVE CandidateInv(e, op[e].draft)'
      OBVIOUS
    <3>2. PICK d \in States : d = op[e].draft
      BY <1>5, OperationFields
    <3>3. CandidateInv(e, d)
      BY <1>5, <3>1, <3>2 DEF OperationInv
    <3>4. CandidateInv(e, d)'
      BY <1>2, <3>3, CandidateSame DEF history
    <3>. QED BY <1>2, <3>2, <3>4
  <2>. QED BY <1>2, <1>5, <2>1 DEF OperationInv, Sealed, Introduced, Delivered, history
<1>. QED BY <1>1, <1>2, <1>3, <1>6, OperationStep DEF history

\* A step of one endpoint leaves the operation of the other as it is.
LEMMA OtherOperation ==
  ASSUME TypeOK, NEW e \in Endpoints, Step(e), NEW o \in Endpoints, o # e
  PROVE  op'[o] = op[o]
<1>1. op \in [Endpoints -> Operations]
  BY DEF TypeOK
<1>2. \A x : Goto(e, x) => op'[o] = op[o]
  BY <1>1 DEF Goto
<1>3. CASE \E tx \in Transactions, kind \in Kinds :
             PrepareApplication(e, tx, kind) \/ PrepareControl(e, tx, kind)
  BY <1>3 DEF PrepareApplication, PrepareControl, Prepare
<1>4. CASE \E tx \in Transactions : Discard(e, tx) \/ Download(e, tx)
  BY <1>4 DEF Discard, Download
<1>5. CASE Resume(e)
  BY <1>2, <1>5 DEF Resume
<1>6. CASE \E p \in Paths : Fetch(e, p)
  BY <1>2, <1>6 DEF Fetch
<1>7. CASE Progress(e)
  <2>1. CASE Upload(e)
    BY <1>2, <2>1 DEF Upload
  <2>2. CASE Transmit(e)
    BY <1>2, <2>2 DEF Transmit
  <2>3. CASE Finish(e)
    BY <1>2, <2>3 DEF Finish
  <2>4. CASE Consume(e)
    BY <1>2, <2>4 DEF Consume
  <2>5. CASE SavePage(e)
    BY <1>2, <2>5 DEF SavePage
  <2>6. CASE Collect(e)
    BY <1>2, <2>6 DEF Collect
  <2>. QED BY <1>7, <2>1, <2>2, <2>3, <2>4, <2>5, <2>6 DEF Progress
<1>8. CASE UploadFails(e) \/ TransmitFails(e) \/ TransmitInvalid(e)
  BY <1>2, <1>8 DEF UploadFails, TransmitFails, TransmitInvalid, GiveUp
<1>9. CASE Crash(e)
  BY <1>2, <1>9 DEF Crash
<1>. QED BY <1>3, <1>4, <1>5, <1>6, <1>7, <1>8, <1>9 DEF Step

LEMMA StepAppliesOnce ==
  ASSUME MessagingInv, NEW e \in Endpoints, Step(e)
  PROVE  \A o \in Endpoints : AppliedOnce(o)
<1>1. TypeOK
  BY DEF MessagingInv
<1>2. ASSUME NEW o \in Endpoints, op'[o] = op[o] PROVE AppliedOnce(o)
  <2>1. PICK d \in States : d = op[o].draft
    BY <1>1, OperationFields
  <2>. QED BY ONLY <1>2, <2>1, d \in States, NothingAgain
<1>3. \A o \in Endpoints : o # e => AppliedOnce(o)
  BY <1>1, <1>2, OtherOperation
<1>4. CASE op[e].kind # "receive"
  BY <1>3, <1>4 DEF AppliedOnce
<1>5. CASE op[e].kind = "receive"
  <2>1. Consume(e) \/ SavePage(e) \/ Crash(e)
    BY <1>5 DEF Step, Progress, PrepareApplication, PrepareControl, Prepare, Discard, Download,
       Resume, Fetch, Upload, Transmit, Finish, Collect, Uploading, Sending, Publishing,
       UploadFails, TransmitFails, TransmitInvalid
  <2>2. CASE Consume(e)
    BY <1>3, <2>2, ConsumeKeeps
  <2>3. CASE SavePage(e) \/ Crash(e)
    <3>1. op \in [Endpoints -> Operations]
      BY <1>1 DEF TypeOK
    <3>2. op'[e].kind \in {"idle", "collect"}
      BY <2>3, <3>1, IdleFacts DEF SavePage, Crash, Goto, Idle
    <3>. QED BY <1>3, <3>2 DEF AppliedOnce
  <2>. QED BY <2>1, <2>2, <2>3
<1>. QED BY <1>4, <1>5

\* Nothing is prepared, received or logged yet.
LEMMA InitKeeps == Init => MessagingInv
<1>1. SUFFICES ASSUME Init PROVE MessagingInv
  OBVIOUS
<1>2. NoIntent \in Intents /\ NewState \in States /\ Idle \in Operations
  <2>1. NoProgress \in [Paths -> 0..Packets]
    BY ConstantFacts DEF NoProgress
  <2>. QED BY <2>1, ConstantFacts, IdleFacts DEF NoIntent, Intents, Statuses
<1>3. /\ envelope = [tx \in Transactions |-> NoEnvelope]
      /\ intent = [tx \in Transactions |-> NoIntent]
      /\ outbox = [e \in Endpoints |-> <<>>]
      /\ state = [e \in Endpoints |-> NewState]
      /\ op = [e \in Endpoints |-> Idle]
      /\ box = [e \in Endpoints |-> [p \in Paths |-> <<>>]]
      /\ floor = [e \in Endpoints |-> [p \in Paths |-> 0]]
      /\ blobs = [e \in Endpoints |-> [p \in Paths |-> {}]]
      /\ faults = 0 /\ invalid = <<>>
  BY <1>1 DEF Init
<1>4. /\ <<>> \in Seq(Transactions) /\ <<>> \in Seq(Records) /\ Len(<<>>) = 0
      /\ Range(<<>>) = {} /\ DOMAIN <<>> = {}
  <2>1. DOMAIN <<>> = {}
    OBVIOUS
  <2>. QED BY <2>1 DEF Range
<1>5. TypeOK
  <2>1. /\ envelope \in [Transactions -> Envelopes \cup {NoEnvelope}]
        /\ intent \in [Transactions -> Intents]
    BY <1>2, <1>3
  <2>2. outbox \in [Endpoints -> Seq(Transactions)] /\ state \in [Endpoints -> States]
        /\ op \in [Endpoints -> Operations]
    BY <1>2, <1>3, <1>4
  <2>3. box \in [Endpoints -> [Paths -> Seq(Records)]] /\ floor \in [Endpoints -> [Paths -> Nat]]
        /\ blobs \in [Endpoints -> [Paths -> SUBSET Pieces]]
    BY <1>3, <1>4
  <2>4. faults \in 0..MaxFaults /\ invalid \in Seq(Transactions)
    BY <1>3, <1>4, ConstantFacts
  <2>. QED BY <2>1, <2>2, <2>3, <2>4 DEF TypeOK
<1>6. \A t \in Transactions : ~Sealed(t)
  BY <1>3, <1>5, SealedFacts
<1>7. EnvelopesInv /\ \A t \in Transactions : IntentInv(t)
  <2>1. \A t \in Transactions : intent[t] = NoIntent /\ NoIntent.status = "none"
    BY <1>3 DEF NoIntent
  <2>. QED BY <1>6, <2>1 DEF EnvelopesInv, IntentInv
<1>8. ASSUME NEW e \in Endpoints
      PROVE  OutboxInv(e) /\ RelayInv(e) /\ StateInv(e) /\ OperationInv(e)
  <2>1. Own(e) = {}
    BY <1>5, <1>6, SealedFacts DEF Own
  <2>2. outbox[e] = <<>> /\ state[e] = NewState /\ op[e] = Idle
        /\ \A p \in Paths : box[e][p] = <<>> /\ floor[e][p] = 0
    BY <1>3
  <2>3. OutboxInv(e) /\ RelayInv(e)
    BY <1>4, <2>1, <2>2 DEF OutboxInv, RelayInv
  <2>4. PICK d \in States : d = NewState
    BY <1>2
  <2>5. /\ d.sessions = <<>> /\ d.active = None /\ d.received = <<>> /\ d.forgotten = 0
        /\ \A s \in Transactions : d.chain[s] = NoChain
        /\ \A p \in Paths : d.cursor[p] = 0 /\ d.fragments[p] = {} /\ d.completed[p] = {}
        /\ \A kind \in Controls : d.applied[kind] = 0
    BY <2>4 DEF NewState
  <2>6. ListInv(d) /\ SessionsInv(e, d) /\ Accounts(d)
    BY <1>4, <2>5 DEF ListInv, SessionsInv, Accounts, NoChain
  <2>7. ReceivedInv(e, d) /\ CursorInv(e, d)
    BY <1>4, <2>2, <2>5 DEF ReceivedInv, CursorInv
  <2>8. InOrder(d)
    <3>1. \A kind : Latest(d, 0, kind) = 0
      BY DEF Latest
    <3>. QED BY <1>4, <2>5, <3>1 DEF InOrder
  <2>9. StateInv(e)
    BY <2>1, <2>2, <2>4, <2>5, <2>6, <2>7, <2>8 DEF StateInv, CandidateInv
  <2>10. OperationInv(e)
    BY <2>2, IdleFacts DEF OperationInv
  <2>. QED BY <2>3, <2>9, <2>10
<1>. QED BY <1>5, <1>7, <1>8 DEF MessagingInv

\* The invariant holds in every reachable state.
THEOREM MessagingInvariant == Spec => []MessagingInv
<1>1. Init => MessagingInv
  BY InitKeeps
<1>2. MessagingInv /\ [Next]_vars => MessagingInv'
  BY NextIsStep, StepKeeps, StutterKeeps
<1>. QED BY <1>1, <1>2, PTL DEF Spec

-----------------------------------------------------------------------------
(* The properties of PairwiseMessaging.                                    *)

\* Every variable keeps its type: no counter, cursor or list leaves its range, and
\* every candidate is a state the runtime could save.
THEOREM TypeCorrect == Spec => []TypeOK
<1>1. MessagingInv => TypeOK
  BY DEF MessagingInv
<1>. QED BY <1>1, MessagingInvariant, PTL

\* The receive chain and the history agree: behind the chain's position a key is
\* missing if and only if the event of its counter was received in the session
\* (receiveMessageKey, decryptNativeEnvelopePayload, saveCandidate).
THEOREM ChainsMatchHistory == Spec => []RatchetAccounts
<1>1. MessagingInv => RatchetAccounts
  BY DEF MessagingInv, StateInv, CandidateInv, RatchetAccounts
<1>. QED BY <1>1, MessagingInvariant, PTL

\* No envelope reaches the relay in a session whose bootstrap the peer cannot have,
\* unless the bootstrap's own packets proved invalid (resumeOutbound, discard).
THEOREM SessionsAreIntroduced == Spec => []SessionIntroduced
<1>1. MessagingInv => SessionIntroduced
  BY DEF MessagingInv, RelayInv, Introduced, SessionIntroduced
<1>. QED BY <1>1, MessagingInvariant, PTL

\* Whatever becomes of the copies, controls take effect in the order they were
\* signed (applyReceivedRelationshipControl).
THEOREM ControlsSucceed == Spec => []ControlsInOrder
<1>1. MessagingInv => ControlsInOrder
  BY DEF MessagingInv, StateInv, CandidateInv, ControlsInOrder
<1>. QED BY <1>1, MessagingInvariant, PTL

\* An intent the sender counts as accepted was applied, or the peer can still
\* assemble it from what its reassembler holds and the relay has not collected
\* (resumeOutbound, syncReceive).
THEOREM AcceptedIsKept == Spec => []AcceptedNotLost
<1>1. MessagingInv => AcceptedNotLost
  <2>1. SUFFICES ASSUME MessagingInv, NEW tx \in Transactions,
                        intent[tx].status = "relayAccepted", ~Applied(tx)
                 PROVE  \E p \in Paths : \A part \in 1..Packets :
                          Reachable(Peer(envelope[tx].from), p, [tx |-> tx, part |-> part])
    BY DEF AcceptedNotLost
  <2>2. TypeOK /\ IntentInv(tx)
    BY <2>1 DEF MessagingInv
  <2>3. Sealed(tx) /\ HeldBy(Peer(envelope[tx].from), tx)
    BY <2>1, <2>2 DEF IntentInv
  <2>4. PICK e \in Endpoints : e = Peer(envelope[tx].from)
    BY <2>2, <2>3, SealedFacts, PeerFacts
  <2>5. PICK p \in Paths : \A part \in 1..Packets :
          [tx |-> tx, part |-> part] \in Range(box[e][p])
    BY <2>3, <2>4 DEF HeldBy
  <2>6. PICK d \in States : d = state[e]
    BY <2>2 DEF TypeOK
  <2>7. CursorInv(e, d) /\ floor[e][p] <= d.cursor[p]
    BY <2>1, <2>6 DEF MessagingInv, StateInv, CandidateInv
  <2>8. tx \notin d.completed[p]
    <3>1. d.completed[p] \subseteq Range(d.received)
      BY <2>7 DEF CursorInv
    <3>2. tx \notin Range(d.received)
      BY <2>1, <2>6 DEF Applied
    <3>. QED BY <3>1, <3>2
  <2>9. ASSUME NEW part \in 1..Packets
        PROVE  Reachable(e, p, [tx |-> tx, part |-> part])
    <3>. DEFINE record == [tx |-> tx, part |-> part]
    <3>1. PICK i \in 1..Len(box[e][p]) : box[e][p][i] = record
      BY <2>2, <2>5, BoxFacts
    <3>2. record.tx = tx
      OBVIOUS
    <3>. HIDE DEF record
    <3>3. d.cursor[p] \in Nat /\ floor[e][p] \in Nat /\ Len(box[e][p]) \in Nat
      BY <2>2, StateFields, BoxFacts DEF TypeOK
    <3>4. CASE i <= d.cursor[p]
      <4>1. i \in 1..d.cursor[p]
        BY <3>3, <3>4
      <4>2. record \in d.fragments[p]
        BY <2>7, <2>8, <3>1, <3>2, <4>1 DEF CursorInv
      <4>. QED BY <2>6, <4>2 DEF Reachable, record
    <3>5. CASE ~(i <= d.cursor[p])
      <4>1. i \in (d.cursor[p] + 1)..Len(box[e][p]) /\ i > floor[e][p]
        BY <2>7, <3>3, <3>5
      <4>. QED BY <2>6, <3>1, <4>1 DEF Reachable, record
    <3>. QED BY <3>4, <3>5
  <2>. QED BY <2>4, <2>9
<1>. QED BY <1>1, MessagingInvariant, PTL

\* No envelope takes effect twice in a session that is held: the ratchet refuses
\* what the shortened history no longer recognises (processReceivedBundle).
THEOREM NothingTwice == Spec => AppliesOnce
<1>1. MessagingInv /\ [Next]_vars =>
        [\A e \in Endpoints :
           LET before == op[e].draft
               after == op'[e].draft.received
           IN op[e].kind = "receive" /\ op'[e].kind = "receive" =>
                \A i \in (Len(before.received) + 1)..Len(after) :
                  LET s == envelope[after[i]].session
                  IN Holds(before, s) => after[i] \notin ReceivedIn(before, s)]_vars
  BY NextIsStep, StepAppliesOnce DEF AppliedOnce
<1>. QED BY <1>1, MessagingInvariant, PTL DEF Spec, AppliesOnce
=============================================================================
