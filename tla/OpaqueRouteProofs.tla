--------------------------- MODULE OpaqueRouteProofs ---------------------------
(* Why the reader of an opaque route reads one history of its relay and skips  *)
(* nothing of it, and why the transitions of the route's lease are one chain:  *)
(* proved for any bundles, packets, pages, buffers, requests and bounds.       *)
EXTENDS OpaqueRoute, RouteLease, SequenceTheorems, FiniteSetTheorems, WellFoundedInduction, TLAPS

-----------------------------------------------------------------------------
(* Numbers and sequences *)

LEMMA LeastNatural ==
  ASSUME NEW S \in SUBSET Nat, S # {}
  PROVE  \E m \in S : \A n \in S : m <= n
<1>1. IsWellFoundedOn(OpToRel(<, Nat), Nat)
  BY NatLessThanWellFounded
<1>2. PICK m \in S : \A n \in S : ~ (<<n, m>> \in OpToRel(<, Nat))
  BY <1>1, WFMin
<1>3. \A n \in S : ~ (n < m)
  BY <1>2 DEF OpToRel
<1> QED BY <1>3

LEMMA AppendFacts ==
  ASSUME NEW S, NEW s \in Seq(S), NEW x \in S
  PROVE  /\ Append(s, x) \in Seq(S) /\ Len(Append(s, x)) = Len(s) + 1
         /\ DOMAIN Append(s, x) = 1..Len(s) + 1
         /\ \A i \in 1..Len(s) : Append(s, x)[i] = s[i]
         /\ Append(s, x)[Len(s) + 1] = x
BY AppendProperties

LEMMA ConcatFacts ==
  ASSUME NEW S, NEW s \in Seq(S), NEW t \in Seq(S)
  PROVE  /\ s \o t \in Seq(S) /\ Len(s \o t) = Len(s) + Len(t)
         /\ DOMAIN (s \o t) = 1..Len(s) + Len(t)
         /\ \A i \in 1..Len(s) : (s \o t)[i] = s[i]
         /\ \A i \in 1..Len(t) : (s \o t)[Len(s) + i] = t[i]
OBVIOUS

LEMMA PrefixFacts ==
  ASSUME NEW S, NEW s \in Seq(S), NEW m \in 0..Len(s), NEW n \in m..Len(s)
  PROVE  /\ SubSeq(s, m + 1, n) \in Seq(S) /\ Len(SubSeq(s, m + 1, n)) = n - m
         /\ \A i \in 1..n - m : SubSeq(s, m + 1, n)[i] = s[m + i]
OBVIOUS

LEMMA Bounds ==
  ASSUME NEW a \in Int, NEW b \in Int
  PROVE  /\ Least(a, b) \in {a, b} /\ Least(a, b) <= a /\ Least(a, b) <= b
         /\ Most(a, b) \in {a, b} /\ a <= Most(a, b) /\ b <= Most(a, b)
BY DEF Least, Most

\* The newest tombstones: those there were, and the new one.
LEMMA RememberFacts ==
  ASSUME RouteAssumption, NEW c \in Seq(Bundles), NEW b \in Bundles
  PROVE  /\ Remember(c, b) \in Seq(Bundles) /\ Len(Remember(c, b)) <= MaxTombstones
         /\ \A x : Contains(Remember(c, b), x) => x = b \/ Contains(c, x)
<1> DEFINE all == Append(c, b)
           first == Most(1, Len(all) - MaxTombstones + 1)
<1>1. /\ all \in Seq(Bundles) /\ Len(all) = Len(c) + 1 /\ Len(c) \in Nat
      /\ \A i \in 1..Len(all) : all[i] = b \/ (i \in 1..Len(c) /\ all[i] = c[i])
  BY ONLY c \in Seq(Bundles), b \in Bundles, AppendFacts
<1>2. MaxTombstones \in Nat \ {0}
  BY DEF RouteAssumption
<1>3. first \in 1..Len(all) /\ Len(all) - first + 1 <= MaxTombstones
  BY <1>1, <1>2 DEF Most
<1> DEFINE m == first - 1
<1> HIDE DEF all, first
<1>4. m \in 0..Len(all) /\ m + 1 = first /\ Len(all) \in m..Len(all)
      /\ Len(all) - m <= MaxTombstones
  BY <1>1, <1>3
<1> HIDE DEF m
<1>5. /\ SubSeq(all, m + 1, Len(all)) \in Seq(Bundles)
      /\ Len(SubSeq(all, m + 1, Len(all))) = Len(all) - m
      /\ \A i \in 1..Len(all) - m : SubSeq(all, m + 1, Len(all))[i] = all[m + i]
  <2>1. all \in Seq(Bundles) /\ m \in 0..Len(all) /\ Len(all) \in m..Len(all)
    BY <1>1, <1>4
  <2>2. \A n \in m..Len(all) :
          /\ SubSeq(all, m + 1, n) \in Seq(Bundles)
          /\ Len(SubSeq(all, m + 1, n)) = n - m
          /\ \A i \in 1..n - m : SubSeq(all, m + 1, n)[i] = all[m + i]
    BY ONLY <2>1, PrefixFacts
  <2> QED BY ONLY <2>1, <2>2
<1>6. Remember(c, b) = SubSeq(all, m + 1, Len(all))
  BY <1>4 DEF Remember, all, first
<1>7. ASSUME NEW i \in 1..Len(all) - m PROVE m + i \in 1..Len(all)
  BY <1>1, <1>4
<1>8. ASSUME NEW x, Contains(Remember(c, b), x) PROVE x = b \/ Contains(c, x)
  <2>1. PICK i \in 1..Len(all) - m : Remember(c, b)[i] = x
    BY <1>5, <1>6, <1>8 DEF Contains
  <2>2. all[m + i] = x /\ m + i \in 1..Len(all)
    BY <1>5, <1>6, <1>7, <2>1
  <2> QED BY <1>1, <2>2 DEF Contains
<1> QED BY <1>4, <1>5, <1>6, <1>8

-----------------------------------------------------------------------------
(* The inductive invariant *)

\* A record behind the point the log fell back to was written after that.
LogEras(l, c) ==
  /\ \A i \in DOMAIN l : l[i].era <= Len(c)
  /\ \A i \in DOMAIN l, r \in DOMAIN c : i > c[r] => l[i].era >= r

\* So it is with records the reader holds, once one of them is as new; and while
\* the relay has lost nothing they are the first records of its log.
OneHistory(s, l, c) ==
  /\ \A i \in DOMAIN s : s[i].era <= Len(c)
  /\ \A i, k \in DOMAIN s, r \in DOMAIN c :
       i > c[r] /\ s[k].era >= r => s[i].era >= r
  /\ c = <<>> => Len(s) <= Len(l) /\ \A i \in DOMAIN s : s[i] = l[i]

Reading ==
  batch # NoBatch =>
    disk.gap = FALSE /\ OneHistory(disk.read \o batch.records, log, cuts)

\* The relay collects what it was told is read, and is told what is durable.
CollectedIsRead ==
  /\ collected <= Len(disk.read)
  /\ lapses = 0 => floor <= collected

\* The fragments of a bundle among the first n records.
Behind(s, n, b) ==
  {s[i].packet.part : i \in {k \in 1..n : s[k].packet.bundle = b}}

\* Once n records are read, a sound bundle is delivered, or some fragment is
\* missing and the buffer has the others; no damaged one is.
Accounted(state, s, n) ==
  \A b \in Bundles :
    /\ Contains(state.buffer.completed, b) => Contains(state.delivered, b)
    /\ b \in Damaged => ~Contains(state.delivered, b)
    /\ b \notin Damaged =>
         \/ Contains(state.delivered, b)
         \/ /\ Behind(s, n, b) # 1..Parts[b]
            /\ ~state.gap => state.buffer.pending[b] = Behind(s, n, b)

RouteInv ==
  /\ TypeOK
  /\ LogEras(log, cuts) /\ OneHistory(disk.read, log, cuts) /\ Reading
  /\ CollectedIsRead /\ GapOnlyAfterLoss
  /\ Accounted(disk, disk.read, Len(disk.read))

-----------------------------------------------------------------------------
(* One packet through the reassembler *)

Buffered(pending) == {c \in Bundles : pending[c] # {}}

LEMMA Shape ==
  ASSUME NEW state \in Disks
  PROVE  /\ state \in [read: Seq(Records), gap: BOOLEAN, buffer: Buffers,
                       delivered: Seq(Bundles), quarantined: SUBSET Packets]
         /\ state.buffer \in [pending: [Bundles -> SUBSET Nat], completed: Seq(Bundles)]
         /\ state.buffer.pending \in [Bundles -> SUBSET Nat]
         /\ state.buffer.completed \in Seq(Bundles)
         /\ Len(state.buffer.completed) <= MaxTombstones
         /\ Cardinality(Buffered(state.buffer.pending)) <= MaxBuffered
<1>1. state.buffer \in Buffers
  BY DEF Disks
<1>2. /\ state.buffer \in [pending: [Bundles -> SUBSET Nat], completed: Seq(Bundles)]
      /\ Len(state.buffer.completed) <= MaxTombstones
      /\ Cardinality({b \in Bundles : state.buffer.pending[b] # {}}) <= MaxBuffered
  BY ONLY <1>1 DEF Buffers
<1> QED BY <1>2 DEF Disks, Buffered

LEMMA MakeBuffer ==
  ASSUME NEW pending \in [Bundles -> SUBSET Nat], NEW completed \in Seq(Bundles),
         Cardinality(Buffered(pending)) <= MaxBuffered,
         Len(completed) <= MaxTombstones
  PROVE  [pending |-> pending, completed |-> completed] \in Buffers
<1> DEFINE new == [pending |-> pending, completed |-> completed]
<1>1. new \in [pending: [Bundles -> SUBSET Nat], completed: Seq(Bundles)]
  OBVIOUS
<1>2. new.pending = pending /\ new.completed = completed
  OBVIOUS
<1> HIDE DEF new
<1>3. Cardinality({c \in Bundles : new.pending[c] # {}}) <= MaxBuffered
  BY <1>2 DEF Buffered
<1>4. new \in Buffers
  BY ONLY <1>1, <1>2, <1>3, Len(completed) <= MaxTombstones DEF Buffers
<1> QED BY <1>4 DEF new

Becomes(state, next, buffer, delivered) ==
  next = [read |-> state.read, gap |-> state.gap, buffer |-> buffer,
          delivered |-> delivered, quarantined |-> state.quarantined]

LEMMA MakeDisk ==
  ASSUME NEW state \in [read: Seq(Records), gap: BOOLEAN, buffer: Buffers,
                        delivered: Seq(Bundles), quarantined: SUBSET Packets],
         NEW next, NEW buffer \in Buffers, NEW delivered \in Seq(Bundles),
         Becomes(state, next, buffer, delivered)
  PROVE  next \in Disks /\ next.gap = state.gap /\ next.read = state.read
BY ONLY Becomes(state, next, buffer, delivered),
        state \in [read: Seq(Records), gap: BOOLEAN, buffer: Buffers,
                   delivered: Seq(Bundles), quarantined: SUBSET Packets],
        buffer \in Buffers, delivered \in Seq(Bundles)
   DEF Becomes, Disks

LEMMA PacketShape ==
  ASSUME RouteAssumption, NEW p \in Packets
  PROVE  p.bundle \in Bundles /\ p.part \in Nat /\ p.part \in 1..Parts[p.bundle]
BY DEF RouteAssumption, Sealed

\* A bundle more in the buffer: there was room for it, or it was there.
LEMMA BufferBound ==
  ASSUME RouteAssumption, NEW pending \in [Bundles -> SUBSET Nat], NEW b \in Bundles,
         NEW parts \in SUBSET Nat,
         Cardinality(Buffered(pending)) <= MaxBuffered,
         \/ parts = {} \/ pending[b] # {} \/ Cardinality(Buffered(pending)) < MaxBuffered
  PROVE  Cardinality(Buffered([pending EXCEPT ![b] = parts])) <= MaxBuffered
<1> DEFINE Was == Buffered(pending)
           Is == Buffered([pending EXCEPT ![b] = parts])
<1>1. IsFiniteSet(Bundles) /\ MaxBuffered \in Nat
  BY DEF RouteAssumption
<1>2. Was \subseteq Bundles /\ Is \subseteq Was \cup {b}
  BY DEF Buffered
<1>3. IsFiniteSet(Was) /\ IsFiniteSet(Was \cup {b})
  BY <1>1, <1>2, FS_Subset, FS_AddElement
<1>4. Cardinality(Was) \in Nat /\ Cardinality(Is) \in Nat
  BY <1>2, <1>3, FS_Subset, FS_CardinalityType
<1>5. CASE parts = {} \/ pending[b] # {}
  <2>1. Is \subseteq Was
    BY <1>5 DEF Buffered
  <2>2. Cardinality(Is) <= Cardinality(Was)
    BY <2>1, <1>3, FS_Subset
  <2> QED BY <2>2, <1>1, <1>4
<1>6. CASE Cardinality(Was) < MaxBuffered
  <2>1. Cardinality(Is) <= Cardinality(Was \cup {b})
    BY <1>2, <1>3, FS_Subset
  <2>2. Cardinality(Was \cup {b}) <= Cardinality(Was) + 1
    BY <1>3, <1>4, FS_AddElement
  <2>3. Cardinality(Was \cup {b}) \in Nat
    BY <1>3, FS_CardinalityType
  <2> QED BY ONLY <2>1, <2>2, <2>3, <1>1, <1>4, <1>6
<1> QED BY <1>5, <1>6

\* What the verdicts that let a page stand do.
Ignored(state, next, p) ==
  /\ next.buffer = state.buffer /\ next.delivered = state.delivered
  /\ \/ p.bundle \in Damaged \/ Contains(state.buffer.completed, p.bundle)
     \/ p.part \in state.buffer.pending[p.bundle]
Stored(state, next, p) ==
  LET parts == state.buffer.pending[p.bundle] \cup {p.part} IN
  /\ next.buffer.pending = [state.buffer.pending EXCEPT ![p.bundle] = parts]
  /\ next.buffer.completed = state.buffer.completed
  /\ next.delivered = state.delivered
  /\ parts # 1..Parts[p.bundle]
Delivered(state, next, p) ==
  /\ next.buffer.pending = [state.buffer.pending EXCEPT ![p.bundle] = {}]
  /\ next.buffer.completed = Remember(state.buffer.completed, p.bundle)
  /\ next.delivered = Append(state.delivered, p.bundle)
  /\ p.bundle \notin Damaged

LEMMA ConsumeFacts ==
  ASSUME RouteAssumption, NEW state \in Disks, NEW p \in Packets,
         Verdict(state.buffer, p) # "capacityExceeded"
  PROVE  LET next == Consume(state, p) IN
         /\ next \in Disks /\ next.gap = state.gap /\ next.read = state.read
         /\ Ignored(state, next, p) \/ Stored(state, next, p) \/ Delivered(state, next, p)
<1> DEFINE b == p.bundle
           part == p.part
           verdict == Verdict(state.buffer, p)
           next == Consume(state, p)
           pending == state.buffer.pending
           completed == state.buffer.completed
           parts == pending[b] \cup {part}
<1>1. b \in Bundles /\ part \in Nat /\ part \in 1..Parts[b]
  BY PacketShape
<1>2. /\ state \in [read: Seq(Records), gap: BOOLEAN, buffer: Buffers,
                    delivered: Seq(Bundles), quarantined: SUBSET Packets]
      /\ state.buffer \in [pending: [Bundles -> SUBSET Nat], completed: Seq(Bundles)]
      /\ pending \in [Bundles -> SUBSET Nat]
      /\ completed \in Seq(Bundles)
      /\ Len(completed) <= MaxTombstones
      /\ Cardinality(Buffered(pending)) <= MaxBuffered
  BY Shape
<1>3. CASE verdict = "accepted"
  <2> HIDE DEF b, part, next, pending, completed, parts
  <2>1. next = [state EXCEPT !.buffer.pending[b] = parts]
    BY <1>3 DEF Consume, b, part, next, pending, parts, verdict
  <2>2. /\ parts # 1..Parts[b]
        /\ pending[b] # {} \/ ~ (Cardinality(Pending(state.buffer)) >= MaxBuffered)
    BY <1>3 DEF Verdict, Whole, b, part, pending, parts, verdict
  <2>3. parts \in SUBSET Nat
    BY <1>1, <1>2 DEF parts
  <2>4. Cardinality(Pending(state.buffer)) \in Nat /\ MaxBuffered \in Nat
    <3>1. Pending(state.buffer) \subseteq Bundles /\ IsFiniteSet(Bundles)
      BY DEF RouteAssumption, Pending
    <3> QED BY <3>1, FS_Subset, FS_CardinalityType DEF RouteAssumption
  <2>5. \/ pending[b] # {}
        \/ Cardinality(Buffered(pending)) < MaxBuffered
    BY <2>2, <2>4 DEF Pending, Buffered, pending
  <2>6. Cardinality(Buffered([pending EXCEPT ![b] = parts])) <= MaxBuffered
    BY ONLY RouteAssumption, <1>1, <1>2, <2>3, <2>5, BufferBound
  <2>7. /\ next.buffer = [pending |-> [pending EXCEPT ![b] = parts], completed |-> completed]
        /\ Becomes(state, next, next.buffer, state.delivered)
    BY ONLY <1>2, <2>1 DEF pending, completed, Becomes
  <2>8. [pending EXCEPT ![b] = parts] \in [Bundles -> SUBSET Nat]
    BY ONLY <1>2, <2>3
  <2>9. next.buffer \in Buffers
    <3>1. [pending |-> [pending EXCEPT ![b] = parts], completed |-> completed] \in Buffers
      <4>1. completed \in Seq(Bundles) /\ Len(completed) <= MaxTombstones
        BY <1>2
      <4> QED BY ONLY <4>1, <2>6, <2>8, MakeBuffer
    <3> QED BY ONLY <3>1, <2>7
  <2>10. next \in Disks /\ next.gap = state.gap /\ next.read = state.read
    BY ONLY <1>2, <2>7, <2>9, MakeDisk
  <2>11. Stored(state, next, p)
    BY ONLY <2>2, <2>7 DEF Becomes, Stored, b, part, pending, completed, parts
  <2> QED BY <2>10, <2>11 DEF next
<1>4. CASE verdict = "complete"
  <2> HIDE DEF b, part, next, pending, completed, parts
  <2>1. next = [state EXCEPT !.buffer.pending[b] = {},
                             !.buffer.completed = Remember(completed, b),
                             !.delivered = Append(state.delivered, b)]
    BY <1>4 DEF Consume, b, part, next, completed, verdict
  <2>2. b \notin Damaged
    BY <1>4 DEF Verdict, DigestMatches, b, verdict
  <2>3. /\ Remember(completed, b) \in Seq(Bundles)
        /\ Len(Remember(completed, b)) <= MaxTombstones
    BY ONLY RouteAssumption, <1>1, <1>2, RememberFacts
  <2>4. Cardinality(Buffered([pending EXCEPT ![b] = {}])) <= MaxBuffered
    <3>1. {} \in SUBSET Nat
      OBVIOUS
    <3> QED BY ONLY RouteAssumption, <1>1, <1>2, <3>1, BufferBound
  <2>5. /\ next.buffer = [pending |-> [pending EXCEPT ![b] = {}],
                          completed |-> Remember(completed, b)]
        /\ Becomes(state, next, next.buffer, Append(state.delivered, b))
    BY ONLY <1>2, <2>1 DEF pending, Becomes
  <2>6. [pending EXCEPT ![b] = {}] \in [Bundles -> SUBSET Nat]
    BY ONLY <1>2
  <2>7. next.buffer \in Buffers
    BY ONLY <2>3, <2>4, <2>5, <2>6, MakeBuffer
  <2>8. Append(state.delivered, b) \in Seq(Bundles)
    BY ONLY <1>1, <1>2, AppendFacts
  <2>9. next \in Disks /\ next.gap = state.gap /\ next.read = state.read
    BY ONLY <1>2, <2>5, <2>7, <2>8, MakeDisk
  <2>10. Delivered(state, next, p)
    BY ONLY <2>2, <2>5 DEF Becomes, Delivered, b, pending, completed
  <2> QED BY <2>9, <2>10 DEF next
<1>5. CASE verdict \notin {"accepted", "complete"}
  <2> HIDE DEF b, part, next, pending, completed, parts
  <2>1. \/ next = state
        \/ next = [state EXCEPT !.quarantined = @ \cup {p}]
    BY <1>5 DEF Consume, next, verdict
  <2>2. \/ b \in Damaged \/ Contains(completed, b) \/ part \in pending[b]
    BY <1>5 DEF Verdict, DigestMatches, b, part, pending, completed, verdict
  <2>3. /\ next \in Disks /\ next.gap = state.gap /\ next.read = state.read
        /\ next.buffer = state.buffer /\ next.delivered = state.delivered
    BY ONLY <1>2, <2>1, p \in Packets DEF Disks
  <2>4. Ignored(state, next, p)
    BY ONLY <2>2, <2>3 DEF Ignored, b, part, pending, completed
  <2> QED BY <2>3, <2>4 DEF next
<1> QED BY <1>3, <1>4, <1>5

-----------------------------------------------------------------------------
(* A page *)

\* The recursion of ReadPage has a solution: the one for a first part of the
\* page extends to the next record.
LEMMA ReadPageSteps ==
  ASSUME NEW page \in Batches, NEW state
  PROVE  /\ ReadPage(page, state)[0] = state
         /\ \A n \in 1..Len(page.records) :
              ReadPage(page, state)[n]
                = Consume(ReadPage(page, state)[n - 1], page.records[n].packet)
<1> DEFINE N == Len(page.records)
           Step(f, n) == IF n = 0 THEN state ELSE Consume(f[n - 1], page.records[n].packet)
           Solved(n) == \E f : f = [k \in 0..n |-> Step(f, k)]
           Unsolved == {n \in 0..N : ~Solved(n)}
<1>1. N \in Nat
  BY DEF Batches
<1>2. Unsolved = {}
  <2>1. SUFFICES ASSUME Unsolved # {} PROVE FALSE
    OBVIOUS
  <2>2. Unsolved \in SUBSET Nat
    BY <1>1
  <2>3. PICK m \in Unsolved : \A n \in Unsolved : m <= n
    BY <2>1, <2>2, LeastNatural
  <2>4. m \in 0..N /\ ~Solved(m)
    BY <2>3
  <2>5. CASE m = 0
    <3>1. [k \in 0..0 |-> state] = [k \in 0..0 |-> Step([j \in 0..0 |-> state], k)]
      OBVIOUS
    <3> QED BY <3>1, <2>4, <2>5
  <2>6. CASE m # 0
    <3>1. m - 1 \in 0..N /\ m - 1 \notin Unsolved
      BY <1>1, <2>3, <2>4, <2>6
    <3>2. PICK f : f = [k \in 0..m - 1 |-> Step(f, k)]
      BY <3>1
    <3> DEFINE g == [k \in 0..m |-> IF k = m THEN Consume(f[m - 1], page.records[m].packet)
                                     ELSE f[k]]
    <3>3. ASSUME NEW k \in 0..m PROVE g[k] = Step(g, k)
      <4>1. CASE k = m
        BY <4>1, <1>1, <2>4, <2>6
      <4>2. CASE k # m
        <5>1. k \in 0..m - 1 /\ (k # 0 => k - 1 \in 0..m /\ k - 1 # m /\ k - 1 \in 0..m - 1)
          BY <4>2, <1>1, <2>4, <2>6
        <5>2. g[k] = f[k] /\ (k # 0 => g[k - 1] = f[k - 1])
          BY <4>2, <5>1
        <5>3. f[k] = Step(f, k)
          BY <3>2, <5>1
        <5> HIDE DEF g
        <5> QED BY <5>2, <5>3
      <4> QED BY <4>1, <4>2
    <3>4. g = [k \in 0..m |-> Step(g, k)]
      BY <3>3
    <3> HIDE DEF g
    <3> QED BY <3>4, <2>4
  <2> QED BY <2>5, <2>6
<1>3. \E f : f = [k \in 0..N |-> Step(f, k)]
  BY <1>1, <1>2
<1>4. ReadPage(page, state) = [k \in 0..N |-> Step(ReadPage(page, state), k)]
  BY <1>3 DEF ReadPage
<1> HIDE DEF N
<1>5. \A k \in 0..N : ReadPage(page, state)[k] = Step(ReadPage(page, state), k)
  BY <1>4
<1>6. 0 \in 0..N /\ \A n \in 1..N : n \in 0..N /\ n # 0
  BY <1>1
<1> QED BY <1>5, <1>6 DEF N

LEMMA BehindStep ==
  ASSUME NEW s \in Seq(Records), NEW n \in 1..Len(s), NEW b
  PROVE  Behind(s, n, b) = IF s[n].packet.bundle = b
                           THEN Behind(s, n - 1, b) \cup {s[n].packet.part}
                           ELSE Behind(s, n - 1, b)
<1>1. 1..n = (1..n - 1) \cup {n}
  OBVIOUS
<1>2. {k \in 1..n : s[k].packet.bundle = b}
        = {k \in 1..n - 1 : s[k].packet.bundle = b}
          \cup (IF s[n].packet.bundle = b THEN {n} ELSE {})
  BY <1>1
<1> QED BY <1>2 DEF Behind

LEMMA ContainsAppend ==
  ASSUME NEW S, NEW s \in Seq(S), NEW x \in S, NEW y
  PROVE  Contains(Append(s, x), y) <=> (y = x \/ Contains(s, y))
<1>1. /\ Len(s) \in Nat /\ Len(Append(s, x)) = Len(s) + 1
      /\ \A i \in 1..Len(s) : Append(s, x)[i] = s[i]
      /\ Append(s, x)[Len(s) + 1] = x
  BY AppendFacts
<1>2. 1..Len(s) + 1 = (1..Len(s)) \cup {Len(s) + 1}
  BY <1>1
<1> QED BY <1>1, <1>2 DEF Contains

\* A record more is accounted for as the records before it were.
LEMMA AccountedStep ==
  ASSUME RouteAssumption, NEW state \in Disks, NEW s \in Seq(Records),
         NEW n \in 1..Len(s), Accounted(state, s, n - 1), state.gap = FALSE,
         Verdict(state.buffer, s[n].packet) # "capacityExceeded"
  PROVE  /\ Consume(state, s[n].packet) \in Disks
         /\ Consume(state, s[n].packet).gap = state.gap
         /\ Consume(state, s[n].packet).read = state.read
         /\ Accounted(Consume(state, s[n].packet), s, n)
<1> DEFINE p == s[n].packet
           next == Consume(state, p)
           c == p.bundle
<1>1. p \in Packets
  <2>1. s[n] \in Records
    OBVIOUS
  <2> QED BY <2>1 DEF Records
<1>2. c \in Bundles /\ p.part \in Nat /\ p.part \in 1..Parts[c]
  BY <1>1, PacketShape
<1>3. /\ next \in Disks /\ next.gap = state.gap /\ next.read = state.read
      /\ Ignored(state, next, p) \/ Stored(state, next, p) \/ Delivered(state, next, p)
  BY <1>1, ConsumeFacts
<1>4. /\ state.buffer.pending \in [Bundles -> SUBSET Nat]
      /\ state.buffer.completed \in Seq(Bundles) /\ state.delivered \in Seq(Bundles)
  BY Shape
<1> HIDE DEF next
<1>5. ASSUME NEW b \in Bundles
      PROVE  /\ Contains(next.buffer.completed, b) => Contains(next.delivered, b)
             /\ b \in Damaged => ~Contains(next.delivered, b)
             /\ b \notin Damaged =>
                  \/ Contains(next.delivered, b)
                  \/ /\ Behind(s, n, b) # 1..Parts[b]
                     /\ ~next.gap => next.buffer.pending[b] = Behind(s, n, b)
  <2>1. /\ Contains(state.buffer.completed, b) => Contains(state.delivered, b)
        /\ b \in Damaged => ~Contains(state.delivered, b)
        /\ b \notin Damaged =>
             \/ Contains(state.delivered, b)
             \/ /\ Behind(s, n - 1, b) # 1..Parts[b]
                /\ state.buffer.pending[b] = Behind(s, n - 1, b)
    BY <1>5 DEF Accounted
  <2>2. Behind(s, n, b) = IF c = b THEN Behind(s, n - 1, b) \cup {p.part}
                          ELSE Behind(s, n - 1, b)
    BY BehindStep
  <2> HIDE DEF c
  <2>3. CASE Ignored(state, next, p)
    <3>1. /\ next.buffer = state.buffer /\ next.delivered = state.delivered
          /\ c \in Damaged \/ Contains(state.buffer.completed, c)
             \/ p.part \in state.buffer.pending[c]
      BY <2>3 DEF Ignored, c
    <3> HIDE DEF p
    <3> QED BY ONLY <3>1, <2>1, <2>2
  <2>4. CASE Stored(state, next, p)
    <3>1. /\ next.buffer.pending
               = [state.buffer.pending EXCEPT ![c] = state.buffer.pending[c] \cup {p.part}]
          /\ next.buffer.completed = state.buffer.completed
          /\ next.delivered = state.delivered
          /\ state.buffer.pending[c] \cup {p.part} # 1..Parts[c]
      BY <2>4 DEF Stored, c
    <3> HIDE DEF p
    <3>2. next.buffer.pending[b] = IF c = b THEN state.buffer.pending[c] \cup {p.part}
                                   ELSE state.buffer.pending[b]
      BY ONLY <3>1, <1>2, <1>4, b \in Bundles
    <3> QED BY ONLY <3>1, <3>2, <2>1, <2>2
  <2>5. CASE Delivered(state, next, p)
    <3>1. /\ next.buffer.pending = [state.buffer.pending EXCEPT ![c] = {}]
          /\ next.buffer.completed = Remember(state.buffer.completed, c)
          /\ next.delivered = Append(state.delivered, c)
          /\ c \notin Damaged
      BY <2>5 DEF Delivered, c
    <3>2. Contains(next.delivered, b) <=> (b = c \/ Contains(state.delivered, b))
      BY <3>1, <1>2, <1>4, ContainsAppend
    <3>3. Contains(next.buffer.completed, b) => b = c \/ Contains(state.buffer.completed, b)
      <4>1. \A x : Contains(Remember(state.buffer.completed, c), x)
                     => x = c \/ Contains(state.buffer.completed, x)
        BY ONLY RouteAssumption, <1>2, <1>4, RememberFacts
      <4> QED BY ONLY <4>1, <3>1
    <3>4. c # b => next.buffer.pending[b] = state.buffer.pending[b]
      BY ONLY <3>1, <1>2, <1>4, b \in Bundles
    <3> HIDE DEF p
    <3> QED BY ONLY <3>1, <3>2, <3>3, <3>4, <2>1, <2>2
  <2> QED BY <1>3, <2>3, <2>4, <2>5
<1>6. Accounted(next, s, n)
  BY <1>5 DEF Accounted
<1> QED BY <1>3, <1>6 DEF next

LEMMA BehindOnly ==
  ASSUME NEW s \in Seq(Records), NEW t \in Seq(Records), NEW n \in Nat,
         \A k \in 1..n : s[k] = t[k], NEW b
  PROVE  Behind(s, n, b) = Behind(t, n, b)
<1>1. {k \in 1..n : s[k].packet.bundle = b} = {k \in 1..n : t[k].packet.bundle = b}
  OBVIOUS
<1> QED BY <1>1 DEF Behind

\* What an applied page leaves: all of its records are accounted for, or it was
\* refused and the disk is as it was.
LEMMA PageAccounted ==
  ASSUME RouteAssumption, NEW state \in Disks, NEW page \in Batches,
         Accounted(state, state.read, Len(state.read)), state.gap = FALSE
  PROVE  LET next == Applied(page, state) IN
         /\ next \in Disks /\ next.gap = state.gap
         /\ next.read = state.read \/ next.read = state.read \o page.records
         /\ Accounted(next, next.read, Len(next.read))
<1> DEFINE N == Len(page.records)
           all == state.read \o page.records
           held == Len(state.read)
           after == ReadPage(page, state)
<1>1. CASE Refused(page, state)
  <2>1. Applied(page, state) = state
    BY <1>1 DEF Applied
  <2> QED BY <2>1
<1>2. CASE ~Refused(page, state)
  <2>1. page.records \in Seq(Records) /\ state.read \in Seq(Records)
    BY DEF Batches, Disks
  <2>2. /\ all \in Seq(Records) /\ Len(all) = held + N /\ held \in Nat /\ N \in Nat
        /\ \A i \in 1..held : all[i] = state.read[i]
        /\ \A i \in 1..N : all[held + i] = page.records[i]
    <3> DEFINE old == state.read
               new == page.records
    <3>1. old \in Seq(Records) /\ new \in Seq(Records)
      BY <2>1
    <3> HIDE DEF old, new
    <3>2. /\ old \o new \in Seq(Records) /\ Len(old \o new) = Len(old) + Len(new)
          /\ Len(old) \in Nat /\ Len(new) \in Nat
          /\ \A i \in 1..Len(old) : (old \o new)[i] = old[i]
          /\ \A i \in 1..Len(new) : (old \o new)[Len(old) + i] = new[i]
      BY ONLY <3>1, ConcatFacts
    <3> QED BY ONLY <3>2 DEF old, new
  <2>3. /\ after[0] = state
        /\ \A n \in 1..N : after[n] = Consume(after[n - 1], page.records[n].packet)
    BY ReadPageSteps
  <2>4. \A n \in 1..N :
          Verdict(after[n - 1].buffer, page.records[n].packet) # "capacityExceeded"
    BY <1>2, <2>1 DEF Refused
  <2> HIDE DEF N, all, held, after
  <2> DEFINE Good(n) == /\ after[n] \in Disks /\ after[n].gap = state.gap
                        /\ after[n].read = state.read
                        /\ Accounted(after[n], all, held + n)
             Bad == {n \in 0..N : ~Good(n)}
  <2>5. Good(0)
    <3>1. ASSUME NEW b PROVE Behind(state.read, held, b) = Behind(all, held, b)
      <4>1. \A k \in 1..held : state.read[k] = all[k]
        BY <2>2
      <4> QED BY ONLY <4>1, <2>1, <2>2, BehindOnly
    <3>2. Accounted(state, all, held)
      BY <3>1 DEF Accounted, held
    <3> QED BY <2>2, <2>3, <3>2
  <2>6. ASSUME NEW n \in 1..N, Good(n - 1) PROVE Good(n)
    <3> DEFINE was == after[n - 1]
               at == held + n
    <3>1. /\ at \in 1..Len(all) /\ at - 1 = held + (n - 1) /\ all[at] = page.records[n]
      BY <2>2
    <3>2. /\ was \in Disks /\ was.gap = state.gap /\ was.read = state.read
          /\ Accounted(was, all, at - 1)
          /\ Verdict(was.buffer, all[at].packet) # "capacityExceeded"
          /\ after[n] = Consume(was, all[at].packet)
      BY <2>3, <2>4, <2>6, <3>1
    <3> HIDE DEF was, at, Good
    <3>3. was.gap = FALSE
      BY <3>2
    <3>4. /\ after[n] \in Disks /\ after[n].gap = was.gap /\ after[n].read = was.read
          /\ Accounted(after[n], all, at)
      <4>1. \A j \in 1..Len(all) :
              /\ Accounted(was, all, j - 1)
              /\ Verdict(was.buffer, all[j].packet) # "capacityExceeded"
              => /\ Consume(was, all[j].packet) \in Disks
                 /\ Consume(was, all[j].packet).gap = was.gap
                 /\ Consume(was, all[j].packet).read = was.read
                 /\ Accounted(Consume(was, all[j].packet), all, j)
        <5>1. was \in Disks /\ all \in Seq(Records)
          BY <2>2, <3>2
        <5> QED BY ONLY RouteAssumption, <5>1, <3>3, AccountedStep
      <4> QED BY ONLY <4>1, <3>1, <3>2
    <3> QED BY <3>2, <3>4 DEF Good, at
  <2>7. Bad = {}
    <3>1. SUFFICES ASSUME Bad # {} PROVE FALSE
      OBVIOUS
    <3>2. PICK m \in Bad : \A n \in Bad : m <= n
      <4>1. Bad \in SUBSET Nat
        BY ONLY <2>2
      <4> HIDE DEF Bad
      <4> QED BY ONLY <4>1, <3>1, LeastNatural
    <3>3. m # 0 /\ m \in 1..N /\ m - 1 \in 0..N /\ m - 1 \notin Bad
      BY <2>2, <2>5, <3>2
    <3> HIDE DEF Good
    <3> QED BY <2>6, <3>2, <3>3
  <2>8. Good(N)
    BY <2>2, <2>7
  <2> DEFINE last == after[N]
             next == Applied(page, state)
  <2>9. next = [last EXCEPT !.read = state.read \o page.records]
    <3>1. last.read = state.read
      BY <2>8
    <3>2. next = [last EXCEPT !.read = last.read \o page.records]
      BY <1>2 DEF Applied, after, N
    <3> QED BY <3>1, <3>2
  <2>10. last \in Disks /\ last.gap = state.gap /\ Accounted(last, all, held + N)
    BY <2>8
  <2> HIDE DEF last, next
  <2>11. /\ next \in Disks /\ next.gap = last.gap /\ next.read = all
         /\ next.buffer = last.buffer /\ next.delivered = last.delivered
    <3>1. last \in [read: Seq(Records), gap: BOOLEAN, buffer: Buffers,
                    delivered: Seq(Bundles), quarantined: SUBSET Packets]
      BY <2>10 DEF Disks
    <3>2. next = [last EXCEPT !.read = all]
      BY <2>9 DEF all
    <3> QED BY ONLY <2>2, <3>1, <3>2 DEF Disks
  <2>12. Accounted(next, all, Len(all))
    BY ONLY <2>2, <2>10, <2>11 DEF Accounted
  <2> QED BY <2>10, <2>11, <2>12 DEF all, next
<1> QED BY <1>1, <1>2

-----------------------------------------------------------------------------
(* The relay's log, and what the reader holds of it *)

LEMMA EnqueueHistory ==
  ASSUME NEW l \in Seq(Records), NEW c \in Seq(Nat), NEW x \in Records, x.era = Len(c)
  PROVE  /\ LogEras(l, c) => LogEras(Append(l, x), c)
         /\ \A s \in Seq(Records) : OneHistory(s, l, c) => OneHistory(s, Append(l, x), c)
<1> DEFINE m == Append(l, x)
<1>1. /\ m \in Seq(Records) /\ Len(m) = Len(l) + 1 /\ Len(l) \in Nat /\ Len(c) \in Nat
      /\ \A i \in 1..Len(l) : m[i] = l[i]
      /\ m[Len(l) + 1] = x
  BY AppendFacts
<1> HIDE DEF m
<1>2. ASSUME LogEras(l, c) PROVE LogEras(m, c)
  <2>1. ASSUME NEW i \in 1..Len(m)
        PROVE  m[i].era <= Len(c) /\ \A r \in 1..Len(c) : i > c[r] => m[i].era >= r
    <3>1. CASE i \in 1..Len(l)
      BY <1>1, <1>2, <3>1 DEF LogEras
    <3>2. CASE i = Len(l) + 1
      BY <1>1, <3>2
    <3> QED BY <1>1, <2>1, <3>1, <3>2
  <2> QED BY <1>1, <2>1 DEF LogEras
<1>3. ASSUME NEW s \in Seq(Records), OneHistory(s, l, c) PROVE OneHistory(s, m, c)
  <2>1. c = <<>> => Len(s) <= Len(m) /\ \A i \in DOMAIN s : s[i] = m[i]
    <3>1. Len(s) \in Nat /\ DOMAIN s = 1..Len(s)
      OBVIOUS
    <3>2. c = <<>> => Len(s) <= Len(l) /\ \A i \in DOMAIN s : s[i] = l[i]
      BY <1>3 DEF OneHistory
    <3> QED BY ONLY <3>1, <3>2, <1>1
  <2> QED BY <1>3, <2>1 DEF OneHistory
<1> QED BY <1>2, <1>3 DEF m

LEMMA RestoreHistory ==
  ASSUME NEW l \in Seq(Records), NEW c \in Seq(Nat), NEW length \in 0..Len(l)
  PROVE  LET m == SubSeq(l, 1, length)
             d == Append(c, length) IN
         /\ LogEras(l, c) => LogEras(m, d)
         /\ \A s \in Seq(Records) : OneHistory(s, l, c) => OneHistory(s, m, d)
<1> DEFINE m == SubSeq(l, 1, length)
           d == Append(c, length)
<1>1. /\ m \in Seq(Records) /\ Len(m) = length /\ Len(l) \in Nat
      /\ \A i \in 1..length : m[i] = l[i]
  OBVIOUS
<1>2. /\ d \in Seq(Nat) /\ Len(d) = Len(c) + 1 /\ Len(c) \in Nat
      /\ \A r \in 1..Len(c) : d[r] = c[r]
      /\ d[Len(c) + 1] = length
  BY AppendFacts
<1>3. d # <<>> /\ length \in Nat
  BY <1>2
<1> HIDE DEF m, d
<1>4. ASSUME NEW x \in Records PROVE x.era \in Nat
  BY DEF Records
<1>5. ASSUME LogEras(l, c) PROVE LogEras(m, d)
  <2>1. ASSUME NEW i \in 1..Len(m)
        PROVE  m[i].era <= Len(d) /\ \A r \in 1..Len(d) : i > d[r] => m[i].era >= r
    <3>1. i \in 1..Len(l) /\ m[i] = l[i] /\ l[i] \in Records /\ i \in Nat /\ i <= length
      BY <1>1
    <3>2. l[i].era <= Len(c) /\ \A r \in 1..Len(c) : i > c[r] => l[i].era >= r
      BY <1>5, <3>1 DEF LogEras
    <3>3. l[i].era \in Nat
      BY <1>4, <3>1
    <3>4. ASSUME NEW r \in 1..Len(d), i > d[r] PROVE l[i].era >= r
      <4>1. r # Len(c) + 1
        BY <1>2, <1>3, <3>1, <3>4
      <4>2. r \in 1..Len(c) /\ d[r] = c[r]
        BY <1>2, <4>1
      <4> QED BY <3>2, <3>4, <4>2
    <3> QED BY <1>2, <3>1, <3>2, <3>3, <3>4
  <2> QED BY <1>1, <2>1 DEF LogEras
<1>6. ASSUME NEW s \in Seq(Records), OneHistory(s, l, c) PROVE OneHistory(s, m, d)
  <2>1. \A i \in DOMAIN s : s[i].era \in Nat /\ s[i].era <= Len(c)
    BY <1>4, <1>6 DEF OneHistory
  <2>2. ASSUME NEW i \in DOMAIN s, NEW k \in DOMAIN s, NEW r \in 1..Len(d),
               i > d[r], s[k].era >= r
        PROVE  s[i].era >= r
    <3>1. r \in 1..Len(c)
      BY <1>2, <2>1, <2>2
    <3>2. r \in DOMAIN c /\ i > c[r]
      BY <1>2, <2>2, <3>1
    <3>3. \A a, b \in DOMAIN s, q \in DOMAIN c : a > c[q] /\ s[b].era >= q => s[a].era >= q
      BY <1>6 DEF OneHistory
    <3> QED BY ONLY <2>2, <3>2, <3>3
  <2>3. \A i \in DOMAIN s : s[i].era <= Len(d)
    BY <1>2, <2>1
  <2> QED BY <1>2, <1>3, <2>2, <2>3 DEF OneHistory
<1> QED BY <1>5, <1>6 DEF m, d

LEMMA PrefixHistory ==
  ASSUME NEW l \in Seq(Records), NEW c \in Seq(Nat), NEW s \in Seq(Records),
         LogEras(l, c), Len(s) <= Len(l), \A i \in 1..Len(s) : s[i] = l[i]
  PROVE  OneHistory(s, l, c)
<1>1. /\ Len(s) \in Nat /\ Len(l) \in Nat /\ DOMAIN s = 1..Len(s) /\ DOMAIN l = 1..Len(l)
      /\ DOMAIN c = 1..Len(c)
  OBVIOUS
<1>2. ASSUME NEW i \in 1..Len(s)
      PROVE  s[i].era <= Len(c) /\ \A r \in 1..Len(c) : i > c[r] => s[i].era >= r
  <2>1. i \in 1..Len(l) /\ s[i] = l[i]
    BY <1>1
  <2>2. /\ \A j \in 1..Len(l) : l[j].era <= Len(c)
        /\ \A j \in 1..Len(l), r \in 1..Len(c) : j > c[r] => l[j].era >= r
    BY ONLY LogEras(l, c), <1>1 DEF LogEras
  <2> QED BY ONLY <2>1, <2>2
<1> QED BY ONLY <1>1, <1>2, Len(s) <= Len(l), \A i \in 1..Len(s) : s[i] = l[i] DEF OneHistory

\* A page the digests admit continues what the reader holds of the log.
LEMMA PageContinues ==
  ASSUME RouteAssumption, NEW read \in Seq(Records), log \in Seq(Records),
         floor \in 0..Len(log), ~IsGap(Page(Len(read)), read)
  PROVE  LET page == Page(Len(read)) IN
         /\ page \in Batches
         /\ read \o page.records \in Seq(Records)
         /\ Len(read \o page.records) <= Len(log)
         /\ \A i \in 1..Len(read \o page.records) : (read \o page.records)[i] = log[i]
<1> DEFINE start == Most(floor, Least(Len(read), Len(log)))
           end == Least(start + PageLimit, Len(log))
           page == Page(Len(read))
           all == read \o SubSeq(log, start + 1, end)
<1>1. Len(read) \in Nat /\ Len(log) \in Nat /\ floor \in Nat /\ floor <= Len(log)
      /\ PageLimit \in Nat
  BY DEF RouteAssumption
<1>2. start \in 0..Len(log) /\ end \in start..Len(log)
  BY <1>1 DEF Most, Least
<1> HIDE DEF start, end
<1>3. page = [after |-> start, digest |-> SubSeq(log, 1, start),
              records |-> SubSeq(log, start + 1, end), floor |-> floor]
  BY DEF Page, start, end
<1>4. start = Len(read) /\ SubSeq(log, 1, start) = read
  BY <1>3 DEF IsGap
<1> HIDE DEF page
<1>5. /\ SubSeq(log, start + 1, end) \in Seq(Records)
      /\ Len(SubSeq(log, start + 1, end)) = end - start
      /\ \A i \in 1..end - start : SubSeq(log, start + 1, end)[i] = log[start + i]
  <2>1. log \in Seq(Records)
    OBVIOUS
  <2> QED BY ONLY <2>1, <1>2, PrefixFacts
<1>6. \A i \in 1..start : read[i] = log[i]
  <2>1. \A i \in 1..start : SubSeq(log, 1, start)[i] = log[i]
    BY <1>1, <1>2
  <2> QED BY <1>4, <2>1
<1> DEFINE new == SubSeq(log, start + 1, end)
<1>7. /\ all \in Seq(Records) /\ Len(all) = end
      /\ \A i \in 1..start : all[i] = log[i]
      /\ \A i \in 1..end - start : all[start + i] = log[start + i]
  <2> HIDE DEF new
  <2>1. /\ read \o new \in Seq(Records) /\ Len(read \o new) = Len(read) + Len(new)
        /\ \A i \in 1..Len(read) : (read \o new)[i] = read[i]
        /\ \A i \in 1..Len(new) : (read \o new)[Len(read) + i] = new[i]
    <3>1. new \in Seq(Records)
      BY <1>5 DEF new
    <3> QED BY ONLY <3>1, read \in Seq(Records), ConcatFacts
  <2>2. Len(new) = end - start /\ \A i \in 1..end - start : new[i] = log[start + i]
    BY <1>5 DEF new
  <2>3. start \in Nat /\ end \in Nat /\ start <= end
    BY <1>1, <1>2
  <2> QED BY ONLY <1>4, <1>6, <2>1, <2>2, <2>3 DEF new
<1> HIDE DEF all, new
<1>8. ASSUME NEW i \in 1..Len(all) PROVE all[i] = log[i]
  <2>1. CASE i <= start
    BY <1>2, <1>7, <1>8, <2>1
  <2>2. CASE i > start
    <3>1. i - start \in 1..end - start /\ start + (i - start) = i
      BY <1>1, <1>2, <1>7, <1>8, <2>2
    <3> QED BY <1>7, <3>1
  <2> QED BY <1>1, <1>2, <1>7, <1>8, <2>1, <2>2
<1>9. page \in Batches
  <2>1. SubSeq(log, 1, start) \in Seq(Records) /\ start \in Nat
    BY <1>1, <1>2, <1>4
  <2> QED BY <1>1, <1>3, <1>5, <2>1 DEF Batches
<1>10. /\ all \in Seq(Records) /\ Len(all) <= Len(log)
       /\ \A i \in 1..Len(all) : all[i] = log[i]
  BY <1>1, <1>2, <1>7, <1>8
<1>11. read \o page.records = all
  <2>1. page.records = SubSeq(log, start + 1, end)
    BY ONLY <1>3
  <2> QED BY ONLY <2>1 DEF all
<1>12. /\ page \in Batches /\ read \o page.records \in Seq(Records)
       /\ Len(read \o page.records) <= Len(log)
       /\ \A i \in 1..Len(read \o page.records) : (read \o page.records)[i] = log[i]
  BY ONLY <1>9, <1>10, <1>11
<1> QED BY <1>12 DEF page

\* While the relay lost nothing the reader had not read, no sync finds a gap.
LEMMA NoGapUnlessLost ==
  ASSUME RouteAssumption, NEW read \in Seq(Records), log \in Seq(Records),
         floor \in 0..Len(log), floor <= Len(read), Len(read) <= Len(log),
         \A i \in 1..Len(read) : read[i] = log[i]
  PROVE  ~IsGap(Page(Len(read)), read)
<1> DEFINE start == Most(floor, Least(Len(read), Len(log)))
           end == Least(start + PageLimit, Len(log))
           page == Page(Len(read))
<1>1. Len(read) \in Nat /\ Len(log) \in Nat /\ floor \in Nat
  OBVIOUS
<1>2. start = Len(read)
  BY <1>1 DEF Most, Least
<1> HIDE DEF start, end
<1>3. page = [after |-> start, digest |-> SubSeq(log, 1, start),
              records |-> SubSeq(log, start + 1, end), floor |-> floor]
  BY DEF Page, start, end
<1>4. SubSeq(log, 1, start) = read
  <2>1. /\ SubSeq(log, 1, start) \in Seq(Records) /\ Len(SubSeq(log, 1, start)) = Len(read)
        /\ \A i \in 1..Len(read) : SubSeq(log, 1, start)[i] = log[i]
    BY <1>1, <1>2
  <2> HIDE DEF page
  <2> DEFINE prefix == SubSeq(log, 1, start)
  <2> HIDE DEF prefix
  <2>2. /\ prefix \in Seq(Records) /\ Len(prefix) = Len(read)
        /\ \A i \in 1..Len(prefix) : prefix[i] = read[i]
    BY <2>1 DEF prefix
  <2>3. prefix = read
    BY ONLY <2>2, read \in Seq(Records), SeqEqual
  <2> QED BY <2>3 DEF prefix
<1> HIDE DEF page
<1>5. page.floor = floor /\ page.after = Len(read) /\ page.digest = read
  BY <1>2, <1>3, <1>4
<1>6. ~IsGap(page, read)
  BY ONLY <1>1, <1>5, floor <= Len(read) DEF IsGap
<1> QED BY <1>6 DEF page

-----------------------------------------------------------------------------
(* Every step keeps the invariant *)

LEMMA InitInv == RouteAssumption /\ Init => RouteInv
<1> SUFFICES ASSUME RouteAssumption, Init PROVE RouteInv
  OBVIOUS
<1> DEFINE none == [b \in Bundles |-> {}]
<1>1. /\ log = <<>> /\ floor = 0 /\ cuts = <<>> /\ batch = NoBatch /\ unsent = FALSE
      /\ collected = 0 /\ lapses = 0 /\ faults = 0 /\ MaxLapses \in Nat /\ MaxFaults \in Nat
      /\ MaxTombstones \in Nat /\ MaxBuffered \in Nat
  BY DEF Init, RouteAssumption
<1>2. /\ disk.read = <<>> /\ disk.gap = FALSE /\ disk.delivered = <<>>
      /\ disk.quarantined = {} /\ disk.buffer = EmptyBuffer
      /\ EmptyBuffer.pending = none /\ EmptyBuffer.completed = <<>>
      /\ disk = [read |-> <<>>, gap |-> FALSE, buffer |-> EmptyBuffer,
                 delivered |-> <<>>, quarantined |-> {}]
  BY DEF Init, FreshDisk, EmptyBuffer
<1>3. EmptyBuffer \in Buffers
  <2>1. Buffered(none) = {}
    BY DEF Buffered
  <2>2. none \in [Bundles -> SUBSET Nat] /\ <<>> \in Seq(Bundles) /\ Len(<<>>) = 0
    OBVIOUS
  <2> HIDE DEF none
  <2>3. Cardinality(Buffered(none)) <= MaxBuffered /\ Len(<<>>) <= MaxTombstones
    BY <1>1, <2>1, <2>2, FS_EmptySet
  <2>4. [pending |-> none, completed |-> <<>>] \in Buffers
    BY ONLY <2>2, <2>3, MakeBuffer
  <2>5. EmptyBuffer = [pending |-> none, completed |-> <<>>]
    BY DEF EmptyBuffer, none
  <2> QED BY <2>4, <2>5
<1>4. disk \in Disks
  BY ONLY <1>2, <1>3 DEF Disks
<1>5. TypeOK
  <2>1. /\ log \in Seq(Records) /\ floor \in 0..Len(log) /\ cuts \in Seq(Nat)
    BY ONLY <1>1
  <2>2. unsent \in BOOLEAN
    BY <1>1
  <2>3. collected \in Nat /\ lapses \in 0..MaxLapses /\ faults \in 0..MaxFaults
    BY ONLY <1>1
  <2> QED BY ONLY <1>1, <1>4, <2>1, <2>2, <2>3 DEF TypeOK
<1>6. LogEras(log, cuts) /\ OneHistory(disk.read, log, cuts)
  BY <1>1, <1>2 DEF LogEras, OneHistory
<1>7. Reading /\ GapOnlyAfterLoss
  BY <1>1, <1>2 DEF Reading, GapOnlyAfterLoss
<1>8. CollectedIsRead
  BY <1>1, <1>2 DEF CollectedIsRead
<1>9. Accounted(disk, disk.read, Len(disk.read))
  <2>1. ASSUME NEW b \in Bundles
        PROVE  /\ ~Contains(<<>>, b) /\ Behind(<<>>, 0, b) = {} /\ none[b] = {}
               /\ {} # 1..Parts[b]
    <3>1. Parts[b] \in Nat \ {0}
      BY DEF RouteAssumption
    <3>2. 1 \in 1..Parts[b]
      BY <3>1
    <3> QED BY <3>2 DEF Contains, Behind
  <2> HIDE DEF none
  <2>2. Len(disk.read) = 0
    BY <1>2
  <2> QED BY <1>2, <2>1, <2>2 DEF Accounted
<1> QED BY <1>5, <1>6, <1>7, <1>8, <1>9 DEF RouteInv

\* What the actions rest on: the parts of the invariant, unfolded once.
LEMMA Unfold ==
  ASSUME RouteAssumption, RouteInv
  PROVE  /\ log \in Seq(Records) /\ floor \in 0..Len(log) /\ cuts \in Seq(Nat)
         /\ disk \in Disks /\ disk.read \in Seq(Records) /\ disk.gap \in BOOLEAN
         /\ batch = NoBatch \/ batch \in Batches
         /\ unsent \in BOOLEAN /\ collected \in Nat
         /\ lapses \in 0..MaxLapses /\ faults \in 0..MaxFaults
         /\ Len(log) \in Nat /\ Len(cuts) \in Nat /\ Len(disk.read) \in Nat /\ floor \in Nat
         /\ MaxLapses \in Nat /\ MaxFaults \in Nat
         /\ LogEras(log, cuts) /\ OneHistory(disk.read, log, cuts)
         /\ batch # NoBatch =>
              disk.gap = FALSE /\ OneHistory(disk.read \o batch.records, log, cuts)
         /\ batch # NoBatch =>
              batch.records \in Seq(Records) /\ disk.read \o batch.records \in Seq(Records)
         /\ collected <= Len(disk.read) /\ (lapses = 0 => floor <= collected)
         /\ (disk.gap => lapses > 0 \/ cuts # <<>>)
         /\ Accounted(disk, disk.read, Len(disk.read))
<1>1. TypeOK
  BY DEF RouteInv
<1>2. disk \in Disks /\ disk.read \in Seq(Records) /\ disk.gap \in BOOLEAN
  BY <1>1 DEF TypeOK, Disks
<1>3. batch # NoBatch => batch.records \in Seq(Records)
  BY <1>1 DEF TypeOK, Batches
<1>4. batch # NoBatch => disk.read \o batch.records \in Seq(Records)
  BY ONLY <1>2, <1>3, ConcatFacts
<1>5. /\ log \in Seq(Records) /\ floor \in 0..Len(log) /\ cuts \in Seq(Nat)
      /\ batch = NoBatch \/ batch \in Batches
      /\ unsent \in BOOLEAN /\ collected \in Nat
      /\ lapses \in 0..MaxLapses /\ faults \in 0..MaxFaults
  BY <1>1 DEF TypeOK
<1>6. /\ Len(log) \in Nat /\ Len(cuts) \in Nat /\ Len(disk.read) \in Nat /\ floor \in Nat
      /\ MaxLapses \in Nat /\ MaxFaults \in Nat
  BY <1>2, <1>5 DEF RouteAssumption
<1>7. /\ LogEras(log, cuts) /\ OneHistory(disk.read, log, cuts)
      /\ batch # NoBatch =>
           disk.gap = FALSE /\ OneHistory(disk.read \o batch.records, log, cuts)
      /\ collected <= Len(disk.read) /\ (lapses = 0 => floor <= collected)
      /\ (disk.gap => lapses > 0 \/ cuts # <<>>)
      /\ Accounted(disk, disk.read, Len(disk.read))
  BY DEF RouteInv, Reading, CollectedIsRead, GapOnlyAfterLoss
<1> QED BY ONLY <1>2, <1>3, <1>4, <1>5, <1>6, <1>7

LEMMA Refold ==
  ASSUME log' \in Seq(Records), floor' \in 0..Len(log'), cuts' \in Seq(Nat),
         disk' \in Disks, batch' = NoBatch \/ batch' \in Batches,
         unsent' \in BOOLEAN, collected' \in Nat,
         lapses' \in 0..MaxLapses, faults' \in 0..MaxFaults,
         LogEras(log', cuts'), OneHistory(disk'.read, log', cuts'),
         batch' # NoBatch =>
           disk'.gap = FALSE /\ OneHistory(disk'.read \o batch'.records, log', cuts'),
         collected' <= Len(disk'.read), lapses' = 0 => floor' <= collected',
         disk'.gap => lapses' > 0 \/ cuts' # <<>>,
         Accounted(disk', disk'.read, Len(disk'.read))
  PROVE  RouteInv'
BY DEF RouteInv, TypeOK, Reading, CollectedIsRead, GapOnlyAfterLoss,
       LogEras, OneHistory, Accounted, Behind, NoBatch

LEMMA EnqueueKeeps == RouteAssumption /\ RouteInv /\ Enqueue => RouteInv'
<1> SUFFICES ASSUME RouteAssumption, RouteInv, Enqueue PROVE RouteInv'
  OBVIOUS
<1>1. PICK packet \in Packets : log' = Append(log, [packet |-> packet, era |-> Len(cuts)])
  BY DEF Enqueue
<1>2. /\ floor' = floor /\ cuts' = cuts /\ collected' = collected /\ lapses' = lapses
      /\ disk' = disk /\ batch' = batch /\ unsent' = unsent /\ faults' = faults
  BY DEF Enqueue, readerVars
<1> DEFINE x == [packet |-> packet, era |-> Len(cuts)]
<1>3. x \in Records /\ x.era = Len(cuts)
  BY Unfold DEF Records
<1> HIDE DEF x
<1>4. /\ log' \in Seq(Records) /\ floor' \in 0..Len(log')
      /\ LogEras(log', cuts')
      /\ \A s \in Seq(Records) : OneHistory(s, log, cuts) => OneHistory(s, log', cuts')
  <2>1. log' = Append(log, x)
    BY <1>1 DEF x
  <2>2. /\ log \in Seq(Records) /\ cuts \in Seq(Nat) /\ LogEras(log, cuts)
        /\ floor \in 0..Len(log)
    BY Unfold
  <2>3. /\ LogEras(Append(log, x), cuts)
        /\ \A s \in Seq(Records) :
             OneHistory(s, log, cuts) => OneHistory(s, Append(log, x), cuts)
    BY ONLY <2>2, <1>3, EnqueueHistory
  <2>4. Append(log, x) \in Seq(Records) /\ Len(Append(log, x)) = Len(log) + 1
    BY ONLY <2>2, <1>3, AppendFacts
  <2>5. floor \in 0..Len(Append(log, x))
    BY <2>2, <2>4
  <2> QED BY ONLY <1>2, <2>1, <2>3, <2>4, <2>5
<1> QED BY <1>2, <1>4, Unfold, Refold

LEMMA CollectKeeps == RouteAssumption /\ RouteInv /\ Collect => RouteInv'
<1> SUFFICES ASSUME RouteAssumption, RouteInv, Collect PROVE RouteInv'
  OBVIOUS
<1>1. PICK f \in floor + 1..Len(log) :
        /\ floor' = f /\ (f > collected => lapses < MaxLapses)
        /\ lapses' = IF f > collected THEN lapses + 1 ELSE lapses
  BY DEF Collect
<1>2. /\ log' = log /\ cuts' = cuts /\ collected' = collected
      /\ disk' = disk /\ batch' = batch /\ unsent' = unsent /\ faults' = faults
  BY DEF Collect, readerVars
<1>3. /\ floor' \in 0..Len(log') /\ lapses' \in 0..MaxLapses /\ lapses' >= lapses
      /\ (lapses' = 0 => floor' <= collected')
  <2>1. /\ floor \in Nat /\ Len(log) \in Nat /\ collected \in Nat /\ MaxLapses \in Nat
        /\ lapses \in 0..MaxLapses
    BY Unfold
  <2> QED BY ONLY <1>1, <1>2, <2>1
<1>4. disk'.gap => lapses' > 0 \/ cuts' # <<>>
  <2>1. /\ (disk.gap => lapses > 0 \/ cuts # <<>>) /\ MaxLapses \in Nat
        /\ lapses \in 0..MaxLapses
    BY Unfold
  <2> QED BY <1>2, <1>3, <2>1
<1> QED BY <1>2, <1>3, <1>4, Unfold, Refold

LEMMA RestoreKeeps == RouteAssumption /\ RouteInv /\ Restore => RouteInv'
<1> SUFFICES ASSUME RouteAssumption, RouteInv, Restore PROVE RouteInv'
  OBVIOUS
<1>1. PICK length \in 0..Len(log) - 1 :
        /\ log' = SubSeq(log, 1, length) /\ cuts' = Append(cuts, length)
        /\ floor' = Least(floor, length) /\ collected' = Least(collected, length)
  BY DEF Restore
<1>2. /\ disk' = disk /\ batch' = batch /\ unsent' = unsent
      /\ lapses' = lapses /\ faults' = faults
  BY DEF Restore, readerVars
<1>3. /\ log \in Seq(Records) /\ cuts \in Seq(Nat) /\ LogEras(log, cuts)
      /\ Len(log) \in Nat /\ floor \in 0..Len(log) /\ collected \in Nat
  BY Unfold
<1>4. length \in 0..Len(log) /\ length \in Nat
  BY <1>3
<1>5. /\ log' \in Seq(Records) /\ Len(log') = length
      /\ cuts' \in Seq(Nat) /\ cuts' # <<>>
  <2>1. cuts' \in Seq(Nat) /\ Len(cuts') = Len(cuts) + 1 /\ Len(cuts) \in Nat
    BY ONLY <1>1, <1>3, <1>4, AppendFacts
  <2>2. cuts' # <<>>
    BY <2>1
  <2>3. SubSeq(log, 1, length) \in Seq(Records) /\ Len(SubSeq(log, 1, length)) = length
    BY ONLY <1>3, <1>4
  <2> QED BY <1>1, <2>1, <2>2, <2>3
<1>6. /\ LogEras(log', cuts')
      /\ \A s \in Seq(Records) : OneHistory(s, log, cuts) => OneHistory(s, log', cuts')
  <2>1. /\ LogEras(SubSeq(log, 1, length), Append(cuts, length))
        /\ \A s \in Seq(Records) : OneHistory(s, log, cuts)
             => OneHistory(s, SubSeq(log, 1, length), Append(cuts, length))
    BY ONLY <1>3, <1>4, RestoreHistory
  <2> QED BY ONLY <1>1, <2>1
<1>7. /\ floor' \in 0..Len(log') /\ collected' \in Nat /\ collected' <= collected
      /\ (floor <= collected => floor' <= collected')
  BY <1>1, <1>3, <1>4, <1>5 DEF Least
<1>8. collected' <= Len(disk'.read) /\ (lapses' = 0 => floor' <= collected')
  <2>1. /\ Len(disk.read) \in Nat /\ collected <= Len(disk.read)
        /\ (lapses = 0 => floor <= collected)
    BY Unfold
  <2> QED BY ONLY <1>2, <1>3, <1>7, <2>1
<1> QED BY <1>2, <1>5, <1>6, <1>7, <1>8, Unfold, Refold

LEMMA SyncKeeps == RouteAssumption /\ RouteInv /\ Sync => RouteInv'
<1> SUFFICES ASSUME RouteAssumption, RouteInv, Sync PROVE RouteInv'
  OBVIOUS
<1> DEFINE read == disk.read
           page == Page(Len(read))
<1>1. /\ log' = log /\ floor' = floor /\ cuts' = cuts /\ collected' = collected
      /\ lapses' = lapses /\ unsent' = unsent /\ faults' = faults
      /\ disk.gap = FALSE /\ batch = NoBatch
  <2>1. disk.gap \in BOOLEAN
    BY Unfold
  <2> QED BY <2>1 DEF Sync, relayVars
<1>2. /\ log \in Seq(Records) /\ floor \in 0..Len(log) /\ cuts \in Seq(Nat)
      /\ read \in Seq(Records) /\ Len(read) \in Nat /\ floor \in Nat /\ disk \in Disks
      /\ LogEras(log, cuts) /\ OneHistory(read, log, cuts)
      /\ collected <= Len(read) /\ (lapses = 0 => floor <= collected)
      /\ collected \in Nat /\ lapses \in 0..MaxLapses
      /\ Accounted(disk, read, Len(read))
  BY Unfold
<1>3. CASE IsGap(page, read)
  <2>1. disk' = [disk EXCEPT !.gap = TRUE, !.buffer.pending = EmptyBuffer.pending]
        /\ batch' = batch
    BY <1>3 DEF Sync
  <2>2. EmptyBuffer.pending = [b \in Bundles |-> {}]
    BY DEF EmptyBuffer
  <2> DEFINE none == [b \in Bundles |-> {}]
             completed == disk.buffer.completed
  <2>3. /\ disk \in [read: Seq(Records), gap: BOOLEAN, buffer: Buffers,
                     delivered: Seq(Bundles), quarantined: SUBSET Packets]
        /\ disk.buffer \in [pending: [Bundles -> SUBSET Nat], completed: Seq(Bundles)]
        /\ completed \in Seq(Bundles) /\ Len(completed) <= MaxTombstones
    BY <1>2, Shape
  <2>4. none \in [Bundles -> SUBSET Nat]
    OBVIOUS
  <2>5. disk' = [disk EXCEPT !.gap = TRUE, !.buffer.pending = none]
    BY <2>1, <2>2
  <2>6. Buffered(none) = {}
    BY DEF Buffered
  <2> HIDE DEF none, completed
  <2>7. [pending |-> none, completed |-> completed] \in Buffers
    <3>1. Cardinality(Buffered(none)) <= MaxBuffered
      BY <2>6, FS_EmptySet DEF RouteAssumption
    <3> QED BY ONLY <2>3, <2>4, <3>1, MakeBuffer
  <2>8. disk' = [read |-> disk.read, gap |-> TRUE,
                 buffer |-> [pending |-> none, completed |-> completed],
                 delivered |-> disk.delivered, quarantined |-> disk.quarantined]
    BY ONLY <2>3, <2>5 DEF completed
  <2>9. /\ disk' \in Disks /\ disk'.read = disk.read /\ disk'.gap = TRUE
        /\ disk'.delivered = disk.delivered /\ disk'.buffer.completed = disk.buffer.completed
    BY ONLY <2>3, <2>7, <2>8 DEF Disks, completed
  <2>10. lapses > 0 \/ cuts # <<>>
    <3>1. SUFFICES ASSUME lapses = 0, cuts = <<>> PROVE FALSE
      BY <1>2 DEF RouteAssumption
    <3>2. Len(read) <= Len(log) /\ \A i \in 1..Len(read) : read[i] = log[i]
      BY <1>2, <3>1 DEF OneHistory
    <3>3. floor <= Len(read)
      BY <1>2, <3>1
    <3> HIDE DEF read
    <3>4. ~IsGap(Page(Len(read)), read)
      BY ONLY RouteAssumption, <1>2, <3>2, <3>3, NoGapUnlessLost
    <3> QED BY <1>3, <3>4
  <2>11. Accounted(disk', disk'.read, Len(disk'.read))
    BY ONLY <1>2, <2>9 DEF Accounted
  <2>12. batch' = NoBatch
    BY <1>1, <2>1
  <2>13. disk' \in Disks /\ disk'.read = read
    BY <2>9
  <2> QED BY <1>1, <2>10, <2>11, <2>12, <2>13, Unfold, Refold
<1>4. CASE ~IsGap(page, read)
  <2>1. batch' = page /\ disk' = disk
    BY <1>4 DEF Sync
  <2>2. /\ page \in Batches /\ read \o page.records \in Seq(Records)
        /\ Len(read \o page.records) <= Len(log)
        /\ \A i \in 1..Len(read \o page.records) : (read \o page.records)[i] = log[i]
    <3>1. ~IsGap(Page(Len(read)), read)
      BY <1>4
    <3> HIDE DEF read
    <3> QED BY ONLY RouteAssumption, <1>2, <3>1, PageContinues
  <2>3. OneHistory(read \o page.records, log, cuts)
    <3> DEFINE all == read \o page.records
    <3>1. all \in Seq(Records) /\ Len(all) <= Len(log) /\ \A i \in 1..Len(all) : all[i] = log[i]
      BY <2>2
    <3> HIDE DEF all
    <3>2. OneHistory(all, log, cuts)
      BY ONLY <1>2, <3>1, PrefixHistory
    <3> QED BY <3>2 DEF all
  <2> HIDE DEF page
  <2>4. batch' \in Batches /\ OneHistory(disk'.read \o batch'.records, log', cuts')
        /\ disk'.gap = FALSE
    BY <1>1, <2>1, <2>2, <2>3
  <2> QED BY <1>1, <2>1, <2>4, Unfold, Refold
<1> QED BY <1>3, <1>4

LEMMA ApplyPageKeeps == RouteAssumption /\ RouteInv /\ ApplyPage => RouteInv'
<1> SUFFICES ASSUME RouteAssumption, RouteInv, ApplyPage PROVE RouteInv'
  OBVIOUS
<1>1. /\ log' = log /\ floor' = floor /\ cuts' = cuts /\ collected' = collected
      /\ lapses' = lapses /\ faults' = faults /\ batch # NoBatch /\ batch' = NoBatch
      /\ disk' = Applied(batch, disk)
  BY DEF ApplyPage, relayVars
<1>2. unsent' \in BOOLEAN
  BY DEF ApplyPage
<1>3. /\ disk \in Disks /\ batch \in Batches /\ disk.gap = FALSE
      /\ Accounted(disk, disk.read, Len(disk.read))
      /\ disk.read \in Seq(Records) /\ batch.records \in Seq(Records)
      /\ OneHistory(disk.read, log, cuts)
      /\ OneHistory(disk.read \o batch.records, log, cuts)
      /\ collected \in Nat /\ collected <= Len(disk.read)
  BY <1>1, Unfold
<1>4. /\ disk' \in Disks /\ disk'.gap = disk.gap
      /\ disk'.read = disk.read \/ disk'.read = disk.read \o batch.records
      /\ Accounted(disk', disk'.read, Len(disk'.read))
  <2>1. LET next == Applied(batch, disk) IN
        /\ next \in Disks /\ next.gap = disk.gap
        /\ next.read = disk.read \/ next.read = disk.read \o batch.records
        /\ Accounted(next, next.read, Len(next.read))
    BY ONLY RouteAssumption, <1>3, PageAccounted
  <2> QED BY ONLY <1>1, <2>1
<1>5. OneHistory(disk'.read, log', cuts')
  BY ONLY <1>1, <1>3, <1>4
<1>6. collected' <= Len(disk'.read)
  <2> DEFINE old == disk.read
             new == batch.records
  <2>1. old \in Seq(Records) /\ new \in Seq(Records)
    BY <1>3
  <2>2. collected' \in Nat /\ collected' <= Len(old)
    BY <1>1, <1>3
  <2>3. disk'.read = old \/ disk'.read = old \o new
    BY <1>4
  <2> HIDE DEF old, new
  <2>4. Len(old \o new) = Len(old) + Len(new) /\ Len(old) \in Nat /\ Len(new) \in Nat
    BY ONLY <2>1, ConcatFacts
  <2> QED BY ONLY <2>2, <2>3, <2>4
<1>7. disk'.gap = FALSE
  BY <1>3, <1>4
<1> QED BY <1>1, <1>2, <1>4, <1>5, <1>6, <1>7, Unfold, Refold

LEMMA CommitKeeps == RouteAssumption /\ RouteInv /\ Commit => RouteInv'
<1> SUFFICES ASSUME RouteAssumption, RouteInv, Commit PROVE RouteInv'
  OBVIOUS
<1>1. /\ log' = log /\ floor' = floor /\ cuts' = cuts /\ lapses' = lapses
      /\ disk' = disk /\ batch' = batch /\ unsent' = FALSE /\ faults' = faults
  BY DEF Commit
<1>2. \/ Len(disk.read) \in collected..Len(log) /\ collected' = Len(disk.read)
      \/ collected' = collected
  BY DEF Commit
<1>3. /\ collected' \in Nat /\ collected' <= Len(disk'.read)
      /\ (lapses' = 0 => floor' <= collected')
  <2>1. /\ Len(disk.read) \in Nat /\ collected \in Nat /\ collected <= Len(disk.read)
        /\ (lapses = 0 => floor <= collected) /\ floor \in Nat
    BY Unfold
  <2> QED BY ONLY <1>1, <1>2, <2>1
<1> QED BY <1>1, <1>3, Unfold, Refold

LEMMA CrashKeeps == RouteAssumption /\ RouteInv /\ Crash => RouteInv'
<1> SUFFICES ASSUME RouteAssumption, RouteInv, Crash PROVE RouteInv'
  OBVIOUS
<1>1. /\ log' = log /\ floor' = floor /\ cuts' = cuts /\ collected' = collected
      /\ lapses' = lapses /\ disk' = disk /\ batch' = NoBatch /\ unsent' = FALSE
      /\ faults' = faults + 1 /\ faults < MaxFaults
  BY DEF Crash, relayVars
<1>2. faults' \in 0..MaxFaults
  <2>1. faults \in 0..MaxFaults /\ MaxFaults \in Nat
    BY Unfold
  <2> QED BY ONLY <1>1, <2>1
<1> QED BY <1>1, <1>2, Unfold, Refold

LEMMA StutterKeeps == RouteAssumption /\ RouteInv /\ UNCHANGED vars => RouteInv'
<1> SUFFICES ASSUME RouteAssumption, RouteInv, UNCHANGED vars PROVE RouteInv'
  OBVIOUS
<1>1. /\ log' = log /\ floor' = floor /\ cuts' = cuts /\ collected' = collected
      /\ lapses' = lapses /\ disk' = disk /\ batch' = batch /\ unsent' = unsent
      /\ faults' = faults
  BY DEF vars
<1> QED BY <1>1, Unfold, Refold

LEMMA RouteInvariant == Spec => []RouteInv
<1>1. Init => RouteInv
  BY InitInv, RouteAssumption
<1>2. RouteInv /\ [Next]_vars => RouteInv'
  BY RouteAssumption, EnqueueKeeps, CollectKeeps, RestoreKeeps, SyncKeeps,
     ApplyPageKeeps, CommitKeeps, CrashKeeps, StutterKeeps DEF Next
<1> QED BY <1>1, <1>2, PTL DEF Spec

-----------------------------------------------------------------------------
(* The theorems *)

\* Every state has its shape; the reassembly buffer and its tombstones stay
\* within the bounds of pairwise-opaque-route-v2.js.
THEOREM TypeCorrect == Spec => []TypeOK
<1>1. RouteInv => TypeOK
  BY DEF RouteInv
<1> QED BY <1>1, RouteInvariant, PTL

\* What the cursor covers was read from one history of the relay, however it
\* lost and rewrote its log: detectOpaqueRouteGapV2 compares the digests.
THEOREM CursorReadsOneHistory == Spec => []ReadsOneHistory
<1>1. RouteInv => ReadsOneHistory
  BY DEF RouteInv, OneHistory, ReadsOneHistory
<1> QED BY <1>1, RouteInvariant, PTL

\* A sound bundle wholly behind the cursor was delivered, a damaged one never:
\* a page's cursor and its effects are durable together, a refused one's not.
THEOREM CursorSkipsNothing == Spec => []NothingSkipped
<1>1. RouteInv => NothingSkipped
  <2> SUFFICES ASSUME RouteInv PROVE NothingSkipped
    OBVIOUS
  <2>1. disk.read \in Seq(Records)
    BY DEF RouteInv, TypeOK, Disks
  <2>2. DOMAIN disk.read = 1..Len(disk.read)
    BY <2>1
  <2>3. ASSUME NEW b \in Bundles
        PROVE {disk.read[i].packet.part :
                 i \in {k \in DOMAIN disk.read : disk.read[k].packet.bundle = b}}
              = Behind(disk.read, Len(disk.read), b)
    BY <2>2 DEF Behind
  <2>4. Accounted(disk, disk.read, Len(disk.read))
    BY DEF RouteInv
  <2> QED BY <2>3, <2>4 DEF Accounted, NothingSkipped
<1> QED BY <1>1, RouteInvariant, PTL

\* The reader declares a gap, which ends the route, only after the relay lost
\* records it had not read; its crashes and unsent commits never cause one.
THEOREM GapsAreLosses == Spec => []GapOnlyAfterLoss
<1>1. RouteInv => GapOnlyAfterLoss
  BY DEF RouteInv
<1> QED BY <1>1, RouteInvariant, PTL

-----------------------------------------------------------------------------
(* The lease of a route (RouteLease): one chain of transitions *)

\* What a transition adds to the count of renewals.
Added(request) == IF request.op = "renew" THEN 1 ELSE 0

\* Keys are drawn once, one after the other.
KeysInv ==
  /\ IsFiniteSet(signed) /\ signed \subseteq Requests
  /\ \A r \in signed : r.key \in 1..Cardinality(signed)
  /\ \A r, s \in signed : r.key = s.key => r = s
  /\ \A k \in 1..Cardinality(signed) : \E r \in signed : r.key = k
  /\ \A r \in signed : r.op = "create" => r = CreateRequest

\* A request counts one more than the request it names, if it is a renewal.
Linked(request) ==
  \/ request.previous = 0 /\ request.sequence = Added(request)
  \/ \E p \in signed : /\ p.key = request.previous /\ p.key < request.key
                       /\ request.sequence = p.sequence + Added(request)

\* A route state has the count of the last request applied to it.
Stands(state) ==
  \/ state.last = 0 /\ state.renewals = 0
  \/ \E p \in signed : p.key = state.last /\ p.sequence = state.renewals

LeaseInv ==
  /\ KeysInv /\ route \in States /\ owned \in States
  /\ \A request \in signed : Linked(request)
  /\ Stands(route) /\ Stands(owned)
  /\ route.status = "absent" => route.last = 0 /\ route.renewals = 0

LEMMA LeaseStarts == LeaseInit => LeaseInv
<1> SUFFICES ASSUME LeaseInit PROVE LeaseInv
  OBVIOUS
<1> DEFINE c == CreateRequest
<1>1. route = NoRoute /\ owned = NoRoute /\ signed = {c}
  BY DEF LeaseInit
<1>2. /\ c \in Requests /\ c.key = 1 /\ c.op = "create"
      /\ c.previous = 0 /\ c.sequence = 0
  BY DEF CreateRequest, CreationKey, Requests
<1> HIDE DEF c
<1>3. IsFiniteSet({c}) /\ Cardinality({c}) = 1
  BY FS_Singleton
<1>4. KeysInv
  BY <1>1, <1>2, <1>3 DEF KeysInv, c
<1>5. \A request \in signed : Linked(request)
  BY <1>1, <1>2 DEF Linked, Added
<1>6. /\ NoRoute \in States /\ NoRoute.last = 0
      /\ NoRoute.renewals = 0
  BY DEF NoRoute, States
<1> QED BY <1>1, <1>4, <1>5, <1>6 DEF LeaseInv, Stands

LEMMA LeaseSign == LeaseInv /\ Sign => LeaseInv'
<1> SUFFICES ASSUME LeaseInv, Sign PROVE LeaseInv'
  OBVIOUS
<1> DEFINE N == Cardinality(signed)
<1>1. PICK x : /\ x \in {RenewRequest(owned, N + 1), TeardownRequest(owned, N + 1)}
               /\ signed' = signed \cup {x}
  <2>1. PICK make \in {"renew", "teardown"} :
          signed' = signed \cup {IF make = "renew"
                                 THEN RenewRequest(owned, Cardinality(signed) + 1)
                                 ELSE TeardownRequest(owned, Cardinality(signed) + 1)}
    BY DEF Sign
  <2> QED BY <2>1
<1>2. route' = route /\ owned' = owned
  BY DEF Sign
<1>3. /\ IsFiniteSet(signed) /\ signed \subseteq Requests /\ N \in Nat
      /\ \A r \in signed : r.key \in 1..N
      /\ \A r, s \in signed : r.key = s.key => r = s
      /\ \A k \in 1..N : \E r \in signed : r.key = k
      /\ \A r \in signed : r.op = "create" => r = CreateRequest
  BY FS_CardinalityType DEF LeaseInv, KeysInv
<1>4. /\ owned.renewals \in Nat /\ owned.last \in Nat
  BY DEF LeaseInv, States
<1> HIDE DEF N
<1>5. /\ x \in Requests /\ x.key = N + 1 /\ x.op # "create"
      /\ x.previous = owned.last /\ x.sequence = owned.renewals + Added(x)
  <2>1. CASE x = RenewRequest(owned, N + 1)
    BY <1>3, <1>4, <2>1 DEF RenewRequest, Requests, Added
  <2>2. CASE x = TeardownRequest(owned, N + 1)
    BY <1>3, <1>4, <2>2 DEF TeardownRequest, Requests, Added
  <2> QED BY <1>1, <2>1, <2>2
<1>6. x \notin signed
  BY <1>3, <1>5
<1>7. IsFiniteSet(signed') /\ Cardinality(signed') = N + 1
  BY <1>1, <1>3, <1>6, FS_AddElement DEF N
<1>8. KeysInv'
  <2>1. /\ \A r \in signed' : r.key \in 1..N + 1
        /\ \A r, s \in signed' : r.key = s.key => r = s
        /\ \A k \in 1..N + 1 : \E r \in signed' : r.key = k
    BY ONLY <1>1, <1>3, <1>5
  <2>2. signed' \subseteq Requests
    BY ONLY <1>1, <1>3, <1>5
  <2>3. \A r \in signed' : r.op = "create" => r = CreateRequest
    BY ONLY <1>1, <1>3, <1>5
  <2> QED BY ONLY <1>7, <2>1, <2>2, <2>3
         DEF KeysInv, Requests, CreateRequest, CreationKey
<1>9. ASSUME NEW request \in signed' PROVE Linked(request)'
  <2>1. CASE request \in signed
    <3>1. Linked(request)
      BY <2>1 DEF LeaseInv
    <3> QED BY <1>1, <3>1 DEF Linked
  <2>2. CASE request = x
    <3>1. Stands(owned)
      BY DEF LeaseInv
    <3>2. CASE owned.last = 0 /\ owned.renewals = 0
      BY <1>5, <2>2, <3>2 DEF Linked, Added
    <3>3. CASE \E p \in signed : p.key = owned.last /\ p.sequence = owned.renewals
      <4>1. PICK p \in signed : p.key = owned.last /\ p.sequence = owned.renewals
        BY <3>3
      <4>2. p \in signed' /\ p.key < x.key
        BY <1>1, <1>3, <1>5, <4>1
      <4> QED BY <1>5, <2>2, <4>1, <4>2 DEF Linked
    <3> QED BY <3>1, <3>2, <3>3 DEF Stands
  <2> QED BY <1>1, <2>1, <2>2
<1>10. Stands(route)' /\ Stands(owned)'
  BY <1>1, <1>2 DEF LeaseInv, Stands
<1> QED BY <1>2, <1>8, <1>9, <1>10 DEF LeaseInv, States

LEMMA LeaseApply ==
  ASSUME NEW request \in signed
  PROVE  LeaseInv /\ Apply(request) => LeaseInv'
<1> SUFFICES ASSUME LeaseInv, Apply(request) PROVE LeaseInv'
  OBVIOUS
<1>1. /\ Accepts(request) /\ route' = Transition(request)
      /\ signed' = signed /\ owned' \in {owned, route'}
  BY DEF Apply
<1>2. /\ KeysInv /\ route \in States /\ owned \in States
      /\ Stands(route) /\ Stands(owned) /\ Linked(request)
      /\ route.status = "absent" => route.last = 0 /\ route.renewals = 0
  BY DEF LeaseInv
<1>3. /\ request \in Requests /\ request.key \in Nat /\ request.key # 0
      /\ request.sequence \in Nat
      /\ (request.op = "create" => request.sequence = 0)
  BY <1>2 DEF KeysInv, Requests, CreateRequest
<1>4. route \in [status: {"absent", "active", "tornDown"}, expired: BOOLEAN,
                 renewals: Nat, last: Nat]
  BY <1>2 DEF States
<1>5. /\ route' \in States
      /\ \/ route' = route
         \/ /\ route'.last = request.key /\ route'.renewals = request.sequence
            /\ route'.status # "absent"
  <2>1. CASE request.op = "create" /\ route.status = "absent"
    <3>1. route' = [route EXCEPT !.status = "active", !.last = request.key]
      BY <1>1, <2>1 DEF Transition
    <3> QED BY <1>2, <1>3, <1>4, <2>1, <3>1 DEF States
  <2>2. CASE request.op = "renew" /\ request.key # route.last
    <3>1. route' = [route EXCEPT !.renewals = @ + 1, !.last = request.key]
      BY <1>1, <2>2 DEF Transition
    <3>2. request.sequence = route.renewals + 1 /\ route.status = "active"
      BY <1>1, <2>2 DEF Accepts, Creates, Renews, TearsDown, Follows
    <3> QED BY <1>3, <1>4, <3>1, <3>2 DEF States
  <2>3. CASE request.op = "teardown" /\ request.key # route.last
    <3>1. route' = [route EXCEPT !.status = "tornDown", !.last = request.key]
      BY <1>1, <2>3 DEF Transition
    <3>2. request.sequence = route.renewals
      BY <1>1, <2>3 DEF Accepts, Creates, Renews, TearsDown, Follows
    <3> QED BY <1>3, <1>4, <3>1, <3>2 DEF States
  <2>4. CASE ~ \/ request.op = "create" /\ route.status = "absent"
               \/ request.op = "renew" /\ request.key # route.last
               \/ request.op = "teardown" /\ request.key # route.last
    <3>1. route' = route
      BY <1>1, <2>4 DEF Transition
    <3> QED BY <1>2, <3>1
  <2> QED BY <2>1, <2>2, <2>3, <2>4
<1>6. Stands(route')
  BY <1>2, <1>5 DEF Stands
<1>7. Stands(route)' /\ Stands(owned)' /\ owned' \in States
  BY <1>1, <1>2, <1>5, <1>6 DEF Stands
<1>8. KeysInv'
  BY <1>1, <1>2 DEF KeysInv, Requests, CreateRequest, CreationKey
<1>9. \A r \in signed' : Linked(r)'
  BY <1>1 DEF LeaseInv, Linked
<1>10. route'.status = "absent" => route'.last = 0 /\ route'.renewals = 0
  BY <1>2, <1>5
<1> QED BY <1>5, <1>7, <1>8, <1>9, <1>10 DEF LeaseInv, States

LEMMA LeaseExpire == LeaseInv /\ Expire => LeaseInv'
<1> SUFFICES ASSUME LeaseInv, Expire PROVE LeaseInv'
  OBVIOUS
<1>1. route' = [route EXCEPT !.expired = TRUE] /\ signed' = signed /\ owned' = owned
  BY DEF Expire
<1>2. /\ route' \in States /\ route'.last = route.last
      /\ route'.renewals = route.renewals /\ route'.status = route.status
  BY <1>1 DEF LeaseInv, States
<1> QED BY <1>1, <1>2 DEF LeaseInv, KeysInv, Linked, Stands, States, Requests,
                          CreateRequest, CreationKey

LEMMA LeaseOther ==
  LeaseInv /\ (UNCHANGED <<route, owned, signed>>) => LeaseInv'
BY DEF LeaseInv, KeysInv, Linked, Stands, States, Requests,
       CreateRequest, CreationKey

LEMMA LeaseSteps == LeaseInv /\ [LeaseNext]_leaseVars => LeaseInv'
<1> SUFFICES ASSUME LeaseInv, [LeaseNext]_leaseVars PROVE LeaseInv'
  OBVIOUS
<1>1. CASE \E request \in signed : Age(request)
  BY <1>1, LeaseOther DEF Age
<1>2. CASE \E proof \in Proofs : Use(proof)
  BY <1>2, LeaseOther DEF Use
<1>3. CASE UNCHANGED leaseVars
  BY <1>3, LeaseOther DEF leaseVars
<1> QED BY <1>1, <1>2, <1>3, LeaseSign, LeaseApply, LeaseExpire DEF LeaseNext

\* The recursion of LeaseIsOneChain counts what the requests carry.
LEMMA ChainCounts == LeaseInv => LeaseIsOneChain
<1> SUFFICES ASSUME LeaseInv PROVE LeaseIsOneChain
  OBVIOUS
<1> DEFINE N == Cardinality(signed)
           named(key) == CHOOSE r \in signed : r.key = key
           Step(f, key) == IF key = 0 THEN 0
                           ELSE f[named(key).previous] + IF named(key).op = "renew" THEN 1 ELSE 0
           renewals == CHOOSE f : f = [key \in 0..N |-> Step(f, key)]
<1>1. /\ IsFiniteSet(signed) /\ signed \subseteq Requests /\ N \in Nat
      /\ \A r \in signed : r.key \in 1..N
      /\ \A r, s \in signed : r.key = s.key => r = s
      /\ \A k \in 1..N : \E r \in signed : r.key = k
      /\ \A r \in signed : Linked(r)
  BY FS_CardinalityType DEF LeaseInv, KeysInv
<1> HIDE DEF N
<1>2. ASSUME NEW r \in signed PROVE named(r.key) = r
  BY <1>1
<1>3. ASSUME NEW k \in 1..N
      PROVE  named(k) \in signed /\ named(k).key = k /\ named(k).previous \in 0..k - 1
  <2>1. PICK r \in signed : r.key = k
    BY <1>1
  <2>2. named(k) = r
    BY <1>2, <2>1
  <2>3. r.previous \in Nat /\ r.key \in Nat
    BY <1>1 DEF Requests
  <2>4. r.previous = 0 \/ r.previous < k
    BY <1>1, <2>1 DEF Linked
  <2> HIDE DEF named
  <2> QED BY <2>1, <2>2, <2>3, <2>4
<1> HIDE DEF named
<1> DEFINE carried == [k \in 0..N |-> IF k = 0 THEN 0 ELSE named(k).sequence]
<1>4. ASSUME NEW k \in 0..N PROVE carried[k] = Step(carried, k)
  <2>1. CASE k = 0
    BY <2>1
  <2>2. CASE k # 0
    <3> DEFINE r == named(k)
    <3>1. k \in 1..N /\ r \in signed /\ r.key = k /\ r.previous \in 0..N
      BY <1>1, <1>3, <2>2
    <3>2. carried[k] = r.sequence
      BY <2>2
    <3> HIDE DEF r
    <3>3. Linked(r)
      BY <1>1, <3>1
    <3>4. CASE r.previous = 0 /\ r.sequence = Added(r)
      <4>1. carried[r.previous] = 0
        BY <3>1, <3>4
      <4> HIDE DEF carried
      <4> QED BY <2>2, <3>2, <3>4, <4>1 DEF Added, r
    <3>5. CASE \E p \in signed : /\ p.key = r.previous /\ p.key < r.key
                                 /\ r.sequence = p.sequence + Added(r)
      <4>1. PICK p \in signed : p.key = r.previous /\ r.sequence = p.sequence + Added(r)
        BY <3>5
      <4>2. p.key # 0 /\ named(p.key) = p
        BY <1>1, <1>2
      <4>3. carried[r.previous] = p.sequence
        BY <3>1, <4>1, <4>2
      <4> HIDE DEF carried
      <4> QED BY <2>2, <3>2, <4>1, <4>3 DEF Added, r
    <3> QED BY <3>3, <3>4, <3>5 DEF Linked
  <2> QED BY <2>1, <2>2
<1>5. carried = [key \in 0..N |-> Step(carried, key)]
  BY <1>4
<1>6. renewals = [key \in 0..N |-> Step(renewals, key)]
  <2> HIDE DEF carried
  <2> QED BY <1>5
<1>7. \A key \in 0..N : renewals[key] = Step(renewals, key)
  <2> DEFINE g == renewals
  <2>1. g = [key \in 0..N |-> Step(g, key)]
    BY <1>6
  <2> HIDE DEF g
  <2>2. \A key \in 0..N : g[key] = Step(g, key)
    BY <2>1
  <2> QED BY <2>2 DEF g
<1>8. \A key \in 0..N : carried[key] = Step(carried, key)
  BY <1>4
<1> HIDE DEF renewals, carried
<1>9. \A key \in 0..N : renewals[key] = carried[key]
  <2> DEFINE Bad == {k \in 0..N : renewals[k] # carried[k]}
  <2>1. SUFFICES ASSUME Bad # {} PROVE FALSE
    OBVIOUS
  <2>2. Bad \in SUBSET Nat
    BY <1>1
  <2>3. PICK m \in Bad : \A n \in Bad : m <= n
    <3> HIDE DEF Bad
    <3> QED BY ONLY <2>1, <2>2, LeastNatural
  <2>4. m # 0 /\ m \in 1..N
    BY <1>1, <1>7, <1>8, <2>3
  <2>5. named(m).previous \in 0..m - 1
    BY <1>3, <2>4
  <2> DEFINE q == named(m).previous
  <2>6. q \in 0..N /\ q < m /\ q \in Nat /\ m \in Nat
    BY <1>1, <2>4, <2>5
  <2>7. q \notin Bad
    <3> HIDE DEF q
    <3> QED BY <2>3, <2>6
  <2>8. renewals[q] = carried[q]
    BY <2>6, <2>7
  <2>9. renewals[m] = carried[m]
    BY <1>7, <1>8, <2>4, <2>8
  <2> QED BY <2>3, <2>9
<1>10. route.last \in 0..N /\ carried[route.last] = route.renewals
  <2>1. Stands(route)
    BY DEF LeaseInv
  <2>2. CASE route.last = 0 /\ route.renewals = 0
    BY <1>1, <2>2 DEF carried
  <2>3. CASE \E p \in signed : p.key = route.last /\ p.sequence = route.renewals
    <3>1. PICK p \in signed : p.key = route.last /\ p.sequence = route.renewals
      BY <2>3
    <3>2. p.key \in 1..N /\ named(p.key) = p
      BY <1>1, <1>2
    <3> QED BY <1>1, <3>1, <3>2 DEF carried
  <2> QED BY <2>1, <2>2, <2>3 DEF Stands
<1>11. route.renewals = renewals[route.last]
  BY <1>9, <1>10
<1> QED BY <1>11 DEF LeaseIsOneChain, renewals, named, N

\* The transitions behind the last one are one chain from the creation, whatever
\* was resent, lost or overtaken: opaque-route-relay-v2.js compares the previous
\* key and the sequence of each with the route it holds.
THEOREM LeaseChains == LeaseSpec => []LeaseIsOneChain
<1>1. LeaseInit => LeaseInv
  BY LeaseStarts
<1>2. LeaseInv /\ [LeaseNext]_leaseVars => LeaseInv'
  BY LeaseSteps
<1>3. LeaseInv => LeaseIsOneChain
  BY ChainCounts
<1> QED BY <1>1, <1>2, <1>3, PTL DEF LeaseSpec
=============================================================================
