----------------------------- MODULE OpaqueRoute -----------------------------
(***************************************************************************)
(* One opaque receive route from the sender's sealed packets, through the  *)
(* relay's log, to the reader's durable cursor and reassembly buffer       *)
(* (opaque-route-v2.js, opaque-route-packet-v2.js, opaque-route-relay-v2,  *)
(* client.js, the receive half of pairwise-opaque-route-v2.js and          *)
(* syncReceive of durable-pairwise-messaging-v2.js).  The relay process is *)
(* not in the repository: its log is modelled from what the response       *)
(* validators accept, its lease from the transition functions.             *)
(* A record digest chains every earlier record, so it is modelled by the   *)
(* sequence of records it covers.                                          *)
(***************************************************************************)
EXTENDS Integers, Sequences, FiniteSets, FiniteSetsExt, SequencesExt

CONSTANTS Bundles,        \* sealed bundles
          Damaged,        \* those whose digest does not cover their payload
          Parts,          \* fragments of each bundle
          Packets,        \* the packets the sender may submit
          MaxBuffered,    \* defaultMaximumBufferedBundles
          MaxTombstones,  \* maximumRecentCompletedBundles
          PageLimit,      \* limit of a sync request
          MaxLog,         \* bound: records a relay log holds
          MaxRestores,    \* bound: times the relay loses its newest records
          MaxLapses,      \* bound: times retention takes unread records
          MaxFaults       \* bound: crashes and lost answers

\* A bundle is sealed into one packet per fragment; sealing it once more draws
\* other packet identifiers.
Sealed == {p \in [bundle: Bundles, part: Nat, copy: Nat] : p.part \in 1..Parts[p.bundle]}

ASSUME RouteAssumption ==
  /\ IsFiniteSet(Bundles) /\ Damaged \subseteq Bundles
  /\ Parts \in [Bundles -> Nat \ {0}]
  /\ Packets \subseteq Sealed
  /\ {MaxBuffered, MaxTombstones, PageLimit} \subseteq Nat \ {0}
  /\ {MaxLog, MaxRestores, MaxLapses, MaxFaults} \subseteq Nat

VARIABLES
  log,     \* the relay's records, oldest first; the retained ones are > floor
  floor,   \* retentionFloorSequence
  cuts,    \* the length the log fell back to, for each time it lost records
  disk,    \* the reader's durable LocalOpaqueReceiveRouteV2 and its effects
  batch,   \* the page a running syncReceive holds, or NoBatch
  unsent,  \* a durable advance whose relay commit is still to be tried
  collected, \* the cursor the relay has been told of
  lapses, faults

vars == <<log, floor, cuts, disk, batch, unsent,
          collected, lapses, faults>>

Records == [packet: Packets, era: Nat]
Buffers == {buffer \in [pending: [Bundles -> SUBSET Nat], \* empty: not pending
                         completed: Seq(Bundles)] :        \* oldest first
              /\ Cardinality({b \in Bundles : buffer.pending[b] # {}}) <= MaxBuffered
              /\ Len(buffer.completed) <= MaxTombstones}
EmptyBuffer == [pending |-> [b \in Bundles |-> {}], completed |-> <<>>]

\* read: the records the committed cursor covers, that is, its digest.
Disks == [read: Seq(Records), gap: BOOLEAN, buffer: Buffers,
          delivered: Seq(Bundles), quarantined: SUBSET Packets]
FreshDisk == [read |-> <<>>, gap |-> FALSE, buffer |-> EmptyBuffer,
              delivered |-> <<>>, quarantined |-> {}]

\* A sync response: where it starts, the digest there, its records.
Batches == [after: Nat, digest: Seq(Records), records: Seq(Records),
            floor: Nat]
NoBatch == [after |-> -1]

Least(a, b) == IF a < b THEN a ELSE b
Most(a, b) == IF a > b THEN a ELSE b

TypeOK ==
  /\ log \in Seq(Records) /\ floor \in 0..Len(log)
  /\ cuts \in Seq(Nat)
  /\ disk \in Disks
  /\ batch = NoBatch \/ batch \in Batches
  /\ unsent \in BOOLEAN /\ collected \in Nat
  /\ lapses \in 0..MaxLapses /\ faults \in 0..MaxFaults

Init ==
  /\ log = <<>> /\ floor = 0 /\ cuts = <<>>
  /\ disk = FreshDisk /\ batch = NoBatch /\ unsent = FALSE
  /\ collected = 0 /\ lapses = 0 /\ faults = 0

-----------------------------------------------------------------------------
(* The sender and the relay's log.                                         *)

relayVars == <<log, floor, cuts, collected, lapses>>
readerVars == <<disk, batch, unsent>>

\* A packet is stored once, however often the sender submits it.
Enqueue ==
  /\ Len(log) < MaxLog
  /\ \E packet \in Packets :
       /\ \A i \in DOMAIN log : log[i].packet # packet
       /\ log' = Append(log, [packet |-> packet, era |-> Len(cuts)])
  /\ UNCHANGED <<floor, cuts, collected, lapses, readerVars, faults>>

\* Records the reader has committed are collected; retention takes others too.
Collect ==
  /\ \E f \in floor + 1..Len(log) :
       /\ floor' = f
       /\ f > collected => lapses < MaxLapses
       /\ lapses' = IF f > collected THEN lapses + 1 ELSE lapses
  /\ UNCHANGED <<log, cuts, collected, readerVars, faults>>

\* The relay falls back to an older copy of its log.
Restore ==
  /\ Len(cuts) < MaxRestores
  /\ \E length \in 0..Len(log) - 1 :
       /\ log' = SubSeq(log, 1, length)
       /\ cuts' = Append(cuts, length)
       /\ floor' = Least(floor, length)
       /\ collected' = Least(collected, length)
  /\ UNCHANGED <<readerVars, lapses, faults>>

-----------------------------------------------------------------------------
(* The reader.                                                             *)

\* The page a sync response carries: it starts at the reader's cursor when the
\* relay still knows it, at the nearest record it has otherwise.
Page(cursor) ==
  LET start == Most(floor, Least(cursor, Len(log)))
      next  == Least(start + PageLimit, Len(log))
  IN  [after |-> start, digest |-> SubSeq(log, 1, start),
       records |-> SubSeq(log, start + 1, next), floor |-> floor]

\* detectOpaqueRouteGapV2.
\* Mutant: the record digests are not compared.
GapBySequence(page, read) == page.floor > Len(read) \/ page.after # Len(read)
IsGap(page, read) ==
  \/ page.floor > Len(read)
  \/ page.after # Len(read)
  \/ page.digest # read

\* Mutant: the relay is told of the page before it is durable.
SyncCommitsFirst ==
  /\ batch = NoBatch /\ ~unsent /\ ~disk.gap
  /\ LET page == Page(Len(disk.read)) IN
     IF IsGap(page, disk.read)
     THEN /\ disk' = [disk EXCEPT !.gap = TRUE,
                                  !.buffer.pending = EmptyBuffer.pending]
          /\ UNCHANGED <<batch, collected>>
     ELSE /\ batch' = page
          /\ collected' = Most(collected, Len(disk.read) + Len(page.records))
          /\ UNCHANGED disk
  /\ UNCHANGED <<log, floor, cuts, lapses, unsent, faults>>

\* A sync ends in a page to read, in a durable gap, or in neither: a lost answer.
Sync ==
  /\ batch = NoBatch /\ ~unsent /\ ~disk.gap
  /\ LET page == Page(Len(disk.read)) IN
     IF IsGap(page, disk.read)
     THEN /\ disk' = [disk EXCEPT !.gap = TRUE,
                                  !.buffer.pending = EmptyBuffer.pending]
          /\ UNCHANGED batch
     ELSE batch' = page /\ UNCHANGED disk
  /\ UNCHANGED <<relayVars, unsent, faults>>

\* One packet through the reassembler: duplicate, refused, bad, part or whole.
Pending(buffer) == {b \in Bundles : buffer.pending[b] # {}}
\* The bundle is whole and its digest covers what its fragments carry.
Whole(b, parts) == parts = 1..Parts[b]
DigestMatches(b) == b \notin Damaged
Verdict(buffer, packet) ==
  LET b == packet.bundle IN
  CASE \/ Contains(buffer.completed, b)
       \/ packet.part \in buffer.pending[b] -> "duplicate"
    [] /\ buffer.pending[b] = {}
       /\ Cardinality(Pending(buffer)) >= MaxBuffered -> "capacityExceeded"
    [] OTHER ->
       IF ~Whole(b, buffer.pending[b] \cup {packet.part}) THEN "accepted"
       ELSE IF DigestMatches(b) THEN "complete" ELSE "bundleDigestMismatch"

\* The newest tombstones are kept.
Remember(completed, b) ==
  LET all == Append(completed, b) IN
  SubSeq(all, Most(1, Len(all) - MaxTombstones + 1), Len(all))

\* updateLocalOpaqueReceiveRouteReassemblerV2: a failing update, even one that
\* discarded a bundle before it failed, leaves the buffer as it was.
Consume(state, packet) ==
  LET b == packet.bundle
      verdict == Verdict(state.buffer, packet) IN
  CASE verdict = "accepted" ->
         [state EXCEPT !.buffer.pending[b] = @ \cup {packet.part}]
    [] verdict = "complete" ->
         [state EXCEPT !.buffer.pending[b] = {},
                       !.buffer.completed = Remember(@, b),
                       !.delivered = Append(@, b)]
    [] verdict = "bundleDigestMismatch" ->
         [state EXCEPT !.quarantined = @ \cup {packet}]
    [] OTHER -> state

\* The state after the first n records of a page.
ReadPage(page, state) ==
  LET after[n \in 0..Len(page.records)] ==
        IF n = 0 THEN state ELSE Consume(after[n - 1], page.records[n].packet)
  IN  after
Refused(page, state) ==
  \E n \in DOMAIN page.records :
    Verdict(ReadPage(page, state)[n - 1].buffer, page.records[n].packet)
      = "capacityExceeded"

\* The effects of the page and its cursor become durable together.
\* Mutant: the cursor of a page that was refused advances too.
ApplyAlways(page, state) ==
  [ReadPage(page, state)[Len(page.records)] EXCEPT !.read = @ \o page.records]
Applied(page, state) ==
  IF Refused(page, state) THEN state
  ELSE [ReadPage(page, state)[Len(page.records)] EXCEPT !.read = @ \o page.records]

ApplyPage ==
  /\ batch # NoBatch
  /\ disk' = Applied(batch, disk)
  /\ unsent' = ~Refused(batch, disk)
  /\ batch' = NoBatch
  /\ UNCHANGED <<relayVars, faults>>

\* Only then is the relay told; a commit that fails is left for a later sync.
Commit ==
  /\ unsent
  /\ unsent' = FALSE
  /\ \/ /\ Len(disk.read) \in collected..Len(log)
        /\ collected' = Len(disk.read)
     \/ UNCHANGED collected
  /\ UNCHANGED <<log, floor, cuts, lapses, disk, batch, faults>>

\* A crash, or a save that fails, at any point of a sync.
Crash ==
  /\ faults < MaxFaults
  /\ batch # NoBatch \/ unsent
  /\ batch' = NoBatch /\ unsent' = FALSE
  /\ faults' = faults + 1
  /\ UNCHANGED <<relayVars, disk>>

Next ==
  \/ Enqueue \/ Collect \/ Restore
  \/ Sync \/ ApplyPage \/ Commit \/ Crash
Spec == Init /\ [][Next]_vars

-----------------------------------------------------------------------------
(* What has to hold.                                                       *)

\* Records the cursor covers were read from one history of the relay: none is
\* from a log the relay lost before another of them was written.
ReadsOneHistory ==
  \A i \in DOMAIN disk.read, r \in DOMAIN cuts :
    /\ i > cuts[r]
    /\ \E k \in DOMAIN disk.read : disk.read[k].era >= r
    => disk.read[i].era >= r

\* A bundle whose packets are all behind the cursor was delivered, whatever
\* crashed, was resent or was read again; one that is damaged never is.
NothingSkipped ==
  \A b \in Bundles :
    LET seen == {disk.read[i].packet.part :
                   i \in {k \in DOMAIN disk.read : disk.read[k].packet.bundle = b}}
    IN  IF b \in Damaged THEN ~Contains(disk.delivered, b)
        ELSE seen = 1..Parts[b] => Contains(disk.delivered, b)

\* The reader declares a gap only if the relay lost records it had not read:
\* its own crashes and deferred commits cost it nothing.
GapOnlyAfterLoss == disk.gap => lapses > 0 \/ cuts # <<>>

=============================================================================
