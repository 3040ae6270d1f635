------------------------ MODULE RouteMaintenanceProofs ------------------------
(* What the two journals of a route replacement keep: proved for any number of *)
(* routes, packets, messages and faults, and for whatever the two endpoints    *)
(* send each other, drop or never read.                                        *)
EXTENDS RouteMaintenance, TLAPS

\* The owner's half of the state of one endpoint.
Owned(e) == <<sets[e], local[e], journal[e], closing[e], accepted[e], expired[e], lease[e]>>

Shape(e) ==
  /\ sets[e] \in Seq(Sets) /\ Len(sets[e]) >= 1
  /\ local[e] \subseteq Routes
  /\ journal[e] \in Journals \cup {NoJournal}
  /\ closing[e] \in Closings
  /\ expired[e] \in 0..MaxRoutes
  /\ lease[e] \in [Routes -> {"absent", "open", "tornDown"}]

Served(e) ==
  Active(e) =>
    \A r \in Routes : Current(e)[r] \in {"testing", "active", "draining"} =>
      r \in local[e] /\ lease[e][r] = "open"

\* A created route is open until its journal closes the old one.
Created(e) == Active(e) /\ At(e, "created") => lease[e][journal[e].new] = "open"

\* A relay has accepted a revocation of r.
HandedOver(e, r) ==
  \E n \in DOMAIN sets[e] : sets[e][n][r] = "revoked" /\ SetUpdate(n) \in accepted[e]
Revoked(e) ==
  Active(e) => \A r \in Routes : lease[e][r] = "tornDown" => HandedOver(e, r)

\* What a blocked endpoint still holds is torn down, has expired or is going to be
\* torn down.
ToGo(e) == local[e] \cup (IF journal[e].step = "created" THEN {journal[e].new} ELSE {})
Closes(e) ==
  /\ Active(e) => closing[e].pending = {}
  /\ closing[e].state = "journaled" =>
       \A r \in ToGo(e) :
         r \in closing[e].pending \/ lease[e][r] = "tornDown" \/ Expired(e, r)

OwnerInv(e) == Shape(e) /\ Served(e) /\ Created(e) /\ Revoked(e) /\ Closes(e)

RouteShape ==
  /\ sets = [e \in Endpoints |-> sets[e]]
  /\ local = [e \in Endpoints |-> local[e]]
  /\ journal = [e \in Endpoints |-> journal[e]]
  /\ closing = [e \in Endpoints |-> closing[e]]
  /\ accepted = [e \in Endpoints |-> accepted[e]]
  /\ expired = [e \in Endpoints |-> expired[e]]
  /\ lease = [e \in Endpoints |-> lease[e]]

RouteInv == RouteShape /\ \A e \in Endpoints : OwnerInv(e)

-----------------------------------------------------------------------------
\* An endpoint that does nothing keeps what it has.
LEMMA IdleKeeps ==
  ASSUME NEW e, OwnerInv(e), Owned(e)' = Owned(e)
  PROVE  OwnerInv(e)'
<1>1. /\ sets'[e] = sets[e] /\ local'[e] = local[e] /\ journal'[e] = journal[e]
      /\ closing'[e] = closing[e] /\ accepted'[e] = accepted[e]
      /\ expired'[e] = expired[e] /\ lease'[e] = lease[e]
  BY DEF Owned
<1> QED BY <1>1 DEF OwnerInv, Shape, Served, Created, Revoked, HandedOver, Closes, ToGo,
                    Active, At, Current, Last, Expired

\* A step of e alone.
LEMMA OneActs ==
  ASSUME RouteInv, NEW e \in Endpoints, OwnerInv(e)', RouteShape',
         \A o \in Endpoints : o # e => Owned(o)' = Owned(o)
  PROVE  RouteInv'
<1>1. ASSUME NEW o \in Endpoints PROVE OwnerInv(o)'
  <2>1. CASE o = e
    BY <2>1
  <2>2. CASE o # e
    <3>1. Owned(o)' = Owned(o) /\ OwnerInv(o)
      BY <2>2 DEF RouteInv
    <3> QED BY <3>1, IdleKeeps
  <2> QED BY <2>1, <2>2
<1> QED BY <1>1 DEF RouteInv

-----------------------------------------------------------------------------
LEMMA InitIsRouted == Init => RouteInv
<1> SUFFICES ASSUME Init PROVE RouteInv
  OBVIOUS
<1>1. RouteShape
  BY DEF Init, RouteShape
<1>2. ASSUME NEW e \in Endpoints PROVE OwnerInv(e)
  <2>1. /\ sets[e] = <<FirstSet>> /\ local[e] = {1} /\ journal[e] = NoJournal
        /\ closing[e] = NotClosing /\ expired[e] = 0
        /\ lease[e] = [r \in Routes |-> IF r = 1 THEN "open" ELSE "absent"]
    BY DEF Init
  <2>2. 1 \in Routes /\ 0 \in 0..MaxRoutes
    BY MaintenanceAssumption DEF Routes
  <2>3. FirstSet \in Sets
    BY DEF FirstSet, Sets, States
  <2>4. <<FirstSet>> \in Seq(Sets) /\ Len(<<FirstSet>>) = 1
    BY <2>3
  <2>5. Current(e) = FirstSet
    BY <2>1, <2>4 DEF Current, Last
  <2>6. NotClosing \in Closings /\ NotClosing.state = "no" /\ NotClosing.pending = {}
    BY DEF NotClosing, Closings
  <2>7. Shape(e)
    BY <2>1, <2>2, <2>4, <2>6 DEF Shape
  <2>8. Served(e)
    BY <2>1, <2>2, <2>5 DEF Served, FirstSet
  <2>9. Created(e) /\ Revoked(e)
    BY <2>1 DEF Created, Revoked, At
  <2>10. Closes(e)
    BY <2>1, <2>6 DEF Closes
  <2> QED BY <2>7, <2>8, <2>9, <2>10 DEF OwnerInv
<1> QED BY <1>1, <1>2 DEF RouteInv

\* A new set joins the chain, and what has been handed over stays so.
LEMMA AnnounceKeeps ==
  ASSUME RouteInv, NEW e \in Endpoints, NEW set \in Sets, Announce(e, set)
  PROVE  /\ sets'[e] \in Seq(Sets) /\ Len(sets'[e]) >= 1
         /\ Current(e)' = set
         /\ \A r \in Routes : HandedOver(e, r) => HandedOver(e, r)'
<1>1. sets[e] \in Seq(Sets) /\ Len(sets[e]) >= 1 /\ DOMAIN sets = Endpoints
  BY DEF RouteInv, RouteShape, OwnerInv, Shape
<1>2. sets'[e] = Append(sets[e], set) /\ accepted' = accepted
  BY <1>1 DEF Announce
<1>3. /\ sets'[e] \in Seq(Sets) /\ Len(sets'[e]) = Len(sets[e]) + 1
      /\ sets'[e][Len(sets[e]) + 1] = set
      /\ \A n \in DOMAIN sets[e] : n \in DOMAIN sets'[e] /\ sets'[e][n] = sets[e][n]
  BY <1>1, <1>2
<1>4. Current(e)' = set
  BY <1>1, <1>3 DEF Current, Last
<1>5. \A r \in Routes : HandedOver(e, r) => HandedOver(e, r)'
  BY <1>2, <1>3 DEF HandedOver
<1> QED BY <1>1, <1>3, <1>4, <1>5

\* A step of e leaves the other endpoint's half of the state alone.
LEMMA OthersKeep ==
  ASSUME RouteInv, NEW e \in Endpoints, Maintain(e) \/ Exchange(e) \/ Close(e) \/ Lapse(e)
  PROVE  RouteShape' /\ \A o \in Endpoints : o # e => Owned(o)' = Owned(o)
<1> USE DEF RouteInv, RouteShape, Owned, outgoing, times
<1>1. CASE Maintain(e)
  <2>1. CASE StartReplacement(e)
    BY <2>1 DEF StartReplacement
  <2>2. CASE CreateRoute(e)
    BY <2>2 DEF CreateRoute
  <2>3. CASE PublishTesting(e)
    BY <2>3 DEF PublishTesting, Announce
  <2>4. CASE Promote(e)
    BY <2>4 DEF Promote, Announce
  <2>5. CASE OverlapEnds(e)
    BY <2>5 DEF OverlapEnds
  <2>6. CASE Revoke(e)
    BY <2>6 DEF Revoke, Announce
  <2>7. CASE SignTeardown(e)
    BY <2>7 DEF SignTeardown
  <2>8. CASE TearDown(e)
    BY <2>8 DEF TearDown
  <2>9. CASE Retire(e)
    BY <2>9 DEF Retire
  <2> QED BY ONLY <1>1, <2>1, <2>2, <2>3, <2>4, <2>5, <2>6, <2>7, <2>8, <2>9 DEF Maintain
<1>2. CASE Exchange(e)
  <2>1. CASE PrepareProbe(e)
    BY <2>1 DEF PrepareProbe
  <2>2. CASE PrepareText(e)
    BY <2>2 DEF PrepareText
  <2>3. CASE Submit(e)
    BY <2>3 DEF Submit
  <2>4. CASE Settle(e)
    BY <2>4 DEF Settle
  <2>5. CASE Receive(e)
    BY <2>5 DEF Receive
  <2>6. CASE Fail(e)
    BY <2>6 DEF Fail
  <2>7. CASE Discard(e)
    BY <2>7 DEF Discard
  <2>8. CASE Compact(e)
    BY <2>8 DEF Compact
  <2> QED BY ONLY <1>2, <2>1, <2>2, <2>3, <2>4, <2>5, <2>6, <2>7, <2>8 DEF Exchange
<1>3. CASE Close(e)
  <2>1. CASE Block(e)
    BY <2>1 DEF Block
  <2>2. CASE JournalTeardown(e)
    BY <2>2 DEF JournalTeardown
  <2>3. CASE ResumeTeardown(e)
    BY <2>3 DEF ResumeTeardown
  <2>4. CASE DropJournal(e)
    BY <2>4 DEF DropJournal
  <2> QED BY ONLY <1>3, <2>1, <2>2, <2>3, <2>4 DEF Close
<1>4. CASE Lapse(e)
  <2>1. CASE Age(e)
    BY <2>1 DEF Age
  <2>2. CASE Expire(e)
    BY <2>2 DEF Expire
  <2>3. CASE FindGap(e)
    BY <2>3 DEF FindGap
  <2> QED BY ONLY <1>4, <2>1, <2>2, <2>3 DEF Lapse
<1> QED BY <1>1, <1>2, <1>3, <1>4

-----------------------------------------------------------------------------
(* The steps of the owner.                                                   *)

\* Preparing, offering, reading and dropping intents leaves all of that alone; an
\* intent that is settled adds to what is accepted.
LEMMA ExchangeKeeps ==
  ASSUME RouteInv, NEW e \in Endpoints, Exchange(e)
  PROVE  OwnerInv(e)'
<1>1. OwnerInv(e) /\ DOMAIN accepted = Endpoints
  BY DEF RouteInv, RouteShape
<1>2. CASE Settle(e)
  <2>1. /\ sets' = sets /\ local' = local /\ journal' = journal /\ closing' = closing
        /\ expired' = expired /\ lease' = lease
    BY <1>2 DEF Settle, times
  <2>2. accepted[e] \subseteq accepted'[e]
    <3>1. accepted'[e] = IF Head(outbox[e]).event.kind = "text" THEN accepted[e]
                         ELSE accepted[e] \cup {Head(outbox[e]).event}
      BY <1>1, <1>2 DEF Settle
    <3> QED BY <3>1
  <2>3. \A r : HandedOver(e, r) => HandedOver(e, r)'
    BY <2>1, <2>2 DEF HandedOver
  <2>4. Revoked(e)'
    BY <1>1, <2>1, <2>3 DEF OwnerInv, Revoked, Active
  <2> QED BY <1>1, <2>1, <2>4 DEF OwnerInv, Shape, Served, Created, Closes, ToGo, Active, At,
                                  Current, Last, Expired
<1>3. CASE ~Settle(e)
  <2>1. Owned(e)' = Owned(e)
    BY <1>3 DEF Exchange, PrepareProbe, PrepareText, Submit, Receive, Fail, Discard, Compact,
                Owned, outgoing, times
  <2> QED BY <1>1, <2>1, IdleKeeps
<1> QED BY <1>2, <1>3

\* The steps of the replacement journal.
LEMMA MaintainKeeps ==
  ASSUME RouteInv, NEW e \in Endpoints, Maintain(e)
  PROVE  OwnerInv(e)'
<1>1. /\ OwnerInv(e) /\ DOMAIN sets = Endpoints /\ DOMAIN local = Endpoints
      /\ DOMAIN journal = Endpoints /\ DOMAIN lease = Endpoints
  BY DEF RouteInv, RouteShape
<1>2. /\ Shape(e) /\ Served(e) /\ Created(e) /\ Revoked(e) /\ Closes(e)
  BY <1>1 DEF OwnerInv
<1>3. journal[e] # NoJournal => journal[e] \in Journals
  BY <1>2 DEF Shape
<1>4. Current(e) \in Sets
  BY <1>2 DEF Current, Last, Shape
<1>5. CASE StartReplacement(e)
  <2>1. PICK old \in Routes, new \in Routes : journal'[e] =
            [new |-> new, old |-> old, step |-> "create", fresh |-> TRUE]
    <3>1. PICK old \in Candidates(e), new \in Routes : journal' = [journal EXCEPT ![e] =
              [new |-> new, old |-> old, step |-> "create", fresh |-> TRUE]]
      BY <1>5 DEF StartReplacement
    <3>2. old \in Routes
      BY <1>2, <3>1 DEF Candidates, Shape
    <3> QED BY ONLY <1>1, <3>1, <3>2, e \in Endpoints
  <2>2. journal'[e] \in Journals
    BY <2>1 DEF Journals
  <2>3. /\ Active(e) /\ sets' = sets /\ local' = local /\ closing' = closing
        /\ accepted' = accepted /\ expired' = expired /\ lease' = lease
        /\ journal'[e].step = "create"
    BY <1>5, <2>1 DEF StartReplacement, outgoing, times
  <2>4. Shape(e)'
    BY <1>2, <2>2, <2>3 DEF Shape
  <2>5. Served(e)'
    BY <1>2, <2>3 DEF Served, Active, Current, Last
  <2>6. Created(e)'
    BY <2>3 DEF Created, At
  <2>7. Revoked(e)'
    BY <1>2, <2>3 DEF Revoked, Active, HandedOver
  <2>8. Closes(e)'
    BY <1>2, <2>3 DEF Closes, Active
  <2> QED BY <2>4, <2>5, <2>6, <2>7, <2>8 DEF OwnerInv
<1>6. CASE CreateRoute(e)
  <2> DEFINE new == journal[e].new
  <2>1. /\ Active(e) /\ At(e, "create") /\ lease[e][new] # "tornDown"
        /\ sets' = sets /\ local' = local /\ closing' = closing /\ accepted' = accepted
        /\ expired' = expired
    BY <1>6 DEF CreateRoute, outgoing, times
  <2>2. journal[e] \in Journals /\ journal[e].step = "create" /\ new \in Routes
    BY <1>3, <2>1 DEF At, Journals
  <2>3. lease'[e] = [lease[e] EXCEPT ![new] = "open"]
    BY <1>1, <1>6 DEF CreateRoute
  <2>4. journal'[e] \in Journals /\ journal'[e].new = new
    <3>1. CASE journal' = [journal EXCEPT ![e].step = "created"]
      BY <1>1, <2>2, <3>1 DEF Journals
    <3>2. CASE journal' = journal
      BY <2>2, <3>2
    <3> QED BY <1>6, <3>1, <3>2 DEF CreateRoute
  <2> HIDE DEF new
  <2>5. /\ lease'[e] \in [Routes -> {"absent", "open", "tornDown"}] /\ lease'[e][new] = "open"
        /\ \A r \in Routes : lease[e][r] = "open" => lease'[e][r] = "open"
        /\ \A r \in Routes : lease'[e][r] = "tornDown" => lease[e][r] = "tornDown"
    BY <1>2, <2>2, <2>3 DEF Shape
  <2>6. Shape(e)'
    BY <1>2, <2>1, <2>4, <2>5 DEF Shape
  <2>7. Served(e)'
    BY <1>2, <2>1, <2>5 DEF Served, Active, Current, Last
  <2>8. Created(e)'
    BY <2>4, <2>5 DEF Created
  <2>9. Revoked(e)'
    BY <1>2, <2>1, <2>5 DEF Revoked, Active, HandedOver
  <2>10. Closes(e)'
    BY <1>2, <2>1 DEF Closes, Active
  <2> QED BY <2>6, <2>7, <2>8, <2>9, <2>10 DEF OwnerInv
<1>7. CASE PublishTesting(e)
  <2> DEFINE new == journal[e].new
             set == AddTesting(Current(e), new)
  <2>1. /\ Active(e) /\ At(e, "created") /\ Announce(e, set)
        /\ local'[e] = local[e] \cup {new}
        /\ journal' = journal /\ closing' = closing /\ expired' = expired /\ lease' = lease
    BY <1>1, <1>7 DEF PublishTesting, times
  <2>2. new \in Routes /\ lease[e][new] = "open"
    BY <1>2, <1>3, <2>1 DEF At, Journals, Created
  <2>3. set \in Sets
    BY <1>4 DEF AddTesting, Sets, States
  <2>4. \A r \in Routes : set[r] \in {"testing", "active", "draining"} =>
          r = new \/ Current(e)[r] \in {"testing", "active", "draining"}
    BY <1>4 DEF AddTesting, Sets, States
  <2>5. Created(e)'
    BY <2>1, <2>2 DEF Created
  <2> HIDE DEF new, set
  <2>6. /\ sets'[e] \in Seq(Sets) /\ Len(sets'[e]) >= 1 /\ Current(e)' = set
        /\ \A r \in Routes : HandedOver(e, r) => HandedOver(e, r)'
    BY <2>1, <2>3, AnnounceKeeps
  <2>7. Shape(e)'
    BY <1>2, <2>1, <2>2, <2>6 DEF Shape
  <2>8. Served(e)'
    BY <1>2, <2>1, <2>2, <2>4, <2>6 DEF Served, Active
  <2>9. Revoked(e)'
    BY <1>2, <2>1, <2>6 DEF Revoked, Active
  <2>10. Closes(e)'
    BY <1>2, <2>1 DEF Closes, Active
  <2> QED BY <2>5, <2>7, <2>8, <2>9, <2>10 DEF OwnerInv
<1>8. CASE Promote(e) \/ Revoke(e)
  <2>1. PICK set \in Sets :
          /\ Announce(e, set)
          /\ \A r \in Routes : set[r] \in {"testing", "active", "draining"} =>
               Current(e)[r] \in {"testing", "active", "draining"}
    <3>1. CASE Promote(e)
      <4> DEFINE set == PromoteProbed(Current(e), journal[e].new, journal[e].old)
      <4>1. /\ Announce(e, set) /\ Current(e)[journal[e].new] = "testing"
            /\ Current(e)[journal[e].old] = "active"
        BY <3>1 DEF Promote
      <4>2. set \in Sets
        BY <1>4 DEF PromoteProbed, Sets, States
      <4>3. \A r \in Routes : set[r] \in {"testing", "active", "draining"} =>
               Current(e)[r] \in {"testing", "active", "draining"}
        BY <1>4, <4>1 DEF PromoteProbed, Sets, States
      <4> QED BY <4>1, <4>2, <4>3
    <3>2. CASE Revoke(e)
      <4> DEFINE set == RevokeDrained(Current(e), journal[e].old)
      <4>1. Announce(e, set)
        BY <3>2 DEF Revoke
      <4>2. set \in Sets
        BY <1>4 DEF RevokeDrained, Sets, States
      <4>3. \A r \in Routes : set[r] \in {"testing", "active", "draining"} =>
               Current(e)[r] \in {"testing", "active", "draining"}
        BY <1>4 DEF RevokeDrained, Sets, States
      <4> QED BY <4>1, <4>2, <4>3
    <3> QED BY <1>8, <3>1, <3>2
  <2>2. /\ Active(e) /\ local' = local /\ journal' = journal /\ closing' = closing
        /\ expired' = expired /\ lease' = lease
    BY <1>8 DEF Promote, Revoke, times
  <2>3. /\ sets'[e] \in Seq(Sets) /\ Len(sets'[e]) >= 1 /\ Current(e)' = set
        /\ \A r \in Routes : HandedOver(e, r) => HandedOver(e, r)'
    BY <2>1, AnnounceKeeps
  <2>4. Shape(e)'
    BY <1>2, <2>2, <2>3 DEF Shape
  <2>5. Served(e)'
    BY <1>2, <2>1, <2>2, <2>3 DEF Served, Active
  <2>6. Created(e)'
    BY <1>2, <2>2 DEF Created, Active, At
  <2>7. Revoked(e)'
    BY <1>2, <2>2, <2>3 DEF Revoked, Active
  <2>8. Closes(e)'
    BY <1>2, <2>2 DEF Closes, Active
  <2> QED BY <2>4, <2>5, <2>6, <2>7, <2>8 DEF OwnerInv
<1>9. CASE OverlapEnds(e)
  <2>1. Owned(e)' = Owned(e)
    BY <1>9 DEF OverlapEnds, Owned, outgoing
  <2> QED BY <1>1, <2>1, IdleKeeps
<1>10. CASE SignTeardown(e)
  <2>1. /\ Active(e) /\ At(e, "created")
        /\ sets' = sets /\ local' = local /\ closing' = closing /\ accepted' = accepted
        /\ expired' = expired /\ lease' = lease
    BY <1>10 DEF SignTeardown, outgoing, times
  <2>2. journal'[e] \in Journals /\ journal'[e].step = "teardown"
    BY <1>1, <1>3, <1>10, <2>1 DEF SignTeardown, Journals, At
  <2>3. Shape(e)'
    BY <1>2, <2>1, <2>2 DEF Shape
  <2>4. Served(e)'
    BY <1>2, <2>1 DEF Served, Active, Current, Last
  <2>5. Created(e)'
    BY <2>2 DEF Created, At
  <2>6. Revoked(e)'
    BY <1>2, <2>1 DEF Revoked, Active, HandedOver
  <2>7. Closes(e)'
    BY <1>2, <2>1 DEF Closes, Active
  <2> QED BY <2>3, <2>4, <2>5, <2>6, <2>7 DEF OwnerInv
<1>11. CASE TearDown(e)
  <2> DEFINE old == journal[e].old
  <2>1. /\ Active(e) /\ At(e, "teardown") /\ RevocationAccepted(e)
        /\ sets' = sets /\ local' = local /\ closing' = closing /\ accepted' = accepted
        /\ expired' = expired
    BY <1>11 DEF TearDown, outgoing, times
  <2>2. journal[e] \in Journals /\ journal[e].step = "teardown" /\ old \in Routes
    BY <1>3, <2>1 DEF At, Journals
  <2>3. Current(e)[old] = "revoked" /\ HandedOver(e, old)
    <3>1. Len(sets[e]) \in DOMAIN sets[e] /\ sets[e][Len(sets[e])] = Current(e)
      BY <1>2 DEF Shape, Current, Last
    <3> QED BY <2>1, <3>1 DEF RevocationAccepted, HandedOver
  <2>4. lease'[e] = [lease[e] EXCEPT ![old] = "tornDown"]
    BY <1>1, <1>11 DEF TearDown
  <2>5. journal'[e] \in Journals /\ journal'[e].step \in {"teardown", "tombstone"}
    <3>1. CASE journal' = [journal EXCEPT ![e].step = "tombstone"]
      BY <1>1, <2>2, <3>1 DEF Journals
    <3>2. CASE journal' = journal
      BY <2>2, <3>2
    <3> QED BY <1>11, <3>1, <3>2 DEF TearDown
  <2> HIDE DEF old
  <2>6. /\ lease'[e] \in [Routes -> {"absent", "open", "tornDown"}]
        /\ \A r \in Routes : r # old => lease'[e][r] = lease[e][r]
    BY <1>2, <2>2, <2>4 DEF Shape
  <2>7. Current(e)' = Current(e) /\ \A r : HandedOver(e, r) => HandedOver(e, r)'
    BY <2>1 DEF HandedOver, Current, Last
  <2>8. Shape(e)'
    BY <1>2, <2>1, <2>5, <2>6 DEF Shape
  <2>9. Served(e)'
    BY <1>2, <2>1, <2>3, <2>6, <2>7 DEF Served, Active
  <2>10. Created(e)'
    BY <2>5 DEF Created, At
  <2>11. Revoked(e)'
    BY <1>2, <2>1, <2>3, <2>6, <2>7 DEF Revoked, Active
  <2>12. Closes(e)'
    BY <1>2, <2>1 DEF Closes, Active
  <2> QED BY <2>8, <2>9, <2>10, <2>11, <2>12 DEF OwnerInv
<1>12. CASE Retire(e)
  <2> DEFINE old == journal[e].old
  <2>1. /\ Active(e) /\ At(e, "tombstone") /\ RevocationAccepted(e)
        /\ sets' = sets /\ lease' = lease /\ closing' = closing /\ accepted' = accepted
        /\ expired' = expired
    BY <1>12 DEF Retire, outgoing, times
  <2>2. Current(e)[old] = "revoked" /\ journal[e].step = "tombstone"
    BY <2>1 DEF RevocationAccepted, At
  <2>3. \/ local'[e] = local[e] \ {old} /\ journal' = journal
        \/ local' = local /\ journal'[e] = NoJournal
    BY <1>1, <1>12 DEF Retire
  <2> HIDE DEF old
  <2>4. Shape(e)'
    BY <1>2, <2>1, <2>3 DEF Shape
  <2>5. Served(e)'
    BY <1>2, <2>1, <2>2, <2>3 DEF Served, Active, Current, Last
  <2>6. Created(e)'
    BY <2>2, <2>3 DEF Created, At
  <2>7. Revoked(e)'
    BY <1>2, <2>1 DEF Revoked, Active, HandedOver
  <2>8. Closes(e)'
    BY <1>2, <2>1 DEF Closes, Active
  <2> QED BY <2>4, <2>5, <2>6, <2>7, <2>8 DEF OwnerInv
<1> QED BY <1>5, <1>6, <1>7, <1>8, <1>9, <1>10, <1>11, <1>12 DEF Maintain

\* What time does to the owner's requests and routes.
LEMMA LapseKeeps ==
  ASSUME RouteInv, NEW e \in Endpoints, Lapse(e)
  PROVE  OwnerInv(e)'
<1>1. OwnerInv(e) /\ DOMAIN journal = Endpoints /\ DOMAIN expired = Endpoints
  BY DEF RouteInv, RouteShape
<1>2. /\ Shape(e) /\ Served(e) /\ Created(e) /\ Revoked(e) /\ Closes(e)
  BY <1>1 DEF OwnerInv
<1>3. CASE Age(e)
  <2>1. /\ sets' = sets /\ local' = local /\ lease' = lease /\ closing' = closing
        /\ accepted' = accepted /\ expired' = expired
        /\ journal[e].step \in {"create", "teardown"}
        /\ journal'[e] = [journal[e] EXCEPT !.fresh = FALSE]
    BY <1>1, <1>3 DEF Age, outgoing, times
  <2>2. journal[e] \in Journals
    BY <1>2, <2>1 DEF Shape, NoJournal
  <2>3. journal'[e] \in Journals /\ journal'[e].step = journal[e].step
    BY <2>1, <2>2 DEF Journals
  <2>4. Shape(e)'
    BY <1>2, <2>1, <2>3 DEF Shape
  <2>5. Served(e)'
    BY <1>2, <2>1 DEF Served, Active, Current, Last
  <2>6. Created(e)'
    BY <2>1, <2>3 DEF Created, At
  <2>7. Revoked(e)'
    BY <1>2, <2>1 DEF Revoked, Active, HandedOver
  <2>8. Closes(e)'
    BY <1>2, <2>1, <2>3 DEF Closes, ToGo, Active, Expired
  <2> QED BY <2>4, <2>5, <2>6, <2>7, <2>8 DEF OwnerInv
<1>4. CASE Expire(e)
  <2>1. /\ sets' = sets /\ local' = local /\ lease' = lease /\ closing' = closing
        /\ accepted' = accepted /\ journal' = journal
    BY <1>4 DEF Expire, outgoing
  <2>2. PICK r \in Routes : ~Expired(e, r) /\ expired' = [expired EXCEPT ![e] = r]
    BY <1>4 DEF Expire
  <2>3. /\ expired[e] \in 0..MaxRoutes /\ MaxRoutes \in Nat
        /\ ToGo(e) \subseteq Nat
    <3>1. journal[e].step = "created" => journal[e].new \in Routes
      BY <1>2 DEF Shape, NoJournal, Journals
    <3> QED BY <1>2, <3>1, MaintenanceAssumption DEF Shape, ToGo, Routes
  <2>4. expired'[e] = r /\ r \in 0..MaxRoutes /\ expired[e] < r
    BY <1>1, <2>2, <2>3 DEF Expired, Routes
  <2>5. \A q \in Nat : Expired(e, q) => Expired(e, q)'
    BY <2>3, <2>4 DEF Expired
  <2>6. Shape(e)'
    BY <1>2, <2>1, <2>4 DEF Shape
  <2>7. Served(e)'
    BY <1>2, <2>1 DEF Served, Active, Current, Last
  <2>8. Created(e)'
    BY <1>2, <2>1 DEF Created, Active, At
  <2>9. Revoked(e)'
    BY <1>2, <2>1 DEF Revoked, Active, HandedOver
  <2>10. Closes(e)'
    <3>1. ToGo(e)' = ToGo(e)
      BY <2>1 DEF ToGo
    <3> QED BY <1>2, <2>1, <2>3, <2>5, <3>1 DEF Closes, Active
  <2> QED BY <2>6, <2>7, <2>8, <2>9, <2>10 DEF OwnerInv
<1>5. CASE FindGap(e)
  <2>1. Owned(e)' = Owned(e)
    BY <1>5 DEF FindGap, Owned, outgoing
  <2> QED BY <1>1, <2>1, IdleKeeps
<1> QED BY <1>3, <1>4, <1>5 DEF Lapse

\* The steps of an endpoint that blocks.
LEMMA CloseKeeps ==
  ASSUME RouteInv, NEW e \in Endpoints, Close(e)
  PROVE  OwnerInv(e)'
<1>1. /\ OwnerInv(e) /\ DOMAIN journal = Endpoints /\ DOMAIN closing = Endpoints
      /\ DOMAIN lease = Endpoints
  BY DEF RouteInv, RouteShape
<1>2. /\ Shape(e) /\ Closes(e)
  BY <1>1 DEF OwnerInv
<1>3. journal[e].step \in {"created", "teardown"} => journal[e].new \in Routes
  BY <1>2 DEF Shape, NoJournal, Journals
<1>4. /\ sets' = sets /\ local' = local /\ accepted' = accepted /\ expired' = expired
  BY DEF Close, Block, JournalTeardown, ResumeTeardown, DropJournal, outgoing, times
<1>5. CASE Block(e)
  <2>1. /\ journal' = journal /\ lease' = lease
        /\ closing'[e] = [closing[e] EXCEPT !.state = "blocked"]
    BY <1>1, <1>5 DEF Block
  <2>2. closing'[e] \in Closings /\ closing'[e].state = "blocked"
    BY <1>2, <2>1 DEF Shape, Closings
  <2>3. Shape(e)' /\ ~Active(e)'
    BY <1>2, <1>4, <2>1, <2>2 DEF Shape, Active
  <2> QED BY <2>2, <2>3 DEF OwnerInv, Served, Created, Revoked, Closes
<1>6. CASE JournalTeardown(e)
  <2> DEFINE held == local[e] \cup
        IF journal[e].step \in {"created", "teardown"} THEN {journal[e].new} ELSE {}
  <2>1. /\ journal' = journal /\ lease' = lease
        /\ closing'[e] = [state |-> "journaled", pending |-> Unexpired(e, held)]
    BY <1>1, <1>6 DEF JournalTeardown
  <2>2. held \subseteq Routes
    BY <1>2, <1>3 DEF Shape
  <2>3. ToGo(e)' \subseteq held
    BY <1>4, <2>1 DEF ToGo
  <2> HIDE DEF held
  <2>4. /\ closing'[e] \in Closings /\ closing'[e].state = "journaled"
        /\ \A r \in held : r \in closing'[e].pending \/ Expired(e, r)
    BY <2>1, <2>2 DEF Closings, Unexpired
  <2>5. Shape(e)' /\ ~Active(e)'
    BY <1>2, <1>4, <2>1, <2>4 DEF Shape, Active
  <2>6. Closes(e)'
    BY <1>4, <2>3, <2>4, <2>5 DEF Closes, Expired
  <2> QED BY <2>5, <2>6 DEF OwnerInv, Served, Created, Revoked
<1>7. CASE ResumeTeardown(e)
  <2>1. PICK r \in closing[e].pending :
          /\ lease' = [lease EXCEPT ![e][r] = "tornDown"]
          /\ \/ closing' = [closing EXCEPT ![e].pending = @ \ {r}]
             \/ closing' = closing
    BY <1>7 DEF ResumeTeardown
  <2>2. journal' = journal /\ ~Active(e) /\ r \in Routes
    BY <1>2, <1>7, <2>1 DEF ResumeTeardown, Closes, Shape, Closings
  <2>3. lease'[e] = [lease[e] EXCEPT ![r] = "tornDown"]
    BY <1>1, <2>1
  <2>4. /\ lease'[e] \in [Routes -> {"absent", "open", "tornDown"}] /\ lease'[e][r] = "tornDown"
        /\ \A q \in Routes : lease[e][q] = "tornDown" => lease'[e][q] = "tornDown"
    BY <1>2, <2>2, <2>3 DEF Shape
  <2>5. /\ closing'[e] \in Closings /\ closing'[e].state = closing[e].state
        /\ closing'[e].pending \in {closing[e].pending, closing[e].pending \ {r}}
    <3>1. CASE closing' = [closing EXCEPT ![e].pending = @ \ {r}]
      BY <1>1, <1>2, <3>1 DEF Shape, Closings
    <3>2. CASE closing' = closing
      BY <1>2, <3>2 DEF Shape
    <3> QED BY <2>1, <3>1, <3>2
  <2>6. Shape(e)' /\ ~Active(e)'
    BY <1>2, <1>4, <2>2, <2>4, <2>5 DEF Shape, Active
  <2>7. Closes(e)'
    <3>1. ToGo(e)' = ToGo(e) /\ ToGo(e) \subseteq Routes
      BY <1>2, <1>3, <1>4, <2>2 DEF ToGo, Shape
    <3>2. \A q : Expired(e, q) => Expired(e, q)'
      BY <1>4 DEF Expired
    <3> QED BY <1>2, <2>4, <2>5, <2>6, <3>1, <3>2 DEF Closes
  <2> QED BY <2>6, <2>7 DEF OwnerInv, Served, Created, Revoked
<1>8. CASE DropJournal(e)
  <2>1. /\ closing[e].state = "journaled" /\ closing' = closing /\ lease' = lease
        /\ journal'[e] = NoJournal
    BY <1>1, <1>8 DEF DropJournal
  <2>2. Shape(e)' /\ ~Active(e)'
    BY <1>2, <1>4, <2>1 DEF Shape, Active
  <2>3. ToGo(e)' \subseteq ToGo(e)
    BY <1>4, <2>1 DEF ToGo, NoJournal
  <2>4. Closes(e)'
    BY <1>2, <1>4, <2>1, <2>2, <2>3 DEF Closes, Expired
  <2> QED BY <2>2, <2>4 DEF OwnerInv, Served, Created, Revoked
<1> QED BY <1>5, <1>6, <1>7, <1>8 DEF Close

-----------------------------------------------------------------------------
LEMMA NextKeeps == RouteInv /\ [Next]_vars => RouteInv'
<1> SUFFICES ASSUME RouteInv, [Next]_vars PROVE RouteInv'
  OBVIOUS
<1>1. CASE Next
  <2>1. PICK e \in Endpoints : Maintain(e) \/ Exchange(e) \/ Close(e) \/ Lapse(e)
    BY <1>1 DEF Next
  <2>2. RouteShape' /\ \A o \in Endpoints : o # e => Owned(o)' = Owned(o)
    BY <2>1, OthersKeep
  <2>3. OwnerInv(e)'
    BY <2>1, MaintainKeeps, ExchangeKeeps, CloseKeeps, LapseKeeps
  <2> QED BY <2>2, <2>3, OneActs
<1>2. CASE UNCHANGED vars
  <2>1. RouteShape'
    BY <1>2 DEF vars, outgoing, times, RouteInv, RouteShape
  <2>2. ASSUME NEW o \in Endpoints PROVE OwnerInv(o)'
    <3>1. Owned(o)' = Owned(o)
      BY <1>2 DEF vars, outgoing, times, Owned
    <3> QED BY <3>1, IdleKeeps DEF RouteInv
  <2> QED BY <2>1, <2>2 DEF RouteInv
<1> QED BY <1>1, <1>2

LEMMA RouteInvAlways == Spec => []RouteInv
<1> QED BY InitIsRouted, NextKeeps, PTL DEF Spec

\* Whatever is lost, refused, dropped or resent, a route an active owner advertises
\* is one it reads and its relay has not torn down (PublishTesting waits for the
\* relay's answer, the teardown for the revocation).
THEOREM AdvertisedAlwaysServed == Spec => []AdvertisedIsServed
<1>1. RouteInv => AdvertisedIsServed
  BY DEF RouteInv, OwnerInv, Served, AdvertisedIsServed
<1> QED BY <1>1, RouteInvAlways, PTL

\* A relay tears a route of an active owner down only after a relay of its peer
\* has accepted a route set that revokes it.
THEOREM RevocationFirst == Spec => []TornDownAfterRevocation
<1>1. RouteInv => TornDownAfterRevocation
  BY DEF RouteInv, OwnerInv, Revoked, HandedOver, TornDownAfterRevocation
<1> QED BY <1>1, RouteInvAlways, PTL

\* A blocked endpoint never reports its teardown complete while the relay still
\* serves a route it holds or was told of.
THEOREM BlockedRoutesGo == Spec => []ReportedRoutesAreTornDown
<1>1. RouteInv => ReportedRoutesAreTornDown
  BY DEF RouteInv, OwnerInv, Closes, ToGo, ReportedRoutesAreTornDown
<1> QED BY <1>1, RouteInvAlways, PTL
=============================================================================
