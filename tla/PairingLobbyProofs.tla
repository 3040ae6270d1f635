-------------------------- MODULE PairingLobbyProofs --------------------------
(* Why the invitation of an approved request is taken once: proved for any    *)
(* number of seekers, requests and invocations of the poll.                   *)
EXTENDS PairingLobby, TLAPS

Steps == {"sync", "open", "opening"}

\* A running invocation polls a session of its device, and the device is busy.
Polling(q, i) ==
    LET p == polls[q][i] IN
    /\ p = [at |-> p.at, of |-> p.of, from |-> p.from, queue |-> p.queue]
    /\ p.at \in Steps /\ p.of \in Requests /\ p.of[1] = q
    /\ busy[q] = TRUE

\* Only one invocation gets past the test of relayPairingBusy, and while it opens
\* an answer no other has opened the answer to that request.
OnePoll(q) ==
    /\ \A i \in Slots : polls[q][i] = Idle \/ Polling(q, i)
    /\ \A i, j \in Slots : polls[q][i] # Idle /\ polls[q][j] # Idle => i = j
    /\ \A i \in Slots : polls[q][i].at = "opening" => polls[q][i].of \notin consumed

OwnSession(q) == session[q] \in Requests => session[q][1] = q

TakenIsConsumed ==
    /\ taken \in [Requests -> {0, 1}]
    /\ \A r \in Requests : taken[r] = 1 => r \in consumed

LobbyShape ==
    /\ session = [q \in Seekers |-> session[q]]
    /\ busy = [d \in Devices |-> busy[d]]
    /\ polls = [d \in Devices |-> polls[d]]
    /\ \A d \in Devices : polls[d] = [i \in Slots |-> polls[d][i]]

LobbyInv ==
    /\ LobbyShape /\ TakenIsConsumed
    /\ \A q \in Seekers : OnePoll(q) /\ OwnSession(q)

-----------------------------------------------------------------------------
LEMMA RunningIsNotIdle ==
  ASSUME NEW q, NEW i, Polling(q, i)
  PROVE  polls[q][i] # Idle
BY DEF Polling, Idle, Steps

LEMMA LobbyStarts == ASSUME LobbyAssumption, Init PROVE LobbyInv
<1>1. LobbyShape /\ TakenIsConsumed
  BY DEF Init, LobbyShape, TakenIsConsumed
<1>2. ASSUME NEW q \in Seekers PROVE OnePoll(q) /\ OwnSession(q)
  <2>1. q \in Devices /\ session[q] = None /\ \A i \in Slots : polls[q][i] = Idle
    BY DEF Init, Devices
  <2>2. None \notin Requests
    BY DEF LobbyAssumption, Requests
  <2> QED BY <2>1, <2>2 DEF OnePoll, OwnSession, Idle
<1> QED BY <1>1, <1>2 DEF LobbyInv

\* A step that changes none of the polls, whatever it does to the sessions.
LEMMA SessionsAlone ==
  ASSUME LobbyInv, UNCHANGED <<consumed, taken, busy, polls>>,
         session' = [q \in Seekers |-> session'[q]],
         \A q \in Seekers : OwnSession(q)'
  PROVE  LobbyInv'
<1>1. LobbyShape' /\ TakenIsConsumed'
  BY DEF LobbyInv, LobbyShape, TakenIsConsumed
<1>2. ASSUME NEW q \in Seekers PROVE OnePoll(q)'
  BY DEF LobbyInv, OnePoll, Polling
<1> QED BY <1>1, <1>2 DEF LobbyInv

\* Closing the session of a device.
LEMMA ClosedIsOwn ==
  ASSUME LobbyAssumption, LobbyInv, NEW d \in Devices, Close(d) \/ KeepSessions
  PROVE  /\ session' = [q \in Seekers |-> session'[q]]
         /\ \A q \in Seekers : OwnSession(q)'
<1>1. session' = session \/ session' = [session EXCEPT ![d] = None]
  BY DEF Close, KeepSessions
<1>2. None \notin Requests
  BY DEF LobbyAssumption, Requests
<1>3. CASE session' = session
  BY <1>3 DEF LobbyInv, LobbyShape, OwnSession
<1>4. CASE session' = [session EXCEPT ![d] = None]
  <2>1. session' = [q \in Seekers |-> session'[q]]
    BY <1>4 DEF LobbyInv, LobbyShape
  <2>2. ASSUME NEW q \in Seekers PROVE session'[q] = session[q] \/ session'[q] = None
    BY <1>4 DEF LobbyInv, LobbyShape
  <2> QED BY <1>2, <2>1, <2>2 DEF LobbyInv, OwnSession
<1> QED BY <1>1, <1>3, <1>4

\* A step of one invocation that neither opens an answer nor ends an opening.
LEMMA PollAlone ==
  ASSUME LobbyInv, NEW d \in Devices, NEW i \in Slots, NEW p,
         UNCHANGED <<consumed, taken>>,
         session' = [q \in Seekers |-> session'[q]],
         \A q \in Seekers : OwnSession(q)',
         polls' = [polls EXCEPT ![d][i] = p],
         \/ p = Idle /\ (busy' = busy \/ busy' = [busy EXCEPT ![d] = FALSE])
         \/ /\ d \in Seekers => /\ p = [at |-> p.at, of |-> p.of, from |-> p.from,
                                      queue |-> p.queue]
                                /\ p.at \in Steps /\ p.of \in Requests /\ p.of[1] = d
                                /\ p.at = "opening" => p.of \notin consumed
            /\ \/ busy' = busy /\ polls[d][i] # Idle
               \/ busy[d] # TRUE /\ busy' = [busy EXCEPT ![d] = TRUE],
         d \in Seekers => polls[d][i] # Idle \/ busy[d] # TRUE
  PROVE  LobbyInv'
<1>1. /\ \A e \in Devices : polls'[e] = IF e = d THEN [polls[d] EXCEPT ![i] = p] ELSE polls[e]
      /\ polls' = [e \in Devices |-> polls'[e]]
  BY DEF LobbyInv, LobbyShape
<1>2. \A j \in Slots : polls'[d][j] = IF j = i THEN p ELSE polls[d][j]
  BY <1>1 DEF LobbyInv, LobbyShape
<1>3. /\ busy' = [e \in Devices |-> busy'[e]]
      /\ \A e \in Devices : e # d => busy'[e] = busy[e]
  BY DEF LobbyInv, LobbyShape
<1>4. LobbyShape' /\ TakenIsConsumed'
  <2>1. \A e \in Devices : polls'[e] = [j \in Slots |-> polls'[e][j]]
    <3>1. ASSUME NEW e \in Devices PROVE polls'[e] = [j \in Slots |-> polls'[e][j]]
      <4>1. polls[e] = [j \in Slots |-> polls[e][j]]
        BY DEF LobbyInv, LobbyShape
      <4>2. CASE e = d
        <5>1. polls'[e] = [polls[e] EXCEPT ![i] = p]
          BY <1>1, <4>2
        <5> QED BY <4>1, <5>1
      <4>3. CASE e # d
        BY <1>1, <4>1, <4>3
      <4> QED BY <4>2, <4>3
    <3> QED BY <3>1
  <2>2. LobbyShape'
    BY <1>1, <1>3, <2>1 DEF LobbyShape
  <2> QED BY <2>2 DEF LobbyInv, TakenIsConsumed
<1>5. ASSUME NEW q \in Seekers PROVE OnePoll(q)'
  <2>1. CASE q # d
    <3>1. polls'[q] = polls[q] /\ busy'[q] = busy[q]
      BY <1>1, <1>3, <2>1 DEF Devices
    <3> QED BY <3>1 DEF LobbyInv, OnePoll, Polling
  <2>2. CASE q = d
    <3>1. \A j \in Slots : j # i => polls[d][j] = Idle
      <4>1. CASE polls[d][i] # Idle
        BY <2>2, <4>1 DEF LobbyInv, OnePoll
      <4>2. CASE busy[d] # TRUE
        BY <2>2, <4>2 DEF LobbyInv, OnePoll, Polling
      <4> QED BY <2>2, <4>1, <4>2
    <3>2. \A j \in Slots : polls'[q][j] = IF j = i THEN p ELSE Idle
      BY <1>2, <2>2, <3>1
    <3>3. CASE p = Idle
      BY <3>2, <3>3 DEF OnePoll, Idle
    <3>4. CASE p # Idle
      <4>1. busy'[q] = TRUE
        BY <2>2, <3>4 DEF LobbyInv, LobbyShape, OnePoll, Polling
      <4>2. Polling(q, i)' /\ (p.at = "opening" => p.of \notin consumed')
        BY <2>2, <3>2, <3>4, <4>1 DEF Polling
      <4>3. Idle.at # "opening"
        BY DEF Idle
      <4> QED BY <3>2, <4>2, <4>3 DEF OnePoll
    <3> QED BY <3>3, <3>4
  <2> QED BY <2>1, <2>2
<1> QED BY <1>4, <1>5 DEF LobbyInv

\* Opening an answer: only then is the invitation taken.
LEMMA AnswerTakenOnce ==
  ASSUME LobbyAssumption, LobbyInv, NEW q \in Seekers, NEW i \in Slots, ResponseOpened(q, i)
  PROVE  LobbyInv'
<1> DEFINE p == polls[q][i]
           o == [p EXCEPT !.at = "open", !.queue = <<>>]
<1>1. /\ p.at = "opening" /\ consumed' = consumed \cup {p.of}
      /\ taken' = (IF Head(p.queue) = "accepted" THEN [taken EXCEPT ![p.of] = @ + 1] ELSE taken)
      /\ polls' = [polls EXCEPT ![q][i] = o]
      /\ busy' = busy /\ Close(q)
  BY DEF ResponseOpened
<1>2. q \in Devices
  BY DEF Devices
<1>3. /\ session' = [e \in Seekers |-> session'[e]]
      /\ \A e \in Seekers : OwnSession(e)'
  BY <1>1, <1>2, ClosedIsOwn
<1>4. Polling(q, i) /\ p.of \notin consumed
  BY <1>1 DEF LobbyInv, OnePoll, Idle
<1>5. /\ o = [at |-> o.at, of |-> o.of, from |-> o.from, queue |-> o.queue]
      /\ o.at = "open" /\ o.of = p.of /\ p.of \in Requests /\ p.of[1] = q /\ busy[q] = TRUE
  <2>1. p = [at |-> p.at, of |-> p.of, from |-> p.from, queue |-> p.queue]
    BY <1>4 DEF Polling
  <2>2. o \in [at : {"open"}, of : {p.of}, from : {p.from}, queue : {<<>>}]
    <3>1. p \in [at : {p.at}, of : {p.of}, from : {p.from}, queue : {p.queue}]
      BY <2>1, Zenon
    <3> HIDE DEF p
    <3> QED BY <3>1
  <2>3. p.of \in Requests /\ p.of[1] = q /\ busy[q] = TRUE
    BY <1>4 DEF Polling
  <2> HIDE DEF o
  <2>4. o = [at |-> o.at, of |-> o.of, from |-> o.from, queue |-> o.queue]
    BY <2>2
  <2>5. o.at = "open" /\ o.of = p.of
    BY <2>2
  <2> QED BY <2>3, <2>4, <2>5
<1> HIDE DEF o
<1>6. TakenIsConsumed'
  <2>1. taken[p.of] = 0
    BY <1>4, <1>5 DEF LobbyInv, TakenIsConsumed
  <2>2. taken' = taken \/ taken' = [taken EXCEPT ![p.of] = 1]
    BY <1>1, <1>5, <2>1 DEF LobbyInv, TakenIsConsumed
  <2> QED BY <1>1, <1>5, <2>2 DEF LobbyInv, TakenIsConsumed
<1>7. \A e \in Devices : polls'[e] = IF e = q THEN [polls[q] EXCEPT ![i] = o] ELSE polls[e]
  BY <1>1, <1>2 DEF LobbyInv, LobbyShape
<1>8. \A j \in Slots : polls'[q][j] = IF j = i THEN o ELSE polls[q][j]
  <2>1. polls[q] = [j \in Slots |-> polls[q][j]]
    BY <1>2 DEF LobbyInv, LobbyShape
  <2>2. polls'[q] = [polls[q] EXCEPT ![i] = o]
    BY <1>2, <1>7
  <2> QED BY <2>1, <2>2
<1>9. LobbyShape'
  <2>1. ASSUME NEW e \in Devices PROVE polls'[e] = [j \in Slots |-> polls'[e][j]]
    <3>1. polls[e] = [j \in Slots |-> polls[e][j]]
      BY DEF LobbyInv, LobbyShape
    <3>2. polls'[e] = [polls[e] EXCEPT ![i] = o] \/ polls'[e] = polls[e]
      BY <1>7
    <3>3. CASE polls'[e] = [polls[e] EXCEPT ![i] = o]
      BY <3>1, <3>3
    <3>4. CASE polls'[e] = polls[e]
      BY <3>1, <3>4
    <3> QED BY <3>2, <3>3, <3>4
  <2>2. polls' = [e \in Devices |-> polls'[e]]
    BY <1>1 DEF LobbyInv, LobbyShape
  <2> QED BY <1>1, <1>3, <2>1, <2>2 DEF LobbyInv, LobbyShape
<1>10. ASSUME NEW e \in Seekers PROVE OnePoll(e)'
  <2>1. CASE e # q
    <3>1. polls'[e] = polls[e] /\ busy'[e] = busy[e]
      BY <1>1, <1>7, <2>1 DEF Devices
    <3>2. ASSUME NEW j \in Slots, polls[e][j].at = "opening"
          PROVE  polls[e][j].of \notin consumed'
      <4>1. polls[e][j] # Idle
        BY <3>2 DEF Idle
      <4>2. polls[e][j].of[1] = e /\ polls[e][j].of \notin consumed
        BY <3>2, <4>1 DEF LobbyInv, OnePoll, Polling
      <4> QED BY <1>1, <1>5, <2>1, <4>2
    <3> QED BY <3>1, <3>2 DEF LobbyInv, OnePoll, Polling
  <2>2. CASE e = q
    <3>1. \A j \in Slots : j # i => polls[q][j] = Idle
      BY <1>4, RunningIsNotIdle DEF LobbyInv, OnePoll
    <3>2. \A j \in Slots : polls'[q][j] = IF j = i THEN o ELSE Idle
      BY <1>8, <3>1
    <3>3. Polling(q, i)'
      BY <1>1, <1>5, <3>2 DEF Polling, Steps
    <3>4. Idle.at # "opening"
      BY DEF Idle
    <3> QED BY <1>5, <2>2, <3>2, <3>3, <3>4 DEF OnePoll
  <2> QED BY <2>1, <2>2
<1> QED BY <1>3, <1>6, <1>9, <1>10 DEF LobbyInv

\* A poll goes on: the session it polls and its device stay.
LEMMA PollGoesOn ==
  ASSUME LobbyInv, NEW d \in Devices, NEW i \in Slots, NEW p,
         polls[d][i] # Idle, UNCHANGED <<session, consumed, taken, busy>>,
         polls' = [polls EXCEPT ![d][i] = p],
         d \in Seekers =>
           /\ p = [at |-> p.at, of |-> p.of, from |-> p.from, queue |-> p.queue]
           /\ p.at \in Steps /\ p.of = polls[d][i].of
           /\ p.at = "opening" => p.of \notin consumed
  PROVE  LobbyInv'
<1>1. ASSUME d \in Seekers PROVE p.of \in Requests /\ p.of[1] = d
  <2>1. Polling(d, i)
    BY <1>1 DEF LobbyInv, OnePoll
  <2> QED BY <1>1, <2>1 DEF Polling
<1>2. /\ session' = [q \in Seekers |-> session'[q]]
      /\ \A q \in Seekers : OwnSession(q)'
  BY DEF LobbyInv, LobbyShape, OwnSession
<1> QED BY <1>1, <1>2, PollAlone

\* A poll ends.
LEMMA PollStops ==
  ASSUME LobbyAssumption, LobbyInv, NEW d \in Devices, NEW i \in Slots,
         polls[d][i] # Idle, UNCHANGED <<consumed, taken>>,
         session' = session \/ Close(d) \/ KeepSessions,
         polls' = [polls EXCEPT ![d][i] = Idle], busy' = [busy EXCEPT ![d] = FALSE]
  PROVE  LobbyInv'
<1>1. /\ session' = [q \in Seekers |-> session'[q]]
      /\ \A q \in Seekers : OwnSession(q)'
  <2>1. CASE session' = session
    BY <2>1 DEF LobbyInv, LobbyShape, OwnSession
  <2>2. CASE Close(d) \/ KeepSessions
    BY <2>2, ClosedIsOwn
  <2> QED BY <2>1, <2>2
<1> QED BY <1>1, PollAlone

LEMMA LobbySteps == ASSUME LobbyAssumption, LobbyInv, [Next]_vars PROVE LobbyInv'
<1>0. Host \in Devices /\ Host \notin Seekers /\ Seekers \subseteq Devices
      /\ None \notin Requests /\ Finder \notin Requests
  BY DEF Devices, LobbyAssumption, Requests
<1>1. CASE UNCHANGED <<session, consumed, taken, busy, polls>>
  BY <1>1, SessionsAlone DEF LobbyInv, LobbyShape, OwnSession
<1>2. CASE Expire \/ Start
  BY <1>1, <1>2 DEF Expire, Start, seeker, polling
<1>3. ASSUME NEW s \in closing, Dispose(s) PROVE LobbyInv'
  BY <1>1, <1>3 DEF Dispose, host, seeker, polling
<1>4. ASSUME NEW q \in Seekers, Find(q) PROVE LobbyInv'
  <2>1. session' = [session EXCEPT ![q] = Finder] /\ UNCHANGED <<consumed, taken, busy, polls>>
    BY <1>4 DEF Find, polling
  <2> QED BY <1>0, <2>1, SessionsAlone DEF LobbyInv, LobbyShape, OwnSession
<1>5. ASSUME NEW r \in Requests, Appended(r) PROVE LobbyInv'
  <2>1. r[1] \in Seekers
    BY DEF Requests
  <2>2. session' = [session EXCEPT ![r[1]] = r] /\ UNCHANGED <<consumed, taken, busy, polls>>
    BY <1>5 DEF Appended, polling
  <2> QED BY <2>1, <2>2, SessionsAlone DEF LobbyInv, LobbyShape, OwnSession
<1>6. ASSUME NEW r \in Requests, Request(r) \/ RequestFails(r) PROVE LobbyInv'
  BY <1>1, <1>6 DEF Request, RequestFails, polling
<1>7. ASSUME NEW r \in Requests, NEW decision,
             Decide(r, decision) \/ DecisionFails(r, decision)
      PROVE  LobbyInv'
  BY <1>1, <1>7 DEF Decide, DecisionFails, seeker, polling
<1>8. ASSUME NEW r \in Requests, NEW decision, Delivered(r, decision) PROVE LobbyInv'
  <2>1. (Close(Host) \/ KeepSessions) /\ UNCHANGED <<consumed, taken, busy, polls>>
    BY <1>8 DEF Delivered, polling
  <2> QED BY <1>0, <2>1, ClosedIsOwn, SessionsAlone
<1>9. ASSUME NEW d \in Devices, Stop(d) PROVE LobbyInv'
  <2>1. Close(d) /\ UNCHANGED <<consumed, taken, busy, polls>>
    BY <1>9 DEF Stop, polling
  <2> QED BY <2>1, ClosedIsOwn, SessionsAlone
<1>10. ASSUME NEW d \in Devices, NEW i \in Slots, PollStart(d, i) PROVE LobbyInv'
  <2> DEFINE p == [at |-> "sync", of |-> Current(d), from |-> cursor[Current(d)], queue |-> <<>>]
  <2>1. /\ UNCHANGED <<session, consumed, taken>> /\ polls' = [polls EXCEPT ![d][i] = p]
        /\ busy' = [busy EXCEPT ![d] = TRUE] /\ ~busy[d] /\ Current(d) # None
    BY <1>10 DEF PollStart, MayPoll, seeker
  <2>2. d \in Seekers => p.of \in Requests /\ p.of[1] = d
    BY <1>0, <2>1 DEF Current, LobbyInv, OwnSession
  <2>3. p = [at |-> p.at, of |-> p.of, from |-> p.from, queue |-> p.queue]
        /\ p.at = "sync"
    OBVIOUS
  <2>4. /\ session' = [q \in Seekers |-> session'[q]]
        /\ \A q \in Seekers : OwnSession(q)'
    BY <2>1 DEF LobbyInv, LobbyShape, OwnSession
  <2> HIDE DEF p
  <2>5. busy[d] # TRUE
    BY <2>1
  <2> QED BY <2>1, <2>2, <2>3, <2>4, <2>5, PollAlone DEF Steps
<1>11. ASSUME NEW d \in Devices, NEW i \in Slots, PollEnds(d, i) PROVE LobbyInv'
  <2>1. polls[d][i] # Idle
    BY <1>11 DEF PollEnds, Idle
  <2> QED BY <1>11, <2>1, PollStops DEF PollEnds, seeker
<1>12. ASSUME NEW d \in Devices, NEW i \in Slots, SyncFails(d, i) PROVE LobbyInv'
  <2>1. polls[d][i] # Idle
    BY <1>12 DEF SyncFails, Idle
  <2> QED BY <1>12, <2>1, PollStops DEF SyncFails, Fails
<1>13. ASSUME NEW q \in Seekers, NEW i \in Slots, ResponseFails(q, i) PROVE LobbyInv'
  <2>1. polls[q][i] # Idle
    BY <1>13 DEF ResponseFails, Idle
  <2> QED BY <1>0, <1>13, <2>1, PollStops DEF ResponseFails, Fails
<1>14. ASSUME NEW q \in Seekers, NEW i \in Slots, ResponseOpened(q, i) PROVE LobbyInv'
  BY <1>14, AnswerTakenOnce
<1>15. ASSUME NEW i \in Slots, OpenRequest(i) PROVE LobbyInv'
  <2>1. /\ polls[Host][i] # Idle /\ UNCHANGED <<session, consumed, taken, busy>>
        /\ polls' = [polls EXCEPT ![Host][i].queue = Tail(@)]
    BY <1>15 DEF OpenRequest, seeker, Idle
  <2>2. polls' = [polls EXCEPT ![Host][i] = [polls[Host][i] EXCEPT !.queue = Tail(@)]]
    BY <2>1
  <2> QED BY <1>0, <2>1, <2>2, PollGoesOn
<1>16. ASSUME NEW q \in Seekers, NEW i \in Slots, OpenResponse(q, i) PROVE LobbyInv'
  <2> DEFINE p == polls[q][i]
             o == [p EXCEPT !.at = "opening"]
  <2>1. /\ p.at = "open" /\ p.of \notin consumed
        /\ UNCHANGED <<session, consumed, taken, busy>>
        /\ polls' = [polls EXCEPT ![q][i].at = "opening"]
    BY <1>16 DEF OpenResponse, Opens, seeker
  <2>2. p # Idle /\ Polling(q, i)
    BY <2>1 DEF Idle, LobbyInv, OnePoll
  <2>3. polls' = [polls EXCEPT ![q][i] = o]
    BY <2>1
  <2>4. o \in [at : {"opening"}, of : {p.of}, from : {p.from}, queue : {p.queue}]
    <3>1. p \in [at : {p.at}, of : {p.of}, from : {p.from}, queue : {p.queue}]
      BY <2>2, Zenon DEF Polling
    <3> HIDE DEF p
    <3> QED BY <3>1
  <2> HIDE DEF o
  <2>5. /\ o = [at |-> o.at, of |-> o.of, from |-> o.from, queue |-> o.queue]
        /\ o.at = "opening" /\ o.of = p.of
    BY <2>4
  <2>6. o.at \in Steps /\ o.of = polls[q][i].of /\ o.of \notin consumed
    BY <2>1, <2>5 DEF Steps
  <2>7. q \in Devices /\ polls[q][i] # Idle /\ UNCHANGED <<session, consumed, taken, busy>>
    BY <1>0, <2>1, <2>2
  <2> HIDE DEF p
  <2> QED BY <2>3, <2>5, <2>6, <2>7, PollGoesOn
<1>17. ASSUME NEW d \in Devices, NEW i \in Slots, Sync(d, i) PROVE LobbyInv'
  <2> DEFINE p == polls[d][i]
  <2>1. PICK n : polls' = [polls EXCEPT ![d][i] = [p EXCEPT !.at = "open",
                                    !.queue = SubSeq(Records(p.of), p.from + 1, n)]]
    BY <1>17 DEF Sync
  <2> DEFINE read == SubSeq(Records(p.of), p.from + 1, n)
             o == [p EXCEPT !.at = "open", !.queue = read]
  <2>2. p # Idle /\ UNCHANGED <<session, consumed, taken, busy>>
    BY <1>17 DEF Sync, Idle, seeker
  <2>3. d \in Seekers =>
          /\ o = [at |-> o.at, of |-> o.of, from |-> o.from, queue |-> o.queue]
          /\ o.at = "open" /\ o.of = p.of
    <3> SUFFICES ASSUME d \in Seekers
                 PROVE  /\ o = [at |-> o.at, of |-> o.of, from |-> o.from, queue |-> o.queue]
                        /\ o.at = "open" /\ o.of = p.of
      OBVIOUS
    <3>1. Polling(d, i)
      BY <2>2 DEF LobbyInv, OnePoll
    <3>2. p \in [at : {p.at}, of : {p.of}, from : {p.from}, queue : {p.queue}]
      BY <3>1, Zenon DEF Polling
    <3>3. o \in [at : {"open"}, of : {p.of}, from : {p.from}, queue : {read}]
      <4> HIDE DEF p, read
      <4> QED BY <3>2
    <3> HIDE DEF o
    <3> QED BY <3>3
  <2>4. polls' = [polls EXCEPT ![d][i] = o]
    BY <2>1
  <2> HIDE DEF o
  <2> QED BY <2>2, <2>3, <2>4, PollGoesOn DEF Steps
<1>18. CASE UNCHANGED vars
  BY <1>1, <1>18 DEF vars, seeker, polling
<1> QED
  BY <1>0, <1>2, <1>3, <1>4, <1>5, <1>6, <1>7, <1>8, <1>9, <1>10, <1>11, <1>12, <1>13, <1>14,
     <1>15, <1>16, <1>17, <1>18
  DEF Next, Advance

\* The invitation of a request is taken at most once, however many polls, clicks and
\* closing sessions overlap (pollRelayPairing in app.js, openResponse in
\* pairing-lobby-v1.js).
THEOREM InvitationTakenOnce == Spec => []TakenOnce
<1>1. Init => LobbyInv
  BY LobbyAssumption, LobbyStarts
<1>2. LobbyInv /\ [Next]_vars => LobbyInv'
  BY LobbyAssumption, LobbySteps
<1>3. LobbyInv => TakenOnce
  BY DEF LobbyInv, TakenIsConsumed, TakenOnce
<1> QED BY <1>1, <1>2, <1>3, PTL DEF Spec

-----------------------------------------------------------------------------
(* The host's side: nothing its cursor has passed is lost.                    *)

\* A running invocation of the host's poll holds what it read and has not opened; until
\* the relay answers it has read nothing, and the cursor stands where it began.
HostPolling(i) ==
    LET p == polls[Host][i] IN
    /\ p = [at |-> p.at, of |-> p.of, from |-> p.from, queue |-> p.queue]
    /\ p.at \in {"sync", "open"} /\ p.of = Host
    /\ p.queue \in Seq(Requests)
    /\ p.at = "sync" => p.queue = <<>> /\ p.from = cursor[Host]
    /\ busy[Host] = TRUE

OneHostPoll ==
    /\ \A i \in Slots : polls[Host][i] = Idle \/ HostPolling(i)
    /\ \A i, j \in Slots : polls[Host][i] # Idle /\ polls[Host][j] # Idle => i = j

CursorInRoute ==
    /\ inbox \in Seq(Requests)
    /\ cursor = [s \in Requests \cup {Host} |-> cursor[s]]
    /\ cursor[Host] \in 0..Len(inbox)

HostInv == CursorInRoute /\ OneHostPoll /\ NothingPassedOver

\* A request waits in the poll that read it.
Waits(r) ==
    \E i \in Slots : polls[Host][i] # Idle /\ r \in Range(polls[Host][i].queue)

LEMMA HostStarts == ASSUME LobbyAssumption, Init PROVE HostInv
<1>1. inbox = <<>> /\ cursor = [s \in Requests \cup {Host} |-> 0]
  BY DEF Init
<1>2. CursorInRoute
  BY <1>1 DEF CursorInRoute
<1>3. OneHostPoll
  BY DEF Init, OneHostPoll, Devices
<1>4. NothingPassedOver
  BY <1>1 DEF NothingPassedOver
<1> QED BY <1>2, <1>3, <1>4 DEF HostInv

\* A step the host's poll takes no part in: requests may come, nothing is forgotten.
LEMMA HostUntouched ==
  ASSUME HostInv, UNCHANGED <<polls[Host], cursor[Host], busy[Host]>>,
         inbox' = inbox \/ \E r \in Requests : inbox' = Append(inbox, r),
         cursor' = [s \in Requests \cup {Host} |-> cursor'[s]],
         processed \subseteq processed', over => over', disposed \subseteq disposed'
  PROVE  HostInv'
<1>1. inbox' \in Seq(Requests) /\ Len(inbox) <= Len(inbox')
      /\ \A n \in 1..cursor[Host] : inbox'[n] = inbox[n]
  <2>1. CASE inbox' = inbox
    BY <2>1 DEF HostInv, CursorInRoute
  <2>2. ASSUME NEW r \in Requests, inbox' = Append(inbox, r)
        PROVE  inbox' \in Seq(Requests) /\ Len(inbox) <= Len(inbox')
               /\ \A n \in 1..cursor[Host] : inbox'[n] = inbox[n]
    BY <2>2 DEF HostInv, CursorInRoute
  <2> QED BY <2>1, <2>2
<1>2. CursorInRoute'
  BY <1>1 DEF HostInv, CursorInRoute
<1>3. OneHostPoll'
  BY DEF HostInv, OneHostPoll, HostPolling
<1>4. NothingPassedOver'
  BY <1>1 DEF HostInv, NothingPassedOver
<1> QED BY <1>2, <1>3, <1>4 DEF HostInv

\* What one invocation of a device's poll becomes, the others stay.
Becomes(d, i, p) == polls' = [polls EXCEPT ![d][i] = p]

LEMMA OneInvocation ==
  ASSUME LobbyInv, NEW d \in Devices, NEW i \in Slots, NEW p,
         Becomes(d, i, p)
  PROVE  /\ \A e \in Devices : e # d => polls'[e] = polls[e]
         /\ \A j \in Slots : polls'[d][j] = IF j = i THEN p ELSE polls[d][j]
<1>1. polls = [e \in Devices |-> polls[e]] /\ polls[d] = [j \in Slots |-> polls[d][j]]
  BY DEF LobbyInv, LobbyShape
<1>2. /\ polls'[d] = [polls[d] EXCEPT ![i] = p]
      /\ \A e \in Devices : e # d => polls'[e] = polls[e]
  BY <1>1 DEF Becomes
<1> QED BY <1>1, <1>2

\* The host's poll moves on or ends: what it held and holds no more was shown.
LEMMA HostPollMoves ==
  ASSUME LobbyInv, HostInv, Host \in Devices, NEW i \in Slots, NEW p,
         Becomes(Host, i, p),
         polls[Host][i] # Idle \/ busy[Host] # TRUE,
         \/ p = Idle
         \/ /\ p = [at |-> p.at, of |-> p.of, from |-> p.from, queue |-> p.queue]
            /\ p.at \in {"sync", "open"} /\ p.of = Host /\ p.queue \in Seq(Requests)
            /\ p.at = "sync" => p.queue = <<>> /\ p.from = cursor'[Host]
            /\ busy'[Host] = TRUE,
         CursorInRoute', UNCHANGED inbox,
         ~over' /\ Host \notin disposed' =>
           \A n \in 1..cursor'[Host] :
             \/ inbox[n] \in processed'
             \/ p # Idle /\ inbox[n] \in Range(p.queue)
  PROVE  HostInv'
<1>1. \A j \in Slots : polls'[Host][j] = IF j = i THEN p ELSE polls[Host][j]
  BY OneInvocation
<1>2. \A j \in Slots : j # i => polls[Host][j] = Idle
  BY DEF HostInv, OneHostPoll, HostPolling
<1>3. OneHostPoll'
  <2>1. \A j \in Slots : j # i => polls'[Host][j] = Idle
    BY <1>1, <1>2
  <2>2. polls'[Host][i] = p
    BY <1>1
  <2>3. p = Idle \/ HostPolling(i)'
    BY <2>2 DEF HostPolling
  <2> QED BY <2>1, <2>2, <2>3 DEF OneHostPoll
<1>4. NothingPassedOver'
  <2> SUFFICES ASSUME ~over', Host \notin disposed', NEW n \in 1..cursor'[Host]
               PROVE  inbox'[n] \in processed' \/ Waits(inbox[n])'
    BY DEF NothingPassedOver, Waits
  <2>1. CASE inbox[n] \in processed'
    BY <2>1
  <2>2. CASE p # Idle /\ inbox[n] \in Range(p.queue)
    BY <1>1, <2>2 DEF Waits
  <2> QED BY <2>1, <2>2
<1> QED BY <1>3, <1>4 DEF HostInv

\* While a poll runs, what the cursor has passed was shown or is held by that poll;
\* while none runs it was shown.
LEMMA HeldOrShown ==
  ASSUME HostInv, NEW i \in Slots, ~over, Host \notin disposed, NEW n \in 1..cursor[Host],
         polls[Host][i] # Idle \/ busy[Host] # TRUE
  PROVE  \/ inbox[n] \in processed
         \/ polls[Host][i] # Idle /\ inbox[n] \in Range(polls[Host][i].queue)
BY DEF HostInv, OneHostPoll, HostPolling, NothingPassedOver

LEMMA HostPollStarts ==
  ASSUME LobbyAssumption, LobbyInv, HostInv, NEW i \in Slots, PollStart(Host, i)
  PROVE  HostInv'
<1> DEFINE p == [at |-> "sync", of |-> Host, from |-> cursor[Host], queue |-> <<>>]
<1>1. /\ Becomes(Host, i, p) /\ busy' = [busy EXCEPT ![Host] = TRUE] /\ busy[Host] # TRUE
      /\ UNCHANGED <<over, inbox, processed, disposed, cursor>>
  BY DEF PollStart, MayPoll, Current, Becomes, relay, host, keys
<1>2. Host \in Devices /\ busy'[Host] = TRUE
  BY <1>1 DEF Devices, LobbyInv, LobbyShape
<1>3. /\ p = [at |-> p.at, of |-> p.of, from |-> p.from, queue |-> p.queue]
      /\ p.at = "sync" /\ p.of = Host /\ p.queue = <<>> /\ p.from = cursor[Host]
  OBVIOUS
<1>4. CursorInRoute'
  BY <1>1 DEF HostInv, CursorInRoute
<1>5. ~over' /\ Host \notin disposed' => \A n \in 1..cursor'[Host] : inbox[n] \in processed'
  BY <1>1, HeldOrShown DEF HostInv, OneHostPoll, HostPolling
<1> HIDE DEF p
<1>6. p.queue \in Seq(Requests)
  BY <1>3
<1> QED BY <1>1, <1>2, <1>3, <1>4, <1>5, <1>6, HostPollMoves

LEMMA HostPollStops ==
  ASSUME LobbyInv, HostInv, Host \in Devices, NEW i \in Slots,
         polls[Host][i] # Idle, polls[Host][i].at = "sync" \/ polls[Host][i].queue = <<>>,
         polls' = [polls EXCEPT ![Host][i] = Idle],
         UNCHANGED <<over, inbox, processed, disposed, cursor>>
  PROVE  HostInv'
<1>1. Becomes(Host, i, Idle)
  BY DEF Becomes
<1>2. polls[Host][i].queue = <<>>
  BY DEF HostInv, OneHostPoll, HostPolling
<1>3. Range(polls[Host][i].queue) = {}
  BY <1>2 DEF Range
<1>4. ~over' /\ Host \notin disposed' => \A n \in 1..cursor'[Host] : inbox[n] \in processed'
  BY <1>3, HeldOrShown
<1>5. CursorInRoute'
  BY DEF HostInv, CursorInRoute
<1> QED BY <1>1, <1>4, <1>5, HostPollMoves

LEMMA TakenFromQueue ==
  ASSUME NEW S, NEW q \in Seq(S), q # <<>>
  PROVE  /\ Head(q) \in S /\ Tail(q) \in Seq(S)
         /\ Range(q) = {Head(q)} \cup Range(Tail(q))
<1>1. Len(q) \in Nat \ {0} /\ Head(q) = q[1] /\ Head(q) \in S /\ Tail(q) \in Seq(S)
      /\ Len(Tail(q)) = Len(q) - 1 /\ \A k \in 1..Len(q) - 1 : Tail(q)[k] = q[k + 1]
  OBVIOUS
<1>2. DOMAIN q = 1..Len(q) /\ DOMAIN Tail(q) = 1..Len(q) - 1
  BY <1>1
<1>3. ASSUME NEW x \in Range(q) PROVE x \in {Head(q)} \cup Range(Tail(q))
  <2>1. PICK k \in 1..Len(q) : x = q[k]
    BY <1>2 DEF Range
  <2>2. CASE k = 1
    BY <1>1, <2>1, <2>2
  <2>3. CASE k # 1
    <3>1. k - 1 \in 1..Len(q) - 1 /\ Tail(q)[k - 1] = x
      BY <1>1, <2>1, <2>3
    <3> QED BY <1>2, <3>1 DEF Range
  <2> QED BY <2>2, <2>3
<1>4. ASSUME NEW x \in {Head(q)} \cup Range(Tail(q)) PROVE x \in Range(q)
  <2>1. CASE x = Head(q)
    BY <1>1, <1>2, <2>1 DEF Range
  <2>2. ASSUME NEW k \in 1..Len(q) - 1, x = Tail(q)[k] PROVE x \in Range(q)
    <3>1. k + 1 \in 1..Len(q) /\ q[k + 1] = x
      BY <1>1, <2>2
    <3> QED BY <1>2, <3>1 DEF Range
  <2> QED BY <1>2, <2>1, <2>2 DEF Range
<1> QED BY <1>1, <1>3, <1>4

\* Opening a request: it is shown, or it was, or the window is over.
LEMMA HostOpens ==
  ASSUME LobbyInv, HostInv, Host \in Devices, NEW i \in Slots, OpenRequest(i)
  PROVE  HostInv'
<1> DEFINE p == polls[Host][i]
           o == [p EXCEPT !.queue = Tail(@)]
           r == Head(p.queue)
<1>1. /\ p.at = "open" /\ p.queue # <<>>
      /\ processed' = processed \cup IF Host \notin disposed /\ Answerable(r) THEN {r} ELSE {}
      /\ polls' = [polls EXCEPT ![Host][i].queue = Tail(@)]
      /\ UNCHANGED <<over, inbox, disposed, cursor, busy>>
  BY DEF OpenRequest, relay, keys
<1>2. p # Idle /\ HostPolling(i)
  BY <1>1 DEF Idle, HostInv, OneHostPoll
<1>3. p.queue \in Seq(Requests) /\ p.of = Host /\ busy[Host] = TRUE
  BY <1>2 DEF HostPolling
<1>4. Tail(p.queue) \in Seq(Requests) /\ Range(p.queue) = {r} \cup Range(Tail(p.queue))
  BY <1>1, <1>3, TakenFromQueue
<1>5. Becomes(Host, i, o)
  BY <1>1 DEF Becomes
<1>6. p \in [at : {"open"}, of : {Host}, from : {p.from}, queue : {p.queue}]
  <2>1. p = [at |-> p.at, of |-> p.of, from |-> p.from, queue |-> p.queue]
    BY <1>2 DEF HostPolling
  <2>2. p \in [at : {p.at}, of : {p.of}, from : {p.from}, queue : {p.queue}]
    BY <2>1, Zenon
  <2> QED BY <1>1, <1>3, <2>2, Zenon
<1>7. o \in [at : {"open"}, of : {Host}, from : {p.from}, queue : {Tail(p.queue)}]
  <2> HIDE DEF p
  <2> QED BY <1>6
<1>8. \A n \in 1..cursor[Host] : ~over /\ Host \notin disposed =>
        inbox[n] \in processed' \/ inbox[n] \in Range(Tail(p.queue))
  BY <1>1, <1>2, <1>4, HeldOrShown DEF Answerable
<1>9. CursorInRoute'
  BY <1>1 DEF HostInv, CursorInRoute
<1> HIDE DEF o, p
<1>10. /\ o = [at |-> o.at, of |-> o.of, from |-> o.from, queue |-> o.queue]
       /\ o.at = "open" /\ o.of = Host /\ o.queue = Tail(p.queue)
  BY <1>7
<1>11. o # Idle
  BY <1>10 DEF Idle
<1>12. polls[Host][i] # Idle /\ busy'[Host] = TRUE
  BY <1>1, <1>2, <1>3 DEF p
<1>13. ~over' /\ Host \notin disposed' =>
         \A n \in 1..cursor'[Host] :
           inbox[n] \in processed' \/ (o # Idle /\ inbox[n] \in Range(o.queue))
  BY <1>1, <1>8, <1>10, <1>11
<1>14. o.queue \in Seq(Requests) /\ UNCHANGED inbox
  BY <1>1, <1>4, <1>10
<1> QED BY <1>5, <1>9, <1>10, <1>12, <1>13, <1>14, HostPollMoves

\* The relay answers the host: what the cursor now passes is in the queue of the poll.
LEMMA HostReads ==
  ASSUME LobbyAssumption, LobbyInv, HostInv, NEW i \in Slots, Sync(Host, i)
  PROVE  HostInv'
<1> DEFINE p == polls[Host][i]
<1>1. Host \in Devices
  BY DEF Devices
<1>2. p.at = "sync" /\ p # Idle
  BY DEF Sync, Idle
<1>3. HostPolling(i) /\ p.queue = <<>> /\ p.from = cursor[Host] /\ p.of = Host
      /\ busy[Host] = TRUE
  BY <1>2 DEF HostInv, OneHostPoll, HostPolling
<1>4. PICK n \in p.from..Len(Records(p.of)) :
        /\ polls' = [polls EXCEPT ![Host][i] = [p EXCEPT !.at = "open",
                        !.queue = SubSeq(Records(p.of), p.from + 1, n)]]
        /\ cursor' = [cursor EXCEPT ![p.of] = n]
  BY DEF Sync, CursorAfter
<1>5. UNCHANGED <<over, inbox, processed, disposed, busy>>
  BY DEF Sync, relay, host, keys
<1> DEFINE read == SubSeq(inbox, cursor[Host] + 1, n)
           o == [p EXCEPT !.at = "open", !.queue = read]
<1>6. /\ n \in Nat /\ cursor[Host] <= n /\ n <= Len(inbox) /\ cursor[Host] \in Nat
      /\ Records(p.of) = inbox
  BY <1>3, <1>4 DEF Records, HostInv, CursorInRoute
<1>7. Becomes(Host, i, o)
  BY <1>3, <1>4, <1>6 DEF Becomes
<1>8. CursorInRoute' /\ cursor'[Host] = n
  <2>1. cursor' = [cursor EXCEPT ![Host] = n]
    BY <1>3, <1>4
  <2>2. cursor = [s \in Requests \cup {Host} |-> cursor[s]]
    BY DEF HostInv, CursorInRoute
  <2>3. cursor'[Host] = n /\ cursor' = [s \in Requests \cup {Host} |-> cursor'[s]]
    BY <2>1, <2>2
  <2>4. inbox' \in Seq(Requests) /\ n \in 0..Len(inbox')
    BY <1>5, <1>6 DEF HostInv, CursorInRoute
  <2> QED BY <2>3, <2>4 DEF CursorInRoute
<1>9. /\ read \in Seq(Requests)
      /\ \A k \in cursor[Host] + 1..n : inbox[k] \in Range(read)
  <2>1. inbox \in Seq(Requests)
    BY DEF HostInv, CursorInRoute
  <2>2. /\ read \in Seq(Requests) /\ DOMAIN read = 1..n - cursor[Host]
        /\ \A k \in 1..n - cursor[Host] : read[k] = inbox[cursor[Host] + k]
    BY <1>6, <2>1
  <2> HIDE DEF read
  <2>3. ASSUME NEW k \in cursor[Host] + 1..n PROVE inbox[k] \in Range(read)
    <3> DEFINE m == k - cursor[Host]
    <3>1. m \in 1..n - cursor[Host] /\ cursor[Host] + m = k
      BY <1>6
    <3> HIDE DEF m
    <3>2. m \in DOMAIN read /\ read[m] = inbox[k]
      BY <2>2, <3>1
    <3> QED BY <3>2 DEF Range
  <2> QED BY <2>2, <2>3
<1>10. p \in [at : {"sync"}, of : {Host}, from : {p.from}, queue : {<<>>}]
  <2>1. p = [at |-> p.at, of |-> p.of, from |-> p.from, queue |-> p.queue]
    BY <1>3 DEF HostPolling
  <2>2. p \in [at : {p.at}, of : {p.of}, from : {p.from}, queue : {p.queue}]
    BY <2>1, Zenon
  <2> QED BY <1>2, <1>3, <2>2, Zenon
<1>11. o \in [at : {"open"}, of : {Host}, from : {p.from}, queue : {read}]
  <2> HIDE DEF p, read
  <2> QED BY <1>10
<1>12. ASSUME ~over', Host \notin disposed', NEW k \in 1..n
       PROVE  inbox[k] \in processed' \/ inbox[k] \in Range(read)
  <2>1. CASE k \in 1..cursor[Host]
    <3>1. Range(p.queue) = {}
      BY <1>3 DEF Range
    <3> QED BY <1>2, <1>5, <1>12, <2>1, <3>1, HeldOrShown
  <2>2. CASE k \notin 1..cursor[Host]
    BY <1>6, <1>9, <2>2
  <2> QED BY <2>1, <2>2
<1>13. polls[Host][i] # Idle /\ busy'[Host] = TRUE
  BY <1>2, <1>3, <1>5
<1> HIDE DEF o, p, read
<1>14. /\ o = [at |-> o.at, of |-> o.of, from |-> o.from, queue |-> o.queue]
       /\ o.at = "open" /\ o.of = Host /\ o.queue = read /\ o.queue \in Seq(Requests)
  BY <1>9, <1>11
<1>15. o # Idle
  BY <1>14 DEF Idle
<1>16. ~over' /\ Host \notin disposed' =>
         \A k \in 1..cursor'[Host] :
           inbox[k] \in processed' \/ (o # Idle /\ inbox[k] \in Range(o.queue))
  BY <1>8, <1>12, <1>14, <1>15
<1> QED BY <1>1, <1>5, <1>7, <1>8, <1>13, <1>14, <1>16, HostPollMoves

\* A step of a seeker's poll leaves the host's where it is.
LEMMA SeekerPolls ==
  ASSUME LobbyAssumption, LobbyInv, NEW q \in Seekers, NEW i \in Slots,
         PollStart(q, i) \/ PollEnds(q, i) \/ Sync(q, i) \/ SyncFails(q, i)
           \/ OpenResponse(q, i) \/ ResponseFails(q, i) \/ ResponseOpened(q, i)
  PROVE  UNCHANGED <<polls[Host], busy[Host], inbox, processed, over, disposed>>
<1>1. q # Host /\ Host \in Devices
  BY DEF LobbyAssumption, Devices
<1>2. polls = [d \in Devices |-> polls[d]] /\ busy = [d \in Devices |-> busy[d]]
  BY DEF LobbyInv, LobbyShape
<1>3. /\ UNCHANGED <<inbox, processed, over, disposed>>
      /\ busy' = busy \/ \E b : busy' = [busy EXCEPT ![q] = b]
  BY DEF PollStart, PollEnds, Sync, SyncFails, Fails, OpenResponse, ResponseFails,
         ResponseOpened, relay, host, keys
<1>4. \E p : polls' = [polls EXCEPT ![q] = p]
  BY DEF PollStart, PollEnds, Sync, SyncFails, Fails, OpenResponse, ResponseFails,
         ResponseOpened
<1> QED BY <1>1, <1>2, <1>3, <1>4

LEMMA SeekerReads ==
  ASSUME LobbyAssumption, LobbyInv, HostInv, NEW q \in Seekers, NEW i \in Slots, Sync(q, i)
  PROVE  cursor'[Host] = cursor[Host] /\ cursor' = [s \in Requests \cup {Host} |-> cursor'[s]]
<1>1. polls[q][i].of \in Requests
  <2>1. polls[q][i] # Idle
    BY DEF Sync, Idle
  <2>2. Polling(q, i)
    BY <2>1 DEF LobbyInv, OnePoll
  <2> QED BY <2>2 DEF Polling
<1>2. \E n : cursor' = [cursor EXCEPT ![polls[q][i].of] = n]
  BY DEF Sync
<1>3. Host \notin Requests
  BY DEF LobbyAssumption, Requests
<1> QED BY <1>1, <1>2, <1>3 DEF HostInv, CursorInRoute

LEMMA HostSteps ==
  ASSUME LobbyAssumption, LobbyInv, HostInv, [Next]_vars PROVE HostInv'
<1>0. Host \in Devices /\ Devices = Seekers \cup {Host}
  BY DEF Devices
<1>1. CASE UNCHANGED <<polls, cursor, busy, inbox, processed, over, disposed>>
  BY <1>1, HostUntouched DEF HostInv, CursorInRoute
<1>2. CASE Expire \/ Start \/ UNCHANGED vars
  BY <1>2, HostUntouched
  DEF Expire, Start, vars, polling, relay, host, keys, HostInv, CursorInRoute
<1>3. ASSUME NEW s \in closing, Dispose(s) PROVE HostInv'
  BY <1>3, HostUntouched DEF Dispose, host, polling, HostInv, CursorInRoute
<1>4. ASSUME NEW q \in Seekers, Find(q) PROVE HostInv'
  BY <1>1, <1>4 DEF Find, relay, host, keys, polling
<1>5. ASSUME NEW r \in Requests, Request(r) \/ Appended(r) \/ RequestFails(r) PROVE HostInv'
  <2>1. UNCHANGED <<polls, cursor, busy, processed, over, disposed>>
    BY <1>5 DEF Request, Appended, RequestFails, relay, host, keys, polling
  <2>2. inbox' = inbox \/ inbox' = Append(inbox, r)
    BY <1>5 DEF Request, Appended, RequestFails, relay
  <2> QED BY <2>1, <2>2, HostUntouched DEF HostInv, CursorInRoute
<1>6. ASSUME NEW r \in Requests, NEW decision,
             Decide(r, decision) \/ Delivered(r, decision) \/ DecisionFails(r, decision)
      PROVE  HostInv'
  BY <1>1, <1>6 DEF Decide, Delivered, DecisionFails, relay, keys, polling
<1>7. ASSUME NEW d \in Devices, Stop(d) PROVE HostInv'
  BY <1>1, <1>7 DEF Stop, relay, polling
<1>8. ASSUME NEW q \in Seekers, NEW i \in Slots,
             PollStart(q, i) \/ PollEnds(q, i) \/ SyncFails(q, i) \/ OpenResponse(q, i)
               \/ ResponseFails(q, i) \/ ResponseOpened(q, i)
      PROVE  HostInv'
  <2>1. UNCHANGED <<polls[Host], busy[Host], inbox, processed, over, disposed>>
    BY <1>8, SeekerPolls
  <2>2. UNCHANGED cursor
    BY <1>8 DEF PollStart, PollEnds, SyncFails, OpenResponse, ResponseFails, ResponseOpened
  <2> QED BY <2>1, <2>2, HostUntouched DEF HostInv, CursorInRoute
<1>9. ASSUME NEW q \in Seekers, NEW i \in Slots, Sync(q, i) PROVE HostInv'
  BY <1>9, SeekerPolls, SeekerReads, HostUntouched
<1>10. ASSUME NEW i \in Slots, PollStart(Host, i) PROVE HostInv'
  BY <1>10, HostPollStarts
<1>11. ASSUME NEW i \in Slots, PollEnds(Host, i) PROVE HostInv'
  <2>1. /\ polls[Host][i] # Idle /\ polls[Host][i].queue = <<>>
        /\ polls' = [polls EXCEPT ![Host][i] = Idle]
        /\ UNCHANGED <<over, inbox, processed, disposed, cursor>>
    BY <1>11 DEF PollEnds, Idle, relay, host, keys
  <2> QED BY <1>0, <2>1, HostPollStops
<1>12. ASSUME NEW i \in Slots, SyncFails(Host, i) PROVE HostInv'
  <2>1. /\ polls[Host][i] # Idle /\ polls[Host][i].at = "sync"
        /\ polls' = [polls EXCEPT ![Host][i] = Idle]
        /\ UNCHANGED <<over, inbox, processed, disposed, cursor>>
    BY <1>12 DEF SyncFails, Fails, Idle, relay
  <2> QED BY <1>0, <2>1, HostPollStops
<1>13. ASSUME NEW i \in Slots, OpenRequest(i) PROVE HostInv'
  BY <1>0, <1>13, HostOpens
<1>14. ASSUME NEW i \in Slots, Sync(Host, i) PROVE HostInv'
  BY <1>14, HostReads
<1>15. ASSUME NEW d \in Devices, Advance(d) PROVE HostInv'
  BY <1>0, <1>8, <1>10, <1>11, <1>13, <1>15 DEF Advance
<1>16. ASSUME NEW d \in Devices, NEW i \in Slots, Sync(d, i) \/ SyncFails(d, i) PROVE HostInv'
  BY <1>0, <1>8, <1>9, <1>12, <1>14, <1>16
<1> QED BY <1>2, <1>3, <1>4, <1>5, <1>6, <1>7, <1>15, <1>16 DEF Next

\* A request the host's cursor has passed was shown to the host's user or waits in the poll
\* that read it, as long as the window is open and the keys are there: no failing poll, and
\* no poll that overlaps another, costs a request (pollRelayPairing in app.js moves the
\* cursor before it opens what the relay returned).
THEOREM NoRequestLost == Spec => []NothingPassedOver
<1>1. Init => LobbyInv /\ HostInv
  BY LobbyAssumption, LobbyStarts, HostStarts
<1>2. LobbyInv /\ HostInv /\ [Next]_vars => LobbyInv' /\ HostInv'
  BY LobbyAssumption, LobbySteps, HostSteps
<1>3. HostInv => NothingPassedOver
  BY DEF HostInv
<1> QED BY <1>1, <1>2, <1>3, PTL DEF Spec
=============================================================================
