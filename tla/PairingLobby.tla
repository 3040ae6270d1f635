---------------------------- MODULE PairingLobby ----------------------------
(***************************************************************************)
(* The same-relay pairing lobby: a host makes itself visible at a relay    *)
(* for two minutes, seekers on other devices request a pairing, the host's *)
(* user approves or declines, and an approved seeker takes the one-use     *)
(* invitation out of the answer (src/pairing-lobby-v1.js,                  *)
(* src/realtime-relay-v1.js and their use in client/app.js).  What follows *)
(* the invitation is module ContactPairing.                                *)
(*                                                                         *)
(* The relay's routes and its lease are external: `inbox' is the host's    *)
(* request route, `reply' the response route of every request, `listed'    *)
(* the lease.  Every relay call may fail before or after its effect.  The  *)
(* user may click while a call is under way, as far as the buttons allow.  *)
(* One visibility window is modelled, and no device is locked meanwhile.   *)
(***************************************************************************)
EXTENDS Naturals, Sequences, FiniteSets, SequencesExt

CONSTANTS None, Host, Finder, Seekers,
          MaxRequests,  \* bound on the requests of one seeker
          Slots         \* invocations of pollRelayPairing that may overlap

ASSUME LobbyAssumption ==
    /\ MaxRequests \in Nat /\ Host \notin Seekers
    /\ {None, Finder, Host} \cap (Seekers \X (1..MaxRequests)) = {}

Devices == Seekers \cup {Host}
Requests == Seekers \X (1..MaxRequests)

VARIABLES over,      \* the two minutes are over
          listed,    \* the host's lease is at the relay
          inbox,     \* the requests in the host's request route
          reply,     \* the decision in the response route of each request
          lobby,     \* the host's session: "none", "open" or "closed"
          session,   \* state.relayPairing of each seeker: None, Finder or a request
          made,      \* every request a seeker created
          asking,    \* those not appended yet
          cursor,    \* the cursor of the host's and of every requester's session
          pending,   \* the requests shown to the host's user
          processed, \* processedRequestIDs
          deciding,  \* decisions being delivered
          consumed,  \* the requester sessions that opened an answer
          closing,   \* sessions closeRelayPairing has yet to dispose of
          disposed,  \* sessions whose keys are wiped
          busy,      \* relayPairingBusy of each device
          polls,     \* the running invocations of pollRelayPairing
          taken,     \* how often the invitation of a request was taken
          left       \* the requests a seeker gave up, by stopping or by another one

relay == <<listed, inbox, reply>>
host == <<lobby, pending, processed, deciding>>
seeker == <<session, made, asking, consumed, taken, left>>
keys == <<closing, disposed>>
polling == <<cursor, busy, polls>>
vars == <<over, relay, host, seeker, keys, polling>>

Idle == [at |-> "idle"]

Init ==
    /\ over = FALSE /\ listed = FALSE
    /\ inbox = <<>>
    /\ reply = [r \in Requests |-> None]
    /\ lobby = "none"
    /\ session = [q \in Seekers |-> None]
    /\ made = {} /\ asking = {}
    /\ cursor = [s \in Requests \cup {Host} |-> 0]
    /\ pending = {} /\ processed = {} /\ deciding = {}
    /\ consumed = {} /\ closing = {} /\ disposed = {}
    /\ busy = [d \in Devices |-> FALSE]
    /\ polls = [d \in Devices |-> [i \in Slots |-> Idle]]
    /\ taken = [r \in Requests |-> 0]
    /\ left = {}

-----------------------------------------------------------------------------
(* Sessions *)

\* The session a device polls: a finder has nothing to poll.
Current(d) ==
    IF d = Host THEN (IF lobby = "open" THEN Host ELSE None)
    ELSE (IF session[d] \in Requests THEN session[d] ELSE None)

\* closeRelayPairing takes the session away at once; its keys are wiped later.
Close(d) ==
    /\ lobby' = IF d = Host /\ lobby = "open" THEN "closed" ELSE lobby
    /\ session' = IF d = Host THEN session ELSE [session EXCEPT ![d] = None]
    /\ closing' = closing \cup ({Current(d)} \ {None})

KeepSessions == UNCHANGED <<lobby, session, closing>>

\* The lease is released (a failed release leaves it as a failed Start does); the keys are wiped.
Dispose(s) ==
    /\ s \in closing
    /\ closing' = closing \ {s}
    /\ disposed' = disposed \cup {s}
    /\ listed' = (listed /\ s # Host)
    /\ UNCHANGED <<over, inbox, reply, host, seeker, polling>>

\* The window ends: the lease, the routes and the requests expire together.
Expire ==
    /\ ~over
    /\ over' = TRUE
    /\ UNCHANGED <<relay, host, seeker, keys, polling>>

-----------------------------------------------------------------------------
(* What the users do *)

\* The host session announces keys of its own, a route for requests and a lease for as long.
Announced == lobby' = "open" /\ listed' = TRUE

\* Become visible; a start that fails may leave the lease at the relay.
Start ==
    /\ lobby = "none" /\ ~over
    /\ \/ Announced
       \/ lobby' = "closed" /\ listed' \in BOOLEAN
    /\ UNCHANGED <<over, inbox, reply, pending, processed, deciding, seeker, keys, polling>>

\* A listing is shown while its lease and the announcement in it last.
Visible == listed /\ ~over

\* List who is visible.
Find(q) ==
    /\ session[q] = None /\ ~busy[q]
    /\ Visible
    /\ session' = [session EXCEPT ![q] = Finder]
    /\ UNCHANGED <<over, relay, host, made, asking, consumed, taken, left, keys, polling>>

\* The requester session has keys, a response route and a request identifier of its own.
NewRequest(q) == <<q, Cardinality({m \in made : m[1] = q}) + 1>>

\* Request a pairing; nothing stops a second click while the first is under way.
Request(r) ==
    LET q == r[1]
    IN  /\ session[q] = Finder /\ ~over
        /\ r = NewRequest(q)
        /\ made' = made \cup {r}
        /\ asking' = asking \cup {r}
        /\ UNCHANGED <<over, relay, host, session, consumed, taken, left, keys, polling>>

\* The request reaches the host's route and becomes the seeker's session, in place of
\* whatever session the seeker has by then.
Appended(r) ==
    LET q == r[1]
    IN  /\ r \in asking /\ ~over
        /\ asking' = asking \ {r}
        /\ inbox' = Append(inbox, r)
        /\ session' = [session EXCEPT ![q] = r]
        /\ left' = left \cup ({Current(q)} \ {None})
        /\ UNCHANGED <<over, listed, reply, host, made, consumed, taken, keys, polling>>

\* A relay call of the request failed: at most the answer to the last one was lost.
RequestFails(r) ==
    /\ r \in asking
    /\ asking' = asking \ {r}
    /\ inbox' \in {inbox} \cup IF over THEN {} ELSE {Append(inbox, r)}
    /\ UNCHANGED <<over, listed, reply, host, session, made, consumed, taken, left, keys, polling>>

\* Stop: the button is disabled while a poll runs.  (After the window it changes nothing.)
Stop(d) ==
    /\ ~busy[d] /\ ~over
    /\ Current(d) # None \/ (d \in Seekers /\ session[d] = Finder)
    /\ Close(d)
    /\ left' = left \cup ({Current(d)} \ {None, Host})
    /\ UNCHANGED <<over, relay, pending, processed, deciding, made, asking, consumed, taken,
                   disposed, polling>>

\* Approve or decline a request (one that expired is refused at once).
Decide(r, decision) ==
    /\ lobby = "open" /\ ~busy[Host] /\ ~over
    /\ r \in pending
    /\ deciding' = deciding \cup {<<r, decision>>}
    /\ UNCHANGED <<over, relay, lobby, pending, processed, seeker, keys, polling>>

\* A response route takes one record, named by the request.
Deliverable(r) == Host \notin disposed /\ ~over /\ reply[r] = None

\* The decision is delivered; after an approval the host is no longer visible.
Delivered(r, decision) ==
    /\ <<r, decision>> \in deciding /\ Deliverable(r)
    /\ deciding' = deciding \ {<<r, decision>>}
    /\ reply' = [reply EXCEPT ![r] = decision]
    /\ IF decision = "accepted" THEN Close(Host) /\ UNCHANGED pending
       ELSE KeepSessions /\ pending' = pending \ {r}
    /\ UNCHANGED <<over, listed, inbox, processed, made, asking, consumed, taken, left, disposed,
                   polling>>

\* It is refused, or its answer is lost: the request stays on the host's screen.
DecisionFails(r, decision) ==
    /\ <<r, decision>> \in deciding
    /\ deciding' = deciding \ {<<r, decision>>}
    /\ reply' \in {reply} \cup IF Deliverable(r) THEN {[reply EXCEPT ![r] = decision]} ELSE {}
    /\ UNCHANGED <<over, listed, inbox, lobby, pending, processed, seeker, keys, polling>>

-----------------------------------------------------------------------------
(* pollRelayPairing, called every second *)

\* Mutant: a poll starts while another one is running.
MayPollAgain(d) == Current(d) # None
MayPoll(d) == ~busy[d] /\ Current(d) # None

FreeSlots(d) == {i \in Slots : polls[d][i] = Idle}

PollStart(d, i) ==
    /\ FreeSlots(d) # {}
    /\ i = CHOOSE j \in FreeSlots(d) : TRUE
    /\ MayPoll(d)
    /\ busy' = [busy EXCEPT ![d] = TRUE]
    /\ polls' = [polls EXCEPT ![d][i] = [at |-> "sync", of |-> Current(d),
                                             from |-> cursor[Current(d)], queue |-> <<>>]]
    /\ UNCHANGED <<over, relay, host, seeker, keys, cursor>>

\* The records in the route of a session.
Records(s) ==
    IF s = Host THEN inbox
    ELSE IF reply[s] = None THEN <<>> ELSE <<reply[s]>>

\* The relay returns the records after the cursor the poll began with, as many as it likes but not none, and
\* the cursor moves past them before they are opened.
\* Mutant: it moves past everything in the route.
CursorAtEnd(s, end) == Len(Records(s))
CursorAfter(s, end) == end

Sync(d, i) ==
    LET p == polls[d][i]
        end == Len(Records(p.of))
    IN  /\ p.at = "sync" /\ ~over
        /\ \E n \in p.from..end :
             /\ n = p.from => end = p.from
             /\ polls' = [polls EXCEPT ![d][i] =
                  [@ EXCEPT !.at = "open", !.queue = SubSeq(Records(p.of), p.from + 1, n)]]
             /\ cursor' = [cursor EXCEPT ![p.of] = CursorAfter(p.of, n)]
        /\ UNCHANGED <<over, relay, host, seeker, keys, busy>>

\* Mutant: any failed poll ends the session.
EndsAnyway == TRUE
WindowOver == over

\* A poll that failed ends the session if the window is over.
Fails(d, i) ==
    /\ busy' = [busy EXCEPT ![d] = FALSE]
    /\ polls' = [polls EXCEPT ![d][i] = Idle]
    /\ IF WindowOver THEN Close(d) ELSE KeepSessions

\* The relay does not answer, or refuses.
SyncFails(d, i) ==
    /\ polls[d][i].at = "sync"
    /\ Fails(d, i)
    /\ UNCHANGED <<over, relay, pending, processed, deciding, made, asking, consumed, taken, left,
                   disposed, cursor>>

\* A request is good for the announcement it was made for, and as long; it is opened once.
Answerable(r) == r \notin processed /\ ~over

\* The host opens a request; one that does not open is passed over.
OpenRequest(i) ==
    LET p == polls[Host][i]
    IN  /\ p.at = "open" /\ p.queue # <<>>
        /\ LET r == Head(p.queue)
               opens == Host \notin disposed /\ Answerable(r)
           IN  /\ processed' = processed \cup IF opens THEN {r} ELSE {}
               /\ pending' = pending \cup IF opens THEN {r} ELSE {}
        /\ polls' = [polls EXCEPT ![Host][i].queue = Tail(@)]
        /\ UNCHANGED <<over, relay, lobby, deciding, seeker, keys, cursor, busy>>

\* A requester session opens one answer, before it is disposed of.
Opens(r) == r \notin disposed \cup consumed /\ ~over

\* The requester opens the answer: the check comes before the cryptography ...
OpenResponse(q, i) ==
    LET p == polls[q][i]
    IN  /\ p.at = "open" /\ p.queue # <<>>
        /\ Opens(p.of)
        /\ polls' = [polls EXCEPT ![q][i].at = "opening"]
        /\ UNCHANGED <<over, relay, host, seeker, keys, cursor, busy>>

ResponseFails(q, i) ==
    LET p == polls[q][i]
    IN  /\ p.at = "open" /\ p.queue # <<>> /\ ~Opens(p.of)
        /\ Fails(q, i)
        /\ UNCHANGED <<over, relay, pending, processed, deciding, made, asking, consumed, taken,
                       left, disposed, cursor>>

\* ... and its mark after it.  The session the seeker has now is closed, and an approval's
\* invitation is taken: acceptInvitation runs while the poll is still busy.
ResponseOpened(q, i) ==
    LET p == polls[q][i]
    IN  /\ p.at = "opening"
        /\ consumed' = consumed \cup {p.of}
        /\ Close(q)
        /\ left' = left \cup ({Current(q)} \ {None, p.of})
        /\ taken' = IF Head(p.queue) = "accepted" THEN [taken EXCEPT ![p.of] = @ + 1] ELSE taken
        /\ polls' = [polls EXCEPT ![q][i] = [@ EXCEPT !.at = "open", !.queue = <<>>]]
        /\ UNCHANGED <<over, relay, pending, processed, deciding, made, asking, disposed, cursor,
                       busy>>

PollEnds(d, i) ==
    /\ polls[d][i].at = "open" /\ polls[d][i].queue = <<>>
    /\ busy' = [busy EXCEPT ![d] = FALSE]
    /\ polls' = [polls EXCEPT ![d][i] = Idle]
    /\ UNCHANGED <<over, relay, host, seeker, keys, cursor>>

Advance(d) ==
    \E i \in Slots :
        \/ PollStart(d, i) \/ PollEnds(d, i)
        \/ d = Host /\ OpenRequest(i)
        \/ d \in Seekers /\ (OpenResponse(d, i) \/ ResponseFails(d, i) \/ ResponseOpened(d, i))

Next ==
    \/ Expire \/ Start
    \/ \E s \in closing : Dispose(s)
    \/ \E q \in Seekers : Find(q)
    \/ \E r \in Requests :
         \/ Request(r) \/ Appended(r) \/ RequestFails(r)
         \/ \E decision \in {"accepted", "rejected"} :
              Decide(r, decision) \/ Delivered(r, decision) \/ DecisionFails(r, decision)
    \/ \E d \in Devices :
         \/ Stop(d) \/ Advance(d)
         \/ \E i \in Slots : Sync(d, i) \/ SyncFails(d, i)

\* backgroundResume polls every second, and the relay answers again and again.  Only what
\* the seekers wait for is promised.
Fairness(d) == WF_vars(Advance(d)) /\ SF_vars(\E i \in Slots : Sync(d, i))

Spec == Init /\ [][Next]_vars /\ \A q \in Seekers : Fairness(q)

-----------------------------------------------------------------------------
(* Properties *)

\* The invitation of a request is taken at most once, whatever polls, clicks and closing
\* sessions overlap.
TakenOnce == \A r \in Requests : taken[r] <= 1

\* A request the host's cursor has passed was shown to the host's user, or waits in the poll
\* that read it: while the window is open none is lost, whatever polls fail in between.
NothingPassedOver ==
    ~over /\ Host \notin disposed =>
        \A n \in 1..cursor[Host] :
            \/ inbox[n] \in processed
            \/ \E i \in Slots : polls[Host][i] # Idle /\ inbox[n] \in Range(polls[Host][i].queue)

\* An approval the relay holds is taken by the seeker that waits for it, unless the window
\* ends, the seeker stops or its session is replaced; polls may fail before.
ApprovalIsTaken ==
    \A r \in Requests :
        (reply[r] = "accepted" /\ session[r[1]] = r) ~> (taken[r] > 0 \/ r \in left \/ over)
=============================================================================
