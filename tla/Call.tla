-------------------------------- MODULE Call --------------------------------
(***************************************************************************)
(* An experimental call (src/call-v1.js): the signals two devices exchange *)
(* about one call, the key they agree on, the state machine each of them   *)
(* runs, and the media frames sealed and opened with the key.              *)
(*                                                                         *)
(* The library has no application for calls, so the use the functions are  *)
(* written for is assumed: a device applies its own signal before it sends *)
(* it, the initiator accepts an answer before it applies it, and the calls *)
(* to one sender, receiver or state machine are awaited one by one.        *)
(* Signals and frames travel in `sent' and `aired': they may be delivered  *)
(* late, in any order, repeatedly or never.  A restarted device has only   *)
(* its pending offer; its signals start again at the first number.         *)
(***************************************************************************)
EXTENDS Naturals, FiniteSets, FiniteSetsExt, Functions

CONSTANTS None,
          Lifetime,          \* maximumSignalLifetimeSeconds, in ticks
          ReplayWindowSize,  \* replayWindowSize
          MaxEpoch,          \* the largest media epoch
          MaxTime,           \* bound on the clock
          Budgets            \* bounds on the signals, frames and restarts of a run

ASSUME CallAssumption ==
    /\ Lifetime \in Nat \ {0} /\ ReplayWindowSize \in Nat \ {0}
    /\ MaxEpoch \in Nat /\ MaxTime \in Nat /\ None \notin Nat
    /\ Budgets \subseteq [signals : Nat, frames : Nat, restarts : Nat]

Roles == {"initiator", "responder"}
Peer(d) == CHOOSE e \in Roles : e # d

VARIABLES now,       \* the time, in ticks
          sent,      \* every signal sent so far
          accepted,  \* the initiator's pending offer: the answer it accepted
          call,      \* the state machine of each device
          keys,      \* the answer each device derived its key material with
          sender,    \* CallMediaSenderV1 of each device
          receiver,  \* CallMediaReceiverV1 of each device
          aired,     \* the frames each device has sealed
          heard,     \* the frames each receiver delivered, and those it delivered again
          restarted, \* the devices that have restarted
          budget     \* what is left of the run's bounds

callVars == <<now, sent, accepted, call, keys, sender, receiver, aired, heard, restarted, budget>>
media == <<sender, receiver, aired, heard>>

-----------------------------------------------------------------------------
(* Signals *)

Terminations == {"declined", "canceled", "ended"}

\* The kinds each role may send besides the offer and the answer.
KindsOf(d) == {"candidate", "connected", "ended"}
              \cup IF d = "initiator" THEN {"canceled"} ELSE {"ringing", "declined"}

Sooner(a, b) == Min({a, b})

Offer == [role |-> "initiator", seq |-> 1, kind |-> "offer", answer |-> None, dies |-> Lifetime]

Fresh(s) == now < s.dies

Signal(d, kind, answer, dies) ==
    [role |-> d, seq |-> call[d].last[d] + 1, kind |-> kind, answer |-> answer, dies |-> dies]

\* The answer's signal dies with its offer if that is sooner.
AnswerSignal(a) == Signal("responder", "answer", a, Sooner(now + Lifetime, Offer.dies))

-----------------------------------------------------------------------------
(* The state machine *)

NoCall == [phase |-> "none", answer |-> None, last |-> [r \in Roles |-> 0]]
Created == [phase |-> "ringing", answer |-> None,
            last |-> [r \in Roles |-> IF r = "initiator" THEN Offer.seq ELSE 0]]

Transition(m, s) ==
    \/ s.kind \in Terminations \cup {"candidate"}
    \/ s.kind \in {"ringing", "answer"} /\ s.role = "responder" /\ m.phase = "ringing"
    \/ s.kind = "connected" /\ m.phase \in {"connecting", "active"}

\* A signal that is not fresh, old, repeated, or out of place changes nothing.
\* Mutant: a device that has ended the call goes on.
AppliesWhenEnded(m, s) ==
    /\ m.phase # "none" /\ Fresh(s)
    /\ s.seq > m.last[s.role]
    /\ Transition(m, s)
Applies(m, s) ==
    /\ m.phase \notin {"none", "ended"} /\ Fresh(s)
    /\ s.seq > m.last[s.role]
    /\ Transition(m, s)

PhaseAfter(m, s) ==
    CASE s.kind \in Terminations -> "ended"
      [] s.kind = "answer"       -> "connecting"
      [] s.kind = "connected"    -> "active"
      [] OTHER                   -> m.phase

Apply(m, s) ==
    [phase  |-> PhaseAfter(m, s),
     answer |-> IF s.kind = "answer" THEN s.answer ELSE m.answer,
     last   |-> [m.last EXCEPT ![s.role] = s.seq]]

-----------------------------------------------------------------------------
(* Media: replay windows, senders and receivers *)

NewWindow == [highest |-> 0, seen |-> {}]

Contains(w, n) == n + ReplayWindowSize <= w.highest \/ n \in w.seen

Insert(w, n) ==
    LET top == Max({w.highest, n})
    IN  [highest |-> top, seen |-> {v \in w.seen : v + ReplayWindowSize > top} \cup {n}]

NewSender == [epoch |-> 0, next |-> 1]
NewReceiver == [highest |-> None, windows |-> <<>>]
Silence == [once |-> {}, again |-> {}]

WindowOf(r, epoch) == IF epoch \in DOMAIN r.windows THEN r.windows[epoch] ELSE NewWindow

\* A receiver opens frames of its highest epoch and of the epochs next to it.
\* Mutant: it goes one epoch further back.
InReachFar(r, epoch) ==
    IF r.highest = None THEN epoch = 0 ELSE epoch \in r.highest - 2 .. r.highest + 1
InReach(r, epoch) ==
    IF r.highest = None THEN epoch = 0
    ELSE epoch + 1 >= r.highest /\ epoch <= r.highest + 1

Opens(d, f) ==
    /\ InReach(receiver[d], f.epoch)
    /\ ~Contains(WindowOf(receiver[d], f.epoch), f.seq)
    /\ f.key = keys[d]

\* The receiver after it opened a frame: windows two epochs behind are dropped.
Opened(r, f) ==
    LET top  == IF r.highest = None THEN f.epoch ELSE Max({r.highest, f.epoch})
        kept == {e \in DOMAIN r.windows \cup {f.epoch} : e \in {top} \cup {top - 1}}
    IN  [highest |-> top,
         windows |-> [e \in kept |-> IF e = f.epoch THEN Insert(WindowOf(r, e), f.seq)
                                     ELSE r.windows[e]]]

-----------------------------------------------------------------------------
(* The actions *)

CallInit ==
    /\ now = 0
    /\ sent = {Offer}
    /\ accepted = None
    /\ call = [d \in Roles |-> IF d = "initiator" THEN Created ELSE NoCall]
    /\ keys = [d \in Roles |-> None]
    /\ sender = [d \in Roles |-> NewSender]
    /\ receiver = [d \in Roles |-> NewReceiver]
    /\ aired = [d \in Roles |-> {}]
    /\ heard = [d \in Roles |-> Silence]
    /\ restarted = {}
    /\ budget \in Budgets

Spend(what) == budget[what] > 0 /\ budget' = [budget EXCEPT ![what] = @ - 1]

\* The offer arrives, or is read again after a restart: the state machine is created.
Create(d) ==
    /\ call[d] = NoCall
    /\ Fresh(Offer)
    /\ call' = [call EXCEPT ![d] = Created]
    /\ UNCHANGED <<now, sent, accepted, keys, media, budget, restarted>>

\* A device applies a signal of its own and sends it.
Send(d, kind) ==
    LET s == Signal(d, kind, None, now + Lifetime)
    IN  /\ kind \in KindsOf(d)
        /\ Applies(call[d], s)
        /\ call' = [call EXCEPT ![d] = Apply(@, s)]
        /\ sent' = sent \cup {s}
        /\ Spend("signals")
        /\ UNCHANGED <<now, accepted, keys, media, restarted>>

Answers == {s \in sent : s.kind = "answer"}

\* A device that has key material starts a sender and a receiver with it.
StartMedia(d, answer) ==
    IF keys[d] # None THEN UNCHANGED <<keys, media>>
    ELSE /\ keys' = [keys EXCEPT ![d] = answer]
         /\ sender' = [sender EXCEPT ![d] = NewSender]
         /\ receiver' = [receiver EXCEPT ![d] = NewReceiver]
         /\ UNCHANGED <<aired, heard>>

\* The responder answers: every answer has a key encapsulation of its own.
Answer ==
    LET s == AnswerSignal(Cardinality(Answers) + 1)
    IN  /\ Fresh(Offer)
        /\ Applies(call["responder"], s)
        /\ call' = [call EXCEPT !["responder"] = Apply(@, s)]
        /\ sent' = sent \cup {s}
        /\ StartMedia("responder", s.answer)
        /\ Spend("signals")
        /\ UNCHANGED <<now, accepted, restarted>>

\* The pending offer accepts one answer; that one may come again.
Acceptable(s) == Fresh(s) /\ accepted \in {None, s.answer}

\* The initiator accepts an answer and applies it to its state machine.
Accept(s) ==
    /\ s.kind = "answer"
    /\ call["initiator"] # NoCall
    /\ Acceptable(s)
    /\ accepted' = s.answer
    /\ StartMedia("initiator", s.answer)
    /\ call' = IF Applies(call["initiator"], s)
               THEN [call EXCEPT !["initiator"] = Apply(@, s)]
               ELSE call
    /\ UNCHANGED <<now, sent, aired, heard, budget, restarted>>

\* A device applies a signal of its peer.
Receive(d, s) ==
    /\ s.role # d
    /\ s.kind \notin {"offer", "answer"}
    /\ Applies(call[d], s)
    /\ call' = [call EXCEPT ![d] = Apply(@, s)]
    /\ UNCHANGED <<now, sent, accepted, keys, media, budget, restarted>>

\* The clock.
Tick ==
    /\ now < MaxTime
    /\ now' = now + 1
    /\ UNCHANGED <<sent, accepted, call, keys, media, budget, restarted>>

\* A device restarts: the state machine, the key material and the media objects are gone.
Restart(d) ==
    /\ Spend("restarts")
    /\ call' = [call EXCEPT ![d] = NoCall]
    /\ keys' = [keys EXCEPT ![d] = None]
    /\ sender' = [sender EXCEPT ![d] = NewSender]
    /\ receiver' = [receiver EXCEPT ![d] = NewReceiver]
    /\ heard' = [heard EXCEPT ![d] = Silence]
    /\ restarted' = restarted \cup {d}
    /\ UNCHANGED <<now, sent, accepted, aired>>

\* A device seals a frame.
Seal(d) ==
    /\ keys[d] # None
    /\ aired' = [aired EXCEPT ![d] = @ \cup
                   {[key |-> keys[d], epoch |-> sender[d].epoch, seq |-> sender[d].next]}]
    /\ sender' = [sender EXCEPT ![d].next = @ + 1]
    /\ Spend("frames")
    /\ UNCHANGED <<now, sent, accepted, call, keys, receiver, heard, restarted>>

\* A sender starts a new epoch with a new key.
RotateEpoch(d) ==
    /\ keys[d] # None /\ budget.frames > 0
    /\ sender[d].epoch < MaxEpoch
    /\ sender' = [sender EXCEPT ![d] = [epoch |-> @.epoch + 1, next |-> 1]]
    /\ UNCHANGED <<now, sent, accepted, call, keys, receiver, aired, heard, budget, restarted>>

\* A frame of the peer arrives and is opened; one that is refused changes nothing.
Open(d, f) ==
    /\ keys[d] # None
    /\ Opens(d, f)
    /\ receiver' = [receiver EXCEPT ![d] = Opened(@, f)]
    /\ heard' = [heard EXCEPT ![d] = [once  |-> @.once \cup {f},
                                      again |-> @.again \cup (@.once \cap {f})]]
    /\ UNCHANGED <<now, sent, accepted, call, keys, sender, aired, budget, restarted>>

CallNext ==
    \/ Answer \/ Tick
    \/ \E s \in sent : Accept(s)
    \/ \E d \in Roles :
         \/ Create(d) \/ Restart(d) \/ Seal(d) \/ RotateEpoch(d)
         \/ \E kind \in KindsOf(d) : Send(d, kind)
         \/ \E s \in sent : Receive(d, s)
         \/ \E f \in aired[Peer(d)] : Open(d, f)

\* The messages that carry the signals arrive (PairwiseMessaging), so a device is told
\* of the end of the call; nothing else need ever happen.
Told(d) == \E s \in sent : s.kind \in Terminations /\ Receive(d, s)

CallSpec == CallInit /\ [][CallNext]_callVars /\ \A d \in Roles : WF_callVars(Told(d))

-----------------------------------------------------------------------------
(* Properties *)

\* A receiver delivers no frame twice, in whatever order and however often the frames
\* arrive, across epochs whose windows it has dropped.
DeliveredOnce == \A d \in Roles : heard[d].again = {}

EndSignal(d) == {s \in sent : s.role = d /\ s.kind \in Terminations}

\* When one device ends the call the other one does: the last signal of a role is never
\* overtaken by an earlier one.  (Unless it is not told before the signal expires, has
\* no call, or a device restarted and began to number its signals anew.)
EndReachesBoth ==
    \A d \in Roles :
        call[d].phase = "ended" ~>
            \/ call[Peer(d)].phase \in {"ended", "none"}
            \/ \A s \in EndSignal(d) : ~Fresh(s)
            \/ restarted # {}
=============================================================================
