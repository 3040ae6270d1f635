-------------------------- MODULE AnchoredRegister --------------------------
(***************************************************************************)
(* What the desktop relationship-state store promises its callers: one     *)
(* monotonic register per relationship scope.  A commit is an atomic       *)
(* compare-and-swap that advances the generation by one, a destruction is  *)
(* an atomic and terminal tombstone, and a call that answers with an error *)
(* may or may not have taken effect.                                       *)
(***************************************************************************)
EXTENDS Naturals

CONSTANTS Hosts,     \* the host processes that may call the store
          Records,   \* the encrypted records a caller may commit
          NoRecord   \* the content of an empty or erased register

VARIABLES register,  \* the current generation, its content, whether erased
          phase,     \* what each host's call has reached
          request,   \* the call of each host
          answer     \* the answer a finished call is about to deliver

registerVars == <<register, phase, request, answer>>

Contents == Records \cup {NoRecord}
Registers == [generation: Nat, record: Contents, erased: BOOLEAN]
EmptyRegister == [generation |-> 0, record |-> NoRecord, erased |-> FALSE]

Requests == [op: {"load", "status", "commit", "destroy"},
             expected: Registers, force: BOOLEAN, record: Contents]
NoRequest == [op |-> "load", expected |-> EmptyRegister, force |-> FALSE,
              record |-> NoRecord]

Answers == [kind: {"pending", "error", "value", "live", "gone", "erased",
                   "committed", "destroyed"},
            generation: Nat, record: Contents]
Answer(kind) == [kind |-> kind, generation |-> 0, record |-> NoRecord]
Pending == Answer("pending")
Holding(kind, r) ==
  [kind |-> kind, generation |-> r.generation, record |-> r.record]

Init ==
  /\ register = EmptyRegister
  /\ phase = [h \in Hosts |-> "idle"]
  /\ request = [h \in Hosts |-> NoRequest]
  /\ answer = [h \in Hosts |-> Pending]

Call(h) ==
  /\ phase[h] = "idle"
  /\ phase' = [phase EXCEPT ![h] = "called"]
  /\ request'[h] \in Requests
  /\ request' = [request EXCEPT ![h] = request'[h]]
  /\ UNCHANGED <<register, answer>>

\* The compare-and-swap takes effect: the caller's expectation is current.
Commit(h) ==
  /\ phase[h] = "called"
  /\ request[h].op = "commit"
  /\ ~register.erased
  /\ request[h].expected = register
  /\ register' = [generation |-> register.generation + 1,
                  record |-> request[h].record, erased |-> FALSE]
  /\ UNCHANGED request

\* The tombstone takes effect; a null expectation accepts any live register.
Erase(h) ==
  /\ phase[h] = "called"
  /\ request[h].op = "destroy"
  /\ ~register.erased
  /\ request[h].force \/ request[h].expected = register
  /\ register' = [generation |-> register.generation + 1,
                  record |-> NoRecord, erased |-> TRUE]
  /\ UNCHANGED request

\* An effect is followed by the success it justifies or by a bare error.
Apply(h) ==
  /\ Commit(h) \/ Erase(h)
  /\ \/ phase' = [phase EXCEPT ![h] = "applied"] /\ UNCHANGED answer
     \/ /\ phase' = [phase EXCEPT ![h] = "done"]
        /\ answer' = [answer EXCEPT ![h] = Answer("error")]

\* The answers a call may give while the register is what it is.
Truthful(h) ==
  {Answer("error")} \cup
  CASE phase[h] = "called" /\ request[h].op = "load" ->
         {IF register.erased THEN Answer("gone") ELSE Holding("value", register)}
    [] phase[h] = "called" /\ request[h].op = "status" ->
         {Answer(IF register.erased THEN "erased" ELSE "live")}
    [] phase[h] = "called" /\ request[h].op = "commit" -> {}
    [] phase[h] = "called" /\ request[h].op = "destroy" ->
         IF register.erased THEN {Answer("destroyed")} ELSE {}
    [] phase[h] = "applied" /\ request[h].op = "commit" ->
         {Holding("committed", register)}
    [] OTHER -> {Answer("destroyed")}

Reply(h) ==
  /\ phase[h] \in {"called", "applied"}
  /\ phase' = [phase EXCEPT ![h] = "done"]
  /\ \E a \in Truthful(h) : answer' = [answer EXCEPT ![h] = a]
  /\ UNCHANGED <<register, request>>

\* The answer is delivered, or the host process is gone.
Finish(h) ==
  /\ phase[h] # "idle"
  /\ phase' = [phase EXCEPT ![h] = "idle"]
  /\ request' = [request EXCEPT ![h] = NoRequest]
  /\ answer' = [answer EXCEPT ![h] = Pending]
  /\ UNCHANGED register

Next == \E h \in Hosts : Call(h) \/ Apply(h) \/ Reply(h) \/ Finish(h)

Spec == Init /\ [][Next]_registerVars
=============================================================================
