------------------------------ MODULE RouteLease ------------------------------
(***************************************************************************)
(* The lease of one opaque receive route (opaque-route-v2.js and the route *)
(* transitions of opaque-route-relay-v2.js): its owner signs requests to   *)
(* create, renew and tear it down, the relay applies them with the         *)
(* transition functions the repository gives, each may be resent or its    *)
(* answer lost, and holders of its credentials use it with proofs that are *)
(* good once.  A key is drawn for one request only, so it also stands for  *)
(* the digest of the transition it names.                                  *)
(***************************************************************************)
EXTENDS Naturals, FiniteSets

CONSTANTS Proofs,       \* authorization proofs for sends and reads
          LedgerLimit,  \* maximumAuthorizationReplayEntries
          MaxSigned,    \* bound: transitions the owner signs
          MaxLost       \* bound: answers that are lost

ASSUME LeaseAssumption ==
  IsFiniteSet(Proofs) /\ {LedgerLimit, MaxSigned, MaxLost} \subseteq Nat

VARIABLES
  route,    \* the OpaqueReceiveRouteV2 the relay holds
  owned,    \* the route state the owner was last shown
  signed,   \* the requests it has signed
  aged,     \* those older than the accepted clock skew
  ledger,   \* the proofs the relay has consumed
  lost

leaseVars == <<route, owned, signed, aged, ledger, lost>>

\* last: the idempotency key of the last transition applied.
States == [status: {"absent", "active", "tornDown"}, expired: BOOLEAN,
           renewals: Nat, last: Nat]
NoRoute == [status |-> "absent", expired |-> FALSE, renewals |-> 0, last |-> 0]
CreationKey == 1

Requests == [op: {"create", "renew", "teardown"}, key: Nat, sequence: Nat,
             previous: Nat]
CreateRequest == [op |-> "create", key |-> CreationKey, sequence |-> 0,
                  previous |-> 0]
RenewRequest(state, key) ==
  [op |-> "renew", key |-> key, sequence |-> state.renewals + 1,
   previous |-> state.last]
TeardownRequest(state, key) ==
  [op |-> "teardown", key |-> key, sequence |-> state.renewals,
   previous |-> state.last]

LeaseTypeOK ==
  /\ route \in States /\ owned \in States
  /\ signed \subseteq Requests /\ aged \subseteq signed
  /\ ledger \subseteq Proofs /\ Cardinality(ledger) <= LedgerLimit
  /\ lost \in 0..MaxLost

LeaseInit ==
  /\ route = NoRoute /\ owned = NoRoute
  /\ signed = {CreateRequest} /\ aged = {}
  /\ ledger = {} /\ lost = 0

(***************************************************************************)
(* What the transition functions accept.  A renewal or a teardown that is  *)
(* the last transition applied is answered again; any other has to be in   *)
(* time and to follow the state exactly.  A creation has to be in time     *)
(* even when it is repeated.                                               *)
(***************************************************************************)
\* Mutant: a transition need not follow the one before it.
FollowsAny(request) == route.status = "active"
Follows(request) ==
  /\ route.status = "active"
  /\ request.previous = route.last
  /\ request.sequence = IF request.op = "renew" THEN route.renewals + 1
                                                ELSE route.renewals
Creates(request) ==
  /\ request.op = "create" /\ request \notin aged
  /\ \/ route.status = "active"
     \/ route.status = "absent" /\ ~route.expired
Renews(request) ==
  /\ request.op = "renew"
  /\ \/ request.key = route.last
     \/ Follows(request) /\ ~route.expired /\ request \notin aged
TearsDown(request) ==
  /\ request.op = "teardown"
  /\ \/ request.key = route.last
     \/ Follows(request) /\ request \notin aged
\* Mutant: a teardown that was applied already is refused.
AcceptsOnce(request) ==
  \/ Creates(request) \/ Renews(request)
  \/ request.op = "teardown" /\ Follows(request) /\ request \notin aged
Accepts(request) == Creates(request) \/ Renews(request) \/ TearsDown(request)

Transition(request) ==
  CASE request.op = "create" /\ route.status = "absent" ->
         [route EXCEPT !.status = "active", !.last = request.key]
    [] request.op = "renew" /\ request.key # route.last ->
         [route EXCEPT !.renewals = @ + 1, !.last = request.key]
    [] request.op = "teardown" /\ request.key # route.last ->
         [route EXCEPT !.status = "tornDown", !.last = request.key]
    [] OTHER -> route

-----------------------------------------------------------------------------
\* The owner signs the transition that follows the state it was shown.
Sign ==
  /\ owned.status = "active"
  /\ Cardinality(signed) < MaxSigned
  /\ \E make \in {"renew", "teardown"} :
       LET key == Cardinality(signed) + 1 IN
       signed' = signed \cup {IF make = "renew" THEN RenewRequest(owned, key)
                                                ELSE TeardownRequest(owned, key)}
  /\ UNCHANGED <<route, owned, aged, ledger, lost>>

\* The relay applies a request; an answer that does not name it is discarded
\* by the owner (validateOpaqueRouteStateResponseV2), any may be lost.
Apply(request) ==
  /\ Accepts(request)
  /\ route' = Transition(request)
  /\ \/ /\ owned' = IF route'.last = request.key THEN route' ELSE owned
        /\ UNCHANGED lost
     \/ lost < MaxLost /\ lost' = lost + 1 /\ UNCHANGED owned
  /\ UNCHANGED <<signed, aged, ledger>>

\* Time: the lease runs out, a request leaves the clock skew.
Expire ==
  /\ ~route.expired
  /\ route' = [route EXCEPT !.expired = TRUE]
  /\ UNCHANGED <<owned, signed, aged, ledger, lost>>
Age(request) ==
  /\ aged' = aged \cup {request}
  /\ UNCHANGED <<route, owned, signed, ledger, lost>>

\* authorizeOpaqueRouteUseV2: a proof is consumed before the use it allows.
InLease == route.status = "active" /\ ~route.expired
Use(proof) ==
  /\ InLease
  /\ proof \notin ledger
  /\ Cardinality(ledger) < LedgerLimit
  /\ ledger' = ledger \cup {proof}
  /\ UNCHANGED <<route, owned, signed, aged, lost>>

LeaseNext ==
  \/ Sign \/ Expire
  \/ \E request \in signed : Apply(request) \/ Age(request)
  \/ \E proof \in Proofs : Use(proof)
LeaseSpec == LeaseInit /\ [][LeaseNext]_leaseVars

\* The owner resends every request it has signed.
FairLease == LeaseSpec /\ \A key \in 1..MaxSigned :
  WF_leaseVars(\E request \in signed : request.key = key /\ Apply(request))

-----------------------------------------------------------------------------
\* Whatever is resent, lost or overtaken, the transitions behind the last one
\* are one chain from the creation, each signed on the state the one before it
\* left, and renewals counts the renewals on it.
LeaseIsOneChain ==
  LET named(key) == CHOOSE r \in signed : r.key = key
      renewals[key \in 0..Cardinality(signed)] ==
        IF key = 0 THEN 0
        ELSE renewals[named(key).previous]
             + IF named(key).op = "renew" THEN 1 ELSE 0
  IN  route.renewals = renewals[route.last]

\* The owner learns of its teardown even if the first answers are lost, and
\* however long the retry takes.
TeardownIsLearned ==
  route.status = "tornDown" ~> owned.status = "tornDown"
=============================================================================
