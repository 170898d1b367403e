------------------------------ MODULE Failover ------------------------------
(***************************************************************************)
(* What a router promises each of its callers, without saying how it       *)
(* chooses members: a request is offered to members of the pool one at a   *)
(* time and to each at most once, it is refused only after every member    *)
(* has refused it, and once the caller has seen a part of an answer no     *)
(* other member may answer.                                                *)
(***************************************************************************)

CONSTANTS Calls,    \* callers, each with at most one request at a time
          Members   \* the members of the pool

VARIABLES phase,    \* phase[c]: where the request of caller c stands
          untried   \* untried[c]: the members c's request was not offered to

vars == <<phase, untried>>

Settled == {"idle", "ok", "failed", "broken", "closed"}

Init == /\ phase = [c \in Calls |-> "idle"]
        /\ untried = [c \in Calls |-> {}]

Settle(c, outcome) == /\ phase' = [phase EXCEPT ![c] = outcome]
                      /\ untried' = [untried EXCEPT ![c] = {}]

Begin(c) == /\ phase[c] \in Settled
            /\ phase' = [phase EXCEPT ![c] = "choosing"]
            /\ untried' = [untried EXCEPT ![c] = Members]

Offer(c) == /\ phase[c] = "choosing"
            /\ phase' = [phase EXCEPT ![c] = "offered"]
            /\ \E m \in untried[c] : untried' = [untried EXCEPT ![c] = @ \ {m}]

\* The first part of the answer reaches the caller.
Show(c) == /\ phase[c] = "offered"
           /\ phase' = [phase EXCEPT ![c] = "visible"]
           /\ UNCHANGED untried

Answer(c) == /\ phase[c] \in {"offered", "visible"}
             /\ Settle(c, "ok")

TryAnother(c) == /\ phase[c] = "offered"
                 /\ untried[c] # {}
                 /\ phase' = [phase EXCEPT ![c] = "choosing"]
                 /\ UNCHANGED untried

Refuse(c) == /\ phase[c] = "offered"
             /\ untried[c] = {}
             /\ Settle(c, "failed")

\* An answer that breaks off, and a caller that walks away from one.
BreakOff(c) == /\ phase[c] = "visible"
               /\ \E outcome \in {"broken", "closed"} : Settle(c, outcome)

Next == \E c \in Calls : \/ Begin(c) \/ Offer(c) \/ Show(c) \/ Answer(c)
                         \/ TryAnother(c) \/ Refuse(c) \/ BreakOff(c)

Spec == Init /\ [][Next]_vars
=============================================================================
