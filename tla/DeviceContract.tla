--------------------------- MODULE DeviceContract ----------------------------
(***************************************************************************)
(* What the two ports of a device's credential promise, whoever stands     *)
(* behind them (DeviceGrantExchangePort and DeviceTokenTransactionPort of  *)
(* device_tokens.py, DeviceAuthorizationTransactionPort of                 *)
(* device_authorization.py): a grant is decided once, it becomes at most   *)
(* one token family, the family advances generation by generation, and     *)
(* what has ended never comes back.  The database stores and the stores in *)
(* memory of the offline runtime both implement this.                      *)
(***************************************************************************)
EXTENDS Naturals

CONSTANT Grants

VARIABLES
    stage,       \* per grant: none, open, denied, live or ended
    generation   \* per grant: the family's current refresh generation

vars == <<stage, generation>>

Init ==
    /\ stage = [g \in Grants |-> "none"]
    /\ generation = [g \in Grants |-> 0]

To(g, from, to) == stage[g] = from /\ stage'[g] = to

Same(g) == stage'[g] = stage[g] /\ generation'[g] = generation[g]

Open(g) == To(g, "none", "open") /\ generation'[g] = 0

Deny(g) == To(g, "open", "denied") /\ generation'[g] = 0

Provision(g) == To(g, "open", "live") /\ generation'[g] = 1

Rotate(g) == To(g, "live", "live") /\ generation'[g] = generation[g] + 1

End(g) == To(g, "live", "ended") /\ generation'[g] = generation[g]

\* A revocation ends one family, and denies what was open in its name.
Revoke == \E g \in Grants :
    /\ End(g) \/ Same(g) \/ Deny(g)
    /\ \A h \in Grants \ {g} : Same(h) \/ Deny(h)

Step == \E g \in Grants :
    /\ Open(g) \/ Provision(g) \/ Rotate(g)
    /\ \A h \in Grants \ {g} : Same(h)

Next == Step \/ Revoke

Spec == Init /\ [][Next]_vars
=============================================================================
