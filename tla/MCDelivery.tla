----------------------------- MODULE MCDelivery -----------------------------
(***************************************************************************)
(* Instances of Delivery for TLC.                                          *)
(***************************************************************************)
EXTENDS Delivery, TLC

CONSTANTS t1, t2, k1, k2

Offer(keys, mode, ctx, ups) == [keys |-> keys, mode |-> mode, ctx |-> ctx, ups |-> ups]

\* Two deliverables.
TwoKeys == {Offer({k1, k2}, "automatic", FALSE, {})}

\* Either way of accepting.
Plain == {Offer({k1}, mode, FALSE, {}) : mode \in {"automatic", "explicit"}}

\* A ticket that waits for the acceptance of another.
Chained == {Offer({k1}, "explicit", FALSE, {}),
            Offer({k1}, "automatic", FALSE, {<<t1, "fulfilled">>})}

\* With and without a required repository document.
OneKey == {Offer({k1}, "explicit", ctx, {}) : ctx \in BOOLEAN}

Symmetric == Permutations(PRs) \cup Permutations(BindIds) \cup Permutations(Agents)
             \cup Permutations(Observers)
=============================================================================
