-------------------------- MODULE MCSubscriptions --------------------------
EXTENDS Subscriptions, TLC

(* Two requests make two customers at once, and two deliveries are       *)
(* processed at once; nothing tells the ones of a kind apart.            *)
CONSTANTS q1, q2, h1, h2

Symmetry == Permutations({q1, q2}) \union Permutations({h1, h2})

(* Bounds.  A delivery is begun once no request is under way: the two    *)
(* meet in nothing but the stored customer.  A customer used unread and  *)
(* an event left unguarded are not looked at in one behaviour.           *)
RequestsThenDeliveries ==
    \/ \A r \in Request : request[r].at \in {"idle", "done"}
    \/ \A h \in Handler : At(h, "idle")

OneTroubleEach == unread = {} \/ unguarded = {}
=============================================================================
