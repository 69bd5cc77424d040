------------------------- MODULE MCRecoveryCheckout -------------------------
EXTENDS RecoveryCheckout, TLC

(* Two links are enough for one to supersede another, two sessions for one *)
(* link to be paid twice, and two accounts for the first to be lost.       *)

(* Accounts, and the onboardings that make them, are alike; links and      *)
(* sessions are taken in one fixed order and are not.                      *)
CONSTANTS a1, a2, o1, o2

AlikeAccounts == Permutations({a1, a2}) \cup Permutations({o1, o2})

(* Bound: two requests are under way at once, as from two browser tabs.    *)
TwoTabs ==
  LET Busy(request) == {r \in DOMAIN request : request[r].pc # "idle"}
  IN  Cardinality(Busy(onboarding)) + Cardinality(Busy(checking))
        + Cardinality({g \in Issue : issuing[g] # "idle"})
        + Cardinality(Busy(visiting)) <= 2

(* Bounds.  Deliveries that are processed at once are of one session; they *)
(* overlap before the flip for one payment; from then on, and beside two   *)
(* deliveries, nobody asks for a link or opens a page.  QuickBooks reports *)
(* a payment once no delivery works on it.                                 *)
Works(d) == delivery[d].pc # "wait" \/ reflecting[d].pc # "rest"
Handled(d) == IF reflecting[d].pc # "rest" THEN reflecting[d].payment
              ELSE delivery[d].session
NobodyAsks ==
  /\ \A g \in Issue : issuing[g] = "idle"
  /\ \A v \in Visit : visiting[v].pc = "idle"
OneSessionAtOnce ==
  \A d, e \in Delivery : d # e /\ Works(d) /\ Works(e) =>
    Handled(d) = Handled(e) /\ NobodyAsks
OneOverlaps ==
  overlapped # {} => Cardinality(overlapped) = 1 /\ NobodyAsks
ReportsAreLate ==
  \A d \in Delivery : Works(d) => <<"qbo", Handled(d)>> \notin feeRows

=============================================================================
