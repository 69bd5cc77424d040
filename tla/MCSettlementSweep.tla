-------------------------- MODULE MCSettlementSweep --------------------------
EXTENDS SettlementSweep, TLC

CONSTANTS u1, w1, l1, l2, l3, l4

MCSettlement == Subscriber \X Cycle
MCSubscriberOf == [s \in Settlement |-> s[1]]
MCRank == [l \in Line |-> CASE l = l1 -> 1 [] l = l2 -> 2 [] l = l3 -> 3 [] OTHER -> 4]
MCFeeCents == [l \in Line |-> CASE l = l1 -> 2 [] l = l3 -> 3 [] OTHER -> 1]

OneSubscriber == [l \in Line |-> u1]

(* Bound: the fee that is never billed is the first one captured.          *)
PrepaidIsFirst ==
  \A l \in Line : ledger[l] # NotCaptured => \A k \in PrepaidLine : ledger[k] = 1

(* Bound: of a sweep that outlives the cycle it started in, only the       *)
(* writing is left, and that is done within the day of the next close.     *)
Late(w) == sweep[w] # IdleSweep /\ sweep[w].boundary < MostRecentClose(now)
ReadsAreShort ==
  \A w \in Sweep :
    Late(w) => sweep[w].stage = "persist" /\ now = 2 * (sweep[w].boundary + 1)

(* Bound: at most one sweep has died or outlives its cycle, or the switch  *)
(* is off, or the subscriber inactive.                                     *)
OneSweepTrouble ==
  Cardinality({t \in {"death", "late", "switch", "subscriber"} :
    CASE t = "death" -> sweepCrashes > 0
      [] t = "late" -> \E w \in Sweep : Late(w)
      [] t = "switch" -> ~sweepEnabled
      [] OTHER -> sub[u1] = "inactive"}) <= 1

(* Bound: the switch, which a sweep reads once, moves between sweeps, and  *)
(* a subscriber is inactive while at most one runs.                        *)
MovesBetween ==
  LET running == {w \in Sweep : sweep[w] # IdleSweep} IN
  /\ ~sweepEnabled => running = {}
  /\ sub[u1] = "inactive" => Cardinality(running) <= 1

(* Bound: of two sweeps that run at once, the second is not ahead.         *)
Stage == <<"subscribers", "linked", "ledger", "persist">>
Progress(w) ==
  IF sweep[w] = IdleSweep THEN 0
  ELSE 10 * (CHOOSE i \in DOMAIN Stage : Stage[i] = sweep[w].stage) + sweep[w].from
FirstIsAhead ==
  sweep[w1] # IdleSweep => \A w \in Sweep : Progress(w) <= Progress(w1)

=============================================================================
