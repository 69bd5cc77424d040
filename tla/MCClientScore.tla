--------------------------- MODULE MCClientScore ---------------------------
EXTENDS ClientScore, TLC

CONSTANTS i1, i2

(* A due date so far back that every band of lateness is before the first  *)
(* day, and one that the days of the run go past.                          *)
LongAgo == FirstDay - 150
Soon == FirstDay + 1

BandEnds == {0, 7, 15, 30, 45, 60, 75, 90, 105, 120}

RowOf(status, due, amount) ==
  [status |-> status, due |-> due, amount |-> amount,
   outstanding |-> IF status = "paid" THEN 0 ELSE amount]

(* One invoice was paid, at the last day of a band; the other is anywhere. *)
Other == {RowOf("draft", LongAgo, 2), RowOf("partial", Soon, 4),
          RowOf("overdue", LongAgo + 100, 5), RowOf("written_off", NoDate, 1)}

Paid(late, amount, other, byEvent) ==
  [invoices |-> (i1 :> RowOf("paid", LongAgo, amount) @@ i2 :> other),
   payments |-> IF byEvent THEN <<>>
                ELSE <<[invoice |-> i1, day |-> LongAgo + late]>>,
   balanceEvents |-> IF ~byEvent THEN <<>>
     ELSE <<[invoice |-> i1, detected |-> 0, day |-> FirstDay,
             txn |-> LongAgo + late]>>]

MCBooks ==
  {Paid(late, amount, other, FALSE) :
     late \in BandEnds, amount \in {0, 3}, other \in Other}
  \cup {Paid(late, 3, RowOf("sent", Soon, 2), TRUE) : late \in {30}}

MCEvidence == {LongAgo}

(* Bound: every book is scored at the start; a few go on from there. *)
FewBooksMove ==
  \/ changes = 0 /\ day = FirstDay /\ request = [r \in Request |-> IdleRequest]
  \/ /\ invoices[i1].amount = 3 /\ invoices[i2].amount = 2
     /\ payments # <<>> => payments[1].day \in {LongAgo + 30} \cup Day

Symmetry == Permutations(Request)

=============================================================================
