------------------------- MODULE MCSettlementCharge -------------------------
EXTENDS SettlementCharge

CONSTANTS s1, u1, l1, l2, l3

MCSettlement == {s1}
MCSubscriberOf == [s \in Settlement |-> u1]
MCLine == {l1, l2, l3}
MCFeeCents == [l \in Line |-> IF l = l1 THEN 2 ELSE 1]

(* Books that reconcile, books with a wrong total, sound books of more     *)
(* lines than one read returns, and sound books of a single line.          *)
Sound == [lines |-> {l1, l2}, lineCount |-> 2, totalCents |-> 3]
WrongTotal == [Sound EXCEPT !.totalCents = 4]
Long == [lines |-> {l1, l2, l3}, lineCount |-> 3, totalCents |-> 4]
Single == [lines |-> {l1}, lineCount |-> 1, totalCents |-> 2]
Light == [lines |-> {l2}, lineCount |-> 1, totalCents |-> 1]

MCInitialBooks == {Sound, WrongTotal, Long, Single, Light}

(* What may disturb a settlement goes by its books: keys that expire (two  *)
(* lines), webhooks (l1 alone), and runs that die while the switch and the *)
(* subscriber move and the attempts are used up (all others).              *)
OneTroubleEach ==
  \A s \in Settlement :
    /\ books[s] # Single =>
         /\ \A h \in Hook : hook[h] = IdleHook
         /\ \A e \in events : e.type = "payment_succeeded"
    /\ books[s] # Sound /\ liveKey[s] = NoInvoice =>
         \A i \in Slot : invoices[s][i].status = "none"
    /\ books[s] \in {Sound, Single} =>
         chargingEnabled /\ sub[SubscriberOf[s]] = "chargeable"
    /\ books[s] = Sound => crashes = 0
    /\ books[s] \in {Sound, Single} => row[s].attempts <= 1

=============================================================================
