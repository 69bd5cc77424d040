------------------------- MODULE ClientScoreProofs -------------------------
(***************************************************************************)
(* Proofs about ClientScore, for every client: any number of invoices,     *)
(* payments, events, requests, days and changes of the books.              *)
(*                                                                         *)
(*   1. The score is monotone: lateness, the sums weighted with amounts,   *)
(*      the rounding and the composite each keep the order.                *)
(*   2. A pass over the rows of an invoice ends at its last payment or     *)
(*      first event, which no order of the rows changes.                   *)
(*   3. ScoreInv, one step per action: the day of a request is taken       *)
(*      before its read, so a row dated with it misses nothing older.      *)
(***************************************************************************)
EXTENDS ClientScore, FoldLemmas

-----------------------------------------------------------------------------
(* Arithmetic.                                                             *)

(* The quotient and what is left of the dividend.                          *)
LEMMA Quotient ==
  ASSUME NEW a \in Int, NEW d \in Nat \ {0}
  PROVE  /\ a \div d \in Int
         /\ d * (a \div d) <= a /\ a < d * (a \div d) + d
OBVIOUS

(* Of natural numbers the product grows with either.                       *)
LEMMA ProductGrows ==
  ASSUME NEW a \in Int, NEW b \in Int, a <= b, NEW n \in Nat
  PROVE  n * a <= n * b
OBVIOUS

(* Division by the same number keeps an order.                             *)
LEMMA QuotientGrows ==
  ASSUME NEW a \in Int, NEW b \in Int, a <= b, NEW d \in Nat \ {0}
  PROVE  a \div d <= b \div d
<1>1. PICK p, q : p = a \div d /\ q = b \div d
  OBVIOUS
<1>2. /\ p \in Int /\ d * p <= a /\ a < d * p + d
      /\ q \in Int /\ d * q <= b /\ b < d * q + d
  BY <1>1, Quotient
<1>3. d * p < d * q + d
  BY <1>2
<1>4. p < q + 1
  <2> SUFFICES ASSUME q + 1 <= p PROVE FALSE
    BY <1>2
  <2>1. d * (q + 1) <= d * p
    BY <1>2, ProductGrows
  <2>2. d * (q + 1) = d * q + d
    BY <1>2
  <2>3. d * q \in Int /\ d * p \in Int
    BY <1>2
  <2> QED BY <1>3, <2>1, <2>2, <2>3
<1> QED BY <1>1, <1>2, <1>4

(* A whole number from 0 to k. *)
UpTo(q, k) == q \in 0..k

LEMMA UpToInt ==
  ASSUME NEW k \in Int, NEW q, UpTo(q, k)
  PROVE  q \in Int /\ 0 <= q /\ q <= k
BY DEF UpTo

(* A quotient of natural numbers is no more than any multiple allows.      *)
LEMMA RoundedBounds ==
  ASSUME NEW a \in Nat, NEW b \in Nat \ {0}, NEW high \in Nat, a <= b * high
  PROVE  UpTo(Rounded(a, b), high)
<1>1. PICK q : q = Rounded(a, b)
  OBVIOUS
<1>2. 2 * b \in Nat \ {0} /\ 2 * a + b \in Int
  OBVIOUS
<1>3. q \in Int /\ (2 * b) * q <= 2 * a + b /\ 2 * a + b < (2 * b) * q + 2 * b
  BY <1>1, <1>2, Quotient DEF Rounded
<1>4. PICK x, z : x = b * q /\ z = b * high
  OBVIOUS
<1>5. x \in Int /\ z \in Int /\ (2 * b) * q = 2 * x
  BY <1>3, <1>4
<1>6. 0 < x + b /\ 2 * x <= 2 * z + b
  BY <1>3, <1>4, <1>5
<1>7. 0 < q + 1
  <2> SUFFICES ASSUME q <= -1 PROVE FALSE
    BY <1>3
  <2>1. b * q <= b * (-1)
    BY <1>3, ProductGrows
  <2>2. b * (-1) = -b
    OBVIOUS
  <2> QED BY <1>4, <1>5, <1>6, <2>1, <2>2
<1>8. q < high + 1
  <2> SUFFICES ASSUME high + 1 <= q PROVE FALSE
    BY <1>3
  <2>1. b * (high + 1) <= b * q
    BY <1>3, ProductGrows
  <2>2. b * (high + 1) = z + b
    BY <1>4
  <2> QED BY <1>4, <1>5, <1>6, <2>1, <2>2
<1> QED BY <1>1, <1>3, <1>7, <1>8 DEF UpTo

(* Rounding keeps an order.                                                *)
LEMMA RoundedGrows ==
  ASSUME NEW a \in Int, NEW c \in Int, a <= c, NEW b \in Nat \ {0}
  PROVE  Rounded(a, b) \in Int /\ Rounded(c, b) \in Int /\ Rounded(a, b) <= Rounded(c, b)
<1>1. 2 * b \in Nat \ {0} /\ 2 * a + b \in Int /\ 2 * c + b \in Int /\ 2 * a + b <= 2 * c + b
  OBVIOUS
<1> QED BY <1>1, QuotientGrows, Quotient DEF Rounded

-----------------------------------------------------------------------------
(* Lateness.                                                               *)

(* The bands, their ends and their scores.                                 *)
LEMMA BandsAre ==
  /\ DOMAIN Bands = 1..10
  /\ Bands[1][1] = 0 /\ Bands[2][1] = 7 /\ Bands[3][1] = 15 /\ Bands[4][1] = 30
  /\ Bands[5][1] = 45 /\ Bands[6][1] = 60 /\ Bands[7][1] = 75 /\ Bands[8][1] = 90
  /\ Bands[9][1] = 105 /\ Bands[10][1] = 120
  /\ Bands[1][2] = 100 /\ Bands[2][2] = 90 /\ Bands[3][2] = 80 /\ Bands[4][2] = 65
  /\ Bands[5][2] = 50 /\ Bands[6][2] = 35 /\ Bands[7][2] = 25 /\ Bands[8][2] = 15
  /\ Bands[9][2] = 10 /\ Bands[10][2] = 5
BY DEF Bands

(* An invoice is in the first band that its days do not go past.           *)
LEMMA FirstBand ==
  ASSUME NEW days \in Int, NEW k \in 1..10, days <= Bands[k][1],
         \A j \in 1..10 : j < k => Bands[j][1] < days
  PROVE  latenessScore(days) = Bands[k][2]
<1> DEFINE within == {j \in 1..10 : days <= Bands[j][1]}
<1>1. \A j \in 1..10 : Bands[j][1] \in Int
  BY BandsAre
<1>2. within \in SUBSET Int /\ k \in within /\ \A j \in within : k <= j
  BY <1>1
<1>3. Min(within) = k
  <2> HIDE DEF within
  <2> QED BY <1>2, MinIs
<1>4. latenessScore(days) = IF within = {} THEN 0 ELSE Bands[Min(within)][2]
  BY BandsAre DEF latenessScore
<1> QED BY <1>2, <1>3, <1>4

(* The bands of the code, spelled out.                                     *)
LEMMA LatenessIs ==
  ASSUME NEW days \in Int
  PROVE  latenessScore(days) =
           IF days <= 0 THEN 100 ELSE IF days <= 7 THEN 90
           ELSE IF days <= 15 THEN 80 ELSE IF days <= 30 THEN 65
           ELSE IF days <= 45 THEN 50 ELSE IF days <= 60 THEN 35
           ELSE IF days <= 75 THEN 25 ELSE IF days <= 90 THEN 15
           ELSE IF days <= 105 THEN 10 ELSE IF days <= 120 THEN 5 ELSE 0
<1>1. \A k \in 1..10 : days <= Bands[k][1] /\ (\A j \in 1..10 : j < k => Bands[j][1] < days)
                         => latenessScore(days) = Bands[k][2]
  BY FirstBand
<1>2. days <= 0 => latenessScore(days) = 100
  BY <1>1, BandsAre
<1>3. days > 0 /\ days <= 7 => latenessScore(days) = 90
  BY <1>1, BandsAre
<1>4. days > 7 /\ days <= 15 => latenessScore(days) = 80
  BY <1>1, BandsAre
<1>5. days > 15 /\ days <= 30 => latenessScore(days) = 65
  BY <1>1, BandsAre
<1>6. days > 30 /\ days <= 45 => latenessScore(days) = 50
  BY <1>1, BandsAre
<1>7. days > 45 /\ days <= 60 => latenessScore(days) = 35
  BY <1>1, BandsAre
<1>8. days > 60 /\ days <= 75 => latenessScore(days) = 25
  BY <1>1, BandsAre
<1>9. days > 75 /\ days <= 90 => latenessScore(days) = 15
  BY <1>1, BandsAre
<1>10. days > 90 /\ days <= 105 => latenessScore(days) = 10
  BY <1>1, BandsAre
<1>11. days > 105 /\ days <= 120 => latenessScore(days) = 5
  BY <1>1, BandsAre
<1>12. days > 120 => latenessScore(days) = 0
  <2>1. ASSUME days > 120
        PROVE  {j \in DOMAIN Bands : days <= Bands[j][1]} = {}
    BY <2>1, BandsAre
  <2> QED BY <2>1 DEF latenessScore
<1> QED BY <1>2, <1>3, <1>4, <1>5, <1>6, <1>7, <1>8, <1>9, <1>10, <1>11, <1>12

(* Later is never better, and a score is a percentage.                     *)
LEMMA LatenessFalls ==
  ASSUME NEW a \in Int, NEW b \in Int, a <= b
  PROVE  /\ latenessScore(a) \in 0..100 /\ latenessScore(b) \in 0..100
         /\ latenessScore(b) <= latenessScore(a)
BY LatenessIs

-----------------------------------------------------------------------------
(* The sums of a score, as sums of functions on the invoices.              *)

Amounts(rows) == [i \in Invoice |-> rows[i].amount]
Outstandings(rows) == [i \in Invoice |-> rows[i].outstanding]
Latenesses(rows, paidOn) == [i \in Invoice |-> latenessScore(paidOn[i] - rows[i].due)]
Weighted(rows, paidOn) ==
  [i \in Invoice |-> latenessScore(paidOn[i] - rows[i].due) * rows[i].amount]

(* The sums as the model writes them.                                      *)
AmountSum(rows, S) == MapThenSumSet(LAMBDA i : rows[i].amount, S)
OutstandingSum(rows, S) == MapThenSumSet(LAMBDA i : rows[i].outstanding, S)
LatenessSum(rows, paidOn, S) ==
  MapThenSumSet(LAMBDA i : latenessScore(paidOn[i] - rows[i].due), S)
WeightedSum(rows, paidOn, S) ==
  MapThenSumSet(LAMBDA i : latenessScore(paidOn[i] - rows[i].due) * rows[i].amount, S)

(* Each of them is the sum of one such function.                           *)
LEMMA AmountSumIs ==
  ASSUME NEW rows, NEW S \in SUBSET Invoice, IsFiniteSet(S),
         \A i \in S : rows[i].amount \in Int
  PROVE  AmountSum(rows, S) = SumOf(Amounts(rows), S)
<1> DEFINE Adds(h) == h = [s \in SUBSET S |-> IF s = {} THEN 0
                             ELSE rows[Chosen(s)].amount + h[s \ {Chosen(s)}]]
           f == Amounts(rows)
<1>1. ASSUME NEW h
      PROVE  Adds(h) <=> IsSum(f, S, h)
  <2>1. ASSUME NEW s \in SUBSET S, s # {}
        PROVE  rows[Chosen(s)].amount = f[Chosen(s)]
    <3>1. Chosen(s) \in Invoice
      BY <2>1 DEF Chosen
    <3> QED BY <3>1 DEF Amounts
  <2> HIDE DEF f
  <2>2. [s \in SUBSET S |-> IF s = {} THEN 0 ELSE rows[Chosen(s)].amount + h[s \ {Chosen(s)}]]
          = [s \in SUBSET S |-> IF s = {} THEN 0 ELSE f[Chosen(s)] + h[s \ {Chosen(s)}]]
    BY <2>1
  <2> QED BY <2>2 DEF IsSum
<1>2. \A i \in S : f[i] \in Int
  BY DEF Amounts
<1>3. AmountSum(rows, S) = (CHOOSE h : Adds(h))[S]
  BY DEF AmountSum, MapThenSumSet, MapThenFoldSet, Chosen
<1> HIDE DEF Adds, f
<1>4. (\E h : IsSum(f, S, h)) /\ (\A h : IsSum(f, S, h) => h[S] = SumOf(f, S))
  BY <1>2, AddsUp
<1>5. Adds(CHOOSE h : Adds(h))
  BY <1>1, <1>4
<1>6. PICK c : c = CHOOSE h : Adds(h)
  OBVIOUS
<1>7. c[S] = SumOf(f, S)
  BY <1>1, <1>4, <1>5, <1>6
<1> QED BY <1>3, <1>6, <1>7 DEF f

LEMMA OutstandingSumIs ==
  ASSUME NEW rows, NEW S \in SUBSET Invoice, IsFiniteSet(S),
         \A i \in S : rows[i].outstanding \in Int
  PROVE  OutstandingSum(rows, S) = SumOf(Outstandings(rows), S)
<1> DEFINE Adds(h) == h = [s \in SUBSET S |-> IF s = {} THEN 0
                             ELSE rows[Chosen(s)].outstanding + h[s \ {Chosen(s)}]]
           f == Outstandings(rows)
<1>1. ASSUME NEW h
      PROVE  Adds(h) <=> IsSum(f, S, h)
  <2>1. ASSUME NEW s \in SUBSET S, s # {}
        PROVE  rows[Chosen(s)].outstanding = f[Chosen(s)]
    <3>1. Chosen(s) \in Invoice
      BY <2>1 DEF Chosen
    <3> QED BY <3>1 DEF Outstandings
  <2> HIDE DEF f
  <2>2. [s \in SUBSET S |-> IF s = {} THEN 0 ELSE rows[Chosen(s)].outstanding + h[s \ {Chosen(s)}]]
          = [s \in SUBSET S |-> IF s = {} THEN 0 ELSE f[Chosen(s)] + h[s \ {Chosen(s)}]]
    BY <2>1
  <2> QED BY <2>2 DEF IsSum
<1>2. \A i \in S : f[i] \in Int
  BY DEF Outstandings
<1>3. OutstandingSum(rows, S) = (CHOOSE h : Adds(h))[S]
  BY DEF OutstandingSum, MapThenSumSet, MapThenFoldSet, Chosen
<1> HIDE DEF Adds, f
<1>4. (\E h : IsSum(f, S, h)) /\ (\A h : IsSum(f, S, h) => h[S] = SumOf(f, S))
  BY <1>2, AddsUp
<1>5. Adds(CHOOSE h : Adds(h))
  BY <1>1, <1>4
<1>6. PICK c : c = CHOOSE h : Adds(h)
  OBVIOUS
<1>7. c[S] = SumOf(f, S)
  BY <1>1, <1>4, <1>5, <1>6
<1> QED BY <1>3, <1>6, <1>7 DEF f

LEMMA LatenessSumIs ==
  ASSUME NEW rows, NEW paidOn, NEW S \in SUBSET Invoice, IsFiniteSet(S),
         \A i \in S : latenessScore(paidOn[i] - rows[i].due) \in Int
  PROVE  LatenessSum(rows, paidOn, S) = SumOf(Latenesses(rows, paidOn), S)
<1> DEFINE term(i) == latenessScore(paidOn[i] - rows[i].due)
           Adds(h) == h = [s \in SUBSET S |-> IF s = {} THEN 0
                             ELSE term(Chosen(s)) + h[s \ {Chosen(s)}]]
           f == Latenesses(rows, paidOn)
<1>1. ASSUME NEW h
      PROVE  Adds(h) <=> IsSum(f, S, h)
  <2>1. ASSUME NEW s \in SUBSET S, s # {}
        PROVE  term(Chosen(s)) = f[Chosen(s)]
    <3>1. Chosen(s) \in Invoice
      BY <2>1 DEF Chosen
    <3> QED BY <3>1 DEF Latenesses
  <2> HIDE DEF f
  <2>2. [s \in SUBSET S |-> IF s = {} THEN 0 ELSE term(Chosen(s)) + h[s \ {Chosen(s)}]]
          = [s \in SUBSET S |-> IF s = {} THEN 0 ELSE f[Chosen(s)] + h[s \ {Chosen(s)}]]
    BY <2>1
  <2> QED BY <2>2 DEF IsSum
<1>2. \A i \in S : f[i] \in Int
  BY DEF Latenesses
<1>3. LatenessSum(rows, paidOn, S) = (CHOOSE h : Adds(h))[S]
  BY DEF LatenessSum, MapThenSumSet, MapThenFoldSet, Chosen
<1> HIDE DEF Adds, f
<1>4. (\E h : IsSum(f, S, h)) /\ (\A h : IsSum(f, S, h) => h[S] = SumOf(f, S))
  BY <1>2, AddsUp
<1>5. Adds(CHOOSE h : Adds(h))
  BY <1>1, <1>4
<1>6. PICK c : c = CHOOSE h : Adds(h)
  OBVIOUS
<1>7. c[S] = SumOf(f, S)
  BY <1>1, <1>4, <1>5, <1>6
<1> QED BY <1>3, <1>6, <1>7 DEF f

LEMMA WeightedSumIs ==
  ASSUME NEW rows, NEW paidOn, NEW S \in SUBSET Invoice, IsFiniteSet(S),
         \A i \in S : latenessScore(paidOn[i] - rows[i].due) * rows[i].amount \in Int
  PROVE  WeightedSum(rows, paidOn, S) = SumOf(Weighted(rows, paidOn), S)
<1> DEFINE term(i) == latenessScore(paidOn[i] - rows[i].due) * rows[i].amount
           Adds(h) == h = [s \in SUBSET S |-> IF s = {} THEN 0
                             ELSE term(Chosen(s)) + h[s \ {Chosen(s)}]]
           f == Weighted(rows, paidOn)
<1>1. ASSUME NEW h
      PROVE  Adds(h) <=> IsSum(f, S, h)
  <2>1. ASSUME NEW s \in SUBSET S, s # {}
        PROVE  term(Chosen(s)) = f[Chosen(s)]
    <3>1. Chosen(s) \in Invoice
      BY <2>1 DEF Chosen
    <3> QED BY <3>1 DEF Weighted
  <2> HIDE DEF f
  <2>2. [s \in SUBSET S |-> IF s = {} THEN 0 ELSE term(Chosen(s)) + h[s \ {Chosen(s)}]]
          = [s \in SUBSET S |-> IF s = {} THEN 0 ELSE f[Chosen(s)] + h[s \ {Chosen(s)}]]
    BY <2>1
  <2> QED BY <2>2 DEF IsSum
<1>2. \A i \in S : f[i] \in Int
  BY DEF Weighted
<1>3. WeightedSum(rows, paidOn, S) = (CHOOSE h : Adds(h))[S]
  BY DEF WeightedSum, MapThenSumSet, MapThenFoldSet, Chosen
<1> HIDE DEF Adds, f
<1>4. (\E h : IsSum(f, S, h)) /\ (\A h : IsSum(f, S, h) => h[S] = SumOf(f, S))
  BY <1>2, AddsUp
<1>5. Adds(CHOOSE h : Adds(h))
  BY <1>1, <1>4
<1>6. PICK c : c = CHOOSE h : Adds(h)
  OBVIOUS
<1>7. c[S] = SumOf(f, S)
  BY <1>1, <1>4, <1>5, <1>6
<1> QED BY <1>3, <1>6, <1>7 DEF f

-----------------------------------------------------------------------------
(* Payment history.                                                        *)

(* The invoices that PaymentHistory counts, and those with a lateness.     *)
Dated(rows, paidOn) ==
  {i \in Invoice : /\ rows[i].status = "paid"
                   /\ paidOn[i] # NoDate /\ rows[i].due # NoDate}
Evident(rows, paidOn) ==
  Dated(rows, paidOn) \cup {i \in Invoice : rows[i].status = "written_off"}

(* PaymentHistory of how many, for how much, and how late.                 *)
History(n, weight, sum, plain) ==
  CASE n = 0 -> 100 * PRIOR
    [] n > 0 /\ weight > 0 -> Rounded(100 * (n * sum + PRIOR * weight), weight * (n + 1))
    [] OTHER -> Rounded(100 * (plain + PRIOR), n + 1)

LEMMA PaymentHistoryIs ==
  ASSUME NEW rows, NEW paidOn, NEW dated, dated = Dated(rows, paidOn),
         NEW evidence, evidence = Evident(rows, paidOn)
  PROVE  PaymentHistory(rows, paidOn) =
           History(Cardinality(evidence), AmountSum(rows, evidence),
                   WeightedSum(rows, paidOn, dated), LatenessSum(rows, paidOn, dated))
BY Zenon DEF PaymentHistory, History, AmountSum, WeightedSum, LatenessSum, Dated, Evident

(* A history grows with the scores of its payments.                        *)
LEMMA HistoryGrows ==
  ASSUME NEW n \in Nat, NEW weight \in Nat,
         NEW sum \in Int, NEW plain \in Int, NEW sum2 \in Int, NEW plain2 \in Int,
         sum2 <= sum, plain2 <= plain
  PROVE  /\ History(n, weight, sum, plain) \in Int
         /\ History(n, weight, sum2, plain2) \in Int
         /\ History(n, weight, sum2, plain2) <= History(n, weight, sum, plain)
<1>1. CASE n = 0
  BY <1>1 DEF History, PRIOR
<1>2. CASE n > 0 /\ weight > 0
  <2>1. n * sum2 <= n * sum /\ n * sum2 \in Int /\ n * sum \in Int
    BY ProductGrows
  <2>2. weight * (n + 1) \in Nat \ {0}
    BY <1>2
  <2>3. PICK a, c, b : /\ a = 100 * (n * sum2 + PRIOR * weight)
                       /\ c = 100 * (n * sum + PRIOR * weight) /\ b = weight * (n + 1)
    OBVIOUS
  <2>4. a \in Int /\ c \in Int /\ a <= c /\ b \in Nat \ {0}
    BY <2>1, <2>2, <2>3 DEF PRIOR
  <2>5. /\ History(n, weight, sum, plain) = Rounded(c, b)
        /\ History(n, weight, sum2, plain2) = Rounded(a, b)
    BY <1>2, <2>3 DEF History
  <2> QED BY <2>4, <2>5, RoundedGrows
<1>3. CASE n > 0 /\ ~(weight > 0)
  <2>1. PICK a, c : a = 100 * (plain2 + PRIOR) /\ c = 100 * (plain + PRIOR)
    OBVIOUS
  <2>2. a \in Int /\ c \in Int /\ a <= c /\ n + 1 \in Nat \ {0}
    BY <2>1 DEF PRIOR
  <2>3. /\ History(n, weight, sum, plain) = Rounded(c, n + 1)
        /\ History(n, weight, sum2, plain2) = Rounded(a, n + 1)
    BY <1>3, <2>1 DEF History
  <2> QED BY <2>2, <2>3, RoundedGrows
<1> QED BY <1>1, <1>2, <1>3

(* It is a percentage, in hundredths, when the scores are.                 *)
LEMMA HistoryRange ==
  ASSUME NEW n \in Nat, NEW weight \in Nat, NEW sum \in Nat, NEW plain \in Nat,
         sum <= 100 * weight, plain <= 100 * n
  PROVE  UpTo(History(n, weight, sum, plain), 10000)
<1>1. CASE n = 0
  BY <1>1 DEF History, PRIOR, UpTo
<1>2. CASE n > 0 /\ weight > 0
  <2>1. n * sum <= n * (100 * weight) /\ n * sum \in Nat
    BY ProductGrows
  <2>2. PICK a, b, x : /\ a = 100 * (n * sum + PRIOR * weight) /\ b = weight * (n + 1)
                       /\ x = n * weight
    OBVIOUS
  <2>3. x \in Nat /\ n * (100 * weight) = 100 * x /\ b = x + weight /\ b \in Nat
    BY <2>2
  <2>4. b # 0
    BY <1>2, <2>2, <2>3
  <2>5. a \in Nat /\ a <= b * 10000
    <3>1. PICK y : y = n * sum
      OBVIOUS
    <3>2. y \in Nat /\ y <= 100 * x
      BY <2>1, <2>3, <3>1
    <3>3. a = 100 * (y + 70 * weight)
      BY <2>2, <3>1 DEF PRIOR
    <3>4. PICK w : w = weight
      OBVIOUS
    <3>5. w \in Nat /\ b = x + w /\ a = 100 * (y + 70 * w)
      BY <2>3, <3>3, <3>4
    <3>6. 100 * (y + 70 * w) <= (x + w) * 10000 /\ 100 * (y + 70 * w) \in Nat
      <4>1. PICK v : v = 70 * w
        OBVIOUS
      <4>2. v \in Nat /\ v <= 100 * w
        BY <3>5, <4>1
      <4>3. y + v <= 100 * (x + w) /\ y + v \in Nat /\ x + w \in Nat
        BY <2>3, <3>2, <3>5, <4>2
      <4> QED BY <4>1, <4>3
    <3> QED BY <3>5, <3>6
  <2>6. UpTo(Rounded(a, b), 10000)
    BY <2>3, <2>4, <2>5, RoundedBounds
  <2> QED BY <1>2, <2>2, <2>6 DEF History
<1>3. CASE n > 0 /\ ~(weight > 0)
  <2>1. PICK a, b : a = 100 * (plain + PRIOR) /\ b = n + 1
    OBVIOUS
  <2>2. a \in Nat /\ b \in Nat \ {0} /\ a <= b * 10000
    BY <2>1 DEF PRIOR
  <2>3. UpTo(Rounded(a, b), 10000)
    BY <2>2, RoundedBounds
  <2> QED BY <1>3, <2>1, <2>3 DEF History
<1> QED BY <1>1, <1>2, <1>3

(* Days of payment.                                                        *)
PaidOn == [Invoice -> Int \cup {NoDate}]

(* The terms of the sums, for well-typed invoices.                         *)
LEMMA TermsAre ==
  ASSUME NEW rows \in [Invoice -> InvoiceRow], NEW paidOn \in PaidOn
  PROVE  /\ \A i \in Invoice : /\ rows[i].amount \in Nat /\ rows[i].outstanding \in Int
                               /\ Amounts(rows)[i] = rows[i].amount
                               /\ Outstandings(rows)[i] = rows[i].outstanding
         /\ \A i \in Dated(rows, paidOn) :
              LET late == latenessScore(paidOn[i] - rows[i].due)
              IN /\ paidOn[i] \in Int /\ rows[i].due \in Int
                 /\ late \in 0..100
                 /\ Latenesses(rows, paidOn)[i] = late
                 /\ Weighted(rows, paidOn)[i] = late * rows[i].amount
                 /\ late * rows[i].amount \in Nat
                 /\ late * rows[i].amount <= 100 * rows[i].amount
<1>1. ASSUME NEW i \in Invoice
      PROVE  /\ rows[i].amount \in Nat /\ rows[i].outstanding \in Int
             /\ Amounts(rows)[i] = rows[i].amount
             /\ Outstandings(rows)[i] = rows[i].outstanding
             /\ rows[i].due \in Int \cup {NoDate} /\ paidOn[i] \in Int \cup {NoDate}
  BY DEF InvoiceRow, Amounts, Outstandings, PaidOn
<1>2. ASSUME NEW i \in Dated(rows, paidOn), NEW late, late = latenessScore(paidOn[i] - rows[i].due)
      PROVE  /\ paidOn[i] \in Int /\ rows[i].due \in Int
             /\ late \in 0..100
             /\ Latenesses(rows, paidOn)[i] = late
             /\ Weighted(rows, paidOn)[i] = late * rows[i].amount
             /\ late * rows[i].amount \in Nat
             /\ late * rows[i].amount <= 100 * rows[i].amount
  <2>1. i \in Invoice /\ paidOn[i] \in Int /\ rows[i].due \in Int
    BY <1>1 DEF Dated
  <2>2. PICK x : x = paidOn[i] - rows[i].due
    OBVIOUS
  <2>3. x \in Int
    BY <2>1, <2>2
  <2>4. late \in 0..100
    BY <1>2, <2>2, <2>3, LatenessFalls
  <2>5. Latenesses(rows, paidOn)[i] = late /\ Weighted(rows, paidOn)[i] = late * rows[i].amount
    BY <1>2, <2>1 DEF Latenesses, Weighted
  <2>6. PICK a : a = rows[i].amount
    OBVIOUS
  <2>7. a \in Nat /\ late \in Nat /\ late <= 100
    BY <1>1, <2>1, <2>4, <2>6
  <2>8. a * late <= a * 100 /\ a * late = late * a /\ late * a \in Nat
    BY <2>7, ProductGrows
  <2> QED BY <2>1, <2>4, <2>5, <2>6, <2>7, <2>8
<1> QED BY <1>1, <1>2

(* What PaymentHistory is computed from.                                   *)
HistoryParts(rows, paidOn, n, weight, sum, plain) ==
  /\ n = Cardinality(Evident(rows, paidOn))
  /\ weight = AmountSum(rows, Evident(rows, paidOn))
  /\ sum = WeightedSum(rows, paidOn, Dated(rows, paidOn))
  /\ plain = LatenessSum(rows, paidOn, Dated(rows, paidOn))

LEMMA PartsAre ==
  ASSUME NEW rows \in [Invoice -> InvoiceRow], NEW paidOn \in PaidOn,
         NEW n, NEW weight, NEW sum, NEW plain,
         HistoryParts(rows, paidOn, n, weight, sum, plain)
  PROVE  /\ PaymentHistory(rows, paidOn) = History(n, weight, sum, plain)
         /\ n \in Nat /\ weight \in Nat /\ sum \in Nat /\ plain \in Nat
         /\ weight = SumOf(Amounts(rows), Evident(rows, paidOn))
         /\ sum = SumOf(Weighted(rows, paidOn), Dated(rows, paidOn))
         /\ plain = SumOf(Latenesses(rows, paidOn), Dated(rows, paidOn))
         /\ sum <= 100 * weight /\ plain <= 100 * n
<1>1. PICK d, e : d = Dated(rows, paidOn) /\ e = Evident(rows, paidOn)
  OBVIOUS
<1>2. /\ e \in SUBSET Invoice /\ d \in SUBSET e /\ d \in SUBSET Invoice
      /\ IsFiniteSet(e) /\ IsFiniteSet(d) /\ n \in Nat
  <2>1. e \in SUBSET Invoice /\ d \in SUBSET e /\ d \in SUBSET Invoice
    BY <1>1 DEF Dated, Evident
  <2>2. IsFiniteSet(e) /\ IsFiniteSet(d)
    BY <2>1, ScoreAssumption, FS_Subset
  <2> QED BY <1>1, <2>1, <2>2, FS_CardinalityType DEF HistoryParts
<1>3. PaymentHistory(rows, paidOn) = History(n, weight, sum, plain)
  BY <1>1, PaymentHistoryIs DEF HistoryParts
<1>4. PICK f, w, l : f = Amounts(rows) /\ w = Weighted(rows, paidOn) /\ l = Latenesses(rows, paidOn)
  OBVIOUS
<1>5. /\ \A i \in Invoice : rows[i].amount \in Nat /\ f[i] = rows[i].amount
      /\ \A i \in d : /\ latenessScore(paidOn[i] - rows[i].due) \in Nat
                      /\ latenessScore(paidOn[i] - rows[i].due) * rows[i].amount \in Nat
                      /\ w[i] \in Nat /\ l[i] \in Nat
                      /\ w[i] <= 100 * f[i] /\ l[i] <= 100
  <2>1. \A i \in Invoice : rows[i].amount \in Nat /\ f[i] = rows[i].amount
    BY <1>4, TermsAre
  <2>2. ASSUME NEW i \in d
        PROVE  /\ latenessScore(paidOn[i] - rows[i].due) \in Nat
               /\ latenessScore(paidOn[i] - rows[i].due) * rows[i].amount \in Nat
               /\ w[i] \in Nat /\ l[i] \in Nat
               /\ w[i] <= 100 * f[i] /\ l[i] <= 100
    <3>1. PICK late : late = latenessScore(paidOn[i] - rows[i].due)
      OBVIOUS
    <3>2. /\ late \in 0..100 /\ l[i] = late /\ w[i] = late * rows[i].amount
          /\ late * rows[i].amount \in Nat
          /\ late * rows[i].amount <= 100 * rows[i].amount
      BY <1>1, <1>4, <3>1, TermsAre
    <3>3. f[i] = rows[i].amount
      BY <1>2, <2>1
    <3> QED BY <3>1, <3>2, <3>3
  <2> QED BY <2>1, <2>2
<1>6. weight = SumOf(f, e)
  <2>1. \A i \in e : rows[i].amount \in Int
    BY <1>2, <1>5
  <2> QED BY <1>1, <1>2, <1>4, <2>1, AmountSumIs DEF HistoryParts
<1>7. sum = SumOf(w, d)
  <2>1. \A i \in d : latenessScore(paidOn[i] - rows[i].due) * rows[i].amount \in Int
    BY <1>5
  <2> QED BY <1>1, <1>2, <1>4, <2>1, WeightedSumIs DEF HistoryParts
<1>8. plain = SumOf(l, d)
  <2>1. \A i \in d : latenessScore(paidOn[i] - rows[i].due) \in Int
    BY <1>5
  <2> QED BY <1>1, <1>2, <1>4, <2>1, LatenessSumIs DEF HistoryParts
<1>9. weight \in Nat /\ sum \in Nat /\ plain \in Nat
  <2>1. \A i \in e : f[i] \in Nat
    BY <1>2, <1>5
  <2>2. \A i \in d : w[i] \in Nat /\ l[i] \in Nat
    BY <1>5
  <2> QED BY <1>2, <1>6, <1>7, <1>8, <2>1, <2>2, SumOfNat
<1>10. sum <= 100 * weight
  <2>1. SumOf(w, d) <= 100 * SumOf(f, d)
    <3>1. \A i \in d : w[i] \in Int /\ f[i] \in Int /\ w[i] <= 100 * f[i]
      BY <1>2, <1>5
    <3>2. PICK k \in Int : k = 100
      OBVIOUS
    <3>3. SumOf(w, d) <= k * SumOf(f, d)
      BY <1>2, <3>1, <3>2, SumBounded
    <3> QED BY <3>2, <3>3
  <2>2. SumOf(f, d) <= SumOf(f, e) /\ SumOf(f, d) \in Nat
    <3>1. (\A i \in e : f[i] \in Nat) /\ (\A i \in d : f[i] \in Nat)
      BY <1>2, <1>5
    <3> QED BY <1>2, <3>1, SumOfPart, SumOfNat
  <2> QED BY <1>6, <1>7, <1>9, <2>1, <2>2
<1>11. plain <= 100 * n
  <2>1. \A i \in d : l[i] \in Int /\ l[i] <= 100
    BY <1>5
  <2>2. SumOf(l, d) <= 100 * Cardinality(d)
    <3>1. PICK k \in Int : k = 100
      OBVIOUS
    <3>2. SumOf(l, d) <= k * Cardinality(d)
      BY <1>2, <2>1, <3>1, SumAtMost
    <3> QED BY <3>1, <3>2
  <2>3. Cardinality(d) <= Cardinality(e) /\ Cardinality(d) \in Nat
    BY <1>2, FS_Subset, FS_CardinalityType
  <2>4. PICK c : c = Cardinality(d)
    OBVIOUS
  <2>5. c \in Nat /\ c <= n /\ plain <= 100 * c
    BY <1>1, <1>8, <2>2, <2>3, <2>4 DEF HistoryParts
  <2> QED BY <1>2, <1>9, <2>5
<1> QED BY <1>1, <1>2, <1>3, <1>4, <1>6, <1>7, <1>8, <1>9, <1>10, <1>11

-----------------------------------------------------------------------------
(* The score.                                                              *)

(* The invoices that count as billed, and those that are past due.         *)
Billed(rows) == {i \in Invoice : rows[i].status # "draft"}
Late(rows, asOf) == {i \in Invoice : uiPastDue(rows[i], asOf)}

LEMMA TotalBilledIs ==
  ASSUME NEW rows \in [Invoice -> InvoiceRow]
  PROVE  TotalBilled(rows) \in Int /\ TotalBilled(rows) = SumOf(Amounts(rows), Billed(rows))
<1>1. PICK S : S = Billed(rows)
  OBVIOUS
<1>2. S \in SUBSET Invoice /\ IsFiniteSet(S)
  BY <1>1, ScoreAssumption, FS_Subset DEF Billed
<1>3. \A i \in Invoice : rows[i].amount \in Int /\ Amounts(rows)[i] \in Int
  BY DEF InvoiceRow, Amounts
<1>4. AmountSum(rows, S) = SumOf(Amounts(rows), S)
  BY <1>2, <1>3, AmountSumIs
<1>5. SumOf(Amounts(rows), S) \in Int
  BY <1>2, <1>3, SumOfInt
<1>6. TotalBilled(rows) = AmountSum(rows, S)
  BY <1>1 DEF TotalBilled, AmountSum, Billed
<1> QED BY <1>1, <1>4, <1>5, <1>6

(* Exposure of what was billed and what is owed past due.                  *)
Exposed(total, owed) == Max({0, Min({10000, Rounded(10000 * (total - owed), total)})})

LEMMA ExposureIs ==
  ASSUME NEW rows \in [Invoice -> InvoiceRow], NEW late \in SUBSET Invoice,
         NEW total, total = TotalBilled(rows)
  PROVE  /\ Exposure(rows, late) = Exposed(total, SumOf(Outstandings(rows), late))
         /\ SumOf(Outstandings(rows), late) \in Int
<1>1. IsFiniteSet(late)
  BY ScoreAssumption, FS_Subset
<1>2. \A i \in late : rows[i].outstanding \in Int /\ Outstandings(rows)[i] \in Int
  BY DEF InvoiceRow, Outstandings
<1>3. OutstandingSum(rows, late) = SumOf(Outstandings(rows), late)
  BY <1>1, <1>2, OutstandingSumIs
<1>4. SumOf(Outstandings(rows), late) \in Int
  BY <1>1, <1>2, SumOfInt
<1>5. Exposure(rows, late) = Exposed(total, OutstandingSum(rows, late))
  BY DEF Exposure, Exposed, OutstandingSum
<1> QED BY <1>3, <1>4, <1>5

LEMMA ExposureRange ==
  ASSUME NEW total \in Nat \ {0}, NEW owed \in Int
  PROVE  UpTo(Exposed(total, owed), 10000)
<1>1. PICK x : x = Rounded(10000 * (total - owed), total)
  OBVIOUS
<1>2. x \in Int
  <2>1. PICK a : a = 10000 * (total - owed)
    OBVIOUS
  <2>2. a \in Int
    BY <2>1
  <2> QED BY <1>1, <2>1, <2>2, RoundedGrows
<1>3. Min({10000, x}) = IF x <= 10000 THEN x ELSE 10000
  BY <1>2, LesserIs
<1>4. PICK least : least = Min({10000, x})
  OBVIOUS
<1>5. least \in Int /\ least <= 10000
  BY <1>2, <1>3, <1>4
<1>6. Max({0, least}) = IF 0 <= least THEN least ELSE 0
  BY <1>5, GreaterIs
<1>7. Exposed(total, owed) = Max({0, least})
  BY <1>1, <1>4 DEF Exposed
<1>8. PICK e : e = IF 0 <= least THEN least ELSE 0
  OBVIOUS
<1>9. e \in 0..10000
  BY <1>5, <1>8
<1>10. Exposed(total, owed) = e
  BY <1>6, <1>7, <1>8
<1> QED BY <1>9, <1>10 DEF UpTo

(* The worst number of days past due is one of them, or 0.                 *)
LEMMA WorstDays ==
  ASSUME NEW rows \in [Invoice -> InvoiceRow], NEW late \in SUBSET Invoice, NEW asOf \in Int
  PROVE  Max(DaysPastDue(rows, late, asOf)) \in Int
<1> DEFINE due == {j \in late : rows[j].due # NoDate}
           days == [i \in due |-> asOf - rows[i].due]
<1>1. IsFiniteSet(due)
  BY ScoreAssumption, FS_Subset
<1>2. \A i \in due : days[i] \in Int
  BY DEF InvoiceRow
<1>3. DaysPastDue(rows, late, asOf) = Values(0, days, due)
  BY DEF DaysPastDue, Values
<1> HIDE DEF due, days
<1>4. HasGreatest(Values(0, days, due))
  BY <1>1, <1>2, SomeGreatest
<1>5. Values(0, days, due) \in SUBSET Int
  BY <1>2 DEF Values
<1> QED BY <1>3, <1>4, <1>5, MaxIs DEF HasGreatest

(* The composite of the three components.                                  *)
Composite(history, current, exposure) ==
  Rounded(55 * history + 3000 * current + 15 * exposure, 10000)

LEMMA ScoreIs ==
  ASSUME NEW rows, NEW paidOn, NEW asOf, NEW late, late = Late(rows, asOf)
  PROVE  computeClientScore(rows, paidOn, asOf) =
           IF TotalBilled(rows) <= 0 THEN NoRow
           ELSE Composite(PaymentHistory(rows, paidOn),
                          latenessScore(Max(DaysPastDue(rows, late, asOf))),
                          Exposure(rows, late))
<1>1. computeClientScore(rows, paidOn, asOf) =
        IF TotalBilled(rows) <= 0 THEN NoRow
        ELSE Composite(PaymentHistory(rows, paidOn),
                       latenessScore(Max(DaysPastDue(rows, Late(rows, asOf), asOf))),
                       Exposure(rows, Late(rows, asOf)))
  BY DEF computeClientScore, Composite, Late
<1> QED BY <1>1

(* The weights of the components add up to one.                            *)
LEMMA WeightsAddUp ==
  ASSUME NEW p, UpTo(p, 10000), NEW c, UpTo(c, 100), NEW e, UpTo(e, 10000)
  PROVE  /\ 55 * p + 3000 * c + 15 * e \in Nat
         /\ 55 * p + 3000 * c + 15 * e <= 10000 * 100
<1>1. /\ p \in Int /\ 0 <= p /\ p <= 10000 /\ c \in Int /\ 0 <= c /\ c <= 100
      /\ e \in Int /\ 0 <= e /\ e <= 10000
  BY UpToInt
<1>2. 55 * p <= 550000 /\ 3000 * c <= 300000 /\ 15 * e <= 150000
  BY <1>1
<1>3. 55 * p + 3000 * c + 15 * e \in Int /\ 0 <= 55 * p + 3000 * c + 15 * e
  BY <1>1
<1> QED BY <1>1, <1>2, <1>3

(* A score is a percentage.                                                *)
LEMMA ScoreRange ==
  ASSUME NEW rows \in [Invoice -> InvoiceRow], NEW paidOn \in PaidOn, NEW asOf \in Int
  PROVE  computeClientScore(rows, paidOn, asOf) \in (0..100) \cup {NoRow}
<1>1. PICK late, total : late = Late(rows, asOf) /\ total = TotalBilled(rows)
  OBVIOUS
<1>2. late \in SUBSET Invoice /\ total \in Int
  BY <1>1, TotalBilledIs DEF Late
<1>3. CASE total <= 0
  BY <1>1, <1>3, ScoreIs
<1>4. CASE 0 < total
  <2>1. PICK p, c, e : /\ p = PaymentHistory(rows, paidOn)
                       /\ c = latenessScore(Max(DaysPastDue(rows, late, asOf)))
                       /\ e = Exposure(rows, late)
    OBVIOUS
  <2>2. UpTo(p, 10000)
    <3>1. PICK n, weight, sum, plain : HistoryParts(rows, paidOn, n, weight, sum, plain)
      BY DEF HistoryParts
    <3>2. UpTo(History(n, weight, sum, plain), 10000) /\ p = History(n, weight, sum, plain)
      BY <2>1, <3>1, PartsAre, HistoryRange
    <3> QED BY <3>2
  <2>3. UpTo(c, 100)
    BY <1>2, <2>1, WorstDays, LatenessFalls DEF UpTo
  <2>4. UpTo(e, 10000)
    <3>1. PICK owed : owed = SumOf(Outstandings(rows), late)
      OBVIOUS
    <3>2. owed \in Int /\ e = Exposed(total, owed)
      BY <1>1, <1>2, <2>1, <3>1, ExposureIs
    <3>3. total \in Nat \ {0}
      BY <1>2, <1>4
    <3>4. UpTo(Exposed(total, owed), 10000)
      BY <3>2, <3>3, ExposureRange
    <3> QED BY <3>2, <3>4
  <2>5. PICK a : a = 55 * p + 3000 * c + 15 * e
    OBVIOUS
  <2>6. a \in Nat /\ a <= 10000 * 100
    BY <2>2, <2>3, <2>4, <2>5, WeightsAddUp
  <2>7. UpTo(Rounded(a, 10000), 100)
    BY <2>6, RoundedBounds
  <2>8. computeClientScore(rows, paidOn, asOf) = Rounded(a, 10000)
    BY <1>1, <1>2, <1>4, <2>1, <2>5, ScoreIs DEF Composite
  <2> QED BY <2>7, <2>8 DEF UpTo
<1> QED BY <1>2, <1>3, <1>4

(* What a score is made of: three whole numbers, when something was billed. *)
LEMMA ScoreParts ==
  ASSUME NEW rows \in [Invoice -> InvoiceRow], NEW paidOn \in PaidOn, NEW asOf \in Int,
         TotalBilled(rows) > 0,
         NEW p, p = PaymentHistory(rows, paidOn),
         NEW c, c = latenessScore(Max(DaysPastDue(rows, Late(rows, asOf), asOf))),
         NEW e, e = Exposure(rows, Late(rows, asOf))
  PROVE  /\ p \in Int /\ c \in Int /\ e \in Int
         /\ computeClientScore(rows, paidOn, asOf) = Composite(p, c, e)
<1>1. PICK late, total : late = Late(rows, asOf) /\ total = TotalBilled(rows)
  OBVIOUS
<1>2. late \in SUBSET Invoice /\ total \in Int /\ 0 < total
  BY <1>1, TotalBilledIs DEF Late
<1>3. p \in Int
  <2>1. PICK n, weight, sum, plain : HistoryParts(rows, paidOn, n, weight, sum, plain)
    BY DEF HistoryParts
  <2>2. UpTo(History(n, weight, sum, plain), 10000) /\ p = History(n, weight, sum, plain)
    BY <2>1, PartsAre, HistoryRange
  <2>3. UpTo(p, 10000)
    BY <2>2
  <2> QED BY <2>3, UpToInt
<1>4. c \in Int
  BY <1>1, <1>2, WorstDays, LatenessFalls
<1>5. e \in Int
  <2>1. PICK owed : owed = SumOf(Outstandings(rows), late)
    OBVIOUS
  <2>2. owed \in Int /\ e = Exposed(total, owed)
    BY <1>1, <1>2, <2>1, ExposureIs
  <2>3. total \in Nat \ {0}
    BY <1>2
  <2>4. UpTo(Exposed(total, owed), 10000)
    BY <2>2, <2>3, ExposureRange
  <2>5. UpTo(e, 10000)
    BY <2>2, <2>4
  <2> QED BY <2>5, UpToInt
<1>6. computeClientScore(rows, paidOn, asOf) = Composite(p, c, e)
  BY <1>1, <1>2, ScoreIs
<1> QED BY <1>3, <1>4, <1>5, <1>6

LEMMA CompositeGrows ==
  ASSUME NEW p \in Int, NEW q \in Int, q <= p, NEW c \in Int, NEW e \in Int
  PROVE  Composite(q, c, e) <= Composite(p, c, e)
<1>1. PICK a, b : a = 55 * q + 3000 * c + 15 * e /\ b = 55 * p + 3000 * c + 15 * e
  OBVIOUS
<1>2. a \in Int /\ b \in Int /\ a <= b
  BY <1>1
<1>3. Rounded(a, 10000) <= Rounded(b, 10000)
  BY <1>2, RoundedGrows
<1> QED BY <1>1, <1>3 DEF Composite

(* With the same invoices past due for as much and as long, the score      *)
(* follows the payment history.                                            *)
LEMMA ScoreFollowsHistory ==
  ASSUME NEW rows \in [Invoice -> InvoiceRow], NEW paidOn \in PaidOn, NEW asOf \in Int,
         NEW rows2 \in [Invoice -> InvoiceRow], NEW paidOn2 \in PaidOn,
         TotalBilled(rows) > 0, TotalBilled(rows2) > 0,
         DaysPastDue(rows2, Late(rows2, asOf), asOf)
           = DaysPastDue(rows, Late(rows, asOf), asOf),
         Exposure(rows2, Late(rows2, asOf)) = Exposure(rows, Late(rows, asOf)),
         PaymentHistory(rows2, paidOn2) <= PaymentHistory(rows, paidOn)
  PROVE  computeClientScore(rows2, paidOn2, asOf) <= computeClientScore(rows, paidOn, asOf)
<1>1. PICK p, q, c, e :
        /\ p = PaymentHistory(rows, paidOn) /\ q = PaymentHistory(rows2, paidOn2)
        /\ c = latenessScore(Max(DaysPastDue(rows, Late(rows, asOf), asOf)))
        /\ e = Exposure(rows, Late(rows, asOf))
  OBVIOUS
<1>2. /\ p \in Int /\ c \in Int /\ e \in Int
      /\ computeClientScore(rows, paidOn, asOf) = Composite(p, c, e)
  BY <1>1, ScoreParts
<1>3. /\ c = latenessScore(Max(DaysPastDue(rows2, Late(rows2, asOf), asOf)))
      /\ e = Exposure(rows2, Late(rows2, asOf))
  BY <1>1
<1>4. q \in Int /\ computeClientScore(rows2, paidOn2, asOf) = Composite(q, c, e)
  BY <1>1, <1>3, ScoreParts
<1>5. Composite(q, c, e) <= Composite(p, c, e)
  BY <1>1, <1>2, <1>4, CompositeGrows
<1> QED BY <1>2, <1>4, <1>5

-----------------------------------------------------------------------------
(* Paying later never helps.                                               *)

(* A payment made later keeps what is counted and lowers one lateness.     *)
LEMMA LaterPayment ==
  ASSUME NEW rows \in [Invoice -> InvoiceRow], NEW paidOn \in PaidOn, NEW asOf \in Int,
         NEW i \in Invoice, paidOn[i] # NoDate, NEW later \in Int, paidOn[i] <= later,
         TotalBilled(rows) > 0
  PROVE  computeClientScore(rows, [paidOn EXCEPT ![i] = later], asOf)
           <= computeClientScore(rows, paidOn, asOf)
<1>1. PICK on : on = [paidOn EXCEPT ![i] = later]
  OBVIOUS
<1>2. /\ on \in PaidOn /\ paidOn[i] \in Int /\ NoDate \notin Int
      /\ on[i] = later /\ \A j \in Invoice : j # i => on[j] = paidOn[j]
  BY <1>1, ScoreAssumption DEF PaidOn
<1>3. Dated(rows, on) = Dated(rows, paidOn) /\ Evident(rows, on) = Evident(rows, paidOn)
  <2>1. \A j \in Invoice : on[j] # NoDate <=> paidOn[j] # NoDate
    BY <1>2
  <2> QED BY <2>1 DEF Dated, Evident
<1>4. PICK n, weight, sum, plain : HistoryParts(rows, paidOn, n, weight, sum, plain)
  BY DEF HistoryParts
<1>5. PICK n2, weight2, sum2, plain2 : HistoryParts(rows, on, n2, weight2, sum2, plain2)
  BY DEF HistoryParts
<1>6. n2 = n /\ weight2 = weight
  BY <1>3, <1>4, <1>5 DEF HistoryParts
<1>7. PICK d, w, l, w2, l2 :
        /\ d = Dated(rows, paidOn)
        /\ w = Weighted(rows, paidOn) /\ l = Latenesses(rows, paidOn)
        /\ w2 = Weighted(rows, on) /\ l2 = Latenesses(rows, on)
  OBVIOUS
<1>8. /\ PaymentHistory(rows, paidOn) = History(n, weight, sum, plain)
      /\ n \in Nat /\ weight \in Nat /\ sum \in Nat /\ plain \in Nat
      /\ sum = SumOf(w, d) /\ plain = SumOf(l, d)
  BY <1>2, <1>4, <1>7, PartsAre
<1>9. /\ PaymentHistory(rows, on) = History(n, weight, sum2, plain2)
      /\ sum2 \in Nat /\ plain2 \in Nat
      /\ sum2 = SumOf(w2, d) /\ plain2 = SumOf(l2, d)
  BY <1>2, <1>3, <1>5, <1>6, <1>7, PartsAre
<1>10. ASSUME NEW j \in d
       PROVE  /\ w2[j] \in Int /\ w[j] \in Int /\ w2[j] <= w[j]
              /\ l2[j] \in Int /\ l[j] \in Int /\ l2[j] <= l[j]
  <2>1. PICK x, y, a : /\ x = latenessScore(paidOn[j] - rows[j].due)
                       /\ y = latenessScore(on[j] - rows[j].due) /\ a = rows[j].amount
    OBVIOUS
  <2>2. /\ j \in Invoice /\ paidOn[j] \in Int /\ rows[j].due \in Int
        /\ l[j] = x /\ w[j] = x * a
    BY <1>7, <2>1, TermsAre DEF Dated
  <2>3. on[j] \in Int /\ l2[j] = y /\ w2[j] = y * a
    BY <1>2, <1>3, <1>7, <2>1, TermsAre
  <2>4. a \in Nat
    BY <2>1, <2>2, TermsAre
  <2>5. paidOn[j] <= on[j]
    BY <1>2, <2>2
  <2>6. x \in 0..100 /\ y \in 0..100 /\ y <= x
    <3>1. PICK s, t : s = paidOn[j] - rows[j].due /\ t = on[j] - rows[j].due
      OBVIOUS
    <3>2. s \in Int /\ t \in Int /\ s <= t
      BY <2>2, <2>3, <2>5, <3>1
    <3> QED BY <2>1, <3>1, <3>2, LatenessFalls
  <2>7. y * a <= x * a /\ y * a \in Int /\ x * a \in Int
    <3>1. a * y <= a * x
      BY <2>4, <2>6, ProductGrows
    <3>2. a * y = y * a /\ a * x = x * a /\ y * a \in Int /\ x * a \in Int
      BY <2>4, <2>6
    <3> QED BY <3>1, <3>2
  <2> QED BY <2>2, <2>3, <2>6, <2>7
<1>11. IsFiniteSet(d)
  BY <1>7, ScoreAssumption, FS_Subset DEF Dated
<1>12. sum2 <= sum
  <2>1. PICK k \in Int : k = 1
    OBVIOUS
  <2>2. \A j \in d : w2[j] \in Int /\ w[j] \in Int /\ w2[j] <= k * w[j]
    BY <1>10, <2>1
  <2>3. SumOf(w2, d) <= k * SumOf(w, d)
    BY <1>11, <2>2, SumBounded
  <2>4. sum2 <= k * sum
    BY <1>8, <1>9, <2>3
  <2> QED BY <1>8, <1>9, <2>1, <2>4
<1>13. plain2 <= plain
  <2>1. PICK k \in Int : k = 1
    OBVIOUS
  <2>2. \A j \in d : l2[j] \in Int /\ l[j] \in Int /\ l2[j] <= k * l[j]
    BY <1>10, <2>1
  <2>3. SumOf(l2, d) <= k * SumOf(l, d)
    BY <1>11, <2>2, SumBounded
  <2>4. plain2 <= k * plain
    BY <1>8, <1>9, <2>3
  <2> QED BY <1>8, <1>9, <2>1, <2>4
<1>14. PaymentHistory(rows, on) <= PaymentHistory(rows, paidOn)
  BY <1>8, <1>9, <1>12, <1>13, HistoryGrows
<1> QED BY <1>1, <1>2, <1>14, ScoreFollowsHistory

(* A sum over all but one is less by that one. *)
LEMMA SumWithout ==
  ASSUME NEW S, IsFiniteSet(S), NEW f, \A x \in S : f[x] \in Nat, NEW i
  PROVE  SumOf(f, S \ {i}) <= SumOf(f, S)
<1>1. S \ {i} \in SUBSET S
  OBVIOUS
<1> QED BY <1>1, SumOfPart

(* An invoice written off, instead of paid, stays what is counted and its  *)
(* lateness counts nothing.                                                *)
LEMMA WrittenOffInstead ==
  ASSUME NEW rows \in [Invoice -> InvoiceRow], NEW paidOn \in PaidOn, NEW asOf \in Int,
         NEW i \in Invoice, rows[i].status = "paid",
         paidOn[i] # NoDate, rows[i].due # NoDate, TotalBilled(rows) > 0
  PROVE  computeClientScore([rows EXCEPT ![i].status = "written_off"], paidOn, asOf)
           <= computeClientScore(rows, paidOn, asOf)
<1>1. PICK off : off = [rows EXCEPT ![i].status = "written_off"]
  OBVIOUS
<1>2. /\ off \in [Invoice -> InvoiceRow]
      /\ \A j \in Invoice : /\ off[j].due = rows[j].due /\ off[j].amount = rows[j].amount
                            /\ off[j].outstanding = rows[j].outstanding
                            /\ j # i => off[j] = rows[j]
      /\ off[i].status = "written_off"
  <2>1. off[i] = [rows[i] EXCEPT !.status = "written_off"] /\ rows[i] \in InvoiceRow
    BY <1>1
  <2>2. /\ off[i] \in InvoiceRow /\ off[i].status = "written_off"
        /\ off[i].due = rows[i].due /\ off[i].amount = rows[i].amount
        /\ off[i].outstanding = rows[i].outstanding
    BY <2>1 DEF InvoiceRow
  <2>3. off = [j \in Invoice |-> IF j = i THEN off[i] ELSE rows[j]]
    BY <1>1
  <2>4. \A j \in Invoice : j # i => off[j] = rows[j]
    BY <2>3
  <2>5. off \in [Invoice -> InvoiceRow]
    BY <2>2, <2>3
  <2> QED BY <2>2, <2>4, <2>5
<1>3. /\ Amounts(off) = Amounts(rows) /\ Outstandings(off) = Outstandings(rows)
      /\ Weighted(off, paidOn) = Weighted(rows, paidOn)
      /\ Latenesses(off, paidOn) = Latenesses(rows, paidOn)
  <2>1. Amounts(off) = Amounts(rows) /\ Outstandings(off) = Outstandings(rows)
    BY <1>2 DEF Amounts, Outstandings
  <2>2. Weighted(off, paidOn) = Weighted(rows, paidOn)
    BY <1>2 DEF Weighted
  <2>3. Latenesses(off, paidOn) = Latenesses(rows, paidOn)
    BY <1>2 DEF Latenesses
  <2> QED BY <2>1, <2>2, <2>3
<1>4. Billed(off) = Billed(rows)
  BY <1>2 DEF Billed
<1>5. Late(off, asOf) = Late(rows, asOf)
  <2>1. ASSUME NEW j \in Invoice
        PROVE  uiPastDue(off[j], asOf) <=> uiPastDue(rows[j], asOf)
    <3>1. CASE j = i
      BY <1>2, <3>1 DEF uiPastDue
    <3>2. CASE j # i
      BY <1>2, <3>2
    <3> QED BY <3>1, <3>2
  <2> QED BY <2>1 DEF Late
<1>6. TotalBilled(off) = TotalBilled(rows)
  BY <1>2, <1>3, <1>4, TotalBilledIs
<1>7. DaysPastDue(off, Late(off, asOf), asOf) = DaysPastDue(rows, Late(rows, asOf), asOf)
  <2>1. PICK late : late = Late(rows, asOf)
    OBVIOUS
  <2>2. late \in SUBSET Invoice
    BY <2>1 DEF Late
  <2>3. DaysPastDue(off, late, asOf) = DaysPastDue(rows, late, asOf)
    BY <1>2, <2>2 DEF DaysPastDue
  <2> QED BY <1>5, <2>1, <2>3
<1>8. Exposure(off, Late(off, asOf)) = Exposure(rows, Late(rows, asOf))
  <2>1. PICK late, total : late = Late(rows, asOf) /\ total = TotalBilled(rows)
    OBVIOUS
  <2>2. late \in SUBSET Invoice /\ total = TotalBilled(off)
    BY <1>6, <2>1 DEF Late
  <2>3. Exposure(rows, late) = Exposed(total, SumOf(Outstandings(rows), late))
    BY <2>1, <2>2, ExposureIs
  <2>4. Exposure(off, late) = Exposed(total, SumOf(Outstandings(off), late))
    BY <1>2, <2>2, ExposureIs
  <2> QED BY <1>3, <1>5, <2>1, <2>3, <2>4
<1>9. PICK d, d2 : d = Dated(rows, paidOn) /\ d2 = Dated(off, paidOn)
  OBVIOUS
<1>10. d2 = d \ {i} /\ Evident(off, paidOn) = Evident(rows, paidOn)
  <2>1. i \in d
    BY <1>9 DEF Dated
  <2>2. d2 = d \ {i}
    <3>1. \A j \in Invoice : j \in d2 <=> (j \in d /\ j # i)
      BY <1>2, <1>9 DEF Dated
    <3>2. d2 \in SUBSET Invoice /\ d \in SUBSET Invoice
      BY <1>9 DEF Dated
    <3> QED BY <3>1, <3>2
  <2>3. \A j \in Invoice : off[j].status = "written_off" <=>
                             (rows[j].status = "written_off" \/ j = i)
    BY <1>2
  <2>4. Evident(off, paidOn) = d2 \cup {j \in Invoice : rows[j].status = "written_off" \/ j = i}
    BY <1>9, <2>3 DEF Evident
  <2>5. Evident(rows, paidOn) = d \cup {j \in Invoice : rows[j].status = "written_off"}
    BY <1>9 DEF Evident
  <2> QED BY <2>1, <2>2, <2>4, <2>5
<1>11. PICK n, weight, sum, plain : HistoryParts(rows, paidOn, n, weight, sum, plain)
  BY DEF HistoryParts
<1>12. PICK n2, weight2, sum2, plain2 : HistoryParts(off, paidOn, n2, weight2, sum2, plain2)
  BY DEF HistoryParts
<1>13. PICK w, l : w = Weighted(rows, paidOn) /\ l = Latenesses(rows, paidOn)
  OBVIOUS
<1>14. /\ PaymentHistory(rows, paidOn) = History(n, weight, sum, plain)
       /\ n \in Nat /\ weight \in Nat /\ sum \in Nat /\ plain \in Nat
       /\ weight = SumOf(Amounts(rows), Evident(rows, paidOn))
       /\ sum = SumOf(w, d) /\ plain = SumOf(l, d)
  BY <1>9, <1>11, <1>13, PartsAre
<1>15. /\ PaymentHistory(off, paidOn) = History(n2, weight2, sum2, plain2)
       /\ sum2 \in Nat /\ plain2 \in Nat
       /\ weight2 = SumOf(Amounts(rows), Evident(rows, paidOn))
       /\ sum2 = SumOf(w, d2) /\ plain2 = SumOf(l, d2)
  <2>1. PICK w2, l2, f2, e2 : /\ w2 = Weighted(off, paidOn) /\ l2 = Latenesses(off, paidOn)
                              /\ f2 = Amounts(off) /\ e2 = Evident(off, paidOn)
    OBVIOUS
  <2>2. /\ PaymentHistory(off, paidOn) = History(n2, weight2, sum2, plain2)
        /\ sum2 \in Nat /\ plain2 \in Nat /\ weight2 = SumOf(f2, e2)
        /\ sum2 = SumOf(w2, d2) /\ plain2 = SumOf(l2, d2)
    BY <1>2, <1>9, <1>12, <2>1, PartsAre
  <2> QED BY <1>3, <1>10, <1>13, <2>1, <2>2
<1>16. n2 = n /\ weight2 = weight
  BY <1>10, <1>11, <1>12, <1>14, <1>15 DEF HistoryParts
<1>17. \A j \in d : w[j] \in Nat /\ l[j] \in Nat
  <2>1. ASSUME NEW j \in d
        PROVE  w[j] \in Nat /\ l[j] \in Nat
    <3>1. PICK x : x = latenessScore(paidOn[j] - rows[j].due)
      OBVIOUS
    <3>2. l[j] = x /\ w[j] = x * rows[j].amount /\ x \in 0..100 /\ x * rows[j].amount \in Nat
      BY <1>9, <1>13, <3>1, TermsAre
    <3> QED BY <3>2
  <2> QED BY <2>1
<1>18. IsFiniteSet(d)
  BY <1>9, ScoreAssumption, FS_Subset DEF Dated
<1>19. sum2 <= sum /\ plain2 <= plain
  <2>1. SumOf(w, d \ {i}) <= SumOf(w, d)
    BY <1>17, <1>18, SumWithout
  <2>2. SumOf(l, d \ {i}) <= SumOf(l, d)
    BY <1>17, <1>18, SumWithout
  <2> QED BY <1>10, <1>14, <1>15, <2>1, <2>2
<1>20. PaymentHistory(off, paidOn) <= PaymentHistory(rows, paidOn)
  BY <1>14, <1>15, <1>16, <1>19, HistoryGrows
<1> QED BY <1>1, <1>2, <1>6, <1>7, <1>8, <1>20, ScoreFollowsHistory

-----------------------------------------------------------------------------
(* The day an invoice was paid.                                            *)

(* v is the last day the rows give for the invoice, or unknown.            *)
IsLast(rows, i, v) ==
  \/ v = NoDate /\ \A k \in DOMAIN rows : rows[k].invoice # i
  \/ \E k \in DOMAIN rows :
       /\ rows[k].invoice = i /\ rows[k].day = v
       /\ \A j \in DOMAIN rows : rows[j].invoice = i => rows[j].day <= v

LEMMA LastPaymentIs ==
  ASSUME NEW rows \in Seq(PaymentRow), NEW i
  PROVE  IsLast(rows, i, LastPayment(rows, i))
<1> DEFINE After(cur, p) ==
             IF p.invoice = i /\ (cur = NoDate \/ p.day > cur) THEN p.day ELSE cur
           Folds(h) == h = [s \in SUBSET DOMAIN rows |->
             IF s = {} THEN NoDate ELSE After(h[s \ {Max(s)}], rows[Max(s)])]
           V == Int \cup {NoDate}
<1>1. PICK n \in Nat : n = Len(rows) /\ DOMAIN rows = 1..n
  OBVIOUS
<1>2. \A k \in 1..n : rows[k] \in PaymentRow /\ rows[k].day \in Int
  <2>1. \A k \in 1..n : rows[k] \in PaymentRow
    BY <1>1
  <2>2. \A p \in PaymentRow : p.day \in Int
    BY DEF PaymentRow
  <2> QED BY <2>1, <2>2
<1>3. LastPayment(rows, i) = (CHOOSE h : Folds(h))[1..n]
  BY <1>1 DEF LastPayment, FoldLeft, MapThenFoldSet
<1>4. \E h : Folds(h)
  <2> DEFINE step == [k \in 1..n |-> [v \in V |-> After(v, rows[k])]]
  <2>1. step \in [1..n -> [V -> V]]
    <3>1. ASSUME NEW k \in 1..n, NEW v \in V
          PROVE  After(v, rows[k]) \in V
      BY <1>2
    <3> HIDE DEF After
    <3> QED BY <3>1
  <2>2. NoDate \in V
    OBVIOUS
  <2>3. \A k \in 1..n, v \in V : step[k][v] = After(v, rows[k])
    OBVIOUS
  <2> HIDE DEF step, After, V
  <2>4. PICK g \in [SUBSET (1..n) -> V] : \A s \in SUBSET (1..n) :
           g[s] = IF s = {} THEN NoDate ELSE step[LastIn(s)][g[s \ {LastIn(s)}]]
    <3>1. FoldsUpTo(n, V, NoDate, step)
      BY <2>1, <2>2, SequenceFoldExists
    <3> QED BY <3>1 DEF FoldsUpTo
  <2>5. ASSUME NEW s \in SUBSET (1..n)
        PROVE  g[s] = IF s = {} THEN NoDate ELSE After(g[s \ {Max(s)}], rows[Max(s)])
    <3>1. CASE s = {}
      BY <2>4, <3>1
    <3>2. CASE s # {}
      <4>1. PICK m : m = Max(s)
        OBVIOUS
      <4>2. m \in 1..n /\ LastIn(s) = m /\ s \ {m} \in SUBSET (1..n)
        BY <3>2, <4>1, LastPosition DEF LastIn
      <4>3. g[s \ {m}] \in V
        BY <2>4, <4>2
      <4>4. g[s] = step[m][g[s \ {m}]]
        BY <2>4, <3>2, <4>2
      <4> QED BY <2>3, <3>2, <4>1, <4>2, <4>3, <4>4
    <3> QED BY <3>1, <3>2
  <2>6. g = [s \in SUBSET DOMAIN rows |->
              IF s = {} THEN NoDate ELSE After(g[s \ {Max(s)}], rows[Max(s)])]
    BY <1>1, <2>4, <2>5
  <2> QED BY <2>6
<1>5. PICK h : h = CHOOSE g : Folds(g)
  OBVIOUS
<1>6. Folds(h)
  <2> HIDE DEF Folds
  <2> QED BY <1>4, <1>5
<1>7. h[{}] = NoDate
  BY <1>6
<1>8. ASSUME NEW k \in 1..n
      PROVE  h[1..k] = After(h[1..(k - 1)], rows[k])
  <2>1. Max(1..k) = k /\ (1..k) \ {k} = 1..(k - 1) /\ 1..k # {} /\ 1..k \in SUBSET DOMAIN rows
    BY <1>1, LastOfFirst
  <2> HIDE DEF After
  <2> QED BY <1>6, <2>1
<1> HIDE DEF Folds
<1> DEFINE fits(k, v) ==
             \/ v = NoDate /\ \A j \in 1..k : rows[j].invoice # i
             \/ \E m \in 1..k :
                  /\ rows[m].invoice = i /\ rows[m].day = v
                  /\ \A j \in 1..k : rows[j].invoice = i => rows[j].day <= v
           N == {k \in Nat : k <= n => fits(k, h[1..k])}
<1>9. 0 \in N
  <2>1. 1..0 = {}
    OBVIOUS
  <2> QED BY <1>7, <2>1
<1>10. ASSUME NEW k \in N
       PROVE  k + 1 \in N
  <2> SUFFICES ASSUME k + 1 <= n PROVE fits(k + 1, h[1..(k + 1)])
    OBVIOUS
  <2>1. PICK v, w : v = h[1..k] /\ w = h[1..(k + 1)]
    OBVIOUS
  <2>2. fits(k, v)
    BY <1>10, <2>1
  <2>3. k + 1 \in 1..n /\ (k + 1) - 1 = k
    OBVIOUS
  <2>4. PICK p : p = rows[k + 1]
    OBVIOUS
  <2>5. w = After(v, p) /\ p.day \in Int
    BY <1>2, <1>8, <2>1, <2>3, <2>4
  <2>6. \A j \in 1..(k + 1) : j \in 1..k \/ j = k + 1
    OBVIOUS
  <2>7. \A j \in 1..k : j \in 1..(k + 1) /\ rows[j].day \in Int
    BY <1>2, <2>3
  <2>8. k + 1 \in 1..(k + 1)
    OBVIOUS
  <2>9. CASE p.invoice # i
    <3>1. w = v
      BY <2>5, <2>9
    <3> QED BY <2>1, <2>2, <2>4, <2>6, <2>7, <2>9, <3>1
  <2>10. CASE p.invoice = i /\ v = NoDate
    <3>1. w = p.day
      BY <2>5, <2>10
    <3>2. \A j \in 1..k : rows[j].invoice # i
      BY <2>2, <2>7, <2>10, ScoreAssumption
    <3> QED BY <2>1, <2>4, <2>5, <2>6, <2>8, <2>10, <3>1, <3>2
  <2>11. CASE p.invoice = i /\ v # NoDate
    <3>1. PICK m \in 1..k : /\ rows[m].invoice = i /\ rows[m].day = v
                            /\ \A j \in 1..k : rows[j].invoice = i => rows[j].day <= v
      BY <2>2, <2>11
    <3>2. v \in Int
      BY <2>7, <3>1
    <3>3. CASE p.day > v
      <4>1. w = p.day
        BY <2>5, <2>11, <3>3
      <4>2. \A j \in 1..(k + 1) : rows[j].invoice = i => rows[j].day <= w
        <5>1. \A j \in 1..k : rows[j].invoice = i => rows[j].day <= w
          BY <2>5, <2>7, <3>1, <3>2, <3>3, <4>1
        <5>2. p.day <= w
          BY <2>5, <4>1
        <5> QED BY <2>4, <2>6, <5>1, <5>2
      <4>3. rows[k + 1].invoice = i /\ rows[k + 1].day = w
        BY <2>4, <2>11, <4>1
      <4> QED BY <2>1, <2>8, <4>2, <4>3
    <3>4. CASE ~(p.day > v)
      <4>1. w = v
        BY <2>5, <2>11, <3>4
      <4>2. \A j \in 1..(k + 1) : rows[j].invoice = i => rows[j].day <= w
        <5>1. p.day <= w
          BY <2>5, <3>2, <3>4, <4>1
        <5> QED BY <2>4, <2>6, <3>1, <4>1, <5>1
      <4>3. m \in 1..(k + 1) /\ rows[m].day = w
        BY <2>7, <3>1, <4>1
      <4> QED BY <2>1, <3>1, <4>2, <4>3
    <3> QED BY <3>3, <3>4
  <2> QED BY <2>9, <2>10, <2>11
<1>11. fits(n, h[1..n])
  <2>1. N = Nat
    <3> HIDE DEF N
    <3>1. N \in SUBSET Nat
      BY DEF N
    <3> QED BY <1>9, <1>10, <3>1, NatSetInduction
  <2> HIDE DEF fits
  <2> QED BY <2>1
<1> QED BY <1>1, <1>3, <1>5, <1>11 DEF IsLast

(* The last day of a row is the last of the same rows in another order.    *)
LEMMA ReverseIs ==
  ASSUME NEW S, NEW rows \in Seq(S)
  PROVE  /\ Reverse(rows) \in Seq(S) /\ DOMAIN Reverse(rows) = DOMAIN rows
         /\ \A k \in DOMAIN rows : \E j \in DOMAIN rows : Reverse(rows)[j] = rows[k]
         /\ \A k \in DOMAIN rows : \E j \in DOMAIN rows : Reverse(rows)[k] = rows[j]
<1>1. PICK n \in Nat : n = Len(rows) /\ DOMAIN rows = 1..n
  OBVIOUS
<1>2. PICK r : r = Reverse(rows)
  OBVIOUS
<1>3. r = [k \in 1..n |-> rows[(n - k) + 1]]
  BY <1>1, <1>2 DEF Reverse
<1>4. \A k \in 1..n : (n - k) + 1 \in 1..n /\ (n - ((n - k) + 1)) + 1 = k
  OBVIOUS
<1>5. r \in Seq(S) /\ DOMAIN r = 1..n
  BY <1>1, <1>3, <1>4
<1>6. ASSUME NEW k \in 1..n
      PROVE  (\E j \in 1..n : r[j] = rows[k]) /\ (\E j \in 1..n : r[k] = rows[j])
  <2>1. PICK j \in 1..n : j = (n - k) + 1 /\ (n - j) + 1 = k
    BY <1>4
  <2>2. r[j] = rows[k] /\ r[k] = rows[j]
    BY <1>3, <2>1
  <2> QED BY <2>2
<1> QED BY <1>1, <1>2, <1>5, <1>6

LEMMA LastIsUnique ==
  ASSUME NEW rows \in Seq(PaymentRow), NEW i, NEW v, NEW w,
         IsLast(rows, i, v), IsLast(Reverse(rows), i, w)
  PROVE  v = w
<1>1. PICK r, D : r = Reverse(rows) /\ D = DOMAIN rows
  OBVIOUS
<1>2. /\ DOMAIN r = D /\ \A k \in D : \E j \in D : r[j] = rows[k]
      /\ \A k \in D : \E j \in D : r[k] = rows[j]
  BY <1>1, ReverseIs
<1>3. \A k \in D : rows[k].day \in Int
  <2>1. \A k \in D : rows[k] \in PaymentRow
    BY <1>1
  <2>2. \A p \in PaymentRow : p.day \in Int
    BY DEF PaymentRow
  <2> QED BY <2>1, <2>2
<1>4. /\ (\A k \in D : rows[k].invoice # i) => v = NoDate
      /\ (\E k \in D : rows[k].invoice = i) =>
           \E k \in D : /\ rows[k].invoice = i /\ rows[k].day = v
                        /\ \A j \in D : rows[j].invoice = i => rows[j].day <= v
  BY <1>1 DEF IsLast
<1>5. /\ (\A k \in D : r[k].invoice # i) => w = NoDate
      /\ (\E k \in D : r[k].invoice = i) =>
           \E k \in D : /\ r[k].invoice = i /\ r[k].day = w
                        /\ \A j \in D : r[j].invoice = i => r[j].day <= w
  <2>1. IsLast(r, i, w) /\ DOMAIN r = D
    BY <1>1, <1>2
  <2> QED BY <2>1 DEF IsLast
<1>6. (\E k \in D : rows[k].invoice = i) <=> (\E k \in D : r[k].invoice = i)
  <2>1. ASSUME NEW k \in D, rows[k].invoice = i
        PROVE  \E j \in D : r[j].invoice = i
    <3>1. PICK j \in D : r[j] = rows[k]
      BY <1>2
    <3> QED BY <2>1, <3>1
  <2>2. ASSUME NEW k \in D, r[k].invoice = i
        PROVE  \E j \in D : rows[j].invoice = i
    <3>1. PICK j \in D : r[k] = rows[j]
      BY <1>2
    <3> QED BY <2>2, <3>1
  <2> QED BY <2>1, <2>2
<1>7. CASE \A k \in D : rows[k].invoice # i
  BY <1>4, <1>5, <1>6, <1>7
<1>8. CASE \E k \in D : rows[k].invoice = i
  <2>1. PICK k \in D : /\ rows[k].invoice = i /\ rows[k].day = v
                       /\ \A j \in D : rows[j].invoice = i => rows[j].day <= v
    BY <1>4, <1>8
  <2>2. PICK m \in D : /\ r[m].invoice = i /\ r[m].day = w
                       /\ \A j \in D : r[j].invoice = i => r[j].day <= w
    BY <1>5, <1>6, <1>8
  <2>3. PICK k2 \in D : r[k2] = rows[k]
    BY <1>2
  <2>4. PICK m2 \in D : r[m] = rows[m2]
    BY <1>2
  <2>5. v <= w /\ v \in Int
    BY <1>3, <2>1, <2>2, <2>3
  <2>6. w <= v /\ w \in Int
    BY <1>3, <2>1, <2>2, <2>4
  <2> QED BY <2>5, <2>6
<1> QED BY <1>7, <1>8

-----------------------------------------------------------------------------
(* The event that first left nothing owed.                                 *)

IsFirst(rows, i, e) ==
  \/ e = NoRow /\ \A k \in DOMAIN rows : rows[k].invoice # i
  \/ \E k \in DOMAIN rows :
       /\ rows[k].invoice = i /\ rows[k] = e
       /\ \A j \in DOMAIN rows : rows[j].invoice = i => e.detected <= rows[j].detected

LEMMA EventFields ==
  ASSUME NEW e \in EventRow
  PROVE  /\ e.invoice \in Invoice /\ e.detected \in Int /\ e.day \in Int
         /\ e.txn \in Int \cup {NoDate} /\ e # NoRow
BY BooksAssumption DEF EventRow

LEMMA FirstZeroIs ==
  ASSUME NEW rows \in Seq(EventRow), NEW i
  PROVE  IsFirst(rows, i, FirstZero(rows, i))
<1> DEFINE After(cur, e) ==
             IF e.invoice = i /\ (cur = NoRow \/ e.detected < cur.detected) THEN e ELSE cur
           Folds(h) == h = [s \in SUBSET DOMAIN rows |->
             IF s = {} THEN NoRow ELSE After(h[s \ {Max(s)}], rows[Max(s)])]
           V == EventRow \cup {NoRow}
<1>1. PICK n \in Nat : n = Len(rows) /\ DOMAIN rows = 1..n
  OBVIOUS
<1>2. \A k \in 1..n : rows[k] \in EventRow
  BY <1>1
<1>3. FirstZero(rows, i) = (CHOOSE h : Folds(h))[1..n]
  BY <1>1 DEF FirstZero, FoldLeft, MapThenFoldSet
<1>4. \E h : Folds(h)
  <2> DEFINE step == [k \in 1..n |-> [v \in V |-> After(v, rows[k])]]
  <2>1. step \in [1..n -> [V -> V]]
    <3>1. ASSUME NEW k \in 1..n, NEW v \in V
          PROVE  After(v, rows[k]) \in V
      BY <1>2
    <3> HIDE DEF After, V
    <3> QED BY <3>1
  <2>2. NoRow \in V
    OBVIOUS
  <2>3. \A k \in 1..n, v \in V : step[k][v] = After(v, rows[k])
    OBVIOUS
  <2> HIDE DEF step, After, V
  <2>4. PICK g \in [SUBSET (1..n) -> V] : \A s \in SUBSET (1..n) :
           g[s] = IF s = {} THEN NoRow ELSE step[LastIn(s)][g[s \ {LastIn(s)}]]
    <3>1. FoldsUpTo(n, V, NoRow, step)
      BY <2>1, <2>2, SequenceFoldExists
    <3> QED BY <3>1 DEF FoldsUpTo
  <2>5. ASSUME NEW s \in SUBSET (1..n)
        PROVE  g[s] = IF s = {} THEN NoRow ELSE After(g[s \ {Max(s)}], rows[Max(s)])
    <3>1. CASE s = {}
      BY <2>4, <3>1
    <3>2. CASE s # {}
      <4>1. PICK m : m = Max(s)
        OBVIOUS
      <4>2. m \in 1..n /\ LastIn(s) = m /\ s \ {m} \in SUBSET (1..n)
        BY <3>2, <4>1, LastPosition DEF LastIn
      <4>3. g[s \ {m}] \in V
        BY <2>4, <4>2
      <4>4. g[s] = step[m][g[s \ {m}]]
        BY <2>4, <3>2, <4>2
      <4> QED BY <2>3, <3>2, <4>1, <4>2, <4>3, <4>4
    <3> QED BY <3>1, <3>2
  <2>6. g = [s \in SUBSET DOMAIN rows |->
              IF s = {} THEN NoRow ELSE After(g[s \ {Max(s)}], rows[Max(s)])]
    BY <1>1, <2>4, <2>5
  <2> QED BY <2>6
<1>5. PICK h : h = CHOOSE g : Folds(g)
  OBVIOUS
<1>6. Folds(h)
  <2> HIDE DEF Folds
  <2> QED BY <1>4, <1>5
<1>7. h[{}] = NoRow
  BY <1>6
<1>8. ASSUME NEW k \in 1..n
      PROVE  h[1..k] = After(h[1..(k - 1)], rows[k])
  <2>1. Max(1..k) = k /\ (1..k) \ {k} = 1..(k - 1) /\ 1..k # {} /\ 1..k \in SUBSET DOMAIN rows
    BY <1>1, LastOfFirst
  <2> HIDE DEF After
  <2> QED BY <1>6, <2>1
<1> HIDE DEF Folds
<1> DEFINE fits(k, v) ==
             \/ v = NoRow /\ \A j \in 1..k : rows[j].invoice # i
             \/ \E m \in 1..k :
                  /\ rows[m].invoice = i /\ rows[m] = v
                  /\ \A j \in 1..k : rows[j].invoice = i => v.detected <= rows[j].detected
           N == {k \in Nat : k <= n => fits(k, h[1..k])}
<1>9. 0 \in N
  <2>1. 1..0 = {}
    OBVIOUS
  <2> QED BY <1>7, <2>1
<1>10. ASSUME NEW k \in N
       PROVE  k + 1 \in N
  <2> SUFFICES ASSUME k + 1 <= n PROVE fits(k + 1, h[1..(k + 1)])
    OBVIOUS
  <2>1. PICK v, w, p : v = h[1..k] /\ w = h[1..(k + 1)] /\ p = rows[k + 1]
    OBVIOUS
  <2>2. fits(k, v)
    BY <1>10, <2>1
  <2>3. k + 1 \in 1..n /\ (k + 1) - 1 = k /\ k + 1 \in 1..(k + 1)
    OBVIOUS
  <2>4. w = After(v, p) /\ p \in EventRow
    BY <1>2, <1>8, <2>1, <2>3
  <2>5. \A j \in 1..(k + 1) : j \in 1..k \/ j = k + 1
    OBVIOUS
  <2>6. \A j \in 1..k : j \in 1..(k + 1) /\ rows[j] \in EventRow
    BY <1>2, <2>3
  <2>7. \A e \in EventRow : e.detected \in Int /\ e # NoRow
    BY EventFields
  <2>8. CASE p.invoice # i
    <3>1. w = v
      BY <2>4, <2>8
    <3> QED BY <2>1, <2>2, <2>5, <2>6, <2>8, <3>1
  <2>9. CASE p.invoice = i /\ v = NoRow
    <3>1. w = p /\ p.detected <= p.detected
      BY <2>4, <2>7, <2>9
    <3>2. \A j \in 1..k : rows[j].invoice # i
      BY <2>2, <2>6, <2>7, <2>9
    <3> QED BY <2>1, <2>3, <2>5, <2>9, <3>1, <3>2
  <2>10. CASE p.invoice = i /\ v # NoRow
    <3>1. PICK m \in 1..k :
            /\ rows[m].invoice = i /\ rows[m] = v
            /\ \A j \in 1..k : rows[j].invoice = i => v.detected <= rows[j].detected
      BY <2>2, <2>10
    <3>2. v.detected \in Int /\ p.detected \in Int
      BY <2>4, <2>6, <2>7, <3>1
    <3>3. CASE p.detected < v.detected
      <4>1. w = p
        BY <2>4, <2>10, <3>3
      <4>2. \A j \in 1..k : rows[j].invoice = i => w.detected <= rows[j].detected
        <5> SUFFICES ASSUME NEW j \in 1..k, rows[j].invoice = i
                     PROVE  p.detected <= rows[j].detected
          BY <4>1
        <5>1. PICK x : x = rows[j].detected
          OBVIOUS
        <5>2. x \in Int /\ v.detected <= x
          BY <2>6, <2>7, <3>1, <5>1
        <5> QED BY <3>2, <3>3, <5>1, <5>2
      <4>3. w.detected <= p.detected
        BY <3>2, <4>1
      <4>4. \A j \in 1..(k + 1) : rows[j].invoice = i => w.detected <= rows[j].detected
        BY <2>1, <2>5, <4>2, <4>3
      <4> QED BY <2>1, <2>3, <2>10, <4>1, <4>4
    <3>4. CASE ~(p.detected < v.detected)
      <4>1. w = v
        BY <2>4, <2>10, <3>4
      <4>2. v.detected <= p.detected
        BY <3>2, <3>4
      <4>3. \A j \in 1..(k + 1) : rows[j].invoice = i => w.detected <= rows[j].detected
        BY <2>1, <2>5, <3>1, <4>1, <4>2
      <4>4. m \in 1..(k + 1)
        BY <2>6
      <4> QED BY <2>1, <3>1, <4>1, <4>3, <4>4
    <3> QED BY <3>3, <3>4
  <2> QED BY <2>8, <2>9, <2>10
<1>11. fits(n, h[1..n])
  <2>1. N = Nat
    <3> HIDE DEF N
    <3>1. N \in SUBSET Nat
      BY DEF N
    <3> QED BY <1>9, <1>10, <3>1, NatSetInduction
  <2> HIDE DEF fits
  <2> QED BY <2>1
<1> QED BY <1>1, <1>3, <1>5, <1>11 DEF IsFirst

LEMMA FirstIsUnique ==
  ASSUME NEW rows, FoundApart(rows), NEW i, NEW e, NEW f,
         IsFirst(rows, i, e), IsFirst(Reverse(rows), i, f)
  PROVE  e = f
<1>1. PICK r, D : r = Reverse(rows) /\ D = DOMAIN rows
  OBVIOUS
<1>2. rows \in Seq(EventRow)
  BY DEF FoundApart
<1>3. /\ DOMAIN r = D /\ \A k \in D : \E j \in D : r[j] = rows[k]
      /\ \A k \in D : \E j \in D : r[k] = rows[j]
  BY <1>1, <1>2, ReverseIs
<1>4. \A k \in D : rows[k].detected \in Int
  BY <1>1, <1>2, EventFields
<1>5. /\ (\A k \in D : rows[k].invoice # i) => e = NoRow
      /\ (\E k \in D : rows[k].invoice = i) =>
           \E k \in D : /\ rows[k].invoice = i /\ rows[k] = e
                        /\ \A j \in D : rows[j].invoice = i => e.detected <= rows[j].detected
  BY <1>1 DEF IsFirst
<1>6. /\ (\A k \in D : r[k].invoice # i) => f = NoRow
      /\ (\E k \in D : r[k].invoice = i) =>
           \E k \in D : /\ r[k].invoice = i /\ r[k] = f
                        /\ \A j \in D : r[j].invoice = i => f.detected <= r[j].detected
  <2>1. IsFirst(r, i, f) /\ DOMAIN r = D
    BY <1>1, <1>3
  <2> QED BY <2>1 DEF IsFirst
<1>7. (\E k \in D : rows[k].invoice = i) <=> (\E k \in D : r[k].invoice = i)
  <2>1. ASSUME NEW k \in D, rows[k].invoice = i
        PROVE  \E j \in D : r[j].invoice = i
    <3>1. PICK j \in D : r[j] = rows[k]
      BY <1>3
    <3> QED BY <2>1, <3>1
  <2>2. ASSUME NEW k \in D, r[k].invoice = i
        PROVE  \E j \in D : rows[j].invoice = i
    <3>1. PICK j \in D : r[k] = rows[j]
      BY <1>3
    <3> QED BY <2>2, <3>1
  <2> QED BY <2>1, <2>2
<1>8. CASE \A k \in D : rows[k].invoice # i
  BY <1>5, <1>6, <1>7, <1>8
<1>9. CASE \E k \in D : rows[k].invoice = i
  <2>1. PICK k \in D : /\ rows[k].invoice = i /\ rows[k] = e
                       /\ \A j \in D : rows[j].invoice = i => e.detected <= rows[j].detected
    BY <1>5, <1>9
  <2>2. PICK m \in D : /\ r[m].invoice = i /\ r[m] = f
                       /\ \A j \in D : r[j].invoice = i => f.detected <= r[j].detected
    BY <1>6, <1>7, <1>9
  <2>3. PICK k2 \in D : r[k2] = rows[k]
    BY <1>3
  <2>4. PICK m2 \in D : r[m] = rows[m2]
    BY <1>3
  <2>5. PICK x, y : x = e.detected /\ y = f.detected
    OBVIOUS
  <2>6. x \in Int /\ y \in Int /\ x <= y /\ y <= x
    BY <1>4, <2>1, <2>2, <2>3, <2>4, <2>5
  <2>7. x = y
    BY <2>6
  <2>8. rows[m2].invoice = rows[k].invoice /\ rows[m2].detected = rows[k].detected
    BY <2>1, <2>2, <2>4, <2>5, <2>7
  <2>9. m2 = k
    BY <1>1, <2>8 DEF FoundApart
  <2> QED BY <2>1, <2>2, <2>4, <2>9
<1> QED BY <1>8, <1>9

(* The day an invoice was paid, from its last payment and first event.     *)
PaidDay(pay, zero) ==
  CASE pay # NoDate -> pay
    [] pay = NoDate /\ zero = NoRow -> NoDate
    [] OTHER -> IF zero.txn # NoDate THEN zero.txn ELSE zero.day

LEMMA PaidDayIs ==
  ASSUME NEW pays, NEW evs, NEW i \in Invoice
  PROVE  resolvePaidTimings(pays, evs)[i] = PaidDay(LastPayment(pays, i), FirstZero(evs, i))
BY DEF resolvePaidTimings, PaidDay

(* The days are dates or unknown.                                          *)
LEMMA LastIsDay ==
  ASSUME NEW rows \in Seq(PaymentRow), NEW i, NEW v, IsLast(rows, i, v)
  PROVE  v \in Int \cup {NoDate}
<1>1. \A k \in DOMAIN rows : rows[k] \in PaymentRow
  OBVIOUS
<1>2. \A p \in PaymentRow : p.day \in Int
  BY DEF PaymentRow
<1>3. CASE v = NoDate
  BY <1>3
<1>4. CASE v # NoDate
  <2>1. PICK k \in DOMAIN rows : rows[k].day = v
    BY <1>4 DEF IsLast
  <2> QED BY <1>1, <1>2, <2>1
<1> QED BY <1>3, <1>4

LEMMA FirstIsEvent ==
  ASSUME NEW rows \in Seq(EventRow), NEW i, NEW e, IsFirst(rows, i, e)
  PROVE  e \in EventRow \cup {NoRow}
<1>1. \A k \in DOMAIN rows : rows[k] \in EventRow
  OBVIOUS
<1>2. CASE e = NoRow
  BY <1>2
<1>3. CASE e # NoRow
  <2>1. PICK k \in DOMAIN rows : rows[k] = e
    BY <1>3 DEF IsFirst
  <2> QED BY <1>1, <2>1
<1> QED BY <1>2, <1>3

LEMMA TimingsAreDays ==
  ASSUME NEW pays \in Seq(PaymentRow), NEW evs \in Seq(EventRow)
  PROVE  resolvePaidTimings(pays, evs) \in PaidOn
<1>1. ASSUME NEW i \in Invoice
      PROVE  resolvePaidTimings(pays, evs)[i] \in Int \cup {NoDate}
  <2>1. PICK pay, zero : pay = LastPayment(pays, i) /\ zero = FirstZero(evs, i)
    OBVIOUS
  <2>2. pay \in Int \cup {NoDate}
    BY <2>1, LastPaymentIs, LastIsDay
  <2>3. zero \in EventRow \cup {NoRow}
    BY <2>1, FirstZeroIs, FirstIsEvent
  <2>4. zero # NoRow => zero.txn \in Int \cup {NoDate} /\ zero.day \in Int
    BY <2>3, EventFields
  <2>5. PaidDay(pay, zero) \in Int \cup {NoDate}
    BY <2>2, <2>4 DEF PaidDay
  <2> QED BY <2>1, <2>5, PaidDayIs
<1>2. resolvePaidTimings(pays, evs) = [i \in Invoice |-> resolvePaidTimings(pays, evs)[i]]
  BY DEF resolvePaidTimings
<1> QED BY <1>1, <1>2 DEF PaidOn

(* What TimingsIgnoreOrder says of one invoice.                            *)
Agrees(pays, evs, i, days, zeros, first, paid) ==
  /\ paid = resolvePaidTimings(Reverse(pays), Reverse(evs))[i]
  /\ days # {} => paid = Max(days)
  /\ days = {} /\ zeros # {} => paid \in {first.txn, first.day} \ {NoDate}
  /\ days = {} /\ zeros = {} => paid = NoDate

Timely(pays, evs, i) ==
  LET days == {pays[k].day : k \in {k \in DOMAIN pays : pays[k].invoice = i}}
      zeros == {k \in DOMAIN evs : evs[k].invoice = i}
      first == evs[CHOOSE k \in zeros : \A j \in zeros :
                     evs[k].detected <= evs[j].detected]
      paid == resolvePaidTimings(pays, evs)[i]
  IN Agrees(pays, evs, i, days, zeros, first, paid)

LEMMA TimingsOfOne ==
  ASSUME NEW pays \in Seq(PaymentRow), NEW evs, FoundApart(evs), NEW i \in Invoice,
         NEW days, days = {pays[k].day : k \in {k \in DOMAIN pays : pays[k].invoice = i}},
         NEW zeros, zeros = {k \in DOMAIN evs : evs[k].invoice = i},
         NEW first, first = evs[CHOOSE k \in zeros : \A j \in zeros :
                                  evs[k].detected <= evs[j].detected],
         NEW paid, paid = resolvePaidTimings(pays, evs)[i]
  PROVE  Agrees(pays, evs, i, days, zeros, first, paid)
<1>1. evs \in Seq(EventRow)
  BY DEF FoundApart
<1>2. PICK pay, zero : pay = LastPayment(pays, i) /\ zero = FirstZero(evs, i)
  OBVIOUS
<1>3. IsLast(pays, i, pay) /\ IsFirst(evs, i, zero) /\ paid = PaidDay(pay, zero)
  BY <1>1, <1>2, LastPaymentIs, FirstZeroIs, PaidDayIs
<1>4. paid = resolvePaidTimings(Reverse(pays), Reverse(evs))[i]
  <2>1. PICK rp, re : rp = Reverse(pays) /\ re = Reverse(evs)
    OBVIOUS
  <2>2. rp \in Seq(PaymentRow) /\ re \in Seq(EventRow)
    BY <1>1, <2>1, ReverseIs
  <2>3. PICK pay2, zero2 : pay2 = LastPayment(rp, i) /\ zero2 = FirstZero(re, i)
    OBVIOUS
  <2>4. IsLast(rp, i, pay2) /\ IsFirst(re, i, zero2)
    BY <2>2, <2>3, LastPaymentIs, FirstZeroIs
  <2>5. pay2 = pay /\ zero2 = zero
    BY <1>3, <2>1, <2>4, LastIsUnique, FirstIsUnique
  <2>6. resolvePaidTimings(rp, re)[i] = PaidDay(pay2, zero2)
    BY <2>3, PaidDayIs
  <2> QED BY <1>3, <2>1, <2>5, <2>6
<1>5. \A k \in DOMAIN pays : pays[k].day \in Int
  <2>1. \A k \in DOMAIN pays : pays[k] \in PaymentRow
    OBVIOUS
  <2>2. \A p \in PaymentRow : p.day \in Int
    BY DEF PaymentRow
  <2> QED BY <2>1, <2>2
<1>6. CASE days # {}
  <2>1. PICK k \in DOMAIN pays : pays[k].invoice = i
    BY <1>6
  <2>2. PICK m \in DOMAIN pays :
          /\ pays[m].invoice = i /\ pays[m].day = pay
          /\ \A j \in DOMAIN pays : pays[j].invoice = i => pays[j].day <= pay
    BY <1>3, <2>1 DEF IsLast
  <2>3. pay \in Int /\ pay # NoDate
    BY <1>5, <2>2, ScoreAssumption
  <2>4. days \in SUBSET Int /\ pay \in days /\ \A d \in days : d <= pay
    BY <1>5, <2>2
  <2>5. Max(days) = pay
    BY <2>4, MaxIs
  <2>6. paid = pay
    BY <1>3, <2>3 DEF PaidDay
  <2> QED BY <1>4, <1>6, <2>5, <2>6 DEF Agrees
<1>7. CASE days = {}
  <2>1. \A k \in DOMAIN pays : pays[k].invoice # i
    BY <1>7
  <2>2. pay = NoDate
    BY <1>3, <2>1 DEF IsLast
  <2>3. CASE zeros = {}
    <3>1. \A k \in DOMAIN evs : evs[k].invoice # i
      BY <2>3
    <3>2. zero = NoRow
      BY <1>3, <3>1 DEF IsFirst
    <3>3. paid = NoDate
      BY <1>3, <2>2, <3>2 DEF PaidDay
    <3> QED BY <1>4, <1>7, <2>3, <3>3 DEF Agrees
  <2>4. CASE zeros # {}
    <3>1. PICK z \in DOMAIN evs : evs[z].invoice = i
      BY <2>4
    <3>2. PICK m \in DOMAIN evs :
            /\ evs[m].invoice = i /\ evs[m] = zero
            /\ \A j \in DOMAIN evs : evs[j].invoice = i => zero.detected <= evs[j].detected
      BY <1>3, <3>1 DEF IsFirst
    <3>3. \A j \in DOMAIN evs : evs[j] \in EventRow /\ evs[j].detected \in Int
      BY <1>1, EventFields
    <3>4. PICK n : n = CHOOSE k \in zeros : \A j \in zeros :
                         evs[k].detected <= evs[j].detected
      OBVIOUS
    <3>5. n \in zeros /\ \A j \in zeros : evs[n].detected <= evs[j].detected
      <4>1. m \in zeros /\ \A j \in zeros : evs[m].detected <= evs[j].detected
        BY <3>2
      <4> QED BY <3>4, <4>1
    <3>6. evs[n].detected = evs[m].detected
      <4>1. PICK x, y : x = evs[n].detected /\ y = evs[m].detected
        OBVIOUS
      <4>2. x \in Int /\ y \in Int /\ x <= y /\ y <= x
        BY <3>2, <3>3, <3>5, <4>1
      <4> QED BY <4>1, <4>2
    <3>7. n = m
      BY <3>2, <3>5, <3>6 DEF FoundApart
    <3>8. first = zero /\ zero \in EventRow
      BY <3>2, <3>3, <3>4, <3>7
    <3>9. zero # NoRow /\ zero.day \in Int /\ zero.day # NoDate
      BY <3>8, EventFields, ScoreAssumption
    <3>10. paid = IF zero.txn # NoDate THEN zero.txn ELSE zero.day
      BY <1>3, <2>2, <3>9 DEF PaidDay
    <3> QED BY <1>4, <1>7, <2>4, <3>8, <3>9, <3>10 DEF Agrees
  <2> QED BY <2>3, <2>4
<1> QED BY <1>6, <1>7

-----------------------------------------------------------------------------
(* The invariant.                                                          *)

(* Types.                                                                  *)
ScoreRow == [score : 0..100, date : Day, seen : Nat, version : {"v1.0", Version}]

RequestState ==
  [at : {"idle", "opened", "loading", "loaded", "scored", "written", "rendered"},
   mode : {"page", "write", "dry_run"}, asOf : Day,
   shown : ScoreRow \cup {NoRow}, rows : [Invoice -> InvoiceRow] \cup {NoRow},
   seen : Nat, score : (0..100) \cup {NoRow}]

BooksTypeOK ==
  /\ invoices \in [Invoice -> InvoiceRow]
  /\ payments \in Seq(PaymentRow) /\ FoundApart(balanceEvents)

ScoreTypeOK ==
  /\ BooksTypeOK
  /\ scores \in [{Month(d) : d \in Day} -> ScoreRow \cup {NoRow}]
  /\ request \in [Request -> RequestState]
  /\ day \in Day /\ changes \in Nat /\ opening \in [Day -> Nat]

(* A request that has read the invoices holds them, one that has a score   *)
(* holds a percentage.                                                     *)
Prepared(q) ==
  /\ q.at = "loaded" => q.rows \in [Invoice -> InvoiceRow]
  /\ q.at = "scored" => q.score \in 0..100

(* The day of a request has begun, and the invoices it read are no older.  *)
Knows(q) ==
  /\ q.asOf <= day
  /\ q.at \in {"loaded", "scored"} => opening[q.asOf] <= q.seen

RowKnows(row) == row # NoRow => row.date <= day /\ opening[row.date] <= row.seen

ScoreInv ==
  /\ ScoreTypeOK
  /\ \A d \in Day : opening[d] <= changes
  /\ \A r \in Request : Prepared(request[r]) /\ Knows(request[r])
  /\ \A m \in DOMAIN scores : RowKnows(scores[m])

LEMMA IdleIs ==
  ASSUME NEW q, q = IdleRequest
  PROVE  q \in RequestState /\ Prepared(q) /\ q.asOf = FirstDay /\ q.at = "idle"
<1>1. FirstDay \in Day
  BY ScoreAssumption DEF Day
<1> QED BY <1>1 DEF IdleRequest, RequestState, Prepared

LEMMA InitInv == ScoreInit => ScoreInv
<1> SUFFICES ASSUME ScoreInit PROVE ScoreInv
  OBVIOUS
<1>1. BooksTypeOK
  <2>1. PICK b \in Books : invoices = b.invoices /\ payments = b.payments
                             /\ balanceEvents = b.balanceEvents
    BY DEF ScoreInit
  <2> QED BY <2>1, BooksAssumption DEF BooksTypeOK
<1>2. FirstDay \in Day /\ FirstDay \in Nat
  BY ScoreAssumption DEF Day
<1>3. day = FirstDay /\ changes = 0 /\ opening = [d \in Day |-> 0]
  BY DEF ScoreInit
<1>4. day \in Day /\ changes \in Nat /\ opening \in [Day -> Nat]
      /\ \A d \in Day : opening[d] = 0
  BY <1>2, <1>3
<1>5. request \in [Request -> RequestState]
      /\ \A r \in Request : Prepared(request[r]) /\ Knows(request[r])
  <2>1. PICK idle : idle = IdleRequest
    OBVIOUS
  <2>2. idle \in RequestState /\ Prepared(idle) /\ idle.asOf = FirstDay /\ idle.at = "idle"
    BY <2>1, IdleIs
  <2>3. Knows(idle)
    BY <1>2, <1>3, <2>2 DEF Knows
  <2>4. request = [r \in Request |-> idle]
    BY <2>1 DEF ScoreInit
  <2> QED BY <2>2, <2>3, <2>4
<1>6. /\ scores \in [{Month(d) : d \in Day} -> ScoreRow \cup {NoRow}]
      /\ \A m \in DOMAIN scores : RowKnows(scores[m])
  <2>1. PICK M : M = {Month(d) : d \in Day}
    OBVIOUS
  <2>2. PICK old : old = [Row(PRIOR, FirstDay, 0) EXCEPT !.version = "v1.0"]
    OBVIOUS
  <2>3. old \in ScoreRow /\ old.date = FirstDay /\ old.seen = 0
    BY <1>2, <2>2 DEF Row, PRIOR, ScoreRow
  <2>4. RowKnows(old) /\ RowKnows(NoRow)
    BY <1>2, <1>3, <2>3 DEF RowKnows
  <2>5. \/ scores = [m \in M |-> NoRow]
        \/ scores = [m \in M |-> IF m = Month(FirstDay) THEN old ELSE NoRow]
    BY <2>1, <2>2 DEF ScoreInit
  <2>6. scores \in [M -> ScoreRow \cup {NoRow}] /\ \A m \in M : scores[m] \in {old, NoRow}
    BY <2>3, <2>5
  <2> QED BY <2>1, <2>4, <2>6
<1>7. \A d \in Day : opening[d] <= changes
  BY <1>3, <1>4
<1> QED BY <1>1, <1>4, <1>5, <1>6, <1>7 DEF ScoreInv, ScoreTypeOK

(* A step of one request that leaves the rest alone.                       *)
LEMMA RequestSteps ==
  ASSUME ScoreInv, NEW r \in Request, NEW q \in RequestState, Prepared(q), Knows(q),
         request' = [request EXCEPT ![r] = q],
         UNCHANGED <<bookVars, scores, day, changes, opening>>
  PROVE  ScoreInv'
<1>1. /\ request' \in [Request -> RequestState]
      /\ \A s \in Request : request'[s] = IF s = r THEN q ELSE request[s]
  BY DEF ScoreInv, ScoreTypeOK
<1>2. BooksTypeOK'
  BY DEF ScoreInv, ScoreTypeOK, BooksTypeOK, bookVars
<1>3. day' = day /\ opening' = opening /\ scores' = scores /\ changes' = changes
  OBVIOUS
<1>4. ASSUME NEW s \in Request
      PROVE  Prepared(request[s])' /\ Knows(request[s])'
  <2>1. PICK p : p = request'[s]
    OBVIOUS
  <2>2. Prepared(p) /\ Knows(p)
    BY <1>1, <2>1 DEF ScoreInv
  <2>3. p.asOf <= day' /\ (p.at \in {"loaded", "scored"} => opening'[p.asOf] <= p.seen)
    BY <1>3, <2>2 DEF Knows
  <2> QED BY <2>1, <2>2, <2>3 DEF Knows, Prepared
<1>5. \A m \in DOMAIN scores' : RowKnows(scores[m])'
  BY <1>3 DEF ScoreInv, RowKnows
<1>6. \A d \in Day : opening'[d] <= changes'
  BY <1>3 DEF ScoreInv
<1>7. /\ scores' \in [{Month(d) : d \in Day} -> ScoreRow \cup {NoRow}]
      /\ day' \in Day /\ changes' \in Nat /\ opening' \in [Day -> Nat]
  BY <1>3 DEF ScoreInv, ScoreTypeOK
<1>8. ScoreTypeOK'
  BY <1>1, <1>2, <1>7 DEF ScoreTypeOK
<1> QED BY <1>4, <1>5, <1>6, <1>8 DEF ScoreInv

(* The row that is read is a row or none.                                  *)
LEMMA RowsRead ==
  ASSUME ScoreInv, NEW row \in ReadsRow
  PROVE  row \in ScoreRow \cup {NoRow}
<1>1. PICK M : M = {Month(d) : d \in Day}
  OBVIOUS
<1>2. scores \in [M -> ScoreRow \cup {NoRow}]
  BY <1>1 DEF ScoreInv, ScoreTypeOK
<1>3. IsFiniteSet(M)
  <2>1. IsFiniteSet(Day)
    BY ScoreAssumption, FS_Interval DEF Day
  <2>2. PICK f : f = [d \in Day |-> Month(d)]
    OBVIOUS
  <2>3. {f[d] : d \in Day} = M
    BY <1>1, <2>2
  <2>4. f \in Surjection(Day, M)
    BY <2>2, <2>3 DEF Surjection
  <2> QED BY <2>1, <2>4, FS_Surjection
<1>4. PICK K : K = {m \in M : scores[m] # NoRow}
  OBVIOUS
<1>5. PICK f : f = [m \in K |-> scores[m].date]
  OBVIOUS
<1>6. \A m \in K : scores[m] \in ScoreRow /\ f[m] = scores[m].date /\ f[m] \in Int
  <2>1. \A m \in K : scores[m] \in ScoreRow /\ f[m] = scores[m].date
    BY <1>2, <1>4, <1>5
  <2>2. \A s \in ScoreRow : s.date \in Int
    BY ScoreAssumption DEF ScoreRow, Day
  <2> QED BY <2>1, <2>2
<1>7. LatestRow \in ScoreRow \cup {NoRow}
  <2> DEFINE stored == {scores[m] : m \in DOMAIN scores} \ {NoRow}
  <2>1. stored = {scores[m] : m \in K}
    BY <1>2, <1>4
  <2>2. LatestRow = IF stored = {} THEN NoRow
                    ELSE CHOOSE s \in stored : \A other \in stored : other.date <= s.date
    BY DEF LatestRow
  <2> HIDE DEF stored
  <2>3. CASE stored = {}
    BY <2>2, <2>3
  <2>4. CASE stored # {}
    <3>1. PICK z \in K : TRUE
      BY <2>1, <2>4
    <3>2. IsFiniteSet(K)
      BY <1>3, <1>4, FS_Subset
    <3>3. HasGreatest(Values(f[z], f, K))
      BY <1>6, <3>1, <3>2, SomeGreatest
    <3>4. PICK m \in K : \A k \in K : f[k] <= f[m]
      <4>1. PICK v \in Values(f[z], f, K) : \A y \in Values(f[z], f, K) : y <= v
        BY <3>3 DEF HasGreatest
      <4>2. PICK m \in K : v = f[m]
        BY <3>1, <4>1 DEF Values
      <4>3. \A k \in K : f[k] \in Values(f[z], f, K)
        BY DEF Values
      <4> QED BY <4>1, <4>2, <4>3
    <3>5. scores[m] \in stored /\ \A other \in stored : other.date <= scores[m].date
      BY <1>6, <2>1, <3>4
    <3>6. LatestRow \in stored
      BY <2>2, <2>4, <3>5
    <3> QED BY <1>6, <2>1, <3>6
  <2> QED BY <2>3, <2>4
<1> QED BY <1>7 DEF ReadsRow

(* What a request knows, in a state of the invariant.                      *)
LEMMA RequestIs ==
  ASSUME ScoreInv, NEW r \in Request, NEW q, q = request[r]
  PROVE  /\ q \in RequestState /\ Prepared(q) /\ Knows(q)
         /\ q.asOf \in Day /\ q.shown \in ScoreRow \cup {NoRow} /\ q.seen \in Nat
         /\ day \in Day /\ changes \in Nat /\ day \in Nat /\ FirstDay \in Day
         /\ FirstDay <= day
         /\ opening \in [Day -> Nat] /\ \A d \in Day : opening[d] <= changes
<1>1. q \in RequestState /\ Prepared(q) /\ Knows(q)
  BY DEF ScoreInv, ScoreTypeOK
<1>2. q.asOf \in Day /\ q.shown \in ScoreRow \cup {NoRow} /\ q.seen \in Nat
  BY <1>1 DEF RequestState
<1>3. /\ day \in Day /\ changes \in Nat /\ opening \in [Day -> Nat]
      /\ \A d \in Day : opening[d] <= changes
  BY DEF ScoreInv, ScoreTypeOK
<1>4. day \in Nat /\ FirstDay \in Day /\ FirstDay <= day
  BY <1>3, ScoreAssumption DEF Day
<1> QED BY <1>1, <1>2, <1>3, <1>4

(* A request may end at any time.                                          *)
LEMMA EndsInv ==
  ASSUME ScoreInv, NEW r \in Request, Ends(r),
         UNCHANGED <<bookVars, scores, day, changes, opening>>
  PROVE  ScoreInv'
<1>1. PICK idle : idle = IdleRequest
  OBVIOUS
<1>2. idle \in RequestState /\ Prepared(idle) /\ idle.asOf = FirstDay /\ idle.at = "idle"
  BY <1>1, IdleIs
<1>3. Knows(idle)
  <2>1. FirstDay <= day
    BY RequestIs
  <2> QED BY <1>2, <2>1 DEF Knows
<1>4. request' = [request EXCEPT ![r] = idle]
  BY <1>1 DEF Ends
<1> QED BY <1>2, <1>3, <1>4, RequestSteps

(* A page that renders holds what it shows and nothing else.               *)
LEMMA RenderedIs ==
  ASSUME ScoreInv, NEW row \in ScoreRow \cup {NoRow}, NEW r \in Request, NEW q,
         q = [IdleRequest EXCEPT !.at = "rendered", !.shown = row]
  PROVE  q \in RequestState /\ Prepared(q) /\ Knows(q)
<1>1. PICK idle : idle = IdleRequest
  OBVIOUS
<1>2. idle \in RequestState /\ idle.asOf = FirstDay
  BY <1>1, IdleIs
<1>3. q = [idle EXCEPT !.at = "rendered", !.shown = row]
  BY <1>1
<1>4. q \in RequestState /\ q.at = "rendered" /\ q.asOf = FirstDay
  BY <1>2, <1>3 DEF RequestState
<1>5. FirstDay <= day
  BY RequestIs
<1> QED BY <1>4, <1>5 DEF Prepared, Knows

LEMMA OpensPageInv ==
  ASSUME ScoreInv, NEW r \in Request, OpensPage(r)
  PROVE  ScoreInv'
<1>1. PICK q, p : q = request[r] /\ p = [q EXCEPT !.at = "opened", !.asOf = day]
  OBVIOUS
<1>2. q \in RequestState /\ day \in Day /\ day \in Nat
  BY <1>1, RequestIs
<1>3. p \in RequestState /\ p.at = "opened" /\ p.asOf = day
  <2>1. p \in RequestState
    <3>1. PICK d \in Day : d = day
      BY <1>2
    <3>2. p = [q EXCEPT !.at = "opened", !.asOf = d]
      BY <1>1, <3>1
    <3>3. q \in RequestState
      BY <1>2
    <3> QED BY <3>2, <3>3 DEF RequestState
  <2>2. p.at = "opened" /\ p.asOf = day
    BY <1>1, <1>2 DEF RequestState
  <2> QED BY <2>1, <2>2
<1>4. Prepared(p) /\ Knows(p)
  BY <1>2, <1>3 DEF Prepared, Knows
<1>5. request' = [request EXCEPT ![r] = p]
  BY <1>1 DEF OpensPage
<1>6. UNCHANGED <<bookVars, scores, day, changes, opening>>
  BY DEF OpensPage
<1> QED BY <1>3, <1>4, <1>5, <1>6, RequestSteps

LEMMA ScoresInv ==
  ASSUME ScoreInv, NEW r \in Request, NEW mode \in {"write", "dry_run"}, Scores(r, mode)
  PROVE  ScoreInv'
<1>1. PICK q, p : q = request[r]
                    /\ p = [q EXCEPT !.at = "loading", !.mode = mode, !.asOf = day]
  OBVIOUS
<1>2. q \in RequestState /\ day \in Day /\ day \in Nat
  BY <1>1, RequestIs
<1>3. p \in RequestState /\ p.at = "loading" /\ p.asOf = day
  <2>1. p \in RequestState
    <3>1. PICK d \in Day : d = day
      BY <1>2
    <3>2. p = [q EXCEPT !.at = "loading", !.mode = mode, !.asOf = d]
      BY <1>1, <3>1
    <3>3. q \in RequestState
      BY <1>2
    <3> QED BY <3>2, <3>3 DEF RequestState
  <2>2. p.at = "loading" /\ p.asOf = day
    BY <1>1, <1>2 DEF RequestState
  <2> QED BY <2>1, <2>2
<1>4. Prepared(p) /\ Knows(p)
  BY <1>2, <1>3 DEF Prepared, Knows
<1>5. request' = [request EXCEPT ![r] = p]
  BY <1>1 DEF Scores
<1>6. UNCHANGED <<bookVars, scores, day, changes, opening>>
  BY DEF Scores
<1> QED BY <1>3, <1>4, <1>5, <1>6, RequestSteps

LEMMA ReadScoresInv ==
  ASSUME ScoreInv, NEW r \in Request, ReadScores(r)
  PROVE  ScoreInv'
<1>1. PICK row \in ReadsRow, at \in {"loading", "rendered"} :
        request' = [request EXCEPT ![r].at = at, ![r].shown = row]
  BY DEF ReadScores
<1>2. PICK q, p : q = request[r] /\ p = [q EXCEPT !.at = at, !.shown = row]
  OBVIOUS
<1>3. q \in RequestState /\ Knows(q) /\ row \in ScoreRow \cup {NoRow}
  BY <1>2, RequestIs, RowsRead
<1>4. p \in RequestState /\ p.at = at /\ p.asOf = q.asOf
  <2>1. q \in RequestState /\ row \in ScoreRow \cup {NoRow}
    BY <1>3
  <2> DEFINE A == {"idle", "opened", "loading", "loaded", "scored", "written", "rendered"}
             S == ScoreRow \cup {NoRow}
             R == [Invoice -> InvoiceRow] \cup {NoRow}
             C == (0..100) \cup {NoRow}
             Q == [at : A, mode : {"page", "write", "dry_run"}, asOf : Day,
                   shown : S, rows : R, seen : Nat, score : C]
  <2>2. RequestState = Q /\ at \in A /\ row \in S /\ q \in Q
    BY <2>1 DEF RequestState
  <2> HIDE DEF A, S, R, C
  <2>3. p \in Q /\ p.at = at /\ p.asOf = q.asOf
    BY <1>2, <2>2
  <2> QED BY <2>2, <2>3
<1>5. Prepared(p) /\ Knows(p)
  BY <1>3, <1>4 DEF Prepared, Knows
<1>6. request' = [request EXCEPT ![r] = p]
  BY <1>1, <1>2
<1>7. UNCHANGED <<bookVars, scores, day, changes, opening>>
  BY DEF ReadScores
<1> QED BY <1>4, <1>5, <1>6, <1>7, RequestSteps

LEMMA ThrowsInv ==
  ASSUME ScoreInv, NEW r \in Request, Throws(r)
  PROVE  ScoreInv'
<1>1. UNCHANGED <<bookVars, scores, day, changes, opening>>
  BY DEF Throws
<1>2. CASE request[r].mode = "page"
  <2>1. PICK row, q : /\ row = request[r].shown
                      /\ q = [IdleRequest EXCEPT !.at = "rendered", !.shown = row]
    OBVIOUS
  <2>2. row \in ScoreRow \cup {NoRow}
    BY <2>1, RequestIs
  <2>3. q \in RequestState /\ Prepared(q) /\ Knows(q)
    BY <2>1, <2>2, RenderedIs
  <2>4. request' = [request EXCEPT ![r] = q]
    BY <1>2, <2>1 DEF Throws
  <2> QED BY <1>1, <2>3, <2>4, RequestSteps
<1>3. CASE request[r].mode # "page"
  <2>1. Ends(r)
    BY <1>3 DEF Throws
  <2> QED BY <1>1, <2>1, EndsInv
<1> QED BY <1>2, <1>3

LEMMA LoadScoreInputsInv ==
  ASSUME ScoreInv, NEW r \in Request, LoadScoreInputs(r)
  PROVE  ScoreInv'
<1>1. PICK q, p : /\ q = request[r]
                  /\ p = [q EXCEPT !.at = "loaded", !.rows = invoices, !.seen = changes]
  OBVIOUS
<1>2. /\ q \in RequestState /\ Knows(q) /\ q.asOf \in Day /\ changes \in Nat
      /\ \A d \in Day : opening[d] <= changes
  BY <1>1, RequestIs
<1>3. invoices \in [Invoice -> InvoiceRow]
  BY DEF ScoreInv, ScoreTypeOK, BooksTypeOK
<1>4. /\ p \in RequestState /\ p.at = "loaded" /\ p.asOf = q.asOf
      /\ p.rows = invoices /\ p.seen = changes
  <2> DEFINE read == [Invoice -> InvoiceRow]
             row == ScoreRow \cup {NoRow}
             percent == (0..100) \cup {NoRow}
  <2>1. RequestState =
          [at : {"idle", "opened", "loading", "loaded", "scored", "written", "rendered"},
           mode : {"page", "write", "dry_run"}, asOf : Day,
           shown : row, rows : read \cup {NoRow}, seen : Nat, score : percent]
    BY DEF RequestState
  <2>2. invoices \in read
    BY <1>3
  <2> HIDE DEF read, row, percent
  <2> QED BY <1>1, <1>2, <2>1, <2>2
<1>5. Prepared(p) /\ Knows(p)
  BY <1>2, <1>3, <1>4 DEF Prepared, Knows
<1>6. request' = [request EXCEPT ![r] = p]
  BY <1>1 DEF LoadScoreInputs
<1>7. UNCHANGED <<bookVars, scores, day, changes, opening>>
  BY DEF LoadScoreInputs
<1> QED BY <1>4, <1>5, <1>6, <1>7, RequestSteps

LEMMA LoadPaidTimingsInv ==
  ASSUME ScoreInv, NEW r \in Request, LoadPaidTimings(r)
  PROVE  ScoreInv'
<1>1. PICK q, score :
        /\ q = request[r]
        /\ score = computeClientScore(q.rows, resolvePaidTimings(payments, balanceEvents), q.asOf)
  OBVIOUS
<1>2. /\ q \in RequestState /\ Prepared(q) /\ Knows(q) /\ q.asOf \in Day /\ q.at = "loaded"
  BY <1>1, RequestIs DEF LoadPaidTimings
<1>3. score \in (0..100) \cup {NoRow}
  <2>1. PICK on : on = resolvePaidTimings(payments, balanceEvents)
    OBVIOUS
  <2>2. on \in PaidOn
    <3>1. payments \in Seq(PaymentRow) /\ balanceEvents \in Seq(EventRow)
      BY DEF ScoreInv, ScoreTypeOK, BooksTypeOK, FoundApart
    <3> QED BY <2>1, <3>1, TimingsAreDays
  <2>3. q.rows \in [Invoice -> InvoiceRow] /\ q.asOf \in Int
    BY <1>2, ScoreAssumption DEF Prepared, Day
  <2> QED BY <1>1, <2>1, <2>2, <2>3, ScoreRange
<1>4. UNCHANGED <<bookVars, scores, day, changes, opening>>
  BY DEF LoadPaidTimings
<1>5. CASE score = NoRow \/ q.mode = "dry_run"
  <2>1. Ends(r)
    BY <1>1, <1>5 DEF LoadPaidTimings
  <2> QED BY <1>4, <2>1, EndsInv
<1>6. CASE ~(score = NoRow \/ q.mode = "dry_run")
  <2>1. PICK p : p = [q EXCEPT !.at = "scored", !.rows = NoRow, !.score = score]
    OBVIOUS
  <2>2. request' = [request EXCEPT ![r].at = "scored", ![r].rows = NoRow, ![r].score = score]
    BY <1>1, <1>6 DEF LoadPaidTimings
  <2>3. request' = [request EXCEPT ![r] = p]
    BY <1>1, <2>1, <2>2
  <2>4. /\ p \in RequestState /\ p.at = "scored" /\ p.score \in 0..100
        /\ p.asOf = q.asOf /\ p.seen = q.seen
    BY <1>2, <1>3, <1>6, <2>1 DEF RequestState
  <2>5. Prepared(p) /\ Knows(p)
    BY <1>2, <2>4 DEF Prepared, Knows
  <2> QED BY <1>4, <2>3, <2>4, <2>5, RequestSteps
<1> QED BY <1>5, <1>6

LEMMA RereadScoresInv ==
  ASSUME ScoreInv, NEW r \in Request, RereadScores(r)
  PROVE  ScoreInv'
<1>1. PICK row \in ReadsRow :
        request' = [request EXCEPT ![r] =
          [IdleRequest EXCEPT !.at = "rendered", !.shown = row]]
  BY DEF RereadScores
<1>2. PICK q : q = [IdleRequest EXCEPT !.at = "rendered", !.shown = row]
  OBVIOUS
<1>3. q \in RequestState /\ Prepared(q) /\ Knows(q)
  BY <1>2, RowsRead, RenderedIs
<1>4. request' = [request EXCEPT ![r] = q]
  BY <1>1, <1>2
<1>5. UNCHANGED <<bookVars, scores, day, changes, opening>>
  BY DEF RereadScores
<1> QED BY <1>3, <1>4, <1>5, RequestSteps

(* The write: the row knows what the request knew.                         *)
LEMMA UpsertScoreInv ==
  ASSUME ScoreInv, NEW r \in Request, UpsertScore(r)
  PROVE  ScoreInv'
<1>1. PICK q, row, m : /\ q = request[r] /\ row = Row(q.score, q.asOf, q.seen)
                       /\ m = Month(q.asOf)
  OBVIOUS
<1>2. /\ q \in RequestState /\ Prepared(q) /\ Knows(q) /\ q.asOf \in Day /\ q.seen \in Nat
      /\ q.at = "scored" /\ q.score \in 0..100
  BY <1>1, RequestIs DEF UpsertScore, Prepared
<1>3. row \in ScoreRow /\ row.date = q.asOf /\ row.seen = q.seen
  BY <1>1, <1>2 DEF Row, ScoreRow
<1>4. RowKnows(row)
  BY <1>2, <1>3 DEF RowKnows, Knows
<1>5. /\ scores' = [scores EXCEPT ![m] = row]
      /\ UNCHANGED <<bookVars, day, changes, opening>>
  BY <1>1 DEF UpsertScore, ScoreDate
<1>6. PICK M : M = {Month(d) : d \in Day}
  OBVIOUS
<1>7. scores \in [M -> ScoreRow \cup {NoRow}] /\ m \in M
  BY <1>1, <1>2, <1>6 DEF ScoreInv, ScoreTypeOK
<1>8. scores' \in [M -> ScoreRow \cup {NoRow}]
      /\ \A k \in M : scores'[k] = IF k = m THEN row ELSE scores[k]
  BY <1>3, <1>5, <1>7
<1>9. \A k \in M : RowKnows(scores'[k])
  BY <1>4, <1>7, <1>8 DEF ScoreInv
<1>10. (\A k \in DOMAIN scores : RowKnows(scores[k]))'
  <2> SUFFICES ASSUME NEW k \in M PROVE RowKnows(scores[k])'
    BY <1>8
  <2>1. PICK s : s = scores'[k]
    OBVIOUS
  <2>2. RowKnows(s)
    BY <1>9, <2>1
  <2>3. s # NoRow => s.date <= day' /\ opening'[s.date] <= s.seen
    BY <1>5, <2>2 DEF RowKnows
  <2> QED BY <2>1, <2>3 DEF RowKnows
<1>11. PICK idle : idle = IdleRequest
  OBVIOUS
<1>12. idle \in RequestState /\ Prepared(idle) /\ idle.asOf = FirstDay /\ idle.at = "idle"
  BY <1>11, IdleIs
<1>13. PICK p : /\ request' = [request EXCEPT ![r] = p] /\ p \in RequestState
                /\ Prepared(p) /\ Knows(p)
  <2>1. CASE q.mode = "page"
    <3>1. PICK p : p = [idle EXCEPT !.at = "written", !.asOf = q.asOf]
      OBVIOUS
    <3>2. request' = [request EXCEPT ![r] = p]
      BY <1>1, <1>11, <2>1, <3>1 DEF UpsertScore
    <3>3. PICK d \in Day : d = q.asOf
      BY <1>2
    <3>4. p = [idle EXCEPT !.at = "written", !.asOf = d]
      BY <3>1, <3>3
    <3>5. p \in RequestState /\ p.at = "written" /\ p.asOf = d
      BY <1>12, <3>4 DEF RequestState
    <3>6. Prepared(p) /\ Knows(p)
      BY <1>2, <3>3, <3>5 DEF Prepared, Knows
    <3> QED BY <3>2, <3>5, <3>6
  <2>2. CASE q.mode # "page"
    <3>1. request' = [request EXCEPT ![r] = idle]
      BY <1>1, <1>11, <2>2 DEF UpsertScore, Ends
    <3>2. FirstDay <= day
      BY RequestIs
    <3>3. Knows(idle)
      BY <1>12, <3>2 DEF Knows
    <3> QED BY <1>12, <3>1, <3>3
  <2> QED BY <2>1, <2>2
<1>14. /\ request' \in [Request -> RequestState]
       /\ \A s \in Request : request'[s] = IF s = r THEN p ELSE request[s]
  BY <1>13 DEF ScoreInv, ScoreTypeOK
<1>15. ASSUME NEW s \in Request
       PROVE  Prepared(request[s])' /\ Knows(request[s])'
  <2>1. PICK o : o = request'[s]
    OBVIOUS
  <2>2. Prepared(o) /\ Knows(o)
    BY <1>13, <1>14, <2>1 DEF ScoreInv
  <2>3. o.asOf <= day' /\ (o.at \in {"loaded", "scored"} => opening'[o.asOf] <= o.seen)
    BY <1>5, <2>2 DEF Knows
  <2> QED BY <2>1, <2>2, <2>3 DEF Knows, Prepared
<1>16. BooksTypeOK'
  BY <1>5 DEF ScoreInv, ScoreTypeOK, BooksTypeOK, bookVars
<1>17. day' \in Day /\ changes' \in Nat /\ opening' \in [Day -> Nat]
       /\ \A d \in Day : opening'[d] <= changes'
  BY <1>5 DEF ScoreInv, ScoreTypeOK
<1>18. ScoreTypeOK'
  BY <1>6, <1>8, <1>14, <1>16, <1>17 DEF ScoreTypeOK
<1> QED BY <1>10, <1>15, <1>17, <1>18 DEF ScoreInv

LEMMA LeavesInv ==
  ASSUME ScoreInv, NEW r \in Request, Leaves(r)
  PROVE  ScoreInv'
BY EndsInv DEF Leaves

(* What requests and rows know lasts when days and books go on.            *)
LEMMA KnowledgeLasts ==
  ASSUME ScoreInv, BooksTypeOK', UNCHANGED <<scores, request>>,
         day' \in Day, day <= day', changes' \in Nat, opening' \in [Day -> Nat],
         \A d \in Day : opening'[d] <= changes',
         \A d \in Day : d <= day => opening'[d] = opening[d]
  PROVE  ScoreInv'
<1>1. scores' = scores /\ request' = request
  OBVIOUS
<1>2. day \in Day /\ day \in Int /\ day' \in Int /\ \A d \in Day : d \in Int
  BY ScoreAssumption DEF ScoreInv, ScoreTypeOK, Day
<1>3. ASSUME NEW s \in Request
      PROVE  Prepared(request[s])' /\ Knows(request[s])'
  <2>1. PICK o : o = request[s]
    OBVIOUS
  <2>2. Prepared(o) /\ Knows(o) /\ o.asOf \in Day
    <3>1. Prepared(o) /\ Knows(o) /\ o \in RequestState
      BY <2>1 DEF ScoreInv, ScoreTypeOK
    <3> QED BY <3>1 DEF RequestState
  <2>3. o.asOf <= day' /\ opening'[o.asOf] = opening[o.asOf]
    <3>1. PICK d \in Day : d = o.asOf
      BY <2>2
    <3>2. d <= day
      BY <2>2, <3>1 DEF Knows
    <3>3. opening'[d] = opening[d] /\ d <= day'
      BY <1>2, <3>2
    <3> QED BY <3>1, <3>3
  <2>4. o.at \in {"loaded", "scored"} => opening'[o.asOf] <= o.seen
    BY <2>2, <2>3 DEF Knows
  <2>5. o = request'[s]
    BY <1>1, <2>1
  <2> QED BY <2>2, <2>3, <2>4, <2>5 DEF Knows, Prepared
<1>4. ASSUME NEW m \in DOMAIN scores'
      PROVE  RowKnows(scores[m])'
  <2>1. PICK s : s = scores[m]
    OBVIOUS
  <2>2. m \in DOMAIN scores
    BY <1>1
  <2>3. RowKnows(s)
    BY <2>1, <2>2 DEF ScoreInv
  <2>4. s # NoRow => s.date \in Day
    <3>1. s \in ScoreRow \cup {NoRow}
      BY <2>1, <2>2 DEF ScoreInv, ScoreTypeOK
    <3> QED BY <3>1 DEF ScoreRow
  <2>5. s # NoRow => s.date <= day' /\ opening'[s.date] = opening[s.date]
    <3> SUFFICES ASSUME s # NoRow
                 PROVE  s.date <= day' /\ opening'[s.date] = opening[s.date]
      OBVIOUS
    <3>1. PICK d \in Day : d = s.date
      BY <2>4
    <3>2. d <= day
      BY <2>3, <3>1 DEF RowKnows
    <3>3. opening'[d] = opening[d] /\ d <= day'
      BY <1>2, <3>2
    <3> QED BY <3>1, <3>3
  <2>6. s # NoRow => s.date <= day' /\ opening'[s.date] <= s.seen
    BY <2>3, <2>5 DEF RowKnows
  <2>7. s = scores'[m]
    BY <1>1, <2>1
  <2> QED BY <2>6, <2>7 DEF RowKnows
<1>5. ScoreTypeOK'
  BY <1>1 DEF ScoreInv, ScoreTypeOK
<1> QED BY <1>3, <1>4, <1>5 DEF ScoreInv

LEMMA NextDayInv ==
  ASSUME ScoreInv, NextDay
  PROVE  ScoreInv'
<1>1. /\ day \in Day /\ changes \in Nat /\ opening \in [Day -> Nat]
      /\ \A d \in Day : opening[d] <= changes
  BY DEF ScoreInv, ScoreTypeOK
<1>2. /\ day < LastDay /\ day' = day + 1 /\ changes' = changes
      /\ opening' = [opening EXCEPT ![day + 1] = changes]
      /\ UNCHANGED <<scores, request>>
  BY DEF NextDay
<1>3. BooksTypeOK'
  BY DEF NextDay, ScoreInv, ScoreTypeOK, BooksTypeOK, bookVars
<1>4. /\ \A d \in Day : d \in Int
      /\ day + 1 \in Day /\ day <= day + 1 /\ ~(day + 1 <= day)
  BY <1>1, <1>2, ScoreAssumption DEF Day
<1>5. /\ opening' \in [Day -> Nat]
      /\ \A d \in Day : opening'[d] = IF d = day + 1 THEN changes ELSE opening[d]
  BY <1>1, <1>2
<1>6. \A d \in Day : opening'[d] <= changes'
  BY <1>1, <1>2, <1>5
<1>7. \A d \in Day : d <= day => opening'[d] = opening[d]
  BY <1>4, <1>5
<1> QED BY <1>1, <1>2, <1>3, <1>4, <1>5, <1>6, <1>7, KnowledgeLasts

(* A row that moves stays a row.                                           *)
LEMMA InvoiceMovesTyped ==
  ASSUME ScoreInv, NEW i \in Invoice, InvoiceMoves(i)
  PROVE  BooksTypeOK'
<1>1. invoices \in [Invoice -> InvoiceRow]
  BY DEF ScoreInv, ScoreTypeOK, BooksTypeOK
<1>2. PICK to \in Moves(invoices[i].status) :
        invoices' = [invoices EXCEPT ![i].status = to,
                       ![i].outstanding = IF to = "paid" THEN 0 ELSE @]
  BY DEF InvoiceMoves
<1>3. to \in {"sent", "partial", "overdue", "paid", "written_off"}
  BY <1>2 DEF Moves
<1>4. PICK old, owed : old = invoices[i] /\ owed = IF to = "paid" THEN 0 ELSE old.outstanding
  OBVIOUS
<1>5. old \in InvoiceRow /\ owed \in Int
  <2>1. old \in InvoiceRow
    BY <1>1, <1>4
  <2>2. old.outstanding \in Int
    BY <2>1 DEF InvoiceRow
  <2> QED BY <1>4, <2>1, <2>2
<1>6. PICK row : row = [old EXCEPT !.status = to, !.outstanding = owed]
  OBVIOUS
<1>7. row \in InvoiceRow
  BY <1>3, <1>5, <1>6 DEF InvoiceRow
<1>8. invoices' = [invoices EXCEPT ![i] = row]
  BY <1>1, <1>2, <1>4, <1>6
<1>9. invoices' \in [Invoice -> InvoiceRow]
  BY <1>1, <1>7, <1>8
<1>10. payments' = payments /\ balanceEvents' = balanceEvents
  BY DEF InvoiceMoves
<1> QED BY <1>9, <1>10 DEF ScoreInv, ScoreTypeOK, BooksTypeOK

LEMMA PaymentLandsTyped ==
  ASSUME ScoreInv, NEW i \in Invoice, PaymentLands(i)
  PROVE  BooksTypeOK'
<1>1. PICK p : p = [invoice |-> i, day |-> day]
  OBVIOUS
<1>2. day \in Int
  BY ScoreAssumption DEF ScoreInv, ScoreTypeOK, Day
<1>3. p \in PaymentRow
  BY <1>1, <1>2 DEF PaymentRow
<1>4. payments \in Seq(PaymentRow) /\ payments' = Append(payments, p)
  BY <1>1 DEF PaymentLands, ScoreInv, ScoreTypeOK, BooksTypeOK
<1>5. payments' \in Seq(PaymentRow)
  BY <1>3, <1>4
<1>6. invoices' = invoices /\ balanceEvents' = balanceEvents
  BY DEF PaymentLands
<1> QED BY <1>5, <1>6 DEF ScoreInv, ScoreTypeOK, BooksTypeOK

(* The event that lands is found after all others.                         *)
LEMMA EventLandsTyped ==
  ASSUME ScoreInv, NEW i \in Invoice, EventLands(i)
  PROVE  BooksTypeOK'
<1>1. PICK evs, n : evs = balanceEvents /\ n = Len(balanceEvents)
  OBVIOUS
<1>2. FoundApart(evs)
  BY <1>1 DEF ScoreInv, ScoreTypeOK, BooksTypeOK
<1>3. evs \in Seq(EventRow) /\ n = Len(evs) /\ n \in Nat /\ DOMAIN evs = 1..n
  BY <1>1, <1>2 DEF FoundApart
<1>4. PICK txn \in Evidence \cup {NoDate} :
        balanceEvents' = Append(balanceEvents, [invoice |-> i,
          detected |-> Len(balanceEvents), day |-> day, txn |-> txn])
  BY DEF EventLands
<1>5. PICK e : e = [invoice |-> i, detected |-> n, day |-> day, txn |-> txn]
  OBVIOUS
<1>6. e \in EventRow
  <2>1. day \in Int /\ txn \in Int \cup {NoDate}
    BY ScoreAssumption DEF ScoreInv, ScoreTypeOK, Day
  <2> QED BY <1>3, <1>5, <2>1 DEF EventRow
<1>7. PICK new : new = Append(evs, e)
  OBVIOUS
<1>8. /\ new \in Seq(EventRow) /\ Len(new) = n + 1 /\ DOMAIN new = 1..(n + 1)
      /\ new[n + 1] = e /\ \A k \in 1..n : new[k] = evs[k]
  BY <1>3, <1>6, <1>7
<1>9. \A k \in 1..n : evs[k].detected \in Int /\ evs[k].detected < n
  <2>1. \A k \in 1..n : evs[k].detected < n
    BY <1>2, <1>3 DEF FoundApart
  <2>2. \A k \in 1..n : evs[k].detected \in Int
    BY <1>3, EventFields
  <2> QED BY <2>1, <2>2
<1>10. e.detected = n
  BY <1>5
<1>11. ASSUME NEW k \in 1..(n + 1)
       PROVE  /\ new[k].detected < n + 1
              /\ \A j \in 1..(n + 1) :
                   new[j].invoice = new[k].invoice /\ new[j].detected = new[k].detected
                     => j = k
  <2>1. \A j \in 1..(n + 1) : j \in 1..n \/ j = n + 1
    BY <1>3
  <2>2. \A j \in 1..n : new[j].detected \in Int /\ new[j].detected < n
    BY <1>8, <1>9
  <2>3. new[n + 1].detected = n
    BY <1>8, <1>10
  <2>4. new[k].detected < n + 1
    BY <1>3, <2>1, <2>2, <2>3
  <2>5. ASSUME NEW j \in 1..(n + 1),
               new[j].invoice = new[k].invoice, new[j].detected = new[k].detected
        PROVE  j = k
    <3>1. CASE j \in 1..n /\ k \in 1..n
      <4>1. evs[j].invoice = evs[k].invoice /\ evs[j].detected = evs[k].detected
        BY <1>8, <2>5, <3>1
      <4> QED BY <1>2, <1>3, <3>1, <4>1 DEF FoundApart
    <3>2. CASE j = n + 1 /\ k \in 1..n
      BY <1>3, <2>2, <2>3, <2>5, <3>2
    <3>3. CASE j \in 1..n /\ k = n + 1
      BY <1>3, <2>2, <2>3, <2>5, <3>3
    <3>4. CASE j = n + 1 /\ k = n + 1
      BY <3>4
    <3> QED BY <2>1, <3>1, <3>2, <3>3, <3>4
  <2> QED BY <2>4, <2>5
<1>12. FoundApart(new)
  BY <1>8, <1>11 DEF FoundApart
<1>13. balanceEvents' = new
  BY <1>1, <1>4, <1>5, <1>7
<1>14. invoices' = invoices /\ payments' = payments
  BY DEF EventLands
<1> QED BY <1>12, <1>13, <1>14 DEF ScoreInv, ScoreTypeOK, BooksTypeOK

LEMMA BooksMoveInv ==
  ASSUME ScoreInv, BooksMove
  PROVE  ScoreInv'
<1>1. BooksTypeOK'
  <2>1. PICK i \in Invoice : InvoiceMoves(i) \/ PaymentLands(i) \/ EventLands(i)
    BY DEF BooksMove
  <2>2. CASE InvoiceMoves(i)
    BY <2>2, InvoiceMovesTyped
  <2>3. CASE PaymentLands(i)
    BY <2>3, PaymentLandsTyped
  <2>4. CASE EventLands(i)
    BY <2>4, EventLandsTyped
  <2> QED BY <2>1, <2>2, <2>3, <2>4
<1>2. /\ day \in Day /\ changes \in Nat /\ opening \in [Day -> Nat]
      /\ \A d \in Day : opening[d] <= changes
  BY DEF ScoreInv, ScoreTypeOK
<1>3. day' = day /\ opening' = opening /\ changes' = changes + 1
      /\ UNCHANGED <<scores, request>>
  BY DEF BooksMove
<1>4. day <= day'
  BY <1>2, <1>3, ScoreAssumption DEF Day
<1>5. \A d \in Day : opening'[d] <= changes'
  BY <1>2, <1>3
<1> QED BY <1>1, <1>2, <1>3, <1>4, <1>5, KnowledgeLasts

(* One step, of whatever kind.                                             *)
LEMMA NextInv == ScoreInv /\ [ScoreNext]_scoreVars => ScoreInv'
<1> SUFFICES ASSUME ScoreInv, [ScoreNext]_scoreVars PROVE ScoreInv'
  OBVIOUS
<1>1. CASE UNCHANGED scoreVars
  <2>1. UNCHANGED <<scores, request>> /\ day' = day /\ changes' = changes
        /\ opening' = opening
    BY <1>1 DEF scoreVars
  <2>2. BooksTypeOK'
    BY <1>1 DEF scoreVars, bookVars, ScoreInv, ScoreTypeOK, BooksTypeOK
  <2>3. /\ day \in Day /\ changes \in Nat /\ opening \in [Day -> Nat]
        /\ \A d \in Day : opening[d] <= changes
    BY DEF ScoreInv, ScoreTypeOK
  <2>4. day <= day'
    BY <2>1, <2>3, ScoreAssumption DEF Day
  <2> QED BY <2>1, <2>2, <2>3, <2>4, KnowledgeLasts
<1>2. CASE BooksMove
  BY <1>2, BooksMoveInv
<1>3. CASE NextDay
  BY <1>3, NextDayInv
<1>4. ASSUME NEW r \in Request,
             \/ OpensPage(r) \/ ReadScores(r) \/ LoadScoreInputs(r)
             \/ LoadPaidTimings(r) \/ UpsertScore(r) \/ RereadScores(r)
             \/ Throws(r) \/ Leaves(r)
             \/ \E mode \in {"write", "dry_run"} : Scores(r, mode)
      PROVE  ScoreInv'
  <2>1. CASE OpensPage(r)
    BY <2>1, OpensPageInv
  <2>2. CASE ReadScores(r)
    BY <2>2, ReadScoresInv
  <2>3. CASE LoadScoreInputs(r)
    BY <2>3, LoadScoreInputsInv
  <2>4. CASE LoadPaidTimings(r)
    BY <2>4, LoadPaidTimingsInv
  <2>5. CASE UpsertScore(r)
    BY <2>5, UpsertScoreInv
  <2>6. CASE RereadScores(r)
    BY <2>6, RereadScoresInv
  <2>7. CASE Throws(r)
    BY <2>7, ThrowsInv
  <2>8. CASE Leaves(r)
    BY <2>8, LeavesInv
  <2>9. ASSUME NEW mode \in {"write", "dry_run"}, Scores(r, mode)
        PROVE  ScoreInv'
    BY <2>9, ScoresInv
  <2> QED BY <1>4, <2>1, <2>2, <2>3, <2>4, <2>5, <2>6, <2>7, <2>8, <2>9
<1> QED BY <1>1, <1>2, <1>3, <1>4 DEF ScoreNext

-----------------------------------------------------------------------------
(* In every behaviour of the requests, the days and the books: the types   *)
(* are right (a score that is held or stored is a percentage, no two       *)
(* events of an invoice are found at one instant), and what a request read *)
(* and a row was computed from is no older than the start of its day.      *)
THEOREM ScoreInvariant == ScoreSpec => []ScoreInv
<1>1. ScoreInit => ScoreInv
  BY InitInv
<1>2. ScoreInv /\ [ScoreNext]_scoreVars => ScoreInv'
  BY NextInv
<1> QED BY <1>1, <1>2, PTL DEF ScoreSpec

(* upsertScore: a row misses nothing that had happened before its day      *)
(* began, though requests overlap, are slow and run over midnight: its day *)
(* is the one the request took before it read the invoices.                *)
THEOREM RowsMissNothing == ScoreSpec => []RowMissesNothingBeforeItsDay
<1>1. ScoreInv => RowMissesNothingBeforeItsDay
  <2> SUFFICES ASSUME ScoreInv, NEW m \in DOMAIN scores, scores[m] # NoRow
               PROVE  scores[m].seen >= opening[scores[m].date]
    BY DEF RowMissesNothingBeforeItsDay
  <2>1. PICK s : s = scores[m]
    OBVIOUS
  <2>2. s \in ScoreRow /\ RowKnows(s)
    BY <2>1 DEF ScoreInv, ScoreTypeOK
  <2>3. s.seen \in Int /\ opening[s.date] \in Int /\ opening[s.date] <= s.seen
    <3>1. s.date \in Day /\ s.seen \in Nat
      BY <2>2 DEF ScoreRow
    <3>2. opening \in [Day -> Nat]
      BY DEF ScoreInv, ScoreTypeOK
    <3> QED BY <2>1, <2>2, <3>1, <3>2 DEF RowKnows
  <2> QED BY <2>1, <2>3
<1> QED BY <1>1, ScoreInvariant, PTL

(* resolvePaidTimings: the day an invoice was paid is the same whatever    *)
(* the order the rows are read in, and it is that of the last payment,     *)
(* else of the first event that left nothing owed, else unknown.           *)
THEOREM TimingsHold == ScoreSpec => []TimingsIgnoreOrder
<1>1. ScoreInv => TimingsIgnoreOrder
  <2> SUFFICES ASSUME ScoreInv PROVE TimingsIgnoreOrder
    OBVIOUS
  <2>1. payments \in Seq(PaymentRow) /\ FoundApart(balanceEvents)
    BY DEF ScoreInv, ScoreTypeOK, BooksTypeOK
  <2>2. ASSUME NEW i \in Invoice
        PROVE  Timely(payments, balanceEvents, i)
    BY <2>1, TimingsOfOne DEF Timely
  <2> QED BY Zenon, <2>2 DEF TimingsIgnoreOrder, Timely, Agrees
<1> QED BY <1>1, ScoreInvariant, PTL

(* computeClientScore: of a paid invoice, no payment made later and no     *)
(* writing off instead gives the client a better score.                    *)
THEOREM LaterNeverHelps == ScoreSpec => []PayingLaterNeverHelps
<1>1. ScoreInv => PayingLaterNeverHelps
  <2>1. ASSUME ScoreInv, TotalBilled(invoices) > 0, NEW on,
               on = resolvePaidTimings(payments, balanceEvents),
               NEW i \in Invoice, invoices[i].status = "paid", on[i] # NoDate,
               invoices[i].due # NoDate
        PROVE  /\ \A later \in on[i]..(on[i] + 30) :
                    computeClientScore(invoices, [on EXCEPT ![i] = later], day)
                      <= computeClientScore(invoices, on, day)
               /\ computeClientScore([invoices EXCEPT ![i].status = "written_off"], on, day)
                    <= computeClientScore(invoices, on, day)
    <3>1. invoices \in [Invoice -> InvoiceRow] /\ on \in PaidOn /\ day \in Int
      <4>1. /\ invoices \in [Invoice -> InvoiceRow] /\ payments \in Seq(PaymentRow)
            /\ balanceEvents \in Seq(EventRow)
        BY <2>1 DEF ScoreInv, ScoreTypeOK, BooksTypeOK, FoundApart
      <4>2. day \in Int
        BY <2>1, ScoreAssumption DEF ScoreInv, ScoreTypeOK, Day
      <4>3. on \in PaidOn
        BY <2>1, <4>1, TimingsAreDays
      <4> QED BY <4>1, <4>2, <4>3
    <3>2. on[i] \in Int
      BY <2>1, <3>1 DEF PaidOn
    <3>3. ASSUME NEW later \in on[i]..(on[i] + 30)
          PROVE  computeClientScore(invoices, [on EXCEPT ![i] = later], day)
                   <= computeClientScore(invoices, on, day)
      <4>1. later \in Int /\ on[i] <= later
        BY <3>2
      <4> QED BY <2>1, <3>1, <4>1, LaterPayment
    <3>4. computeClientScore([invoices EXCEPT ![i].status = "written_off"], on, day)
            <= computeClientScore(invoices, on, day)
      BY <2>1, <3>1, WrittenOffInstead
    <3> QED BY <3>3, <3>4
  <2> QED BY Zenon, <2>1 DEF PayingLaterNeverHelps
<1> QED BY <1>1, ScoreInvariant, PTL

=============================================================================
