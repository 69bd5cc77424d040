----------------------------- MODULE MCOutreach -----------------------------
EXTENDS Outreach, TLC

CONSTANTS i1, c1, c2, r1, r2, t1, t2, v1, v2

(* Due on a Friday: the cadence is entered on the Monday, day 7.           *)
MCDueDate == [i \in Invoice |-> 4]
MCStepChannel == <<"email", "email">>
MCStepOffset == <<0, 1>>
MCCallInvoice == [c \in Call |-> i1]

MCSameDay == <<0, 0>>

Calling == {c \in Call : calls[c].at # "new"}

(* Bound of the run on sends: a behaviour is about overlapping runs, or    *)
(* about one call and the requests for its email.                          *)
RunsOrOneCall ==
  \/ Calling = {}
  \/ Cardinality(Calling) = 1 /\ runs = 0

Symmetry == Permutations(Run) \cup Permutations(Tool) \cup Permutations(Contact)

=============================================================================
