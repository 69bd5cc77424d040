--------------------------- MODULE MCQboConnection --------------------------
EXTENDS QboConnection, TLC

(* Two consents are enough for one to replace the other.                   *)
Interchangeable ==
  Permutations(Subscriber) \cup Permutations(Realm) \cup Permutations(Consent)
    \cup Permutations(Refresher)

(* Bound: refreshes overlap before any name is on file.                    *)
OverlapOrNames ==
  (\A r \in Refresher : refreshing[r].pc # "idle") => \A u \in Subscriber : bizName[u] = ""

=============================================================================
