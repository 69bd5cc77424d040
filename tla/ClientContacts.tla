--------------------------- MODULE ClientContacts ---------------------------
(***************************************************************************)
(* The people of one client: the point of contact that the QuickBooks sync *)
(* keeps (runQboSync, planPocReconcile, mergeClientContact), the dunning   *)
(* contacts a subscriber adds, edits and deletes (api/clients/contacts,    *)
(* mutateContact), and the choice of the one to reach (selectRecipients,   *)
(* isChannelAllowed).  A row is read and written by its id; the unique     *)
(* index on (client, email_rank) refuses a second holder of a rank.        *)
(*                                                                         *)
(* Only the email channel sends, so a contact's phone and its ranks on the *)
(* other channels are left out, as are names and roles.                    *)
(***************************************************************************)
EXTENDS Naturals, FiniteSets, Sequences

CONSTANTS
  Contact,          \* ids a client_contacts row may have
  Address,          \* email addresses
  NoAddress,
  Stranger,         \* a recipient on no row: an address spoken on a call
  MaxRank,          \* bound: email ranks run from 1 to MaxRank
  MaxEdits          \* bound: edits and syncs of the contacts

ASSUME ContactsAssumption ==
  /\ NoAddress \notin Address
  /\ Stranger \notin Contact
  /\ MaxRank \in Nat \ {0}

VARIABLES
  contacts,         \* the client_contacts rows of the client
  client,           \* its clients row: the merged email, the opt-out
  sync,             \* the sync in flight
  edits             \* edits and syncs so far

contactVars == <<contacts, client, sync, edits>>

NoRank == 0
Rank == NoRank..MaxRank

Row == [kind : {"poc", "dunning"}, email : Address \cup {NoAddress},
        rank : Rank, out : BOOLEAN, primary : BOOLEAN]
Absent == [kind |-> "none", email |-> NoAddress, rank |-> NoRank,
           out |-> FALSE, primary |-> FALSE]
Deleted == [Absent EXCEPT !.kind = "deleted"]

IdleSync == [at |-> "idle", email |-> NoAddress, poc |-> {}]

OnFile == {c \in Contact : contacts[c].kind \in {"poc", "dunning"}}
NewId == {c \in Contact : contacts[c] = Absent}

(* The address of record: one row of kind 'poc', ranked 1 and primary,     *)
(* where the backfill or a sync had an email to give it.                   *)
PocRow(a) ==
  [kind |-> "poc", email |-> a, rank |-> 1, out |-> FALSE, primary |-> TRUE]

(* A contact of the subscriber's. *)
Dunning(a, r, o) ==
  [kind |-> "dunning", email |-> a, rank |-> r, out |-> o, primary |-> FALSE]

(* The partial unique indexes: no rank and no primary twice in a client.   *)
Fits(c, new) ==
  \A d \in OnFile \ {c} :
    /\ new.rank # NoRank => contacts[d].rank # new.rank
    /\ ~(new.primary /\ contacts[d].primary)

ContactsInit ==
  /\ \/ \E p \in Contact, a \in Address, o \in BOOLEAN :
          /\ \/ contacts = [c \in Contact |->
                  IF c = p THEN [PocRow(a) EXCEPT !.out = o] ELSE Absent]
             \/ \E q \in Contact \ {p}, b \in Address, r \in Rank \ {1} :
                  contacts = [c \in Contact |->
                    IF c = p THEN [PocRow(a) EXCEPT !.out = o]
                    ELSE IF c = q THEN Dunning(b, r, FALSE) ELSE Absent]
          /\ client = [email |-> a, out |-> o]
     \/ /\ contacts = [c \in Contact |-> Absent]
        /\ client = [email |-> NoAddress, out |-> FALSE]
  /\ sync = IdleSync
  /\ edits = 0

-----------------------------------------------------------------------------
(* The subscriber's edits.  They are for dunning rows only: the kind of a  *)
(* row never changes, so reading it before the write decides nothing that  *)
(* the write could find changed.  An edit may opt a contact in again.      *)

EditRow(c, new) ==
  /\ Fits(c, new)
  /\ contacts' = [contacts EXCEPT ![c] = new]
  /\ edits' = edits + 1
  /\ UNCHANGED <<client, sync>>

CreateContact ==
  /\ edits < MaxEdits
  /\ \E c \in NewId, a \in Address, r \in Rank :
       EditRow(c, Dunning(a, r, FALSE))

UpdateContact ==
  /\ edits < MaxEdits
  /\ \E c \in OnFile, a \in Address, r \in Rank, o \in BOOLEAN :
       /\ contacts[c].kind = "dunning"
       /\ EditRow(c, Dunning(a, r, o))

DeleteContact ==
  /\ edits < MaxEdits
  /\ \E c \in OnFile : contacts[c].kind = "dunning" /\ EditRow(c, Deleted)

-----------------------------------------------------------------------------
(* The sync.  The value QuickBooks sends wins over the one on file, which  *)
(* is kept where QuickBooks sends none; the client row is written first.   *)

MergeClientContact(incoming, existing) ==
  IF incoming # NoAddress THEN incoming ELSE existing

SyncClient ==
  /\ sync.at = "idle"
  /\ edits < MaxEdits
  /\ \E incoming \in Address \cup {NoAddress} :
       LET merged == MergeClientContact(incoming, client.email) IN
         /\ client' = [client EXCEPT !.email = merged]
         /\ sync' = [IdleSync EXCEPT !.at = "client", !.email = merged]
  /\ edits' = edits + 1
  /\ UNCHANGED contacts

SyncReadsPoc ==
  /\ sync.at = "client"
  /\ sync' = [sync EXCEPT !.at = "read",
                !.poc = {c \in OnFile : contacts[c].kind = "poc"}]
  /\ UNCHANGED <<contacts, client, edits>>

(* Mutant: the reconcile writes the whole row, as an upsert would. *)
ResurrectRow(old, email) == PocRow(email)

(* A row that exists takes the merged email and keeps its opt-out, its     *)
(* rank and its kind; without one a new row is inserted for an email.  An  *)
(* insert that an index refuses throws, and the sync ends there.           *)
Reconciled(old, email) == [old EXCEPT !.email = email]

PlanPocReconcile ==
  /\ sync.at = "read"
  /\ \/ /\ sync.poc # {}
        /\ contacts' = [c \in Contact |->
             IF c \in sync.poc THEN Reconciled(contacts[c], sync.email)
                               ELSE contacts[c]]
     \/ /\ sync.poc = {} /\ sync.email # NoAddress
        /\ \E c \in NewId :
             contacts' = IF Fits(c, PocRow(sync.email))
                           THEN [contacts EXCEPT ![c] = PocRow(sync.email)]
                           ELSE contacts
     \/ /\ sync.poc = {} /\ sync.email = NoAddress
        /\ UNCHANGED contacts
  /\ sync' = IdleSync
  /\ UNCHANGED <<client, edits>>

ContactsNext ==
  \/ CreateContact \/ UpdateContact \/ DeleteContact
  \/ SyncClient \/ SyncReadsPoc \/ PlanPocReconcile

-----------------------------------------------------------------------------
(* Who is reached by email.  A ranked dunning contact with an address and  *)
(* no opt-out, the lowest rank first; else the point of contact, if it has *)
(* an address and no opt-out; else nobody.                                 *)

IsChannelAllowed(out) == ~out

Eligible(c) ==
  contacts[c].email # NoAddress /\ IsChannelAllowed(contacts[c].out)

RankedDunning ==
  {c \in OnFile : /\ contacts[c].kind = "dunning"
                  /\ contacts[c].rank # NoRank
                  /\ Eligible(c)}

SelectForChannel ==
  IF RankedDunning # {}
    THEN {c \in RankedDunning :
            \A d \in RankedDunning : contacts[c].rank <= contacts[d].rank}
    ELSE {c \in OnFile : contacts[c].kind = "poc" /\ Eligible(c)}

(* A spoken address that is on file stands for a row that holds it, with   *)
(* that row's opt-out, for no row otherwise; the opt-out of the client is  *)
(* added either way.                                                       *)
ResolveAddressRecipient(a) ==
  LET rows == {c \in OnFile : contacts[c].email = a} IN
    IF rows = {} THEN {Stranger} ELSE rows

(* Who a send may go to, given what its caller asks for: nothing, a row by *)
(* its id, or an address.  Every path ends at the same gate.               *)
WithClientEmailOptOut(c) ==
  (c # Stranger /\ contacts[c].out) \/ client.out

HasAddress(c) == c = Stranger \/ contacts[c].email # NoAddress

PickRecipient(choice) ==
  LET picked == CASE choice.by = "default" -> SelectForChannel
                  [] choice.by = "contact" -> {choice.contact} \cap OnFile
                  [] choice.by = "address" ->
                       ResolveAddressRecipient(choice.address)
  IN {c \in picked : /\ IsChannelAllowed(WithClientEmailOptOut(c))
                     /\ HasAddress(c)}

=============================================================================
