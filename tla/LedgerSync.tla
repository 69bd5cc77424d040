----------------------------- MODULE LedgerSync -----------------------------
(***************************************************************************)
(* Reflecting a recovered payment into the subscriber's QuickBooks:        *)
(* reflectPayment and its QuickBooks adapter.  The guard is the row of     *)
(* ledger_sync that belongs to the payment; it is read and written in      *)
(* separate calls with the POST of the payment in between, and the POST    *)
(* carries no idempotency key.                                             *)
(***************************************************************************)
EXTENDS Naturals

CONSTANTS
  Payment,        \* captured payments (source_payment_id)
  NoPayment,
  Reflector,      \* webhook deliveries that may reflect at the same time
  MaxAttempts     \* ledger_sync.max_attempts, 5 in the schema

VARIABLES
  syncRow,        \* ledger_sync: status and attempts of each payment
  posted,         \* how many QuickBooks payments each payment became
  reflecting      \* where each reflector is

SyncStatus == {"none", "pending", "failed", "done", "dead"}

AtRest == [pc |-> "rest", payment |-> NoPayment, attempts |-> 0]

SyncTypeOK ==
  /\ syncRow \in [Payment -> [status : SyncStatus, attempts : 0 .. MaxAttempts]]
  /\ posted \in [Payment -> Nat]
  /\ reflecting \in [Reflector ->
       [pc : {"rest", "upsert", "read", "bury", "count", "post", "done", "failed"},
        payment : Payment \cup {NoPayment}, attempts : 0 .. MaxAttempts]]

SyncInit ==
  /\ syncRow = [p \in Payment |-> [status |-> "none", attempts |-> 0]]
  /\ posted = [p \in Payment |-> 0]
  /\ reflecting = [r \in Reflector |-> AtRest]

Rest(r) == reflecting' = [reflecting EXCEPT ![r] = AtRest]

(* An unknown provider, or none connected, is skipped; so is an error.     *)
StartReflecting(r, p) ==
  /\ reflecting[r].pc = "rest"
  /\ reflecting' \in {reflecting, [reflecting EXCEPT ![r] =
                        [pc |-> "upsert", payment |-> p, attempts |-> 0]]}
  /\ UNCHANGED <<syncRow, posted>>

(* ON CONFLICT DO NOTHING on (source_payment_id, provider).                *)
UpsertSyncRow(r) ==
  LET p == reflecting[r].payment IN
  /\ reflecting[r].pc = "upsert"
  /\ \/ /\ syncRow' = IF syncRow[p].status = "none"
                      THEN [syncRow EXCEPT ![p].status = "pending"] ELSE syncRow
        /\ reflecting' = [reflecting EXCEPT ![r].pc = "read"]
     \/ UNCHANGED syncRow /\ Rest(r)
  /\ UNCHANGED posted

(* The four guards, on the row as it is now.                               *)
ReadSyncRow(r) ==
  LET row == syncRow[reflecting[r].payment] IN
  /\ reflecting[r].pc = "read"
  /\ \/ row.status \in {"done", "dead"} /\ Rest(r)
     \/ /\ row.status \notin {"done", "dead"}
        /\ reflecting' = [reflecting EXCEPT
             ![r].pc = IF row.attempts >= MaxAttempts THEN "bury" ELSE "count",
             ![r].attempts = row.attempts]
  /\ UNCHANGED <<syncRow, posted>>

(* The status-only updates look at no error.                               *)
SetStatus(r, status) ==
  LET p == reflecting[r].payment IN
  /\ syncRow' \in {syncRow, [syncRow EXCEPT ![p].status = status]}
  /\ Rest(r)
  /\ UNCHANGED posted

BuryRow(r) == reflecting[r].pc = "bury" /\ SetStatus(r, "dead")

(* The new count is computed from what was read.                           *)
CountAttempt(r) ==
  LET n == reflecting[r].attempts + 1 IN
  /\ reflecting[r].pc = "count"
  /\ syncRow' \in {syncRow,
                   [syncRow EXCEPT ![reflecting[r].payment].attempts = n]}
  /\ reflecting' = [reflecting EXCEPT ![r].pc = "post", ![r].attempts = n]
  /\ UNCHANGED posted

(* qboPostEntity: it is refused, it is made, or it is made and its answer  *)
(* does not arrive; on a 401 it is sent once more with a fresh token.      *)
PostEntity(r) ==
  /\ posted' = [posted EXCEPT ![reflecting[r].payment] = @ + 1]
  /\ \E pc \in {"done", "failed"} :
       reflecting' = [reflecting EXCEPT ![r].pc = pc]

(* The token and the live invoice come first, and may fail alike.          *)
PostPayment(r) ==
  /\ reflecting[r].pc = "post"
  /\ \/ PostEntity(r)
     \/ UNCHANGED posted /\ reflecting' = [reflecting EXCEPT ![r].pc = "failed"]
  /\ UNCHANGED syncRow

RecordDone(r) == reflecting[r].pc = "done" /\ SetStatus(r, "done")

RecordFailure(r) ==
  /\ reflecting[r].pc = "failed"
  /\ SetStatus(r, IF reflecting[r].attempts >= MaxAttempts THEN "dead"
                                                          ELSE "failed")

ReflectStep(r) ==
  \/ UpsertSyncRow(r) \/ ReadSyncRow(r) \/ BuryRow(r) \/ CountAttempt(r)
  \/ PostPayment(r) \/ RecordDone(r) \/ RecordFailure(r)

=============================================================================
