--------------------------- MODULE TelegramOutbox ---------------------------
(***************************************************************************)
(* The durable Telegram outbox: telegram_outbox rows, the send ledger and  *)
(* the messages that really reached the chat.                              *)
(*                                                                         *)
(* Every transaction of the store takes one advisory lock, so each is one  *)
(* atomic step.  A delivery is not a transaction: the batch is claimed in  *)
(* one, each row is looked up in the ledger, posted, recorded and saved    *)
(* in steps of its own, from the copy that was read with the claim.        *)
(*                                                                         *)
(*   outbox : per row its state, attempt and transport message id; leased  *)
(*            says that lease_until lies ahead                             *)
(*   ledger : the message id the send ledger holds for a row's             *)
(*            idempotency key, 0 when it holds none                        *)
(*   posted : how many messages of a row reached the chat (history); the   *)
(*            n-th one has the message id n                                *)
(*   doubt  : how often the fate of a send of the row became uncertain     *)
(*            (history): an answer lost, a process gone between the send   *)
(*            and the ledger, a claim outlived while it was worked on      *)
(***************************************************************************)
EXTENDS Integers, FiniteSets, FiniteSetsExt

CONSTANTS MaxUpdates,   \* bound on the updates Telegram delivers
          MaxAttempts,  \* outbox_max_attempts
          Limit         \* the largest batch of one delivery

ASSUME OutboxAssumption ==
    /\ MaxUpdates \in Nat
    /\ MaxAttempts \in Nat \ {0}
    /\ Limit \in Nat \ {0}

VARIABLES outbox, ledger, posted, doubt

outboxVars == <<outbox, ledger, posted, doubt>>

(* The rows, oldest first: per update the notice of an authorization       *)
(* intent and the reply.  Each has its idempotency key.                    *)
IntentRow(u) == 2 * u - 1
ReplyRow(u) == 2 * u
Rows == 1..(2 * MaxUpdates)

OutboxStates == {"absent", "PENDING", "CLAIMED", "RETRYABLE", "SENT",
                 "ACKNOWLEDGED", "DEAD_LETTER"}

NewRow(s) == [state |-> s, attempt |-> 0, id |-> 0, leased |-> FALSE]

OutboxTypeOK ==
    /\ outbox \in [Rows -> [state : OutboxStates, attempt : 0..MaxAttempts,
                            id : Nat, leased : BOOLEAN]]
    /\ ledger \in [Rows -> Nat]
    /\ posted \in [Rows -> Nat]
    /\ doubt \in [Rows -> Nat]

OutboxInit ==
    /\ outbox = [r \in Rows |-> NewRow("absent")]
    /\ ledger = [r \in Rows |-> 0]
    /\ posted = [r \in Rows |-> 0]
    /\ doubt = [r \in Rows |-> 0]

----------------------------------------------------------------------------
(* _enqueue_unlocked: an existing row of the key is returned as it is. *)
Enqueued(box, r) ==
    IF box[r].state = "absent" THEN [box EXCEPT ![r] = NewRow("PENDING")] ELSE box

(* _outbox_claimable: pending, retryable (its backoff passes at some time) *)
(* or claimed under a lease that is over.                                  *)
Claimable(r) ==
    \/ outbox[r].state \in {"PENDING", "RETRYABLE"}
    \/ outbox[r].state = "CLAIMED" /\ ~outbox[r].leased

Oldest(rows) == {r \in rows : Cardinality({q \in rows : q < r}) < Limit}

DueRows == Oldest({r \in Rows : Claimable(r)})

SentRows == Oldest({r \in Rows : outbox[r].state = "SENT"})

(* claim_outbox_batch: the oldest due rows are claimed together. *)
ClaimBatch ==
    outbox' = [r \in Rows |-> IF r \in DueRows
                              THEN [outbox[r] EXCEPT !.state = "CLAIMED", !.leased = TRUE]
                              ELSE outbox[r]]

(* deliver_pending saves its copy of the claimed row, whatever the row     *)
(* has become since: save_outbox does not compare.                         *)
SaveCopy(r, state, attempt, id) ==
    outbox' = [outbox EXCEPT ![r] = [state |-> state, attempt |-> attempt,
                                     id |-> id, leased |-> FALSE]]

SaveSent(r, attempt, id) == SaveCopy(r, "SENT", attempt + 1, id)

(* A rate limit defers the row and burns no attempt. *)
SaveDeferred(r, attempt) == SaveCopy(r, "RETRYABLE", attempt, 0)

(* Mutant: a row is never given up. *)
SaveFailedForever(r, attempt) == SaveCopy(r, "RETRYABLE", attempt + 1, 0)

SaveFailed(r, attempt) ==
    SaveCopy(r, IF attempt + 1 >= MaxAttempts THEN "DEAD_LETTER" ELSE "RETRYABLE",
             attempt + 1, 0)

(* acknowledge_delivery accepts a SENT row with the same message id, and   *)
(* returns a row that is acknowledged already.                             *)
AckAccepted(r, id) ==
    outbox[r].state \in {"SENT", "ACKNOWLEDGED"} /\ outbox[r].id = id

Acknowledge(r) == outbox' = [outbox EXCEPT ![r].state = "ACKNOWLEDGED"]

----------------------------------------------------------------------------
(* The message reaches the chat. *)
Reaches(r) == posted' = [posted EXCEPT ![r] = @ + 1]

Doubtful(r) == doubt' = [doubt EXCEPT ![r] = @ + 1]

(* Mutant: the ledger is not asked, the row's own state is trusted. *)
LedgerIgnored(r) == FALSE

(* GuardedTelegramTransport: a key the ledger knows is not sent again. *)
LedgerHit(r) == ledger[r] # 0

(* Mutant: the last sender's message id replaces the recorded one. *)
LedgerAcceptsAny(r, id) == TRUE

(* PostgresActivationSendLedger.record keeps the first message id of a key *)
(* and refuses another one.                                                *)
LedgerAccepts(r, id) == ledger[r] \in {0, id}

LedgerRecord(r, id) == ledger' = [ledger EXCEPT ![r] = id]

============================================================================
