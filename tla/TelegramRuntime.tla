--------------------------- MODULE TelegramRuntime ---------------------------
(***************************************************************************)
(* The Telegram worker: it drains the outbox, then polls for updates.      *)
(*                                                                         *)
(* A cycle needs the runtime lease, which a worker keeps until 30 seconds  *)
(* have passed and does not look at again during the cycle: a slow cycle   *)
(* overlaps with the one of another replica.  A process may die between    *)
(* any two of its steps and starts again with a new cycle.  Telegram hands *)
(* out the updates after the durable cursor again and again until the      *)
(* cursor has passed them.                                                 *)
(*                                                                         *)
(*   inbox   : the updates the bot received, in the order of update_id     *)
(*   cursor  : last_update_id of the polling cursor                        *)
(*   reported: what a pass made of an update (history)                     *)
(*   worker  : per replica, where its cycle stands                         *)
(*   events  : how much has happened to the worker from outside            *)
(***************************************************************************)
EXTENDS TelegramInbound, Sequences

CONSTANTS Workers,
          MaxEvents    \* bound on updates, enrollments, failures and expiries

ASSUME RuntimeAssumption ==
    /\ IsFiniteSet(Workers)
    /\ MaxEvents \in Nat

VARIABLES inbox, cursor, reported, worker, events

vars == <<outboxVars, inboundVars, inbox, cursor, reported, worker, events>>

(* A button press carries a nonce, a confirmation quotes an action with    *)
(* its identity, any other text is an enrollment token or not understood.  *)
Update ==
    [kind : {"press"}, chat : Chats, nonce : Nonces]
    \cup [kind : {"confirm"}, chat : Chats, action : Actions]
    \cup [kind : {"text"}, chat : Chats, token : Tokens]

(* leased: the runtime lease still runs; todo: rows to acknowledge or to   *)
(* deliver; copy: the attempt of each row when it was claimed; ids: the    *)
(* message ids accepted in this pass; update, last: what is left of the    *)
(* batch of updates.                                                       *)
Cycle ==
    [pc : {"idle", "recover", "claim", "look", "post", "record", "save",
           "confirm", "poll", "consume", "effect", "reply", "advance"},
     leased : BOOLEAN, posture : {"projection", "enrollment"},
     todo : SUBSET Rows, copy : [Rows -> 0..MaxAttempts], ids : [Rows -> Nat],
     result : {"none", "ok", "limited", "failed"},
     update : 0..MaxUpdates, last : 0..MaxUpdates, replayed : BOOLEAN]

NoIds == [r \in Rows |-> 0]

Idle == [pc |-> "idle", leased |-> FALSE, posture |-> "projection", todo |-> {},
         copy |-> NoIds, ids |-> NoIds, result |-> "none", update |-> 0,
         last |-> 0, replayed |-> FALSE]

TypeOK ==
    /\ OutboxTypeOK
    /\ InboundTypeOK
    /\ inbox \in Seq(Update) /\ Len(inbox) <= MaxUpdates
    /\ cursor \in 0..MaxUpdates
    /\ reported \in [Updates -> {"none", "applied", "rejected"}]
    /\ worker \in [Workers -> Cycle]
    /\ events \in 0..MaxEvents

Init ==
    /\ OutboxInit
    /\ InboundInit
    /\ inbox = <<>>
    /\ cursor = 0
    /\ reported = [u \in Updates |-> "none"]
    /\ worker = [w \in Workers |-> Idle]
    /\ events = 0

Event ==
    /\ events < MaxEvents
    /\ events' = events + 1

At(w, pc) == worker[w].pc = pc
Row(w) == Min(worker[w].todo)
Moves(w, pc) == worker' = [worker EXCEPT ![w].pc = pc]
Phase(w, pc) == [Idle EXCEPT !.pc = pc, !.leased = worker[w].leased,
                             !.posture = worker[w].posture]
Ends(w) == worker' = [worker EXCEPT ![w] = Idle]

inboundSide == <<inboundVars, inbox, cursor, reported>>

----------------------------------------------------------------------------
(* The cycle and its lease. *)

IdsOf(rows) == [r \in Rows |-> IF r \in rows THEN outbox[r].id ELSE 0]

(* run_cycle under try_acquire_runtime_lease.  A cycle that does not get   *)
(* the lease, or reads an active kill switch, does nothing.  Its posture   *)
(* is the configuration of the process.  Only a projection delivers; it    *)
(* reads the SENT rows in the same step, each is looked at again when it   *)
(* is acknowledged.                                                        *)
BeginCycle(w, posture) ==
    /\ At(w, "idle")
    /\ \A v \in Workers : ~worker[v].leased
    /\ worker' = [worker EXCEPT ![w] =
            IF posture = "enrollment"
            THEN [Idle EXCEPT !.pc = "poll", !.posture = posture, !.leased = TRUE]
            ELSE [Idle EXCEPT !.pc = IF SentRows = {} THEN "claim" ELSE "recover",
                              !.todo = SentRows, !.ids = IdsOf(SentRows), !.leased = TRUE]]
    /\ UNCHANGED <<outboxVars, inboundSide, events>>

(* A cycle takes longer than its lease. *)
Stall(w) ==
    /\ worker[w].leased
    /\ Event
    /\ worker' = [worker EXCEPT ![w].leased = FALSE]
    /\ UNCHANGED <<outboxVars, inboundSide>>

(* lease_until of a claimed row passes.  It was taken after the runtime    *)
(* lease and lasts as long, so a worker that still has that lease has      *)
(* this one too; another may be at the row all the same.                   *)
WorkingOn(r) == {w \in Workers :
    worker[w].pc \in {"look", "post", "record", "save"} /\ r \in worker[w].todo}

RowLeaseExpires(r) ==
    /\ outbox[r].state = "CLAIMED" /\ outbox[r].leased
    /\ \A w \in WorkingOn(r) : ~worker[w].leased
    /\ outbox' = [outbox EXCEPT ![r].leased = FALSE]
    /\ IF WorkingOn(r) = {} THEN UNCHANGED doubt ELSE Doubtful(r)
    /\ UNCHANGED <<ledger, posted, inboundSide, worker, events>>

(* The process dies.  A message that was posted and not recorded is in     *)
(* doubt.                                                                  *)
Crash(w) ==
    /\ ~At(w, "idle")
    /\ Event
    /\ IF At(w, "record") THEN Doubtful(Row(w)) ELSE UNCHANGED doubt
    /\ Ends(w)
    /\ UNCHANGED <<outbox, ledger, posted, inboundSide>>

----------------------------------------------------------------------------
(* Delivery. *)

(* acknowledge_delivery for one row after the other.  A row that is no     *)
(* longer SENT raises and ends the cycle.                                  *)
AcknowledgeNext(w, after) ==
    LET r == Row(w)
        c == worker[w]
    IN IF AckAccepted(r, c.ids[r])
       THEN /\ Acknowledge(r)
            /\ worker' = [worker EXCEPT ![w] =
                    IF c.todo = {r} THEN Phase(w, after) ELSE [c EXCEPT !.todo = @ \ {r}]]
       ELSE Ends(w) /\ UNCHANGED outbox

(* _acknowledge_sent: what an earlier cycle sent and did not acknowledge. *)
Recover(w) ==
    /\ At(w, "recover")
    /\ AcknowledgeNext(w, "claim")
    /\ UNCHANGED <<ledger, posted, doubt, inboundSide, events>>

Claim(w) ==
    /\ At(w, "claim")
    /\ ClaimBatch
    /\ worker' = [worker EXCEPT ![w].todo = DueRows,
                                ![w].copy = [r \in Rows |-> IF r \in DueRows
                                                            THEN outbox[r].attempt ELSE 0],
                                ![w].pc = IF DueRows = {} THEN "poll" ELSE "look"]
    /\ UNCHANGED <<ledger, posted, doubt, inboundSide, events>>

(* The pass is done with a row: on to the next one, then to the            *)
(* acknowledgements.                                                       *)
DoneWith(w, id) ==
    LET r == Row(w)
        rest == worker[w].todo \ {r}
        ids == [worker[w].ids EXCEPT ![r] = id]
        accepted == {q \in Rows : ids[q] # 0}
    IN worker' = [worker EXCEPT ![w] =
            IF rest # {}
            THEN [@ EXCEPT !.pc = "look", !.todo = rest, !.ids = ids, !.result = "none"]
            ELSE IF accepted = {} THEN Phase(w, "poll")
                 ELSE [Phase(w, "confirm") EXCEPT !.todo = accepted, !.ids = ids]]

(* The transport looks the key up; then the chat's rate limit. *)
Look(w) ==
    /\ At(w, "look")
    /\ \/ /\ LedgerHit(Row(w))
          /\ worker' = [worker EXCEPT ![w].pc = "save", ![w].result = "ok",
                                      ![w].ids[Row(w)] = ledger[Row(w)]]
          /\ UNCHANGED events
       \/ /\ ~LedgerHit(Row(w))
          /\ Event
          /\ worker' = [worker EXCEPT ![w].pc = "save", ![w].result = "limited"]
       \/ /\ ~LedgerHit(Row(w))
          /\ Moves(w, "post")
          /\ UNCHANGED events
    /\ UNCHANGED <<outboxVars, inboundSide>>

(* The Bot API: accepted and answered, accepted with the answer lost, or   *)
(* refused.                                                                *)
Post(w) ==
    /\ At(w, "post")
    /\ \/ /\ Reaches(Row(w))
          /\ worker' = [worker EXCEPT ![w].pc = "record",
                                      ![w].ids[Row(w)] = posted[Row(w)] + 1]
          /\ UNCHANGED <<doubt, events>>
       \/ /\ Event
          /\ Reaches(Row(w)) /\ Doubtful(Row(w))
          /\ worker' = [worker EXCEPT ![w].pc = "save", ![w].result = "failed"]
       \/ /\ Event
          /\ worker' = [worker EXCEPT ![w].pc = "save", ![w].result = "failed"]
          /\ UNCHANGED <<posted, doubt>>
    /\ UNCHANGED <<outbox, ledger, inboundSide>>

(* A ledger that holds another message id raises out of the pass. *)
Record(w) ==
    LET r == Row(w)
    IN /\ At(w, "record")
       /\ IF LedgerAccepts(r, worker[w].ids[r])
          THEN /\ LedgerRecord(r, worker[w].ids[r])
               /\ worker' = [worker EXCEPT ![w].pc = "save", ![w].result = "ok"]
          ELSE Ends(w) /\ UNCHANGED ledger
       /\ UNCHANGED <<outbox, posted, doubt, inboundSide, events>>

Save(w) ==
    LET r == Row(w)
        attempt == worker[w].copy[r]
    IN /\ At(w, "save")
       /\ \/ /\ worker[w].result = "ok"
             /\ SaveSent(r, attempt, worker[w].ids[r])
             /\ DoneWith(w, worker[w].ids[r])
          \/ /\ worker[w].result = "limited"
             /\ SaveDeferred(r, attempt)
             /\ DoneWith(w, 0)
          \/ /\ worker[w].result = "failed"
             /\ SaveFailed(r, attempt)
             /\ DoneWith(w, 0)
       /\ UNCHANGED <<ledger, posted, doubt, inboundSide, events>>

(* deliver_due acknowledges what this pass sent. *)
Confirm(w) ==
    /\ At(w, "confirm")
    /\ AcknowledgeNext(w, "poll")
    /\ UNCHANGED <<ledger, posted, doubt, inboundSide, events>>

----------------------------------------------------------------------------
(* Polling. *)

Poll(w) ==
    /\ At(w, "poll")
    /\ IF cursor = Len(inbox)
       THEN Ends(w)
       ELSE worker' = [worker EXCEPT ![w].pc = "consume", ![w].update = cursor + 1,
                                     ![w].last = Len(inbox)]
    /\ UNCHANGED <<outboxVars, inboundSide, events>>

Current(w) == inbox[worker[w].update]

(* Mutant: the cursor may move backwards. *)
AdvanceAnyway(w, report) ==
    LET u == worker[w].update
        rest == [Phase(w, "consume") EXCEPT !.update = u + 1, !.last = worker[w].last]
    IN /\ cursor' = u
       /\ reported' = [reported EXCEPT ![u] = report]
       /\ worker' = [worker EXCEPT ![w] = IF u = worker[w].last THEN Idle ELSE rest]

(* _advance, and on to the next update of the batch.  A cursor that is     *)
(* past the update already raises out of the pass.                         *)
AdvanceCursor(w, report) ==
    IF worker[w].update < cursor
    THEN Ends(w) /\ UNCHANGED <<cursor, reported>>
    ELSE AdvanceAnyway(w, report)

(* The update is refused without a receipt. *)
Refuse(w) == AdvanceCursor(w, "rejected") /\ UNCHANGED <<inboundVars, outboxVars>>

Received(w, replayed) ==
    /\ worker' = [worker EXCEPT ![w].pc = "effect", ![w].replayed = replayed]
    /\ UNCHANGED <<cursor, reported>>

(* _payload_for_callback finds the nonce and its chat. *)
KnownPress(update) ==
    /\ nonce[update.nonce].state # "none"
    /\ binding[nonce[update.nonce].binding].chat = update.chat

(* Mutant: a deferred update is left to the next poll, and the batch goes  *)
(* on.                                                                     *)
DeferGoesOn(w) ==
    worker' = [worker EXCEPT ![w] =
        IF @.update = @.last THEN Idle ELSE [@ EXCEPT !.update = @ + 1]]

(* poll_once stops at an update that the rate limit defers. *)
Defer(w) == Ends(w)

(* A projection pass on a message or a press from the recipient's chat. *)
ReceiveNew(w) ==
    LET u == worker[w].update
        update == Current(w)
    IN /\ Received(w, FALSE)
       /\ \/ update.kind = "press" /\ SpendNonce(u, update.nonce, "callback")
          \/ update.kind = "confirm" /\ ReceiveConfirmation(u, update.chat, update.action)
          \/ update.kind = "text" /\ ReceiveDiscussion(u, update.chat)

(* The fingerprint of an enrollment is not the one of a message.  That of  *)
(* a confirmation is taken from the text, which quotes the payload.        *)
SameFingerprint(update, r) ==
    r.by = (CASE update.kind = "press" -> "callback" [] OTHER -> "message")

Consume(w) ==
    LET u == worker[w].update
        update == Current(w)
        foreign == update.chat # Recipient \/ (update.kind = "press" /\ ~KnownPress(update))
        old == receipt[u]
    IN /\ At(w, "consume")
       /\ worker[w].posture = "projection"
       /\ \/ foreign /\ Refuse(w) /\ UNCHANGED events
          \/ /\ ~foreign /\ old.state # "none" /\ ~SameFingerprint(update, old)
             /\ Refuse(w) /\ UNCHANGED events
          \/ /\ ~foreign /\ old.state # "none" /\ SameFingerprint(update, old)
             /\ Received(w, TRUE)
             /\ UNCHANGED <<inboundVars, outboxVars, events>>
          \/ /\ ~foreign /\ old.state = "none"
             /\ Event /\ Defer(w)
             /\ UNCHANGED <<inboundVars, outboxVars, cursor, reported>>
          \/ ~foreign /\ old.state = "none" /\ ReceiveNew(w) /\ UNCHANGED events
       /\ UNCHANGED inbox

(* The enrollment pass: an update that is no live token is refused, and so *)
(* is one that the rate limit stops.                                       *)
Enroll(w) ==
    LET u == worker[w].update
        update == Current(w)
        live == /\ update.kind = "text"
                /\ receipt[u].state = "none"
                /\ Enrollable(update.token, update.chat)
        again == update.kind = "text" /\ receipt[u].by = "enrollment"
    IN /\ At(w, "consume")
       /\ worker[w].posture = "enrollment"
       /\ \/ ~live /\ ~again /\ Refuse(w) /\ UNCHANGED events
          \/ live /\ Event /\ Refuse(w)
          \/ /\ again /\ AdvanceCursor(w, "applied")
             /\ UNCHANGED <<inboundVars, outboxVars, events>>
          \/ /\ live
             /\ CompleteEnrollment(u, update.token, update.chat)
             /\ Moves(w, "advance")
             /\ UNCHANGED <<outboxVars, cursor, reported, events>>
       /\ UNCHANGED inbox

(* Mutant: a replayed press is answered without its effect. *)
PressEffectOnce(w) ==
    LET old == receipt[worker[w].update]
        action == nonce[old.nonce].action
    IN IF old.state = "APPLIED" /\ (worker[w].replayed \/ ActionLegal(action))
       THEN /\ IF worker[w].replayed THEN UNCHANGED candidate
               ELSE ApplyAuthorizedAction(action)
            /\ Moves(w, "advance")
       ELSE Ends(w) /\ UNCHANGED candidate

(* TelegramPaperAgent.handle_callback: the action of an applied receipt,   *)
(* new or replayed, is applied to the candidate.  A rejected receipt has   *)
(* no binding, and the thread that is looked up next raises; so does a     *)
(* transition that the candidate refuses.                                  *)
PressEffect(w) ==
    LET old == receipt[worker[w].update]
        action == nonce[old.nonce].action
    IN IF old.state = "APPLIED" /\ ActionLegal(action)
       THEN ApplyAuthorizedAction(action) /\ Moves(w, "advance")
       ELSE Ends(w) /\ UNCHANGED candidate

(* handle_inbound_message: a chat without a binding raises, a replayed     *)
(* message is answered at once, a confirmation that was applied reaches    *)
(* the candidate; everything that is new is replied to.                    *)
MessageEffect(w) ==
    LET old == receipt[worker[w].update]
        confirmed == old.state = "APPLIED" /\ old.nonce # 0
        action == nonce[old.nonce].action
    IN \/ /\ ActiveIn(Current(w).chat) = {}
          /\ Ends(w) /\ UNCHANGED candidate
       \/ /\ ActiveIn(Current(w).chat) # {} /\ worker[w].replayed
          /\ Moves(w, "advance") /\ UNCHANGED candidate
       \/ /\ ActiveIn(Current(w).chat) # {} /\ ~worker[w].replayed /\ confirmed
          /\ IF ActionLegal(action)
             THEN ApplyAuthorizedAction(action) /\ Moves(w, "reply")
             ELSE Ends(w) /\ UNCHANGED candidate
       \/ /\ ActiveIn(Current(w).chat) # {} /\ ~worker[w].replayed /\ ~confirmed
          /\ Moves(w, "reply") /\ UNCHANGED candidate

Effect(w) ==
    /\ At(w, "effect")
    /\ IF Current(w).kind = "press" THEN PressEffect(w) ELSE MessageEffect(w)
    /\ UNCHANGED <<challenge, binding, nonce, receipt, outboxVars,
                   inbox, cursor, reported, events>>

Reply(w) ==
    /\ At(w, "reply")
    /\ outbox' = Enqueued(outbox, ReplyRow(worker[w].update))
    /\ Moves(w, "advance")
    /\ UNCHANGED <<ledger, posted, doubt, inboundSide, events>>

Advance(w) ==
    /\ At(w, "advance")
    /\ AdvanceCursor(w, "applied")
    /\ UNCHANGED <<outboxVars, inboundVars, inbox, events>>

----------------------------------------------------------------------------
(* Telegram and its user, and the platform. *)

Arrives(update) ==
    /\ Len(inbox) < MaxUpdates
    /\ Event
    /\ inbox' = Append(inbox, update)
    /\ UNCHANGED <<outboxVars, inboundVars, cursor, reported, worker>>

UserPresses(n) ==
    /\ nonce[n].state # "none"
    /\ Arrives([kind |-> "press", chat |-> binding[nonce[n].binding].chat, nonce |-> n])

UserConfirms(action) ==
    Arrives([kind |-> "confirm", chat |-> Recipient, action |-> action])

UserWrites(chat, k) ==
    /\ k > 0 /\ challenge[k].state # "none"
    /\ Arrives([kind |-> "text", chat |-> chat, token |-> k])

Issues ==
    /\ \E k \in Tokens, action \in Actions, n \in Nonces : IssueNonce(k, action, n)
    /\ UNCHANGED <<outboxVars, inbox, cursor, reported, worker, events>>

Platform ==
    /\ \/ \E user \in Users, k \in Tokens : StartEnrollment(user, k)
       \/ \E k \in Tokens : TokenExpires(k)
       \/ \E n \in Nonces : NonceExpires(n)
       \/ CandidateExpires
    /\ Event
    /\ UNCHANGED <<outboxVars, inbox, cursor, reported, worker>>

----------------------------------------------------------------------------
Step(w) ==
    \/ Recover(w) \/ Claim(w) \/ Look(w) \/ Post(w) \/ Record(w)
    \/ Save(w) \/ Confirm(w) \/ Poll(w) \/ Consume(w) \/ Enroll(w) \/ Effect(w)
    \/ Reply(w) \/ Advance(w)

Next ==
    \/ \E w \in Workers : Step(w) \/ Stall(w) \/ Crash(w)
    \/ \E w \in Workers : BeginCycle(w, "projection") \/ BeginCycle(w, "enrollment")
    \/ \E r \in Rows : RowLeaseExpires(r)
    \/ \E n \in Nonces : UserPresses(n)
    \/ \E action \in Actions : UserConfirms(action)
    \/ \E chat \in Chats, k \in Tokens : UserWrites(chat, k)
    \/ Issues
    \/ Platform

Spec == Init /\ [][Next]_vars

----------------------------------------------------------------------------
(***************************************************************************)
(* Properties                                                              *)
(***************************************************************************)

Applied(u) == receipt[u].state = "APPLIED"
Sequence == DOMAIN inbox

(* Every nonce authorizes at most one action, over buttons, confirmations, *)
(* replays and overlapping passes, and every authorization intent has a    *)
(* nonce of its own that was spent on APPROVE.                             *)
NonceSpentOnce ==
    /\ \A u, v \in Updates :
            Applied(u) /\ Applied(v) /\ receipt[u].nonce = receipt[v].nonce
                /\ receipt[u].nonce # 0 => u = v
    /\ \A u \in Updates : outbox[IntentRow(u)].state # "absent" =>
            /\ Applied(u)
            /\ receipt[u].nonce # 0
            /\ nonce[receipt[u].nonce].action = "APPROVE"

(* A chat speaks for one user and a user is reached in one chat, whatever  *)
(* enrollments are started, revoked, completed and repeated.               *)
OneBinding ==
    /\ \A chat \in Chats : Cardinality(ActiveIn(chat)) <= 1
    /\ \A user \in Users : Cardinality(ActiveOf(user)) <= 1

(* The cursor passes no update that no pass has reported on: a deferred    *)
(* update, a crash and an overlapping pass lose nothing.                   *)
NoUpdateSkipped == \A u \in 1..cursor : reported[u] # "none"

(* A pressed REJECT or SKIP that was applied and that a pass has finished  *)
(* has decided the candidate, even if a process died after the receipt.    *)
PressTakesEffect ==
    \A u \in Sequence :
        (/\ inbox[u].kind = "press"
         /\ Applied(u)
         /\ reported[u] = "applied"
         /\ nonce[inbox[u].nonce].action # "APPROVE")
            => candidate = Target(nonce[inbox[u].nonce].action)

(* The chat gets a second copy of a message only when the fate of an       *)
(* earlier send was in doubt: never more copies than doubts and one.       *)
CopiesExplained == \A r \in Rows : posted[r] <= 1 + doubt[r]

(* docs/telegram_paper_mvp_activation.md: a restart does not send the same *)
(* key twice.  The ledger is asked before a send but written only after    *)
(* it, so the code does not keep this; the README says how TLC refutes it. *)
KeySentOnce == \A r \in Rows : posted[r] <= 1

(* A row that counts as sent or acknowledged names the message that the    *)
(* ledger holds and that reached the chat.                                 *)
SentIsReal ==
    \A r \in Rows : outbox[r].state \in {"SENT", "ACKNOWLEDGED"} =>
        /\ outbox[r].id = ledger[r]
        /\ outbox[r].id \in 1..posted[r]

(* A receipt is final: a redelivered update never changes what its first   *)
(* delivery decided, and the cursor never moves back.                      *)
ReceiptsFinal ==
    [][/\ \A u \in Updates : receipt[u].state # "none" => receipt'[u] = receipt[u]
       /\ cursor' >= cursor]_vars

============================================================================
