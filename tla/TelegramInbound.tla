--------------------------- MODULE TelegramInbound ---------------------------
(***************************************************************************)
(* The Telegram security protocol: enrollment, action nonces and inbound   *)
(* receipts, and the candidate that REJECT and SKIP decide.                *)
(*                                                                         *)
(* One bot and one organization.  A private chat and its Telegram user are *)
(* one identity.  Every operation is one serialized transaction; one that  *)
(* raises leaves nothing behind.                                           *)
(*                                                                         *)
(*   challenge : per enrollment token its user and state                   *)
(*   binding   : per completed token the user and chat it bound            *)
(*   nonce     : per issued nonce its action, its binding and its state;   *)
(*               late says that expires_at has passed                      *)
(*   receipt   : per update the receipt of its first delivery              *)
(*   candidate : the state of the candidate the alert is about             *)
(***************************************************************************)
EXTENDS TelegramOutbox

CONSTANTS Users, Chats, Actions,
          NoUser, NoChat,
          Owner, Recipient,      \* the armed runtime's user and chat
          MaxTokens, MaxNonces   \* bounds on tokens and nonces

ASSUME InboundAssumption ==
    /\ NoUser \notin Users
    /\ NoChat \notin Chats
    /\ Owner \in Users
    /\ Recipient \in Chats
    /\ Actions \subseteq {"APPROVE", "REJECT", "SKIP"}
    /\ MaxTokens \in Nat
    /\ MaxNonces \in Nat

VARIABLES challenge, binding, nonce, receipt, candidate

inboundVars == <<challenge, binding, nonce, receipt, candidate>>

Tokens == 0..MaxTokens   \* 0 is the token that bound the recipient
Nonces == 1..MaxNonces
Updates == 1..MaxUpdates

Terminal == {"rejected", "skipped", "expired"}

NoReceipt == [state |-> "none", by |-> "none", nonce |-> 0]

InboundTypeOK ==
    /\ challenge \in [Tokens -> [user : Users \cup {NoUser}, late : BOOLEAN,
                                 state : {"none", "PENDING", "COMPLETED", "REVOKED"}]]
    /\ binding \in [Tokens -> [user : Users \cup {NoUser}, chat : Chats \cup {NoChat},
                               active : BOOLEAN]]
    /\ nonce \in [Nonces -> [state : {"none", "ISSUED", "CONSUMED", "EXPIRED"},
                             action : Actions \cup {"none"},
                             binding : 0..MaxTokens, late : BOOLEAN]]
    /\ receipt \in [Updates -> [state : {"none", "APPLIED", "REJECTED"},
                                by : {"none", "enrollment", "callback", "message"},
                                nonce : 0..MaxNonces]]
    /\ candidate \in {"active"} \cup Terminal

(* The runtime is armed for a recipient whose enrollment is complete. *)
InboundInit ==
    /\ challenge = [k \in Tokens |->
            IF k = 0 THEN [user |-> Owner, late |-> FALSE, state |-> "COMPLETED"]
            ELSE [user |-> NoUser, late |-> FALSE, state |-> "none"]]
    /\ binding = [k \in Tokens |->
            IF k = 0 THEN [user |-> Owner, chat |-> Recipient, active |-> TRUE]
            ELSE [user |-> NoUser, chat |-> NoChat, active |-> FALSE]]
    /\ nonce = [n \in Nonces |-> [state |-> "none", action |-> "none",
                                  binding |-> 0, late |-> FALSE]]
    /\ receipt = [u \in Updates |-> NoReceipt]
    /\ candidate = "active"

----------------------------------------------------------------------------
(* Enrollment. *)

ActiveOf(user) == {k \in Tokens : binding[k].active /\ binding[k].user = user}
ActiveIn(chat) == {k \in Tokens : binding[k].active /\ binding[k].chat = chat}

(* start_enrollment revokes the user's pending challenges and saves a new  *)
(* one.                                                                    *)
StartEnrollment(user, k) ==
    /\ k > 0 /\ challenge[k].state = "none"
    /\ challenge[k - 1].state # "none"
    /\ challenge' = [j \in Tokens |->
            IF j = k
            THEN [user |-> user, late |-> FALSE, state |-> "PENDING"]
            ELSE IF challenge[j].user = user /\ challenge[j].state = "PENDING"
                 THEN [challenge[j] EXCEPT !.state = "REVOKED"]
                 ELSE challenge[j]]
    /\ UNCHANGED <<binding, nonce, receipt, candidate>>

(* Mutant: a chat bound to another user is enrolled too. *)
EnrollableAnywhere(k, chat) ==
    /\ challenge[k].state = "PENDING"
    /\ ~challenge[k].late

(* complete_enrollment raises for a challenge that is not pending or that  *)
(* is late, and for a chat that is bound to another user.  What it writes  *)
(* before it raises is rolled back.                                        *)
Enrollable(k, chat) ==
    /\ challenge[k].state = "PENDING"
    /\ ~challenge[k].late
    /\ \A j \in ActiveIn(chat) : binding[j].user = challenge[k].user

(* It revokes the user's previous binding, binds the chat, completes the   *)
(* challenge and saves the receipt of the update.  The unique indexes on   *)
(* active bindings are left out: they repeat what the checks above give.   *)
CompleteEnrollment(u, k, chat) ==
    /\ binding' = [j \in Tokens |->
            IF j = k
            THEN [user |-> challenge[k].user, chat |-> chat, active |-> TRUE]
            ELSE IF j \in ActiveOf(challenge[k].user)
                 THEN [binding[j] EXCEPT !.active = FALSE]
                 ELSE binding[j]]
    /\ challenge' = [challenge EXCEPT ![k].state = "COMPLETED"]
    /\ receipt' = [receipt EXCEPT ![u] = [state |-> "APPLIED", by |-> "enrollment",
                                          nonce |-> 0]]
    /\ UNCHANGED <<nonce, candidate>>

TokenExpires(k) ==
    /\ challenge[k].state = "PENDING"
    /\ ~challenge[k].late
    /\ challenge' = [challenge EXCEPT ![k].late = TRUE]
    /\ UNCHANGED <<binding, nonce, receipt, candidate>>

----------------------------------------------------------------------------
(* Nonces. *)

(* issue_action_nonce: only under a binding that is active. *)
IssueNonce(k, action, n) ==
    /\ binding[k].active
    /\ nonce[n].state = "none"
    /\ n > 1 => nonce[n - 1].state # "none"
    /\ nonce' = [nonce EXCEPT ![n] = [state |-> "ISSUED", action |-> action,
                                      binding |-> k, late |-> FALSE]]
    /\ UNCHANGED <<challenge, binding, receipt, candidate>>

NonceExpires(n) ==
    /\ nonce[n].state # "none"
    /\ ~nonce[n].late
    /\ nonce' = [nonce EXCEPT ![n].late = TRUE]
    /\ UNCHANGED <<challenge, binding, receipt, candidate>>

(* Mutant: a consumed nonce authorizes again. *)
AuthorizeConsumed(n) == ~nonce[n].late /\ binding[nonce[n].binding].active

(* _authorize_nonce_actor, for a sender and a payload that are the nonce's *)
(* own: not late, issued, and its binding is not revoked.                  *)
AuthorizeNonceActor(n) ==
    /\ ~nonce[n].late
    /\ nonce[n].state = "ISSUED"
    /\ binding[nonce[n].binding].active

(* The nonce after the attempt.  Expiry is looked at before the state, so  *)
(* a nonce that was consumed before it got late becomes EXPIRED as well.   *)
NonceAfter(n) ==
    IF nonce[n].late THEN "EXPIRED"
    ELSE IF AuthorizeNonceActor(n) THEN "CONSUMED" ELSE nonce[n].state

(* receive_callback and the confirming branch of receive_private_message:  *)
(* the receipt, the nonce, and for APPROVE the intent and its notice, in   *)
(* one transaction.                                                        *)
SpendNonce(u, n, by) ==
    /\ nonce' = [nonce EXCEPT ![n].state = NonceAfter(n)]
    /\ receipt' = [receipt EXCEPT ![u] =
            [state |-> IF AuthorizeNonceActor(n) THEN "APPLIED" ELSE "REJECTED",
             by |-> by, nonce |-> n]]
    /\ outbox' = IF AuthorizeNonceActor(n) /\ nonce[n].action = "APPROVE"
                 THEN Enqueued(outbox, IntentRow(u)) ELSE outbox
    /\ UNCHANGED <<challenge, binding, candidate, ledger, posted, doubt>>

(* A message that spends no nonce. *)
SaveReceipt(u, state) ==
    /\ receipt' = [receipt EXCEPT ![u] = [state |-> state, by |-> "message", nonce |-> 0]]
    /\ UNCHANGED <<challenge, binding, nonce, candidate>>
    /\ UNCHANGED outboxVars

(* get_issued_nonce_for_payload: the newest issued nonce of the action     *)
(* under the sender's binding.                                             *)
IssuedFor(chat, action) ==
    {n \in Nonces : /\ nonce[n].state = "ISSUED"
                    /\ nonce[n].action = action
                    /\ nonce[n].binding \in ActiveIn(chat)}

(* receive_private_message with the payload of an action, as parsed from a *)
(* confirmation that quotes the whole identity.  A text that only names    *)
(* the action is resolved through presented confirmations and left out.    *)
ReceiveConfirmation(u, chat, action) ==
    IF IssuedFor(chat, action) = {}
    THEN SaveReceipt(u, "REJECTED")
    ELSE SpendNonce(u, Max(IssuedFor(chat, action)), "message")

(* receive_private_message without a payload: a bound chat may talk. *)
ReceiveDiscussion(u, chat) ==
    SaveReceipt(u, IF ActiveIn(chat) = {} THEN "REJECTED" ELSE "APPLIED")

----------------------------------------------------------------------------
(* The candidate. *)

Target(action) == IF action = "REJECT" THEN "rejected" ELSE "skipped"

(* apply_transition: the key of the alert's action is an exact replay when *)
(* its transition is the one that was stored; a terminal candidate accepts *)
(* no other.                                                               *)
TransitionLegal(action) == candidate \in {"active", Target(action)}

(* _apply_authorized_action: APPROVE leaves the candidate alone. *)
ApplyAuthorizedAction(action) ==
    candidate' = IF action = "APPROVE" THEN candidate ELSE Target(action)

ActionLegal(action) == action = "APPROVE" \/ TransitionLegal(action)

(* The candidate expires or is invalidated by its own lifecycle. *)
CandidateExpires ==
    /\ candidate = "active"
    /\ candidate' = "expired"
    /\ UNCHANGED <<challenge, binding, nonce, receipt>>

============================================================================
