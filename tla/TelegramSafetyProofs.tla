------------------------ MODULE TelegramSafetyProofs ------------------------
(***************************************************************************)
(* What the Telegram worker promises, for every number of workers,         *)
(* updates, rows, tokens and nonces: about updates, receipts, nonces,      *)
(* bindings and the candidate first, then about the messages that reach    *)
(* the chat (a sent row names a real message, and a second copy has an     *)
(* explanation).                                                           *)
(***************************************************************************)
EXTENDS TelegramProofs, FiniteSetTheorems

----------------------------------------------------------------------------
(* The cursor and the reports. *)

(* Worker w reports on its update, and why. *)
Reports(w, report) ==
    /\ \/ worker[w].pc = "consume" /\ report = "rejected"
       \/ worker[w].pc = "consume" /\ report = "applied" /\ Current(w).kind = "text"
       \/ worker[w].pc = "advance" /\ report = "applied"
    /\ AdvanceCursor(w, report)
    /\ UNCHANGED inbox /\ UNCHANGED inboundVars

LEMMA CursorSteps ==
    ASSUME [Next]_vars
    PROVE  \/ UNCHANGED <<cursor, reported>>
           \/ \E w \in Workers : Reports(w, "applied") \/ Reports(w, "rejected")
<1>1. ASSUME NEW w \in Workers, Consume(w)
      PROVE  UNCHANGED <<cursor, reported>> \/ Reports(w, "rejected")
  <2>1. worker[w].pc = "consume" /\ UNCHANGED inbox
    BY <1>1 DEF Consume, At
  <2>2. CASE Refuse(w)
    BY <2>1, <2>2 DEF Refuse, Reports
  <2>3. CASE ~Refuse(w)
    BY <1>1, <2>3 DEF Consume, Received, ReceiveNew
  <2> QED BY <2>2, <2>3
<1>2. ASSUME NEW w \in Workers, Enroll(w)
      PROVE  \/ UNCHANGED <<cursor, reported>>
             \/ Reports(w, "rejected") \/ Reports(w, "applied")
  <2>1. worker[w].pc = "consume" /\ UNCHANGED inbox
    BY <1>2 DEF Enroll, At
  <2>2. CASE Refuse(w)
    BY <2>1, <2>2 DEF Refuse, Reports
  <2>3. CASE ~Refuse(w)
    BY <1>2, <2>1, <2>3 DEF Enroll, Reports
  <2> QED BY <2>2, <2>3
<1>3. ASSUME NEW w \in Workers, Step(w), ~Consume(w), ~Enroll(w)
      PROVE  UNCHANGED <<cursor, reported>> \/ Reports(w, "applied")
  <2>1. CASE Advance(w)
    BY <2>1 DEF Advance, At, Reports
  <2>2. CASE ~Advance(w)
    BY <1>3, <2>2 DEF Step, Recover, Claim, Look, Post, Record, Save, Confirm, Poll, Effect,
                      Reply, inboundSide
  <2> QED BY <2>1, <2>2
<1>4. ASSUME \/ \E w \in Workers : Stall(w) \/ Crash(w)
             \/ \E w \in Workers : BeginCycle(w, "projection") \/ BeginCycle(w, "enrollment")
             \/ \E r \in Rows : RowLeaseExpires(r)
             \/ Arriving \/ Issues \/ Platform \/ UNCHANGED vars
      PROVE  UNCHANGED <<cursor, reported>>
  BY <1>4 DEF Stall, Crash, BeginCycle, RowLeaseExpires, Arriving, UserPresses, UserConfirms,
              UserWrites, Arrives, Issues, Platform, vars, inboundSide
<1> QED BY <1>1, <1>2, <1>3, <1>4 DEF Next, Arriving

(* A report moves the cursor to the update, and never back. *)
LEMMA ReportRows ==
    ASSUME TypeInv, NEW w \in Workers, NEW report \in {"applied", "rejected"},
           Reports(w, report)
    PROVE  /\ worker[w].pc \in Reading
           /\ worker[w].update \in Updates /\ worker[w].update \in 1..Len(inbox)
           /\ cursor' >= cursor
           /\ \/ UNCHANGED <<cursor, reported>>
              \/ /\ cursor' = worker[w].update
                 /\ reported' = [reported EXCEPT ![worker[w].update] = report]
<1>1. worker[w].pc \in Reading
  BY DEF Reports, Reading
<1>2. /\ worker[w].update \in Updates /\ worker[w].update \in 1..Len(inbox)
      /\ cursor \in Nat /\ Len(inbox) \in Nat
  BY <1>1, CurrentUpdate DEF TypeInv, TypeOK
<1>3. PICK x : AdvancesTo(w, x, report)
  BY <1>1, AdvanceStep DEF Reports
<1> QED BY <1>1, <1>2, <1>3 DEF AdvancesTo

(* A receipt is never written again. *)
LEMMA ReceiptKept ==
    ASSUME TypeInv, [Next]_vars, NEW u \in Updates, receipt[u].state # "none"
    PROVE  receipt'[u] = receipt[u]
<1>1. ASSUME NEW w \in Workers, Receives(w)
      PROVE  receipt'[u] = receipt[u]
  BY <1>1, ReceivesRows DEF Receives, FirstDelivery
<1>2. ASSUME NEW w \in Workers, Enrolls(w)
      PROVE  receipt'[u] = receipt[u]
  BY <1>2, EnrollsRows DEF Enrolls, FirstDelivery
<1> QED BY <1>1, <1>2, ProtocolSteps
        DEF StartEnrollment, TokenExpires, NonceExpires, IssueNonce

(* A receipt is written once, and the cursor never moves back: a           *)
(* redelivered update, a crash after the receipt and an overlapping pass   *)
(* change nothing that a first delivery decided (receive_callback,         *)
(* receive_private_message, complete_enrollment, _advance).                *)
THEOREM FinalReceipts == Spec => ReceiptsFinal
<1>1. ASSUME TypeInv, [Next]_vars, NEW u \in Updates, receipt[u].state # "none"
      PROVE  receipt'[u] = receipt[u]
  BY <1>1, ReceiptKept
<1>2. ASSUME TypeInv, [Next]_vars
      PROVE  cursor' >= cursor
  <2>1. cursor \in Nat
    BY <1>2 DEF TypeInv, TypeOK
  <2> QED BY <1>2, <2>1, CursorSteps, ReportRows
<1>3. TypeInv /\ [Next]_vars =>
        [/\ \A u \in Updates : receipt[u].state # "none" => receipt'[u] = receipt[u]
         /\ cursor' >= cursor]_vars
  BY <1>1, <1>2
<1> QED BY <1>3, TypeInvariant, PTL DEF Spec, ReceiptsFinal

----------------------------------------------------------------------------
(* Two active bindings share neither user nor chat. *)
BindingsApart ==
    \A j, k \in Tokens :
        /\ binding[j].active /\ binding[k].active
        /\ binding[j].user = binding[k].user \/ binding[j].chat = binding[k].chat
        => j = k

LEMMA ApartNext ==
    ASSUME TypeInv, BindingsApart, [Next]_vars
    PROVE  BindingsApart'
<1>1. CASE UNCHANGED binding
  BY <1>1 DEF BindingsApart
<1>2. ASSUME NEW w \in Workers, Enrolls(w)
      PROVE  BindingsApart'
  <2> DEFINE k == Current(w).token
             chat == Current(w).chat
             user == challenge[k].user
  <2>1. /\ k \in Tokens /\ Enrollable(k, chat)
        /\ binding'[k].active /\ binding'[k].user = user /\ binding'[k].chat = chat
        /\ \A j \in Tokens \ {k} :
             /\ binding'[j].user = binding[j].user /\ binding'[j].chat = binding[j].chat
             /\ binding'[j].active <=> binding[j].active /\ binding[j].user # user
    BY <1>2, EnrollsRows
  <2>2. \A j \in Tokens : binding[j].active /\ binding[j].chat = chat => binding[j].user = user
    BY <2>1 DEF Enrollable, ActiveIn
  <2> HIDE DEF k, chat, user
  <2>3. ASSUME NEW j \in Tokens \ {k}, binding'[j].active
        PROVE  binding'[j].user # user /\ binding'[j].chat # chat
    BY <2>1, <2>2, <2>3
  <2> QED BY <2>1, <2>3 DEF BindingsApart
<1>3. ASSUME NEW w \in Workers, Receives(w)
      PROVE  UNCHANGED binding
  BY <1>3, ReceivesRows
<1> QED BY <1>1, <1>2, <1>3, ProtocolSteps
        DEF StartEnrollment, TokenExpires, NonceExpires, IssueNonce

(* A chat speaks for one user and a user is reached in one chat, whatever  *)
(* enrollments are started, revoked, completed and repeated                *)
(* (complete_enrollment).                                                  *)
THEOREM BindingUnique == Spec => []OneBinding
<1>1. Init => BindingsApart
  BY DEF Init, InboundInit, BindingsApart
<1>2. TypeInv /\ BindingsApart /\ [Next]_vars => BindingsApart'
  BY ApartNext
<1>3. BindingsApart => OneBinding
  <2> SUFFICES ASSUME BindingsApart PROVE OneBinding
    OBVIOUS
  <2>1. ASSUME NEW chat \in Chats
        PROVE  Cardinality(ActiveIn(chat)) <= 1
    <3>1. \A j, k \in ActiveIn(chat) : j = k
      BY DEF BindingsApart, ActiveIn
    <3> QED BY <3>1, AtMostOne
  <2>2. ASSUME NEW user \in Users
        PROVE  Cardinality(ActiveOf(user)) <= 1
    <3>1. \A j, k \in ActiveOf(user) : j = k
      BY DEF BindingsApart, ActiveOf
    <3> QED BY <3>1, AtMostOne
  <2> QED BY <2>1, <2>2 DEF OneBinding
<1> QED BY <1>1, <1>2, <1>3, TypeInvariant, PTL DEF Spec

----------------------------------------------------------------------------
(* Where a cycle that reads updates comes from. *)

(* It stays at its update; it finishes the update only from an effect or   *)
(* an enrollment.                                                          *)
StaysAt(w) ==
    /\ worker[w].pc \in Reading /\ worker'[w].update = worker[w].update
    /\ worker'[w].pc \in {"reply", "advance"} =>
         \/ worker[w].pc \in {"reply", "advance"}
         \/ Effect(w)
         \/ Enrolls(w)

Fetches(w) ==
    /\ worker'[w].pc = "consume" /\ worker'[w].update = cursor + 1
    /\ UNCHANGED <<cursor, reported>>

Follows(w) ==
    /\ worker'[w].pc = "consume" /\ worker[w].pc \in Reading
    /\ worker'[w].update = worker[w].update + 1
    /\ reported'[worker[w].update] # "none"

LEMMA PollSteps ==
    ASSUME TypeInv, NEW w \in Workers,
           Poll(w) \/ Consume(w) \/ Enroll(w) \/ Effect(w) \/ Reply(w) \/ Advance(w),
           worker'[w].pc \in Reading
    PROVE  StaysAt(w) \/ Fetches(w) \/ Follows(w)
<1>0. /\ worker \in [Workers -> Cycle] /\ worker[w] \in Cycle /\ cursor \in Nat
      /\ reported \in [Updates -> {"none", "applied", "rejected"}]
  BY DEF TypeInv, TypeOK
<1>1. \A x : SetsCycle(w, x) => worker'[w] = x
  BY <1>0 DEF SetsCycle
<1>2. worker'[w] # Idle /\ ~Ends(w)
  BY <1>0, IdleCycle DEF Reading, Ends
<1>3. ASSUME worker[w].pc \in Reading, NEW report \in {"applied", "rejected"},
             AdvanceCursor(w, report)
      PROVE  Follows(w)
  <2>1. PICK x : SetsCycle(w, x) /\ AdvancesTo(w, x, report)
    BY <1>3, AdvanceStep
  <2>2. worker[w].update \in Updates
    BY <1>3, CurrentUpdate
  <2>3. /\ reported' = [reported EXCEPT ![worker[w].update] = report]
        /\ AtUpdate(w, x, worker[w].update + 1, worker[w].last)
    BY <1>0, <1>1, <1>2, <2>1 DEF AdvancesTo
  <2> QED BY <1>0, <1>1, <1>3, <2>1, <2>2, <2>3 DEF AtUpdate, Follows
<1>4. ASSUME worker[w].pc \in Reading, NEW pc \in Reading, Moves(w, pc)
      PROVE  worker'[w].update = worker[w].update /\ worker'[w].pc = pc
  BY <1>1, <1>4, MovesStep DEF KeepsUpdate
<1>5. ASSUME worker[w].pc \in Reading, NEW replayed \in BOOLEAN, Received(w, replayed)
      PROVE  StaysAt(w)
  <2>1. worker'[w].update = worker[w].update /\ worker'[w].pc = "effect"
    BY <1>1, <1>5, ReceivedStep DEF KeepsUpdate
  <2> QED BY <1>5, <2>1 DEF StaysAt
<1>6. CASE Poll(w)
  <2>1. UNCHANGED <<cursor, reported>>
    BY <1>6 DEF Poll, inboundSide
  <2> QED BY <1>1, <1>2, <1>6, <2>1, PollStep DEF AtUpdate, Fetches
<1>7. CASE Consume(w)
  <2>1. worker[w].pc \in Reading
    BY <1>7 DEF Consume, At, Reading
  <2>2. Refuse(w) \/ Received(w, TRUE) \/ Received(w, FALSE) \/ Ends(w)
    BY <1>7 DEF Consume, Defer, ReceiveNew
  <2> QED BY <1>2, <1>3, <1>5, <2>1, <2>2 DEF Refuse
<1>8. CASE Enroll(w)
  <2>1. worker[w].pc \in Reading /\ worker[w].pc = "consume" /\ UNCHANGED inbox
    BY <1>8 DEF Enroll, At, Reading
  <2>2. CASE Refuse(w) \/ AdvanceCursor(w, "applied")
    BY <1>3, <2>1, <2>2 DEF Refuse
  <2>3. CASE ~(Refuse(w) \/ AdvanceCursor(w, "applied"))
    <3>1. Enrolls(w)
      BY <1>8, <2>1, <2>3 DEF Enroll, Enrolls, FirstDelivery
    <3>2. Moves(w, "advance")
      BY <3>1 DEF Enrolls
    <3>3. worker'[w].update = worker[w].update
      BY <1>4, <2>1, <3>2 DEF Reading
    <3> QED BY <2>1, <3>1, <3>3 DEF StaysAt
  <2> QED BY <2>2, <2>3
<1>9. CASE Effect(w)
  <2>1. worker[w].pc \in Reading
    BY <1>9 DEF Effect, At, Reading
  <2>2. Moves(w, "advance") \/ Moves(w, "reply")
    BY <1>2, <1>9 DEF Effect, PressEffect, MessageEffect
  <2> QED BY <1>4, <1>9, <2>1, <2>2 DEF StaysAt, Reading
<1>10. CASE Reply(w)
  <2>1. worker[w].pc = "reply" /\ Moves(w, "advance") /\ worker[w].pc \in Reading
    BY <1>10 DEF Reply, At, Reading
  <2> QED BY <1>4, <2>1 DEF StaysAt, Reading
<1>11. CASE Advance(w)
  BY <1>3, <1>11 DEF Advance, At, Reading
<1> QED BY <1>6, <1>7, <1>8, <1>9, <1>10, <1>11

(* The other steps of a worker do not take it to an update. *)
LEMMA OtherSteps ==
    ASSUME TypeInv, NEW w \in Workers,
           \/ Recover(w) \/ Claim(w) \/ Look(w) \/ Post(w) \/ Record(w) \/ Save(w) \/ Confirm(w)
           \/ Crash(w) \/ BeginCycle(w, "projection") \/ BeginCycle(w, "enrollment")
    PROVE  worker'[w].pc \notin Reading
<1>0. worker \in [Workers -> Cycle]
  BY DEF TypeInv, TypeOK
<1>1. \A x : SetsCycle(w, x) => worker'[w] = x
  BY <1>0 DEF SetsCycle
<1>2. CASE Look(w)
  BY <1>1, <1>2, LookStep DEF Looked, Reading
<1>3. CASE Post(w)
  BY <1>1, <1>3, PostStep DEF Posts, Reading
<1>4. CASE Record(w)
  BY <1>1, <1>4, RecordStep, IdleCycle DEF Records, Reading
<1>5. CASE Save(w)
  BY <1>1, <1>5, SaveStep DEF Saves, GoesOn, Reading
<1>6. CASE Claim(w)
  BY <1>1, <1>6, ClaimStep DEF Claims, Reading
<1>7. CASE Recover(w) \/ Confirm(w)
  <2>1. worker[w].pc \in {"recover", "confirm"}
    BY <1>7 DEF Recover, Confirm, At
  <2> QED BY <1>1, <1>7, <2>1, AckStep, IdleCycle DEF Acknowledges, Reading
<1>8. CASE Crash(w)
  BY <1>0, <1>8, IdleCycle DEF Crash, Ends, Reading
<1>9. CASE BeginCycle(w, "projection") \/ BeginCycle(w, "enrollment")
  BY <1>1, <1>9, BeginStep DEF Begins, Reading
<1> QED BY <1>2, <1>3, <1>4, <1>5, <1>6, <1>7, <1>8, <1>9

(* Only a worker's own steps change its cycle. *)
LEMMA OthersStay ==
    ASSUME TypeInv, NEW w \in Workers, NEW v \in Workers, v # w,
           \/ Step(w) \/ Stall(w) \/ Crash(w)
           \/ BeginCycle(w, "projection") \/ BeginCycle(w, "enrollment")
    PROVE  worker'[v] = worker[v]
<1>0. worker \in [Workers -> Cycle]
  BY DEF TypeInv, TypeOK
<1>1. \A x : SetsCycle(w, x) => worker'[v] = worker[v]
  BY <1>0 DEF SetsCycle
<1>2. CASE Step(w)
  BY <1>1, <1>2, LookStep, PostStep, RecordStep, SaveStep, ClaimStep, AckStep, ReadStep DEF Step
<1>3. CASE Stall(w)
  BY <1>0, <1>3 DEF Stall
<1>4. CASE Crash(w)
  BY <1>0, <1>4 DEF Crash, Ends
<1>5. CASE BeginCycle(w, "projection") \/ BeginCycle(w, "enrollment")
  BY <1>1, <1>5, BeginStep
<1> QED BY <1>2, <1>3, <1>4, <1>5

LEMMA ReadingSteps ==
    ASSUME TypeInv, [Next]_vars, NEW v \in Workers, worker'[v].pc \in Reading
    PROVE  StaysAt(v) \/ Fetches(v) \/ Follows(v)
<1>0. worker \in [Workers -> Cycle] /\ worker[v] \in Cycle
  BY DEF TypeInv, TypeOK
<1>1. CASE worker'[v] = worker[v]
  BY <1>1 DEF StaysAt
<1>2. CASE Step(v)
  BY <1>2, PollSteps, OtherSteps DEF Step
<1>3. CASE Stall(v)
  <2>1. worker'[v].pc = worker[v].pc /\ worker'[v].update = worker[v].update
    BY <1>0, <1>3 DEF Stall, Cycle
  <2> QED BY <2>1 DEF StaysAt
<1>4. CASE Crash(v) \/ BeginCycle(v, "projection") \/ BeginCycle(v, "enrollment")
  BY <1>4, OtherSteps
<1>5. ASSUME NEW w \in Workers,
             \/ Step(w) \/ Stall(w) \/ Crash(w)
             \/ BeginCycle(w, "projection") \/ BeginCycle(w, "enrollment")
      PROVE  StaysAt(v) \/ Fetches(v) \/ Follows(v)
  BY <1>1, <1>2, <1>3, <1>4, <1>5, OthersStay
<1>6. CASE \/ \E r \in Rows : RowLeaseExpires(r)
           \/ Arriving \/ Issues \/ Platform \/ UNCHANGED vars
  <2>1. UNCHANGED worker
    BY <1>6 DEF RowLeaseExpires, Arriving, UserPresses, UserConfirms, UserWrites, Arrives,
                Issues, Platform, vars
  <2> QED BY <1>1, <2>1
<1> QED BY <1>5, <1>6 DEF Next, Arriving

----------------------------------------------------------------------------
(* A pass that stands at an update has seen all before it reported.        *)
ReportedBefore ==
    /\ \A u \in 1..cursor : reported[u] # "none"
    /\ \A w \in Workers : worker[w].pc \in Reading =>
         \A u \in 1..(worker[w].update - 1) : reported[u] # "none"

(* No report is taken back. *)
LEMMA ReportsStay ==
    ASSUME TypeInv, [Next]_vars, NEW u \in Updates, reported[u] # "none"
    PROVE  reported'[u] # "none"
<1>1. reported \in [Updates -> {"none", "applied", "rejected"}]
  BY DEF TypeInv, TypeOK
<1> QED BY <1>1, CursorSteps, ReportRows

LEMMA ReportedNext ==
    ASSUME TypeInv, ReportedBefore, [Next]_vars
    PROVE  ReportedBefore'
<1>0. /\ cursor \in Nat /\ cursor <= MaxUpdates /\ Updates = 1..MaxUpdates
      /\ reported \in [Updates -> {"none", "applied", "rejected"}]
      /\ \A w \in Workers : worker[w].update \in 0..MaxUpdates
  BY OutboxAssumption DEF TypeInv, TypeOK, Updates, Cycle
<1>1. MaxUpdates \in Nat
  BY OutboxAssumption
<1>2. \A u \in 1..cursor' : reported'[u] # "none"
  <2>1. CASE UNCHANGED <<cursor, reported>>
    BY <2>1 DEF ReportedBefore
  <2>2. ASSUME NEW w \in Workers, NEW report \in {"applied", "rejected"}, Reports(w, report)
        PROVE  \A u \in 1..cursor' : reported'[u] # "none"
    <3>1. CASE /\ cursor' = worker[w].update
               /\ reported' = [reported EXCEPT ![worker[w].update] = report]
      <4>1. worker[w].pc \in Reading /\ worker[w].update \in Updates
        BY <2>2, ReportRows
      <4>2. \A u \in 1..(worker[w].update - 1) : reported[u] # "none"
        BY <4>1 DEF ReportedBefore
      <4>3. ASSUME NEW u \in 1..worker[w].update
            PROVE  reported'[u] # "none"
        <5>1. u \in Updates /\ (u = worker[w].update \/ u \in 1..(worker[w].update - 1))
          BY <1>0, <1>1, <4>1
        <5> QED BY <1>0, <3>1, <4>1, <4>2, <5>1
      <4> QED BY <3>1, <4>3
    <3> QED BY <2>1, <2>2, <3>1, ReportRows
  <2> QED BY <2>1, <2>2, CursorSteps
<1>3. ASSUME NEW w \in Workers, worker'[w].pc \in Reading, NEW u \in 1..(worker'[w].update - 1)
      PROVE  reported'[u] # "none"
  <2>1. CASE StaysAt(w)
    <3>1. reported[u] # "none" /\ u \in Updates
      BY <1>0, <1>1, <1>3, <2>1 DEF StaysAt, ReportedBefore
    <3> QED BY <3>1, ReportsStay
  <2>2. CASE Fetches(w)
    BY <1>0, <1>3, <2>2 DEF Fetches, ReportedBefore
  <2>3. CASE Follows(w)
    <3>1. u \in 1..worker[w].update
      BY <1>0, <1>3, <2>3 DEF Follows
    <3>2. CASE u = worker[w].update
      BY <2>3, <3>2 DEF Follows
    <3>3. CASE u # worker[w].update
      <4>1. u \in 1..(worker[w].update - 1) /\ u \in Updates
        BY <1>0, <1>1, <3>1, <3>3
      <4>2. reported[u] # "none"
        BY <2>3, <4>1 DEF Follows, ReportedBefore
      <4> QED BY <4>1, <4>2, ReportsStay
    <3> QED BY <3>2, <3>3
  <2> QED BY <1>3, <2>1, <2>2, <2>3, ReadingSteps
<1> QED BY <1>2, <1>3 DEF ReportedBefore

(* The cursor passes no update that no pass has reported on, however many  *)
(* passes overlap, defer, die and start again (poll_once, _advance).       *)
THEOREM NothingSkipped == Spec => []NoUpdateSkipped
<1>1. Init => ReportedBefore
  BY IdleCycle DEF Init, ReportedBefore, Reading
<1>2. TypeInv /\ ReportedBefore /\ [Next]_vars => ReportedBefore'
  BY ReportedNext
<1>3. ReportedBefore => NoUpdateSkipped
  BY DEF ReportedBefore, NoUpdateSkipped
<1> QED BY <1>1, <1>2, <1>3, TypeInvariant, PTL DEF Spec

----------------------------------------------------------------------------
(* Receipts and nonces. *)

Spent == {"CONSUMED", "EXPIRED"}

(* A receipt belongs to an update that arrived and names an issued nonce,  *)
(* for a press the one of its button; the nonce of an applied receipt is   *)
(* spent, and no other applied receipt names it.                           *)
ReceiptsSound ==
    /\ \A u \in Updates : receipt[u].state # "none" =>
         /\ u \in 1..Len(inbox)
         /\ inbox[u].kind = "press" => receipt[u].nonce = inbox[u].nonce
    /\ \A u \in Updates : receipt[u].nonce # 0 =>
         receipt[u].nonce \in Nonces /\ nonce[receipt[u].nonce].state # "none"
    /\ \A u \in Updates : Applied(u) /\ receipt[u].nonce # 0 =>
         nonce[receipt[u].nonce].state \in Spent
    /\ \A u, v \in Updates :
         Applied(u) /\ Applied(v) /\ receipt[u].nonce = receipt[v].nonce
            /\ receipt[u].nonce # 0 => u = v

(* A nonce that was issued stays issued with its action, and a spent one   *)
(* stays spent.                                                            *)
LEMMA NoncesStay ==
    ASSUME TypeInv, [Next]_vars, NEW n \in Nonces, nonce[n].state # "none"
    PROVE  /\ nonce'[n].state # "none" /\ nonce'[n].action = nonce[n].action
           /\ nonce[n].state \in Spent => nonce'[n].state \in Spent
<1>1. CASE UNCHANGED nonce
  BY <1>1
<1>2. ASSUME NEW w \in Workers, Receives(w)
      PROVE  /\ nonce'[n].state # "none" /\ nonce'[n].action = nonce[n].action
             /\ nonce[n].state \in Spent => nonce'[n].state \in Spent
  <2>1. ASSUME NEW m \in Nonces, NEW by \in {"callback", "message"}, Spends(w, m, by)
        PROVE  /\ nonce'[n].state # "none" /\ nonce'[n].action = nonce[n].action
               /\ nonce[n].state \in Spent => nonce'[n].state \in Spent
    <3>1. /\ nonce'[m].state = NonceAfter(m) /\ nonce'[m].action = nonce[m].action
          /\ \A q \in Nonces \ {m} : nonce'[q] = nonce[q]
      BY <1>2, <2>1, SpendRows, ReceivesRows DEF Spends, TypeInv, TypeOK
    <3>2. NonceAfter(m) # "none" /\ (nonce[m].state \in Spent => NonceAfter(m) \in Spent)
      BY <2>1 DEF NonceAfter, AuthorizeNonceActor, Spent, Spends
    <3> QED BY <3>1, <3>2
  <2> QED BY <1>1, <1>2, <2>1, ReceivesRows
<1>3. ASSUME NEW w \in Workers, Enrolls(w)
      PROVE  UNCHANGED nonce
  BY <1>3, EnrollsRows
<1>4. ASSUME NEW m \in Nonces, NonceExpires(m)
      PROVE  nonce'[n].state = nonce[n].state /\ nonce'[n].action = nonce[n].action
  BY <1>4, LateRows
<1>5. ASSUME NEW k \in Tokens, NEW action \in Actions, NEW m \in Nonces,
             IssueNonce(k, action, m)
      PROVE  nonce'[n] = nonce[n]
  BY <1>5, IssueRows
<1> QED BY <1>1, <1>2, <1>3, <1>4, <1>5, ProtocolSteps DEF StartEnrollment, TokenExpires

(* The inbox only grows. *)
LEMMA InboxGrows ==
    ASSUME TypeInv, [Next]_vars, NEW u \in 1..Len(inbox)
    PROVE  u \in 1..Len(inbox') /\ inbox'[u] = inbox[u]
<1>0. inbox \in Seq(Update) /\ Len(inbox) \in Nat
  BY DEF TypeInv, TypeOK
<1>1. CASE UNCHANGED inbox
  BY <1>1
<1>2. CASE Arriving
  <2>1. PICK update \in Update : inbox' = Append(inbox, update)
    BY <1>2, ArrivingUpdate DEF Arrives
  <2> QED BY <1>0, <2>1
<1>3. ASSUME NEW w \in Workers, Step(w)
      PROVE  UNCHANGED inbox
  BY <1>3 DEF Step, Recover, Claim, Look, Post, Record, Save, Confirm, Poll, Consume, Enroll,
              Effect, Reply, Advance, inboundSide
<1>4. ASSUME \/ \E w \in Workers : Stall(w) \/ Crash(w)
             \/ \E w \in Workers : BeginCycle(w, "projection") \/ BeginCycle(w, "enrollment")
             \/ \E r \in Rows : RowLeaseExpires(r)
             \/ Issues \/ Platform \/ UNCHANGED vars
      PROVE  UNCHANGED inbox
  BY <1>4 DEF Stall, Crash, BeginCycle, RowLeaseExpires, Issues, Platform, vars, inboundSide
<1> QED BY <1>1, <1>2, <1>3, <1>4 DEF Next, Arriving

LEMMA SoundNext ==
    ASSUME TypeInv, ReceiptsSound, [Next]_vars
    PROVE  ReceiptsSound'
<1>0. /\ InboundTypeOK /\ receipt \in [Updates -> ReceiptRow] /\ Nonces = 1..MaxNonces
  BY InboundRows DEF TypeInv, TypeOK, Nonces
<1>1. CASE UNCHANGED receipt
  <2>1. \A n \in Nonces : nonce[n].state # "none" =>
            /\ nonce'[n].state # "none"
            /\ nonce[n].state \in Spent => nonce'[n].state \in Spent
    BY NoncesStay
  <2>2. \A u \in 1..Len(inbox) : u \in 1..Len(inbox') /\ inbox'[u] = inbox[u]
    BY InboxGrows
  <2> QED BY <1>1, <2>1, <2>2 DEF ReceiptsSound, Applied, Spent
<1>2. ASSUME NEW w \in Workers, Receives(w)
      PROVE  ReceiptsSound'
  <2>u. PICK u : u = worker[w].update
    OBVIOUS
  <2>0. /\ u \in Updates /\ u \in 1..Len(inbox)
        /\ \A v \in Updates \ {u} : receipt'[v] = receipt[v]
        /\ UNCHANGED inbox /\ Current(w) = inbox[u]
    BY <1>2, <2>u, ReceivesRows DEF Receives, FirstDelivery, Current
  <2>1. ASSUME NEW n \in Nonces, NEW by \in {"callback", "message"}, Spends(w, n, by)
        PROVE  ReceiptsSound'
    <3>1. /\ receipt'[u].nonce = n
          /\ receipt'[u].state = IF AuthorizeNonceActor(n) THEN "APPLIED" ELSE "REJECTED"
          /\ nonce'[n].state = NonceAfter(n)
      BY <1>0, <2>0, <2>1, <2>u, SpendRows DEF Spends
    <3>2. nonce[n].state # "none" /\ (inbox[u].kind = "press" => n = inbox[u].nonce)
      BY <2>0, <2>1, <2>u DEF Spends
    <3>3. Applied(u)' => nonce[n].state = "ISSUED" /\ nonce'[n].state = "CONSUMED"
      <4>1. CASE AuthorizeNonceActor(n)
        BY <3>1, <4>1 DEF AuthorizeNonceActor, NonceAfter
      <4>2. CASE ~AuthorizeNonceActor(n)
        <5>1. receipt'[u].state = "REJECTED"
          BY <3>1, <4>2
        <5> QED BY <5>1 DEF Applied
      <4> QED BY <4>1, <4>2
    <3>4. ASSUME NEW v \in Updates, v # u, Applied(v)', receipt'[v].nonce # 0
          PROVE  receipt[v].nonce \in Nonces /\ nonce[receipt[v].nonce].state \in Spent
      BY <2>0, <3>4 DEF ReceiptsSound, Applied
    <3>5. ASSUME NEW v \in Updates, v # u, Applied(v)', receipt'[v].nonce = n, Applied(u)'
          PROVE  FALSE
      <4>1. n # 0
        BY <1>0
      <4>2. nonce[n].state \in Spent
        BY <2>0, <3>4, <3>5, <4>1
      <4> QED BY <3>3, <3>5, <4>2 DEF Spent
    <3>6. \A m \in Nonces : nonce[m].state # "none" =>
            /\ nonce'[m].state # "none"
            /\ nonce[m].state \in Spent => nonce'[m].state \in Spent
      BY NoncesStay
    <3>7. \A v \in Updates : receipt'[v].state # "none" =>
            /\ v \in 1..Len(inbox')
            /\ inbox'[v].kind = "press" => receipt'[v].nonce = inbox'[v].nonce
      BY <2>0, <3>1, <3>2 DEF ReceiptsSound
    <3>8. \A v \in Updates : receipt'[v].nonce # 0 =>
            receipt'[v].nonce \in Nonces /\ nonce'[receipt'[v].nonce].state # "none"
      BY <2>0, <3>1, <3>2, <3>6 DEF ReceiptsSound
    <3>9. \A v \in Updates : Applied(v)' /\ receipt'[v].nonce # 0 =>
            nonce'[receipt'[v].nonce].state \in Spent
      <4> SUFFICES ASSUME NEW v \in Updates, Applied(v)', receipt'[v].nonce # 0
                   PROVE  nonce'[receipt'[v].nonce].state \in Spent
        OBVIOUS
      <4>1. CASE v = u
        <5>1. Applied(u)' /\ receipt'[v].nonce = n
          BY <3>1, <4>1 DEF Applied
        <5>2. nonce'[n].state = "CONSUMED"
          BY <3>3, <5>1
        <5> QED BY <5>1, <5>2 DEF Spent
      <4>2. CASE v # u
        BY <2>0, <3>4, <3>6, <4>2 DEF Spent
      <4> QED BY <4>1, <4>2
    <3>10. \A x, y \in Updates :
             Applied(x)' /\ Applied(y)' /\ receipt'[x].nonce = receipt'[y].nonce
                /\ receipt'[x].nonce # 0 => x = y
      <4> SUFFICES ASSUME NEW x \in Updates, NEW y \in Updates, Applied(x)', Applied(y)',
                          receipt'[x].nonce = receipt'[y].nonce, receipt'[x].nonce # 0, x # y
                   PROVE  FALSE
        OBVIOUS
      <4>1. CASE x = u
        <5>1. Applied(u)' /\ y # u /\ receipt'[y].nonce = n
          BY <3>1, <4>1 DEF Applied
        <5> QED BY <3>5, <5>1
      <4>2. CASE y = u
        <5>1. Applied(u)' /\ x # u /\ receipt'[x].nonce = n
          BY <3>1, <4>2 DEF Applied
        <5> QED BY <3>5, <5>1
      <4>3. CASE x # u /\ y # u
        BY <2>0, <4>3 DEF ReceiptsSound, Applied
      <4> QED BY <4>1, <4>2, <4>3
    <3> QED BY <3>7, <3>8, <3>9, <3>10 DEF ReceiptsSound
  <2>2. ASSUME Current(w).kind # "press", UNCHANGED nonce, receipt'[u].nonce = 0
        PROVE  ReceiptsSound'
    BY <2>0, <2>2 DEF ReceiptsSound, Applied
  <2> QED BY <1>2, <2>1, <2>2, <2>u, ReceivesRows
<1>3. ASSUME NEW w \in Workers, Enrolls(w)
      PROVE  ReceiptsSound'
  <2> DEFINE u == worker[w].update
  <2>0. /\ u \in Updates /\ u \in 1..Len(inbox) /\ inbox[u].kind = "text"
        /\ \A v \in Updates \ {u} : receipt'[v] = receipt[v]
        /\ UNCHANGED <<inbox, nonce>> /\ receipt'[u].nonce = 0
    BY <1>3, EnrollsRows DEF Enrolls, FirstDelivery, Current
  <2> QED BY <2>0 DEF ReceiptsSound, Applied
<1> QED BY <1>1, <1>2, <1>3, ProtocolSteps
        DEF StartEnrollment, TokenExpires, NonceExpires, IssueNonce

(* A row comes into being as a reply, or as the notice of an APPROVE that  *)
(* spends its nonce in the same step.                                      *)
Approves(w, n, by) ==
    /\ Receives(w) /\ Spends(w, n, by)
    /\ AuthorizeNonceActor(n) /\ nonce[n].action = "APPROVE"

LEMMA Untouched ==
    ASSUME TypeInv, NEW q \in Rows, NEW r \in Rows, ~Present(r), Present(q),
           NEW row, outbox' = [outbox EXCEPT ![q] = row]
    PROVE  ~Present(r)'
<1>1. outbox \in [Rows -> OutboxRow] /\ q # r
  BY BoxType DEF Present
<1>2. outbox'[r] = outbox[r]
  BY <1>1
<1> QED BY <1>2 DEF Present

LEMMA PresentSteps ==
    ASSUME TypeInv, [Next]_vars, NEW r \in Rows, ~Present(r), Present(r)'
    PROVE  \E w \in Workers :
              \/ Reply(w) /\ r = ReplyRow(worker[w].update)
              \/ /\ r = IntentRow(worker[w].update)
                 /\ \E n \in Nonces, by \in {"callback", "message"} : Approves(w, n, by)
<1>0. outbox \in [Rows -> OutboxRow]
  BY BoxType
<1>1. outbox' # outbox
  BY DEF Present
<1>2. ASSUME NEW q \in Rows, outbox' = Enqueued(outbox, q)
      PROVE  q = r
  <2>1. q # r => outbox'[r] = outbox[r]
    BY <1>0, <1>2 DEF Enqueued
  <2> QED BY <2>1 DEF Present
<1>3. ASSUME NEW w \in Workers, Recover(w) \/ Confirm(w) \/ Save(w)
      PROVE  FALSE
  <2>0. Row(w) \in Rows /\ Present(Row(w))
    BY <1>3, CurrentRow DEF Recover, Confirm, Save, At, Batch, Delivering
  <2>1. ASSUME Acknowledge(Row(w))
        PROVE  FALSE
    BY <2>0, <2>1, Untouched DEF Acknowledge
  <2>2. ASSUME NEW st, NEW attempt, NEW id, SaveCopy(Row(w), st, attempt, id)
        PROVE  FALSE
    BY <2>0, <2>2, Untouched DEF SaveCopy
  <2>3. CASE Save(w)
    BY <2>2, <2>3 DEF Save, SaveSent, SaveDeferred, SaveFailed
  <2>4. CASE Recover(w) \/ Confirm(w)
    BY <1>1, <2>1, <2>4 DEF Recover, Confirm, AcknowledgeNext
  <2> QED BY <1>3, <2>3, <2>4
<1>4. ASSUME NEW w \in Workers, Claim(w)
      PROVE  FALSE
  <2>1. ClaimBatch
    BY <1>4 DEF Claim
  <2>2. r \notin DueRows
    BY DueSent DEF Claimable, Present
  <2>3. outbox'[r] = outbox[r]
    BY <2>1, <2>2, BoxClaim
  <2> QED BY <2>3 DEF Present
<1>5. ASSUME NEW q \in Rows, RowLeaseExpires(q)
      PROVE  FALSE
  <2>1. Present(q)
    BY <1>5 DEF RowLeaseExpires, Present
  <2>2. outbox'[r] = outbox[r]
    BY <1>5, <2>1, BoxExpires
  <2> QED BY <2>2 DEF Present
<1>6. ASSUME NEW w \in Workers, Reply(w)
      PROVE  r = ReplyRow(worker[w].update)
  <2>1. ReplyRow(worker[w].update) \in Rows
    BY <1>6, CurrentUpdate DEF Reply, At, Reading
  <2> QED BY <1>2, <1>6, <2>1 DEF Reply
<1>7. ASSUME NEW w \in Workers, Consume(w)
      PROVE  /\ r = IntentRow(worker[w].update)
             /\ \E n \in Nonces, by \in {"callback", "message"} : Approves(w, n, by)
  <2>1. worker[w].pc = "consume" /\ UNCHANGED inbox
    BY <1>7 DEF Consume, At
  <2>2. ~Refuse(w) /\ ~UNCHANGED outboxVars
    BY <1>1 DEF Refuse, outboxVars
  <2>3. Receives(w)
    <3>1. /\ receipt[worker[w].update].state = "none" /\ ReceiveNew(w)
          /\ Current(w).kind = "press" => KnownPress(Current(w))
      BY <1>7, <2>2 DEF Consume
    <3> QED BY <2>1, <3>1 DEF ReceiveNew, Received, Receives, FirstDelivery
  <2>4. PICK n \in Nonces, by \in {"callback", "message"} : Spends(w, n, by)
    BY <1>1, <2>3, ReceivesRows
  <2>5. AuthorizeNonceActor(n) /\ nonce[n].action = "APPROVE"
    BY <1>1, <2>4 DEF Spends, SpendNonce
  <2>6. outbox' = Enqueued(outbox, IntentRow(worker[w].update))
    BY <2>4, <2>5 DEF Spends, SpendNonce
  <2>7. IntentRow(worker[w].update) \in Rows
    BY <2>1, CurrentUpdate DEF Reading
  <2> QED BY <1>2, <2>3, <2>4, <2>5, <2>6, <2>7 DEF Approves
<1>8. ASSUME \/ \E w \in Workers : \/ Look(w) \/ Post(w) \/ Record(w) \/ Poll(w) \/ Enroll(w)
                                   \/ Effect(w) \/ Advance(w) \/ Stall(w) \/ Crash(w)
                                   \/ BeginCycle(w, "projection") \/ BeginCycle(w, "enrollment")
             \/ Arriving \/ Issues \/ Platform \/ UNCHANGED vars
      PROVE  UNCHANGED outbox
  BY <1>8, ZenonT(30)
     DEF Look, Post, Record, Poll, Enroll, Refuse, Effect, Advance, Stall, Crash, BeginCycle,
         Arriving, UserPresses, UserConfirms, UserWrites, Arrives, Issues, Platform, vars,
         outboxVars
<1> QED BY <1>1, <1>3, <1>4, <1>5, <1>6, <1>7, <1>8 DEF Next, Step, Arriving

(* Every notice of an intent has its receipt. *)
IntentsEarned ==
    \A u \in Updates : Present(IntentRow(u)) =>
        /\ Applied(u)
        /\ receipt[u].nonce # 0
        /\ nonce[receipt[u].nonce].action = "APPROVE"

LEMMA EarnedNext ==
    ASSUME TypeInv, ReceiptsSound, IntentsEarned, [Next]_vars
    PROVE  IntentsEarned'
<1> SUFFICES ASSUME NEW u \in Updates, Present(IntentRow(u))'
             PROVE  /\ Applied(u)' /\ receipt'[u].nonce # 0
                    /\ nonce'[receipt'[u].nonce].action = "APPROVE"
  BY DEF IntentsEarned, IntentRow
<1>0. /\ IntentRow(u) \in Rows /\ u \in Int /\ MaxNonces \in Nat
      /\ InboundTypeOK /\ receipt \in [Updates -> ReceiptRow]
  BY OutboxAssumption, InboundAssumption, InboundRows
     DEF Updates, IntentRow, Rows, TypeInv, TypeOK
<1>1. CASE Present(IntentRow(u))
  <2>1. /\ Applied(u) /\ receipt[u].nonce # 0 /\ receipt[u].nonce \in Nonces
        /\ nonce[receipt[u].nonce].action = "APPROVE"
        /\ nonce[receipt[u].nonce].state # "none"
    BY <1>1 DEF IntentsEarned, ReceiptsSound
  <2>2. receipt'[u] = receipt[u]
    BY <2>1, ReceiptKept DEF Applied
  <2>3. nonce'[receipt[u].nonce].action = "APPROVE"
    BY <2>1, NoncesStay
  <2> QED BY <2>1, <2>2, <2>3 DEF Applied
<1>2. CASE ~Present(IntentRow(u))
  <2>1. PICK w \in Workers :
          \/ Reply(w) /\ IntentRow(u) = ReplyRow(worker[w].update)
          \/ /\ IntentRow(u) = IntentRow(worker[w].update)
             /\ \E n \in Nonces, by \in {"callback", "message"} : Approves(w, n, by)
    BY <1>0, <1>2, PresentSteps
  <2>2. ~Reply(w) \/ IntentRow(u) # ReplyRow(worker[w].update)
    <3>1. SUFFICES ASSUME Reply(w)
                   PROVE  IntentRow(u) # ReplyRow(worker[w].update)
      OBVIOUS
    <3>2. worker[w].update \in Int
      BY <3>1, CurrentUpdate, OutboxAssumption DEF Reply, At, Reading, Updates
    <3> QED BY <1>0, <3>2 DEF IntentRow, ReplyRow
  <2>3. PICK n \in Nonces, by \in {"callback", "message"} : Approves(w, n, by)
    BY <2>1, <2>2
  <2>4. worker[w].update \in Updates
    BY <2>3, ReceivesRows DEF Approves
  <2>5. worker[w].update = u
    BY <1>0, <2>1, <2>2, <2>4, OutboxAssumption DEF IntentRow, Updates
  <2>6. /\ receipt'[u].nonce = n /\ nonce'[n].action = nonce[n].action
        /\ receipt'[u].state = "APPLIED"
    BY <1>0, <2>3, <2>5, SpendRows DEF Approves, Spends
  <2>7. n # 0
    BY <1>0 DEF Nonces
  <2> QED BY <2>3, <2>6, <2>7 DEF Applied, Approves
<1> QED BY <1>1, <1>2

LEMMA SoundInit == Init => ReceiptsSound /\ IntentsEarned
<1> SUFFICES ASSUME Init PROVE ReceiptsSound /\ IntentsEarned
  OBVIOUS
<1>1. \A u \in Updates : receipt[u].state = "none" /\ receipt[u].nonce = 0
  BY DEF Init, InboundInit, NoReceipt
<1>2. \A u \in Updates : IntentRow(u) \in Rows
  BY OutboxAssumption DEF IntentRow, Rows, Updates
<1>3. \A r \in Rows : ~Present(r)
  BY DEF Init, OutboxInit, NewRow, Present
<1> QED BY <1>1, <1>2, <1>3 DEF ReceiptsSound, IntentsEarned, Applied

(* A nonce authorizes at most one action, over buttons, confirmations,     *)
(* redeliveries and overlapping passes, and every authorization intent     *)
(* has a nonce of its own that was spent on APPROVE (receive_callback,     *)
(* receive_private_message).                                               *)
THEOREM NonceOnce == Spec => []NonceSpentOnce
<1>1. Init => ReceiptsSound /\ IntentsEarned
  BY SoundInit
<1>2. TypeInv /\ ReceiptsSound /\ IntentsEarned /\ [Next]_vars => (ReceiptsSound /\ IntentsEarned)'
  BY SoundNext, EarnedNext
<1>3. ReceiptsSound /\ IntentsEarned => NonceSpentOnce
  BY DEF ReceiptsSound, IntentsEarned, NonceSpentOnce, Present
<1> QED BY <1>1, <1>2, <1>3, TypeInvariant, PTL DEF Spec

----------------------------------------------------------------------------
(* Presses.  What a press decided stays decided.                           *)

Press(u) == inbox[u].kind = "press"

Decided(u) ==
    LET n == inbox[u].nonce
    IN  /\ nonce[n].state # "none"
        /\ nonce[n].action # "APPROVE" => candidate = Target(nonce[n].action)

(* A press gets to its report only after its effect. *)
PressesDecided ==
    /\ \A w \in Workers : worker[w].pc \in {"reply", "advance"} /\ Press(worker[w].update)
          => Decided(worker[w].update)
    /\ \A u \in 1..Len(inbox) : Press(u) /\ reported[u] = "applied" => Decided(u)
    /\ \A u \in Updates : reported[u] # "none" => u \in 1..Len(inbox)

(* A candidate that is decided or expired stays as it is. *)
LEMMA CandidateFinal ==
    ASSUME [Next]_vars, candidate # "active"
    PROVE  candidate' = candidate
<1>1. ASSUME NEW action, ActionLegal(action), ApplyAuthorizedAction(action)
      PROVE  candidate' = candidate
  BY <1>1 DEF ActionLegal, TransitionLegal, ApplyAuthorizedAction
<1>2. ASSUME NEW w \in Workers, Effect(w)
      PROVE  candidate' = candidate
  <2>1. \/ UNCHANGED candidate
        \/ \E action : ActionLegal(action) /\ ApplyAuthorizedAction(action)
    BY <1>2, ZenonT(30) DEF Effect, PressEffect, MessageEffect
  <2> QED BY <1>1, <2>1
<1>3. ASSUME NEW w \in Workers, Step(w), ~Effect(w)
      PROVE  candidate' = candidate
  BY <1>3 DEF Step, Recover, Claim, Look, Post, Record, Save, Confirm, Poll, Consume, Enroll,
              Reply, Advance, Refuse, ReceiveNew, SpendNonce, ReceiveConfirmation,
              ReceiveDiscussion, SaveReceipt, CompleteEnrollment, inboundSide, inboundVars
<1>4. ASSUME \/ \E w \in Workers : Stall(w) \/ Crash(w)
             \/ \E w \in Workers : BeginCycle(w, "projection") \/ BeginCycle(w, "enrollment")
             \/ \E r \in Rows : RowLeaseExpires(r)
             \/ Arriving \/ UNCHANGED vars
      PROVE  candidate' = candidate
  BY <1>4 DEF Stall, Crash, BeginCycle, RowLeaseExpires, Arriving, UserPresses, UserConfirms,
              UserWrites, Arrives, vars, inboundSide, inboundVars
<1>5. CASE Issues \/ Platform
  BY <1>5 DEF Issues, Platform, IssueNonce, StartEnrollment, TokenExpires, NonceExpires,
              CandidateExpires
<1> QED BY <1>2, <1>3, <1>4, <1>5 DEF Next, Arriving

LEMMA DecidedStays ==
    ASSUME TypeInv, [Next]_vars, NEW u \in 1..Len(inbox), Press(u), Decided(u)
    PROVE  Press(u)' /\ Decided(u)'
<1> DEFINE n == inbox[u].nonce
<1>1. inbox[u] \in Update /\ inbox'[u] = inbox[u]
  BY InboxGrows DEF TypeInv, TypeOK
<1>2. n \in Nonces
  BY <1>1, UpdateFields DEF Press
<1>3. nonce'[n].state # "none" /\ nonce'[n].action = nonce[n].action
  BY <1>2, NoncesStay DEF Decided
<1>4. nonce[n].action # "APPROVE" => candidate' = candidate
  BY CandidateFinal DEF Decided, Target
<1> QED BY <1>1, <1>3, <1>4 DEF Press, Decided

LEMMA EffectDecides ==
    ASSUME TypeInv, ReceiptsSound, NEW w \in Workers, Effect(w), Press(worker[w].update),
           worker'[w].pc \in {"reply", "advance"}
    PROVE  LET n == inbox[worker[w].update].nonce
           IN  /\ nonce[n].state # "none" /\ UNCHANGED <<nonce, inbox>>
               /\ nonce[n].action # "APPROVE" => candidate' = Target(nonce[n].action)
<1> DEFINE u == worker[w].update
           n == inbox[u].nonce
<1>0. /\ worker \in [Workers -> Cycle] /\ ~Ends(w) /\ u \in Updates /\ worker[w].pc = "effect"
      /\ u \in 1..Len(inbox)
  BY IdleCycle, CurrentUpdate DEF TypeInv, TypeOK, Ends, Effect, At, Reading
<1>1. PressEffect(w) /\ UNCHANGED <<nonce, inbox>>
  BY DEF Effect, Press, Current
<1>2. /\ receipt[u].state = "APPLIED"
      /\ ApplyAuthorizedAction(nonce[receipt[u].nonce].action)
  BY <1>0, <1>1 DEF PressEffect
<1>3. receipt[u].nonce = n
  BY <1>0, <1>2 DEF ReceiptsSound, Press
<1>4. n \in Nonces
  BY <1>0, UpdateFields DEF Press, TypeInv, TypeOK
<1>5. nonce[n].state # "none"
  BY <1>0, <1>3, <1>4, InboundAssumption DEF ReceiptsSound, Nonces
<1> QED BY <1>1, <1>2, <1>3, <1>5 DEF ApplyAuthorizedAction

LEMMA DecidedNext ==
    ASSUME TypeInv, ReceiptsSound, PressesDecided, [Next]_vars
    PROVE  PressesDecided'
<1>0. /\ worker \in [Workers -> Cycle] /\ inbox \in Seq(Update)
      /\ reported \in [Updates -> {"none", "applied", "rejected"}]
      /\ Updates = 1..MaxUpdates /\ MaxUpdates \in Nat
      /\ Len(inbox) \in Nat /\ Len(inbox) <= MaxUpdates
      /\ \A u \in 1..Len(inbox) : u \in 1..Len(inbox') /\ inbox'[u] = inbox[u]
  BY InboxGrows, OutboxAssumption DEF TypeInv, TypeOK, Updates
<1>1. ASSUME NEW w \in Workers, worker'[w].pc \in {"reply", "advance"},
             Press(worker[w].update)'
      PROVE  Decided(worker[w].update)'
  <2>1. StaysAt(w)
    BY <1>1, ReadingSteps DEF Reading, Fetches, Follows
  <2>2. PICK u : u = worker[w].update /\ u = worker'[w].update
    BY <2>1 DEF StaysAt
  <2>3. u \in 1..Len(inbox) /\ Press(u)
    BY <1>0, <1>1, <2>1, <2>2, CurrentUpdate DEF StaysAt, Press
  <2>4. CASE worker[w].pc \in {"reply", "advance"}
    <3>1. Decided(u)
      BY <2>2, <2>3, <2>4 DEF PressesDecided
    <3>2. Decided(u)'
      BY <2>3, <3>1, DecidedStays
    <3> QED BY <2>2, <3>2 DEF Decided
  <2>5. CASE Effect(w)
    <3>1. Press(worker[w].update)
      BY <2>2, <2>3
    <3>2. LET n == inbox[u].nonce
          IN  /\ nonce[n].state # "none" /\ UNCHANGED <<nonce, inbox>>
              /\ nonce[n].action # "APPROVE" => candidate' = Target(nonce[n].action)
      BY <1>1, <2>2, <2>5, <3>1, EffectDecides
    <3> QED BY <2>2, <3>2 DEF Decided
  <2>6. CASE Enrolls(w)
    BY <2>2, <2>3, <2>6 DEF Enrolls, Press, Current
  <2> QED BY <1>1, <2>1, <2>4, <2>5, <2>6 DEF StaysAt
<1>2. ASSUME NEW u \in 1..Len(inbox'), Press(u)', reported'[u] = "applied"
      PROVE  Decided(u)'
  <2>1. CASE UNCHANGED inbox /\ reported[u] = "applied"
    BY <1>2, <2>1, DecidedStays DEF PressesDecided, Press
  <2>2. ASSUME NEW w \in Workers, NEW report \in {"applied", "rejected"}, Reports(w, report),
               reported[u] # "applied"
        PROVE  Decided(u)'
    <3>1. /\ u = worker[w].update /\ report = "applied" /\ u \in 1..Len(inbox)
          /\ UNCHANGED inbox
      BY <1>0, <1>2, <2>2, ReportRows, SMTT(30) DEF Reports
    <3>2. worker[w].pc = "advance" /\ Press(u)
      BY <1>2, <2>2, <3>1 DEF Reports, Current, Press
    <3>3. Decided(u)
      BY <3>1, <3>2 DEF PressesDecided
    <3> QED BY <3>1, <3>2, <3>3, DecidedStays
  <2>3. CASE UNCHANGED reported /\ reported[u] = "applied"
    <3>1. CASE u \in 1..Len(inbox)
      BY <1>0, <1>2, <2>3, <3>1, DecidedStays DEF PressesDecided, Press
    <3>2. u \in Updates
      BY <1>0, <1>2, <2>3, TypeNext DEF TypeInv, TypeOK
    <3>3. CASE u \notin 1..Len(inbox)
      BY <2>3, <3>2, <3>3 DEF PressesDecided
    <3> QED BY <3>1, <3>3
  <2> QED BY <1>2, <2>1, <2>2, <2>3, CursorSteps DEF Reports
<1>3. ASSUME NEW u \in Updates, reported'[u] # "none"
      PROVE  u \in 1..Len(inbox')
  <2>1. CASE reported[u] # "none"
    BY <1>0, <2>1 DEF PressesDecided
  <2>2. ASSUME NEW w \in Workers, NEW report \in {"applied", "rejected"}, Reports(w, report),
               reported[u] = "none"
        PROVE  u \in 1..Len(inbox')
    <3>1. u = worker[w].update /\ u \in 1..Len(inbox)
      BY <1>0, <1>3, <2>2, ReportRows
    <3> QED BY <1>0, <3>1
  <2> QED BY <1>3, <2>1, <2>2, CursorSteps
<1> QED BY <1>1, <1>2, <1>3 DEF PressesDecided

(* A pressed REJECT or SKIP that was applied and that a pass has finished  *)
(* has decided the candidate, even if the process died between the receipt *)
(* and the transition and a later pass replays it (handle_callback).       *)
THEOREM PressDecides == Spec => []PressTakesEffect
<1>1. Init => ReceiptsSound /\ IntentsEarned
  BY SoundInit
<1>2. Init => PressesDecided
  BY IdleCycle DEF Init, PressesDecided
<1>3. TypeInv /\ ReceiptsSound /\ PressesDecided /\ [Next]_vars => (ReceiptsSound /\ PressesDecided)'
  BY SoundNext, DecidedNext
<1>4. TypeInv /\ PressesDecided => PressTakesEffect
  <2>1. TypeInv => inbox \in Seq(Update)
    BY DEF TypeInv, TypeOK
  <2> QED BY <2>1 DEF PressesDecided, PressTakesEffect, Sequence, Decided, Press
<1> QED BY <1>1, <1>2, <1>3, <1>4, TypeInvariant, PTL DEF Spec

----------------------------------------------------------------------------
(* Message ids.  The ledger names a message that was posted, and a pass    *)
(* carries the id it posted, then the one the ledger holds, to the row.    *)

Delivered == {"SENT", "ACKNOWLEDGED"}

IdCarried(c) ==
    LET r == Min(c.todo)
    IN  /\ c.pc = "record" => c.ids[r] \in 1..posted[r]
        /\ c.pc = "save" /\ c.result = "ok" => c.ids[r] = ledger[r] /\ ledger[r] # 0

IdsReal ==
    /\ \A r \in Rows : ledger[r] <= posted[r]
    /\ \A r \in Rows : outbox[r].state \in Delivered => outbox[r].id = ledger[r] /\ ledger[r] # 0
    /\ \A w \in Workers : IdCarried(worker[w])

(* What every step keeps of the ledger and the chat. *)
LedgerStep ==
    /\ ledger' \in [Rows -> Nat] /\ posted' \in [Rows -> Nat]
    /\ \A r \in Rows : posted'[r] >= posted[r]
    /\ \A r \in Rows : ledger[r] # 0 => ledger'[r] = ledger[r]
    /\ \A r \in Rows : ledger'[r] <= posted'[r]

SentStep ==
    \A r \in Rows : outbox'[r].state \in Delivered =>
        \/ outbox[r].state \in Delivered /\ outbox'[r].id = outbox[r].id
        \/ outbox'[r].id = ledger[r] /\ ledger[r] # 0

LEMMA DeliveryTypes ==
    ASSUME TypeInv
    PROVE  /\ outbox \in [Rows -> OutboxRow] /\ ledger \in [Rows -> Nat]
           /\ posted \in [Rows -> Nat] /\ doubt \in [Rows -> Nat]
           /\ worker \in [Workers -> Cycle]
BY DEF TypeInv, TypeOK, OutboxTypeOK, OutboxRow

LEMMA LedgerSame ==
    ASSUME TypeInv, IdsReal, UNCHANGED <<ledger, posted>>
    PROVE  LedgerStep
BY DeliveryTypes DEF LedgerStep, IdsReal

LEMMA RowsReal ==
    ASSUME TypeInv, IdsReal, LedgerStep, SentStep
    PROVE  /\ \A r \in Rows : ledger'[r] <= posted'[r]
           /\ \A r \in Rows : outbox'[r].state \in Delivered =>
                outbox'[r].id = ledger'[r] /\ ledger'[r] # 0
<1>1. ASSUME NEW r \in Rows, outbox'[r].state \in Delivered
      PROVE  outbox'[r].id = ledger'[r] /\ ledger'[r] # 0
  <2>1. outbox'[r].id = ledger[r] /\ ledger[r] # 0
    BY <1>1 DEF SentStep, IdsReal
  <2> QED BY <2>1 DEF LedgerStep
<1> QED BY <1>1 DEF LedgerStep

LEMMA CarriedStays ==
    ASSUME TypeInv, IdsReal, LedgerStep, NEW v \in Workers
    PROVE  IdCarried(worker[v])' \/ worker'[v] # worker[v]
<1> SUFFICES ASSUME worker'[v] = worker[v]
             PROVE  IdCarried(worker[v])'
  OBVIOUS
<1>1. CASE worker[v].pc \in {"record", "save"}
  <2>1. Row(v) \in Rows
    BY <1>1, CurrentRow DEF Batch, Delivering
  <2>2. /\ posted[Row(v)] \in Nat /\ posted'[Row(v)] \in Nat /\ posted'[Row(v)] >= posted[Row(v)]
        /\ ledger[Row(v)] # 0 => ledger'[Row(v)] = ledger[Row(v)]
    BY <2>1, DeliveryTypes DEF LedgerStep
  <2>3. IdCarried(worker[v])
    BY DEF IdsReal
  <2> QED BY <2>2, <2>3 DEF IdCarried, Row
<1>2. CASE worker[v].pc \notin {"record", "save"}
  BY <1>2 DEF IdCarried
<1> QED BY <1>1, <1>2

LEMMA RealStep ==
    ASSUME TypeInv, IdsReal, LedgerStep, SentStep, NEW w \in Workers, NEW x, SetsCycle(w, x),
           IdCarried(x)'
    PROVE  IdsReal'
<1>1. worker'[w] = x /\ \A v \in Workers \ {w} : worker'[v] = worker[v]
  BY DeliveryTypes DEF SetsCycle
<1>2. \A v \in Workers : IdCarried(worker[v])'
  BY <1>1, CarriedStays DEF IdCarried
<1> QED BY <1>2, RowsReal DEF IdsReal

LEMMA RealPlain ==
    ASSUME TypeInv, IdsReal, SentStep, UNCHANGED <<ledger, posted>>,
           NEW w \in Workers, NEW x, SetsCycle(w, x), x.pc \notin {"record", "save"}
    PROVE  IdsReal'
BY LedgerSame, RealStep DEF IdCarried

LEMMA RealRecord ==
    ASSUME TypeInv, IdsReal, NEW w \in Workers, Record(w)
    PROVE  IdsReal'
<1>1. PICK x : SetsCycle(w, x) /\ Records(w, x)
  BY RecordStep
<1>2. PICK r : r = Row(w) /\ r \in Rows
  BY CurrentRow DEF Record, At, Batch, Delivering
<1>3. SentStep
  BY <1>1 DEF Records, SentStep
<1>4. worker[w].ids[r] \in 1..posted[r]
  BY <1>2 DEF Record, At, IdsReal, IdCarried, Row
<1>5. CASE LedgerAccepts(r, worker[w].ids[r])
  <2>1. /\ ledger' = [ledger EXCEPT ![r] = worker[w].ids[r]] /\ UNCHANGED posted
        /\ x.todo = worker[w].todo /\ x.ids = worker[w].ids /\ x.pc = "save"
        /\ ledger[r] \in {0, worker[w].ids[r]}
    BY <1>1, <1>2, <1>5 DEF Records, LedgerRecord, LedgerAccepts, SameBatch
  <2>2. LedgerStep
    BY <1>2, <1>4, <2>1, DeliveryTypes DEF LedgerStep, IdsReal
  <2>3. Min(x.todo) = r /\ ledger'[r] = x.ids[r] /\ x.ids[r] # 0
    BY <1>2, <1>4, <2>1, DeliveryTypes DEF Row
  <2>4. IdCarried(x)'
    BY <2>1, <2>3 DEF IdCarried
  <2> QED BY <1>1, <1>3, <2>2, <2>4, RealStep
<1>6. CASE ~LedgerAccepts(r, worker[w].ids[r])
  BY <1>1, <1>2, <1>3, <1>6, IdleCycle, RealPlain DEF Records
<1> QED BY <1>5, <1>6

LEMMA RealPost ==
    ASSUME TypeInv, IdsReal, NEW w \in Workers, Post(w)
    PROVE  IdsReal'
<1>1. PICK x : SetsCycle(w, x) /\ Posts(w, x)
  BY PostStep
<1>2. PICK r : r = Row(w) /\ r \in Rows
  BY CurrentRow DEF Post, At, Batch, Delivering
<1>3. SentStep
  BY <1>1 DEF Posts, SentStep
<1>4. LedgerStep /\ (Reaches(r) => posted'[r] = posted[r] + 1)
  BY <1>1, <1>2, DeliveryTypes DEF Posts, Reaches, LedgerStep, IdsReal
<1>5. IdCarried(x)'
  <2>1. CASE x.pc = "record" /\ x.ids[r] = posted[r] + 1 /\ Reaches(r) /\ x.todo = worker[w].todo
    <3>1. Min(x.todo) = r /\ x.ids[r] = posted'[r] /\ posted[r] \in Nat
      BY <1>2, <1>4, <2>1, DeliveryTypes DEF Row
    <3> QED BY <2>1, <3>1 DEF IdCarried
  <2>2. CASE x.pc = "save" /\ x.result = "failed"
    BY <2>2 DEF IdCarried
  <2> QED BY <1>1, <1>2, <2>1, <2>2 DEF Posts, SameBatch
<1> QED BY <1>1, <1>3, <1>4, <1>5, RealStep

LEMMA RealLook ==
    ASSUME TypeInv, IdsReal, NEW w \in Workers, Look(w)
    PROVE  IdsReal'
<1>1. PICK x : SetsCycle(w, x) /\ Looked(w, x)
  BY LookStep
<1>2. SentStep /\ UNCHANGED <<ledger, posted>>
  BY <1>1 DEF Looked, SentStep, outboxVars
<1>3. IdCarried(x)'
  <2>1. Min(x.todo) = Row(w)
    BY <1>1 DEF Looked, SameBatch, Row
  <2>2. CASE LedgerHit(Row(w))
    BY <1>1, <1>2, <2>1, <2>2 DEF Looked, LedgerHit, IdCarried
  <2>3. CASE ~LedgerHit(Row(w))
    BY <1>1, <2>3 DEF Looked, IdCarried
  <2> QED BY <2>2, <2>3
<1> QED BY <1>1, <1>2, <1>3, LedgerSame, RealStep

LEMMA RealSave ==
    ASSUME TypeInv, IdsReal, NEW w \in Workers, Save(w)
    PROVE  IdsReal'
<1>1. PICK x : SetsCycle(w, x) /\ Saves(w, x)
  BY SaveStep
<1>2. PICK r : r = Row(w) /\ r \in Rows
  BY CurrentRow DEF Save, At, Batch, Delivering
<1>3. \A q \in Rows \ {r} : outbox'[q] = outbox[q]
  BY <1>1, <1>2, DeliveryTypes DEF Saves, SaveSent, SaveDeferred, SaveFailed, SaveCopy
<1>4. outbox'[r].state \in Delivered => outbox'[r].id = ledger[r] /\ ledger[r] # 0
  <2>1. CASE worker[w].result = "ok"
    <3>1. outbox'[r].id = worker[w].ids[r]
      BY <1>1, <1>2, <2>1, DeliveryTypes DEF Saves, SaveSent, SaveCopy
    <3>2. worker[w].ids[r] = ledger[r] /\ ledger[r] # 0
      BY <1>2, <2>1 DEF Save, At, IdsReal, IdCarried, Row
    <3> QED BY <3>1, <3>2
  <2>2. CASE worker[w].result # "ok"
    <3>1. outbox'[r].state \in {"RETRYABLE", "DEAD_LETTER"}
      BY <1>1, <1>2, <2>2, DeliveryTypes DEF Saves, SaveDeferred, SaveFailed, SaveCopy
    <3> QED BY <3>1 DEF Delivered
  <2> QED BY <2>1, <2>2
<1>5. SentStep
  BY <1>2, <1>3, <1>4 DEF SentStep
<1> QED BY <1>1, <1>5, RealPlain DEF Saves, GoesOn

LEMMA RealClaim ==
    ASSUME TypeInv, IdsReal, NEW w \in Workers, Claim(w)
    PROVE  IdsReal'
<1>1. PICK x : SetsCycle(w, x) /\ Claims(w, x)
  BY ClaimStep
<1>2. SentStep
  BY <1>1, BoxClaim DEF Claims, SentStep, Delivered
<1> QED BY <1>1, <1>2, RealPlain DEF Claims

LEMMA RealAck ==
    ASSUME TypeInv, IdsReal, NEW w \in Workers, Recover(w) \/ Confirm(w)
    PROVE  IdsReal'
<1>1. PICK x : SetsCycle(w, x) /\ Acknowledges(w, x)
  BY AckStep
<1>2. Row(w) \in Rows /\ worker[w].pc \in {"recover", "confirm"}
  BY CurrentRow DEF Recover, Confirm, At, Batch
<1>3. SentStep
  <2>1. CASE AckAccepted(Row(w), worker[w].ids[Row(w)]) /\ Acknowledge(Row(w))
    <3>1. /\ outbox'[Row(w)].id = outbox[Row(w)].id /\ outbox[Row(w)].state \in Delivered
          /\ \A q \in Rows \ {Row(w)} : outbox'[q] = outbox[q]
      BY <1>2, <2>1, DeliveryTypes DEF AckAccepted, Acknowledge, OutboxRow, Delivered
    <3> QED BY <3>1 DEF SentStep
  <2>2. CASE UNCHANGED outbox
    BY <2>2 DEF SentStep
  <2> QED BY <1>1, <2>1, <2>2 DEF Acknowledges
<1> QED BY <1>1, <1>2, <1>3, IdleCycle, RealPlain DEF Acknowledges

LEMMA RealRead ==
    ASSUME TypeInv, IdsReal, NEW w \in Workers,
           Poll(w) \/ Consume(w) \/ Enroll(w) \/ Effect(w) \/ Reply(w) \/ Advance(w)
    PROVE  IdsReal'
<1>1. PICK x : SetsCycle(w, x) /\ ReadsOn(w, x)
  BY ReadStep
<1>2. SentStep
  <2>1. ASSUME NEW r \in Rows, outbox' = Enqueued(outbox, r)
        PROVE  \A q \in Rows : outbox'[q] = outbox[q] \/ outbox'[q].state = "PENDING"
    BY <2>1, DeliveryTypes DEF Enqueued, NewRow
  <2> QED BY <1>1, <2>1 DEF ReadsOn, SentStep, Delivered
<1> QED BY <1>1, <1>2, IdleCycle, RealPlain DEF ReadsOn, Reading

LEMMA RealNext ==
    ASSUME TypeInv, IdsReal, [Next]_vars
    PROVE  IdsReal'
<1>1. ASSUME UNCHANGED <<ledger, posted, worker>>, SentStep
      PROVE  IdsReal'
  <2>1. LedgerStep
    BY <1>1, LedgerSame
  <2>2. \A v \in Workers : IdCarried(worker[v])'
    BY <1>1, <2>1, CarriedStays
  <2> QED BY <1>1, <2>1, <2>2, RowsReal DEF IdsReal
<1>2. ASSUME NEW w \in Workers, Step(w)
      PROVE  IdsReal'
  BY <1>2, RealRecord, RealPost, RealLook, RealSave, RealClaim, RealAck, RealRead DEF Step
<1>3. ASSUME NEW w \in Workers, NEW posture \in {"projection", "enrollment"}, BeginCycle(w, posture)
      PROVE  IdsReal'
  <2>1. PICK x : SetsCycle(w, x) /\ Begins(w, x)
    BY <1>3, BeginStep
  <2> QED BY <2>1, RealPlain DEF Begins, SentStep, outboxVars
<1>4. ASSUME NEW w \in Workers, Stall(w)
      PROVE  IdsReal'
  <2>1. PICK x : x = [worker[w] EXCEPT !.leased = FALSE]
    OBVIOUS
  <2>2. /\ x \in Cycle /\ x.pc = worker[w].pc /\ x.todo = worker[w].todo
        /\ x.ids = worker[w].ids /\ x.result = worker[w].result
    <3>1. PICK y \in Cycle : y = worker[w]
      BY DeliveryTypes
    <3>2. x = [y EXCEPT !.leased = FALSE]
      BY <2>1, <3>1
    <3> QED BY <3>1, <3>2 DEF Cycle
  <2>3. SetsCycle(w, x)
    BY <1>4, <2>1, <2>2, DeliveryTypes DEF Stall, SetsCycle
  <2>4. UNCHANGED outboxVars /\ IdCarried(worker[w])
    BY <1>4 DEF Stall, IdsReal
  <2>5. IdCarried(x)' /\ SentStep /\ LedgerStep
    BY <2>2, <2>4, LedgerSame DEF IdCarried, SentStep, outboxVars
  <2> QED BY <2>3, <2>5, RealStep
<1>5. ASSUME NEW w \in Workers, Crash(w)
      PROVE  IdsReal'
  BY <1>5, IdleCycle, RealPlain DEF Crash, Ends, SetsCycle, SentStep
<1>6. ASSUME NEW r \in Rows, RowLeaseExpires(r)
      PROVE  IdsReal'
  <2>1. SentStep
    BY <1>6, BoxExpires DEF SentStep, Delivered
  <2> QED BY <1>1, <1>6, <2>1 DEF RowLeaseExpires
<1>7. CASE Arriving \/ Issues \/ Platform \/ UNCHANGED vars
  <2>1. UNCHANGED <<outboxVars, worker>>
    BY <1>7 DEF Arriving, UserPresses, UserConfirms, UserWrites, Arrives, Issues, Platform, vars
  <2> QED BY <1>1, <2>1 DEF outboxVars, SentStep
<1> QED BY <1>2, <1>3, <1>4, <1>5, <1>6, <1>7 DEF Next, Arriving

LEMMA RealInit == Init => IdsReal
<1> SUFFICES ASSUME Init PROVE IdsReal
  OBVIOUS
<1>1. /\ \A r \in Rows : ledger[r] = 0 /\ posted[r] = 0 /\ outbox[r].state = "absent"
      /\ \A w \in Workers : worker[w].pc = "idle"
  BY IdleCycle DEF Init, OutboxInit, NewRow
<1> QED BY <1>1 DEF IdsReal, IdCarried, Delivered

LEMMA RealInvariant == Spec => []IdsReal
<1>1. TypeInv /\ IdsReal /\ [Next]_vars => IdsReal'
  BY RealNext
<1> QED BY <1>1, RealInit, TypeInvariant, PTL DEF Spec

(* A row that counts as sent or acknowledged names the message that the    *)
(* ledger holds and that reached the chat, although deliver_pending saves  *)
(* a copy of the row that may be older than the work of another pass.      *)
THEOREM SentReal == Spec => []SentIsReal
<1>1. TypeInv /\ IdsReal => SentIsReal
  BY DeliveryTypes DEF IdsReal, SentIsReal, Delivered
<1> QED BY <1>1, RealInvariant, TypeInvariant, PTL DEF Spec

----------------------------------------------------------------------------
(* Copies.  While the ledger knows nothing of a row, every copy of it that *)
(* may still be posted has a licence: a pass that has claimed the row      *)
(* holds one until it posts, and the row holds one as long as it is there  *)
(* to be claimed.  Together with the copies in the chat these are never    *)
(* more than the doubts and one.  A claim that nobody works on any more    *)
(* counts as the row's own.  Once the ledger knows the row only a pass     *)
(* that is past its lookup posts it again.                                 *)

WorksOn(c, r) == c.pc \in Delivering /\ r \in c.todo
HoldsOn(c, r) == WorksOn(c, r) /\ ~(c.pc = "record" /\ Min(c.todo) = r)
PostsOn(c, r) == c.pc = "post" /\ Min(c.todo) = r

Holders(r) == {w \in Workers : HoldsOn(worker[w], r)}
Posters(r) == {w \in Workers : PostsOn(worker[w], r)}
Taken(r) == \E w \in Workers : WorksOn(worker[w], r)

Free(r) ==
    \/ outbox[r].state \in {"absent", "PENDING", "RETRYABLE"}
    \/ outbox[r].state = "CLAIMED" /\ (~outbox[r].leased \/ ~Taken(r))

One(b) == IF b THEN 1 ELSE 0

Licensed(r) ==
    IF ledger[r] = 0
    THEN posted[r] + Cardinality(Holders(r)) + One(Free(r)) <= 1 + doubt[r]
    ELSE posted[r] + Cardinality(Posters(r)) <= 1 + doubt[r]

CopiesLicensed == \A r \in Rows : Licensed(r)

(* Two sets of workers that agree but for one of them. *)
LEMMA CountStep ==
    ASSUME NEW A \in SUBSET Workers, NEW B \in SUBSET Workers, NEW w \in Workers,
           A \ {w} = B \ {w}
    PROVE  /\ Cardinality(A) \in Nat /\ Cardinality(B) \in Nat
           /\ Cardinality(B) + One(w \in A) = Cardinality(A) + One(w \in B)
<1>1. IsFiniteSet(A) /\ IsFiniteSet(B)
  BY RuntimeAssumption, FS_Subset
<1>2. IsFiniteSet(A \ {w}) /\ IsFiniteSet(B \ {w})
  BY <1>1, FS_Subset
<1>3. \A S \in SUBSET Workers : IsFiniteSet(S) =>
        /\ Cardinality(S) \in Nat
        /\ Cardinality(S) = Cardinality(S \ {w}) + One(w \in S)
  <2> SUFFICES ASSUME NEW S \in SUBSET Workers, IsFiniteSet(S)
               PROVE  /\ Cardinality(S) \in Nat
                      /\ Cardinality(S) = Cardinality(S \ {w}) + One(w \in S)
    OBVIOUS
  <2>1. /\ IsFiniteSet(S \ {w}) /\ Cardinality(S) \in Nat
        /\ Cardinality(S \ {w}) = IF w \in S THEN Cardinality(S) - 1 ELSE Cardinality(S)
    BY FS_RemoveElement, FS_CardinalityType
  <2> QED BY <2>1 DEF One
<1>4. /\ Cardinality(A) \in Nat /\ Cardinality(B) \in Nat
      /\ Cardinality(A) = Cardinality(A \ {w}) + One(w \in A)
      /\ Cardinality(B) = Cardinality(B \ {w}) + One(w \in B)
  BY <1>1, <1>3
<1>5. Cardinality(A \ {w}) = Cardinality(B \ {w}) /\ Cardinality(A \ {w}) \in Nat
  BY <1>2, FS_CardinalityType
<1> QED BY <1>4, <1>5 DEF One

(* The licences that a step of worker w gives out for r are paid for. *)
Balanced(w, x, r) ==
    /\ ledger'[r] = 0 =>
         /\ ledger[r] = 0
         /\ posted'[r] + One(HoldsOn(x, r)) + One(Free(r)') + doubt[r]
              <= posted[r] + One(HoldsOn(worker[w], r)) + One(Free(r)) + doubt'[r]
    /\ ledger'[r] # 0 =>
         posted'[r] + One(PostsOn(x, r)) + doubt[r]
              <= posted[r] + One(PostsOn(worker[w], r)) + doubt'[r]

LEMMA BalancedStep ==
    ASSUME TypeInv, TypeInv', NEW r \in Rows, Licensed(r),
           NEW w \in Workers, NEW x, SetsCycle(w, x), Balanced(w, x, r)
    PROVE  Licensed(r)'
<1>1. worker'[w] = x /\ \A v \in Workers \ {w} : worker'[v] = worker[v]
  BY DeliveryTypes DEF SetsCycle
<1>2. PICK H, K, P, Q : H = Holders(r) /\ K = Holders(r)' /\ P = Posters(r) /\ Q = Posters(r)'
  OBVIOUS
<1>3. /\ H \subseteq Workers /\ K \subseteq Workers /\ H \ {w} = K \ {w}
      /\ w \in H <=> HoldsOn(worker[w], r)
      /\ w \in K <=> HoldsOn(x, r)
  BY <1>1, <1>2 DEF Holders
<1>4. /\ P \subseteq Workers /\ Q \subseteq Workers /\ P \ {w} = Q \ {w}
      /\ w \in P <=> PostsOn(worker[w], r)
      /\ w \in Q <=> PostsOn(x, r)
  BY <1>1, <1>2 DEF Posters
<1>5. /\ Cardinality(H) \in Nat /\ Cardinality(K) \in Nat
      /\ Cardinality(K) + One(HoldsOn(worker[w], r)) = Cardinality(H) + One(HoldsOn(x, r))
  BY <1>3, CountStep DEF One
<1>6. /\ Cardinality(P) \in Nat /\ Cardinality(Q) \in Nat
      /\ Cardinality(Q) + One(PostsOn(worker[w], r)) = Cardinality(P) + One(PostsOn(x, r))
  BY <1>4, CountStep DEF One
<1>7. Cardinality(P) <= Cardinality(H)
  <2>1. P \subseteq H
    <3> SUFFICES ASSUME NEW v \in Workers, PostsOn(worker[v], r)
                 PROVE  HoldsOn(worker[v], r)
      BY <1>2 DEF Holders, Posters
    <3>1. Row(v) = r /\ worker[v].pc = "post"
      BY DEF PostsOn, Row
    <3> QED BY <3>1, CurrentRow DEF HoldsOn, WorksOn, Batch, Delivering
  <2> QED BY <1>3, <2>1, RuntimeAssumption, FS_Subset
<1>8. /\ posted[r] \in Nat /\ doubt[r] \in Nat /\ posted'[r] \in Nat /\ doubt'[r] \in Nat
  <2>1. /\ posted \in [Rows -> Nat] /\ doubt \in [Rows -> Nat]
        /\ posted' \in [Rows -> Nat] /\ doubt' \in [Rows -> Nat]
    BY DEF TypeInv, TypeOK, OutboxTypeOK
  <2> QED BY <2>1
<1>9. /\ One(HoldsOn(worker[w], r)) \in 0..1 /\ One(HoldsOn(x, r)) \in 0..1
      /\ One(PostsOn(worker[w], r)) \in 0..1 /\ One(PostsOn(x, r)) \in 0..1
      /\ One(Free(r)) \in 0..1 /\ One(Free(r)') \in 0..1
  BY DEF One
<1>10. /\ Licensed(r) <=> IF ledger[r] = 0
                          THEN posted[r] + Cardinality(H) + One(Free(r)) <= 1 + doubt[r]
                          ELSE posted[r] + Cardinality(P) <= 1 + doubt[r]
       /\ Licensed(r)' <=> IF ledger'[r] = 0
                           THEN posted'[r] + Cardinality(K) + One(Free(r)') <= 1 + doubt'[r]
                           ELSE posted'[r] + Cardinality(Q) <= 1 + doubt'[r]
  BY <1>2 DEF Licensed, One
<1> HIDE DEF One
<1>11. CASE ledger'[r] = 0
  BY <1>5, <1>8, <1>9, <1>10, <1>11 DEF Balanced
<1>12. CASE ledger'[r] # 0
  BY <1>5, <1>6, <1>7, <1>8, <1>9, <1>10, <1>12 DEF Balanced
<1> QED BY <1>11, <1>12

(* A row becomes free under its lease only when its last worker leaves it. *)
LEMMA FreeKept ==
    ASSUME TypeInv, NEW r \in Rows, NEW w \in Workers, NEW x, SetsCycle(w, x),
           outbox'[r] = outbox[r]
    PROVE  Free(r)' => Free(r) \/ (WorksOn(worker[w], r) /\ ~WorksOn(x, r))
<1>1. worker'[w] = x /\ \A v \in Workers \ {w} : worker'[v] = worker[v]
  BY DeliveryTypes DEF SetsCycle
<1>2. ASSUME ~Taken(r)', Taken(r)
      PROVE  WorksOn(worker[w], r) /\ ~WorksOn(x, r)
  BY <1>1, <1>2 DEF Taken
<1> QED BY <1>2 DEF Free

LEMMA Quiet ==
    ASSUME TypeInv, NEW r \in Rows, NEW w \in Workers, NEW x, SetsCycle(w, x),
           outbox'[r] = outbox[r], ledger'[r] = ledger[r],
           posted'[r] = posted[r], doubt'[r] = doubt[r],
           HoldsOn(x, r) => HoldsOn(worker[w], r),
           WorksOn(worker[w], r) /\ ~WorksOn(x, r) => HoldsOn(worker[w], r) \/ ledger[r] # 0,
           PostsOn(x, r) => PostsOn(worker[w], r) \/ ledger[r] = 0
    PROVE  Balanced(w, x, r)
<1>1. posted[r] \in Nat /\ doubt[r] \in Nat
  BY DeliveryTypes
<1>2. Free(r)' => Free(r) \/ (WorksOn(worker[w], r) /\ ~WorksOn(x, r))
  BY FreeKept
<1>3. HoldsOn(x, r) => WorksOn(x, r)
  BY DEF HoldsOn
<1>4. ledger[r] = 0 =>
        One(HoldsOn(x, r)) + One(Free(r)') <= One(HoldsOn(worker[w], r)) + One(Free(r))
  BY <1>2, <1>3 DEF One
<1>5. ledger[r] # 0 => One(PostsOn(x, r)) <= One(PostsOn(worker[w], r))
  BY DEF One
<1>6. /\ One(HoldsOn(worker[w], r)) \in 0..1 /\ One(HoldsOn(x, r)) \in 0..1
      /\ One(PostsOn(worker[w], r)) \in 0..1 /\ One(PostsOn(x, r)) \in 0..1
      /\ One(Free(r)) \in 0..1 /\ One(Free(r)') \in 0..1
  BY DEF One
<1> HIDE DEF One
<1> QED BY <1>1, <1>4, <1>5, <1>6 DEF Balanced

(* A step that neither begins nor ends at a row in delivery. *)
LEMMA Away ==
    ASSUME TypeInv, NEW r \in Rows, NEW w \in Workers, NEW x,
           worker[w].pc \notin Delivering, x.pc \notin Delivering,
           UNCHANGED <<ledger, posted, doubt>>, Free(r)' => Free(r)
    PROVE  Balanced(w, x, r)
<1>1. posted[r] \in Nat /\ doubt[r] \in Nat
  BY DeliveryTypes
<1>2. /\ ~HoldsOn(x, r) /\ ~HoldsOn(worker[w], r) /\ ~PostsOn(x, r) /\ ~PostsOn(worker[w], r)
  BY DEF HoldsOn, WorksOn, PostsOn, Delivering
<1> QED BY <1>1, <1>2 DEF Balanced, One

LEMMA BalancedLook ==
    ASSUME TypeInv, NEW r \in Rows, NEW w \in Workers, Look(w)
    PROVE  \E x : SetsCycle(w, x) /\ Balanced(w, x, r)
<1>1. PICK x : SetsCycle(w, x) /\ Looked(w, x)
  BY LookStep
<1>2. /\ worker[w].pc = "look" /\ x.todo = worker[w].todo /\ x.pc \in {"save", "post"}
      /\ x.pc = "post" => ledger[Row(w)] = 0
      /\ UNCHANGED outboxVars
  BY <1>1 DEF Look, At, Looked, SameBatch, LedgerHit
<1>3. /\ HoldsOn(x, r) => HoldsOn(worker[w], r)
      /\ WorksOn(worker[w], r) => WorksOn(x, r)
      /\ PostsOn(x, r) => ledger[r] = 0
  BY <1>2 DEF HoldsOn, WorksOn, PostsOn, Delivering, Row
<1> QED BY <1>1, <1>2, <1>3, Quiet DEF outboxVars

LEMMA BalancedPost ==
    ASSUME TypeInv, NEW r \in Rows, NEW w \in Workers, Post(w)
    PROVE  \E x : SetsCycle(w, x) /\ Balanced(w, x, r)
<1>1. PICK x : SetsCycle(w, x) /\ Posts(w, x)
  BY PostStep
<1>2. /\ worker[w].pc = "post" /\ x.todo = worker[w].todo /\ x.pc \in {"save", "record"}
      /\ UNCHANGED <<outbox, ledger>> /\ Row(w) \in Rows /\ Row(w) \in worker[w].todo
  BY <1>1, CurrentRow DEF Post, At, Posts, SameBatch, Batch, Delivering
<1>3. CASE r # Row(w)
  <2>1. /\ HoldsOn(x, r) => HoldsOn(worker[w], r)
        /\ WorksOn(worker[w], r) => WorksOn(x, r)
        /\ ~PostsOn(x, r)
    BY <1>2, <1>3 DEF HoldsOn, WorksOn, PostsOn, Delivering, Row
  <2>2. posted'[r] = posted[r] /\ doubt'[r] = doubt[r]
    BY <1>1, <1>2, <1>3, DeliveryTypes DEF Posts, Reaches, Doubtful
  <2> QED BY <1>1, <1>2, <2>1, <2>2, Quiet
<1>4. CASE r = Row(w)
  <2>0. posted[r] \in Nat /\ doubt[r] \in Nat
    BY DeliveryTypes
  <2>1. /\ HoldsOn(worker[w], r) /\ PostsOn(worker[w], r) /\ ~PostsOn(x, r) /\ WorksOn(x, r)
        /\ x.pc = "record" => ~HoldsOn(x, r)
        /\ x.pc = "save" => HoldsOn(x, r)
    BY <1>2, <1>4 DEF HoldsOn, WorksOn, PostsOn, Delivering, Row
  <2>2. Free(r)' => Free(r)
    BY <1>1, <1>2, <2>1, FreeKept
  <2>3. \/ x.pc = "record" /\ posted'[r] = posted[r] + 1 /\ doubt'[r] = doubt[r]
        \/ x.pc = "save" /\ posted'[r] = posted[r] + 1 /\ doubt'[r] = doubt[r] + 1
        \/ x.pc = "save" /\ posted'[r] = posted[r] /\ doubt'[r] = doubt[r]
    BY <1>1, <1>4, DeliveryTypes DEF Posts, Reaches, Doubtful
  <2>4. Balanced(w, x, r)
    BY <1>2, <2>0, <2>1, <2>2, <2>3 DEF Balanced, One
  <2> QED BY <1>1, <2>4
<1> QED BY <1>3, <1>4

LEMMA BalancedRecord ==
    ASSUME TypeInv, IdsReal, NEW r \in Rows, NEW w \in Workers, Record(w)
    PROVE  \E x : SetsCycle(w, x) /\ Balanced(w, x, r)
<1>1. PICK x : SetsCycle(w, x) /\ Records(w, x)
  BY RecordStep
<1>2. /\ worker[w].pc = "record" /\ x.pc \in {"idle", "save"}
      /\ x.pc = "save" => x.todo = worker[w].todo
      /\ UNCHANGED <<outbox, posted, doubt>> /\ Row(w) \in Rows
  BY <1>1, CurrentRow, IdleCycle DEF Record, At, Records, SameBatch, Batch, Delivering
<1>3. CASE r # Row(w)
  <2>1. /\ HoldsOn(x, r) => HoldsOn(worker[w], r)
        /\ WorksOn(worker[w], r) => HoldsOn(worker[w], r)
        /\ ~PostsOn(x, r)
    BY <1>2, <1>3 DEF HoldsOn, WorksOn, PostsOn, Delivering, Row
  <2>2. ledger'[r] = ledger[r]
    BY <1>1, <1>3, DeliveryTypes DEF Records, LedgerRecord
  <2> QED BY <1>1, <1>2, <2>1, <2>2, Quiet
<1>4. CASE r = Row(w)
  <2>1. worker[w].ids[r] \in 1..posted[r]
    BY <1>2, <1>4 DEF IdsReal, IdCarried, Row
  <2>2. ledger'[r] # 0
    BY <1>1, <1>4, <2>1, DeliveryTypes DEF Records, LedgerRecord, LedgerAccepts
  <2>3. ~PostsOn(x, r) /\ ~PostsOn(worker[w], r)
    BY <1>2 DEF PostsOn
  <2>4. posted[r] \in Nat /\ doubt[r] \in Nat
    BY DeliveryTypes
  <2>5. Balanced(w, x, r)
    BY <1>2, <2>2, <2>3, <2>4 DEF Balanced, One
  <2> QED BY <1>1, <2>5
<1> QED BY <1>3, <1>4

LEMMA BalancedSave ==
    ASSUME TypeInv, IdsReal, NEW r \in Rows, NEW w \in Workers, Save(w)
    PROVE  \E x : SetsCycle(w, x) /\ Balanced(w, x, r)
<1>1. PICK x : SetsCycle(w, x) /\ Saves(w, x)
  BY SaveStep
<1>2. /\ worker[w].pc = "save" /\ x.pc \in {"look", "poll", "confirm"}
      /\ x.pc = "look" => x.todo = worker[w].todo \ {Row(w)}
      /\ UNCHANGED <<ledger, posted, doubt>> /\ Row(w) \in Rows /\ Row(w) \in worker[w].todo
  BY <1>1, CurrentRow DEF Save, At, Saves, GoesOn, Rest, Batch, Delivering
<1>3. CASE r # Row(w)
  <2>1. /\ HoldsOn(x, r) => HoldsOn(worker[w], r)
        /\ WorksOn(worker[w], r) => HoldsOn(worker[w], r)
        /\ ~PostsOn(x, r)
    BY <1>2 DEF HoldsOn, WorksOn, PostsOn, Delivering
  <2>2. outbox'[r] = outbox[r]
    BY <1>1, <1>3, DeliveryTypes DEF Saves, SaveSent, SaveDeferred, SaveFailed, SaveCopy
  <2> QED BY <1>1, <1>2, <2>1, <2>2, Quiet
<1>4. CASE r = Row(w)
  <2>1. /\ ~HoldsOn(x, r) /\ HoldsOn(worker[w], r) /\ ~PostsOn(x, r) /\ ~PostsOn(worker[w], r)
    BY <1>2, <1>4 DEF HoldsOn, WorksOn, PostsOn, Delivering
  <2>2. posted[r] \in Nat /\ doubt[r] \in Nat
    BY DeliveryTypes
  <2>3. Balanced(w, x, r)
    BY <1>2, <2>1, <2>2 DEF Balanced, One
  <2> QED BY <1>1, <2>3
<1> QED BY <1>3, <1>4

LEMMA BalancedClaim ==
    ASSUME TypeInv, NEW r \in Rows, NEW w \in Workers, Claim(w)
    PROVE  \E x : SetsCycle(w, x) /\ Balanced(w, x, r)
<1>1. PICK x : SetsCycle(w, x) /\ Claims(w, x)
  BY ClaimStep
<1>2. /\ worker[w].pc = "claim" /\ x.todo = DueRows /\ ClaimBatch
      /\ x.pc = IF DueRows = {} THEN "poll" ELSE "look"
      /\ UNCHANGED <<ledger, posted, doubt>>
  BY <1>1 DEF Claim, At, Claims
<1>3. /\ ~HoldsOn(worker[w], r) /\ ~WorksOn(worker[w], r) /\ ~PostsOn(worker[w], r)
      /\ ~PostsOn(x, r)
  BY <1>2 DEF HoldsOn, WorksOn, PostsOn, Delivering
<1>4. CASE r \notin DueRows
  <2>1. ~HoldsOn(x, r)
    BY <1>2, <1>4 DEF HoldsOn, WorksOn
  <2>2. outbox'[r] = outbox[r]
    BY <1>2, <1>4, BoxClaim
  <2> QED BY <1>1, <1>2, <1>3, <2>1, <2>2, Quiet
<1>5. CASE r \in DueRows
  <2>1. HoldsOn(x, r) /\ WorksOn(x, r)
    BY <1>2, <1>5 DEF HoldsOn, WorksOn, Delivering
  <2>2. Free(r)
    BY <1>5, DueSent DEF Claimable, Free
  <2>3. outbox'[r].state = "CLAIMED" /\ outbox'[r].leased
    BY <1>2, <1>5, BoxClaim
  <2>4. worker'[w] = x
    BY <1>1, DeliveryTypes DEF SetsCycle
  <2>5. ~Free(r)'
    BY <2>1, <2>3, <2>4 DEF Free, Taken
  <2>6. posted[r] \in Nat /\ doubt[r] \in Nat
    BY DeliveryTypes
  <2>7. Balanced(w, x, r)
    BY <1>2, <1>3, <2>1, <2>2, <2>5, <2>6 DEF Balanced, One
  <2> QED BY <1>1, <2>7
<1> QED BY <1>4, <1>5

LEMMA BalancedAck ==
    ASSUME TypeInv, NEW r \in Rows, NEW w \in Workers, Recover(w) \/ Confirm(w)
    PROVE  \E x : SetsCycle(w, x) /\ Balanced(w, x, r)
<1>1. PICK x : SetsCycle(w, x) /\ Acknowledges(w, x)
  BY AckStep
<1>2. /\ worker[w].pc \in {"recover", "confirm"}
      /\ x.pc \in {"recover", "confirm", "claim", "poll", "idle"}
      /\ UNCHANGED <<ledger, posted, doubt>> /\ Row(w) \in Rows
  BY <1>1, IdleCycle, CurrentRow DEF Recover, Confirm, At, Acknowledges, Batch
<1>3. outbox'[r] = outbox[r] \/ outbox'[r].state = "ACKNOWLEDGED"
  BY <1>1, <1>2, DeliveryTypes DEF Acknowledges, Acknowledge, OutboxRow
<1>4. Free(r)' => Free(r)
  <2>1. CASE outbox'[r] = outbox[r]
    BY <1>1, <1>2, <2>1, FreeKept DEF WorksOn, Delivering
  <2>2. CASE outbox'[r].state = "ACKNOWLEDGED"
    BY <2>2 DEF Free
  <2> QED BY <1>3, <2>1, <2>2
<1>5. worker[w].pc \notin Delivering /\ x.pc \notin Delivering
  BY <1>2 DEF Delivering
<1> QED BY <1>1, <1>2, <1>4, <1>5, Away

LEMMA BalancedBegin ==
    ASSUME TypeInv, NEW r \in Rows, NEW w \in Workers,
           NEW posture \in {"projection", "enrollment"}, BeginCycle(w, posture)
    PROVE  \E x : SetsCycle(w, x) /\ Balanced(w, x, r)
<1>1. PICK x : SetsCycle(w, x) /\ Begins(w, x)
  BY BeginStep
<1>2. /\ worker[w].pc \notin Delivering /\ x.pc \notin Delivering
      /\ UNCHANGED <<outbox, ledger, posted, doubt>>
  BY <1>1 DEF Begins, Delivering, outboxVars
<1>3. Free(r)' => Free(r)
  BY <1>1, <1>2, FreeKept DEF WorksOn
<1> QED BY <1>1, <1>2, <1>3, Away

LEMMA BalancedRead ==
    ASSUME TypeInv, NEW r \in Rows, NEW w \in Workers,
           Poll(w) \/ Consume(w) \/ Enroll(w) \/ Effect(w) \/ Reply(w) \/ Advance(w)
    PROVE  \E x : SetsCycle(w, x) /\ Balanced(w, x, r)
<1>1. PICK x : SetsCycle(w, x) /\ ReadsOn(w, x)
  BY ReadStep
<1>2. /\ worker[w].pc \notin Delivering /\ x.pc \notin Delivering
      /\ UNCHANGED <<ledger, posted, doubt>>
  BY <1>1, IdleCycle DEF ReadsOn, Reading, Delivering
<1>3. outbox'[r] = outbox[r] \/ outbox[r].state = "absent"
  BY <1>1, DeliveryTypes DEF ReadsOn, Enqueued
<1>4. Free(r)' => Free(r)
  <2>1. CASE outbox'[r] = outbox[r]
    BY <1>1, <1>2, <2>1, FreeKept DEF WorksOn
  <2>2. CASE outbox[r].state = "absent"
    BY <2>2 DEF Free
  <2> QED BY <1>3, <2>1, <2>2
<1> QED BY <1>1, <1>2, <1>4, Away

LEMMA BalancedStall ==
    ASSUME TypeInv, NEW r \in Rows, NEW w \in Workers, Stall(w)
    PROVE  \E x : SetsCycle(w, x) /\ Balanced(w, x, r)
<1>1. PICK x : x = [worker[w] EXCEPT !.leased = FALSE]
  OBVIOUS
<1>2. x \in Cycle /\ x.pc = worker[w].pc /\ x.todo = worker[w].todo
  <2>1. PICK y \in Cycle : y = worker[w]
    BY DeliveryTypes
  <2>2. x = [y EXCEPT !.leased = FALSE]
    BY <1>1, <2>1
  <2> QED BY <2>1, <2>2 DEF Cycle
<1>3. SetsCycle(w, x) /\ UNCHANGED outboxVars
  BY <1>1, <1>2, DeliveryTypes DEF Stall, SetsCycle
<1>4. /\ HoldsOn(x, r) => HoldsOn(worker[w], r)
      /\ WorksOn(worker[w], r) => WorksOn(x, r)
      /\ PostsOn(x, r) => PostsOn(worker[w], r)
  BY <1>2 DEF HoldsOn, WorksOn, PostsOn
<1> QED BY <1>3, <1>4, Quiet DEF outboxVars

LEMMA BalancedCrash ==
    ASSUME TypeInv, NEW r \in Rows, NEW w \in Workers, Crash(w)
    PROVE  SetsCycle(w, Idle) /\ Balanced(w, Idle, r)
<1>1. SetsCycle(w, Idle) /\ UNCHANGED <<outbox, ledger, posted>>
  BY IdleCycle DEF Crash, Ends, SetsCycle
<1>2. ~HoldsOn(Idle, r) /\ ~WorksOn(Idle, r) /\ ~PostsOn(Idle, r)
  BY IdleCycle DEF HoldsOn, WorksOn, PostsOn, Delivering
<1>3. posted[r] \in Nat /\ doubt[r] \in Nat
  BY DeliveryTypes
<1>4. CASE worker[w].pc = "record" /\ Row(w) = r
  <2>1. doubt'[r] = doubt[r] + 1
    BY <1>4, DeliveryTypes DEF Crash, At, Doubtful
  <2>2. Balanced(w, Idle, r)
    BY <1>1, <1>2, <1>3, <2>1 DEF Balanced, One
  <2> QED BY <1>1, <2>2
<1>5. CASE ~(worker[w].pc = "record" /\ Row(w) = r)
  <2>1. doubt'[r] = doubt[r]
    <3>1. CASE worker[w].pc = "record"
      BY <1>5, <3>1, CurrentRow, DeliveryTypes DEF Crash, At, Doubtful, Batch, Delivering
    <3>2. CASE worker[w].pc # "record"
      BY <3>2 DEF Crash, At
    <3> QED BY <3>1, <3>2
  <2>2. WorksOn(worker[w], r) => HoldsOn(worker[w], r)
    BY <1>5 DEF HoldsOn, Row
  <2> QED BY <1>1, <1>2, <2>1, <2>2, Quiet
<1> QED BY <1>4, <1>5

(* The lease of a claim passes: of one that nobody works on the licence    *)
(* was the row's already, of another the doubt is counted.                 *)
LEMMA LicensedExpires ==
    ASSUME TypeInv, NEW r \in Rows, Licensed(r), NEW q \in Rows, RowLeaseExpires(q)
    PROVE  Licensed(r)'
<1>0. /\ posted[r] \in Nat /\ doubt[r] \in Nat /\ UNCHANGED <<worker, ledger, posted>>
      /\ doubt \in [Rows -> Nat]
  BY DeliveryTypes DEF RowLeaseExpires
<1>1. Holders(r)' = Holders(r) /\ Posters(r)' = Posters(r) /\ (Taken(r)' <=> Taken(r))
  BY <1>0 DEF Holders, Posters, Taken
<1>2. Cardinality(Holders(r)) \in Nat /\ Cardinality(Posters(r)) \in Nat
  BY RuntimeAssumption, FS_Subset, FS_CardinalityType DEF Holders, Posters
<1>3. CASE r # q
  <2>1. outbox'[r] = outbox[r] /\ doubt'[r] = doubt[r]
    BY <1>0, <1>3, BoxExpires DEF RowLeaseExpires, Doubtful
  <2>2. Free(r)' <=> Free(r)
    BY <1>1, <2>1 DEF Free
  <2> QED BY <1>0, <1>1, <2>1, <2>2 DEF Licensed, One
<1>4. CASE r = q
  <2>1. outbox[r].state = "CLAIMED" /\ (WorkingOn(r) = {} <=> ~Taken(r))
    BY <1>4 DEF RowLeaseExpires, WorkingOn, Taken, WorksOn, Delivering
  <2>2. CASE Taken(r)
    <3>1. doubt'[r] = doubt[r] + 1
      BY <1>0, <1>4, <2>1, <2>2 DEF RowLeaseExpires, Doubtful
    <3> QED BY <1>0, <1>1, <1>2, <3>1 DEF Licensed, One
  <2>3. CASE ~Taken(r)
    <3>1. doubt'[r] = doubt[r]
      BY <1>4, <2>1, <2>3 DEF RowLeaseExpires
    <3>2. Free(r)
      BY <2>1, <2>3 DEF Free
    <3> QED BY <1>0, <1>1, <1>2, <3>1, <3>2 DEF Licensed, One
  <2> QED BY <2>2, <2>3
<1> QED BY <1>3, <1>4

LEMMA LicensedNext ==
    ASSUME TypeInv, IdsReal, TypeInv', CopiesLicensed, [Next]_vars
    PROVE  CopiesLicensed'
<1> SUFFICES ASSUME NEW r \in Rows
             PROVE  Licensed(r)'
  BY DEF CopiesLicensed
<1>0. Licensed(r)
  BY DEF CopiesLicensed
<1>1. ASSUME NEW w \in Workers, Step(w)
      PROVE  \E x : SetsCycle(w, x) /\ Balanced(w, x, r)
  BY <1>1, BalancedLook, BalancedPost, BalancedRecord, BalancedSave, BalancedClaim, BalancedAck,
     BalancedRead DEF Step
<1>2. ASSUME NEW w \in Workers,
             \/ Step(w) \/ Stall(w) \/ Crash(w)
             \/ BeginCycle(w, "projection") \/ BeginCycle(w, "enrollment")
      PROVE  Licensed(r)'
  <2>1. PICK x : SetsCycle(w, x) /\ Balanced(w, x, r)
    BY <1>1, <1>2, BalancedStall, BalancedCrash, BalancedBegin
  <2> QED BY <1>0, <2>1, BalancedStep
<1>3. ASSUME NEW q \in Rows, RowLeaseExpires(q)
      PROVE  Licensed(r)'
  BY <1>0, <1>3, LicensedExpires
<1>4. CASE Arriving \/ Issues \/ Platform \/ UNCHANGED vars
  <2>1. UNCHANGED <<outbox, ledger, posted, doubt, worker>>
    BY <1>4 DEF Arriving, UserPresses, UserConfirms, UserWrites, Arrives, Issues, Platform, vars,
                outboxVars
  <2>2. /\ Holders(r)' = Holders(r) /\ Posters(r)' = Posters(r)
        /\ Free(r)' <=> Free(r)
    BY <2>1 DEF Holders, Posters, Free, Taken
  <2> QED BY <1>0, <2>1, <2>2 DEF Licensed, One
<1> QED BY <1>2, <1>3, <1>4 DEF Next, Arriving

(* The chat gets a second copy of a message only when the fate of an       *)
(* earlier send was in doubt, whatever passes overlap, stall, lose answers *)
(* and die (deliver_pending, GuardedTelegramTransport, the send ledger).   *)
THEOREM CopiesBounded == Spec => []CopiesExplained
<1>1. Init => CopiesLicensed
  <2> SUFFICES ASSUME Init, NEW r \in Rows PROVE Licensed(r)
    BY DEF CopiesLicensed
  <2>1. ledger[r] = 0 /\ posted[r] = 0 /\ doubt[r] = 0
    BY DEF Init, OutboxInit
  <2>2. Holders(r) = {}
    BY IdleCycle DEF Init, Holders, HoldsOn, WorksOn, Delivering
  <2> QED BY <2>1, <2>2, FS_EmptySet DEF Licensed, One
<1>2. TypeInv /\ TypeInv' /\ IdsReal /\ CopiesLicensed /\ [Next]_vars => CopiesLicensed'
  BY LicensedNext
<1>3. TypeInv /\ CopiesLicensed => CopiesExplained
  <2> SUFFICES ASSUME TypeInv, CopiesLicensed, NEW r \in Rows
               PROVE  posted[r] <= 1 + doubt[r]
    BY DEF CopiesExplained
  <2>1. posted[r] \in Nat /\ doubt[r] \in Nat /\ Licensed(r)
    BY DeliveryTypes DEF CopiesLicensed
  <2>2. Cardinality(Holders(r)) \in Nat /\ Cardinality(Posters(r)) \in Nat
    BY RuntimeAssumption, FS_Subset, FS_CardinalityType DEF Holders, Posters
  <2> QED BY <2>1, <2>2 DEF Licensed, One
<1> QED BY <1>1, <1>2, <1>3, TypeInvariant, RealInvariant, PTL DEF Spec

=============================================================================
