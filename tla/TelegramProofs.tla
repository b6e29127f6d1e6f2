--------------------------- MODULE TelegramProofs ---------------------------
(***************************************************************************)
(* Theorems of TelegramRuntime, for every number of workers, updates,      *)
(* tokens, nonces, attempts and every batch size.                          *)
(***************************************************************************)
EXTENDS TelegramRuntime, SetArithmetic

----------------------------------------------------------------------------
(* Types.  A cycle has rows to work on where it works on rows, updates     *)
(* where it reads updates, and a copy of a row was made while an attempt   *)
(* was left.                                                               *)

Delivering == {"look", "post", "record", "save"}
Batch == Delivering \cup {"recover", "confirm"}
Reading == {"consume", "effect", "reply", "advance"}

Unsent == {"absent", "PENDING", "CLAIMED", "RETRYABLE"}

Present(r) == outbox[r].state # "absent"

CycleOK(c) ==
    /\ c.pc \in Batch => c.todo # {} /\ \A r \in c.todo : Present(r)
    /\ \A r \in Rows : c.copy[r] < MaxAttempts
    /\ \A r \in Rows : c.ids[r] # 0 => Present(r)
    /\ c.pc \in Reading => c.update \in 1..c.last /\ c.last <= Len(inbox)

(* A nonce belongs to a chat that was bound. *)
Bound(k) == binding[k].chat \in Chats

NoncesBound ==
    /\ \A k \in Tokens : binding[k].active => Bound(k)
    /\ \A n \in Nonces : nonce[n].state # "none" => Bound(nonce[n].binding)

AttemptLeft == \A r \in Rows : outbox[r].state \in Unsent => outbox[r].attempt < MaxAttempts

TypeInv ==
    /\ TypeOK
    /\ \A w \in Workers : CycleOK(worker[w])
    /\ AttemptLeft
    /\ cursor <= Len(inbox)
    /\ NoncesBound

OutboxRow == [state : OutboxStates, attempt : 0..MaxAttempts, id : Nat, leased : BOOLEAN]

(* A worker's cycle becomes x. *)
SetsCycle(w, x) == x \in Cycle /\ worker' = [worker EXCEPT ![w] = x]

LEMMA RowsNat == Rows \in SUBSET Nat /\ NoIds \in [Rows -> Nat]
                 /\ NoIds \in [Rows -> 0..MaxAttempts]
BY OutboxAssumption DEF Rows, NoIds

LEMMA IdleCycle ==
    /\ Idle \in Cycle /\ Idle.pc = "idle" /\ ~Idle.leased /\ Idle.todo = {}
    /\ Idle.copy = NoIds /\ Idle.ids = NoIds
BY RowsNat, OutboxAssumption DEF Idle, Cycle

LEMMA PhaseCycle ==
    ASSUME worker \in [Workers -> Cycle], NEW w \in Workers,
           NEW pc \in {"claim", "poll", "confirm", "consume"}
    PROVE  /\ Phase(w, pc) \in Cycle
           /\ Phase(w, pc).pc = pc /\ Phase(w, pc).leased = worker[w].leased
           /\ Phase(w, pc).todo = {} /\ Phase(w, pc).copy = NoIds /\ Phase(w, pc).ids = NoIds
<1>1. worker[w].leased \in BOOLEAN /\ worker[w].posture \in {"projection", "enrollment"}
  BY DEF Cycle
<1>2. Phase(w, pc) \in Cycle
  BY <1>1, IdleCycle DEF Phase, Cycle
<1>3. Phase(w, pc).pc = pc
  BY IdleCycle DEF Phase, Cycle
<1>4. Phase(w, pc).leased = worker[w].leased
  BY <1>1, IdleCycle DEF Phase, Cycle
<1>5. Phase(w, pc).todo = {} /\ Phase(w, pc).copy = NoIds /\ Phase(w, pc).ids = NoIds
  BY IdleCycle DEF Phase, Cycle
<1> QED BY <1>2, <1>3, <1>4, <1>5

(* The row a cycle works on. *)
LEMMA CurrentRow ==
    ASSUME TypeInv, NEW w \in Workers, worker[w].pc \in Batch
    PROVE  /\ Row(w) \in worker[w].todo /\ Row(w) \in Rows
           /\ worker[w].todo \subseteq Rows /\ Present(Row(w))
<1>1. /\ worker[w].todo \subseteq Rows /\ worker[w].todo # {}
      /\ \A r \in worker[w].todo : Present(r)
  BY DEF TypeInv, TypeOK, Cycle, CycleOK
<1>2. worker[w].todo \in SUBSET Nat
  BY <1>1, RowsNat
<1>3. Row(w) \in worker[w].todo
  BY <1>1, <1>2, MinNat DEF Row
<1> QED BY <1>1, <1>3

(* The update a cycle reads. *)
LEMMA CurrentUpdate ==
    ASSUME TypeInv, NEW w \in Workers, worker[w].pc \in Reading
    PROVE  /\ worker[w].update \in 1..Len(inbox) /\ worker[w].update \in Updates
           /\ worker[w].last \in worker[w].update..Len(inbox)
           /\ Current(w) \in Update
           /\ IntentRow(worker[w].update) \in Rows /\ ReplyRow(worker[w].update) \in Rows
<1>1. /\ worker[w].update \in 1..worker[w].last /\ worker[w].last <= Len(inbox)
      /\ worker[w].last \in Nat /\ Len(inbox) \in Nat /\ Len(inbox) <= MaxUpdates
      /\ inbox \in Seq(Update)
  BY DEF TypeInv, TypeOK, Cycle, CycleOK
<1>2. /\ worker[w].update \in 1..Len(inbox) /\ worker[w].update \in 1..MaxUpdates
      /\ worker[w].last \in worker[w].update..Len(inbox)
  BY <1>1, OutboxAssumption
<1>3. Current(w) \in Update
  BY <1>1, <1>2 DEF Current
<1> QED BY <1>2, <1>3, OutboxAssumption DEF Updates, Rows, IntentRow, ReplyRow

LEMMA UpdateFields ==
    ASSUME NEW u \in Update
    PROVE  /\ u.chat \in Chats /\ u.kind \in {"press", "confirm", "text"}
           /\ u.kind = "press" => u.nonce \in Nonces
           /\ u.kind = "confirm" => u.action \in Actions
           /\ u.kind = "text" => u.token \in Tokens
BY DEF Update

----------------------------------------------------------------------------
(* The steps of a delivery, as changes of one cycle.                       *)

SameBatch(w, x) ==
    /\ x.todo = worker[w].todo /\ x.copy = worker[w].copy
    /\ x.leased = worker[w].leased

OthersKept(w, x) == \A q \in Rows \ {Row(w)} : x.ids[q] = worker[w].ids[q]

Looked(w, x) ==
    /\ SameBatch(w, x)
    /\ OthersKept(w, x)
    /\ UNCHANGED outboxVars
    /\ \/ LedgerHit(Row(w)) /\ x.pc = "save" /\ x.result = "ok"
             /\ x.ids[Row(w)] = ledger[Row(w)]
       \/ ~LedgerHit(Row(w)) /\ x.pc = "save" /\ x.result = "limited" /\ x.ids = worker[w].ids
       \/ ~LedgerHit(Row(w)) /\ x.pc = "post" /\ x.ids = worker[w].ids

LEMMA LookStep ==
    ASSUME TypeInv, NEW w \in Workers, Look(w)
    PROVE  \E x : SetsCycle(w, x) /\ Looked(w, x)
<1> DEFINE c == worker[w]
<1>0. /\ worker \in [Workers -> Cycle] /\ c \in Cycle /\ UNCHANGED outboxVars
      /\ ledger \in [Rows -> Nat] /\ Row(w) \in Rows
  BY CurrentRow DEF TypeInv, TypeOK, OutboxTypeOK, Look, At, Batch, Delivering
<1>1. CASE LedgerHit(Row(w)) /\ worker' = [worker EXCEPT ![w].pc = "save",
                                       ![w].result = "ok", ![w].ids[Row(w)] = ledger[Row(w)]]
  <2> DEFINE x == [c EXCEPT !.pc = "save", !.result = "ok", !.ids[Row(w)] = ledger[Row(w)]]
  <2>1. worker' = [worker EXCEPT ![w] = x]
    BY <1>0, <1>1
  <2>2. x \in Cycle /\ SameBatch(w, x) /\ x.pc = "save" /\ x.result = "ok"
    BY <1>0 DEF Cycle, SameBatch
  <2>3. x.ids[Row(w)] = ledger[Row(w)] /\ OthersKept(w, x)
    BY <1>0 DEF Cycle, OthersKept
  <2> HIDE DEF x
  <2> QED BY <1>0, <1>1, <2>1, <2>2, <2>3 DEF SetsCycle, Looked
<1>2. CASE ~LedgerHit(Row(w)) /\ worker' = [worker EXCEPT ![w].pc = "save",
                                                         ![w].result = "limited"]
  <2> DEFINE x == [c EXCEPT !.pc = "save", !.result = "limited"]
  <2>1. worker' = [worker EXCEPT ![w] = x]
    BY <1>0, <1>2
  <2>2. /\ x \in Cycle /\ SameBatch(w, x) /\ x.pc = "save" /\ x.result = "limited"
        /\ x.ids = c.ids /\ OthersKept(w, x)
    BY <1>0 DEF Cycle, SameBatch, OthersKept
  <2> HIDE DEF x
  <2> QED BY <1>0, <1>2, <2>1, <2>2 DEF SetsCycle, Looked
<1>3. CASE ~LedgerHit(Row(w)) /\ worker' = [worker EXCEPT ![w].pc = "post"]
  <2> DEFINE x == [c EXCEPT !.pc = "post"]
  <2>1. worker' = [worker EXCEPT ![w] = x]
    BY <1>0, <1>3
  <2>2. /\ x \in Cycle /\ SameBatch(w, x) /\ x.pc = "post"
        /\ x.ids = c.ids /\ OthersKept(w, x)
    BY <1>0 DEF Cycle, SameBatch, OthersKept
  <2> HIDE DEF x
  <2> QED BY <1>0, <1>3, <2>1, <2>2 DEF SetsCycle, Looked
<1> QED BY <1>1, <1>2, <1>3 DEF Look, Moves

Posts(w, x) ==
    /\ SameBatch(w, x)
    /\ OthersKept(w, x)
    /\ UNCHANGED <<outbox, ledger>>
    /\ \/ x.pc = "record" /\ x.ids[Row(w)] = posted[Row(w)] + 1
             /\ Reaches(Row(w)) /\ UNCHANGED doubt
       \/ x.pc = "save" /\ x.result = "failed" /\ x.ids = worker[w].ids
             /\ Reaches(Row(w)) /\ Doubtful(Row(w))
       \/ x.pc = "save" /\ x.result = "failed" /\ x.ids = worker[w].ids
             /\ UNCHANGED <<posted, doubt>>

LEMMA PostStep ==
    ASSUME TypeInv, NEW w \in Workers, Post(w)
    PROVE  \E x : SetsCycle(w, x) /\ Posts(w, x)
<1> DEFINE c == worker[w]
<1>0. /\ worker \in [Workers -> Cycle] /\ c \in Cycle /\ UNCHANGED <<outbox, ledger>>
      /\ posted \in [Rows -> Nat] /\ Row(w) \in Rows
  BY CurrentRow DEF TypeInv, TypeOK, OutboxTypeOK, Post, At, Batch, Delivering
<1>1. CASE /\ Reaches(Row(w)) /\ UNCHANGED doubt
           /\ worker' = [worker EXCEPT ![w].pc = "record",
                                       ![w].ids[Row(w)] = posted[Row(w)] + 1]
  <2> DEFINE x == [c EXCEPT !.pc = "record", !.ids[Row(w)] = posted[Row(w)] + 1]
  <2>1. worker' = [worker EXCEPT ![w] = x]
    BY <1>0, <1>1
  <2>2. x \in Cycle /\ SameBatch(w, x) /\ x.pc = "record"
    <3>1. posted[Row(w)] + 1 \in Nat /\ c.ids \in [Rows -> Nat]
      BY <1>0 DEF Cycle
    <3>2. [c.ids EXCEPT ![Row(w)] = posted[Row(w)] + 1] \in [Rows -> Nat]
      BY <3>1
    <3>3. x = [c EXCEPT !.pc = "record", !.ids = [c.ids EXCEPT ![Row(w)] = posted[Row(w)] + 1]]
      BY <1>0 DEF Cycle
    <3> QED BY <1>0, <3>2, <3>3 DEF Cycle, SameBatch
  <2>3. x.ids[Row(w)] = posted[Row(w)] + 1 /\ OthersKept(w, x)
    BY <1>0 DEF Cycle, OthersKept
  <2> HIDE DEF x
  <2> QED BY <1>0, <1>1, <2>1, <2>2, <2>3 DEF SetsCycle, Posts
<1>2. CASE /\ worker' = [worker EXCEPT ![w].pc = "save", ![w].result = "failed"]
           /\ \/ Reaches(Row(w)) /\ Doubtful(Row(w))
              \/ UNCHANGED <<posted, doubt>>
  <2> DEFINE x == [c EXCEPT !.pc = "save", !.result = "failed"]
  <2>1. worker' = [worker EXCEPT ![w] = x]
    BY <1>0, <1>2
  <2>2. /\ x \in Cycle /\ SameBatch(w, x) /\ x.pc = "save" /\ x.result = "failed"
        /\ x.ids = c.ids /\ OthersKept(w, x)
    BY <1>0 DEF Cycle, SameBatch, OthersKept
  <2> HIDE DEF x
  <2> QED BY <1>0, <1>2, <2>1, <2>2 DEF SetsCycle, Posts
<1> QED BY <1>1, <1>2 DEF Post

Records(w, x) ==
    /\ UNCHANGED <<outbox, posted, doubt>>
    /\ \/ /\ LedgerAccepts(Row(w), worker[w].ids[Row(w)])
          /\ LedgerRecord(Row(w), worker[w].ids[Row(w)])
          /\ SameBatch(w, x) /\ x.ids = worker[w].ids /\ x.pc = "save" /\ x.result = "ok"
       \/ /\ ~LedgerAccepts(Row(w), worker[w].ids[Row(w)])
          /\ x = Idle /\ UNCHANGED ledger

LEMMA RecordStep ==
    ASSUME TypeInv, NEW w \in Workers, Record(w)
    PROVE  \E x : SetsCycle(w, x) /\ Records(w, x)
<1> DEFINE c == worker[w]
<1>0. /\ worker \in [Workers -> Cycle] /\ c \in Cycle /\ UNCHANGED <<outbox, posted, doubt>>
      /\ Row(w) \in Rows
  BY CurrentRow DEF TypeInv, TypeOK, OutboxTypeOK, Record, At, Batch, Delivering
<1>1. CASE LedgerAccepts(Row(w), c.ids[Row(w)])
  <2> DEFINE x == [c EXCEPT !.pc = "save", !.result = "ok"]
  <2>1. worker' = [worker EXCEPT ![w] = x] /\ LedgerRecord(Row(w), c.ids[Row(w)])
    BY <1>0, <1>1 DEF Record
  <2>2. /\ x \in Cycle /\ SameBatch(w, x) /\ x.pc = "save" /\ x.result = "ok" /\ x.ids = c.ids
    BY <1>0 DEF Cycle, SameBatch
  <2> HIDE DEF x
  <2> QED BY <1>0, <1>1, <2>1, <2>2 DEF SetsCycle, Records
<1>2. CASE ~LedgerAccepts(Row(w), c.ids[Row(w)])
  BY <1>0, <1>2, IdleCycle DEF Record, Ends, SetsCycle, Records
<1> QED BY <1>1, <1>2

(* The ids of a pass once it is done with its row. *)
IdsAfter(w, id) == [worker[w].ids EXCEPT ![Row(w)] = id]
Rest(w) == worker[w].todo \ {Row(w)}

GoesOn(w, x, id) ==
    \/ /\ Rest(w) # {} /\ x.pc = "look" /\ x.todo = Rest(w) /\ x.copy = worker[w].copy
       /\ x.ids = IdsAfter(w, id) /\ x.leased = worker[w].leased
    \/ /\ Rest(w) = {} /\ x.pc = "poll" /\ x.todo = {} /\ x.copy = NoIds /\ x.ids = NoIds
       /\ x.leased = worker[w].leased
    \/ /\ Rest(w) = {} /\ x.pc = "confirm" /\ x.copy = NoIds /\ x.ids = IdsAfter(w, id)
       /\ x.todo # {} /\ x.todo = {q \in Rows : IdsAfter(w, id)[q] # 0}
       /\ x.leased = worker[w].leased

LEMMA DoneStep ==
    ASSUME TypeInv, NEW w \in Workers, worker[w].pc = "save", NEW id \in Nat, DoneWith(w, id)
    PROVE  \E x : SetsCycle(w, x) /\ GoesOn(w, x, id)
<1> DEFINE c == worker[w]
           ids == IdsAfter(w, id)
<1>0. /\ worker \in [Workers -> Cycle] /\ c \in Cycle /\ Row(w) \in Rows
  BY CurrentRow DEF TypeInv, TypeOK, Batch, Delivering
<1>1. ids \in [Rows -> Nat] /\ Rest(w) \subseteq Rows
  BY <1>0 DEF Cycle, IdsAfter, Rest
<1> HIDE DEF ids
<1>2. worker' = [worker EXCEPT ![w] =
            IF Rest(w) # {}
            THEN [c EXCEPT !.pc = "look", !.todo = Rest(w), !.ids = ids, !.result = "none"]
            ELSE IF {q \in Rows : ids[q] # 0} = {} THEN Phase(w, "poll")
                 ELSE [Phase(w, "confirm") EXCEPT !.todo = {q \in Rows : ids[q] # 0},
                                                  !.ids = ids]]
  BY <1>0 DEF DoneWith, Rest, ids, IdsAfter
<1>3. CASE Rest(w) # {}
  <2> DEFINE x == [c EXCEPT !.pc = "look", !.todo = Rest(w), !.ids = ids, !.result = "none"]
  <2>1. worker' = [worker EXCEPT ![w] = x]
    BY <1>2, <1>3
  <2>2. /\ x \in Cycle /\ x.pc = "look" /\ x.todo = Rest(w) /\ x.copy = c.copy
        /\ x.ids = ids /\ x.leased = c.leased
    BY <1>0, <1>1 DEF Cycle
  <2> HIDE DEF x
  <2> QED BY <1>3, <2>1, <2>2 DEF SetsCycle, GoesOn, ids
<1>4. CASE Rest(w) = {} /\ {q \in Rows : ids[q] # 0} = {}
  <2>1. worker' = [worker EXCEPT ![w] = Phase(w, "poll")]
    BY <1>2, <1>4
  <2> QED BY <1>0, <1>4, <2>1, PhaseCycle DEF SetsCycle, GoesOn, ids
<1>5. CASE Rest(w) = {} /\ {q \in Rows : ids[q] # 0} # {}
  <2> DEFINE p == Phase(w, "confirm")
             x == [p EXCEPT !.todo = {q \in Rows : ids[q] # 0}, !.ids = ids]
  <2>0. p \in Cycle /\ p.pc = "confirm" /\ p.copy = NoIds /\ p.leased = c.leased
    BY <1>0, PhaseCycle
  <2>1. worker' = [worker EXCEPT ![w] = x]
    BY <1>2, <1>5
  <2> HIDE DEF p
  <2>2. /\ x \in Cycle /\ x.pc = "confirm" /\ x.todo = {q \in Rows : ids[q] # 0}
        /\ x.copy = NoIds /\ x.ids = ids /\ x.leased = c.leased
    BY <1>1, <2>0 DEF Cycle
  <2> HIDE DEF x
  <2> QED BY <1>5, <2>1, <2>2 DEF SetsCycle, GoesOn, ids
<1> QED BY <1>3, <1>4, <1>5

Saves(w, x) ==
    LET r == Row(w)
        attempt == worker[w].copy[r]
    IN  /\ UNCHANGED <<ledger, posted, doubt>>
        /\ \/ /\ worker[w].result = "ok"
              /\ SaveSent(r, attempt, worker[w].ids[r])
              /\ GoesOn(w, x, worker[w].ids[r])
           \/ /\ worker[w].result \in {"limited", "failed"}
              /\ SaveDeferred(r, attempt) \/ SaveFailed(r, attempt)
              /\ GoesOn(w, x, 0)

LEMMA SaveStep ==
    ASSUME TypeInv, NEW w \in Workers, Save(w)
    PROVE  \E x : SetsCycle(w, x) /\ Saves(w, x)
<1>1. worker[w].pc = "save" /\ UNCHANGED <<ledger, posted, doubt>>
  BY DEF Save, At
<1>2. Row(w) \in Rows /\ worker[w].ids[Row(w)] \in Nat
  BY <1>1, CurrentRow DEF TypeInv, TypeOK, Cycle, Batch, Delivering
<1>3. CASE /\ worker[w].result = "ok"
           /\ SaveSent(Row(w), worker[w].copy[Row(w)], worker[w].ids[Row(w)])
           /\ DoneWith(w, worker[w].ids[Row(w)])
  BY <1>1, <1>2, <1>3, DoneStep DEF Saves
<1>4. CASE /\ worker[w].result \in {"limited", "failed"}
           /\ \/ SaveDeferred(Row(w), worker[w].copy[Row(w)])
              \/ SaveFailed(Row(w), worker[w].copy[Row(w)])
           /\ DoneWith(w, 0)
  BY <1>1, <1>4, DoneStep DEF Saves
<1> QED BY <1>3, <1>4 DEF Save

Claims(w, x) ==
    /\ ClaimBatch
    /\ UNCHANGED <<ledger, posted, doubt>>
    /\ x.todo = DueRows /\ x.ids = worker[w].ids /\ x.leased = worker[w].leased
    /\ x.copy = [r \in Rows |-> IF r \in DueRows THEN outbox[r].attempt ELSE 0]
    /\ x.pc = IF DueRows = {} THEN "poll" ELSE "look"

LEMMA ClaimStep ==
    ASSUME TypeInv, NEW w \in Workers, Claim(w)
    PROVE  \E x : SetsCycle(w, x) /\ Claims(w, x)
<1> DEFINE c == worker[w]
           copy == [r \in Rows |-> IF r \in DueRows THEN outbox[r].attempt ELSE 0]
           pc == IF DueRows = {} THEN "poll" ELSE "look"
           x == [c EXCEPT !.todo = DueRows, !.copy = copy, !.pc = pc]
<1>0. /\ worker \in [Workers -> Cycle] /\ c \in Cycle
      /\ outbox \in [Rows -> OutboxRow]
  BY DEF TypeInv, TypeOK, OutboxTypeOK, OutboxRow
<1>1. DueRows \subseteq Rows
  BY DEF DueRows, Oldest
<1>2. copy \in [Rows -> 0..MaxAttempts]
  BY <1>0, OutboxAssumption DEF OutboxRow
<1>3. pc \in {"poll", "look"}
  OBVIOUS
<1>4. worker' = [worker EXCEPT ![w] = x] /\ ClaimBatch /\ UNCHANGED <<ledger, posted, doubt>>
  BY <1>0 DEF Claim
<1> HIDE DEF copy, pc
<1>5. /\ x \in Cycle /\ x.todo = DueRows /\ x.ids = c.ids /\ x.leased = c.leased
      /\ x.copy = copy /\ x.pc = pc
  BY <1>0, <1>1, <1>2, <1>3 DEF Cycle
<1> HIDE DEF x
<1> QED BY <1>4, <1>5 DEF SetsCycle, Claims, copy, pc

(* The rows due and the rows sent. *)
LEMMA DueSent ==
    /\ DueRows \subseteq Rows /\ \A r \in DueRows : Claimable(r)
    /\ SentRows \subseteq Rows /\ \A r \in SentRows : outbox[r].state = "SENT"
BY DEF DueRows, SentRows, Oldest

Acknowledges(w, x) ==
    /\ UNCHANGED <<ledger, posted, doubt>>
    /\ \/ /\ AckAccepted(Row(w), worker[w].ids[Row(w)])
          /\ Acknowledge(Row(w))
          /\ x.ids \in {worker[w].ids, NoIds} /\ x.copy \in {worker[w].copy, NoIds}
          /\ x.leased = worker[w].leased
          /\ \/ x.pc = worker[w].pc /\ x.todo # {} /\ x.todo = Rest(w)
             \/ x.pc \in {"claim", "poll"} /\ x.todo = {}
       \/ x = Idle /\ UNCHANGED outbox

LEMMA AckStep ==
    ASSUME TypeInv, NEW w \in Workers, Recover(w) \/ Confirm(w)
    PROVE  \E x : SetsCycle(w, x) /\ Acknowledges(w, x)
<1> DEFINE c == worker[w]
<1>0. /\ worker \in [Workers -> Cycle] /\ c \in Cycle /\ UNCHANGED <<ledger, posted, doubt>>
  BY DEF TypeInv, TypeOK, Recover, Confirm
<1>1. Row(w) \in c.todo
  BY CurrentRow DEF Recover, Confirm, At, Batch
<1>2. PICK after \in {"claim", "poll"} : AcknowledgeNext(w, after)
  BY DEF Recover, Confirm
<1>3. CASE AckAccepted(Row(w), c.ids[Row(w)])
  <2>0. /\ Acknowledge(Row(w))
        /\ worker' = [worker EXCEPT ![w] = IF c.todo = {Row(w)} THEN Phase(w, after)
                                           ELSE [c EXCEPT !.todo = c.todo \ {Row(w)}]]
    BY <1>0, <1>2, <1>3 DEF AcknowledgeNext
  <2>1. CASE c.todo = {Row(w)}
    BY <1>0, <1>3, <2>0, <2>1, PhaseCycle DEF SetsCycle, Acknowledges
  <2>2. CASE c.todo # {Row(w)}
    <3> DEFINE x == [c EXCEPT !.todo = c.todo \ {Row(w)}]
    <3>1. worker' = [worker EXCEPT ![w] = x]
      BY <2>0, <2>2
    <3>2. /\ x \in Cycle /\ x.pc = c.pc /\ x.todo = c.todo \ {Row(w)} /\ x.ids = c.ids
          /\ x.copy = c.copy /\ x.leased = c.leased
      BY <1>0 DEF Cycle
    <3>3. c.todo \ {Row(w)} # {}
      BY <1>1, <2>2
    <3> HIDE DEF x
    <3> QED BY <1>0, <1>3, <2>0, <3>1, <3>2, <3>3 DEF SetsCycle, Acknowledges, Rest
  <2> QED BY <2>1, <2>2
<1>4. CASE ~AckAccepted(Row(w), c.ids[Row(w)])
  BY <1>0, <1>2, <1>4, IdleCycle DEF AcknowledgeNext, Ends, SetsCycle, Acknowledges
<1> QED BY <1>3, <1>4

Begins(w, x) ==
    /\ worker[w].pc = "idle" /\ \A v \in Workers : ~worker[v].leased
    /\ UNCHANGED outboxVars
    /\ x.leased /\ x.copy = NoIds
    /\ \/ x.pc \in {"poll", "claim"} /\ x.todo = {} /\ x.ids = NoIds
       \/ x.pc = "recover" /\ x.todo # {} /\ x.todo = SentRows /\ x.ids = IdsOf(SentRows)

LEMMA BeginStep ==
    ASSUME TypeInv, NEW w \in Workers, NEW posture \in {"projection", "enrollment"},
           BeginCycle(w, posture)
    PROVE  \E x : SetsCycle(w, x) /\ Begins(w, x)
<1>0. /\ worker \in [Workers -> Cycle] /\ outbox \in [Rows -> OutboxRow]
      /\ worker[w].pc = "idle" /\ \A v \in Workers : ~worker[v].leased
      /\ UNCHANGED outboxVars
  BY DEF TypeInv, TypeOK, OutboxTypeOK, OutboxRow, BeginCycle, At
<1>1. CASE posture = "enrollment"
  <2> DEFINE x == [Idle EXCEPT !.pc = "poll", !.posture = posture, !.leased = TRUE]
  <2>1. worker' = [worker EXCEPT ![w] = x]
    BY <1>1 DEF BeginCycle
  <2>2. x \in Cycle /\ x.pc = "poll" /\ x.todo = {} /\ x.copy = NoIds /\ x.ids = NoIds
    BY IdleCycle DEF Cycle
  <2>3. x.leased = TRUE
    BY IdleCycle DEF Cycle
  <2> HIDE DEF x
  <2> QED BY <1>0, <2>1, <2>2, <2>3 DEF SetsCycle, Begins
<1>2. CASE posture = "projection"
  <2> DEFINE pc == IF SentRows = {} THEN "claim" ELSE "recover"
             x == [Idle EXCEPT !.pc = pc, !.todo = SentRows, !.ids = IdsOf(SentRows),
                               !.leased = TRUE]
  <2>1. worker' = [worker EXCEPT ![w] = x]
    BY <1>2 DEF BeginCycle
  <2>2. pc \in {"claim", "recover"} /\ (SentRows = {} <=> pc = "claim")
    OBVIOUS
  <2>3. IdsOf(SentRows) \in [Rows -> Nat] /\ (SentRows = {} => IdsOf(SentRows) = NoIds)
    BY <1>0 DEF IdsOf, OutboxRow, NoIds
  <2> HIDE DEF pc
  <2>4. /\ x \in Cycle /\ x.pc = pc /\ x.todo = SentRows /\ x.copy = NoIds
        /\ x.ids = IdsOf(SentRows)
    BY <2>2, <2>3, IdleCycle, DueSent DEF Cycle
  <2>5. x.leased = TRUE
    BY <2>2, <2>3, IdleCycle, DueSent DEF Cycle
  <2> HIDE DEF x
  <2>6. CASE SentRows = {}
    BY <1>0, <2>1, <2>2, <2>3, <2>4, <2>5, <2>6 DEF SetsCycle, Begins
  <2>7. CASE SentRows # {}
    BY <1>0, <2>1, <2>2, <2>3, <2>4, <2>5, <2>7 DEF SetsCycle, Begins
  <2> QED BY <2>6, <2>7
<1> QED BY <1>1, <1>2

----------------------------------------------------------------------------
(* The steps of a poll, as changes of one cycle.                           *)

(* The cycle moves to pc at the same update. *)
KeepsUpdate(w, x, pc) ==
    /\ x.pc = pc
    /\ x.update = worker[w].update /\ x.last = worker[w].last
    /\ x.copy = worker[w].copy /\ x.ids = worker[w].ids /\ x.leased = worker[w].leased

LEMMA MovesStep ==
    ASSUME TypeInv, NEW w \in Workers, NEW pc \in Reading, Moves(w, pc)
    PROVE  \E x : SetsCycle(w, x) /\ KeepsUpdate(w, x, pc) /\ x.replayed = worker[w].replayed
<1> DEFINE c == worker[w]
           x == [c EXCEPT !.pc = pc]
<1>0. worker \in [Workers -> Cycle] /\ c \in Cycle
  BY DEF TypeInv, TypeOK
<1>1. worker' = [worker EXCEPT ![w] = x]
  BY <1>0 DEF Moves
<1>2. /\ x \in Cycle /\ x.pc = pc /\ x.update = c.update /\ x.last = c.last
      /\ x.copy = c.copy /\ x.ids = c.ids
  BY <1>0 DEF Cycle, Reading
<1>3. x.leased = c.leased /\ x.replayed = c.replayed
  BY <1>0 DEF Cycle
<1> HIDE DEF x
<1> QED BY <1>1, <1>2, <1>3 DEF SetsCycle, KeepsUpdate

LEMMA ReceivedStep ==
    ASSUME TypeInv, NEW w \in Workers, NEW replayed \in BOOLEAN, Received(w, replayed)
    PROVE  \E x : SetsCycle(w, x) /\ KeepsUpdate(w, x, "effect") /\ x.replayed = replayed
<1> DEFINE c == worker[w]
           x == [c EXCEPT !.pc = "effect", !.replayed = replayed]
<1>0. worker \in [Workers -> Cycle] /\ c \in Cycle
  BY DEF TypeInv, TypeOK
<1>1. worker' = [worker EXCEPT ![w] = x]
  BY <1>0 DEF Received
<1>2. /\ x \in Cycle /\ x.pc = "effect" /\ x.update = c.update /\ x.last = c.last
      /\ x.copy = c.copy /\ x.ids = c.ids
  BY <1>0 DEF Cycle
<1>3. x.leased = c.leased /\ x.replayed = replayed
  BY <1>0 DEF Cycle
<1> HIDE DEF x
<1> QED BY <1>1, <1>2, <1>3 DEF SetsCycle, KeepsUpdate

(* The cycle goes on to update u of its batch, with nothing in its hands. *)
AtUpdate(w, x, u, last) ==
    /\ x.pc = "consume" /\ x.update = u /\ x.last = last
    /\ x.copy \in {worker[w].copy, NoIds} /\ x.ids \in {worker[w].ids, NoIds}
    /\ x.leased = worker[w].leased

AdvancesTo(w, x, report) ==
    \/ worker[w].update < cursor /\ x = Idle /\ UNCHANGED <<cursor, reported>>
    \/ /\ worker[w].update >= cursor
       /\ cursor' = worker[w].update
       /\ reported' = [reported EXCEPT ![worker[w].update] = report]
       /\ \/ x = Idle
          \/ /\ worker[w].update < worker[w].last
             /\ AtUpdate(w, x, worker[w].update + 1, worker[w].last)

LEMMA AdvanceStep ==
    ASSUME TypeInv, NEW w \in Workers, worker[w].pc \in Reading, NEW report,
           AdvanceCursor(w, report)
    PROVE  \E x : SetsCycle(w, x) /\ AdvancesTo(w, x, report)
<1> DEFINE c == worker[w]
           u == c.update
           p == Phase(w, "consume")
           x == [p EXCEPT !.update = u + 1, !.last = c.last]
<1>0. /\ worker \in [Workers -> Cycle] /\ c \in Cycle /\ cursor \in Nat
      /\ Len(inbox) \in Nat /\ Len(inbox) <= MaxUpdates
  BY DEF TypeInv, TypeOK
<1>1. u \in Nat /\ c.last \in u..Len(inbox) /\ c.last \in 0..MaxUpdates
  BY <1>0, CurrentUpdate DEF Cycle
<1>2. CASE u < cursor
  BY <1>0, <1>2, IdleCycle DEF AdvanceCursor, Ends, SetsCycle, AdvancesTo
<1>3. CASE ~(u < cursor)
  <2>1. /\ cursor' = u /\ reported' = [reported EXCEPT ![u] = report]
        /\ worker' = [worker EXCEPT ![w] = IF u = c.last THEN Idle ELSE x]
    BY <1>3 DEF AdvanceCursor, AdvanceAnyway
  <2>2. u >= cursor
    BY <1>0, <1>1, <1>3
  <2>3. CASE u = c.last
    BY <2>1, <2>2, <2>3, IdleCycle DEF SetsCycle, AdvancesTo
  <2>4. CASE u # c.last
    <3>0. p \in Cycle /\ p.pc = "consume" /\ p.copy = NoIds /\ p.ids = NoIds
          /\ p.leased = c.leased
      BY <1>0, PhaseCycle
    <3>1. u + 1 \in 0..MaxUpdates /\ u < c.last
      BY <1>0, <1>1, <2>4, OutboxAssumption
    <3> HIDE DEF p
    <3>2. /\ x \in Cycle /\ x.pc = "consume" /\ x.update = u + 1 /\ x.last = c.last
          /\ x.copy = NoIds /\ x.ids = NoIds
      BY <1>1, <3>0, <3>1 DEF Cycle
    <3>3. x.leased = c.leased
      BY <3>0 DEF Cycle
    <3>4. worker' = [worker EXCEPT ![w] = x]
      BY <2>1, <2>4
    <3> HIDE DEF x
    <3> QED BY <2>1, <2>2, <3>1, <3>2, <3>3, <3>4 DEF SetsCycle, AdvancesTo, AtUpdate
  <2> QED BY <2>3, <2>4
<1> QED BY <1>2, <1>3


LEMMA PollStep ==
    ASSUME TypeInv, NEW w \in Workers, Poll(w)
    PROVE  \E x : /\ SetsCycle(w, x)
                  /\ \/ x = Idle
                     \/ cursor < Len(inbox) /\ AtUpdate(w, x, cursor + 1, Len(inbox))
<1> DEFINE c == worker[w]
           x == [c EXCEPT !.pc = "consume", !.update = cursor + 1, !.last = Len(inbox)]
<1>0. /\ worker \in [Workers -> Cycle] /\ c \in Cycle /\ cursor \in Nat
      /\ Len(inbox) \in Nat /\ Len(inbox) <= MaxUpdates /\ cursor <= Len(inbox)
  BY DEF TypeInv, TypeOK
<1>1. CASE cursor = Len(inbox)
  BY <1>1, IdleCycle DEF Poll, Ends, SetsCycle
<1>2. CASE cursor # Len(inbox)
  <2>1. worker' = [worker EXCEPT ![w] = x]
    BY <1>0, <1>2 DEF Poll
  <2>2. cursor < Len(inbox) /\ cursor + 1 \in 0..MaxUpdates /\ Len(inbox) \in 0..MaxUpdates
    BY <1>0, <1>2, OutboxAssumption
  <2>3. /\ x \in Cycle /\ x.pc = "consume" /\ x.update = cursor + 1 /\ x.last = Len(inbox)
        /\ x.copy = c.copy /\ x.ids = c.ids
    BY <1>0, <2>2 DEF Cycle
  <2>4. x.leased = c.leased
    BY <1>0 DEF Cycle
  <2> HIDE DEF x
  <2> QED BY <2>1, <2>2, <2>3, <2>4 DEF SetsCycle, AtUpdate
<1> QED BY <1>1, <1>2

(* What every step of a poll has in common. *)
ReadsOn(w, x) ==
    /\ worker[w].pc \in Reading \cup {"poll"}
    /\ UNCHANGED <<ledger, posted, doubt, inbox>>
    /\ outbox' = outbox \/ \E r \in Rows : outbox' = Enqueued(outbox, r)
    /\ \/ x = Idle
       \/ /\ x.pc \in Reading /\ x.update \in 1..x.last /\ x.last <= Len(inbox)
          /\ x.copy \in {worker[w].copy, NoIds} /\ x.ids \in {worker[w].ids, NoIds}
          /\ x.leased = worker[w].leased

LEMMA SpendBox ==
    ASSUME NEW u \in Updates, IntentRow(u) \in Rows, NEW n, NEW by, SpendNonce(u, n, by)
    PROVE  /\ UNCHANGED <<ledger, posted, doubt>>
           /\ outbox' = outbox \/ \E r \in Rows : outbox' = Enqueued(outbox, r)
BY DEF SpendNonce

LEMMA ReadStep ==
    ASSUME TypeInv, NEW w \in Workers,
           Poll(w) \/ Consume(w) \/ Enroll(w) \/ Effect(w) \/ Reply(w) \/ Advance(w)
    PROVE  \E x : SetsCycle(w, x) /\ ReadsOn(w, x)
<1> DEFINE c == worker[w]
           Boxes == /\ UNCHANGED <<ledger, posted, doubt, inbox>>
                    /\ outbox' = outbox \/ \E r \in Rows : outbox' = Enqueued(outbox, r)
<1>0. c \in Cycle /\ cursor \in Nat /\ Len(inbox) \in Nat /\ cursor <= Len(inbox)
  BY DEF TypeInv, TypeOK
<1>1. CASE Poll(w)
  <2>1. c.pc = "poll" /\ Boxes
    BY <1>1 DEF Poll, At, outboxVars, inboundSide
  <2>2. PICK x : SetsCycle(w, x) /\ (x = Idle \/ (/\ cursor < Len(inbox)
                                                 /\ AtUpdate(w, x, cursor + 1, Len(inbox))))
    BY <1>1, PollStep
  <2> QED BY <1>0, <2>1, <2>2 DEF ReadsOn, AtUpdate, Reading
<1>2. ASSUME c.pc \in Reading
      PROVE  /\ c.update \in 1..c.last /\ c.last <= Len(inbox) /\ c.update \in Nat
             /\ c.last \in Nat /\ c.update \in Updates
             /\ IntentRow(c.update) \in Rows /\ ReplyRow(c.update) \in Rows
  BY <1>0, <1>2, CurrentUpdate DEF Cycle
<1>3. ASSUME c.pc \in Reading, Boxes, NEW report, AdvanceCursor(w, report)
      PROVE  \E x : SetsCycle(w, x) /\ ReadsOn(w, x)
  <2>1. PICK x : SetsCycle(w, x) /\ AdvancesTo(w, x, report)
    BY <1>3, AdvanceStep
  <2> QED BY <1>0, <1>2, <1>3, <2>1 DEF ReadsOn, AdvancesTo, AtUpdate, Reading
<1>4. ASSUME c.pc \in Reading, Boxes, Ends(w)
      PROVE  \E x : SetsCycle(w, x) /\ ReadsOn(w, x)
  BY <1>4, IdleCycle DEF Ends, SetsCycle, ReadsOn
<1>5. ASSUME c.pc \in Reading, Boxes, NEW pc \in Reading, Moves(w, pc)
      PROVE  \E x : SetsCycle(w, x) /\ ReadsOn(w, x)
  <2>1. PICK x : SetsCycle(w, x) /\ KeepsUpdate(w, x, pc)
    BY <1>5, MovesStep
  <2> QED BY <1>0, <1>2, <1>5, <2>1 DEF ReadsOn, KeepsUpdate
<1>6. ASSUME c.pc \in Reading, Boxes, NEW replayed \in BOOLEAN, Received(w, replayed)
      PROVE  \E x : SetsCycle(w, x) /\ ReadsOn(w, x)
  <2>1. PICK x : SetsCycle(w, x) /\ KeepsUpdate(w, x, "effect")
    BY <1>6, ReceivedStep
  <2> QED BY <1>0, <1>2, <1>6, <2>1 DEF ReadsOn, KeepsUpdate, Reading
<1>7. CASE Consume(w)
  <2>1. c.pc \in Reading /\ UNCHANGED inbox
    BY <1>7 DEF Consume, At, Reading
  <2>2. CASE Refuse(w)
    BY <1>3, <2>1, <2>2 DEF Refuse, outboxVars
  <2>3. CASE Received(w, TRUE) /\ UNCHANGED outboxVars
    BY <1>6, <2>1, <2>3 DEF outboxVars
  <2>4. CASE Defer(w) /\ UNCHANGED outboxVars
    BY <1>4, <2>1, <2>4 DEF Defer, outboxVars
  <2>5. CASE ReceiveNew(w)
    <3>1. Received(w, FALSE)
      BY <2>5 DEF ReceiveNew
    <3>2. Boxes
      BY <1>2, <2>1, <2>5, SpendBox
         DEF ReceiveNew, ReceiveConfirmation, ReceiveDiscussion, SaveReceipt, outboxVars
    <3> QED BY <1>6, <2>1, <3>1, <3>2
  <2> QED BY <1>7, <2>2, <2>3, <2>4, <2>5 DEF Consume
<1>8. CASE Enroll(w)
  <2>1. c.pc \in Reading /\ UNCHANGED inbox
    BY <1>8 DEF Enroll, At, Reading
  <2>2. CASE Refuse(w)
    BY <1>3, <2>1, <2>2 DEF Refuse, outboxVars
  <2>3. CASE AdvanceCursor(w, "applied") /\ UNCHANGED outboxVars
    BY <1>3, <2>1, <2>3 DEF outboxVars
  <2>4. CASE Moves(w, "advance") /\ UNCHANGED outboxVars
    BY <1>5, <2>1, <2>4 DEF outboxVars, Reading
  <2> QED BY <1>8, <2>2, <2>3, <2>4 DEF Enroll
<1>9. CASE Effect(w)
  <2>1. c.pc \in Reading /\ Boxes
    BY <1>9 DEF Effect, At, Reading, outboxVars
  <2>2. Ends(w) \/ Moves(w, "advance") \/ Moves(w, "reply")
    BY <1>9 DEF Effect, PressEffect, MessageEffect
  <2> QED BY <1>4, <1>5, <2>1, <2>2 DEF Reading
<1>10. CASE Reply(w)
  <2>1. c.pc \in Reading
    BY <1>10 DEF Reply, At, Reading
  <2>2. Boxes /\ Moves(w, "advance")
    BY <1>2, <1>10, <2>1 DEF Reply, inboundSide
  <2> QED BY <1>5, <2>1, <2>2 DEF Reading
<1>11. CASE Advance(w)
  BY <1>3, <1>11 DEF Advance, At, Reading, outboxVars
<1> QED BY <1>1, <1>7, <1>8, <1>9, <1>10, <1>11

----------------------------------------------------------------------------
(* The outbox after a step: typed rows, an attempt left where one is       *)
(* needed, and no row lost.                                                *)
BoxStep ==
    /\ outbox' \in [Rows -> OutboxRow]
    /\ AttemptLeft'
    /\ \A r \in Rows : Present(r) => Present(r)'

LEMMA BoxType == TypeInv => outbox \in [Rows -> OutboxRow] /\ AttemptLeft
BY DEF TypeInv, TypeOK, OutboxTypeOK, OutboxRow

LEMMA BoxSame ==
    ASSUME TypeInv, UNCHANGED outbox
    PROVE  BoxStep
BY BoxType DEF BoxStep, AttemptLeft, Present

LEMMA BoxSet ==
    ASSUME TypeInv, NEW r \in Rows, NEW row \in OutboxRow, row.state # "absent",
           row.state \in Unsent => row.attempt < MaxAttempts,
           outbox' = [outbox EXCEPT ![r] = row]
    PROVE  BoxStep
BY BoxType DEF BoxStep, AttemptLeft, Present

LEMMA BoxEnqueue ==
    ASSUME TypeInv, NEW r \in Rows, outbox' = Enqueued(outbox, r)
    PROVE  BoxStep
<1>1. CASE outbox[r].state = "absent"
  <2> DEFINE row == NewRow("PENDING")
  <2>1. row \in OutboxRow /\ row.state = "PENDING" /\ row.attempt = 0
    BY OutboxAssumption DEF NewRow, OutboxRow, OutboxStates
  <2>2. outbox' = [outbox EXCEPT ![r] = row]
    BY <1>1 DEF Enqueued
  <2>3. row.attempt < MaxAttempts
    BY <2>1, OutboxAssumption
  <2> HIDE DEF row
  <2> QED BY <2>1, <2>2, <2>3, BoxSet
<1>2. CASE outbox[r].state # "absent"
  BY <1>2, BoxSame DEF Enqueued
<1> QED BY <1>1, <1>2

LEMMA BoxSave ==
    ASSUME TypeInv, NEW r \in Rows, NEW attempt \in Nat, attempt < MaxAttempts, NEW id \in Nat,
           \/ SaveSent(r, attempt, id)
           \/ SaveDeferred(r, attempt)
           \/ SaveFailed(r, attempt)
    PROVE  BoxStep
<1>1. PICK st \in {"SENT", "RETRYABLE", "DEAD_LETTER"}, n \in 0..MaxAttempts, i \in Nat :
        /\ SaveCopy(r, st, n, i)
        /\ st = "RETRYABLE" => n < MaxAttempts
  <2>0. /\ attempt \in 0..MaxAttempts /\ attempt + 1 \in 0..MaxAttempts
        /\ MaxAttempts \in Nat
    BY OutboxAssumption
  <2>1. CASE SaveSent(r, attempt, id)
    BY <2>0, <2>1 DEF SaveSent
  <2>2. CASE SaveDeferred(r, attempt)
    BY <2>0, <2>2 DEF SaveDeferred
  <2>3. CASE SaveFailed(r, attempt) /\ attempt + 1 >= MaxAttempts
    BY <2>0, <2>3 DEF SaveFailed
  <2>4. CASE SaveFailed(r, attempt) /\ ~(attempt + 1 >= MaxAttempts)
    BY <2>0, <2>4 DEF SaveFailed
  <2> QED BY <2>1, <2>2, <2>3, <2>4
<1> DEFINE row == [state |-> st, attempt |-> n, id |-> i, leased |-> FALSE]
<1>2. row \in OutboxRow /\ row.state = st /\ row.attempt = n
  BY DEF OutboxRow, OutboxStates
<1>3. outbox' = [outbox EXCEPT ![r] = row]
  BY <1>1 DEF SaveCopy
<1> HIDE DEF row
<1> QED BY <1>1, <1>2, <1>3, BoxSet DEF Unsent

LEMMA BoxAck ==
    ASSUME TypeInv, NEW r \in Rows, Acknowledge(r)
    PROVE  BoxStep
<1> DEFINE row == [outbox[r] EXCEPT !.state = "ACKNOWLEDGED"]
<1>1. outbox[r] \in OutboxRow
  BY BoxType
<1>2. row \in OutboxRow /\ row.state = "ACKNOWLEDGED"
  BY <1>1 DEF OutboxRow, OutboxStates
<1>3. outbox' = [outbox EXCEPT ![r] = row]
  BY BoxType DEF Acknowledge
<1> HIDE DEF row
<1> QED BY <1>2, <1>3, BoxSet DEF Unsent

LEMMA BoxClaim ==
    ASSUME TypeInv, ClaimBatch
    PROVE  /\ BoxStep
           /\ \A r \in DueRows : /\ outbox'[r].state = "CLAIMED"
                                 /\ outbox'[r].leased
                                 /\ outbox'[r].attempt = outbox[r].attempt
                                 /\ outbox[r].attempt < MaxAttempts
           /\ \A r \in Rows \ DueRows : outbox'[r] = outbox[r]
<1>1. ASSUME NEW r \in DueRows
      PROVE  /\ outbox'[r] \in OutboxRow
             /\ outbox'[r].state = "CLAIMED" /\ outbox'[r].leased
             /\ outbox'[r].attempt = outbox[r].attempt
             /\ outbox[r].attempt < MaxAttempts
  <2> DEFINE row == [outbox[r] EXCEPT !.state = "CLAIMED", !.leased = TRUE]
  <2>0. r \in Rows /\ outbox[r] \in OutboxRow
    BY BoxType, DueSent
  <2>1. outbox'[r] = row
    BY <2>0 DEF ClaimBatch
  <2>2. row \in OutboxRow /\ row.state = "CLAIMED" /\ row.attempt = outbox[r].attempt
    BY <2>0 DEF OutboxRow, OutboxStates
  <2>3. row.leased = TRUE
    BY <2>0 DEF OutboxRow
  <2>4. outbox[r].attempt < MaxAttempts
    BY <2>0, DueSent, BoxType DEF Claimable, AttemptLeft, Unsent
  <2> QED BY <2>1, <2>2, <2>3, <2>4
<1>2. \A r \in Rows \ DueRows : outbox'[r] = outbox[r]
  BY DEF ClaimBatch
<1>3. outbox' \in [Rows -> OutboxRow]
  <2>1. \A r \in Rows : outbox'[r] \in OutboxRow
    BY <1>1, <1>2, BoxType
  <2> QED BY <2>1 DEF ClaimBatch
<1>4. AttemptLeft' /\ \A r \in Rows : Present(r) => Present(r)'
  BY <1>1, <1>2, BoxType DEF AttemptLeft, Present
<1> QED BY <1>1, <1>2, <1>3, <1>4 DEF BoxStep

LEMMA BoxExpires ==
    ASSUME TypeInv, NEW r \in Rows, RowLeaseExpires(r)
    PROVE  /\ BoxStep
           /\ outbox'[r].state = "CLAIMED" /\ ~outbox'[r].leased
           /\ \A q \in Rows \ {r} : outbox'[q] = outbox[q]
<1> DEFINE row == [outbox[r] EXCEPT !.leased = FALSE]
<1>1. outbox[r] \in OutboxRow /\ outbox[r].state = "CLAIMED"
  BY BoxType DEF RowLeaseExpires
<1>2. row \in OutboxRow /\ row.state = "CLAIMED" /\ row.attempt = outbox[r].attempt
  BY <1>1 DEF OutboxRow
<1>3. row.leased = FALSE
  BY <1>1 DEF OutboxRow
<1>4. outbox' = [outbox EXCEPT ![r] = row]
  BY BoxType DEF RowLeaseExpires
<1>5. row.attempt < MaxAttempts
  BY <1>1, <1>2, BoxType DEF AttemptLeft, Unsent
<1> HIDE DEF row
<1> QED BY <1>2, <1>3, <1>4, <1>5, BoxSet, BoxType

(* The cycles after a step of one worker. *)
LEMMA CyclesStep ==
    ASSUME TypeInv, NEW w \in Workers, NEW x, SetsCycle(w, x), BoxStep,
           Len(inbox') >= Len(inbox), Len(inbox') \in Nat, CycleOK(x)'
    PROVE  /\ worker' \in [Workers -> Cycle]
           /\ \A v \in Workers : CycleOK(worker[v])'
<1>1. /\ worker \in [Workers -> Cycle] /\ Len(inbox) \in Nat
      /\ \A v \in Workers : CycleOK(worker[v])
  BY DEF TypeInv, TypeOK
<1>2. worker' \in [Workers -> Cycle]
  BY <1>1 DEF SetsCycle
<1>3. ASSUME NEW v \in Workers, v # w
      PROVE  CycleOK(worker[v])'
  <2>1. worker'[v] = worker[v] /\ worker[v] \in Cycle
    BY <1>1, <1>3 DEF SetsCycle
  <2>2. worker[v].last \in Nat /\ worker[v].todo \subseteq Rows
    BY <2>1 DEF Cycle
  <2> QED BY <1>1, <2>1, <2>2 DEF CycleOK, BoxStep
<1>4. CycleOK(worker[w])'
  BY <1>1 DEF SetsCycle
<1> QED BY <1>2, <1>3, <1>4

(* No step of another kind disturbs the cycles. *)
LEMMA CyclesKept ==
    ASSUME TypeInv, UNCHANGED worker, BoxStep, Len(inbox') >= Len(inbox), Len(inbox') \in Nat
    PROVE  /\ worker' \in [Workers -> Cycle]
           /\ \A v \in Workers : CycleOK(worker[v])'
<1>1. /\ worker \in [Workers -> Cycle] /\ Len(inbox) \in Nat
      /\ \A v \in Workers : CycleOK(worker[v])
  BY DEF TypeInv, TypeOK
<1>2. ASSUME NEW v \in Workers
      PROVE  CycleOK(worker[v])'
  <2>1. worker[v].last \in Nat /\ worker[v].todo \subseteq Rows
    BY <1>1 DEF Cycle
  <2> QED BY <1>1, <2>1 DEF CycleOK, BoxStep
<1> QED BY <1>1, <1>2

LEMMA IdleOK == CycleOK(Idle)'
BY IdleCycle, OutboxAssumption DEF CycleOK, NoIds, Batch, Delivering, Reading

(* Every step of a delivery or a poll keeps the types of the outbox and of *)
(* the cycles.                                                             *)
CyclesTyped ==
    /\ OutboxTypeOK' /\ AttemptLeft'
    /\ worker' \in [Workers -> Cycle]
    /\ \A v \in Workers : CycleOK(worker[v])'

LEMMA StepCycles ==
    ASSUME TypeInv, NEW w \in Workers,
           \/ Step(w) \/ Stall(w) \/ Crash(w)
           \/ BeginCycle(w, "projection") \/ BeginCycle(w, "enrollment")
    PROVE  CyclesTyped
<1> DEFINE c == worker[w]
<1>0. /\ worker \in [Workers -> Cycle] /\ c \in Cycle /\ CycleOK(c)
      /\ c.ids \in [Rows -> Nat] /\ c.copy \in [Rows -> 0..MaxAttempts]
      /\ ledger \in [Rows -> Nat] /\ posted \in [Rows -> Nat] /\ doubt \in [Rows -> Nat]
      /\ Len(inbox) \in Nat /\ cursor \in Nat
  BY DEF TypeInv, TypeOK, OutboxTypeOK, Cycle
<1>1. \A r \in Rows : NoIds[r] = 0 /\ 0 < MaxAttempts
  BY OutboxAssumption DEF NoIds
<1>2. ASSUME NEW x, SetsCycle(w, x), CycleOK(x)', BoxStep, UNCHANGED inbox,
             ledger' \in [Rows -> Nat], posted' \in [Rows -> Nat], doubt' \in [Rows -> Nat]
      PROVE  CyclesTyped
  <2>1. /\ worker' \in [Workers -> Cycle]
        /\ \A v \in Workers : CycleOK(worker[v])'
    BY <1>0, <1>2, CyclesStep
  <2> QED BY <1>2, <2>1 DEF CyclesTyped, OutboxTypeOK, BoxStep, OutboxRow
<1>3. CASE Look(w)
  <2>1. PICK x : SetsCycle(w, x) /\ Looked(w, x)
    BY <1>3, LookStep
  <2>2. UNCHANGED outboxVars /\ UNCHANGED inbox /\ c.pc = "look"
    BY <1>3 DEF Look, At, inboundSide
  <2>3. BoxStep
    BY <2>2, BoxSame DEF outboxVars
  <2>4. Row(w) \in Rows /\ Present(Row(w))
    BY <2>2, CurrentRow DEF Batch, Delivering
  <2>5. CycleOK(x)'
    <3>1. /\ x.pc \in {"save", "post"} /\ x.todo = c.todo /\ x.copy = c.copy
          /\ OthersKept(w, x) /\ outbox' = outbox
      BY <2>1, <2>2 DEF Looked, SameBatch, outboxVars
    <3> QED BY <1>0, <2>2, <2>4, <3>1
            DEF CycleOK, OthersKept, Batch, Delivering, Reading, Present
  <2> QED BY <1>0, <1>2, <2>1, <2>2, <2>3, <2>5 DEF outboxVars
<1>4. CASE Post(w)
  <2>1. PICK x : SetsCycle(w, x) /\ Posts(w, x)
    BY <1>4, PostStep
  <2>2. UNCHANGED <<outbox, ledger, inbox>> /\ c.pc = "post"
    BY <1>4 DEF Post, At, inboundSide
  <2>3. BoxStep
    BY <2>2, BoxSame
  <2>4. Row(w) \in Rows /\ Present(Row(w))
    BY <2>2, CurrentRow DEF Batch, Delivering
  <2>5. CycleOK(x)'
    <3>1. /\ x.pc \in {"save", "record"} /\ x.todo = c.todo /\ x.copy = c.copy
          /\ OthersKept(w, x)
      BY <2>1 DEF Posts, SameBatch
    <3> QED BY <1>0, <2>2, <2>4, <3>1
            DEF CycleOK, OthersKept, Batch, Delivering, Reading, Present
  <2>6. posted' \in [Rows -> Nat] /\ doubt' \in [Rows -> Nat]
    <3>1. UNCHANGED posted \/ Reaches(Row(w))
      BY <2>1 DEF Posts
    <3>2. UNCHANGED doubt \/ Doubtful(Row(w))
      BY <2>1 DEF Posts
    <3>3. posted' \in [Rows -> Nat]
      BY <1>0, <2>4, <3>1 DEF Reaches
    <3>4. doubt' \in [Rows -> Nat]
      BY <1>0, <2>4, <3>2 DEF Doubtful
    <3> QED BY <3>3, <3>4
  <2> QED BY <1>0, <1>2, <2>1, <2>2, <2>3, <2>5, <2>6
<1>5. CASE Record(w)
  <2>1. PICK x : SetsCycle(w, x) /\ Records(w, x)
    BY <1>5, RecordStep
  <2>2. UNCHANGED <<outbox, posted, doubt, inbox>> /\ c.pc = "record"
    BY <1>5 DEF Record, At, inboundSide
  <2>3. BoxStep
    BY <2>2, BoxSame
  <2>4. Row(w) \in Rows
    BY <2>2, CurrentRow DEF Batch, Delivering
  <2>5. ledger' \in [Rows -> Nat]
    BY <1>0, <2>1, <2>4 DEF Records, LedgerRecord
  <2>6. CycleOK(x)'
    <3>1. CASE x = Idle
      BY <3>1, IdleOK
    <3>2. CASE x.pc = "save" /\ SameBatch(w, x) /\ x.ids = c.ids
      BY <1>0, <2>2, <3>2
         DEF CycleOK, SameBatch, Batch, Delivering, Reading, Present
    <3> QED BY <2>1, <3>1, <3>2 DEF Records
  <2> QED BY <1>0, <1>2, <2>1, <2>2, <2>3, <2>5, <2>6
<1>6. CASE Save(w)
  <2>1. PICK x : SetsCycle(w, x) /\ Saves(w, x)
    BY <1>6, SaveStep
  <2>2. UNCHANGED <<ledger, posted, doubt, inbox>> /\ c.pc = "save"
    BY <1>6 DEF Save, At, inboundSide
  <2>3. /\ Row(w) \in Rows /\ Present(Row(w)) /\ c.todo \subseteq Rows
        /\ \A r \in c.todo : Present(r)
    BY <1>0, <2>2, CurrentRow DEF Batch, Delivering, CycleOK
  <2>4. /\ c.copy[Row(w)] \in Nat /\ c.copy[Row(w)] < MaxAttempts /\ c.ids[Row(w)] \in Nat
    BY <1>0, <2>3, OutboxAssumption DEF CycleOK
  <2>5. BoxStep
    BY <2>1, <2>3, <2>4, BoxSave DEF Saves
  <2>6. PICK id \in Nat : GoesOn(w, x, id)
    BY <2>1, <2>4 DEF Saves
  <2>7. \A r \in Rows : IdsAfter(w, id)[r] # 0 => Present(r)'
    BY <1>0, <2>3, <2>5 DEF IdsAfter, CycleOK, BoxStep
  <2>8. \A r \in c.todo : Present(r)'
    BY <2>3, <2>5 DEF BoxStep
  <2>9. CycleOK(x)'
    BY <1>0, <1>1, <2>3, <2>6, <2>7, <2>8
       DEF GoesOn, CycleOK, Rest, Batch, Delivering, Reading
  <2> QED BY <1>0, <1>2, <2>1, <2>2, <2>5, <2>9
<1>7. CASE Claim(w)
  <2>1. PICK x : SetsCycle(w, x) /\ Claims(w, x)
    BY <1>7, ClaimStep
  <2>2. UNCHANGED <<ledger, posted, doubt, inbox>> /\ ClaimBatch
    BY <1>7 DEF Claim, inboundSide
  <2>3. /\ BoxStep /\ \A r \in DueRows : Present(r)' /\ outbox[r].attempt < MaxAttempts
    BY <2>2, BoxClaim DEF Present
  <2>4. CycleOK(x)'
    BY <1>0, <1>1, <2>1, <2>3 DEF Claims, CycleOK, BoxStep, Batch, Delivering, Reading
  <2> QED BY <1>0, <1>2, <2>1, <2>2, <2>3, <2>4
<1>8. CASE Recover(w) \/ Confirm(w)
  <2>1. PICK x : SetsCycle(w, x) /\ Acknowledges(w, x)
    BY <1>8, AckStep
  <2>2. UNCHANGED <<ledger, posted, doubt, inbox>> /\ c.pc \in {"recover", "confirm"}
    BY <1>8 DEF Recover, Confirm, At, inboundSide
  <2>3. Row(w) \in Rows /\ c.todo \subseteq Rows
    BY <2>2, CurrentRow DEF Batch
  <2>4. BoxStep
    BY <2>1, <2>3, BoxAck, BoxSame DEF Acknowledges
  <2>5. CycleOK(x)'
    <3>1. CASE x = Idle
      BY <3>1, IdleOK
    <3>2. CASE x # Idle
      <4>1. /\ x.ids \in {c.ids, NoIds} /\ x.copy \in {c.copy, NoIds}
            /\ \/ x.pc = c.pc /\ x.todo # {} /\ x.todo = Rest(w)
               \/ x.pc \in {"claim", "poll"}
        BY <2>1, <3>2 DEF Acknowledges
      <4> QED BY <1>0, <1>1, <2>2, <2>3, <2>4, <4>1
              DEF CycleOK, BoxStep, Rest, Batch, Delivering, Reading
    <3> QED BY <3>1, <3>2
  <2> QED BY <1>0, <1>2, <2>1, <2>2, <2>4, <2>5
<1>9. CASE Poll(w) \/ Consume(w) \/ Enroll(w) \/ Effect(w) \/ Reply(w) \/ Advance(w)
  <2>1. PICK x : SetsCycle(w, x) /\ ReadsOn(w, x)
    BY <1>9, ReadStep
  <2>2. UNCHANGED <<ledger, posted, doubt, inbox>>
    BY <2>1 DEF ReadsOn
  <2>3. BoxStep
    BY <2>1, BoxSame, BoxEnqueue DEF ReadsOn
  <2>4. CycleOK(x)'
    <3>1. CASE x = Idle
      BY <3>1, IdleOK
    <3>2. CASE x # Idle
      BY <1>0, <1>1, <2>1, <2>2, <2>3, <3>2
         DEF ReadsOn, CycleOK, BoxStep, Batch, Delivering, Reading
    <3> QED BY <3>1, <3>2
  <2> QED BY <1>0, <1>2, <2>1, <2>2, <2>3, <2>4
<1>10. CASE BeginCycle(w, "projection") \/ BeginCycle(w, "enrollment")
  <2>1. PICK x : SetsCycle(w, x) /\ Begins(w, x)
    BY <1>10, BeginStep
  <2>2. UNCHANGED <<outbox, ledger, posted, doubt, inbox>>
    BY <1>10 DEF BeginCycle, inboundSide, outboxVars
  <2>3. BoxStep
    BY <2>2, BoxSame
  <2>4. \A r \in SentRows : Present(r)' /\ r \in Rows
    BY <2>2, DueSent DEF Present
  <2>5. \A r \in Rows : IdsOf(SentRows)[r] # 0 => Present(r)'
    BY <2>4 DEF IdsOf
  <2>6. CycleOK(x)'
    BY <1>1, <2>1, <2>4, <2>5 DEF Begins, CycleOK, Batch, Delivering, Reading
  <2> QED BY <1>0, <1>2, <2>1, <2>2, <2>3, <2>6
<1>11. CASE Stall(w)
  <2>0. PICK x : x = [c EXCEPT !.leased = FALSE]
    OBVIOUS
  <2>1. worker' = [worker EXCEPT ![w] = x]
    BY <1>0, <1>11, <2>0 DEF Stall
  <2>2. /\ x \in Cycle /\ x.pc = c.pc /\ x.todo = c.todo /\ x.copy = c.copy
        /\ x.ids = c.ids /\ x.update = c.update /\ x.last = c.last
    BY <1>0, <2>0 DEF Cycle
  <2>3. UNCHANGED <<outbox, ledger, posted, doubt, inbox>>
    BY <1>11 DEF Stall, inboundSide, outboxVars
  <2>4. BoxStep
    BY <2>3, BoxSame
  <2>5. CycleOK(x)'
    BY <1>0, <2>2, <2>3 DEF CycleOK, Present
  <2> QED BY <1>0, <1>2, <2>1, <2>2, <2>3, <2>4, <2>5 DEF SetsCycle
<1>12. CASE Crash(w)
  <2>1. SetsCycle(w, Idle)
    BY <1>12, IdleCycle DEF Crash, Ends, SetsCycle
  <2>2. UNCHANGED <<outbox, ledger, posted, inbox>>
    BY <1>12 DEF Crash, inboundSide
  <2>3. BoxStep
    BY <2>2, BoxSame
  <2>4. doubt' \in [Rows -> Nat]
    BY <1>0, <1>12, CurrentRow DEF Crash, At, Doubtful, Batch, Delivering
  <2> QED BY <1>0, <1>2, <2>1, <2>2, <2>3, <2>4, IdleOK
<1> QED BY <1>3, <1>4, <1>5, <1>6, <1>7, <1>8, <1>9, <1>10, <1>11, <1>12 DEF Step

----------------------------------------------------------------------------
(* The security protocol. *)

ChallengeRow == [user : Users \cup {NoUser}, late : BOOLEAN,
                 state : {"none", "PENDING", "COMPLETED", "REVOKED"}]
BindingRow == [user : Users \cup {NoUser}, chat : Chats \cup {NoChat}, active : BOOLEAN]
NonceRow == [state : {"none", "ISSUED", "CONSUMED", "EXPIRED"},
             action : Actions \cup {"none"}, binding : 0..MaxTokens, late : BOOLEAN]
ReceiptRow == [state : {"none", "APPLIED", "REJECTED"},
               by : {"none", "enrollment", "callback", "message"}, nonce : 0..MaxNonces]

LEMMA InboundRows ==
    InboundTypeOK <=> /\ challenge \in [Tokens -> ChallengeRow]
                      /\ binding \in [Tokens -> BindingRow]
                      /\ nonce \in [Nonces -> NonceRow]
                      /\ receipt \in [Updates -> ReceiptRow]
                      /\ candidate \in {"active"} \cup Terminal
BY DEF InboundTypeOK, ChallengeRow, BindingRow, NonceRow, ReceiptRow

LEMMA InboundRowsPrime ==
    InboundTypeOK' <=> /\ challenge' \in [Tokens -> ChallengeRow]
                       /\ binding' \in [Tokens -> BindingRow]
                       /\ nonce' \in [Nonces -> NonceRow]
                       /\ receipt' \in [Updates -> ReceiptRow]
                       /\ candidate' \in {"active"} \cup Terminal
BY DEF InboundTypeOK, ChallengeRow, BindingRow, NonceRow, ReceiptRow

(* One nonce changes its state, its action stays. *)
LEMMA NonceSet ==
    ASSUME nonce \in [Nonces -> NonceRow], NEW n \in Nonces,
           NEW st \in {"none", "ISSUED", "CONSUMED", "EXPIRED"},
           nonce' = [nonce EXCEPT ![n].state = st]
    PROVE  /\ nonce' \in [Nonces -> NonceRow]
           /\ nonce'[n].state = st /\ nonce'[n].action = nonce[n].action
           /\ nonce'[n].binding = nonce[n].binding
           /\ \A m \in Nonces \ {n} : nonce'[m] = nonce[m]
<1> DEFINE row == [nonce[n] EXCEPT !.state = st]
<1>1. nonce' = [nonce EXCEPT ![n] = row]
  OBVIOUS
<1>2. /\ row \in NonceRow /\ row.state = st /\ row.action = nonce[n].action
      /\ row.binding = nonce[n].binding
  BY DEF NonceRow
<1> HIDE DEF row
<1> QED BY <1>1, <1>2

(* receive_callback and the confirming message. *)
LEMMA SpendRows ==
    ASSUME InboundTypeOK, NEW u \in Updates, NEW n \in Nonces,
           NEW by \in {"callback", "message"}, SpendNonce(u, n, by)
    PROVE  /\ InboundTypeOK' /\ UNCHANGED <<challenge, binding, candidate>>
           /\ receipt'[u].nonce = n /\ receipt'[u].by = by
           /\ receipt'[u].state =
                IF AuthorizeNonceActor(n) THEN "APPLIED" ELSE "REJECTED"
           /\ \A v \in Updates \ {u} : receipt'[v] = receipt[v]
           /\ nonce'[n].state = NonceAfter(n) /\ nonce'[n].action = nonce[n].action
           /\ nonce'[n].binding = nonce[n].binding
           /\ \A m \in Nonces \ {n} : nonce'[m] = nonce[m]
           /\ outbox' = IF AuthorizeNonceActor(n) /\ nonce[n].action = "APPROVE"
                        THEN Enqueued(outbox, IntentRow(u)) ELSE outbox
<1>0. /\ nonce \in [Nonces -> NonceRow] /\ receipt \in [Updates -> ReceiptRow]
  BY InboundRows
<1>1. PICK st \in {"APPLIED", "REJECTED"} :
        st = IF AuthorizeNonceActor(n) THEN "APPLIED" ELSE "REJECTED"
  OBVIOUS
<1> DEFINE row == [state |-> st, by |-> by, nonce |-> n]
<1>2. n \in 0..MaxNonces
  BY InboundAssumption DEF Nonces
<1>3. row \in ReceiptRow /\ row.state = st /\ row.by = by /\ row.nonce = n
  BY <1>2 DEF ReceiptRow
<1>4. receipt' = [receipt EXCEPT ![u] = row]
  BY <1>1 DEF SpendNonce
<1> HIDE DEF row
<1>5. /\ receipt' \in [Updates -> ReceiptRow]
      /\ receipt'[u] = row /\ \A v \in Updates \ {u} : receipt'[v] = receipt[v]
  BY <1>0, <1>3, <1>4
<1>6. NonceAfter(n) \in {"none", "ISSUED", "CONSUMED", "EXPIRED"}
  BY <1>0 DEF NonceAfter, NonceRow
<1>7. nonce' = [nonce EXCEPT ![n].state = NonceAfter(n)]
  BY DEF SpendNonce
<1>8. /\ nonce' \in [Nonces -> NonceRow]
      /\ nonce'[n].state = NonceAfter(n) /\ nonce'[n].action = nonce[n].action
      /\ nonce'[n].binding = nonce[n].binding
      /\ \A m \in Nonces \ {n} : nonce'[m] = nonce[m]
  BY <1>0, <1>6, <1>7, NonceSet
<1>9. UNCHANGED <<challenge, binding, candidate>>
  BY DEF SpendNonce
<1>10. InboundTypeOK'
  BY <1>5, <1>8, <1>9, InboundRows, InboundRowsPrime
<1> QED BY <1>1, <1>3, <1>5, <1>8, <1>9, <1>10 DEF SpendNonce

(* A message without a nonce. *)
LEMMA SaveReceiptRows ==
    ASSUME InboundTypeOK, NEW u \in Updates, NEW st \in {"APPLIED", "REJECTED"},
           SaveReceipt(u, st)
    PROVE  /\ InboundTypeOK' /\ UNCHANGED <<challenge, binding, nonce, candidate, outbox>>
           /\ receipt'[u].nonce = 0 /\ receipt'[u].by = "message" /\ receipt'[u].state = st
           /\ \A v \in Updates \ {u} : receipt'[v] = receipt[v]
<1> DEFINE row == [state |-> st, by |-> "message", nonce |-> 0]
<1>1. row \in ReceiptRow /\ row.state = st /\ row.by = "message" /\ row.nonce = 0
  BY InboundAssumption DEF ReceiptRow
<1>2. receipt' = [receipt EXCEPT ![u] = row]
  BY DEF SaveReceipt
<1> HIDE DEF row
<1>3. /\ receipt' \in [Updates -> ReceiptRow]
      /\ receipt'[u] = row /\ \A v \in Updates \ {u} : receipt'[v] = receipt[v]
  BY <1>1, <1>2, InboundRows
<1>4. UNCHANGED <<challenge, binding, nonce, candidate, outbox>>
  BY DEF SaveReceipt, outboxVars
<1> QED BY <1>1, <1>3, <1>4, InboundRows, InboundRowsPrime

(* complete_enrollment. *)
LEMMA CompleteRows ==
    ASSUME InboundTypeOK, NEW u \in Updates, NEW k \in Tokens, NEW chat \in Chats,
           CompleteEnrollment(u, k, chat)
    PROVE  /\ InboundTypeOK' /\ UNCHANGED <<nonce, candidate>>
           /\ receipt'[u].nonce = 0 /\ receipt'[u].by = "enrollment"
           /\ receipt'[u].state = "APPLIED"
           /\ \A v \in Updates \ {u} : receipt'[v] = receipt[v]
           /\ binding'[k].active /\ binding'[k].user = challenge[k].user
           /\ binding'[k].chat = chat
           /\ \A j \in Tokens \ {k} :
                /\ binding'[j].user = binding[j].user /\ binding'[j].chat = binding[j].chat
                /\ binding'[j].active <=>
                     binding[j].active /\ binding[j].user # challenge[k].user
<1>0. /\ challenge \in [Tokens -> ChallengeRow] /\ binding \in [Tokens -> BindingRow]
      /\ receipt \in [Updates -> ReceiptRow]
  BY InboundRows
<1> DEFINE row == [state |-> "APPLIED", by |-> "enrollment", nonce |-> 0]
<1>1. row \in ReceiptRow /\ row.state = "APPLIED" /\ row.by = "enrollment" /\ row.nonce = 0
  BY InboundAssumption DEF ReceiptRow
<1>2. receipt' = [receipt EXCEPT ![u] = row]
  BY DEF CompleteEnrollment
<1> HIDE DEF row
<1>3. /\ receipt' \in [Updates -> ReceiptRow]
      /\ receipt'[u] = row /\ \A v \in Updates \ {u} : receipt'[v] = receipt[v]
  BY <1>0, <1>1, <1>2
<1>4. challenge' \in [Tokens -> ChallengeRow]
  <2> DEFINE c == [challenge[k] EXCEPT !.state = "COMPLETED"]
  <2>1. challenge' = [challenge EXCEPT ![k] = c] /\ c \in ChallengeRow
    BY <1>0 DEF CompleteEnrollment, ChallengeRow
  <2> QED BY <1>0, <2>1
<1>5. /\ binding'[k] \in BindingRow
      /\ binding'[k].active = TRUE /\ binding'[k].user = challenge[k].user
      /\ binding'[k].chat = chat
  <2>1. binding'[k] = [user |-> challenge[k].user, chat |-> chat, active |-> TRUE]
    BY DEF CompleteEnrollment
  <2>2. challenge[k].user \in Users \cup {NoUser}
    BY <1>0 DEF ChallengeRow
  <2> QED BY <2>1, <2>2 DEF BindingRow
<1>6. ASSUME NEW j \in Tokens \ {k}
      PROVE  /\ binding'[j] \in BindingRow
             /\ binding'[j].user = binding[j].user /\ binding'[j].chat = binding[j].chat
             /\ binding'[j].active <=>
                  binding[j].active /\ binding[j].user # challenge[k].user
  <2>0. binding[j] \in BindingRow
    BY <1>0
  <2>1. CASE j \in ActiveOf(challenge[k].user)
    <3> DEFINE b == [binding[j] EXCEPT !.active = FALSE]
    <3>1. binding'[j] = b
      BY <2>1 DEF CompleteEnrollment
    <3>2. b \in BindingRow /\ b.user = binding[j].user /\ b.chat = binding[j].chat
      BY <2>0 DEF BindingRow
    <3>3. b.active = FALSE
      BY <2>0 DEF BindingRow
    <3> HIDE DEF b
    <3> QED BY <2>1, <3>1, <3>2, <3>3 DEF ActiveOf
  <2>2. CASE j \notin ActiveOf(challenge[k].user)
    <3>1. binding'[j] = binding[j]
      BY <2>2 DEF CompleteEnrollment
    <3> QED BY <2>0, <2>2, <3>1 DEF ActiveOf
  <2> QED BY <2>1, <2>2
<1>7. binding' \in [Tokens -> BindingRow]
  <2>1. \A j \in Tokens : binding'[j] \in BindingRow
    BY <1>5, <1>6
  <2> QED BY <2>1 DEF CompleteEnrollment
<1>8. UNCHANGED <<nonce, candidate>>
  BY DEF CompleteEnrollment
<1>9. InboundTypeOK'
  BY <1>3, <1>4, <1>7, <1>8, InboundRows, InboundRowsPrime
<1> QED BY <1>1, <1>3, <1>5, <1>6, <1>8, <1>9

(* What a first delivery writes: it spends a nonce, the button's own one   *)
(* or one that is issued, or it saves a receipt.                           *)
Spends(w, n, by) ==
    /\ SpendNonce(worker[w].update, n, by)
    /\ by = IF Current(w).kind = "press" THEN "callback" ELSE "message"
    /\ Current(w).kind = "press" => n = Current(w).nonce
    /\ nonce[n].state # "none"

LEMMA ReceiveRows ==
    ASSUME TypeInv, NEW w \in Workers, worker[w].pc = "consume", ReceiveNew(w),
           Current(w).kind = "press" => KnownPress(Current(w))
    PROVE  \/ \E n \in Nonces, by \in {"callback", "message"} : Spends(w, n, by)
           \/ /\ Current(w).kind # "press"
              /\ \E st \in {"APPLIED", "REJECTED"} : SaveReceipt(worker[w].update, st)
<1>1. Current(w) \in Update
  BY CurrentUpdate DEF Reading
<1>2. CASE Current(w).kind = "press"
  <2>1. SpendNonce(worker[w].update, Current(w).nonce, "callback") /\ Current(w).nonce \in Nonces
    BY <1>1, <1>2, UpdateFields DEF ReceiveNew
  <2> QED BY <1>2, <2>1 DEF Spends, KnownPress
<1>3. CASE Current(w).kind = "confirm"
  <2> DEFINE S == IssuedFor(Current(w).chat, Current(w).action)
  <2>1. ReceiveConfirmation(worker[w].update, Current(w).chat, Current(w).action)
    BY <1>3 DEF ReceiveNew
  <2>2. CASE S = {}
    BY <1>3, <2>1, <2>2 DEF ReceiveConfirmation
  <2>3. CASE S # {}
    <3>1. S \in SUBSET Nat /\ \A n \in S : n <= MaxNonces /\ n \in Nonces
      BY InboundAssumption DEF IssuedFor, Nonces
    <3>2. Max(S) \in Nonces /\ nonce[Max(S)].state = "ISSUED"
      <4>1. Max(S) \in S
        BY <2>3, <3>1, MaxNat, InboundAssumption
      <4> QED BY <3>1, <4>1 DEF IssuedFor
    <3>3. SpendNonce(worker[w].update, Max(S), "message")
      BY <2>1, <2>3 DEF ReceiveConfirmation
    <3> HIDE DEF S
    <3> QED BY <1>3, <3>2, <3>3 DEF Spends
  <2> QED BY <2>2, <2>3
<1>4. CASE Current(w).kind = "text"
  <2>1. ReceiveDiscussion(worker[w].update, Current(w).chat)
    BY <1>4 DEF ReceiveNew
  <2>2. CASE ActiveIn(Current(w).chat) = {}
    BY <1>4, <2>1, <2>2 DEF ReceiveDiscussion
  <2>3. CASE ActiveIn(Current(w).chat) # {}
    BY <1>4, <2>1, <2>3 DEF ReceiveDiscussion
  <2> QED BY <2>2, <2>3
<1> QED BY <1>1, <1>2, <1>3, <1>4, UpdateFields

(* The steps that change challenges and nonces outside a pass. *)
LEMMA StartType ==
    ASSUME InboundTypeOK, NEW user \in Users, NEW k \in Tokens, StartEnrollment(user, k)
    PROVE  InboundTypeOK'
<1>0. challenge \in [Tokens -> ChallengeRow]
  BY InboundRows
<1>1. ASSUME NEW j \in Tokens
      PROVE  challenge'[j] \in ChallengeRow
  <2>0. challenge[j] \in ChallengeRow
    BY <1>0
  <2>1. \/ challenge'[j] = [user |-> user, late |-> FALSE, state |-> "PENDING"]
        \/ challenge'[j] = [challenge[j] EXCEPT !.state = "REVOKED"]
        \/ challenge'[j] = challenge[j]
    BY DEF StartEnrollment
  <2>2. [user |-> user, late |-> FALSE, state |-> "PENDING"] \in ChallengeRow
    BY DEF ChallengeRow
  <2>3. [challenge[j] EXCEPT !.state = "REVOKED"] \in ChallengeRow
    BY <2>0 DEF ChallengeRow
  <2> QED BY <2>0, <2>1, <2>2, <2>3
<1>2. challenge' \in [Tokens -> ChallengeRow]
  BY <1>1 DEF StartEnrollment
<1> QED BY <1>2, InboundRows, InboundRowsPrime DEF StartEnrollment

LEMMA ExpiryType ==
    ASSUME InboundTypeOK,
           \/ \E k \in Tokens : TokenExpires(k)
           \/ \E n \in Nonces : NonceExpires(n)
           \/ CandidateExpires
    PROVE  InboundTypeOK'
<1>0. challenge \in [Tokens -> ChallengeRow] /\ nonce \in [Nonces -> NonceRow]
  BY InboundRows
<1>1. ASSUME NEW k \in Tokens, TokenExpires(k)
      PROVE  InboundTypeOK'
  <2>1. challenge' = [challenge EXCEPT ![k] = [challenge[k] EXCEPT !.late = TRUE]]
    BY <1>0, <1>1 DEF TokenExpires
  <2>2. [challenge[k] EXCEPT !.late = TRUE] \in ChallengeRow
    BY <1>0 DEF ChallengeRow
  <2> QED BY <1>0, <1>1, <2>1, <2>2, InboundRows, InboundRowsPrime DEF TokenExpires
<1>2. ASSUME NEW n \in Nonces, NonceExpires(n)
      PROVE  InboundTypeOK'
  <2>1. nonce' = [nonce EXCEPT ![n] = [nonce[n] EXCEPT !.late = TRUE]]
    BY <1>0, <1>2 DEF NonceExpires
  <2>2. [nonce[n] EXCEPT !.late = TRUE] \in NonceRow
    BY <1>0 DEF NonceRow
  <2> QED BY <1>0, <1>2, <2>1, <2>2, InboundRows, InboundRowsPrime DEF NonceExpires
<1>3. CASE CandidateExpires
  BY <1>3 DEF CandidateExpires, InboundTypeOK, Terminal
<1> QED BY <1>1, <1>2, <1>3

LEMMA IssueType ==
    ASSUME InboundTypeOK, NEW k \in Tokens, NEW action \in Actions, NEW n \in Nonces,
           IssueNonce(k, action, n)
    PROVE  InboundTypeOK'
<1> DEFINE row == [state |-> "ISSUED", action |-> action, binding |-> k, late |-> FALSE]
<1>1. row \in NonceRow
  BY DEF NonceRow, Tokens
<1>2. nonce' = [nonce EXCEPT ![n] = row]
  BY DEF IssueNonce
<1> HIDE DEF row
<1> QED BY <1>1, <1>2, InboundRows, InboundRowsPrime DEF IssueNonce

(* The candidate after an effect. *)
LEMMA EffectType ==
    ASSUME InboundTypeOK, NEW w \in Workers, Effect(w)
    PROVE  InboundTypeOK'
<1>1. \/ UNCHANGED candidate
      \/ candidate' \in {"rejected", "skipped"}
  BY DEF Effect, PressEffect, MessageEffect, ApplyAuthorizedAction, Target
<1> QED BY <1>1 DEF Effect, InboundTypeOK, Terminal

LEMMA AdvanceType ==
    ASSUME TypeInv, NEW w \in Workers, worker[w].pc \in Reading,
           NEW report \in {"applied", "rejected"}, AdvanceCursor(w, report)
    PROVE  /\ cursor' \in 0..MaxUpdates /\ cursor' <= Len(inbox)
           /\ reported' \in [Updates -> {"none", "applied", "rejected"}]
<1>1. /\ worker[w].update \in 1..Len(inbox) /\ worker[w].update \in Updates
  BY CurrentUpdate
<1>2. PICK x : AdvancesTo(w, x, report)
  BY AdvanceStep
<1>3. /\ cursor \in 0..MaxUpdates /\ cursor <= Len(inbox) /\ Len(inbox) \in Nat
      /\ reported \in [Updates -> {"none", "applied", "rejected"}]
  BY DEF TypeInv, TypeOK
<1>4. worker[w].update \in 0..MaxUpdates /\ worker[w].update <= Len(inbox)
  BY <1>1, <1>3, OutboxAssumption DEF Updates
<1> QED BY <1>1, <1>2, <1>3, <1>4 DEF AdvancesTo

InboundTyped ==
    /\ InboundTypeOK'
    /\ cursor' \in 0..MaxUpdates /\ cursor' <= Len(inbox)
    /\ reported' \in [Updates -> {"none", "applied", "rejected"}]

LEMMA StepInbound ==
    ASSUME TypeInv, NEW w \in Workers,
           Consume(w) \/ Enroll(w) \/ Effect(w) \/ Advance(w)
    PROVE  InboundTyped
<1> DEFINE u == worker[w].update
<1>0. /\ InboundTypeOK /\ cursor \in 0..MaxUpdates /\ cursor <= Len(inbox)
      /\ reported \in [Updates -> {"none", "applied", "rejected"}]
  BY DEF TypeInv, TypeOK
<1>1. ASSUME UNCHANGED inboundVars
      PROVE  InboundTypeOK'
  BY <1>0, <1>1 DEF inboundVars, InboundTypeOK
<1>2. ASSUME InboundTypeOK', UNCHANGED <<cursor, reported>>
      PROVE  InboundTyped
  BY <1>0, <1>2 DEF InboundTyped
<1>3. ASSUME worker[w].pc \in Reading, UNCHANGED inboundVars,
             NEW report \in {"applied", "rejected"}, AdvanceCursor(w, report)
      PROVE  InboundTyped
  BY <1>1, <1>3, AdvanceType DEF InboundTyped
<1>4. CASE Consume(w)
  <2>1. worker[w].pc = "consume" /\ worker[w].pc \in Reading
    BY <1>4 DEF Consume, At, Reading
  <2>2. CASE Refuse(w)
    BY <1>3, <2>1, <2>2 DEF Refuse
  <2>3. CASE UNCHANGED <<inboundVars, cursor, reported>>
    BY <1>1, <1>2, <2>3
  <2>4. CASE ReceiveNew(w) /\ (Current(w).kind = "press" => KnownPress(Current(w)))
    <3>1. u \in Updates
      BY <2>1, CurrentUpdate
    <3>2. UNCHANGED <<cursor, reported>>
      BY <2>4 DEF ReceiveNew, Received
    <3>3. InboundTypeOK'
      BY <1>0, <2>1, <2>4, <3>1, ReceiveRows, SpendRows, SaveReceiptRows DEF Spends
    <3> QED BY <1>2, <3>2, <3>3
  <2> QED BY <1>4, <2>2, <2>3, <2>4 DEF Consume, Received
<1>5. CASE Enroll(w)
  <2>1. worker[w].pc = "consume" /\ worker[w].pc \in Reading
    BY <1>5 DEF Enroll, At, Reading
  <2>2. CASE Refuse(w)
    BY <1>3, <2>1, <2>2 DEF Refuse
  <2>3. CASE AdvanceCursor(w, "applied") /\ UNCHANGED inboundVars
    BY <1>3, <2>1, <2>3
  <2>4. CASE /\ Current(w).kind = "text"
             /\ CompleteEnrollment(u, Current(w).token, Current(w).chat)
             /\ UNCHANGED <<cursor, reported>>
    <3>1. u \in Updates /\ Current(w) \in Update
      BY <2>1, CurrentUpdate
    <3>2. InboundTypeOK'
      BY <1>0, <2>4, <3>1, UpdateFields, CompleteRows
    <3> QED BY <1>2, <2>4, <3>2
  <2> QED BY <1>5, <2>2, <2>3, <2>4 DEF Enroll
<1>6. CASE Effect(w)
  BY <1>0, <1>2, <1>6, EffectType DEF Effect
<1>7. CASE Advance(w)
  BY <1>3, <1>7 DEF Advance, At, Reading
<1> QED BY <1>4, <1>5, <1>6, <1>7

----------------------------------------------------------------------------
(* Everything a step can do to enrollments, nonces and receipts.           *)

(* A first delivery of the update that worker w is at. *)
FirstDelivery(w) ==
    /\ worker[w].pc = "consume" /\ receipt[worker[w].update].state = "none"
    /\ UNCHANGED <<cursor, reported, inbox>>

Receives(w) ==
    /\ FirstDelivery(w)
    /\ Current(w).kind = "press" => KnownPress(Current(w))
    /\ ReceiveNew(w)

Enrolls(w) ==
    /\ FirstDelivery(w)
    /\ Current(w).kind = "text"
    /\ Enrollable(Current(w).token, Current(w).chat)
    /\ CompleteEnrollment(worker[w].update, Current(w).token, Current(w).chat)
    /\ UNCHANGED outboxVars
    /\ Moves(w, "advance")

LEMMA ProtocolSteps ==
    ASSUME TypeInv, [Next]_vars
    PROVE  \/ UNCHANGED <<challenge, binding, nonce, receipt>>
           \/ \E w \in Workers : Receives(w) \/ Enrolls(w)
           \/ \E user \in Users, k \in Tokens : StartEnrollment(user, k)
           \/ \E k \in Tokens : TokenExpires(k)
           \/ \E n \in Nonces : NonceExpires(n)
           \/ \E k \in Tokens, action \in Actions, n \in Nonces : IssueNonce(k, action, n)
<1>1. ASSUME NEW w \in Workers, Consume(w)
      PROVE  UNCHANGED <<challenge, binding, nonce, receipt>> \/ Receives(w)
  <2>1. worker[w].pc = "consume" /\ UNCHANGED inbox
    BY <1>1 DEF Consume, At
  <2>2. CASE Refuse(w) \/ UNCHANGED inboundVars
    BY <2>2 DEF Refuse, inboundVars
  <2>3. CASE /\ receipt[worker[w].update].state = "none" /\ ReceiveNew(w)
             /\ Current(w).kind = "press" => KnownPress(Current(w))
    BY <2>1, <2>3 DEF ReceiveNew, Received, Receives, FirstDelivery
  <2> QED BY <1>1, <2>2, <2>3 DEF Consume
<1>2. ASSUME NEW w \in Workers, Enroll(w)
      PROVE  UNCHANGED <<challenge, binding, nonce, receipt>> \/ Enrolls(w)
  <2>1. worker[w].pc = "consume" /\ UNCHANGED inbox
    BY <1>2 DEF Enroll, At
  <2>2. CASE Refuse(w) \/ UNCHANGED inboundVars
    BY <2>2 DEF Refuse, inboundVars
  <2>3. CASE /\ Current(w).kind = "text" /\ receipt[worker[w].update].state = "none"
             /\ Enrollable(Current(w).token, Current(w).chat)
             /\ CompleteEnrollment(worker[w].update, Current(w).token, Current(w).chat)
             /\ Moves(w, "advance")
             /\ UNCHANGED <<outboxVars, cursor, reported>>
    BY <2>1, <2>3 DEF Enrolls, FirstDelivery
  <2> QED BY <1>2, <2>2, <2>3 DEF Enroll
<1>3. ASSUME NEW w \in Workers, Step(w), ~Consume(w), ~Enroll(w)
      PROVE  UNCHANGED <<challenge, binding, nonce, receipt>>
  BY <1>3 DEF Step, Recover, Claim, Look, Post, Record, Save, Confirm, Poll, Effect, Reply,
              Advance, inboundSide, inboundVars
<1>4. ASSUME \/ \E w \in Workers : Stall(w) \/ Crash(w)
             \/ \E w \in Workers : BeginCycle(w, "projection") \/ BeginCycle(w, "enrollment")
             \/ \E r \in Rows : RowLeaseExpires(r)
             \/ \E n \in Nonces : UserPresses(n)
             \/ \E action \in Actions : UserConfirms(action)
             \/ \E chat \in Chats, k \in Tokens : UserWrites(chat, k)
             \/ UNCHANGED vars
      PROVE  UNCHANGED <<challenge, binding, nonce, receipt>>
  BY <1>4 DEF Stall, Crash, BeginCycle, RowLeaseExpires, UserPresses, UserConfirms,
              UserWrites, Arrives, vars, inboundSide, inboundVars
<1>5. CASE Platform
  BY <1>5 DEF Platform, CandidateExpires
<1>6. CASE Issues
  BY <1>6 DEF Issues
<1> QED BY <1>1, <1>2, <1>3, <1>4, <1>5, <1>6 DEF Next

(* What the two first deliveries do, row by row. *)
LEMMA ReceivesRows ==
    ASSUME TypeInv, NEW w \in Workers, Receives(w)
    PROVE  /\ UNCHANGED <<challenge, binding, candidate>>
           /\ worker[w].update \in Updates /\ worker[w].update \in 1..Len(inbox)
           /\ \A v \in Updates \ {worker[w].update} : receipt'[v] = receipt[v]
           /\ \/ \E n \in Nonces, by \in {"callback", "message"} : Spends(w, n, by)
              \/ /\ Current(w).kind # "press" /\ UNCHANGED <<nonce, outbox>>
                 /\ receipt'[worker[w].update].nonce = 0
                 /\ receipt'[worker[w].update].state \in {"APPLIED", "REJECTED"}
                 /\ receipt'[worker[w].update].by = "message"
<1>0. /\ InboundTypeOK /\ worker[w].pc = "consume" /\ ReceiveNew(w)
      /\ Current(w).kind = "press" => KnownPress(Current(w))
  BY DEF TypeInv, TypeOK, Receives, FirstDelivery
<1>1. worker[w].update \in Updates /\ worker[w].update \in 1..Len(inbox)
  BY <1>0, CurrentUpdate DEF Reading
<1>2. ASSUME NEW n \in Nonces, NEW by \in {"callback", "message"}, Spends(w, n, by)
      PROVE  /\ UNCHANGED <<challenge, binding, candidate>>
             /\ \A v \in Updates \ {worker[w].update} : receipt'[v] = receipt[v]
  BY <1>0, <1>1, <1>2, SpendRows DEF Spends
<1>3. ASSUME NEW st \in {"APPLIED", "REJECTED"}, SaveReceipt(worker[w].update, st)
      PROVE  /\ UNCHANGED <<challenge, binding, nonce, candidate, outbox>>
             /\ \A v \in Updates \ {worker[w].update} : receipt'[v] = receipt[v]
             /\ receipt'[worker[w].update].nonce = 0
             /\ receipt'[worker[w].update].state \in {"APPLIED", "REJECTED"}
             /\ receipt'[worker[w].update].by = "message"
  BY <1>0, <1>1, <1>3, SaveReceiptRows
<1> QED BY <1>0, <1>1, <1>2, <1>3, ReceiveRows

LEMMA EnrollsRows ==
    ASSUME TypeInv, NEW w \in Workers, Enrolls(w)
    PROVE  LET u == worker[w].update
               k == Current(w).token
               chat == Current(w).chat
           IN  /\ UNCHANGED <<nonce, candidate, outbox>>
               /\ u \in Updates /\ u \in 1..Len(inbox) /\ k \in Tokens /\ chat \in Chats
               /\ receipt'[u].nonce = 0 /\ receipt'[u].by = "enrollment"
               /\ receipt'[u].state = "APPLIED"
               /\ \A v \in Updates \ {u} : receipt'[v] = receipt[v]
               /\ Enrollable(k, chat)
               /\ binding'[k].active /\ binding'[k].user = challenge[k].user
               /\ binding'[k].chat = chat
               /\ \A j \in Tokens \ {k} :
                    /\ binding'[j].user = binding[j].user /\ binding'[j].chat = binding[j].chat
                    /\ binding'[j].active <=>
                         binding[j].active /\ binding[j].user # challenge[k].user
<1>0. InboundTypeOK /\ worker[w].pc = "consume"
  BY DEF TypeInv, TypeOK, Enrolls, FirstDelivery
<1>1. /\ worker[w].update \in Updates /\ worker[w].update \in 1..Len(inbox)
      /\ Current(w).token \in Tokens /\ Current(w).chat \in Chats
  BY <1>0, CurrentUpdate, UpdateFields DEF Reading, Enrolls
<1>2. /\ CompleteEnrollment(worker[w].update, Current(w).token, Current(w).chat)
      /\ Enrollable(Current(w).token, Current(w).chat) /\ UNCHANGED outbox
  BY DEF Enrolls, outboxVars
<1> QED BY <1>0, <1>1, <1>2, CompleteRows

LEMMA LateRows ==
    ASSUME TypeInv, NEW n \in Nonces, NonceExpires(n)
    PROVE  \A m \in Nonces : /\ nonce'[m].state = nonce[m].state
                             /\ nonce'[m].action = nonce[m].action
                             /\ nonce'[m].binding = nonce[m].binding
<1>0. nonce \in [Nonces -> NonceRow]
  BY InboundRows DEF TypeInv, TypeOK
<1> DEFINE row == [nonce[n] EXCEPT !.late = TRUE]
<1>1. nonce' = [nonce EXCEPT ![n] = row]
  BY <1>0 DEF NonceExpires
<1>2. row.state = nonce[n].state /\ row.action = nonce[n].action
      /\ row.binding = nonce[n].binding
  BY <1>0 DEF NonceRow
<1> HIDE DEF row
<1> QED BY <1>0, <1>1, <1>2

LEMMA IssueRows ==
    ASSUME TypeInv, NEW k \in Tokens, NEW action \in Actions, NEW n \in Nonces,
           IssueNonce(k, action, n)
    PROVE  /\ nonce[n].state = "none" /\ binding[k].active
           /\ nonce'[n].state = "ISSUED" /\ nonce'[n].action = action
           /\ nonce'[n].binding = k
           /\ \A m \in Nonces \ {n} : nonce'[m] = nonce[m]
<1>0. nonce \in [Nonces -> NonceRow]
  BY InboundRows DEF TypeInv, TypeOK
<1> QED BY <1>0 DEF IssueNonce

LEMMA BoundNext ==
    ASSUME TypeInv, [Next]_vars
    PROVE  NoncesBound'
<1>0. /\ NoncesBound /\ nonce \in [Nonces -> NonceRow] /\ InboundTypeOK
  BY InboundRows DEF TypeInv, TypeOK
<1>1. \A n \in Nonces : nonce[n].binding \in Tokens
  BY <1>0 DEF NonceRow, Tokens
<1>2. CASE UNCHANGED <<binding, nonce>>
  BY <1>0, <1>2 DEF NoncesBound, Bound
<1>3. ASSUME NEW w \in Workers, Receives(w)
      PROVE  NoncesBound'
  <2>1. UNCHANGED binding
    BY <1>3, ReceivesRows
  <2>2. ASSUME NEW n \in Nonces, NEW by \in {"callback", "message"}, Spends(w, n, by)
        PROVE  NoncesBound'
    <3>1. worker[w].update \in Updates
      BY <1>3, ReceivesRows
    <3>2. /\ nonce'[n].binding = nonce[n].binding
          /\ \A m \in Nonces \ {n} : nonce'[m] = nonce[m]
      BY <1>0, <2>2, <3>1, SpendRows DEF Spends
    <3>3. nonce[n].state # "none"
      BY <2>2 DEF Spends
    <3> QED BY <1>0, <2>1, <3>2, <3>3 DEF NoncesBound, Bound
  <2> QED BY <1>2, <1>3, <2>1, <2>2, ReceivesRows
<1>4. ASSUME NEW w \in Workers, Enrolls(w)
      PROVE  NoncesBound'
  <2>1. /\ UNCHANGED nonce /\ Current(w).token \in Tokens /\ Current(w).chat \in Chats
        /\ binding'[Current(w).token].chat = Current(w).chat
        /\ \A j \in Tokens \ {Current(w).token} :
             binding'[j].chat = binding[j].chat /\ (binding'[j].active => binding[j].active)
    BY <1>4, EnrollsRows
  <2> QED BY <1>0, <1>1, <2>1 DEF NoncesBound, Bound
<1>5. ASSUME NEW n \in Nonces, NonceExpires(n)
      PROVE  NoncesBound'
  BY <1>0, <1>1, <1>5, LateRows DEF NoncesBound, Bound, NonceExpires
<1>6. ASSUME NEW k \in Tokens, NEW action \in Actions, NEW n \in Nonces,
             IssueNonce(k, action, n)
      PROVE  NoncesBound'
  <2>1. UNCHANGED binding
    BY <1>6 DEF IssueNonce
  <2> QED BY <1>0, <1>6, <2>1, IssueRows DEF NoncesBound, Bound
<1> QED BY <1>2, <1>3, <1>4, <1>5, <1>6, ProtocolSteps DEF StartEnrollment, TokenExpires

----------------------------------------------------------------------------
Arriving ==
    \/ \E n \in Nonces : UserPresses(n)
    \/ \E action \in Actions : UserConfirms(action)
    \/ \E chat \in Chats, k \in Tokens : UserWrites(chat, k)

(* An update that arrives is a well-formed one. *)
LEMMA ArrivingUpdate ==
    ASSUME TypeInv, Arriving
    PROVE  \E update \in Update : Arrives(update)
<1>1. ASSUME NEW n \in Nonces, UserPresses(n)
      PROVE  \E update \in Update : Arrives(update)
  <2> DEFINE chat == binding[nonce[n].binding].chat
  <2>1. nonce[n].state # "none" /\ Arrives([kind |-> "press", chat |-> chat, nonce |-> n])
    BY <1>1 DEF UserPresses
  <2>2. chat \in Chats
    BY <2>1 DEF TypeInv, NoncesBound, Bound
  <2>3. [kind |-> "press", chat |-> chat, nonce |-> n] \in Update
    BY <2>2 DEF Update
  <2> QED BY <2>1, <2>3
<1>2. ASSUME NEW action \in Actions, UserConfirms(action)
      PROVE  \E update \in Update : Arrives(update)
  <2>1. [kind |-> "confirm", chat |-> Recipient, action |-> action] \in Update
    BY InboundAssumption DEF Update
  <2> QED BY <1>2, <2>1 DEF UserConfirms
<1>3. ASSUME NEW chat \in Chats, NEW k \in Tokens, UserWrites(chat, k)
      PROVE  \E update \in Update : Arrives(update)
  <2>1. [kind |-> "text", chat |-> chat, token |-> k] \in Update
    BY DEF Update
  <2> QED BY <1>3, <2>1 DEF UserWrites
<1> QED BY <1>1, <1>2, <1>3 DEF Arriving

LEMMA EventsType ==
    ASSUME TypeInv, [Next]_vars
    PROVE  events' \in 0..MaxEvents
<1>1. CASE UNCHANGED events
  BY <1>1 DEF TypeInv, TypeOK
<1>2. CASE Event
  BY <1>2, RuntimeAssumption DEF TypeInv, TypeOK, Event
<1>3. ASSUME NEW w \in Workers, Step(w)
      PROVE  UNCHANGED events \/ Event
  BY <1>3 DEF Step, Recover, Claim, Look, Post, Record, Save, Confirm, Poll, Consume, Enroll,
              Effect, Reply, Advance
<1>4. ASSUME \/ \E w \in Workers : Stall(w) \/ Crash(w)
             \/ \E w \in Workers : BeginCycle(w, "projection") \/ BeginCycle(w, "enrollment")
             \/ \E r \in Rows : RowLeaseExpires(r)
             \/ Arriving \/ Issues \/ Platform \/ UNCHANGED vars
      PROVE  UNCHANGED events \/ Event
  BY <1>4 DEF Stall, Crash, BeginCycle, RowLeaseExpires, Arriving, UserPresses, UserConfirms,
              UserWrites, Arrives, Issues, Platform, vars
<1> QED BY <1>1, <1>2, <1>3, <1>4 DEF Next, Arriving

LEMMA TypeNext ==
    ASSUME TypeInv, [Next]_vars
    PROVE  TypeInv'
<1>0. /\ OutboxTypeOK /\ InboundTypeOK
      /\ inbox \in Seq(Update) /\ Len(inbox) <= MaxUpdates /\ Len(inbox) \in Nat
      /\ cursor \in 0..MaxUpdates /\ cursor <= Len(inbox)
      /\ reported \in [Updates -> {"none", "applied", "rejected"}]
  BY DEF TypeInv, TypeOK
<1>1. ASSUME CyclesTyped, InboundTyped, UNCHANGED inbox
      PROVE  TypeInv'
  BY <1>0, <1>1, EventsType, BoundNext DEF TypeInv, TypeOK, CyclesTyped, InboundTyped
<1>2. ASSUME UNCHANGED inboundVars, UNCHANGED <<cursor, reported>>
      PROVE  InboundTyped
  BY <1>0, <1>2 DEF InboundTyped, inboundVars, InboundTypeOK
<1>3. ASSUME UNCHANGED worker, BoxStep, UNCHANGED <<ledger, posted>>,
             doubt' \in [Rows -> Nat], Len(inbox') >= Len(inbox), Len(inbox') \in Nat
      PROVE  CyclesTyped
  BY <1>0, <1>3, CyclesKept DEF CyclesTyped, OutboxTypeOK, BoxStep, OutboxRow
<1>4. ASSUME NEW w \in Workers, Step(w)
      PROVE  TypeInv'
  <2>1. CyclesTyped
    BY <1>4, StepCycles
  <2>2. CASE Consume(w) \/ Enroll(w) \/ Effect(w) \/ Advance(w)
    <3>1. UNCHANGED inbox
      BY <2>2 DEF Consume, Enroll, Effect, Advance
    <3> QED BY <1>1, <2>1, <2>2, <3>1, StepInbound
  <2>3. CASE ~(Consume(w) \/ Enroll(w) \/ Effect(w) \/ Advance(w))
    <3>1. UNCHANGED inboundVars /\ UNCHANGED <<inbox, cursor, reported>>
      BY <1>4, <2>3 DEF Step, Recover, Claim, Look, Post, Record, Save, Confirm, Poll, Reply,
                        inboundSide
    <3> QED BY <1>1, <1>2, <2>1, <3>1
  <2> QED BY <2>2, <2>3
<1>5. ASSUME NEW w \in Workers,
             \/ Stall(w) \/ Crash(w)
             \/ BeginCycle(w, "projection") \/ BeginCycle(w, "enrollment")
      PROVE  TypeInv'
  <2>1. CyclesTyped
    BY <1>5, StepCycles
  <2>2. UNCHANGED inboundVars /\ UNCHANGED <<inbox, cursor, reported>>
    BY <1>5 DEF Stall, Crash, BeginCycle, inboundSide
  <2> QED BY <1>1, <1>2, <2>1, <2>2
<1>6. ASSUME NEW r \in Rows, RowLeaseExpires(r)
      PROVE  TypeInv'
  <2>1. /\ UNCHANGED inboundVars /\ UNCHANGED <<inbox, cursor, reported>>
        /\ UNCHANGED <<ledger, posted, worker>>
        /\ doubt' \in [Rows -> Nat]
    <3>1. doubt \in [Rows -> Nat]
      BY <1>0 DEF OutboxTypeOK
    <3>2. doubt' = doubt \/ doubt' = [doubt EXCEPT ![r] = @ + 1]
      BY <1>6, Zenon DEF RowLeaseExpires, Doubtful
    <3>3. doubt' \in [Rows -> Nat]
      BY <3>1, <3>2
    <3> QED BY <1>6, <3>3 DEF RowLeaseExpires, inboundSide
  <2> QED BY <1>0, <1>1, <1>2, <1>3, <1>6, <2>1, BoxExpires
<1>7. CASE Arriving
  <2>1. PICK update \in Update : Arrives(update)
    BY <1>7, ArrivingUpdate
  <2>2. /\ inbox' \in Seq(Update) /\ Len(inbox') = Len(inbox) + 1
        /\ Len(inbox') <= MaxUpdates
    BY <1>0, <2>1, OutboxAssumption DEF Arrives
  <2>3. /\ UNCHANGED inboundVars /\ UNCHANGED <<cursor, reported, worker>>
        /\ UNCHANGED outboxVars
    BY <2>1 DEF Arrives
  <2>4. CyclesTyped
    BY <1>0, <1>3, <2>2, <2>3, BoxSame DEF outboxVars, OutboxTypeOK
  <2>5. InboundTyped
    BY <1>2, <2>3
  <2> QED BY <1>0, <2>2, <2>3, <2>4, <2>5, EventsType, BoundNext
          DEF TypeInv, TypeOK, CyclesTyped, InboundTyped
<1>8. CASE Platform \/ Issues
  <2>1. UNCHANGED <<inbox, cursor, reported, worker>> /\ UNCHANGED outboxVars
    BY <1>8 DEF Platform, Issues
  <2>2. InboundTypeOK'
    BY <1>0, <1>8, StartType, ExpiryType, IssueType DEF Platform, Issues
  <2>3. InboundTyped
    BY <1>0, <2>1, <2>2 DEF InboundTyped
  <2>4. CyclesTyped
    BY <1>0, <1>3, <2>1, BoxSame DEF outboxVars, OutboxTypeOK
  <2> QED BY <1>1, <2>1, <2>3, <2>4
<1>9. CASE UNCHANGED vars
  <2>1. /\ UNCHANGED inboundVars /\ UNCHANGED <<inbox, cursor, reported, worker>>
        /\ UNCHANGED outboxVars
    BY <1>9 DEF vars
  <2> QED BY <1>0, <1>1, <1>2, <1>3, <2>1, BoxSame DEF outboxVars, OutboxTypeOK
<1> QED BY <1>4, <1>5, <1>6, <1>7, <1>8, <1>9 DEF Next, Arriving

LEMMA TypeInit == Init => TypeInv
<1> SUFFICES ASSUME Init PROVE TypeInv
  OBVIOUS
<1>1. OutboxTypeOK /\ AttemptLeft
  <2>1. NewRow("absent") \in OutboxRow /\ NewRow("absent").attempt = 0
    BY OutboxAssumption DEF NewRow, OutboxRow, OutboxStates
  <2> QED BY <2>1, OutboxAssumption
          DEF Init, OutboxInit, OutboxTypeOK, OutboxRow, AttemptLeft
<1>2. InboundTypeOK
  <2>1. InboundInit
    BY DEF Init
  <2>2. challenge \in [Tokens -> ChallengeRow]
    BY <2>1, InboundAssumption DEF InboundInit, ChallengeRow
  <2>3. binding \in [Tokens -> BindingRow]
    BY <2>1, InboundAssumption DEF InboundInit, BindingRow
  <2>4. nonce \in [Nonces -> NonceRow]
    BY <2>1, InboundAssumption DEF InboundInit, NonceRow
  <2>5. receipt \in [Updates -> ReceiptRow]
    BY <2>1, InboundAssumption DEF InboundInit, ReceiptRow, NoReceipt
  <2> QED BY <2>1, <2>2, <2>3, <2>4, <2>5, InboundRows DEF InboundInit
<1>3. /\ inbox \in Seq(Update) /\ Len(inbox) = 0 /\ cursor = 0
      /\ reported \in [Updates -> {"none", "applied", "rejected"}]
      /\ worker \in [Workers -> Cycle] /\ events = 0
  BY IdleCycle DEF Init
<1>4. \A w \in Workers : CycleOK(worker[w])
  BY IdleCycle, OutboxAssumption DEF Init, CycleOK, NoIds, Batch, Delivering, Reading
<1>5. NoncesBound
  BY InboundAssumption DEF Init, InboundInit, NoncesBound, Bound, Tokens
<1> QED BY <1>1, <1>2, <1>3, <1>4, <1>5, OutboxAssumption, RuntimeAssumption
        DEF TypeInv, TypeOK

(* The inductive part of the types is invariant. *)
LEMMA TypeInvariant == Spec => []TypeInv
<1>1. TypeInv /\ [Next]_vars => TypeInv'
  BY TypeNext
<1> QED BY <1>1, TypeInit, PTL DEF Spec

(* The type invariant: no interleaving of replicas, crashes, failures and  *)
(* updates takes the state out of its types; in particular no row is saved *)
(* with more attempts than MaxAttempts (deliver_pending).                  *)
THEOREM TypeCorrect == Spec => []TypeOK
<1>1. TypeInv => TypeOK
  BY DEF TypeInv
<1> QED BY <1>1, TypeInvariant, PTL
=============================================================================
