-------------------------- MODULE Idempotency_proofs --------------------------
(***************************************************************************)
(* What holds of retried mutations for any number of requests, keys,       *)
(* bodies and objects.  A committed row of table idempotency never         *)
(* changes; the open transaction adds one row, and takes it back or leaves *)
(* it; requests on their way and answers given are tied to these rows,     *)
(* which is what KeyedEffects promises of keys.                            *)
(***************************************************************************)
EXTENDS Idempotency, TLAPS

LEMMA ReadyTyped == Ready \in RequestRow /\ Ready.pc = "idle"
  BY IdemAssumption DEF Ready, RequestRow

-----------------------------------------------------------------------------
(* An object has the row of its key, and a row names an object of its body. *)
Consistent(t) ==
  /\ \A o \in t.made : o.id \in 1..ids /\ t.tomb[o.key].answer = o.id
  /\ \A k \in Keys : t.tomb[k].answer = 0 => t.tomb[k] = NoTomb
  /\ \A k \in Keys : t.tomb[k].answer # 0 =>
       \E o \in t.made : o.id = t.tomb[k].answer /\ o.body = t.tomb[k].body

(* What the open transaction of r has written: one new row, and nothing    *)
(* but what is under its key.                                              *)
Pending(r) ==
  LET k == req[r].key IN
  /\ req[r].answer # 0
  /\ db.tomb[k].answer = 0
  /\ work.tomb = [db.tomb EXCEPT ![k] = [body |-> req[r].body, answer |-> req[r].answer]]
  /\ db.made = {o \in work.made : o.key # k}

(* The answer is what the row of its key says, or the row was undone. *)
Told(a) ==
  \/ a \in undone
  \/ a.answer # 0 /\ work.tomb[a.key] = [body |-> a.body, answer |-> a.answer]

AnswersTold ==
  /\ \A r \in Requests : req[r].pc = "answering" => Told(AnswerOf(r))
  /\ \A a \in answers : Told(a)

IInv ==
  /\ TypeOK
  /\ Consistent(db) /\ Consistent(work)
  /\ \A r \in Requests : InTransaction(r) => Pending(r)
  /\ AnswersTold

LEMMA InitIInv == Init => IInv
<1> SUFFICES ASSUME Init PROVE IInv
  OBVIOUS
<1>1. TypeOK
  BY ReadyTyped DEF Init, TypeOK, Empty, NoTomb, Tables, TombRow, InTransaction
<1>2. Consistent(db) /\ Consistent(work)
  BY DEF Init, Consistent, Empty, NoTomb
<1>3. AnswersTold /\ \A r \in Requests : ~InTransaction(r)
  BY ReadyTyped DEF Init, AnswersTold, InTransaction
<1> QED
  BY <1>1, <1>2, <1>3 DEF IInv

LEMMA AnswerTyped ==
  ASSUME TypeOK, NEW r \in Requests
  PROVE  AnswerOf(r) \in AnswerRow
  BY DEF TypeOK, AnswerOf, RequestRow, AnswerRow

-----------------------------------------------------------------------------
(* A step of one request outside its transaction that writes nothing and   *)
(* answers only what a row says.                                           *)
Quiet(r) ==
  /\ UNCHANGED <<tables, undone>>
  /\ req' \in [Requests -> RequestRow]
  /\ \A q \in Requests \ {r} : req'[q] = req[q]
  /\ ~InTransaction(r) /\ ~InTransaction(r)'
  /\ req'[r].pc = "answering" => Told(AnswerOf(r))'
  /\ \A a \in answers' : a \in answers \/ (req[r].pc = "answering" /\ a = AnswerOf(r))

LEMMA QuietKeeps ==
  ASSUME IInv, NEW r \in Requests, Quiet(r)
  PROVE  IInv'
<1>1. TypeOK /\ AnswersTold
  BY DEF IInv
<1>2. /\ \A q \in Requests \ {r} : InTransaction(q)' <=> InTransaction(q)
      /\ \A q \in Requests \ {r} : req'[q] = req[q]
      /\ db' = db /\ work' = work /\ ids' = ids /\ undone' = undone
      /\ ~InTransaction(r) /\ ~InTransaction(r)'
  BY DEF Quiet, InTransaction, tables
<1>3. answers' \subseteq AnswerRow
  BY <1>1, AnswerTyped DEF TypeOK, Quiet
<1>4. Busy' <=> Busy
  BY <1>2 DEF Busy
<1>5. TypeOK'
  BY <1>1, <1>2, <1>3, <1>4 DEF TypeOK, Quiet
<1>6. AnswersTold'
  <2>1. \A a : Told(a)' <=> Told(a)
    BY <1>2 DEF Told
  <2>2. \A q \in Requests \ {r} : AnswerOf(q)' = AnswerOf(q)
    BY <1>2 DEF AnswerOf
  <2>3. \A a \in answers' : Told(a)'
    BY <1>1, <2>1 DEF Quiet, AnswersTold
  <2>4. \A q \in Requests : req'[q].pc = "answering" => Told(AnswerOf(q))'
    BY <1>1, <1>2, <2>1, <2>2 DEF Quiet, AnswersTold, Told
  <2> QED
    BY <2>3, <2>4 DEF AnswersTold, Told
<1>7. \A q \in Requests : InTransaction(q)' => Pending(q)'
  BY <1>2 DEF IInv, Pending
<1> QED
  BY <1>2, <1>5, <1>6, <1>7 DEF IInv, Consistent

LEMMA GotoQuiet ==
  ASSUME IInv, NEW r \in Requests, NEW pc \in {"routed", "failed"}, ~InTransaction(r),
         Goto(r, pc), UNCHANGED <<tables, answers, undone>>
  PROVE  Quiet(r)
  BY DEF IInv, TypeOK, Goto, Quiet, RequestRow, InTransaction

LEMMA ReadyQuiet ==
  ASSUME IInv, NEW r \in Requests, GiveUp(r) \/ Respond(r)
  PROVE  Quiet(r)
  BY ReadyTyped DEF IInv, TypeOK, GiveUp, Respond, Quiet, InTransaction

LEMMA ReceiveQuiet ==
  ASSUME IInv, NEW r \in Requests, NEW k \in Keys, NEW b \in Bodies \cup {NoBody}, Receive(r, k, b)
  PROVE  Quiet(r)
  BY DEF IInv, TypeOK, Receive, Quiet, RequestRow, InTransaction

(* A replay tells a committed row or the one of the open transaction. *)
LEMMA ReplayQuiet ==
  ASSUME IInv, NEW r \in Requests, Replay(r)
  PROVE  Quiet(r)
<1>1. TypeOK /\ req[r] \in RequestRow
  BY DEF IInv, TypeOK
<1> DEFINE k == req[r].key
<1>2. PICK t \in Views(k) : t.answer # 0 /\ Matches(t, req[r].body) /\ Answer(r, "answering", t.answer)
  BY DEF Replay
<1>3. work.tomb[k] = t
  <2>1. work = db \/ \E q \in Requests : InTransaction(q)
    BY <1>1 DEF TypeOK, Busy
  <2>2. ASSUME NEW q \in Requests, InTransaction(q), t = db.tomb[k] PROVE work.tomb[k] = t
    <3>1. Pending(q) /\ k \in Keys /\ db.tomb \in [Keys -> TombRow]
      BY <1>1, <2>2 DEF IInv, TypeOK, RequestRow, Tables
    <3> QED
      BY <1>2, <2>2, <3>1 DEF Pending
  <2> QED
    BY <1>2, <2>1, <2>2 DEF Views
<1>4. k \in Keys /\ work.tomb[k] \in TombRow
  BY <1>1 DEF TypeOK, RequestRow, Tables
<1>5. /\ t.body = req[r].body /\ t = [body |-> req[r].body, answer |-> t.answer]
      /\ t.answer \in Nat
  BY <1>2, <1>3, <1>4 DEF Matches, TombRow
<1>6. /\ req' \in [Requests -> RequestRow]
      /\ req'[r] = [req[r] EXCEPT !.pc = "answering", !.answer = t.answer]
      /\ \A q \in Requests \ {r} : req'[q] = req[q]
  BY <1>1, <1>2, <1>5 DEF TypeOK, Answer, RequestRow
<1>7. AnswerOf(r)' = [key |-> k, body |-> req[r].body, answer |-> t.answer]
  BY <1>1, <1>6 DEF AnswerOf, RequestRow
<1>8. Told(AnswerOf(r))'
  BY <1>2, <1>3, <1>5, <1>7 DEF Told, Replay, tables
<1> QED
  BY <1>1, <1>6, <1>8 DEF Quiet, Replay, InTransaction, RequestRow

-----------------------------------------------------------------------------
(* What an insertion writes: the new row, and an object of its body, which *)
(* is the only one that may be new and has the key of the request.         *)
Inserts(r, i) ==
  /\ Insert(r, work'.made, i)
  /\ i \in 1..ids' /\ ids' \in Nat /\ ids <= ids'
  /\ work'.made \subseteq Object
  /\ \E o \in work'.made : o.id = i /\ o.body = req[r].body
  /\ work.made \subseteq work'.made
  /\ \A o \in work'.made \ work.made : o.key = req[r].key /\ o.id = i

LEMMA NewInserts ==
  ASSUME IInv, NEW r \in Requests, InsertNew(r)
  PROVE  Inserts(r, ids + 1)
<1> DEFINE o == [id |-> ids + 1, key |-> req[r].key, body |-> req[r].body]
<1>1. ids \in Nat /\ o \in Object /\ work.made \subseteq Object
  BY DEF IInv, TypeOK, RequestRow, Object, Tables
<1>2. work'.made = work.made \cup {o} /\ ids' = ids + 1
  BY DEF InsertNew, Insert
<1>3. Insert(r, work'.made, ids + 1)
  BY <1>2 DEF InsertNew
<1> QED
  BY <1>1, <1>2, <1>3 DEF Inserts

LEMMA FindInserts ==
  ASSUME IInv, NEW r \in Requests, FindRegistered(r)
  PROVE  \E i \in Nat : Inserts(r, i)
<1>1. PICK o \in work.made : IsRegistered(o, req[r].body) /\ Insert(r, work.made, o.id)
  BY DEF FindRegistered
<1>2. ids \in Nat /\ o.id \in 1..ids /\ ids' = ids /\ work'.made = work.made
      /\ work.made \subseteq Object
  BY <1>1 DEF IInv, TypeOK, Consistent, FindRegistered, Insert, Tables
<1>3. Inserts(r, o.id)
  BY <1>1, <1>2 DEF Inserts, IsRegistered
<1> QED
  BY <1>2, <1>3

LEMMA InsertKeeps ==
  ASSUME IInv, NEW r \in Requests, NEW i \in Nat, Inserts(r, i)
  PROVE  IInv'
<1> DEFINE k == req[r].key
           b == req[r].body
<1>1. TypeOK /\ AnswersTold /\ Consistent(db) /\ Consistent(work)
  BY DEF IInv
<1>2. /\ k \in Keys /\ b \in Bodies \cup {NoBody} /\ req[r] \in RequestRow
      /\ db = work /\ db \in Tables /\ work.tomb \in [Keys -> TombRow]
      /\ \A q \in Requests : ~InTransaction(q)
  BY <1>1 DEF TypeOK, RequestRow, Inserts, Insert, Busy, Tables
<1>3. /\ work.tomb[k].answer = 0
      /\ work' = [made |-> work'.made,
                  tomb |-> [work.tomb EXCEPT ![k] = [body |-> b, answer |-> i]]]
      /\ db' = db /\ answers' = answers /\ undone' = undone
      /\ i # 0 /\ ids \in Nat /\ ids' \in Nat /\ ids <= ids' /\ i <= ids'
  BY <1>1 DEF TypeOK, Inserts, Insert, RowInserts
<1>4. /\ work'.tomb[k] = [body |-> b, answer |-> i]
      /\ \A j \in Keys \ {k} : work'.tomb[j] = work.tomb[j]
      /\ work'.tomb \in [Keys -> TombRow]
      /\ work'.tomb = [work.tomb EXCEPT ![k] = [body |-> b, answer |-> i]]
  <2>1. work'.tomb = [work.tomb EXCEPT ![k] = [body |-> b, answer |-> i]]
    BY <1>3
  <2> QED
    BY <2>1, <1>2 DEF TombRow
<1>5. /\ req' \in [Requests -> RequestRow]
      /\ \A q \in Requests \ {r} : req'[q] = req[q]
      /\ req'[r].pc = "inserted" /\ req'[r].key = k /\ req'[r].body = b /\ req'[r].answer = i
  <2>1. req' = [req EXCEPT ![r].pc = "inserted", ![r].answer = i] /\ req \in [Requests -> RequestRow]
    BY <1>1 DEF TypeOK, Inserts, Insert, Answer
  <2> QED
    BY <2>1, <1>2 DEF RequestRow
<1>6. InTransaction(r)' /\ \A q \in Requests \ {r} : ~InTransaction(q)'
  BY <1>2, <1>5 DEF InTransaction
<1>7. TypeOK'
  <2>1. work' \in Tables /\ db' \in Tables
    BY <1>2, <1>3, <1>4 DEF Tables, Inserts
  <2> QED
    BY <1>1, <1>3, <1>5, <1>6, <2>1 DEF TypeOK, Busy
<1>8. \A o \in work.made : o.key \in Keys \ {k}
  BY <1>1, <1>2, <1>3 DEF Consistent, Tables, Object
<1>9. Consistent(db)'
  BY <1>1, <1>3 DEF Consistent
<1>10. Consistent(work)'
  <2>1. ASSUME NEW o \in work'.made
        PROVE  o.id \in 1..ids' /\ work'.tomb[o.key].answer = o.id
    <3>1. CASE o \in work.made
      BY <1>1, <1>3, <1>4, <1>8, <3>1 DEF Consistent
    <3>2. CASE o \notin work.made
      BY <1>3, <1>4, <3>2 DEF Inserts
    <3> QED
      BY <3>1, <3>2
  <2>2. ASSUME NEW j \in Keys
        PROVE  /\ work'.tomb[j].answer = 0 => work'.tomb[j] = NoTomb
               /\ work'.tomb[j].answer # 0 =>
                    \E o \in work'.made : o.id = work'.tomb[j].answer /\ o.body = work'.tomb[j].body
    <3>1. CASE j = k
      BY <1>3, <1>4, <3>1 DEF Inserts
    <3>2. CASE j # k
      BY <1>1, <1>4, <3>2 DEF Consistent, Inserts
    <3> QED
      BY <3>1, <3>2
  <2> QED
    BY <2>1, <2>2 DEF Consistent
<1>11. Pending(r)'
  <2>1. db.made = {o \in work'.made : o.key # k}
    BY <1>2, <1>8 DEF Inserts
  <2> QED
    BY <1>2, <1>3, <1>4, <1>5, <2>1 DEF Pending
<1>12. AnswersTold'
  <2>1. ASSUME NEW a \in AnswerRow, Told(a) PROVE Told(a)'
    <3>1. CASE a \in undone
      BY <1>3, <3>1 DEF Told
    <3>2. CASE a.answer # 0 /\ work.tomb[a.key] = [body |-> a.body, answer |-> a.answer]
      BY <1>3, <1>4, <2>1, <3>2 DEF Told, AnswerRow
    <3> QED
      BY <2>1, <3>1, <3>2 DEF Told
  <2>2. \A a \in answers' : Told(a)'
    BY <1>1, <1>3, <2>1 DEF AnswersTold, TypeOK
  <2>3. ASSUME NEW q \in Requests, req'[q].pc = "answering" PROVE Told(AnswerOf(q))'
    <3>1. q # r /\ req'[q] = req[q]
      BY <1>5, <2>3
    <3>2. Told(AnswerOf(q)) /\ AnswerOf(q) \in AnswerRow /\ AnswerOf(q)' = AnswerOf(q)
      BY <1>1, <2>3, <3>1, AnswerTyped DEF AnswersTold, AnswerOf
    <3>3. \A a \in AnswerRow : Told(a) => Told(a)'
      BY <2>1
    <3> QED
      BY <3>2, <3>3 DEF Told
  <2> QED
    BY <2>2, <2>3 DEF AnswersTold, Told
<1> QED
  BY <1>6, <1>7, <1>9, <1>10, <1>11, <1>12 DEF IInv

LEMMA CommitKeeps ==
  ASSUME IInv, NEW r \in Requests, Commit(r)
  PROVE  IInv'
<1>1. TypeOK /\ AnswersTold /\ Consistent(work) /\ Pending(r) /\ InTransaction(r)
  BY DEF IInv, Commit
<1>2. /\ db' = work /\ work' = work /\ ids' = ids /\ answers' = answers /\ undone' = undone
      /\ req' = [req EXCEPT ![r].pc = "answering"]
  BY DEF Commit, Goto
<1>3. /\ req' \in [Requests -> RequestRow]
      /\ \A q \in Requests \ {r} : req'[q] = req[q]
      /\ req'[r].pc = "answering" /\ AnswerOf(r)' = AnswerOf(r)
  BY <1>1, <1>2 DEF TypeOK, RequestRow, AnswerOf
<1>4. \A q \in Requests : ~InTransaction(q)'
  BY <1>1, <1>3 DEF TypeOK, InTransaction
<1>5. TypeOK'
  BY <1>1, <1>2, <1>3, <1>4 DEF TypeOK
<1>6. Told(AnswerOf(r))
  <2>1. req[r].key \in Keys /\ db.tomb \in [Keys -> TombRow]
    BY <1>1 DEF TypeOK, RequestRow, Tables
  <2> QED
    BY <1>1, <2>1 DEF Told, AnswerOf, Pending
<1>7. AnswersTold'
  <2>1. \A a : Told(a)' <=> Told(a)
    BY <1>2 DEF Told
  <2>2. \A q \in Requests \ {r} : AnswerOf(q)' = AnswerOf(q)
    BY <1>3 DEF AnswerOf
  <2>3. \A q \in Requests : req'[q].pc = "answering" => Told(AnswerOf(q))'
    BY <1>1, <1>2, <1>3, <1>6, <2>2 DEF AnswersTold, Told
  <2> QED
    BY <1>1, <1>2, <2>1, <2>3 DEF AnswersTold, Told
<1>8. Consistent(db)' /\ Consistent(work)'
  BY <1>1, <1>2 DEF Consistent
<1> QED
  BY <1>4, <1>5, <1>7, <1>8 DEF IInv

(* What is undone is the row of the open transaction; an answer that named *)
(* it is among the undone from now on.                                     *)
LEMMA AbortKeeps ==
  ASSUME IInv, NEW r \in Requests, Abort(r)
  PROVE  IInv'
<1>1. TypeOK /\ AnswersTold /\ Consistent(db) /\ Pending(r) /\ InTransaction(r)
  BY DEF IInv, Abort
<1>2. /\ db' = db /\ work' = db /\ ids' = ids /\ answers' = answers
      /\ undone' = undone \cup {AnswerOf(r)}
      /\ req' = [req EXCEPT ![r] = Ready]
  BY DEF Abort
<1>3. /\ req' \in [Requests -> RequestRow]
      /\ \A q \in Requests \ {r} : req'[q] = req[q]
      /\ req'[r].pc = "idle"
  BY <1>1, <1>2, ReadyTyped DEF TypeOK
<1>4. \A q \in Requests : ~InTransaction(q)'
  BY <1>1, <1>3 DEF TypeOK, InTransaction
<1>5. TypeOK'
  BY <1>1, <1>2, <1>3, <1>4, AnswerTyped DEF TypeOK
<1>6. ASSUME NEW a \in AnswerRow, Told(a) PROVE Told(a)'
  <2>1. CASE a \in undone
    BY <1>2, <2>1 DEF Told
  <2>2. CASE a.answer # 0 /\ work.tomb[a.key] = [body |-> a.body, answer |-> a.answer]
    <3>1. req[r].key \in Keys /\ a.key \in Keys /\ db.tomb \in [Keys -> TombRow]
      BY <1>1, <1>6 DEF TypeOK, RequestRow, Tables, AnswerRow
    <3>2. CASE a.key = req[r].key
      <4>1. a.body = req[r].body /\ a.answer = req[r].answer
        BY <1>1, <2>2, <3>1, <3>2 DEF Pending
      <4>2. a = AnswerOf(r)
        BY <1>6, <3>2, <4>1 DEF AnswerOf, AnswerRow
      <4> QED
        BY <1>2, <4>2 DEF Told
    <3>3. CASE a.key # req[r].key
      BY <1>1, <1>2, <2>2, <3>1, <3>3 DEF Told, Pending
    <3> QED
      BY <3>2, <3>3
  <2> QED
    BY <1>6, <2>1, <2>2 DEF Told
<1>7. AnswersTold'
  <2>1. \A a \in answers' : Told(a)'
    BY <1>1, <1>2, <1>6 DEF AnswersTold, TypeOK
  <2>2. ASSUME NEW q \in Requests, req'[q].pc = "answering" PROVE Told(AnswerOf(q))'
    <3>1. req'[q] = req[q]
      BY <1>3, <2>2
    <3>2. Told(AnswerOf(q)) /\ AnswerOf(q) \in AnswerRow /\ AnswerOf(q)' = AnswerOf(q)
      BY <1>1, <2>2, <3>1, AnswerTyped DEF AnswersTold, AnswerOf
    <3>3. \A a \in AnswerRow : Told(a) => Told(a)'
      BY <1>6
    <3> QED
      BY <3>2, <3>3 DEF Told
  <2> QED
    BY <2>1, <2>2 DEF AnswersTold, Told
<1>8. Consistent(db)' /\ Consistent(work)'
  BY <1>1, <1>2 DEF Consistent
<1> QED
  BY <1>4, <1>5, <1>7, <1>8 DEF IInv

(* Every step of a request is quiet, inserts, commits or aborts. *)
LEMMA StepShape ==
  ASSUME IInv, Next
  PROVE  \E r \in Requests : \/ Quiet(r) \/ Commit(r) \/ Abort(r)
                             \/ \E i \in Nat : Inserts(r, i)
<1>1. ASSUME NEW r \in Requests,
             Conflict(r) \/ Miss(r) \/ Refuse(r) \/ BeginFails(r) \/ InsertFails(r)
      PROVE  Quiet(r)
  BY <1>1, GotoQuiet DEF Conflict, Miss, Refuse, BeginFails, InsertFails, Routed, InTransaction
<1>2. ASSUME NEW r \in Requests, Create(r) \/ Register(r) \/ Settle(r)
      PROVE  \E i \in Nat : Inserts(r, i)
  <2>1. ids + 1 \in Nat
    BY DEF IInv, TypeOK
  <2>2. InsertNew(r)
    BY <1>2 DEF Create, Register, Settle
  <2> QED
    BY <2>1, <2>2, NewInserts
<1> QED
  BY <1>1, <1>2, FindInserts, ReadyQuiet, ReceiveQuiet, ReplayQuiet DEF Next

LEMMA StepIInv == IInv /\ [Next]_idemVars => IInv'
<1>1. ASSUME IInv, Next PROVE IInv'
  BY <1>1, StepShape, QuietKeeps, InsertKeeps, CommitKeeps, AbortKeeps
<1>2. ASSUME IInv, UNCHANGED idemVars PROVE IInv'
  BY <1>2 DEF idemVars, IInv, TypeOK, Consistent, Pending, InTransaction, Busy, AnswersTold,
     Told, AnswerOf
<1> QED
  BY <1>1, <1>2

LEMMA IInvCorrect == Spec => []IInv
  BY InitIInv, StepIInv, PTL DEF Spec

(* Tables and requests are well formed, one transaction is open at a time, *)
(* and without one the tables are what was committed.                      *)
THEOREM IdemTypeCorrect == Spec => []TypeOK
<1>1. IInv => TypeOK
  BY DEF IInv
<1> QED
  BY <1>1, IInvCorrect, PTL

(* A key has at most one effect, and the row that remembers it, however    *)
(* often and however concurrently it is sent (_consume_idem).              *)
THEOREM OneEffectPerKeyCorrect == Spec => []OneEffectPerKey
<1>1. IInv => OneEffectPerKey
  BY DEF IInv, Consistent, OneEffectPerKey
<1> QED
  BY <1>1, IInvCorrect, PTL

(* All answers to a key that no failed transaction has undone are the same *)
(* and name what was made of the body that was sent, though a lookup may   *)
(* have read them from a row not committed yet (_idempotency_lookup).      *)
THEOREM AnswersAgreeCorrect == Spec => []AnswersAgree
<1>1. IInv => AnswersAgree
  <2> SUFFICES ASSUME IInv PROVE AnswersAgree
    OBVIOUS
  <2>1. ASSUME NEW a \in answers \ undone
        PROVE  /\ a \in AnswerRow /\ a.answer # 0
               /\ work.tomb[a.key].body = a.body /\ work.tomb[a.key].answer = a.answer
    <3>1. a \in AnswerRow /\ Told(a) /\ a \notin undone
      BY DEF IInv, AnswersTold, TypeOK
    <3> QED
      BY <3>1 DEF Told
  <2>2. ASSUME NEW a \in answers \ undone, NEW b \in answers \ undone, a.key = b.key
        PROVE  a = b
    <3>1. /\ a \in AnswerRow /\ b \in AnswerRow
          /\ a.body = b.body /\ a.answer = b.answer
      BY <2>1, <2>2
    <3> QED
      BY <2>2, <3>1 DEF AnswerRow
  <2>3. \A a \in answers \ undone : \E o \in work.made : o.id = a.answer /\ o.body = a.body
    BY <2>1 DEF IInv, Consistent, AnswerRow
  <2> QED
    BY <2>2, <2>3 DEF AnswersAgree
<1> QED
  BY <1>1, IInvCorrect, PTL

-----------------------------------------------------------------------------
(* What is registered in the tables stays apart when an object is added    *)
(* that was not registered, and when objects are taken away.               *)
LEMMA StepRegistered ==
  ASSUME IInv, RegisteredOnce, [Next]_idemVars
  PROVE  RegisteredOnce'
<1>1. CASE work'.made \subseteq work.made
  BY <1>1 DEF RegisteredOnce
<1>2. ASSUME NEW r \in Requests, InsertNew(r),
             Kind(req[r].key) = "register" =>
               \A o \in work.made : ~IsRegistered(o, req[r].body)
      PROVE  RegisteredOnce'
  <2>1. work'.made = work.made \cup {[id |-> ids + 1, key |-> req[r].key, body |-> req[r].body]}
    BY <1>2 DEF InsertNew, Insert
  <2> QED
    BY <1>2, <2>1 DEF RegisteredOnce, IsRegistered
<1>3. ASSUME NEW r \in Requests, Create(r) \/ Settle(r) \/ Register(r)
      PROVE  RegisteredOnce'
  BY <1>2, <1>3 DEF Create, Settle, Register, Routed
<1>4. ASSUME NEW r \in Requests, Abort(r) PROVE work'.made \subseteq work.made
  BY <1>4 DEF Abort, IInv, Pending
<1>5. ASSUME NEW r \in Requests, FindRegistered(r) PROVE work'.made \subseteq work.made
  BY <1>5 DEF FindRegistered, Insert
<1>6. CASE work' = work
  BY <1>6, <1>1
<1> QED
  BY <1>1, <1>3, <1>4, <1>5, <1>6 DEF Next, idemVars, tables, Receive, Replay, Conflict, Miss,
     Refuse, BeginFails, InsertFails, Commit, Respond, GiveUp

(* A policy or reference exists once, under however many keys it was sent  *)
(* (put_policy, register_reference).                                       *)
THEOREM RegisteredOnceCorrect == Spec => []RegisteredOnce
<1>1. Init => RegisteredOnce
  BY DEF Init, Empty, RegisteredOnce
<1>2. IInv /\ RegisteredOnce /\ [Next]_idemVars => RegisteredOnce'
  BY StepRegistered
<1> QED
  BY <1>1, <1>2, IInvCorrect, PTL DEF Spec

-----------------------------------------------------------------------------
(* The endpoint and the promise it keeps: an insertion is the one effect   *)
(* of its key, COMMIT makes it stand, an abort takes it back, a response   *)
(* tells what the row says or said, and nothing else moves.                *)
Open == {k \in Keys : work.tomb[k] # db.tomb[k]}

LEMMA InitEffects == Init => Effects!Init
  BY DEF Init, Empty, NoTomb, Effects!Init, Effects!NoResult

LEMMA OpenIsKey ==
  ASSUME IInv, NEW r \in Requests, InTransaction(r)
  PROVE  Open = {req[r].key}
<1>1. req[r].key \in Keys /\ db.tomb \in [Keys -> TombRow] /\ Pending(r)
  BY DEF IInv, TypeOK, RequestRow, Tables
<1>2. work.tomb[req[r].key].answer # db.tomb[req[r].key].answer
  BY <1>1 DEF Pending
<1>3. \A k \in Keys \ {req[r].key} : work.tomb[k] = db.tomb[k]
  BY <1>1 DEF Pending
<1> QED
  BY <1>1, <1>2, <1>3 DEF Open

(* An insertion opens its key and writes its row. *)
LEMMA InsertOpens ==
  ASSUME IInv, NEW r \in Requests, NEW objects, NEW i \in Nat \ {0}, Insert(r, objects, i)
  PROVE  /\ req[r].key \in Keys /\ req[r].body \in Bodies
         /\ work.tomb[req[r].key].answer = 0
         /\ work'.made = objects
         /\ work'.tomb = [work.tomb EXCEPT ![req[r].key] = [body |-> req[r].body, answer |-> i]]
         /\ answers' = answers /\ undone' = undone
         /\ Open = {} /\ Open' = {req[r].key}
<1>1. /\ req[r] \in RequestRow /\ work.tomb \in [Keys -> TombRow]
      /\ db = work /\ db' = db
  BY DEF IInv, TypeOK, Insert, Tables
<1>2. work'.tomb = [work.tomb EXCEPT ![req[r].key] = [body |-> req[r].body, answer |-> i]]
      /\ work.tomb[req[r].key].answer = 0
  BY DEF Insert, RowInserts
<1>3. Open' = {req[r].key}
  BY <1>1, <1>2 DEF Open, RequestRow
<1>4. Open = {}
  BY <1>1 DEF Open
<1> QED
  BY <1>1, <1>2, <1>3, <1>4 DEF Insert, RowInserts, RequestRow

(* submit_job, create_stream, consume; put_policy, register_reference;     *)
(* cancel_job, set_stream_state                                            *)
LEMMA MutationIsPerform ==
  ASSUME IInv, NEW r \in Requests, Create(r) \/ Register(r) \/ Settle(r)
  PROVE  Effects!Next
<1> DEFINE object == [id |-> ids + 1, key |-> req[r].key, body |-> req[r].body]
<1>1. /\ Insert(r, work.made \cup {object}, ids + 1)
      /\ ids' = ids + 1 /\ ids + 1 \in Nat \ {0}
  BY DEF IInv, TypeOK, Create, Register, Settle, InsertNew
<1>2. PICK k \in Keys, b \in Bodies : k = req[r].key /\ b = req[r].body
  BY <1>1, InsertOpens
<1>3. ~Effects!Exists(k, b)
  <2>1. CASE Create(r)
    BY <1>2, <2>1 DEF Create, Routed, Effects!Exists
  <2>2. CASE Register(r)
    BY <1>2, <2>2 DEF Register, Routed, IsRegistered, Effects!Exists
  <2>3. CASE Settle(r)
    BY <1>2, <2>3 DEF Settle, Routed, Settled, Effects!Exists
  <2> QED
    BY <2>1, <2>2, <2>3
<1>4. Effects!Perform(k, b)
  BY <1>1, <1>2, <1>3, InsertOpens DEF Open, Effects!Perform, Effects!Unused
<1> QED
  BY <1>4 DEF Effects!Next

LEMMA FindIsShare ==
  ASSUME IInv, NEW r \in Requests, FindRegistered(r)
  PROVE  Effects!Next
<1> DEFINE k == req[r].key
           b == req[r].body
<1>1. PICK o \in work.made : IsRegistered(o, b) /\ Insert(r, work.made, o.id)
                            /\ o.id \in Nat \ {0}
  BY DEF IInv, TypeOK, Consistent, FindRegistered
<1>2. ids' = ids /\ Kind(k) = "register"
  BY DEF FindRegistered, Routed
<1>3. Effects!Share(k, b, o)
  BY <1>1, <1>2, InsertOpens DEF Open, IsRegistered, Effects!Share, Effects!Unused
<1>4. k \in Keys /\ b \in Bodies
  BY <1>1, InsertOpens
<1> QED
  BY <1>1, <1>3, <1>4 DEF Effects!Next

LEMMA CommitIsStand ==
  ASSUME IInv, NEW r \in Requests, Commit(r)
  PROVE  Effects!Next
<1>1. Open # {}
  BY OpenIsKey DEF Commit
<1>2. Open' = {}
  BY DEF Commit, Open
<1> QED
  BY <1>1, <1>2 DEF Commit, Open, Effects!Stand, Effects!Next

LEMMA AbortIsUndo ==
  ASSUME IInv, NEW r \in Requests, Abort(r)
  PROVE  Effects!Next
<1>0. PICK k \in Keys : k = req[r].key
  BY DEF IInv, TypeOK, RequestRow
<1>1. InTransaction(r) /\ Pending(r) /\ Open = {k}
  BY <1>0, OpenIsKey DEF IInv, Abort
<1>2. db.tomb \in [Keys -> TombRow] /\ db.tomb[k] = NoTomb
  BY <1>0, <1>1 DEF IInv, TypeOK, Tables, Consistent, Pending
<1>3. db.tomb = [work.tomb EXCEPT ![k] = NoTomb]
  BY <1>0, <1>1, <1>2 DEF Pending
<1>4. AnswerOf(r) = Effects!AnswerTo(k)
  BY <1>0, <1>1, <1>2 DEF AnswerOf, Pending, Effects!AnswerTo
<1>5. Open' = {}
  BY DEF Abort, Open
<1>6. Effects!Undo(k)
  BY <1>0, <1>1, <1>3, <1>4, <1>5 DEF Abort, Pending, Open, Effects!Undo, NoTomb, Effects!NoResult
<1> QED
  BY <1>6 DEF Effects!Next

LEMMA RespondIsTell ==
  ASSUME IInv, NEW r \in Requests, Respond(r)
  PROVE  Effects!Next
<1> DEFINE k == req[r].key
<1>1. k \in Keys /\ Told(AnswerOf(r)) /\ AnswerOf(r).key = k
  BY DEF IInv, TypeOK, RequestRow, AnswersTold, Respond, AnswerOf
<1>2. \/ AnswerOf(r) \in undone
      \/ ~Effects!Unused(k) /\ AnswerOf(r) = Effects!AnswerTo(k)
  BY <1>1 DEF Told, AnswerOf, Effects!Unused, Effects!AnswerTo
<1>3. Effects!Tell
  BY <1>1, <1>2 DEF Respond, tables, Effects!Tell
<1> QED
  BY <1>3 DEF Effects!Next

(* A caller cannot tell overlapping, repeated and killed requests from     *)
(* keys that each took effect and were answered once, and an answer told   *)
(* before its effect stood from one that a failure took back               *)
(* (_idempotency_lookup, _consume_idem): tables and answers implement      *)
(* KeyedEffects.                                                           *)
THEOREM ImplementsKeyedEffectsCorrect == Spec => ImplementsKeyedEffects
<1>1. IInv /\ [Next]_idemVars => [Effects!Next]_Effects!keyedVars
  <2> SUFFICES ASSUME IInv, [Next]_idemVars PROVE [Effects!Next]_Effects!keyedVars
    OBVIOUS
  <2>1. ASSUME NEW r \in Requests,
               \/ \E k \in Keys, b \in Bodies \cup {NoBody} : Receive(r, k, b)
               \/ Replay(r) \/ Conflict(r) \/ Miss(r) \/ Refuse(r)
               \/ BeginFails(r) \/ InsertFails(r) \/ GiveUp(r)
        PROVE  UNCHANGED Effects!keyedVars
    BY <2>1 DEF Receive, Replay, Conflict, Miss, Refuse, BeginFails, InsertFails, GiveUp,
         tables, Effects!keyedVars
  <2>2. CASE UNCHANGED idemVars
    BY <2>2 DEF idemVars, Effects!keyedVars
  <2> QED
    BY <2>1, <2>2, MutationIsPerform, FindIsShare, CommitIsStand, AbortIsUndo, RespondIsTell
    DEF Next
<1> QED
  BY <1>1, InitEffects, IInvCorrect, PTL DEF Spec, ImplementsKeyedEffects, Effects!Spec
=============================================================================
