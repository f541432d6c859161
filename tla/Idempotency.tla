---------------------------- MODULE Idempotency ----------------------------
(***************************************************************************)
(* Retried mutations: api.py looks an Idempotency-Key up before it routes  *)
(* a POST, service.py stores the response under the key in the transaction *)
(* of the mutation (_consume_idem).  Requests with one key may be repeated *)
(* because a response was lost, or overlap; responses are lost and server  *)
(* processes die, before their COMMIT too.  Requests are threads of one    *)
(* server process, which share its connection and see each other's open    *)
(* transaction, or of several, which see what is committed.  A key is      *)
(* scoped to its principal, method and path: it belongs to one endpoint.   *)
(***************************************************************************)
EXTENDS Integers

CONSTANTS
  Requests,   \* requests being served
  Keys,       \* idempotency keys
  Kind(_),    \* what the endpoint of a key does: "create" (jobs, streams,
              \* consumptions), "register" (policies, references) or
              \* "settle" (cancel, pause, resume)
  Bodies,     \* request bodies, up to canonical JSON
  NoBody,     \* a request without one: _request_hash gives None
  MaxObjects  \* bound: ids handed out, to what is rolled back as well

ASSUME IdemAssumption ==
  /\ \A k \in Keys : Kind(k) \in {"create", "register", "settle"}
  /\ Keys # {} /\ NoBody \notin Bodies
  /\ MaxObjects \in Nat

VARIABLES
  db,      \* the tables as committed: what mutations made (new objects, or the
           \* one settlement of the job or stream revision the settles name)
           \* and the rows of table idempotency, answer 0 for none
  work,    \* the same with the open transaction, if there is one
  ids,     \* ids drawn so far; an object's id is never drawn again
  req,     \* [Requests -> record]
  answers, \* history: the successful responses that reached a caller
  undone   \* history: the rows whose transaction did not commit

idemVars == <<db, work, ids, req, answers, undone>>

tables == <<db, work, ids>>
-----------------------------------------------------------------------------
Object == [id : Nat, key : Keys, body : Bodies \cup {NoBody}]

NoTomb == [body |-> NoBody, answer |-> 0]

Empty == [made |-> {}, tomb |-> [k \in Keys |-> NoTomb]]

Ready == [pc |-> "idle", key |-> CHOOSE k \in Keys : TRUE, body |-> NoBody, answer |-> 0]

Init ==
  /\ db = Empty /\ work = Empty /\ ids = 0
  /\ req = [r \in Requests |-> Ready]
  /\ answers = {} /\ undone = {}

Goto(r, pc) == req' = [req EXCEPT ![r].pc = pc]

Answer(r, pc, i) == req' = [req EXCEPT ![r].pc = pc, ![r].answer = i]

AnswerOf(r) == [key |-> req[r].key, body |-> req[r].body, answer |-> req[r].answer]

(* Whose transaction has inserted its row and not committed yet. *)
InTransaction(r) == req[r].pc = "inserted"

(* An authenticated request with a well-formed key. *)
Receive(r, k, b) ==
  /\ req[r].pc = "idle"
  /\ req' = [req EXCEPT ![r] = [pc |-> "lookup", key |-> k, body |-> b, answer |-> 0]]
  /\ UNCHANGED <<tables, answers, undone>>

(* The rows a plain SELECT may find: what the open transaction of another  *)
(* thread of the process has written, or what is committed.                *)
Views(k) == {work.tomb[k], db.tomb[k]}

(* Mutant: any row under the key is replayed. *)
KeyMatches(t, b) == t.answer # 0

(* A request that has no hash matches no row. *)
Matches(t, b) == b # NoBody /\ b = t.body

(* _idempotency_lookup, outside the transaction of the mutation *)
Replay(r) ==
  /\ req[r].pc = "lookup"
  /\ \E t \in Views(req[r].key) :
       /\ t.answer # 0
       /\ Matches(t, req[r].body)
       /\ Answer(r, "answering", t.answer)
  /\ UNCHANGED <<tables, answers, undone>>

(* IDEMPOTENCY_CONFLICT *)
Conflict(r) ==
  /\ req[r].pc = "lookup"
  /\ \E t \in Views(req[r].key) : t.answer # 0 /\ ~Matches(t, req[r].body)
  /\ Goto(r, "failed")
  /\ UNCHANGED <<tables, answers, undone>>

Miss(r) ==
  /\ req[r].pc = "lookup"
  /\ \E t \in Views(req[r].key) : t.answer = 0
  /\ Goto(r, "routed")
  /\ UNCHANGED <<tables, answers, undone>>

-----------------------------------------------------------------------------
(* The handlers, up to _consume_idem, which is the last statement of their *)
(* transactions.  Only cancel_job does without a body.                     *)

Routed(r, kind) ==
  /\ req[r].pc = "routed"
  /\ Kind(req[r].key) = kind
  /\ req[r].body # NoBody \/ kind = "settle"

Busy == \E q \in Requests : InTransaction(q)

(* An ApiError: validation, limits, a state that does not allow it *)
Refuse(r) ==
  /\ req[r].pc = "routed"
  /\ Goto(r, "failed")
  /\ UNCHANGED <<tables, answers, undone>>

(* BEGIN inside the transaction of another thread, or busy for too long *)
BeginFails(r) ==
  /\ \E kind \in {"create", "register", "settle"} : Routed(r, kind)
  /\ Busy
  /\ Goto(r, "failed")
  /\ UNCHANGED <<tables, answers, undone>>

(* Mutant: INSERT OR REPLACE. *)
RowReplaces(k, b) == b # NoBody

(* PRIMARY KEY and request_hash NOT NULL of table idempotency *)
RowInserts(k, b) == work.tomb[k].answer = 0 /\ b # NoBody

Insert(r, objects, i) ==
  LET k == req[r].key IN
  /\ ~Busy
  /\ RowInserts(k, req[r].body)
  /\ work' = [made |-> objects,
              tomb |-> [work.tomb EXCEPT ![k] = [body |-> req[r].body, answer |-> i]]]
  /\ Answer(r, "inserted", i)
  /\ UNCHANGED <<db, answers, undone>>

InsertNew(r) ==
  /\ ids < MaxObjects
  /\ ids' = ids + 1
  /\ Insert(r, work.made \cup {[id |-> ids + 1, key |-> req[r].key, body |-> req[r].body]}, ids + 1)

(* submit_job, create_stream, consume *)
Create(r) == Routed(r, "create") /\ InsertNew(r)

(* Mutant: put_policy looks for the key, not for the policy. *)
IsRegisteredUnder(o, b) == Kind(o.key) = "register" /\ work.tomb[o.key].answer = 0

(* What put_policy and register_reference find under the same identity *)
IsRegistered(o, b) == Kind(o.key) = "register" /\ o.body = b

Register(r) ==
  /\ Routed(r, "register")
  /\ \A o \in work.made : ~IsRegistered(o, req[r].body)
  /\ InsertNew(r)

FindRegistered(r) ==
  /\ Routed(r, "register")
  /\ \E o \in work.made : IsRegistered(o, req[r].body) /\ Insert(r, work.made, o.id)
  /\ UNCHANGED ids

Settled == \E o \in work.made : Kind(o.key) = "settle"

(* cancel_job, set_stream_state: once, whoever asks *)
Settle(r) == Routed(r, "settle") /\ ~Settled /\ InsertNew(r)

(* IntegrityError from _consume_idem: the transaction rolls back, the      *)
(* response is a 500.  An early return before it is a Refuse.              *)
InsertFails(r) ==
  /\ \E kind \in {"create", "register", "settle"} : Routed(r, kind)
  /\ ~Busy
  /\ ~RowInserts(req[r].key, req[r].body)
  /\ Kind(req[r].key) = "settle" => ~Settled
  /\ Goto(r, "failed")
  /\ UNCHANGED <<tables, answers, undone>>

-----------------------------------------------------------------------------
(* Store.tx: COMMIT *)
Commit(r) ==
  /\ InTransaction(r)
  /\ db' = work
  /\ Goto(r, "answering")
  /\ UNCHANGED <<work, ids, answers, undone>>

(* A COMMIT that fails, or the death of the process before it *)
Abort(r) ==
  /\ InTransaction(r)
  /\ work' = db
  /\ undone' = undone \cup {AnswerOf(r)}
  /\ req' = [req EXCEPT ![r] = Ready]
  /\ UNCHANGED <<db, ids, answers>>

Respond(r) ==
  /\ req[r].pc = "answering"
  /\ answers' = answers \cup {AnswerOf(r)}
  /\ req' = [req EXCEPT ![r] = Ready]
  /\ UNCHANGED <<tables, undone>>

(* An error response, a response that is lost, or the death of the process *)
(* at any other point                                                      *)
GiveUp(r) ==
  /\ req[r].pc # "idle" /\ ~InTransaction(r)
  /\ req' = [req EXCEPT ![r] = Ready]
  /\ UNCHANGED <<tables, answers, undone>>

Next ==
  \E r \in Requests :
    \/ \E k \in Keys, b \in Bodies \cup {NoBody} : Receive(r, k, b)
    \/ Replay(r) \/ Conflict(r) \/ Miss(r) \/ Refuse(r) \/ BeginFails(r)
    \/ Create(r) \/ Register(r) \/ FindRegistered(r) \/ Settle(r) \/ InsertFails(r)
    \/ Commit(r) \/ Abort(r) \/ Respond(r) \/ GiveUp(r)

Spec == Init /\ [][Next]_idemVars
-----------------------------------------------------------------------------
(* Properties *)

TombRow == [body : Bodies \cup {NoBody}, answer : Nat]

Tables == [made : SUBSET Object, tomb : [Keys -> TombRow]]

AnswerRow == [key : Keys, body : Bodies \cup {NoBody}, answer : Nat]

RequestRow == [pc : {"idle", "lookup", "routed", "inserted", "answering", "failed"},
               key : Keys, body : Bodies \cup {NoBody}, answer : Nat]

(* Tables and requests are well formed; one transaction is open at a time, *)
(* and without one the tables are what was committed (Store.tx).           *)
TypeOK ==
  /\ db \in Tables /\ work \in Tables /\ ids \in Nat
  /\ req \in [Requests -> RequestRow]
  /\ answers \subseteq AnswerRow /\ undone \subseteq AnswerRow
  /\ \A q, r \in Requests : InTransaction(q) /\ InTransaction(r) => q = r
  /\ work # db => Busy

(* A key has at most one effect, and the row that remembers it: requests   *)
(* that both missed in the lookup, retries after a lost response or a      *)
(* crash never make a second job, consumption or release of one key.       *)
OneEffectPerKey == \A t \in {db, work} : \A o \in t.made : t.tomb[o.key].answer = o.id

(* Whoever repeats a request gets the answer of the first, for the body it *)
(* sent, and it names what was made of that body.  The one exception is an *)
(* answer replayed from a row that another thread had inserted and did not *)
(* get to commit (idem_lookup on the shared connection): it names what is  *)
(* not there, and the key may get another answer afterwards.               *)
AnswersAgree ==
  /\ \A a, b \in answers \ undone : a.key = b.key => a = b
  /\ \A a \in answers \ undone : \E o \in work.made : o.id = a.answer /\ o.body = a.body

(* What an endpoint registers exists once, under however many keys.        *)
RegisteredOnce ==
  \A o, p \in work.made :
    Kind(o.key) = "register" /\ Kind(p.key) = "register" /\ o.body = p.body => o = p

(* However requests overlap, are repeated, lost or killed, the endpoint    *)
(* behaves as if every key took effect once, was answered once, and could  *)
(* only be taken back, answer and all, before its effect stood.            *)
Effects == INSTANCE KeyedEffects WITH
  effects <- work.made, result <- work.tomb, told <- answers,
  open <- {k \in Keys : work.tomb[k] # db.tomb[k]}

ImplementsKeyedEffects == Effects!Spec
=============================================================================
