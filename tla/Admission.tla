----------------------------- MODULE Admission -----------------------------
(***************************************************************************)
(* What stands between a submission and the queue: the rate limit, the     *)
(* queue limit and the daily quota of retry chains (service.py), each read *)
(* in a transaction or statement of its own, before the one that inserts.  *)
(*                                                                         *)
(* A server process (api.py) and a worker process (cli.py) run several     *)
(* threads each, and the threads of a process share one connection         *)
(* (store.py): BEGIN raises inside another thread's transaction, and plain *)
(* statements see what that transaction has not committed.  The processes  *)
(* wait for each other's write lock, up to busy_timeout.                   *)
(*                                                                         *)
(* A transaction that no plain statement of another thread reads is a      *)
(* begin and an end.  Jobs are numbers; one principal and one reference.   *)
(***************************************************************************)
EXTENDS Integers, FiniteSets

CONSTANTS
  Requests,     \* threads of the server
  Loops,        \* threads of the worker
  NoThread,
  QueueLimit, ChainLimit, RateLimit,
  Minute, Day,  \* in ticks of the clock
  Watched,      \* the minute, and the day, whose submissions are counted below
  MinClock,     \* when the server starts
  MaxClock,     \* bound: the clock stops
  MaxBack,      \* bound: times the clock is set back
  MaxAgain      \* bound: recovered jobs in the queue

ASSUME AdmissionAssumption ==
  /\ IsFiniteSet(Requests) /\ IsFiniteSet(Loops)
  /\ Requests # {}
  /\ Requests \cap Loops = {} /\ NoThread \notin Requests \cup Loops
  /\ QueueLimit \in Nat \ {0} /\ ChainLimit \in Nat \ {0} /\ RateLimit \in Nat \ {0}
  /\ Minute \in Nat \ {0} /\ Day \in Nat \ {0}
  /\ Watched \in Nat /\ Watched % Minute = 0
  /\ MinClock \in Nat /\ MaxClock \in Nat /\ MinClock <= MaxClock
  /\ MaxBack \in Nat /\ MaxAgain \in Nat

Threads == Requests \cup Loops

VARIABLES
  clock,    \* what time.time() returns
  back,     \* times it was set back
  db,       \* the tables, as committed
  work,     \* the tables, as the open transaction sees them
  lock,     \* the thread whose transaction is open
  pc,       \* what a thread is about to do
  now,      \* [Requests -> time]: what self.now() returned last
  granted   \* submissions let through that were stamped in minute Watched

admissionVars == <<clock, back, db, work, lock, pc, now, granted>>
timeVars == <<clock, back>>
-----------------------------------------------------------------------------
(* Scopes of table rate_limits.  Both times come from a call of now().     *)
MinuteOf(t) == t - (t % Minute)

DayOf(t, u) == t - (u % Day)

(* A row under any other scope is written and never read. *)
Days == {t \in 0..MaxClock : t % Day = 0}

Tables == [rate   : [window : -1..MaxClock, count : Nat],   \* row mut:<project>
           chains : [Days -> Nat],  \* rows chains:...:<day>
           begun  : Nat,            \* chains that began on the day of Watched
           fresh  : Nat,            \* queued jobs that never had a lease
           again  : Nat]            \* queued jobs that were recovered

NoTables == [rate |-> [window |-> -1, count |-> 0], chains |-> [s \in Days |-> 0],
             begun |-> 0, fresh |-> 0, again |-> 0]

Queued(tables) == tables.fresh + tables.again

(* Mutant: workers and server are one process. *)
OneProcess(t, u) == TRUE

SameProcess(t, u) == t \in Requests <=> u \in Requests

(* What a plain statement of thread t sees *)
Seen(t) == IF lock # NoThread /\ SameProcess(lock, t) THEN work ELSE db

Init ==
  /\ clock = MinClock /\ back = 0
  /\ db = NoTables /\ work = NoTables
  /\ lock = NoThread
  /\ pc = [t \in Threads |-> "idle"]
  /\ now = [r \in Requests |-> MinClock]
  /\ granted = 0

Goto(t, to) == pc' = [pc EXCEPT ![t] = to]

Tick ==
  /\ clock < MaxClock
  /\ clock' = clock + 1
  /\ UNCHANGED <<back, db, work, lock, pc, now, granted>>

(* By less than the second that WallClock tolerates *)
SetBack ==
  /\ clock > MinClock /\ back < MaxBack
  /\ clock' = clock - 1
  /\ back' = back + 1
  /\ UNCHANGED <<db, work, lock, pc, now, granted>>
-----------------------------------------------------------------------------
(* ProjectStore.tx *)

Outside == {"limit", "chain", "first", "next", "lease", "recover", "write"}

Inside == [limit |-> "limiting", chain |-> "chaining", first |-> "inserting",
           next |-> "appending", lease |-> "leasing", recover |-> "recovering",
           write |-> "writing"]

(* A thread with a transaction open; a first job has its day to write yet. *)
InTransaction == {Inside[s] : s \in Outside} \cup {"dating", "inserted"}

Begin(t) ==
  /\ pc[t] \in Outside
  /\ lock = NoThread
  /\ lock' = t
  /\ Goto(t, Inside[pc[t]])
  /\ UNCHANGED <<timeVars, db, work, now, granted>>

Commit(t, tables) == lock' = NoThread /\ db' = tables /\ work' = tables

Rollback(t) == lock' = NoThread /\ work' = db /\ UNCHANGED db

(* An exception that is no ApiError: a request is answered with 500, and a *)
(* worker loop ends.                                                       *)
Raise(t) == Goto(t, IF t \in Requests THEN "idle" ELSE "ended")

(* BEGIN within the transaction of another thread of the process *)
NestedBegin(t) ==
  /\ pc[t] \in Outside
  /\ lock # NoThread /\ SameProcess(lock, t)
  /\ Raise(t)
  /\ UNCHANGED <<timeVars, db, work, lock, now, granted>>

(* The other process keeps the database locked beyond busy_timeout, for a  *)
(* BEGIN or a plain UPDATE.                                                *)
BusyBegin(t) ==
  /\ pc[t] \in Outside \cup {"mark"}
  /\ lock # NoThread /\ ~SameProcess(lock, t)
  /\ Raise(t)
  /\ UNCHANGED <<timeVars, db, work, lock, now, granted>>

(* Any other error: of a file (cas_write), of a constraint, of SQLite.  A  *)
(* transaction is rolled back.  For a request it may as well be an ApiError. *)
Fail(t) ==
  /\ pc[t] # "ended"
  /\ Raise(t)
  /\ IF lock = t THEN Rollback(t) ELSE UNCHANGED <<db, work, lock>>
  /\ UNCHANGED <<timeVars, now, granted>>
-----------------------------------------------------------------------------
(* submit_job *)

(* The checks that need no limits are behind it; rate_limit reads the clock. *)
Arrive(r) ==
  /\ pc[r] = "idle"
  /\ Goto(r, "limit")
  /\ now' = [now EXCEPT ![r] = clock]
  /\ UNCHANGED <<timeVars, db, work, lock, granted>>

Counted(tables, m) ==
  IF tables.rate.window = m
    THEN [window |-> m, count |-> tables.rate.count + 1]
    ELSE [window |-> m, count |-> 1]

(* Mutant: one more than the limit. *)
OverLimit(tables, m) == tables.rate.window = m /\ tables.rate.count > RateLimit

AtLimit(tables, m) == tables.rate.window = m /\ tables.rate.count >= RateLimit

(* rate_limit *)
LimitRate(r) ==
  LET m == MinuteOf(now[r]) IN
  /\ pc[r] = "limiting"
  /\ IF AtLimit(work, m)
       THEN /\ Goto(r, "idle")
            /\ Rollback(r)
            /\ UNCHANGED granted
       ELSE /\ Goto(r, "queue")
            /\ Commit(r, [work EXCEPT !.rate = Counted(work, m)])
            /\ granted' = IF m = Watched THEN granted + 1 ELSE granted
  /\ UNCHANGED <<timeVars, now>>

(* Mutant: the queue may be one longer. *)
QueueOver(tables) == Queued(tables) > QueueLimit

QueueFull(tables) == Queued(tables) >= QueueLimit

(* check_queue_limit, a plain statement; a job with a predecessor belongs  *)
(* to a chain that was counted when it began.                              *)
CheckQueue(r) ==
  /\ pc[r] = "queue"
  /\ IF QueueFull(Seen(r)) THEN Goto(r, "idle") ELSE Goto(r, "chain") \/ Goto(r, "next")
  /\ now' = [now EXCEPT ![r] = clock]
  /\ UNCHANGED <<timeVars, db, work, lock, granted>>

(* Mutant: one more than the quota. *)
QuotaOver(tables, s) == tables.chains[s] > ChainLimit

QuotaUsed(tables, s) == tables.chains[s] >= ChainLimit

(* check_chain_quota *)
CheckChain(r) ==
  /\ pc[r] = "chaining"
  /\ IF QuotaUsed(work, DayOf(now[r], now[r]))
       THEN Goto(r, "idle") /\ Rollback(r)
       ELSE Goto(r, "first") /\ Commit(r, work)
  /\ UNCHANGED <<timeVars, now, granted>>

(* The scope is named by two readings of the clock: this is the first. *)
ReadDay(r) ==
  /\ pc[r] = "inserting"
  /\ now' = [now EXCEPT ![r] = clock]
  /\ Goto(r, "dating")
  /\ UNCHANGED <<timeVars, db, work, lock, granted>>

SameDay(t, u) == DayOf(t, t) = DayOf(u, u)

AddAt(count, s) == [d \in Days |-> IF d = s THEN count[d] + 1 ELSE count[d]]

(* The second reading; the clock may have moved on or back in between. *)
InsertFirst(r) ==
  /\ pc[r] = "dating"
  /\ work' = [work EXCEPT !.fresh = @ + 1,
                          !.chains = AddAt(@, DayOf(now[r], clock)),
                          !.begun = IF SameDay(clock, Watched) THEN @ + 1 ELSE @]
  /\ Goto(r, "inserted")
  /\ UNCHANGED <<timeVars, db, lock, now, granted>>

InsertNext(r) ==
  /\ pc[r] = "appending"
  /\ work' = [work EXCEPT !.fresh = @ + 1]
  /\ Goto(r, "inserted")
  /\ UNCHANGED <<timeVars, db, lock, now, granted>>

InsertCommit(r) ==
  /\ pc[r] = "inserted"
  /\ Goto(r, "idle")
  /\ Commit(r, work)
  /\ UNCHANGED <<timeVars, now, granted>>
-----------------------------------------------------------------------------
(* The worker process *)

(* lease_next_job: without a queued job, worker_tick *)
FindJob(l) ==
  /\ pc[l] = "idle"
  /\ Goto(l, IF Queued(Seen(l)) > 0 THEN "lease" ELSE "recover")
  /\ UNCHANGED <<timeVars, db, work, lock, now, granted>>

(* rpc_lease of a job that may have been leased or cancelled meanwhile *)
Lease(l) ==
  /\ pc[l] = "leasing"
  /\ \/ Goto(l, "recover") /\ Rollback(l)
     \/ /\ work.fresh > 0
        /\ Goto(l, "write") /\ Commit(l, [work EXCEPT !.fresh = @ - 1])
     \/ /\ work.again > 0
        /\ Goto(l, "write") /\ Commit(l, [work EXCEPT !.again = @ - 1])
  /\ UNCHANGED <<timeVars, now, granted>>

(* What a loop does to other tables: rpc_advance, rpc_finish, the record of *)
(* a failure, with the lease or without; create_checkpoint and the plain   *)
(* UPDATE of a row of the outbox, which is marked.                         *)
Proceed(l) == \E to \in {"write", "mark", "idle"} : Goto(l, to)

Write(l) ==
  /\ pc[l] = "writing"
  /\ \/ Proceed(l) /\ Commit(l, work)
     \/ Goto(l, "idle") /\ Rollback(l)
  /\ UNCHANGED <<timeVars, now, granted>>

(* It becomes part of the transaction of another loop if there is one. *)
Mark(l) ==
  /\ pc[l] = "mark"
  /\ lock = NoThread \/ SameProcess(lock, l)
  /\ Proceed(l)
  /\ UNCHANGED <<timeVars, db, work, lock, now, granted>>

(* rpc_recover requeues the jobs whose deadline has passed, up to MaxAgain; *)
(* run_outbox is next.                                                     *)
Recover(l) ==
  /\ pc[l] = "recovering"
  /\ \/ Goto(l, "idle") /\ Rollback(l)
     \/ /\ Proceed(l)
        /\ \E n \in work.again..MaxAgain : Commit(l, [work EXCEPT !.again = n])
  /\ UNCHANGED <<timeVars, now, granted>>

-----------------------------------------------------------------------------
RequestStep(r) ==
  \/ Begin(r) \/ NestedBegin(r) \/ BusyBegin(r) \/ Fail(r)
  \/ LimitRate(r) \/ CheckQueue(r) \/ CheckChain(r)
  \/ ReadDay(r) \/ InsertFirst(r) \/ InsertNext(r) \/ InsertCommit(r)

LoopStep(l) ==
  \/ Begin(l) \/ NestedBegin(l) \/ BusyBegin(l) \/ Fail(l)
  \/ FindJob(l) \/ Lease(l) \/ Write(l) \/ Mark(l) \/ Recover(l)

Next ==
  \/ Tick \/ SetBack
  \/ \E r \in Requests : Arrive(r) \/ RequestStep(r)
  \/ \E l \in Loops : LoopStep(l)

Spec == Init /\ [][Next]_admissionVars
-----------------------------------------------------------------------------
(* Properties *)

(* Tables and threads are well formed, and a transaction is open exactly   *)
(* while its thread is inside.                                             *)
TypeOK ==
  /\ clock \in MinClock..MaxClock /\ back \in 0..MaxBack
  /\ db \in Tables /\ work \in Tables
  /\ lock \in Threads \cup {NoThread}
  /\ pc \in [Threads -> {"idle", "queue", "mark", "ended"} \cup Outside \cup InTransaction]
  /\ now \in [Requests -> MinClock..MaxClock]
  /\ granted \in Nat
  /\ lock = NoThread => work = db
  /\ \A t \in Threads : lock = t <=> pc[t] \in InTransaction

(* The queue limit is read before the insert and outside its transaction:  *)
(* submissions in flight overshoot it, each by one at most, and jobs that  *)
(* come back from expired leases are not counted against them.             *)
FreshBounded == db.fresh <= QueueLimit - 1 + Cardinality(Requests)

Changes == (clock - MinClock) + 2 * back

(* The chains that begin on one day overshoot the quota in the same way,   *)
(* once more for every time the clock goes back, and by the chains whose   *)
(* row names another time than the midnight that the check reads.  Those   *)
(* are at most one for every change of the clock: only the thread inside   *)
(* a transaction can see one between its two readings.                     *)
QuotaBounded ==
  db.begun <= ChainLimit - 1 + (1 + back) * Cardinality(Requests) + Changes

(* The row of the rate limit knows one minute.  A submission stamped in an *)
(* earlier minute and counted in a later one resets it, and so does the    *)
(* clock when it goes back; by that and no more the limit is exceeded:     *)
(* each coming of the clock into the minute lets through less than limit   *)
(* and one for every thread.                                               *)
RateBounded ==
  granted <= (1 + back) * ((RateLimit + 1) * Cardinality(Requests) - 1)

(* Loops that open transactions at the same time never end each other to   *)
(* the last: a BEGIN within the transaction of another loop leaves that    *)
(* one.  The last ends of an error of its own, or of a lock of the server. *)
LoopSurvives ==
  [][\A l \in Loops : NestedBegin(l) => \E k \in Loops : pc'[k] # "ended"]_admissionVars
=============================================================================
