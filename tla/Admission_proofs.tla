-------------------------- MODULE Admission_proofs --------------------------
(***************************************************************************)
(* How far the limits can be exceeded, for any number of threads, any      *)
(* limits and any clock.  What the checks miss is carried by requests that *)
(* have passed them and not inserted yet; the invariants count those.      *)
(***************************************************************************)
EXTENDS Admission, FiniteSetTheorems, TLAPS

Held == {"limiting", "chaining", "inserting", "dating", "inserted", "appending",
         "leasing", "recovering", "writing"}

LEMMA InsideHeld ==
  /\ InTransaction = Held
  /\ \A s \in Outside : Inside[s] \in Held
  /\ Inside["limit"] = "limiting" /\ Inside["chain"] = "chaining"
  /\ Inside["first"] = "inserting" /\ Inside["next"] = "appending"
  BY DEF InTransaction, Inside, Outside, Held

(* TypeOK in two parts, without the image that SMT does not compute *)
PcTyped ==
  /\ lock \in Threads \cup {NoThread}
  /\ pc \in [Threads -> {"idle", "queue", "mark", "ended"} \cup Outside \cup Held]
  /\ \A t \in Threads : lock = t <=> pc[t] \in Held

DataTyped ==
  /\ clock \in MinClock..MaxClock /\ back \in 0..MaxBack
  /\ db \in Tables /\ work \in Tables
  /\ now \in [Requests -> MinClock..MaxClock]
  /\ granted \in Nat
  /\ lock = NoThread => work = db

Typed == PcTyped /\ DataTyped

LEMMA TypedIsTypeOK == Typed <=> TypeOK
  BY InsideHeld DEF Typed, PcTyped, DataTyped, TypeOK

-----------------------------------------------------------------------------
(* Requests that passed check_queue_limit and have not inserted their job *)
PastQueue == {r \in Requests :
                pc[r] \in {"chain", "chaining", "first", "inserting", "dating",
                          "next", "appending"}}

(* The tables differ only while a submission has inserted and not committed *)
OneUncommitted ==
  /\ work # db => lock \in Requests /\ pc[lock] = "inserted"
  /\ db.fresh <= work.fresh
  /\ db.begun <= work.begun

QueueBudget == work.fresh + Cardinality(PastQueue) <= QueueLimit - 1 + Cardinality(Requests)

(* The day whose chains are counted, and what its row says *)
W == DayOf(Watched, Watched)

Row(tables) == IF W \in Days THEN tables.chains[W] ELSE 0

(* The row misses a chain for every change of the clock at most, and one   *)
(* less while the thread that writes it has yet to meet the last change.   *)
Uncounted ==
  /\ db.begun <= Row(db) + Changes
  /\ work.begun <= Row(work) + Changes
  /\ \A r \in Requests :
       pc[r] = "dating" /\ now[r] # clock => work.begun + 1 <= Row(work) + Changes

(* Requests that can begin a chain on the day although its quota is used up *)
PastQuota == {r \in Requests :
                \/ pc[r] \in {"first", "inserting", "dating"}
                \/ pc[r] \in {"chain", "chaining"} /\ DayOf(now[r], now[r]) # W}

OnDay(t) == W <= t /\ t < W + Day

N == Cardinality(Requests)

(* At time c, after b settings back: n chains counted, p past the quota *)
Within(c, b, n, p) ==
  /\ c < W => n <= ChainLimit - 1 + b * N
  /\ OnDay(c) => n + p <= ChainLimit - 1 + (1 + b) * N
  /\ n <= ChainLimit - 1 + (1 + b) * N

QuotaBudget == Within(clock, back, work.begun - Changes, Cardinality(PastQuota))

IInv == Typed /\ OneUncommitted /\ QueueBudget /\ Uncounted /\ QuotaBudget

-----------------------------------------------------------------------------
(* Arithmetic *)

LEMMA Constants ==
  /\ N \in Nat /\ IsFiniteSet(Requests)
  /\ Day \in Nat \ {0} /\ Minute \in Nat \ {0}
  /\ ChainLimit \in Nat \ {0} /\ QueueLimit \in Nat \ {0} /\ RateLimit \in Nat \ {0}
  /\ MinClock \in Nat /\ MaxClock \in Nat /\ MinClock <= MaxClock
  /\ MaxBack \in Nat /\ MaxAgain \in Nat
  /\ NoThread \notin Threads
  /\ Days \subseteq Nat
  BY AdmissionAssumption, FS_CardinalityType DEF N, Threads, Days

LEMMA SubsetOfRequests ==
  ASSUME NEW S \in SUBSET Requests
  PROVE  IsFiniteSet(S) /\ Cardinality(S) \in Nat /\ Cardinality(S) <= N
  BY Constants, FS_Subset, FS_CardinalityType DEF N

LEMMA SmallerSet ==
  ASSUME NEW S \in SUBSET Requests, NEW T \in SUBSET S
  PROVE  Cardinality(T) \in Nat /\ Cardinality(T) <= Cardinality(S)
  BY SubsetOfRequests, FS_Subset, FS_CardinalityType

LEMMA WithoutOne ==
  ASSUME NEW S \in SUBSET Requests, NEW r \in S
  PROVE  Cardinality(S \ {r}) + 1 = Cardinality(S)
  BY SubsetOfRequests, FS_RemoveElement

LEMMA OnceMore ==
  ASSUME NEW b \in Nat
  PROVE  b * N \in Nat /\ (1 + b) * N = b * N + N /\ (1 + (b + 1)) * N = b * N + N + N
         /\ (b + 1) * N = b * N + N
  BY Constants

(* Days are the multiples of Day, and a time is within the one it names. *)
LEMMA DayIsMultiple ==
  ASSUME NEW t \in Nat
  PROVE  \E j \in Nat : DayOf(t, t) = Day * j /\ Day * j <= t /\ t < Day * j + Day
<1>1. Day \in Nat \ {0}
  BY Constants
<1>2. t = Day * (t \div Day) + (t % Day) /\ t \div Day \in Nat /\ t % Day \in 0..(Day - 1)
  BY <1>1
<1>3. PICK j \in Nat, m \in 0..(Day - 1) : t = Day * j + m /\ m = t % Day
  BY <1>2
<1>4. DayOf(t, t) = Day * j
  BY <1>1, <1>3 DEF DayOf
<1>5. Day * j \in Nat
  BY <1>1
<1>6. Day * j <= t /\ t < Day * j + Day
  BY <1>1, <1>3, <1>5
<1> QED
  BY <1>4, <1>6

LEMMA SameMultiple ==
  ASSUME NEW j \in Nat, NEW k \in Nat, NEW m \in Nat, m < Day,
         Day * j <= Day * k + m, Day * k + m < Day * j + Day
  PROVE  j = k
<1>1. Day \in Nat \ {0}
  BY Constants
<1>2. CASE j < k
  <2>1. Day * (j + 1) <= Day * k /\ Day * (j + 1) = Day * j + Day
    BY <1>1, <1>2
  <2> QED
    BY <1>1, <2>1
<1>3. CASE j > k
  <2>1. Day * (k + 1) <= Day * j /\ Day * (k + 1) = Day * k + Day
    BY <1>1, <1>3
  <2> QED
    BY <1>1, <2>1
<1> QED
  BY <1>2, <1>3

LEMMA NamedDays ==
  ASSUME NEW t \in 0..MaxClock
  PROVE  DayOf(t, t) \in Days
<1>1. Day \in Nat \ {0} /\ t \in Nat /\ MaxClock \in Nat
  BY Constants
<1>2. PICK j \in Nat : DayOf(t, t) = Day * j /\ Day * j <= t
  BY <1>1, DayIsMultiple
<1>3. Day * j \in Nat
  BY <1>1
<1>4. PICK k \in Nat, m \in 0..(Day - 1) : Day * j = Day * k + m /\ m = (Day * j) % Day
  <2>1. PICK s \in Nat : s = Day * j
    BY <1>3
  <2>2. s = Day * (s \div Day) + (s % Day) /\ s \div Day \in Nat /\ s % Day \in 0..(Day - 1)
    BY <1>1
  <2> QED
    BY <2>1, <2>2
<1>5. j = k
  BY <1>1, <1>4, SameMultiple
<1>6. (Day * j) % Day = 0
  BY <1>1, <1>3, <1>4, <1>5
<1> QED
  BY <1>1, <1>2, <1>3, <1>6 DEF Days

(* The watched day is the one that its times name. *)
LEMMA DayNamed ==
  ASSUME NEW t \in Nat
  PROVE  W \in Nat /\ (OnDay(t) <=> DayOf(t, t) = W)
<1>1. Day \in Nat \ {0} /\ Watched \in Nat
  BY Constants, AdmissionAssumption
<1>2. PICK k \in Nat : W = Day * k
  BY <1>1, DayIsMultiple DEF W
<1>3. PICK j \in Nat : DayOf(t, t) = Day * j /\ Day * j <= t /\ t < Day * j + Day
  BY DayIsMultiple
<1>4. W \in Nat
  BY <1>1, <1>2
<1>5. ASSUME OnDay(t) PROVE k = j
  <2>1. PICK m \in Nat : t = Day * j + m
    <3>1. Day * j \in Nat /\ t - Day * j \in Nat /\ t = Day * j + (t - Day * j)
      BY <1>1, <1>3
    <3> QED
      BY <3>1
  <2>2. m < Day
    BY <1>1, <1>3, <2>1
  <2>3. Day * k <= Day * j + m /\ Day * j + m < Day * k + Day
    BY <1>2, <1>5, <2>1 DEF OnDay
  <2> QED
    BY <2>2, <2>3, SameMultiple
<1> QED
  BY <1>2, <1>3, <1>4, <1>5 DEF OnDay

LEMMA WithinTick ==
  ASSUME NEW c \in Nat, NEW b \in Nat, NEW n \in Int, NEW p \in Nat,
         Within(c, b, n, p), p <= N
  PROVE  Within(c + 1, b, n - 1, p)
  BY Constants, OnceMore, DayNamed DEF Within, OnDay

LEMMA WithinSetBack ==
  ASSUME NEW c \in Nat, NEW b \in Nat, NEW n \in Int, NEW p \in Nat,
         Within(c, b, n, p), p <= N
  PROVE  Within(c - 1, b + 1, n - 1, p)
  BY Constants, OnceMore, DayNamed DEF Within, OnDay

LEMMA WithinFewer ==
  ASSUME NEW c \in Nat, NEW b \in Nat, NEW n \in Int, NEW p \in Nat,
         Within(c, b, n, p),
         NEW m \in Int, m <= n, NEW q \in Nat, OnDay(c) => q <= p
  PROVE  Within(c, b, m, q)
  BY Constants, OnceMore DEF Within

LEMMA WithinChecked ==
  ASSUME NEW c \in Nat, NEW b \in Nat, NEW n \in Int, n < ChainLimit,
         NEW p \in Nat, p <= N
  PROVE  Within(c, b, n, p)
  BY Constants, OnceMore DEF Within

LEMMA WithinInsert ==
  ASSUME NEW c \in Nat, NEW b \in Nat, NEW n \in Int, NEW p \in Nat,
         Within(c, b, n, p + 1), OnDay(c)
  PROVE  Within(c, b, n + 1, p)
  BY Constants, OnceMore, DayNamed DEF Within, OnDay

-----------------------------------------------------------------------------
(* Control: a thread is inside a transaction exactly while it has the lock. *)

Free == {"idle", "queue", "mark", "ended"} \cup Outside

LEMMA StaysFree ==
  ASSUME PcTyped, NEW t \in Threads, pc[t] \in Free, NEW to \in Free, Goto(t, to),
         UNCHANGED lock
  PROVE  PcTyped'
  BY Constants DEF PcTyped, Goto, Free, Outside, Held

LEMMA Releases ==
  ASSUME PcTyped, NEW t \in Threads, pc[t] \in Held, NEW to \in Free,
         Goto(t, to), lock' = NoThread
  PROVE  PcTyped'
  BY Constants DEF PcTyped, Goto, Free, Outside, Held

LEMMA Keeps ==
  ASSUME PcTyped, NEW t \in Threads, pc[t] \in Held, NEW to \in Held, Goto(t, to),
         UNCHANGED lock
  PROVE  PcTyped'
  BY Constants DEF PcTyped, Goto, Outside, Held

LEMMA Takes ==
  ASSUME PcTyped, NEW t \in Threads, Begin(t)
  PROVE  PcTyped'
<1>1. Inside[pc[t]] \in Held
  BY InsideHeld DEF Begin
<1> QED
  BY <1>1, Constants DEF Begin, PcTyped, Goto, Outside, Held

LEMMA StepPcTyped == PcTyped /\ [Next]_admissionVars => PcTyped'
<1> SUFFICES ASSUME PcTyped, [Next]_admissionVars PROVE PcTyped'
  OBVIOUS
<1>0. Requests \subseteq Threads /\ Loops \subseteq Threads
  BY DEF Threads
<1>1. CASE Tick \/ SetBack \/ UNCHANGED admissionVars
  BY <1>1 DEF Tick, SetBack, admissionVars, PcTyped
<1>2. ASSUME NEW t \in Threads, Begin(t) \/ NestedBegin(t) \/ BusyBegin(t) \/ Fail(t)
      PROVE  PcTyped'
  <2>1. CASE Begin(t)
    BY <2>1, Takes
  <2>2. CASE NestedBegin(t) \/ BusyBegin(t)
    BY <2>2, StaysFree DEF NestedBegin, BusyBegin, Raise, Free
  <2>3. CASE Fail(t) /\ lock = t
    <3>1. pc[t] \in Held
      BY <2>3 DEF PcTyped
    <3> QED
      BY <2>3, <3>1, Releases DEF Fail, Raise, Rollback, Free
  <2>4. CASE Fail(t) /\ lock # t
    <3>1. pc[t] \in Free
      BY <2>4 DEF PcTyped, Free
    <3> QED
      BY <2>4, <3>1, StaysFree DEF Fail, Raise, Free
  <2> QED
    BY <1>2, <2>1, <2>2, <2>3, <2>4
<1>3. ASSUME NEW r \in Requests, Arrive(r) \/ CheckQueue(r)
      PROVE  PcTyped'
  BY <1>0, <1>3, StaysFree DEF Arrive, CheckQueue, Free, Outside
<1>4. ASSUME NEW r \in Requests, LimitRate(r) \/ CheckChain(r) \/ InsertCommit(r)
      PROVE  PcTyped'
  BY <1>0, <1>4, Releases DEF LimitRate, CheckChain, InsertCommit, Commit,
     Rollback, Free, Held, Outside
<1>5. ASSUME NEW r \in Requests, ReadDay(r) \/ InsertNext(r) \/ InsertFirst(r)
      PROVE  PcTyped'
  BY <1>0, <1>5, Keeps DEF ReadDay, InsertNext, InsertFirst, Held
<1>6. ASSUME NEW l \in Loops, FindJob(l) \/ Mark(l)
      PROVE  PcTyped'
  BY <1>0, <1>6, StaysFree DEF FindJob, Mark, Proceed, Free, Outside
<1>7. ASSUME NEW l \in Loops, Lease(l) \/ Write(l) \/ Recover(l)
      PROVE  PcTyped'
  BY <1>0, <1>7, Releases DEF Lease, Write, Recover, Proceed, Commit, Rollback, Free, Held,
     Outside
<1> QED
  BY <1>0, <1>1, <1>2, <1>3, <1>4, <1>5, <1>6, <1>7 DEF Next, RequestStep, LoopStep

-----------------------------------------------------------------------------
(* Data *)

LEMMA TableFields ==
  ASSUME NEW T \in Tables
  PROVE  /\ T.fresh \in Nat /\ T.again \in Nat /\ T.begun \in Nat /\ T.chains \in [Days -> Nat]
         /\ T.rate.window \in -1..MaxClock /\ T.rate.count \in Nat
         /\ Queued(T) \in Nat /\ Row(T) \in Nat
  BY DEF Tables, Queued, Row

LEMMA MinuteTyped ==
  ASSUME NEW t \in MinClock..MaxClock
  PROVE  MinuteOf(t) \in 0..MaxClock
<1>1. t % Minute \in 0..(Minute - 1) /\ t \in Nat /\ t % Minute <= t
  BY Constants
<1> QED
  BY <1>1, Constants DEF MinuteOf

LEMMA CountedTyped ==
  ASSUME NEW T \in Tables, NEW t \in MinClock..MaxClock
  PROVE  [T EXCEPT !.rate = Counted(T, MinuteOf(t))] \in Tables
<1>1. Counted(T, MinuteOf(t)) \in [window : -1..MaxClock, count : Nat]
  BY MinuteTyped, TableFields DEF Counted
<1> QED
  BY <1>1 DEF Tables

(* What InsertFirst makes of the tables *)
LEMMA ChainAdded ==
  ASSUME work \in Tables, NEW r, InsertFirst(r)
  PROVE  /\ work' \in Tables /\ work'.fresh = work.fresh + 1 /\ work'.rate = work.rate
         /\ work'.begun = IF SameDay(clock, Watched) THEN work.begun + 1 ELSE work.begun
         /\ Row(work') = IF W \in Days /\ DayOf(now[r], clock) = W
                           THEN Row(work) + 1 ELSE Row(work)
<1> DEFINE s == DayOf(now[r], clock)
           chains == AddAt(work.chains, s)
           begun == IF SameDay(clock, Watched) THEN work.begun + 1 ELSE work.begun
<1>1. chains \in [Days -> Nat] /\ work.fresh + 1 \in Nat /\ begun \in Nat
  BY TableFields DEF AddAt
<1>2. \A d \in Days : chains[d] = IF d = s THEN work.chains[d] + 1 ELSE work.chains[d]
  BY DEF AddAt
<1>3. work' = [work EXCEPT !.fresh = work.fresh + 1, !.chains = chains, !.begun = begun]
  BY DEF InsertFirst
<1> HIDE DEF chains, begun, s
<1>4. /\ work' \in Tables /\ work'.fresh = work.fresh + 1 /\ work'.rate = work.rate
      /\ work'.begun = begun /\ work'.chains = chains
  BY <1>1, <1>3 DEF Tables
<1>5. Row(work') = IF W \in Days /\ s = W THEN Row(work) + 1 ELSE Row(work)
  BY <1>2, <1>4 DEF Row
<1> QED
  BY <1>4, <1>5 DEF begun, s

LEMMA StepDataTyped == Typed /\ [Next]_admissionVars => DataTyped'
<1> SUFFICES ASSUME Typed, [Next]_admissionVars PROVE DataTyped'
  OBVIOUS
<1>0. /\ PcTyped /\ DataTyped
      /\ db \in Tables /\ work \in Tables
      /\ NoThread \notin Threads /\ Requests \subseteq Threads /\ Loops \subseteq Threads
  BY Constants DEF Typed, DataTyped, Threads
<1>1. CASE Tick \/ SetBack \/ UNCHANGED admissionVars
  BY <1>0, <1>1, Constants DEF Tick, SetBack, admissionVars, DataTyped
<1>2. ASSUME NEW t \in Threads, Begin(t) \/ NestedBegin(t) \/ BusyBegin(t) \/ Fail(t)
      PROVE  DataTyped'
  BY <1>0, <1>2 DEF Begin, NestedBegin, BusyBegin, Fail, Rollback, DataTyped, timeVars
<1>3. ASSUME NEW r \in Requests, Arrive(r) \/ CheckQueue(r) \/ ReadDay(r)
      PROVE  DataTyped'
  BY <1>0, <1>3 DEF Arrive, CheckQueue, ReadDay, DataTyped, timeVars
<1>4. ASSUME NEW r \in Requests, LimitRate(r)
      PROVE  DataTyped'
  <2>1. [work EXCEPT !.rate = Counted(work, MinuteOf(now[r]))] \in Tables
    BY <1>0, CountedTyped DEF DataTyped
  <2> QED
    BY <1>0, <1>4, <2>1 DEF LimitRate, Commit, Rollback, DataTyped, timeVars
<1>5. ASSUME NEW r \in Requests, CheckChain(r) \/ InsertCommit(r)
      PROVE  DataTyped'
  BY <1>0, <1>5 DEF CheckChain, InsertCommit, Commit, Rollback, DataTyped, timeVars
<1>6. ASSUME NEW r \in Requests, InsertFirst(r)
      PROVE  DataTyped'
  <2>1. lock = r
    BY <1>0, <1>6 DEF PcTyped, InsertFirst, Held
  <2>2. work' \in Tables
    BY <1>0, <1>6, ChainAdded DEF InsertFirst
  <2> QED
    BY <1>0, <1>6, <2>1, <2>2 DEF InsertFirst, DataTyped, timeVars
<1>7. ASSUME NEW r \in Requests, InsertNext(r)
      PROVE  DataTyped'
  <2>1. lock = r
    BY <1>0, <1>7 DEF PcTyped, InsertNext, Held
  <2>2. work' \in Tables
    BY <1>0, <1>7, TableFields DEF InsertNext, Tables
  <2> QED
    BY <1>0, <1>7, <2>1, <2>2 DEF InsertNext, DataTyped, timeVars
<1>8. ASSUME NEW l \in Loops, FindJob(l) \/ Write(l) \/ Mark(l)
      PROVE  DataTyped'
  BY <1>0, <1>8 DEF FindJob, Write, Mark, Commit, Rollback, DataTyped, timeVars
<1>9. ASSUME NEW l \in Loops, Lease(l)
      PROVE  DataTyped'
  <2>1. work.fresh > 0 => [work EXCEPT !.fresh = @ - 1] \in Tables
    BY <1>0, TableFields DEF Tables
  <2>2. work.again > 0 => [work EXCEPT !.again = @ - 1] \in Tables
    BY <1>0, TableFields DEF Tables
  <2> QED
    BY <1>0, <1>9, <2>1, <2>2 DEF Lease, Commit, Rollback, DataTyped, timeVars
<1>10. ASSUME NEW l \in Loops, Recover(l)
      PROVE  DataTyped'
  <2>1. CASE Rollback(l)
    BY <1>0, <1>10, <2>1 DEF Recover, Rollback, DataTyped, timeVars
  <2>2. ASSUME NEW n \in work.again..MaxAgain, Commit(l, [work EXCEPT !.again = n])
        PROVE  DataTyped'
    <3>1. [work EXCEPT !.again = n] \in Tables
      BY <1>0, TableFields, Constants DEF Tables
    <3> QED
      BY <1>0, <1>10, <2>2, <3>1 DEF Recover, Commit, DataTyped, timeVars
  <2> QED
    BY <1>10, <2>1, <2>2 DEF Recover
<1> QED
  BY <1>0, <1>1, <1>2, <1>3, <1>4, <1>5, <1>6, <1>7, <1>8, <1>9, <1>10
     DEF Next, RequestStep, LoopStep

-----------------------------------------------------------------------------
(* Who inserts, and what a thread with the lock leaves behind *)

Inserts(r) == InsertNext(r) \/ InsertFirst(r)

LEMMA InsertTables ==
  ASSUME Typed, NEW r \in Requests, Inserts(r)
  PROVE  /\ work'.fresh = work.fresh + 1
         /\ work'.begun >= work.begun
         /\ lock = r /\ lock' = r /\ pc'[r] = "inserted" /\ db' = db
<1>1. work \in Tables /\ PcTyped /\ r \in Threads
  BY DEF Typed, DataTyped, Threads
<1>2. lock = r /\ lock' = r /\ pc'[r] = "inserted" /\ db' = db
  BY <1>1 DEF Inserts, InsertNext, InsertFirst, PcTyped, Held, Goto
<1>3. CASE InsertNext(r)
  <2>1. work'.fresh = work.fresh + 1 /\ work'.begun = work.begun
    BY <1>1, <1>3 DEF InsertNext, Tables
  <2> QED
    BY <1>1, <1>2, <2>1, TableFields
<1>4. CASE InsertFirst(r)
  <2>1. work.begun \in Nat
    BY <1>1, TableFields
  <2>2. /\ work'.fresh = work.fresh + 1
        /\ (work'.begun = work.begun \/ work'.begun = work.begun + 1)
    BY <1>1, <1>4, ChainAdded DEF InsertFirst
  <2> QED
    BY <1>2, <2>1, <2>2
<1> QED
  BY <1>3, <1>4 DEF Inserts

(* Two views of the tables agree on chains. *)
Same(T, U) == T.begun = U.begun /\ T.chains = U.chains

(* Every step but these leaves the rows of jobs and chains as they were, or *)
(* as they were before an insert, or takes a job from the queue.           *)
Quiet ==
  \/ work' = work /\ db' = db /\ (lock' = lock \/ lock = NoThread)
  \/ /\ work' = db' /\ lock' = NoThread /\ work'.fresh <= work.fresh
     /\ Same(work', work) \/ Same(work', db)

LEMMA OthersOnlyTake ==
  ASSUME Typed, OneUncommitted, [Next]_admissionVars,
         ~\E r \in Requests : Inserts(r)
  PROVE  Quiet
<1>0. /\ work \in Tables /\ db \in Tables
      /\ db.fresh <= work.fresh /\ work.fresh \in Nat /\ work.again \in Nat
  BY TableFields DEF Typed, DataTyped, OneUncommitted
<1>1. UNCHANGED <<db, work, lock>> => Quiet
  BY DEF Quiet
<1>2. ASSUME NEW t, Rollback(t)
      PROVE  Quiet
  BY <1>0, <1>2 DEF Rollback, Quiet, Same
<1>3. ASSUME NEW t, NEW T, Commit(t, T), T.fresh <= work.fresh, Same(T, work)
      PROVE  Quiet
  BY <1>3 DEF Commit, Quiet
<1>4. ASSUME NEW t, Commit(t, work)
      PROVE  Quiet
  BY <1>0, <1>3, <1>4 DEF Same
<1>5. ASSUME NEW t \in Threads, Begin(t) \/ NestedBegin(t) \/ BusyBegin(t) \/ Fail(t)
      PROVE  Quiet
  <2>1. CASE Begin(t)
    BY <2>1 DEF Begin, Quiet
  <2>2. CASE NestedBegin(t) \/ BusyBegin(t)
    BY <1>1, <2>2 DEF NestedBegin, BusyBegin
  <2>3. CASE Fail(t)
    BY <1>1, <1>2, <2>3 DEF Fail
  <2> QED
    BY <1>5, <2>1, <2>2, <2>3
<1>6. ASSUME NEW r \in Requests, LimitRate(r)
      PROVE  Quiet
  <2>1. CASE Rollback(r)
    BY <1>2, <2>1
  <2>2. CASE Commit(r, [work EXCEPT !.rate = Counted(work, MinuteOf(now[r]))])
    <3> DEFINE T == [work EXCEPT !.rate = Counted(work, MinuteOf(now[r]))]
    <3>1. T.fresh = work.fresh /\ T.chains = work.chains /\ T.begun = work.begun
      BY <1>0 DEF Tables
    <3> HIDE DEF T
    <3>2. T.fresh <= work.fresh /\ Same(T, work)
      BY <1>0, <3>1 DEF Same
    <3>3. Commit(r, T)
      BY <2>2 DEF T
    <3> QED
      BY <1>3, <3>2, <3>3
  <2> QED
    BY <1>6, <2>1, <2>2 DEF LimitRate
<1>7. ASSUME NEW r \in Requests,
             Arrive(r) \/ CheckQueue(r) \/ CheckChain(r) \/ ReadDay(r) \/ InsertCommit(r)
      PROVE  Quiet
  BY <1>1, <1>2, <1>4, <1>7 DEF Arrive, CheckQueue, CheckChain, ReadDay, InsertCommit
<1>8. ASSUME NEW l \in Loops, FindJob(l) \/ Write(l) \/ Mark(l)
      PROVE  Quiet
  BY <1>1, <1>2, <1>4, <1>8 DEF FindJob, Write, Mark
<1>9. ASSUME NEW l \in Loops, Lease(l)
      PROVE  Quiet
  <2> DEFINE F == [work EXCEPT !.fresh = @ - 1]
             A == [work EXCEPT !.again = @ - 1]
  <2>1. F.fresh <= work.fresh /\ Same(F, work) /\ A.fresh <= work.fresh /\ Same(A, work)
    BY <1>0 DEF Tables, Same
  <2>2. Rollback(l) \/ Commit(l, F) \/ Commit(l, A)
    BY <1>9 DEF Lease
  <2> HIDE DEF F, A
  <2> QED
    BY <1>2, <1>3, <2>1, <2>2
<1>10. ASSUME NEW l \in Loops, Recover(l)
       PROVE  Quiet
  <2>1. CASE Rollback(l)
    BY <1>2, <2>1
  <2>2. ASSUME NEW n \in work.again..MaxAgain, Commit(l, [work EXCEPT !.again = n])
        PROVE  Quiet
    <3> DEFINE A == [work EXCEPT !.again = n]
    <3>1. A.fresh <= work.fresh /\ Same(A, work)
      BY <1>0 DEF Tables, Same
    <3>2. Commit(l, A)
      BY <2>2
    <3> HIDE DEF A
    <3> QED
      BY <1>3, <3>1, <3>2
  <2> QED
    BY <1>10, <2>1, <2>2 DEF Recover
<1>11. ASSUME NEW r \in Requests, Arrive(r) \/ RequestStep(r)
       PROVE  Quiet
  BY <1>5, <1>6, <1>7, <1>11 DEF RequestStep, Threads, Inserts
<1>12. ASSUME NEW l \in Loops, LoopStep(l)
       PROVE  Quiet
  BY <1>5, <1>8, <1>9, <1>10, <1>12 DEF LoopStep, Threads
<1>13. UNCHANGED admissionVars \/ Tick \/ SetBack => Quiet
  BY <1>1 DEF admissionVars, Tick, SetBack
<1> QED
  BY <1>11, <1>12, <1>13 DEF Next

LEMMA QuietTakes ==
  ASSUME Typed, OneUncommitted, Quiet
  PROVE  work'.fresh <= work.fresh /\ work'.begun <= work.begun
<1>1. work.fresh \in Nat /\ work.begun \in Nat /\ db.begun <= work.begun
  BY TableFields DEF Typed, DataTyped, OneUncommitted
<1> QED
  BY <1>1 DEF Quiet, Same

LEMMA StepOneUncommitted ==
  Typed /\ OneUncommitted /\ [Next]_admissionVars => OneUncommitted'
<1> SUFFICES ASSUME Typed, OneUncommitted, [Next]_admissionVars PROVE OneUncommitted'
  OBVIOUS
<1>0. /\ db \in Tables /\ work \in Tables /\ db' \in Tables /\ work' \in Tables
      /\ PcTyped /\ PcTyped' /\ DataTyped'
  BY StepPcTyped, StepDataTyped DEF Typed, DataTyped
<1>1. CASE \E r \in Requests : Inserts(r)
  <2>1. PICK r \in Requests : Inserts(r)
    BY <1>1
  <2>2. /\ work'.fresh = work.fresh + 1 /\ db' = db
        /\ work'.begun >= work.begun
        /\ lock' \in Requests /\ pc'[lock'] = "inserted"
    BY <2>1, InsertTables
  <2>3. /\ db.fresh \in Nat /\ work.fresh \in Nat /\ db.begun \in Nat
        /\ work.begun \in Nat /\ work'.begun \in Nat
    BY <1>0, TableFields
  <2> QED
    BY <2>2, <2>3 DEF OneUncommitted
<1>2. CASE ~\E r \in Requests : Inserts(r)
  <2>1. Quiet
    BY <1>2, OthersOnlyTake
  <2>2. CASE work' = db'
    BY <1>0, <2>2, TableFields DEF OneUncommitted
  <2>3. CASE work' = work /\ db' = db /\ lock' = lock /\ work # db
    <3>1. lock \in Requests /\ pc[lock] = "inserted" /\ lock \in Threads
      BY <2>3 DEF OneUncommitted, Threads
    <3>2. pc'[lock] = "inserted"
      <4>1. pc'[lock] \in Held
        BY <1>0, <2>3, <3>1 DEF PcTyped
      <4>2. CASE pc' = pc
        BY <3>1, <4>2
      <4>3. ASSUME NEW t \in Threads, NEW to, Goto(t, to), t # lock \/ to \notin Held
            PROVE  pc'[lock] = "inserted"
        BY <1>0, <3>1, <4>1, <4>3 DEF PcTyped, Goto
      <4>4. CASE Tick \/ SetBack \/ UNCHANGED admissionVars
        BY <4>2, <4>4 DEF Tick, SetBack, admissionVars
      <4>5. ASSUME NEW t \in Threads, Begin(t)
            PROVE  FALSE
        BY <1>0, <3>1, <4>5, Constants DEF Begin
      <4>6. ASSUME NEW t \in Threads, NestedBegin(t) \/ BusyBegin(t) \/ Fail(t)
            PROVE  pc'[lock] = "inserted"
        BY <4>3, <4>6 DEF NestedBegin, BusyBegin, Fail, Raise, Held
      <4>7. ASSUME NEW r \in Requests, RequestStep(r) \/ Arrive(r),
                   ~(Begin(r) \/ NestedBegin(r) \/ BusyBegin(r) \/ Fail(r))
            PROVE  pc'[lock] = "inserted"
        <5>1. CASE ReadDay(r)
          <6>1. r # lock
            BY <3>1, <5>1 DEF ReadDay
          <6> QED
            BY <4>3, <5>1, <6>1 DEF ReadDay, Threads
        <5>2. Arrive(r) \/ LimitRate(r) \/ CheckQueue(r) \/ CheckChain(r) \/ InsertCommit(r)
              \/ ReadDay(r)
          BY <1>2, <4>7 DEF RequestStep, Inserts
        <5>3. CASE Arrive(r) \/ LimitRate(r) \/ CheckQueue(r) \/ CheckChain(r) \/ InsertCommit(r)
          <6>1. \E to : Goto(r, to) /\ to \notin Held
            BY <5>3 DEF Arrive, LimitRate, CheckQueue, CheckChain, InsertCommit, Held
          <6> QED
            BY <4>3, <6>1 DEF Threads
        <5> QED
          BY <5>1, <5>2, <5>3
      <4>8. ASSUME NEW l \in Loops, FindJob(l) \/ Lease(l) \/ Write(l) \/ Mark(l) \/ Recover(l)
            PROVE  pc'[lock] = "inserted"
        <5>1. \E to : Goto(l, to) /\ to \notin Held
          BY <4>8 DEF FindJob, Lease, Write, Mark, Recover, Proceed, Held
        <5> QED
          BY <4>3, <5>1 DEF Threads
      <4> QED
        BY <4>4, <4>5, <4>6, <4>7, <4>8 DEF Next, RequestStep, LoopStep, Threads
    <3> QED
      BY <2>3, <3>1, <3>2 DEF OneUncommitted
  <2>4. CASE work' = work /\ db' = db /\ (lock = NoThread \/ work = db)
    <3>1. work = db
      BY <2>4 DEF Typed, DataTyped
    <3> QED
      BY <2>2, <2>4, <3>1
  <2> QED
    BY <2>1, <2>2, <2>3, <2>4 DEF Quiet
<1> QED
  BY <1>1, <1>2

-----------------------------------------------------------------------------
(* Who joins the requests that are counted *)

InQueue == {"chain", "chaining", "first", "inserting", "dating", "next", "appending"}

InQuota == {"first", "inserting", "dating"}

LEMMA InsideOf ==
  ASSUME NEW s \in Outside
  PROVE  /\ Inside[s] \in InQueue => s \in InQueue
         /\ Inside[s] \in InQuota => s = "first"
         /\ Inside[s] \in {"chain", "chaining"} => s = "chain"
  BY DEF Inside, Outside, InQueue, InQuota

(* A step that brings no request nearer to its insert *)
NoneJoins ==
  \A q \in Requests :
    /\ pc'[q] \in InQueue => pc[q] \in InQueue
    /\ pc'[q] \in InQuota => pc[q] \in InQuota
    /\ pc'[q] \in {"chain", "chaining"} => pc[q] \in {"chain", "chaining"} /\ now'[q] = now[q]

LEMMA NoneJoinsShrinks ==
  ASSUME NoneJoins
  PROVE  PastQueue' \subseteq PastQueue /\ PastQuota' \subseteq PastQuota
<1>1. PastQueue' \subseteq PastQueue
  BY DEF NoneJoins, PastQueue, InQueue
<1>2. PastQuota' \subseteq PastQuota
  BY DEF NoneJoins, PastQuota, InQuota, W
<1> QED
  BY <1>1, <1>2

LEMMA LeavingNoneJoins ==
  ASSUME PcTyped, NEW t \in Threads, NEW to, Goto(t, to), to \notin InQueue,
         \A q \in Requests \ {t} : now'[q] = now[q]
  PROVE  NoneJoins
<1>1. \A q \in Requests : pc'[q] = IF q = t THEN to ELSE pc[q]
  BY DEF Goto, PcTyped, Threads
<1> QED
  BY <1>1 DEF NoneJoins, InQueue, InQuota

LEMMA OthersNoneJoins ==
  ASSUME Typed, [Next]_admissionVars,
         ~\E r \in Requests : CheckQueue(r) \/ CheckChain(r)
  PROVE  NoneJoins
<1>0. PcTyped /\ Requests \subseteq Threads /\ Loops \subseteq Threads
      /\ now \in [Requests -> MinClock..MaxClock]
  BY DEF Typed, DataTyped, Threads
<1>1. CASE UNCHANGED admissionVars \/ Tick \/ SetBack
  BY <1>1 DEF admissionVars, Tick, SetBack, NoneJoins
<1>2. ASSUME NEW t \in Threads, Begin(t)
      PROVE  NoneJoins
  <2>1. pc[t] \in Outside /\ now' = now
    BY <1>2 DEF Begin
  <2>2. \A q \in Requests : pc'[q] = IF q = t THEN Inside[pc[t]] ELSE pc[q]
    BY <1>0, <1>2 DEF Begin, Goto, PcTyped
  <2> QED
    BY <2>1, <2>2, InsideOf DEF NoneJoins, InQuota
<1>3. ASSUME NEW t \in Threads, NestedBegin(t) \/ BusyBegin(t) \/ Fail(t)
      PROVE  NoneJoins
  <2>1. \E to : Goto(t, to) /\ to \notin InQueue /\ now' = now
    BY <1>3 DEF NestedBegin, BusyBegin, Fail, Raise, InQueue
  <2> QED
    BY <1>0, <2>1, LeavingNoneJoins
<1>4. ASSUME NEW r \in Requests, Arrive(r) \/ LimitRate(r) \/ Inserts(r) \/ InsertCommit(r)
      PROVE  NoneJoins
  <2>1. \E to : Goto(r, to) /\ to \notin InQueue
    BY <1>4 DEF Arrive, LimitRate, Inserts, InsertNext, InsertFirst, InsertCommit, InQueue
  <2>2. \A q \in Requests \ {r} : now'[q] = now[q]
    BY <1>0, <1>4 DEF Arrive, LimitRate, Inserts, InsertNext, InsertFirst, InsertCommit
  <2> QED
    BY <1>0, <2>1, <2>2, LeavingNoneJoins
<1>5. ASSUME NEW r \in Requests, ReadDay(r)
      PROVE  NoneJoins
  <2>1. \A q \in Requests : pc'[q] = IF q = r THEN "dating" ELSE pc[q]
    BY <1>0, <1>5 DEF ReadDay, Goto, PcTyped
  <2>2. pc[r] = "inserting" /\ \A q \in Requests \ {r} : now'[q] = now[q]
    BY <1>0, <1>5 DEF ReadDay
  <2> QED
    BY <2>1, <2>2 DEF NoneJoins, InQueue, InQuota
<1>6. ASSUME NEW l \in Loops, FindJob(l) \/ Lease(l) \/ Write(l) \/ Mark(l) \/ Recover(l)
      PROVE  NoneJoins
  <2>1. \E to : Goto(l, to) /\ to \notin InQueue /\ now' = now
    BY <1>6 DEF FindJob, Lease, Write, Mark, Recover, Proceed, InQueue
  <2> QED
    BY <1>0, <2>1, LeavingNoneJoins
<1>7. ASSUME NEW r \in Requests, Arrive(r) \/ RequestStep(r)
      PROVE  NoneJoins
  BY <1>0, <1>2, <1>3, <1>4, <1>5, <1>7 DEF RequestStep, Inserts
<1>8. ASSUME NEW l \in Loops, LoopStep(l)
      PROVE  NoneJoins
  BY <1>0, <1>2, <1>3, <1>6, <1>8 DEF LoopStep
<1> QED
  BY <1>1, <1>7, <1>8 DEF Next

-----------------------------------------------------------------------------
(* The queue *)

LEMMA SeenIsWork ==
  ASSUME Typed, OneUncommitted, NEW r \in Requests
  PROVE  Seen(r) = work
  BY DEF Typed, DataTyped, OneUncommitted, Seen, SameProcess

LEMMA PastQueueSets == PastQueue \in SUBSET Requests /\ PastQueue' \in SUBSET Requests
  BY DEF PastQueue

LEMMA StepQueueBudget ==
  Typed /\ OneUncommitted /\ QueueBudget /\ [Next]_admissionVars => QueueBudget'
<1> SUFFICES ASSUME Typed, OneUncommitted, QueueBudget, [Next]_admissionVars
             PROVE  QueueBudget'
  OBVIOUS
<1>0. /\ work \in Tables /\ work' \in Tables /\ PcTyped
      /\ work.fresh \in Nat /\ work'.fresh \in Nat /\ work.again \in Nat
      /\ Cardinality(PastQueue) \in Nat /\ Cardinality(PastQueue') \in Nat
      /\ Cardinality(PastQueue') <= N
      /\ N \in Nat /\ QueueLimit \in Nat
  BY StepDataTyped, TableFields, PastQueueSets, SubsetOfRequests, Constants DEF Typed, DataTyped
<1>1. CASE \E r \in Requests : Inserts(r)
  <2>1. PICK r \in Requests : Inserts(r)
    BY <1>1
  <2>2. work'.fresh = work.fresh + 1
    BY <2>1, InsertTables
  <2>3. r \in PastQueue /\ PastQueue' \subseteq PastQueue \ {r}
    <3>1. pc[r] \in {"dating", "appending"} /\ Goto(r, "inserted")
      BY <2>1 DEF Inserts, InsertNext, InsertFirst
    <3> QED
      BY <1>0, <3>1 DEF PastQueue, Goto, PcTyped, Threads
  <2>4. Cardinality(PastQueue') + 1 <= Cardinality(PastQueue)
    <3>1. PastQueue \ {r} \in SUBSET Requests /\ PastQueue' \in SUBSET (PastQueue \ {r})
      BY <2>3, PastQueueSets
    <3>2. Cardinality(PastQueue') <= Cardinality(PastQueue \ {r})
      BY <3>1, SmallerSet
    <3>3. Cardinality(PastQueue \ {r}) + 1 = Cardinality(PastQueue)
      BY <2>3, PastQueueSets, WithoutOne
    <3>4. Cardinality(PastQueue \ {r}) \in Nat
      BY <3>1, SubsetOfRequests
    <3> QED
      BY <1>0, <3>2, <3>3, <3>4
  <2> QED
    BY <1>0, <2>2, <2>4 DEF QueueBudget, N
<1>2. CASE \E r \in Requests : CheckQueue(r)
  <2>1. PICK r \in Requests : CheckQueue(r)
    BY <1>2
  <2>2. work' = work
    BY <2>1 DEF CheckQueue
  <2>3. CASE QueueFull(Seen(r))
    <3>1. Goto(r, "idle")
      BY <2>1, <2>3 DEF CheckQueue
    <3>2. PastQueue' \in SUBSET PastQueue
      BY <1>0, <3>1 DEF PastQueue, Goto, PcTyped, Threads
    <3>3. Cardinality(PastQueue') <= Cardinality(PastQueue)
      BY <3>2, PastQueueSets, SmallerSet
    <3> QED
      BY <1>0, <2>2, <3>3 DEF QueueBudget, N
  <2>4. CASE ~QueueFull(Seen(r))
    <3>1. work.fresh < QueueLimit
      BY <1>0, <2>4, SeenIsWork DEF QueueFull, Queued
    <3> QED
      BY <1>0, <2>2, <3>1 DEF QueueBudget, N
  <2> QED
    BY <2>3, <2>4
<1>3. CASE ~\E r \in Requests : Inserts(r) \/ CheckQueue(r)
  <2>1. work'.fresh <= work.fresh
    BY <1>3, OthersOnlyTake, QuietTakes
  <2>2. PastQueue' \in SUBSET PastQueue
    <3>1. CASE \E r \in Requests : CheckChain(r)
      <4>1. PICK r \in Requests : CheckChain(r)
        BY <3>1
      <4>2. pc[r] = "chaining" /\ (Goto(r, "idle") \/ Goto(r, "first"))
        BY <4>1 DEF CheckChain
      <4> QED
        BY <1>0, <4>2 DEF PastQueue, Goto, PcTyped, Threads
    <3>2. CASE ~\E r \in Requests : CheckChain(r)
      BY <1>3, <3>2, OthersNoneJoins, NoneJoinsShrinks
    <3> QED
      BY <3>1, <3>2
  <2>3. Cardinality(PastQueue') <= Cardinality(PastQueue)
    BY <2>2, PastQueueSets, SmallerSet
  <2> QED
    BY <1>0, <2>1, <2>3 DEF QueueBudget, N
<1> QED
  BY <1>1, <1>2, <1>3

-----------------------------------------------------------------------------
(* The quota *)

LEMMA PastQuotaSets ==
  /\ PastQuota \in SUBSET Requests /\ PastQuota' \in SUBSET Requests
  /\ Cardinality(PastQuota) \in Nat /\ Cardinality(PastQuota) <= N
  /\ Cardinality(PastQuota') \in Nat /\ Cardinality(PastQuota') <= N
<1>1. PastQuota \in SUBSET Requests /\ PastQuota' \in SUBSET Requests
  BY DEF PastQuota
<1> QED
  BY <1>1, SubsetOfRequests

LEMMA ChangesTyped ==
  ASSUME DataTyped
  PROVE  Changes \in Nat /\ clock \in Nat /\ back \in Nat
  BY Constants DEF DataTyped, Changes

(* A change of the clock, and every step that is none *)
LEMMA ClockSteps ==
  ASSUME DataTyped, [Next]_admissionVars
  PROVE  \/ Tick /\ Changes' = Changes + 1
         \/ SetBack /\ Changes' = Changes + 1
         \/ UNCHANGED timeVars /\ Changes' = Changes
<1>1. clock \in Int /\ back \in Int /\ MinClock \in Int
  BY ChangesTyped, Constants
<1>2. CASE Tick \/ SetBack
  BY <1>1, <1>2 DEF Tick, SetBack, Changes
<1>3. CASE ~(Tick \/ SetBack)
  <2>1. ASSUME NEW t, Begin(t) \/ NestedBegin(t) \/ BusyBegin(t) \/ Fail(t)
        PROVE  UNCHANGED timeVars
    BY <2>1 DEF Begin, NestedBegin, BusyBegin, Fail
  <2>2. ASSUME NEW r, \/ Arrive(r) \/ LimitRate(r) \/ CheckQueue(r) \/ CheckChain(r)
                      \/ ReadDay(r) \/ InsertFirst(r) \/ InsertNext(r) \/ InsertCommit(r)
        PROVE  UNCHANGED timeVars
    BY <2>2 DEF Arrive, LimitRate, CheckQueue, CheckChain, ReadDay, InsertFirst, InsertNext,
       InsertCommit
  <2>3. ASSUME NEW l, FindJob(l) \/ Lease(l) \/ Write(l) \/ Mark(l) \/ Recover(l)
        PROVE  UNCHANGED timeVars
    BY <2>3 DEF FindJob, Lease, Write, Mark, Recover
  <2>4. UNCHANGED admissionVars => UNCHANGED timeVars
    BY DEF admissionVars, timeVars
  <2>5. UNCHANGED timeVars
    BY <1>3, <2>1, <2>2, <2>3, <2>4 DEF Next, RequestStep, LoopStep
  <2> QED
    BY <2>5 DEF timeVars, Changes
<1> QED
  BY <1>2, <1>3

LEMMA SameRow ==
  ASSUME NEW T, NEW U, Same(T, U)
  PROVE  T.begun = U.begun /\ Row(T) = Row(U)
  BY DEF Same, Row

(* A step that leaves chains and clock alone: a request whose second       *)
(* reading differs from the first still has the transaction open.          *)
LEMMA QuietUncounted ==
  ASSUME Typed, Typed', Uncounted, Quiet, UNCHANGED timeVars,
         \A r \in Requests : pc'[r] = "dating" =>
           \/ pc[r] = "dating" /\ now'[r] = now[r]
           \/ now'[r] = clock
  PROVE  Uncounted'
<1>1. Changes' = Changes /\ clock' = clock
  BY DEF timeVars, Changes
<1>2. CASE work' = work /\ db' = db
  BY <1>1, <1>2 DEF Uncounted, Row
<1>3. CASE work' = db' /\ lock' = NoThread /\ (Same(work', work) \/ Same(work', db))
  <2>1. \A r \in Requests : pc'[r] # "dating"
    BY <1>3, Constants DEF Typed, PcTyped, Held, Threads
  <2>2. \/ work'.begun = work.begun /\ Row(work') = Row(work)
        \/ work'.begun = db.begun /\ Row(work') = Row(db)
    BY <1>3, SameRow
  <2> QED
    BY <1>1, <1>3, <2>1, <2>2 DEF Uncounted, Row
<1> QED
  BY <1>2, <1>3 DEF Quiet

LEMMA StepUncounted ==
  Typed /\ OneUncommitted /\ Uncounted /\ [Next]_admissionVars => Uncounted'
<1> SUFFICES ASSUME Typed, OneUncommitted, Uncounted, [Next]_admissionVars
             PROVE  Uncounted'
  OBVIOUS
<1>0. /\ work \in Tables /\ db \in Tables /\ PcTyped /\ DataTyped /\ Typed'
      /\ Changes \in Nat /\ Requests \subseteq Threads /\ Loops \subseteq Threads
      /\ Requests \cap Loops = {}
      /\ now \in [Requests -> MinClock..MaxClock]
      /\ work.begun \in Nat /\ db.begun \in Nat /\ Row(work) \in Nat /\ Row(db) \in Nat
  BY StepPcTyped, StepDataTyped, TableFields, ChangesTyped, AdmissionAssumption
     DEF Typed, DataTyped, Threads
<1>1. CASE Tick \/ SetBack
  <2>1. work' = work /\ db' = db /\ pc' = pc /\ now' = now
    BY <1>1 DEF Tick, SetBack
  <2>2. Changes' = Changes + 1
    BY <1>0, <1>1, ClockSteps, ChangesTyped DEF Tick, SetBack, timeVars
  <2>3. Row(work') = Row(work) /\ Row(db') = Row(db)
    BY <2>1
  <2> QED
    BY <1>0, <2>1, <2>2, <2>3 DEF Uncounted
<1>2. ASSUME NEW r \in Requests, Inserts(r)
      PROVE  Uncounted'
  <2>1. db' = db /\ lock = r /\ lock' = r /\ pc'[r] = "inserted"
    BY <1>2, InsertTables
  <2>2. \A q \in Requests : pc'[q] # "dating"
    BY <1>0, <2>1 DEF Typed, PcTyped, Held
  <2>3. Changes' = Changes
    BY <1>2 DEF Inserts, InsertNext, InsertFirst, timeVars, Changes
  <2>4. CASE InsertNext(r)
    <3>1. Same(work', work)
      BY <1>0, <2>4 DEF InsertNext, Tables, Same
    <3> QED
      BY <2>1, <2>2, <2>3, <3>1, SameRow DEF Uncounted, Row
  <2>5. CASE InsertFirst(r)
    <3>1. /\ work'.begun = IF SameDay(clock, Watched) THEN work.begun + 1 ELSE work.begun
          /\ Row(work') = IF W \in Days /\ DayOf(now[r], clock) = W
                            THEN Row(work) + 1 ELSE Row(work)
      BY <1>0, <2>5, ChainAdded DEF InsertFirst
    <3>2. work'.begun <= Row(work') + Changes
      <4>1. CASE now[r] # clock
        <5>1. work.begun + 1 <= Row(work) + Changes
          BY <2>5, <4>1 DEF InsertFirst, Uncounted
        <5> QED
          BY <1>0, <3>1, <5>1
      <4>2. CASE now[r] = clock /\ SameDay(clock, Watched)
        <5>1. DayOf(clock, clock) = W /\ W \in Days
          BY <1>0, <4>2, NamedDays, Constants DEF SameDay, W, DataTyped
        <5> QED
          BY <1>0, <3>1, <4>2, <5>1 DEF Uncounted
      <4>3. CASE ~SameDay(clock, Watched)
        BY <1>0, <3>1, <4>3 DEF Uncounted
      <4> QED
        BY <4>1, <4>2, <4>3
    <3>3. Row(work)' = Row(work')
      BY DEF Row
    <3>4. Row(db)' = Row(db)
      BY <2>1
    <3> QED
      BY <2>1, <2>2, <2>3, <3>2, <3>3, <3>4 DEF Uncounted
  <2> QED
    BY <1>2, <2>4, <2>5 DEF Inserts
<1>3. CASE ~(Tick \/ SetBack) /\ ~\E r \in Requests : Inserts(r)
  <2>1. Quiet
    BY <1>3, OthersOnlyTake
  <2>2. UNCHANGED timeVars
    BY <1>0, <1>3, ClockSteps
  <2>3. ASSUME NEW q \in Requests, pc'[q] = "dating"
        PROVE  \/ pc[q] = "dating" /\ now'[q] = now[q]
               \/ now'[q] = clock
    <3>1. ASSUME NEW t \in Threads, NEW to, Goto(t, to), to # "dating", now' = now
          PROVE  pc[q] = "dating" /\ now'[q] = now[q]
      BY <1>0, <2>3, <3>1 DEF Goto, PcTyped
    <3>2. ASSUME NEW t \in Threads, Begin(t)
          PROVE  pc[q] = "dating" /\ now'[q] = now[q]
      <4>1. Inside[pc[t]] # "dating"
        BY <3>2 DEF Begin, Inside, Outside
      <4> QED
        BY <3>1, <3>2, <4>1 DEF Begin
    <3>3. ASSUME NEW t \in Threads, NestedBegin(t) \/ BusyBegin(t) \/ Fail(t)
          PROVE  pc[q] = "dating" /\ now'[q] = now[q]
      BY <3>1, <3>3 DEF NestedBegin, BusyBegin, Fail, Raise
    <3>4. ASSUME NEW r \in Requests, Arrive(r) \/ CheckQueue(r)
          PROVE  pc[q] = "dating" /\ now'[q] = now[q]
      BY <1>0, <2>3, <3>4 DEF Arrive, CheckQueue, Goto, PcTyped
    <3>5. ASSUME NEW r \in Requests, ReadDay(r)
          PROVE  \/ pc[q] = "dating" /\ now'[q] = now[q]
                 \/ now'[q] = clock
      BY <1>0, <2>3, <3>5 DEF ReadDay, Goto, PcTyped
    <3>6. ASSUME NEW r \in Requests, LimitRate(r) \/ CheckChain(r) \/ InsertCommit(r)
          PROVE  pc[q] = "dating" /\ now'[q] = now[q]
      BY <1>0, <3>1, <3>6 DEF LimitRate, CheckChain, InsertCommit
    <3>7. ASSUME NEW l \in Loops, FindJob(l) \/ Lease(l) \/ Write(l) \/ Mark(l) \/ Recover(l)
          PROVE  pc[q] = "dating" /\ now'[q] = now[q]
      BY <1>0, <3>1, <3>7 DEF FindJob, Lease, Write, Mark, Recover, Proceed
    <3>8. UNCHANGED admissionVars => pc[q] = "dating" /\ now'[q] = now[q]
      BY <2>3 DEF admissionVars
    <3>9. ASSUME NEW r \in Requests, Arrive(r) \/ RequestStep(r)
          PROVE  \/ pc[q] = "dating" /\ now'[q] = now[q]
                 \/ now'[q] = clock
      BY <1>0, <1>3, <3>2, <3>3, <3>4, <3>5, <3>6, <3>9 DEF RequestStep, Inserts
    <3>10. ASSUME NEW l \in Loops, LoopStep(l)
           PROVE  pc[q] = "dating" /\ now'[q] = now[q]
      BY <1>0, <3>2, <3>3, <3>7, <3>10 DEF LoopStep
    <3> QED
      BY <1>3, <3>8, <3>9, <3>10 DEF Next
  <2> QED
    BY <1>0, <2>1, <2>2, <2>3, QuietUncounted
<1> QED
  BY <1>1, <1>2, <1>3

(* Steps that begin no chain and leave the clock alone *)
LEMMA QuietQuota ==
  ASSUME Typed, QuotaBudget, work' \in Tables, UNCHANGED timeVars,
         work'.begun <= work.begun,
         \/ OnDay(clock) => PastQuota' \subseteq PastQuota
         \/ work'.begun - Changes < ChainLimit
  PROVE  QuotaBudget'
<1>0. Changes' = Changes /\ clock' = clock /\ back' = back
  BY DEF timeVars, Changes
<1> SUFFICES Within(clock, back, work'.begun - Changes, Cardinality(PastQuota'))
  BY <1>0 DEF QuotaBudget, Within, OnDay, W, DayOf
<1>1. /\ clock \in Nat /\ back \in Nat /\ Changes \in Nat
      /\ work.begun \in Nat /\ work'.begun \in Nat
  BY ChangesTyped, TableFields DEF Typed, DataTyped
<1>2. /\ Within(clock, back, work.begun - Changes, Cardinality(PastQuota))
      /\ work'.begun - Changes <= work.begun - Changes
      /\ work.begun - Changes \in Int /\ work'.begun - Changes \in Int
  BY <1>1 DEF QuotaBudget
<1>3. CASE work'.begun - Changes < ChainLimit
  BY <1>1, <1>2, <1>3, PastQuotaSets, WithinChecked
<1>4. CASE OnDay(clock) => PastQuota' \subseteq PastQuota
  <2>1. OnDay(clock) => Cardinality(PastQuota') <= Cardinality(PastQuota)
    BY <1>4, PastQuotaSets, SmallerSet
  <2> QED
    BY <1>1, <1>2, <2>1, PastQuotaSets, WithinFewer
<1> QED
  BY <1>3, <1>4

LEMMA InsertQuota ==
  ASSUME Typed, QuotaBudget, NEW r \in Requests, InsertFirst(r)
  PROVE  QuotaBudget'
<1>0. /\ PcTyped /\ r \in Threads /\ work \in Tables /\ work.begun \in Nat
      /\ clock \in Nat /\ back \in Nat /\ clock' = clock /\ back' = back
      /\ Changes \in Nat /\ Changes' = Changes
  BY ChangesTyped, TableFields DEF Typed, DataTyped, InsertFirst, Threads, timeVars, Changes
<1> SUFFICES Within(clock, back, work'.begun - Changes, Cardinality(PastQuota'))
  BY <1>0 DEF QuotaBudget, Within, OnDay, W, DayOf
<1>1. r \in PastQuota /\ PastQuota' \subseteq PastQuota \ {r}
  <2>1. pc[r] = "dating" /\ Goto(r, "inserted") /\ now' = now
    BY DEF InsertFirst
  <2>2. \A q \in Requests : pc'[q] = IF q = r THEN "inserted" ELSE pc[q]
    BY <1>0, <2>1 DEF Goto, PcTyped, Threads
  <2> QED
    BY <2>1, <2>2 DEF PastQuota, W
<1>2. PICK p \in Nat :
        p + 1 = Cardinality(PastQuota) /\ Cardinality(PastQuota') <= p /\ p + 1 <= N
  <2>1. PastQuota \ {r} \in SUBSET Requests /\ PastQuota' \in SUBSET (PastQuota \ {r})
    BY <1>1, PastQuotaSets
  <2>2. /\ Cardinality(PastQuota \ {r}) + 1 = Cardinality(PastQuota)
        /\ Cardinality(PastQuota') <= Cardinality(PastQuota \ {r})
        /\ Cardinality(PastQuota \ {r}) \in Nat
    BY <1>1, <2>1, PastQuotaSets, WithoutOne, SmallerSet, SubsetOfRequests
  <2> QED
    BY <2>2, PastQuotaSets
<1>3. PICK q \in Nat : q = Cardinality(PastQuota') /\ q <= p
  BY <1>2, PastQuotaSets
<1>4. PICK n \in Int : n = work.begun - Changes
  BY <1>0
<1>5. Within(clock, back, n, p + 1)
  BY <1>2, <1>4 DEF QuotaBudget
<1>6. work'.begun = IF SameDay(clock, Watched) THEN work.begun + 1 ELSE work.begun
  BY <1>0, ChainAdded DEF InsertFirst
<1>7. CASE SameDay(clock, Watched)
  <2>1. OnDay(clock)
    BY <1>0, <1>7, DayNamed DEF SameDay, W
  <2>2. Within(clock, back, n + 1, p)
    BY <1>0, <1>5, <2>1, WithinInsert
  <2>3. Within(clock, back, n + 1, q)
    BY <1>0, <1>3, <2>2, WithinFewer
  <2>4. work'.begun - Changes = n + 1
    BY <1>0, <1>4, <1>6, <1>7
  <2> QED
    BY <1>3, <2>3, <2>4
<1>8. CASE ~SameDay(clock, Watched)
  <2>1. Within(clock, back, n, q)
    BY <1>0, <1>3, <1>5, WithinFewer
  <2> QED
    BY <1>3, <1>4, <1>6, <1>8, <2>1
<1> QED
  BY <1>7, <1>8

LEMMA StepQuotaBudget ==
  Typed /\ OneUncommitted /\ Uncounted /\ QuotaBudget /\ [Next]_admissionVars => QuotaBudget'
<1> SUFFICES ASSUME Typed, OneUncommitted, Uncounted, QuotaBudget, [Next]_admissionVars
             PROVE  QuotaBudget'
  OBVIOUS
<1>0. /\ work \in Tables /\ work' \in Tables /\ PcTyped /\ DataTyped
      /\ clock \in Nat /\ back \in Nat /\ Changes \in Nat
      /\ work.begun \in Nat /\ work'.begun \in Nat /\ Requests \subseteq Threads
      /\ now \in [Requests -> MinClock..MaxClock]
  BY StepDataTyped, TableFields, ChangesTyped DEF Typed, DataTyped, Threads
<1>1. CASE Tick \/ SetBack
  <2>1. work' = work /\ pc' = pc /\ now' = now
    BY <1>1 DEF Tick, SetBack
  <2>2. PastQuota' = PastQuota
    BY <2>1 DEF PastQuota, W
  <2>3. PICK n \in Int : n = work.begun - Changes
    BY <1>0
  <2>4. /\ Within(clock + 1, back, n - 1, Cardinality(PastQuota))
        /\ Within(clock - 1, back + 1, n - 1, Cardinality(PastQuota))
    BY <1>0, <2>3, PastQuotaSets, WithinTick, WithinSetBack DEF QuotaBudget
  <2>5. Changes' = Changes + 1
    BY <1>0, <1>1, ClockSteps DEF Tick, SetBack, timeVars
  <2>6. work'.begun - Changes' = n - 1
    BY <1>0, <2>1, <2>3, <2>5
  <2>7. \/ clock' = clock + 1 /\ back' = back
        \/ clock' = clock - 1 /\ back' = back + 1
    BY <1>1 DEF Tick, SetBack
  <2>8. Within(clock', back', work'.begun - Changes', Cardinality(PastQuota'))
    BY <2>2, <2>4, <2>6, <2>7
  <2> QED
    BY <2>8 DEF QuotaBudget, Within, OnDay, W, DayOf
<1>2. ASSUME NEW r \in Requests, InsertFirst(r)
      PROVE  QuotaBudget'
  BY <1>2, InsertQuota
<1>3. ASSUME NEW r \in Requests, CheckQueue(r)
      PROVE  QuotaBudget'
  <2>1. /\ work' = work /\ UNCHANGED timeVars /\ now' = [now EXCEPT ![r] = clock]
        /\ \E to \in {"idle", "chain", "next"} : Goto(r, to)
    BY <1>3 DEF CheckQueue
  <2>2. ASSUME OnDay(clock)
        PROVE  PastQuota' \subseteq PastQuota
    <3>1. DayOf(clock, clock) = W
      BY <1>0, <2>2, DayNamed
    <3>2. r \notin PastQuota'
      BY <1>0, <2>1, <3>1 DEF PastQuota, Goto, PcTyped, W, DayOf
    <3>3. \A q \in Requests \ {r} : pc'[q] = pc[q] /\ now'[q] = now[q]
      BY <1>0, <2>1 DEF Goto, PcTyped
    <3> QED
      BY <3>2, <3>3 DEF PastQuota, W
  <2>3. work'.begun <= work.begun
    BY <1>0, <2>1
  <2> QED
    BY <1>0, <2>1, <2>2, <2>3, QuietQuota
<1>4. ASSUME NEW r \in Requests, CheckChain(r)
      PROVE  QuotaBudget'
  <2>1. /\ pc[r] = "chaining" /\ UNCHANGED timeVars /\ now' = now
        /\ \/ Goto(r, "idle")
           \/ Goto(r, "first") /\ work' = work /\ ~QuotaUsed(work, DayOf(now[r], now[r]))
    BY <1>4 DEF CheckChain, Commit
  <2>2. work'.begun <= work.begun
    <3>1. work' = work \/ work' = db
      BY <1>4 DEF CheckChain, Commit, Rollback
    <3> QED
      BY <1>0, <3>1 DEF OneUncommitted
  <2>3. PastQuota' \subseteq PastQuota \/ work'.begun - Changes < ChainLimit
    <3>1. \A q \in Requests \ {r} : pc'[q] = pc[q] /\ now'[q] = now[q]
      BY <1>0, <2>1 DEF Goto, PcTyped
    <3>2. CASE Goto(r, "idle")
      <4>1. pc'[r] = "idle"
        BY <1>0, <3>2 DEF Goto, PcTyped
      <4> QED
        BY <3>1, <4>1 DEF PastQuota, W
    <3>3. CASE DayOf(now[r], now[r]) # W
      BY <2>1, <3>1, <3>3 DEF PastQuota, W
    <3>4. CASE DayOf(now[r], now[r]) = W /\ work' = work /\ ~QuotaUsed(work, W)
      <4>1. W \in Days
        <5>1. now[r] \in 0..MaxClock
          BY <1>0, Constants
        <5> QED
          BY <3>4, <5>1, NamedDays
      <4>2. Row(work) < ChainLimit /\ Row(work) \in Nat
        BY <1>0, <3>4, <4>1, TableFields, Constants DEF QuotaUsed, Row
      <4>3. work.begun <= Row(work) + Changes
        BY DEF Uncounted
      <4> QED
        BY <1>0, <3>4, <4>2, <4>3, Constants
    <3> QED
      BY <2>1, <3>2, <3>3, <3>4
  <2> QED
    BY <1>0, <2>1, <2>2, <2>3, QuietQuota
<1>5. CASE /\ ~\E r \in Requests : CheckQueue(r) \/ CheckChain(r) \/ InsertFirst(r)
           /\ ~(Tick \/ SetBack)
  <2>1. PastQuota' \subseteq PastQuota
    BY <1>5, OthersNoneJoins, NoneJoinsShrinks
  <2>2. UNCHANGED timeVars
    BY <1>0, <1>5, ClockSteps
  <2>3. work'.begun <= work.begun
    <3>1. CASE \E r \in Requests : InsertNext(r)
      <4>1. work'.begun = work.begun
        BY <1>0, <3>1 DEF InsertNext, Tables
      <4> QED
        BY <1>0, <4>1
    <3>2. CASE ~\E r \in Requests : InsertNext(r)
      BY <1>5, <3>2, OthersOnlyTake, QuietTakes DEF Inserts
    <3> QED
      BY <3>1, <3>2
  <2> QED
    BY <1>0, <2>1, <2>2, <2>3, QuietQuota
<1> QED
  BY <1>1, <1>2, <1>3, <1>4, <1>5

-----------------------------------------------------------------------------
(* The rate limit.  While the clock is in the watched minute, only requests *)
(* stamped before can give the row to another minute and thereby the limit  *)
(* back, each of them once; when the clock has left, only requests stamped  *)
(* in that minute can still be granted in it.                               *)

Limiting == {"limit", "limiting"}

Stamped == {r \in Requests : pc[r] \in Limiting /\ MinuteOf(now[r]) = Watched}

Stray == {r \in Requests : pc[r] \in Limiting /\ MinuteOf(now[r]) # Watched}

(* What the row lets through before another minute takes it *)
Room(tables) ==
  IF tables.rate.window = Watched THEN RateLimit - tables.rate.count ELSE RateLimit

RateRow == db.rate = work.rate /\ Room(work) \in 0..RateLimit

(* Grants still possible while the clock stays, with a requests stamped in *)
(* the minute and b stamped in others, and room for m.                     *)
Inner(b, m) == IF b = N THEN RateLimit * N ELSE m + b * RateLimit

Outer(a, m) == IF a = N /\ m = 0 THEN N - 1 ELSE a

PerVisit == (RateLimit + 1) * N - 1

During(c) == Watched <= c /\ c < Watched + Minute

(* At time c, after k settings back and g grants *)
Allowed(c, k, g, a, b, m) ==
  /\ c < Watched => g + Outer(a, m) <= k * PerVisit
  /\ During(c) => g + Inner(b, m) <= k * PerVisit + RateLimit * N
  /\ c >= Watched + Minute => g + Outer(a, m) <= k * PerVisit + PerVisit

RateBudget ==
  Allowed(clock, back, granted, Cardinality(Stamped), Cardinality(Stray), Room(work))

RateInv == RateRow /\ RateBudget

LEMMA OuterBound ==
  ASSUME NEW a \in 0..N, NEW m \in Nat
  PROVE  /\ N \in Nat \ {0}
         /\ Outer(a, m) \in Nat /\ Outer(a, m) <= a
         /\ a < N \/ m > 0 => Outer(a, m) = a
         /\ a = N /\ m = 0 => Outer(a, m) = N - 1
<1>1. N \in Nat \ {0}
  BY Constants, AdmissionAssumption, FS_EmptySet DEF N
<1> QED
  BY <1>1 DEF Outer

LEMMA Visits ==
  /\ N \in Nat \ {0} /\ RateLimit * N \in Nat
  /\ PerVisit = RateLimit * N + N - 1 /\ PerVisit \in Nat
  /\ \A k \in Nat : k * PerVisit \in Nat /\ (k + 1) * PerVisit = k * PerVisit + PerVisit
<1>1. N \in Nat \ {0}
  BY Constants, AdmissionAssumption, FS_EmptySet DEF N
<1>2. RateLimit \in Nat \ {0}
  BY Constants
<1>3. RateLimit * N \in Nat /\ (RateLimit + 1) * N = RateLimit * N + N
  BY <1>1, <1>2
<1>4. PerVisit = RateLimit * N + N - 1 /\ PerVisit \in Nat
  BY <1>1, <1>3 DEF PerVisit
<1> HIDE DEF PerVisit
<1>5. \A k \in Nat : k * PerVisit \in Nat /\ (k + 1) * PerVisit = k * PerVisit + PerVisit
  BY <1>4
<1> QED
  BY <1>1, <1>3, <1>4, <1>5

LEMMA Refills ==
  ASSUME NEW b \in Nat, NEW d \in Nat, d <= b
  PROVE  /\ b * RateLimit \in Nat /\ d * RateLimit \in Nat
         /\ d * RateLimit <= b * RateLimit
         /\ d < b => d * RateLimit + RateLimit <= b * RateLimit
<1>1. RateLimit \in Nat
  BY Constants
<1>2. PICK e \in Nat : b = d + e
  <2>1. b - d \in Nat /\ b = d + (b - d)
    OBVIOUS
  <2> QED
    BY <2>1
<1>3. b * RateLimit = d * RateLimit + e * RateLimit
  BY <1>1, <1>2
<1>4. e * RateLimit \in Nat /\ (e >= 1 => e * RateLimit >= RateLimit)
  BY <1>1
<1> QED
  BY <1>1, <1>2, <1>3, <1>4

LEMMA InnerBound ==
  ASSUME NEW b \in 0..N, NEW m \in 0..RateLimit
  PROVE  Inner(b, m) \in Nat /\ Inner(b, m) <= RateLimit * N
<1>1. b \in Nat /\ N \in Nat /\ RateLimit \in Nat /\ m \in Nat /\ m <= RateLimit
      /\ N * RateLimit = RateLimit * N
  BY Visits, Constants
<1>2. b < N => b * RateLimit + RateLimit <= RateLimit * N
  BY <1>1, Refills
<1>3. b * RateLimit \in Nat /\ RateLimit * N \in Nat
  BY <1>1, Refills, Visits
<1> QED
  BY <1>1, <1>2, <1>3 DEF Inner

(* Fewer that can take from the row, or give it back *)
LEMMA AllowedFewer ==
  ASSUME NEW c \in Nat, NEW k \in Nat, NEW g \in Nat, NEW a \in 0..N, NEW b \in 0..N,
         NEW m \in 0..RateLimit, Allowed(c, k, g, a, b, m),
         NEW d \in 0..N, NEW e \in 0..N,
         During(c) => e <= b, ~During(c) => d <= a
  PROVE  Allowed(c, k, g, d, e, m)
<1>1. During(c) => Inner(e, m) <= Inner(b, m)
  <2>1. CASE b = N
    BY <2>1, InnerBound DEF Inner
  <2>2. CASE b # N /\ e <= b
    <3>1. e * RateLimit <= b * RateLimit /\ e * RateLimit \in Nat /\ b * RateLimit \in Nat
      BY <2>2, Refills
    <3> QED
      BY <2>2, <3>1, Constants DEF Inner
  <2> QED
    BY <2>1, <2>2
<1>2. ~During(c) => Outer(d, m) <= Outer(a, m)
  <2>1. N \in Nat \ {0} /\ m \in Nat
    BY OuterBound, Constants
  <2>2. CASE a = N /\ m = 0 /\ d < N
    <3>1. Outer(a, m) = N - 1 /\ Outer(d, m) = d
      BY <2>1, <2>2, OuterBound
    <3> QED
      BY <2>1, <2>2, <3>1
  <2>3. CASE a < N \/ m > 0
    <3>1. Outer(a, m) = a /\ Outer(d, m) <= d /\ Outer(d, m) \in Nat
      BY <2>1, <2>3, OuterBound
    <3> QED
      BY <2>1, <3>1
  <2>4. CASE a = N /\ m = 0 /\ d = N
    BY <2>1, <2>4, OuterBound
  <2>5. a <= N /\ d <= N /\ a \in Nat /\ d \in Nat
    BY <2>1
  <2>6. ~During(c) => (a = N /\ m = 0 /\ d < N) \/ (a < N \/ m > 0) \/ (a = N /\ m = 0 /\ d = N)
    BY <2>1, <2>5
  <2> QED
    BY <2>2, <2>3, <2>4, <2>6
<1>3. /\ Inner(e, m) \in Nat /\ Inner(b, m) \in Nat
      /\ Outer(d, m) \in Nat /\ Outer(a, m) \in Nat
      /\ k * PerVisit \in Nat /\ PerVisit \in Nat /\ RateLimit * N \in Nat
  BY InnerBound, OuterBound, Visits, Constants
<1>4. Watched \in Nat /\ Minute \in Nat /\ Minute > 0
  BY AdmissionAssumption
<1> QED
  BY <1>1, <1>2, <1>3, <1>4 DEF Allowed, During

(* A request stamped in another minute takes the row. *)
LEMMA AllowedStray ==
  ASSUME NEW c \in Nat, NEW k \in Nat, NEW g \in Nat, NEW a \in 0..N, NEW b \in 0..N,
         NEW m \in 0..RateLimit, Allowed(c, k, g, a, b, m),
         NEW d \in 0..N, NEW e \in 0..N, d <= a, a < N, e < b
  PROVE  Allowed(c, k, g, d, e, RateLimit)
<1>1. Inner(e, RateLimit) <= Inner(b, m)
  <2>1. CASE b = N
    BY <2>1, InnerBound, Constants DEF Inner
  <2>2. CASE b # N
    <3>1. e * RateLimit + RateLimit <= b * RateLimit
          /\ e * RateLimit \in Nat /\ b * RateLimit \in Nat
      BY Refills
    <3> QED
      BY <2>2, <3>1, Constants DEF Inner
  <2> QED
    BY <2>1, <2>2
<1>2. Outer(d, RateLimit) <= Outer(a, m)
  <2>1. N \in Nat \ {0} /\ m \in Nat /\ RateLimit \in Nat
    BY OuterBound, Constants
  <2> QED
    BY <2>1, OuterBound
<1>3. /\ Inner(e, RateLimit) \in Nat /\ Inner(b, m) \in Nat
      /\ Outer(d, RateLimit) \in Nat /\ Outer(a, m) \in Nat
      /\ k * PerVisit \in Nat /\ PerVisit \in Nat /\ RateLimit * N \in Nat
  BY InnerBound, OuterBound, Visits, Constants
<1> QED
  BY <1>1, <1>2, <1>3 DEF Allowed

(* A request stamped in the minute is granted. *)
LEMMA AllowedGrant ==
  ASSUME NEW c \in Nat, NEW k \in Nat, NEW g \in Nat, NEW a \in 0..N, NEW b \in 0..N,
         NEW m \in 0..RateLimit, Allowed(c, k, g, a, b, m),
         NEW d \in 0..N, NEW e \in 0..N, d < a, e <= b, b < N, m > 0
  PROVE  Allowed(c, k, g + 1, d, e, m - 1)
<1>0. m - 1 \in 0..RateLimit
  BY Constants
<1>1. Inner(e, m - 1) + 1 <= Inner(b, m)
  <2>1. e * RateLimit <= b * RateLimit /\ e * RateLimit \in Nat /\ b * RateLimit \in Nat
    BY Refills
  <2> QED
    BY <2>1, Constants DEF Inner
<1>2. Outer(d, m - 1) + 1 <= Outer(a, m)
  <2>1. N \in Nat \ {0} /\ m \in Nat /\ m - 1 \in Nat
    BY OuterBound, Constants
  <2> QED
    BY <2>1, OuterBound
<1>3. /\ Inner(e, m - 1) \in Nat /\ Inner(b, m) \in Nat
      /\ Outer(d, m - 1) \in Nat /\ Outer(a, m) \in Nat
      /\ k * PerVisit \in Nat /\ PerVisit \in Nat /\ RateLimit * N \in Nat
  BY <1>0, InnerBound, OuterBound, Visits, Constants
<1> QED
  BY <1>1, <1>2, <1>3 DEF Allowed

(* The clock enters the minute, or leaves it. *)
LEMMA AllowedTimes ==
  ASSUME NEW c \in Nat, NEW k \in Nat, NEW g \in Nat, NEW a \in 0..N, NEW b \in 0..N,
         NEW m \in 0..RateLimit, Allowed(c, k, g, a, b, m), a = N => b = 0
  PROVE  Allowed(c + 1, k, g, a, b, m) /\ Allowed(c - 1, k + 1, g, a, b, m)
<1>1. /\ Inner(b, m) \in Nat /\ Inner(b, m) <= RateLimit * N
      /\ k * PerVisit \in Nat /\ PerVisit \in Nat /\ RateLimit * N \in Nat
      /\ PerVisit = RateLimit * N + N - 1
      /\ (k + 1) * PerVisit = k * PerVisit + PerVisit
      /\ Watched \in Nat /\ Minute \in Nat /\ Minute > 0
  BY InnerBound, Visits, AdmissionAssumption
<1>2. Outer(a, m) \in Nat /\ Outer(a, m) <= Inner(b, m) + N - 1
  <2>1. CASE a = N
    <3>1. Inner(b, m) = m /\ m \in Nat
      BY <2>1, Visits, Constants DEF Inner
    <3>2. N \in Nat \ {0} /\ Outer(a, m) \in Nat
      BY <3>1, OuterBound
    <3>3. CASE m = 0
      <4>1. Outer(a, m) = N - 1
        BY <2>1, <3>1, <3>3, OuterBound
      <4> QED
        BY <3>1, <3>2, <3>3, <4>1
    <3>4. CASE m > 0
      <4>1. Outer(a, m) = N
        BY <2>1, <3>1, <3>4, OuterBound
      <4> QED
        BY <3>1, <3>2, <3>4, <4>1
    <3> QED
      BY <3>1, <3>3, <3>4
  <2>2. CASE a # N
    <3>1. m \in Nat /\ N \in Nat /\ a \in Nat /\ a < N
      BY <2>2, Constants
    <3>2. Outer(a, m) = a
      BY <3>1, OuterBound
    <3> QED
      BY <1>1, <3>1, <3>2
  <2> QED
    BY <2>1, <2>2
<1>3. PICK q \in Nat, v \in Nat, x \in Nat, i \in Nat, o \in Nat :
        /\ q = k * PerVisit /\ v = PerVisit /\ x = RateLimit * N
        /\ i = Inner(b, m) /\ o = Outer(a, m)
  BY <1>1, <1>2
<1>4. i <= x /\ v = x + N - 1 /\ o <= i + N - 1 /\ (k + 1) * PerVisit = q + v
  BY <1>1, <1>2, <1>3
<1>5. /\ c < Watched => g + o <= q
      /\ During(c) => g + i <= q + x
      /\ c >= Watched + Minute => g + o <= q + v
  BY <1>3 DEF Allowed
<1>6. N \in Nat /\ N > 0
  BY Visits
<1>7. Allowed(c + 1, k, g, a, b, m)
  <2>1. /\ c + 1 < Watched => g + o <= q
        /\ During(c + 1) => g + i <= q + x
        /\ c + 1 >= Watched + Minute => g + o <= q + v
    BY <1>1, <1>4, <1>5, <1>6 DEF During
  <2> QED
    BY <1>3, <2>1 DEF Allowed
<1>8. Allowed(c - 1, k + 1, g, a, b, m)
  <2>1. /\ c - 1 < Watched => g + o <= q + v
        /\ During(c - 1) => g + i <= q + v + x
        /\ c - 1 >= Watched + Minute => g + o <= q + v + v
    BY <1>1, <1>4, <1>5, <1>6 DEF During
  <2> QED
    BY <1>3, <1>4, <2>1 DEF Allowed
<1> QED
  BY <1>7, <1>8

(* Threads and rows *)

LEMMA LimitingSets ==
  /\ Stamped \in SUBSET Requests /\ Stray \in SUBSET Requests
  /\ Stamped' \in SUBSET Requests /\ Stray' \in SUBSET Requests
  /\ Cardinality(Stamped) \in 0..N /\ Cardinality(Stray) \in 0..N
  /\ Cardinality(Stamped') \in 0..N /\ Cardinality(Stray') \in 0..N
<1>1. /\ Stamped \in SUBSET Requests /\ Stray \in SUBSET Requests
      /\ Stamped' \in SUBSET Requests /\ Stray' \in SUBSET Requests
  BY DEF Stamped, Stray
<1>2. \A S \in SUBSET Requests : Cardinality(S) \in 0..N
  BY SubsetOfRequests, Constants
<1> QED
  BY <1>1, <1>2

(* A set of requests that misses one has less than N. *)
LEMMA MissesOne ==
  ASSUME NEW S \in SUBSET Requests, NEW r \in Requests, r \notin S
  PROVE  Cardinality(S) < N
<1>1. S \in SUBSET (Requests \ {r}) /\ Requests \ {r} \in SUBSET Requests
  OBVIOUS
<1>2. Cardinality(Requests \ {r}) + 1 = N
  BY WithoutOne DEF N
<1> QED
  BY <1>1, <1>2, SmallerSet, SubsetOfRequests

LEMMA LosesOne ==
  ASSUME NEW S \in SUBSET Requests, NEW r \in S, NEW T \in SUBSET (S \ {r})
  PROVE  Cardinality(T) < Cardinality(S)
<1>1. S \ {r} \in SUBSET Requests
  OBVIOUS
<1>2. Cardinality(S \ {r}) + 1 = Cardinality(S)
  BY WithoutOne
<1>3. Cardinality(T) <= Cardinality(S \ {r})
  BY <1>1, SmallerSet
<1>4. Cardinality(T) \in Nat /\ Cardinality(S) \in Nat /\ Cardinality(S \ {r}) \in Nat
  BY <1>1, SubsetOfRequests
<1> QED
  BY <1>2, <1>3, <1>4

(* No request reads the clock for the limit, and those that have keep it. *)
NoneArrives ==
  \A q \in Requests : pc'[q] \in Limiting => pc[q] \in Limiting /\ now'[q] = now[q]

RateKept == granted' = granted /\ work'.rate = work.rate /\ db'.rate = db.rate

LEMMA AwayNoneArrives ==
  ASSUME PcTyped, NEW t \in Threads, NEW to, Goto(t, to), to \notin Limiting,
         \A q \in Requests \ {t} : now'[q] = now[q]
  PROVE  NoneArrives
<1>1. \A q \in Requests : pc'[q] = IF q = t THEN to ELSE pc[q]
  BY DEF Goto, PcTyped, Threads
<1> QED
  BY <1>1 DEF NoneArrives

LEMMA OthersNoneArrives ==
  ASSUME Typed, [Next]_admissionVars, ~\E r \in Requests : Arrive(r)
  PROVE  NoneArrives
<1>0. PcTyped /\ Requests \subseteq Threads /\ Loops \subseteq Threads /\ Requests \cap Loops = {}
      /\ now \in [Requests -> MinClock..MaxClock]
  BY AdmissionAssumption DEF Typed, DataTyped, Threads
<1>1. CASE UNCHANGED admissionVars \/ Tick \/ SetBack
  BY <1>1 DEF admissionVars, Tick, SetBack, NoneArrives
<1>2. ASSUME NEW t \in Threads, Begin(t)
      PROVE  NoneArrives
  <2>1. pc[t] \in Outside /\ now' = now
    BY <1>2 DEF Begin
  <2>2. \A q \in Requests : pc'[q] = IF q = t THEN Inside[pc[t]] ELSE pc[q]
    BY <1>0, <1>2 DEF Begin, Goto, PcTyped
  <2>3. Inside[pc[t]] \in Limiting => pc[t] \in Limiting
    BY <2>1 DEF Inside, Outside, Limiting
  <2> QED
    BY <2>1, <2>2, <2>3 DEF NoneArrives
<1>3. ASSUME NEW t \in Threads, NestedBegin(t) \/ BusyBegin(t) \/ Fail(t)
      PROVE  NoneArrives
  <2>1. \E to : Goto(t, to) /\ to \notin Limiting /\ now' = now
    BY <1>3 DEF NestedBegin, BusyBegin, Fail, Raise, Limiting
  <2> QED
    BY <1>0, <2>1, AwayNoneArrives
<1>4. ASSUME NEW r \in Requests,
             LimitRate(r) \/ CheckQueue(r) \/ CheckChain(r) \/ ReadDay(r) \/ Inserts(r)
             \/ InsertCommit(r)
      PROVE  NoneArrives
  <2>1. \E to : Goto(r, to) /\ to \notin Limiting
    BY <1>4 DEF LimitRate, CheckQueue, CheckChain, ReadDay, Inserts, InsertNext, InsertFirst,
       InsertCommit, Limiting
  <2>2. \A q \in Requests \ {r} : now'[q] = now[q]
    BY <1>0, <1>4 DEF LimitRate, CheckQueue, CheckChain, ReadDay, Inserts, InsertNext,
       InsertFirst, InsertCommit
  <2> QED
    BY <1>0, <2>1, <2>2, AwayNoneArrives
<1>5. ASSUME NEW l \in Loops, FindJob(l) \/ Lease(l) \/ Write(l) \/ Mark(l) \/ Recover(l)
      PROVE  NoneArrives
  <2>1. \E to : Goto(l, to) /\ to \notin Limiting /\ now' = now
    BY <1>5 DEF FindJob, Lease, Write, Mark, Recover, Proceed, Limiting
  <2> QED
    BY <1>0, <2>1, AwayNoneArrives
<1>6. ASSUME NEW r \in Requests, RequestStep(r)
      PROVE  NoneArrives
  BY <1>0, <1>2, <1>3, <1>4, <1>6 DEF RequestStep, Inserts
<1>7. ASSUME NEW l \in Loops, LoopStep(l)
      PROVE  NoneArrives
  BY <1>0, <1>2, <1>3, <1>5, <1>7 DEF LoopStep
<1> QED
  BY <1>1, <1>6, <1>7 DEF Next

LEMMA OthersKeepRate ==
  ASSUME Typed, RateRow, [Next]_admissionVars, ~\E r \in Requests : LimitRate(r)
  PROVE  RateKept
<1>0. work \in Tables /\ db \in Tables /\ work.rate = db.rate
  BY DEF Typed, DataTyped, RateRow
<1>1. CASE UNCHANGED <<db, work, granted>>
  BY <1>1 DEF RateKept
<1>2. ASSUME NEW t, Commit(t, work) \/ Rollback(t), granted' = granted
      PROVE  RateKept
  BY <1>0, <1>2 DEF Commit, Rollback, RateKept
<1>3. ASSUME NEW r \in Requests, Inserts(r)
      PROVE  RateKept
  <2>1. CASE InsertNext(r)
    BY <1>0, <2>1 DEF InsertNext, RateKept, Tables
  <2>2. CASE InsertFirst(r)
    <3>1. work'.rate = work.rate
      BY <1>0, <2>2, ChainAdded DEF InsertFirst
    <3> QED
      BY <2>2, <3>1 DEF InsertFirst, RateKept
  <2> QED
    BY <1>3, <2>1, <2>2 DEF Inserts
<1>4. ASSUME NEW l \in Loops, Lease(l)
      PROVE  RateKept
  BY <1>0, <1>4 DEF Lease, Commit, Rollback, RateKept, Tables
<1>5. ASSUME NEW l \in Loops, Recover(l)
      PROVE  RateKept
  BY <1>0, <1>5 DEF Recover, Commit, Rollback, RateKept, Tables
<1>6. ASSUME NEW t \in Threads, Begin(t) \/ NestedBegin(t) \/ BusyBegin(t) \/ Fail(t)
      PROVE  RateKept
  BY <1>0, <1>6 DEF Begin, NestedBegin, BusyBegin, Fail, Rollback, RateKept
<1>7. ASSUME NEW r \in Requests, Arrive(r) \/ CheckQueue(r) \/ ReadDay(r)
      PROVE  UNCHANGED <<db, work, granted>>
  BY <1>7 DEF Arrive, CheckQueue, ReadDay
<1>8. ASSUME NEW r \in Requests, CheckChain(r) \/ InsertCommit(r)
      PROVE  (Commit(r, work) \/ Rollback(r)) /\ granted' = granted
  BY <1>8 DEF CheckChain, InsertCommit
<1>9. ASSUME NEW l \in Loops, FindJob(l) \/ Mark(l)
      PROVE  UNCHANGED <<db, work, granted>>
  BY <1>9 DEF FindJob, Mark
<1>10. ASSUME NEW l \in Loops, Write(l)
       PROVE  (Commit(l, work) \/ Rollback(l)) /\ granted' = granted
  BY <1>10 DEF Write
<1>11. ASSUME NEW r \in Requests, Arrive(r) \/ RequestStep(r)
       PROVE  RateKept
  BY <1>1, <1>2, <1>3, <1>6, <1>7, <1>8, <1>11 DEF RequestStep, Inserts, Threads
<1>12. ASSUME NEW l \in Loops, LoopStep(l)
       PROVE  RateKept
  BY <1>1, <1>2, <1>4, <1>5, <1>6, <1>9, <1>10, <1>12 DEF LoopStep, Threads
<1>13. UNCHANGED admissionVars \/ Tick \/ SetBack => UNCHANGED <<db, work, granted>>
  BY DEF admissionVars, Tick, SetBack
<1> QED
  BY <1>1, <1>11, <1>12, <1>13 DEF Next

(* A time names the watched minute exactly while it is in it. *)
LEMMA MinuteNamed ==
  ASSUME NEW t \in Nat
  PROVE  MinuteOf(t) = Watched <=> During(t)
<1>1. Watched \in Nat /\ Watched % Minute = 0 /\ Minute \in Nat \ {0}
  BY AdmissionAssumption
<1>2. t % Minute \in 0..(Minute - 1) /\ t = Minute * (t \div Minute) + (t % Minute)
      /\ t \div Minute \in Nat
  BY <1>1
<1>3. Watched = Minute * (Watched \div Minute) /\ Watched \div Minute \in Nat
  BY <1>1
<1>4. PICK j \in Nat, k \in Nat, m \in 0..(Minute - 1) :
        t = Minute * j + m /\ m = t % Minute /\ Watched = Minute * k
  BY <1>2, <1>3
<1>5. MinuteOf(t) = Minute * j
  BY <1>1, <1>4 DEF MinuteOf
<1>6. CASE j = k
  BY <1>1, <1>4, <1>5, <1>6 DEF During
<1>7. CASE j < k
  <2>1. Minute * (j + 1) <= Minute * k /\ Minute * (j + 1) = Minute * j + Minute
    BY <1>1, <1>7
  <2> QED
    BY <1>1, <1>4, <1>5, <2>1 DEF During
<1>8. CASE j > k
  <2>1. Minute * (k + 1) <= Minute * j /\ Minute * (k + 1) = Minute * k + Minute
    BY <1>1, <1>8
  <2> QED
    BY <1>1, <1>4, <1>5, <2>1 DEF During
<1> QED
  BY <1>4, <1>6, <1>7, <1>8

(* The row after a submission is let through *)
LEMMA CountedRoom ==
  ASSUME Typed, RateRow, NEW r \in Requests, LimitRate(r), ~AtLimit(work, MinuteOf(now[r]))
  PROVE  /\ db'.rate = work'.rate
         /\ MinuteOf(now[r]) = Watched =>
              Room(work) > 0 /\ Room(work)' = Room(work) - 1 /\ granted' = granted + 1
         /\ MinuteOf(now[r]) # Watched => Room(work)' = RateLimit /\ granted' = granted
<1> DEFINE m == MinuteOf(now[r])
<1>1. /\ work \in Tables /\ now[r] \in MinClock..MaxClock /\ m \in 0..MaxClock
      /\ RateLimit \in Nat \ {0} /\ work.rate.count \in Nat
      /\ Room(work) \in 0..RateLimit
  BY MinuteTyped, TableFields, Constants DEF Typed, DataTyped, RateRow
<1> HIDE DEF m
<1>2. db' = [work EXCEPT !.rate = Counted(work, m)] /\ work' = db'
      /\ granted' = IF m = Watched THEN granted + 1 ELSE granted
  BY DEF LimitRate, Commit, m
<1>3. work'.rate = Counted(work, m) /\ db'.rate = work'.rate
  BY <1>1, <1>2 DEF Tables
<1>4. CASE m = Watched
  <2>1. CASE work.rate.window = Watched
    <3>1. work'.rate = [window |-> m, count |-> work.rate.count + 1]
      BY <1>3, <1>4, <2>1 DEF Counted
    <3>2. work.rate.count < RateLimit
      BY <1>1, <1>4, <2>1 DEF AtLimit, m
    <3>3. Room(work) = RateLimit - work.rate.count
      BY <2>1 DEF Room
    <3>4. Room(work)' = RateLimit - (work.rate.count + 1)
      BY <1>4, <3>1 DEF Room
    <3> QED
      BY <1>1, <1>2, <1>3, <1>4, <3>2, <3>3, <3>4 DEF m
  <2>2. CASE work.rate.window # Watched
    <3>1. work'.rate = [window |-> m, count |-> 1]
      BY <1>3, <1>4, <2>2 DEF Counted
    <3>2. Room(work) = RateLimit /\ Room(work)' = RateLimit - 1
      BY <1>4, <2>2, <3>1 DEF Room
    <3> QED
      BY <1>1, <1>2, <1>3, <1>4, <3>2 DEF m
  <2> QED
    BY <2>1, <2>2
<1>5. CASE m # Watched
  <2>1. work'.rate.window = m
    BY <1>3 DEF Counted
  <2> QED
    BY <1>2, <1>3, <1>5, <2>1 DEF Room, m
<1> QED
  BY <1>4, <1>5

LEMMA StepLimitRate ==
  ASSUME Typed, RateInv, NEW r \in Requests, LimitRate(r)
  PROVE  RateInv'
<1> DEFINE a == Cardinality(Stamped)
           b == Cardinality(Stray)
           d == Cardinality(Stamped')
           e == Cardinality(Stray')
           m == Room(work)
<1>0. /\ PcTyped /\ r \in Threads /\ clock \in Nat /\ back \in Nat /\ granted \in Nat
      /\ UNCHANGED <<clock, back, now>> /\ pc[r] = "limiting"
      /\ \E to \in {"idle", "queue"} : Goto(r, to)
      /\ db.rate = work.rate
      /\ Allowed(clock, back, granted, a, b, m) /\ m \in 0..RateLimit
  BY Constants DEF Typed, DataTyped, LimitRate, timeVars, Threads, RateInv, RateRow, RateBudget
<1>1. Stamped' \subseteq Stamped \ {r} /\ Stray' \subseteq Stray \ {r}
  <2>1. \A q \in Requests \ {r} : pc'[q] = pc[q]
    BY <1>0 DEF Goto, PcTyped, Threads
  <2>2. pc'[r] \notin Limiting
    BY <1>0 DEF Goto, PcTyped, Limiting
  <2> QED
    BY <1>0, <2>1, <2>2 DEF Stamped, Stray
<1>2. a \in 0..N /\ b \in 0..N /\ d \in 0..N /\ e \in 0..N /\ d <= a /\ e <= b
  BY <1>1, LimitingSets, SmallerSet
<1> HIDE DEF a, b, d, e, m
<1> SUFFICES /\ db'.rate = work'.rate /\ Room(work)' \in 0..RateLimit
             /\ Allowed(clock, back, granted', d, e, Room(work)')
  BY <1>0 DEF RateInv, RateRow, RateBudget, d, e, Allowed, During
<1>3. CASE AtLimit(work, MinuteOf(now[r]))
  <2>1. work' = db /\ db' = db /\ granted' = granted
    BY <1>3 DEF LimitRate, Rollback
  <2>2. Room(work)' = m
    BY <1>0, <2>1 DEF Room, m
  <2>3. Allowed(clock, back, granted, d, e, m)
    BY <1>0, <1>2, AllowedFewer
  <2> QED
    BY <1>0, <2>1, <2>2, <2>3
<1>4. CASE ~AtLimit(work, MinuteOf(now[r])) /\ MinuteOf(now[r]) = Watched
  <2>1. /\ db'.rate = work'.rate /\ granted' = granted + 1
        /\ m > 0 /\ Room(work)' = m - 1
    BY <1>4, CountedRoom DEF RateInv, m
  <2>2. r \in Stamped /\ r \notin Stray
    BY <1>0, <1>4 DEF Stamped, Stray, Limiting
  <2>3. d < a /\ b < N
    BY <1>1, <2>2, LimitingSets, LosesOne, MissesOne DEF a, b, d
  <2>4. Allowed(clock, back, granted + 1, d, e, m - 1)
    BY <1>0, <1>2, <2>1, <2>3, AllowedGrant
  <2>5. m - 1 \in 0..RateLimit
    BY <1>0, <2>1, Constants
  <2> QED
    BY <2>1, <2>4, <2>5
<1>5. CASE ~AtLimit(work, MinuteOf(now[r])) /\ MinuteOf(now[r]) # Watched
  <2>1. db'.rate = work'.rate /\ granted' = granted /\ Room(work)' = RateLimit
    BY <1>5, CountedRoom DEF RateInv
  <2>2. r \in Stray /\ r \notin Stamped
    BY <1>0, <1>5 DEF Stamped, Stray, Limiting
  <2>3. e < b /\ a < N
    BY <1>1, <2>2, LimitingSets, LosesOne, MissesOne DEF a, b, e
  <2>4. Allowed(clock, back, granted, d, e, RateLimit)
    BY <1>0, <1>2, <2>3, AllowedStray
  <2>5. RateLimit \in 0..RateLimit
    BY Constants
  <2> QED
    BY <2>1, <2>4, <2>5
<1> QED
  BY <1>3, <1>4, <1>5

(* Everything else leaves the row alone, and a request that arrives while  *)
(* the clock is in the minute is stamped in it.                            *)
LEMMA StepRateRest ==
  ASSUME Typed, RateInv, [Next]_admissionVars, ~\E r \in Requests : LimitRate(r)
  PROVE  RateInv'
<1> DEFINE a == Cardinality(Stamped)
           b == Cardinality(Stray)
           d == Cardinality(Stamped')
           e == Cardinality(Stray')
           m == Room(work)
<1>0. /\ PcTyped /\ clock \in Nat /\ back \in Nat /\ granted \in Nat
      /\ Allowed(clock, back, granted, a, b, m) /\ m \in 0..RateLimit
      /\ now \in [Requests -> MinClock..MaxClock] /\ MinClock \in Nat
      /\ Requests \subseteq Threads
  BY Constants DEF Typed, DataTyped, RateInv, RateRow, RateBudget, Threads
<1>1. RateKept
  BY OthersKeepRate DEF RateInv
<1>2. /\ During(clock) => Stray' \subseteq Stray
      /\ ~During(clock) => Stamped' \subseteq Stamped
  <2>1. CASE NoneArrives
    BY <2>1 DEF NoneArrives, Stamped, Stray
  <2>2. ASSUME NEW r \in Requests, Arrive(r)
        PROVE  /\ During(clock) => Stray' \subseteq Stray
               /\ ~During(clock) => Stamped' \subseteq Stamped
    <3>1. \A q \in Requests \ {r} : pc'[q] = pc[q] /\ now'[q] = now[q]
      BY <1>0, <2>2 DEF Arrive, Goto, PcTyped
    <3>2. now'[r] = clock
      BY <1>0, <2>2 DEF Arrive
    <3>3. MinuteOf(now'[r]) = Watched <=> During(clock)
      BY <1>0, <3>2, MinuteNamed
    <3> QED
      BY <3>1, <3>3 DEF Stamped, Stray
  <2> QED
    BY <2>1, <2>2, OthersNoneArrives
<1>3. /\ a \in 0..N /\ b \in 0..N /\ d \in 0..N /\ e \in 0..N
      /\ During(clock) => e <= b
      /\ ~During(clock) => d <= a
  BY <1>2, LimitingSets, SmallerSet
<1>4. d = N => e = 0
  <2>1. ASSUME d = N PROVE Stray' = {}
    <3>1. \A r \in Requests : r \in Stamped'
      BY <2>1, LimitingSets, MissesOne
    <3> QED
      BY <3>1 DEF Stamped, Stray
  <2> QED
    BY <2>1, FS_EmptySet
<1> HIDE DEF a, b, d, e, m
<1>5. Allowed(clock, back, granted, d, e, m)
  BY <1>0, <1>3, AllowedFewer
<1>6. /\ Allowed(clock + 1, back, granted, d, e, m)
      /\ Allowed(clock - 1, back + 1, granted, d, e, m)
  BY <1>0, <1>3, <1>4, <1>5, AllowedTimes
<1>7. \/ clock' = clock /\ back' = back
      \/ clock' = clock + 1 /\ back' = back
      \/ clock' = clock - 1 /\ back' = back + 1
  <2>1. DataTyped
    BY DEF Typed
  <2> QED
    BY <2>1, ClockSteps DEF Tick, SetBack, timeVars
<1>8. db'.rate = work'.rate /\ Room(work)' = m /\ granted' = granted
  BY <1>1 DEF RateKept, RateInv, RateRow, Room, m
<1>9. Allowed(clock', back', granted', d, e, Room(work)')
  BY <1>5, <1>6, <1>7, <1>8
<1>10. RateBudget'
  BY <1>9 DEF RateBudget, d, e
<1> QED
  BY <1>0, <1>8, <1>10 DEF RateInv, RateRow

-----------------------------------------------------------------------------
LEMMA InitIInv == Init => IInv
<1> SUFFICES ASSUME Init PROVE IInv
  OBVIOUS
<1>1. NoTables \in Tables /\ NoTables.fresh = 0 /\ NoTables.begun = 0 /\ Row(NoTables) = 0
  BY Constants DEF NoTables, Tables, Row
<1>2. Typed
  <2>1. PcTyped
    BY Constants DEF Init, PcTyped, Held
  <2>2. DataTyped
    <3>1. MinClock \in MinClock..MaxClock /\ 0 \in 0..MaxBack
      BY Constants
    <3> QED
      BY <1>1, <3>1 DEF Init, DataTyped
  <2> QED
    BY <2>1, <2>2 DEF Typed
<1>3. OneUncommitted
  BY <1>1 DEF Init, OneUncommitted
<1>4. PastQueue = {} /\ PastQuota = {}
  BY DEF Init, PastQueue, PastQuota, Threads
<1>5. QueueBudget
  BY <1>1, <1>4, FS_EmptySet, Constants DEF Init, QueueBudget, N
<1>6. Changes = 0 /\ MinClock \in Nat
  BY Constants DEF Init, Changes
<1>7. QuotaBudget
  <2>1. Within(MinClock, 0, 0, 0)
    BY Constants, WithinChecked
  <2> QED
    BY <1>1, <1>4, <1>6, <2>1, FS_EmptySet DEF Init, QuotaBudget
<1>8. Uncounted
  BY <1>1, <1>6 DEF Init, Uncounted, Threads
<1> QED
  BY <1>2, <1>3, <1>5, <1>7, <1>8 DEF IInv

LEMMA IInvCorrect == Spec => []IInv
<1>1. IInv /\ [Next]_admissionVars => IInv'
  BY StepPcTyped, StepDataTyped, StepOneUncommitted, StepQueueBudget, StepQuotaBudget,
     StepUncounted DEF IInv, Typed
<1> QED
  BY InitIInv, <1>1, PTL DEF Spec

(* Tables and threads are well formed, and transactions do not overlap     *)
(* within a process (ProjectStore.tx).                                     *)
THEOREM AdmissionTypeCorrect == Spec => []TypeOK
<1>1. IInv => TypeOK
  BY TypedIsTypeOK DEF IInv
<1> QED
  BY <1>1, IInvCorrect, PTL

(* Submissions exceed the queue limit by less than there are threads in    *)
(* the server, whatever the interleaving (check_queue_limit).              *)
THEOREM FreshBoundedCorrect == Spec => []FreshBounded
<1>1. IInv => FreshBounded
  <2> SUFFICES ASSUME IInv PROVE FreshBounded
    OBVIOUS
  <2>1. /\ db.fresh <= work.fresh /\ db.fresh \in Nat /\ work.fresh \in Nat
        /\ Cardinality(PastQueue) \in Nat
    BY TableFields, PastQueueSets, SubsetOfRequests DEF IInv, Typed, DataTyped, OneUncommitted
  <2> QED
    BY <2>1, Constants DEF IInv, QueueBudget, FreshBounded, N
<1> QED
  BY <1>1, IInvCorrect, PTL

(* The chains that begin on a day exceed the quota in the same way, once   *)
(* for every time the clock can come into that day, and by one for every   *)
(* change of the clock, which can part the two readings that name the row  *)
(* (check_chain_quota, submit_job).                                        *)
THEOREM QuotaBoundedCorrect == Spec => []QuotaBounded
<1>1. IInv => QuotaBounded
  <2> SUFFICES ASSUME IInv
               PROVE  db.begun <= ChainLimit - 1 + (1 + back) * N + Changes
    BY DEF QuotaBounded, N
  <2>1. db.begun <= work.begun /\ db.begun \in Nat /\ work.begun \in Nat
    BY TableFields DEF IInv, Typed, DataTyped, OneUncommitted
  <2>2. work.begun - Changes <= ChainLimit - 1 + (1 + back) * N
    BY DEF IInv, QuotaBudget, Within
  <2>3. (1 + back) * N \in Nat /\ Changes \in Nat
    BY Constants, OnceMore, ChangesTyped DEF IInv, Typed
  <2> QED
    BY <2>1, <2>2, <2>3, Constants
<1> QED
  BY <1>1, IInvCorrect, PTL

(* The row of the rate limit lets at most one submission less than limit   *)
(* and one, for every thread, through in a minute, each time the clock     *)
(* comes into it (rate_limit).                                             *)
THEOREM RateBoundedCorrect == Spec => []RateBounded
<1>1. Init => RateInv
  <2> SUFFICES ASSUME Init PROVE RateInv
    OBVIOUS
  <2>1. Stamped = {} /\ Stray = {}
    BY DEF Init, Stamped, Stray, Limiting, Threads
  <2>2. Cardinality(Stamped) = 0 /\ Cardinality(Stray) = 0
    BY <2>1, FS_EmptySet
  <2>3. /\ db.rate = work.rate /\ Room(work) = RateLimit /\ RateLimit \in 0..RateLimit
    BY AdmissionAssumption DEF Init, NoTables, Room
  <2>4. Allowed(MinClock, 0, 0, 0, 0, RateLimit)
    <3>1. /\ Inner(0, RateLimit) \in Nat /\ Inner(0, RateLimit) <= RateLimit * N
          /\ Outer(0, RateLimit) = 0 /\ 0 * PerVisit = 0
          /\ PerVisit \in Nat /\ RateLimit * N \in Nat
      BY InnerBound, OuterBound, Visits, Constants
    <3> QED
      BY <3>1 DEF Allowed
  <2> QED
    BY <2>2, <2>3, <2>4 DEF Init, RateInv, RateRow, RateBudget
<1>2. IInv /\ RateInv /\ [Next]_admissionVars => RateInv'
  BY StepLimitRate, StepRateRest DEF IInv
<1>3. IInv /\ RateInv => RateBounded
  <2> SUFFICES ASSUME IInv, RateInv PROVE granted <= (1 + back) * PerVisit
    BY DEF RateBounded, PerVisit, N
  <2> DEFINE a == Cardinality(Stamped)
             b == Cardinality(Stray)
             m == Room(work)
  <2>1. /\ clock \in Nat /\ back \in Nat /\ granted \in Nat /\ m \in 0..RateLimit /\ m \in Nat
        /\ a \in 0..N /\ b \in 0..N
    BY LimitingSets, Constants DEF IInv, Typed, DataTyped, RateInv, RateRow
  <2>2. Allowed(clock, back, granted, a, b, m)
    BY DEF RateInv, RateBudget
  <2> HIDE DEF a, b, m
  <2>3. /\ Inner(b, m) \in Nat /\ Outer(a, m) \in Nat /\ N \in Nat \ {0}
        /\ PerVisit = RateLimit * N + N - 1 /\ PerVisit \in Nat /\ RateLimit * N \in Nat
        /\ back * PerVisit \in Nat /\ (back + 1) * PerVisit = back * PerVisit + PerVisit
    BY <2>1, InnerBound, OuterBound, Visits
  <2>4. granted <= back * PerVisit + PerVisit
    <3>1. Watched \in Nat /\ Minute \in Nat
      BY AdmissionAssumption
    <3> QED
      BY <2>1, <2>2, <2>3, <3>1 DEF Allowed, During
  <2>5. (1 + back) * PerVisit = (back + 1) * PerVisit
    BY <2>1, <2>3
  <2> QED
    BY <2>3, <2>4, <2>5
<1> QED
  BY <1>1, <1>2, <1>3, IInvCorrect, PTL DEF Spec

(* A loop that ends of a BEGIN within the transaction of another leaves    *)
(* that one alive (cmd_worker, ProjectStore.tx).                           *)
THEOREM LoopSurvivesCorrect == Spec => LoopSurvives
<1>1. ASSUME IInv, NEW l \in Loops, NestedBegin(l)
      PROVE  \E k \in Loops : pc'[k] # "ended"
  <2>1. PcTyped /\ l \in Threads /\ l \notin Requests
    BY <1>1, AdmissionAssumption DEF IInv, Typed, Threads
  <2>2. lock \in Loops /\ lock \in Threads
    BY <1>1, <2>1 DEF NestedBegin, SameProcess, PcTyped, Threads
  <2>3. pc[lock] \in Held /\ pc[l] \notin Held
    BY <1>1, <2>1, <2>2 DEF NestedBegin, PcTyped, Outside, Held
  <2>4. pc'[lock] = pc[lock]
    BY <1>1, <2>1, <2>2, <2>3 DEF NestedBegin, Raise, Goto, PcTyped
  <2> QED
    BY <2>2, <2>3, <2>4 DEF Held
<1>2. IInv /\ [Next]_admissionVars =>
        [\A l \in Loops : NestedBegin(l) => \E k \in Loops : pc'[k] # "ended"]_admissionVars
  BY <1>1
<1> QED
  BY <1>2, IInvCorrect, PTL DEF Spec, LoopSurvives
=============================================================================
