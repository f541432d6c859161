-------------------------- MODULE PipelineLog_proofs --------------------------
(***************************************************************************)
(* Proofs about PipelineLog: that tables jobs, streams and releases are    *)
(* what the audit log replays to, for every number of streams, clients,    *)
(* workers, candidates and jobs and every order the rows are read in.      *)
(***************************************************************************)
EXTENDS PipelineLog, JobService_proofs, FiniteSetTheorems

-----------------------------------------------------------------------------
(* Replaying one entry more. *)

(* Columns that agree at the positions replayed lead to the same end. *)
LEMMA LeadsSame ==
  ASSUME NEW A, NEW f, NEW t, NEW f2, NEW t2, NEW a, NEW b,
         \A n \in A : f2[n] = f[n] /\ t2[n] = t[n],
         Leads(A, f, t, a, b)
  PROVE  Leads(A, f2, t2, a, b)
BY DEF Leads

(* An entry after all the others that starts where they end. *)
LEMMA LeadsOne ==
  ASSUME NEW A \in SUBSET Int, NEW n \in Int, \A m \in A : m < n,
         NEW f, NEW t, NEW a, Leads(A, f, t, a, f[n])
  PROVE  Leads(A \cup {n}, f, t, a, t[n])
<1> DEFINE B == A \cup {n}
<1>1. ASSUME NEW k \in B PROVE f[k] = a \/ \E m \in B : m < k
  BY <1>1 DEF Leads
<1>2. ASSUME NEW k \in B PROVE t[k] = t[n] \/ \E m \in B : k < m
  BY <1>2
<1>3. ASSUME NEW k \in B, NEW m \in B, m < k, \A i \in B : i <= m \/ k <= i
      PROVE  f[k] = t[m]
  <2>1. m \in A
    BY <1>3
  <2>2. CASE k \in A
    BY <1>3, <2>1, <2>2 DEF Leads
  <2>3. CASE k = n
    <3>1. t[m] = f[n]
      <4>1. \A i \in A : ~(m < i)
        BY <1>3, <2>1, <2>3
      <4> QED BY <2>1, <4>1 DEF Leads
    <3> QED BY <2>1, <2>3, <3>1
  <2> QED BY <2>2, <2>3
<1> QED BY <1>1, <1>2, <1>3 DEF Leads

-----------------------------------------------------------------------------
(* What one step does to the log: after the first q entries come h entries *)
(* about a stream or a verdict, then one entry for each job of a set S.    *)

(* Entry e moves job e.job of S and neither starts nor accepts a verdict.  *)
RowEntry(e, S) ==
  /\ e.job \in S
  /\ e.from = job[e.job].state
  /\ e.to = job'[e.job].state
  /\ e.to \notin {"ACCEPTED", "COMMITTING"}

(* The entries at positions A move the jobs of S, one each. *)
RowEntries(A, S) ==
  /\ \A n \in A : RowEntry(log'[n], S)
  /\ \A m, n \in A : log'[m].job = log'[n].job => m = n
  /\ \A j \in S : \E n \in A : log'[n].job = j

Grows(q, h, t, S) ==
  /\ q \in Nat /\ h \in Nat /\ t \in Nat /\ q = Len(log)
  /\ log \in Seq(Entry)
  /\ log' \in Seq(Entry) /\ Len(log') = q + h + t
  /\ \A n \in 1..q : log'[n] = log[n]
  /\ created <= created' /\ S \subseteq 1..created' /\ S \subseteq Jobs
  /\ RowEntries((q + h + 1)..(q + h + t), S)

KeptRows(S) == \A j \in Jobs : j \notin S => job'[j].state = job[j].state

Plain(h, S) == h = 0 /\ stream' = stream /\ releases' = releases /\ KeptRows(S)

(* The entry of a pause or a resume. *)
Controlled(q, h, S, s) ==
  /\ h = 1 /\ s \in Streams
  /\ log'[q + 1].stream = s /\ log'[q + 1].job = 0
  /\ log'[q + 1].from = stream[s].state /\ log'[q + 1].to = stream'[s].state
  /\ log'[q + 1].revision = stream[s].revision + 1
  /\ stream'[s].revision = stream[s].revision + 1
  /\ \A u \in Streams : u # s => stream'[u] = stream[u]
  /\ releases' = releases /\ KeptRows(S)

(* The two entries of a verdict. *)
Judged(q, h, S, j) ==
  LET s == job[j].stream IN
  /\ h = 2 /\ j \in 1..created' /\ j \in Jobs /\ j \notin S
  /\ s \in Streams
  /\ job[j].state # "ACCEPTED"
  /\ stream[s].state = "ACTIVE" /\ stream[s].revision = job[j].rev
  /\ \A n \in {q + 1, q + 2} : log'[n].stream = s /\ log'[n].job = j
  /\ log'[q + 1].from = job[j].state /\ log'[q + 1].to = "COMMITTING"
  /\ log'[q + 1].revision = job[j].rev
  /\ log'[q + 2].from = "COMMITTING" /\ log'[q + 2].to = job'[j].state
  /\ stream'[s].state = "ACTIVE"
  /\ \A u \in Streams : u # s => stream'[u] = stream[u]
  /\ KeptRows(S \cup {j})
  /\ \/ /\ job'[j].state = "REJECTED"
        /\ stream'[s].revision = stream[s].revision
        /\ releases' = releases
     \/ /\ job'[j].state = "ACCEPTED"
        /\ stream'[s].revision = stream[s].revision + 1
        /\ log'[q + 2].revision = stream[s].revision + 1
        /\ releases' = releases \cup {ReleaseOf(j)}

Shaped(q, h, t, S) ==
  /\ Grows(q, h, t, S)
  /\ \/ Plain(h, S)
     \/ \E s \in Streams : Controlled(q, h, S, s)
     \/ \E j \in Jobs : Judged(q, h, S, j)

LogShape == \E q \in Nat, h \in Nat, t \in Nat, S \in SUBSET Jobs : Shaped(q, h, t, S)

-----------------------------------------------------------------------------
(* Appending, and listing the rows of a set. *)

LEMMA Positions ==
  ASSUME NEW new \in Seq(Entry), log \in Seq(Entry), log' = log \o new
  PROVE  /\ log' \in Seq(Entry)
         /\ Len(log') = Len(log) + Len(new)
         /\ Len(log) \in Nat /\ Len(new) \in Nat
         /\ \A n \in 1..Len(log) : log'[n] = log[n]
         /\ \A i \in 1..Len(new) : log'[Len(log) + i] = new[i]
OBVIOUS

(* A listing has one place for each member of the set. *)
LEMMA OrderPlaces ==
  ASSUME NEW S, IsFiniteSet(S), NEW order \in Orders(S)
  PROVE  /\ Cardinality(S) \in Nat
         /\ DOMAIN order = 1..Cardinality(S)
         /\ \A i \in 1..Cardinality(S) : order[i] \in S
         /\ \A i, k \in 1..Cardinality(S) : order[i] = order[k] => i = k
         /\ \A x \in S : \E i \in 1..Cardinality(S) : order[i] = x
<1>1. Cardinality(S) \in Nat
  BY FS_CardinalityType
<1> QED BY <1>1 DEF Orders, Bijection, Injection, Surjection, IsInjective

LEMMA FiniteRows == ASSUME NEW S \in SUBSET Jobs PROVE IsFiniteSet(S)
<1>1. IsFiniteSet(Jobs)
  BY ConstantsAssumption, FS_Interval DEF Jobs
<1> QED BY <1>1, FS_Subset

-----------------------------------------------------------------------------
(* What a step of this shape leaves of the old log, and where the new      *)
(* entries stand.                                                          *)
LEMMA OldEntries ==
  ASSUME NEW q, NEW h, NEW t, NEW S, Grows(q, h, t, S)
  PROVE  /\ DOMAIN log = 1..q /\ DOMAIN log' = 1..(q + h + t)
         /\ \A n \in 1..q : /\ From'[n] = From[n] /\ To'[n] = To[n]
                            /\ Revision'[n] = Revision[n] /\ RevBefore'[n] = RevBefore[n]
         /\ \A n \in 1..(q + h + t) :
              /\ From'[n] = log'[n].from /\ To'[n] = log'[n].to
              /\ Revision'[n] = log'[n].revision /\ RevBefore'[n] = log'[n].revision - 1
<1>1. DOMAIN log = 1..q /\ DOMAIN log' = 1..(q + h + t)
  BY DEF Grows
<1>2. \A n \in 1..q : n \in 1..(q + h + t) /\ log'[n] = log[n]
  BY DEF Grows
<1> QED BY <1>1, <1>2 DEF From, To, Revision, RevBefore

(* What the old entries lead to, they still lead to. *)
LEMMA LeadsKept ==
  ASSUME NEW q, NEW h, NEW t, NEW S, Grows(q, h, t, S),
         NEW A \in SUBSET (1..q), NEW a, NEW b
  PROVE  /\ Leads(A, From, To, a, b) => Leads(A, From', To', a, b)
         /\ Leads(A, RevBefore, Revision, a, b) => Leads(A, RevBefore', Revision', a, b)
<1>1. \A n \in A : From'[n] = From[n] /\ To'[n] = To[n]
  BY OldEntries
<1>2. Leads(A, From, To, a, b) => Leads(A, From', To', a, b)
  BY <1>1, LeadsSame
<1>3. \A n \in A : RevBefore'[n] = RevBefore[n] /\ Revision'[n] = Revision[n]
  BY OldEntries
<1>4. Leads(A, RevBefore, Revision, a, b) => Leads(A, RevBefore', Revision', a, b)
  BY <1>3, LeadsSame
<1> QED BY <1>2, <1>4

(* A new entry takes the replay of old ones on from where it starts. *)
LEMMA LeadsOn ==
  ASSUME NEW q, NEW h, NEW t, NEW S, Grows(q, h, t, S),
         NEW A \in SUBSET (1..q), NEW n \in (q + 1)..(q + h + t), NEW a
  PROVE  /\ Leads(A, From, To, a, log'[n].from)
              => Leads(A \cup {n}, From', To', a, log'[n].to)
         /\ Leads(A, RevBefore, Revision, a, log'[n].revision - 1)
              => Leads(A \cup {n}, RevBefore', Revision', a, log'[n].revision)
<1>1. n \in Int /\ n \in 1..(q + h + t) /\ A \in SUBSET Int /\ \A m \in A : m < n
  BY DEF Grows
<1>2. /\ From'[n] = log'[n].from /\ To'[n] = log'[n].to
      /\ Revision'[n] = log'[n].revision /\ RevBefore'[n] = log'[n].revision - 1
  BY <1>1, OldEntries
<1>3. ASSUME Leads(A, From, To, a, log'[n].from)
      PROVE  Leads(A \cup {n}, From', To', a, log'[n].to)
  <2>1. Leads(A, From', To', a, From'[n])
    BY <1>2, <1>3, LeadsKept
  <2> QED BY <1>1, <1>2, <2>1, LeadsOne
<1>4. ASSUME Leads(A, RevBefore, Revision, a, log'[n].revision - 1)
      PROVE  Leads(A \cup {n}, RevBefore', Revision', a, log'[n].revision)
  <2>1. Leads(A, RevBefore', Revision', a, RevBefore'[n])
    BY <1>2, <1>4, LeadsKept
  <2> QED BY <1>1, <1>2, <2>1, LeadsOne
<1> QED BY <1>3, <1>4

(* The first h new entries are not about the jobs of S. *)
LEMMA HeadApart ==
  ASSUME NEW q, NEW h, NEW t, NEW S, Shaped(q, h, t, S)
  PROVE  /\ h \in {0, 1, 2}
         /\ \A n \in (q + 1)..(q + h) : log'[n].job \notin S
<1>1. q \in Nat /\ h \in Nat /\ \A j \in S : j # 0 /\ j \in Jobs
  BY DEF Shaped, Grows, Jobs
<1>2. CASE Plain(h, S)
  BY <1>1, <1>2 DEF Plain
<1>3. CASE \E s \in Streams : Controlled(q, h, S, s)
  BY <1>1, <1>3 DEF Controlled
<1>4. CASE \E j \in Jobs : Judged(q, h, S, j)
  <2>1. PICK j \in Jobs : Judged(q, h, S, j)
    BY <1>4
  <2>2. h = 2 /\ j \notin S /\ log'[q + 1].job = j /\ log'[q + 2].job = j
    BY <2>1 DEF Judged
  <2> QED BY <1>1, <2>2
<1> QED BY <1>2, <1>3, <1>4 DEF Shaped

-----------------------------------------------------------------------------
(* The lives of the jobs. *)

LEMMA RowReplayed ==
  ASSUME NEW q, NEW h, NEW t, NEW S, Shaped(q, h, t, S), NEW j \in Jobs, j \in S,
         Leads(AboutJob(j), From, To, "NONE", job[j].state)
  PROVE  Leads(AboutJob(j)', From', To', "NONE", job'[j].state)
<1>1. Grows(q, h, t, S) /\ q \in Nat /\ h \in Nat /\ t \in Nat
  BY DEF Shaped, Grows
<1>2. PICK n \in (q + h + 1)..(q + h + t) : log'[n].job = j
  BY <1>1 DEF Grows, RowEntries
<1>3. n \in (q + 1)..(q + h + t)
  BY <1>1
<1>4. log'[n].from = job[j].state /\ log'[n].to = job'[j].state
  BY <1>1, <1>2 DEF Grows, RowEntries, RowEntry
<1>5. \A m \in (q + h + 1)..(q + h + t) : log'[m].job = j => m = n
  BY <1>1, <1>2 DEF Grows, RowEntries
<1>6. DOMAIN log = 1..q /\ DOMAIN log' = 1..(q + h + t) /\ \A m \in 1..q : log'[m] = log[m]
  BY <1>1, OldEntries DEF Grows
<1>7. AboutJob(j)' = AboutJob(j) \cup {n}
  <2>1. \A m \in 1..(q + h + t) :
          m \in 1..q \/ m \in (q + 1)..(q + h) \/ m \in (q + h + 1)..(q + h + t)
    BY <1>1
  <2>2. n \in 1..(q + h + t) /\ \A m \in 1..q : m \in 1..(q + h + t)
    BY <1>1
  <2>3. \A m \in (q + 1)..(q + h) : log'[m].job # j
    BY HeadApart
  <2>4. ASSUME NEW m \in 1..(q + h + t), log'[m].job = j PROVE m = n \/ m \in 1..q
    BY <1>5, <2>1, <2>3, <2>4
  <2>5. \A m \in 1..q : log'[m].job = log[m].job
    BY <1>6
  <2>6. AboutJob(j)' = {m \in 1..(q + h + t) : log'[m].job = j}
    BY <1>6 DEF AboutJob
  <2>7. AboutJob(j) = {m \in 1..q : log[m].job = j}
    BY <1>6 DEF AboutJob
  <2> QED BY <1>2, <2>2, <2>4, <2>5, <2>6, <2>7
<1>8. AboutJob(j) \in SUBSET (1..q)
  BY <1>6 DEF AboutJob
<1>9. Leads(AboutJob(j) \cup {n}, From', To', "NONE", job'[j].state)
  BY <1>1, <1>3, <1>4, <1>8, LeadsOn
<1> QED BY <1>7, <1>9

(* A job no new entry is about. *)
LEMMA RowUntouched ==
  ASSUME NEW q, NEW h, NEW t, NEW S, Shaped(q, h, t, S), NEW j \in Jobs, j \notin S,
         \A n \in (q + 1)..(q + h) : log'[n].job # j, job'[j].state = job[j].state,
         Leads(AboutJob(j), From, To, "NONE", job[j].state)
  PROVE  Leads(AboutJob(j)', From', To', "NONE", job'[j].state)
<1>1. Grows(q, h, t, S) /\ q \in Nat /\ h \in Nat /\ t \in Nat
  BY DEF Shaped, Grows
<1>2. DOMAIN log = 1..q /\ DOMAIN log' = 1..(q + h + t) /\ \A m \in 1..q : log'[m] = log[m]
  BY <1>1, OldEntries DEF Grows
<1>3. \A m \in (q + h + 1)..(q + h + t) : log'[m].job # j
  BY <1>1 DEF Grows, RowEntries, RowEntry
<1>4. AboutJob(j)' = AboutJob(j) /\ AboutJob(j) \in SUBSET (1..q)
  <2>1. \A m \in 1..(q + h + t) : log'[m].job = j => m \in 1..q
    BY <1>1, <1>3
  <2>2. \A m \in 1..q : m \in 1..(q + h + t)
    BY <1>1
  <2> QED BY <1>2, <2>1, <2>2 DEF AboutJob
<1> QED BY <1>1, <1>4, LeadsKept

(* The job of a verdict passes through COMMITTING. *)
LEMMA VerdictReplayed ==
  ASSUME NEW q, NEW h, NEW t, NEW S, Shaped(q, h, t, S), NEW j \in Jobs, Judged(q, h, S, j),
         Leads(AboutJob(j), From, To, "NONE", job[j].state)
  PROVE  Leads(AboutJob(j)', From', To', "NONE", job'[j].state)
<1> DEFINE n == q + 1
           B == AboutJob(j) \cup {n}
<1>1. Grows(q, h, t, S) /\ q \in Nat /\ h = 2 /\ t \in Nat /\ j \notin S
  BY DEF Shaped, Grows, Judged
<1>2. /\ DOMAIN log = 1..q /\ DOMAIN log' = 1..(q + 2 + t)
      /\ \A m \in 1..q : log'[m] = log[m]
  BY <1>1, OldEntries DEF Grows
<1>3. \A m \in (q + 2 + 1)..(q + 2 + t) : log'[m].job # j
  BY <1>1 DEF Grows, RowEntries, RowEntry
<1>4. /\ log'[q + 1].job = j /\ log'[q + 2].job = j
      /\ log'[q + 1].from = job[j].state /\ log'[q + 1].to = "COMMITTING"
      /\ log'[q + 2].from = "COMMITTING" /\ log'[q + 2].to = job'[j].state
  BY DEF Judged
<1>5. AboutJob(j)' = B \cup {q + 2} /\ AboutJob(j) \in SUBSET (1..q)
  BY <1>1, <1>2, <1>3, <1>4 DEF AboutJob
<1>6. Leads(B, From', To', "NONE", "COMMITTING")
  <2>1. n \in (q + 1)..(q + h + t)
    BY <1>1
  <2>2. log'[n].from = job[j].state /\ log'[n].to = "COMMITTING"
    BY <1>4
  <2> HIDE DEF n
  <2>3. Grows(q, h, t, S) /\ AboutJob(j) \in SUBSET (1..q)
    BY <1>1, <1>5
  <2>4. Leads(AboutJob(j), From, To, "NONE", log'[n].from)
    BY <2>2
  <2>5. Leads(AboutJob(j) \cup {n}, From', To', "NONE", log'[n].to)
    BY <2>1, <2>3, <2>4, LeadsOn
  <2> QED BY <2>2, <2>5
<1>7. From'[q + 2] = "COMMITTING" /\ To'[q + 2] = job'[j].state
  <2>1. q + 2 \in 1..(q + h + t)
    BY <1>1
  <2>2. From'[q + 2] = log'[q + 2].from /\ To'[q + 2] = log'[q + 2].to
    <3> HIDE DEF B
    <3> QED BY <1>1, <2>1, OldEntries
  <2> QED BY <1>4, <2>2
<1>8. B \in SUBSET Int /\ q + 2 \in Int /\ \A m \in B : m < q + 2
  BY <1>1, <1>5
<1> HIDE DEF B
<1>9. Leads(B \cup {q + 2}, From', To', "NONE", To'[q + 2])
  BY <1>6, <1>7, <1>8, LeadsOne
<1> QED BY <1>5, <1>7, <1>9

LEMMA JobsReplayStep ==
  ASSUME NEW q, NEW h, NEW t, NEW S, Shaped(q, h, t, S), JobsReplay
  PROVE  JobsReplay'
<1> SUFFICES ASSUME NEW j \in Jobs
             PROVE  Leads(AboutJob(j)', From', To', "NONE", job'[j].state)
  BY DEF JobsReplay, Jobs
<1>1. Leads(AboutJob(j), From, To, "NONE", job[j].state)
  BY DEF JobsReplay
<1>2. CASE j \in S
  BY <1>1, <1>2, RowReplayed
<1>3. CASE Judged(q, h, S, j)
  BY <1>1, <1>3, VerdictReplayed
<1>4. CASE j \notin S /\ ~Judged(q, h, S, j)
  <2>1. q \in Nat /\ h \in Nat /\ j # 0
    BY DEF Shaped, Grows, Jobs
  <2>2. /\ job'[j].state = job[j].state
        /\ \A n \in (q + 1)..(q + h) : log'[n].job # j
    <3>1. CASE Plain(h, S)
      BY <1>4, <2>1, <3>1 DEF Plain, KeptRows
    <3>2. CASE \E s \in Streams : Controlled(q, h, S, s)
      BY <1>4, <2>1, <3>2 DEF Controlled, KeptRows
    <3>3. CASE \E i \in Jobs : Judged(q, h, S, i)
      <4>1. PICK i \in Jobs : Judged(q, h, S, i)
        BY <3>3
      <4>2. /\ i # j /\ h = 2 /\ log'[q + 1].job = i /\ log'[q + 2].job = i
            /\ KeptRows(S \cup {i})
        BY <1>4, <4>1 DEF Judged
      <4> QED BY <1>4, <2>1, <4>2 DEF KeptRows
    <3> QED BY <3>1, <3>2, <3>3 DEF Shaped
  <2> QED BY <1>1, <1>4, <2>2, RowUntouched
<1> QED BY <1>2, <1>3, <1>4

-----------------------------------------------------------------------------
(* The states and the revisions of the streams. *)

(* No entry about a job of S is about a stream or accepts a verdict. *)
LEMMA TailApart ==
  ASSUME NEW q, NEW h, NEW t, NEW S, Grows(q, h, t, S)
  PROVE  \A n \in (q + h + 1)..(q + h + t) :
           log'[n].job # 0 /\ log'[n].to \notin {"ACCEPTED", "COMMITTING"}
BY DEF Grows, RowEntries, RowEntry, Jobs

(* A pause or a resume of stream s. *)
LEMMA ControlReplayed ==
  ASSUME NEW q, NEW h, NEW t, NEW S, Shaped(q, h, t, S), NEW s \in Streams,
         Controlled(q, h, S, s), stream[s].revision \in Nat,
         Leads(Controls(s), From, To, "NONE", stream[s].state),
         Leads(Moves(s), RevBefore, Revision, -1, stream[s].revision)
  PROVE  /\ Leads(Controls(s)', From', To', "NONE", stream'[s].state)
         /\ Leads(Moves(s)', RevBefore', Revision', -1, stream'[s].revision)
<1> DEFINE n == q + 1
<1>1. Grows(q, h, t, S) /\ q \in Nat /\ h = 1 /\ t \in Nat
  BY DEF Shaped, Grows, Controlled
<1>2. /\ DOMAIN log = 1..q /\ DOMAIN log' = 1..(q + 1 + t)
      /\ \A m \in 1..q : log'[m] = log[m]
  BY <1>1, OldEntries DEF Grows
<1>3. /\ log'[n].stream = s /\ log'[n].job = 0
      /\ log'[n].from = stream[s].state /\ log'[n].to = stream'[s].state
      /\ log'[n].revision = stream'[s].revision
      /\ log'[n].revision - 1 = stream[s].revision
  BY DEF Controlled
<1>4. /\ Controls(s)' = Controls(s) \cup {n} /\ Controls(s) \in SUBSET (1..q)
      /\ Moves(s)' = Moves(s) \cup {n} /\ Moves(s) \in SUBSET (1..q)
  <2>1. \A m \in 1..(q + 1 + t) : m \in 1..q \/ m = n \/ m \in (q + h + 1)..(q + h + t)
    BY <1>1
  <2>2. n \in 1..(q + 1 + t) /\ \A m \in 1..q : m \in 1..(q + 1 + t)
    BY <1>1
  <2>3. \A m \in (q + h + 1)..(q + h + t) : log'[m].job # 0 /\ log'[m].to # "ACCEPTED"
    BY <1>1, TailApart
  <2> HIDE DEF n
  <2>4. Controls(s)' = Controls(s) \cup {n} /\ Controls(s) \in SUBSET (1..q)
    BY <1>2, <1>3, <2>1, <2>2, <2>3 DEF Controls
  <2>5. Moves(s)' = Moves(s) \cup {n} /\ Moves(s) \in SUBSET (1..q)
    BY <1>2, <1>3, <2>1, <2>2, <2>3 DEF Moves
  <2> QED BY <2>4, <2>5
<1>5. n \in (q + 1)..(q + h + t)
  BY <1>1
<1> HIDE DEF n
<1>6. Leads(Controls(s) \cup {n}, From', To', "NONE", log'[n].to)
  BY <1>1, <1>3, <1>4, <1>5, LeadsOn
<1>7. Leads(Moves(s) \cup {n}, RevBefore', Revision', -1, log'[n].revision)
  BY <1>1, <1>3, <1>4, <1>5, LeadsOn
<1> QED BY <1>3, <1>4, <1>6, <1>7

(* A verdict on stream s. *)
LEMMA JudgementReplayed ==
  ASSUME NEW q, NEW h, NEW t, NEW S, Shaped(q, h, t, S), NEW j \in Jobs,
         Judged(q, h, S, j), NEW s \in Streams, s = job[j].stream, stream[s].revision \in Nat,
         Leads(Controls(s), From, To, "NONE", stream[s].state),
         Leads(Moves(s), RevBefore, Revision, -1, stream[s].revision)
  PROVE  /\ Leads(Controls(s)', From', To', "NONE", stream'[s].state)
         /\ Leads(Moves(s)', RevBefore', Revision', -1, stream'[s].revision)
<1> DEFINE n == q + 2
<1>1. Grows(q, h, t, S) /\ q \in Nat /\ h = 2 /\ t \in Nat /\ j # 0
  BY DEF Shaped, Grows, Judged, Jobs
<1>2. /\ DOMAIN log = 1..q /\ DOMAIN log' = 1..(q + 2 + t)
      /\ \A m \in 1..q : log'[m] = log[m]
  BY <1>1, OldEntries DEF Grows
<1>3. /\ log'[q + 1].job = j /\ log'[q + 1].to = "COMMITTING"
      /\ log'[n].stream = s /\ log'[n].job = j /\ log'[n].to = job'[j].state
      /\ stream'[s].state = stream[s].state
  BY DEF Judged
<1>4. Controls(s)' = Controls(s) /\ Controls(s) \in SUBSET (1..q) /\ Moves(s) \in SUBSET (1..q)
  BY <1>1, <1>2, <1>3, TailApart DEF Controls, Moves
<1>5. Leads(Controls(s)', From', To', "NONE", stream'[s].state)
  BY <1>1, <1>3, <1>4, LeadsKept
<1>6. CASE job'[j].state = "REJECTED"
  <2>1. stream'[s].revision = stream[s].revision
    BY <1>6 DEF Judged
  <2>2. Moves(s)' = Moves(s)
    BY <1>1, <1>2, <1>3, <1>6, TailApart DEF Moves
  <2>3. Leads(Moves(s), RevBefore', Revision', -1, stream[s].revision)
    BY <1>1, <1>4, LeadsKept
  <2> QED BY <1>5, <2>1, <2>2, <2>3
<1>7. CASE job'[j].state = "ACCEPTED"
  <2>1. /\ log'[n].revision = stream'[s].revision
        /\ log'[n].revision - 1 = stream[s].revision
    BY <1>7 DEF Judged
  <2>2. Moves(s)' = Moves(s) \cup {n}
    <3>1. \A m \in 1..(q + 2 + t) :
            m \in 1..q \/ m = q + 1 \/ m = n \/ m \in (q + h + 1)..(q + h + t)
      BY <1>1
    <3>2. n \in 1..(q + 2 + t) /\ \A m \in 1..q : m \in 1..(q + 2 + t)
      BY <1>1
    <3>3. \A m \in (q + h + 1)..(q + h + t) : log'[m].job # 0 /\ log'[m].to # "ACCEPTED"
      BY <1>1, TailApart
    <3> HIDE DEF n
    <3> QED BY <1>1, <1>2, <1>3, <1>7, <3>1, <3>2, <3>3 DEF Moves
  <2>3. n \in (q + 1)..(q + h + t)
    BY <1>1
  <2> HIDE DEF n
  <2>4. Leads(Moves(s) \cup {n}, RevBefore', Revision', -1, log'[n].revision)
    BY <1>1, <1>4, <2>1, <2>3, LeadsOn
  <2> QED BY <1>5, <2>1, <2>2, <2>4
<1> QED BY <1>6, <1>7 DEF Judged

(* A stream no new entry moves. *)
LEMMA StreamUntouched ==
  ASSUME NEW q, NEW h, NEW t, NEW S, Shaped(q, h, t, S), NEW s \in Streams,
         stream'[s] = stream[s],
         \A n \in (q + 1)..(q + h) :
           log'[n].stream = s => log'[n].job # 0 /\ log'[n].to # "ACCEPTED",
         Leads(Controls(s), From, To, "NONE", stream[s].state),
         Leads(Moves(s), RevBefore, Revision, -1, stream[s].revision)
  PROVE  /\ Leads(Controls(s)', From', To', "NONE", stream'[s].state)
         /\ Leads(Moves(s)', RevBefore', Revision', -1, stream'[s].revision)
<1>1. Grows(q, h, t, S) /\ q \in Nat /\ h \in Nat /\ t \in Nat
  BY DEF Shaped, Grows
<1>2. DOMAIN log = 1..q /\ DOMAIN log' = 1..(q + h + t) /\ \A m \in 1..q : log'[m] = log[m]
  BY <1>1, OldEntries DEF Grows
<1>3. \A n \in (q + 1)..(q + h + t) :
        log'[n].stream = s => log'[n].job # 0 /\ log'[n].to # "ACCEPTED"
  BY <1>1, TailApart
<1>4. /\ Controls(s)' = Controls(s) /\ Controls(s) \in SUBSET (1..q)
      /\ Moves(s)' = Moves(s) /\ Moves(s) \in SUBSET (1..q)
  BY <1>1, <1>2, <1>3 DEF Controls, Moves
<1> QED BY <1>1, <1>4, LeadsKept

LEMMA StreamsReplayStep ==
  ASSUME NEW q, NEW h, NEW t, NEW S, Shaped(q, h, t, S), TypeOK, StreamsReplay
  PROVE  StreamsReplay'
<1> SUFFICES ASSUME NEW s \in Streams
             PROVE  /\ Leads(Controls(s)', From', To', "NONE", stream'[s].state)
                    /\ Leads(Moves(s)', RevBefore', Revision', -1, stream'[s].revision)
  BY DEF StreamsReplay
<1>1. /\ Leads(Controls(s), From, To, "NONE", stream[s].state)
      /\ Leads(Moves(s), RevBefore, Revision, -1, stream[s].revision)
  BY DEF StreamsReplay
<1>2. stream[s].revision \in Nat
  BY DEF TypeOK, StreamRow
<1>3. q \in Nat
  BY DEF Shaped, Grows
<1>4. CASE Plain(h, S)
  BY <1>1, <1>3, <1>4, StreamUntouched DEF Plain
<1>5. ASSUME NEW u \in Streams, Controlled(q, h, S, u) PROVE
          /\ Leads(Controls(s)', From', To', "NONE", stream'[s].state)
          /\ Leads(Moves(s)', RevBefore', Revision', -1, stream'[s].revision)
  <2>1. CASE u = s
    BY <1>1, <1>2, <1>5, <2>1, ControlReplayed
  <2>2. CASE u # s
    BY <1>1, <1>3, <1>5, <2>2, StreamUntouched DEF Controlled
  <2> QED BY <2>1, <2>2
<1>6. ASSUME NEW j \in Jobs, Judged(q, h, S, j) PROVE
          /\ Leads(Controls(s)', From', To', "NONE", stream'[s].state)
          /\ Leads(Moves(s)', RevBefore', Revision', -1, stream'[s].revision)
  <2>1. CASE s = job[j].stream
    BY <1>1, <1>2, <1>6, <2>1, JudgementReplayed
  <2>2. CASE s # job[j].stream
    <3>1. /\ h = 2 /\ log'[q + 1].stream # s /\ log'[q + 2].stream # s
          /\ stream'[s] = stream[s]
      BY <1>6, <2>2 DEF Judged
    <3> QED BY <1>1, <1>3, <3>1, StreamUntouched
  <2> QED BY <2>1, <2>2
<1> QED BY <1>4, <1>5, <1>6 DEF Shaped

-----------------------------------------------------------------------------
(* Verdicts. *)

(* The only new entry that starts a verdict is the first. *)
LEMMA CommittingAt ==
  ASSUME NEW q, NEW h, NEW t, NEW S, Shaped(q, h, t, S), TypeOK',
         NEW n \in (q + 1)..(q + h + t), log'[n].to = "COMMITTING"
  PROVE  n = q + 1 /\ \E j \in Jobs : Judged(q, h, S, j)
<1>1. Grows(q, h, t, S) /\ q \in Nat /\ h \in Nat /\ t \in Nat
  BY DEF Shaped, Grows
<1>2. n \in (q + 1)..(q + h)
  BY <1>1, TailApart
<1>3. CASE Plain(h, S)
  BY <1>1, <1>2, <1>3 DEF Plain
<1>4. ASSUME NEW s \in Streams, Controlled(q, h, S, s) PROVE FALSE
  <2>1. n = q + 1 /\ log'[q + 1].to = stream'[s].state
    BY <1>1, <1>2, <1>4 DEF Controlled
  <2>2. stream'[s].state # "COMMITTING"
    BY DEF TypeOK, StreamRow
  <2> QED BY <2>1, <2>2
<1>5. ASSUME NEW j \in Jobs, Judged(q, h, S, j) PROVE n = q + 1
  <2>1. h = 2 /\ log'[q + 2].to # "COMMITTING"
    BY <1>5 DEF Judged
  <2> QED BY <1>1, <1>2, <2>1
<1> QED BY <1>3, <1>4, <1>5 DEF Shaped

(* The only new entry that accepts a job is the second of its verdict. *)
LEMMA AcceptedAt ==
  ASSUME NEW q, NEW h, NEW t, NEW S, Shaped(q, h, t, S), TypeOK',
         NEW n \in (q + 1)..(q + h + t), log'[n].to = "ACCEPTED"
  PROVE  n = q + 2 /\ \E j \in Jobs : Judged(q, h, S, j) /\ job'[j].state = "ACCEPTED"
<1>1. Grows(q, h, t, S) /\ q \in Nat /\ h \in Nat /\ t \in Nat
  BY DEF Shaped, Grows
<1>2. n \in (q + 1)..(q + h)
  BY <1>1, TailApart
<1>3. CASE Plain(h, S)
  BY <1>1, <1>2, <1>3 DEF Plain
<1>4. ASSUME NEW s \in Streams, Controlled(q, h, S, s) PROVE FALSE
  <2>1. n = q + 1 /\ log'[q + 1].to = stream'[s].state
    BY <1>1, <1>2, <1>4 DEF Controlled
  <2>2. stream'[s].state # "ACCEPTED"
    BY DEF TypeOK, StreamRow
  <2> QED BY <2>1, <2>2
<1>5. ASSUME NEW j \in Jobs, Judged(q, h, S, j)
      PROVE  n = q + 2 /\ job'[j].state = "ACCEPTED"
  <2>1. h = 2 /\ log'[q + 1].to = "COMMITTING" /\ log'[q + 2].to = job'[j].state
    BY <1>5 DEF Judged
  <2> QED BY <1>1, <1>2, <2>1
<1> QED BY <1>3, <1>4, <1>5 DEF Shaped

LEMMA CommitsInOneStepStep ==
  ASSUME NEW q, NEW h, NEW t, NEW S, Shaped(q, h, t, S), TypeOK', CommitsInOneStep
  PROVE  CommitsInOneStep'
<1>1. Grows(q, h, t, S) /\ q \in Nat /\ h \in Nat /\ t \in Nat
  BY DEF Shaped, Grows
<1>2. DOMAIN log = 1..q /\ DOMAIN log' = 1..(q + h + t) /\ \A m \in 1..q : log'[m] = log[m]
  BY <1>1, OldEntries DEF Grows
<1> SUFFICES ASSUME NEW n \in 1..(q + h + t), log'[n].to = "COMMITTING"
             PROVE  /\ n + 1 \in 1..(q + h + t)
                    /\ log'[n + 1].job = log'[n].job
                    /\ log'[n + 1].from = "COMMITTING"
                    /\ log'[n + 1].to \in {"ACCEPTED", "REJECTED"}
  BY <1>2 DEF CommitsInOneStep
<1>3. CASE n \in 1..q
  <2>1. /\ n + 1 \in 1..q /\ log[n + 1].job = log[n].job
        /\ log[n + 1].from = "COMMITTING" /\ log[n + 1].to \in {"ACCEPTED", "REJECTED"}
    BY <1>2, <1>3 DEF CommitsInOneStep
  <2>2. log'[n + 1] = log[n + 1] /\ log'[n] = log[n] /\ n + 1 \in 1..(q + h + t)
    BY <1>1, <1>2, <1>3, <2>1
  <2> QED BY <2>1, <2>2
<1>4. CASE n \in (q + 1)..(q + h + t)
  <2>1. n = q + 1
    BY <1>4, CommittingAt
  <2>2. PICK j \in Jobs : Judged(q, h, S, j)
    BY <1>4, CommittingAt
  <2>3. /\ h = 2 /\ log'[q + 1].job = j /\ log'[q + 2].job = j
        /\ log'[q + 2].from = "COMMITTING" /\ log'[q + 2].to \in {"ACCEPTED", "REJECTED"}
    BY <2>2 DEF Judged
  <2>4. n + 1 = q + 2 /\ q + 2 \in 1..(q + h + t)
    BY <1>1, <2>1, <2>3
  <2> QED BY <2>1, <2>3, <2>4
<1> QED BY <1>1, <1>3, <1>4

(* Up to the first new entry the log reads as it did. *)
LEMMA PrefixKept ==
  ASSUME NEW q, NEW h, NEW t, NEW S, Grows(q, h, t, S), NEW n \in 1..(q + 1), NEW s,
         n <= q + h + t
  PROVE  /\ Controls(s)' \cap Before(n)' = Controls(s) \cap Before(n)
         /\ Moves(s)' \cap Before(n)' = Moves(s) \cap Before(n)
         /\ Controls(s) \cap Before(n) \in SUBSET (1..q)
         /\ Moves(s) \cap Before(n) \in SUBSET (1..q)
<1>1. /\ DOMAIN log = 1..q /\ DOMAIN log' = 1..(q + h + t) /\ \A m \in 1..q : log'[m] = log[m]
      /\ q \in Nat /\ h \in Nat /\ t \in Nat
  BY OldEntries DEF Grows
<1>2. \A m \in 1..(q + h + t) : m < n <=> m \in 1..q /\ m < n
  BY <1>1
<1>3. \A m \in 1..q : m \in 1..(q + h + t)
  BY <1>1
<1>4. /\ Controls(s)' \cap Before(n)' = Controls(s) \cap Before(n)
      /\ Controls(s) \cap Before(n) \in SUBSET (1..q)
  BY <1>1, <1>2, <1>3 DEF Controls, Before
<1>5. /\ Moves(s)' \cap Before(n)' = Moves(s) \cap Before(n)
      /\ Moves(s) \cap Before(n) \in SUBSET (1..q)
  BY <1>1, <1>2, <1>3 DEF Moves, Before
<1> QED BY <1>4, <1>5

LEMMA VerdictsCurrentStep ==
  ASSUME NEW q, NEW h, NEW t, NEW S, Shaped(q, h, t, S), TypeOK',
         StreamsReplay, VerdictsCurrent
  PROVE  VerdictsCurrent'
<1>1. Grows(q, h, t, S) /\ q \in Nat /\ h \in Nat /\ t \in Nat
  BY DEF Shaped, Grows
<1>2. DOMAIN log = 1..q /\ DOMAIN log' = 1..(q + h + t) /\ \A m \in 1..q : log'[m] = log[m]
  BY <1>1, OldEntries DEF Grows
<1>3. SUFFICES ASSUME NEW n \in 1..(q + h + t), log'[n].to = "COMMITTING",
                      NEW s, s = log'[n].stream
               PROVE  /\ Leads(Controls(s)' \cap Before(n)', From', To', "NONE", "ACTIVE")
                      /\ Leads(Moves(s)' \cap Before(n)', RevBefore', Revision', -1,
                               log'[n].revision)
  BY <1>2 DEF VerdictsCurrent
<1>4. n \in 1..(q + 1)
  BY <1>1, <1>3, CommittingAt
<1>5. /\ Leads(Controls(s) \cap Before(n), From, To, "NONE", "ACTIVE")
      /\ Leads(Moves(s) \cap Before(n), RevBefore, Revision, -1, log'[n].revision)
  <2>1. CASE n \in 1..q
    BY <1>2, <1>3, <2>1 DEF VerdictsCurrent
  <2>2. CASE n = q + 1
    <3>1. PICK j \in Jobs : Judged(q, h, S, j)
      BY <1>1, <1>3, <2>2, CommittingAt
    <3>2. /\ s \in Streams /\ stream[s].state = "ACTIVE"
          /\ stream[s].revision = log'[n].revision
      BY <1>3, <2>2, <3>1 DEF Judged
    <3>3. Controls(s) \cap Before(n) = Controls(s) /\ Moves(s) \cap Before(n) = Moves(s)
      BY <1>1, <1>2, <2>2 DEF Controls, Moves, Before
    <3> QED BY <3>2, <3>3 DEF StreamsReplay
  <2> QED BY <1>1, <1>4, <2>1, <2>2
<1>6. /\ Controls(s)' \cap Before(n)' = Controls(s) \cap Before(n)
      /\ Moves(s)' \cap Before(n)' = Moves(s) \cap Before(n)
      /\ Controls(s) \cap Before(n) \in SUBSET (1..q)
      /\ Moves(s) \cap Before(n) \in SUBSET (1..q)
  BY <1>1, <1>4, PrefixKept
<1>7. Leads(Controls(s) \cap Before(n), From', To', "NONE", "ACTIVE")
  BY <1>1, <1>5, <1>6, LeadsKept
<1>8. Leads(Moves(s) \cap Before(n), RevBefore', Revision', -1, log'[n].revision)
  BY <1>1, <1>5, <1>6, LeadsKept
<1> QED BY <1>6, <1>7, <1>8

LEMMA LogTypeStep ==
  ASSUME NEW q, NEW h, NEW t, NEW S, Shaped(q, h, t, S), TypeOK, TypeOK', LogTypeOK
  PROVE  LogTypeOK'
<1>1. Grows(q, h, t, S) /\ q \in Nat /\ h \in Nat /\ t \in Nat
  BY DEF Shaped, Grows
<1>2. DOMAIN log = 1..q /\ DOMAIN log' = 1..(q + h + t) /\ \A m \in 1..q : log'[m] = log[m]
  BY <1>1, OldEntries DEF Grows
<1>3. created \in Nat /\ created' \in Nat /\ created <= created'
  BY <1>1, ConstantsAssumption DEF TypeOK, Grows
<1>4. \A n \in 1..q : log'[n].job \in 0..created'
  BY <1>2, <1>3 DEF LogTypeOK
<1>5. \A n \in (q + h + 1)..(q + h + t) : log'[n].job \in 0..created'
  <2>1. \A n \in (q + h + 1)..(q + h + t) : log'[n].job \in 1..created'
    BY <1>1 DEF Grows, RowEntries, RowEntry
  <2> QED BY <1>3, <2>1
<1>6. \A n \in (q + 1)..(q + h) : log'[n].job \in 0..created'
  <2>1. CASE Plain(h, S)
    BY <1>1, <2>1 DEF Plain
  <2>2. ASSUME NEW s \in Streams, Controlled(q, h, S, s)
        PROVE  \A n \in (q + 1)..(q + h) : log'[n].job \in 0..created'
    BY <1>1, <1>3, <2>2 DEF Controlled
  <2>3. ASSUME NEW j \in Jobs, Judged(q, h, S, j)
        PROVE  \A n \in (q + 1)..(q + h) : log'[n].job \in 0..created'
    <3>1. /\ h = 2 /\ log'[q + 1].job = j /\ log'[q + 2].job = j /\ j \in 1..created'
      BY <2>3 DEF Judged
    <3> QED BY <1>1, <1>3, <3>1
  <2> QED BY <2>1, <2>2, <2>3 DEF Shaped
<1>7. \A n \in 1..(q + h + t) : log'[n].job \in 0..created'
  <2>1. \A n \in 1..(q + h + t) :
          n \in 1..q \/ n \in (q + 1)..(q + h) \/ n \in (q + h + 1)..(q + h + t)
    BY <1>1
  <2> QED BY <1>4, <1>5, <1>6, <2>1
<1>8. log' \in Seq(Entry)
  BY <1>1 DEF Grows
<1> QED BY <1>2, <1>7, <1>8 DEF LogTypeOK

-----------------------------------------------------------------------------
(* Receipts. *)

(* No new entry is the receipt of an old release. *)
LEMMA ReceiptsKept ==
  ASSUME NEW q, NEW h, NEW t, NEW S, Shaped(q, h, t, S), TypeOK, TypeOK',
         AcceptedIffReleased, NEW r \in releases,
         NEW n \in (q + 1)..(q + h + t)
  PROVE  ~Receipts(n, r)'
<1> SUFFICES ASSUME Receipts(n, r)' PROVE FALSE
  OBVIOUS
<1>1. Grows(q, h, t, S) /\ q \in Nat /\ h \in Nat /\ t \in Nat
  BY DEF Shaped, Grows
<1>2. /\ log'[n].job = r.job
      /\ IF r.job = 0 THEN log'[n].from = "NONE" ELSE log'[n].to = "ACCEPTED"
  BY DEF Receipts
<1>3. CASE r.job = 0
  <2>1. n \in (q + 1)..(q + h)
    BY <1>1, <1>2, <1>3, TailApart
  <2>2. CASE Plain(h, S)
    BY <1>1, <2>1, <2>2 DEF Plain
  <2>3. ASSUME NEW s \in Streams, Controlled(q, h, S, s) PROVE FALSE
    <3>1. n = q + 1 /\ log'[q + 1].from = stream[s].state
      BY <1>1, <2>1, <2>3 DEF Controlled
    <3>2. stream[s].state # "NONE"
      BY DEF TypeOK, StreamRow
    <3> QED BY <1>2, <1>3, <3>1, <3>2
  <2>4. ASSUME NEW j \in Jobs, Judged(q, h, S, j) PROVE FALSE
    <3>1. h = 2 /\ log'[q + 1].job = j /\ log'[q + 2].job = j /\ j # 0
      BY <2>4 DEF Judged, Jobs
    <3> QED BY <1>1, <1>2, <1>3, <2>1, <3>1
  <2> QED BY <2>2, <2>3, <2>4 DEF Shaped
<1>4. CASE r.job # 0
  <2>1. n = q + 2
    BY <1>2, <1>4, AcceptedAt
  <2>2. PICK j \in Jobs : Judged(q, h, S, j)
    BY <1>2, <1>4, AcceptedAt
  <2>3. r.job = j /\ job[j].state # "ACCEPTED"
    BY <1>2, <2>1, <2>2 DEF Judged
  <2> QED BY <2>3 DEF AcceptedIffReleased
<1> QED BY <1>3, <1>4

(* The second entry of an acceptance, and no other, is its receipt. *)
LEMMA ReceiptOfNew ==
  ASSUME NEW q, NEW h, NEW t, NEW S, Shaped(q, h, t, S), TypeOK, TypeOK',
         AcceptedIffReleased, ReleasesReceipted,
         NEW j \in Jobs, Judged(q, h, S, j), job'[j].state = "ACCEPTED",
         NEW r, r = ReleaseOf(j), NEW n \in 1..(q + h + t)
  PROVE  Receipts(n, r)' <=> n = q + 2
<1>1. Grows(q, h, t, S) /\ q \in Nat /\ h \in Nat /\ t \in Nat
  BY DEF Shaped, Grows
<1>2. DOMAIN log = 1..q /\ \A m \in 1..q : log'[m] = log[m]
  BY <1>1, OldEntries DEF Grows
<1>3. r.job = j /\ j # 0 /\ r.stream = job[j].stream /\ r.revision = stream[job[j].stream].revision + 1
  BY DEF ReleaseOf, Jobs
<1>4. CASE n \in 1..q
  <2> SUFFICES ASSUME Receipts(n, r)' PROVE FALSE
    BY <1>1, <1>4
  <2>1. log[n].to = "ACCEPTED" /\ log[n].job = j
    BY <1>2, <1>3, <1>4 DEF Receipts
  <2>2. PICK r0 \in releases : Receipts(n, r0)
    BY <1>2, <1>4, <2>1 DEF ReleasesReceipted
  <2>3. r0.job = j
    BY <2>1, <2>2 DEF Receipts
  <2>4. job[j].state # "ACCEPTED"
    BY DEF Judged
  <2> QED BY <2>3, <2>4 DEF AcceptedIffReleased
<1>5. CASE n = q + 2
  <2>1. /\ log'[n].stream = job[j].stream /\ log'[n].job = j /\ log'[n].to = "ACCEPTED"
        /\ log'[n].revision = stream[job[j].stream].revision + 1
    BY <1>5 DEF Judged
  <2>2. Receipts(n, r)'
    BY <1>3, <2>1 DEF Receipts
  <2> QED BY <1>5, <2>2
<1>6. CASE n \in (q + 1)..(q + h + t) /\ n # q + 2
  <2> SUFFICES ASSUME Receipts(n, r)' PROVE FALSE
    BY <1>6
  <2>1. log'[n].to = "ACCEPTED"
    BY <1>3 DEF Receipts
  <2> QED BY <1>6, <2>1, AcceptedAt
<1> QED BY <1>1, <1>4, <1>5, <1>6

(* The releases of a step, and what is left to its verdict. *)
LEMMA ReleasesAfter ==
  ASSUME NEW q, NEW h, NEW t, NEW S, Shaped(q, h, t, S)
  PROVE  \/ releases' = releases
         \/ \E j \in Jobs : /\ Judged(q, h, S, j) /\ job'[j].state = "ACCEPTED"
                            /\ releases' = releases \cup {ReleaseOf(j)}
BY DEF Shaped, Plain, Controlled, Judged

LEMMA ReleasesReceiptedStep ==
  ASSUME NEW q, NEW h, NEW t, NEW S, Shaped(q, h, t, S), TypeOK, TypeOK',
         AcceptedIffReleased, ReleasesReceipted
  PROVE  ReleasesReceipted'
<1>1. Grows(q, h, t, S) /\ q \in Nat /\ h \in Nat /\ t \in Nat
  BY DEF Shaped, Grows
<1>2. DOMAIN log = 1..q /\ DOMAIN log' = 1..(q + h + t) /\ \A m \in 1..q : log'[m] = log[m]
  BY <1>1, OldEntries DEF Grows
<1>3. \A n \in 1..(q + h + t) : n \in 1..q \/ n \in (q + 1)..(q + h + t)
  BY <1>1
<1>4. \A n \in 1..q : n \in 1..(q + h + t)
  BY <1>1
<1>5. ASSUME NEW r, NEW n \in 1..q PROVE Receipts(n, r)' <=> Receipts(n, r)
  BY <1>2 DEF Receipts
<1>6. releases \subseteq releases'
  BY ReleasesAfter
<1>7. ASSUME NEW r \in releases'
      PROVE  \E n \in 1..(q + h + t) : \A m \in 1..(q + h + t) : Receipts(m, r)' <=> m = n
  <2>1. CASE r \in releases
    <3>1. PICK n \in 1..q : \A m \in 1..q : Receipts(m, r) <=> m = n
      BY <1>2, <2>1 DEF ReleasesReceipted
    <3>2. n \in 1..(q + h + t) /\ n \notin (q + 1)..(q + h + t)
      BY <1>1
    <3>3. ASSUME NEW m \in 1..(q + h + t) PROVE Receipts(m, r)' <=> m = n
      <4>1. CASE m \in 1..q
        BY <1>5, <3>1, <4>1
      <4>2. CASE m \in (q + 1)..(q + h + t)
        BY <2>1, <3>2, <4>2, ReceiptsKept
      <4> QED BY <1>3, <4>1, <4>2
    <3> QED BY <3>2, <3>3
  <2>2. CASE r \notin releases
    <3>1. PICK j \in Jobs : Judged(q, h, S, j) /\ job'[j].state = "ACCEPTED" /\ r = ReleaseOf(j)
      BY <1>7, <2>2, ReleasesAfter
    <3>2. q + 2 \in 1..(q + h + t)
      BY <1>1, <3>1 DEF Judged
    <3>3. \A m \in 1..(q + h + t) : Receipts(m, r)' <=> m = q + 2
      BY <3>1, ReceiptOfNew
    <3> QED BY <3>2, <3>3
  <2> QED BY <2>1, <2>2
<1>8. ASSUME NEW n \in 1..(q + h + t), log'[n].to = "ACCEPTED"
      PROVE  \E r \in releases' : Receipts(n, r)'
  <2>1. CASE n \in 1..q
    <3>1. PICK r \in releases : Receipts(n, r)
      BY <1>2, <1>8, <2>1 DEF ReleasesReceipted
    <3> QED BY <1>5, <1>6, <2>1, <3>1
  <2>2. CASE n \in (q + 1)..(q + h + t)
    <3>1. n = q + 2
      BY <1>8, <2>2, AcceptedAt
    <3>2. PICK j \in Jobs : Judged(q, h, S, j) /\ job'[j].state = "ACCEPTED"
      BY <1>8, <2>2, AcceptedAt
    <3>3. ReleaseOf(j) \in releases'
      BY <3>2 DEF Judged
    <3>4. \A r : r = ReleaseOf(j) => Receipts(n, r)'
      BY <3>1, <3>2, ReceiptOfNew
    <3>5. PICK r : r = ReleaseOf(j)
      OBVIOUS
    <3> QED BY <3>3, <3>4, <3>5
  <2> QED BY <1>3, <2>1, <2>2
<1> QED BY <1>2, <1>7, <1>8 DEF ReleasesReceipted

-----------------------------------------------------------------------------
(* Every transaction has this shape. *)

(* The last t of the h + t entries of new move the jobs of S, one each. *)
RowsAfter(new, h, t, S) ==
  /\ new \in Seq(Entry) /\ h \in Nat /\ t \in Nat /\ Len(new) = h + t
  /\ \A i \in (h + 1)..(h + t) : RowEntry(new[i], S)
  /\ \A i, k \in (h + 1)..(h + t) : new[i].job = new[k].job => i = k
  /\ \A j \in S : \E i \in (h + 1)..(h + t) : new[i].job = j

LEMMA Growth ==
  ASSUME log \in Seq(Entry), NEW new, NEW h, NEW t, NEW S, RowsAfter(new, h, t, S),
         log' = log \o new, created <= created', S \subseteq 1..created', S \subseteq Jobs,
         NEW q, q = Len(log)
  PROVE  Grows(q, h, t, S)
<1>1. /\ new \in Seq(Entry) /\ h \in Nat /\ t \in Nat /\ Len(new) = h + t
  BY DEF RowsAfter
<1>2. /\ log' \in Seq(Entry) /\ Len(log') = q + (h + t) /\ q \in Nat
      /\ \A n \in 1..q : log'[n] = log[n]
      /\ \A i \in 1..(h + t) : log'[q + i] = new[i]
  BY <1>1, Positions
<1>3. Len(log') = q + h + t
  BY <1>1, <1>2
<1>5. \A n \in (q + h + 1)..(q + h + t) :
        n - q \in (h + 1)..(h + t) /\ n - q \in 1..(h + t) /\ q + (n - q) = n
  BY <1>1, <1>2
<1>6. \A n \in (q + h + 1)..(q + h + t) : log'[n] = new[n - q]
  BY <1>2, <1>5
<1>7. \A n \in (q + h + 1)..(q + h + t) : RowEntry(log'[n], S)
  BY <1>5, <1>6 DEF RowsAfter
<1>8. ASSUME NEW m \in (q + h + 1)..(q + h + t), NEW n \in (q + h + 1)..(q + h + t),
             log'[m].job = log'[n].job
      PROVE  m = n
  <2>1. /\ m - q \in (h + 1)..(h + t) /\ n - q \in (h + 1)..(h + t)
        /\ m = q + (m - q) /\ n = q + (n - q)
    BY <1>5
  <2>2. new[m - q].job = new[n - q].job
    BY <1>6, <1>8
  <2>3. \A i, k \in (h + 1)..(h + t) : new[i].job = new[k].job => i = k
    BY DEF RowsAfter
  <2>4. m - q = n - q
    BY <2>1, <2>2, <2>3
  <2> QED BY <2>1, <2>4
<1>9. ASSUME NEW j \in S PROVE \E n \in (q + h + 1)..(q + h + t) : log'[n].job = j
  <2>1. PICK i \in (h + 1)..(h + t) : new[i].job = j
    BY DEF RowsAfter
  <2>2. q + i \in (q + h + 1)..(q + h + t) /\ log'[q + i] = new[i]
    BY <1>1, <1>2
  <2> QED BY <2>1, <2>2
<1>10. RowEntries((q + h + 1)..(q + h + t), S)
  BY <1>7, <1>8, <1>9 DEF RowEntries
<1> QED BY <1>1, <1>2, <1>3, <1>10 DEF Grows

(* Where the first entries, which are not about rows of S, come to stand. *)
LEMMA HeadAt ==
  ASSUME log \in Seq(Entry), NEW new, NEW h, NEW t, NEW S, RowsAfter(new, h, t, S),
         log' = log \o new, NEW q, q = Len(log)
  PROVE  /\ h = 1 => log'[q + 1] = new[1]
         /\ h = 2 => log'[q + 1] = new[1] /\ log'[q + 2] = new[2]
<1>1. new \in Seq(Entry) /\ h \in Nat /\ t \in Nat /\ Len(new) = h + t
  BY DEF RowsAfter
<1>2. \A i \in 1..h : i \in 1..Len(new)
  BY <1>1
<1>3. \A i \in 1..h : log'[q + i] = new[i]
  BY <1>1, <1>2, Positions
<1>4. 1 \in 1..1 /\ 1 \in 1..2 /\ 2 \in 1..2
  OBVIOUS
<1> QED BY <1>3, <1>4

(* A step that appends nothing. *)
LEMMA SilentShape ==
  ASSUME log \in Seq(Entry), log' = log, stream' = stream, releases' = releases,
         created <= created', \A j \in Jobs : job'[j].state = job[j].state
  PROVE  LogShape
<1>1. RowsAfter(<<>>, 0, 0, {})
  BY DEF RowsAfter
<1>2. log' = log \o <<>> /\ Len(log) \in Nat
  OBVIOUS
<1>3. Grows(Len(log), 0, 0, {})
  BY <1>1, <1>2, Growth
<1>4. Plain(0, {})
  BY DEF Plain, KeptRows
<1> QED BY <1>2, <1>3, <1>4 DEF LogShape, Shaped

(* A step that moves one job and appends one entry about it. *)
LEMMA OneEntryShape ==
  ASSUME log \in Seq(Entry), NEW e \in Entry, NEW j \in Jobs, log' = log \o <<e>>,
         e.job = j, e.from = job[j].state, e.to = job'[j].state,
         e.to \notin {"ACCEPTED", "COMMITTING"},
         stream' = stream, releases' = releases, created <= created', j \in 1..created',
         \A i \in Jobs : i # j => job'[i].state = job[i].state
  PROVE  LogShape
<1> DEFINE new == <<e>>
           S == {j}
<1>1. RowsAfter(new, 0, 1, S)
  BY DEF RowsAfter, RowEntry
<1>2. log' = log \o new /\ S \subseteq 1..created' /\ S \subseteq Jobs /\ S \in SUBSET Jobs
  OBVIOUS
<1>3. Plain(0, S)
  BY DEF Plain, KeptRows
<1> HIDE DEF new, S
<1>4. Grows(Len(log), 0, 1, S)
  BY <1>1, <1>2, Growth
<1>5. Len(log) \in Nat
  OBVIOUS
<1> QED BY <1>2, <1>3, <1>4, <1>5 DEF LogShape, Shaped

(* h entries, and then a listing of the jobs of S. *)
LEMMA ListedShape ==
  ASSUME NEW S \in SUBSET Jobs, NEW order \in Orders(S), NEW list,
         list = [i \in DOMAIN order |-> list[i]],
         \A i \in DOMAIN order : list[i] \in Entry /\ list[i].job = order[i] /\ RowEntry(list[i], S),
         NEW head \in Seq(Entry), NEW h, h = Len(head)
  PROVE  /\ RowsAfter(head \o list, h, Cardinality(S), S)
         /\ \A i \in 1..h : (head \o list)[i] = head[i]
<1> DEFINE t == Cardinality(S)
           new == head \o list
<1>1. /\ t \in Nat /\ DOMAIN order = 1..t
      /\ \A i \in 1..t : order[i] \in S
      /\ \A i, k \in 1..t : order[i] = order[k] => i = k
      /\ \A x \in S : \E i \in 1..t : order[i] = x
  BY FiniteRows, OrderPlaces
<1> HIDE DEF t
<1>2. list \in Seq(Entry) /\ Len(list) = t
  <2>1. list = [i \in 1..t |-> list[i]]
    BY <1>1
  <2>2. \A i \in 1..t : list[i] \in Entry
    BY <1>1
  <2> HIDE DEF t
  <2>3. list \in Seq(Entry)
    BY <1>1, <2>1, <2>2
  <2>4. DOMAIN list = 1..t
    BY <2>1
  <2> QED BY <1>1, <2>3, <2>4
<1>3. /\ new \in Seq(Entry) /\ Len(new) = h + t /\ h \in Nat
      /\ \A i \in 1..t : new[h + i] = list[i]
      /\ \A i \in 1..h : new[i] = head[i]
  <2> HIDE DEF t
  <2>1. h \in Nat /\ t \in Nat /\ h = Len(head) /\ t = Len(list)
    BY <1>1, <1>2
  <2>2. new \in Seq(Entry) /\ Len(new) = Len(head) + Len(list)
    BY <1>2
  <2>3. \A i \in 1..Len(list) : new[Len(head) + i] = list[i]
    BY <1>2
  <2>4. \A i \in 1..Len(head) : new[i] = head[i]
    BY <1>2
  <2> QED BY <2>1, <2>2, <2>3, <2>4
<1> HIDE DEF new
<1>4. \A i \in (h + 1)..(h + t) : i - h \in 1..t /\ h + (i - h) = i
  BY <1>1, <1>3
<1>5. ASSUME NEW i \in (h + 1)..(h + t) PROVE new[i] = list[i - h]
  <2>1. i - h \in 1..t /\ h + (i - h) = i
    BY <1>4
  <2>2. \A k \in 1..t : new[h + k] = list[k]
    BY <1>3
  <2>3. new[h + (i - h)] = list[i - h]
    BY <2>1, <2>2
  <2> QED BY <2>1, <2>3
<1>6. \A i \in (h + 1)..(h + t) : RowEntry(new[i], S) /\ new[i].job = order[i - h]
  BY <1>1, <1>4, <1>5
<1>7. ASSUME NEW i \in (h + 1)..(h + t), NEW k \in (h + 1)..(h + t), new[i].job = new[k].job
      PROVE  i = k
  <2>1. i - h = k - h
    BY <1>1, <1>4, <1>6, <1>7
  <2> QED BY <1>1, <1>3, <2>1
<1>8. ASSUME NEW j \in S PROVE \E i \in (h + 1)..(h + t) : new[i].job = j
  <2>1. PICK k \in 1..t : order[k] = j
    BY <1>1
  <2>2. h + k \in (h + 1)..(h + t) /\ (h + k) - h = k
    BY <1>1, <1>3
  <2> QED BY <1>6, <2>1, <2>2
<1> QED BY <1>1, <1>3, <1>6, <1>7, <1>8 DEF RowsAfter, new, t

-----------------------------------------------------------------------------
(* The transactions one by one. *)

LEMMA JobEntryType ==
  ASSUME TypeOK, NEW j \in Jobs, NEW from \in States, NEW to \in States
  PROVE  /\ JobEntry(j, from, to) \in Entry
         /\ JobEntry(j, from, to).job = j /\ JobEntry(j, from, to).from = from
         /\ JobEntry(j, from, to).to = to
         /\ JobEntry(j, from, to).stream = job[j].stream
         /\ JobEntry(j, from, to).revision = job[j].rev
<1>1. job[j].stream \in Streams /\ job[j].rev \in Nat /\ j \in 0..MaxJobs
  BY ConstantsAssumption DEF TypeOK, Job, Jobs
<1> QED BY <1>1 DEF JobEntry, Entry

LEMMA StreamEntryType ==
  ASSUME NEW s \in Streams, NEW from \in States, NEW to \in States, NEW n \in Nat
  PROVE  StreamEntry(s, from, to, n) \in Entry
BY ConstantsAssumption DEF StreamEntry, Entry

LEMMA JobStates ==
  ASSUME TypeOK
  PROVE  \A j \in Jobs : job[j] \in Job /\ job[j].state \in States
BY DEF TypeOK, Job, States

LEMMA UnloggedShape ==
  ASSUME TypeOK, LogTypeOK, Unlogged, Silent
  PROVE  LogShape
<1>1. stream' = stream /\ releases' = releases /\ created' = created /\ created <= created'
  <2>1. stream' = stream /\ releases' = releases /\ created' = created
    BY DEF Unlogged, SubmitCheck, SubmitAbort, LeaseExpires, RotateTrust, PickOldest,
           LeaseRaceLost, Evaluate, LoseLease, Heartbeat, Crash
  <2> QED BY <2>1, ConstantsAssumption DEF TypeOK
<1>2. \A j \in Jobs : job'[j].state = job[j].state
  <2>1. CASE job' = job
    BY <2>1
  <2>2. CASE \E j \in Jobs : LeaseExpires(j)
    <3>1. PICK j \in Jobs : job' = [job EXCEPT ![j] = [job[j] EXCEPT !.lease = "expired"]]
      BY <2>2 DEF LeaseExpires
    <3> QED BY <3>1, JobStates DEF TypeOK, Job
  <2>3. CASE \E w \in Workers : Heartbeat(w)
    <3>1. PICK w \in Workers : Heartbeat(w)
      BY <2>3
    <3> DEFINE j == wk[w].job
    <3>2. j \in Jobs
      BY <3>1, HeldJob DEF Heartbeat
    <3>3. job' = [job EXCEPT ![j] = [job[j] EXCEPT !.lease = "live"]]
      BY <3>1, SMTT(30) DEF Heartbeat
    <3> HIDE DEF j
    <3> QED BY <3>2, <3>3, JobStates DEF TypeOK, Job
  <2> QED BY <2>1, <2>2, <2>3
          DEF Unlogged, SubmitCheck, SubmitAbort, RotateTrust, PickOldest,
              LeaseRaceLost, Evaluate, LoseLease, Crash
<1> QED BY <1>1, <1>2, SilentShape DEF LogTypeOK, Silent

LEMMA SubmitLogged ==
  ASSUME TypeOK, LogTypeOK, NEW c \in Clients, LoggedSubmit(c)
  PROVE  LogShape
<1> DEFINE n == created + 1
           e == QueuedEntry(c)
<1>1. n \in Jobs /\ n \in 0..MaxJobs /\ created \in Nat /\ created' = n
  BY ConstantsAssumption DEF TypeOK, Jobs, LoggedSubmit, SubmitCommit
<1>2. NewJob(client[c]) \in Job /\ NewJob(client[c]).state = "QUEUED"
  BY NewJobRow DEF TypeOK
<1>3. job'[n] = NewJob(client[c]) /\ \A i \in Jobs : i # n => job'[i] = job[i]
  BY <1>1, <1>2 DEF TypeOK, LoggedSubmit, SubmitCommit
<1>4. job[n].state = "NONE"
  BY <1>1 DEF TypeOK
<1>5. e \in Entry /\ e.job = n /\ e.from = "NONE" /\ e.to = "QUEUED"
  BY <1>1 DEF QueuedEntry, Entry, TypeOK, Request, States, Pending
<1>6. log' = log \o <<e>> /\ stream' = stream /\ releases' = releases /\ log \in Seq(Entry)
  BY DEF LoggedSubmit, SubmitCommit, Journal, LogTypeOK
<1>7. created <= created' /\ n \in 1..created'
  BY <1>1
<1> HIDE DEF n, e
<1> QED BY <1>1, <1>2, <1>3, <1>4, <1>5, <1>6, <1>7, OneEntryShape

(* A transaction that writes one row of table jobs. *)
LEMMA MovedShape ==
  ASSUME TypeOK, LogTypeOK, NEW j \in Jobs, NEW r \in Job, job[j].state # "NONE",
         r.state \in States, r.state \notin {"NONE", "ACCEPTED", "COMMITTING"},
         job' = [job EXCEPT ![j] = r], UNCHANGED <<stream, releases, created>>,
         NEW e, e = JobEntry(j, job[j].state, r.state), Journal(<<e>>)
  PROVE  LogShape
<1>1. job'[j] = r /\ \A i \in Jobs : i # j => job'[i] = job[i]
  BY OneRowType
<1>2. e \in Entry /\ e.job = j /\ e.from = job[j].state /\ e.to = r.state
  BY JobStates, JobEntryType
<1>3. created' = created /\ created \in Nat
  BY ConstantsAssumption DEF TypeOK
<1>4. created <= created' /\ j \in 1..created'
  BY <1>3 DEF TypeOK, Jobs
<1> QED BY <1>1, <1>2, <1>4, OneEntryShape DEF LogTypeOK, Journal

LEMMA CancelLogged ==
  ASSUME TypeOK, LogTypeOK, NEW j \in Jobs, LoggedCancel(j)
  PROVE  LogShape
<1> DEFINE r == Fenced(job[j], "CANCELLED")
<1>1. r \in Job /\ r.state = "CANCELLED" /\ "CANCELLED" \in States
  BY JobStates, FencedRow DEF Terminal, States
<1>2. job[j].state # "NONE"
  BY DEF LoggedCancel, CancelJob, IsPending, Pending
<1>3. job' = [job EXCEPT ![j] = r] /\ UNCHANGED <<stream, releases, created>>
  BY DEF LoggedCancel, CancelJob
<1>4. Journal(<<JobEntry(j, job[j].state, r.state)>>)
  BY <1>1 DEF LoggedCancel
<1> HIDE DEF r
<1> QED BY <1>1, <1>2, <1>3, <1>4, MovedShape

LEMMA LeaseLogged ==
  ASSUME TypeOK, LogTypeOK, NEW w \in Workers, LoggedLease(w)
  PROVE  LogShape
<1> DEFINE j == wk[w].job
           r == Granted(job[j], w)
<1>1. j \in Jobs
  BY ConstantsAssumption, SMTT(30) DEF TypeOK, LoggedLease, Lease, Jobs
<1>2. r \in Job /\ r.state = "FILTERING" /\ "FILTERING" \in States
  BY <1>1, JobStates, GrantedRow DEF Pending, States
<1>3. job[j].state = "QUEUED"
  BY DEF LoggedLease, Lease
<1>4. job' = [job EXCEPT ![j] = r] /\ UNCHANGED <<stream, releases, created>>
  BY DEF LoggedLease, Lease
<1>5. Journal(<<JobEntry(j, job[j].state, r.state)>>)
  BY <1>2, <1>3 DEF LoggedLease
<1> HIDE DEF j, r
<1> QED BY <1>1, <1>2, <1>3, <1>4, <1>5, MovedShape

LEMMA AdvanceLogged ==
  ASSUME TypeOK, LogTypeOK, NEW w \in Workers, LoggedAdvance(w)
  PROVE  LogShape
<1> DEFINE j == wk[w].job
           r == [job[j] EXCEPT !.state = "SCORING"]
<1>1. j \in Jobs /\ job[j] \in Job
  BY HeldJob DEF LoggedAdvance, Advance, LeasePcs
<1>2. r \in Job /\ r.state = "SCORING" /\ "SCORING" \in States
  BY <1>1 DEF Job, Pending, States
<1>3. job[j].state = "FILTERING"
  BY DEF LoggedAdvance, Advance
<1>4. job' = [job EXCEPT ![j] = r] /\ UNCHANGED <<stream, releases, created>>
  BY SMTT(30) DEF LoggedAdvance, Advance
<1>5. Journal(<<JobEntry(j, job[j].state, r.state)>>)
  BY <1>2, <1>3 DEF LoggedAdvance
<1> HIDE DEF j, r
<1> QED BY <1>1, <1>2, <1>3, <1>4, <1>5, MovedShape

LEMMA FailureLogged ==
  ASSUME TypeOK, LogTypeOK, NEW w \in Workers, LoggedFailure(w)
  PROVE  LogShape
<1> DEFINE j == wk[w].job
           r == Released(job[j], "FAILED")
<1>1. j \in Jobs /\ job[j] \in Job /\ job[j].state # "NONE"
  BY HeldJob DEF LoggedFailure, RecordFailure, FinishFailed, LeasePcs
<1>2. r \in Job /\ r.state = "FAILED" /\ "FAILED" \in States
  BY <1>1, ReleasedRow DEF Terminal, States
<1>3. job' = [job EXCEPT ![j] = r] /\ UNCHANGED <<stream, releases, created>>
  BY DEF LoggedFailure, RecordFailure, FinishFailed
<1>4. Journal(<<JobEntry(j, job[j].state, r.state)>>)
  BY <1>2 DEF LoggedFailure
<1> HIDE DEF j, r
<1> QED BY <1>1, <1>2, <1>3, <1>4, MovedShape

LEMMA StaleLogged ==
  ASSUME TypeOK, LogTypeOK, NEW w \in Workers, LoggedStale(w)
  PROVE  LogShape
<1> DEFINE j == wk[w].job
           r == Fenced(job[j], "STALE")
<1>1. j \in Jobs /\ job[j] \in Job /\ job[j].state # "NONE"
  BY HeldJob DEF LoggedStale, FinishStale, LeasePcs
<1>2. r \in Job /\ r.state = "STALE" /\ "STALE" \in States
  BY <1>1, FencedRow DEF Terminal, States
<1>3. job' = [job EXCEPT ![j] = r] /\ UNCHANGED <<stream, releases, created>>
  BY DEF LoggedStale, FinishStale
<1>4. Journal(<<JobEntry(j, job[j].state, r.state)>>)
  BY <1>2 DEF LoggedStale, StaleEntry
<1> HIDE DEF j, r
<1> QED BY <1>1, <1>2, <1>3, <1>4, MovedShape

(* A listing of the jobs of S that a transaction marks stale. *)
LEMMA StaleListing ==
  ASSUME TypeOK, NEW S \in SUBSET Jobs, NEW order \in Orders(S), NEW head \in Seq(Entry),
         \A j \in S : job'[j].state = "STALE", NEW h, h = Len(head)
  PROVE  /\ RowsAfter(head \o Listed(order, StaleEntry), h, Cardinality(S), S)
         /\ \A i \in 1..h : (head \o Listed(order, StaleEntry))[i] = head[i]
<1> DEFINE list == Listed(order, StaleEntry)
<1>1. \A i \in DOMAIN order : order[i] \in S /\ order[i] \in Jobs
  BY FiniteRows, OrderPlaces
<1>2. "STALE" \in States
  BY DEF States, Terminal
<1>3. \A j \in S : /\ StaleEntry(j) \in Entry /\ StaleEntry(j).job = j
                   /\ StaleEntry(j).from = job[j].state /\ StaleEntry(j).to = "STALE"
  BY <1>2, JobStates, JobEntryType DEF StaleEntry
<1>4. list = [i \in DOMAIN order |-> StaleEntry(order[i])]
  BY DEF Listed
<1>5. \A i \in DOMAIN order : list[i] = StaleEntry(order[i])
  BY <1>4
<1>6. list = [i \in DOMAIN order |-> list[i]]
  BY <1>4
<1> HIDE DEF list
<1>7. \A i \in DOMAIN order :
        list[i] \in Entry /\ list[i].job = order[i] /\ RowEntry(list[i], S)
  BY <1>1, <1>3, <1>5 DEF RowEntry
<1>8. /\ RowsAfter(head \o list, h, Cardinality(S), S)
      /\ \A i \in 1..h : (head \o list)[i] = head[i]
  BY <1>6, <1>7, ListedShape
<1> QED BY <1>8 DEF list

LEMMA PauseLogged ==
  ASSUME TypeOK, LogTypeOK, NEW s \in Streams, LoggedPause(s)
  PROVE  LogShape
<1> DEFINE S == PendingOn(s)
           e == StreamEntry(s, stream[s].state, "PAUSED", stream[s].revision + 1)
           head == <<e>>
<1>1. S \in SUBSET Jobs /\ S \subseteq Jobs
  BY DEF PendingOn
<1>2. PICK order \in Orders(S) : Journal(head \o Listed(order, StaleEntry))
  BY DEF LoggedPause
<1>3. stream[s].state = "ACTIVE" /\ stream[s].revision \in Nat
  BY DEF TypeOK, StreamRow, LoggedPause, PauseStream
<1>4. e \in Entry /\ e.stream = s /\ e.job = 0 /\ e.from = stream[s].state
      /\ e.to = "PAUSED" /\ e.revision = stream[s].revision + 1
  <2>1. stream[s].revision + 1 \in Nat /\ "ACTIVE" \in States /\ "PAUSED" \in States
    BY <1>3 DEF States, StreamStates
  <2> QED BY <1>3, <2>1, StreamEntryType DEF StreamEntry
<1>5. /\ stream' = [stream EXCEPT ![s] = Switched(@, "PAUSED")] /\ releases' = releases
      /\ job' = MarkStale(job, S) /\ created' = created
  BY DEF LoggedPause, PauseStream
<1>6. /\ stream'[s].state = "PAUSED" /\ stream'[s].revision = stream[s].revision + 1
      /\ \A u \in Streams : u # s => stream'[u] = stream[u]
  BY <1>5 DEF TypeOK, Switched
<1>7. created \in Nat /\ created <= created' /\ S \subseteq 1..created'
  <2>1. \A j \in S : job[j].state # "NONE"
    BY DEF PendingOn, IsPending, Pending
  <2> QED BY <1>1, <1>5, <2>1, ConstantsAssumption DEF TypeOK, Jobs
<1> HIDE DEF S, e
<1>8. /\ \A j \in Jobs : j \in S => job'[j].state = "STALE"
      /\ \A j \in Jobs : j \notin S => job'[j].state = job[j].state
  BY <1>5, MarkStaleRows, FencedRow DEF TypeOK, Terminal
<1>9. head \in Seq(Entry) /\ Len(head) = 1 /\ head[1] = e
  BY <1>4
<1> HIDE DEF head
<1> DEFINE new == head \o Listed(order, StaleEntry)
           t == Cardinality(S)
           q == Len(log)
<1>10. RowsAfter(new, 1, t, S) /\ new[1] = e
  <2>1. /\ RowsAfter(new, 1, t, S)
        /\ \A i \in 1..1 : new[i] = head[i]
    BY <1>1, <1>8, <1>9, StaleListing
  <2> HIDE DEF new
  <2> QED BY <1>9, <2>1
<1>11. log' = log \o new /\ log \in Seq(Entry)
  BY <1>2 DEF Journal, LogTypeOK
<1> HIDE DEF new, t
<1>12. Grows(q, 1, t, S) /\ log'[q + 1] = e
  <2>1. q = Len(log)
    OBVIOUS
  <2> HIDE DEF q
  <2>2. Grows(q, 1, t, S)
    BY <1>1, <1>7, <1>10, <1>11, <2>1, Growth
  <2>3. log'[q + 1] = new[1]
    BY <1>1, <1>7, <1>10, <1>11, <2>1, HeadAt
  <2> QED BY <1>10, <2>2, <2>3
<1>13. Controlled(q, 1, S, s)
  BY <1>4, <1>5, <1>6, <1>8, <1>12 DEF Controlled, KeptRows
<1>14. q \in Nat /\ t \in Nat
  BY <1>12 DEF Grows
<1> QED BY <1>1, <1>12, <1>13, <1>14 DEF LogShape, Shaped

LEMMA ResumeLogged ==
  ASSUME TypeOK, LogTypeOK, NEW s \in Streams, LoggedResume(s)
  PROVE  LogShape
<1> DEFINE e == StreamEntry(s, stream[s].state, "ACTIVE", stream[s].revision + 1)
           new == <<e>>
           S == {}
           q == Len(log)
<1>1. stream[s].state = "PAUSED" /\ stream[s].revision \in Nat
  BY DEF TypeOK, StreamRow, LoggedResume, ResumeStream
<1>2. e \in Entry /\ e.stream = s /\ e.job = 0 /\ e.from = stream[s].state
      /\ e.to = "ACTIVE" /\ e.revision = stream[s].revision + 1
  <2>1. stream[s].revision + 1 \in Nat /\ "ACTIVE" \in States /\ "PAUSED" \in States
    BY <1>1 DEF States, StreamStates
  <2> QED BY <1>1, <2>1, StreamEntryType DEF StreamEntry
<1>3. /\ stream' = [stream EXCEPT ![s] = Switched(@, "ACTIVE")] /\ releases' = releases
      /\ job' = job /\ created' = created
  BY DEF LoggedResume, ResumeStream
<1>4. /\ stream'[s].state = "ACTIVE" /\ stream'[s].revision = stream[s].revision + 1
      /\ \A u \in Streams : u # s => stream'[u] = stream[u]
  BY <1>3 DEF TypeOK, Switched
<1>5. created <= created' /\ S \subseteq 1..created' /\ S \subseteq Jobs
  BY <1>3, ConstantsAssumption DEF TypeOK
<1>6. log' = log \o new /\ log \in Seq(Entry)
  BY DEF LoggedResume, Journal, LogTypeOK
<1> HIDE DEF e
<1>7. RowsAfter(new, 1, 0, S) /\ new[1] = e
  BY <1>2 DEF RowsAfter
<1> HIDE DEF new
<1>8. Grows(q, 1, 0, S) /\ log'[q + 1] = e
  <2>1. q = Len(log)
    OBVIOUS
  <2> HIDE DEF q
  <2>2. Grows(q, 1, 0, S)
    BY <1>5, <1>6, <1>7, <2>1, Growth
  <2>3. log'[q + 1] = new[1]
    BY <1>5, <1>6, <1>7, <2>1, HeadAt
  <2> QED BY <1>7, <2>2, <2>3
<1>9. Controlled(q, 1, S, s)
  BY <1>2, <1>3, <1>4, <1>8 DEF Controlled, KeptRows
<1>10. q \in Nat
  BY <1>8 DEF Grows
<1> QED BY <1>5, <1>8, <1>9, <1>10 DEF LogShape, Shaped

LEMMA RejectLogged ==
  ASSUME TypeOK, LogTypeOK, NEW w \in Workers, LoggedReject(w)
  PROVE  LogShape
<1> DEFINE j == wk[w].job
           s == job[j].stream
           e == JobEntry(j, job[j].state, "COMMITTING")
           f == JobEntry(j, "COMMITTING", "REJECTED")
           new == <<e, f>>
           S == {}
           q == Len(log)
<1>1. /\ j \in Jobs /\ job[j] \in Job /\ job[j].state # "NONE"
      /\ job[j].state \notin Terminal
  BY HeldJob DEF LoggedReject, FinishReject, LeasePcs
<1>2. s \in Streams /\ stream[s].state = "ACTIVE" /\ stream[s].revision = job[j].rev
  BY <1>1 DEF LoggedReject, FinishReject, StaleAtFinish, Job
<1>3. /\ job' = [job EXCEPT ![j] = Released(job[j], "REJECTED")]
      /\ UNCHANGED <<stream, releases, created>>
  BY DEF LoggedReject, FinishReject
<1>4. log' = log \o new /\ log \in Seq(Entry)
  BY DEF LoggedReject, Journal, LogTypeOK
<1> HIDE DEF j
<1>5. job[j].state # "ACCEPTED"
  BY <1>1 DEF Terminal
<1>6. "COMMITTING" \in States /\ "REJECTED" \in States
  BY DEF States, Terminal
<1>7. /\ e \in Entry /\ e.job = j /\ e.from = job[j].state /\ e.to = "COMMITTING"
      /\ e.stream = s /\ e.revision = job[j].rev
      /\ f \in Entry /\ f.job = j /\ f.from = "COMMITTING" /\ f.to = "REJECTED"
      /\ f.stream = s
  BY <1>1, <1>6, JobStates, JobEntryType
<1>8. Released(job[j], "REJECTED") \in Job /\ Released(job[j], "REJECTED").state = "REJECTED"
  BY <1>1, ReleasedRow DEF Terminal
<1>9. job'[j].state = "REJECTED" /\ \A i \in Jobs : i # j => job'[i].state = job[i].state
  BY <1>1, <1>3, <1>8 DEF TypeOK
<1>10. created <= created' /\ j \in 1..created' /\ S \subseteq 1..created' /\ S \subseteq Jobs
  BY <1>1, <1>3, ConstantsAssumption DEF TypeOK, Jobs
<1> HIDE DEF e, f
<1>11. RowsAfter(new, 2, 0, S) /\ new[1] = e /\ new[2] = f
  BY <1>7 DEF RowsAfter
<1> HIDE DEF new
<1>12. Grows(q, 2, 0, S) /\ log'[q + 1] = e /\ log'[q + 2] = f
  <2>1. q = Len(log)
    OBVIOUS
  <2> HIDE DEF q
  <2>2. Grows(q, 2, 0, S)
    BY <1>4, <1>10, <1>11, <2>1, Growth
  <2>3. log'[q + 1] = new[1] /\ log'[q + 2] = new[2]
    BY <1>4, <1>10, <1>11, <2>1, HeadAt
  <2> QED BY <1>11, <2>2, <2>3
<1>13. KeptRows(S \cup {j})
  BY <1>9 DEF KeptRows
<1>14. Judged(q, 2, S, j)
  BY <1>1, <1>2, <1>3, <1>5, <1>7, <1>9, <1>10, <1>12, <1>13 DEF Judged
<1>15. q \in Nat
  BY <1>12 DEF Grows
<1> QED BY <1>1, <1>10, <1>12, <1>14, <1>15 DEF LogShape, Shaped

LEMMA AcceptLogged ==
  ASSUME TypeOK, LogTypeOK, NEW w \in Workers, LoggedAccept(w)
  PROVE  LogShape
<1> DEFINE j == wk[w].job
           s == job[j].stream
           S == PendingOn(s) \ {j}
           e == JobEntry(j, job[j].state, "COMMITTING")
           f == AcceptedEntry(j)
           head == <<e, f>>
           q == Len(log)
           t == Cardinality(S)
<1>1. FinishAccept(w)
  BY DEF LoggedAccept
<1>2. /\ j \in Jobs /\ s \in Streams
      /\ job[j].state \notin Terminal
      /\ stream[s] \in StreamRow /\ stream[s].state = "ACTIVE" /\ stream[s].revision = job[j].rev
      /\ releases' = releases \cup {ReleaseOf(j)}
      /\ stream' = [stream EXCEPT ![s] = HeadMoved(@)]
  BY <1>1, Accepts
<1>3. /\ job[j] \in Job /\ IsPending(j) /\ job'[j] = Released(job[j], "ACCEPTED")
      /\ \A i \in Jobs : i # j => job'[i] = MarkStale(job, S)[i]
  BY <1>1, AcceptRows
<1>4. PICK order \in Orders(S) : Journal(head \o Listed(order, StaleEntry))
  BY DEF LoggedAccept
<1>5. created' = created
  BY <1>1 DEF FinishAccept
<1>6. S \in SUBSET Jobs /\ S \subseteq Jobs /\ j \notin S /\ \A i \in S : IsPending(i)
  BY DEF PendingOn
<1> HIDE DEF j
<1>7. /\ created <= created' /\ j \in 1..created' /\ S \subseteq 1..created'
  <2>1. created \in Nat /\ \A i \in Jobs : IsPending(i) => i \in 1..created
    BY ConstantsAssumption DEF TypeOK, Jobs, IsPending, Pending
  <2> HIDE DEF S
  <2> QED BY <1>2, <1>3, <1>5, <1>6, <2>1
<1>8. job[j].state # "ACCEPTED" /\ job'[j].state = "ACCEPTED"
  BY <1>2, <1>3, ReleasedRow DEF Terminal
<1> HIDE DEF S
<1>9. /\ \A i \in S : job'[i].state = "STALE"
      /\ \A i \in Jobs : i \notin S \cup {j} => job'[i].state = job[i].state
  BY <1>3, <1>6, MarkStaleRows, FencedRow DEF TypeOK, Terminal
<1>10. KeptRows(S \cup {j})
  BY <1>9 DEF KeptRows
<1>11. stream[s].revision + 1 \in Nat /\ "COMMITTING" \in States /\ "ACCEPTED" \in States
  BY <1>2 DEF StreamRow, States, Terminal
<1>12. /\ e \in Entry /\ e.job = j /\ e.from = job[j].state /\ e.to = "COMMITTING"
       /\ e.stream = s /\ e.revision = job[j].rev
  BY <1>2, <1>11, JobStates, JobEntryType
<1>13. /\ f \in Entry /\ f.job = j /\ f.from = "COMMITTING" /\ f.to = "ACCEPTED"
       /\ f.stream = s /\ f.revision = stream[s].revision + 1
  <2>1. /\ JobEntry(j, "COMMITTING", "ACCEPTED") \in Entry
        /\ JobEntry(j, "COMMITTING", "ACCEPTED").job = j
        /\ JobEntry(j, "COMMITTING", "ACCEPTED").from = "COMMITTING"
        /\ JobEntry(j, "COMMITTING", "ACCEPTED").to = "ACCEPTED"
        /\ JobEntry(j, "COMMITTING", "ACCEPTED").stream = s
    BY <1>2, <1>11, JobEntryType
  <2> QED BY <1>11, <2>1 DEF AcceptedEntry, Entry
<1>14. /\ stream'[s].state = "ACTIVE" /\ stream'[s].revision = stream[s].revision + 1
       /\ \A u \in Streams : u # s => stream'[u] = stream[u]
  BY <1>2 DEF TypeOK, HeadMoved
<1> HIDE DEF e, f
<1>15. head \in Seq(Entry) /\ Len(head) = 2 /\ head[1] = e /\ head[2] = f
  BY <1>12, <1>13
<1> HIDE DEF head
<1> DEFINE new == head \o Listed(order, StaleEntry)
<1>16. RowsAfter(new, 2, t, S) /\ new[1] = e /\ new[2] = f
  <2>1. /\ RowsAfter(new, 2, t, S)
        /\ \A i \in 1..2 : new[i] = head[i]
    BY <1>6, <1>9, <1>15, StaleListing
  <2> HIDE DEF new
  <2> QED BY <1>15, <2>1
<1>17. log' = log \o new /\ log \in Seq(Entry)
  BY <1>4 DEF Journal, LogTypeOK
<1> HIDE DEF new, t
<1>18. Grows(q, 2, t, S) /\ log'[q + 1] = e /\ log'[q + 2] = f
  <2>1. q = Len(log)
    OBVIOUS
  <2> HIDE DEF q
  <2>2. Grows(q, 2, t, S)
    BY <1>6, <1>7, <1>16, <1>17, <2>1, Growth
  <2>3. log'[q + 1] = new[1] /\ log'[q + 2] = new[2]
    BY <1>6, <1>7, <1>16, <1>17, <2>1, HeadAt
  <2> QED BY <1>16, <2>2, <2>3
<1> HIDE DEF s
<1>19. Judged(q, 2, S, j)
  BY <1>2, <1>6, <1>7, <1>8, <1>10, <1>12, <1>13, <1>14, <1>18 DEF Judged, s
<1>20. q \in Nat /\ t \in Nat
  BY <1>18 DEF Grows
<1> QED BY <1>2, <1>6, <1>18, <1>19, <1>20 DEF LogShape, Shaped

LEMMA TickLogged ==
  ASSUME TypeOK, LogTypeOK, NEW w \in Workers, LoggedTick(w)
  PROVE  LogShape
<1> DEFINE S == Expired
           t == Cardinality(S)
           q == Len(log)
<1>1. PICK order \in Orders(S) : Journal(Listed(order, RecoveredEntry))
  BY DEF LoggedTick
<1> DEFINE list == Listed(order, RecoveredEntry)
           new == <<>> \o list
<1>2. S \in SUBSET Jobs /\ S \subseteq Jobs /\ \A j \in S : job[j].state \in Leased
  BY DEF Expired
<1>3. /\ \A j \in Jobs : job'[j] = IF j \in S THEN Recovered(job[j]) ELSE job[j]
      /\ UNCHANGED <<stream, releases, created>>
  BY DEF LoggedTick, Tick
<1>4. \A j \in Jobs : Recovered(job[j]).state \in {"QUEUED", "FAILED"}
  BY ReleasedRow, FencedRow DEF Recovered, Pending, Terminal, TypeOK
<1>5. created \in Nat /\ created <= created' /\ S \subseteq 1..created'
  <2>1. \A j \in S : job[j].state # "NONE"
    BY <1>2 DEF Leased
  <2> HIDE DEF S
  <2> QED BY <1>2, <1>3, <2>1, ConstantsAssumption DEF TypeOK, Jobs
<1> HIDE DEF S
<1>6. \A i \in DOMAIN order : order[i] \in S /\ order[i] \in Jobs
  BY <1>2, FiniteRows, OrderPlaces
<1>7. "QUEUED" \in States /\ "FAILED" \in States
  BY DEF States, Pending, Terminal
<1>8. \A j \in Jobs : /\ RecoveredEntry(j) \in Entry /\ RecoveredEntry(j).job = j
                      /\ RecoveredEntry(j).from = job[j].state
                      /\ RecoveredEntry(j).to = Recovered(job[j]).state
  BY <1>4, <1>7, JobStates, JobEntryType DEF RecoveredEntry
<1>9. list = [i \in DOMAIN order |-> RecoveredEntry(order[i])]
  BY DEF Listed
<1>10. \A i \in DOMAIN order : list[i] = RecoveredEntry(order[i])
  BY <1>9
<1>11. list = [i \in DOMAIN order |-> list[i]]
  BY <1>9
<1> HIDE DEF list
<1>12. \A i \in DOMAIN order :
         list[i] \in Entry /\ list[i].job = order[i] /\ RowEntry(list[i], S)
  BY <1>3, <1>4, <1>6, <1>8, <1>10 DEF RowEntry
<1>13. RowsAfter(new, 0, t, S)
  <2>1. <<>> \in Seq(Entry) /\ Len(<<>>) = 0
    OBVIOUS
  <2> QED BY <1>2, <1>11, <1>12, <2>1, ListedShape
<1>14. log' = log \o new /\ log \in Seq(Entry)
  <2>1. log' = log \o list /\ log \in Seq(Entry)
    BY <1>1 DEF Journal, LogTypeOK, list
  <2>2. list \in Seq(Entry)
    <3>1. t \in Nat /\ DOMAIN order = 1..t
      BY <1>2, FiniteRows, OrderPlaces
    <3> HIDE DEF t
    <3> QED BY <1>11, <1>12, <3>1
  <2>3. <<>> \o list = list
    BY <2>2
  <2> QED BY <2>1, <2>3
<1> HIDE DEF new, t
<1>15. Grows(q, 0, t, S)
  <2>1. q = Len(log)
    OBVIOUS
  <2> HIDE DEF q
  <2> QED BY <1>2, <1>5, <1>13, <1>14, <2>1, Growth
<1>16. Plain(0, S)
  BY <1>3 DEF Plain, KeptRows
<1>17. q \in Nat /\ t \in Nat
  BY <1>15 DEF Grows
<1> QED BY <1>2, <1>15, <1>16, <1>17 DEF LogShape, Shaped

LEMMA StepLogged ==
  ASSUME TypeOK, LogTypeOK, [PipelineNext]_pipelineVars
  PROVE  LogShape
<1>1. CASE UNCHANGED pipelineVars
  <2>1. /\ log' = log /\ stream' = stream /\ releases' = releases /\ job' = job
        /\ created' = created
    BY <1>1 DEF pipelineVars
  <2>2. created <= created'
    BY <2>1, ConstantsAssumption DEF TypeOK
  <2> QED BY <2>1, <2>2, SilentShape DEF LogTypeOK
<1>2. CASE Unlogged /\ Silent
  BY <1>2, UnloggedShape
<1>3. ASSUME NEW c \in Clients, LoggedSubmit(c) PROVE LogShape
  BY <1>3, SubmitLogged
<1>4. ASSUME NEW j \in Jobs, LoggedCancel(j) PROVE LogShape
  BY <1>4, CancelLogged
<1>5. ASSUME NEW s \in Streams, LoggedPause(s) \/ LoggedResume(s) PROVE LogShape
  BY <1>5, PauseLogged, ResumeLogged
<1>6. ASSUME NEW w \in Workers, LoggedWork(w) PROVE LogShape
  <2>1. CASE LoggedLease(w) \/ LoggedAdvance(w) \/ LoggedFailure(w) \/ LoggedStale(w)
    BY <2>1, LeaseLogged, AdvanceLogged, FailureLogged, StaleLogged
  <2>2. CASE LoggedReject(w) \/ LoggedAccept(w) \/ LoggedTick(w)
    BY <2>2, RejectLogged, AcceptLogged, TickLogged
  <2> QED BY <1>6, <2>1, <2>2 DEF LoggedWork
<1> QED BY <1>1, <1>2, <1>3, <1>4, <1>5, <1>6 DEF PipelineNext

-----------------------------------------------------------------------------
(* Logging adds no behaviour. *)

LEMMA StepPlain ==
  ASSUME [PipelineNext]_pipelineVars
  PROVE  [Next]_vars
<1>1. CASE UNCHANGED pipelineVars
  BY <1>1 DEF pipelineVars, vars
<1>2. CASE Unlogged
  <2>1. CASE \E w \in Workers : PickOldest(w) \/ LeaseRaceLost(w) \/ Evaluate(w) \/ LoseLease(w)
    BY <2>1 DEF Next, WorkerStep
  <2>2. CASE \E w \in Workers : Heartbeat(w) \/ Crash(w)
    BY <2>2 DEF Next
  <2>3. CASE RotateTrust \/ \E j \in Jobs : LeaseExpires(j)
    BY <2>3 DEF Next
  <2>4. CASE \E c \in Clients : SubmitCheck(c) \/ SubmitAbort(c)
    BY <2>4 DEF Next
  <2> QED BY <1>2, <2>1, <2>2, <2>3, <2>4 DEF Unlogged
<1>3. CASE \E c \in Clients : LoggedSubmit(c)
  BY <1>3 DEF LoggedSubmit, Next
<1>4. CASE \E j \in Jobs : LoggedCancel(j)
  BY <1>4 DEF LoggedCancel, Next
<1>5. CASE \E s \in Streams : LoggedPause(s) \/ LoggedResume(s)
  BY <1>5 DEF LoggedPause, LoggedResume, Next
<1>6. CASE \E w \in Workers : LoggedWork(w)
  <2>1. PICK w \in Workers : LoggedWork(w)
    BY <1>6
  <2>2. WorkerStep(w)
    BY <2>1 DEF LoggedWork, LoggedLease, LoggedAdvance, LoggedFailure, LoggedStale,
           LoggedReject, LoggedAccept, LoggedTick, WorkerStep
  <2> QED BY <2>2 DEF Next
<1> QED BY <1>1, <1>2, <1>3, <1>4, <1>5, <1>6 DEF PipelineNext

(* Every step with its entries is a step of JobService or none, so that    *)
(* what is proved of the jobs there can be used of the pipeline with a log. *)
LEMMA PipelineIsJobService == PipelineSpec => Spec
<1>1. PipelineInit => Init
  BY DEF PipelineInit
<1>2. [PipelineNext]_pipelineVars => [Next]_vars
  BY StepPlain
<1> QED BY <1>1, <1>2, PTL DEF PipelineSpec, Spec

LEMMA PipelineTyped == PipelineSpec => []TypeOK
BY PipelineIsJobService, TypeCorrect, PTL

-----------------------------------------------------------------------------
(* The first entries: the creation of the streams. *)

Opened(n) ==
  /\ log[n].stream \in Streams /\ log[n].job = 0
  /\ log[n].from = "NONE" /\ log[n].to = "ACTIVE" /\ log[n].revision = 0

LEMMA InitEntries ==
  ASSUME PipelineInit
  PROVE  /\ log \in Seq(Entry)
         /\ \A n \in DOMAIN log : Opened(n)
         /\ \A m, n \in DOMAIN log : log[m].stream = log[n].stream => m = n
         /\ \A s \in Streams : \E n \in DOMAIN log : log[n].stream = s
         /\ DOMAIN log \subseteq Int
<1>1. PICK order \in Orders(Streams) :
        log = Listed(order, LAMBDA s : StreamEntry(s, "NONE", "ACTIVE", 0))
  BY DEF PipelineInit
<1>2. log = [i \in DOMAIN order |-> StreamEntry(order[i], "NONE", "ACTIVE", 0)]
  BY <1>1 DEF Listed
<1> DEFINE t == Cardinality(Streams)
<1>3. /\ t \in Nat /\ DOMAIN order = 1..t
      /\ \A i \in 1..t : order[i] \in Streams
      /\ \A i, k \in 1..t : order[i] = order[k] => i = k
      /\ \A x \in Streams : \E i \in 1..t : order[i] = x
  BY StreamsAssumption, OrderPlaces
<1> HIDE DEF t
<1>4. "NONE" \in States /\ "ACTIVE" \in States /\ 0 \in Nat
  BY DEF States, StreamStates
<1>5. \A s \in Streams : StreamEntry(s, "NONE", "ACTIVE", 0) \in Entry
  BY <1>4, StreamEntryType
<1>6. DOMAIN log = 1..t /\ \A i \in 1..t : log[i] = StreamEntry(order[i], "NONE", "ACTIVE", 0)
  BY <1>2, <1>3
<1>7. \A i \in 1..t : Opened(i) /\ log[i].stream = order[i] /\ log[i] \in Entry
  BY <1>3, <1>5, <1>6 DEF Opened, StreamEntry
<1>8. log \in Seq(Entry)
  <2>1. log = [i \in 1..t |-> log[i]]
    BY <1>2, <1>3
  <2> QED BY <1>3, <1>7, <2>1
<1> QED BY <1>3, <1>6, <1>7, <1>8

LEMMA ReplayInit == PipelineInit => LogTypeOK /\ JobsReplay /\ StreamsReplay
<1> SUFFICES ASSUME PipelineInit PROVE LogTypeOK /\ JobsReplay /\ StreamsReplay
  OBVIOUS
<1>1. Init
  BY DEF PipelineInit
<1>2. LogTypeOK
  BY <1>1, InitEntries DEF LogTypeOK, Opened, Init
<1>3. JobsReplay
  <2> SUFFICES ASSUME NEW j \in Jobs PROVE Leads(AboutJob(j), From, To, "NONE", job[j].state)
    BY DEF JobsReplay
  <2>1. job[j].state = "NONE"
    BY <1>1 DEF Init, Blank
  <2>2. AboutJob(j) = {}
    BY InitEntries DEF AboutJob, Opened, Jobs
  <2> QED BY <2>1, <2>2 DEF Leads
<1>4. StreamsReplay
  <2> SUFFICES ASSUME NEW s \in Streams
               PROVE  /\ Leads(Controls(s), From, To, "NONE", stream[s].state)
                      /\ Leads(Moves(s), RevBefore, Revision, -1, stream[s].revision)
    BY DEF StreamsReplay
  <2>1. stream[s].state = "ACTIVE" /\ stream[s].revision = 0
    BY <1>1 DEF Init
  <2>2. PICK n \in DOMAIN log : log[n].stream = s
    BY InitEntries
  <2>3. n \in Int /\ Opened(n)
    BY InitEntries
  <2>4. Controls(s) = {n} /\ Moves(s) = {n}
    BY <2>2, InitEntries DEF Controls, Moves, Opened
  <2>5. From[n] = "NONE" /\ To[n] = "ACTIVE" /\ RevBefore[n] = -1 /\ Revision[n] = 0
    BY <2>3 DEF From, To, RevBefore, Revision, Opened
  <2>6. Leads({n}, From, To, "NONE", "ACTIVE")
    BY <2>3, <2>5 DEF Leads
  <2>7. Leads({n}, RevBefore, Revision, -1, 0)
    BY <2>3, <2>5 DEF Leads
  <2> QED BY <2>1, <2>4, <2>6, <2>7
<1> QED BY <1>2, <1>3, <1>4

LEMMA VerdictsInit ==
  PipelineInit => VerdictsCurrent /\ CommitsInOneStep /\ ReleasesReceipted
<1> SUFFICES ASSUME PipelineInit PROVE VerdictsCurrent /\ CommitsInOneStep /\ ReleasesReceipted
  OBVIOUS
<1>1. \A n \in DOMAIN log : log[n].to \notin {"COMMITTING", "ACCEPTED"}
  BY InitEntries DEF Opened
<1>2. VerdictsCurrent /\ CommitsInOneStep
  BY <1>1 DEF VerdictsCurrent, CommitsInOneStep
<1>3. releases = {GenesisRow(s) : s \in Streams}
  BY DEF PipelineInit, Init
<1>4. ASSUME NEW r \in releases
      PROVE  \E n \in DOMAIN log : \A m \in DOMAIN log : Receipts(m, r) <=> m = n
  <2>1. PICK s \in Streams : r = GenesisRow(s)
    BY <1>3
  <2>2. r.stream = s /\ r.job = 0 /\ r.revision = 0
    BY <2>1 DEF GenesisRow
  <2>3. PICK n \in DOMAIN log : log[n].stream = s
    BY InitEntries
  <2>4. \A m \in DOMAIN log : Opened(m) /\ (log[m].stream = s <=> m = n)
    BY <2>3, InitEntries
  <2> QED BY <2>2, <2>4 DEF Receipts, Opened
<1> QED BY <1>1, <1>2, <1>4 DEF ReleasesReceipted

-----------------------------------------------------------------------------
(* The log is a sequence of entries about jobs that exist. *)
THEOREM LogTypeCorrect == PipelineSpec => []LogTypeOK
<1>1. PipelineInit => LogTypeOK
  BY ReplayInit
<1>2. TypeOK /\ TypeOK' /\ LogTypeOK /\ [PipelineNext]_pipelineVars => LogTypeOK'
  <2> SUFFICES ASSUME TypeOK, TypeOK', LogTypeOK, [PipelineNext]_pipelineVars PROVE LogTypeOK'
    OBVIOUS
  <2>1. PICK q \in Nat, h \in Nat, t \in Nat, S \in SUBSET Jobs : Shaped(q, h, t, S)
    BY StepLogged DEF LogShape
  <2> QED BY <2>1, LogTypeStep
<1> QED BY <1>1, <1>2, PipelineTyped, PTL DEF PipelineSpec

(* The life of every job can be replayed from the log, without a gap and   *)
(* up to the state the table has: no transaction changes a job and its log *)
(* apart, or twice.                                                        *)
THEOREM JobsReplayCorrect == PipelineSpec => []JobsReplay
<1>1. PipelineInit => JobsReplay
  BY ReplayInit
<1>2. TypeOK /\ LogTypeOK /\ JobsReplay /\ [PipelineNext]_pipelineVars => JobsReplay'
  <2> SUFFICES ASSUME TypeOK, LogTypeOK, JobsReplay, [PipelineNext]_pipelineVars
               PROVE  JobsReplay'
    OBVIOUS
  <2>1. PICK q \in Nat, h \in Nat, t \in Nat, S \in SUBSET Jobs : Shaped(q, h, t, S)
    BY StepLogged DEF LogShape
  <2> QED BY <2>1, JobsReplayStep
<1> QED BY <1>1, <1>2, PipelineTyped, LogTypeCorrect, PTL DEF PipelineSpec

(* So can the state and the revision of every stream, whose revisions the  *)
(* log hands out one by one.                                               *)
THEOREM StreamsReplayCorrect == PipelineSpec => []StreamsReplay
<1>1. PipelineInit => StreamsReplay
  BY ReplayInit
<1>2. TypeOK /\ LogTypeOK /\ StreamsReplay /\ [PipelineNext]_pipelineVars => StreamsReplay'
  <2> SUFFICES ASSUME TypeOK, LogTypeOK, StreamsReplay, [PipelineNext]_pipelineVars
               PROVE  StreamsReplay'
    OBVIOUS
  <2>1. PICK q \in Nat, h \in Nat, t \in Nat, S \in SUBSET Jobs : Shaped(q, h, t, S)
    BY StepLogged DEF LogShape
  <2> QED BY <2>1, StreamsReplayStep
<1> QED BY <1>1, <1>2, PipelineTyped, LogTypeCorrect, PTL DEF PipelineSpec

(* COMMITTING is left by the very next entry. *)
THEOREM CommitsInOneStepCorrect == PipelineSpec => []CommitsInOneStep
<1>1. PipelineInit => CommitsInOneStep
  BY VerdictsInit
<1>2. TypeOK /\ TypeOK' /\ LogTypeOK /\ CommitsInOneStep /\ [PipelineNext]_pipelineVars
        => CommitsInOneStep'
  <2> SUFFICES ASSUME TypeOK, TypeOK', LogTypeOK, CommitsInOneStep,
                      [PipelineNext]_pipelineVars
               PROVE  CommitsInOneStep'
    OBVIOUS
  <2>1. PICK q \in Nat, h \in Nat, t \in Nat, S \in SUBSET Jobs : Shaped(q, h, t, S)
    BY StepLogged DEF LogShape
  <2> QED BY <2>1, CommitsInOneStepStep
<1> QED BY <1>1, <1>2, PipelineTyped, LogTypeCorrect, PTL DEF PipelineSpec

(* Whoever reads the log alone can see that no verdict was committed       *)
(* against a head that had moved or a stream that was paused.              *)
THEOREM VerdictsCurrentCorrect == PipelineSpec => []VerdictsCurrent
<1>1. PipelineInit => VerdictsCurrent
  BY VerdictsInit
<1>2. TypeOK /\ TypeOK' /\ LogTypeOK /\ StreamsReplay /\ VerdictsCurrent
        /\ [PipelineNext]_pipelineVars => VerdictsCurrent'
  <2> SUFFICES ASSUME TypeOK, TypeOK', LogTypeOK, StreamsReplay, VerdictsCurrent,
                      [PipelineNext]_pipelineVars
               PROVE  VerdictsCurrent'
    OBVIOUS
  <2>1. PICK q \in Nat, h \in Nat, t \in Nat, S \in SUBSET Jobs : Shaped(q, h, t, S)
    BY StepLogged DEF LogShape
  <2> QED BY <2>1, VerdictsCurrentStep
<1> QED BY <1>1, <1>2, PipelineTyped, LogTypeCorrect, StreamsReplayCorrect, PTL
        DEF PipelineSpec

(* Every release has one receipt, and no acceptance is logged without its  *)
(* release.                                                                *)
THEOREM ReleasesReceiptedCorrect == PipelineSpec => []ReleasesReceipted
<1>1. PipelineInit => ReleasesReceipted
  BY VerdictsInit
<1>2. TypeOK /\ TypeOK' /\ LogTypeOK /\ AcceptedIffReleased /\ ReleasesReceipted
        /\ [PipelineNext]_pipelineVars => ReleasesReceipted'
  <2> SUFFICES ASSUME TypeOK, TypeOK', LogTypeOK, AcceptedIffReleased, ReleasesReceipted,
                      [PipelineNext]_pipelineVars
               PROVE  ReleasesReceipted'
    OBVIOUS
  <2>1. PICK q \in Nat, h \in Nat, t \in Nat, S \in SUBSET Jobs : Shaped(q, h, t, S)
    BY StepLogged DEF LogShape
  <2> QED BY <2>1, ReleasesReceiptedStep
<1>3. PipelineSpec => []AcceptedIffReleased
  BY PipelineIsJobService, AcceptedIffReleasedCorrect, PTL
<1> QED BY <1>1, <1>2, <1>3, PipelineTyped, LogTypeCorrect, PTL DEF PipelineSpec
=============================================================================
