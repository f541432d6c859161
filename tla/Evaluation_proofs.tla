-------------------------- MODULE Evaluation_proofs --------------------------
(***************************************************************************)
(* Proofs about Evaluation, for all texts, references, documents, policies *)
(* within POLICY_BOUNDS and limits.                                        *)
(***************************************************************************)
EXTENDS Evaluation, FiniteSetTheorems, TLAPS

-----------------------------------------------------------------------------
(* Features and the near-duplicate relation *)

(* The image of a sequence is finite, and as large as the sequence is long *)
(* when nothing repeats.                                                   *)
LEMMA RangeFinite ==
  ASSUME NEW T, NEW s \in Seq(T)
  PROVE  /\ IsFiniteSet(RangeOf(s))
         /\ RangeOf(s) \subseteq T
         /\ (\A i, j \in DOMAIN s : s[i] = s[j] => i = j) => Cardinality(RangeOf(s)) = Len(s)
<1>1. /\ Len(s) \in Nat /\ DOMAIN s = 1..Len(s)
      /\ s \in [1..Len(s) -> T]
  OBVIOUS
<1>2. IsFiniteSet(1..Len(s)) /\ Cardinality(1..Len(s)) = Len(s)
  BY <1>1, FS_Interval
<1>3. s \in Surjection(1..Len(s), RangeOf(s))
  BY <1>1 DEF Surjection, RangeOf
<1>4. ASSUME \A i, j \in DOMAIN s : s[i] = s[j] => i = j
      PROVE  s \in Injection(1..Len(s), RangeOf(s))
  BY <1>1, <1>3, <1>4 DEF Injection, Surjection, IsInjective
<1>5. RangeOf(s) \subseteq T
  BY <1>1 DEF RangeOf
<1> QED BY <1>2, <1>3, <1>4, <1>5, FS_Surjection

LEMMA FeaturesFinite ==
  ASSUME NEW c \in Contents
  PROVE  /\ IsFiniteSet(Features[c])
         /\ SizeOf(c) \in Nat
         /\ Tokens(c) # <<>> => Features[c] # {}
<1>1. /\ Tokens(c) \in Seq(Words)
      /\ Len(Tokens(c)) \in Nat
      /\ DOMAIN Tokens(c) = 1..Len(Tokens(c))
  BY EvaluationAssumption
<1> DEFINE D == DOMAIN Tokens(c)
           U == {<<Tokens(c)[i]>> : i \in D}
           B == {<<Tokens(c)[i - 1], Tokens(c)[i]>> : i \in D \ {1}}
           u == [i \in D |-> <<Tokens(c)[i]>>]
           b == [i \in D \ {1} |-> <<Tokens(c)[i - 1], Tokens(c)[i]>>]
<1>2. Features[c] = U \cup B
  BY DEF Features
<1>3. IsFiniteSet(D) /\ IsFiniteSet(D \ {1})
  <2>1. IsFiniteSet(1..Len(Tokens(c)))
    BY <1>1, FS_Interval
  <2>2. IsFiniteSet(D)
    BY <1>1, <2>1
  <2> QED BY <2>2, FS_RemoveElement
<1>4. u \in Surjection(D, U) /\ b \in Surjection(D \ {1}, B)
  BY DEF Surjection
<1>5. IsFiniteSet(U) /\ IsFiniteSet(B)
  BY <1>3, <1>4, FS_Surjection
<1>6. IsFiniteSet(Features[c])
  BY <1>2, <1>5, FS_Union
<1>7. ASSUME Tokens(c) # <<>>
      PROVE  1 \in D
  BY <1>1, <1>7
<1> QED BY <1>2, <1>6, <1>7, FS_CardinalityType DEF SizeOf

(* What two texts have in common is no more than either has. *)
LEMMA CommonBounds ==
  ASSUME NEW c \in Contents, NEW d \in Contents
  PROVE  /\ Common(c, d) \in Nat
         /\ Common(c, d) = Common(d, c)
         /\ Common(c, d) <= SizeOf(c) /\ Common(c, d) <= SizeOf(d)
         /\ Common(c, d) # 0 => Features[c] \cap Features[d] # {}
         /\ Features[c] # {} => SizeOf(c) # 0
<1> DEFINE X == Features[c]  Y == Features[d]
<1>1. IsFiniteSet(X) /\ IsFiniteSet(Y) /\ IsFiniteSet(X \cap Y)
  BY FeaturesFinite, FS_Intersection
<1>2. X \cap Y = Y \cap X
  OBVIOUS
<1>3. /\ Cardinality(X \cap Y) \in Nat
      /\ Cardinality(X \cap Y) <= Cardinality(X) /\ Cardinality(X \cap Y) <= Cardinality(Y)
  BY <1>1, FS_Intersection, FS_CardinalityType
<1>4. X \cap Y = {} => Cardinality(X \cap Y) = 0
  BY FS_EmptySet
<1>5. X # {} => Cardinality(X) # 0
  BY <1>1, FS_EmptySet
<1> QED BY <1>2, <1>3, <1>4, <1>5 DEF Common, SizeOf

LEMMA NearSymmetric ==
  ASSUME NEW c \in Contents, NEW d \in Contents
  PROVE  <<c, d>> \in Near <=> <<d, c>> \in Near
<1>1. /\ SizeOf(c) \in Nat /\ SizeOf(d) \in Nat /\ Common(c, d) \in Nat
      /\ Common(c, d) = Common(d, c)
  BY FeaturesFinite, CommonBounds
<1>2. SizeOf(c) + SizeOf(d) = SizeOf(d) + SizeOf(c)
  BY <1>1
<1> QED BY <1>1, <1>2 DEF Near

(* The filter on sizes never skips a near duplicate.                       *)
LEMMA NeverPrefiltered ==
  ASSUME NEW c \in Contents, NEW d \in Contents, <<c, d>> \in Near
  PROVE  ~Prefiltered(c, d)
<1> DEFINE k == Common(c, d)  a == SizeOf(c)  b == SizeOf(d)
<1>1. a \in Nat /\ b \in Nat /\ k \in Nat /\ k <= a /\ k <= b
  BY FeaturesFinite, CommonBounds
<1>2. 20 * k >= 19 * (a + b - k)
  BY DEF Near, NearDuplicate
<1>3. 39 * SmallerSize(c, d) >= 19 * (a + b)
  <2> HIDE DEF k, a, b
  <2>1. 39 * k >= 19 * (a + b)
    BY <1>1, <1>2
  <2>2. (IF a < b THEN a ELSE b) >= k /\ (IF a < b THEN a ELSE b) \in Nat
    BY <1>1
  <2> QED BY <1>1, <2>1, <2>2 DEF SmallerSize, a, b
<1>4. SmallerSize(c, d) \in Nat
  BY <1>1 DEF SmallerSize
<1> QED BY <1>1, <1>3, <1>4 DEF Prefiltered

(* filter.py skips pairs by an index over features and a filter on sizes;  *)
(* as long as one of the texts has a token it finds every near duplicate   *)
(* all the same, the threshold 39/2 being what 19/20 of a union comes to.  *)
THEOREM IndexSound ==
  \A c, d \in Contents :
    Tokens(c) # <<>> \/ Tokens(d) # <<>> => (<<c, d>> \in Found <=> <<c, d>> \in Near)
<1>a. Found \subseteq Near
  BY DEF Found
<1> SUFFICES ASSUME NEW c \in Contents, NEW d \in Contents,
                    Tokens(c) # <<>> \/ Tokens(d) # <<>>, <<c, d>> \in Near
             PROVE  <<c, d>> \in Found
  BY <1>a
<1> DEFINE k == Common(c, d)  a == SizeOf(c)  b == SizeOf(d)
<1>1. a \in Nat /\ b \in Nat /\ k \in Nat
  BY FeaturesFinite, CommonBounds
<1>2. 20 * k >= 19 * (a + b - k)
  BY DEF Near, NearDuplicate
<1>3. a # 0 \/ b # 0
  <2>1. Features[c] # {} \/ Features[d] # {}
    BY FeaturesFinite
  <2>2. /\ Features[c] # {} => SizeOf(c) # 0
        /\ Features[d] # {} => SizeOf(d) # 0
    BY CommonBounds
  <2> QED BY <2>1, <2>2
<1>4. k # 0
  <2> HIDE DEF k, a, b
  <2>1. ASSUME k = 0 PROVE a + b <= 0
    BY <1>1, <1>2, <2>1
  <2> QED BY <1>1, <1>3, <2>1
<1>5. Features[c] \cap Features[d] # {}
  BY <1>4, CommonBounds
<1> QED BY <1>5, NeverPrefiltered DEF Found

-----------------------------------------------------------------------------
(* Type correctness *)

LEMMA CodesKnown ==
  ASSUME NEW r
  PROVE  /\ \A categories : Flaw(r, categories) \in ExclusionCodes \cup {"none"}
         /\ DuplicateCode(r) \in ExclusionCodes \cup {"none"}
BY DEF Flaw, DuplicateCode, ExclusionCodes

LEMMA RangeInType ==
  ASSUME NEW T, NEW s \in Seq(T)
  PROVE  RangeOf(s) \subseteq T
BY RangeFinite

LEMMA LinksTyped ==
  ASSUME NEW R \in SUBSET Record, NEW o \in {"human", "synthetic"}
  PROVE  {Link(r, o) : r \in R}
           \subseteq [id : Nat, content : Contents, origin : {"human", "synthetic"}]
BY DEF Link, Record

LEMMA ProposedTyped ==
  ASSUME TypeOK
  PROVE  /\ Links \subseteq [id : Nat, content : Contents, origin : {"human", "synthetic"}]
         /\ Proposed \subseteq [id : Nat, content : Contents, origin : {"human", "synthetic"}]
<1>1. survivors \in SUBSET Record
  BY RangeInType DEF TypeOK
<1>2. Links \subseteq [id : Nat, content : Contents, origin : {"human", "synthetic"}]
  BY <1>1, LinksTyped DEF Links
<1> QED BY <1>2 DEF Proposed, TypeOK

(* Forget leaves the locals of an evaluation well typed. *)
LEMMA ForgetTyped ==
  ASSUME Forget
  PROVE  /\ doc' \in Seq(Record) /\ mode' \in {"mix", "replace"} /\ pc' = "idle"
         /\ eligible' = {} /\ todo' = {} /\ survivors' = {} /\ excluded' = {}
         /\ decision' = NoDecision
<1>1. <<>> \in Seq(Record)
  OBVIOUS
<1> QED BY <1>1 DEF Forget

(* The decision is one of the three. *)
LEMMA DecidedTyped ==
  ASSUME NEW v \in {"accept", "reject", "error"}, NEW R, NEW M, Decided(v, R, M)
  PROVE  pc' = "decided" /\ decision'.verdict \in {"none", "accept", "reject", "error"}
BY DEF Decided

LEMMA VerdictTyped == \A R : Verdict(R) \in {"accept", "reject", "error"}
BY DEF Verdict

(* What evaluate holds at each stage *)
Staged ==
  /\ pc = "unregistered" => revision = 0 /\ corpus = {}
  /\ pc \notin {"unregistered", "idle"} => revision < MaxRevision
  /\ pc \in {"unregistered", "idle", "checking"} => eligible = {} /\ excluded = {}
  /\ pc \notin {"dedup", "decided"} => todo = {} /\ survivors = {}
  /\ pc # "decided" => decision = NoDecision

TypeInv == TypeOK /\ Staged

LEMMA InitTyped == Init => TypeInv
<1> SUFFICES ASSUME Init PROVE TypeInv
  OBVIOUS
<1>1. reference \in [train : Seq(Record), holdout : Seq(Record)] /\ doc \in Seq(Record)
  BY DEF Init
<1>2. revision \in 0..MaxRevision
  BY LimitAssumption DEF Init
<1>3. eligible = {} /\ excluded = {} /\ todo = {} /\ survivors = {} /\ corpus = {}
  BY DEF Init
<1>4. TypeOK
  BY <1>1, <1>2, <1>3 DEF Init, TypeOK, NoDecision
<1>5. Staged
  BY DEF Init, Staged
<1> QED BY <1>4, <1>5 DEF TypeInv

LEMMA StepTyped == TypeInv /\ [Next]_evalVars => TypeInv'
<1> SUFFICES ASSUME TypeInv, [Next]_evalVars PROVE TypeInv'
  OBVIOUS
<1> USE DEF TypeInv, TypeOK, Staged
<1>0. CASE UNCHANGED evalVars
  BY <1>0 DEF evalVars
<1>1. ASSUME NEW ref \in References, Register(ref) PROVE TypeInv'
  <2>1. ref \in [train : Seq(Record), holdout : Seq(Record)]
    BY EvaluationAssumption
  <2>2. RangeOf(ref.train) \in SUBSET Record
    BY <2>1, RangeInType
  <2>3. corpus' = {Link(r, "human") : r \in RangeOf(ref.train)}
    BY <1>1 DEF Register
  <2>4. corpus' \subseteq [id : Nat, content : Contents, origin : {"human", "synthetic"}]
    BY <2>2, <2>3, LinksTyped
  <2> QED BY <1>1, <2>1, <2>4 DEF Register
<1>2. ASSUME NEW d \in Documents, NEW m \in {"mix", "replace"}, Submit(d, m) PROVE TypeInv'
  <2>1. d \in Seq(Record)
    BY EvaluationAssumption
  <2>2. eligible' = {} /\ excluded' = {} /\ todo' = {} /\ survivors' = {}
    BY <1>2 DEF Submit
  <2> QED BY <1>2, <2>1, <2>2 DEF Submit
<1>3. CASE RefuseDocument
  BY <1>3, DecidedTyped DEF RefuseDocument, requestVars
<1>4. CASE Sift
  <2> DEFINE flawed == {r \in RangeOf(doc) : Flaw(r, Categories) # "none"}
  <2>1. eligible' = RangeOf(doc) \ flawed
        /\ excluded' = {Exclusion(r, Flaw(r, Categories)) : r \in flawed}
    BY <1>4 DEF Sift
  <2>2. \A r \in flawed : Flaw(r, Categories) \in ExclusionCodes
    BY CodesKnown
  <2>3. excluded' \subseteq [id : {r.id : r \in RangeOf(doc)}, code : ExclusionCodes]
    BY <2>1, <2>2 DEF Exclusion
  <2>4. todo' = {} /\ survivors' = {} /\ doc' = doc
    BY <1>4 DEF Sift, requestVars
  <2> QED BY <1>4, <2>1, <2>3, <2>4 DEF Sift, requestVars
<1>5. CASE RejectLeak
  BY <1>5, DecidedTyped DEF RejectLeak, requestVars
<1>6. CASE StartDedup
  BY <1>6 DEF StartDedup, requestVars
<1>7. ASSUME NEW r \in todo, Compare(r) PROVE TypeInv'
  <2>1. r \in eligible /\ r \in RangeOf(doc)
    OBVIOUS
  <2>2. DuplicateCode(r) # "none" => DuplicateCode(r) \in ExclusionCodes
    BY CodesKnown
  <2>3. DuplicateCode(r) # "none" =>
          Exclusion(r, DuplicateCode(r)) \in [id : {x.id : x \in RangeOf(doc)}, code : ExclusionCodes]
    BY <2>1, <2>2 DEF Exclusion
  <2>4. survivors' \subseteq survivors \cup {r} /\ todo' \subseteq todo
        /\ excluded' \subseteq [id : {x.id : x \in RangeOf(doc)}, code : ExclusionCodes]
    BY <1>7, <2>3 DEF Compare
  <2> QED BY <1>7, <2>1, <2>4 DEF Compare, requestVars
<1>8. CASE DecideEarly
  BY <1>8, DecidedTyped DEF DecideEarly, requestVars, Compared
<1>9. CASE FailMetrics
  BY <1>9, DecidedTyped DEF FailMetrics, requestVars, Compared
<1>10. ASSUME NEW q \in Ratios, NEW p \in Ratios, NEW i \in Increases, Decide(q, p, i)
       PROVE  TypeInv'
  <2>1. pc' = "decided" /\ decision'.verdict \in {"none", "accept", "reject", "error"}
    BY <1>10, VerdictTyped, DecidedTyped DEF Decide
  <2> QED BY <1>10, <2>1 DEF Decide, requestVars, Compared
<1>11. CASE Publish
  <2>1. corpus' \subseteq [id : Nat, content : Contents, origin : {"human", "synthetic"}]
    BY <1>11, ProposedTyped DEF Publish
  <2>2. revision' \in 0..MaxRevision
    BY <1>11, LimitAssumption DEF Publish
  <2> QED BY <1>11, <2>1, <2>2, ForgetTyped DEF Publish, NoDecision
<1>12. CASE Drop
  BY <1>12, ForgetTyped DEF Drop, NoDecision
<1> QED BY <1>0, <1>1, <1>2, <1>3, <1>4, <1>5, <1>6, <1>7, <1>8, <1>9, <1>10, <1>11, <1>12 DEF Next

(* Every evaluation works on records of the document it was given, and     *)
(* corpora hold typed links.                                               *)
THEOREM EvaluationTypeCorrect == Spec => []TypeOK
<1>1. TypeInv => TypeOK
  BY DEF TypeInv
<1> QED BY <1>1, InitTyped, StepTyped, PTL DEF Spec

LEMMA TypeInvCorrect == Spec => []TypeInv
BY InitTyped, StepTyped, PTL DEF Spec

-----------------------------------------------------------------------------
(* Matching *)

LEMMA MatchesSymmetric ==
  ASSUME NEW c \in Contents, NEW d \in Contents
  PROVE  Matches(c, d) <=> Matches(d, c)
BY NearSymmetric DEF Matches, Same

LEMMA EligibleHasTokens ==
  ASSUME NEW r \in Record, NEW categories, Flaw(r, categories) = "none"
  PROVE  Len(Tokens(r.content)) >= 2 /\ Tokens(r.content) # <<>>
<1>1. Len(Tokens(r.content)) \in MinTokens..MaxTokens
  BY DEF Flaw
<1>2. Len(Tokens(r.content)) >= 2
  BY <1>1, LimitAssumption
<1>3. Len(<<>>) = 0
  OBVIOUS
<1> QED BY <1>2, <1>3

(* The code given to a record is "none" exactly when it matches nothing in *)
(* the parent and nothing retained.                                        *)
LEMMA CodeNone ==
  ASSUME TypeOK, NEW r \in Record, Tokens(r.content) # <<>>
  PROVE  DuplicateCode(r) = "none" <=>
           /\ \A p \in corpus : ~Matches(r.content, p.content)
           /\ \A s \in survivors : ~Matches(r.content, s.content)
<1>1. r.content \in Contents /\ (\A p \in corpus : p.content \in Contents)
      /\ (\A s \in survivors : s.content \in Contents)
  <2>1. survivors \subseteq Record
    BY RangeInType DEF TypeOK
  <2> QED BY <2>1 DEF TypeOK, Record
<1>2. \A p \in corpus : <<r.content, p.content>> \in Found <=> <<r.content, p.content>> \in Near
  BY <1>1, IndexSound
<1>3. \A s \in survivors : <<r.content, s.content>> \in Found <=> <<r.content, s.content>> \in Near
  BY <1>1, IndexSound
<1>4. DuplicateCode(r) = "none" <=>
        /\ ~\E p \in corpus : Same(r.content, p.content)
        /\ ~\E s \in survivors : Same(r.content, s.content)
        /\ ~\E p \in corpus : <<r.content, p.content>> \in Found
        /\ ~\E s \in survivors : <<r.content, s.content>> \in Found
  BY DEF DuplicateCode
<1> QED BY <1>2, <1>3, <1>4 DEF Matches

-----------------------------------------------------------------------------
(* The eligible records *)

EligibleInv ==
  /\ \A r \in eligible : Flaw(r, Categories) = "none"
  /\ \A r, s \in eligible : r.id = s.id => r = s
  /\ \A r \in eligible, p \in corpus : r.id = p.id => r.content = p.content
  /\ pc = "dedup" \/ survivors # {} => ~Leaks(eligible)

(* Ascending identifiers are unique. *)
LEMMA AscendingUnique ==
  ASSUME NEW d \in Seq(Record), Ascending(d)
  PROVE  /\ \A r, s \in RangeOf(d) : r.id = s.id => r = s
         /\ \A i, j \in DOMAIN d : d[i] = d[j] => i = j
         /\ IsFiniteSet(RangeOf(d)) /\ Cardinality(RangeOf(d)) = Len(d)
<1>0. DOMAIN d = 1..Len(d) /\ Len(d) \in Nat /\ \A i \in DOMAIN d : d[i] \in Record
  OBVIOUS
<1>1. \A i \in DOMAIN d : d[i].id \in Nat
  BY <1>0 DEF Record
<1>2. \A i, j \in DOMAIN d : d[i].id = d[j].id => i = j
  <2> SUFFICES ASSUME NEW i \in DOMAIN d, NEW j \in DOMAIN d, d[i].id = d[j].id, i # j
               PROVE  FALSE
    OBVIOUS
  <2>1. i < j \/ j < i
    BY <1>0
  <2>2. d[i].id < d[j].id \/ d[j].id < d[i].id
    BY <2>1 DEF Ascending
  <2> QED BY <1>1, <2>2
<1>3. \A i, j \in DOMAIN d : d[i] = d[j] => i = j
  BY <1>2
<1>4. IsFiniteSet(RangeOf(d)) /\ Cardinality(RangeOf(d)) = Len(d)
  BY <1>3, RangeFinite
<1>5. \A r, s \in RangeOf(d) : r.id = s.id => r = s
  BY <1>2 DEF RangeOf
<1> QED BY <1>3, <1>4, <1>5

LEMMA EligibleInit == Init => EligibleInv
BY DEF Init, EligibleInv, Leaks

LEMMA EligibleStep == TypeInv /\ EligibleInv /\ [Next]_evalVars => EligibleInv'
<1> SUFFICES ASSUME TypeInv, EligibleInv, [Next]_evalVars PROVE EligibleInv'
  OBVIOUS
<1> USE DEF TypeInv, Staged
<1>0. ASSUME UNCHANGED <<reference, corpus, eligible>>,
             pc' = "dedup" \/ survivors' # {} => ~Leaks(eligible)
      PROVE  EligibleInv'
  BY <1>0 DEF EligibleInv, Categories, Train, Leaks, Holdout
<1>1. ASSUME eligible' = {} PROVE EligibleInv'
  BY <1>1 DEF EligibleInv, Leaks
<1>2. CASE UNCHANGED evalVars
  BY <1>0, <1>2 DEF evalVars, EligibleInv
<1>3. CASE Sift
  <2>1. ~Malformed(doc) /\ doc' = doc /\ corpus' = corpus /\ reference' = reference
        /\ pc' = "sifted" /\ survivors' = {} /\ survivors' = survivors
    BY <1>3 DEF Sift, requestVars
  <2>2. eligible' = RangeOf(doc) \ {r \in RangeOf(doc) : Flaw(r, Categories) # "none"}
    BY <1>3 DEF Sift
  <2>3. Categories' = Categories
    BY <2>1 DEF Categories, Train
  <2>4. \A r \in eligible' : r \in RangeOf(doc) /\ Flaw(r, Categories) = "none"
    BY <2>2
  <2>5. \A r, s \in eligible' : r.id = s.id => r = s
    <3>1. doc \in Seq(Record)
      BY DEF TypeOK
    <3> QED BY <2>1, <2>4, <3>1, AscendingUnique DEF Malformed
  <2>6. \A r \in eligible', p \in corpus : r.id = p.id => r.content = p.content
    BY <2>1, <2>4 DEF Malformed, Conflicts, RangeOf
  <2> QED BY <2>1, <2>3, <2>4, <2>5, <2>6 DEF EligibleInv
<1>4. ASSUME NEW r \in todo, Compare(r) PROVE EligibleInv'
  <2>1. pc = "dedup" /\ UNCHANGED <<reference, corpus, eligible>>
    BY <1>4 DEF Compare, requestVars
  <2> QED BY <1>0, <2>1 DEF EligibleInv
<1>5. CASE RejectLeak \/ RefuseDocument
  <2>1. survivors' = {} /\ pc' = "decided" /\ UNCHANGED <<reference, corpus, eligible>>
    BY <1>5 DEF RejectLeak, RefuseDocument, requestVars, Decided
  <2> QED BY <1>0, <2>1
<1>6. CASE StartDedup
  <2>1. ~Leaks(eligible) /\ UNCHANGED <<reference, corpus, eligible>>
    BY <1>6 DEF StartDedup, requestVars
  <2> QED BY <1>0, <2>1
<1>7. ASSUME \/ DecideEarly \/ FailMetrics
             \/ \E q \in Ratios, p \in Ratios, i \in Increases : Decide(q, p, i)
      PROVE  EligibleInv'
  <2>1. pc = "dedup" /\ UNCHANGED <<reference, corpus, eligible>>
    BY <1>7 DEF DecideEarly, FailMetrics, Decide, requestVars, Compared
  <2> QED BY <1>0, <2>1 DEF EligibleInv
<1>8. ASSUME NEW ref \in References, Register(ref) PROVE EligibleInv'
  BY <1>1, <1>8 DEF Register
<1>9. ASSUME NEW d \in Documents, NEW m \in {"mix", "replace"}, Submit(d, m) PROVE EligibleInv'
  BY <1>1, <1>9 DEF Submit
<1>10. CASE Publish \/ Drop
  BY <1>1, <1>10 DEF Publish, Drop, Forget
<1> QED BY <1>2, <1>3, <1>4, <1>5, <1>6, <1>7, <1>8, <1>9, <1>10 DEF Next

-----------------------------------------------------------------------------
(* The survivors *)

SurvivorInv ==
  /\ survivors \cap todo = {}
  /\ \A r \in eligible \ todo, s \in todo : Before(r, s)
  /\ \A r \in survivors, p \in corpus : ~Matches(r.content, p.content)
  /\ \A r, s \in survivors : r # s => ~Matches(r.content, s.content)
  /\ SurvivorsKernel

(* Before is a strict order. *)
LEMMA BeforeStrict ==
  ASSUME NEW r \in Record, NEW s \in Record
  PROVE  ~(Before(r, s) /\ Before(s, r))
<1>1. Rank(r.content) \in Nat /\ Rank(s.content) \in Nat /\ r.id \in Nat /\ s.id \in Nat
  BY EvaluationAssumption DEF Record
<1> QED BY <1>1 DEF Before

(* A record that is retained is later than what was retained before and    *)
(* changes none of the earlier verdicts.                                   *)
LEMMA CompareSurvivors ==
  ASSUME TypeInv, EligibleInv, SurvivorInv, NEW r \in todo, Compare(r)
  PROVE  SurvivorInv'
<1> USE DEF TypeInv, TypeOK
<1>1. /\ pc = "dedup" /\ pc' = "dedup" /\ todo' = todo \ {r}
      /\ UNCHANGED <<reference, corpus, eligible>>
      /\ \A s \in todo \ {r} : Before(r, s)
  BY DEF Compare, requestVars
<1>2. /\ DuplicateCode(r) = "none" => survivors' = survivors \cup {r}
      /\ DuplicateCode(r) # "none" => survivors' = survivors
  BY DEF Compare
<1>3. eligible \subseteq Record /\ r \in eligible /\ r \in Record
  BY RangeInType
<1>4. Tokens(r.content) # <<>>
  BY <1>3, EligibleHasTokens DEF EligibleInv
<1>5. DuplicateCode(r) = "none" <=>
        /\ \A p \in corpus : ~Matches(r.content, p.content)
        /\ \A s \in survivors : ~Matches(r.content, s.content)
  BY <1>3, <1>4, CodeNone
<1>6. \A s \in eligible \ todo : Before(s, r) /\ ~Before(r, s)
  BY <1>3, BeforeStrict DEF SurvivorInv
<1>7. ~Before(r, r)
  BY <1>3, BeforeStrict
<1>8. (survivors \cap todo = {})'
  BY <1>1, <1>2 DEF SurvivorInv
<1>9. (\A x \in eligible \ todo, s \in todo : Before(x, s))'
  BY <1>1 DEF SurvivorInv, Before
<1>10. (\A x \in survivors, p \in corpus : ~Matches(x.content, p.content))'
  BY <1>1, <1>2, <1>5 DEF SurvivorInv
<1>11. (\A x, s \in survivors : x # s => ~Matches(x.content, s.content))'
  <2>1. \A s \in survivors : Matches(s.content, r.content) <=> Matches(r.content, s.content)
    BY <1>3, MatchesSymmetric DEF Record
  <2> QED BY <1>2, <1>5, <2>1 DEF SurvivorInv
<1>12. SurvivorsKernel'
  <2> SUFFICES ASSUME NEW x \in eligible \ todo'
               PROVE  x \in survivors' <=>
                        /\ \A p \in corpus : ~Matches(x.content, p.content)
                        /\ \A s \in survivors' : Before(s, x) => ~Matches(x.content, s.content)
    BY <1>1 DEF SurvivorsKernel, Before
  <2>1. CASE x = r
    <3>1. \A s \in survivors : Before(s, r)
      BY <1>6 DEF SurvivorInv
    <3>2. r \notin survivors
      BY DEF SurvivorInv
    <3> QED BY <1>2, <1>5, <1>7, <2>1, <3>1, <3>2
  <2>2. CASE x # r
    <3>1. x \in eligible \ todo
      BY <1>1, <2>2
    <3>2. ~Before(r, x)
      BY <1>6, <3>1
    <3>3. x \in survivors <=>
            /\ \A p \in corpus : ~Matches(x.content, p.content)
            /\ \A s \in survivors : Before(s, x) => ~Matches(x.content, s.content)
      BY <1>1, <3>1 DEF SurvivorInv, SurvivorsKernel
    <3> QED BY <1>2, <2>2, <3>2, <3>3
  <2> QED BY <2>1, <2>2
<1> QED BY <1>8, <1>9, <1>10, <1>11, <1>12 DEF SurvivorInv

LEMMA SurvivorInit == Init => SurvivorInv
BY DEF Init, SurvivorInv, SurvivorsKernel

LEMMA SurvivorStep == TypeInv /\ EligibleInv /\ SurvivorInv /\ [Next]_evalVars => SurvivorInv'
<1> SUFFICES ASSUME TypeInv, EligibleInv, SurvivorInv, [Next]_evalVars PROVE SurvivorInv'
  OBVIOUS
<1> USE DEF TypeInv, Staged
<1>0. ASSUME survivors' = {}, todo' = {}, pc' # "dedup" PROVE SurvivorInv'
  BY <1>0 DEF SurvivorInv, SurvivorsKernel
<1>1. ASSUME UNCHANGED <<corpus, eligible, todo, survivors>>, pc' = pc \/ pc' # "dedup"
      PROVE  SurvivorInv'
  BY <1>1 DEF SurvivorInv, SurvivorsKernel, Before
<1>2. CASE UNCHANGED evalVars
  BY <1>1, <1>2 DEF evalVars
<1>3. ASSUME NEW r \in todo, Compare(r) PROVE SurvivorInv'
  BY <1>3, CompareSurvivors
<1>4. CASE StartDedup
  <2>1. todo' = eligible /\ eligible' = eligible /\ survivors' = {}
    BY <1>4 DEF StartDedup, requestVars
  <2> QED BY <2>1 DEF SurvivorInv, SurvivorsKernel
<1>5. CASE Sift \/ RejectLeak \/ RefuseDocument
  BY <1>0, <1>5 DEF Sift, RejectLeak, RefuseDocument, requestVars, Decided
<1>6. ASSUME \/ DecideEarly \/ FailMetrics
             \/ \E q \in Ratios, p \in Ratios, i \in Increases : Decide(q, p, i)
      PROVE  SurvivorInv'
  BY <1>1, <1>6 DEF DecideEarly, FailMetrics, Decide, requestVars, Decided
<1>7. ASSUME NEW ref \in References, Register(ref) PROVE SurvivorInv'
  BY <1>0, <1>7 DEF Register
<1>8. ASSUME NEW d \in Documents, NEW m \in {"mix", "replace"}, Submit(d, m) PROVE SurvivorInv'
  BY <1>0, <1>8 DEF Submit
<1>9. CASE Publish \/ Drop
  BY <1>0, <1>9 DEF Publish, Drop, Forget
<1> QED BY <1>2, <1>3, <1>4, <1>5, <1>6, <1>7, <1>8, <1>9 DEF Next

(* Deduplication by the index retains exactly the records that match       *)
(* neither the parent nor an earlier survivor.                             *)
THEOREM SurvivorsKernelCorrect == Spec => []SurvivorsKernel
<1>1. SurvivorInv => SurvivorsKernel
  BY DEF SurvivorInv
<1> QED BY <1>1, EligibleInit, EligibleStep, SurvivorInit, SurvivorStep, TypeInvCorrect, PTL DEF Spec

-----------------------------------------------------------------------------
(* The corpora *)

(* What _partition_checks establishes of a partition *)
LEMMA PartitionDistinct ==
  ASSUME NEW d \in Seq(Record), PartitionChecked(d)
  PROVE  /\ \A r, s \in RangeOf(d) : r # s => r.id # s.id /\ ~Matches(r.content, s.content)
         /\ IsFiniteSet(RangeOf(d)) /\ Cardinality(RangeOf(d)) >= PartitionMin
         /\ RangeOf(d) \subseteq Record
<1>1. Ascending(d) /\ Len(d) \in PartitionMin..PartitionMax
  BY DEF PartitionChecked
<1>2. /\ \A r, s \in RangeOf(d) : r.id = s.id => r = s
      /\ IsFiniteSet(RangeOf(d)) /\ Cardinality(RangeOf(d)) >= PartitionMin
  BY <1>1, AscendingUnique, LimitAssumption
<1>3. DOMAIN d = 1..Len(d) /\ Len(d) \in Nat /\ \A i \in DOMAIN d : d[i] \in Record
  OBVIOUS
<1>4. \A i \in DOMAIN d : d[i].content \in Contents
  BY <1>3 DEF Record
<1>5. \A i, j \in DOMAIN d : i < j => ~Matches(d[j].content, d[i].content)
  BY <1>4, NeverPrefiltered DEF PartitionChecked, Matches
<1>6. \A i, j \in DOMAIN d : i # j => ~Matches(d[j].content, d[i].content)
  <2> SUFFICES ASSUME NEW i \in DOMAIN d, NEW j \in DOMAIN d, i # j
               PROVE  ~Matches(d[j].content, d[i].content)
    OBVIOUS
  <2>1. i < j \/ j < i
    BY <1>3
  <2> QED BY <1>4, <1>5, <2>1, MatchesSymmetric
<1>7. \A r, s \in RangeOf(d) : r # s => ~Matches(r.content, s.content)
  BY <1>6 DEF RangeOf
<1> QED BY <1>2, <1>3, <1>7 DEF RangeOf

CorpusInv ==
  /\ CorpusDistinct
  /\ CorpusNeverLeaks
  /\ \A r \in corpus : \/ \E t \in Train : t.content = r.content
                      \/ Len(Tokens(r.content)) >= 2

LEMMA CorpusInit == Init => CorpusInv
BY DEF Init, CorpusInv, CorpusDistinct, CorpusNeverLeaks

LEMMA CorpusRegistered ==
  ASSUME NEW ref \in References, Register(ref)
  PROVE  CorpusInv'
<1>1. /\ ref.train \in Seq(Record) /\ ref.holdout \in Seq(Record)
      /\ PartitionChecked(ref.train) /\ PartitionChecked(ref.holdout)
      /\ ~Overlapping(RangeOf(ref.train), RangeOf(ref.holdout))
      /\ reference' = ref /\ corpus' = {Link(r, "human") : r \in RangeOf(ref.train)}
  BY EvaluationAssumption DEF Register, Registrable
<1>2. Train' = RangeOf(ref.train) /\ Holdout' = RangeOf(ref.holdout)
  BY <1>1 DEF Train, Holdout
<1>3. RangeOf(ref.train) \subseteq Record /\ RangeOf(ref.holdout) \subseteq Record
  BY <1>1, PartitionDistinct
<1>4. CorpusDistinct'
  <2>1. \A r, s \in RangeOf(ref.train) : r # s => r.id # s.id /\ ~Matches(r.content, s.content)
    BY <1>1, PartitionDistinct
  <2>2. \A r \in corpus' : \E t \in RangeOf(ref.train) :
          r = Link(t, "human") /\ r.id = t.id /\ r.content = t.content
    BY <1>1 DEF Link
  <2>3. \A r, s \in corpus' : r # s => r.id # s.id /\ ~Matches(r.content, s.content)
    BY <2>1, <2>2
  <2> QED BY <2>3 DEF CorpusDistinct, Matches
<1>5. CorpusNeverLeaks'
  <2> SUFFICES ASSUME NEW t \in RangeOf(ref.train), NEW h \in RangeOf(ref.holdout),
                      Tokens(t.content) # <<>>
               PROVE  ~Matches(t.content, h.content)
    BY <1>1, <1>2 DEF CorpusNeverLeaks, Link, Matches
  <2>1. t.content \in Contents /\ h.content \in Contents
    BY <1>3 DEF Record
  <2>2. ~Same(h.content, t.content) /\ <<h.content, t.content>> \notin Found
    BY <1>1 DEF Overlapping
  <2>3. <<h.content, t.content>> \notin Near
    BY <2>1, <2>2, IndexSound
  <2> QED BY <2>1, <2>2, <2>3, MatchesSymmetric DEF Matches
<1>6. \A r \in corpus' : \E t \in Train' : t.content = r.content
  BY <1>1, <1>2 DEF Link
<1> QED BY <1>4, <1>5, <1>6 DEF CorpusInv

(* Publishing adds survivors, which match neither each other, nor the      *)
(* parent, nor the holdout.                                                *)
LEMMA CorpusPublished ==
  ASSUME TypeInv, EligibleInv, SurvivorInv, CorpusInv, Publish
  PROVE  CorpusInv'
<1> USE DEF TypeInv, TypeOK
<1>1. corpus' = Proposed /\ reference' = reference
  BY DEF Publish
<1>2. Train' = Train /\ Holdout' = Holdout
  BY <1>1 DEF Train, Holdout
<1>3. survivors \subseteq eligible /\ survivors \subseteq Record
  BY RangeInType
<1>4. \A r \in survivors : r.content \in Contents
  BY <1>3 DEF Record
<1>5. \A r \in corpus : r.content \in Contents
  OBVIOUS
<1>6. \A l \in Links : \E r \in survivors : l = Link(r, "synthetic") /\ l.id = r.id /\ l.content = r.content
  BY DEF Links, Link
<1>7. \A l, k \in Links : l # k => l.id # k.id /\ ~Matches(l.content, k.content)
  BY <1>3, <1>6 DEF EligibleInv, SurvivorInv
<1>8. \A l \in Links, p \in corpus : ~Matches(l.content, p.content) /\ ~Matches(p.content, l.content)
  BY <1>4, <1>5, <1>6, MatchesSymmetric DEF SurvivorInv
<1>9. \A l \in Links, p \in corpus : l.id # p.id
  <2> SUFFICES ASSUME NEW l \in Links, NEW p \in corpus, l.id = p.id PROVE FALSE
    OBVIOUS
  <2>1. l.content = p.content
    BY <1>3, <1>6 DEF EligibleInv
  <2> QED BY <1>8, <2>1 DEF Matches, Same
<1>10. Proposed \subseteq corpus \cup Links
  BY DEF Proposed
<1>11. CorpusDistinct'
  <2>1. \A r, s \in corpus : r # s => r.id # s.id /\ ~Matches(r.content, s.content)
    BY DEF CorpusInv, CorpusDistinct
  <2>2. ASSUME NEW r \in corpus \cup Links, NEW s \in corpus \cup Links, r # s
        PROVE  r.id # s.id /\ ~Matches(r.content, s.content)
    <3>1. CASE r \in corpus /\ s \in corpus
      BY <2>1, <2>2, <3>1
    <3>2. CASE r \in Links /\ s \in Links
      BY <1>7, <2>2, <3>2
    <3>3. CASE r \in Links /\ s \in corpus
      BY <1>8, <1>9, <3>3
    <3>4. CASE r \in corpus /\ s \in Links
      BY <1>8, <1>9, <3>4
    <3> QED BY <3>1, <3>2, <3>3, <3>4
  <2>3. \A r, s \in corpus' : r # s => r.id # s.id /\ ~Matches(r.content, s.content)
    BY <1>1, <1>10, <2>2
  <2> QED BY <2>3 DEF CorpusDistinct, Matches
<1>12. \A l \in Links, h \in Holdout : ~Matches(l.content, h.content)
  BY <1>3, <1>6 DEF EligibleInv, Leaks
<1>13. CorpusNeverLeaks'
  BY <1>1, <1>2, <1>10, <1>12 DEF CorpusInv, CorpusNeverLeaks, Matches
<1>14. \A l \in Links : Len(Tokens(l.content)) >= 2
  BY <1>3, <1>6, EligibleHasTokens DEF EligibleInv
<1> QED BY <1>1, <1>2, <1>10, <1>11, <1>13, <1>14 DEF CorpusInv

(* Every other step leaves corpus and partitions alone. *)
LEMMA CorpusFrame ==
  ASSUME [Next]_evalVars, ~Publish, ~\E ref \in References : Register(ref)
  PROVE  corpus' = corpus /\ reference' = reference
<1> USE DEF requestVars
<1>1. ASSUME NEW r \in todo, Compare(r) PROVE corpus' = corpus /\ reference' = reference
  BY <1>1 DEF Compare
<1>2. ASSUME Sift \/ RejectLeak \/ RefuseDocument \/ StartDedup \/ DecideEarly \/ FailMetrics
      PROVE  corpus' = corpus /\ reference' = reference
  BY <1>2 DEF Sift, RejectLeak, RefuseDocument, StartDedup, DecideEarly, FailMetrics
<1>3. ASSUME NEW q, NEW p, NEW i, Decide(q, p, i) PROVE corpus' = corpus /\ reference' = reference
  BY <1>3 DEF Decide
<1>4. ASSUME NEW d, NEW m, Submit(d, m) PROVE corpus' = corpus /\ reference' = reference
  BY <1>4 DEF Submit
<1>5. CASE Drop
  BY <1>5 DEF Drop
<1>6. CASE UNCHANGED evalVars
  BY <1>6 DEF evalVars
<1> QED BY <1>1, <1>2, <1>3, <1>4, <1>5, <1>6 DEF Next

LEMMA CorpusStep ==
  TypeInv /\ EligibleInv /\ SurvivorInv /\ CorpusInv /\ [Next]_evalVars => CorpusInv'
<1> SUFFICES ASSUME TypeInv, EligibleInv, SurvivorInv, CorpusInv, [Next]_evalVars PROVE CorpusInv'
  OBVIOUS
<1>1. ASSUME corpus' = corpus, reference' = reference PROVE CorpusInv'
  BY <1>1 DEF CorpusInv, CorpusDistinct, CorpusNeverLeaks, Train, Holdout, Matches
<1> QED BY <1>1, CorpusRegistered, CorpusPublished, CorpusFrame

LEMMA CorpusInvCorrect == Spec => [](TypeInv /\ EligibleInv /\ SurvivorInv /\ CorpusInv)
BY EligibleInit, EligibleStep, SurvivorInit, SurvivorStep, CorpusInit, CorpusStep,
   TypeInvCorrect, PTL DEF Spec

(* No generation of candidates carries a text of the holdout into a        *)
(* release.                                                                *)
THEOREM CorpusNeverLeaksCorrect == Spec => []CorpusNeverLeaks
<1>1. CorpusInv => CorpusNeverLeaks
  BY DEF CorpusInv
<1> QED BY <1>1, CorpusInvCorrect, PTL

(* Identifiers and texts stay distinct in every release. *)
THEOREM CorpusDistinctCorrect == Spec => []CorpusDistinct
<1>1. CorpusInv => CorpusDistinct
  BY DEF CorpusInv
<1> QED BY <1>1, CorpusInvCorrect, PTL

-----------------------------------------------------------------------------
(* Sizes *)

(* Whole basis points: comparing them with a limit is comparing the exact  *)
(* ratio with it from below. *)
LEMMA FloorBelow ==
  ASSUME NEW a \in Nat, NEW d \in Nat \ {0}, NEW t \in Nat
  PROVE  a < t * d <=> a \div d < t
<1> DEFINE k == a \div d
<1>1. k \in Nat /\ k * d <= a /\ a < (k + 1) * d
  OBVIOUS
<1> HIDE DEF k
<1>2. ASSUME k < t PROVE a < t * d
  <2>1. (k + 1) * d <= t * d
    BY <1>1, <1>2
  <2> QED BY <1>1, <2>1
<1>3. ASSUME a < t * d PROVE k < t
  <2>1. ASSUME t <= k PROVE t * d <= k * d
    BY <1>1, <2>1
  <2> QED BY <1>1, <1>3, <2>1
<1> QED BY <1>2, <1>3 DEF k

LEMMA LinkCount ==
  ASSUME NEW R \in SUBSET Record, IsFiniteSet(R), NEW o
  PROVE  /\ IsFiniteSet({Link(r, o) : r \in R})
         /\ Cardinality({Link(r, o) : r \in R}) = Cardinality(R)
<1> DEFINE L == {Link(r, o) : r \in R}
           f == [r \in R |-> Link(r, o)]
<1>1. f \in Surjection(R, L)
  BY DEF Surjection
<1>2. \A r, s \in R : Link(r, o) = Link(s, o) => r = s
  <2> SUFFICES ASSUME NEW r \in R, NEW s \in R, Link(r, o) = Link(s, o) PROVE r = s
    OBVIOUS
  <2>1. r.id = s.id /\ r.content = s.content
    BY DEF Link
  <2> QED BY <2>1 DEF Record
<1>3. f \in Injection(R, L)
  BY <1>1, <1>2 DEF Injection, Surjection, IsInjective
<1> QED BY <1>1, <1>3, FS_Surjection

(* What is measured is finite. *)
LEMMA ProposedFinite ==
  ASSUME TypeOK, IsFiniteSet(corpus)
  PROVE  /\ IsFiniteSet(survivors) /\ Cardinality(survivors) \in Nat
         /\ IsFiniteSet(Links) /\ Cardinality(Links) = Cardinality(survivors)
         /\ IsFiniteSet(Proposed) /\ Cardinality(Proposed) \in Nat
         /\ Cardinality(Links) <= Cardinality(Proposed)
         /\ mode = "mix" => Cardinality(corpus) <= Cardinality(Proposed)
<1>1. IsFiniteSet(RangeOf(doc)) /\ RangeOf(doc) \subseteq Record
  BY RangeFinite DEF TypeOK
<1>2. survivors \in SUBSET RangeOf(doc) /\ survivors \in SUBSET Record
  BY <1>1 DEF TypeOK
<1>3. IsFiniteSet(survivors) /\ Cardinality(survivors) \in Nat
  BY <1>1, <1>2, FS_Subset, FS_CardinalityType
<1>4. IsFiniteSet(Links) /\ Cardinality(Links) = Cardinality(survivors)
  BY <1>2, <1>3, LinkCount DEF Links
<1>5. IsFiniteSet(Proposed) /\ Cardinality(Proposed) \in Nat
  BY <1>4, FS_Union, FS_CardinalityType DEF Proposed
<1>6. Links \in SUBSET Proposed /\ (mode = "mix" => corpus \in SUBSET Proposed)
  BY DEF Proposed
<1> QED BY <1>3, <1>4, <1>5, <1>6, FS_Subset

(* Proposals replace nothing: an acceptance is of a mix within the share   *)
(* of synthetic records. *)
AcceptInv ==
  decision.verdict = "accept" =>
    /\ mode = "mix" /\ decision.reasons = {}
    /\ ~(Synthetic(Proposed) * 10000 > Policy.max_synthetic_bps * Cardinality(Proposed))

SizeInv ==
  pc # "unregistered" =>
    /\ IsFiniteSet(corpus) /\ Cardinality(corpus) >= PartitionMin
    /\ IsFiniteSet(Holdout) /\ Cardinality(Holdout) >= PartitionMin

LEMMA AcceptInit == Init => AcceptInv /\ SizeInv
BY DEF Init, AcceptInv, SizeInv, NoDecision

LEMMA AcceptStep == TypeInv /\ AcceptInv /\ [Next]_evalVars => AcceptInv'
<1> SUFFICES ASSUME TypeInv, AcceptInv, [Next]_evalVars PROVE AcceptInv'
  OBVIOUS
<1>1. ASSUME decision'.verdict # "accept" PROVE AcceptInv'
  BY <1>1 DEF AcceptInv
<1>2. CASE UNCHANGED evalVars
  BY <1>2 DEF evalVars, AcceptInv, Synthetic, Proposed, Links
<1>3. ASSUME NEW q \in Ratios, NEW p \in Ratios, NEW i \in Increases, Decide(q, p, i)
      PROVE  AcceptInv'
  <2>1. PICK k \in LeastRatio :
          LET x == [reference |-> q, parent |-> p, increase |-> i, coverage |-> k]
              reasons == EarlyReasons \cup NumericReasons(x)
          IN Decided(Verdict(reasons), reasons, {Report(x)})
    BY <1>3 DEF Decide
  <2> DEFINE x == [reference |-> q, parent |-> p, increase |-> i, coverage |-> k]
             reasons == EarlyReasons \cup NumericReasons(x)
  <2>2. decision'.verdict = Verdict(reasons) /\ decision'.reasons = reasons
    BY <2>1 DEF Decided
  <2>3. UNCHANGED <<corpus, mode, survivors>>
    BY <1>3 DEF Decide, requestVars
  <2>4. CASE decision'.verdict = "accept"
    <3>1. reasons = {}
      BY <2>2, <2>4 DEF Verdict
    <3>2. mode # "replace"
      BY <3>1 DEF EarlyReasons
    <3>3. ~(Synthetic(Proposed) * 10000 > Policy.max_synthetic_bps * Cardinality(Proposed))
      BY <3>1 DEF NumericReasons
    <3>4. mode = "mix"
      BY <3>2 DEF TypeInv, TypeOK
    <3> QED BY <2>2, <2>3, <3>1, <3>3, <3>4 DEF AcceptInv, Synthetic, Proposed, Links
  <2> QED BY <1>1, <2>4
<1>4. ASSUME \/ RefuseDocument \/ RejectLeak \/ DecideEarly \/ FailMetrics
      PROVE  AcceptInv'
  BY <1>1, <1>4 DEF RefuseDocument, RejectLeak, DecideEarly, FailMetrics, Decided
<1>5. ASSUME \/ Sift \/ StartDedup
             \/ \E ref \in References : Register(ref)
             \/ \E d \in Documents, m \in {"mix", "replace"} : Submit(d, m)
             \/ \E r \in todo : Compare(r)
      PROVE  AcceptInv'
  <2>1. pc # "decided" /\ decision' = decision
    BY <1>5 DEF Sift, StartDedup, Register, Submit, Compare
  <2>2. decision'.verdict = "none"
    BY <2>1 DEF TypeInv, Staged, NoDecision
  <2> QED BY <1>1, <2>2
<1>6. CASE Publish \/ Drop
  BY <1>1, <1>6 DEF Publish, Drop, Forget, NoDecision
<1> QED BY <1>2, <1>3, <1>4, <1>5, <1>6 DEF Next

LEMMA SizeStep == TypeInv /\ AcceptInv /\ SizeInv /\ [Next]_evalVars => SizeInv'
<1> SUFFICES ASSUME TypeInv, AcceptInv, SizeInv, [Next]_evalVars PROVE SizeInv'
  OBVIOUS
<1>1. ASSUME NEW ref \in References, Register(ref) PROVE SizeInv'
  <2>1. /\ ref.train \in Seq(Record) /\ ref.holdout \in Seq(Record)
        /\ PartitionChecked(ref.train) /\ PartitionChecked(ref.holdout)
        /\ reference' = ref /\ corpus' = {Link(r, "human") : r \in RangeOf(ref.train)}
    BY <1>1, EvaluationAssumption DEF Register, Registrable
  <2>2. Holdout' = RangeOf(ref.holdout)
    BY <2>1 DEF Holdout
  <2>3. RangeOf(ref.train) \in SUBSET Record /\ IsFiniteSet(RangeOf(ref.train))
        /\ Cardinality(RangeOf(ref.train)) >= PartitionMin
    BY <2>1, PartitionDistinct
  <2>4. IsFiniteSet(RangeOf(ref.holdout)) /\ Cardinality(RangeOf(ref.holdout)) >= PartitionMin
    BY <2>1, PartitionDistinct
  <2>5. IsFiniteSet(corpus') /\ Cardinality(corpus') >= PartitionMin
    BY <2>1, <2>3, LinkCount
  <2> QED BY <2>2, <2>4, <2>5 DEF SizeInv
<1>2. CASE Publish
  <2>1. pc = "decided" /\ corpus' = Proposed /\ reference' = reference /\ mode = "mix"
    BY <1>2 DEF Publish, AcceptInv
  <2>2. Holdout' = Holdout
    BY <2>1 DEF Holdout
  <2>3. IsFiniteSet(corpus) /\ Cardinality(corpus) >= PartitionMin /\ Cardinality(corpus) \in Nat
    BY <2>1, FS_CardinalityType DEF SizeInv
  <2>4. IsFiniteSet(Proposed) /\ Cardinality(Proposed) \in Nat
        /\ Cardinality(corpus) <= Cardinality(Proposed)
    BY <2>1, <2>3, ProposedFinite DEF TypeInv
  <2>5. Cardinality(Proposed) >= PartitionMin
    BY <2>3, <2>4, LimitAssumption
  <2> QED BY <2>1, <2>2, <2>4, <2>5 DEF SizeInv
<1>3. ASSUME corpus' = corpus, reference' = reference, pc = "unregistered" => pc' = "unregistered"
      PROVE  SizeInv'
  BY <1>3 DEF SizeInv, Holdout
<1>4. ASSUME ~\E ref \in References : Register(ref), pc = "unregistered" PROVE pc' = "unregistered"
  BY <1>4 DEF Next, Submit, RefuseDocument, Sift, RejectLeak, StartDedup, Compare, DecideEarly,
     FailMetrics, Decide, Compared, Publish, Drop, evalVars
<1> QED BY <1>1, <1>2, <1>3, <1>4, CorpusFrame

LEMMA AcceptInvCorrect == Spec => [](TypeInv /\ AcceptInv /\ SizeInv)
BY AcceptInit, AcceptStep, SizeStep, TypeInvCorrect, PTL DEF Spec

(* A release only ever adds synthetic records to its parent. *)
THEOREM ReleasesOnlyGrowCorrect == Spec => ReleasesOnlyGrow
<1>1. TypeInv /\ AcceptInv /\ [Next]_evalVars =>
        [pc # "unregistered" => /\ corpus \subseteq corpus'
                                /\ \A r \in corpus' \ corpus : r.origin = "synthetic"]_corpus
  <2> SUFFICES ASSUME AcceptInv, [Next]_evalVars, pc # "unregistered", corpus' # corpus
               PROVE  corpus \subseteq corpus' /\ \A r \in corpus' \ corpus : r.origin = "synthetic"
    OBVIOUS
  <2>1. Publish
    BY CorpusFrame DEF Register
  <2>2. mode = "mix" /\ corpus' = Proposed
    BY <2>1 DEF Publish, AcceptInv
  <2>3. \A l \in Links : l.origin = "synthetic"
    BY DEF Links, Link
  <2> QED BY <2>2, <2>3 DEF Proposed
<1> QED BY <1>1, AcceptInvCorrect, PTL DEF Spec, ReleasesOnlyGrow

LEMMA SyntheticStep ==
  TypeInv /\ AcceptInv /\ SizeInv /\ SyntheticWithinLimit /\ [Next]_evalVars => SyntheticWithinLimit'
<1> SUFFICES ASSUME TypeInv, AcceptInv, SizeInv, SyntheticWithinLimit, [Next]_evalVars
             PROVE  SyntheticWithinLimit'
  OBVIOUS
<1>1. CASE Publish
  <2>1. pc = "decided" /\ corpus' = Proposed
        /\ ~(Synthetic(Proposed) * 10000 > Policy.max_synthetic_bps * Cardinality(Proposed))
    BY <1>1 DEF Publish, AcceptInv
  <2>2. IsFiniteSet(Proposed) /\ Cardinality(Proposed) \in Nat
    BY <2>1, ProposedFinite DEF SizeInv, TypeInv
  <2> DEFINE syn == {l \in Proposed : l.origin = "synthetic"}
  <2>3. Cardinality(syn) \in Nat
    <3>1. syn \in SUBSET Proposed
      OBVIOUS
    <3> QED BY <2>2, <3>1, FS_Subset, FS_CardinalityType
  <2>4. Synthetic(Proposed) = Cardinality(syn)
    BY DEF Synthetic
  <2>5. Cardinality(syn) * 10000 <= Policy.max_synthetic_bps * Cardinality(Proposed)
    <3> HIDE DEF syn
    <3>1. Policy.max_synthetic_bps \in Nat
      BY PolicyAssumption
    <3>0. \A a, b \in Nat : a * b \in Nat
      OBVIOUS
    <3>2. Policy.max_synthetic_bps * Cardinality(Proposed) \in Nat
      BY <2>2, <3>0, <3>1, Zenon
    <3>3. ~(Cardinality(syn) * 10000 > Policy.max_synthetic_bps * Cardinality(Proposed))
      BY <2>1, <2>4
    <3>4. Cardinality(syn) * 10000 \in Nat
      BY <2>3
    <3> QED BY <3>2, <3>3, <3>4
  <2> QED BY <2>1, <2>5 DEF SyntheticWithinLimit
<1>2. ASSUME NEW ref \in References, Register(ref) PROVE SyntheticWithinLimit'
  BY <1>2, LimitAssumption DEF Register, SyntheticWithinLimit, TypeInv, Staged
<1>3. ASSUME ~Publish PROVE revision' = revision
  BY <1>3 DEF Next, Register, Submit, RefuseDocument, Sift, RejectLeak, StartDedup, Compare,
     DecideEarly, FailMetrics, Decide, Drop, evalVars, requestVars
<1>4. ASSUME corpus' = corpus, revision' = revision PROVE SyntheticWithinLimit'
  BY <1>4 DEF SyntheticWithinLimit
<1> QED BY <1>1, <1>2, <1>3, <1>4, CorpusFrame

(* The policy's share of synthetic records bounds every accepted release.  *)
THEOREM SyntheticWithinLimitCorrect == Spec => []SyntheticWithinLimit
<1>1. Init => SyntheticWithinLimit
  BY DEF Init, SyntheticWithinLimit
<1> QED BY <1>1, SyntheticStep, AcceptInvCorrect, PTL DEF Spec

-----------------------------------------------------------------------------
(* Accounting *)

Waiting == IF pc = "sifted" THEN eligible ELSE todo

(* The code of an exclusion is true of the record. *)
Justified(e, r) ==
  \/ e.code \in {"DUP_PARENT", "NEAR_PARENT"} /\ \E p \in corpus : Matches(r.content, p.content)
  \/ e.code \in {"DUP_CANDIDATE", "NEAR_CANDIDATE"} /\ \E s \in survivors : Matches(r.content, s.content)

AccountInv ==
  pc \in {"sifted", "dedup"} =>
    /\ doc # <<>> /\ Ascending(doc)
    /\ \A e, f \in excluded : e.id = f.id => e = f
    /\ \A r \in RangeOf(doc) : (\E e \in excluded : e.id = r.id) <=> r \notin Waiting \cup survivors
    /\ \A r \in eligible \ (Waiting \cup survivors) :
         \E e \in excluded : e.id = r.id /\ Justified(e, r)

(* Records excluded one by one are as many as the excluded identifiers.    *)
LEMMA ExcludedCount ==
  ASSUME TypeInv, AccountInv, pc = "dedup"
  PROVE  /\ Len(doc) \in Nat \ {0}
         /\ IsFiniteSet(excluded) /\ Cardinality(excluded) \in Nat
         /\ todo = {} => Len(doc) = Cardinality(survivors) + Cardinality(excluded)
<1> DEFINE R == RangeOf(doc)
           f == [e \in excluded |-> CHOOSE r \in R : r.id = e.id]
<1>1. /\ doc \in Seq(Record) /\ doc # <<>> /\ Ascending(doc)
      /\ \A e, g \in excluded : e.id = g.id => e = g
      /\ \A r \in R : (\E e \in excluded : e.id = r.id) <=> r \notin todo \cup survivors
  BY DEF TypeInv, TypeOK, AccountInv, Waiting
<1>2. /\ IsFiniteSet(R) /\ Cardinality(R) = Len(doc)
      /\ \A r, s \in R : r.id = s.id => r = s
  BY <1>1, AscendingUnique
<1>3. Len(doc) \in Nat \ {0}
  BY <1>1
<1>4. \A e \in excluded : f[e] \in R /\ f[e].id = e.id
  <2> SUFFICES ASSUME NEW e \in excluded
               PROVE  (CHOOSE r \in R : r.id = e.id) \in R /\ (CHOOSE r \in R : r.id = e.id).id = e.id
    OBVIOUS
  <2>1. \E r \in R : r.id = e.id
    BY DEF TypeInv, TypeOK
  <2> QED BY <2>1
<1>5. f \in Injection(excluded, R)
  BY <1>1, <1>4 DEF Injection, IsInjective
<1>6. IsFiniteSet(excluded) /\ Cardinality(excluded) \in Nat
  BY <1>2, <1>5, FS_Injection, FS_CardinalityType
<1>7. ASSUME todo = {} PROVE Len(doc) = Cardinality(survivors) + Cardinality(excluded)
  <2>1. \A e \in excluded : f[e] \in R \ survivors
    BY <1>1, <1>4
  <2>2. \A r \in R \ survivors : \E e \in excluded : f[e] = r
    <3> SUFFICES ASSUME NEW r \in R \ survivors PROVE \E e \in excluded : f[e] = r
      OBVIOUS
    <3>1. PICK e \in excluded : e.id = r.id
      BY <1>1, <1>7
    <3>2. f[e] = r
      BY <1>2, <1>4, <3>1
    <3> QED BY <3>2
  <2>3. f \in Surjection(excluded, R \ survivors) /\ f \in Injection(excluded, R \ survivors)
    <3>1. f \in [excluded -> R \ survivors]
      BY <2>1
    <3>2. \A a, b \in excluded : f[a] = f[b] => a = b
      BY <1>1, <1>4
    <3> HIDE DEF f
    <3> QED BY <2>2, <3>1, <3>2 DEF Surjection, Injection, IsInjective
  <2>4. Cardinality(R \ survivors) = Cardinality(excluded)
    BY <1>6, <2>3, FS_Surjection
  <2>5. survivors \in SUBSET R /\ R \cap survivors = survivors
    BY DEF TypeInv, TypeOK
  <2>6. Cardinality(R \ survivors) = Cardinality(R) - Cardinality(survivors)
    BY <1>2, <2>5, FS_Difference
  <2>7. Cardinality(survivors) \in Nat
    BY <1>2, <2>5, FS_Subset, FS_CardinalityType
  <2> QED BY <1>2, <1>3, <1>6, <2>4, <2>6, <2>7
<1> QED BY <1>3, <1>6, <1>7

LEMMA AccountSift ==
  ASSUME TypeInv, Sift
  PROVE  AccountInv'
<1> DEFINE flawed == {r \in RangeOf(doc) : Flaw(r, Categories) # "none"}
<1>1. /\ doc # <<>> /\ Ascending(doc) /\ doc' = doc /\ pc' = "sifted" /\ survivors' = {}
      /\ eligible' = RangeOf(doc) \ flawed
      /\ excluded' = {Exclusion(r, Flaw(r, Categories)) : r \in flawed}
  BY DEF Sift, Malformed, requestVars, TypeInv, Staged
<1>2. Waiting' = eligible'
  BY <1>1 DEF Waiting
<1>3. \A r, s \in RangeOf(doc) : r.id = s.id => r = s
  BY <1>1, AscendingUnique DEF TypeInv, TypeOK
<1>4. \A e \in excluded' : \E r \in flawed : e = Exclusion(r, Flaw(r, Categories)) /\ e.id = r.id
  BY <1>1 DEF Exclusion
<1>5. \A e, f \in excluded' : e.id = f.id => e = f
  BY <1>3, <1>4
<1>6. \A r \in flawed : \E e \in excluded' : e.id = r.id
  <2> SUFFICES ASSUME NEW r \in flawed PROVE \E e \in excluded' : e.id = r.id
    OBVIOUS
  <2>1. Exclusion(r, Flaw(r, Categories)) \in excluded'
    BY <1>1
  <2>2. Exclusion(r, Flaw(r, Categories)).id = r.id
    BY DEF Exclusion
  <2> QED BY <2>1, <2>2
<1>7. \A r \in RangeOf(doc) : (\E e \in excluded' : e.id = r.id) <=> r \in flawed
  BY <1>3, <1>4, <1>6
<1>8. Ascending(doc') /\ RangeOf(doc') = RangeOf(doc)
  BY <1>1
<1> QED BY <1>1, <1>2, <1>5, <1>7, <1>8 DEF AccountInv

LEMMA AccountCompare ==
  ASSUME TypeInv, SurvivorInv, AccountInv, NEW r \in todo, Compare(r)
  PROVE  AccountInv'
<1>a. PICK code : code = DuplicateCode(r)
  OBVIOUS
<1> DEFINE x == Exclusion(r, code)
<1>1. /\ pc = "dedup" /\ pc' = "dedup" /\ todo' = todo \ {r} /\ doc' = doc
      /\ eligible' = eligible /\ corpus' = corpus
      /\ r \in eligible /\ r \in RangeOf(doc) /\ survivors \cap todo = {}
  BY DEF Compare, requestVars, TypeInv, TypeOK, SurvivorInv
<1>2. /\ code = "none" => survivors' = survivors \cup {r} /\ excluded' = excluded
      /\ code # "none" => survivors' = survivors /\ excluded' = excluded \cup {x}
  BY <1>a DEF Compare
<1>3. /\ doc # <<>> /\ Ascending(doc)
      /\ \A e, f \in excluded : e.id = f.id => e = f
      /\ \A s \in RangeOf(doc) : (\E e \in excluded : e.id = s.id) <=> s \notin todo \cup survivors
      /\ \A s \in eligible \ (todo \cup survivors) : \E e \in excluded : e.id = s.id /\ Justified(e, s)
  BY <1>1 DEF AccountInv, Waiting
<1>4. \A q, s \in RangeOf(doc) : q.id = s.id => q = s
  BY <1>3, AscendingUnique DEF TypeInv, TypeOK
<1>5. Waiting' = todo \ {r}
  BY <1>1 DEF Waiting
<1>6. x.id = r.id /\ x.code = code
  BY DEF Exclusion
<1> HIDE DEF x
<1>7. \A e, f \in excluded' : e.id = f.id => e = f
  <2>1. ~\E e \in excluded : e.id = r.id
    BY <1>1, <1>3
  <2> QED BY <1>2, <1>3, <1>6, <2>1
<1>8. ASSUME NEW s \in RangeOf(doc)
      PROVE  (\E e \in excluded' : e.id = s.id) <=> s \notin (todo \ {r}) \cup survivors'
  <2>1. CASE s = r
    BY <1>1, <1>2, <1>3, <1>6, <2>1
  <2>2. CASE s # r
    <3>1. s.id # r.id
      BY <1>1, <1>4, <2>2
    <3> QED BY <1>2, <1>3, <1>6, <2>2, <3>1
  <2> QED BY <2>1, <2>2
<1>9. \A e, s : Justified(e, s) => Justified(e, s)'
  <2>1. survivors \subseteq survivors'
    BY <1>2
  <2> QED BY <1>1, <2>1 DEF Justified, Matches
<1>10. code # "none" => Justified(x, r)'
  <2>1. code # "none" => Justified(x, r)
    <3>1. \A c, d : Same(c, d) \/ <<c, d>> \in Found => Matches(c, d)
      BY DEF Matches, Found
    <3>2. \/ code = "DUP_PARENT" /\ \E p \in corpus : Same(r.content, p.content)
          \/ code = "DUP_CANDIDATE" /\ \E s \in survivors : Same(r.content, s.content)
          \/ code = "NEAR_PARENT" /\ \E p \in corpus : <<r.content, p.content>> \in Found
          \/ code = "NEAR_CANDIDATE" /\ \E s \in survivors : <<r.content, s.content>> \in Found
          \/ code = "none"
      BY <1>a DEF DuplicateCode
    <3> QED BY <1>6, <3>1, <3>2 DEF Justified
  <2> QED BY <1>9, <2>1
<1>11. ASSUME NEW s \in eligible \ ((todo \ {r}) \cup survivors')
       PROVE  \E e \in excluded' : e.id = s.id /\ Justified(e, s)'
  <2>1. CASE s = r
    <3>1. code # "none" /\ x \in excluded'
      BY <1>2, <2>1
    <3>2. Justified(x, r)'
      BY <1>10, <3>1
    <3>3. Justified(x, s)'
      BY <2>1, <3>2 DEF Justified
    <3> QED BY <1>6, <2>1, <3>1, <3>3
  <2>2. CASE s # r
    <3>1. s \in eligible \ (todo \cup survivors)
      BY <1>2, <2>2
    <3>2. PICK e \in excluded : e.id = s.id /\ Justified(e, s)
      BY <1>3, <3>1
    <3> QED BY <1>2, <1>9, <3>2
  <2> QED BY <2>1, <2>2
<1>12. Ascending(doc') /\ RangeOf(doc') = RangeOf(doc) /\ doc' # <<>>
  BY <1>1, <1>3
<1> QED BY <1>1, <1>5, <1>7, <1>8, <1>11, <1>12 DEF AccountInv

LEMMA AccountInit == Init => AccountInv
BY DEF Init, AccountInv

LEMMA AccountStep == TypeInv /\ SurvivorInv /\ AccountInv /\ [Next]_evalVars => AccountInv'
<1> SUFFICES ASSUME TypeInv, SurvivorInv, AccountInv, [Next]_evalVars PROVE AccountInv'
  OBVIOUS
<1>1. ASSUME pc' \notin {"sifted", "dedup"} PROVE AccountInv'
  BY <1>1 DEF AccountInv
<1>2. CASE UNCHANGED evalVars
  BY <1>2 DEF evalVars, AccountInv, Waiting, Justified, Matches
<1>3. CASE StartDedup
  <2>1. /\ pc = "sifted" /\ pc' = "dedup" /\ todo' = eligible
        /\ UNCHANGED <<doc, corpus, eligible, excluded, survivors>>
    BY <1>3 DEF StartDedup, requestVars
  <2>2. Waiting = eligible /\ Waiting' = eligible
    BY <2>1 DEF Waiting
  <2> QED BY <2>1, <2>2 DEF AccountInv, Justified, Matches
<1>4. ASSUME \/ RefuseDocument \/ RejectLeak \/ DecideEarly \/ FailMetrics
             \/ \E q \in Ratios, p \in Ratios, i \in Increases : Decide(q, p, i)
      PROVE  AccountInv'
  BY <1>1, <1>4 DEF RefuseDocument, RejectLeak, DecideEarly, FailMetrics, Decide, Decided
<1>5. ASSUME \/ Publish \/ Drop
             \/ \E ref \in References : Register(ref)
             \/ \E d \in Documents, m \in {"mix", "replace"} : Submit(d, m)
      PROVE  AccountInv'
  BY <1>1, <1>5 DEF Publish, Drop, Forget, Register, Submit
<1> QED BY <1>2, <1>3, <1>4, <1>5, AccountSift, AccountCompare DEF Next

LEMMA AccountInvCorrect == Spec => [](TypeInv /\ AccountInv)
BY AccountInit, AccountStep, EligibleInit, EligibleStep, SurvivorInit, SurvivorStep,
   TypeInvCorrect, PTL DEF Spec

(* Survivors and exclusions add up to what was submitted, and an exclusion *)
(* for a duplicate has the duplicate to show.                              *)
THEOREM RecordsAccountedCorrect == Spec => []RecordsAccounted
<1>1. TypeInv /\ AccountInv => RecordsAccounted
  <2> SUFFICES ASSUME TypeInv, AccountInv, Compared PROVE RecordsAccounted
    BY DEF RecordsAccounted
  <2>1. pc = "dedup" /\ todo = {} /\ Waiting = {}
    BY DEF Compared, Waiting
  <2>2. Len(doc) = Cardinality(survivors) + Cardinality(excluded)
    BY <2>1, ExcludedCount
  <2> QED BY <2>1, <2>2 DEF RecordsAccounted, AccountInv, Justified
<1> QED BY <1>1, AccountInvCorrect, PTL

-----------------------------------------------------------------------------
(* Decisions *)

(* The sample is one of the four sizes. *)
LEMMA SampleIsOne ==
  ASSUME NEW a \in Nat, NEW b \in Nat, NEW c \in Nat, NEW d \in Nat
  PROVE  \E m \in {a, b, c, d} : \A n \in {a, b, c, d} : m <= n
<1>1. CASE a <= b /\ a <= c /\ a <= d
  BY <1>1
<1>2. CASE b <= a /\ b <= c /\ b <= d
  BY <1>2
<1>3. CASE c <= a /\ c <= b /\ c <= d
  BY <1>3
<1>4. CASE d <= a /\ d <= b /\ d <= c
  BY <1>4
<1> QED BY <1>1, <1>2, <1>3, <1>4

(* A sample that is too small comes with too few survivors. *)
LEMMA EarlyHasReasons ==
  ASSUME TypeInv, SizeInv, pc # "unregistered", EarlyNull
  PROVE  EarlyReasons # {}
<1>1. /\ IsFiniteSet(corpus) /\ Cardinality(corpus) \in Nat /\ Cardinality(corpus) >= SampleMin
      /\ IsFiniteSet(Holdout) /\ Cardinality(Holdout) \in Nat /\ Cardinality(Holdout) >= SampleMin
  BY LimitAssumption, FS_CardinalityType DEF SizeInv
<1>2. /\ Cardinality(survivors) \in Nat /\ Cardinality(Proposed) \in Nat
      /\ Cardinality(survivors) <= Cardinality(Proposed)
      /\ mode = "mix" => Cardinality(corpus) <= Cardinality(Proposed)
  BY <1>1, ProposedFinite DEF TypeInv
<1>3. SampleSize \in SampleSizes
  <2>1. SampleMax \in Nat
    BY LimitAssumption
  <2>2. \E m \in SampleSizes : \A n \in SampleSizes : m <= n
    BY <1>1, <1>2, <2>1, SampleIsOne DEF SampleSizes
  <2> QED BY <2>2 DEF SampleSize
<1>4. ASSUME SampleSize < SampleMin PROVE Cardinality(survivors) < Policy.min_candidates
  <2>1. SampleSize = Cardinality(Proposed)
    BY <1>1, <1>3, <1>4, LimitAssumption DEF SampleSizes
  <2>2. SampleMin \in Nat /\ Policy.min_candidates \in Nat /\ Policy.min_candidates >= SampleMin
    BY LimitAssumption, PolicyAssumption
  <2>3. Cardinality(Proposed) < SampleMin
    BY <1>4, <2>1
  <2> QED BY <1>2, <2>2, <2>3
<1>5. CASE Cardinality(survivors) < Policy.min_candidates
  BY <1>5 DEF EarlyReasons
<1>6. CASE Cardinality(Proposed) > CorpusMax
  BY <1>6 DEF EarlyReasons
<1> QED BY <1>4, <1>5, <1>6 DEF EarlyNull

(* Texts too short to measure are texts of the partitions. *)
LEMMA ShortIsRegistered ==
  ASSUME TypeInv, EligibleInv, CorpusInv, ~Measurable
  PROVE  \E r \in Train \cup Holdout : Len(Tokens(r.content)) < 2
<1>1. survivors \subseteq eligible /\ survivors \subseteq Record
  BY RangeInType DEF TypeInv, TypeOK
<1>2. \A l \in Links : Len(Tokens(l.content)) >= 2
  BY <1>1, EligibleHasTokens DEF Links, Link, EligibleInv
<1>3. \A c \in Contents : Len(Tokens(c)) \in Nat
  BY EvaluationAssumption
<1>4. \A r \in corpus : r.content \in Contents
  BY DEF TypeInv, TypeOK
<1>5. \A r \in Holdout : r.content \in Contents
  <2>1. reference.holdout \in Seq(Record)
    BY DEF TypeInv, TypeOK
  <2>2. Holdout \subseteq Record
    BY <2>1, RangeInType DEF Holdout
  <2> QED BY <2>2 DEF Record
<1>6. \A l \in Links : l.content \in Contents
  BY <1>1 DEF Links, Link, Record
<1>7. PICK r \in Holdout \cup Proposed \cup corpus : ~(Len(Tokens(r.content)) >= 2)
  BY DEF Measurable
<1>8. r \in Holdout \cup corpus
  BY <1>2, <1>7 DEF Proposed
<1>9. Len(Tokens(r.content)) < 2
  BY <1>3, <1>4, <1>5, <1>7, <1>8
<1>10. CASE r \in Holdout
  BY <1>9, <1>10
<1>11. CASE r \in corpus
  <2>1. PICK t \in Train : t.content = r.content
    BY <1>7, <1>11 DEF CorpusInv
  <2> QED BY <1>9, <2>1
<1> QED BY <1>8, <1>10, <1>11

(* The numbers of a report and the gates they stand for. *)
LEMMA BelowFloor ==
  ASSUME NEW q \in Fraction, NEW t \in Nat
  PROVE  /\ Below(q, t) <=> Bps(q) < t
         /\ Bps(q) \in Nat
<1>1. q.num \in Nat /\ q.den \in Nat \ {0}
  BY DEF Fraction
<1>2. 10000 * q.num \in Nat /\ q.num * 10000 = 10000 * q.num
  BY <1>1
<1>3. (10000 * q.num) < t * q.den <=> (10000 * q.num) \div q.den < t
  BY <1>1, <1>2, FloorBelow
<1>4. (10000 * q.num) \div q.den \in Nat
  <2> DEFINE a == 10000 * q.num  d == q.den
  <2>1. a \in Nat /\ d \in Nat \ {0}
    BY <1>1, <1>2
  <2> HIDE DEF a, d
  <2>2. a \div d \in Nat
    BY <2>1
  <2> QED BY <2>2 DEF a, d
<1> QED BY <1>2, <1>3, <1>4 DEF Below, Bps

LEMMA AboveFloor ==
  ASSUME NEW a \in Nat, NEW d \in Nat \ {0}, NEW t \in Nat, (10000 * a) \div d > t
  PROVE  a * 10000 > t * d
<1> DEFINE n == 10000 * a
<1>1. n \in Nat /\ n = a * 10000
  OBVIOUS
<1> HIDE DEF n
<1>2. t + 1 \in Nat /\ (t + 1) * d = t * d + d /\ t * d \in Nat
  OBVIOUS
<1>3. n < (t + 1) * d <=> n \div d < t + 1
  BY <1>1, <1>2, FloorBelow
<1>4. n \div d > t /\ n \div d \in Int
  BY <1>1 DEF n
<1>5. ~(n < (t + 1) * d)
  BY <1>3, <1>4
<1> QED BY <1>1, <1>2, <1>5

LEMMA CappedBelow ==
  ASSUME NEW n \in Nat, NEW t \in Nat, t <= 10000
  PROVE  n < t <=> Capped(n) < t
BY DEF Capped

(* A proposal that is measured is not empty, and its coverage is a         *)
(* fraction. *)
LEMMA CoverageFraction ==
  ASSUME TypeInv, SizeInv, pc = "dedup", ~EarlyNull
  PROVE  /\ LeastRatio \subseteq Fraction
         /\ Cardinality(Proposed) \in Nat \ {0}
<1>1. /\ IsFiniteSet(corpus) /\ IsFiniteSet(Holdout) /\ Cardinality(Holdout) \in Nat
  BY FS_CardinalityType DEF SizeInv
<1>2. /\ IsFiniteSet(Proposed) /\ Cardinality(Proposed) \in Nat /\ Cardinality(survivors) \in Nat
      /\ Cardinality(survivors) <= Cardinality(Proposed)
  BY <1>1, ProposedFinite DEF TypeInv
<1>3. Cardinality(survivors) >= Policy.min_candidates
  BY <1>2, PolicyAssumption DEF EarlyNull
<1>4. Cardinality(Proposed) \in Nat \ {0}
  BY <1>2, <1>3, PolicyAssumption, LimitAssumption
<1>5. ASSUME NEW h \in Holdout PROVE CountOf(Category(h.content), Holdout) \in Nat \ {0}
  <2> DEFINE H == {r \in Holdout : Category(r.content) = Category(h.content)}
  <2>1. H \in SUBSET Holdout /\ h \in H
    OBVIOUS
  <2>2. IsFiniteSet(H) /\ Cardinality(H) \in Nat
    BY <1>1, <2>1, FS_Subset, FS_CardinalityType
  <2>3. Cardinality(H) # 0
    BY <2>1, <2>2, FS_EmptySet
  <2> QED BY <2>2, <2>3 DEF CountOf
<1>6. ASSUME NEW c PROVE CountOf(c, Proposed) \in Nat
  <2> DEFINE H == {r \in Proposed : Category(r.content) = c}
  <2>1. H \in SUBSET Proposed
    OBVIOUS
  <2>2. IsFiniteSet(H) /\ Cardinality(H) \in Nat
    BY <1>2, <2>1, FS_Subset, FS_CardinalityType
  <2> QED BY <2>2 DEF CountOf
<1>7. \A a, b \in Nat : a * b \in Nat /\ (a # 0 /\ b # 0 => a * b # 0)
  OBVIOUS
<1>8. CoverageRatios \subseteq Fraction
  <2> SUFFICES ASSUME NEW h \in Holdout
               PROVE  [num |-> CountOf(Category(h.content), Proposed) * Cardinality(Holdout),
                       den |-> Cardinality(Proposed) * CountOf(Category(h.content), Holdout)] \in Fraction
    BY DEF CoverageRatios
  <2> QED BY <1>1, <1>4, <1>5, <1>6, <1>7 DEF Fraction
<1> QED BY <1>4, <1>8 DEF LeastRatio

(* The three facts about a decision, when it is taken and afterwards. *)
DecisionInv == RejectionHasReasons /\ ReportFaithful /\ MetricsDefined

LEMMA ReportAgrees ==
  ASSUME TypeInv, SizeInv, AccountInv, pc = "dedup", ~EarlyNull,
         NEW q \in Ratios, NEW p \in Ratios, NEW i \in Increases, NEW k \in LeastRatio,
         decision' = [verdict |-> Verdict(EarlyReasons \cup NumericReasons(
                        [reference |-> q, parent |-> p, increase |-> i, coverage |-> k])),
                      reasons |-> EarlyReasons \cup NumericReasons(
                        [reference |-> q, parent |-> p, increase |-> i, coverage |-> k]),
                      metrics |-> {Report(
                        [reference |-> q, parent |-> p, increase |-> i, coverage |-> k])}]
  PROVE  ReportFaithful'
<1> DEFINE x == [reference |-> q, parent |-> p, increase |-> i, coverage |-> k]
           R == EarlyReasons \cup NumericReasons(x)
           m == Report(x)
<1>1. q \in Fraction /\ p \in Fraction /\ k \in Fraction
  BY CoverageFraction, EvaluationAssumption
<1>2. /\ Policy.min_vendi_reference_bps \in Nat /\ Policy.min_vendi_parent_bps \in Nat
      /\ Policy.min_category_coverage_bps \in Nat /\ Policy.min_category_coverage_bps <= 10000
      /\ Policy.max_synthetic_bps \in Nat /\ Policy.max_filter_bps \in Nat
  BY PolicyAssumption
<1>3. "REFERENCE_DIVERSITY" \in R <=> m.vendi_reference_bps < Policy.min_vendi_reference_bps
  <2>1. "REFERENCE_DIVERSITY" \in R <=> Below(q, Policy.min_vendi_reference_bps)
    BY DEF EarlyReasons, NumericReasons
  <2>2. m.vendi_reference_bps = Bps(q)
    BY DEF Report
  <2> QED BY <1>1, <1>2, <2>1, <2>2, BelowFloor
<1>4. "PARENT_DIVERSITY" \in R <=> m.vendi_parent_bps < Policy.min_vendi_parent_bps
  <2>1. "PARENT_DIVERSITY" \in R <=> Below(p, Policy.min_vendi_parent_bps)
    BY DEF EarlyReasons, NumericReasons
  <2>2. m.vendi_parent_bps = Bps(p)
    BY DEF Report
  <2> QED BY <1>1, <1>2, <2>1, <2>2, BelowFloor
<1>5. "CATEGORY_LOSS" \in R <=> m.category_coverage_bps < Policy.min_category_coverage_bps
  <2>1. "CATEGORY_LOSS" \in R <=> Below(k, Policy.min_category_coverage_bps)
    BY DEF EarlyReasons, NumericReasons
  <2>2. m.category_coverage_bps = Capped(Bps(k))
    BY DEF Report
  <2> QED BY <1>1, <1>2, <2>1, <2>2, BelowFloor, CappedBelow
<1>6. m.synthetic_bps > Policy.max_synthetic_bps => "SYNTHETIC_LIMIT" \in R
  <2> DEFINE syn == {l \in Proposed : l.origin = "synthetic"}
  <2>1. Cardinality(Proposed) \in Nat \ {0} /\ IsFiniteSet(Proposed)
    BY CoverageFraction, ProposedFinite DEF TypeInv, SizeInv
  <2>2. syn \in SUBSET Proposed
    OBVIOUS
  <2>3. Synthetic(Proposed) \in Nat
    BY <2>1, <2>2, FS_Subset, FS_CardinalityType DEF Synthetic
  <2>4. m.synthetic_bps = (10000 * Synthetic(Proposed)) \div Cardinality(Proposed)
    BY DEF Report
  <2>5. m.synthetic_bps > Policy.max_synthetic_bps =>
          Synthetic(Proposed) * 10000 > Policy.max_synthetic_bps * Cardinality(Proposed)
    BY <1>2, <2>1, <2>3, <2>4, AboveFloor
  <2> QED BY <2>5 DEF NumericReasons
<1>7. m.filter_bps > Policy.max_filter_bps => "FILTER_BUDGET" \in R
  <2>1. Cardinality(excluded) \in Nat /\ Len(doc) \in Nat \ {0}
    BY ExcludedCount
  <2>2. m.filter_bps = (10000 * Cardinality(excluded)) \div Len(doc)
    BY DEF Report
  <2>3. m.filter_bps > Policy.max_filter_bps =>
          Cardinality(excluded) * 10000 > Policy.max_filter_bps * Len(doc)
    <3> DEFINE a == Cardinality(excluded)  d == Len(doc)  t == Policy.max_filter_bps
    <3>1. a \in Nat /\ d \in Nat \ {0} /\ t \in Nat
      BY <2>1, PolicyAssumption
    <3>2. m.filter_bps = (10000 * a) \div d
      BY <2>2
    <3> HIDE DEF a, d, t, m
    <3>3. m.filter_bps > t => a * 10000 > t * d
      BY <3>1, <3>2, AboveFloor
    <3> QED BY <3>3 DEF a, d, t
  <2> QED BY <2>3 DEF EarlyReasons
<1>8. decision'.metrics = {m} /\ decision'.reasons = R
  OBVIOUS
<1> HIDE DEF m, R
<1> QED BY <1>3, <1>4, <1>5, <1>6, <1>7, <1>8 DEF ReportFaithful

LEMMA DecisionStep ==
  /\ TypeInv /\ EligibleInv /\ CorpusInv /\ SizeInv /\ AccountInv /\ DecisionInv /\ [Next]_evalVars
  => DecisionInv'
<1> SUFFICES ASSUME TypeInv, EligibleInv, CorpusInv, SizeInv, AccountInv, DecisionInv, [Next]_evalVars
             PROVE  DecisionInv'
  OBVIOUS
<1> USE DEF DecisionInv
<1>1. ASSUME decision' = NoDecision PROVE DecisionInv'
  BY <1>1 DEF NoDecision, RejectionHasReasons, ReportFaithful, MetricsDefined
<1>2. CASE UNCHANGED evalVars
  BY <1>2 DEF evalVars, RejectionHasReasons, ReportFaithful, MetricsDefined, Train, Holdout
<1>3. CASE RefuseDocument
  BY <1>3 DEF RefuseDocument, Decided, RejectionHasReasons, ReportFaithful, MetricsDefined
<1>4. CASE RejectLeak
  BY <1>4 DEF RejectLeak, Decided, RejectionHasReasons, ReportFaithful, MetricsDefined
<1>5. CASE DecideEarly
  <2>1. /\ pc = "dedup" /\ EarlyNull
        /\ decision' = [verdict |-> "reject", reasons |-> EarlyReasons, metrics |-> {}]
    BY <1>5 DEF DecideEarly, Compared, Decided
  <2>2. EarlyReasons # {} /\ "INSUFFICIENT_SAMPLE" \notin EarlyReasons
    BY <2>1, EarlyHasReasons DEF EarlyReasons
  <2> QED BY <2>1, <2>2 DEF RejectionHasReasons, ReportFaithful, MetricsDefined
<1>6. CASE FailMetrics
  <2>1. /\ ~Measurable /\ reference' = reference
        /\ decision' = [verdict |-> "error", reasons |-> {"INSUFFICIENT_SAMPLE"}, metrics |-> {}]
    BY <1>6 DEF FailMetrics, Decided, requestVars
  <2>2. \E r \in Train' \cup Holdout' : Len(Tokens(r.content)) < 2
    BY <2>1, ShortIsRegistered DEF Train, Holdout
  <2> QED BY <2>1, <2>2 DEF RejectionHasReasons, ReportFaithful, MetricsDefined
<1>7. ASSUME NEW q \in Ratios, NEW p \in Ratios, NEW i \in Increases, Decide(q, p, i)
      PROVE  DecisionInv'
  <2>1. PICK k \in LeastRatio :
          decision' = [verdict |-> Verdict(EarlyReasons \cup NumericReasons(
                         [reference |-> q, parent |-> p, increase |-> i, coverage |-> k])),
                       reasons |-> EarlyReasons \cup NumericReasons(
                         [reference |-> q, parent |-> p, increase |-> i, coverage |-> k]),
                       metrics |-> {Report(
                         [reference |-> q, parent |-> p, increase |-> i, coverage |-> k])}]
    BY <1>7 DEF Decide, Decided
  <2>2. pc = "dedup" /\ ~EarlyNull
    BY <1>7 DEF Decide, Compared
  <2>3. ReportFaithful'
    BY <2>1, <2>2, ReportAgrees
  <2>4. RejectionHasReasons'
    BY <2>1 DEF RejectionHasReasons, Verdict
  <2>5. "INSUFFICIENT_SAMPLE" \notin decision'.reasons
    BY <2>1 DEF EarlyReasons, NumericReasons
  <2> QED BY <2>3, <2>4, <2>5 DEF MetricsDefined
<1>8. ASSUME \/ Sift \/ StartDedup
             \/ \E ref \in References : Register(ref)
             \/ \E d \in Documents, m \in {"mix", "replace"} : Submit(d, m)
             \/ \E r \in todo : Compare(r)
      PROVE  DecisionInv'
  <2>1. pc # "decided" /\ decision' = decision
    BY <1>8 DEF Sift, StartDedup, Register, Submit, Compare
  <2> QED BY <1>1, <2>1 DEF TypeInv, Staged
<1>9. CASE Publish \/ Drop
  BY <1>1, <1>9 DEF Publish, Drop, Forget
<1> QED BY <1>2, <1>3, <1>4, <1>5, <1>6, <1>7, <1>8, <1>9 DEF Next

LEMMA DecisionInvCorrect == Spec => []DecisionInv
<1>1. Init => DecisionInv
  BY DEF Init, NoDecision, DecisionInv, RejectionHasReasons, ReportFaithful, MetricsDefined
<1> QED BY <1>1, DecisionStep, CorpusInvCorrect, AcceptInvCorrect, AccountInvCorrect, PTL DEF Spec

(* A rejection always names a reason, a small sample included: partitions  *)
(* and min_candidates are at least as large as the least sample.           *)
THEOREM RejectionHasReasonsCorrect == Spec => []RejectionHasReasons
<1>1. DecisionInv => RejectionHasReasons
  BY DEF DecisionInv
<1> QED BY <1>1, DecisionInvCorrect, PTL

(* Whole basis points and exact ratios tell the same story. *)
THEOREM ReportFaithfulCorrect == Spec => []ReportFaithful
<1>1. DecisionInv => ReportFaithful
  BY DEF DecisionInv
<1> QED BY <1>1, DecisionInvCorrect, PTL

(* Only a registered text can be too short to measure. *)
THEOREM MetricsDefinedCorrect == Spec => []MetricsDefined
<1>1. DecisionInv => MetricsDefined
  BY DEF DecisionInv
<1> QED BY <1>1, DecisionInvCorrect, PTL
=============================================================================
