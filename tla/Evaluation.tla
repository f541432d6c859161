----------------------------- MODULE Evaluation -----------------------------
(***************************************************************************)
(* gate.evaluate over the releases of one stream: a reference is           *)
(* registered and its training partition becomes the genesis corpus; then  *)
(* candidate documents are filtered (filter.py), measured (metrics.py) and *)
(* reduced to a decision (gate.py), and an accepted proposal is the parent *)
(* of the next evaluation.  One evaluation runs at a time: JobService has  *)
(* the concurrency, with the verdict left open.                            *)
(*                                                                         *)
(* A ticket's title, body and category are one content.  Hashes, pins and  *)
(* signatures are identity; the Vendi ratios and self-BLEU are any of the  *)
(* values given by Ratios and Increases, category coverage is computed.    *)
(***************************************************************************)
EXTENDS Integers, Sequences, FiniteSets

CONSTANTS
  Contents,        \* contents of tickets
  Words,           \* tokens
  Tokens(_),       \* tokenize of a content, a sequence of words
  Category(_),     \* category of a content
  WellShaped(_),   \* fields present, strings, within their lengths
  CleanText(_),    \* allowed characters
  LongWords,       \* tokens of more than MAX_TOKEN_CHARS
  Rank(_),         \* place of a content in the order of (J(tokens), J(content))
  References,      \* pairs of partitions offered for registration
  Documents,       \* candidate documents offered, sequences of records
  Policy,          \* the registered policy
  MinTokens, MaxTokens,   \* tokens of an eligible record
  MaxCandidates,   \* MAX_CANDIDATE_RECORDS
  CorpusMax,       \* CORPUS_MAX
  PartitionMin, PartitionMax,  \* sizes of a partition
  SampleMin, SampleMax,   \* SAMPLE_MIN_PRODUCTION, SAMPLE_MAX
  Ratios,          \* values of a Vendi ratio, as fractions
  Increases,       \* values of the self-BLEU increase
  MaxRevision      \* bound: releases

Record == [id : Nat, content : Contents]

Fraction == [num : Nat, den : Nat \ {0}]

ASSUME EvaluationAssumption ==
  /\ \A c \in Contents : Tokens(c) \in Seq(Words) /\ Rank(c) \in Nat
  /\ \A c \in Contents : WellShaped(c) \in BOOLEAN /\ CleanText(c) \in BOOLEAN
  /\ \A c, d \in Contents : Rank(c) = Rank(d) => c = d
  /\ References \subseteq [train : Seq(Record), holdout : Seq(Record)]
  /\ Documents \subseteq Seq(Record)
  /\ Ratios \subseteq Fraction /\ Increases \subseteq Int

ASSUME LimitAssumption ==
  /\ MinTokens \in Nat /\ MaxTokens \in Nat /\ MinTokens >= 2
  /\ CorpusMax \in Nat /\ MaxCandidates \in Nat /\ MaxRevision \in Nat
  /\ SampleMin \in Nat /\ SampleMax \in Nat /\ SampleMax >= SampleMin
  /\ SampleMin >= 2 /\ PartitionMin \in Nat /\ PartitionMin >= SampleMin
  /\ PartitionMax \in Nat

ASSUME PolicyAssumption ==   \* POLICY_BOUNDS
  /\ Policy.min_candidates \in Nat /\ Policy.min_candidates >= SampleMin
  /\ Policy.max_filter_bps \in Nat /\ Policy.max_synthetic_bps \in Nat
  /\ Policy.min_vendi_reference_bps \in Nat /\ Policy.min_vendi_parent_bps \in Nat
  /\ Policy.min_category_coverage_bps \in Nat /\ Policy.min_category_coverage_bps <= 10000
  /\ Policy.max_self_bleu_increase_bps \in Nat

VARIABLES
  reference,  \* the registered pair of partitions
  corpus,     \* records of the head release with the origin of their links
  revision,   \* accepted releases
  pc,         \* where evaluate is
  doc, mode,  \* the candidate document and the mode of the request
  eligible,   \* records that passed SHAPE, TEXT and CATEGORY
  excluded,   \* [id, code] of the others
  todo,       \* eligible records not yet compared
  survivors,  \* records retained
  decision    \* what evaluate returned

evalVars == <<reference, corpus, revision, pc, doc, mode, eligible, excluded,
              todo, survivors, decision>>
requestVars == <<reference, corpus, revision, doc, mode>>
-----------------------------------------------------------------------------
(* filter.py *)

RangeOf(s) == {s[i] : i \in DOMAIN s}

(* token_set: unigrams and adjacent bigrams *)
Features ==
  [c \in Contents |->
     {<<Tokens(c)[i]>> : i \in DOMAIN Tokens(c)}
       \cup {<<Tokens(c)[i - 1], Tokens(c)[i]>> : i \in (DOMAIN Tokens(c)) \ {1}}]

SizeOf(c) == Cardinality(Features[c])

Common(c, d) == Cardinality(Features[c] \cap Features[d])

NearDuplicate(intersection, union) == 20 * intersection >= 19 * union

(* The pairs of contents that are near duplicates *)
Near == {p \in Contents \X Contents :
  NearDuplicate(Common(p[1], p[2]), SizeOf(p[1]) + SizeOf(p[2]) - Common(p[1], p[2]))}

SmallerSize(c, d) == IF SizeOf(c) < SizeOf(d) THEN SizeOf(c) ELSE SizeOf(d)

(* Mutant: the size filter asks for too much. *)
OverPrefiltered(c, d) == 20 * SmallerSize(c, d) <= 19 * (SizeOf(c) + SizeOf(d) - SmallerSize(c, d))

Prefiltered(c, d) == 39 * SmallerSize(c, d) < 19 * (SizeOf(c) + SizeOf(d))

(* Those that the dedup loops and the partition overlap check find: by way *)
(* of an inverted index over features, and past a filter on the sizes.     *)
Found == {p \in Near : Features[p[1]] \cap Features[p[2]] # {} /\ ~Prefiltered(p[1], p[2])}

Same(c, d) == Tokens(c) = Tokens(d)

Matches(c, d) == Same(c, d) \/ <<c, d>> \in Near

ContentsOf(records) == {r.content : r \in records}

(* Mutant: the tokens are not counted. *)
Uncounted(r, categories) ==
  IF WellShaped(r.content) /\ CleanText(r.content) THEN "none" ELSE "TEXT"

Flaw(r, categories) ==
  LET sized == /\ Len(Tokens(r.content)) \in MinTokens..MaxTokens
               /\ RangeOf(Tokens(r.content)) \cap LongWords = {}
  IN
  IF ~WellShaped(r.content) THEN "SHAPE"
  ELSE IF ~(CleanText(r.content) /\ sized) THEN "TEXT"
  ELSE IF Category(r.content) \notin categories THEN "CATEGORY"
  ELSE "none"

(* _survivor_order *)
Before(r, s) ==
  \/ Rank(r.content) < Rank(s.content)
  \/ Rank(r.content) = Rank(s.content) /\ r.id < s.id

(* Mutant: repeats are let through. *)
WeaklyAscending(d) == \A i, j \in DOMAIN d : i < j => d[i].id <= d[j].id

(* validate_artifact, validate_candidate_document *)
Ascending(d) == \A i, j \in DOMAIN d : i < j => d[i].id < d[j].id

(* Mutant: identifiers are not compared. *)
NeverConflicts(d) == d = <<>>

(* record_id_conflicts *)
Conflicts(d) == \E i \in DOMAIN d, p \in corpus : d[i].id = p.id /\ d[i].content # p.content

DuplicateCode(r) ==
  IF \E p \in corpus : Same(r.content, p.content) THEN "DUP_PARENT"
  ELSE IF \E s \in survivors : Same(r.content, s.content) THEN "DUP_CANDIDATE"
  ELSE IF \E p \in corpus : <<r.content, p.content>> \in Found THEN "NEAR_PARENT"
  ELSE IF \E s \in survivors : <<r.content, s.content>> \in Found THEN "NEAR_CANDIDATE"
  ELSE "none"
-----------------------------------------------------------------------------
(* register_reference and create_stream *)

Train   == RangeOf(reference.train)
Holdout == RangeOf(reference.holdout)

Categories == {Category(r.content) : r \in Train}   \* put_policy demands these

(* _partition_checks *)
PartitionChecked(d) ==
  /\ Ascending(d)
  /\ Len(d) \in PartitionMin..PartitionMax
  /\ \A i \in DOMAIN d :
       /\ WellShaped(d[i].content) /\ CleanText(d[i].content)
       /\ \E j \in DOMAIN d \ {i} : Category(d[j].content) = Category(d[i].content)
  /\ \A i, j \in DOMAIN d : i < j =>
       /\ ~Same(d[j].content, d[i].content)
       /\ (<<d[j].content, d[i].content>> \in Near => Prefiltered(d[j].content, d[i].content))

(* _check_partition_overlap *)
Overlapping(a, b) ==
  \E r \in a, s \in b :
    Same(s.content, r.content) \/ <<s.content, r.content>> \in Found

Registrable(ref) ==
  /\ PartitionChecked(ref.train) /\ PartitionChecked(ref.holdout)
  /\ {Category(c) : c \in ContentsOf(RangeOf(ref.train))}
       = {Category(c) : c \in ContentsOf(RangeOf(ref.holdout))}
  /\ ~Overlapping(RangeOf(ref.train), RangeOf(ref.holdout))

Link(r, origin) == [id |-> r.id, content |-> r.content, origin |-> origin]

NoDecision == [verdict |-> "none", reasons |-> {}, metrics |-> {}]

Init ==
  /\ reference = [train |-> <<>>, holdout |-> <<>>]
  /\ corpus = {} /\ revision = 0
  /\ pc = "unregistered"
  /\ doc = <<>> /\ mode = "mix"
  /\ eligible = {} /\ excluded = {} /\ todo = {} /\ survivors = {}
  /\ decision = NoDecision

(* What evaluate worked with is gone when it has returned. *)
Forget ==
  /\ pc' = "idle"
  /\ doc' = <<>> /\ mode' = "mix"
  /\ eligible' = {} /\ excluded' = {} /\ todo' = {} /\ survivors' = {}
  /\ decision' = NoDecision

(* A registration, a policy and a stream upon it *)
Register(ref) ==
  /\ pc = "unregistered"
  /\ Registrable(ref)
  /\ reference' = ref
  /\ corpus' = {Link(r, "human") : r \in RangeOf(ref.train)}
  /\ pc' = "idle"
  /\ UNCHANGED <<revision, doc, mode, eligible, excluded, todo, survivors, decision>>
-----------------------------------------------------------------------------
(* evaluate *)

Submit(d, m) ==
  /\ pc = "idle"
  /\ revision < MaxRevision
  /\ pc' = "checking"
  /\ doc' = d /\ mode' = m
  /\ UNCHANGED <<reference, corpus, revision, eligible, excluded, todo, survivors, decision>>

Decided(verdict, reasons, metrics) ==
  /\ pc' = "decided"
  /\ decision' = [verdict |-> verdict, reasons |-> reasons, metrics |-> metrics]

Malformed(d) == d = <<>> \/ ~Ascending(d) \/ Len(d) > MaxCandidates \/ Conflicts(d)

(* SCHEMA, RECORD_LIMIT or RECORD_ID_CONFLICT: the job fails *)
RefuseDocument ==
  /\ pc = "checking"
  /\ Malformed(doc)
  /\ Decided("error", {}, {})
  /\ UNCHANGED <<requestVars, eligible, excluded, todo, survivors>>

Exclusion(r, code) == [id |-> r.id, code |-> code]

Sift ==
  LET flawed == {r \in RangeOf(doc) : Flaw(r, Categories) # "none"} IN
  /\ pc = "checking"
  /\ ~Malformed(doc)
  /\ pc' = "sifted"
  /\ eligible' = RangeOf(doc) \ flawed
  /\ excluded' = {Exclusion(r, Flaw(r, Categories)) : r \in flawed}
  /\ UNCHANGED <<requestVars, todo, survivors, decision>>

(* Mutant: only exact copies leak. *)
LeaksExactly(records) == \E r \in records, h \in Holdout : Same(r.content, h.content)

Leaks(records) == \E r \in records, h \in Holdout : Matches(r.content, h.content)

(* HOLDOUT_LEAK before any deduplication, nothing else reported *)
RejectLeak ==
  /\ pc = "sifted"
  /\ Leaks(eligible)
  /\ Decided("reject", {"HOLDOUT_LEAK"}, {})
  /\ UNCHANGED <<requestVars, eligible, excluded, todo, survivors>>

StartDedup ==
  /\ pc = "sifted"
  /\ ~Leaks(eligible)
  /\ pc' = "dedup"
  /\ todo' = eligible
  /\ UNCHANGED <<requestVars, eligible, excluded, survivors, decision>>

(* One turn of the loop over sorted(eligible) *)
Compare(r) ==
  /\ pc = "dedup"
  /\ r \in todo
  /\ \A s \in todo \ {r} : Before(r, s)
  /\ todo' = todo \ {r}
  /\ IF DuplicateCode(r) = "none"
       THEN survivors' = survivors \cup {r} /\ UNCHANGED excluded
       ELSE excluded' = excluded \cup {Exclusion(r, DuplicateCode(r))} /\ UNCHANGED survivors
  /\ UNCHANGED <<requestVars, pc, eligible, decision>>
-----------------------------------------------------------------------------
(* The proposal and its metrics *)

Links == {Link(r, "synthetic") : r \in survivors}

(* Mutant: of the parent only the human records are kept. *)
HumanAndLinks == IF mode = "mix" THEN {l \in corpus : l.origin = "human"} \cup Links ELSE Links

Proposed == IF mode = "mix" THEN corpus \cup Links ELSE Links

Synthetic(links) == Cardinality({l \in links : l.origin = "synthetic"})

SampleSizes == {SampleMax, Cardinality(Holdout), Cardinality(corpus), Cardinality(Proposed)}

SampleSize == CHOOSE m \in SampleSizes : \A n \in SampleSizes : m <= n

CountOf(category, records) == Cardinality({r \in records : Category(r.content) = category})

(* coverage: the least ratio over the categories of the holdout *)
CoverageRatios ==
  {[num |-> CountOf(c, Proposed) * Cardinality(Holdout),
    den |-> Cardinality(Proposed) * CountOf(c, Holdout)] : c \in {Category(h.content) : h \in Holdout}}

LeastRatio == {q \in CoverageRatios :
  \A r \in CoverageRatios : q.num * r.den <= r.num * q.den}

(* Metrics that have a value: self_bleu fails on a text of one token. *)
Measurable == \A r \in Holdout \cup Proposed \cup corpus : Len(Tokens(r.content)) >= 2

(* reduce_gate *)
EarlyReasons ==
  {r \in {"TOO_FEW_VALID", "FILTER_BUDGET", "CORPUS_LIMIT", "REPLACE_FORBIDDEN"} :
     \/ r = "TOO_FEW_VALID" /\ Cardinality(survivors) < Policy.min_candidates
     \/ r = "FILTER_BUDGET"
          /\ Cardinality(excluded) * 10000 > Policy.max_filter_bps * Len(doc)
     \/ r = "CORPUS_LIMIT" /\ Cardinality(Proposed) > CorpusMax
     \/ r = "REPLACE_FORBIDDEN" /\ mode = "replace"}

EarlyNull ==
  \/ Cardinality(survivors) < Policy.min_candidates
  \/ Cardinality(Proposed) > CorpusMax
  \/ SampleSize < SampleMin

(* Mutant: a tolerance of one basis point. *)
AlmostBelow(q, bps) == (10000 * q.num) \div q.den + 1 < bps

Below(q, bps) == q.num * 10000 < bps * q.den

NumericReasons(x) ==
  {r \in {"SYNTHETIC_LIMIT", "REFERENCE_DIVERSITY", "PARENT_DIVERSITY", "REPETITION",
          "CATEGORY_LOSS"} :
     \/ r = "SYNTHETIC_LIMIT"
          /\ Synthetic(Proposed) * 10000 > Policy.max_synthetic_bps * Cardinality(Proposed)
     \/ r = "REFERENCE_DIVERSITY" /\ Below(x.reference, Policy.min_vendi_reference_bps)
     \/ r = "PARENT_DIVERSITY" /\ Below(x.parent, Policy.min_vendi_parent_bps)
     \/ r = "REPETITION" /\ x.increase > Policy.max_self_bleu_increase_bps
     \/ r = "CATEGORY_LOSS" /\ Below(x.coverage, Policy.min_category_coverage_bps)}

Bps(q) == (10000 * q.num) \div q.den

Capped(n) == IF n > 10000 THEN 10000 ELSE n

Report(x) ==
  [vendi_reference_bps    |-> Bps(x.reference),
   vendi_parent_bps       |-> Bps(x.parent),
   self_bleu_increase_bps |-> x.increase,
   category_coverage_bps  |-> Capped(Bps(x.coverage)),
   synthetic_bps          |-> (10000 * Synthetic(Proposed)) \div Cardinality(Proposed),
   filter_bps             |-> (10000 * Cardinality(excluded)) \div Len(doc)]

Compared == pc = "dedup" /\ todo = {}

DecideEarly ==
  /\ Compared
  /\ EarlyNull
  /\ Decided("reject", EarlyReasons, {})
  /\ UNCHANGED <<requestVars, eligible, excluded, todo, survivors>>

(* INSUFFICIENT_SAMPLE, when the sample holds such a text *)
FailMetrics ==
  /\ Compared
  /\ ~EarlyNull
  /\ ~Measurable
  /\ Decided("error", {"INSUFFICIENT_SAMPLE"}, {})
  /\ UNCHANGED <<requestVars, eligible, excluded, todo, survivors>>

Verdict(reasons) == IF reasons = {} THEN "accept" ELSE "reject"

Decide(q, p, i) ==
  /\ Compared
  /\ ~EarlyNull
  /\ \E k \in LeastRatio :
       LET x == [reference |-> q, parent |-> p, increase |-> i, coverage |-> k]
           reasons == EarlyReasons \cup NumericReasons(x)
       IN Decided(Verdict(reasons), reasons, {Report(x)})
  /\ UNCHANGED <<requestVars, eligible, excluded, todo, survivors>>
-----------------------------------------------------------------------------
(* _commit_accept: the links of the parent and of the survivors *)
Publish ==
  /\ pc = "decided"
  /\ decision.verdict = "accept"
  /\ corpus' = Proposed
  /\ revision' = revision + 1
  /\ Forget
  /\ UNCHANGED reference

(* The job is rejected or failed. *)
Drop ==
  /\ pc = "decided"
  /\ decision.verdict # "accept"
  /\ Forget
  /\ UNCHANGED <<reference, corpus, revision>>

Next ==
  \/ \E ref \in References : Register(ref)
  \/ \E d \in Documents, m \in {"mix", "replace"} : Submit(d, m)
  \/ RefuseDocument \/ Sift \/ RejectLeak \/ StartDedup
  \/ \E r \in todo : Compare(r)
  \/ DecideEarly \/ FailMetrics
  \/ \E q \in Ratios, p \in Ratios, i \in Increases : Decide(q, p, i)
  \/ Publish \/ Drop

Spec == Init /\ [][Next]_evalVars
-----------------------------------------------------------------------------
(* Properties *)

ExclusionCodes == {"SHAPE", "TEXT", "CATEGORY", "DUP_PARENT", "DUP_CANDIDATE",
                   "NEAR_PARENT", "NEAR_CANDIDATE"}

(* An evaluation works on records of its document. *)
TypeOK ==
  /\ reference \in [train : Seq(Record), holdout : Seq(Record)]
  /\ corpus \subseteq [id : Nat, content : Contents, origin : {"human", "synthetic"}]
  /\ revision \in 0..MaxRevision
  /\ pc \in {"unregistered", "idle", "checking", "sifted", "dedup", "decided"}
  /\ doc \in Seq(Record) /\ mode \in {"mix", "replace"}
  /\ eligible \subseteq RangeOf(doc) /\ todo \subseteq eligible /\ survivors \subseteq eligible
  /\ excluded \subseteq [id : {r.id : r \in RangeOf(doc)}, code : ExclusionCodes]
  /\ decision.verdict \in {"none", "accept", "reject", "error"}

(* No release holds a text that matches the holdout, whatever generations  *)
(* of candidates were mixed in.  Texts without tokens match nothing that   *)
(* an index over features finds, so _check_partition_overlap does not see  *)
(* them.                                                                   *)
CorpusNeverLeaks ==
  \A r \in corpus, h \in Holdout :
    Tokens(r.content) # <<>> => ~Matches(r.content, h.content)

(* In every release, identifiers are unique and no two texts match: what   *)
(* the partition checks demand of the genesis corpus, conflict check and   *)
(* deduplication keep for every later one.                                 *)
CorpusDistinct ==
  \A r, s \in corpus :
    r # s => r.id # s.id /\ ~Matches(r.content, s.content)

(* A release only adds synthetic records to its parent: replace proposals  *)
(* are never accepted and human records stay.                              *)
ReleasesOnlyGrow ==
  [][pc # "unregistered" => /\ corpus \subseteq corpus'
                            /\ \A r \in corpus' \ corpus : r.origin = "synthetic"]_corpus

(* Among what has been compared the survivors are exactly the records that *)
(* match neither the parent nor an earlier survivor, whatever the index    *)
(* and the size filter skip.                                               *)
SurvivorsKernel ==
  pc = "dedup" =>
    \A r \in eligible \ todo :
      r \in survivors <=>
        /\ \A p \in corpus : ~Matches(r.content, p.content)
        /\ \A s \in survivors : Before(s, r) => ~Matches(r.content, s.content)

(* Every submitted record is a survivor or is excluded once, for a reason  *)
(* that holds of it.                                                       *)
RecordsAccounted ==
  Compared =>
    /\ Len(doc) = Cardinality(survivors) + Cardinality(excluded)
    /\ \A r \in eligible \ survivors :
         \E e \in excluded : e.id = r.id /\
           \/ e.code \in {"DUP_PARENT", "NEAR_PARENT"}
                /\ \E p \in corpus : Matches(r.content, p.content)
           \/ e.code \in {"DUP_CANDIDATE", "NEAR_CANDIDATE"}
                /\ \E s \in survivors : Matches(r.content, s.content)

(* A rejection names a reason.  A sample that is too small gives none of   *)
(* its own; it cannot happen without TOO_FEW_VALID because of the least    *)
(* sizes of partitions and batches.                                        *)
RejectionHasReasons == decision.verdict = "reject" => decision.reasons # {}

(* What a report shows in whole basis points agrees with the decision that *)
(* was taken on exact ratios: a lower limit is missed exactly when the     *)
(* number shown is below it, and no accepted number shown exceeds an upper *)
(* limit.                                                                  *)
ReportFaithful ==
  \A m \in decision.metrics :
    /\ "REFERENCE_DIVERSITY" \in decision.reasons
         <=> m.vendi_reference_bps < Policy.min_vendi_reference_bps
    /\ "PARENT_DIVERSITY" \in decision.reasons
         <=> m.vendi_parent_bps < Policy.min_vendi_parent_bps
    /\ "CATEGORY_LOSS" \in decision.reasons
         <=> m.category_coverage_bps < Policy.min_category_coverage_bps
    /\ m.synthetic_bps > Policy.max_synthetic_bps => "SYNTHETIC_LIMIT" \in decision.reasons
    /\ m.filter_bps > Policy.max_filter_bps => "FILTER_BUDGET" \in decision.reasons

(* Every accepted release is within the policy's share of synthetic        *)
(* records, counted over all generations.                                  *)
SyntheticWithinLimit ==
  revision > 0 =>
    Cardinality({l \in corpus : l.origin = "synthetic"}) * 10000
      <= Policy.max_synthetic_bps * Cardinality(corpus)

(* A candidate never makes the metrics undefined; only a partition can     *)
(* hold a text too short to measure.                                       *)
MetricsDefined ==
  "INSUFFICIENT_SAMPLE" \in decision.reasons =>
    \E r \in Train \cup Holdout : Len(Tokens(r.content)) < 2
=============================================================================
