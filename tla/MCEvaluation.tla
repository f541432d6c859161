---------------------------- MODULE MCEvaluation ----------------------------
(* Texts, partitions and documents for checking Evaluation.  Texts are     *)
(* sequences of numbered words; a run of ten distinct words has 19         *)
(* features, and each word repeated at the end adds one, so the pairs      *)
(* around the threshold 19/20 are met exactly.                             *)
EXTENDS Evaluation, TLC

Run(a) == [i \in 1..10 |-> a + i]

MCTokens(c) ==
  CASE c \in {"x", "xcase"} -> Run(100)
    [] c = "xy"             -> Run(100) \o <<110>>
    [] c = "xyz"            -> Run(100) \o <<110, 109>>
    [] c = "t1near"         -> Run(0) \o <<10>>
    [] c \in {"t1", "t1case"} -> Run(0)
    [] c = "t2"             -> Run(10)
    [] c = "t3"             -> Run(20)
    [] c = "t4"             -> Run(30)
    [] c \in {"h1", "hcase"} -> Run(200)
    [] c = "hnear"          -> Run(200) \o <<210>>
    [] c = "h2"             -> Run(210)
    [] c = "h3"             -> Run(220)
    [] c = "h4"             -> Run(230)
    [] c = "u"              -> Run(300)
    [] c = "v"              -> Run(310)
    [] c = "w"              -> Run(320)
    [] c = "word"           -> <<400>>
    [] c = "long"           -> Run(500) \o <<600>>
    [] OTHER                -> Run(400)

MCContents == {"x", "xcase", "xy", "xyz", "t1near", "t1", "t1case", "t2", "t3", "t4",
               "h1", "hcase", "hnear", "h2", "h3", "h4", "u", "v", "w", "word",
               "long", "dirty", "shapeless"}

MCCategory(c) == IF c \in {"xcase", "t3", "t4", "h3", "h4", "v", "w", "word"} THEN "b" ELSE "a"

MCShaped(c) == c # "shapeless"

MCClean(c) == c # "dirty"

MCRank(c) ==
  LET order == <<"t1", "t1case", "t1near", "t2", "t3", "t4", "x", "xcase", "xy", "xyz", "h1",
                 "hcase", "hnear", "h2", "h3", "h4", "u", "v", "w", "word", "long",
                 "dirty", "shapeless">>
  IN CHOOSE i \in DOMAIN order : order[i] = c

Number(first, contents) ==
  [i \in DOMAIN contents |-> [id |-> first + i, content |-> contents[i]]]

(* Two that register, and one each that overlaps, repeats itself or has    *)
(* other categories                                                        *)
MCReferences ==
  {[train |-> Number(0, t), holdout |-> Number(0, h)] :
     <<t, h>> \in {<<<<"t1", "t2", "t3", "t4">>, <<"h1", "h2", "h3", "h4">>>>,
                   <<<<"t1", "t2">>, <<"h1", "h2">>>>,
                   <<<<"t1", "t2", "t3", "word">>, <<"h1", "h2", "h3", "h4">>>>,
                   <<<<"t1", "hnear">>, <<"h1", "h2">>>>,
                   <<<<"t1", "t1near">>, <<"h1", "h2">>>>,
                   <<<<"t1", "t2">>, <<"h1", "h3">>>>}}

Pool == {<<1, "u">>, <<5, "xyz">>, <<6, "xy">>, <<7, "x">>, <<8, "xcase">>,
         <<9, "u">>, <<10, "v">>, <<11, "t1near">>, <<17, "w">>}

Numbered(p) == [id |-> p[1], content |-> p[2]]

(* Pairs and triples in order, some with a record that leaks or is         *)
(* flawed, a pair in the wrong order, one repeated, an empty document and  *)
(* one that is too long                                                    *)
MCDocuments ==
  LET Others == {<<12, "hnear">>, <<13, "word">>, <<14, "dirty">>, <<15, "shapeless">>,
                 <<16, "long">>}
      Pairs == {<<Numbered(p), Numbered(q)>> : p \in Pool, q \in Pool \cup Others}
      Triples == {<<Numbered(p), Numbered(q), Numbered(r)>> : p, q, r \in Pool}
  IN {d \in Pairs \cup Triples : Ascending(d)}
       \cup {<<>>, Number(20, <<"u", "v", "x", "xy">>),
             <<Numbered(<<7, "x">>), Numbered(<<7, "x">>)>>,
             <<Numbered(<<10, "v">>), Numbered(<<9, "u">>)>>}

MCPolicy ==
  [min_candidates |-> 2, max_filter_bps |-> 3333, max_synthetic_bps |-> 4500,
   min_vendi_reference_bps |-> 9000, min_vendi_parent_bps |-> 9000,
   min_category_coverage_bps |-> 6600, max_self_bleu_increase_bps |-> 500]

Over(n, d) == [num |-> n, den |-> d]

MCRatios == {Over(9, 10), Over(17999, 20000)}
=============================================================================
