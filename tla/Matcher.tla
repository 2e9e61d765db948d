------------------------------- MODULE Matcher -------------------------------
(***************************************************************************)
(* How a file found on disk is identified (internal/matcher): the ids      *)
(* embedded in its path are looked up (tier 1), and unless one of them     *)
(* dominates, the hits of a search by name join them (tier 3; tier 2 has   *)
(* no resolver), agreeing candidates are merged, and the best one's        *)
(* confidence decides the outcome.                                         *)
(*                                                                         *)
(* Confidences are in ten-thousandths.  An embedded id is [own |-> its own *)
(* reference, reply |-> what the provider says of it], a reply [kind, ref].*)
(* A file is [year, numbering, pathEpisode, hasEpisode]: the year of its   *)
(* parse (0: none), whether the parse numbers episodes, and whether the    *)
(* path and the parse name one.  A title has a year and an exact or an     *)
(* approximate name.                                                       *)
(***************************************************************************)
EXTENDS Integers, Sequences, FiniteSets, SequencesExt

CONSTANTS Evidence,      \* the inputs: [file, ids, hits, year, exact]
          Thresholds     \* [Auto, ReviewLow, LowMin]

ASSUME EvidenceAssumption ==
    \A e \in Evidence :
        /\ e = [file |-> e.file, ids |-> e.ids, hits |-> e.hits, year |-> e.year,
                exact |-> e.exact]
        /\ e.ids \in Seq(ToSet(e.ids)) /\ e.hits \in Seq(ToSet(e.hits))

VARIABLES evidence, record

matchVars == <<evidence, record>>

NoEvidence == [ids |-> <<>>, hits |-> <<>>]
NoRecord == [outcome |-> "none"]

ambiguousEpsilon == 200
corroborationStep == 500
corroborationCap == 9900
Validated(c) == (c * 99) \div 100
RedirectedTo(c) == (c * 95) \div 100
Penalized(c) == (c * 9) \div 10

-----------------------------------------------------------------------------
(***************************************************************************)
(* Candidates are numbered in the order they are found: those of the ids   *)
(* by the id, those of the hits after them.                                *)
(***************************************************************************)
\* Tier 1: a dead id is dropped; when the lookup fails the candidate passes as
\* it is, in its own namespace and without a year.
Looked(e, id) ==
    LET at(ref, c) == [ref |-> ref, confidence |-> c, year |-> e.year[ref],
                       episode |-> e.file.pathEpisode, tier |-> 1]
    IN  CASE id.reply.kind \in {"valid", "cross"} -> at(id.reply.ref, Validated(10000))
          [] id.reply.kind = "redirect" -> at(id.reply.ref, RedirectedTo(10000))
          [] OTHER -> [ref |-> id.own, confidence |-> 10000, year |-> 0,
                       episode |-> e.file.pathEpisode, tier |-> 1]

validateAgainstProvider(e) ==
    [i \in {k \in DOMAIN e.ids : e.ids[k].reply.kind # "dead"} |-> Looked(e, e.ids[i])]

\* The parser is nine tenths sure of a title; the cap of 0.85 is out of reach.
scoreSearchResult(e, rank, ref) ==
    (9 * (5000 + (IF Len(e.hits) = 1 THEN 1000 ELSE 0)
               + (IF e.file.year # 0 /\ e.year[ref] = e.file.year THEN 1500 ELSE 0)
               + (IF e.exact[ref] THEN 1000 ELSE 0) - 1000 * rank)) \div 10

\* Tier 3: the provider's hits in its order.
NameParse(e) ==
    [i \in {Len(e.ids) + k : k \in DOMAIN e.hits} |->
        LET k == i - Len(e.ids) IN
        [ref |-> e.hits[k], confidence |-> scoreSearchResult(e, k - 1, e.hits[k]),
         year |-> e.year[e.hits[k]], episode |-> e.file.hasEpisode, tier |-> 3]]

-----------------------------------------------------------------------------
\* Of the candidates S the first of the most confident.
Leading(cands, S) ==
    CHOOSE i \in S : \A j \in S :
        \/ cands[i].confidence > cands[j].confidence
        \/ cands[i].confidence = cands[j].confidence /\ i <= j

Top(cands) == Leading(cands, DOMAIN cands)

Tied(cands) ==
    \E j \in DOMAIN cands \ {Top(cands)} :
        cands[Top(cands)].confidence - cands[j].confidence < ambiguousEpsilon

dominantAbove(cands, threshold) ==
    /\ DOMAIN cands # {}
    /\ cands[Top(cands)].confidence >= threshold
    /\ ~Tied(cands)

Agreeing(cands, ref) == {i \in DOMAIN cands : cands[i].ref = ref}

\* The first of the most confident takes the place of those before it, and keeps
\* an episode that a later one names.
Bucket(cands, agreeing) ==
    LET first == Leading(cands, agreeing) IN
    [cands[first] EXCEPT !.episode =
        @ \/ \E j \in agreeing : j > first /\ cands[j].episode]

Mismatch(e, c) == e.file.year # 0 /\ c.year # 0 /\ c.year # e.file.year

Capped(c) == IF c > corroborationCap THEN corroborationCap ELSE c

Combined(e, cands, agreeing) ==
    LET best == Bucket(cands, agreeing)
        sum  == Capped(best.confidence
                         + corroborationStep * (Cardinality(agreeing) - 1))
    IN  [best EXCEPT !.confidence = IF Mismatch(e, best) THEN Penalized(sum) ELSE sum]

FirstSeen(cands) ==
    {i \in DOMAIN cands : \A j \in DOMAIN cands : j < i => cands[j].ref # cands[i].ref}

\* One candidate per reference, where it was first seen.
mergeCandidates(e, cands) ==
    [i \in FirstSeen(cands) |-> Combined(e, cands, Agreeing(cands, cands[i].ref))]

-----------------------------------------------------------------------------
\* Bug: a tie does not keep the best candidate from its band.
BandTied(cands) ==
    LET best == cands[Top(cands)].confidence IN
    IF best >= Thresholds.Auto THEN "confident"
    ELSE IF best >= Thresholds.ReviewLow THEN "confident_review"
    ELSE IF best >= Thresholds.LowMin THEN "low_confidence" ELSE "ambiguous"

Band(cands) ==
    LET best == cands[Top(cands)].confidence IN
    IF Tied(cands) \/ best < Thresholds.LowMin THEN "ambiguous"
    ELSE IF best >= Thresholds.Auto THEN "confident"
    ELSE IF best >= Thresholds.ReviewLow THEN "confident_review" ELSE "low_confidence"

\* A file that numbers episodes and a best candidate that names none make a
\* partial series of any outcome.
bandAndRecord(e, cands) ==
    IF DOMAIN cands = {} THEN [outcome |-> "no_match"]
    ELSE LET best    == cands[Top(cands)]
             outcome == IF ~best.episode /\ e.file.numbering
                        THEN "partial_series" ELSE Band(cands)
         IN  IF outcome = "ambiguous" THEN [outcome |-> outcome]
             ELSE [outcome |-> outcome, chosen |-> best.ref,
                   episode |-> best.episode]

\* What both tiers found.
Found(e) ==
    LET t1 == validateAgainstProvider(e)
        t3 == NameParse(e)
    IN  [i \in DOMAIN t1 \cup DOMAIN t3 |-> IF i \in DOMAIN t1 THEN t1[i] ELSE t3[i]]

Candidates(e) ==
    LET t1 == validateAgainstProvider(e) IN
    IF dominantAbove(t1, Thresholds.Auto) THEN t1
    ELSE mergeCandidates(e, Found(e))

Aggregate(e) == bandAndRecord(e, Candidates(e))

-----------------------------------------------------------------------------
MatchInit == evidence = NoEvidence /\ record = NoRecord

MatchFile(e) ==
    /\ evidence = NoEvidence
    /\ evidence' = e
    /\ record' = Aggregate(e)

\* The record is stored; the next file starts from nothing.
Recorded ==
    /\ evidence # NoEvidence
    /\ evidence' = NoEvidence /\ record' = NoRecord

MatchNext == (\E e \in Evidence : MatchFile(e)) \/ Recorded

MatchSpec == MatchInit /\ [][MatchNext]_matchVars

-----------------------------------------------------------------------------
\* The order in which a path happens to name its ids never decides which
\* title a file is taken for; only a partial series may depend on it.
OrderFree ==
    record.outcome \in {"confident", "confident_review", "low_confidence"} =>
        Aggregate([evidence EXCEPT !.ids = Reverse(@)]) = record
=============================================================================
