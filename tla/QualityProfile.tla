--------------------------- MODULE QualityProfile ----------------------------
(***************************************************************************)
(* The quality engine (internal/qualityprofile): which releases a profile  *)
(* lets through, which of them it prefers, and whether one is worth        *)
(* replacing another.                                                      *)
(*                                                                         *)
(* A release carries its bin, size, seeders and guid, and the subject its  *)
(* profile's condition trees are evaluated on.  A profile is               *)
(*   [bins |-> bins best first, minSeeders, sizes |-> bands per bin,       *)
(*    gates |-> trees, formats |-> <<[tree, weight]>>].                    *)
(* guids are numbers, ordered as the code orders the strings.              *)
(***************************************************************************)
EXTENDS Rules, Integers, FiniteSets

CONSTANT NoRelease

\* An unlisted bin ranks after every listed one; 0 is best.
rank(p, b) ==
    IF \E i \in DOMAIN p.bins : p.bins[i] = b
    THEN (CHOOSE i \in DOMAIN p.bins : p.bins[i] = b) - 1
    ELSE Len(p.bins)

Banded(p, r) == r.bin \in DOMAIN p.sizes /\ r.runtime # Nil /\ r.runtime > 0

\* A bound of zero is no bound; without a band or a runtime there is no gate.
FitsBand(p, r) ==
    Banded(p, r) =>
        LET band == p.sizes[r.bin] IN
        /\ band.max > 0 => r.size <= band.max * r.runtime
        /\ band.min > 0 => r.size >= band.min * r.runtime

Gate(p, r, at) ==
    /\ rank(p, r.bin) < Len(p.bins)
    /\ r.seeders >= p.minSeeders
    /\ \A g \in p.gates : Eval(g, r.subject, at) # "true"
    /\ FitsBand(p, r)

\* The positions of the formats that match a subject.
evalFormats(p, subject, at) ==
    {i \in DOMAIN p.formats : Eval(p.formats[i].tree, subject, at) = "true"}

\* The weights of the formats at the positions M, added up.
Weight(p, M) ==
    LET sum[n \in 0..Len(p.formats)] ==
            IF n = 0 THEN 0
            ELSE sum[n - 1] + (IF n \in M THEN p.formats[n].weight ELSE 0)
    IN  sum[Len(p.formats)]

Score(p, r, at) == Weight(p, evalFormats(p, r.subject, at))

abs64(n) == IF n < 0 THEN -n ELSE n

\* How far r is from the size a's band prefers for a's runtime.
Distance(p, a, r) == abs64(r.size - p.sizes[a.bin].preferred * a.runtime)

Preferred(p, a, b) ==
    /\ Banded(p, a) /\ p.sizes[a.bin].preferred > 0
    /\ Distance(p, a, a) # Distance(p, a, b)

\* Bug: the seeders count before the score.
BetterSeeded(p, a, b) ==
    LET at == "search" IN
    IF rank(p, a.bin) # rank(p, b.bin) THEN rank(p, a.bin) < rank(p, b.bin)
    ELSE IF a.seeders # b.seeders THEN a.seeders > b.seeders
    ELSE Score(p, a, at) > Score(p, b, at)

\* Bin, score, seeders, distance to the preferred size, size, guid.
better(p, a, b) ==
    LET at == "search" IN
    IF rank(p, a.bin) # rank(p, b.bin) THEN rank(p, a.bin) < rank(p, b.bin)
    ELSE IF Score(p, a, at) # Score(p, b, at)
         THEN Score(p, a, at) > Score(p, b, at)
    ELSE IF a.seeders # b.seeders THEN a.seeders > b.seeders
    ELSE IF Preferred(p, a, b) THEN Distance(p, a, a) < Distance(p, a, b)
    ELSE IF a.size # b.size THEN a.size < b.size
    ELSE a.guid < b.guid

\* The winner of a group of the answer's positions, in the order the indexers
\* gave the releases.
Pick(p, answer, group) ==
    LET Wins(n, best) ==
            /\ n \in group /\ Gate(p, answer[n], "search")
            /\ best = NoRelease \/ better(p, answer[n], best)
        best[n \in 0..Len(answer)] ==
            IF n = 0 THEN NoRelease
            ELSE IF Wins(n, best[n - 1]) THEN answer[n] ELSE best[n - 1]
    IN  best[Len(answer)]

FileQuality(p, r) == [bin |-> r.bin, score |-> Score(p, r, "search")]

StrictlyBetterQuality(p, current, candidate) ==
    LET cand == rank(p, candidate.bin)
        cur  == rank(p, current.bin)
    IN  IF cand # cur THEN cand < cur ELSE candidate.score > current.score

-----------------------------------------------------------------------------
(***************************************************************************)
(* The same release evaluated again at import, where the media probe has   *)
(* been assembled into its subject.                                        *)
(***************************************************************************)
Probed(r) == [r.subject EXCEPT !.halves = @ \cup {"mediainfo"}]

HardFails(p, s) == \E g \in p.gates : Eval(g, s, "import") = "true"

\* Both moments are evaluated on the probed subject: the phase alone keeps
\* the search from seeing the probe.
Penalty(p, s) ==
    Weight(p, evalFormats(p, s, "search") \ evalFormats(p, s, "import"))

ReGate(p, s) == IF HardFails(p, s) THEN "hard_fail"
                ELSE IF Penalty(p, s) > 0 THEN "penalize" ELSE "pass"
=============================================================================
