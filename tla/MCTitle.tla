------------------------------ MODULE MCTitle ------------------------------
(***************************************************************************)
(* A season of two episodes and the pack of both.                          *)
(***************************************************************************)
EXTENDS TitlePage, TLC

CONSTANTS e1, e2,   \* two episodes of a season
          pk        \* the season pack

MCCovers == [r \in Releases |-> {e1, e2}]
MCBetter == {}
MCSegment == [w \in Wants |-> "backfill"]
MCDestPerEpisode == [x \in Wants \X Releases |-> x[1]]
MCAllAuto == [s \in Segments |-> "auto"]
Episodes == Permutations({e1, e2})
=============================================================================
