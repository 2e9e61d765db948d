----------------------------- MODULE MCPipeline -----------------------------
(***************************************************************************)
(* Small instances of Pipeline for TLC: a season of two episodes with one  *)
(* pack, and a movie with two releases.                                    *)
(***************************************************************************)
EXTENDS PipelineClaims, Ownership

CONSTANTS e1, e2,   \* two episodes of a season
          m,        \* a movie
          r1, r2,   \* single releases of e1, or both of m
          pk        \* the season pack

MCCovers == [r \in Releases |-> IF r = pk THEN {e1, e2} ELSE {e1}]

MCMovieCovers == [r \in Releases |-> {m}]

MCBetter == ({r2} \X {pk, r1}) \cap (Releases \X Releases)

\* The second episode airs while the tracking is active.
MCSegment == [w \in Wants |-> IF w = e2 THEN "ongoing" ELSE "backfill"]

\* A file name template that tells releases apart, and one that does not.
MCDestPerRelease == [x \in Wants \X Releases |-> x]
MCDestPerEpisode == [x \in Wants \X Releases |-> x[1]]

MCAllAuto == [s \in Segments |-> "auto"]
MCAllManual == [s \in Segments |-> "manual"]
MCAllPropose == [s \in Segments |-> "propose"]
=============================================================================
