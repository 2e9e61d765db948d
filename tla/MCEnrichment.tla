---------------------------- MODULE MCEnrichment ----------------------------
(***************************************************************************)
(* Two episodes, two seasons, one movie.  The ids are interchangeable, so  *)
(* of the provider's lists at the start those that are sorted will do.     *)
(***************************************************************************)
EXTENDS Enrichment

MCListings ==
    {u \in [Ids -> Seasons \cup {0}] : \A e, f \in Ids : e < f => u[e] <= u[f]}
=============================================================================
