----------------------------- MODULE MCSessions -----------------------------
(***************************************************************************)
(* A small instance of Administration for TLC: the tabs of one browser;    *)
(* of the quality profiles one is the operator's, the others are the       *)
(* presets.                                                                *)
(***************************************************************************)
EXTENDS Administration, TLC

CONSTANTS d1, moviePreset, seriesPreset, movieRepack, seriesRepack

MCHome == [t \in Tabs |-> d1]
TabsAndIds == Permutations(Tabs) \cup Permutations(Sessions)

MCPresets == [d \in Domains |-> IF d = "movie" THEN moviePreset ELSE seriesPreset]
MCRepack == [d \in Domains |-> IF d = "movie" THEN movieRepack ELSE seriesRepack]
MCSeeds == <<"movie", "series">>
=============================================================================
