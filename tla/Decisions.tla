------------------------------ MODULE Decisions ------------------------------
(***************************************************************************)
(* The deciders beside each other: Selection ranks what the indexers       *)
(* offer, Matcher identifies what lies on disk, Library records what was   *)
(* decided about it.  They share no state, so two rest while one works,    *)
(* and the states add up.                                                  *)
(***************************************************************************)
EXTENDS Selection, Matcher, Library

DecideInit == SelectInit /\ MatchInit /\ Init

SelectionRests == SelectInit /\ UNCHANGED selectVars
MatcherRests == MatchInit /\ UNCHANGED matchVars
LibraryRests == Init /\ UNCHANGED vars

DecideNext ==
    \/ MatcherRests /\ LibraryRests /\ disk = {} /\ SelectNext
    \/ SelectionRests /\ LibraryRests /\ disk = {} /\ MatchNext
    \/ SelectionRests /\ MatcherRests /\ Next

DecideSpec == DecideInit /\ [][DecideNext]_<<selectVars, matchVars, vars>>
=============================================================================
