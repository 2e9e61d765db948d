------------------------------ MODULE Selection ------------------------------
(***************************************************************************)
(* The decisions behind one want's search (AcquisitionService.pick, the    *)
(* profile's Pick, the routing dispatch, ProposeOrSupersede): the indexers *)
(* answer with releases in any order, quality picks the best single and    *)
(* the best pack, coverage chooses between them, routing says where the    *)
(* grab would go, and the pick is parked as a proposal or takes the place  *)
(* of a worse one.  Between two searches an operator may decline the       *)
(* proposal, or edit the profile or the routing rules.                     *)
(*                                                                         *)
(* AcquisitionWorker leaves the choice of the release open; here it is     *)
(* computed, for one want and its siblings, with nobody else at work.      *)
(* ThisWant is any of the season's wants that is searched for: a search    *)
(* that meets an open proposal is a sibling's of the same tick, since a    *)
(* held want is not claimed.                                               *)
(* Bounded: at most MaxResults releases in one answer, MaxDeclines         *)
(* declined.                                                               *)
(***************************************************************************)
EXTENDS QualityProfile, Routing, FiniteSetsExt

CONSTANTS Releases,     \* the releases the indexers hold for the season
          StartProfile, \* the want's profile as it is seeded
          Profiles,     \* the states an operator may leave it in
          RuleSets,     \* the same for the routing rules, of which none is seeded
          ThisWant, Siblings,   \* the want, and the season's in-flight wants
          MaxResults, MaxDeclines

ASSUME SelectionAssumption ==
    /\ ThisWant \in Siblings /\ StartProfile \in Profiles /\ {} \in RuleSets
    /\ IsFiniteSet(Releases) /\ NoRelease \notin Releases
    /\ \A r \in Releases :
          r.subject = [value |-> r.subject.value, halves |-> r.subject.halves]
    /\ \A p \in Profiles :
          /\ p.bins \in Seq(ToSet(p.bins)) /\ p.gates \subseteq Trees
          /\ p.formats \in Seq([tree : Trees, weight : Int])
    /\ MaxResults \in Nat /\ MaxDeclines \in Nat

VARIABLES profile, rules, excl,
          open,      \* the open proposal
          results,   \* the answer of the indexers that is being ranked
          seen       \* what the searches ranked since open was opened

selectVars == <<profile, rules, excl, open, results, seen>>

NoProposal == [release |-> NoRelease]

Proposal(r, covered) ==
    [release |-> r, quality |-> FileQuality(profile, r), covered |-> covered,
     actions |-> Dispatch(rules, r.subject)]

-----------------------------------------------------------------------------
IsOpen == open # NoProposal

\* The want's own exclusion drops the release; what does not cover the want
\* is dropped by the relevance gate.
Relevant(r) == ThisWant \in r.covers /\ <<ThisWant, r.guid>> \notin excl

Group(answer, kind) ==
    {i \in DOMAIN answer : Relevant(answer[i]) /\ answer[i].kind = kind}

coveredWantIDs(r) ==
    {w \in Siblings : w \in r.covers /\ <<w, r.guid>> \notin excl}

choosePick(single, pack) ==
    IF pack # NoRelease
         /\ (Cardinality(coveredWantIDs(pack)) >= 2 \/ single = NoRelease)
    THEN pack ELSE single

pick(answer) ==
    choosePick(Pick(profile, answer, Group(answer, "single")),
               Pick(profile, answer, Group(answer, "pack")))

Covered(r) == IF r.kind = "pack" THEN coveredWantIDs(r) ELSE {ThisWant}

Ranked(answer, r) ==
    {FileQuality(profile, answer[i]) :
        i \in {k \in Group(answer, r.kind) : Gate(profile, answer[k], "search")}}

-----------------------------------------------------------------------------
SelectInit ==
    /\ profile = StartProfile /\ rules = {}
    /\ excl = {} /\ open = NoProposal /\ results = <<>> /\ seen = {}

Supersedes(r) ==
    StrictlyBetterQuality(profile, open.quality, FileQuality(profile, r))

\* The indexers answer; nothing is stored.
Search(answer) ==
    /\ results = <<>>
    /\ results' = answer
    /\ UNCHANGED <<profile, rules, excl, open, seen>>

ProposeOrSupersede ==
    /\ results # <<>>
    /\ LET r == pick(results) IN
       IF r = NoRelease THEN UNCHANGED <<open, seen>>
       ELSE /\ open' = IF ~IsOpen \/ Supersedes(r)
                       THEN Proposal(r, Covered(r)) ELSE open
            /\ seen' = seen \cup Ranked(results, r)
    /\ results' = <<>>
    /\ UNCHANGED <<profile, rules, excl>>

\* Excluded for every want it covers, so that the next search passes it over.
Decline ==
    /\ IsOpen /\ results = <<>>
    /\ Cardinality({e[2] : e \in excl}) < MaxDeclines
    /\ excl' = excl \cup {<<w, open.release.guid>> : w \in open.covered}
    /\ open' = NoProposal /\ seen' = {}
    /\ UNCHANGED <<profile, rules, results>>

\* Qualities ranked under the old profile are not comparable any more.
UpdateProfile(p) ==
    /\ p # profile /\ results = <<>>
    /\ profile' = p /\ seen' = {}
    /\ UNCHANGED <<rules, excl, open, results>>

UpdateRules(R) ==
    /\ R # rules /\ results = <<>>
    /\ rules' = R
    /\ UNCHANGED <<profile, excl, open, results, seen>>

Answers == UNION {SetToSeqs(S) :
                     S \in {T \in SUBSET Releases : Cardinality(T) <= MaxResults}}

SelectNext ==
    \/ \E answer \in Answers \ {<<>>} : Search(answer)
    \/ ProposeOrSupersede
    \/ Decline
    \/ \E p \in Profiles : UpdateProfile(p)
    \/ \E R \in RuleSets : UpdateRules(R)

SelectSpec == SelectInit /\ [][SelectNext]_selectVars

-----------------------------------------------------------------------------
SelectTypeOK ==
    /\ profile \in Profiles /\ rules \in RuleSets
    /\ excl \subseteq Siblings \X {r.guid : r \in Releases}
    /\ results \in Answers
    /\ IsOpen => /\ open.release \in Releases
                 /\ open.covered \subseteq Siblings
                 /\ open.actions \in [Slots -> {Default} \cup
                        UNION {{x.actions[s] : s \in Slots} : x \in UNION RuleSets}]

\* The open proposal is never worse than what any search since has ranked in
\* the group it picked from: what Pick prefers and what ProposeOrSupersede
\* takes for better agree, however often the feed changes.
BestSeen ==
    IsOpen => \A q \in seen : ~StrictlyBetterQuality(profile, open.quality, q)

\* A definite verdict at search is the verdict at import, when the file has
\* been probed: nothing grabbed for a format loses it, nothing rejected by a
\* gate would have passed (evaluate.go: the flip "is unreachable today").
VerdictsStand ==
    \A r \in ToSet(results) :
        /\ Penalty(profile, Probed(r)) = 0
        /\ \A g \in profile.gates :
               Eval(g, r.subject, "search") = "true" => HardFails(profile, Probed(r))
=============================================================================
