----------------------------- MODULE TitleStatus -----------------------------
(***************************************************************************)
(* The pure derivation behind every title chip and season grid             *)
(* (titlestatus/titlestatus.go and actions.go): what a title's atoms, the  *)
(* movie or its episodes, and the viewer's own request add up to.          *)
(*                                                                         *)
(* A date is whether it is still to come.  NoRow is a missing want or a    *)
(* missing request.                                                        *)
(***************************************************************************)
EXTENDS Naturals, FiniteSets, Sequences

CONSTANT NoRow

PhaseNone == "none"

\* The want as the derivation reads it.
TitleWant(status, hold) == [status |-> status, hold |-> hold]

\* An atom the title is trying to acquire or has acquired.
inScope(w, file, active) == w # NoRow \/ file \/ active

Item(w, file, active, unaired) ==
    [want |-> w, hasFile |-> file, activeJob |-> active, unaired |-> unaired,
     inScope |-> inScope(w, file, active)]

-----------------------------------------------------------------------------
\* A hold is looked at before the status it parks.
wantState(w, unaired) ==
    CASE w.hold = "proposed" -> "proposed"
      [] w.hold = "needs_pick" -> "needs_pick"
      [] w.hold = "none" ->
         CASE w.status = "available" -> "available"
           [] w.status = "imported" -> "importing"
           [] w.status \in {"grabbed", "downloading"} -> "downloading"
           [] w.status = "failed" -> "unavailable"
           [] w.status = "canceled" -> "canceled"
           [] w.status \in {"pending", "searching"} ->
              IF unaired THEN "unreleased" ELSE "searching"

\* A file wins over the want, and the want over a download without one.
DeriveItem(i) ==
    CASE i.hasFile -> "available"
      [] ~i.hasFile /\ i.want # NoRow -> wantState(i.want, i.unaired)
      [] ~i.hasFile /\ i.want = NoRow /\ i.activeJob -> "downloading"
      [] OTHER -> IF i.unaired THEN "unreleased" ELSE "not_requested"

\* What is being done to an atom, whether or not it has a file.
itemPhase(i) ==
    IF i.want = NoRow THEN IF i.activeJob THEN "downloading" ELSE PhaseNone
    ELSE IF i.want.hold # "none" THEN PhaseNone
    ELSE CASE i.want.status \in {"grabbed", "downloading"} -> "downloading"
           [] i.want.status = "imported" -> "importing"
           [] i.want.status \in {"pending", "searching"} /\ ~i.unaired -> "searching"
           [] OTHER -> PhaseNone

-----------------------------------------------------------------------------
stateDominance == <<"needs_pick", "proposed", "downloading", "importing",
                    "searching", "unreleased", "unavailable", "canceled",
                    "not_requested">>

phaseDominance == <<"downloading", "importing", "searching">>

\* The first of an order that is present, or the default.
Dominant(order, present, default) ==
    IF \E k \in DOMAIN order : order[k] \in present
    THEN order[CHOOSE k \in DOMAIN order :
                  /\ order[k] \in present
                  /\ \A j \in 1..(k - 1) : order[j] \notin present]
    ELSE default

dominantState(states) == Dominant(stateDominance, states, "not_requested")
morePhase(phases) == Dominant(phaseDominance, phases, PhaseNone)

requestHeadline(r) ==
    CASE r = "pending" -> "awaiting_approval"
      [] r = "denied" -> "denied"
      [] OTHER -> ""

\* Bug: the request speaks whatever has come of it.
HeadlineOfRequest(type, request, res, scoped) ==
    IF requestHeadline(request) # "" THEN requestHeadline(request)
    ELSE IF res.total = 0 THEN "not_requested"
    ELSE IF res.available = res.total THEN "available"
    ELSE IF res.available > 0
         THEN IF type = "series" THEN "partially_available" ELSE "available"
    ELSE dominantState(scoped)

\* A pending or denied request speaks only while there is no file and no work.
headline(type, request, res, scoped) ==
    IF requestHeadline(request) # "" /\ res.fileCount = 0 /\ res.working = 0
    THEN requestHeadline(request)
    ELSE IF res.total = 0 THEN "not_requested"
    ELSE IF res.available = res.total THEN "available"
    ELSE IF res.available > 0
         THEN IF type = "series" THEN "partially_available" ELSE "available"
    ELSE dominantState(scoped)

\* The counts of the items of a title, one per atom.
Counted(items) ==
    LET scope == {w \in DOMAIN items : items[w].inScope} IN
    [fileCount |-> Cardinality({w \in DOMAIN items : items[w].hasFile}),
     total     |-> Cardinality(scope),
     available |-> Cardinality({w \in scope : DeriveItem(items[w]) = "available"}),
     working   |-> Cardinality({w \in scope : itemPhase(items[w]) # PhaseNone}),
     phase     |-> morePhase({itemPhase(items[w]) : w \in scope})]

\* Live requests: the viewer has something to withdraw.
liveRequestStatuses == {"pending", "approved", "spawned"}

\* What the viewer may do: ask, unless it was asked for already or a movie is
\* there; withdraw, a button that is shown though the grant may be missing.
deriveActions(type, request, state, mayRequest) ==
    IF request \in liveRequestStatuses THEN {"cancel"}
    ELSE IF mayRequest /\ ~(type = "movie" /\ state = "available") THEN {"request"}
    ELSE {}

Derive(type, items, request, mayRequest) ==
    LET res == Counted(items)
        scoped == {DeriveItem(items[w]) : w \in {v \in DOMAIN items : items[v].inScope}}
        state == headline(type, request, res, scoped)
    IN [cells  |-> [w \in DOMAIN items |-> DeriveItem(items[w])],
        counts |-> res,
        state  |-> state,
        actions |-> deriveActions(type, request, state, mayRequest)]
=============================================================================
