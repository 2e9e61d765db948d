----------------------------- MODULE MCDecisions -----------------------------
(***************************************************************************)
(* Releases: singles of one bin that differ in one criterion each, a       *)
(* better and an unlisted bin, and three packs, one of which also holds an *)
(* episode nobody waits for; two profiles and a set of routing rules.      *)
(* Of Library, TLC may permute the sets no action chooses from.            *)
(***************************************************************************)
EXTENDS Decisions, TLC

Field(path, phase, half) == [path |-> path, phase |-> phase, half |-> half]
Repack == Field("repack", "search", "release")
Hdr    == Field("hdr", "import", "mediainfo")
Season == Field("season", "search", "release")

Is(f, v) == [op |-> "eq", left |-> f, right |-> v]
Not(c)   == [op |-> "not", children |-> <<c>>]
And(a, b) == [op |-> "and", children |-> <<a, b>>]
Or(a, b) == [op |-> "or", children |-> <<a, b>>]

Leaves == {Is(Repack, 0), Is(Repack, 1), Is(Hdr, 0), Is(Hdr, 1), Is(Season, 1)}
Nots   == {Not(c) : c \in Leaves}

MCTrees ==
    Leaves \cup Nots \cup {And(Is(Hdr, 1), Is(Repack, 1)),
                          Or(Not(Is(Repack, 0)), Is(Hdr, 1))}
MCHeight ==
    [c \in MCTrees |-> IF c \in Leaves THEN 0 ELSE IF c \in Nots THEN 1 ELSE 2]

Subject(repack, hdr) ==
    [value |-> [repack |-> repack, hdr |-> hdr, season |-> Nil], halves |-> {}]

Single(guid, bin, seeders, size, repack) ==
    [guid |-> guid, kind |-> "single", bin |-> bin, seeders |-> seeders,
     size |-> size, runtime |-> 1, covers |-> {"w"}, subject |-> Subject(repack, guid % 2)]

Pack(guid, bin, covers, runtime, size) ==
    [guid |-> guid, kind |-> "pack", bin |-> bin, seeders |-> 2, size |-> size,
     runtime |-> runtime, covers |-> covers, subject |-> Subject(0, guid % 2)]

MCReleases ==
    {Single(1, "web", 1, 5, 0), Single(2, "web", 2, 5, 0), Single(3, "web", 1, 5, 1),
     Single(4, "bluray", 1, 9, 0), Single(5, "web", 1, 5, 0), Single(6, "cam", 3, 1, 1),
     Pack(7, "web", {"w", "v"}, 2, 8), Pack(8, "bluray", {"w"}, 1, 9),
     Pack(9, "bluray", {"w", "v", "filed"}, 1, 7)}

PerMinute(min, preferred, max) == [min |-> min, preferred |-> preferred, max |-> max]

P1 == [bins |-> <<"bluray", "web">>, minSeeders |-> 1,
       sizes |-> [b \in {"bluray"} |-> PerMinute(0, 6, 9)],
       gates |-> {And(Is(Hdr, 1), Is(Repack, 1))},
       formats |-> <<[tree |-> Is(Repack, 1), weight |-> 5],
                     [tree |-> Not(Is(Hdr, 1)), weight |-> 3]>>]
P2 == [bins |-> <<"web", "cam", "bluray">>, minSeeders |-> 0,
       sizes |-> [b \in {"web"} |-> PerMinute(4, 4, 0)],
       gates |-> {Or(Not(Is(Repack, 0)), Is(Hdr, 1)), Is(Season, 1)},
       formats |-> <<>>]

MCStartProfile == P1
MCProfiles == {P1, P2}

Rule(position, tree, actions, continue) ==
    [position |-> position, enabled |-> TRUE, tree |-> tree,
     actions |-> actions, continue |-> continue]

Targets(d, l) == [downloader |-> d, library |-> l]

R1 == Rule(1, Is(Repack, 0), Targets("d1", Nil), TRUE)
R2 == Rule(2, Is(Repack, 0), Targets("d2", "l2"), FALSE)
R3 == Rule(3, Not(Is(Hdr, 0)), Targets("d3", "l3"), TRUE)
R4 == Rule(4, Is(Repack, 1), Targets(Nil, "l4"), FALSE)

R5 == [R2 EXCEPT !.position = 0, !.enabled = FALSE]

MCRuleSets == {{}, {R1, R2, R3, R4, R5}}

-----------------------------------------------------------------------------
\* Files: two titles, a TMDB and an IMDb id, up to two hits by name.
Titles == {"A", "B"}

Reply(kind, ref) == [kind |-> kind, ref |-> ref]
Dead == Reply("dead", "A")
Down == Reply("error", "A")

TmdbIds == [own : {"A"}, reply : {Reply("valid", "A"), Reply("redirect", "B"), Dead, Down}]
ImdbIds == [own : {"x"}, reply : {Reply("cross", t) : t \in Titles} \cup {Dead, Down}]

MCIds == {<<>>} \cup {<<i>> : i \in TmdbIds \cup ImdbIds}
         \cup {<<i, j>> : i \in TmdbIds, j \in ImdbIds}

MCFiles ==
    {f \in [year : {0, 1}, numbering : BOOLEAN, pathEpisode : BOOLEAN,
            hasEpisode : BOOLEAN] :
        /\ f.hasEpisode => f.numbering
        /\ f.pathEpisode => f.hasEpisode}

MCThresholds == [Auto |-> 8500, ReviewLow |-> 7000, LowMin |-> 5000]

MCEvidence ==
    [file : MCFiles, ids : MCIds, hits : UNION {SetToSeqs(S) : S \in SUBSET Titles},
     year : [Titles -> {1, 2}], exact : [Titles -> BOOLEAN]]

-----------------------------------------------------------------------------
RefsAndSlots == Permutations(Refs) \cup Permutations(Operators)
=============================================================================
