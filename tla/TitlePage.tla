----------------------------- MODULE TitlePage -----------------------------
(***************************************************************************)
(* The title page over the pipeline (service/title_status.go): a reader    *)
(* takes the wants, the files and the download jobs in three queries of    *)
(* their own, while the workers go on, and derives the cells and the       *)
(* headline from what it has.  A cell depends on the rows of its own atom, *)
(* so one is followed through a read.                                      *)
(***************************************************************************)
EXTENDS JobBoard, TitleStatus

ASSUME TitleAssumption ==
    /\ IsFiniteSet(Wants)
    /\ NoRow \notin WantRow

VARIABLES
    page,       \* the title page being read
    witnessed   \* what the cell was while it was read

titleVars == <<boardVars, page, witnessed>>

PageIdle == [pc |-> "idle", atom |-> NoWant, want |-> NoRow, hasFile |-> FALSE]

\* ListEpisodeAvailabilityForSeries and ListFilesForItem: a live row that exists.
HasLiveFile(w) == \E r \in Releases : Dest[<<w, r>>] \in filed

WantOf(w) == TitleWant(want[w].status, want[w].hold)

\* A pack job names no episode; any job of a movie names the movie.
HasActiveJob(w) ==
    \E j \in Jobs :
        /\ job[j].status \in ActiveJob
        /\ w \in Covers[job[j].release]
        /\ MediaType = "movie" \/ job[j].release \notin Packs

\* The air date of an atom does not change under a read: it is out, or late.
ItemOf(w, late) == Item(WantOf(w), HasLiveFile(w), HasActiveJob(w), late)

-----------------------------------------------------------------------------
ReadWant(w) ==
    /\ page.pc = "idle"
    /\ page' = [PageIdle EXCEPT !.pc = "files", !.atom = w, !.want = WantOf(w)]
    /\ witnessed' = {DeriveItem(ItemOf(w, FALSE))}
    /\ UNCHANGED boardVars

\* Bug: the files are those of an earlier read, when there was none.
FilesFromCache ==
    /\ page.pc = "files"
    /\ page' = [page EXCEPT !.pc = "jobs", !.want = WantOf(page.atom)]
    /\ UNCHANGED <<boardVars, witnessed>>

ReadFiles ==
    /\ page.pc = "files"
    /\ page' = [page EXCEPT !.pc = "jobs", !.hasFile = HasLiveFile(page.atom)]
    /\ UNCHANGED <<boardVars, witnessed>>

ReadJobs ==
    /\ page.pc = "jobs"
    /\ page' = PageIdle
    /\ witnessed' = {}
    /\ UNCHANGED boardVars

\* The cell that the page shows once the jobs are read.
CellShown ==
    DeriveItem(Item(page.want, page.hasFile, HasActiveJob(page.atom), FALSE))

Watch ==
    witnessed' = IF page.pc = "idle" THEN {}
                 ELSE witnessed \cup {DeriveItem(ItemOf(page.atom, FALSE))'}

TitleInit ==
    /\ BoardInit
    /\ page = PageIdle
    /\ witnessed = {}

TitleNext ==
    \/ BoardNext /\ UNCHANGED page /\ Watch
    \/ \E w \in Wants : ReadWant(w)
    \/ ReadFiles \/ ReadJobs

TitleSpec == TitleInit /\ [][TitleNext]_titleVars

-----------------------------------------------------------------------------
\* A cell of the page was true at some moment of the read, though its want, its
\* files and its jobs were read one after the other while the workers moved them.
CellWasTrue == [][ReadJobs => CellShown \in witnessed]_titleVars

WorkStates == {"downloading", "importing", "searching"}
ParkedStates == {"needs_pick", "proposed"}

\* The headline follows the work: whatever became of the viewer's request, a
\* title that is worked on says so, or what it has, or what it waits for the
\* operator to decide; one that is not worked on never says it is; and the chip
\* and the phase beside it name the same work.
HeadlineFollowsWork ==
    page.pc = "idle" =>
    \A late \in SUBSET Wants,
       request \in {"none", "pending", "denied", "canceled", "spawned"} :
        LET items == [w \in Wants |-> ItemOf(w, w \in late)]
            res == Derive(MediaType, items, request, TRUE) IN
        /\ res.counts.working > 0 =>
              res.state \in WorkStates \cup ParkedStates
                           \cup {"available", "partially_available"}
        /\ res.state \in WorkStates => res.state = res.counts.phase
=============================================================================
