------------------------------ MODULE Library ------------------------------
(***************************************************************************)
(* The files of one library (service/scan.go, match_commit.go,             *)
(* match_decisions.go, matcher.go): a scan discovers the files on disk,    *)
(* has the matcher decide what each one is and writes the identity;        *)
(* operators re-match, un-match and detach; the import worker places       *)
(* files and inserts rows of its own.                                      *)
(*                                                                         *)
(* Every repository call is a step of its own; commitMatch's transaction   *)
(* is one step.  What the matcher decides is any identity, or None in the  *)
(* bands that write none (how it comes to one is module Matcher).  The  *)
(* id of a decision is its place in `decision'.                            *)
(***************************************************************************)
EXTENDS Integers, Sequences, FiniteSets

CONSTANTS
    Paths,
    Files,          \* ids of file rows
    Refs,           \* identities of media items
    Operators,      \* slots for requests in progress
    None,
    MaxScans, MaxRequests, MaxImports,
    MaxFaults       \* crashes and calls that fail

ASSUME LibraryAssumption ==
    /\ None \notin Paths \cup Files \cup Refs
    /\ {MaxScans, MaxRequests, MaxImports, MaxFaults} \subseteq Nat

VARIABLES
    disk,       \* media files under the library's root
    file,       \* table file; `grab' is the identity the import gave it
    decision,   \* table match_decision
    items,      \* table media_item
    running,    \* ScannerService.running
    scan,       \* the scan's goroutine
    req,        \* operators' requests
    imp,        \* the import worker
    budget      \* what the instance allows of each

vars == <<disk, file, decision, items, running, scan, req, imp, budget>>

NoRow == [path |-> None, live |-> FALSE, ref |-> None, grab |-> None]
ScanIdle == [pc |-> "idle", known |-> {}, todo |-> {}, refs |-> {}, out |-> {},
             path |-> None, one |-> [file |-> None, ref |-> None], d |-> 0, needs |-> FALSE]
ReqIdle == [pc |-> "idle", kind |-> "match", file |-> None, ref |-> None, d |-> 0, needs |-> FALSE]
ImpIdle == [pc |-> "idle", path |-> None, ref |-> None]

Init ==
    /\ disk \in SUBSET Paths
    /\ file = [f \in Files |-> NoRow]
    /\ decision = <<>>
    /\ items = {}
    /\ running = FALSE
    /\ scan = ScanIdle
    /\ req = [u \in Operators |-> ReqIdle]
    /\ imp = ImpIdle
    /\ budget = [scan |-> MaxScans, req |-> MaxRequests, imp |-> MaxImports,
                 fault |-> MaxFaults]

Spend(what) == budget[what] > 0 /\ budget' = [budget EXCEPT ![what] = @ - 1]

-----------------------------------------------------------------------------
(* Statements *)

LiveAt(p) == {f \in Files : file[f].path = p /\ file[f].live}
Unused == {f \in Files : file[f] = NoRow}

\* (library_id, path) is unique among live rows.
CanCreateFile(p) == LiveAt(p) = {}
CreateFile(p, ref) ==
    /\ Unused /= {}
    /\ file' = [file EXCEPT ![CHOOSE f \in Unused : TRUE] =
                    [path |-> p, live |-> TRUE, ref |-> ref, grab |-> ref]]

InsertMatchDecision(f, ref, by) ==
    decision' = Append(decision, [file |-> f, ref |-> ref, by |-> by,
                                  superseded |-> FALSE, settled |-> FALSE])

\* Bug: only an older automatic decision is superseded.
SupersedeAuto(d) ==
    decision' = [j \in DOMAIN decision |->
        IF j = d THEN [decision[j] EXCEPT !.settled = TRUE]
        ELSE IF decision[j].file = decision[d].file /\ decision[j].by = "auto"
             THEN [decision[j] EXCEPT !.superseded = TRUE] ELSE decision[j]]

\* Every other current decision of the file, the newer ones too.
SupersedeMatchDecision(d) ==
    decision' = [j \in DOMAIN decision |->
        IF j = d THEN [decision[j] EXCEPT !.settled = TRUE]
        ELSE IF decision[j].file = decision[d].file
             THEN [decision[j] EXCEPT !.superseded = TRUE] ELSE decision[j]]

\* The transaction of commitMatch.  It fails when another writer has created
\* the media item since it was looked for, and on a row that has been
\* detached: the row reads as absent, and its id is taken.
CommitMatch(f, ref, needs) ==
    IF (needs /\ ref \in items) \/ ~file[f].live
    THEN UNCHANGED <<file, items>>
    ELSE /\ file' = [file EXCEPT ![f].ref = ref]
         /\ items' = items \cup {ref}

-----------------------------------------------------------------------------
(* A scan *)

StartScan ==
    /\ ~running /\ Spend("scan")
    /\ running' = TRUE
    /\ scan' = [ScanIdle EXCEPT !.pc = "load"]
    /\ UNCHANGED <<disk, file, decision, items, req, imp>>

\* Bug: only the files that have an identity are known.
KnownIdentified ==
    /\ scan.pc = "load"
    /\ scan' = [scan EXCEPT !.pc = "walk",
                  !.known = {p \in Paths : \E f \in LiveAt(p) : file[f].ref /= None}]
    /\ UNCHANGED <<disk, file, decision, items, running, req, imp, budget>>

loadKnownPaths ==
    /\ scan.pc = "load"
    /\ scan' = [scan EXCEPT !.pc = "walk", !.known = {p \in Paths : LiveAt(p) /= {}}]
    /\ UNCHANGED <<disk, file, decision, items, running, req, imp, budget>>

\* The files found that are not known: `todo' has still to get a row, `refs'
\* to be matched, `out' to be written.  The order within each is left open.
WalkDir ==
    /\ scan.pc = "walk"
    /\ scan' = [scan EXCEPT !.pc = "work", !.todo = disk \ scan.known]
    /\ UNCHANGED <<disk, file, decision, items, running, req, imp, budget>>

\* ensureFileRow looks for the row ...
GetFileByLibraryAndPath(p) ==
    /\ scan.pc = "work" /\ p \in scan.todo
    /\ scan' = IF LiveAt(p) = {}
               THEN [scan EXCEPT !.pc = "create", !.path = p]
               ELSE [scan EXCEPT !.todo = @ \ {p}, !.refs = @ \cup LiveAt(p)]
    /\ UNCHANGED <<disk, file, decision, items, running, req, imp, budget>>

\* ... and inserts it; the insert fails if an import was faster.
EnsureFileRow ==
    /\ scan.pc = "create" /\ CanCreateFile(scan.path)
    /\ CreateFile(scan.path, None)
    /\ scan' = [scan EXCEPT !.pc = "work", !.path = None, !.todo = @ \ {scan.path},
                            !.refs = @ \cup {f \in Files : file'[f] /= file[f]}]
    /\ UNCHANGED <<disk, decision, items, running, req, imp, budget>>

\* MatchBatch: one file after the other.
Match(f, ref) ==
    /\ scan.pc = "work" /\ scan.todo = {} /\ f \in scan.refs
    /\ InsertMatchDecision(f, ref, "auto")
    /\ scan' = [scan EXCEPT !.pc = "supersede", !.d = Len(decision'), !.refs = @ \ {f},
                            !.out = IF ref = None THEN @ ELSE @ \cup {[file |-> f, ref |-> ref]}]
    /\ UNCHANGED <<disk, file, items, running, req, imp, budget>>

MatchSupersede ==
    /\ scan.pc = "supersede"
    /\ SupersedeMatchDecision(scan.d)
    /\ scan' = [scan EXCEPT !.pc = "work"]
    /\ UNCHANGED <<disk, file, items, running, req, imp, budget>>

\* persistConfident and persistPartialSeries: commitMatch looks for the media item ...
Persist(o) ==
    /\ scan.pc = "work" /\ scan.todo = {} /\ scan.refs = {} /\ o \in scan.out
    /\ scan' = [scan EXCEPT !.pc = "commit", !.one = o, !.needs = o.ref \notin items,
                            !.out = @ \ {o}]
    /\ UNCHANGED <<disk, file, decision, items, running, req, imp, budget>>

\* ... and writes the identity.  A file whose commit fails is skipped.
PersistCommit ==
    /\ scan.pc = "commit"
    /\ CommitMatch(scan.one.file, scan.one.ref, scan.needs)
    /\ scan' = [scan EXCEPT !.pc = "work"]
    /\ UNCHANGED <<disk, decision, running, req, imp, budget>>

\* GetEpisodeDetails, or the transaction, fails.
PersistFails ==
    /\ scan.pc = "commit" /\ Spend("fault")
    /\ scan' = [scan EXCEPT !.pc = "work"]
    /\ UNCHANGED <<disk, file, decision, items, running, req, imp>>

\* The goroutine returns: all is done, the file row's insert fails, or a step
\* before the last phase does.
ScanEnd ==
    /\ \/ /\ scan.pc = "work" /\ scan.todo = {} /\ scan.refs = {} /\ scan.out = {}
          /\ UNCHANGED budget
       \/ scan.pc = "create" /\ ~CanCreateFile(scan.path) /\ UNCHANGED budget
       \/ scan.pc \in {"walk", "work", "create", "supersede"} /\ Spend("fault")
    /\ running' = FALSE
    /\ scan' = ScanIdle
    /\ UNCHANGED <<disk, file, decision, items, req, imp>>

-----------------------------------------------------------------------------
(* Operators *)

ReqGoto(u, pc) == req' = [req EXCEPT ![u].pc = pc]
Done(u) == req' = [req EXCEPT ![u] = ReqIdle]

Asked(kind, f, ref) ==
    [pc |-> "insert", kind |-> kind, file |-> f, ref |-> ref, d |-> 0, needs |-> FALSE]

\* GetFile: MatchByID, Unmatch and Detach take a live file.
GetFile(u, kind, f, ref) ==
    /\ req[u].pc = "idle" /\ file[f].live /\ Spend("req")
    /\ req' = [req EXCEPT ![u] = Asked(kind, f, ref)]
    /\ UNCHANGED <<disk, file, decision, items, running, scan, imp>>

MatchByID(u, f, ref) == GetFile(u, "match", f, ref)
Unmatch(u, f) == GetFile(u, "unmatch", f, None)
Detach(u, f) == GetFile(u, "detach", f, None)

InsertUserDecision(u) ==
    /\ req[u].pc = "insert"
    /\ InsertMatchDecision(req[u].file, req[u].ref, "user")
    /\ req' = [req EXCEPT ![u].pc = "supersede", ![u].d = Len(decision')]
    /\ UNCHANGED <<disk, file, items, running, scan, imp, budget>>

SupersedeUser(u) ==
    /\ req[u].pc = "supersede"
    /\ SupersedeMatchDecision(req[u].d)
    /\ ReqGoto(u, req[u].kind)
    /\ UNCHANGED <<disk, file, items, running, scan, imp, budget>>

commitManualMatch(u) ==
    /\ req[u].pc = "match"
    /\ req' = [req EXCEPT ![u].pc = "commit", ![u].needs = req[u].ref \notin items]
    /\ UNCHANGED <<disk, file, decision, items, running, scan, imp, budget>>

CommitUser(u) ==
    /\ req[u].pc = "commit"
    /\ CommitMatch(req[u].file, req[u].ref, req[u].needs)
    /\ Done(u)
    /\ UNCHANGED <<disk, decision, running, scan, imp, budget>>

\* ClearFileIdentity does not ask whether the row is live.
ClearFileIdentity(u) ==
    /\ req[u].pc = "unmatch"
    /\ file' = [file EXCEPT ![req[u].file].ref = None]
    /\ Done(u)
    /\ UNCHANGED <<disk, decision, items, running, scan, imp, budget>>

\* The file may be moved to quarantine; then its path is free on disk too.
SoftDeleteFile(u) ==
    /\ req[u].pc = "detach"
    /\ file' = [file EXCEPT ![req[u].file].live = FALSE]
    /\ \/ UNCHANGED disk
       \/ disk' = disk \ {file[req[u].file].path}
    /\ Done(u)
    /\ UNCHANGED <<decision, items, running, scan, imp, budget>>

\* A repository call or the provider fails.
RequestFails(u) ==
    /\ req[u].pc /= "idle" /\ Spend("fault")
    /\ Done(u)
    /\ UNCHANGED <<disk, file, decision, items, running, scan, imp>>

-----------------------------------------------------------------------------
(* The import worker, whose task knows the identity: a tracked title *)

Place(p, ref) ==
    /\ imp.pc = "idle" /\ p \notin disk /\ Spend("imp")
    /\ disk' = disk \cup {p}
    /\ items' = items \cup {ref}
    /\ imp' = [pc |-> "commit", path |-> p, ref |-> ref]
    /\ UNCHANGED <<file, decision, running, scan, req>>

\* The row is inserted unless a scan has found the file first.
ImportCommit ==
    /\ imp.pc = "commit"
    /\ IF CanCreateFile(imp.path) THEN CreateFile(imp.path, imp.ref) ELSE UNCHANGED file
    /\ imp' = ImpIdle
    /\ UNCHANGED <<disk, decision, items, running, scan, req, budget>>

\* "On tx failure the hardlink is left as an orphan."
ImportFails ==
    /\ imp.pc = "commit" /\ Spend("fault")
    /\ imp' = ImpIdle
    /\ UNCHANGED <<disk, file, decision, items, running, scan, req>>

Crash ==
    /\ Spend("fault")
    /\ running' = FALSE
    /\ scan' = ScanIdle
    /\ req' = [u \in Operators |-> ReqIdle]
    /\ imp' = ImpIdle
    /\ UNCHANGED <<disk, file, decision, items>>

-----------------------------------------------------------------------------
ScanWork ==
    \/ loadKnownPaths \/ WalkDir
    \/ \E p \in Paths : GetFileByLibraryAndPath(p)
    \/ EnsureFileRow
    \/ \E f \in Files, ref \in Refs \cup {None} : Match(f, ref)
    \/ MatchSupersede
    \/ \E o \in scan.out : Persist(o)
    \/ PersistCommit
    \/ ScanEnd

Operator(u) ==
    \/ InsertUserDecision(u) \/ SupersedeUser(u)
    \/ commitManualMatch(u) \/ CommitUser(u)
    \/ ClearFileIdentity(u) \/ SoftDeleteFile(u)
    \/ RequestFails(u)
    \/ \E f \in Files : (\E ref \in Refs : MatchByID(u, f, ref)) \/ Unmatch(u, f) \/ Detach(u, f)

Import == (\E p \in Paths, ref \in Refs : Place(p, ref)) \/ ImportCommit \/ ImportFails

Next ==
    \/ StartScan \/ ScanWork \/ PersistFails
    \/ \E u \in Operators : Operator(u)
    \/ Import \/ Crash

Spec == Init /\ [][Next]_vars

-----------------------------------------------------------------------------
Decision == [file : Files, ref : Refs \cup {None}, by : {"auto", "user"},
             superseded : BOOLEAN, settled : BOOLEAN]

TypeOK ==
    /\ disk \subseteq Paths
    /\ file \in [Files -> [path : Paths \cup {None}, live : BOOLEAN,
                           ref : Refs \cup {None}, grab : Refs \cup {None}]]
    /\ decision \in Seq(Decision)
    /\ items \subseteq Refs
    /\ running = (scan.pc /= "idle")      \* however a scan ends, another can start
    /\ scan.known \subseteq Paths /\ scan.todo \subseteq Paths /\ scan.refs \subseteq Files
    /\ scan.out \subseteq [file : Files, ref : Refs]
    /\ req \in [Operators -> [pc : {"idle", "insert", "supersede", "match", "unmatch", "detach",
                                    "commit"},
                              kind : {"match", "unmatch", "detach"}, file : Files \cup {None},
                              ref : Refs \cup {None}, d : 0..Len(decision), needs : BOOLEAN]]
    /\ imp \in [pc : {"idle", "commit"}, path : Paths \cup {None}, ref : Refs \cup {None}]

Of(f) == {d \in DOMAIN decision : decision[d].file = f}

\* "The decision row is the audit anchor": an identity that the import did not
\* give was chosen by a decision about that file, whatever fails or crashes.
Audited ==
    \A f \in Files :
        file[f].ref \in {None, file[f].grab} \cup {decision[d].ref : d \in Of(f)}

\* "So the latest non-superseded invariant holds": once a decision's supersede
\* has run, every older decision about the file is superseded, however the
\* decisions of operators and of a scan are interleaved.
Settled ==
    \A d, e \in DOMAIN decision :
        e < d /\ decision[d].file = decision[e].file /\ decision[d].settled =>
            decision[e].superseded

\* A file is decided by a scan once: a later scan, also after one that failed
\* or crashed, leaves alone what an operator has decided since.
DecidedOnce ==
    \A d, e \in DOMAIN decision :
        decision[d].by = "auto" /\ decision[e].by = "auto" /\ decision[d].file = decision[e].file =>
            d = e

\* "The row survives as the audit anchor": a detached row stays detached, also
\* when it is detached under a match in progress.
StaysDetached ==
    [][\A f \in Files : file[f].path /= None /\ ~file[f].live => ~file'[f].live]_file
=============================================================================
