------------------------------ MODULE Settings ------------------------------
(***************************************************************************)
(* The downloaders, name templates and libraries an operator sets up, each *)
(* kind with at most one default, and the clients the downloader manager   *)
(* keeps for the workers (service/{downloaders,name_templates,             *)
(* libraries}.go, http/handlers/downloaders.go, downloader/manager.go).    *)
(*                                                                         *)
(* To make a row the default, the old one is unset by writing back all of  *)
(* it as it was listed; then the row itself is written; then the client of *)
(* a downloader is built anew, from the row as it is by then.  Statements  *)
(* commit one by one.  The manager is locked from reading the row until    *)
(* the client has passed its test or not.                                  *)
(*                                                                         *)
(* Of a row, what a client is built from is one value, the password; what  *)
(* validation refuses never begins.  The torrent downloaders are one kind, *)
(* the templates and the libraries of a media type one each.               *)
(***************************************************************************)
EXTENDS Naturals, FiniteSets

CONSTANTS
    Kinds,          \* of "downloader", "template" and "library"
    MaxRows,        \* rows ever of a kind
    Passwords,
    Keep,           \* no password in the request: the stored one stays
    NoPassword,     \* no client
    Savers,         \* requests served at a time
    Nobody,
    MaxSaves        \* requests in a run

ASSUME SettingsAssumption ==
    /\ Kinds \subseteq {"downloader", "template", "library"}
    /\ Keep \notin Passwords /\ NoPassword \notin Passwords /\ Keep # NoPassword
    /\ Nobody \notin Savers
    /\ MaxRows \in Nat /\ MaxSaves \in Nat

VARIABLES
    row,        \* the rows of each kind
    client,     \* Manager.clients: what the client of a downloader was built from
    manager,    \* who holds Manager.mu
    save,       \* what each request is doing
    saves,      \* requests so far
    lost,       \* kinds without a default because none was made, or it was
                \* deleted, turned off, or unset by a request that then failed
    reverted    \* downloaders written back to what they were

settingsVars == <<row, client, manager, save, saves, lost, reverted>>

RowIds == 1..MaxRows

SettingsRow == [state : {"unused", "present", "deleted"}, password : Passwords \cup {NoPassword},
                enabled : BOOLEAN, default : BOOLEAN]
UnusedRow == [state |-> "unused", password |-> NoPassword, enabled |-> FALSE, default |-> FALSE]
DeletedRow == [UnusedRow EXCEPT !.state = "deleted"]

SaveSteps == {"idle", "unset", "keep", "write", "init", "test", "remove"}
Save == [pc : SaveSteps, kind : Kinds \cup {"none"}, id : 0..MaxRows, new : BOOLEAN,
         password : Passwords \cup {NoPassword, Keep}, enabled : BOOLEAN, default : BOOLEAN,
         old : 0..MaxRows, listed : SettingsRow]
NoSave == [pc |-> "idle", kind |-> "none", id |-> 0, new |-> FALSE, password |-> NoPassword,
           enabled |-> FALSE, default |-> FALSE, old |-> 0, listed |-> UnusedRow]

IsRow(k, i) == row[k][i].state = "present"
Defaults(k) == {i \in RowIds : row[k][i].default}

-----------------------------------------------------------------------------
Then(h, pc) == save' = [save EXCEPT ![h].pc = pc]
Responds(h) == save' = [save EXCEPT ![h] = NoSave]

\* After the list, the password that stays, if it is to stay.
Ready(s) == [s EXCEPT !.pc = IF s.password = Keep THEN "keep" ELSE "write"]

Begins(h, k) ==
    /\ save[h] = NoSave
    /\ saves < MaxSaves /\ saves' = saves + 1

\* The listing may fail, which the downloaders take for an empty one.
Begun(h, s) ==
    LET others == Defaults(s.kind) \ {s.id}
        old == CHOOSE d \in others : TRUE
    IN  \/ /\ s.default /\ s.kind # "library" /\ others # {}
           /\ save' = [save EXCEPT ![h] = [s EXCEPT !.pc = "unset", !.old = old,
                                                    !.listed = row[s.kind][old]]]
        \/ /\ s.default => s.kind # "template" \/ others = {}
           /\ save' = [save EXCEPT ![h] = Ready(s)]

(***************************************************************************)
(* Create and Update.  Where the row is to be the default, the others are  *)
(* listed first; libraries leave it to the unique index.                   *)
(***************************************************************************)
CreateRow(h, k, password, enabled, default) ==
    /\ Begins(h, k)
    /\ \E i \in RowIds :
         /\ row[k][i] = UnusedRow /\ \A j \in 1..(i - 1) : row[k][j] # UnusedRow
         /\ Begun(h, [NoSave EXCEPT !.kind = k, !.id = i, !.new = TRUE, !.password = password,
                                    !.enabled = enabled, !.default = default])
    /\ UNCHANGED <<row, client, manager, lost, reverted>>

UpdateRow(h, k, i, password, enabled, default) ==
    /\ Begins(h, k)
    /\ row[k][i] # UnusedRow
    /\ Begun(h, [NoSave EXCEPT !.kind = k, !.id = i, !.password = password,
                               !.enabled = enabled, !.default = default])
    /\ UNCHANGED <<row, client, manager, lost, reverted>>

\* The old default is written back as it was listed, but for the flag.
UnsetDefault(h) ==
    LET s == save[h]
        now == row[s.kind][s.old]
    IN  /\ s.pc = "unset" /\ IsRow(s.kind, s.old)
        /\ row' = [row EXCEPT ![s.kind][s.old] = [s.listed EXCEPT !.default = FALSE]]
        /\ reverted' = IF s.kind = "downloader" /\ (now.password # s.listed.password
                                                    \/ now.enabled # s.listed.enabled)
                       THEN reverted \cup {s.old} ELSE reverted
        /\ save' = [save EXCEPT ![h] = Ready(s)]
        /\ UNCHANGED <<saves, client, manager, lost>>

\* The row is gone, or the database fails: only the templates care.
UnsetFails(h) ==
    LET s == save[h] IN
    /\ s.pc = "unset"
    /\ save' = [save EXCEPT ![h] = IF s.kind = "template" THEN NoSave ELSE Ready(s)]
    /\ UNCHANGED <<saves, row, client, manager, lost, reverted>>

\* An update without a password reads the stored one.
KeepPassword(h) ==
    LET s == save[h] IN
    /\ s.pc = "keep" /\ IsRow(s.kind, s.id)
    /\ save' = [save EXCEPT ![h].pc = "write", ![h].password = row[s.kind][s.id].password]
    /\ UNCHANGED <<saves, row, client, manager, lost, reverted>>

\* Bug: the flag is left out of the statement.
PlainRow(s) == [state |-> "present", password |-> s.password, enabled |-> s.enabled, default |-> FALSE]

WrittenRow(s) ==
    [state |-> "present", password |-> s.password, enabled |-> s.enabled, default |-> s.default]

\* The unique index on the default.
DefaultTaken(s) == s.default /\ Defaults(s.kind) \ {s.id} # {}

\* What the downloader handler does next.
AfterWrite(s) ==
    IF s.kind = "downloader" /\ (s.enabled \/ ~s.new) THEN [s EXCEPT !.pc = "init"] ELSE NoSave

WriteRow(h) ==
    LET s == save[h] IN
    /\ s.pc = "write" /\ ~DefaultTaken(s)
    /\ row[s.kind][s.id].state = IF s.new THEN "unused" ELSE "present"
    /\ row' = [row EXCEPT ![s.kind][s.id] = WrittenRow(s)]
    /\ lost' = IF s.default THEN lost \ {s.kind}
               ELSE IF s.id \in Defaults(s.kind) THEN lost \cup {s.kind} ELSE lost
    /\ save' = [save EXCEPT ![h] = AfterWrite(s)]
    /\ UNCHANGED <<saves, client, manager, reverted>>

\* Another default, a name that is taken, a row that is gone, a failure: what
\* was unset stays unset.
WriteFails(h) ==
    LET s == save[h] IN
    /\ s.pc \in {"keep", "write"}
    /\ lost' = IF s.default /\ Defaults(s.kind) = {} THEN lost \cup {s.kind} ELSE lost
    /\ Responds(h)
    /\ UNCHANGED <<saves, row, client, manager, reverted>>

-----------------------------------------------------------------------------
(***************************************************************************)
(* Manager.InitializeDownloader, under its mutex.                          *)
(***************************************************************************)
\* Bug: the mutex is not taken.
NeverLocked == TRUE

Unlocked == manager = Nobody

InitializeDownloader(h) ==
    LET s == save[h]
        now == row["downloader"][s.id]
    IN  /\ s.pc = "init" /\ Unlocked
        /\ IF now.state = "present"
           THEN /\ client' = [client EXCEPT ![s.id] = NoPassword]
                /\ reverted' = reverted \ {s.id}
           ELSE UNCHANGED <<client, reverted>>
        /\ IF now.enabled
           THEN /\ save' = [save EXCEPT ![h].pc = "test", ![h].password = now.password]
                /\ manager' = h
           ELSE Responds(h) /\ UNCHANGED manager
        /\ UNCHANGED <<saves, row, lost>>

\* A client that fails its test is not kept.
TestClient(h) ==
    LET s == save[h] IN
    /\ s.pc = "test"
    /\ \/ client' = [client EXCEPT ![s.id] = s.password]
       \/ UNCHANGED client
    /\ manager' = Nobody
    /\ Responds(h)
    /\ UNCHANGED <<saves, row, lost, reverted>>

-----------------------------------------------------------------------------
(***************************************************************************)
(* Delete: the client of a downloader goes first.                          *)
(***************************************************************************)
Delete(h, k, i) ==
    /\ Begins(h, k)
    /\ row[k][i] # UnusedRow
    /\ IF k = "downloader"
       THEN Unlocked /\ client' = [client EXCEPT ![i] = NoPassword]
       ELSE UNCHANGED client
    /\ save' = [save EXCEPT ![h] = [NoSave EXCEPT !.pc = "remove", !.kind = k, !.id = i]]
    /\ UNCHANGED <<row, manager, lost, reverted>>

DeleteRow(h) ==
    LET s == save[h] IN
    /\ s.pc = "remove"
    /\ row' = [row EXCEPT ![s.kind][s.id] = DeletedRow]
    /\ lost' = IF s.id \in Defaults(s.kind) THEN lost \cup {s.kind} ELSE lost
    /\ Responds(h)
    /\ UNCHANGED <<saves, client, manager, reverted>>

\* As where a download job names the downloader: the row stays, without a client.
DeleteFails(h) ==
    /\ save[h].pc = "remove"
    /\ Responds(h)
    /\ UNCHANGED <<saves, row, client, manager, lost, reverted>>

\* The process restarts, and initializes what is enabled and passes its test.
SettingsRestart ==
    /\ client' \in [RowIds -> Passwords \cup {NoPassword}]
    /\ \A i \in RowIds : client'[i] # NoPassword =>
           "downloader" \in Kinds /\ row["downloader"][i].enabled
           /\ client'[i] = row["downloader"][i].password
    /\ manager' = Nobody
    /\ save' = [h \in Savers |-> NoSave]
    /\ lost' = lost \cup {k \in Kinds : Defaults(k) = {}}
    /\ reverted' = {}
    /\ UNCHANGED <<saves, row>>

-----------------------------------------------------------------------------
SettingsInit ==
    /\ row = [k \in Kinds |-> [i \in RowIds |-> UnusedRow]]
    /\ client = [i \in RowIds |-> NoPassword]
    /\ manager = Nobody
    /\ save = [h \in Savers |-> NoSave]
    /\ saves = 0
    /\ lost = Kinds
    /\ reverted = {}

\* Templates have no password and no switch, libraries no password.
Operate(h, k) ==
    \E i \in RowIds, default, enabled \in BOOLEAN, password \in Passwords :
        \/ k = "downloader" /\ CreateRow(h, k, password, enabled, default)
        \/ k = "downloader" /\ \E p \in {password, Keep} : UpdateRow(h, k, i, p, enabled, default)
        \/ k # "downloader" /\ CreateRow(h, k, NoPassword, TRUE, default)
        \/ k # "downloader" /\ UpdateRow(h, k, i, NoPassword, TRUE, default)
        \/ Delete(h, k, i)

SettingsNext ==
    \/ \E h \in Savers :
         \/ \E k \in Kinds : Operate(h, k)
         \/ UnsetDefault(h) \/ UnsetFails(h) \/ KeepPassword(h) \/ WriteRow(h) \/ WriteFails(h)
         \/ InitializeDownloader(h) \/ TestClient(h) \/ DeleteRow(h) \/ DeleteFails(h)
    \/ SettingsRestart

SettingsSpec == SettingsInit /\ [][SettingsNext]_settingsVars

-----------------------------------------------------------------------------
(***************************************************************************)
(* Properties.                                                             *)
(***************************************************************************)
SettingsTyped ==
    /\ row \in [Kinds -> [RowIds -> SettingsRow]]
    /\ client \in [RowIds -> Passwords \cup {NoPassword}]
    /\ manager \in Savers \cup {Nobody}
    /\ save \in [Savers -> Save]
    /\ saves \in 0..MaxSaves
    /\ lost \subseteq Kinds
    /\ reverted \subseteq RowIds

\* However requests to change it overlap, a kind that has a default keeps one,
\* or has a request on its way to write one: unless it was deleted, turned
\* off, or unset by a request that then failed (DownloadersService.Create).
DefaultStands ==
    \A k \in Kinds \ lost :
        \/ Defaults(k) # {}
        \/ \E h \in Savers : /\ save[h].kind = k /\ save[h].default
                             /\ save[h].pc \in {"keep", "write"}

\* The client the workers are given is that of the row as it is, however
\* updates of the row and their connection tests overlap, once those updates
\* have had their turn at the manager: unless a change of the default wrote an
\* older row back (Manager.InitializeDownloader).
ClientCurrent ==
    "downloader" \in Kinds =>
    \A i \in RowIds \ reverted :
        /\ IsRow("downloader", i) /\ client[i] # NoPassword
        /\ ~\E h \in Savers : save[h].pc = "init" /\ save[h].id = i
        => /\ row["downloader"][i].enabled
           /\ client[i] = row["downloader"][i].password
=============================================================================
