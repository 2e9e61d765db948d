------------------------------ MODULE Accounts ------------------------------
(***************************************************************************)
(* The accounts of the people who use the server: first-time setup,        *)
(* sign-up, invitations, Plex logins, the roles an account holds and the   *)
(* grants they carry, which every request is checked against from a cache  *)
(* (service/{setup,auth,users,invites,authz}.go, http/handlers/auth.go,    *)
(* http/handlers/users.go, http/authzgate).                                *)
(*                                                                         *)
(* An operation is a series of statements that commit one by one; only the *)
(* setup is a transaction.  A request is served by one server process,     *)
(* which keeps what it has read; a restart forgets it, and the cache.      *)
(*                                                                         *)
(* Of the built-in roles two are kept, and of the catalog of permissions   *)
(* two: to manage accounts, and to request a title.  No code grants a      *)
(* permission to an account directly, or denies one.  A user name that is  *)
(* taken fails a sign-up as a database error does.  Passwords, sessions,   *)
(* the sending of the link and a change of address are left out.           *)
(***************************************************************************)
EXTENDS Naturals, FiniteSets

CONSTANTS
    Servers,        \* requests served at a time
    Emails,         \* addresses; a Plex account has one too
    NoEmail,
    MaxUsers,       \* rows ever in app_user
    MaxServed,      \* requests served in a run
    MaxInvites      \* rows ever in user_invite

ASSUME AccountsAssumption ==
    /\ NoEmail \notin Emails
    /\ MaxUsers \in Nat /\ MaxServed \in Nat /\ MaxInvites \in Nat

VARIABLES
    account,    \* app_user and user_role
    identity,   \* user_identity: the account of a Plex login, 0 if none
    invite,     \* user_invite, by address
    invites,    \* rows user_invite has had
    system,     \* what the setup has completed
    cache,      \* AuthzService.cache: at most one set of grants for each user
    serving,    \* what each server process is doing
    served,     \* requests so far
    unguarded,  \* an admin was taken away without the guard of the last one
    overtaken   \* users whose roles changed beside their cached grants

accountVars == <<account, identity, invite, invites, system, cache, serving,
                 served, unguarded, overtaken>>

Ids == 1..MaxUsers
Roles == {"admin", "requester"}
AllKeys == {"admin.users.manage", "requests.create"}

RoleGrants == [admin |-> AllKeys, requester |-> {"requests.create"}]

Account == [state : {"unused", "present", "deleted"}, email : Emails \cup {NoEmail},
            active : BOOLEAN, roles : SUBSET Roles]
Unused == [state |-> "unused", email |-> NoEmail, active |-> FALSE, roles |-> {}]
Deleted == [Unused EXCEPT !.state = "deleted"]

Invite == [state : {"none", "open", "claimed"}, id : 0..MaxInvites, role : Roles,
           fresh : BOOLEAN, by : 0..MaxUsers]
NoInvite == [state |-> "none", id |-> 0, role |-> "requester", fresh |-> FALSE, by |-> 0]

ServingSteps == {"idle", "load", "admitted", "assign", "bust", "count", "delete",
                 "update", "upsert", "create", "grant", "claim", "identify"}

Ways == {"none", "signup", "link", "plex"}

Serving == [pc : ServingSteps,
            by : 0..MaxUsers,               \* who asks
            id : 0..MaxUsers,               \* whom it is about
            email : Emails \cup {NoEmail},
            role : Roles,
            way : Ways,
            ticket : 0..MaxInvites,         \* the invite being used
            keys : SUBSET AllKeys,
            active : BOOLEAN]
Resting == [pc |-> "idle", by |-> 0, id |-> 0, email |-> NoEmail, role |-> "requester",
            way |-> "none", ticket |-> 0, keys |-> {}, active |-> FALSE]

Present(u) == account[u].state = "present"
Admins == {u \in Ids : "admin" \in account[u].roles}

\* ListUserGrants: what the roles of a user carry.
ListUserGrants(u) == UNION {RoleGrants[r] : r \in account[u].roles}

\* Resolve, with a global check and no denials.
Resolve(set, key) == key \in set

Loading(u) == \E h \in Servers : serving[h].pc = "load" /\ serving[h].by = u
Assigning(u) == \E h \in Servers : serving[h].pc \in {"assign", "bust"} /\ serving[h].id = u

-----------------------------------------------------------------------------
Step(h, pc) == serving' = [serving EXCEPT ![h].pc = pc]
Rest(h) == serving' = [serving EXCEPT ![h] = Resting]

\* A write of u's roles: a load that is under way has read the old ones, and
\* where no Bust follows, so has what is cached.
RolesWritten(u, bustFollows) ==
    overtaken' = IF Loading(u) \/ (~bustFollows /\ cache[u] # {})
                 THEN overtaken \cup {u} ELSE overtaken

\* GetUserByEmail sees active accounts only.
GetUserByEmail(e) == {u \in Ids : Present(u) /\ account[u].email = e /\ account[u].active}
EmailTaken(e) == \E u \in Ids : Present(u) /\ account[u].email = e

\* app_user: the next id, if the address is free.
CreateUser(u, e, roles) ==
    /\ account[u] = Unused /\ \A i \in 1..(u - 1) : account[i] # Unused
    /\ ~EmailTaken(e)
    /\ account' = [account EXCEPT ![u] = [state |-> "present", email |-> e,
                                          active |-> TRUE, roles |-> roles]]

-----------------------------------------------------------------------------
(***************************************************************************)
(* The setup, and the gates in front of everything else.                   *)
(***************************************************************************)
\* InitializeSystem, one serializable transaction.
InitializeSystem(e) ==
    /\ ~system.admin
    /\ \E u \in Ids : CreateUser(u, e, {"admin"})
    /\ system' = [system EXCEPT !.admin = TRUE]
    /\ UNCHANGED <<served, identity, invite, invites, cache, serving, unguarded, overtaken>>

SetTmdbKey ==
    /\ ~(system.admin /\ system.key)
    /\ system' = [system EXCEPT !.key = TRUE]
    /\ UNCHANGED <<served, account, identity, invite, invites, cache, serving, unguarded, overtaken>>

\* ChiSetupMode lets nothing else through before the setup is complete.
Arrives(h) ==
    /\ system.admin /\ system.key
    /\ serving[h] = Resting
    /\ served < MaxServed /\ served' = served + 1

\* authzgate: an operation that manages accounts is let through by the grants
\* in the cache, or loads them.  Whoever has a token may ask.
Require(h, u) ==
    /\ Arrives(h) /\ account[u] # Unused
    /\ IF cache[u] = {}
       THEN /\ serving' = [serving EXCEPT ![h] = [Resting EXCEPT !.pc = "load", !.by = u,
                                                     !.keys = ListUserGrants(u)]]
            /\ overtaken' = IF Assigning(u) THEN overtaken \cup {u} ELSE overtaken
       ELSE /\ \A set \in cache[u] : Resolve(set, "admin.users.manage")
            /\ serving' = [serving EXCEPT ![h] = [Resting EXCEPT !.pc = "admitted", !.by = u]]
            /\ UNCHANGED overtaken
    /\ UNCHANGED <<account, identity, invite, invites, system, cache, unguarded>>

\* The second half of effectiveSet, and the check.
StoreGrants(h) ==
    LET s == serving[h] IN
    /\ s.pc = "load"
    /\ cache' = [cache EXCEPT ![s.by] = {s.keys}]
    /\ serving' = [serving EXCEPT ![h] =
                      IF Resolve(s.keys, "admin.users.manage")
                      THEN [Resting EXCEPT !.pc = "admitted", !.by = s.by] ELSE Resting]
    /\ UNCHANGED <<served, account, identity, invite, invites, system, unguarded, overtaken>>

\* A request of the manager s.by on the account u begins.
Manage(h, u, pc) ==
    /\ serving[h].pc = "admitted"
    /\ serving' = [serving EXCEPT ![h] = [Resting EXCEPT !.pc = pc, !.id = u]]

-----------------------------------------------------------------------------
(***************************************************************************)
(* UsersService: roles, deletion, updates.                                 *)
(***************************************************************************)
\* AssignRole unassigns, assigns, and drops the cached grants.
UnassignAllRoles(h, u, r) ==
    /\ serving[h].pc = "admitted" /\ account[u] # Unused
    /\ account' = [account EXCEPT ![u].roles = {}]
    /\ serving' = [serving EXCEPT ![h] = [Resting EXCEPT !.pc = "assign", !.id = u, !.role = r]]
    /\ unguarded' = (unguarded \/ u \in Admins)
    /\ RolesWritten(u, TRUE)
    /\ UNCHANGED <<served, identity, invite, invites, system, cache>>

AssignRole(h) ==
    LET s == serving[h] IN
    /\ s.pc = "assign" /\ Present(s.id)
    /\ account' = [account EXCEPT ![s.id].roles = @ \cup {s.role}]
    /\ Step(h, "bust")
    /\ RolesWritten(s.id, TRUE)
    /\ UNCHANGED <<served, identity, invite, invites, system, cache, unguarded>>

\* The account is gone, or the database fails: the roles stay unassigned and
\* nothing is dropped from the cache.
AssignFails(h) ==
    LET s == serving[h] IN
    /\ s.pc = "assign"
    /\ Rest(h)
    /\ RolesWritten(s.id, FALSE)
    /\ UNCHANGED <<served, account, identity, invite, invites, system, cache, unguarded>>

\* Bug: the cached grants are kept.
KeepGrants(h) ==
    LET u == serving[h].id IN
    /\ serving[h].pc = "bust"
    /\ Rest(h)
    /\ overtaken' = IF Loading(u) THEN overtaken ELSE overtaken \ {u}
    /\ UNCHANGED <<served, account, identity, invite, invites, system, cache, unguarded>>

\* What no load and no other assignment is in the way of is current again.
Bust(h) ==
    LET u == serving[h].id IN
    /\ serving[h].pc = "bust"
    /\ cache' = [cache EXCEPT ![u] = {}]
    /\ Rest(h)
    /\ overtaken' = IF Loading(u) THEN overtaken ELSE overtaken \ {u}
    /\ UNCHANGED <<served, account, identity, invite, invites, system, unguarded>>

\* Delete counts the admins if the account is one; where its roles cannot be
\* listed, it does not.
ListUserRoles(h, u) ==
    /\ account[u] # Unused
    /\ Manage(h, u, IF u \in Admins THEN "count" ELSE "delete")
    /\ UNCHANGED <<served, account, identity, invite, invites, system, cache, unguarded, overtaken>>

ListRolesFails(h, u) ==
    /\ account[u] # Unused
    /\ Manage(h, u, "delete")
    /\ unguarded' = TRUE
    /\ UNCHANGED <<served, account, identity, invite, invites, system, cache, overtaken>>

\* Bug: the count may be one.
CountOffByOne(h) ==
    /\ serving[h].pc = "count"
    /\ IF Cardinality(Admins) < 1 THEN Rest(h) ELSE Step(h, "delete")
    /\ UNCHANGED <<served, account, identity, invite, invites, system, cache, unguarded, overtaken>>

CountUsersByRole(h) ==
    /\ serving[h].pc = "count"
    /\ IF Cardinality(Admins) <= 1 THEN Rest(h) ELSE Step(h, "delete")
    /\ UNCHANGED <<served, account, identity, invite, invites, system, cache, unguarded, overtaken>>

\* The account's roles, identities and the invites it sent go with it.  The
\* guard of the last admin is worth nothing to another deletion that has
\* passed it already.
DeleteUser(h) ==
    LET u == serving[h].id IN
    /\ serving[h].pc = "delete"
    /\ account' = [account EXCEPT ![u] = Deleted]
    /\ identity' = [e \in Emails |-> IF identity[e] = u THEN 0 ELSE identity[e]]
    /\ invite' = [e \in Emails |-> IF invite[e].by = u THEN NoInvite ELSE invite[e]]
    /\ unguarded' = (unguarded \/ (u \in Admins /\ \E o \in Servers \ {h} : serving[o].pc = "delete"))
    /\ RolesWritten(u, FALSE)
    /\ Rest(h)
    /\ UNCHANGED <<served, invites, system, cache>>

\* A statement fails, as where the account has requested something.
StatementFails(h) ==
    /\ serving[h].pc \in {"delete", "update", "upsert", "create", "claim"}
    /\ Rest(h)
    /\ UNCHANGED <<served, account, identity, invite, invites, system, cache, unguarded, overtaken>>

SetActive(u, active) ==
    account' = IF Present(u) THEN [account EXCEPT ![u].active = active] ELSE account

UpdateUser(h, u, active) ==
    /\ serving[h].pc = "admitted" /\ account[u] # Unused
    /\ SetActive(u, active)
    /\ Rest(h)
    /\ UNCHANGED <<served, identity, invite, invites, system, cache, unguarded, overtaken>>

\* UpdateProfile reads whether the account is active and writes it back.
GetProfile(h, u) ==
    /\ Arrives(h) /\ Present(u)
    /\ serving' = [serving EXCEPT ![h] = [Resting EXCEPT !.pc = "update", !.id = u,
                                                  !.active = account[u].active]]
    /\ UNCHANGED <<account, identity, invite, invites, system, cache, unguarded, overtaken>>

UpdateProfile(h) ==
    LET s == serving[h] IN
    /\ s.pc = "update"
    /\ SetActive(s.id, s.active)
    /\ Rest(h)
    /\ UNCHANGED <<served, identity, invite, invites, system, cache, unguarded, overtaken>>

-----------------------------------------------------------------------------
(***************************************************************************)
(* InvitesService: an invitation is made again by inviting again.          *)
(***************************************************************************)
InvitesCreate(h, e, r) ==
    LET s == serving[h] IN
    /\ s.pc = "admitted"
    /\ IF GetUserByEmail(e) # {} THEN Rest(h)
       ELSE serving' = [serving EXCEPT ![h] = [Resting EXCEPT !.pc = "upsert", !.by = s.by,
                                                       !.email = e, !.role = r]]
    /\ UNCHANGED <<served, account, identity, invite, invites, system, cache, unguarded, overtaken>>

UpsertInvite(h) ==
    LET s == serving[h]
        new == invite[s.email] = NoInvite
    IN  /\ s.pc = "upsert" /\ Present(s.by)
        /\ new => invites < MaxInvites
        /\ invites' = IF new THEN invites + 1 ELSE invites
        /\ invite' = [invite EXCEPT ![s.email] =
                         [state |-> "open", id |-> IF new THEN invites + 1 ELSE @.id,
                          role |-> s.role, fresh |-> TRUE, by |-> s.by]]
        /\ Rest(h)
        /\ UNCHANGED <<served, account, identity, system, cache, unguarded, overtaken>>

DeleteInvite(h, e) ==
    /\ serving[h].pc = "admitted"
    /\ invite' = [invite EXCEPT ![e] = NoInvite]
    /\ Rest(h)
    /\ UNCHANGED <<served, account, identity, invites, system, cache, unguarded, overtaken>>

InviteExpires(e) ==
    /\ invite[e].fresh
    /\ invite' = [invite EXCEPT ![e].fresh = FALSE]
    /\ UNCHANGED <<served, account, identity, invites, system, cache, serving, unguarded, overtaken>>

-----------------------------------------------------------------------------
(***************************************************************************)
(* The ways to an account.                                                 *)
(***************************************************************************)
Joins(h, pc, way, e, r, ticket) ==
    serving' = [serving EXCEPT ![h] = [Resting EXCEPT !.pc = pc, !.way = way, !.email = e,
                                               !.role = r, !.ticket = ticket]]

\* Where the strategy is "open".
Signup(h, e) ==
    /\ Arrives(h)
    /\ Joins(h, "create", "signup", e, "requester", 0)
    /\ UNCHANGED <<account, identity, invite, invites, system, cache, unguarded, overtaken>>

\* ValidateToken, by whoever was sent the latest link.
AcceptInvite(h, e) ==
    /\ Arrives(h)
    /\ invite[e].state = "open" /\ invite[e].fresh
    /\ Joins(h, "create", "link", e, invite[e].role, invite[e].id)
    /\ UNCHANGED <<account, identity, invite, invites, system, cache, unguarded, overtaken>>

\* The account a Plex login is linked to, or else the one with its address, if
\* it is active.
KnownByPlex(e) == IF identity[e] = 0 THEN GetUserByEmail(e)
                  ELSE {identity[e]} \cap {u \in Ids : account[u].active}

\* A known login is linked (again); otherwise the strategy decides: an invite,
\* which may have expired, or none.
LoginWithPlex(h, e) ==
    /\ Arrives(h)
    /\ \/ \E u \in KnownByPlex(e) :
            serving' = [serving EXCEPT ![h] = [Resting EXCEPT !.pc = "identify", !.way = "plex",
                                                       !.email = e, !.id = u]]
       \/ /\ identity[e] = 0 /\ GetUserByEmail(e) = {}
          /\ \/ invite[e].state = "open" /\ Joins(h, "claim", "plex", e, "requester", invite[e].id)
             \/ Joins(h, "create", "plex", e, "requester", 0)
    /\ UNCHANGED <<account, identity, invite, invites, system, cache, unguarded, overtaken>>

UsersCreate(h) ==
    LET s == serving[h] IN
    /\ s.pc = "create"
    /\ \E u \in Ids :
         /\ CreateUser(u, s.email, {})
         /\ serving' = [serving EXCEPT ![h].pc = "grant", ![h].id = u]
    /\ UNCHANGED <<served, identity, invite, invites, system, cache, unguarded, overtaken>>

\* The role of a new account: its failure is ignored, and nothing is dropped
\* from the cache.
AfterGrant(s) == CASE s.way = "signup" -> Resting
                   [] s.way = "link" -> [s EXCEPT !.pc = "claim"]
                   [] OTHER -> [s EXCEPT !.pc = "identify"]

GrantFirstRole(h) ==
    LET s == serving[h] IN
    /\ s.pc = "grant"
    /\ \/ /\ Present(s.id)
          /\ account' = [account EXCEPT ![s.id].roles = @ \cup {s.role}]
          /\ RolesWritten(s.id, FALSE)
       \/ UNCHANGED <<account, overtaken>>
    /\ serving' = [serving EXCEPT ![h] = AfterGrant(s)]
    /\ UNCHANGED <<served, identity, invite, invites, system, cache, unguarded>>

\* A link is claimed after the account is made, by the row's id; for a Plex
\* login before.
ClaimInvite(h) ==
    LET s == serving[h]
        hit == invite[s.email].state = "open" /\ invite[s.email].id = s.ticket
    IN  /\ s.pc = "claim"
        /\ invite' = IF hit THEN [invite EXCEPT ![s.email].state = "claimed"] ELSE invite
        /\ serving' = [serving EXCEPT ![h] =
                          IF s.way = "plex" THEN [s EXCEPT !.pc = "create"] ELSE Resting]
        /\ UNCHANGED <<served, account, identity, invites, system, cache, unguarded, overtaken>>

\* The identity moves to whom it was upserted for last; a failure is ignored.
UpsertIdentity(h) ==
    LET s == serving[h] IN
    /\ s.pc = "identify"
    /\ \/ Present(s.id) /\ identity' = [identity EXCEPT ![s.email] = s.id]
       \/ UNCHANGED identity
    /\ Rest(h)
    /\ UNCHANGED <<served, account, invite, invites, system, cache, unguarded, overtaken>>

\* The process stops: the cache and the requests go, the tables stay.
AccountsRestart ==
    /\ cache' = [u \in Ids |-> {}]
    /\ serving' = [h \in Servers |-> Resting]
    /\ overtaken' = {}
    /\ UNCHANGED <<served, account, identity, invite, invites, system, unguarded>>

-----------------------------------------------------------------------------
AccountsInit ==
    /\ account = [u \in Ids |-> Unused]
    /\ identity = [e \in Emails |-> 0]
    /\ invite = [e \in Emails |-> NoInvite]
    /\ invites = 0
    /\ system = [admin |-> FALSE, key |-> FALSE]
    /\ cache = [u \in Ids |-> {}]
    /\ serving = [h \in Servers |-> Resting]
    /\ served = 0
    /\ unguarded = FALSE
    /\ overtaken = {}

Setup == SetTmdbKey \/ \E e \in Emails : InitializeSystem(e)

Administer(h) ==
    \/ \E u \in Ids : Require(h, u) \/ ListUserRoles(h, u) \/ ListRolesFails(h, u)
    \/ \E u \in Ids, r \in Roles : UnassignAllRoles(h, u, r)
    \/ \E u \in Ids, active \in BOOLEAN : UpdateUser(h, u, active)
    \/ \E e \in Emails, r \in Roles : InvitesCreate(h, e, r)
    \/ \E e \in Emails : DeleteInvite(h, e)
    \/ StoreGrants(h) \/ AssignRole(h) \/ AssignFails(h) \/ Bust(h)
    \/ CountUsersByRole(h) \/ DeleteUser(h) \/ UpsertInvite(h) \/ StatementFails(h)

Enter(h) ==
    \/ \E u \in Ids : GetProfile(h, u)
    \/ \E e \in Emails : Signup(h, e) \/ AcceptInvite(h, e) \/ LoginWithPlex(h, e)
    \/ UpdateProfile(h) \/ UsersCreate(h) \/ GrantFirstRole(h) \/ ClaimInvite(h)
    \/ UpsertIdentity(h)

AccountsNext ==
    \/ Setup
    \/ \E h \in Servers : Administer(h) \/ Enter(h)
    \/ \E e \in Emails : InviteExpires(e)
    \/ AccountsRestart

AccountsSpec == AccountsInit /\ [][AccountsNext]_accountVars

-----------------------------------------------------------------------------
(***************************************************************************)
(* Properties.                                                             *)
(***************************************************************************)
AccountsTyped ==
    /\ account \in [Ids -> Account]
    /\ identity \in [Emails -> 0..MaxUsers]
    /\ invite \in [Emails -> Invite]
    /\ invites \in 0..MaxInvites
    /\ system \in [admin : BOOLEAN, key : BOOLEAN]
    /\ cache \in [Ids -> SUBSET (SUBSET AllKeys)]
    /\ serving \in [Servers -> Serving]
    /\ served \in 0..MaxServed
    /\ unguarded \in BOOLEAN
    /\ overtaken \subseteq Ids

\* Once set up, the system keeps an admin, whoever is deleted in whatever
\* order: as long as no admin lost the role to an assignment, and no deletion
\* overlapped another that had passed the check (UsersService.Delete).
AdminRemains == system.admin /\ ~unguarded => Admins # {}

\* The cached grants of a user are those of the user's roles, unless a role
\* was written while they were being loaded or without dropping them, and no
\* clean assignment came after (AuthzService.effectiveSet and Bust).
GrantsCurrent ==
    \A u \in Ids : u \notin overtaken /\ ~Assigning(u) => cache[u] \subseteq {ListUserGrants(u)}
=============================================================================
