---------------------------- MODULE ProfileStore ----------------------------
(***************************************************************************)
(* The quality profiles, their custom formats and the binding of a tier to *)
(* a profile: the seeding of the presets when the process starts, the      *)
(* edits of an operator, and the resolution of a tier that a request needs *)
(* before it can spawn (service/quality.go, repo/quality.go,               *)
(* qualityprofile/presets.go).                                             *)
(*                                                                         *)
(* Statements commit one by one, and the process may stop between any two. *)
(* Nothing is served while the presets are seeded; where seeding fails,    *)
(* the server starts all the same.                                         *)
(*                                                                         *)
(* Of the two tiers one is kept.  What a profile says but for its domain   *)
(* and its formats, and the weights and conditions of those, is left out;  *)
(* the sizes that Resolve merges in never change.                          *)
(***************************************************************************)
EXTENDS Naturals, Sequences

CONSTANTS
    Profiles, Formats,      \* ids of both
    Domains,
    Presets,                \* the preset of each domain
    Repack,                 \* its custom format
    Seeds,                  \* the domains in the order they are seeded
    NoProfile,
    Editors,                \* requests to write a profile, at a time
    MaxEdits                \* requests of the operator in a run

ASSUME ProfileStoreAssumption ==
    /\ Presets \in [Domains -> Profiles] /\ Repack \in [Domains -> Formats]
    /\ Seeds \in Seq(Domains) /\ {Seeds[n] : n \in DOMAIN Seeds} = Domains
    /\ NoProfile \notin Profiles /\ {"none", "gone"} \cap Domains = {}
    /\ MaxEdits \in Nat

VARIABLES
    profile,    \* quality_profile: the domain of each
    assigned,   \* quality_profile_format
    format,     \* custom_format: the domain of each
    binding,    \* tier_binding
    boot,       \* how far the start of the process has come
    fresh,      \* presets this start has made
    shaken,     \* a profile was deleted since this start, or the seeding failed
    edit,       \* what each request is doing
    edits,      \* requests so far
    resolve,    \* the resolution of a tier
    disturbed   \* a profile or a format was deleted since it began

storeVars == <<profile, assigned, format, binding, boot, fresh, shaken, edit, edits,
               resolve, disturbed>>

tables == <<profile, assigned, format, binding>>

\* An id that was given out and deleted is not given out again, but for those
\* of the presets.
Fixed == {Presets[d] : d \in Domains} \cup {Repack[d] : d \in Domains}
Ends(id) == IF id \in Fixed THEN "none" ELSE "gone"
Stored(table, id) == table[id] \in Domains

Down == [pc |-> "down", n |-> 1]
Up == [pc |-> "up", n |-> 1]

NoEdit == [pc |-> "idle", id |-> NoProfile, domain |-> "none", formats |-> {}, new |-> FALSE]
NoResolve == [pc |-> "idle", id |-> NoProfile, todo |-> {}]

Edit == [pc : {"idle", "row", "assign"}, id : Profiles \cup {NoProfile},
         domain : Domains \cup {"none"}, formats : SUBSET Formats, new : BOOLEAN]
Resolution == [pc : {"idle", "profile", "list", "formats", "failed"},
               id : Profiles \cup {NoProfile}, todo : SUBSET Formats]

-----------------------------------------------------------------------------
(***************************************************************************)
(* SeedDefaults: for each preset that is not there its format, its row and *)
(* the assignment; then for each tier that is not bound, the binding.      *)
(***************************************************************************)
Start ==
    /\ boot.pc = "down"
    /\ boot' = [pc |-> "preset", n |-> 1]
    /\ UNCHANGED <<tables, fresh, shaken, edit, edits, resolve, disturbed>>

Now == Seeds[boot.n]
Seeding(pc) == boot.pc = pc /\ boot.n \in DOMAIN Seeds

NextPreset == boot' = [boot EXCEPT !.n = @ + 1]
To(pc) == boot' = [boot EXCEPT !.pc = pc]

\* "already present - never overwrite user edits"
AlreadyPresent == Stored(profile, Presets[Now])

GetPreset ==
    /\ Seeding("preset")
    /\ IF AlreadyPresent THEN NextPreset ELSE To("format")
    /\ UNCHANGED <<tables, fresh, shaken, edit, edits, resolve, disturbed>>

\* A custom format that is there is left alone, whatever the operator made of it.
SeedCustomFormat ==
    /\ Seeding("format")
    /\ format' = IF Stored(format, Repack[Now]) THEN format ELSE [format EXCEPT ![Repack[Now]] = Now]
    /\ To("row")
    /\ UNCHANGED <<profile, assigned, binding, fresh, shaken, edit, edits, resolve, disturbed>>

SeedQualityProfile ==
    /\ Seeding("row")
    /\ IF Stored(profile, Presets[Now]) THEN UNCHANGED <<profile, fresh>>
       ELSE /\ profile' = [profile EXCEPT ![Presets[Now]] = Now]
            /\ fresh' = fresh \cup {Presets[Now]}
    /\ To("assign")
    /\ UNCHANGED <<assigned, format, binding, shaken, edit, edits, resolve, disturbed>>

SeedFormats ==
    /\ Seeding("assign")
    /\ assigned' = [assigned EXCEPT ![Presets[Now]] = {Repack[Now]}]
    /\ boot' = [pc |-> "preset", n |-> boot.n + 1]
    /\ UNCHANGED <<profile, format, binding, fresh, shaken, edit, edits, resolve, disturbed>>

PresetsDone ==
    /\ boot.pc = "preset" /\ boot.n \notin DOMAIN Seeds
    /\ boot' = [pc |-> "bind", n |-> 1]
    /\ UNCHANGED <<tables, fresh, shaken, edit, edits, resolve, disturbed>>

\* Bug: only the tiers of presets that were just made are bound.
IfFresh == binding[Now] = NoProfile /\ Presets[Now] \in fresh

NotBound == binding[Now] = NoProfile

SeedBinding ==
    /\ Seeding("bind")
    /\ binding' = IF NotBound THEN [binding EXCEPT ![Now] = Presets[Now]] ELSE binding
    /\ NextPreset
    /\ UNCHANGED <<profile, assigned, format, fresh, shaken, edit, edits, resolve, disturbed>>

Listen ==
    /\ boot.pc = "bind" /\ boot.n \notin DOMAIN Seeds
    /\ boot' = Up /\ fresh' = {}
    /\ UNCHANGED <<tables, shaken, edit, edits, resolve, disturbed>>

\* What fails is logged, and the rest is not seeded.
SeedFails ==
    /\ boot.pc \notin {"down", "up"}
    /\ boot' = Up /\ fresh' = {}
    /\ shaken' = TRUE
    /\ UNCHANGED <<tables, edit, edits, resolve, disturbed>>

\* The process stops: the tables stay.
Stop ==
    /\ boot.pc # "down"
    /\ boot' = Down /\ fresh' = {} /\ shaken' = FALSE
    /\ edit' = [h \in Editors |-> NoEdit]
    /\ resolve' = NoResolve /\ disturbed' = FALSE
    /\ UNCHANGED <<tables, edits>>

-----------------------------------------------------------------------------
(***************************************************************************)
(* The operator's edits.                                                   *)
(***************************************************************************)
Edits ==
    /\ boot.pc = "up"
    /\ edits < MaxEdits /\ edits' = edits + 1

Edited(h) == edit' = [edit EXCEPT ![h] = NoEdit]

\* Every format has to be there, and of the domain of the profile.
ValidProfile(d, formats) == \A f \in formats : format[f] = d

WriteProfile(h, p, d, formats) ==
    /\ Edits /\ edit[h] = NoEdit
    /\ profile[p] = "none" => p \notin Fixed
    /\ ValidProfile(d, formats)
    /\ edit' = [edit EXCEPT ![h] = [pc |-> "row", id |-> p, domain |-> d, formats |-> formats,
                                    new |-> profile[p] = "none"]]
    /\ UNCHANGED <<tables, boot, fresh, shaken, resolve, disturbed>>

\* CreateQualityProfile, or UpdateQualityProfile of a row that is there.
WriteProfileRow(h) ==
    LET e == edit[h] IN
    /\ e.pc = "row"
    /\ IF \/ e.new /\ profile[e.id] = "none"
          \/ ~e.new /\ Stored(profile, e.id)
       THEN /\ profile' = [profile EXCEPT ![e.id] = e.domain]
            /\ edit' = [edit EXCEPT ![h].pc = "assign"]
       ELSE UNCHANGED profile /\ Edited(h)
    /\ UNCHANGED <<assigned, format, binding, boot, fresh, shaken, edits, resolve, disturbed>>

\* One transaction, which a row that is gone fails; the profile stays written.
SetProfileFormats(h) ==
    LET e == edit[h] IN
    /\ e.pc = "assign"
    /\ assigned' = IF Stored(profile, e.id) /\ \A f \in e.formats : Stored(format, f)
                   THEN [assigned EXCEPT ![e.id] = e.formats] ELSE assigned
    /\ Edited(h)
    /\ UNCHANGED <<profile, format, binding, boot, fresh, shaken, edits, resolve, disturbed>>

\* Its formats and bindings go with it.  A profile that a tracking or a want
\* names cannot be deleted.
DeleteProfile(p) ==
    /\ Edits /\ Stored(profile, p)
    /\ profile' = [profile EXCEPT ![p] = Ends(p)]
    /\ assigned' = [assigned EXCEPT ![p] = {}]
    /\ binding' = [d \in Domains |-> IF binding[d] = p THEN NoProfile ELSE binding[d]]
    /\ shaken' = TRUE /\ disturbed' = (resolve # NoResolve)
    /\ UNCHANGED <<format, boot, fresh, edit, resolve>>

\* The domain of a format may change while profiles of the old one score it.
WriteCustomFormat(f, d) ==
    /\ Edits
    /\ Stored(format, f) \/ (format[f] = "none" /\ f \notin Fixed)
    /\ format' = [format EXCEPT ![f] = d]
    /\ UNCHANGED <<profile, assigned, binding, boot, fresh, shaken, edit, resolve, disturbed>>

Unassigned(f) == [p \in Profiles |-> assigned[p] \ {f}]

DeleteCustomFormat(f) ==
    /\ Edits /\ Stored(format, f)
    /\ format' = [format EXCEPT ![f] = Ends(f)]
    /\ assigned' = Unassigned(f)
    /\ disturbed' = (resolve # NoResolve)
    /\ UNCHANGED <<profile, binding, boot, fresh, shaken, edit, resolve>>

\* Whatever the domain of the profile.
BindTier(d, p) ==
    /\ Edits /\ Stored(profile, p)
    /\ binding' = [binding EXCEPT ![d] = p]
    /\ UNCHANGED <<profile, assigned, format, boot, fresh, shaken, edit, resolve, disturbed>>

-----------------------------------------------------------------------------
(***************************************************************************)
(* ResolveByTier and Resolve: the binding, the row, the assignments and    *)
(* each format, in reads of their own.                                     *)
(***************************************************************************)
Reads(pc) == resolve' = [resolve EXCEPT !.pc = pc]

ResolveByTier(d) ==
    /\ boot.pc = "up" /\ resolve = NoResolve
    /\ resolve' = [pc |-> IF binding[d] = NoProfile THEN "failed" ELSE "profile",
                   id |-> binding[d], todo |-> {}]
    /\ UNCHANGED <<tables, boot, fresh, shaken, edit, edits, disturbed>>

GetQualityProfile ==
    /\ resolve.pc = "profile"
    /\ Reads(IF Stored(profile, resolve.id) THEN "list" ELSE "failed")
    /\ UNCHANGED <<tables, boot, fresh, shaken, edit, edits, disturbed>>

ListProfileFormats ==
    /\ resolve.pc = "list"
    /\ resolve' = [resolve EXCEPT !.pc = "formats", !.todo = assigned[resolve.id]]
    /\ UNCHANGED <<tables, boot, fresh, shaken, edit, edits, disturbed>>

GetCustomFormat(f) ==
    /\ resolve.pc = "formats" /\ f \in resolve.todo
    /\ resolve' = IF Stored(format, f) THEN [resolve EXCEPT !.todo = @ \ {f}]
                  ELSE [resolve EXCEPT !.pc = "failed"]
    /\ UNCHANGED <<tables, boot, fresh, shaken, edit, edits, disturbed>>

Resolved ==
    /\ resolve.pc = "failed" \/ (resolve.pc = "formats" /\ resolve.todo = {})
    /\ resolve' = NoResolve /\ disturbed' = FALSE
    /\ UNCHANGED <<tables, boot, fresh, shaken, edit, edits>>

-----------------------------------------------------------------------------
StoreInit ==
    /\ profile = [p \in Profiles |-> "none"]
    /\ assigned = [p \in Profiles |-> {}]
    /\ format = [f \in Formats |-> "none"]
    /\ binding = [d \in Domains |-> NoProfile]
    /\ boot = Down
    /\ fresh = {} /\ shaken = FALSE
    /\ edit = [h \in Editors |-> NoEdit]
    /\ edits = 0
    /\ resolve = NoResolve
    /\ disturbed = FALSE

SeedDefaults ==
    \/ Start \/ GetPreset \/ SeedCustomFormat \/ SeedQualityProfile \/ SeedFormats
    \/ PresetsDone \/ SeedBinding \/ Listen \/ SeedFails

Maintain ==
    \/ \E h \in Editors :
         \/ \E p \in Profiles, d \in Domains, formats \in SUBSET Formats : WriteProfile(h, p, d, formats)
         \/ WriteProfileRow(h) \/ SetProfileFormats(h)
    \/ \E p \in Profiles : DeleteProfile(p) \/ \E d \in Domains : BindTier(d, p)
    \/ \E f \in Formats : DeleteCustomFormat(f) \/ \E d \in Domains : WriteCustomFormat(f, d)

ResolveTier ==
    \/ \E d \in Domains : ResolveByTier(d)
    \/ GetQualityProfile \/ ListProfileFormats \/ (\E f \in Formats : GetCustomFormat(f)) \/ Resolved

StoreNext == SeedDefaults \/ Stop \/ Maintain \/ ResolveTier

StoreSpec == StoreInit /\ [][StoreNext]_storeVars

-----------------------------------------------------------------------------
(***************************************************************************)
(* Properties.                                                             *)
(***************************************************************************)
StoreTyped ==
    /\ profile \in [Profiles -> Domains \cup {"none", "gone"}]
    /\ assigned \in [Profiles -> SUBSET Formats]
    /\ format \in [Formats -> Domains \cup {"none", "gone"}]
    /\ binding \in [Domains -> Profiles \cup {NoProfile}]
    /\ boot \in [pc : {"down", "preset", "format", "row", "assign", "bind", "up"},
                 n : 1..(Len(Seeds) + 1)]
    /\ fresh \subseteq Profiles /\ shaken \in BOOLEAN /\ disturbed \in BOOLEAN
    /\ edit \in [Editors -> Edit]
    /\ edits \in 0..MaxEdits
    /\ resolve \in Resolution

\* Wherever an earlier start was cut short, and whatever was deleted before, a
\* tier resolves: unless a profile was deleted, or the seeding failed, since
\* this start, or something was deleted while it was being resolved
\* (SeedDefaults, ResolveByTier).
TierResolves == resolve.pc = "failed" => shaken \/ disturbed

\* A start of the process leaves the profiles, the formats of a profile and the
\* bindings that it finds as they are (SeedDefaults: "non-clobbering").
SeedingKeeps ==
    [][boot.pc # "up" =>
        /\ \A p \in Profiles : Stored(profile, p) =>
              /\ profile'[p] = profile[p]
              /\ p \notin fresh => assigned'[p] = assigned[p]
        /\ \A d \in Domains : binding[d] # NoProfile => binding'[d] = binding[d]]_storeVars
=============================================================================
