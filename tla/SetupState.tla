------------------------------ MODULE SetupState ------------------------------
(***************************************************************************)
(* The setup wizard's settings file (src/metis_head/setup_state.py) and    *)
(* the requests of src/metis_head/brain.py that read and patch it.         *)
(*                                                                         *)
(* Every request makes a store of its own, so the store's thread lock      *)
(* excludes nobody; what keeps two updates apart is the lock file.  A load *)
(* takes no lock, though it too writes: it seeds a file that is absent and *)
(* migrates one of schema 1.                                               *)
(*                                                                         *)
(* Profiles and active slots are sets here: the order of the lists decides *)
(* only which profile a migration takes for the first.  The sections       *)
(* "provider" and "voice" are merged and validated alike and stand as one, *)
(* services, with a value for what their fields may not hold.              *)
(***************************************************************************)
EXTENDS Naturals, FiniteSets, TLC

CONSTANTS
    SetupClients,        \* who sends requests, one at a time each
    NoClient,
    Slots,          \* stable profile identifiers
    NoSlot,
    SetupAccounts,       \* Google accounts
    NoAccount,
    MaxRevision     \* bound: the last revision an update may make

ASSUME SetupAssumption ==
    /\ NoClient \notin SetupClients /\ NoSlot \notin Slots /\ NoAccount \notin SetupAccounts
    /\ MaxRevision \in Nat

VARIABLES
    disk,       \* the settings file
    lock,       \* who holds the lock file
    at,         \* where each client's request is
    plan,       \* the state each request is about to write
    reply,      \* the last state each client was given
    begun       \* bookkeeping: what the file was when the program started

setupVars == <<disk, lock, at, plan, reply, begun>>

Absent == [schema |-> 0, revision |-> 0]

Profile == [slot : Slots, account : SetupAccounts \cup {NoAccount}]
Modes == {"default", "explicit"}
Versions == {"none", "1"}
Services == {"usual", "changed"}

\* _default_state
Default ==
    [schema |-> 2, revision |-> 0,
     wizard |-> [completed |-> FALSE, version |-> "none"],
     services |-> "usual",
     profiles |-> {},
     selection |-> [mode |-> "default", default |-> NoSlot, active |-> {}]]

Known(profiles) == {profile.slot : profile \in profiles}
Named(account, profiles) == {profile \in profiles : profile.account = account}

\* _validate
Valid(state) ==
    LET known == Known(state.profiles)
        chosen == state.selection
    IN  /\ state.wizard.completed => state.wizard.version # "none"
        /\ state.services \in Services
        /\ Cardinality(known) = Cardinality(state.profiles)
        /\ \A account \in SetupAccounts : Cardinality(Named(account, state.profiles)) <= 1
        /\ chosen.mode \in Modes
        /\ chosen.active \subseteq known
        /\ IF known = {} THEN chosen.default = NoSlot ELSE chosen.default \in known
        /\ chosen.mode = "default" => chosen.active = {chosen.default} \ {NoSlot}

\* _migrate_v1: what a file of schema 1 may become.  One without a mode keeps the active
\* slots it has and is given the mode "default".
Migrations(old) ==
    LET known == Known(old.profiles)
        chosen == old.selection
        firsts == IF chosen.default \in known THEN {chosen.default}
                  ELSE IF known = {} THEN {NoSlot} ELSE known
        kept(default) == IF chosen.mode = "default" THEN {default} \ {NoSlot}
                         ELSE chosen.active \cap known
        mode == IF chosen.mode = "none" THEN "default" ELSE chosen.mode
    IN  {[old EXCEPT !.schema = 2,
                     !.selection = [mode |-> mode, default |-> default, active |-> kept(default)]] :
            default \in firsts}

-----------------------------------------------------------------------------
\* What an update asks for: some sections, and of each some fields.

NoFields == [field \in {} |-> "none"]

\* One value of google_profiles: null, no account named, or an account for the slot.
Removed == "removed"
Renamed == "renamed"

\* profiles: a map from slots to their new fields, or a list that replaces the old one.
Merged(profiles, changes) ==
    {profile \in profiles : profile.slot \notin DOMAIN changes}
    \cup {profile \in profiles : profile.slot \in DOMAIN changes /\ changes[profile.slot] = Renamed}
    \cup {[slot |-> slot,
           account |-> IF changes[slot] = Renamed THEN NoAccount ELSE changes[slot]] :
             slot \in {s \in DOMAIN changes :
                         /\ changes[s] # Removed
                         /\ changes[s] = Renamed => s \notin Known(profiles)}}

\* The fields of a patch that an update merges into those of the section.
Updated(section, fields) == fields @@ section

\* SetupStateStore.update: the candidate a patch makes of the current state.
Candidate(state, patch) ==
    [schema    |-> state.schema,
     revision  |-> state.revision + 1,
     wizard    |-> Updated(state.wizard, patch.wizard),
     services  |-> IF patch.services = "as before" THEN state.services ELSE patch.services,
     profiles  |-> IF patch.whole THEN patch.list ELSE Merged(state.profiles, patch.changes),
     selection |-> Updated(state.selection, patch.selection)]

Nothing == [wizard |-> NoFields, services |-> "as before", whole |-> FALSE, list |-> {},
            changes |-> NoFields, selection |-> NoFields]

\* Patches of profiles and selection together, as the wizard sends them, and of the rest.
Changes == UNION {[slots -> SetupAccounts \cup {NoAccount, Removed, Renamed}] : slots \in SUBSET Slots}

Selections ==
    {NoFields}
    \cup {[mode |-> mode] : mode \in Modes}
    \cup {[default |-> slot] : slot \in Slots \cup {NoSlot}}
    \cup {[mode |-> "explicit", active |-> active] : active \in SUBSET Slots}
    \cup {[default |-> slot, active |-> {slot} \ {NoSlot}] : slot \in Slots \cup {NoSlot}}

Patches ==
    {[Nothing EXCEPT !.changes = changes, !.selection = selection] :
        changes \in Changes, selection \in Selections}
    \cup {[Nothing EXCEPT !.whole = TRUE, !.list = list, !.selection = selection] :
        list \in SUBSET Profile, selection \in Selections}
    \cup {[Nothing EXCEPT !.wizard = [completed |-> completed], !.services = services] :
        completed \in BOOLEAN, services \in Services \cup {"unsupported"}}
    \cup {[Nothing EXCEPT !.wizard = [completed |-> completed, version |-> version]] :
        completed \in BOOLEAN, version \in Versions}

-----------------------------------------------------------------------------
\* Files of schema 1: four fixed slots, with any selection an older version let be saved.
OldFiles ==
    {[schema |-> 1, revision |-> 1, wizard |-> Default.wizard, services |-> Default.services,
      profiles |-> profiles, selection |-> chosen] :
        profiles \in {list \in SUBSET Profile : Known(list) = Slots /\ Cardinality(list) = Cardinality(Slots)},
        chosen \in [mode : Modes \cup {"none"}, default : Slots \cup {NoSlot}, active : SUBSET Slots]}

Files(beginning) ==
    CASE beginning = "absent" -> {Absent}
      [] beginning = "v1" -> OldFiles
      [] beginning = "current" -> {Default}

SetupInit(beginnings) ==
    /\ begun \in beginnings
    /\ disk \in Files(begun)
    /\ lock = NoClient
    /\ at = [c \in SetupClients |-> "idle"]
    /\ plan = [c \in SetupClients |-> Absent]
    /\ reply = [c \in SetupClients |-> Absent]

\* What a load that has to write first would write; none if the file cannot be migrated.
Repairs == IF disk = Absent THEN {Default} ELSE {state \in Migrations(disk) : Valid(state)}
Current == disk.schema = 2

Answer(c, state) == reply' = [reply EXCEPT ![c] = state]
Moves(c, place, state) == at' = [at EXCEPT ![c] = place] /\ plan' = [plan EXCEPT ![c] = state]
Returns(c) == Moves(c, "idle", Absent)
Unlock(c) == lock' = IF lock = c THEN NoClient ELSE lock

\* GET /metis/setup and everything else that loads: a current file is the answer.
Load(c) ==
    /\ at[c] = "idle" /\ Current
    /\ Answer(c, disk)
    /\ UNCHANGED <<disk, lock, at, plan, begun>>

\* Any other file is to be written first.
LoadFinds(c) ==
    /\ at[c] = "idle" /\ ~Current
    /\ \E state \in Repairs : Moves(c, "repairing", state)
    /\ UNCHANGED <<disk, lock, reply, begun>>

LoadRepairs(c) ==
    /\ at[c] = "repairing"
    /\ disk' = plan[c]
    /\ Answer(c, plan[c])
    /\ Returns(c)
    /\ UNCHANGED <<lock, begun>>

(* Faulty variant: update excludes the threads of one store only, and every request has
   a store of its own. *)
UpdateLocksItself(c) ==
    /\ at[c] = "idle"
    /\ disk.revision < MaxRevision
    /\ Moves(c, "locked", Absent)
    /\ UNCHANGED <<disk, lock, reply, begun>>

\* PATCH /metis/setup takes the lock file ...
UpdateLocks(c) ==
    /\ at[c] = "idle" /\ lock = NoClient
    /\ disk.revision < MaxRevision
    /\ lock' = c
    /\ Moves(c, "locked", Absent)
    /\ UNCHANGED <<disk, reply, begun>>

\* The client names the revision it was given last, or none.
Expects(c, state) == reply[c] # Absent => reply[c].revision = state.revision

(* Faulty variant: update writes what it merged without validating it. *)
MergesUnchecked(c, state, patch, named) ==
    IF named => Expects(c, state)
    THEN Moves(c, "writing", Candidate(state, patch)) /\ UNCHANGED lock
    ELSE Returns(c) /\ Unlock(c)

\* The candidate is refused, and the lock given back, or it is to be written.
Merges(c, state, patch, named) ==
    LET candidate == Candidate(state, patch)
    IN  IF (named => Expects(c, state)) /\ Valid(candidate)
        THEN Moves(c, "writing", candidate) /\ UNCHANGED lock
        ELSE Returns(c) /\ Unlock(c)

\* ... loads under it, and merges what is asked for.
UpdateReads(c, patches) ==
    /\ at[c] = "locked"
    /\ \/ Current /\ \E patch \in patches, named \in BOOLEAN : Merges(c, disk, patch, named)
       \/ ~Current /\ UNCHANGED lock /\ \E state \in Repairs : Moves(c, "seeding", state)
       \/ ~Current /\ Repairs = {} /\ Returns(c) /\ Unlock(c)
    /\ UNCHANGED <<disk, reply, begun>>

UpdateRepairs(c, patches) ==
    /\ at[c] = "seeding"
    /\ disk' = plan[c]
    /\ \E patch \in patches, named \in BOOLEAN : Merges(c, plan[c], patch, named)
    /\ UNCHANGED <<reply, begun>>

UpdateWrites(c) ==
    /\ at[c] = "writing"
    /\ disk' = plan[c]
    /\ Answer(c, plan[c])
    /\ Returns(c)
    /\ Unlock(c)
    /\ UNCHANGED begun

\* A write that raises, or the end of the process: the temporary file is not renamed, and
\* the operating system gives the lock back.
Fails(c) ==
    /\ at[c] # "idle"
    /\ Returns(c)
    /\ Unlock(c)
    /\ UNCHANGED <<disk, reply, begun>>

SetupStep(c, patches) ==
    \/ Load(c) \/ LoadFinds(c) \/ LoadRepairs(c)
    \/ UpdateLocks(c) \/ UpdateReads(c, patches) \/ UpdateRepairs(c, patches)
    \/ UpdateWrites(c) \/ Fails(c)

SetupNext == \E c \in SetupClients : SetupStep(c, Patches)

SetupSpec == SetupInit({"absent", "v1", "current"}) /\ [][SetupNext]_setupVars

-----------------------------------------------------------------------------
\* A file of schema 1 in which no account stands twice and whose selection has a mode.
IsMigratable(old) ==
    /\ \A account \in SetupAccounts : Cardinality(Named(account, old.profiles)) <= 1
    /\ old.selection.mode \in Modes

\* Whatever is asked for, a file of schema 2 is valid: an account stands for one profile,
\* only known profiles are selected, and the mode "default" selects the default alone.  An
\* older file is one that every load repairs, whichever profile it takes for the first, if
\* it is migratable at all; of one that is not (an account twice, or no profile_selection)
\* nothing is said, and the program does not get past it.  Whoever was given a state was
\* given a valid one, and the file is of schema 2 from then on.
SetupIsReadable ==
    /\ Current => Valid(disk)
    /\ disk.schema = 1 /\ IsMigratable(disk) => Repairs # {} /\ Repairs = Migrations(disk)
    /\ \A c \in SetupClients : reply[c] # Absent => Current /\ Valid(reply[c])

\* No update is lost or undone: the file is never behind a state that was given to a
\* client, and no other state of the same revision takes its place.  Only where the file
\* was of schema 2 from the start: a load that repairs an older file holds no lock.
EveryReplyStands ==
    begun = "current" =>
        \A c \in SetupClients :
            /\ reply[c].revision <= disk.revision
            /\ reply[c].revision = disk.revision /\ reply[c] # Absent => reply[c] = disk
==============================================================================
