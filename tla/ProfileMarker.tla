--------------------------- MODULE ProfileMarker ---------------------------
(***************************************************************************)
(* The profile's marker, profile.json: its layout version and its          *)
(* identity, and the ladder of migrations that raises the version          *)
(* (core/profile/ProfileMarker.cpp, ProfileMigration.cpp,                  *)
(* ProfileLoader::Open(), ProfileSession::UpdateMarker()).                 *)
(*                                                                         *)
(* One process at a time holds the profile, and each start may be of       *)
(* another build.  It may end at any step, a write may fail, and between   *)
(* two starts the marker or its copy may be found damaged.                 *)
(*                                                                         *)
(* An action is the code from one durable write to the next.  A migration  *)
(* from v to v + 1 is the number v.  Builds are of one line, so a record   *)
(* of a migration past a build's version comes with a version past it, and *)
(* the history of migrations adds nothing to refuse by.                    *)
(***************************************************************************)
EXTENDS Naturals, FiniteSets

CONSTANTS
    Targets,       \* the layout versions builds are made for
    Pre, Post,     \* migrations, by the stage they run in
    NotOnClassic,  \* those the installed root passes over
    Raising,       \* those older builds cannot read after
    Oldest,        \* kOldestSupportedProfileSchema
    MinReader,     \* GetAppProfileMinReaderSchema()
    MaxStarts, MaxFaults

(* A stage plans from the version the marker has when it begins: one that  *)
(* is passed before its stage is not run.                                  *)
ASSUME MarkerAssumption ==
    /\ Targets \subseteq Nat /\ Pre \subseteq Nat /\ Post \subseteq Nat
    /\ NotOnClassic \subseteq Pre \cup Post /\ Raising \subseteq Pre \cup Post
    /\ Oldest \in Nat \ {0} /\ MinReader \in Nat \ {0}
    /\ \A t \in Targets : Oldest <= t /\ MinReader <= t
    /\ \A v \in Pre, w \in Post : v < w
    /\ MaxStarts \in Nat /\ MaxFaults \in Nat

VARIABLES
    \* durable
    marker, copy,  \* profile.json, profile.json.bak
    made,          \* the profile has data, of one session or another
    applied,       \* the migrations that data has been through
    classic,       \* the profile is the installed root
    \* the process
    pc,
    target,        \* the layout version of its build
    stage,
    todo,          \* rungs of this stage still to run
    held,          \* RunProfileMigration()'s marker
    uuid,          \* Marker().profile_uuid of the session
    \* bounds
    starts, faults,
    \* history
    newest,        \* the newest build that has started
    accounts,      \* accounts the secret of the profile's key has been kept in
    slips          \* what has been lost: see the properties

disk == <<marker, copy, made, applied>>
process == <<target, stage, todo, held, uuid>>
vars == <<disk, classic, pc, process, starts, faults, newest, accounts, slips>>

NoUuid == 0

(* A marker file: none, one that does not parse but whose uuid may still   *)
(* be made out in it, or one that parses.                                  *)
Missing == [form |-> "missing", version |-> 0, reader |-> 0, uuid |-> NoUuid]
Damaged(u) == [form |-> "damaged", version |-> 0, reader |-> 0, uuid |-> u]
Good(v, r, u) == [form |-> "good", version |-> v, reader |-> r, uuid |-> u]

(* ProfileMarker{}                                                         *)
Blank == Good(0, 0, NoUuid)

Ladder == Pre \cup Post
RunsHere == IF classic THEN Ladder \ NotOnClassic ELSE Ladder

Fault == faults < MaxFaults /\ faults' = faults + 1

(* A profile nobody has opened; one written before markers existed; one an *)
(* earlier build wrote, which may have had no identity and kept no copy.   *)
Init ==
    /\ classic \in BOOLEAN
    /\ \/ /\ marker = Missing /\ copy = Missing /\ applied = {} /\ newest = 0
          /\ made \in BOOLEAN
       \/ \E v \in Targets, u \in {NoUuid, 1} :
            /\ marker = Good(v, MinReader, u)
            /\ copy \in {Missing, marker}
            /\ applied = {r \in RunsHere : r < v}
            /\ newest = v /\ made = TRUE
    /\ pc = "off" /\ target = 0 /\ stage = "pre" /\ todo = {} /\ held = Blank
    /\ uuid = NoUuid
    /\ starts = 1 /\ faults = 0
    /\ accounts = {} /\ slips = {}

-----------------------------------------------------------------------------
(* Reading and writing.                                                    *)

(* ReadProfileMarker(): the copy stands in for a marker that is there and  *)
(* cannot be read.                                                         *)
Read == IF marker.form = "damaged" /\ copy.form = "good" THEN copy ELSE marker

Present == Read.form = "good"

(* value_or(ProfileMarker{})                                               *)
ReadOrBlank == IF Present THEN Read ELSE Blank

(* Seeded fault: an unreadable marker is made anew from nothing.           *)
ReadToUpdateAnew == ReadOrBlank

(* UpdateMarker() keeps what SalvageProfileUuid() makes out.               *)
ReadToUpdate == IF Present THEN Read ELSE [Blank EXCEPT !.uuid = marker.uuid]

(* WriteProfileMarker(): the marker, then the copy, which may not come     *)
(* about.                                                                  *)
Written(m) ==
    /\ marker' = m
    /\ \/ copy' = m /\ UNCHANGED faults
       \/ Fault /\ UNCHANGED copy

NotWritten == Fault /\ UNCHANGED <<marker, copy>>

-----------------------------------------------------------------------------
(* PlanProfileMigration().                                                 *)

Refused(t) ==
    /\ Present
    /\ Read.version > t \/ Read.reader > t \/ Read.version < Oldest

Upgrade(t) == Present /\ Read.version < t

(* ProfileMigrationsFor()                                                  *)
Rungs(s, from, to) ==
    {r \in (IF s = "pre" THEN Pre ELSE Post) : from <= r /\ r < to}

NextRung == CHOOSE r \in todo : \A q \in todo : r <= q

-----------------------------------------------------------------------------
(* ProfileLoader::Open().                                                  *)

(* The session is made and reads the marker.  What it puts into a profile  *)
(* that has nothing yet is in the layout of its build.                     *)
Start(t) ==
    /\ pc = "off" /\ starts < MaxStarts
    /\ starts' = starts + 1
    /\ target' = t
    /\ newest' = IF t > newest THEN t ELSE newest
    /\ uuid' = ReadOrBlank.uuid
    /\ stage' = "pre"
    /\ pc' = "plan"
    /\ made' = TRUE
    /\ applied' = IF made THEN applied ELSE {r \in RunsHere : r < t}
    /\ slips' = IF made /\ ~Present THEN slips \cup {"version"} ELSE slips
    /\ UNCHANGED <<marker, copy, classic, todo, held, faults, accounts>>

AfterStage == IF stage = "pre" THEN "identity" ELSE "stamp"

(* run_migrations(): refused before anything is written, nothing to do, or *)
(* the rungs of this stage.                                                *)
PlanRefuses ==
    /\ pc = "plan" /\ Refused(target)
    /\ pc' = "off"
    /\ UNCHANGED <<disk, classic, process, starts, faults, newest, accounts, slips>>

PlanRuns ==
    LET rungs == IF Upgrade(target) THEN Rungs(stage, Read.version, target) ELSE {} IN
    /\ pc = "plan" /\ ~Refused(target)
    /\ todo' = rungs
    /\ held' = ReadOrBlank
    /\ uuid' = IF Upgrade(target) THEN Read.uuid ELSE uuid
    /\ pc' = IF rungs = {} THEN AfterStage ELSE "rung"
    /\ UNCHANGED <<disk, classic, target, stage, starts, faults, newest, accounts, slips>>

(* A rung is passed over on the installed root, or its work done,          *)
ApplyRung ==
    /\ pc = "rung"
    /\ applied' = IF NextRung \in RunsHere THEN applied \cup {NextRung} ELSE applied
    /\ pc' = "commit"
    /\ UNCHANGED <<marker, copy, made, classic, process, starts, faults, newest, accounts, slips>>

(* Seeded fault: a rung that fails is passed over.                         *)
RungFailsOnwards ==
    /\ pc = "rung" /\ NextRung \in RunsHere
    /\ pc' = "commit"
    /\ UNCHANGED <<disk, classic, process, starts, faults, newest, accounts, slips>>

(* or it fails, which ends the start.                                      *)
RungFails ==
    /\ pc = "rung" /\ NextRung \in RunsHere
    /\ pc' = "off"
    /\ UNCHANGED <<disk, classic, process, starts, faults, newest, accounts, slips>>

(* The version is raised by one and committed before the next rung.        *)
CommitRung ==
    LET m == [held EXCEPT !.version = NextRung + 1,
                          !.reader = IF NextRung \in Raising /\ NextRung + 1 > @
                                     THEN NextRung + 1 ELSE @] IN
    /\ pc = "commit"
    /\ Written(m)
    /\ held' = m
    /\ todo' = todo \ {NextRung}
    /\ uuid' = m.uuid
    /\ pc' = IF todo' = {} THEN AfterStage ELSE "rung"
    /\ UNCHANGED <<made, applied, classic, target, stage, starts, newest, accounts, slips>>

CommitFails ==
    /\ pc = "commit" /\ NotWritten
    /\ pc' = "off"
    /\ UNCHANGED <<made, applied, classic, process, starts, newest, accounts, slips>>

(* Seeded fault: the identity alone is given.                              *)
NamedOnly(m) == IF m.uuid # NoUuid THEN m ELSE [m EXCEPT !.uuid = starts]

(* ensure_identity(): an identity is minted if none can be found, and a    *)
(* version given to a marker that has none with it.  That it could not be  *)
(* written goes unnoticed.                                                 *)
Named(m) ==
    IF m.uuid # NoUuid THEN m
    ELSE IF m.version = 0 THEN Good(target, MinReader, starts)
    ELSE [m EXCEPT !.uuid = starts]

Salvaged == ~Present /\ marker.uuid # NoUuid
Illegible == marker.form = "damaged" /\ ~Present /\ marker.uuid = NoUuid

EnsureIdentity ==
    LET m == Named(ReadToUpdate) IN
    /\ pc = "identity"
    /\ pc' = "key"
    /\ IF uuid # NoUuid THEN UNCHANGED <<marker, copy, uuid, faults, slips>>
       ELSE \/ /\ Written(m)
               /\ uuid' = m.uuid
               /\ slips' = slips \cup (IF Salvaged THEN {"zero"} ELSE {})
                                 \cup (IF Illegible THEN {"uuid"} ELSE {})
            \/ /\ NotWritten
               /\ slips' = slips \cup {"uuid"}
               /\ UNCHANGED uuid
    /\ UNCHANGED <<made, applied, classic, target, stage, todo, held, starts, newest, accounts>>

(* CurrentWrapAccount(): the installed root keeps the one it always had.   *)
Account == IF classic THEN NoUuid ELSE uuid

(* resolve_secret(), Load(): the secret of the profile's key is kept in    *)
(* that account.  The user may turn away.                                  *)
LoadKey ==
    /\ pc = "key"
    /\ accounts' = accounts \cup {Account}
    /\ stage' = "post"
    /\ pc' = "plan"
    /\ UNCHANGED <<disk, classic, target, todo, held, uuid, starts, faults, newest, slips>>

LoadKeyFails ==
    /\ pc = "key"
    /\ pc' = "off"
    /\ UNCHANGED <<disk, classic, process, starts, faults, newest, accounts, slips>>

(* stamp_marker(): also when nothing could be written, the profile is open.*)
Stamped(m) ==
    [m EXCEPT !.version = target, !.reader = IF @ = 0 THEN MinReader ELSE @]

Stamp ==
    /\ pc = "stamp"
    /\ pc' = "open"
    /\ \/ Written(Stamped(ReadToUpdate)) /\ uuid' = ReadToUpdate.uuid
       \/ NotWritten /\ UNCHANGED uuid
    /\ UNCHANGED <<made, applied, classic, target, stage, todo, held, starts, newest, accounts,
                   slips>>

(* The process ends, at any step.                                          *)
Ends ==
    /\ pc # "off"
    /\ pc' = "off"
    /\ UNCHANGED <<disk, classic, process, starts, faults, newest, accounts, slips>>

(* Found damaged, with the uuid still legible in it or not.                *)
DamageMarker ==
    /\ pc = "off" /\ marker.form = "good" /\ Fault
    /\ \E u \in {marker.uuid, NoUuid} : marker' = Damaged(u)
    /\ slips' = IF copy.form = "good" /\ copy.uuid # marker.uuid
                THEN slips \cup {"uuid"} ELSE slips
    /\ UNCHANGED <<copy, made, applied, classic, pc, process, starts, newest, accounts>>

DamageCopy ==
    /\ pc = "off" /\ copy.form = "good" /\ Fault
    /\ copy' = Damaged(NoUuid)
    /\ UNCHANGED <<marker, made, applied, classic, pc, process, starts, newest, accounts, slips>>

Next ==
    \/ \E t \in Targets : Start(t)
    \/ PlanRefuses \/ PlanRuns
    \/ ApplyRung \/ RungFails \/ CommitRung \/ CommitFails
    \/ EnsureIdentity \/ LoadKey \/ LoadKeyFails \/ Stamp \/ Ends
    \/ DamageMarker \/ DamageCopy

Spec == Init /\ [][Next]_vars

-----------------------------------------------------------------------------
(* Properties.                                                             *)

Markers ==
    [form : {"missing", "damaged", "good"}, version : Nat, reader : Nat, uuid : Nat]

(* Types of the state.                                                     *)
TypeOK ==
    /\ marker \in Markers /\ copy \in Markers /\ held \in Markers
    /\ applied \subseteq Ladder /\ todo \subseteq Ladder
    /\ classic \in BOOLEAN /\ made \in BOOLEAN
    /\ target \in Nat /\ newest \in Nat /\ uuid \in Nat /\ accounts \subseteq Nat
    /\ starts \in Nat /\ faults \in Nat
    /\ pc \in {"off", "plan", "rung", "commit", "identity", "key", "stamp", "open"}
    /\ stage \in {"pre", "post"}
    /\ slips \subseteq {"version", "uuid", "zero"}

(* The version the marker or its copy would give the profile is one its    *)
(* data has been brought to: no interrupted, failed or repeated upgrade,   *)
(* in whatever order builds open the profile, leaves a migration behind    *)
(* that no later start would run.  Not so once a profile that has data was *)
(* opened with no marker to read, be it damaged, never written or written  *)
(* before there were any: no rung is run, and the version becomes that of  *)
(* the build that opens it (PlanProfileMigration()).                       *)
VersionEarned ==
    "version" \notin slips =>
        \A m \in {marker, copy} : \A r \in RunsHere : r < m.version => r \in applied

(* The account that holds the secret of the profile's key does not change, *)
(* whatever becomes of the marker or of its copy.  Not so once no legible  *)
(* uuid was left in either, one could not be written when it was made, or  *)
(* a copy stood in that was older than it.                                 *)
IdentityKept == "uuid" \notin slips => Cardinality(accounts) <= 1

(* "A truncated file after a power cut must not brick the application":    *)
(* the newest build that has opened a profile, and every newer one, still  *)
(* opens it (ProfileLoader::run_migrations()).                             *)
NotBricked == \A t \in Targets : t >= newest => ~Refused(t)

(* A profile is never refused by the newest build that has opened it, nor  *)
(* by a newer one, wherever those starts ended.  Not so once an identity   *)
(* made out in a damaged marker was written back: with version 0.          *)
StillOpens == "zero" \notin slips => NotBricked

=============================================================================
