---------------------------- MODULE DataObjects ----------------------------
(***************************************************************************)
(* The stored data objects of a profile, the keys a session opens them     *)
(* with, and the garbage collector that sets aside and later deletes what  *)
(* the session cannot use (core/function/DataObjectOperator.cpp; the key   *)
(* set from ProfileSecureKeyManager::Load()).                              *)
(*                                                                         *)
(* An object's file carries the id of the key it is sealed with.  A new    *)
(* operator posts one collection to the IO runner, where it works through  *)
(* the files while other threads store and remove objects.  What it has    *)
(* seen and when is kept in a state file, loaded when a run begins and     *)
(* written when it ends; a run that ends early writes nothing.             *)
(*                                                                         *)
(* Days are counted; a run is over within the day, and the 90 days after   *)
(* which the state file drops entries it no longer sees are not reached.   *)
(* The profile has one root key throughout (ProfileKey has the rest), and  *)
(* an object its own name.  Files of a save under way, which the collector *)
(* passes over, are left out with the badly named ones they would be.      *)
(***************************************************************************)
EXTENDS Naturals

CONSTANTS
    Refs,              \* the objects, by name in the order they are listed
    Settings,          \* those kept by a SettingsObject; the others are cache
    Days,              \* how many days there are
    PeriodDays,        \* days of a rotation period
    MissingGrace,      \* by policy: before an object without key is set aside
    QuarantineGrace,   \* by policy: before what is set aside is deleted
    None,              \* no file
    Damaged,           \* a file that names the root key and does not decrypt
    Short,             \* a file with no room for a key id and a text
    MaxFaults, MaxStores, MaxStarts

Policies == {"normal", "high"}
Levels == {"plain", "high", "rotating"}

ASSUME DataAssumption ==
    /\ Refs \subseteq Nat /\ Settings \subseteq Refs
    /\ Days \in Nat /\ PeriodDays \in Nat \ {0}
    /\ MissingGrace \in [Policies -> Nat]
    /\ QuarantineGrace \in [Policies -> Nat]
    /\ None # Damaged /\ None # Short /\ Damaged # Short
    /\ \A c \in {None, Damaged, Short} : c \notin Nat
    /\ MaxFaults \in Nat /\ MaxStores \in Nat /\ MaxStarts \in Nat

VARIABLES
    day,
    \* durable
    main,          \* data_objs/: what is in each file
    quarantine,    \* data_objs.quarantine/
    saved,         \* data_objs.gc.json
    keyFiles,      \* periods whose rotated key has a file
    \* the session
    level,         \* GFSecureLevel, "none" while no process runs
    held,          \* keys in the key set
    active,        \* ActiveKey(), as the operator was made with it
    stopping,      \* IsCoreShuttingDown()
    \* its collection
    gc,            \* "posted", "classify", "act", "sweep", "save", "done"
    todo,          \* files listed and not yet worked through
    pending,       \* objects that are not healthy, and why
    okSeen,        \* objects found healthy
    suspect,       \* key_set_suspect
    state,         \* ctx.state
    \* bounds
    faults, stores, starts,
    \* history
    fresh,         \* stored since this run looked at them
    moved,         \* set aside by this run
    movedAt,       \* the day the copy in quarantine was set aside
    unrecorded,    \* set aside by a run that did not save its state
    okDay,         \* the day a run that saved its state found it healthy
    lowered,       \* a session below the rotating level has followed one on it
    unwritten      \* periods whose key could not be written

files == <<main, quarantine>>
session == <<level, held, active, stopping>>
run == <<gc, todo, pending, okSeen, suspect, state>>
bounds == <<faults, stores, starts>>
history == <<fresh, moved, movedAt, unrecorded, okDay, lowered, unwritten>>
vars == <<day, files, saved, keyFiles, session, run, bounds, history>>

(* Keys: 0 is the root key, p the key rotated in for period p.             *)
Root == 0
Period == (day \div PeriodDays) + 1

NoDay == 0
NoEntry == [first |-> NoDay, at |-> NoDay, path |-> "none"]
EmptyState == [r \in Refs |-> NoEntry]
NoReason == [r \in Refs |-> "none"]

Up == level # "none"
Policy == IF level = "plain" THEN "normal" ELSE "high"

Present(dir) == {r \in Refs : dir[r] # None}
IsKey(c) == c \notin {None, Damaged, Short}
Readable(r) == IsKey(main[r]) /\ main[r] \in held

Init ==
    /\ day = 1
    /\ main = [r \in Refs |-> None] /\ quarantine = [r \in Refs |-> None]
    /\ saved = EmptyState /\ keyFiles = {}
    /\ level = "none" /\ held = {} /\ active = Root /\ stopping = FALSE
    /\ gc = "done" /\ todo = {} /\ pending = NoReason /\ okSeen = {}
    /\ suspect = FALSE /\ state = EmptyState
    /\ faults = 0 /\ stores = 0 /\ starts = 0
    /\ fresh = {} /\ moved = {} /\ movedAt = [r \in Refs |-> NoDay]
    /\ unrecorded = {} /\ okDay = [r \in Refs |-> NoDay]
    /\ lowered = FALSE /\ unwritten = {}

-----------------------------------------------------------------------------
(* Sessions.                                                               *)

(* Something fails that does not usually.                                  *)
Fault == faults < MaxFaults /\ faults' = faults + 1

(* Seeded fault: only the period's own key beside the root key.            *)
KeySetThisPeriod(l) == {Root} \cup (IF l = "rotating" THEN {Period} ELSE {})

(* ProfileSecureKeyManager::Load(): the root key; on the rotating level    *)
(* this period's key too, derived from it, and the keys of all the files.  *)
KeySet(l) == {Root} \cup (IF l = "rotating" THEN {Period} \cup keyFiles ELSE {})

(* A start loads the keys; a key new with this period is given a file, if  *)
(* it can be written.  Then the operator is made, and posts the            *)
(* collection.                                                             *)
Start(l) ==
    /\ ~Up /\ starts < MaxStarts
    /\ level' = l /\ stopping' = FALSE
    /\ held' = KeySet(l)
    /\ active' = IF l = "rotating" THEN Period ELSE Root
    /\ \/ l # "rotating" /\ UNCHANGED <<keyFiles, unwritten, faults>>
       \/ /\ l = "rotating"
          /\ keyFiles' = keyFiles \cup {Period}
          /\ unwritten' = unwritten \ {Period}
          /\ UNCHANGED faults
       \/ /\ l = "rotating" /\ Period \notin keyFiles
          /\ Fault
          /\ unwritten' = unwritten \cup {Period}
          /\ UNCHANGED keyFiles
    /\ lowered' = (lowered \/ (l # "rotating" /\ keyFiles \cup unwritten # {}))
    /\ gc' = "posted"
    /\ starts' = starts + 1
    /\ UNCHANGED <<day, files, saved, todo, pending, okSeen, suspect, state, stores,
                   fresh, moved, movedAt, unrecorded, okDay>>

(* DestroyGpgFrontendCore(), and the end of the process once the runner    *)
(* has nothing more to do; or its end at any moment.                       *)
Stop ==
    /\ Up /\ ~stopping
    /\ stopping' = TRUE
    /\ UNCHANGED <<day, files, saved, keyFiles, level, held, active, run, bounds, history>>

Ended ==
    /\ level' = "none" /\ held' = {} /\ active' = Root /\ stopping' = FALSE
    /\ gc' = "done" /\ todo' = {} /\ pending' = NoReason /\ okSeen' = {}
    /\ suspect' = FALSE /\ state' = EmptyState
    /\ fresh' = {} /\ moved' = {}
    /\ unrecorded' = unrecorded \cup moved

Exit ==
    /\ Up
    /\ Ended
    /\ UNCHANGED <<day, files, saved, keyFiles, bounds, movedAt, okDay, lowered, unwritten>>

NextDay ==
    /\ day < Days
    /\ gc \in {"posted", "done"}
    /\ day' = day + 1
    /\ UNCHANGED <<files, saved, keyFiles, session, run, bounds, history>>

-----------------------------------------------------------------------------
(* The users of the store.                                                 *)

(* write_encr_object(), sealed with the active key the operator was made   *)
(* with, over whatever is there.  A SettingsObject refuses in its          *)
(* destructor what it could not read when it was made, and offers          *)
(* StoreOverridingUnreadable() to write all the same; the cache writes     *)
(* what it holds.                                                          *)
Store(r) ==
    /\ Up /\ stores < MaxStores
    /\ main' = [main EXCEPT ![r] = active]
    /\ fresh' = fresh \cup {r}
    /\ stores' = stores + 1
    /\ UNCHANGED <<day, quarantine, saved, keyFiles, session, run, faults, starts,
                   moved, movedAt, unrecorded, okDay, lowered, unwritten>>

(* RemoveDataObj().                                                        *)
Remove(r) ==
    /\ Up /\ r \notin Settings /\ main[r] # None
    /\ main' = [main EXCEPT ![r] = None]
    /\ UNCHANGED <<day, quarantine, saved, keyFiles, session, run, bounds, history>>

(* The file is damaged from outside.  Its key is looked up before it is    *)
(* decrypted, so of those with a key id only one sealed with the root key, *)
(* which every session has, is told from a missing key for good.           *)
Damage(r, c) ==
    /\ IF c = Damaged THEN main[r] = Root ELSE IsKey(main[r])
    /\ Fault
    /\ main' = [main EXCEPT ![r] = c]
    /\ UNCHANGED <<day, quarantine, saved, keyFiles, session, run, stores, starts, history>>

-----------------------------------------------------------------------------
(* RunDataObjectGC(), on the IO runner.                                    *)

(* The state file is read, and the directory listed.                       *)
GcBegin ==
    /\ gc = "posted"
    /\ gc' = "classify"
    /\ todo' = Present(main)
    /\ state' = saved
    /\ UNCHANGED <<day, files, saved, keyFiles, session, pending, okSeen, suspect,
                   bounds, history>>

(* Files are taken in the order of their names.                            *)
IsFirst(r) == r \in todo /\ \A q \in todo : r <= q

(* Seeded fault: an object is expected to be sealed with the active key.   *)
HealthByActiveKey(r) ==
    CASE main[r] = None -> "read_failed"
      [] main[r] = Short -> "short"
      [] main[r] = Damaged -> "decrypt_failed"
      [] main[r] = active -> "ok"
      [] OTHER -> "missing_key"

(* CheckDataObjectByRef().                                                 *)
Health(r) ==
    CASE main[r] = None -> "read_failed"
      [] main[r] = Short -> "short"
      [] main[r] = Damaged -> "decrypt_failed"
      [] Readable(r) -> "ok"
      [] OTHER -> "missing_key"

(* ClassifyDataObjects(): a healthy object clears what was noted of it,    *)
(* the others wait until all have been looked at.                          *)
GcClassify(r) ==
    /\ gc = "classify" /\ IsFirst(r)
    /\ todo' = todo \ {r}
    /\ IF Health(r) = "ok"
       THEN /\ okSeen' = okSeen \cup {r}
            /\ state' = [state EXCEPT ![r] = NoEntry]
            /\ UNCHANGED pending
       ELSE /\ pending' = [pending EXCEPT ![r] = Health(r)]
            /\ UNCHANGED <<okSeen, state>>
    /\ fresh' = fresh \ {r}
    /\ UNCHANGED <<day, files, saved, keyFiles, session, gc, suspect, bounds,
                   moved, movedAt, unrecorded, okDay, lowered, unwritten>>

(* IsWholesaleKeyFailure(): objects without their key, and none healthy.   *)
GcClassified ==
    /\ gc = "classify" /\ todo = {}
    /\ gc' = "act"
    /\ todo' = {r \in Refs : pending[r] # "none"}
    /\ suspect' = (okSeen = {} /\ \E r \in Refs : pending[r] = "missing_key")
    /\ UNCHANGED <<day, files, saved, keyFiles, session, pending, okSeen, state,
                   bounds, history>>

(* What MaybeQuarantineOrDelete() notes first.                             *)
Item(r, path) ==
    [first |-> IF state[r] = NoEntry THEN day ELSE state[r].first,
     at |-> state[r].at, path |-> path]

(* IsDeleteAllowed(), by the policy of this run.                           *)
DeleteAllowed(health) ==
    \/ health = "short"
    \/ health = "missing_key" /\ ~suspect
    \/ health = "decrypt_failed" /\ Policy = "high"

(* Seeded fault: the wait is a day short.                                  *)
WaitsADayLess(r) ==
    /\ pending[r] = "missing_key"
    /\ day - Item(r, "main").first + 1 < MissingGrace[Policy]

(* Only a missing key is waited for.                                       *)
Waits(r) ==
    /\ pending[r] = "missing_key"
    /\ day - Item(r, "main").first < MissingGrace[Policy]

(* MaybeQuarantineOrDelete() of an object in its place: passed over if it  *)
(* is gone; noted and left, if it is not allowed to go or has to wait;     *)
GcKeep(r) ==
    /\ gc = "act" /\ IsFirst(r) /\ ~stopping
    /\ main[r] = None \/ ~DeleteAllowed(pending[r]) \/ Waits(r)
    /\ todo' = todo \ {r}
    /\ state' = IF main[r] = None THEN state ELSE [state EXCEPT ![r] = Item(r, "main")]
    /\ UNCHANGED <<day, files, saved, keyFiles, session, gc, pending, okSeen, suspect,
                   bounds, history>>

MayMove(r) ==
    /\ gc = "act" /\ IsFirst(r) /\ ~stopping
    /\ main[r] # None /\ DeleteAllowed(pending[r]) /\ ~Waits(r)

(* or else the file that is there now is moved, over one set aside earlier;*)
GcMove(r) ==
    /\ MayMove(r)
    /\ todo' = todo \ {r}
    /\ quarantine' = [quarantine EXCEPT ![r] = main[r]]
    /\ main' = [main EXCEPT ![r] = None]
    /\ state' = [state EXCEPT ![r] = [Item(r, "main") EXCEPT !.at = day]]
    /\ moved' = moved \cup {r}
    /\ movedAt' = [movedAt EXCEPT ![r] = day]
    /\ UNCHANGED <<day, saved, keyFiles, session, gc, pending, okSeen, suspect, bounds,
                   fresh, unrecorded, okDay, lowered, unwritten>>

(* or cannot be: MoveFileReplacing() stops before it has done anything,    *)
(* with the earlier one removed, or with a copy made.                      *)
GcMoveFails(r) ==
    /\ MayMove(r)
    /\ Fault
    /\ todo' = todo \ {r}
    /\ \/ UNCHANGED <<quarantine, movedAt, unrecorded>>
       \/ /\ quarantine' = [quarantine EXCEPT ![r] = None]
          /\ UNCHANGED <<movedAt, unrecorded>>
       \/ /\ quarantine' = [quarantine EXCEPT ![r] = main[r]]
          /\ movedAt' = [movedAt EXCEPT ![r] = day]
          /\ unrecorded' = unrecorded \cup {r}
    /\ state' = [state EXCEPT ![r] = Item(r, "main")]
    /\ UNCHANGED <<day, main, saved, keyFiles, session, gc, pending, okSeen, suspect,
                   stores, starts, fresh, moved, okDay, lowered, unwritten>>

(* The core is shutting down: the run returns, and saves nothing.          *)
GcAbandon ==
    /\ gc = "act" /\ todo # {} /\ stopping
    /\ gc' = "done"
    /\ todo' = {} /\ pending' = NoReason /\ okSeen' = {} /\ suspect' = FALSE
    /\ state' = EmptyState
    /\ unrecorded' = unrecorded \cup moved /\ moved' = {}
    /\ UNCHANGED <<day, files, saved, keyFiles, session, bounds, fresh, movedAt, okDay,
                   lowered, unwritten>>

(* Seeded fault: the sweep of a run with a suspect key set.                *)
GcActedAnyway ==
    /\ gc = "act" /\ todo = {}
    /\ gc' = "sweep"
    /\ todo' = Present(quarantine)
    /\ UNCHANGED <<day, files, saved, keyFiles, session, pending, okSeen, suspect, state,
                   bounds, history>>

(* The sweep of what was set aside, skipped if the key set is suspect.     *)
GcActed ==
    /\ gc = "act" /\ todo = {}
    /\ gc' = "sweep"
    /\ todo' = IF suspect THEN {} ELSE Present(quarantine)
    /\ UNCHANGED <<day, files, saved, keyFiles, session, pending, okSeen, suspect, state,
                   bounds, history>>

(* Seeded fault: counted from when the object was first seen unusable.     *)
SinceFirstSeen(item) == item.first

(* Since when a file has been set aside, as far as the state file knows.   *)
Since(item) == IF item.at # NoDay THEN item.at ELSE item.first

GcSweep(r) ==
    /\ gc = "sweep" /\ IsFirst(r)
    /\ todo' = todo \ {r}
    /\ \/ /\ state' = [state EXCEPT ![r] = Item(r, "quarantine")]   \* waiting, or not deleted
          /\ UNCHANGED <<quarantine, unrecorded>>
       \/ /\ day - Since(Item(r, "quarantine")) >= QuarantineGrace[Policy]
          /\ quarantine' = [quarantine EXCEPT ![r] = None]
          /\ state' = [state EXCEPT ![r] = NoEntry]
          /\ unrecorded' = unrecorded \ {r}
    /\ UNCHANGED <<day, main, saved, keyFiles, session, gc, pending, okSeen, suspect,
                   bounds, fresh, moved, movedAt, okDay, lowered, unwritten>>

(* CompactGcState(): entries without a file, and those of an object that   *)
(* is healthy in its place, go.                                            *)
Compacted ==
    [r \in Refs |->
        LET here == \/ state[r].path = "main" /\ main[r] # None
                    \/ state[r].path = "quarantine" /\ quarantine[r] # None
            aside == state[r].at # NoDay /\ quarantine[r] # None
        IN  IF (here \/ aside) /\ ~(here /\ Readable(r)) THEN state[r] ELSE NoEntry]

(* SaveOrRemoveGcState(), and the run is over.                             *)
GcSave ==
    /\ gc = "sweep" /\ todo = {}
    /\ gc' = "done"
    /\ \/ /\ saved' = Compacted /\ UNCHANGED faults
          /\ okDay' = [r \in Refs |-> IF r \in okSeen THEN day ELSE okDay[r]]
          /\ unrecorded' = unrecorded \ moved
       \/ /\ Fault /\ UNCHANGED <<saved, okDay>>   \* the file cannot be opened
          /\ unrecorded' = unrecorded \cup moved
    /\ pending' = NoReason /\ okSeen' = {} /\ suspect' = FALSE /\ state' = EmptyState
    /\ moved' = {}
    /\ UNCHANGED <<day, files, keyFiles, session, todo, stores, starts, fresh, movedAt, lowered,
                   unwritten>>

(* The file is truncated and written in place: a crash between the two     *)
(* leaves one that does not parse.                                         *)
GcTornSave ==
    /\ gc = "sweep" /\ todo = {}
    /\ Fault
    /\ saved' = EmptyState
    /\ Ended
    /\ UNCHANGED <<day, files, keyFiles, stores, starts, movedAt, okDay, lowered, unwritten>>

GcStep ==
    \/ GcBegin \/ GcClassified \/ GcAbandon \/ GcActed \/ GcSave \/ GcTornSave
    \/ \E r \in Refs : GcClassify(r) \/ GcKeep(r) \/ GcMove(r) \/ GcMoveFails(r) \/ GcSweep(r)

Next ==
    \/ \E l \in Levels : Start(l)
    \/ Stop \/ Exit \/ NextDay
    \/ \E r \in Refs : Store(r) \/ Remove(r) \/ \E c \in {Damaged, Short} : Damage(r, c)
    \/ GcStep

Spec == Init /\ [][Next]_vars

-----------------------------------------------------------------------------
(* Properties.                                                             *)

Contents == Nat \cup {None, Damaged, Short}
Entries == [first : 0 .. day, at : 0 .. day, path : {"none", "main", "quarantine"}]

(* Types of the state.                                                     *)
TypeOK ==
    /\ day \in Nat \ {0}
    /\ main \in [Refs -> Contents] /\ quarantine \in [Refs -> Contents]
    /\ saved \in [Refs -> Entries] /\ state \in [Refs -> Entries]
    /\ keyFiles \subseteq Nat /\ held \subseteq Nat /\ active \in Nat
    /\ level \in Levels \cup {"none"} /\ stopping \in BOOLEAN
    /\ gc \in {"posted", "classify", "act", "sweep", "done"}
    /\ todo \subseteq Refs /\ okSeen \subseteq Refs /\ suspect \in BOOLEAN
    /\ pending \in [Refs -> {"none", "read_failed", "short", "decrypt_failed", "missing_key"}]
    /\ fresh \subseteq Refs /\ moved \subseteq Refs /\ unrecorded \subseteq Refs
    /\ movedAt \in [Refs -> 0 .. day] /\ okDay \in [Refs -> 0 .. day]
    /\ lowered \in BOOLEAN /\ unwritten \subseteq Nat

(* This step takes r out of its place; ends a copy of it that was in       *)
(* quarantine, by the sweep or by a move that removes it to make room      *)
(* (MoveFileReplacing()); the sweep deletes it.                            *)
SetAside(r) == gc = "act" /\ r \in moved' \ moved
Destroyed(r) == quarantine[r] # None /\ <<quarantine[r], movedAt[r]>>' # <<quarantine[r], movedAt[r]>>
Swept(r) == gc = "sweep" /\ quarantine[r] # None /\ quarantine'[r] = None

(* This step gives up a copy in quarantine for the file that is in place   *)
(* under the same name now, which is still there afterwards or has taken   *)
(* its place.                                                              *)
MadeRoom(r) ==
    /\ gc = "act" /\ r \in todo
    /\ main[r] # None /\ main[r] \in {main'[r], quarantine'[r]}

(* The collector looks at an object and acts on it later.  One the session *)
(* can read is set aside only if it was stored in between.                 *)
ReadableKept ==
    [][\A r \in Refs : SetAside(r) /\ Readable(r) => r \in fresh]_vars

(* An object is not set aside for want of its key within the grace period  *)
(* after a run found it healthy, through whatever sessions, key sets and   *)
(* lost state files lie between.                                           *)
MissingWaits ==
    [][\A r \in Refs : SetAside(r) /\ pending[r] = "missing_key"
          => day - okDay[r] >= MissingGrace[Policy]]_vars

(* What was set aside stays for the quarantine's grace period, whoever     *)
(* steps, provided the run that set it aside could save its state; except  *)
(* that a later file of the same name, set aside in its turn, takes its    *)
(* place at once, and is itself not lost by that (DataObjectOperator.cpp,  *)
(* MoveFileReplacing() and the quarantine branch of                        *)
(* MaybeQuarantineOrDelete()).                                             *)
GraceKept ==
    [][\A r \in Refs \ unrecorded : Destroyed(r)
          => MadeRoom(r) \/ day - movedAt[r] >= QuarantineGrace[Policy]]_vars

(* What a run that takes the key set for broken says in its log of the     *)
(* sweep it skips: "quarantined objects are left untouched".  It still     *)
(* moves files too short or, on the higher levels, not decrypting, over    *)
(* what was set aside under their names.                                   *)
UntouchedWhenSuspect ==
    [][suspect => \A r \in Refs : ~Destroyed(r)]_vars

(* A run that found no object it can read, and some without their key,     *)
(* leaves those where they are and deletes nothing set aside earlier       *)
(* (IsWholesaleKeyFailure()).                                              *)
KeyFailureSpares ==
    [][\A r \in Refs :
          /\ SetAside(r) /\ pending[r] = "missing_key" => okSeen # {}
          /\ Swept(r) => okSeen # {} \/ \A q \in Refs : pending[q] # "missing_key"]_vars

(* Staying on a level or raising it is safe (the comment at                *)
(* ShouldWarnRotationDowngrade()): unless the rotating level was left, or  *)
(* a rotated key could not be written, every session has the key of every  *)
(* object, whatever periods and interrupted sessions lie between.          *)
StayingPutIsSafe ==
    ~lowered /\ unwritten = {} /\ Up => \A r \in Refs : main[r] \in Nat => main[r] \in held

=============================================================================
