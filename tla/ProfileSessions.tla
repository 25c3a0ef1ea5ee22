-------------------------- MODULE ProfileSessions --------------------------
(***************************************************************************)
(* Sessions on profile packages: the lock, the anchor directory it lies    *)
(* in, and the tree a package is unpacked to (core/profile/ProfileLock.cpp,*)
(* ProfileLoader::Mount(), TransientProfile in Profile.cpp,                *)
(* ProtectedFsProfileAccessor.cpp, ProfilePackage.cpp,                     *)
(* ProfileSession::Unload()).                                              *)
(*                                                                         *)
(* Where the anchor is follows from the package's path, so every process   *)
(* comes to the same one; the lock file in it says whose it is.  Where the *)
(* tree is, is chosen at each start, by the policy, the environment and    *)
(* the room there is: in memory, in a temporary folder, or, when nothing   *)
(* else will do, in the anchor itself.  A pointer in the anchor says where *)
(* it went, for a later process to remove what a crashed one left; a tree  *)
(* in the anchor is known by its profile marker.                           *)
(*                                                                         *)
(* QLockFile is external.  A lock whose process has ended is taken over,   *)
(* one whose process runs is not, forced or not: the system refuses to     *)
(* remove it.  A directory is removed whatever lock file lies in it, and   *)
(* unlocking removes the file of that name, whoever made it.               *)
(*                                                                         *)
(* A profile's contents are the set of the starts that changed it, with 0  *)
(* for the package as it came; an empty directory holds nothing.  The keys *)
(* of an encrypted directory are left out.                                 *)
(***************************************************************************)
EXTENDS Naturals

CONSTANTS
    Processes, Packages,
    Bases, Anchor,     \* where a tree can be; the package's anchor is one place
    None, Dead,        \* no file; the lock of a process that has ended
    NoPackage,
    MaxStarts, MaxFaults

ASSUME SessionsAssumption ==
    /\ None # Dead /\ None \notin Processes /\ Dead \notin Processes
    /\ Anchor \in Bases /\ None \notin Bases
    /\ NoPackage \notin Packages
    /\ MaxStarts \in Nat /\ MaxFaults \in Nat

VARIABLES
    \* on disk, by package
    lock,          \* profile.lock: None, Dead, or the process that made it
    pointer,       \* session.json: the base it names
    marked,        \* there is a profile marker in the anchor
    tree,          \* the unpacked profile, by base
    package,       \* the package itself
    \* processes
    pc,
    opens,         \* the package given on the command line
    nth,           \* which start this is
    base,          \* where storage_ is, None while it is null
    settled,       \* g_session_write_back_settled
    packed,        \* what a package being written was made of
    sweeps,        \* directories the sweep has still to look at
    swept,         \* the one it works on
    aimed,         \* the base the pointer there named when it was read
    \* bounds
    starts, faults,
    \* history
    torn,          \* locked by one process while another was taking it apart
    unnamed        \* trees whose name was not written, or went before them

disk == <<lock, pointer, marked, tree, package>>
sweeper == <<sweeps, swept, aimed>>
process == <<pc, opens, nth, base, settled, packed, sweeper>>
bounds == <<starts, faults>>
history == <<torn, unnamed>>
vars == <<disk, process, bounds, history>>

(* From the lock to its release.                                           *)
Holding == {"sweep", "sweep_probe", "sweep_tree", "sweep_anchor", "mount", "unpack",
            "adopt", "failed", "opening", "open", "saving", "unmount", "unlock",
            "unlock_kept"}

(* Its own package's tree or anchor, with the lock given back or its file  *)
(* gone.                                                                   *)
Leaving == {"failed_late", "discard", "discard_anchor", "rest", "unlock_late",
            "unlock_retry", "retry"}

Has(p, k) == pc[p] \in Holding /\ opens[p] = k

Init ==
    /\ lock = [k \in Packages |-> None]
    /\ pointer = [k \in Packages |-> None]
    /\ marked = [k \in Packages |-> FALSE]
    /\ tree = [k \in Packages |-> [b \in Bases |-> {}]]
    /\ package = [k \in Packages |-> {0}]
    /\ pc = [p \in Processes |-> "off"]
    /\ opens = [p \in Processes |-> NoPackage]
    /\ nth = [p \in Processes |-> 0]
    /\ base = [p \in Processes |-> None]
    /\ settled = [p \in Processes |-> FALSE]
    /\ packed = [p \in Processes |-> {}]
    /\ sweeps = [p \in Processes |-> {}]
    /\ swept = [p \in Processes |-> NoPackage]
    /\ aimed = [p \in Processes |-> None]
    /\ starts = 0 /\ faults = 0
    /\ torn = {} /\ unnamed = {}

Goto(p, l) == pc' = [pc EXCEPT ![p] = l]

(* Something fails that does not usually.                                  *)
Fault == faults < MaxFaults /\ faults' = faults + 1

(* p removes k's tree or anchor, and does not hold its lock.               *)
TakesApart(p, k) ==
    \/ pc[p] \in Leaving /\ opens[p] = k
    \/ pc[p] \in {"sweep_tree", "sweep_anchor"} /\ swept[p] = k

(* The tree elsewhere that the anchor's pointer names, when that goes.     *)
Lost(k) == {k} \X ({pointer[k]} \ {None, Anchor})

(* The root of k's storage is left with c in it, and of the anchor's files *)
(* only the lock; the tree in base done is known to be gone.               *)
ClearRoot(k, b, c, done) ==
    /\ tree' = [tree EXCEPT ![k][b] = c]
    /\ IF b = Anchor
       THEN /\ pointer' = [pointer EXCEPT ![k] = None]
            /\ marked' = [marked EXCEPT ![k] = FALSE]
            /\ unnamed' = unnamed \cup (Lost(k) \ {<<k, done>>})
                            \cup (IF c = {} THEN {} ELSE {<<k, Anchor>>})
       ELSE UNCHANGED <<pointer, marked, unnamed>>

(* The root goes; the anchor's goes with the lock file.                    *)
RemoveRoot(k, b, done) ==
    /\ ClearRoot(k, b, {}, done)
    /\ lock' = IF b = Anchor THEN [lock EXCEPT ![k] = None] ELSE lock

Start(p, k) ==
    /\ pc[p] = "off" /\ starts < MaxStarts
    /\ Goto(p, "lock")
    /\ opens' = [opens EXCEPT ![p] = k]
    /\ starts' = starts + 1
    /\ nth' = [nth EXCEPT ![p] = starts + 1]
    /\ base' = [base EXCEPT ![p] = None]
    /\ settled' = [settled EXCEPT ![p] = FALSE]
    /\ packed' = [packed EXCEPT ![p] = {}]
    /\ UNCHANGED <<disk, sweeper, faults, history>>

-----------------------------------------------------------------------------
(* The lock.                                                               *)

Free(k) == lock[k] \in {None, Dead}

(* Seeded fault: forcing takes a lock from a process that runs.            *)
AcquireLockForced(p) ==
    /\ pc[p] = "lock"
    /\ lock' = [lock EXCEPT ![opens[p]] = p]
    /\ Goto(p, "sweep")
    /\ sweeps' = [sweeps EXCEPT ![p] = Packages \ {opens[p]}]
    /\ UNCHANGED <<pointer, marked, tree, package, opens, nth, base, settled, packed, swept,
                   aimed, bounds, history>>

(* acquire_lock(): at once, within the wait, after the question, or by     *)
(* force, which removes only a lock nobody holds.  The sweep then lists    *)
(* the other directories.                                                  *)
AcquireLock(p) ==
    /\ pc[p] = "lock" /\ Free(opens[p])
    /\ lock' = [lock EXCEPT ![opens[p]] = p]
    /\ Goto(p, "sweep")
    /\ sweeps' = [sweeps EXCEPT ![p] = Packages \ {opens[p]}]
    /\ torn' = IF \E q \in Processes : TakesApart(q, opens[p])
               THEN torn \cup {opens[p]} ELSE torn
    /\ UNCHANGED <<pointer, marked, tree, package, opens, nth, base, settled, packed, swept,
                   aimed, bounds, unnamed>>

(* Declined, or held even so: kCANCELLED, kALREADY_OPEN.                   *)
LockRefused(p) ==
    /\ pc[p] = "lock" /\ ~Free(opens[p])
    /\ Goto(p, "off")
    /\ UNCHANGED <<disk, opens, nth, base, settled, packed, sweeper, bounds, history>>

-----------------------------------------------------------------------------
(* SweepTransientProfileRoots().                                           *)

(* One directory: its pointer is read, if it has one; with neither pointer *)
(* nor marker it is no session, and passed over.                           *)
SweepRead(p, k) ==
    /\ pc[p] = "sweep" /\ k \in sweeps[p]
    /\ sweeps' = [sweeps EXCEPT ![p] = @ \ {k}]
    /\ IF pointer[k] # None \/ marked[k]
       THEN /\ swept' = [swept EXCEPT ![p] = k]
            /\ aimed' = [aimed EXCEPT ![p] = pointer[k]]
            /\ Goto(p, "sweep_probe")
       ELSE UNCHANGED <<swept, aimed, pc>>
    /\ UNCHANGED <<disk, opens, nth, base, settled, packed, bounds, history>>

(* Seeded fault: the lock is not looked at.                                *)
SweepProbeUnlocked(p) ==
    /\ pc[p] = "sweep_probe"
    /\ Goto(p, "sweep_tree")
    /\ UNCHANGED <<disk, opens, nth, base, settled, packed, sweeper, bounds, history>>

(* ProfileLock::Probe(): passed over if its lock is held; else the probe   *)
(* takes the lock and gives it back.                                       *)
SweepProbe(p) ==
    LET k == swept[p] IN
    /\ pc[p] = "sweep_probe"
    /\ IF Free(k)
       THEN lock' = [lock EXCEPT ![k] = None] /\ Goto(p, "sweep_tree")
       ELSE UNCHANGED lock /\ Goto(p, "sweep")
    /\ UNCHANGED <<pointer, marked, tree, package, opens, nth, base, settled, packed, sweeper,
                   bounds, history>>

Elsewhere == Bases \ {Anchor}

(* Seeded fault: what would not go is left behind.                         *)
SweepTreeRegardless(p) ==
    /\ pc[p] = "sweep_tree"
    /\ Goto(p, "sweep_anchor")
    /\ \/ aimed[p] \in Elsewhere /\ tree' = [tree EXCEPT ![swept[p]][aimed[p]] = {}]
       \/ UNCHANGED tree
    /\ UNCHANGED <<lock, pointer, marked, package, opens, nth, base, settled, packed, sweeper,
                   bounds, history>>

(* ReleaseStrandedSessionStorage() of the pointer that was read; a tree    *)
(* that cannot be removed keeps its anchor.                                *)
SweepTree(p) ==
    LET k == swept[p] IN
    /\ pc[p] = "sweep_tree"
    /\ \/ /\ aimed[p] \in Elsewhere
          /\ tree' = [tree EXCEPT ![k][aimed[p]] = {}]
          /\ Goto(p, "sweep_anchor")
          /\ UNCHANGED faults
       \/ /\ aimed[p] \in Elsewhere /\ tree[k][aimed[p]] # {}
          /\ Fault
          /\ Goto(p, "sweep")
          /\ UNCHANGED tree
       \/ /\ aimed[p] \notin Elsewhere
          /\ Goto(p, "sweep_anchor")
          /\ UNCHANGED <<tree, faults>>
    /\ UNCHANGED <<lock, pointer, marked, package, opens, nth, base, settled, packed, sweeper,
                   starts, history>>

SweepAnchor(p) ==
    /\ pc[p] = "sweep_anchor"
    /\ RemoveRoot(swept[p], Anchor, aimed[p])
    /\ Goto(p, "sweep")
    /\ UNCHANGED <<package, opens, nth, base, settled, packed, sweeper, bounds, torn>>

Swept(p) ==
    /\ pc[p] = "sweep" /\ sweeps[p] = {}
    /\ Goto(p, "mount")
    /\ UNCHANGED <<disk, opens, nth, base, settled, packed, sweeper, bounds, history>>

-----------------------------------------------------------------------------
(* mount_package().                                                        *)

(* ProvisionStorage(): a place is chosen, once, and its directory made,    *)
(* unless it is there.  The pointer is written, over the one of an earlier *)
(* session; that it could not be is only logged.                           *)
Provision(p, b) ==
    LET k == opens[p] IN
    /\ pc[p] = "mount" /\ base[p] \in {None, b}
    /\ base' = [base EXCEPT ![p] = b]
    /\ \/ /\ pointer' = [pointer EXCEPT ![k] = b]
          /\ unnamed' = (unnamed \cup Lost(k)) \ {<<k, b>>}
          /\ UNCHANGED faults
       \/ /\ Fault
          /\ unnamed' = IF pointer[k] = b THEN unnamed ELSE unnamed \cup {<<k, b>>}
          /\ UNCHANGED pointer
    /\ Goto(p, "unpack")
    /\ UNCHANGED <<lock, marked, tree, package, opens, nth, settled, packed, sweeper, starts,
                   torn>>

(* MakeProfileAccessorFor(): the protection asked for did not come about,  *)
(* and the directory is given back.                                        *)
Downgraded(p, b) ==
    /\ pc[p] = "mount" /\ base[p] = None /\ b # Anchor
    /\ tree' = [tree EXCEPT ![opens[p]][b] = {}]
    /\ Goto(p, "failed")
    /\ UNCHANGED <<lock, pointer, marked, package, opens, nth, base, settled, packed, sweeper,
                   bounds, history>>

(* OpenPackageSession(): what is in the root is cleared, in the anchor its *)
(* pointer too, and the package unpacked into a scratch folder there,      *)
Unpack(p) ==
    /\ pc[p] = "unpack"
    /\ ClearRoot(opens[p], base[p], package[opens[p]], None)
    /\ Goto(p, "adopt")
    /\ UNCHANGED <<lock, package, opens, nth, base, settled, packed, sweeper, bounds, torn>>

(* or not: the passphrase was wrong and is asked for again, or the package *)
(* cannot be read.                                                         *)
UnpackFails(p) ==
    /\ pc[p] = "unpack"
    /\ ClearRoot(opens[p], base[p], {}, None)
    /\ Goto(p, "mount") \/ Goto(p, "failed")
    /\ UNCHANGED <<lock, package, opens, nth, base, settled, packed, sweeper, bounds, torn>>

(* It is moved into place, and is a profile with its marker.               *)
Adopt(p) ==
    LET k == opens[p] IN
    /\ pc[p] = "adopt"
    /\ IF base[p] = Anchor
       THEN /\ marked' = [marked EXCEPT ![k] = TRUE]
            /\ unnamed' = unnamed \ {<<k, Anchor>>}
       ELSE UNCHANGED <<marked, unnamed>>
    /\ Goto(p, "opening")
    /\ UNCHANGED <<lock, pointer, tree, package, opens, nth, base, settled, packed, sweeper,
                   bounds, torn>>

(* The package is not one, the passphrase is not given, storage is refused,*)
(* or what was unpacked cannot be moved.                                   *)
MountFails(p) ==
    /\ pc[p] \in {"mount", "adopt"}
    /\ Goto(p, "failed")
    /\ UNCHANGED <<disk, opens, nth, base, settled, packed, sweeper, bounds, history>>

(* seal_extracted_key() fails, and the tree does not get to exist.         *)
SealFails(p) ==
    /\ pc[p] = "opening"
    /\ RemoveRoot(opens[p], base[p], None)
    /\ Goto(p, IF base[p] = Anchor THEN "failed_late" ELSE "failed")
    /\ UNCHANGED <<package, opens, nth, base, settled, packed, sweeper, bounds, torn>>

(* Unlocking removes the lock file.                                        *)
Unlock(p, l) ==
    /\ lock' = [lock EXCEPT ![opens[p]] = None]
    /\ Goto(p, l)
    /\ UNCHANGED <<pointer, marked, tree, package, opens, nth, base, settled, packed, sweeper,
                   bounds, history>>

(* Mount() then lets go of the lock,                                       *)
FailedUnlock(p) == pc[p] \in {"failed", "failed_late"} /\ Unlock(p, "discard")

(* and after that DiscardSessionStorage() removes the tree, if there is    *)
(* storage,                                                                *)
DiscardTree(p) ==
    /\ pc[p] = "discard"
    /\ \/ base[p] # None /\ RemoveRoot(opens[p], base[p], None)
       \/ base[p] = None /\ UNCHANGED <<lock, pointer, marked, tree, unnamed>>
    /\ Goto(p, "discard_anchor")
    /\ UNCHANGED <<package, opens, nth, base, settled, packed, sweeper, bounds, torn>>

(* and the anchor.                                                         *)
DiscardAnchor(p) ==
    /\ pc[p] = "discard_anchor"
    /\ RemoveRoot(opens[p], Anchor, base[p])
    /\ Goto(p, "off")
    /\ UNCHANGED <<package, opens, nth, base, settled, packed, sweeper, bounds, torn>>

-----------------------------------------------------------------------------
(* The session.                                                            *)

(* Open() succeeds; or it does not, and the session is given back.         *)
Opened(p) ==
    /\ pc[p] = "opening"
    /\ Goto(p, "open") \/ Goto(p, "unmount")
    /\ UNCHANGED <<disk, opens, nth, base, settled, packed, sweeper, bounds, history>>

(* The profile is changed, where it still is.                              *)
Change(p) ==
    LET k == opens[p] IN
    /\ pc[p] = "open"
    /\ tree[k][base[p]] # {} /\ nth[p] \notin tree[k][base[p]]
    /\ tree' = [tree EXCEPT ![k][base[p]] = @ \cup {nth[p]}]
    /\ UNCHANGED <<lock, pointer, marked, package, pc, opens, nth, base, settled, packed,
                   sweeper, bounds, history>>

(* The window is to close, and what changed to be saved, which is asked    *)
(* until it is settled (MaybeWriteBackPackageSession()): a package is made *)
(* of what the tree holds, refused if the tree is not there                *)
(* (ExportProfilePackage()),                                               *)
Pack(p) ==
    LET held == tree[opens[p]][base[p]] IN
    /\ pc[p] = "open" /\ ~settled[p] /\ held # {}
    /\ packed' = [packed EXCEPT ![p] = held]
    /\ Goto(p, "saving")
    /\ UNCHANGED <<disk, opens, nth, base, settled, sweeper, bounds, history>>

(* and replaces the one there was; or it cannot be written.  The window    *)
(* closes after that, or a tab keeps it open.                              *)
WriteBack(p) ==
    LET k == opens[p] IN
    /\ pc[p] = "saving"
    /\ \/ /\ package' = [package EXCEPT ![k] = packed[p]]
          /\ settled' = [settled EXCEPT ![p] = TRUE]
       \/ UNCHANGED <<package, settled>>
    /\ packed' = [packed EXCEPT ![p] = {}]
    /\ Goto(p, "open")
    /\ UNCHANGED <<lock, pointer, marked, tree, opens, nth, base, sweeper, bounds, history>>

(* The window closes: saved, or discarded.                                 *)
Close(p) ==
    /\ pc[p] = "open"
    /\ settled' = [settled EXCEPT ![p] = TRUE]
    /\ Goto(p, "unmount")
    /\ UNCHANGED <<disk, opens, nth, base, packed, sweeper, bounds, history>>

(* Unload(): the tree, and then the lock.                                  *)
Unmount(p) ==
    /\ pc[p] = "unmount" /\ base[p] # Anchor
    /\ RemoveRoot(opens[p], base[p], None)
    /\ Goto(p, "unlock")
    /\ UNCHANGED <<package, opens, nth, base, settled, packed, sweeper, bounds, torn>>

(* Files go by their names.  In the anchor the lock file is one of them,   *)
(* and goes before what comes after it,                                    *)
UnmountAnchor(p) ==
    /\ pc[p] = "unmount" /\ base[p] = Anchor
    /\ lock' = [lock EXCEPT ![opens[p]] = None]
    /\ Goto(p, "rest")
    /\ UNCHANGED <<pointer, marked, tree, package, opens, nth, base, settled, packed, sweeper,
                   bounds, history>>

UnmountRest(p) ==
    /\ pc[p] = "rest"
    /\ RemoveRoot(opens[p], Anchor, None)
    /\ \/ Goto(p, "unlock_late") /\ UNCHANGED faults
       \/ Goto(p, "unlock_retry") /\ Fault
    /\ UNCHANGED <<package, opens, nth, base, settled, packed, sweeper, starts, torn>>

(* Something in the tree would not go, as the lock file itself where open  *)
(* files stay: what it held is overwritten,                                *)
UnmountKept(p) ==
    /\ pc[p] = "unmount"
    /\ \/ base[p] = Anchor /\ UNCHANGED faults
       \/ tree[opens[p]][base[p]] # {} /\ Fault
    /\ ClearRoot(opens[p], base[p], {}, None)
    /\ Goto(p, "unlock_kept")
    /\ UNCHANGED <<lock, package, opens, nth, base, settled, packed, sweeper, starts, torn>>

Unload(p) ==
    \/ pc[p] \in {"unlock", "unlock_late"} /\ Unlock(p, "off")
    \/ pc[p] \in {"unlock_kept", "unlock_retry"} /\ Unlock(p, "retry")

(* and its destructor tries once more.                                     *)
RetryRemove(p) ==
    /\ pc[p] = "retry"
    /\ RemoveRoot(opens[p], base[p], None)
    /\ Goto(p, "off")
    /\ UNCHANGED <<package, opens, nth, base, settled, packed, sweeper, bounds, torn>>

(* The process ends where it is.  Its lock file stays.                     *)
Crash(p) ==
    /\ pc[p] # "off"
    /\ Fault
    /\ Goto(p, "off")
    /\ lock' = [k \in Packages |-> IF lock[k] = p THEN Dead ELSE lock[k]]
    /\ UNCHANGED <<pointer, marked, tree, package, opens, nth, base, settled, packed, sweeper,
                   starts, history>>

Next ==
    \E p \in Processes :
        \/ \E k \in Packages : Start(p, k) \/ SweepRead(p, k)
        \/ AcquireLock(p) \/ LockRefused(p)
        \/ SweepProbe(p) \/ SweepTree(p) \/ SweepAnchor(p) \/ Swept(p)
        \/ \E b \in Bases : Provision(p, b) \/ Downgraded(p, b)
        \/ Unpack(p) \/ UnpackFails(p) \/ Adopt(p) \/ MountFails(p) \/ SealFails(p)
        \/ FailedUnlock(p) \/ DiscardTree(p) \/ DiscardAnchor(p)
        \/ Opened(p) \/ Change(p) \/ Pack(p) \/ WriteBack(p) \/ Close(p)
        \/ Unmount(p) \/ UnmountAnchor(p) \/ UnmountRest(p) \/ UnmountKept(p)
        \/ Unload(p) \/ RetryRemove(p)
        \/ Crash(p)

Spec == Init /\ [][Next]_vars

-----------------------------------------------------------------------------
(* Properties.                                                             *)

Contents == SUBSET (0 .. MaxStarts)

(* Types of the state.                                                     *)
TypeOK ==
    /\ lock \in [Packages -> Processes \cup {None, Dead}]
    /\ pointer \in [Packages -> Bases \cup {None}]
    /\ marked \in [Packages -> BOOLEAN]
    /\ tree \in [Packages -> [Bases -> Contents]]
    /\ package \in [Packages -> Contents]
    /\ pc \in [Processes -> Holding \cup Leaving \cup {"off", "lock"}]
    /\ opens \in [Processes -> Packages \cup {NoPackage}]
    /\ nth \in [Processes -> 0 .. MaxStarts]
    /\ base \in [Processes -> Bases \cup {None}] /\ settled \in [Processes -> BOOLEAN]
    /\ packed \in [Processes -> Contents]
    /\ sweeps \in [Processes -> SUBSET Packages]
    /\ swept \in [Processes -> Packages \cup {NoPackage}]
    /\ aimed \in [Processes -> Bases \cup {None}]
    /\ starts \in 0 .. MaxStarts /\ faults \in 0 .. MaxFaults
    /\ torn \subseteq Packages /\ unnamed \subseteq Packages \X Bases

(* A package that nobody locked while another process was still taking it  *)
(* apart is open in one process at a time, and that one's lock file is     *)
(* there for the others to see, through crashes, take-overs, sweeps and    *)
(* failed mounts, wherever each session's storage is; and an open session  *)
(* has its tree.                                                           *)
OneSession ==
    \A p \in Processes : pc[p] \in Holding /\ opens[p] \notin torn =>
        /\ lock[opens[p]] = p
        /\ \A q \in Processes \ {p} : ~Has(q, opens[p])
        /\ pc[p] = "open" => tree[opens[p]][base[p]] # {}

(* Of such a package, no save takes away what a session saved before.      *)
SavesAddUp ==
    [][\A k \in Packages \ torn : package[k] \subseteq package'[k]]_vars

(* What leads a sweep to the tree in base b: the pointer that names it; or *)
(* in the anchor anything that makes it a session.                         *)
Named(k, b) == IF b = Anchor THEN pointer[k] # None \/ marked[k] ELSE pointer[k] = b

(* Of such a package, what a process that is gone left unpacked is found   *)
(* by the next sweep, wherever it was put.  Excepted are a tree whose      *)
(* pointer could not be written; one whose pointer went with a mount that  *)
(* failed before it had storage, was written over by a later session in    *)
(* another place, or was removed by a sweep that had read it before; and   *)
(* one in the anchor until it has its marker.                              *)
LeftoversAreNamed ==
    \A k \in Packages \ torn : \A b \in Bases :
        tree[k][b] # {} /\ <<k, b>> \notin unnamed => Named(k, b)

(* What Mount() says of the sweep it calls: it removes "Anything a crashed *)
(* session left behind, including a stale copy of this package's own       *)
(* root".  The sweep leaves out the package's own anchor, and a stale copy *)
(* elsewhere is not cleared by unpacking.                                  *)
OwnLeftoversGone ==
    \A p \in Processes : pc[p] = "opening" /\ opens[p] \notin torn =>
        \A b \in Bases \ {base[p]} : tree[opens[p]][b] = {}

(* What ProvisionStorage() says the pointer is for: written "Before        *)
(* anything is written into it, never after", so that a process that dies  *)
(* does not strand the tree.  Unpacking into the anchor clears the pointer *)
(* away first.                                                             *)
NeverStranded ==
    \A k \in Packages \ torn : \A b \in Bases :
        tree[k][b] # {} /\ (\A p \in Processes : ~Has(p, k)) => Named(k, b)

(* What Unload() says of its order, storage first and lock last: the lock  *)
(* "must not say so while a transient tree is still being taken apart      *)
(* underneath it".  In the anchor the lock file goes with the tree.        *)
FreeOnceGone ==
    [][\A p, q \in Processes :
          pc[p] = "lock" /\ pc'[p] = "sweep" /\ opens[p] = opens[q] => pc[q] # "rest"]_vars

=============================================================================
