# TLA+ models of GpgFrontend

Specifications, model-checking configurations and proofs for the parts of
GpgFrontend whose correctness is a matter of order and interruption: the module
system, the calls that cross its boundary in either direction, the key a profile
is sealed with, and what a profile keeps on the disk: its marker, its session, its
sealed objects and the cache in front of them. Paths below are relative to the
repository's `src/` directory (`src/src/` in `PROJECT.json`), names are the code's.

    tlc -workers 2 -config MCModuleManager.cfg MCModuleManager
    tlapm ModuleSystemProofs.tla

`PROJECT.json` lists every run, the mutant that shows each property can fail,
the source lines of every definition, the hazards, findings and theorems.

## 1. The system

GpgFrontend is a Qt application over GnuPG and a Rust OpenPGP engine. Its core
logic beyond those libraries is a *profile* (a directory or package with
settings, a root key and sealed objects) and a *module system* (packages of
signed native or Lua code, loaded into the process and withdrawn from it).

### Components that are modelled

| component | state it keeps | operations |
|---|---|---|
| dispatch gate `core/module/ModuleDispatchGate` | `closed_`, `in_flight_`, a per-thread count of own entries | `TryEnter`, `Leave`, `Close`, `Open`, `WaitQuiescent` |
| module manager `core/module/ModuleManager`, `Module` | records and lifecycle state, subscriptions, triggers with who still owes an answer, the runner's queue, grants, the mirror in the register table | register, activate, deactivate, listen, trigger, exec, answer, unregister |
| startup and shutdown `core/module/ModuleInit` | scan thread, expected registrations, the shutdown's step | scan, load, `ShutdownGpgFrontendModules` steps 1-4 |
| host API `sdk/host` | context records (owner, grant, live, `in_flight`), attribution per thread, the handle registry | mint, release, gated call, issue and take a handle, wait idle, sweep |
| command registry `ui/command`, `sdk/host/GFHostCommand` | `providers_`, `closed_`, `pending_`, each call's flags and delivery mutex | register, invoke, run, complete, cancel, `RemoveAllFor`, reopen |
| profile root key `core/profile`, `ui/dialog/settings` | key file, credential store entry, stored setting; in the process: property, slots, root key | open, convert, reset, generate, load, change of protection |
| durable cache `core/function/CacheManager` | `durable_cache_storage_`, `key_storage_`, `dirty_keys_`, a flush's snapshot | `SaveDurableCache`, `LoadDurableCache`, `ResetDurableCache`, `FlushCacheStorage`, the timer |
| data objects `core/function/DataObjectOperator`, rotated keys in `ProfileSecureKeyManager` | the key set of each level, objects with the keys they were sealed with, the collector's state file and quarantine | store, remove, rotate, lower the level, `RunDataObjectGC` |
| lock and session `core/profile/ProfileLock`, `Profile`, `ProfileLoader::Mount`, `ProfilePackage`, `ui/function/ProfileController` | per package: lock file, anchor and pointer, the session's tree, the package file; per process: what it holds | acquire, sweep, mount, open, save, write back, unmount, give up |
| marker and migration `core/profile/ProfileMigration`, `ProfileLoader`, `ProfileSession` | `profile.json`, its `.bak`, the layout of the data, the account of the key | PRE and POST ladder, `ensure_identity`, stamp |

How they interact. The module runner is one thread with a FIFO of tasks and the
only thread lifecycle code runs on. A task calls a module's hook; a hook may spin
an event loop, which runs further tasks on top of it. The host enters a module
from any thread through two gates, the process-wide one and the module's. A
module calls the host with the context it was minted; the call is counted on its
record and attributed to the module. Commands go both ways: the host calls a
module's handler through the gate, a module's `done` callback is entered through
it too. Deactivation closes the gate, withdraws commands and user interface
(`ModuleUiTeardown`), waits a bounded time for the calls inside, runs the hook,
releases the grant and fails whatever the module still owes. Shutdown does this
for all modules in one task, waits for it, for the process-wide gate and for the
calls still counted on each module's records, and takes the handles back.

A start of the program is one sequence: lock and mount (a package is unpacked into a
session tree), the PRE rungs, the identity, the root key, the POST rungs, the stamp;
then the key set of the session, the collector in a task, and the durable cache, whose
keys are data objects. The end is the reverse: the collector is stopped, the timer
with it, the cache flushed for the last time, the package written back and the tree
removed before the lock is given up.

### What is hard about it

* Interleavings: subscriptions, answers and calls come from threads of modules;
  deactivation, reactivation and shutdown happen meanwhile. Three parties race
  for the one reply a listener owes.
* Nesting: one thread is inside several modules, several transitions or several
  callbacks at once, so that waiting for "everybody" includes itself.
* Bounded waits for code that need not return, and what may still be freed after
  one has expired.
* Staleness: a provider is looked up, run and entered at three different times;
  a gate is asked when a task runs, not when it was posted; a context is kept by
  a thread that has outlived the load it was minted for.
* Interruption: key file, store entry and setting are three durable writes and a
  start must make sense of every prefix of them. The store may accept a secret
  and not keep it. A rung of the ladder is applied and then recorded; the marker is
  replaced and then its copy.
* A cache whose map, list, marks and files each have a lock of their own: saves, loads,
  resets and flushes of one key, on several threads, fall between one another's steps.
* A place chosen anew at each start: what a crashed session left is found only through
  a file the next session may write over.
* Judging first and acting later: the collector decides what every object is, then
  sets some aside while sessions store and rotate; the sweep probes a lock, then
  removes what it guards.

The full list, each at its line, is under `hazards`.

### Components that are not modelled

Listed in `PROJECT.json` with the reason. Planned: the passphrase service,
and tasks with their cancellation. Of the core's initialisation only the teardown is
modelled, as steps of `CacheManager` and `DataObjects`. Not planned: OpenPGP operations
(decided by GnuPG and the Rust engine), package formats, manifests and trust (parsing
and signatures, before a module exists for the manager), the register table beyond the
module entries,
module runtimes (a module's code is the environment here), the SDK's other
primitives (argument passing behind the gate that is modelled), the desktop and
mobile interfaces, the shell, tools and platform code.

## 2. Modules

| module | models | uses |
|---|---|---|
| `ModuleDispatchGate` | one gate | |
| `EventDelivery` | what event delivery promises; abstract | |
| `ModuleManager` | lifecycle, events, startup, shutdown | `EventDelivery` as a refinement target |
| `HostApi` | grants, counted calls, attribution, handles, step 4 in detail | |
| `CommandRegistry` | commands in both directions | |
| `ProfileKey` | the root key and its protection | |
| `CacheManager` | the durable cache and its flushes | |
| `DataObjects` | sealed objects, rotated keys, the collector | |
| `ProfileSessions` | locks, session storage, write-back of several processes | |
| `ProfileMarker` | marker, copy, migration, identity over several builds | |
| `ModuleSystemProofs` | theorems about the gate and the manager | `ModuleDispatchGate`, `ModuleManager`, `TLAPS` |
| other `*Proofs` | theorems about the module they extend | `TLAPS`, theorems on sets and sequences |
| `MC*` | small instances | |

An operator whose comment begins with "Seeded fault" is a mutation used to show that
a property can fail. No specification refers to one.

### ModuleDispatchGate

A *scope* is one `ModuleDispatchScope`; a thread may hold several. Every method
holds `mutex_` from beginning to end, so each is one action, except
`WaitQuiescent`, which is split where `quiet_.wait` gives the mutex up: it falls
asleep, is woken by a leave, for no reason, or by its deadline, and tests the loop
condition again. `quiet` is history: who was told the closed gate is quiet.

### ModuleManager

`state`, `listening`, `events_`, `awaiting` are the registry under `mutex_`, which
is never held across module code, so each locked section is a step. `queue` and
`stack` are the module runner. A frame's `at` says where it is: in the host's own
code, waiting for an inner call, in the module's hook, draining, or failing what
is owed. A task may be taken when the stack is empty or when the top frame is in
module code and at most `MaxStack` frames are there: that is the nested event loop.
Module code is a hook, or the drain of `withdraw()`, which ends the commands the module
was serving and so calls other modules back.
`hostIn` counts the calls of other threads inside a module; that counting is
`ModuleDispatchGate`'s subject and is not repeated. `publishing` is a module thread
inside `publish_module`, between the record it has read and the table it will
write. `main` is the thread in `ShutdownGpgFrontendModules`;
`beneath` is history: the modules that were in transition on the runner's stack when a
nested loop took the shutdown task.

`EventDelivery` is the promise: an event goes to a set of listeners at once and
each replies exactly once, itself or by a failure in its place; with no listener
the caller hears exactly that. `ImplementsDelivery` is `EventDelivery!Spec` with
the awaiting sets for what is owed.

### HostApi

Records are never reused; a module reloaded with another grant gets a new one and
its threads may hold the old one. `nest` is each thread's stack of gated calls,
`previous` what `ScopedContextAttribution` restores. The shutdown is step 4 of
`ShutdownGpgFrontendModules` for the modules step 2 found; modules registered
behind its back are not swept and may go on minting.

Left out: which capability an entry point asks for (some ask for none, so a live
context always admits something), and `GFSdkEnterModule`'s brackets.

### CommandRegistry

Each thread has a stack of frames: deliveries, cancellations, a withdrawal. Who
holds a call's `delivery` mutex, which is recursive, is read off the stacks. A
callback (`done`) may do anything the registry offers, up to depth `MaxNest`.
`invoke` follows `Invoke` and the `run` it makes or queues: the closed check, the
lookup, the acceptance and the entry are separate steps, as they are separate
locked sections or separate tasks. Arguments, results, schemas, statistics and the
listing are left out.

### ProfileKey

An action is the code from one durable write to the next. `ProcessEnds` is enabled
in every state of a process: a crash, a refusal, a failed write, the user leaving.
Sealing is modelled by what can open the result: `SealKey` records the secret,
`UnsealKey` returns the key for the right secret, nothing for the wrong one, and
for *no* secret the bytes as they are, which for a sealed file is no key at all
(`Container`). `given` are keys whose loss the user confirmed, `lost` keys that
went with a file or an entry deleted from outside the program; `strayed` says a
session has run on a `Container` (the finding below), after which nothing is
claimed. Left out: rotation (in `DataObjects`), packages (in `ProfileSessions`) and
temporary profiles, protections pinned in `ENV.ini`. A settings write is taken to
succeed, a `Remove` of a store entry to have any result, since its result is not looked
at.

### CacheManager

Each structure of the cache has a lock of its own, held for one access, so a step is
one such access or one read or write of a file. `job` says how far each thread is in a
load, a save, a reset or a flush and what it has in hand. Any caller may use any key.
`IO` runs the timer's flushes; a reset, a flushing save and the shutdown flush on their
own threads. A write of a thread in `WritesFail` may fail, and nobody looks at its
result. `dropped` are keys reset
and not saved since. `crossed` is history: keys at which operations met that the code
does not order. Two flushes held the key at once; a load put an older value over a
saved one; a reset removed the object while a flush or a load had its value or another
thread had saved one, or removed that one's mark; or a write failed. A later write of
the present value, or a later removal, with nobody else at the key takes it out again.
The runtime cache, which never reaches the disk, is left out.

### DataObjects

An object is the key it is sealed with: a rotation period, or the root key as 0. A start
takes a level, which decides the key set (`held`) and the `active` key; a rotated key is
written to a file when its period begins, or fails to be. The collector is the task of
`RunDataObjectGC`: it classifies every file, decides whether the key set itself is
suspect, acts on what it found, sweeps the quarantine and saves its state, and may be
stopped or crash in between. `fresh` are objects stored since the run judged them,
`moved` and `movedAt` what it set aside and when (a move replaces a copy that is in
quarantine under the same name), `unrecorded` what it set aside without saving that,
`okDay` the last day a saved run found an object healthy, `lowered` that a session left
the rotating level, `unwritten` rotated keys without a file. Days are numbered; the 90
days after which the state file forgets an entry are beyond the model's days, and badly
named files, which are only skipped, are left out.

### ProfileSessions

Several processes, each started on one package. `lock`, `pointer`, `marked`, `tree` and
`package` are the files, `pc` how far a process is. The anchor with the lock follows
from the package's path; the tree is in one of `Bases`, chosen at each start
(`Provision`), and one of them is the anchor itself, the fallback where nothing else is
usable. Which one is left open: policy, free space and environment may differ from
start to start. Contents are the sets of starts that changed them, so a lost change is
seen as a missing member. The sweep lists the other directories and then, for each,
reads the pointer, probes the lock, removes the tree and the anchor, in steps of their
own. `QLockFile` is external: a lock of an ended process is taken over, one of a
running process is not, and a lock file goes with the directory it is in.

`torn` is history: packages locked by one process while another was still taking them
apart, which four orders of the code allow (section 5). `unnamed` are trees that have
lost their name: the pointer could not be written, was written over by a session in
another place, or was removed with the anchor by a failed mount without storage or a
sweep that had read an older one; and a tree in the anchor until its marker is there.
Temporary profiles are the same without a package. A lock made on another host, which
`QLockFile` takes over by age (`kStaleLockTimeoutMs`), and the kernel's keys of an
encrypted directory are left out.

### ProfileMarker

Starts of builds with different layout versions, one after another, on one profile: the
PRE stage, `ensure_identity`, the account of the key, the POST stage, the stamp. A file
is missing, damaged with or without a legible uuid, or good. A write replaces the marker
and then its copy, and may fail. `applied` is the layout of the data. A profile starts
out empty (`made` is false), with data from before there were markers, or with a marker;
what a session puts into an empty one is in its build's layout, and one with data and no
readable marker is opened without a rung being run. Identity 1 is one that was there;
one minted is the number of the start. `slips` records what damage has taken away: the
version, the uuid, or, by the finding below, the version of a marker rewritten from a
salvaged uuid. `MarkerAssumption` asks that no POST rung lies below a PRE rung, which is
so in the source: a PRE stage commits its version, and a POST rung it has passed would
not run. All builds are of one line, so the refusal of unknown rungs adds nothing and is
left out.

## 3. Runs

| run | instance | states | checks |
|---|---|---|---|
| `gate` | 2 threads, 2 scopes each | 2,738 | quiet means alone, no lost wakeup; every wait ends |
| `manager` | 1 module found twice, own threads, 1 event, 2 transitions | 256,581 | delivery refinement, subscriptions, swept modules are silent; startup settles, deactivation ends, shutdown returns |
| `manager_nested` | 2 modules, loops up to 3 frames, 2 transitions | 1,424,219 | no orphaned trigger, hooks alone, swept modules are silent |
| `commands` | 1 module, host and module each serve a command and call the other's; 2 registrations of the module's, 1 of the host's; 2 threads, nesting 2 | 427,682 | one answer, cancel is final, no call lost, withdrawn serves nothing, no standstill; callers of a withdrawn provider are told |
| `host_api` | 2 modules, 3 records, 2 threads, 3 calls, 1 handle | 224,057 | attribution, one live context, idle means alone, swept for good, no lost wakeup |
| `profile_key` | 2 PINs, 3 store secrets, 3 keys | 71,166 | key never lost, session reads all, protections agree |
| `cache` | 2 callers of 1 key, one of them flushing, 2 values, 2 saves, 1 reset, 2 starts, failing writes of the main thread | 1,159,683 | no change forgotten, a reset stays; saves reach the disk |
| `data_objects` | 2 objects, 3 days, periods of 2 days, 4 starts, 2 stores, 1 fault | 3,706,157 | staying on a level is safe, readable objects kept, both grace periods, a wholesale key failure spares all |
| `sessions` | 2 processes, 2 packages, the anchor and one other place, 3 starts, 1 fault | 5,548,083 | one session, saves add up, leftovers are named |
| `marker` | layouts 1, 3, 4, PRE rungs 1 and 2, POST rung 3, 6 starts, 4 faults | 2,154,213 | versions are earned, the identity is kept, the profile still opens |
| `declined_reset`, `truncated_marker` | the same modules | to the counterexample | section 5 |

Why the bounds are enough to be interesting. The gate's defects need one thread with
entries of its own and another that waits; two scopes on each of two threads give both,
and both at once. The manager's need a transition inside or after another of the same
module and one event in between: two transitions asked for by the user, besides the
automatic activation and the shutdown's deactivation, allow deactivate-activate and
activate-fail-activate around a queued exec task; a second module matters only for
nesting, in its own run; a second package with the same id makes the refused
registration happen. Two commands that call each other on two threads with callbacks in
callbacks are the smallest cycle of delivery mutexes. Three records let a module be
reloaded while a second one is served, and three calls let two nest while the sweeping
thread or another has one. Three keys are a first one and two resets; a third store
secret is one that is neither in the store nor in the file. In the cache a flush of the
timer, one of a caller and the last one overlap on a key that is saved again, reset or
loaded, by either caller, while another operation has it in hand; one key is enough, for
keys meet only in the marks and the list, and the theorems are for any keys. Of the data
objects one is kept by a setting and one by the cache, which differ in who may write
over an object that cannot be read; three days hold the end of one rotation period and
both grace periods under the stricter policy, and four starts let a session lower the
level, a next one miss the key and a third one delete. Two processes race for a package
while the second package gives the sweep something that is not its own, and a third
start comes after a crash: losing a tree's name takes a crash and a start in another
place. Three layouts with a build that skips one, and a downgrade, take the marker
through both stages; four faults damage marker and copy twice. `MaxToggles`,
`MaxHostCalls`, `MaxStack`, `MaxRegistrations`, `MaxNest`, `MaxSaves`, `MaxResets`,
`MaxStores`, `MaxStarts`, `MaxFaults` and `Days` are the only bounds; they stand in
guards.

Symmetry is used where it is sound: in `HostApi` (records, modules), `ProfileKey` (PINs,
secrets, keys) and `ProfileSessions` (processes, packages), which only compare their
values, with safety properties only.

Deadlock is checked for the gate and the profile key. The others may stop: a
process that has shut down, or calls and starts that have all been made, do nothing
further.

Each module defines its `TypeOK` (the gate's is `GateTypeOK`). It is a theorem, or a
conjunct of a proved invariant, in every module, and is not listed among what the runs
show.

### Fairness

* Gate: a deadline passes and a woken thread runs. Nothing says that a call ever
  leaves a module.
* Manager: the host's own threads run (`RunnerStep`, `ScanStep`, `MainStep`, the
  posting of exec tasks). Module code need not return and answers need not come.
  `StartupSettles` and `DeactivationEnds` have `HooksReturn` as a hypothesis, for the
  runner cannot go on while a hook does not return; `ShutdownReturns` has not, since
  all waits of the shutdown have a bound.
* Commands: a thread inside the registry runs on; a callback returns whatever it
  calls first (strong fairness: calling something else disables the return for a
  while); an accepted call is run, as the runner and the interface's event loop run
  what is posted to them. A provider need not complete anything.
* Cache: the timer fires while the core runs, and a flush under way is gone on with. No
  caller has to call, to get on with a call, to shut down or to write successfully.

## 4. Proofs

For every value of the constants, under the `ASSUME`s of the modules: the constants
have their types, special values are not members of the sets they stand beside, the
sets of scopes and of calls are finite, and no POST rung of the marker's ladder lies
below a PRE rung. Every safety invariant and every action property that a passing run
checks is a theorem, without further hypotheses; what a property excepts stands in its
definition.

**The gate** (`ModuleSystemProofs`): `GateCounts`, `GateQuiet`, `GateWakeups`. `GateInv`
adds `OwnExact` to what the run checks: the discount a waiter took when it began is
still its own count, because a thread that waits neither enters nor leaves. Then
`in_flight_ - own <= 0` says, by cardinality, that every scope inside is the waiter's.

**The manager** (`ModuleSystemProofs`). `ManagerTypes` has one lemma per group of
actions. `ManagerAnswers` (`NoOrphanedTrigger`), `ManagerListeners`, `ManagerHooksAlone`
rest on `Inv`, which adds what the runner's stack says about the registry: a frame that
activates or deactivates a module fits the state the module is in, the gate it has
closed and the calls it has waited for (`FrameFits`); only the topmost frame may be
failing what is owed, because it runs no module code that could take a task
(`StackFits`); a module has one such frame at most (`MovedOnce`). Without these a task
taken by a nested loop could be thought to move a module that a frame below is still
moving. Each action is then one of three kinds, with a lemma each: it moves no module
(`Beside`), it takes a module at rest somewhere (`Departs`), or it is a step of the
frame on top (`Arrives`). `ManagerDelivers`, the refinement of `EventDelivery`, needs
the types only.

`ManagerSweptIsSilent` holds with module threads and at any depth of nested loops, for
every module that was not itself in transition below the shutdown task (`beneath`;
section 5 shows that one). `Unwound` adds to `Inv`: below the shutdown task nothing of
the modules it found is left but calls the process-wide gate counts (`Under`); a module
not up has its gate closed and one on its way up a frame (`Gated`); no request for an
activation stands behind the shutdown task, so a module it has been over stays down,
while one registered later by an overtaken load was never in the list to be swept
(`Ends`); and the main thread wipes only what it found quiet (`Wiped`).

**`HostApiProofs`**: eight theorems, the action property `OnlyOwnersRelease` among
them. `Inv` adds that a thread's nest holds exactly its running calls, once each
(`NestOK`), that a call's `previous` is the module of the call outside it
(`Attributed`), that records in use have owners (`Minted`), and that in the shutdown
the modules found have no live record once their turn has come (`ShutdownOK`).
`SweptForGood` needs `IdleMeansAlone` and `LiveIsCurrent`: no call is left when the
sweep begins and none can be admitted after it. The owners' theorem also needs that
every handle is some module's (`Issued`).

**`CommandRegistryProofs`**: `RegistryTypes`, `RegistryDoneOnce`,
`RegistryCancelIsFinal`, `RegistryNoCallLost`, `RegistryWithdrawnServesNothing`,
`RegistryNoStandstill`. The threads' stacks carry the argument. Below its top a stack
holds only callbacks and the withdrawal (`Resting`), so a thread waits in one frame at
most; a delivery mutex is one frame's (`Alone`), and the frame behind it decides from
flags nobody else can have set meanwhile (`Flagged`, `Counted`). For `NoStandstill`
there is an order in which calls left `pending_` (`Ordered`, an existentially
quantified numbering): from inside the callback of a call a thread only ever sees to
one that is still pending or left later. So of the threads that wait, the one whose
call left last waits for a thread that does not. `Withdrawn` is what `RemoveAllFor` has
still to do.

**`ProfileKeyProofs`**: `KeyTypes`, `KeyNeverLost`, `KeyReadsAll`,
`KeyProtectionAgrees`. `Inv` says of each stage what is on the disk (`Custody`), what
the slots hold (`Slots`) and how far the three records of the protection agree
(`Agreed`). `SessionReadsAll` fails to be inductive without the clause that an object's
key may be missing only in the stages where the user is still to be asked.

**`ProfileMarkerProofs`**: `MarkerVersionEarned`, `MarkerIdentityKept`,
`MarkerStillOpens`. The properties speak of files; the invariant says what a running
start has done when it writes them. While it climbs, the rungs left are exactly those
of its stage from the version it holds; after the PRE stage all PRE rungs are done,
before the stamp all are (`Climbing`). This is where the assumption on the ladder is
used: a PRE stage commits a version that counts the POST rungs below it as run. A
session has the identity that the files would give the next one (`Naming`), and
versions lie between the oldest supported and the newest build's (`InBounds`). A profile
without data has no marker either (`Fresh`), so the layout its first session gives it
contradicts no version.

**`ProfileSessionsProofs`**: `SessionTypes`, `SessionsAlone` (`OneSession`),
`SessionLeftoversNamed`, `SessionSavesAddUp`. A package that is not torn has either
processes that take it apart or one that holds its lock, never both (`Held`); the rest
is said of the one that holds it and disturbed by nobody else: the tree has all the
package has (`Whole`), a tree goes before the anchor that leads to it (`Emptied`), and
a tree in any place has its name or is accounted for in `unnamed` (`Led`). That a
package can be torn, and which names get lost, is the code's (section 5).

**`DataObjectsProofs`**: `DataTypes`, `DataStayingPutIsSafe` and the action properties
`DataReadableKept`, `DataMissingWaits`, `DataGraceKept`, `DataKeyFailureSpares`. The
collector acts on what it saw in an earlier step and on notes of earlier sessions. So
`Inv` says that what was found unusable still is or was stored since (`Looked`), that
the verdict on the key set is of everything looked at (`Suspicion`), and that no note
names a day earlier than it may: not before the object was last found healthy
(`Dated`), nor before the copy in quarantine was put there, for copies whose move was
recorded (`Aside`). `StayingPutIsSafe` needs that an object's key is the root key, has
a file, or could not be written, and that below the rotating level no other keys exist
unless it was left (`Keyed`). Lemmas say which action alone sets aside,
sweeps or replaces a copy in quarantine.

**`CacheManagerProofs`**: `CacheTypes`, `CacheNothingForgotten`, `CacheResetStays`.
No assumption on who uses which key. `NothingForgotten` speaks of an entry no flush has
in hand; the invariant says it of an entry at every moment: it is due, or its present
value is in a hand, or on disk with every hand on it holding the same (`Kept`). For
`ResetStays` it adds that while the map has no value of a key no flush holds one
(`Released`) and a load holds only what the disk has (`Drawn`). A reset that has not
come to the object suspends all four; the removal restores them or puts the key into
`crossed`.

Only model-checked: the liveness properties (`WaitReturns`, `StartupSettles`,
`DeactivationEnds`, `ShutdownReturns`, `CallersAreTold`, `SavesReachDisk`), which are
out of the prover's reach under fairness.

## 5. Where the code and its comments disagree

Two of these are runs in which TLC finds a property violated that states what a
comment says; `PROJECT.json` quotes the comment.

1. `declined_reset`. Declining the reset of a forgotten PIN is meant to be a failed
   attempt (`GuiProfileLoaderDelegate.cpp:147`). The empty PIN it answers is tried with
   `UnsealKey`, which returns the sealed bytes, and the profile opens on them.
2. `truncated_marker`. `ProfileLoader.cpp:371` says a truncated marker must not brick
   the application. When neither marker nor copy parses and the uuid can be made out,
   the marker is written anew with that uuid and version 0, and every start after it
   refuses the profile as too old.

The next ones are stated in a module too, by a property that does not hold; the
configuration named shows the counterexample. They are of less consequence, and are
kept out of the list of runs.

| property | configuration | what a comment says, and what happens |
|---|---|---|
| `ModuleManager!NoStaleEntry` | `MCManagerStale.cfg` | `ModuleDispatchGate.h:139`: a call queued before a deactivation cannot enter the module after it. The exec task asks the gates when it runs: after a deactivation *and* a reactivation it enters, with an event that has been failed. |
| `ModuleManager!MirrorCurrent` | `MCManagerMirror.cfg` | `ModuleManager.cpp:899`: racing calls of `publish_module` leave the latest state in the register table. It reads under the lock and writes after it; a module thread in between leaves a state that is over, until the next transition. |
| `ModuleManager!UnregisterAlone` | `MCManagerUnregister.cfg` | `ModuleInit.cpp:346`: an unregister hook never runs beside a deactivate hook. If a deactivate hook spins an event loop that takes the shutdown task, it does. This is what `SweptIsSilent` excepts. |
| `ModuleManager!NoLateLifecycle` | `MCManagerLate.cfg` | `ModuleInit.cpp:408`: every lifecycle task has finished after step 2. A load task running when the gate closed posts its register task behind the shutdown task, and it can still run when the last step is reached. |
| `CommandRegistry!CancelStopsDelivery` | `MCCommandCancel.cfg` | `CommandRegistry.h:180`: `done` never runs after `Cancel` returns. `Deliver` erases the call first; a `Cancel` then returns `GF_CMD_E_UNKNOWN` at once and `done` runs. `CancelIsFinal` is what does hold: it never runs after `GF_CMD_OK`. |
| `CacheManager!SkipsWhatIsStored` | `MCCacheSkips.cfg` | `CacheManager.cpp:140`: a save of the value in the map is skipped because the copy on disk "is already correct". After two flushes in the wrong order, or a reset on another thread that took the mark, it is not, and nothing will write it. |
| `CacheManager!ResetIsFinal` | `MCCacheReverts.cfg` | `CacheManager.cpp:212`: the object is removed because "otherwise the reset silently reverts". A flush or a load that had the value in hand brings it back. |
| `DataObjects!UntouchedWhenSuspect` | `MCDataSuspect.cfg` | `DataObjectOperator.cpp:719`: a run that takes the key set for broken leaves quarantined objects untouched. It skips the sweep; it still sets aside files that are too short or do not decrypt, over a copy of the same name. |
| `ProfileSessions!OwnLeftoversGone` | `MCSessionsOwn.cfg` | `ProfileLoader.cpp:292`: the sweep removes a stale copy of the package's own root. It passes over its own anchor, and unpacking clears only the place chosen this time: a tree elsewhere stays, and its pointer is written over. |
| `ProfileSessions!NeverStranded` | `MCSessionsStranded.cfg` | `Profile.cpp:279`: the pointer is written before anything else so that a process that dies strands no tree. When the tree goes into the anchor, `ClearSessionRootContents` removes the pointer again; until the marker is there no sweep takes the anchor for a session. |
| `ProfileSessions!FreeOnceGone` | `MCSessionsUnload.cfg` | `ProfileSession.cpp:181`: the lock must not be given up while the tree is being taken apart. In the anchor the lock file is one of the files that are removed, and on systems that let an open file go, the package is free before the rest is gone. |

Seen while modelling, without a property of their own. The module system:

* `CommandRegistry.h:216` says no callback enters a module after it is withdrawn. An
  `Invoke` between its closed check and `pending_` is missed by `RemoveAllFor`; its
  callback is dropped by the closed gate, or runs once the module is active again.
* `GFHostCommand.cpp:192`: a call that has passed the registry's check of the provider
  is entered by a later task, which checks the gate only: after withdrawal and
  reactivation it calls the handler of the earlier registration.

The profile's key and its marker:

* `SettingsAdvanced.cpp:473` says the stored setting can never disagree with the key
  file. A process that ends between the two writes leaves them so. The next start
  repairs what it can open; from none or keychain to PIN it cannot, and tells the user
  the secret is lost although the PIN would open the file; from PIN to keychain it
  goes on asking for a PIN. Nothing is destroyed unconfirmed (`NeverByNeither`), and
  no session opens in disagreement (`ProtectionAgrees`).
* A process that ends between a rung and its commit leaves data an older build still
  opens, since the marker names the old layout. A build that knows the rung repeats it.
* If `ensure_identity` cannot write the marker, the key's account is derived from an
  empty uuid in that session, and the next start mints another identity.
* `ProfileMigration.cpp:109`: a profile with no readable marker is a first run or one from
  before markers, and gets the version of the build that opens it with no rung run. For
  an old profile, or one whose marker could not be written in earlier sessions, that
  version is not earned (`VersionEarned` excepts it).
* A copy that parses but is older than any identity is preferred to a uuid that can
  still be made out in the damaged marker.

The cache:

* A write that fails is not marked again, and a load may put an older value from the
  disk over one saved meanwhile, which is then in nobody's hand.
* `CacheManager.h:98` says a save with `flush` writes "immediately", and
  `GFHostBasic.cpp:308` relies on it for "a credential the user just typed". If the
  timer's flush takes the dirty set between the save's mark and its own flush, the save
  returns with nothing on disk until the timer's flush gets to it.

The collector:

* An object stored between its classification and the action on it is set aside all
  the same. Nothing restores what is in quarantine.
* A run that is abandoned has moved objects and saves nothing of it; their grace period
  is then counted from whatever the old state file says.
* `IsWholesaleKeyFailure` needs that no object can be read. One object written by the
  session with the wrong key is enough for the next run to act on all others.
* `MoveFileReplacing` removes what is in quarantine under the name of the file it moves,
  also within the grace period: of two versions set aside, the later one is kept.
* A rotated key whose file could not be written (`ProfileSecureKeyManager.cpp:676`) is
  logged, and the session seals objects with it all the same.

Sessions:

* `ProfileLoader.cpp:305` and `:319` let go of the lock before the storage of a failed
  mount is discarded; `ProfileSession.cpp:181` says why the order must be the other. A
  process that takes the lock in between loses its tree, its pointer and its lock file,
  and a third one may open the same package.
* `ProfilePackage.cpp:1666`: the sweep probes a lock, gives it back and then removes what
  it guards, whoever has taken it meanwhile.
* When a tree could not be removed at the unmount, the destructor tries again, after
  the lock has been released.
* A mount that fails before it has claimed its storage removes anchor and pointer but
  not the tree a crashed session left.
* `ProfilePackage.cpp:1659`: the sweep follows the pointer it read before the probe. If a
  session came, moved the pointer and crashed in between, its tree loses its name.
* `ProfileController.cpp:607`: once a write-back is settled it is never asked for again.
  If a tab then keeps the window open, later changes are dropped at the next close.

## 6. Plan

Done: all the modules of section 2, model-checked, and every safety property of the
runs proved.

Left, in this order:

1. Tasks and passphrase requests: cancellation against completion, the hand-over
   between an engine thread and the interface.
2. What a caller of an earlier activation is told (the hazard at
   `CommandRegistry.cpp:303`), which needs activations told apart in `CommandRegistry`.

Runs are kept few: a question that fits an existing instance becomes a property of it.
