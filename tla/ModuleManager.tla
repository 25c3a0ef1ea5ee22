--------------------------- MODULE ModuleManager ---------------------------
(***************************************************************************)
(* The module lifecycle and event delivery of the host:                    *)
(* src/core/module/ModuleManager.cpp (the registry), Module.cpp (one       *)
(* module's hooks) and ModuleInit.cpp (startup scan and shutdown).         *)
(*                                                                         *)
(* Threads.  The module runner executes one FIFO queue of tasks and is the *)
(* only thread that runs lifecycle code; its call stack is a variable,     *)
(* because module code that spins a nested event loop runs further tasks   *)
(* on top of its own frame.  The scan thread prepares packages.  The main  *)
(* thread toggles modules and finally runs ShutdownGpgFrontendModules().   *)
(* Any thread may trigger an event or call into a module through the       *)
(* gates; a module's own threads may call the SDK while its grant lives.   *)
(*                                                                         *)
(* mutex_ guards the registry and is never held across a call into module  *)
(* code, so each locked section is one atomic step together with the       *)
(* thread-local work around it.  A gate is its closed flag and the calls   *)
(* inside; its counting is modelled in ModuleDispatchGate.                 *)
(***************************************************************************)
EXTENDS Integers, Sequences, FiniteSets

CONSTANTS
    Modules,       \* module ids
    Events,        \* event ids the host fires (IsKnownModuleEvent)
    Triggers,      \* Event objects, one per TriggerEvent call
    EventOf,       \* the event id of each trigger
    Declared,      \* the events each module's signed manifest allows it
    Packages,      \* what the startup scan finds: a sequence of module ids
    NoModule,      \* an empty listener id
    NoTrigger,
    ModuleThreads, \* whether modules subscribe from threads of their own
    MaxToggles,    \* bound: activations and deactivations the user asks for
    MaxHostCalls,  \* bound: calls other threads have inside one module
    MaxStack       \* bound: stack depth up to which nested loops take tasks

ASSUME ManagerAssumption ==
    /\ EventOf \in [Triggers -> Events]
    /\ Declared \in [Modules -> SUBSET Events]
    /\ Packages \in Seq(Modules)
    /\ NoModule \notin Modules
    /\ NoTrigger \notin Triggers
    /\ ModuleThreads \in BOOLEAN
    /\ MaxToggles \in Nat /\ MaxHostCalls \in Nat /\ MaxStack \in Nat

VARIABLES
    \* the registry: records_, events_, triggers_
    state,         \* lifecycle state of each module, "none" without a record
    listening,     \* rec->listening
    events_,       \* event id -> subscribed modules
    awaiting,      \* triggers_[t].awaiting: who still owes an answer
    \* one TriggerEvent call per trigger
    fired,         \* triggers whose TriggerEvent has run its locked section
    posts,         \* listeners whose exec task TriggerEvent has yet to post
    replies,       \* history: callbacks executed, per trigger and listener
    \* gates, grants
    closed,        \* the process-wide gate is closed
    gateClosed,    \* modules whose entry gate is closed
    hostIn,        \* calls other threads have inside each module
    minted,        \* modules holding a host api grant
    bound,         \* modules that have ever run activate(): the host may
                   \* hold callbacks of these only
    \* the module runner
    queue, stack,
    \* startup
    scan,          \* "verify", then how many load tasks are posted
    need,          \* need_register_modules_
    registered,    \* registered_modules_
    \* shutdown
    main,          \* where ShutdownGpgFrontendModules() is
    ids,           \* the list DeactivateAndUnregisterAllForShutdown() took
    toDeactivate, toUnregister, toSweep,
    sweeping,      \* the module the sweep loop is at
    swept,         \* modules whose SDK handles have been wiped and freed
    beneath,       \* history: modules in transition below the shutdown task
    \* the register table's mirror of the lifecycle state
    grt,
    publishing,    \* a module thread inside publish_module()
    toggles,
    stale          \* history: queued exec tasks that outlived a deactivation

registry == <<state, listening, events_, grt>>
delivery == <<awaiting, fired, posts, replies>>
gates == <<closed, gateClosed, hostIn>>
grants == <<minted, bound>>
runner == <<queue, stack, stale>>
startup == <<scan, need, registered>>
shutdown == <<main, ids, toDeactivate, toUnregister, toSweep, sweeping, swept,
              beneath>>
callers == <<publishing, toggles>>
vars == <<registry, delivery, gates, grants, runner, startup, shutdown, callers>>

States == {"none", "registered", "activating", "active", "deactivating",
           "inactive", "failed"}
At == {"host", "wait", "hook", "drain", "fail"}

(* A lifecycle task is about a module, an exec task about a trigger too.   *)
Task ==
    [fn : {"load", "register", "activate", "deactivate"}, id : Modules, tr : {NoTrigger}]
    \cup [fn : {"exec"}, id : Modules, tr : Triggers]
    \cup [fn : {"shutdown"}, id : {NoModule}, tr : {NoTrigger}]

Frame ==
    [fn : {"load", "register", "activate", "deactivate", "unregister"},
     id : Modules, tr : {NoTrigger}, at : At]
    \cup [fn : {"exec"}, id : Modules, tr : Triggers, at : At]
    \cup [fn : {"shutdown"}, id : {NoModule}, tr : {NoTrigger}, at : At]

MkTask(fn, m, tr) == [fn |-> fn, id |-> m, tr |-> tr]
MkFrame(fn, m, tr, at) == [fn |-> fn, id |-> m, tr |-> tr, at |-> at]

Init ==
    /\ state = [m \in Modules |-> "none"]
    /\ listening = [m \in Modules |-> {}]
    /\ events_ = [e \in Events |-> {}]
    /\ awaiting = [tr \in Triggers |-> {}]
    /\ fired = {}
    /\ posts = [tr \in Triggers |-> {}]
    /\ replies = [tr \in Triggers |-> [m \in Modules \cup {NoModule} |-> 0]]
    /\ closed = FALSE
    /\ gateClosed = {}
    /\ hostIn = [m \in Modules |-> 0]
    /\ minted = {}
    /\ bound = {}
    /\ queue = <<>>
    /\ stack = <<>>
    /\ scan = -1
    /\ need = -1
    /\ registered = 0
    /\ main = "running"
    /\ ids = {}
    /\ toDeactivate = {}
    /\ toUnregister = {}
    /\ toSweep = {}
    /\ sweeping = NoModule
    /\ swept = {}
    /\ beneath = {}
    /\ grt = [m \in Modules |-> "none"]
    /\ publishing = [m \in Modules |-> "none"]
    /\ toggles = 0
    /\ stale = {}

-----------------------------------------------------------------------------
(* The runner's call stack.                                                *)
Top == stack[Len(stack)]
Below == SubSeq(stack, 1, Len(stack) - 1)
OnTop(fn, at) == stack # <<>> /\ Top.fn = fn /\ Top.at = at
GoTo(at) == [stack EXCEPT ![Len(stack)].at = at]

(* Whose code a frame is running: its module's, in a hook; or another's,   *)
(* when withdraw() ends the commands the module was serving and with that  *)
(* calls their callers back.                                               *)
RunsCodeOf(f, m) ==
    \/ f.at = "hook" /\ f.id = m
    \/ f.at = "drain" /\ f.id # m

(* A frame that takes a module from one lifecycle state to another.        *)
Lifecycle(f) == f.fn \in {"register", "activate", "deactivate", "unregister"}

InModuleCode(f) == \E m \in Modules : RunsCodeOf(f, m)

(* The event loop takes the next task when it is idle, or when the module  *)
(* code on top spins a loop of its own.                                    *)
CanTake == stack # <<>> => InModuleCode(Top) /\ Len(stack) <= MaxStack

Take(fn) ==
    /\ CanTake
    /\ queue # <<>>
    /\ Head(queue).fn = fn
    /\ queue' = Tail(queue)

Post(task) == queue' = Append(queue, task)

-----------------------------------------------------------------------------
(* The registry.                                                           *)

(* The runner publishes what it has just written to the record, and only   *)
(* the runner writes it, so record and mirror change together.             *)
SetState(m, s) ==
    /\ state' = [state EXCEPT ![m] = s]
    /\ grt' = [grt EXCEPT ![m] = s]

Republish(m) ==
    /\ grt' = [grt EXCEPT ![m] = state[m]]
    /\ UNCHANGED state

(* Seeded fault: the callback runs whether or not an answer was owed.      *)
TakeAnswerUnclaimed(tr, m) ==
    /\ awaiting' = [awaiting EXCEPT ![tr] = @ \ {m}]
    /\ replies' = [replies EXCEPT ![tr][m] = @ + 1]

(* take_answer() and the callback: only for a listener that still owes.    *)
TakeAnswer(tr, m) ==
    /\ awaiting' = [awaiting EXCEPT ![tr] = @ \ {m}]
    /\ replies' = IF m \in awaiting[tr] THEN [replies EXCEPT ![tr][m] = @ + 1]
                                        ELSE replies

(* Seeded fault: the index keeps what the record forgets.                  *)
DropListenersOfRecord(m) ==
    /\ listening' = [listening EXCEPT ![m] = {}]
    /\ UNCHANGED events_

(* drop_listeners_locked(): out of the record and out of the index.        *)
DropListeners(m) ==
    /\ listening' = [listening EXCEPT ![m] = {}]
    /\ events_' = [e \in Events |-> IF e \in listening[m] THEN events_[e] \ {m}
                                                          ELSE events_[e]]

(* ListenEvent()'s locked section.                                         *)
Subscribe(m, e) ==
    /\ state[m] \in {"activating", "active"}
    /\ e \in Declared[m]
    /\ e \notin listening[m]
    /\ listening' = [listening EXCEPT ![m] = @ \cup {e}]
    /\ events_' = [events_ EXCEPT ![e] = @ \cup {m}]

(* From a hook or a callback, so on the runner: nothing changes the record *)
(* between the subscription and its publication.                           *)
ListenEvent(m, e) ==
    /\ stack # <<>> /\ RunsCodeOf(Top, m)
    /\ m \in minted
    /\ Subscribe(m, e)
    /\ Republish(m)
    /\ UNCHANGED <<delivery, gates, grants, runner, startup, shutdown, callers>>

(* From a thread the module started: the call is in three parts.           *)
ListenEventOnThread(m, e) ==
    /\ ModuleThreads
    /\ m \in minted
    /\ publishing[m] = "none"
    /\ Subscribe(m, e)
    /\ publishing' = [publishing EXCEPT ![m] = "due"]
    /\ UNCHANGED <<state, grt, delivery, gates, grants, runner, startup, shutdown, toggles>>

PublishReads(m) ==
    /\ publishing[m] = "due"
    /\ publishing' = [publishing EXCEPT ![m] = state[m]]
    /\ UNCHANGED <<registry, delivery, gates, grants, runner, startup, shutdown, toggles>>

PublishWrites(m) ==
    /\ publishing[m] \in States \ {"none"}
    /\ grt' = [grt EXCEPT ![m] = publishing[m]]
    /\ publishing' = [publishing EXCEPT ![m] = "none"]
    /\ UNCHANGED <<state, listening, events_, delivery, gates, grants, runner, startup,
                   shutdown, toggles>>

(* Seeded fault: every subscriber is asked, active or not.                 *)
TargetsAnyState(tr) == events_[EventOf[tr]]

Targets(tr) == {m \in events_[EventOf[tr]] : state[m] = "active"}

(* TriggerEvent()'s locked section, and the callback when nobody listens.  *)
TriggerEvent(tr) ==
    /\ tr \notin fired
    /\ main # "done"
    /\ fired' = fired \cup {tr}
    /\ awaiting' = [awaiting EXCEPT ![tr] = Targets(tr)]
    /\ posts' = [posts EXCEPT ![tr] = Targets(tr)]
    /\ replies' = IF Targets(tr) = {} THEN [replies EXCEPT ![tr][NoModule] = @ + 1]
                                      ELSE replies
    /\ UNCHANGED <<registry, gates, grants, runner, startup, shutdown, callers>>

(* ... then one task per target, posted without the lock.                  *)
PostExec(tr, m) ==
    /\ m \in posts[tr]
    /\ posts' = [posts EXCEPT ![tr] = @ \ {m}]
    /\ Post(MkTask("exec", m, tr))
    /\ UNCHANGED <<registry, awaiting, fired, replies, gates, grants, stack, stale,
                   startup, shutdown, callers>>

(* Whether the event object of tr has not reached m's execute() yet.       *)
Undelivered(tr, m) ==
    \/ m \in posts[tr]
    \/ \E i \in 1..Len(queue) : queue[i] = MkTask("exec", m, tr)

(* EventAnswer of the SDK, from any thread of a module that has seen the   *)
(* event.  A call admitted while the grant lived may get here after it is  *)
(* gone, so the grant itself is not looked at.                             *)
AnswerEvent(tr, m) ==
    /\ m \in bound
    /\ m \in awaiting[tr]
    /\ ~Undelivered(tr, m)
    /\ TakeAnswer(tr, m)
    /\ UNCHANGED <<registry, fired, posts, gates, grants, runner, startup, shutdown,
                   callers>>

-----------------------------------------------------------------------------
(* Calls into a module by other threads (gf_sdk_internal::EnterModule):    *)
(* both gates, the process-wide one first.                                 *)
HostEnters(m) ==
    /\ m \in bound
    /\ ~closed
    /\ m \notin gateClosed
    /\ hostIn[m] < MaxHostCalls
    /\ hostIn' = [hostIn EXCEPT ![m] = @ + 1]
    /\ UNCHANGED <<registry, delivery, closed, gateClosed, grants, runner, startup, shutdown,
                   callers>>

HostLeaves(m) ==
    /\ hostIn[m] > 0
    /\ hostIn' = [hostIn EXCEPT ![m] = @ - 1]
    /\ UNCHANGED <<registry, delivery, closed, gateClosed, grants, runner, startup, shutdown,
                   callers>>

(* The module controller dialog posts a transition; the main thread, so    *)
(* not once shutdown has begun.                                            *)
PostTransition(fn, m) ==
    /\ main = "running"
    /\ toggles < MaxToggles
    /\ toggles' = toggles + 1
    /\ Post(MkTask(fn, m, NoTrigger))
    /\ UNCHANGED <<registry, delivery, gates, grants, stack, stale, startup, shutdown,
                   publishing>>

ActiveModule(m) == PostTransition("activate", m)
DeactivateModule(m) == PostTransition("deactivate", m)

-----------------------------------------------------------------------------
(* Activation, on the runner.                                              *)

(* withdraw(): the gate closes first; the wait that follows is the state   *)
(* "drain" of the frame.                                                   *)
Withdraw(m) == gateClosed' = gateClosed \cup {m}

(* activate_now(m) called with the stack s, up to the module's hook.  When *)
(* Active() has no hook to call it fails before it opens anything.         *)
ActivateNow(m, s) ==
    \/ /\ state[m] \notin {"registered", "inactive", "failed"}
       /\ Republish(m)
       /\ stack' = s
       /\ UNCHANGED <<listening, events_, gateClosed, grants>>
    \/ /\ state[m] \in {"registered", "inactive", "failed"}
       /\ SetState(m, "failed")
       /\ DropListeners(m)
       /\ stack' = s
       /\ UNCHANGED <<gateClosed, grants>>
    \/ /\ state[m] \in {"registered", "inactive", "failed"}
       /\ SetState(m, "activating")
       /\ minted' = minted \cup {m}
       /\ bound' = bound \cup {m}
       /\ gateClosed' = gateClosed \ {m}
       /\ stack' = Append(s, MkFrame("activate", m, NoTrigger, "hook"))
       /\ UNCHANGED <<listening, events_>>

TaskActivate ==
    /\ Take("activate")
    /\ ActivateNow(Head(queue).id, stack)
    /\ UNCHANGED <<delivery, closed, hostIn, stale, startup, shutdown, callers>>

ActivateReturnsOk ==
    /\ OnTop("activate", "hook")
    /\ SetState(Top.id, "active")
    /\ stack' = Below
    /\ UNCHANGED <<listening, events_, delivery, gates, grants, queue, stale, startup,
                   shutdown, callers>>

ActivateReturnsError ==
    /\ OnTop("activate", "hook")
    /\ Withdraw(Top.id)
    /\ stack' = GoTo("drain")
    /\ UNCHANGED <<registry, delivery, closed, hostIn, grants, queue, stale, startup,
                   shutdown, callers>>

(* Whether the calls inside left in time or not makes no difference here.  *)
ActivateFails ==
    /\ OnTop("activate", "drain")
    /\ SetState(Top.id, "failed")
    /\ DropListeners(Top.id)
    /\ minted' = minted \ {Top.id}
    /\ stack' = Below
    /\ UNCHANGED <<delivery, gates, bound, queue, stale, startup, shutdown, callers>>

-----------------------------------------------------------------------------
(* Deactivation, on the runner.                                            *)

(* Seeded fault: a transition in progress does not keep another one out.   *)
MayDeactivateAnyTime(m) == state[m] \in {"active", "activating", "deactivating"}

MayDeactivate(m) == state[m] = "active"

(* deactivate_now(m) called with the stack s, up to withdraw()'s wait.     *)
DeactivateNow(m, s) ==
    \/ /\ ~MayDeactivate(m)
       /\ Republish(m)
       /\ stack' = s
       /\ UNCHANGED <<listening, events_, gateClosed, stale>>
    \/ /\ MayDeactivate(m)
       /\ SetState(m, "deactivating")
       /\ DropListeners(m)
       /\ Withdraw(m)
       /\ stack' = Append(s, MkFrame("deactivate", m, NoTrigger, "drain"))
       /\ stale' = stale \cup {<<tr, m>> : tr \in {x \in Triggers :
                       \E i \in 1..Len(queue) : queue[i] = MkTask("exec", m, x)}}

TaskDeactivate ==
    /\ Take("deactivate")
    /\ DeactivateNow(Head(queue).id, stack)
    /\ UNCHANGED <<delivery, closed, hostIn, grants, startup, shutdown, callers>>

(* WaitQuiescent() discounts the runner's own entries, so only the calls   *)
(* of other threads count.                                                 *)
Drained(m) == hostIn[m] = 0

DeactivateDrained ==
    /\ OnTop("deactivate", "drain")
    /\ Drained(Top.id)
    /\ stack' = GoTo("hook")
    /\ UNCHANGED <<registry, delivery, gates, grants, queue, stale, startup, shutdown,
                   callers>>

(* DeactivateAndUnregisterAllForShutdown() leaves the grant to the main    *)
(* thread; every other deactivation releases it.                           *)
Revoking == ~(Len(stack) > 1 /\ stack[Len(stack) - 1].fn = "shutdown")

Deactivated ==
    /\ state' = [state EXCEPT ![Top.id] = "inactive"]
    /\ minted' = IF Revoking THEN minted \ {Top.id} ELSE minted
    /\ stack' = GoTo("fail")
    /\ UNCHANGED <<grt, listening, events_, delivery, gates, bound, queue, stale, startup,
                   shutdown, callers>>

(* Seeded fault: the wait for the calls inside has no bound.               *)
DeactivateNeverTimesOut == FALSE /\ Deactivated

(* A call is still inside after kEntryDrainTimeoutMs: no hook.             *)
DeactivateTimesOut ==
    /\ OnTop("deactivate", "drain")
    /\ ~Drained(Top.id)
    /\ Deactivated

DeactivateReturns ==
    /\ OnTop("deactivate", "hook")
    /\ Deactivated

(* fail_awaiting(): one FailListener() per trigger the module still owes.  *)
FailAwaiting(tr) ==
    /\ OnTop("deactivate", "fail")
    /\ Top.id \in awaiting[tr]
    /\ TakeAnswer(tr, Top.id)
    /\ UNCHANGED <<registry, fired, posts, gates, grants, runner, startup, shutdown,
                   callers>>

(* The scope guard publishes the record last, when the askers are told.    *)
DeactivateDone ==
    /\ OnTop("deactivate", "fail")
    /\ \A tr \in Triggers : Top.id \notin awaiting[tr]
    /\ Republish(Top.id)
    /\ stack' = Below
    /\ UNCHANGED <<listening, events_, delivery, gates, grants, queue, stale, startup,
                   shutdown, callers>>

-----------------------------------------------------------------------------
(* The exec task TriggerEvent() posted.                                    *)

(* Refused by either gate: FailListener(), which may find it answered.     *)
TaskExecRefused ==
    /\ Take("exec")
    /\ closed \/ Head(queue).id \in gateClosed
    /\ TakeAnswer(Head(queue).tr, Head(queue).id)
    /\ UNCHANGED <<registry, fired, posts, gates, grants, stack, stale, startup,
                   shutdown, callers>>

TaskExec ==
    /\ Take("exec")
    /\ ~closed
    /\ Head(queue).id \notin gateClosed
    /\ stack' = Append(stack, MkFrame("exec", Head(queue).id, Head(queue).tr, "hook"))
    /\ UNCHANGED <<registry, delivery, gates, grants, stale, startup, shutdown, callers>>

(* rc >= 0: the module answers, or has answered, on its own.               *)
ExecReturns ==
    /\ OnTop("exec", "hook")
    /\ stack' = Below
    /\ UNCHANGED <<registry, delivery, gates, grants, queue, stale, startup, shutdown,
                   callers>>

ExecFails ==
    /\ OnTop("exec", "hook")
    /\ TakeAnswer(Top.tr, Top.id)
    /\ stack' = Below
    /\ UNCHANGED <<registry, fired, posts, gates, grants, queue, stale, startup,
                   shutdown, callers>>

-----------------------------------------------------------------------------
(* Startup: the scan thread, then one load task per package.               *)

(* Phase one over all packages, then SetNeedRegisterModulesNum.            *)
ScanVerifies ==
    /\ scan = -1
    /\ scan' = 0
    /\ need' = IF need = -1 THEN Len(Packages) ELSE need
    /\ UNCHANGED <<registry, delivery, gates, grants, runner, registered, shutdown, callers>>

ScanPosts ==
    /\ scan \in 0..(Len(Packages) - 1)
    /\ scan' = scan + 1
    /\ Post(MkTask("load", Packages[scan + 1], NoTrigger))
    /\ UNCHANGED <<registry, delivery, gates, grants, stack, stale, need, registered,
                   shutdown, callers>>

ScanDone == scan = Len(Packages)

(* Seeded fault: a refusal forgets the count startup waits for.            *)
DropExpectedForgotten == UNCHANGED need

(* DropFromExpectedRegistrations(): only while startup still waits.        *)
DropExpected == need' = IF need > registered THEN need - 1 ELSE need

(* LoadPreparedModule(): not verified in phase one, or overtaken by        *)
(* shutdown.                                                               *)
TaskLoadRefused ==
    /\ Take("load")
    /\ DropExpected
    /\ UNCHANGED <<registry, delivery, gates, grants, stack, stale, scan, registered,
                   shutdown, callers>>

TaskLoad ==
    /\ Take("load")
    /\ ~closed
    /\ stack' = Append(stack, MkFrame("load", Head(queue).id, NoTrigger, "host"))
    /\ UNCHANGED <<registry, delivery, gates, grants, stale, startup, shutdown, callers>>

(* Changed since it was verified, not loadable, not who it says it is.     *)
LoadRefused ==
    /\ OnTop("load", "host")
    /\ DropExpected
    /\ stack' = Below
    /\ UNCHANGED <<registry, delivery, gates, grants, queue, stale, scan, registered,
                   shutdown, callers>>

LoadDone ==
    /\ OnTop("load", "host")
    /\ Post(MkTask("register", Top.id, NoTrigger))
    /\ stack' = Below
    /\ UNCHANGED <<registry, delivery, gates, grants, stale, startup, shutdown, callers>>

(* RegisterLoadedModule()'s task.  A second module with the same id is     *)
(* refused, and counted.                                                   *)
TaskRegisterRefused ==
    /\ Take("register")
    /\ state[Head(queue).id] # "none"
    /\ registered' = registered + 1
    /\ UNCHANGED <<registry, delivery, gates, grants, stack, stale, scan, need, shutdown,
                   callers>>

TaskRegister ==
    /\ Take("register")
    /\ state[Head(queue).id] = "none"
    /\ SetState(Head(queue).id, "registered")
    /\ stack' = Append(stack, MkFrame("register", Head(queue).id, NoTrigger, "host"))
    /\ UNCHANGED <<listening, events_, delivery, gates, grants, stale, startup, shutdown,
                   callers>>

(* The stored settings say auto_activate.                                  *)
RegisterActivates ==
    /\ OnTop("register", "host")
    /\ ActivateNow(Top.id, GoTo("wait"))
    /\ UNCHANGED <<delivery, closed, hostIn, queue, stale, startup, shutdown, callers>>

(* They do not, or activate_now() has returned: decided, and counted.      *)
RegisterDone ==
    /\ OnTop("register", "host") \/ OnTop("register", "wait")
    /\ registered' = registered + 1
    /\ stack' = Below
    /\ UNCHANGED <<registry, delivery, gates, grants, queue, stale, scan, need, shutdown,
                   callers>>

-----------------------------------------------------------------------------
(* Shutdown, the task on the runner.                                       *)

TaskShutdown ==
    LET all == {m \in Modules : state[m] # "none"} IN
    /\ Take("shutdown")
    /\ ids' = all
    /\ toDeactivate' = all
    /\ toUnregister' = all
    /\ beneath' = {stack[i].id : i \in {j \in 1..Len(stack) : Lifecycle(stack[j])}}
    /\ stack' = Append(stack, MkFrame("shutdown", NoModule, NoTrigger, "host"))
    /\ UNCHANGED <<registry, delivery, gates, grants, stale, startup, main, toSweep,
                   sweeping, swept, callers>>

ShutdownDeactivates(m) ==
    /\ OnTop("shutdown", "host")
    /\ m \in toDeactivate
    /\ toDeactivate' = toDeactivate \ {m}
    /\ DeactivateNow(m, stack)
    /\ UNCHANGED <<delivery, closed, hostIn, grants, queue, startup, main, ids, toUnregister,
                   toSweep, sweeping, swept, beneath, callers>>

ShutdownUnregisters(m) ==
    /\ OnTop("shutdown", "host")
    /\ toDeactivate = {}
    /\ m \in toUnregister
    /\ toUnregister' = toUnregister \ {m}
    /\ stack' = Append(stack, MkFrame("unregister", m, NoTrigger, "hook"))
    /\ UNCHANGED <<registry, delivery, gates, grants, queue, stale, startup, main, ids,
                   toDeactivate, toSweep, sweeping, swept, beneath, callers>>

UnregisterReturns ==
    /\ OnTop("unregister", "hook")
    /\ stack' = Below
    /\ UNCHANGED <<registry, delivery, gates, grants, queue, stale, startup, shutdown,
                   callers>>

(* The promise is set; the main thread sees it in ShutdownAwaited, unless  *)
(* it has given up.                                                        *)
ShutdownTaskDone ==
    /\ OnTop("shutdown", "host")
    /\ toDeactivate = {} /\ toUnregister = {}
    /\ stack' = Below
    /\ main' = IF main = "waiting" THEN "promised" ELSE main
    /\ UNCHANGED <<registry, delivery, gates, grants, queue, stale, startup, ids,
                   toDeactivate, toUnregister, toSweep, sweeping, swept, beneath,
                   callers>>

-----------------------------------------------------------------------------
(* Shutdown, ShutdownGpgFrontendModules() on the main thread.              *)

MainGoes(from, to) ==
    /\ main = from
    /\ main' = to
    /\ UNCHANGED <<registry, delivery, gateClosed, hostIn, bound, stack, stale, startup,
                   ids, toDeactivate, toUnregister, beneath, callers>>

(* Step 1: close the process-wide gate, then join the scan thread.         *)
ShutdownBegins ==
    /\ MainGoes("running", "joining")
    /\ closed' = TRUE
    /\ UNCHANGED <<minted, queue, toSweep, sweeping, swept>>

(* Step 2: one task for every hook, waited for with a bound.               *)
ShutdownPosts ==
    /\ MainGoes("joining", "waiting")
    /\ ScanDone
    /\ Post(MkTask("shutdown", NoModule, NoTrigger))
    /\ UNCHANGED <<closed, minted, toSweep, sweeping, swept>>

ShutdownAwaited ==
    /\ MainGoes("promised", "quiescing")
    /\ toSweep' = ids
    /\ UNCHANGED <<closed, minted, queue, sweeping, swept>>

(* Seeded fault: nothing is waited for.                                    *)
InsideForgotten == FALSE

(* Calls the process-wide gate counts that are not the main thread's own.  *)
Inside ==
    \/ \E m \in Modules : hostIn[m] > 0
    \/ \E i \in 1..Len(stack) : stack[i].fn \in {"load", "exec"}

(* Seeded fault: the shutdown task is waited for without a bound.          *)
ShutdownGivesUpLate ==
    /\ MainGoes("quiescing", "done")
    /\ Inside
    /\ UNCHANGED <<closed, minted, queue, toSweep, sweeping, swept>>

(* kLifecycleTimeoutMs or kQuiesceTimeoutMs passed: nothing is freed.      *)
ShutdownGivesUp ==
    /\ \/ MainGoes("waiting", "done")
       \/ MainGoes("quiescing", "done") /\ Inside
    /\ UNCHANGED <<closed, minted, queue, toSweep, sweeping, swept>>

(* Step 3: the gate went quiet.                                            *)
ShutdownQuiet ==
    /\ MainGoes("quiescing", "sweeping")
    /\ ~Inside
    /\ UNCHANGED <<closed, minted, queue, toSweep, sweeping, swept>>

(* Step 4, per module: revoke ...                                          *)
ShutdownRevokes(m) ==
    /\ MainGoes("sweeping", "sweeping")
    /\ sweeping = NoModule
    /\ m \in toSweep
    /\ minted' = minted \ {m}
    /\ sweeping' = m
    /\ UNCHANGED <<closed, queue, toSweep, swept>>

(* ... wait for the SDK call a module thread may still be in, and sweep;   *)
(* after kSdkIdleTimeoutMs, leave its handles alone.                       *)
ShutdownSweeps ==
    /\ MainGoes("sweeping", "sweeping")
    /\ sweeping # NoModule
    /\ swept' = IF publishing[sweeping] = "none" THEN swept \cup {sweeping} ELSE swept
    /\ toSweep' = toSweep \ {sweeping}
    /\ sweeping' = NoModule
    /\ UNCHANGED <<closed, minted, queue>>

ShutdownEnds ==
    /\ MainGoes("sweeping", "done")
    /\ sweeping = NoModule
    /\ toSweep = {}
    /\ UNCHANGED <<closed, minted, queue, toSweep, sweeping, swept>>

-----------------------------------------------------------------------------
(* What the runner does on its own, and what module code must return for.  *)
RunnerStep ==
    \/ TaskActivate \/ ActivateFails
    \/ TaskDeactivate \/ DeactivateDrained \/ DeactivateTimesOut \/ DeactivateDone
    \/ \E tr \in Triggers : FailAwaiting(tr)
    \/ TaskExecRefused \/ TaskExec
    \/ TaskLoadRefused \/ TaskLoad \/ LoadRefused \/ LoadDone
    \/ TaskRegisterRefused \/ TaskRegister \/ RegisterActivates \/ RegisterDone
    \/ TaskShutdown \/ ShutdownTaskDone
    \/ \E m \in Modules : ShutdownDeactivates(m) \/ ShutdownUnregisters(m)

HookReturns ==
    \/ ActivateReturnsOk \/ ActivateReturnsError
    \/ DeactivateReturns \/ UnregisterReturns
    \/ ExecReturns \/ ExecFails

ScanStep == ScanVerifies \/ ScanPosts

MainStep ==
    \/ ShutdownPosts \/ ShutdownGivesUp \/ ShutdownAwaited \/ ShutdownQuiet
    \/ ShutdownSweeps \/ ShutdownEnds
    \/ \E m \in Modules : ShutdownRevokes(m)

(* Whatever asks something of the module system: users, events, modules.   *)
Environment ==
    \/ ShutdownBegins
    \/ \E m \in Modules : \/ ActiveModule(m) \/ DeactivateModule(m)
                          \/ HostEnters(m) \/ HostLeaves(m)
                          \/ PublishReads(m) \/ PublishWrites(m)
    \/ \E m \in Modules, e \in Events : ListenEvent(m, e) \/ ListenEventOnThread(m, e)
    \/ \E tr \in Triggers : TriggerEvent(tr)
    \/ \E tr \in Triggers, m \in Modules : AnswerEvent(tr, m)

Posting == \E tr \in Triggers, m \in Modules : PostExec(tr, m)

Next == RunnerStep \/ HookReturns \/ ScanStep \/ MainStep \/ Environment \/ Posting

Spec == Init /\ [][Next]_vars

(* The host's own threads run.  Module code need not return, an answer     *)
(* need not come.                                                          *)
HostFairness ==
    /\ WF_vars(RunnerStep) /\ WF_vars(ScanStep) /\ WF_vars(MainStep) /\ WF_vars(Posting)

FairSpec == Spec /\ HostFairness

-----------------------------------------------------------------------------
RegistryOK ==
    /\ state \in [Modules -> States]
    /\ listening \in [Modules -> SUBSET Events]
    /\ events_ \in [Events -> SUBSET Modules]
    /\ grt \in [Modules -> States]

DeliveryOK ==
    /\ awaiting \in [Triggers -> SUBSET Modules]
    /\ fired \in SUBSET Triggers
    /\ posts \in [Triggers -> SUBSET Modules]
    /\ replies \in [Triggers -> [Modules \cup {NoModule} -> Nat]]

GatesOK ==
    /\ closed \in BOOLEAN
    /\ gateClosed \in SUBSET Modules
    /\ hostIn \in [Modules -> Nat]
    /\ minted \in SUBSET Modules
    /\ bound \in SUBSET Modules

RunnerOK ==
    /\ queue \in Seq(Task)
    /\ stack \in Seq(Frame)
    /\ stale \in SUBSET (Triggers \X Modules)

StartupOK ==
    /\ scan \in -1..Len(Packages)
    /\ need \in Nat \cup {-1}
    /\ registered \in Nat

ShutdownOK ==
    /\ main \in {"running", "joining", "waiting", "promised", "quiescing",
                 "sweeping", "done"}
    /\ ids \in SUBSET Modules
    /\ toDeactivate \in SUBSET Modules
    /\ toUnregister \in SUBSET Modules
    /\ toSweep \in SUBSET Modules
    /\ sweeping \in Modules \cup {NoModule}
    /\ swept \in SUBSET Modules
    /\ beneath \in SUBSET Modules

CallersOK ==
    /\ publishing \in [Modules -> States \cup {"due"}]
    /\ toggles \in Nat

(* The types of the whole state: what each table, queue and frame of the   *)
(* module system holds.                                                    *)
TypeOK ==
    /\ RegistryOK /\ DeliveryOK /\ GatesOK /\ RunnerOK
    /\ StartupOK /\ ShutdownOK /\ CallersOK

(* The frames of the runner that are running fn for m.                     *)
FramesOf(fn, m) == {i \in 1..Len(stack) : stack[i].fn = fn /\ stack[i].id = m}

(* A listener that owes an answer is active, or its deactivation is still  *)
(* under way and will fail the trigger: no caller is left waiting on a     *)
(* module that is gone.                                                    *)
NoOrphanedTrigger ==
    \A tr \in Triggers : \A m \in awaiting[tr] :
        state[m] = "active" \/ FramesOf("deactivate", m) # {}

(* The registry, the gates and the runner together implement EventDelivery *)
(* with the awaiting sets as what is owed: queues, failures, deactivation, *)
(* reactivation and shutdown never lose or repeat an answer.               *)
Delivery == INSTANCE EventDelivery WITH owed <- awaiting
ImplementsDelivery == Delivery!Spec

(* The two tables of subscriptions agree, and only a module that is active *)
(* or becoming so is in them.                                              *)
ListenersConsistent ==
    \A m \in Modules :
        /\ \A e \in Events : e \in listening[m] <=> m \in events_[e]
        /\ listening[m] # {} => state[m] \in {"activating", "active"}

(* A module's deactivate hook runs with no other thread inside the module, *)
(* and a transition of a module never runs inside another one of it.       *)
HooksAlone ==
    \A m \in Modules :
        /\ \A i, j \in FramesOf("activate", m) \cup FramesOf("deactivate", m) : i = j
        /\ \A i \in FramesOf("deactivate", m) : stack[i].at = "hook" => hostIn[m] = 0

(* A module's handles are wiped only when nothing of it runs any more: no  *)
(* hook, no call from another thread, no SDK call, and no way back in,     *)
(* whatever else hooks that spin event loops run meanwhile.  Not so for a  *)
(* module in whose own hook such a loop took the shutdown task.            *)
SweptIsSilent ==
    \A m \in swept \ beneath :
        /\ m \notin minted
        /\ m \in bound => m \in gateClosed
        /\ hostIn[m] = 0
        /\ publishing[m] = "none"
        /\ \A i \in 1..Len(stack) : stack[i].id # m

(* IsAllModulesRegistered()                                                *)
AllRegistered == need # -1 /\ need = registered

(* What a module's author owes the host.                                   *)
HooksReturn == WF_vars(HookReturns)

(* When hooks return, startup ends, whatever packages are refused or       *)
(* modules fail, unless the process ends first.                            *)
StartupSettles == HooksReturn => <>(AllRegistered \/ main = "done")

(* When hooks return, every deactivation ends, whatever calls stay inside  *)
(* the module, and then nobody waits for it.                               *)
DeactivationEnds ==
    HooksReturn => \A m \in Modules :
        state[m] = "deactivating" ~>
            \/ state[m] # "deactivating" /\ \A tr \in Triggers : m \notin awaiting[tr]
            \/ main = "done"

(* Shutdown ends even when a module's hook never returns: every wait of it *)
(* has a bound.                                                            *)
ShutdownReturns == main = "joining" ~> main = "done"

(* "a call queued before a deactivation cannot enter the module after it": *)
(* the exec task asks the gates when it runs, by which time the module may *)
(* have been activated again (ModuleDispatchGate.h).                       *)
NoStaleEntry ==
    \A i \in 1..Len(stack) :
        stack[i].fn = "exec" => <<stack[i].tr, stack[i].id>> \notin stale

(* "calls racing each other still leave the table showing the latest       *)
(* state": when nothing is about to publish a module's record, the         *)
(* register table shows its state.  publish_module() does not keep this:   *)
(* it writes after the lock what it read under it, so PublishWrites() of a *)
(* module's thread may come long after PublishReads().                     *)
MirrorCurrent ==
    \A m \in Modules :
        publishing[m] = "none" /\ FramesOf("deactivate", m) = {} => grt[m] = state[m]

(* "Every lifecycle task has finished by now (step 2 waited for them)":    *)
(* when ShutdownGpgFrontendModules() has come to its last step, with the   *)
(* handles swept, no lifecycle task runs.                                  *)
NoLateLifecycle ==
    main = "sweeping" /\ toSweep = {} /\ sweeping = NoModule
        => \A i \in 1..Len(stack) : ~Lifecycle(stack[i])

(* "each module's unregister hook must run after its deactivate hook has   *)
(* returned, never beside it": DeactivateAndUnregisterAllForShutdown(),    *)
(* when a loop inside that deactivate hook took the shutdown task.         *)
UnregisterAlone ==
    \A m \in Modules : \A i \in FramesOf("deactivate", m) :
        stack[i].at = "hook" => FramesOf("unregister", m) = {}

=============================================================================
