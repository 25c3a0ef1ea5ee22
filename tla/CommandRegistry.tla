-------------------------- MODULE CommandRegistry --------------------------
(***************************************************************************)
(* The one registry every command goes through:                            *)
(* src/ui/command/CommandRegistry.cpp, with the gates its callers in       *)
(* src/sdk/host/GFHostCommand.cpp put around module code and the           *)
(* withdrawal src/ui/command/ModuleUiTeardown.cpp makes of it.             *)
(*                                                                         *)
(* mutex_ guards the tables and is held for single sections only; each is  *)
(* one step.  A call's `delivery` mutex is held while its `done` runs, so  *)
(* threads have call stacks: `done` may cancel, finish or invoke other     *)
(* calls.  Who holds a delivery mutex can be read off the stacks.          *)
(* Arguments, results and blobs are payload and left out.                  *)
(***************************************************************************)
EXTENDS Naturals, Sequences

CONSTANTS
    Modules,
    Host,             \* the owner and caller with the empty module id
    Commands,
    OwnerOf,          \* who provides each command
    MayInvoke,        \* the commands whose capabilities each module has, less
                      \* those for the Host only
    Calls,            \* one per Invoke()
    CallerOf, CommandOf,
    Threads,
    Runner,           \* the module runner's thread
    NoModule,
    MaxRegistrations, \* bound: registrations of one command
    MaxNest           \* bound: depth of a thread's stack

ASSUME RegistryAssumption ==
    /\ Host \notin Modules
    /\ NoModule \notin Modules
    /\ OwnerOf \in [Commands -> Modules \cup {Host}]
    /\ MayInvoke \in [Modules -> SUBSET Commands]
    /\ CallerOf \in [Calls -> Modules \cup {Host}]
    /\ CommandOf \in [Calls -> Commands]
    /\ Runner \in Threads
    /\ MaxRegistrations \in [Commands -> Nat] /\ MaxNest \in Nat

VARIABLES
    providers_,    \* which registration of a command is current, 0 for none
    registrations, \* how many there have been
    closed_,       \* modules withdrawn and not reopened
    shut,          \* modules whose entry gate is closed
    invoke,        \* how far each Invoke() and its run has come
    provider,      \* the registration Invoke() looked up
    pending_,
    cancelled, finished, armed,  \* Pending: the flags, and whether done is set
    stack,         \* the delivery-related frames of each thread
    removing,      \* the module RemoveAllFor() is withdrawing
    made, provided,
    ran,           \* history: how often each call's done ran
    cancelOk,      \* history: calls a Cancel() has answered GF_CMD_OK for
    cancelReturned \* history: calls a Cancel() has returned for at all

tables == <<providers_, registrations, closed_, shut>>
calls == <<invoke, provider>>
flags == <<pending_, cancelled, finished, armed>>
removal == <<removing, made, provided>>
history == <<ran, cancelOk, cancelReturned>>
vars == <<tables, calls, flags, stack, removal, history>>

Init ==
    /\ providers_ = [c \in Commands |-> 0]
    /\ registrations = [c \in Commands |-> 0]
    /\ closed_ = {}
    /\ shut = {}
    /\ invoke = [k \in Calls |-> "none"]
    /\ provider = [k \in Calls |-> 0]
    /\ pending_ = {}
    /\ cancelled = {}
    /\ finished = {}
    /\ armed = {}
    /\ stack = [t \in Threads |-> <<>>]
    /\ removing = NoModule
    /\ made = {}
    /\ provided = {}
    /\ ran = [k \in Calls |-> 0]
    /\ cancelOk = {}
    /\ cancelReturned = {}

-----------------------------------------------------------------------------
(* Threads and their frames.                                               *)

Frame ==
    [op : {"deliver"}, call : Calls, at : {"lock", "erase", "decide", "call", "done"}]
    \cup [op : {"cancel"}, call : Calls, at : {"flag", "lock"}]
    \cup [op : {"remove"}, call : {NoModule}, at : {"close", "work"}]

MkFrame(op, k, at) == [op |-> op, call |-> k, at |-> at]
Top(t) == stack[t][Len(stack[t])]
On(t, op, at) == stack[t] # <<>> /\ Top(t).op = op /\ Top(t).at = at
Push(t, f) == stack' = [stack EXCEPT ![t] = Append(@, f)]
Pop(t) == stack' = [stack EXCEPT ![t] = SubSeq(@, 1, Len(@) - 1)]
GoTo(t, at) == stack' = [stack EXCEPT ![t][Len(stack[t])].at = at]

(* A thread runs something new when it is idle or inside a done.           *)
Free(t) == stack[t] # <<>> => Top(t).at = "done" /\ Len(stack[t]) < MaxNest

FramesOf(k) ==
    {f \in UNION {{t} \X DOMAIN stack[t] : t \in Threads} :
        stack[f[1]][f[2]].op = "deliver" /\ stack[f[1]][f[2]].call = k}

(* Another thread has k's delivery mutex; it is recursive.                 *)
LockedOut(t, k) ==
    \E f \in FramesOf(k) : f[1] # t /\ stack[f[1]][f[2]].at # "lock"

-----------------------------------------------------------------------------
(* Registration.  The namespace and manifest checks concern the id alone.  *)

Register(c) ==
    /\ OwnerOf[c] \notin closed_
    /\ providers_[c] = 0
    /\ registrations[c] < MaxRegistrations[c]
    /\ registrations' = [registrations EXCEPT ![c] = @ + 1]
    /\ providers_' = [providers_ EXCEPT ![c] = registrations[c] + 1]
    /\ UNCHANGED <<closed_, shut, calls, flags, stack, removal, history>>

Unregister(c) ==
    /\ providers_[c] # 0
    /\ providers_' = [providers_ EXCEPT ![c] = 0]
    /\ UNCHANGED <<registrations, closed_, shut, calls, flags, stack, removal, history>>

-----------------------------------------------------------------------------
(* Invoke(), and the run it makes or queues.                               *)

(* Its first section asks whether the caller has been withdrawn.           *)
InvokeChecks(k) ==
    /\ invoke[k] = "none"
    /\ invoke' = [invoke EXCEPT ![k] = IF CallerOf[k] \in closed_ THEN "refused"
                                                                  ELSE "checked"]
    /\ UNCHANGED <<tables, provider, flags, stack, removal, history>>

(* Unknown, not allowed, or disabled; the last is the command's to say.    *)
InvokeRefused(k) ==
    /\ invoke[k] = "checked"
    /\ invoke' = [invoke EXCEPT ![k] = "refused"]
    /\ UNCHANGED <<tables, provider, flags, stack, removal, history>>

InvokeLooksUp(k) ==
    /\ invoke[k] = "checked"
    /\ providers_[CommandOf[k]] # 0
    /\ CallerOf[k] # Host => CommandOf[k] \in MayInvoke[CallerOf[k]]
    /\ provider' = [provider EXCEPT ![k] = providers_[CommandOf[k]]]
    /\ invoke' = [invoke EXCEPT ![k] = "found"]
    /\ UNCHANGED <<tables, flags, stack, removal, history>>

InvokeAccepts(k) ==
    /\ invoke[k] = "found"
    /\ invoke' = [invoke EXCEPT ![k] = "accepted"]
    /\ pending_' = pending_ \cup {k}
    /\ armed' = armed \cup {k}
    /\ UNCHANGED <<tables, provider, cancelled, finished, stack, removal, history>>

(* Finish(): a call that is not pending any more is left alone.            *)
Finish(t, k) ==
    IF k \in pending_ THEN Push(t, MkFrame("deliver", k, "lock")) ELSE UNCHANGED stack

RunCancelled(k) ==
    /\ invoke[k] = "accepted"
    /\ k \in cancelled
    /\ invoke' = [invoke EXCEPT ![k] = "over"]
    /\ UNCHANGED <<tables, provider, flags, stack, removal, history>>

(* Seeded fault: any registration of the command will do.                  *)
SameProviderAny(k) == TRUE

(* Lookup(provider->id) == provider                                        *)
SameProvider(k) == providers_[CommandOf[k]] = provider[k]

RunProviderGone(t, k) ==
    /\ Free(t)
    /\ invoke[k] = "accepted"
    /\ k \notin cancelled
    /\ ~SameProvider(k)
    /\ invoke' = [invoke EXCEPT ![k] = "over"]
    /\ Finish(t, k)
    /\ UNCHANGED <<tables, provider, flags, removal, history>>

Run(k) ==
    /\ invoke[k] = "accepted"
    /\ k \notin cancelled
    /\ SameProvider(k)
    /\ invoke' = [invoke EXCEPT ![k] = "calling"]
    /\ UNCHANGED <<tables, provider, flags, stack, removal, history>>

(* provider->run: a module's handler is entered through its gate, possibly *)
(* later, on the runner.                                                   *)
ProviderEntered(k) ==
    /\ invoke[k] = "calling"
    /\ OwnerOf[CommandOf[k]] \notin shut
    /\ invoke' = [invoke EXCEPT ![k] = "served"]
    /\ UNCHANGED <<tables, provider, flags, stack, removal, history>>

ProviderUnloading(t, k) ==
    /\ Free(t)
    /\ invoke[k] = "calling"
    /\ OwnerOf[CommandOf[k]] \in shut
    /\ invoke' = [invoke EXCEPT ![k] = "over"]
    /\ Finish(t, k)
    /\ UNCHANGED <<tables, provider, flags, removal, history>>

(* The provider completes the call; nothing keeps it from doing so twice.  *)
Complete(t, k) ==
    /\ Free(t)
    /\ invoke[k] = "served"
    /\ k \in pending_
    /\ Finish(t, k)
    /\ UNCHANGED <<tables, calls, flags, removal, history>>

-----------------------------------------------------------------------------
(* Deliver()                                                               *)

DeliverLocks(t) ==
    /\ On(t, "deliver", "lock")
    /\ ~LockedOut(t, Top(t).call)
    /\ GoTo(t, "erase")
    /\ UNCHANGED <<tables, calls, flags, removal, history>>

(* Seeded fault: the call stays in pending_ while its done runs.           *)
DeliverKeepsPending(t) ==
    /\ On(t, "deliver", "erase")
    /\ GoTo(t, "decide")
    /\ UNCHANGED <<tables, calls, flags, removal, history>>

DeliverErases(t) ==
    /\ On(t, "deliver", "erase")
    /\ pending_' = pending_ \ {Top(t).call}
    /\ GoTo(t, "decide")
    /\ UNCHANGED <<tables, calls, cancelled, finished, armed, removal, history>>

(* Seeded fault: a second delivery is not told apart.                      *)
OverUnlessCancelled(k) == k \in cancelled

Over(k) == k \in cancelled \cup finished

DeliverIgnored(t) ==
    /\ On(t, "deliver", "decide")
    /\ Over(Top(t).call)
    /\ Pop(t)
    /\ UNCHANGED <<tables, calls, flags, removal, history>>

DeliverClaims(t) ==
    /\ On(t, "deliver", "decide")
    /\ ~Over(Top(t).call)
    /\ finished' = finished \cup {Top(t).call}
    /\ armed' = armed \ {Top(t).call}
    /\ GoTo(t, "call")
    /\ UNCHANGED <<tables, calls, pending_, cancelled, removal, history>>

(* done: a module caller's is entered through its gate, or dropped there.  *)
DeliverCalls(t) ==
    /\ On(t, "deliver", "call")
    /\ ran' = [ran EXCEPT ![Top(t).call] = @ + 1]
    /\ IF CallerOf[Top(t).call] \in shut THEN Pop(t) ELSE GoTo(t, "done")
    /\ UNCHANGED <<tables, calls, flags, removal, cancelOk, cancelReturned>>

DoneReturns(t) ==
    /\ On(t, "deliver", "done")
    /\ Pop(t)
    /\ UNCHANGED <<tables, calls, flags, removal, history>>

-----------------------------------------------------------------------------
(* Cancel()                                                                *)

CancelUnknown(t, k) ==
    /\ Free(t)
    /\ invoke[k] \in {"accepted", "calling", "served", "over"}
    /\ k \notin pending_
    /\ cancelReturned' = cancelReturned \cup {k}
    /\ UNCHANGED <<tables, calls, flags, stack, removal, ran, cancelOk>>

(* Seeded fault: the call is taken out of pending_ when it is found.       *)
CancelTakes(t, k) ==
    /\ Free(t)
    /\ k \in pending_
    /\ pending_' = pending_ \ {k}
    /\ Push(t, MkFrame("cancel", k, "flag"))
    /\ UNCHANGED <<tables, calls, cancelled, finished, armed, removal, history>>

CancelFinds(t, k) ==
    /\ Free(t)
    /\ k \in pending_
    /\ Push(t, MkFrame("cancel", k, "flag"))
    /\ UNCHANGED <<tables, calls, flags, removal, history>>

CancelFlags(t) ==
    /\ On(t, "cancel", "flag")
    /\ cancelled' = cancelled \cup {Top(t).call}
    /\ GoTo(t, "lock")
    /\ UNCHANGED <<tables, calls, pending_, finished, armed, removal, history>>

(* Seeded fault: the delivery under way is not waited for.                 *)
CancelClearsUnlocked(t) ==
    /\ On(t, "cancel", "lock")
    /\ armed' = armed \ {Top(t).call}
    /\ pending_' = pending_ \ {Top(t).call}
    /\ cancelOk' = cancelOk \cup {Top(t).call}
    /\ cancelReturned' = cancelReturned \cup {Top(t).call}
    /\ Pop(t)
    /\ UNCHANGED <<tables, calls, cancelled, finished, removal, ran>>

(* What is left happens under the delivery mutex, unseen by other threads. *)
CancelClears(t) ==
    /\ On(t, "cancel", "lock")
    /\ ~LockedOut(t, Top(t).call)
    /\ armed' = armed \ {Top(t).call}
    /\ pending_' = pending_ \ {Top(t).call}
    /\ cancelOk' = cancelOk \cup {Top(t).call}
    /\ cancelReturned' = cancelReturned \cup {Top(t).call}
    /\ Pop(t)
    /\ UNCHANGED <<tables, calls, cancelled, finished, removal, ran>>

-----------------------------------------------------------------------------
(* Withdrawal of a module, on the runner: Module::withdraw() closes the    *)
(* gate, then ModuleUiTeardown() calls RemoveAllFor().                     *)

GateCloses(m) ==
    /\ Free(Runner)
    /\ removing = NoModule
    /\ m \notin shut
    /\ shut' = shut \cup {m}
    /\ removing' = m
    /\ Push(Runner, MkFrame("remove", NoModule, "close"))
    /\ UNCHANGED <<providers_, registrations, closed_, calls, flags, made, provided, history>>

(* Seeded fault: the calls the module serves are forgotten.                *)
ServedForgotten(m) == {}

(* Pending calls the module serves for somebody else.                      *)
ServedBy(m) == {k \in pending_ : CallerOf[k] # m /\ OwnerOf[CommandOf[k]] = m}

RemoveAllFor(m) ==
    /\ On(Runner, "remove", "close")
    /\ removing = m
    /\ GoTo(Runner, "work")
    /\ closed_' = closed_ \cup {m}
    /\ providers_' = [c \in Commands |-> IF OwnerOf[c] = m THEN 0 ELSE providers_[c]]
    /\ made' = {k \in pending_ : CallerOf[k] = m}
    /\ provided' = ServedBy(m)
    /\ UNCHANGED <<registrations, shut, calls, flags, removing, history>>

(* Cancel() for every call it made.                                        *)
RemoveCancels(k) ==
    /\ On(Runner, "remove", "work")
    /\ k \in made
    /\ made' = made \ {k}
    /\ IF k \in pending_ THEN Push(Runner, MkFrame("cancel", k, "flag"))
                         ELSE UNCHANGED stack
    /\ UNCHANGED <<tables, calls, flags, removing, provided, history>>

(* Deliver() for every call it was serving.                                *)
RemoveDelivers(k) ==
    /\ On(Runner, "remove", "work")
    /\ made = {}
    /\ k \in provided
    /\ provided' = provided \ {k}
    /\ Push(Runner, MkFrame("deliver", k, "lock"))
    /\ UNCHANGED <<tables, calls, flags, removing, made, history>>

RemoveReturns ==
    /\ On(Runner, "remove", "work")
    /\ made = {} /\ provided = {}
    /\ removing' = NoModule
    /\ Pop(Runner)
    /\ UNCHANGED <<tables, calls, flags, made, provided, history>>

(* The next activation, on the runner: Reopen(), then the gate opens.      *)
Reopen(m) ==
    /\ Free(Runner)
    /\ removing = NoModule
    /\ m \in closed_
    /\ closed_' = closed_ \ {m}
    /\ UNCHANGED <<providers_, registrations, shut, calls, flags, stack, removal, history>>

GateOpens(m) ==
    /\ Free(Runner)
    /\ m \in shut \ closed_
    /\ removing # m
    /\ shut' = shut \ {m}
    /\ UNCHANGED <<providers_, registrations, closed_, calls, flags, stack, removal, history>>

-----------------------------------------------------------------------------
(* What a thread does next once it is inside the registry or a done.       *)
ThreadStep(t) ==
    \/ DeliverLocks(t) \/ DeliverErases(t) \/ DeliverIgnored(t) \/ DeliverClaims(t)
    \/ DeliverCalls(t) \/ DoneReturns(t)
    \/ CancelFlags(t) \/ CancelClears(t)

RemoveStep ==
    \/ \E m \in Modules : RemoveAllFor(m)
    \/ \E k \in Calls : RemoveCancels(k) \/ RemoveDelivers(k)
    \/ RemoveReturns

InvokeStep(k) ==
    \/ InvokeAccepts(k) \/ RunCancelled(k) \/ Run(k) \/ ProviderEntered(k)
    \/ \E t \in Threads : RunProviderGone(t, k) \/ ProviderUnloading(t, k)

Environment ==
    \/ \E c \in Commands : Register(c) \/ Unregister(c)
    \/ \E k \in Calls : InvokeChecks(k) \/ InvokeRefused(k) \/ InvokeLooksUp(k)
    \/ \E t \in Threads, k \in Calls : Complete(t, k) \/ CancelUnknown(t, k) \/ CancelFinds(t, k)
    \/ \E m \in Modules : GateCloses(m) \/ Reopen(m) \/ GateOpens(m)

Next ==
    \/ \E t \in Threads : ThreadStep(t)
    \/ RemoveStep
    \/ \E k \in Calls : InvokeStep(k)
    \/ Environment

Spec == Init /\ [][Next]_vars

(* Threads inside the registry run on, callbacks return, whatever they     *)
(* call first, and what Invoke() accepted is run.  Providers need not      *)
(* complete anything.                                                      *)
FairSpec ==
    /\ Spec
    /\ \A t \in Threads : WF_vars(ThreadStep(t)) /\ SF_vars(DoneReturns(t))
    /\ WF_vars(RemoveStep)
    /\ \A k \in Calls : WF_vars(InvokeStep(k))

-----------------------------------------------------------------------------
(* The types of the registry's tables, calls, stacks and histories.        *)
TypeOK ==
    /\ registrations \in [Commands -> Nat]
    /\ providers_ \in [Commands -> Nat]
    /\ closed_ \in SUBSET Modules /\ shut \in SUBSET Modules
    /\ invoke \in [Calls -> {"none", "checked", "refused", "found", "accepted", "calling",
                             "served", "over"}]
    /\ provider \in [Calls -> Nat]
    /\ pending_ \in SUBSET Calls /\ cancelled \in SUBSET Calls
    /\ finished \in SUBSET Calls /\ armed \in SUBSET Calls
    /\ stack \in [Threads -> Seq(Frame)]
    /\ removing \in Modules \cup {NoModule}
    /\ made \in SUBSET Calls /\ provided \in SUBSET Calls
    /\ ran \in [Calls -> Nat]
    /\ cancelOk \in SUBSET Calls /\ cancelReturned \in SUBSET Calls

Accepted(k) == invoke[k] \in {"accepted", "calling", "served", "over"}
At(k, where) == {f \in FramesOf(k) : stack[f[1]][f[2]].at \in where}

(* done runs at most once, and only for a call Invoke() accepted, however  *)
(* often and from wherever the call is completed.                          *)
DoneOnce == \A k \in Calls : ran[k] <= IF Accepted(k) THEN 1 ELSE 0

(* When Cancel() has found the call and returned GF_CMD_OK, its done is    *)
(* not running and never starts.                                           *)
CancelIsFinal == \A k \in cancelOk : At(k, {"call", "done"}) = {}

(* An accepted call leaves pending_ only to be delivered or cancelled: no  *)
(* caller is forgotten.                                                    *)
NoCallLost ==
    \A k \in Calls :
        Accepted(k) /\ k \notin pending_ =>
            k \in finished \cup cancelled \/ At(k, {"decide"}) # {}

(* Once a module is withdrawn, whatever is still pending on a command of   *)
(* it has yet to find the provider gone, or is being delivered or          *)
(* cancelled.                                                              *)
WithdrawnServesNothing ==
    \A k \in pending_ :
        OwnerOf[CommandOf[k]] \in closed_ \ {removing} /\ CallerOf[k] \notin closed_ =>
            invoke[k] = "accepted" \/ k \in cancelled \/ FramesOf(k) # {}

(* Every call of a withdrawn provider ends, though the provider completes  *)
(* nothing: its caller is told.                                            *)
CallersAreTold ==
    \A k \in Calls :
        k \in pending_ /\ OwnerOf[CommandOf[k]] \in closed_ ~>
            k \notin pending_ \/ OwnerOf[CommandOf[k]] \notin closed_

Blocked(t) ==
    (On(t, "cancel", "lock") \/ On(t, "deliver", "lock")) /\ LockedOut(t, Top(t).call)

(* Callbacks that cancel each other's calls, or withdraw the module that   *)
(* serves them, never all wait for one another's delivery mutexes.         *)
NoStandstill ==
    (\E t \in Threads : Blocked(t)) => \E t \in Threads : stack[t] # <<>> /\ ~Blocked(t)

(* "After this returns, its `done` never runs": whatever Cancel() answered. *)
(* Deliver() erases the call before it runs the callback, and a cancel     *)
(* that finds nothing returns at once.                                     *)
CancelStopsDelivery == \A k \in cancelReturned : At(k, {"call"}) = {}

=============================================================================
