------------------------------ MODULE HostApi ------------------------------
(***************************************************************************)
(* The grants modules call the host with, and the handles those calls      *)
(* make: src/sdk/host/GFHostApiMint.cpp, GFHostAttribution.cpp, the handle *)
(* registry, and step 4 of ShutdownGpgFrontendModules(), which takes both  *)
(* back.                                                                   *)
(*                                                                         *)
(* A gated call is BeginCall() ... EndCall() on some thread; calls of one  *)
(* thread nest, since a primitive may run module code that calls another.  *)
(* The registry's mutex covers each function's body and is released only   *)
(* in call_ended.wait(), where WaitHostApiIdle() is split.  Left out are   *)
(* GFSdkEnterModule()'s brackets around the host's calls into a module: a  *)
(* handle is made inside a gated call, or for a module the host names.     *)
(***************************************************************************)
EXTENDS Integers, Sequences, FiniteSets

CONSTANTS
    Modules,
    NoOne,       \* the empty module id
    Grants,      \* capability masks a manifest may ask for
    Records,     \* the ContextRecords there is room for in this model
    NoRecord,
    Threads,
    Main,        \* the thread that shuts the module system down
    Calls,       \* gated calls; one may begin again once it has ended
    ThreadOf,
    Handles

ASSUME HostApiAssumption ==
    /\ NoOne \notin Modules /\ NoRecord \notin Records
    /\ 0 \in Grants
    /\ IsFiniteSet(Calls)
    /\ Main \in Threads
    /\ ThreadOf \in [Calls -> Threads]

VARIABLES
    owner,       \* by_context: whose record it is, NoOne before it is minted
    granted,
    live,
    by_id,
    in_flight,   \* ContextRecord::in_flight
    held,        \* HeldByThisThread(), per thread
    ticket,      \* the record each call was admitted with
    nest,        \* each thread's calls, innermost last
    current,     \* the module each thread is working for
    previous,    \* ScopedContextAttribution::previous_ of each call
    live_,       \* GFHandleRegistry: handles issued and not reclaimed
    issuedTo,    \* GFHandleOrigin::module_id
    phase,       \* how far Main is in the shutdown
    todo,        \* modules still to be swept
    now,         \* the one being swept
    swept,       \* history: modules whose handles have been reclaimed
    found        \* module_ids: the modules step 2 found registered

records == <<owner, granted, live, by_id>>
counts == <<in_flight, held>>
attribution == <<current, previous>>
ledger == <<live_, issuedTo>>
shutdown == <<phase, todo, now, swept, found>>
vars == <<records, counts, ticket, nest, attribution, ledger, shutdown>>

Phases == {"running", "next", "asleep", "awake", "expired", "idle", "over"}

Init ==
    /\ owner = [r \in Records |-> NoOne]
    /\ granted = [r \in Records |-> 0]
    /\ live = {}
    /\ by_id = [m \in Modules |-> NoRecord]
    /\ in_flight = [r \in Records |-> 0]
    /\ held = [t \in Threads |-> [r \in Records |-> 0]]
    /\ ticket = [k \in Calls |-> NoRecord]
    /\ nest = [t \in Threads |-> <<>>]
    /\ current = [t \in Threads |-> NoOne]
    /\ previous = [k \in Calls |-> NoOne]
    /\ live_ = {}
    /\ issuedTo = [h \in Handles |-> NoOne]
    /\ phase = "running"
    /\ todo = {}
    /\ now = NoOne
    /\ swept = {}
    /\ found = {}

-----------------------------------------------------------------------------
(* Minting and releasing, by the lifecycle tasks on the module runner.     *)

(* Step 2 has waited for those of the modules it found.  One registered    *)
(* behind its back may still be activated, and fail to be.                 *)
Undecided(m) == phase = "running" \/ m \notin found

MintAgain(m, g) == by_id[m] \in live /\ granted[by_id[m]] = g

(* Seeded fault: the record minted before stays live.                      *)
MintKeepsOld(m, g, r) ==
    /\ Undecided(m)
    /\ ~MintAgain(m, g)
    /\ owner[r] = NoOne
    /\ owner' = [owner EXCEPT ![r] = m]
    /\ granted' = [granted EXCEPT ![r] = g]
    /\ live' = live \cup {r}
    /\ by_id' = [by_id EXCEPT ![m] = r]
    /\ UNCHANGED <<counts, ticket, nest, attribution, ledger, shutdown>>

(* A live record with the same grant is handed out again, unchanged.       *)
MintHostApi(m, g, r) ==
    /\ Undecided(m)
    /\ ~MintAgain(m, g)
    /\ owner[r] = NoOne
    /\ owner' = [owner EXCEPT ![r] = m]
    /\ granted' = [granted EXCEPT ![r] = g]
    /\ live' = (live \ {by_id[m]}) \cup {r}
    /\ by_id' = [by_id EXCEPT ![m] = r]
    /\ UNCHANGED <<counts, ticket, nest, attribution, ledger, shutdown>>

ReleaseHostApi(m) ==
    /\ Undecided(m)
    /\ by_id[m] \in live
    /\ live' = live \ {by_id[m]}
    /\ UNCHANGED <<owner, granted, by_id, counts, ticket, nest, attribution, ledger, shutdown>>

-----------------------------------------------------------------------------
(* Gated calls.  Main makes none while it waits.                           *)

Free(t) == t = Main => phase \in {"running", "over"}
Innermost(k) == nest[ThreadOf[k]] # <<>> /\ nest[ThreadOf[k]][Len(nest[ThreadOf[k]])] = k

(* An unknown, revoked or insufficient context is refused without effect.  *)
(* The context presented may be an old one the module never forgot.  What  *)
(* capability is asked for depends on the entry point; the always-granted  *)
(* groups ask for none, so some call is admitted with every live context.  *)
BeginCall(k, r) ==
    LET t == ThreadOf[k] IN
    /\ ticket[k] = NoRecord
    /\ Free(t)
    /\ r \in live
    /\ in_flight' = [in_flight EXCEPT ![r] = @ + 1]
    /\ held' = [held EXCEPT ![t][r] = @ + 1]
    /\ ticket' = [ticket EXCEPT ![k] = r]
    /\ nest' = [nest EXCEPT ![t] = Append(@, k)]
    /\ previous' = [previous EXCEPT ![k] = current[t]]
    /\ current' = [current EXCEPT ![t] = owner[r]]
    /\ UNCHANGED <<records, ledger, shutdown>>

(* call_ended.wakeAll()                                                    *)
WakeAll == phase' = IF phase = "asleep" THEN "awake" ELSE phase

(* Seeded fault: the waiter is not woken.                                  *)
EndCallSilently(k) ==
    LET t == ThreadOf[k] IN
    /\ Innermost(k)
    /\ Free(t)
    /\ in_flight' = [in_flight EXCEPT ![ticket[k]] = @ - 1]
    /\ held' = [held EXCEPT ![t][ticket[k]] = IF @ - 1 <= 0 THEN 0 ELSE @ - 1]
    /\ ticket' = [ticket EXCEPT ![k] = NoRecord]
    /\ nest' = [nest EXCEPT ![t] = SubSeq(@, 1, Len(@) - 1)]
    /\ current' = [current EXCEPT ![t] = previous[k]]
    /\ UNCHANGED phase
    /\ UNCHANGED <<records, previous, ledger, todo, now, swept, found>>

(* Seeded fault: the attribution is cleared, not restored.                 *)
EndCallClears(k) ==
    LET t == ThreadOf[k] IN
    /\ Innermost(k)
    /\ Free(t)
    /\ in_flight' = [in_flight EXCEPT ![ticket[k]] = @ - 1]
    /\ held' = [held EXCEPT ![t][ticket[k]] = IF @ - 1 <= 0 THEN 0 ELSE @ - 1]
    /\ ticket' = [ticket EXCEPT ![k] = NoRecord]
    /\ nest' = [nest EXCEPT ![t] = SubSeq(@, 1, Len(@) - 1)]
    /\ current' = [current EXCEPT ![t] = NoOne]
    /\ WakeAll
    /\ UNCHANGED <<records, previous, ledger, todo, now, swept, found>>

EndCall(k) ==
    LET t == ThreadOf[k] IN
    /\ Innermost(k)
    /\ Free(t)
    /\ in_flight' = [in_flight EXCEPT ![ticket[k]] = @ - 1]
    /\ held' = [held EXCEPT ![t][ticket[k]] = IF @ - 1 <= 0 THEN 0 ELSE @ - 1]
    /\ ticket' = [ticket EXCEPT ![k] = NoRecord]
    /\ nest' = [nest EXCEPT ![t] = SubSeq(@, 1, Len(@) - 1)]
    /\ current' = [current EXCEPT ![t] = previous[k]]
    /\ WakeAll
    /\ UNCHANGED <<records, previous, ledger, todo, now, swept, found>>

-----------------------------------------------------------------------------
(* Handles.                                                                *)

Issue(h, m) ==
    /\ h \notin live_
    /\ live_' = live_ \cup {h}
    /\ issuedTo' = [issuedTo EXCEPT ![h] = m]

(* A primitive makes a handle: GFBufferNewFromBytes() and its like.        *)
NewHandle(k, h) ==
    /\ Innermost(k)
    /\ Free(ThreadOf[k])
    /\ Issue(h, current[ThreadOf[k]])
    /\ UNCHANGED <<records, counts, ticket, nest, attribution, shutdown>>

(* NewBufferFor(): the host makes one inside EnterModule().  Step 3 of the *)
(* shutdown has waited for that.                                           *)
NewBufferFor(m, h) ==
    /\ phase = "running"
    /\ Issue(h, m)
    /\ UNCHANGED <<records, counts, ticket, nest, attribution, shutdown>>

(* GFHandleRegistry::Check()                                               *)
Mine(h, m) == h \in live_ /\ (m = NoOne \/ issuedTo[h] = NoOne \/ issuedTo[h] = m)

(* GFBufferRelease(), TakeBufferForTransfer()                              *)
TakeHandle(k, h) ==
    /\ Innermost(k)
    /\ Free(ThreadOf[k])
    /\ Mine(h, current[ThreadOf[k]])
    /\ live_' = live_ \ {h}
    /\ UNCHANGED <<records, counts, ticket, nest, attribution, issuedTo, shutdown>>

-----------------------------------------------------------------------------
(* Step 4 of the shutdown, on Main.                                        *)

(* Steps 1 to 3 are over; ids are the modules they found registered.  The  *)
(* event loop is gone, so Main is inside no call.                          *)
ShutdownReaches(ids) ==
    /\ phase = "running"
    /\ nest[Main] = <<>>
    /\ phase' = "next"
    /\ todo' = ids
    /\ found' = ids
    /\ UNCHANGED <<records, counts, ticket, nest, attribution, ledger, now, swept>>

(* Seeded fault: calls with records of an earlier load are not waited for. *)
BusyCurrent(m) ==
    \E r \in Records : by_id[m] = r /\ in_flight[r] - held[Main][r] > 0

(* The code adds these up over m's records; none is negative.              *)
Busy(m) ==
    \E r \in Records : owner[r] = m /\ in_flight[r] - held[Main][r] > 0

(* Seeded fault: the grant is left alone.                                  *)
SweepWaitsOnly(m) ==
    /\ phase = "next"
    /\ m \in todo
    /\ todo' = todo \ {m}
    /\ now' = m
    /\ phase' = IF Busy(m) THEN "asleep" ELSE "idle"
    /\ UNCHANGED <<records, counts, ticket, nest, attribution, ledger, swept, found>>

(* ReleaseGrant(), then WaitHostApiIdle() up to its first wait.            *)
SweepRevokes(m) ==
    /\ phase = "next"
    /\ m \in todo
    /\ todo' = todo \ {m}
    /\ now' = m
    /\ live' = live \ {by_id[m]}
    /\ phase' = IF Busy(m) THEN "asleep" ELSE "idle"
    /\ UNCHANGED <<owner, granted, by_id, counts, ticket, nest, attribution, ledger, swept, found>>

(* Woken, by EndCall() or for no reason.                                   *)
WaitResumes ==
    /\ phase \in {"asleep", "awake"}
    /\ phase' = IF Busy(now) THEN "asleep" ELSE "idle"
    /\ UNCHANGED <<records, counts, ticket, nest, attribution, ledger, todo, now, swept, found>>

(* The deadline: the wait returns false, whatever has become of the calls. *)
WaitExpires ==
    /\ phase \in {"asleep", "awake"}
    /\ phase' = "expired"
    /\ UNCHANGED <<records, counts, ticket, nest, attribution, ledger, todo, now, swept, found>>

SweepSkips ==
    /\ phase = "expired"
    /\ phase' = "next"
    /\ now' = NoOne
    /\ UNCHANGED <<records, counts, ticket, nest, attribution, ledger, todo, swept, found>>

(* GFSdkSweepModuleHandles()                                               *)
Sweep ==
    /\ phase = "idle"
    /\ live_' = {h \in live_ : issuedTo[h] # now}
    /\ swept' = swept \cup {now}
    /\ phase' = "next"
    /\ now' = NoOne
    /\ UNCHANGED <<records, counts, ticket, nest, attribution, issuedTo, todo, found>>

ShutdownEnds ==
    /\ phase = "next"
    /\ todo = {}
    /\ phase' = "over"
    /\ UNCHANGED <<records, counts, ticket, nest, attribution, ledger, todo, now, swept, found>>

-----------------------------------------------------------------------------
MainStep ==
    \/ \E m \in Modules : SweepRevokes(m)
    \/ WaitResumes \/ WaitExpires \/ SweepSkips \/ Sweep \/ ShutdownEnds

CallStep(k) ==
    \/ \E r \in Records : BeginCall(k, r)
    \/ EndCall(k)
    \/ \E h \in Handles : NewHandle(k, h) \/ TakeHandle(k, h)

Next ==
    \/ \E m \in Modules, g \in Grants, r \in Records : MintHostApi(m, g, r)
    \/ \E m \in Modules : ReleaseHostApi(m)
    \/ \E m \in Modules, h \in Handles : NewBufferFor(m, h)
    \/ \E ids \in SUBSET Modules : ShutdownReaches(ids)
    \/ \E k \in Calls : CallStep(k)
    \/ MainStep

Spec == Init /\ [][Next]_vars

-----------------------------------------------------------------------------
(* The types of the registry, the calls, the ledger and the shutdown.      *)
TypeOK ==
    /\ owner \in [Records -> Modules \cup {NoOne}]
    /\ granted \in [Records -> Grants]
    /\ live \in SUBSET Records
    /\ by_id \in [Modules -> Records \cup {NoRecord}]
    /\ in_flight \in [Records -> Nat]
    /\ held \in [Threads -> [Records -> Nat]]
    /\ ticket \in [Calls -> Records \cup {NoRecord}]
    /\ nest \in [Threads -> Seq(Calls)]
    /\ current \in [Threads -> Modules \cup {NoOne}]
    /\ previous \in [Calls -> Modules \cup {NoOne}]
    /\ live_ \in SUBSET Handles
    /\ issuedTo \in [Handles -> Modules \cup {NoOne}]
    /\ phase \in Phases
    /\ todo \in SUBSET Modules /\ swept \in SUBSET Modules /\ found \in SUBSET Modules
    /\ now \in Modules \cup {NoOne}

CallsWith(r) == {k \in Calls : ticket[k] = r}
CallsBy(t, r) == {k \in Calls : ticket[k] = r /\ ThreadOf[k] = t}
CallsOf(m) == {k \in Calls : ticket[k] # NoRecord /\ owner[ticket[k]] = m}

(* in_flight counts the calls running with a record and each thread's      *)
(* entry those of its own, across loads, nesting and revocation.           *)
CountsExact ==
    \A r \in Records :
        /\ in_flight[r] = Cardinality(CallsWith(r))
        /\ \A t \in Threads : held[t][r] = Cardinality(CallsBy(t, r))

(* At most one context of a module is accepted, the last one minted: a     *)
(* thread left over from an earlier load is not revived by the next.       *)
LiveIsCurrent == \A r \in live : owner[r] # NoOne /\ by_id[owner[r]] = r

(* A call's handles go to the module whose context it presented, also      *)
(* after calls of other modules that were made inside it.                  *)
AttributionFollows ==
    \A t \in Threads :
        current[t] = IF nest[t] = <<>> THEN NoOne
                     ELSE owner[ticket[nest[t][Len(nest[t])]]]

(* When the wait has said the module is idle, none of its calls, with any  *)
(* context it ever had, runs until its handles are reclaimed.              *)
IdleMeansAlone == phase = "idle" => CallsOf(now) = {}

(* After the sweep the module holds nothing and never gets anything again. *)
SweptForGood == \A h \in live_ : issuedTo[h] \notin swept

(* Main sleeps only while a thread is inside a call of the module.         *)
NoLostWakeup == phase = "asleep" => CallsOf(now) # {}

(* A handle leaves the ledger in a call of the module that holds it, or in *)
(* the sweep of that module.                                               *)
OnlyOwnersRelease ==
    [][\A h \in live_ \ live_' :
          (phase = "idle" /\ issuedTo[h] = now) \/ \E k \in CallsOf(issuedTo[h]) : Innermost(k)]_vars

=============================================================================
