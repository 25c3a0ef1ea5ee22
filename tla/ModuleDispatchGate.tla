------------------------- MODULE ModuleDispatchGate -------------------------
(***************************************************************************)
(* Admission control for calls that enter module code: one                 *)
(* ModuleDispatchGate object (src/core/module/ModuleDispatchGate.{h,cpp}). *)
(*                                                                         *)
(* Threads enter through ModuleDispatchScope objects; each Scope of the    *)
(* constant Scopes is one such object, created on the thread ThreadOf[s].  *)
(* A thread may hold several scopes of the same gate at once: module code  *)
(* that spins a nested event loop re-enters.  Every method takes mutex_    *)
(* for its whole body, so each is one action; WaitQuiescent releases it    *)
(* only inside quiet_.wait(), which is where it is split.                  *)
(***************************************************************************)
EXTENDS Integers, FiniteSets

CONSTANTS Threads,    \* threads that call the gate
          Scopes,     \* ModuleDispatchScope objects
          ThreadOf    \* the thread each scope lives on

ASSUME GateAssumption ==
    /\ IsFiniteSet(Scopes)
    /\ ThreadOf \in [Scopes -> Threads]

VARIABLES
    closed_,      \* the gate admits nobody
    in_flight_,   \* the gate's counter of calls inside
    held,         \* HeldByThisThread()[gate], per thread
    entered,      \* scopes whose TryEnter() succeeded and have not left yet
    wait,         \* where each thread is in WaitQuiescent
    own,          \* the local `own` of a thread inside WaitQuiescent
    expired,      \* whether that thread's QDeadlineTimer has expired
    quiet         \* history: threads told "quiet" since the gate last closed

gateVars == <<closed_, in_flight_, held, entered, wait, own, expired, quiet>>

ScopesOf(t) == {s \in Scopes : ThreadOf[s] = t}

GateInit ==
    /\ closed_ = FALSE
    /\ in_flight_ = 0
    /\ held = [t \in Threads |-> 0]
    /\ entered = {}
    /\ wait = [t \in Threads |-> "none"]
    /\ own = [t \in Threads |-> 0]
    /\ expired = [t \in Threads |-> FALSE]
    /\ quiet = {}

-----------------------------------------------------------------------------
(* A thread inside WaitQuiescent runs nothing else.                        *)
Running(t) == wait[t] = "none"

(* quiet_.wakeAll(): every sleeper returns from quiet_.wait().             *)
WakeAll == wait' = [t \in Threads |-> IF wait[t] = "asleep" THEN "awake" ELSE wait[t]]

(* Seeded fault: the closed flag is not looked at.                         *)
TryEnterUnchecked(s) ==
    /\ s \notin entered
    /\ Running(ThreadOf[s])
    /\ in_flight_' = in_flight_ + 1
    /\ held' = [held EXCEPT ![ThreadOf[s]] = @ + 1]
    /\ entered' = entered \cup {s}
    /\ UNCHANGED <<closed_, wait, own, expired, quiet>>

(* A closed gate refuses and changes nothing, so only admission is a step. *)
TryEnter(s) ==
    /\ s \notin entered
    /\ Running(ThreadOf[s])
    /\ ~closed_
    /\ in_flight_' = in_flight_ + 1
    /\ held' = [held EXCEPT ![ThreadOf[s]] = @ + 1]
    /\ entered' = entered \cup {s}
    /\ UNCHANGED <<closed_, wait, own, expired, quiet>>

(* Seeded fault: wake only when the gate is empty.                         *)
LeaveWakesOnlyAtZero(s) ==
    /\ s \in entered
    /\ Running(ThreadOf[s])
    /\ in_flight_' = in_flight_ - 1
    /\ held' = [held EXCEPT ![ThreadOf[s]] = @ - 1]
    /\ entered' = entered \ {s}
    /\ IF in_flight_ = 1 THEN WakeAll ELSE UNCHANGED wait
    /\ UNCHANGED <<closed_, own, expired, quiet>>

(* Both decrements are clamped at zero, as in the code: the counter by its *)
(* guard, the thread's entry by being removed from the hash.               *)
Leave(s) ==
    /\ s \in entered
    /\ Running(ThreadOf[s])
    /\ in_flight_' = IF in_flight_ > 0 THEN in_flight_ - 1 ELSE in_flight_
    /\ held' = [held EXCEPT ![ThreadOf[s]] = IF @ - 1 <= 0 THEN 0 ELSE @ - 1]
    /\ entered' = entered \ {s}
    /\ WakeAll
    /\ UNCHANGED <<closed_, own, expired, quiet>>

Close ==
    /\ closed_' = TRUE
    /\ UNCHANGED <<in_flight_, held, entered, wait, own, expired, quiet>>

Open ==
    /\ closed_' = FALSE
    /\ quiet' = {}
    /\ UNCHANGED <<in_flight_, held, entered, wait, own, expired>>

-----------------------------------------------------------------------------
(* Seeded fault: a fresh timeout after every wakeup instead of a deadline. *)
LoopTestNoDeadline(t, mine, late) ==
    \/ /\ in_flight_ - mine > 0
       /\ wait' = [wait EXCEPT ![t] = "asleep"]
       /\ quiet' = quiet \ {t}
    \/ /\ in_flight_ - mine <= 0
       /\ wait' = [wait EXCEPT ![t] = "none"]
       /\ quiet' = IF closed_ THEN quiet \cup {t} ELSE quiet \ {t}

(* WaitQuiescent's loop, from the point where the mutex is held: `mine` is *)
(* the value of `own`, `late` whether the deadline has expired.            *)
LoopTest(t, mine, late) ==
    \/ /\ in_flight_ - mine > 0
       /\ ~late
       /\ wait' = [wait EXCEPT ![t] = "asleep"]
       /\ quiet' = quiet \ {t}
    \/ /\ in_flight_ - mine > 0
       /\ late
       /\ wait' = [wait EXCEPT ![t] = "none"]        \* return false
       /\ quiet' = quiet \ {t}
    \/ /\ in_flight_ - mine <= 0
       /\ wait' = [wait EXCEPT ![t] = "none"]        \* return true
       /\ quiet' = IF closed_ THEN quiet \cup {t} ELSE quiet \ {t}

(* timeout_ms may be 0, so the deadline may have expired from the start.   *)
WaitQuiescent(t) ==
    /\ Running(t)
    /\ \E late \in BOOLEAN :
         /\ expired' = [expired EXCEPT ![t] = late]
         /\ own' = [own EXCEPT ![t] = held[t]]
         /\ LoopTest(t, held[t], late)
    /\ UNCHANGED <<closed_, in_flight_, held, entered>>

(* The deadline passes; a sleeper comes out of quiet_.wait() for it.       *)
WaitExpires(t) ==
    /\ wait[t] # "none"
    /\ ~expired[t]
    /\ expired' = [expired EXCEPT ![t] = TRUE]
    /\ wait' = [wait EXCEPT ![t] = "awake"]
    /\ UNCHANGED <<closed_, in_flight_, held, entered, own, quiet>>

(* QWaitCondition::wait may also return for no reason.                     *)
WaitSpurious(t) ==
    /\ wait[t] = "asleep"
    /\ wait' = [wait EXCEPT ![t] = "awake"]
    /\ UNCHANGED <<closed_, in_flight_, held, entered, own, expired, quiet>>

(* The woken thread has the mutex again and re-tests the loop condition.   *)
WaitResumes(t) ==
    /\ wait[t] = "awake"
    /\ LoopTest(t, own[t], expired[t])
    /\ UNCHANGED <<closed_, in_flight_, held, entered, own, expired>>

GateNext ==
    \/ \E s \in Scopes : TryEnter(s) \/ Leave(s)
    \/ \E t \in Threads : \/ WaitQuiescent(t) \/ WaitExpires(t)
                           \/ WaitSpurious(t) \/ WaitResumes(t)
    \/ Close
    \/ Open

GateSpec == GateInit /\ [][GateNext]_gateVars

(* Only the clock and the scheduler are fair: a deadline passes, a woken   *)
(* thread runs.  Nothing says a call inside module code ever leaves.       *)
GateFairSpec ==
    /\ GateSpec
    /\ \A t \in Threads : WF_gateVars(WaitExpires(t)) /\ WF_gateVars(WaitResumes(t))

-----------------------------------------------------------------------------
GateTypeOK ==
    /\ closed_ \in BOOLEAN
    /\ in_flight_ \in Nat
    /\ held \in [Threads -> Nat]
    /\ entered \in SUBSET Scopes
    /\ wait \in [Threads -> {"none", "asleep", "awake"}]
    /\ own \in [Threads -> Nat]
    /\ expired \in [Threads -> BOOLEAN]
    /\ quiet \in SUBSET Threads

(* The counters count: in_flight_ is the number of scopes inside, and each *)
(* thread's HeldByThisThread() entry the number of its own.                *)
CountsExact ==
    /\ in_flight_ = Cardinality(entered)
    /\ \A t \in Threads : held[t] = Cardinality(entered \cap ScopesOf(t))

(* A waiter's discount stays right for as long as it waits: a thread       *)
(* blocked in WaitQuiescent can neither enter nor leave.                   *)
OwnExact == \A t \in Threads : wait[t] # "none" => own[t] = held[t]

(* WaitQuiescent's promise, which teardown frees memory on: once it has    *)
(* returned true on a closed gate, and until the gate is opened again, no  *)
(* thread other than the waiter is inside module code.                     *)
QuietMeansAlone ==
    \A t \in quiet : closed_ /\ entered \subseteq ScopesOf(t)

(* No lost wakeup: a thread asleep in quiet_.wait() still has somebody     *)
(* else to wait for.  Leave() must wake on EVERY leave for this, since     *)
(* "quiet" for a waiter with entries of its own is not zero.               *)
NoLostWakeup ==
    \A t \in Threads : wait[t] = "asleep" => in_flight_ > own[t]

(* Every WaitQuiescent returns, even when two threads inside the module    *)
(* each wait for the other: the deadline bounds it.                        *)
WaitReturns == \A t \in Threads : wait[t] # "none" ~> wait[t] = "none"

=============================================================================
