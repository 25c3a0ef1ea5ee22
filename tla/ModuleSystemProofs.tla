------------------------- MODULE ModuleSystemProofs -------------------------
(***************************************************************************)
(* What the dispatch gate, the module lifecycle and event delivery         *)
(* promise, for every set of threads, scopes, modules, events, triggers    *)
(* and packages.                                                           *)
(*                                                                         *)
(* The gate comes first.  Of the manager, the types; then an invariant on  *)
(* the runner's call stack: a frame that is moving a module from one state *)
(* to another knows the state the module is in, so that whatever runs      *)
(* inside its hook refuses to move it again, and a module has one such     *)
(* frame at most.  Theorems hold for every nesting depth; the last two say *)
(* which modules they are about: the mirror is current when modules have   *)
(* no threads of their own, and a swept module is silent when no hook runs *)
(* an event loop.                                                          *)
(***************************************************************************)
EXTENDS ModuleDispatchGate, ModuleManager, FiniteSetTheorems, SequenceTheorems, TLAPS

-----------------------------------------------------------------------------
(* The dispatch gate: a waiter's discount equals what its thread holds     *)
(* (OwnExact) because it can neither enter nor leave while it waits, the   *)
(* counters count scopes (CountsExact), so "in_flight_ - own > 0 is false" *)
(* means that every scope inside belongs to the waiter.                    *)

GateInv == GateTypeOK /\ CountsExact /\ OwnExact /\ QuietMeansAlone /\ NoLostWakeup

-----------------------------------------------------------------------------
(* A set of scopes whose size is no larger than that of the part living on *)
(* thread t lives on t altogether.  Behind WaitQuiescent's loop condition. *)
LEMMA AllMine ==
    ASSUME NEW t \in Threads, NEW S \in SUBSET Scopes,
           Cardinality(S) - Cardinality(S \cap ScopesOf(t)) <= 0
    PROVE  S \subseteq ScopesOf(t)
<1> DEFINE M == S \cap ScopesOf(t)
<1>1. IsFiniteSet(S)
  BY FS_Subset, GateAssumption
<1>2. IsFiniteSet(M) /\ Cardinality(M) <= Cardinality(S)
      /\ (Cardinality(S) = Cardinality(M) => S = M)
  BY <1>1, FS_Subset
<1>3. Cardinality(S) \in Nat /\ Cardinality(M) \in Nat
  BY <1>1, <1>2, FS_CardinalityType
<1> QED
  BY <1>2, <1>3

(* The number of scopes a thread holds is never more than are inside.      *)
LEMMA PartSmaller ==
    ASSUME NEW t \in Threads, NEW S \in SUBSET Scopes
    PROVE  /\ Cardinality(S) \in Nat
           /\ Cardinality(S \cap ScopesOf(t)) \in Nat
           /\ Cardinality(S \cap ScopesOf(t)) <= Cardinality(S)
<1>1. IsFiniteSet(S)
  BY FS_Subset, GateAssumption
<1>2. IsFiniteSet(S \cap ScopesOf(t))
      /\ Cardinality(S \cap ScopesOf(t)) <= Cardinality(S)
  BY <1>1, FS_Subset
<1> QED
  BY <1>1, <1>2, FS_CardinalityType

(* What one more scope inside does to every count TryEnter keeps.          *)
LEMMA CountEnter ==
    ASSUME NEW S \in SUBSET Scopes, NEW s \in Scopes \ S
    PROVE  /\ Cardinality(S \cup {s}) = Cardinality(S) + 1
           /\ \A t \in Threads :
                Cardinality((S \cup {s}) \cap ScopesOf(t)) =
                  IF t = ThreadOf[s] THEN Cardinality(S \cap ScopesOf(t)) + 1
                                     ELSE Cardinality(S \cap ScopesOf(t))
<1>1. IsFiniteSet(S)
  BY FS_Subset, GateAssumption
<1>2. Cardinality(S \cup {s}) = Cardinality(S) + 1
  BY <1>1, FS_AddElement
<1>3. ASSUME NEW t \in Threads
      PROVE  Cardinality((S \cup {s}) \cap ScopesOf(t)) =
               IF t = ThreadOf[s] THEN Cardinality(S \cap ScopesOf(t)) + 1
                                  ELSE Cardinality(S \cap ScopesOf(t))
  <2>1. CASE t = ThreadOf[s]
    <3>1. (S \cup {s}) \cap ScopesOf(t) = (S \cap ScopesOf(t)) \cup {s}
      BY <2>1 DEF ScopesOf
    <3>2. IsFiniteSet(S \cap ScopesOf(t)) /\ s \notin S \cap ScopesOf(t)
      BY <1>1, FS_Subset
    <3> QED
      BY <2>1, <3>1, <3>2, FS_AddElement
  <2>2. CASE t # ThreadOf[s]
    <3>1. (S \cup {s}) \cap ScopesOf(t) = S \cap ScopesOf(t)
      BY <2>2 DEF ScopesOf
    <3> QED
      BY <2>2, <3>1
  <2> QED
    BY <2>1, <2>2
<1> QED
  BY <1>2, <1>3

(* The same for one scope fewer, which is what Leave does.                 *)
LEMMA CountLeave ==
    ASSUME NEW S \in SUBSET Scopes, NEW s \in S
    PROVE  /\ Cardinality(S) = Cardinality(S \ {s}) + 1
           /\ \A t \in Threads :
                Cardinality(S \cap ScopesOf(t)) =
                  IF t = ThreadOf[s] THEN Cardinality((S \ {s}) \cap ScopesOf(t)) + 1
                                     ELSE Cardinality((S \ {s}) \cap ScopesOf(t))
<1> DEFINE R == S \ {s}
<1>1. s \in Scopes \ R /\ R \in SUBSET Scopes
  OBVIOUS
<1>2. R \cup {s} = S
  OBVIOUS
<1> HIDE DEF R
<1>3. /\ Cardinality(R \cup {s}) = Cardinality(R) + 1
      /\ \A t \in Threads :
           Cardinality((R \cup {s}) \cap ScopesOf(t)) =
             IF t = ThreadOf[s] THEN Cardinality(R \cap ScopesOf(t)) + 1
                                ELSE Cardinality(R \cap ScopesOf(t))
  BY <1>1, CountEnter
<1>4. /\ Cardinality(S) = Cardinality(R) + 1
      /\ \A t \in Threads :
           Cardinality(S \cap ScopesOf(t)) =
             IF t = ThreadOf[s] THEN Cardinality(R \cap ScopesOf(t)) + 1
                                ELSE Cardinality(R \cap ScopesOf(t))
  BY <1>2, <1>3, Zenon
<1> QED
  BY <1>4 DEF R

-----------------------------------------------------------------------------
(* The initial gate is open and empty.                                     *)
LEMMA GateInitInv == GateInit => GateInv
<1> SUFFICES ASSUME GateInit PROVE GateInv
  OBVIOUS
<1>1. \A t \in Threads : {} \cap ScopesOf(t) = {}
  OBVIOUS
<1>2. Cardinality({}) = 0
  BY FS_EmptySet
<1>3. GateTypeOK
  BY DEF GateInit, GateTypeOK
<1>4. CountsExact
  BY <1>1, <1>2 DEF GateInit, CountsExact
<1>5. OwnExact /\ QuietMeansAlone /\ NoLostWakeup
  BY DEF GateInit, OwnExact, QuietMeansAlone, NoLostWakeup
<1> QED
  BY <1>3, <1>4, <1>5 DEF GateInv

(* TryEnter admits only through an open gate, so nobody has been told it   *)
(* is quiet, and only adds to what a sleeper waits for.                    *)
LEMMA TryEnterInv ==
    ASSUME GateInv, NEW s \in Scopes, TryEnter(s)
    PROVE  GateInv'
<1> DEFINE me == ThreadOf[s]
<1>0. me \in Threads
  BY GateAssumption
<1>1. GateTypeOK /\ CountsExact /\ OwnExact /\ QuietMeansAlone /\ NoLostWakeup
  BY DEF GateInv
<1>2. GateTypeOK'
  BY <1>0, <1>1 DEF GateTypeOK, TryEnter
<1>3. CountsExact'
  <2>1. s \in Scopes \ entered /\ entered \in SUBSET Scopes
    BY <1>1 DEF GateTypeOK, TryEnter
  <2>2. in_flight_' = Cardinality(entered')
    BY <1>1, <2>1, CountEnter DEF CountsExact, TryEnter
  <2>3. ASSUME NEW t \in Threads
        PROVE  held'[t] = Cardinality(entered' \cap ScopesOf(t))
    <3>1. Cardinality((entered \cup {s}) \cap ScopesOf(t)) =
            IF t = ThreadOf[s] THEN Cardinality(entered \cap ScopesOf(t)) + 1
                               ELSE Cardinality(entered \cap ScopesOf(t))
      BY <2>1, CountEnter
    <3>2. entered' = entered \cup {s} /\ held[t] = Cardinality(entered \cap ScopesOf(t))
      BY <1>1 DEF CountsExact, TryEnter
    <3>3. held'[t] = IF t = me THEN held[t] + 1 ELSE held[t]
      BY <1>0, <1>1 DEF GateTypeOK, TryEnter
    <3> QED
      BY <3>1, <3>2, <3>3
  <2> QED
    BY <2>2, <2>3 DEF CountsExact, ScopesOf
<1>4. OwnExact'
  BY <1>0, <1>1 DEF OwnExact, TryEnter, Running, GateTypeOK
<1>5. QuietMeansAlone'
  BY <1>1 DEF QuietMeansAlone, TryEnter
<1>6. NoLostWakeup'
  BY <1>1 DEF NoLostWakeup, TryEnter, GateTypeOK
<1> QED
  BY <1>2, <1>3, <1>4, <1>5, <1>6 DEF GateInv

(* Leave wakes everybody, so nobody is left asleep to be wrong about.      *)
LEMMA LeaveInv ==
    ASSUME GateInv, NEW s \in Scopes, Leave(s)
    PROVE  GateInv'
<1> DEFINE me == ThreadOf[s]
<1>0. me \in Threads
  BY GateAssumption
<1>1. GateTypeOK /\ CountsExact /\ OwnExact /\ QuietMeansAlone /\ NoLostWakeup
  BY DEF GateInv
<1>2. GateTypeOK'
  BY <1>0, <1>1 DEF GateTypeOK, Leave, WakeAll
<1>3. CountsExact'
  <2>1. s \in entered /\ entered \in SUBSET Scopes /\ entered \ {s} \in SUBSET Scopes
    BY <1>1 DEF GateTypeOK, Leave
  <2>2. ASSUME NEW t \in Threads
        PROVE  /\ Cardinality(entered \ {s}) \in Nat
               /\ Cardinality((entered \ {s}) \cap ScopesOf(t)) \in Nat
    BY <2>1, PartSmaller
  <2>3. in_flight_' = Cardinality(entered')
    <3>1. Cardinality(entered) = Cardinality(entered \ {s}) + 1
      BY <2>1, CountLeave
    <3>2. Cardinality(entered \ {s}) \in Nat
      BY <1>0, <2>2
    <3> QED
      BY <1>1, <3>1, <3>2 DEF CountsExact, Leave
  <2>4. ASSUME NEW t \in Threads
        PROVE  held'[t] = Cardinality(entered' \cap ScopesOf(t))
    <3>0. \A u \in Threads :
            Cardinality(entered \cap ScopesOf(u)) =
              IF u = ThreadOf[s] THEN Cardinality((entered \ {s}) \cap ScopesOf(u)) + 1
                                 ELSE Cardinality((entered \ {s}) \cap ScopesOf(u))
      BY <2>1, CountLeave, Zenon
    <3>1. Cardinality(entered \cap ScopesOf(t)) =
            IF t = ThreadOf[s] THEN Cardinality((entered \ {s}) \cap ScopesOf(t)) + 1
                               ELSE Cardinality((entered \ {s}) \cap ScopesOf(t))
      BY <3>0
    <3>2. entered' = entered \ {s} /\ held[t] = Cardinality(entered \cap ScopesOf(t))
      BY <1>1 DEF CountsExact, Leave
    <3>3. held'[t] = IF t = me THEN (IF held[t] - 1 <= 0 THEN 0 ELSE held[t] - 1)
                               ELSE held[t]
      BY <1>0, <1>1 DEF GateTypeOK, Leave
    <3> QED
      BY <2>2, <3>1, <3>2, <3>3
  <2> QED
    BY <2>3, <2>4 DEF CountsExact, ScopesOf
<1>4. OwnExact'
  BY <1>0, <1>1 DEF OwnExact, Leave, Running, GateTypeOK, WakeAll
<1>5. QuietMeansAlone'
  BY <1>1 DEF QuietMeansAlone, Leave, ScopesOf
<1>6. NoLostWakeup'
  BY <1>1 DEF NoLostWakeup, Leave, WakeAll, GateTypeOK
<1> QED
  BY <1>2, <1>3, <1>4, <1>5, <1>6 DEF GateInv

(* One pass through WaitQuiescent's loop: true is returned only when the   *)
(* scopes inside are all the waiter's, sleep only when they are not.       *)
LEMMA LoopTestInv ==
    ASSUME GateInv, NEW t \in Threads, NEW mine, NEW late \in BOOLEAN,
           mine = held[t],
           LoopTest(t, mine, late),
           own' \in [Threads -> Nat], own'[t] = mine,
           \A u \in Threads \ {t} : own'[u] = own[u],
           expired' \in [Threads -> BOOLEAN],
           UNCHANGED <<closed_, in_flight_, held, entered>>
    PROVE  GateInv'
<1>1. GateTypeOK /\ CountsExact /\ OwnExact /\ QuietMeansAlone /\ NoLostWakeup
  BY DEF GateInv
<1>2. wait' \in [Threads -> {"none", "asleep", "awake"}] /\ quiet' \in SUBSET Threads
      /\ \A u \in Threads \ {t} : wait'[u] = wait[u]
  BY <1>1 DEF GateTypeOK, LoopTest
<1>3. GateTypeOK'
  BY <1>1, <1>2 DEF GateTypeOK
<1>4. CountsExact'
  BY <1>1 DEF CountsExact, ScopesOf
<1>5. OwnExact'
  BY <1>1, <1>2 DEF OwnExact
<1>6. QuietMeansAlone'
  <2>1. CASE in_flight_ - mine > 0
    BY <1>1, <2>1 DEF QuietMeansAlone, LoopTest, ScopesOf, GateTypeOK
  <2>2. CASE ~(in_flight_ - mine > 0)
    <3>1. in_flight_ - mine <= 0
      BY <1>1, <2>2 DEF GateTypeOK
    <3>2. entered \subseteq ScopesOf(t)
      BY <1>1, <3>1, AllMine DEF GateTypeOK, CountsExact
    <3>3. quiet' = IF closed_ THEN quiet \cup {t} ELSE quiet \ {t}
      BY <2>2, <3>1 DEF LoopTest
    <3> QED
      BY <1>1, <3>2, <3>3 DEF QuietMeansAlone, ScopesOf
  <2> QED
    BY <2>1, <2>2
<1>7. NoLostWakeup'
  <2>1. wait'[t] = "asleep" => in_flight_ > mine
    BY <1>1 DEF LoopTest, GateTypeOK
  <2> QED
    BY <1>1, <1>2, <2>1 DEF NoLostWakeup
<1> QED
  BY <1>3, <1>4, <1>5, <1>6, <1>7 DEF GateInv

(* Every step of the gate preserves the invariant.                         *)
LEMMA GateNextInv == GateInv /\ [GateNext]_gateVars => GateInv'
<1> SUFFICES ASSUME GateInv, [GateNext]_gateVars PROVE GateInv'
  OBVIOUS
<1>0. GateTypeOK /\ CountsExact /\ OwnExact /\ QuietMeansAlone /\ NoLostWakeup
  BY DEF GateInv
<1>1. CASE \E s \in Scopes : TryEnter(s)
  BY <1>1, TryEnterInv
<1>2. CASE \E s \in Scopes : Leave(s)
  BY <1>2, LeaveInv
<1>3. ASSUME NEW t \in Threads, WaitQuiescent(t)
      PROVE  GateInv'
  <2>1. PICK late \in BOOLEAN :
          /\ expired' = [expired EXCEPT ![t] = late]
          /\ own' = [own EXCEPT ![t] = held[t]]
          /\ LoopTest(t, held[t], late)
    BY <1>3 DEF WaitQuiescent
  <2>2. /\ own' \in [Threads -> Nat] /\ own'[t] = held[t]
        /\ \A u \in Threads \ {t} : own'[u] = own[u]
        /\ expired' \in [Threads -> BOOLEAN]
    BY <1>0, <2>1 DEF GateTypeOK
  <2>3. UNCHANGED <<closed_, in_flight_, held, entered>>
    BY <1>3 DEF WaitQuiescent
  <2> QED
    BY <2>1, <2>2, <2>3, LoopTestInv
<1>4. ASSUME NEW t \in Threads, WaitResumes(t)
      PROVE  GateInv'
  <2>1. own[t] = held[t] /\ expired[t] \in BOOLEAN
    BY <1>0, <1>4 DEF WaitResumes, OwnExact, GateTypeOK
  <2>2. /\ own' \in [Threads -> Nat] /\ own'[t] = own[t]
        /\ \A u \in Threads \ {t} : own'[u] = own[u]
        /\ expired' \in [Threads -> BOOLEAN]
    BY <1>0, <1>4 DEF WaitResumes, GateTypeOK
  <2>3. LoopTest(t, own[t], expired[t])
        /\ UNCHANGED <<closed_, in_flight_, held, entered>>
    BY <1>4 DEF WaitResumes
  <2> QED
    BY <2>1, <2>2, <2>3, LoopTestInv
<1>5. ASSUME NEW t \in Threads, WaitExpires(t) \/ WaitSpurious(t)
      PROVE  GateInv'
  <2>1. /\ wait' = [wait EXCEPT ![t] = "awake"]
        /\ wait[t] # "none"
        /\ expired' \in [Threads -> BOOLEAN]
        /\ UNCHANGED <<closed_, in_flight_, held, entered, own, quiet>>
    BY <1>0, <1>5 DEF WaitExpires, WaitSpurious, GateTypeOK
  <2>2. GateTypeOK'
    BY <1>0, <2>1 DEF GateTypeOK
  <2>3. CountsExact' /\ QuietMeansAlone'
    BY <1>0, <2>1 DEF CountsExact, QuietMeansAlone, ScopesOf
  <2>4. OwnExact' /\ NoLostWakeup'
    BY <1>0, <2>1 DEF OwnExact, NoLostWakeup, GateTypeOK
  <2> QED
    BY <2>2, <2>3, <2>4 DEF GateInv
<1>6. CASE Close \/ Open
  <2>1. GateTypeOK' /\ CountsExact'
    BY <1>0, <1>6 DEF GateTypeOK, CountsExact, Close, Open, ScopesOf
  <2>2. OwnExact' /\ NoLostWakeup' /\ QuietMeansAlone'
    BY <1>0, <1>6 DEF OwnExact, NoLostWakeup, QuietMeansAlone, Close, Open, ScopesOf
  <2> QED
    BY <2>1, <2>2 DEF GateInv
<1>7. CASE UNCHANGED gateVars
  BY <1>0, <1>7 DEF gateVars, GateInv, GateTypeOK, CountsExact, OwnExact, QuietMeansAlone,
                    NoLostWakeup, ScopesOf
<1> QED
  BY <1>1, <1>2, <1>3, <1>4, <1>5, <1>6, <1>7 DEF GateNext

-----------------------------------------------------------------------------
(* The gate's state is well typed and its counters count, whatever the     *)
(* threads do: the clamp in Leave() never has to act.                      *)
THEOREM GateCounts == GateSpec => [](GateTypeOK /\ CountsExact)
<1>1. GateInv => GateTypeOK /\ CountsExact
  BY DEF GateInv
<1> QED
  BY <1>1, GateInitInv, GateNextInv, PTL DEF GateSpec

(* A thread WaitQuiescent() has told "quiet" on a closed gate is alone     *)
(* inside until the gate reopens: what teardown frees is not in use.       *)
THEOREM GateQuiet == GateSpec => []QuietMeansAlone
<1>1. GateInv => QuietMeansAlone
  BY DEF GateInv
<1> QED
  BY <1>1, GateInitInv, GateNextInv, PTL DEF GateSpec

(* A thread asleep in WaitQuiescent() has another thread to wait for:      *)
(* Leave() never forgets to wake it.                                       *)
THEOREM GateWakeups == GateSpec => []NoLostWakeup
<1>1. GateInv => NoLostWakeup
  BY DEF GateInv
<1> QED
  BY <1>1, GateInitInv, GateNextInv, PTL DEF GateSpec

-----------------------------------------------------------------------------
(* Well-typed queues and stacks.                                           *)

(* What a task the runner can take looks like, and what it leaves queued.  *)
LEMMA QueueType ==
    ASSUME RunnerOK, queue # <<>>
    PROVE  /\ Head(queue) \in Task
           /\ Tail(queue) \in Seq(Task)
BY DEF RunnerOK

(* What the frame on top looks like, and the stacks below and beside it.   *)
LEMMA StackType ==
    ASSUME RunnerOK, stack # <<>>
    PROVE  /\ Top \in Frame
           /\ Len(stack) \in 1..Len(stack)
           /\ Below \in Seq(Frame)
           /\ \A at \in At : GoTo(at) \in Seq(Frame)
<1>1. Len(stack) \in 1..Len(stack) /\ Top \in Frame
  BY DEF RunnerOK, Top
<1>2. Below \in Seq(Frame)
  BY <1>1 DEF RunnerOK, Below
<1>3. ASSUME NEW at \in At
      PROVE  GoTo(at) \in Seq(Frame)
  <2>1. [Top EXCEPT !.at = at] \in Frame
    BY <1>1 DEF Frame
  <2>2. GoTo(at) = [stack EXCEPT ![Len(stack)] = [Top EXCEPT !.at = at]]
    BY DEF GoTo, Top
  <2> QED
    BY <1>1, <2>1, <2>2 DEF RunnerOK
<1> QED
  BY <1>1, <1>2, <1>3

(* A task with a module, posted by anybody, keeps the queue well typed.    *)
LEMMA PostType ==
    ASSUME RunnerOK, NEW t \in Task, Post(t)
    PROVE  queue' \in Seq(Task)
BY DEF RunnerOK, Post

(* The frames of a module's own calls.                                     *)
LEMMA MkTypes ==
    ASSUME NEW m \in Modules, NEW at \in At
    PROVE  /\ \A fn \in {"load", "register", "activate", "deactivate"} :
                MkTask(fn, m, NoTrigger) \in Task
           /\ \A tr \in Triggers : MkTask("exec", m, tr) \in Task
           /\ MkTask("shutdown", NoModule, NoTrigger) \in Task
           /\ \A fn \in {"load", "register", "activate", "deactivate", "unregister"} :
                MkFrame(fn, m, NoTrigger, at) \in Frame
           /\ \A tr \in Triggers : MkFrame("exec", m, tr, at) \in Frame
           /\ MkFrame("shutdown", NoModule, NoTrigger, at) \in Frame
BY DEF MkTask, MkFrame, Task, Frame

(* A taken task: well typed, and about a module unless it is the shutdown. *)
LEMMA TakeType ==
    ASSUME RunnerOK, NEW fn, Take(fn)
    PROVE  /\ Head(queue) \in Task
           /\ queue' \in Seq(Task)
           /\ Head(queue).fn = fn
           /\ fn # "shutdown" => Head(queue).id \in Modules
           /\ fn = "exec" => Head(queue).tr \in Triggers
<1>1. Head(queue) \in Task /\ queue' \in Seq(Task) /\ Head(queue).fn = fn
  BY QueueType DEF Take
<1> QED
  BY <1>1 DEF Task

(* The frame on top: well typed, about a module unless it is the shutdown. *)
LEMMA TopType ==
    ASSUME RunnerOK, NEW fn, NEW at, OnTop(fn, at)
    PROVE  /\ Below \in Seq(Frame)
           /\ \A to \in At : GoTo(to) \in Seq(Frame)
           /\ fn # "shutdown" => Top.id \in Modules
           /\ fn = "exec" => Top.tr \in Triggers
<1>1. Top \in Frame /\ Top.fn = fn /\ Below \in Seq(Frame)
      /\ \A to \in At : GoTo(to) \in Seq(Frame)
  BY StackType DEF OnTop
<1> QED
  BY <1>1 DEF Frame

-----------------------------------------------------------------------------
(* The registry's helpers keep their tables well typed.                    *)

LEMMA HelperTypes ==
    ASSUME RegistryOK, DeliveryOK, NEW m \in Modules
    PROVE  /\ \A s \in States : SetState(m, s) =>
                state' \in [Modules -> States] /\ grt' \in [Modules -> States]
           /\ Republish(m) => state' \in [Modules -> States] /\ grt' \in [Modules -> States]
           /\ DropListeners(m) => /\ listening' \in [Modules -> SUBSET Events]
                                  /\ events_' \in [Events -> SUBSET Modules]
           /\ \A tr \in Triggers : TakeAnswer(tr, m) =>
                /\ awaiting' \in [Triggers -> SUBSET Modules]
                /\ replies' \in [Triggers -> [Modules \cup {NoModule} -> Nat]]
<1>1. \A s \in States : SetState(m, s) =>
        state' \in [Modules -> States] /\ grt' \in [Modules -> States]
  BY DEF RegistryOK, SetState
<1>2. Republish(m) => state' \in [Modules -> States] /\ grt' \in [Modules -> States]
  BY DEF RegistryOK, Republish
<1>3. DropListeners(m) => /\ listening' \in [Modules -> SUBSET Events]
                          /\ events_' \in [Events -> SUBSET Modules]
  BY DEF RegistryOK, DropListeners
<1>4. ASSUME NEW tr \in Triggers, TakeAnswer(tr, m)
      PROVE  /\ awaiting' \in [Triggers -> SUBSET Modules]
             /\ replies' \in [Triggers -> [Modules \cup {NoModule} -> Nat]]
  <2>1. awaiting' \in [Triggers -> SUBSET Modules]
    BY <1>4 DEF DeliveryOK, TakeAnswer
  <2>2. [replies EXCEPT ![tr][m] = @ + 1] \in [Triggers -> [Modules \cup {NoModule} -> Nat]]
    <3>1. replies[tr] \in [Modules \cup {NoModule} -> Nat]
      BY DEF DeliveryOK
    <3>2. [replies[tr] EXCEPT ![m] = @ + 1] \in [Modules \cup {NoModule} -> Nat]
      BY <3>1
    <3>3. [replies EXCEPT ![tr][m] = @ + 1] =
            [replies EXCEPT ![tr] = [replies[tr] EXCEPT ![m] = @ + 1]]
      OBVIOUS
    <3> QED
      BY <3>2, <3>3 DEF DeliveryOK
  <2> QED
    BY <1>4, <2>1, <2>2 DEF DeliveryOK, TakeAnswer
<1> QED
  BY <1>1, <1>2, <1>3, <1>4

-----------------------------------------------------------------------------
(* Type preservation, one lemma per family of actions.                     *)

LEMMA EventTypes ==
    ASSUME TypeOK,
           \/ \E m \in Modules, e \in Events : ListenEvent(m, e) \/ ListenEventOnThread(m, e)
           \/ \E m \in Modules : PublishReads(m) \/ PublishWrites(m)
           \/ \E tr \in Triggers : TriggerEvent(tr)
           \/ \E tr \in Triggers, m \in Modules : PostExec(tr, m) \/ AnswerEvent(tr, m)
    PROVE  TypeOK'
<1> USE DEF registry, delivery, gates, grants, runner, startup, shutdown, callers
<1>0. /\ RegistryOK /\ DeliveryOK /\ GatesOK /\ RunnerOK
      /\ StartupOK /\ ShutdownOK /\ CallersOK
  BY DEF TypeOK
<1>1. ASSUME NEW m \in Modules, NEW e \in Events, ListenEvent(m, e)
      PROVE  TypeOK'
  <2>1. RegistryOK'
    BY <1>0, <1>1, HelperTypes DEF RegistryOK, ListenEvent, Subscribe
  <2> QED
    BY <1>0, <1>1, <2>1 DEF TypeOK, ListenEvent, DeliveryOK, GatesOK, RunnerOK,
                            StartupOK, ShutdownOK, CallersOK
<1>2. ASSUME NEW m \in Modules, NEW e \in Events, ListenEventOnThread(m, e)
      PROVE  TypeOK'
  <2>1. RegistryOK' /\ CallersOK'
    BY <1>0, <1>2 DEF RegistryOK, CallersOK, ListenEventOnThread, Subscribe
  <2> QED
    BY <1>0, <1>2, <2>1 DEF TypeOK, ListenEventOnThread, DeliveryOK, GatesOK, RunnerOK,
                            StartupOK, ShutdownOK
<1>3. ASSUME NEW m \in Modules, PublishReads(m) \/ PublishWrites(m)
      PROVE  TypeOK'
  <2>a. "none" \in States
    BY DEF States
  <2>b. RegistryOK'
    <3>1. CASE PublishReads(m)
      BY <1>0, <3>1 DEF RegistryOK, PublishReads
    <3>2. CASE PublishWrites(m)
      BY <1>0, <3>2 DEF RegistryOK, PublishWrites
    <3> QED
      BY <1>3, <3>1, <3>2
  <2>c. CallersOK'
    <3>1. CASE PublishReads(m)
      BY <1>0, <3>1 DEF RegistryOK, CallersOK, PublishReads
    <3>2. CASE PublishWrites(m)
      BY <1>0, <2>a, <3>2 DEF CallersOK, PublishWrites
    <3> QED
      BY <1>3, <3>1, <3>2
  <2>1. RegistryOK' /\ CallersOK'
    BY <2>b, <2>c
  <2> QED
    BY <1>0, <1>3, <2>1 DEF TypeOK, PublishReads, PublishWrites, DeliveryOK, GatesOK,
                            RunnerOK, StartupOK, ShutdownOK
<1>4. ASSUME NEW tr \in Triggers, TriggerEvent(tr)
      PROVE  TypeOK'
  <2>1. Targets(tr) \in SUBSET Modules
    BY <1>0, ManagerAssumption DEF Targets, RegistryOK
  <2>2. [replies EXCEPT ![tr][NoModule] = @ + 1]
          \in [Triggers -> [Modules \cup {NoModule} -> Nat]]
    <3>1. replies[tr] \in [Modules \cup {NoModule} -> Nat]
      BY <1>0 DEF DeliveryOK
    <3>2. [replies[tr] EXCEPT ![NoModule] = @ + 1] \in [Modules \cup {NoModule} -> Nat]
      BY <3>1
    <3>3. [replies EXCEPT ![tr][NoModule] = @ + 1] =
            [replies EXCEPT ![tr] = [replies[tr] EXCEPT ![NoModule] = @ + 1]]
      OBVIOUS
    <3> QED
      BY <1>0, <3>2, <3>3 DEF DeliveryOK
  <2>3. DeliveryOK'
    BY <1>0, <1>4, <2>1, <2>2 DEF DeliveryOK, TriggerEvent
  <2> QED
    BY <1>0, <1>4, <2>3 DEF TypeOK, TriggerEvent, RegistryOK, GatesOK, RunnerOK,
                            StartupOK, ShutdownOK, CallersOK
<1>5. ASSUME NEW tr \in Triggers, NEW m \in Modules, PostExec(tr, m)
      PROVE  TypeOK'
  <2>1. queue' \in Seq(Task)
    BY <1>0, <1>5, MkTypes, PostType DEF PostExec, At
  <2> QED
    BY <1>0, <1>5, <2>1 DEF TypeOK, PostExec, RegistryOK, DeliveryOK, GatesOK, RunnerOK,
                            StartupOK, ShutdownOK, CallersOK
<1>6. ASSUME NEW tr \in Triggers, NEW m \in Modules, AnswerEvent(tr, m)
      PROVE  TypeOK'
  <2>1. DeliveryOK'
    BY <1>0, <1>6, HelperTypes DEF DeliveryOK, AnswerEvent
  <2> QED
    BY <1>0, <1>6, <2>1 DEF TypeOK, AnswerEvent, RegistryOK, GatesOK, RunnerOK,
                            StartupOK, ShutdownOK, CallersOK
<1> QED
  BY <1>1, <1>2, <1>3, <1>4, <1>5, <1>6

(* Calls from other threads, and the user's requests.                      *)
LEMMA CallerTypes ==
    ASSUME TypeOK, NEW m \in Modules,
           HostEnters(m) \/ HostLeaves(m) \/ ActiveModule(m) \/ DeactivateModule(m)
    PROVE  TypeOK'
<1> USE DEF registry, delivery, gates, grants, runner, startup, shutdown, callers
<1>0. /\ RegistryOK /\ DeliveryOK /\ GatesOK /\ RunnerOK
      /\ StartupOK /\ ShutdownOK /\ CallersOK
  BY DEF TypeOK
<1>1. CASE HostEnters(m) \/ HostLeaves(m)
  <2>1. GatesOK'
    BY <1>0, <1>1 DEF GatesOK, HostEnters, HostLeaves
  <2> QED
    BY <1>0, <1>1, <2>1 DEF TypeOK, HostEnters, HostLeaves, RegistryOK, DeliveryOK,
                            RunnerOK, StartupOK, ShutdownOK, CallersOK
<1>2. CASE ActiveModule(m) \/ DeactivateModule(m)
  <2>1. PICK fn \in {"activate", "deactivate"} : PostTransition(fn, m)
    BY <1>2 DEF ActiveModule, DeactivateModule
  <2>2. queue' \in Seq(Task)
    BY <1>0, <2>1, MkTypes, PostType DEF PostTransition, At
  <2>3. CallersOK'
    BY <1>0, <2>1 DEF CallersOK, PostTransition
  <2> QED
    BY <1>0, <2>1, <2>2, <2>3 DEF TypeOK, PostTransition, RegistryOK, DeliveryOK, GatesOK,
                                  RunnerOK, StartupOK, ShutdownOK
<1> QED
  BY <1>1, <1>2

(* activate_now() and deactivate_now(), from whatever stack they start.    *)
LEMMA NowTypes ==
    ASSUME TypeOK, NEW m \in Modules, NEW s \in Seq(Frame),
           ActivateNow(m, s) \/ (DeactivateNow(m, s) /\ UNCHANGED grants)
    PROVE  /\ RegistryOK'
           /\ stack' \in Seq(Frame)
           /\ gateClosed' \in SUBSET Modules
           /\ minted' \in SUBSET Modules
           /\ bound' \in SUBSET Modules
           /\ DeactivateNow(m, s) => stale' \in SUBSET (Triggers \X Modules)
<1> USE DEF grants
<1>0. RegistryOK /\ DeliveryOK /\ GatesOK /\ RunnerOK
  BY DEF TypeOK
<1>1. /\ Append(s, MkFrame("activate", m, NoTrigger, "hook")) \in Seq(Frame)
      /\ Append(s, MkFrame("deactivate", m, NoTrigger, "drain")) \in Seq(Frame)
  BY MkTypes DEF At
<1>2. RegistryOK'
  BY <1>0, HelperTypes DEF RegistryOK, ActivateNow, DeactivateNow, States
<1>3. stack' \in Seq(Frame)
  BY <1>1 DEF ActivateNow, DeactivateNow
<1>4. gateClosed' \in SUBSET Modules /\ minted' \in SUBSET Modules /\ bound' \in SUBSET Modules
  BY <1>0 DEF GatesOK, ActivateNow, DeactivateNow, Withdraw
<1>5. DeactivateNow(m, s) => stale' \in SUBSET (Triggers \X Modules)
  BY <1>0 DEF RunnerOK, DeactivateNow
<1> QED
  BY <1>2, <1>3, <1>4, <1>5

(* Activation and deactivation.                                            *)
LEMMA LifecycleTypes ==
    ASSUME TypeOK,
           \/ TaskActivate \/ ActivateReturnsOk \/ ActivateReturnsError \/ ActivateFails
           \/ TaskDeactivate \/ DeactivateDrained \/ DeactivateTimesOut \/ DeactivateReturns
           \/ DeactivateDone
    PROVE  TypeOK'
<1> USE DEF registry, delivery, gates, grants, runner, startup, shutdown, callers
<1>0. /\ RegistryOK /\ DeliveryOK /\ GatesOK /\ RunnerOK
      /\ StartupOK /\ ShutdownOK /\ CallersOK
  BY DEF TypeOK
<1>1. CASE TaskActivate
  <2>1. Head(queue).id \in Modules /\ queue' \in Seq(Task)
    BY <1>0, <1>1, TakeType DEF TaskActivate
  <2>2. /\ RegistryOK' /\ stack' \in Seq(Frame) /\ gateClosed' \in SUBSET Modules
        /\ minted' \in SUBSET Modules /\ bound' \in SUBSET Modules
    BY <1>0, <1>1, <2>1, NowTypes DEF TaskActivate, RunnerOK
  <2> QED
    BY <1>0, <1>1, <2>1, <2>2 DEF TypeOK, TaskActivate, DeliveryOK, GatesOK,
                                  RunnerOK, StartupOK, ShutdownOK, CallersOK
<1>2. CASE ActivateReturnsOk
  <2>1. Top.id \in Modules /\ stack' \in Seq(Frame)
    BY <1>0, <1>2, TopType DEF ActivateReturnsOk
  <2>2. RegistryOK'
    BY <1>0, <1>2, <2>1, HelperTypes DEF RegistryOK, ActivateReturnsOk, States
  <2> QED
    BY <1>0, <1>2, <2>1, <2>2 DEF TypeOK, ActivateReturnsOk, DeliveryOK, GatesOK,
                                  RunnerOK, StartupOK, ShutdownOK, CallersOK
<1>3. CASE ActivateReturnsError
  <2>1. Top.id \in Modules /\ stack' \in Seq(Frame)
    BY <1>0, <1>3, TopType DEF ActivateReturnsError, At
  <2> QED
    BY <1>0, <1>3, <2>1 DEF TypeOK, ActivateReturnsError, Withdraw, RegistryOK, DeliveryOK,
                            GatesOK, RunnerOK, StartupOK, ShutdownOK, CallersOK
<1>4. CASE ActivateFails
  <2>1. Top.id \in Modules /\ stack' \in Seq(Frame)
    BY <1>0, <1>4, TopType DEF ActivateFails
  <2>2. RegistryOK'
    BY <1>0, <1>4, <2>1, HelperTypes DEF RegistryOK, ActivateFails, States
  <2> QED
    BY <1>0, <1>4, <2>1, <2>2 DEF TypeOK, ActivateFails, DeliveryOK, GatesOK,
                                  RunnerOK, StartupOK, ShutdownOK, CallersOK
<1>5. CASE TaskDeactivate
  <2>1. Head(queue).id \in Modules /\ queue' \in Seq(Task)
    BY <1>0, <1>5, TakeType DEF TaskDeactivate
  <2>2. /\ RegistryOK' /\ stack' \in Seq(Frame) /\ gateClosed' \in SUBSET Modules
        /\ stale' \in SUBSET (Triggers \X Modules)
    BY <1>0, <1>5, <2>1, NowTypes DEF TaskDeactivate, RunnerOK
  <2> QED
    BY <1>0, <1>5, <2>1, <2>2 DEF TypeOK, TaskDeactivate, DeliveryOK, GatesOK,
                                  RunnerOK, StartupOK, ShutdownOK, CallersOK
<1>6. CASE DeactivateDrained \/ DeactivateDone
  <2>1. Top.id \in Modules /\ stack' \in Seq(Frame)
    BY <1>0, <1>6, TopType DEF DeactivateDrained, DeactivateDone, At
  <2>2. RegistryOK'
    BY <1>0, <1>6, <2>1, HelperTypes DEF RegistryOK, DeactivateDrained, DeactivateDone
  <2> QED
    BY <1>0, <1>6, <2>1, <2>2 DEF TypeOK, DeactivateDrained, DeactivateDone,
         DeliveryOK, GatesOK, RunnerOK, StartupOK, ShutdownOK, CallersOK
<1>7. CASE DeactivateTimesOut \/ DeactivateReturns
  <2>1. Top.id \in Modules /\ stack' \in Seq(Frame) /\ Deactivated
    BY <1>0, <1>7, TopType DEF DeactivateTimesOut, DeactivateReturns, Deactivated, At
  <2>2. RegistryOK'
    BY <1>0, <2>1, HelperTypes DEF RegistryOK, Deactivated, States
  <2> QED
    BY <1>0, <2>1, <2>2 DEF TypeOK, Deactivated, DeliveryOK, GatesOK,
                            RunnerOK, StartupOK, ShutdownOK, CallersOK
<1> QED
  BY <1>1, <1>2, <1>3, <1>4, <1>5, <1>6, <1>7

(* Exec tasks, and the failures a deactivation answers with.               *)
LEMMA ExecTypes ==
    ASSUME TypeOK,
           \/ TaskExecRefused \/ TaskExec \/ ExecReturns \/ ExecFails
           \/ \E tr \in Triggers : FailAwaiting(tr)
    PROVE  TypeOK'
<1> USE DEF registry, delivery, gates, grants, runner, startup, shutdown, callers
<1>0. /\ RegistryOK /\ DeliveryOK /\ GatesOK /\ RunnerOK
      /\ StartupOK /\ ShutdownOK /\ CallersOK
  BY DEF TypeOK
<1>1. CASE TaskExecRefused
  <2>1. Head(queue).id \in Modules /\ Head(queue).tr \in Triggers /\ queue' \in Seq(Task)
    BY <1>0, <1>1, TakeType DEF TaskExecRefused
  <2>2. DeliveryOK'
    BY <1>0, <1>1, <2>1, HelperTypes DEF DeliveryOK, TaskExecRefused
  <2> QED
    BY <1>0, <1>1, <2>1, <2>2 DEF TypeOK, TaskExecRefused, RegistryOK, GatesOK,
                                  RunnerOK, StartupOK, ShutdownOK, CallersOK
<1>2. CASE TaskExec
  <2>1. Head(queue).id \in Modules /\ Head(queue).tr \in Triggers /\ queue' \in Seq(Task)
    BY <1>0, <1>2, TakeType DEF TaskExec
  <2>2. stack' \in Seq(Frame)
    BY <1>0, <1>2, <2>1, MkTypes DEF TaskExec, RunnerOK, At
  <2> QED
    BY <1>0, <1>2, <2>1, <2>2 DEF TypeOK, TaskExec, RegistryOK, DeliveryOK, GatesOK,
                                  RunnerOK, StartupOK, ShutdownOK, CallersOK
<1>3. CASE ExecReturns
  <2>1. stack' \in Seq(Frame)
    BY <1>0, <1>3, TopType DEF ExecReturns
  <2> QED
    BY <1>0, <1>3, <2>1 DEF TypeOK, ExecReturns, RegistryOK, DeliveryOK, GatesOK,
                            RunnerOK, StartupOK, ShutdownOK, CallersOK
<1>4. CASE ExecFails
  <2>1. Top.id \in Modules /\ Top.tr \in Triggers /\ stack' \in Seq(Frame)
    BY <1>0, <1>4, TopType DEF ExecFails
  <2>2. DeliveryOK'
    BY <1>0, <1>4, <2>1, HelperTypes DEF DeliveryOK, ExecFails
  <2> QED
    BY <1>0, <1>4, <2>1, <2>2 DEF TypeOK, ExecFails, RegistryOK, GatesOK,
                                  RunnerOK, StartupOK, ShutdownOK, CallersOK
<1>5. ASSUME NEW tr \in Triggers, FailAwaiting(tr)
      PROVE  TypeOK'
  <2>1. Top.id \in Modules
    BY <1>0, <1>5, TopType DEF FailAwaiting
  <2>2. DeliveryOK'
    BY <1>0, <1>5, <2>1, HelperTypes DEF DeliveryOK, FailAwaiting
  <2> QED
    BY <1>0, <1>5, <2>2 DEF TypeOK, FailAwaiting, RegistryOK, GatesOK,
                            RunnerOK, StartupOK, ShutdownOK, CallersOK
<1> QED
  BY <1>1, <1>2, <1>3, <1>4, <1>5

(* The scan, and the load and register tasks.                              *)
LEMMA StartupTypes ==
    ASSUME TypeOK,
           \/ ScanVerifies \/ ScanPosts
           \/ TaskLoadRefused \/ TaskLoad \/ LoadRefused \/ LoadDone
           \/ TaskRegisterRefused \/ TaskRegister \/ RegisterActivates \/ RegisterDone
    PROVE  TypeOK'
<1> USE DEF registry, delivery, gates, grants, runner, startup, shutdown, callers
<1>0. /\ RegistryOK /\ DeliveryOK /\ GatesOK /\ RunnerOK
      /\ StartupOK /\ ShutdownOK /\ CallersOK
  BY DEF TypeOK
<1>a. Len(Packages) \in Nat
  BY ManagerAssumption
<1>1. CASE ScanVerifies
  <2>1. StartupOK'
    BY <1>0, <1>a, <1>1 DEF ScanVerifies, StartupOK
  <2> QED
    BY <1>0, <1>1, <2>1 DEF TypeOK, ScanVerifies, RegistryOK, DeliveryOK, GatesOK,
                            RunnerOK, ShutdownOK, CallersOK
<1>2. CASE ScanPosts
  <2>1. Packages[scan + 1] \in Modules /\ scan + 1 \in -1..Len(Packages)
    BY <1>0, <1>a, <1>2, ManagerAssumption DEF ScanPosts, StartupOK
  <2>2. queue' \in Seq(Task)
    BY <1>0, <1>2, <2>1, MkTypes, PostType DEF ScanPosts, At
  <2> QED
    BY <1>0, <1>2, <2>1, <2>2 DEF TypeOK, ScanPosts, RegistryOK, DeliveryOK, GatesOK,
                                  RunnerOK, StartupOK, ShutdownOK, CallersOK
<1>3. CASE TaskLoadRefused
  <2>1. queue' \in Seq(Task)
    BY <1>0, <1>3, TakeType DEF TaskLoadRefused
  <2>2. need' \in Nat \cup {-1}
    BY <1>0, <1>3 DEF TaskLoadRefused, DropExpected, StartupOK
  <2> QED
    BY <1>0, <1>3, <2>1, <2>2 DEF TypeOK, TaskLoadRefused, RegistryOK, DeliveryOK, GatesOK,
                                  RunnerOK, StartupOK, ShutdownOK, CallersOK
<1>4. CASE TaskLoad
  <2>1. Head(queue).id \in Modules /\ queue' \in Seq(Task)
    BY <1>0, <1>4, TakeType DEF TaskLoad
  <2>2. stack' \in Seq(Frame)
    BY <1>0, <1>4, <2>1, MkTypes DEF TaskLoad, RunnerOK, At
  <2> QED
    BY <1>0, <1>4, <2>1, <2>2 DEF TypeOK, TaskLoad, RegistryOK, DeliveryOK, GatesOK,
                                  RunnerOK, StartupOK, ShutdownOK, CallersOK
<1>5. CASE LoadRefused
  <2>1. stack' \in Seq(Frame)
    BY <1>0, <1>5, TopType DEF LoadRefused
  <2>2. need' \in Nat \cup {-1}
    BY <1>0, <1>5 DEF LoadRefused, DropExpected, StartupOK
  <2> QED
    BY <1>0, <1>5, <2>1, <2>2 DEF TypeOK, LoadRefused, RegistryOK, DeliveryOK, GatesOK,
                                  RunnerOK, StartupOK, ShutdownOK, CallersOK
<1>6. CASE LoadDone
  <2>1. Top.id \in Modules /\ stack' \in Seq(Frame)
    BY <1>0, <1>6, TopType DEF LoadDone
  <2>2. queue' \in Seq(Task)
    BY <1>0, <1>6, <2>1, MkTypes, PostType DEF LoadDone, At
  <2> QED
    BY <1>0, <1>6, <2>1, <2>2 DEF TypeOK, LoadDone, RegistryOK, DeliveryOK, GatesOK,
                                  RunnerOK, StartupOK, ShutdownOK, CallersOK
<1>7. CASE TaskRegisterRefused
  <2>1. queue' \in Seq(Task)
    BY <1>0, <1>7, TakeType DEF TaskRegisterRefused
  <2>2. StartupOK'
    BY <1>0, <1>7 DEF TaskRegisterRefused, StartupOK
  <2> QED
    BY <1>0, <1>7, <2>1, <2>2 DEF TypeOK, TaskRegisterRefused, RegistryOK, DeliveryOK, GatesOK,
                            RunnerOK, ShutdownOK, CallersOK
<1>8. CASE TaskRegister
  <2>1. Head(queue).id \in Modules /\ queue' \in Seq(Task)
    BY <1>0, <1>8, TakeType DEF TaskRegister
  <2>2. stack' \in Seq(Frame)
    BY <1>0, <1>8, <2>1, MkTypes DEF TaskRegister, RunnerOK, At
  <2>3. RegistryOK'
    BY <1>0, <1>8, <2>1, HelperTypes DEF RegistryOK, TaskRegister, States
  <2> QED
    BY <1>0, <1>8, <2>1, <2>2, <2>3 DEF TypeOK, TaskRegister, DeliveryOK, GatesOK,
                                        RunnerOK, StartupOK, ShutdownOK, CallersOK
<1>9. CASE RegisterActivates
  <2>1. Top.id \in Modules /\ GoTo("wait") \in Seq(Frame)
    BY <1>0, <1>9, TopType DEF RegisterActivates, At
  <2>2. /\ RegistryOK' /\ stack' \in Seq(Frame) /\ gateClosed' \in SUBSET Modules
        /\ minted' \in SUBSET Modules /\ bound' \in SUBSET Modules
    BY <1>0, <1>9, <2>1, NowTypes DEF RegisterActivates
  <2> QED
    BY <1>0, <1>9, <2>1, <2>2 DEF TypeOK, RegisterActivates, DeliveryOK, GatesOK,
                                  RunnerOK, StartupOK, ShutdownOK, CallersOK
<1>10. CASE RegisterDone
  <2>1. stack' \in Seq(Frame)
    BY <1>0, <1>10, TopType DEF RegisterDone
  <2>2. StartupOK'
    BY <1>0, <1>10 DEF RegisterDone, StartupOK
  <2> QED
    BY <1>0, <1>10, <2>1, <2>2 DEF TypeOK, RegisterDone, RegistryOK, DeliveryOK, GatesOK,
                             RunnerOK, ShutdownOK, CallersOK
<1> QED
  BY <1>1, <1>2, <1>3, <1>4, <1>5, <1>6, <1>7, <1>8, <1>9, <1>10

(* The shutdown task, and the main thread around it.                       *)
LEMMA ShutdownTypes ==
    ASSUME TypeOK,
           \/ TaskShutdown \/ UnregisterReturns \/ ShutdownTaskDone
           \/ \E m \in Modules : ShutdownDeactivates(m) \/ ShutdownUnregisters(m)
           \/ ShutdownBegins \/ MainStep
    PROVE  TypeOK'
<1> USE DEF registry, delivery, gates, grants, runner, startup, shutdown, callers
<1>0. /\ RegistryOK /\ DeliveryOK /\ GatesOK /\ RunnerOK
      /\ StartupOK /\ ShutdownOK /\ CallersOK
  BY DEF TypeOK
<1>1. CASE TaskShutdown
  <2>1. queue' \in Seq(Task)
    BY <1>0, <1>1, TakeType DEF TaskShutdown
  <2>2. MkFrame("shutdown", NoModule, NoTrigger, "host") \in Frame
    BY DEF MkFrame, Frame, At
  <2>3. stack' \in Seq(Frame)
    BY <1>0, <1>1, <2>2 DEF TaskShutdown, RunnerOK
  <2>4. beneath' \in SUBSET Modules
    <3>1. ASSUME NEW i \in 1..Len(stack), Lifecycle(stack[i])
          PROVE  stack[i].id \in Modules
      <4>1. stack[i] \in Frame
        BY <1>0 DEF RunnerOK
      <4> QED
        BY <3>1, <4>1 DEF Frame, Lifecycle
    <3> QED
      BY <1>1, <3>1 DEF TaskShutdown
  <2>5. ShutdownOK'
    BY <1>0, <1>1, <2>4 DEF TaskShutdown, ShutdownOK
  <2> QED
    BY <1>0, <1>1, <2>1, <2>3, <2>5 DEF TypeOK, TaskShutdown, RegistryOK, DeliveryOK,
                                        GatesOK, RunnerOK, StartupOK, CallersOK
<1>2. CASE UnregisterReturns \/ ShutdownTaskDone
  <2>1. stack' \in Seq(Frame)
    BY <1>0, <1>2, TopType DEF UnregisterReturns, ShutdownTaskDone
  <2> QED
    BY <1>0, <1>2, <2>1 DEF TypeOK, UnregisterReturns, ShutdownTaskDone, RegistryOK,
         DeliveryOK, GatesOK, RunnerOK, StartupOK, ShutdownOK, CallersOK
<1>3. ASSUME NEW m \in Modules, ShutdownDeactivates(m)
      PROVE  TypeOK'
  <2>1. /\ RegistryOK' /\ stack' \in Seq(Frame) /\ gateClosed' \in SUBSET Modules
        /\ stale' \in SUBSET (Triggers \X Modules)
    BY <1>0, <1>3, NowTypes DEF ShutdownDeactivates, RunnerOK
  <2> QED
    BY <1>0, <1>3, <2>1 DEF TypeOK, ShutdownDeactivates, DeliveryOK, GatesOK,
                            RunnerOK, StartupOK, ShutdownOK, CallersOK
<1>4. ASSUME NEW m \in Modules, ShutdownUnregisters(m)
      PROVE  TypeOK'
  <2>1. stack' \in Seq(Frame)
    BY <1>0, <1>4, MkTypes DEF ShutdownUnregisters, RunnerOK, At
  <2> QED
    BY <1>0, <1>4, <2>1 DEF TypeOK, ShutdownUnregisters, RegistryOK, DeliveryOK, GatesOK,
                            RunnerOK, StartupOK, ShutdownOK, CallersOK
<1>5. CASE ShutdownPosts
  <2>1. MkTask("shutdown", NoModule, NoTrigger) \in Task
    BY DEF MkTask, Task
  <2>2. queue' \in Seq(Task)
    BY <1>0, <1>5, <2>1, PostType DEF ShutdownPosts
  <2> QED
    BY <1>0, <1>5, <2>2 DEF TypeOK, ShutdownPosts, MainGoes, RegistryOK, DeliveryOK, GatesOK,
                            RunnerOK, StartupOK, ShutdownOK, CallersOK
<1>6. CASE \/ ShutdownBegins \/ ShutdownAwaited \/ ShutdownGivesUp \/ ShutdownQuiet
           \/ ShutdownSweeps \/ ShutdownEnds \/ \E m \in Modules : ShutdownRevokes(m)
  <2>1. RegistryOK' /\ DeliveryOK' /\ RunnerOK' /\ StartupOK' /\ CallersOK'
    BY <1>0, <1>6 DEF MainGoes, ShutdownBegins, ShutdownAwaited, ShutdownGivesUp,
         ShutdownQuiet, ShutdownSweeps, ShutdownEnds, ShutdownRevokes, RegistryOK,
         DeliveryOK, RunnerOK, StartupOK, CallersOK
  <2>2. GatesOK' /\ ShutdownOK'
    BY <1>0, <1>6 DEF MainGoes, ShutdownBegins, ShutdownAwaited, ShutdownGivesUp,
         ShutdownQuiet, ShutdownSweeps, ShutdownEnds, ShutdownRevokes, GatesOK, ShutdownOK
  <2> QED
    BY <2>1, <2>2 DEF TypeOK
<1> QED
  BY <1>1, <1>2, <1>3, <1>4, <1>5, <1>6 DEF MainStep

(* The initial state is well typed, and every step keeps it so.            *)
LEMMA TypeInit == Init => TypeOK
<1> SUFFICES ASSUME Init PROVE TypeOK
  OBVIOUS
<1>1. RegistryOK /\ CallersOK
  BY DEF Init, RegistryOK, CallersOK, States
<1>2. DeliveryOK
  BY DEF Init, DeliveryOK
<1>3. GatesOK /\ ShutdownOK
  BY DEF Init, GatesOK, ShutdownOK
<1>4. RunnerOK
  BY DEF Init, RunnerOK
<1>5. StartupOK
  <2>1. Len(Packages) \in Nat
    BY ManagerAssumption
  <2> QED
    BY <2>1 DEF Init, StartupOK
<1> QED
  BY <1>1, <1>2, <1>3, <1>4, <1>5 DEF TypeOK

LEMMA TypeNext == TypeOK /\ [Next]_vars => TypeOK'
<1> SUFFICES ASSUME TypeOK, [Next]_vars PROVE TypeOK'
  OBVIOUS
<1>1. CASE RunnerStep
  BY <1>1, LifecycleTypes, ExecTypes, StartupTypes, ShutdownTypes DEF RunnerStep
<1>2. CASE HookReturns
  BY <1>2, LifecycleTypes, ExecTypes, ShutdownTypes DEF HookReturns
<1>3. CASE ScanStep
  BY <1>3, StartupTypes DEF ScanStep
<1>4. CASE MainStep
  BY <1>4, ShutdownTypes
<1>5. CASE Environment
  BY <1>5, EventTypes, CallerTypes, ShutdownTypes DEF Environment
<1>6. CASE Posting
  BY <1>6, EventTypes DEF Posting
<1>7. CASE UNCHANGED vars
  BY <1>7 DEF TypeOK, RegistryOK, DeliveryOK, GatesOK, RunnerOK, StartupOK, ShutdownOK,
              CallersOK, vars, registry, delivery, gates, grants, runner, startup,
              shutdown, callers
<1> QED
  BY <1>1, <1>2, <1>3, <1>4, <1>5, <1>6, <1>7 DEF Next

-----------------------------------------------------------------------------
(* The module system's state stays well typed: in particular a lifecycle   *)
(* or exec frame always names a module, and an exec frame a trigger.       *)
THEOREM ManagerTypes == Spec => []TypeOK
BY TypeInit, TypeNext, PTL DEF Spec

-----------------------------------------------------------------------------
(* The invariant.                                                          *)

Moving(f) == f.fn \in {"activate", "deactivate"}

FrameFits(f) ==
    /\ f.fn = "activate" => f.at \in {"hook", "drain"} /\ state[f.id] = "activating"
    /\ f.fn = "deactivate" =>
         \/ /\ f.at \in {"drain", "hook"}
            /\ state[f.id] = "deactivating"
            /\ f.id \in gateClosed
            /\ f.at = "hook" => hostIn[f.id] = 0
         \/ f.at = "fail" /\ state[f.id] = "inactive"

(* Every frame fits its module's state; one that fails what is owed runs   *)
(* no module code, so nothing is on top of it.                             *)
StackFits ==
    \A i \in 1..Len(stack) :
        /\ FrameFits(stack[i])
        /\ stack[i].fn = "deactivate" /\ stack[i].at = "fail" => i = Len(stack)

MovedOnce ==
    \A i, j \in 1..Len(stack) :
        Moving(stack[i]) /\ Moving(stack[j]) /\ stack[i].id = stack[j].id => i = j

Inv == TypeOK /\ StackFits /\ MovedOnce /\ NoOrphanedTrigger /\ ListenersConsistent

-----------------------------------------------------------------------------
(* Stacks that grow, shrink and move on.                                   *)

(* The stack with a frame more.                                            *)
LEMMA Pushed ==
    ASSUME NEW s \in Seq(Frame), NEW f \in Frame
    PROVE  /\ Append(s, f) \in Seq(Frame)
           /\ Len(Append(s, f)) = Len(s) + 1
           /\ Len(s) \in Nat
           /\ \A i \in 1..Len(s) : Append(s, f)[i] = s[i]
           /\ Append(s, f)[Len(s) + 1] = f
OBVIOUS

(* The stack with its top frame gone, or at another place in it.           *)
LEMMA Popped ==
    ASSUME RunnerOK, stack # <<>>
    PROVE  /\ Len(stack) \in Nat \ {0}
           /\ Top = stack[Len(stack)] /\ Top \in Frame
           /\ Len(Below) = Len(stack) - 1
           /\ \A i \in 1..(Len(stack) - 1) : Below[i] = stack[i]
           /\ \A at : /\ Len(GoTo(at)) = Len(stack)
                      /\ \A i \in 1..(Len(stack) - 1) : GoTo(at)[i] = stack[i]
                      /\ GoTo(at)[Len(stack)] = [Top EXCEPT !.at = at]
<1>1. Len(stack) \in Nat \ {0} /\ Top = stack[Len(stack)] /\ Top \in Frame
  BY StackType DEF RunnerOK, Top
<1>2. Len(Below) = Len(stack) - 1 /\ \A i \in 1..(Len(stack) - 1) : Below[i] = stack[i]
  <2>1. stack \in Seq(Frame)
    BY DEF RunnerOK
  <2>2. \A i \in 1..(Len(stack) - 1) : stack[i] \in Frame
    BY <2>1
  <2>3. Len(stack) - 1 \in Int /\ Len(stack) >= 1
    BY <1>1
  <2>4. /\ Len(Below) = Len(stack) - 1
        /\ \A i \in 1..((Len(stack) - 1) - 1 + 1) : Below[i] = stack[1 + i - 1]
    <3> DEFINE n == Len(stack) - 1
    <3>1. /\ Len(SubSeq(stack, 1, n)) = (IF 1 <= n THEN n - 1 + 1 ELSE 0)
          /\ \A i \in 1..(n - 1 + 1) : SubSeq(stack, 1, n)[i] = stack[1 + i - 1]
      BY <2>2, <2>3, SubSeqProperties
    <3>2. n \in Int /\ n >= 0
      BY <2>3
    <3>3. (IF 1 <= n THEN n - 1 + 1 ELSE 0) = n
      <4> HIDE DEF n
      <4> QED
        BY <3>2
    <3> QED
      BY <3>1, <3>3 DEF Below
  <2>5. ASSUME NEW i \in 1..(Len(stack) - 1)
        PROVE  Below[i] = stack[i]
    <3>1. i \in 1..((Len(stack) - 1) - 1 + 1) /\ 1 + i - 1 = i
      BY <1>1
    <3> QED
      BY <2>4, <3>1
  <2> QED
    BY <2>4, <2>5
<1>3. ASSUME NEW at
      PROVE  /\ Len(GoTo(at)) = Len(stack)
             /\ \A i \in 1..(Len(stack) - 1) : GoTo(at)[i] = stack[i]
             /\ GoTo(at)[Len(stack)] = [Top EXCEPT !.at = at]
  <2>1. DOMAIN stack = 1..Len(stack)
    BY DEF RunnerOK
  <2>2. GoTo(at) = [stack EXCEPT ![Len(stack)] = [Top EXCEPT !.at = at]]
    BY DEF GoTo, Top
  <2>3. DOMAIN GoTo(at) = 1..Len(stack)
    BY <2>1, <2>2
  <2>4. Len(GoTo(at)) = Len(stack)
    BY <1>1, <2>2, <2>3 DEF RunnerOK
  <2> QED
    BY <1>1, <2>1, <2>2, <2>4
<1> QED
  BY <1>1, <1>2, <1>3

(* The frames that move modules are the same ones in s as on the stack,    *)
(* and none of them is failing what is owed.                               *)
SameMoves(s) ==
    /\ \A i \in 1..Len(s) : Moving(s[i]) => i \in 1..Len(stack) /\ s[i] = stack[i]
    /\ \A i \in 1..Len(stack) : Moving(stack[i]) =>
          i \in 1..Len(s) /\ s[i] = stack[i] /\ stack[i].at # "fail"

(* Nothing fails what is owed while a task is taken or another kind of     *)
(* frame is on top.                                                        *)
LEMMA NoneFailing ==
    ASSUME Inv,
           \/ \E fn : Take(fn)
           \/ stack # <<>> /\ ~Moving(Top)
    PROVE  \A i \in 1..Len(stack) : Moving(stack[i]) => stack[i].at # "fail"
<1>1. ASSUME NEW i \in 1..Len(stack), Moving(stack[i]), stack[i].at = "fail"
      PROVE  i = Len(stack) /\ Top = stack[i]
  <2>1. FrameFits(stack[i])
    BY DEF Inv, StackFits
  <2>2. stack[i].fn = "deactivate"
    BY <1>1, <2>1 DEF FrameFits, Moving
  <2> QED
    BY <1>1, <2>2 DEF Inv, StackFits, Top
<1>2. stack # <<>> /\ Top.at = "fail" => ~\E fn : Take(fn)
  BY DEF Take, CanTake, InModuleCode, RunsCodeOf
<1>3. (\E i \in 1..Len(stack) : TRUE) => stack # <<>>
  BY DEF Inv, TypeOK, RunnerOK
<1> QED
  BY <1>1, <1>2, <1>3

(* The stack itself, with another kind of frame pushed or moved on or      *)
(* popped, has the same moves.                                             *)
LEMMA MovesKept ==
    ASSUME Inv,
           \/ \E fn : Take(fn)
           \/ stack # <<>> /\ ~Moving(Top)
    PROVE  /\ SameMoves(stack)
           /\ \A f \in Frame : ~Moving(f) => SameMoves(Append(stack, f))
           /\ stack # <<>> /\ ~Moving(Top) => SameMoves(Below) /\ \A at : SameMoves(GoTo(at))
<1>0. RunnerOK
  BY DEF Inv, TypeOK
<1>1. \A i \in 1..Len(stack) : Moving(stack[i]) => stack[i].at # "fail"
  BY NoneFailing
<1>2. SameMoves(stack)
  BY <1>1 DEF SameMoves
<1>3. ASSUME NEW f \in Frame, ~Moving(f)
      PROVE  SameMoves(Append(stack, f))
  <2>1. stack \in Seq(Frame)
    BY <1>0 DEF RunnerOK
  <2>2. /\ Len(Append(stack, f)) = Len(stack) + 1 /\ Len(stack) \in Nat
        /\ \A i \in 1..Len(stack) : Append(stack, f)[i] = stack[i]
        /\ Append(stack, f)[Len(stack) + 1] = f
    BY <2>1, Pushed
  <2> QED
    BY <1>1, <1>3, <2>2 DEF SameMoves
<1>4. ASSUME stack # <<>>, ~Moving(Top)
      PROVE  SameMoves(Below)
  <2>1. /\ Len(stack) \in Nat \ {0} /\ Len(Below) = Len(stack) - 1
        /\ \A i \in 1..(Len(stack) - 1) : Below[i] = stack[i]
        /\ Top = stack[Len(stack)]
    BY <1>0, <1>4, Popped
  <2> QED
    BY <1>1, <1>4, <2>1 DEF SameMoves
<1>5. ASSUME stack # <<>>, ~Moving(Top), NEW at
      PROVE  SameMoves(GoTo(at))
  <2>1. /\ Len(stack) \in Nat \ {0} /\ Len(GoTo(at)) = Len(stack)
        /\ \A i \in 1..(Len(stack) - 1) : GoTo(at)[i] = stack[i]
        /\ GoTo(at)[Len(stack)] = [Top EXCEPT !.at = at]
        /\ Top = stack[Len(stack)] /\ Top \in Frame
    BY <1>0, <1>5, Popped
  <2>2. ~Moving([Top EXCEPT !.at = at])
    BY <1>5, <2>1 DEF Moving, Frame
  <2> QED
    BY <1>1, <1>5, <2>1, <2>2 DEF SameMoves
<1> QED
  BY <1>2, <1>3, <1>4, <1>5

-----------------------------------------------------------------------------
(* What the steps have in common.                                          *)

Owes(m) == \E tr \in Triggers : m \in awaiting[tr]
BeingDeactivated(m) == \E i \in 1..Len(stack) : stack[i].fn = "deactivate" /\ stack[i].id = m

(* NoOrphanedTrigger, of frames.                                           *)
LEMMA OwedBy ==
    NoOrphanedTrigger <=> \A tr \in Triggers : \A m \in awaiting[tr] :
                              state[m] = "active" \/ BeingDeactivated(m)
BY DEF NoOrphanedTrigger, FramesOf, BeingDeactivated

(* The subscriptions of a step that changes neither them nor the states.   *)
LEMMA SameListeners ==
    ASSUME ListenersConsistent, UNCHANGED <<state, listening, events_>>
    PROVE  ListenersConsistent'
BY DEF ListenersConsistent

(* Steps that move no module and leave the frames that do alone.  Answers  *)
(* are taken, and asked of active modules only; a module whose gate is     *)
(* closed is not entered.                                                  *)
LEMMA Beside ==
    ASSUME Inv, TypeOK', UNCHANGED state, ListenersConsistent',
           stack' = stack \/ SameMoves(stack'),
           gateClosed \subseteq gateClosed',
           \A m \in gateClosed : hostIn[m] = 0 => hostIn'[m] = 0,
           \A tr \in Triggers : \A m \in awaiting'[tr] :
               m \in awaiting[tr] \/ state[m] = "active"
    PROVE  Inv'
<1>1. ASSUME NEW i \in 1..Len(stack'), Moving(stack'[i])
      PROVE  i \in 1..Len(stack) /\ stack'[i] = stack[i]
  BY <1>1 DEF SameMoves
<1>2. StackFits'
  <2> SUFFICES ASSUME NEW i \in 1..Len(stack')
               PROVE  /\ FrameFits(stack[i])'
                      /\ stack'[i].fn = "deactivate" /\ stack'[i].at = "fail" => i = Len(stack')
    BY DEF StackFits
  <2>1. CASE ~Moving(stack'[i])
    BY <2>1 DEF Moving, FrameFits
  <2>2. CASE Moving(stack'[i])
    <3>1. i \in 1..Len(stack) /\ stack'[i] = stack[i] /\ FrameFits(stack[i])
      BY <1>1, <2>2 DEF Inv, StackFits
    <3>2. FrameFits(stack[i])'
      BY <3>1 DEF FrameFits
    <3>3. stack'[i].fn = "deactivate" /\ stack'[i].at = "fail" => i = Len(stack')
      BY <2>2, <3>1 DEF SameMoves, Inv, StackFits
    <3> QED
      BY <3>2, <3>3
  <2> QED
    BY <2>1, <2>2
<1>3. MovedOnce'
  BY <1>1 DEF Inv, MovedOnce
<1>4. \A m : BeingDeactivated(m) => BeingDeactivated(m)'
  BY DEF BeingDeactivated, SameMoves, Moving
<1>5. NoOrphanedTrigger'
  <2>1. \A tr \in Triggers : \A m \in awaiting[tr] : state[m] = "active" \/ BeingDeactivated(m)
    BY OwedBy DEF Inv
  <2>2. \A tr \in Triggers : \A m \in awaiting'[tr] :
            state'[m] = "active" \/ BeingDeactivated(m)'
    BY <1>4, <2>1
  <2> QED
    BY <2>2 DEF NoOrphanedTrigger, FramesOf, BeingDeactivated
<1> QED
  BY <1>2, <1>3, <1>5 DEF Inv

(* A module in one of these states is moved by no frame and owes nothing.  *)
LEMMA AtRest ==
    ASSUME Inv, NEW m \in Modules, SameMoves(stack),
           state[m] \notin {"activating", "deactivating"}
    PROVE  /\ \A i \in 1..Len(stack) : Moving(stack[i]) => stack[i].id # m
           /\ state[m] # "active" => ~Owes(m)
<1>1. ASSUME NEW i \in 1..Len(stack), Moving(stack[i])
      PROVE  stack[i].id # m
  <2>1. FrameFits(stack[i]) /\ stack[i].at # "fail"
    BY <1>1 DEF Inv, StackFits, SameMoves
  <2> QED
    BY <1>1, <2>1 DEF FrameFits, Moving
<1>2. ~BeingDeactivated(m)
  BY <1>1 DEF BeingDeactivated, Moving
<1> QED
  BY <1>1, <1>2, OwedBy DEF Owes, Inv

(* A step that takes a module at rest to another state, with a frame for   *)
(* it on top of the stack s or without.                                    *)
LEMMA Departs ==
    ASSUME Inv, TypeOK', ListenersConsistent', NEW m \in Modules, NEW s \in Seq(Frame),
           SameMoves(stack), SameMoves(s),
           state[m] \notin {"activating", "deactivating"},
           UNCHANGED <<hostIn, awaiting>>,
           \A x \in Modules \ {m} : /\ state'[x] = state[x]
                                    /\ x \in gateClosed <=> x \in gateClosed',
           \/ stack' = s /\ ~Owes(m)
           \/ \E f \in Frame : /\ stack' = Append(s, f)
                               /\ Moving(f) => f.id = m /\ f.at # "fail"
                               /\ FrameFits(f)'
                               /\ Owes(m) => f.fn = "deactivate" /\ f.id = m
    PROVE  Inv'
<1>1. \A i \in 1..Len(stack) : Moving(stack[i]) => stack[i].id # m
  BY AtRest
<1>2. Len(s) \in Nat
  OBVIOUS
<1>3. \A i \in 1..Len(s) : Moving(s[i]) =>
        i \in 1..Len(stack) /\ s[i] = stack[i] /\ s[i].id # m /\ s[i].at # "fail"
  BY <1>1 DEF SameMoves
<1>4. \A i \in 1..Len(s) : FrameFits(s[i])'
  <2> SUFFICES ASSUME NEW i \in 1..Len(s) PROVE FrameFits(s[i])'
    OBVIOUS
  <2>1. CASE ~Moving(s[i])
    BY <2>1 DEF Moving, FrameFits
  <2>2. CASE Moving(s[i])
    <3>1. FrameFits(s[i]) /\ s[i].id # m
      BY <1>3, <2>2 DEF Inv, StackFits
    <3>2. s[i].id \in Modules
      BY <2>2 DEF Frame, Moving
    <3> QED
      BY <3>1, <3>2 DEF FrameFits
  <2> QED
    BY <2>1, <2>2
<1>5. \A x : BeingDeactivated(x) =>
        \E i \in 1..Len(s) : s[i].fn = "deactivate" /\ s[i].id = x
  BY DEF BeingDeactivated, SameMoves, Moving
<1>6. \A tr \in Triggers : \A x \in awaiting[tr] : state[x] = "active" \/ BeingDeactivated(x)
  BY OwedBy DEF Inv
<1>7. CASE stack' = s /\ ~Owes(m)
  <2>1. StackFits'
    BY <1>3, <1>4, <1>7 DEF StackFits, Moving
  <2>2. MovedOnce'
    BY <1>3, <1>7 DEF Inv, MovedOnce
  <2>3. NoOrphanedTrigger'
    <3> SUFFICES ASSUME NEW tr \in Triggers, NEW x \in awaiting[tr]
                 PROVE  state'[x] = "active" \/ FramesOf("deactivate", x)' # {}
      BY DEF NoOrphanedTrigger
    <3>1. x \in Modules /\ x # m
      BY <1>7 DEF Owes, Inv, TypeOK, DeliveryOK
    <3>2. state'[x] = state[x]
      BY <3>1
    <3> QED
      BY <1>5, <1>6, <1>7, <3>2 DEF FramesOf
  <2> QED
    BY <2>1, <2>2, <2>3 DEF Inv
<1>8. ASSUME NEW f \in Frame, stack' = Append(s, f),
             Moving(f) => f.id = m /\ f.at # "fail", FrameFits(f)',
             Owes(m) => f.fn = "deactivate" /\ f.id = m
      PROVE  Inv'
  <2>1. /\ Len(stack') = Len(s) + 1
        /\ \A i \in 1..Len(s) : stack'[i] = s[i]
        /\ stack'[Len(s) + 1] = f
    BY <1>8, Pushed
  <2>2. \A i \in 1..Len(stack') : i \in 1..Len(s) \/ i = Len(s) + 1
    BY <1>2, <2>1
  <2>3. StackFits'
    <3> SUFFICES ASSUME NEW i \in 1..Len(stack')
                 PROVE  /\ FrameFits(stack[i])'
                        /\ stack'[i].fn = "deactivate" /\ stack'[i].at = "fail" => i = Len(stack')
      BY DEF StackFits
    <3>1. CASE i \in 1..Len(s)
      BY <1>3, <1>4, <2>1, <3>1 DEF Moving
    <3>2. CASE i = Len(s) + 1
      BY <1>8, <2>1, <3>2 DEF Moving
    <3> QED
      BY <2>2, <3>1, <3>2
  <2>4. MovedOnce'
    <3> SUFFICES ASSUME NEW i \in 1..Len(stack'), NEW j \in 1..Len(stack'),
                        Moving(stack'[i]), Moving(stack'[j]), stack'[i].id = stack'[j].id
                 PROVE  i = j
      BY DEF MovedOnce
    <3> QED
      BY <1>3, <1>8, <2>1, <2>2 DEF Inv, MovedOnce
  <2>5. NoOrphanedTrigger'
    <3> SUFFICES ASSUME NEW tr \in Triggers, NEW x \in awaiting[tr]
                 PROVE  state'[x] = "active" \/ BeingDeactivated(x)'
      BY DEF NoOrphanedTrigger, FramesOf, BeingDeactivated
    <3>1. x \in Modules
      BY DEF Inv, TypeOK, DeliveryOK
    <3>2. CASE x = m
      <4>1. f.fn = "deactivate" /\ f.id = x
        BY <1>8, <3>2 DEF Owes
      <4>2. Len(s) + 1 \in 1..Len(stack')
        BY <1>2, <2>1
      <4> QED
        BY <2>1, <4>1, <4>2 DEF BeingDeactivated
    <3>3. CASE x # m
      <4>1. state'[x] = state[x]
        BY <3>1, <3>3
      <4>2. BeingDeactivated(x) => BeingDeactivated(x)'
        <5> SUFFICES ASSUME BeingDeactivated(x) PROVE BeingDeactivated(x)'
          OBVIOUS
        <5>1. PICK i \in 1..Len(s) : s[i].fn = "deactivate" /\ s[i].id = x
          BY <1>5
        <5>2. i \in 1..Len(stack') /\ stack'[i] = s[i]
          BY <1>2, <2>1
        <5> QED
          BY <5>1, <5>2 DEF BeingDeactivated
      <4> QED
        BY <1>6, <4>1, <4>2
    <3> QED
      BY <3>2, <3>3
  <2> QED
    BY <2>3, <2>4, <2>5 DEF Inv
<1> QED
  BY <1>7, <1>8

(* A step of the frame on top that is moving its module: on to another     *)
(* place, or off the stack when nothing is owed any more.                  *)
LEMMA Arrives ==
    ASSUME Inv, TypeOK', ListenersConsistent', stack # <<>>, Moving(Top),
           UNCHANGED <<hostIn, awaiting>>,
           \A x \in Modules \ {Top.id} : /\ state'[x] = state[x]
                                         /\ x \in gateClosed <=> x \in gateClosed',
           \/ stack' = Below /\ (Top.fn = "deactivate" => ~Owes(Top.id))
           \/ \E at \in At : stack' = GoTo(at) /\ FrameFits(Top)'
    PROVE  Inv'
<1> DEFINE m == Top.id
           n == Len(stack)
           Old(i) == i \in 1..(n - 1)
<1>0. RunnerOK /\ Top \in Frame /\ m \in Modules
  <2>1. RunnerOK
    BY DEF Inv, TypeOK
  <2> QED
    BY <2>1, Popped DEF Frame, Moving
<1>1. n \in Nat \ {0} /\ Top = stack[n] /\ n \in 1..n /\ \A i : Old(i) => i \in 1..n /\ i # n
  BY <1>0, Popped
<1>2. \A i : Old(i) /\ Moving(stack[i]) => stack[i].id # m
  BY <1>1 DEF Inv, MovedOnce
<1>3. \A i : Old(i) => ~(stack[i].fn = "deactivate" /\ stack[i].at = "fail")
  BY <1>1 DEF Inv, StackFits
<1>4. ASSUME NEW i, Old(i), NEW f, f = stack[i]
      PROVE  FrameFits(f)'
  <2>1. CASE ~Moving(f)
    BY <2>1 DEF Moving, FrameFits
  <2>2. CASE Moving(f)
    <3>1. FrameFits(f) /\ f.id # m
      BY <1>1, <1>2, <1>4, <2>2 DEF Inv, StackFits
    <3>2. f \in Frame
      BY <1>0, <1>1, <1>4 DEF RunnerOK
    <3>3. f.id \in Modules
      BY <2>2, <3>2 DEF Frame, Moving
    <3> QED
      BY <3>1, <3>3 DEF FrameFits
  <2> QED
    BY <2>1, <2>2
<1>5. \A tr \in Triggers : \A x \in awaiting[tr] :
        x \in Modules /\ (state[x] = "active" \/ BeingDeactivated(x))
  BY OwedBy DEF Inv, TypeOK, DeliveryOK
<1>6. \A x : BeingDeactivated(x) =>
        \/ Top.fn = "deactivate" /\ x = m
        \/ \E i : Old(i) /\ stack[i].fn = "deactivate" /\ stack[i].id = x
  BY <1>1 DEF BeingDeactivated
<1>7. Top.fn = "activate" => ~Owes(m)
  <2> SUFFICES ASSUME Top.fn = "activate" PROVE ~Owes(m)
    OBVIOUS
  <2>1. state[m] = "activating"
    BY <1>1 DEF Inv, StackFits, FrameFits
  <2>2. ~BeingDeactivated(m)
    BY <1>2, <1>6 DEF Moving
  <2> QED
    BY <1>5, <2>1, <2>2 DEF Owes
<1>8. CASE stack' = Below /\ (Top.fn = "deactivate" => ~Owes(m))
  <2>1. Len(stack') = n - 1 /\ \A i : Old(i) => stack'[i] = stack[i]
    BY <1>0, <1>8, Popped
  <2>2. StackFits'
    <3> SUFFICES ASSUME NEW i \in 1..Len(stack')
                 PROVE  /\ FrameFits(stack[i])'
                        /\ stack'[i].fn = "deactivate" /\ stack'[i].at = "fail" => i = Len(stack')
      BY DEF StackFits
    <3>1. Old(i) /\ stack'[i] = stack[i]
      BY <2>1
    <3> QED
      BY <1>3, <1>4, <3>1
  <2>3. MovedOnce'
    BY <1>1, <2>1 DEF Inv, MovedOnce
  <2>4. NoOrphanedTrigger'
    <3> SUFFICES ASSUME NEW tr \in Triggers, NEW x \in awaiting[tr]
                 PROVE  state'[x] = "active" \/ BeingDeactivated(x)'
      BY DEF NoOrphanedTrigger, FramesOf, BeingDeactivated
    <3>1. x # m /\ x \in Modules
      BY <1>5, <1>7, <1>8 DEF Owes, Moving
    <3>2. CASE state[x] = "active"
      BY <3>1, <3>2
    <3>3. CASE BeingDeactivated(x)
      <4>1. PICK i : Old(i) /\ stack[i].fn = "deactivate" /\ stack[i].id = x
        BY <1>6, <3>1, <3>3
      <4> QED
        BY <2>1, <4>1 DEF BeingDeactivated
    <3> QED
      BY <1>5, <3>2, <3>3
  <2> QED
    BY <2>2, <2>3, <2>4 DEF Inv
<1>9. ASSUME NEW at \in At, stack' = GoTo(at), FrameFits(Top)'
      PROVE  Inv'
  <2> DEFINE g == [Top EXCEPT !.at = at]
  <2>1. /\ Len(stack') = n /\ stack'[n] = g
        /\ \A i : Old(i) => stack'[i] = stack[i]
    BY <1>0, <1>9, Popped
  <2>2. g.fn = Top.fn /\ g.id = m
    BY <1>0 DEF Frame
  <2>3. \A i \in 1..n : Old(i) \/ i = n
    BY <1>1
  <2>4. StackFits'
    <3> SUFFICES ASSUME NEW i \in 1..Len(stack')
                 PROVE  /\ FrameFits(stack[i])'
                        /\ stack'[i].fn = "deactivate" /\ stack'[i].at = "fail" => i = Len(stack')
      BY DEF StackFits
    <3>1. CASE Old(i)
      BY <1>3, <1>4, <2>1, <3>1
    <3>2. CASE i = n
      <4>1. Top' = stack'[i] /\ i = Len(stack')
        BY <2>1, <3>2 DEF Top
      <4> QED
        BY <1>9, <4>1
    <3> QED
      BY <2>1, <2>3, <3>1, <3>2
  <2>5. MovedOnce'
    <3> SUFFICES ASSUME NEW i \in 1..n, NEW j \in 1..n,
                        Moving(stack'[i]), Moving(stack'[j]), stack'[i].id = stack'[j].id
                 PROVE  i = j
      BY <2>1 DEF MovedOnce
    <3> HIDE DEF g
    <3> QED
      BY <1>1, <1>2, <2>1, <2>2, <2>3 DEF Inv, MovedOnce
  <2>6. NoOrphanedTrigger'
    <3> SUFFICES ASSUME NEW tr \in Triggers, NEW x \in awaiting[tr]
                 PROVE  state'[x] = "active" \/ BeingDeactivated(x)'
      BY DEF NoOrphanedTrigger, FramesOf, BeingDeactivated
    <3>1. CASE x = m
      <4>1. g.fn = "deactivate" /\ g.id = x
        BY <1>7, <2>2, <3>1 DEF Owes, Moving
      <4> HIDE DEF g
      <4> QED
        BY <1>1, <2>1, <4>1 DEF BeingDeactivated
    <3>2. CASE x # m /\ state[x] = "active"
      BY <1>5, <3>2
    <3>3. CASE x # m /\ BeingDeactivated(x)
      <4>1. PICK i : Old(i) /\ stack[i].fn = "deactivate" /\ stack[i].id = x
        BY <1>6, <3>3
      <4> QED
        BY <1>1, <2>1, <4>1 DEF BeingDeactivated
    <3> QED
      BY <1>5, <3>1, <3>2, <3>3
  <2> QED
    BY <2>4, <2>5, <2>6 DEF Inv
<1> QED
  BY <1>8, <1>9

-----------------------------------------------------------------------------
(* Subscriptions.                                                          *)

(* A module whose subscriptions are dropped may be in any state.           *)
LEMMA ListenersDropped ==
    ASSUME Inv, NEW m \in Modules, DropListeners(m), NEW st \in States,
           state' = [state EXCEPT ![m] = st]
    PROVE  ListenersConsistent'
BY DEF Inv, TypeOK, RegistryOK, ListenersConsistent, DropListeners

(* One that had none, or is becoming active, keeps what it has.            *)
LEMMA ListenersMoved ==
    ASSUME Inv, NEW m \in Modules, UNCHANGED <<listening, events_>>, NEW st \in States,
           state' = [state EXCEPT ![m] = st],
           st \in {"activating", "active"} \/ state[m] \notin {"activating", "active"}
    PROVE  ListenersConsistent'
BY DEF Inv, TypeOK, RegistryOK, ListenersConsistent

-----------------------------------------------------------------------------
(* The invariant, step by step.                                            *)

(* Taking an answer takes nothing else.                                    *)
LEMMA AnswersTaken ==
    ASSUME Inv, NEW tr \in Triggers, NEW m \in Modules, TakeAnswer(tr, m)
    PROVE  \A t \in Triggers : \A x \in awaiting'[t] : x \in awaiting[t]
BY DEF Inv, TypeOK, DeliveryOK, TakeAnswer

(* Events, subscriptions, and the calls of other threads.                  *)
LEMMA EnvironmentKeeps ==
    ASSUME Inv, TypeOK', Environment \/ Posting \/ ScanStep \/ MainStep
    PROVE  Inv'
<1> USE DEF registry, delivery, gates, grants, runner, startup, shutdown, callers
<1>0. ListenersConsistent /\ RegistryOK /\ DeliveryOK /\ GatesOK
  BY DEF Inv, TypeOK
<1>1. ASSUME UNCHANGED <<state, stack, listening, events_, gateClosed, hostIn, awaiting>>
      PROVE  Inv'
  BY <1>0, <1>1, Beside, SameListeners
<1>2. CASE Posting \/ ScanStep \/ ShutdownBegins
  BY <1>1, <1>2 DEF Posting, PostExec, ScanStep, ScanVerifies, ScanPosts, ShutdownBegins, MainGoes
<1>3. CASE MainStep
  BY <1>1, <1>3 DEF MainStep, MainGoes, ShutdownPosts, ShutdownGivesUp, ShutdownAwaited,
                    ShutdownQuiet, ShutdownSweeps, ShutdownEnds, ShutdownRevokes
<1>4. ASSUME NEW m \in Modules,
             \/ ActiveModule(m) \/ DeactivateModule(m) \/ PublishReads(m) \/ PublishWrites(m)
      PROVE  Inv'
  BY <1>1, <1>4 DEF ActiveModule, DeactivateModule, PostTransition, PublishReads, PublishWrites
<1>5. ASSUME NEW m \in Modules, HostEnters(m) \/ HostLeaves(m)
      PROVE  Inv'
  <2>1. UNCHANGED <<state, stack, listening, events_, gateClosed, awaiting>>
    BY <1>5 DEF HostEnters, HostLeaves
  <2>2. \A x \in gateClosed : hostIn[x] = 0 => hostIn'[x] = 0
    BY <1>0, <1>5 DEF HostEnters, HostLeaves, GatesOK
  <2> QED
    BY <1>0, <2>1, <2>2, Beside, SameListeners
<1>6. ASSUME NEW m \in Modules, NEW e \in Events, ListenEvent(m, e) \/ ListenEventOnThread(m, e)
      PROVE  Inv'
  <2>1. UNCHANGED <<state, stack, gateClosed, hostIn, awaiting>> /\ Subscribe(m, e)
    BY <1>6 DEF ListenEvent, ListenEventOnThread, Republish
  <2>2. ListenersConsistent'
    BY <1>0, <2>1 DEF ListenersConsistent, Subscribe, RegistryOK
  <2> QED
    BY <2>1, <2>2, Beside
<1>7. ASSUME NEW tr \in Triggers, TriggerEvent(tr)
      PROVE  Inv'
  <2>1. UNCHANGED <<state, stack, listening, events_, gateClosed, hostIn>>
    BY <1>7 DEF TriggerEvent
  <2>2. \A t \in Triggers : \A x \in awaiting'[t] : x \in awaiting[t] \/ state[x] = "active"
    BY <1>0, <1>7 DEF TriggerEvent, Targets, DeliveryOK
  <2> QED
    BY <1>0, <2>1, <2>2, Beside, SameListeners
<1>8. ASSUME NEW tr \in Triggers, NEW m \in Modules, AnswerEvent(tr, m)
      PROVE  Inv'
  <2>1. UNCHANGED <<state, stack, listening, events_, gateClosed, hostIn>> /\ TakeAnswer(tr, m)
    BY <1>8 DEF AnswerEvent
  <2> QED
    BY <1>0, <2>1, AnswersTaken, Beside, SameListeners
<1> QED
  BY <1>2, <1>3, <1>4, <1>5, <1>6, <1>7, <1>8 DEF Environment

(* Steps of the runner that concern no module's lifecycle state.           *)
LEMMA TasksKeep ==
    ASSUME Inv, TypeOK',
           \/ TaskExecRefused \/ TaskExec \/ ExecReturns \/ ExecFails
           \/ TaskLoadRefused \/ TaskLoad \/ LoadRefused \/ LoadDone
           \/ TaskRegisterRefused \/ RegisterDone
           \/ TaskShutdown \/ ShutdownTaskDone \/ UnregisterReturns
           \/ \E m \in Modules : ShutdownUnregisters(m)
           \/ \E tr \in Triggers : FailAwaiting(tr)
    PROVE  Inv'
<1> USE DEF registry, delivery, gates, grants, runner, startup, shutdown, callers
<1>0. ListenersConsistent /\ RunnerOK
  BY DEF Inv, TypeOK
<1>1. ASSUME UNCHANGED <<state, listening, events_, gateClosed, hostIn, awaiting>>,
             stack' = stack \/ SameMoves(stack')
      PROVE  Inv'
  BY <1>0, <1>1, Beside, SameListeners
<1>2. CASE TaskLoadRefused \/ TaskRegisterRefused
  BY <1>1, <1>2 DEF TaskLoadRefused, TaskRegisterRefused
<1>3. CASE TaskExecRefused
  <2>1. Head(queue).id \in Modules /\ Head(queue).tr \in Triggers
    BY <1>0, <1>3, TakeType DEF TaskExecRefused
  <2>2. /\ UNCHANGED <<state, stack, listening, events_, gateClosed, hostIn>>
        /\ TakeAnswer(Head(queue).tr, Head(queue).id)
    BY <1>3 DEF TaskExecRefused
  <2> QED
    BY <1>0, <2>1, <2>2, AnswersTaken, Beside, SameListeners
<1>4. ASSUME NEW tr \in Triggers, FailAwaiting(tr)
      PROVE  Inv'
  <2>1. Top.id \in Modules
    BY <1>0, <1>4, TopType DEF FailAwaiting
  <2>2. /\ UNCHANGED <<state, stack, listening, events_, gateClosed, hostIn>>
        /\ TakeAnswer(tr, Top.id)
    BY <1>4 DEF FailAwaiting
  <2> QED
    BY <1>0, <2>1, <2>2, AnswersTaken, Beside, SameListeners
<1>5. CASE TaskExec
  <2>1. Head(queue).id \in Modules /\ Head(queue).tr \in Triggers /\ Take("exec")
    BY <1>0, <1>5, TakeType DEF TaskExec
  <2>2. MkFrame("exec", Head(queue).id, Head(queue).tr, "hook") \in Frame
    BY <2>1, MkTypes DEF At
  <2>3. ~Moving(MkFrame("exec", Head(queue).id, Head(queue).tr, "hook"))
    BY DEF Moving, MkFrame
  <2>4. SameMoves(stack')
    BY <1>5, <2>1, <2>2, <2>3, MovesKept DEF TaskExec
  <2> QED
    BY <1>1, <1>5, <2>4 DEF TaskExec
<1>6. CASE TaskLoad
  <2>1. Head(queue).id \in Modules /\ Take("load")
    BY <1>0, <1>6, TakeType DEF TaskLoad
  <2>2. MkFrame("load", Head(queue).id, NoTrigger, "host") \in Frame
    BY <2>1, MkTypes DEF At
  <2>3. ~Moving(MkFrame("load", Head(queue).id, NoTrigger, "host"))
    BY DEF Moving, MkFrame
  <2>4. SameMoves(stack')
    BY <1>6, <2>1, <2>2, <2>3, MovesKept DEF TaskLoad
  <2> QED
    BY <1>1, <1>6, <2>4 DEF TaskLoad
<1>7. CASE TaskShutdown
  <2>1. MkFrame("shutdown", NoModule, NoTrigger, "host") \in Frame
    BY DEF MkFrame, Frame, At
  <2>2. ~Moving(MkFrame("shutdown", NoModule, NoTrigger, "host"))
    BY DEF Moving, MkFrame
  <2>3. SameMoves(stack')
    BY <1>7, <2>1, <2>2, MovesKept DEF TaskShutdown
  <2> QED
    BY <1>1, <1>7, <2>3 DEF TaskShutdown
<1>8. ASSUME NEW m \in Modules, ShutdownUnregisters(m)
      PROVE  Inv'
  <2>1. MkFrame("unregister", m, NoTrigger, "hook") \in Frame
    BY MkTypes DEF At
  <2>2. ~Moving(MkFrame("unregister", m, NoTrigger, "hook"))
    BY DEF Moving, MkFrame
  <2>3. stack # <<>> /\ ~Moving(Top)
    BY <1>8 DEF ShutdownUnregisters, OnTop, Moving
  <2>4. SameMoves(stack')
    BY <1>8, <2>1, <2>2, <2>3, MovesKept DEF ShutdownUnregisters
  <2> QED
    BY <1>1, <1>8, <2>4 DEF ShutdownUnregisters
<1>9. CASE ExecReturns \/ LoadRefused \/ LoadDone \/ RegisterDone \/ ShutdownTaskDone
           \/ UnregisterReturns
  <2>1. stack # <<>> /\ ~Moving(Top) /\ stack' = Below
    BY <1>9 DEF ExecReturns, LoadRefused, LoadDone, RegisterDone, ShutdownTaskDone,
                UnregisterReturns, OnTop, Moving
  <2>2. SameMoves(stack')
    BY <2>1, MovesKept
  <2>3. UNCHANGED <<state, listening, events_, gateClosed, hostIn, awaiting>>
    BY <1>9 DEF ExecReturns, LoadRefused, LoadDone, RegisterDone, ShutdownTaskDone,
                UnregisterReturns
  <2> QED
    BY <1>1, <2>2, <2>3
<1>10. CASE ExecFails
  <2>1. stack # <<>> /\ ~Moving(Top) /\ stack' = Below
    BY <1>10 DEF ExecFails, OnTop, Moving
  <2>2. SameMoves(stack')
    BY <2>1, MovesKept
  <2>3. Top.id \in Modules /\ Top.tr \in Triggers
    BY <1>0, <1>10, TopType DEF ExecFails
  <2>4. /\ UNCHANGED <<state, listening, events_, gateClosed, hostIn>>
        /\ TakeAnswer(Top.tr, Top.id)
    BY <1>10 DEF ExecFails
  <2> QED
    BY <1>0, <2>2, <2>3, <2>4, AnswersTaken, Beside, SameListeners
<1> QED
  BY <1>2, <1>3, <1>4, <1>5, <1>6, <1>7, <1>8, <1>9, <1>10

-----------------------------------------------------------------------------
(* activate_now() and deactivate_now(), from the task, the registration    *)
(* and the shutdown alike.                                                 *)

LEMMA ActivateKeeps ==
    ASSUME Inv, TypeOK', NEW m \in Modules, NEW s \in Seq(Frame),
           SameMoves(stack), SameMoves(s), ActivateNow(m, s),
           UNCHANGED <<awaiting, hostIn>>
    PROVE  Inv'
<1>0. ListenersConsistent /\ RegistryOK /\ GatesOK
  BY DEF Inv, TypeOK
<1>1. CASE /\ Republish(m) /\ stack' = s
           /\ UNCHANGED <<listening, events_, gateClosed>>
  BY <1>0, <1>1, Beside, SameListeners DEF Republish
<1>2. CASE /\ state[m] \in {"registered", "inactive", "failed"}
           /\ SetState(m, "failed") /\ DropListeners(m) /\ stack' = s /\ UNCHANGED gateClosed
  <2>1. state' = [state EXCEPT ![m] = "failed"] /\ "failed" \in States
    BY <1>2 DEF SetState, States
  <2>2. ListenersConsistent'
    BY <1>2, <2>1, ListenersDropped
  <2>3. ~Owes(m)
    BY <1>2, AtRest
  <2>4. \A x \in Modules \ {m} : state'[x] = state[x] /\ (x \in gateClosed <=> x \in gateClosed')
    BY <1>0, <1>2, <2>1 DEF RegistryOK
  <2> QED
    BY <1>2, <2>2, <2>3, <2>4, Departs
<1>3. CASE /\ state[m] \in {"registered", "inactive", "failed"}
           /\ SetState(m, "activating")
           /\ gateClosed' = gateClosed \ {m}
           /\ stack' = Append(s, MkFrame("activate", m, NoTrigger, "hook"))
           /\ UNCHANGED <<listening, events_>>
  <2> DEFINE f == MkFrame("activate", m, NoTrigger, "hook")
  <2>1. state' = [state EXCEPT ![m] = "activating"] /\ "activating" \in States
    BY <1>3 DEF SetState, States
  <2>2. ListenersConsistent'
    BY <1>3, <2>1, ListenersMoved
  <2>3. ~Owes(m)
    BY <1>3, AtRest
  <2>4. \A x \in Modules \ {m} : state'[x] = state[x] /\ (x \in gateClosed <=> x \in gateClosed')
    BY <1>0, <1>3, <2>1 DEF RegistryOK
  <2>5. f \in Frame
    BY MkTypes DEF At
  <2>6. f.fn = "activate" /\ f.id = m /\ f.at = "hook"
    BY DEF MkFrame
  <2>7. state'[m] = "activating"
    BY <1>0, <2>1 DEF RegistryOK
  <2> HIDE DEF f
  <2>8. FrameFits(f)'
    BY <2>6, <2>7 DEF FrameFits
  <2>9. stack' = Append(s, f)
    BY <1>3 DEF f
  <2> QED
    BY <1>3, <2>2, <2>3, <2>4, <2>5, <2>6, <2>8, <2>9, Departs
<1> QED
  BY <1>1, <1>2, <1>3 DEF ActivateNow

LEMMA DeactivateKeeps ==
    ASSUME Inv, TypeOK', NEW m \in Modules, SameMoves(stack), DeactivateNow(m, stack),
           UNCHANGED <<awaiting, hostIn>>
    PROVE  Inv'
<1>0. ListenersConsistent /\ RegistryOK /\ GatesOK /\ stack \in Seq(Frame)
  BY DEF Inv, TypeOK, RunnerOK
<1>1. CASE /\ Republish(m) /\ stack' = stack
           /\ UNCHANGED <<listening, events_, gateClosed>>
  BY <1>0, <1>1, Beside, SameListeners DEF Republish
<1>2. CASE /\ MayDeactivate(m) /\ SetState(m, "deactivating") /\ DropListeners(m)
           /\ Withdraw(m)
           /\ stack' = Append(stack, MkFrame("deactivate", m, NoTrigger, "drain"))
  <2> DEFINE f == MkFrame("deactivate", m, NoTrigger, "drain")
  <2>1. state' = [state EXCEPT ![m] = "deactivating"] /\ "deactivating" \in States
    BY <1>2 DEF SetState, States
  <2>2. ListenersConsistent'
    BY <1>2, <2>1, ListenersDropped
  <2>3. state[m] \notin {"activating", "deactivating"}
    BY <1>2 DEF MayDeactivate
  <2>4. \A x \in Modules \ {m} : state'[x] = state[x] /\ (x \in gateClosed <=> x \in gateClosed')
    BY <1>0, <1>2, <2>1 DEF RegistryOK, Withdraw
  <2>5. f \in Frame
    BY MkTypes DEF At
  <2>6. f.fn = "deactivate" /\ f.id = m /\ f.at = "drain"
    BY DEF MkFrame
  <2>7. state'[m] = "deactivating" /\ m \in gateClosed'
    BY <1>0, <1>2, <2>1 DEF RegistryOK, Withdraw
  <2>8. stack' = Append(stack, f)
    BY <1>2
  <2> HIDE DEF f
  <2>9. FrameFits(f)'
    BY <2>6, <2>7 DEF FrameFits
  <2> QED
    BY <1>0, <2>2, <2>3, <2>4, <2>5, <2>6, <2>8, <2>9, Departs
<1> QED
  BY <1>1, <1>2 DEF DeactivateNow

-----------------------------------------------------------------------------
(* Transitions begin ...                                                   *)
LEMMA BeginningKeeps ==
    ASSUME Inv, TypeOK',
           \/ TaskActivate \/ TaskDeactivate \/ TaskRegister \/ RegisterActivates
           \/ \E m \in Modules : ShutdownDeactivates(m)
    PROVE  Inv'
<1> USE DEF delivery, gates
<1>0. RunnerOK /\ RegistryOK /\ stack \in Seq(Frame)
  BY DEF Inv, TypeOK, RunnerOK
<1>1. CASE TaskActivate
  <2>1. Head(queue).id \in Modules
    BY <1>0, <1>1, TakeType DEF TaskActivate
  <2>2. SameMoves(stack)
    BY <1>1, MovesKept DEF TaskActivate
  <2>3. ActivateNow(Head(queue).id, stack) /\ UNCHANGED <<awaiting, hostIn>>
    BY <1>1 DEF TaskActivate
  <2> QED
    BY <1>0, <2>1, <2>2, <2>3, ActivateKeeps
<1>2. CASE TaskDeactivate
  <2>1. Head(queue).id \in Modules
    BY <1>0, <1>2, TakeType DEF TaskDeactivate
  <2>2. SameMoves(stack)
    BY <1>2, MovesKept DEF TaskDeactivate
  <2>3. DeactivateNow(Head(queue).id, stack) /\ UNCHANGED <<awaiting, hostIn>>
    BY <1>2 DEF TaskDeactivate
  <2> QED
    BY <2>1, <2>2, <2>3, DeactivateKeeps
<1>3. CASE RegisterActivates
  <2>1. Top.id \in Modules /\ GoTo("wait") \in Seq(Frame)
    BY <1>0, <1>3, TopType DEF RegisterActivates, At
  <2>2. stack # <<>> /\ ~Moving(Top)
    BY <1>3 DEF RegisterActivates, OnTop, Moving
  <2>3. SameMoves(stack) /\ SameMoves(GoTo("wait"))
    BY <2>2, MovesKept
  <2>4. ActivateNow(Top.id, GoTo("wait")) /\ UNCHANGED <<awaiting, hostIn>>
    BY <1>3 DEF RegisterActivates
  <2> QED
    BY <2>1, <2>3, <2>4, ActivateKeeps
<1>4. ASSUME NEW m \in Modules, ShutdownDeactivates(m)
      PROVE  Inv'
  <2>1. stack # <<>> /\ ~Moving(Top)
    BY <1>4 DEF ShutdownDeactivates, OnTop, Moving
  <2>2. SameMoves(stack)
    BY <2>1, MovesKept
  <2>3. DeactivateNow(m, stack) /\ UNCHANGED <<awaiting, hostIn>>
    BY <1>4 DEF ShutdownDeactivates
  <2> QED
    BY <2>2, <2>3, DeactivateKeeps
<1>5. CASE TaskRegister
  <2>0. PICK m \in Modules : m = Head(queue).id
    BY <1>0, <1>5, TakeType DEF TaskRegister
  <2> DEFINE f == MkFrame("register", m, NoTrigger, "host")
  <2>1. Take("register")
    BY <1>5 DEF TaskRegister
  <2>2. SameMoves(stack)
    BY <2>1, MovesKept
  <2>3. state[m] = "none" /\ state' = [state EXCEPT ![m] = "registered"]
        /\ "registered" \in States /\ UNCHANGED <<listening, events_, gateClosed, hostIn, awaiting>>
        /\ stack' = Append(stack, f)
    BY <1>5, <2>0 DEF TaskRegister, SetState, States
  <2>4. f \in Frame
    BY MkTypes DEF At
  <2>5. ~Moving(f) /\ f.fn = "register"
    BY DEF Moving, MkFrame
  <2> HIDE DEF f
  <2>6. ListenersConsistent'
    BY <2>3, ListenersMoved
  <2>7. ~Owes(m)
    BY <2>2, <2>3, AtRest
  <2>8. \A x \in Modules \ {m} : state'[x] = state[x] /\ (x \in gateClosed <=> x \in gateClosed')
    BY <1>0, <2>3 DEF RegistryOK
  <2>9. FrameFits(f)'
    BY <2>5 DEF FrameFits
  <2> QED
    BY <1>0, <2>2, <2>3, <2>4, <2>5, <2>6, <2>7, <2>8, <2>9, Departs
<1> QED
  BY <1>1, <1>2, <1>3, <1>4, <1>5

(* ... go on, and end.                                                     *)
LEMMA EndingKeeps ==
    ASSUME Inv, TypeOK',
           \/ ActivateReturnsOk \/ ActivateReturnsError \/ ActivateFails
           \/ DeactivateDrained \/ DeactivateTimesOut \/ DeactivateReturns \/ DeactivateDone
    PROVE  Inv'
<1> USE DEF registry, delivery, gates
<1>0. RunnerOK /\ RegistryOK /\ GatesOK /\ ListenersConsistent
  BY DEF Inv, TypeOK
<1> DEFINE m == Top.id
<1>1. stack # <<>> /\ Moving(Top)
  BY DEF ActivateReturnsOk, ActivateReturnsError, ActivateFails, DeactivateDrained,
         DeactivateTimesOut, DeactivateReturns, DeactivateDone, OnTop, Moving
<1>2. Top \in Frame /\ m \in Modules /\ FrameFits(Top)
  <2>1. Len(stack) \in 1..Len(stack) /\ Top = stack[Len(stack)] /\ Top \in Frame
    BY <1>0, <1>1, StackType, Popped
  <2> QED
    BY <1>1, <2>1 DEF Inv, StackFits, Frame, Moving
<1>3. \A at \in At : stack' = GoTo(at) =>
        Top'.fn = Top.fn /\ Top'.id = m /\ Top'.at = at
  <2> SUFFICES ASSUME NEW at \in At, stack' = GoTo(at)
               PROVE  Top'.fn = Top.fn /\ Top'.id = m /\ Top'.at = at
    OBVIOUS
  <2>1. Top' = [Top EXCEPT !.at = at]
    BY <1>0, <1>1, Popped DEF Top
  <2> QED
    BY <1>2, <2>1 DEF Frame
<1>4. UNCHANGED <<hostIn, awaiting>>
  BY DEF ActivateReturnsOk, ActivateReturnsError, ActivateFails, DeactivateDrained,
         DeactivateTimesOut, DeactivateReturns, DeactivateDone, Deactivated
<1>5. ASSUME NEW st \in States, state' = [state EXCEPT ![m] = st]
      PROVE  state'[m] = st /\ \A x \in Modules \ {m} : state'[x] = state[x]
  BY <1>0, <1>2, <1>5 DEF RegistryOK
<1> HIDE DEF m
<1>6. CASE ActivateReturnsOk
  <2>1. /\ Top.fn = "activate" /\ stack' = Below /\ "active" \in States
        /\ state' = [state EXCEPT ![m] = "active"]
        /\ UNCHANGED <<listening, events_, gateClosed>>
    BY <1>6 DEF ActivateReturnsOk, OnTop, SetState, States, m
  <2>2. ListenersConsistent'
    BY <1>2, <2>1, ListenersMoved
  <2>3. \A x \in Modules \ {Top.id} : state'[x] = state[x] /\ (x \in gateClosed <=> x \in gateClosed')
    BY <1>5, <2>1 DEF m
  <2> QED
    BY <1>1, <1>4, <2>1, <2>2, <2>3, Arrives
<1>7. CASE ActivateFails
  <2>1. /\ Top.fn = "activate" /\ stack' = Below /\ "failed" \in States
        /\ state' = [state EXCEPT ![m] = "failed"]
        /\ UNCHANGED gateClosed /\ DropListeners(m)
    BY <1>7 DEF ActivateFails, OnTop, SetState, States, m
  <2>2. ListenersConsistent'
    BY <1>2, <2>1, ListenersDropped
  <2>3. \A x \in Modules \ {Top.id} : state'[x] = state[x] /\ (x \in gateClosed <=> x \in gateClosed')
    BY <1>5, <2>1 DEF m
  <2> QED
    BY <1>1, <1>4, <2>1, <2>2, <2>3, Arrives
<1>8. CASE ActivateReturnsError
  <2>1. /\ Top.fn = "activate" /\ stack' = GoTo("drain") /\ "drain" \in At
        /\ UNCHANGED <<state, listening, events_>> /\ gateClosed' = gateClosed \cup {m}
    BY <1>8 DEF ActivateReturnsError, OnTop, At, Withdraw, m
  <2>2. ListenersConsistent'
    BY <1>0, <2>1, SameListeners
  <2>3. FrameFits(Top)'
    <3>1. state[m] = "activating"
      BY <1>2, <2>1 DEF FrameFits, m
    <3> QED
      BY <1>3, <2>1, <3>1 DEF FrameFits
  <2>4. \A x \in Modules \ {Top.id} : state'[x] = state[x] /\ (x \in gateClosed <=> x \in gateClosed')
    BY <2>1 DEF m
  <2> QED
    BY <1>1, <1>4, <2>1, <2>2, <2>3, <2>4, Arrives
<1>9. CASE DeactivateDrained
  <2>1. /\ Top.fn = "deactivate" /\ Top.at = "drain" /\ stack' = GoTo("hook") /\ "hook" \in At
        /\ UNCHANGED <<state, listening, events_, gateClosed>> /\ hostIn[m] = 0
    BY <1>9 DEF DeactivateDrained, Drained, OnTop, At, m
  <2>2. ListenersConsistent'
    BY <1>0, <2>1, SameListeners
  <2>3. FrameFits(Top)'
    <3>1. state[m] = "deactivating" /\ m \in gateClosed
      BY <1>2, <2>1 DEF FrameFits, m
    <3> QED
      BY <1>3, <1>4, <2>1, <3>1 DEF FrameFits
  <2> QED
    BY <1>1, <1>4, <2>1, <2>2, <2>3, Arrives
<1>10. CASE DeactivateTimesOut \/ DeactivateReturns
  <2>1. /\ Top.fn = "deactivate" /\ Top.at \in {"drain", "hook"}
        /\ stack' = GoTo("fail") /\ "fail" \in At /\ "inactive" \in States
        /\ state' = [state EXCEPT ![m] = "inactive"]
        /\ UNCHANGED <<listening, events_, gateClosed>>
    BY <1>10 DEF DeactivateTimesOut, DeactivateReturns, Deactivated, OnTop, At, States, m
  <2>2. state[m] = "deactivating"
    BY <1>2, <2>1 DEF FrameFits, m
  <2>3. ListenersConsistent'
    BY <1>2, <2>1, <2>2, ListenersMoved
  <2>4. FrameFits(Top)'
    BY <1>3, <1>5, <2>1 DEF FrameFits
  <2>5. \A x \in Modules \ {Top.id} : state'[x] = state[x] /\ (x \in gateClosed <=> x \in gateClosed')
    BY <1>5, <2>1 DEF m
  <2> QED
    BY <1>1, <1>4, <2>1, <2>3, <2>4, <2>5, Arrives
<1>11. CASE DeactivateDone
  <2>1. /\ Top.fn = "deactivate" /\ stack' = Below /\ ~Owes(Top.id)
        /\ UNCHANGED <<state, listening, events_, gateClosed>>
    BY <1>11 DEF DeactivateDone, OnTop, Republish, Owes
  <2>2. ListenersConsistent'
    BY <1>0, <2>1, SameListeners
  <2> QED
    BY <1>1, <1>4, <2>1, <2>2, Arrives
<1> QED
  BY <1>6, <1>7, <1>8, <1>9, <1>10, <1>11

-----------------------------------------------------------------------------
LEMMA InitInv == Init => Inv
<1> SUFFICES ASSUME Init PROVE Inv
  OBVIOUS
<1>1. TypeOK
  BY TypeInit
<1>2. StackFits /\ MovedOnce
  BY DEF Init, StackFits, MovedOnce
<1>3. NoOrphanedTrigger /\ ListenersConsistent
  BY DEF Init, NoOrphanedTrigger, ListenersConsistent
<1> QED
  BY <1>1, <1>2, <1>3 DEF Inv

LEMMA NextInv == Inv /\ [Next]_vars => Inv'
<1> SUFFICES ASSUME Inv, [Next]_vars PROVE Inv'
  OBVIOUS
<1>0. TypeOK'
  BY TypeNext DEF Inv
<1>1. CASE RunnerStep
  BY <1>0, <1>1, TasksKeep, BeginningKeeps, EndingKeeps DEF RunnerStep
<1>2. CASE HookReturns
  BY <1>0, <1>2, TasksKeep, EndingKeeps DEF HookReturns
<1>3. CASE Environment \/ Posting \/ ScanStep \/ MainStep
  BY <1>0, <1>3, EnvironmentKeeps
<1>4. CASE UNCHANGED vars
  <2>1. UNCHANGED <<state, stack, listening, events_, gateClosed, hostIn, awaiting>>
    BY <1>4 DEF vars, registry, runner, gates, delivery
  <2> QED
    BY <1>0, <2>1, Beside, SameListeners DEF Inv
<1> QED
  BY <1>1, <1>2, <1>3, <1>4 DEF Next

LEMMA Safety == Spec => []Inv
BY InitInv, NextInv, PTL DEF Spec

(* Nobody who triggered an event is left waiting on a module that is gone: *)
(* whoever still owes an answer is active, or a frame of the runner is     *)
(* about to fail the trigger in its place.                                 *)
THEOREM ManagerAnswers == Spec => []NoOrphanedTrigger
<1>1. Inv => NoOrphanedTrigger
  BY DEF Inv
<1> QED
  BY <1>1, Safety, PTL

(* events_ and the records agree on who listens to what, and a module that *)
(* is stopping or stopped listens to nothing, whatever a nested event loop *)
(* did inside its hooks.                                                   *)
THEOREM ManagerListeners == Spec => []ListenersConsistent
<1>1. Inv => ListenersConsistent
  BY DEF Inv
<1> QED
  BY <1>1, Safety, PTL

(* A transition of a module never runs inside another one of it, and its   *)
(* deactivate hook never runs while another thread is in the module.       *)
THEOREM ManagerHooksAlone == Spec => []HooksAlone
<1>1. Inv => HooksAlone
  <2> SUFFICES ASSUME Inv, NEW m \in Modules
               PROVE  /\ \A i, j \in FramesOf("activate", m) \cup FramesOf("deactivate", m) : i = j
                      /\ \A i \in FramesOf("deactivate", m) :
                           stack[i].at = "hook" => hostIn[m] = 0
    BY DEF HooksAlone
  <2>1. \A i, j \in FramesOf("activate", m) \cup FramesOf("deactivate", m) : i = j
    BY DEF Inv, MovedOnce, Moving, FramesOf
  <2>2. \A i \in FramesOf("deactivate", m) : stack[i].at = "hook" => hostIn[m] = 0
    BY DEF Inv, StackFits, FrameFits, FramesOf
  <2> QED
    BY <2>1, <2>2
<1> QED
  BY <1>1, Safety, PTL

-----------------------------------------------------------------------------
(* The refinement.                                                         *)

(* take_answer() is an Answer of the abstract specification when an answer *)
(* was owed, and nothing when it was not.                                  *)
LEMMA TakesOrStutters ==
    ASSUME TypeOK, NEW tr \in Triggers, NEW m \in Modules, TakeAnswer(tr, m), UNCHANGED fired
    PROVE  Delivery!Answer(tr, m) \/ UNCHANGED Delivery!vars
<1>1. CASE m \in awaiting[tr]
  BY <1>1 DEF TakeAnswer, Delivery!Answer
<1>2. CASE m \notin awaiting[tr]
  BY <1>2 DEF TakeAnswer, Delivery!vars, TypeOK, DeliveryOK
<1> QED
  BY <1>1, <1>2

LEMMA DeliveryNext ==
    ASSUME TypeOK, [Next]_vars
    PROVE  [Delivery!Next]_(Delivery!vars)
<1> USE DEF registry, delivery, gates, grants, runner, startup, shutdown, callers
<1>0. RunnerOK /\ RegistryOK
  BY DEF TypeOK
<1>1. ASSUME NEW tr \in Triggers, NEW m \in Modules, TakeAnswer(tr, m), UNCHANGED fired
      PROVE  [Delivery!Next]_(Delivery!vars)
  BY <1>1, TakesOrStutters DEF Delivery!Next
<1>2. ASSUME UNCHANGED <<awaiting, fired, replies>>
      PROVE  [Delivery!Next]_(Delivery!vars)
  BY <1>2 DEF Delivery!vars
<1>3. ASSUME NEW tr \in Triggers, TriggerEvent(tr)
      PROVE  [Delivery!Next]_(Delivery!vars)
  <2>1. Targets(tr) \in SUBSET Modules
    BY <1>0, ManagerAssumption DEF Targets, RegistryOK
  <2>2. Delivery!Fire(tr)
    BY <1>3, <2>1 DEF TriggerEvent, Delivery!Fire
  <2> QED
    BY <2>2 DEF Delivery!Next
<1>4. CASE TaskExecRefused
  <2>1. Head(queue).id \in Modules /\ Head(queue).tr \in Triggers
    BY <1>0, <1>4, TakeType DEF TaskExecRefused
  <2> QED
    BY <1>1, <1>4, <2>1 DEF TaskExecRefused
<1>5. CASE ExecFails
  <2>1. Top.id \in Modules /\ Top.tr \in Triggers
    BY <1>0, <1>5, TopType DEF ExecFails
  <2> QED
    BY <1>1, <1>5, <2>1 DEF ExecFails
<1>6. ASSUME NEW tr \in Triggers, FailAwaiting(tr)
      PROVE  [Delivery!Next]_(Delivery!vars)
  <2>1. Top.id \in Modules
    BY <1>0, <1>6, TopType DEF FailAwaiting
  <2> QED
    BY <1>1, <1>6, <2>1 DEF FailAwaiting
<1>7. ASSUME NEW tr \in Triggers, NEW m \in Modules, AnswerEvent(tr, m)
      PROVE  [Delivery!Next]_(Delivery!vars)
  BY <1>1, <1>7 DEF AnswerEvent
<1>8. CASE RunnerStep
  BY <1>2, <1>4, <1>6, <1>8 DEF RunnerStep, TaskActivate, ActivateFails, TaskDeactivate,
       DeactivateDrained, DeactivateTimesOut, Deactivated, DeactivateDone, TaskExec,
       TaskLoadRefused, TaskLoad, LoadRefused, LoadDone, TaskRegisterRefused, TaskRegister,
       RegisterActivates, RegisterDone, TaskShutdown, ShutdownTaskDone, ShutdownDeactivates,
       ShutdownUnregisters
<1>9. CASE HookReturns
  BY <1>2, <1>5, <1>9 DEF HookReturns, ActivateReturnsOk, ActivateReturnsError,
       DeactivateReturns, Deactivated, UnregisterReturns, ExecReturns
<1>10. CASE ScanStep \/ Posting
  BY <1>2, <1>10 DEF ScanStep, ScanVerifies, ScanPosts, Posting, PostExec
<1>11. CASE MainStep \/ ShutdownBegins
  BY <1>2, <1>11 DEF MainStep, MainGoes, ShutdownBegins, ShutdownPosts, ShutdownGivesUp,
       ShutdownAwaited, ShutdownQuiet, ShutdownSweeps, ShutdownEnds, ShutdownRevokes
<1>12. CASE Environment
  BY <1>2, <1>3, <1>7, <1>11, <1>12 DEF Environment, ActiveModule, DeactivateModule,
       PostTransition, HostEnters, HostLeaves, PublishReads, PublishWrites, ListenEvent,
       ListenEventOnThread
<1>13. CASE UNCHANGED vars
  BY <1>2, <1>13 DEF vars
<1> QED
  BY <1>8, <1>9, <1>10, <1>11, <1>12, <1>13 DEF Next

(* Whatever the queues, the gates, nested loops, deactivations and the     *)
(* shutdown do, event delivery is that of EventDelivery: every listener a  *)
(* trigger went to is answered for at most once, by the module or by the   *)
(* host in its place, and no answer that is owed is forgotten.             *)
THEOREM ManagerDelivers == Spec => ImplementsDelivery
<1>1. Init => Delivery!Init
  BY DEF Init, Delivery!Init
<1>2. TypeOK /\ [Next]_vars => [Delivery!Next]_(Delivery!vars)
  BY DeliveryNext
<1> QED
  BY <1>1, <1>2, ManagerTypes, PTL DEF Spec, ImplementsDelivery, Delivery!Spec

-----------------------------------------------------------------------------
(* The sweep, at any depth of nested event loops.  What was under way when *)
(* the shutdown task was taken goes on below it and after it; all other    *)
(* modules it found, it leaves at rest for good.                           *)

Found == ids \ beneath

FramesIn(s) == {s[i] : i \in 1..Len(s)}

(* The promise of the shutdown task has been waited for.                   *)
Over == main \in {"promised", "quiescing", "sweeping"} \/ swept # {}

InShutdown == \E f \in FramesIn(stack) : f.fn = "shutdown"

Asked(fn) == \E i \in 1..Len(queue) : queue[i].fn = fn

(* There is one shutdown task, and below it nothing of the modules found   *)
(* but calls the process-wide gate counts.                                 *)
Under ==
    \A i \in 1..Len(stack) : stack[i].fn = "shutdown" =>
        \A j \in 1..(i - 1) :
            /\ stack[j].fn # "shutdown"
            /\ stack[j].id \in Found => stack[j].fn \in {"load", "exec"}

(* A module that is on its way up has a frame for it, and the gate of one  *)
(* that has been up and is not any more is closed.                         *)
Gated ==
    /\ \A m \in Modules : state[m] = "activating" =>
         \E f \in FramesIn(stack) : f.fn = "activate" /\ f.id = m
    /\ \A m \in bound : /\ state[m] \notin {"none", "registered"}
                        /\ state[m] \notin {"activating", "active"} => m \in gateClosed
    /\ \A f \in FramesIn(stack) : f.fn = "activate" =>
         f.id \in bound /\ (f.at = "drain" => f.id \in gateClosed)

(* Whoever asked for an activation asked before the shutdown did.          *)
Lined ==
    \A i, j \in 1..Len(queue) :
        i < j /\ queue[i].fn = "shutdown" => queue[j].fn \notin {"activate", "shutdown"}

(* A frame that may bring its module up; one the process-wide gate counts. *)
Rises(f) == f.fn \in {"register", "activate"}
Counted(f) == f.fn \in {"load", "exec"}

(* The process-wide gate has been found quiet.                             *)
Quiet == main = "sweeping" \/ swept # {}

Still(S) == \A m \in S : state[m] \notin {"activating", "active"}

(* The modules the shutdown task found in the registry stay down once it   *)
(* has been over them; a module registered later is not one of them.       *)
Ends ==
    /\ Lined
    /\ main \in {"running", "joining"} => ~Asked("shutdown") /\ ~InShutdown
    /\ main # "running" => closed
    /\ \A m \in ids : state[m] # "none"
    /\ InShutdown =>
         /\ ~Asked("shutdown") /\ ~Asked("activate")
         /\ Still(Found \ toDeactivate)
         /\ \A f \in FramesIn(stack) : Rises(f) => f.id \notin Found
    /\ Over =>
         /\ ~InShutdown /\ ~Asked("shutdown") /\ ~Asked("activate")
         /\ Still(Found)
         /\ \A f \in FramesIn(stack) : f.id \in Found => Counted(f)
    /\ Quiet => \A f \in FramesIn(stack) : ~Counted(f)

(* What the main thread has wiped, it has found quiet and without a grant. *)
Wiped ==
    /\ swept # {} => main \in {"sweeping", "done"}
    /\ main \in {"quiescing", "sweeping"} => toSweep \subseteq ids
    /\ Quiet => \A m \in Modules : hostIn[m] = 0
    /\ sweeping # NoModule =>
         main = "sweeping" /\ sweeping \in ids /\ (sweeping \in Found => sweeping \notin minted)
    /\ swept \subseteq ids
    /\ \A m \in swept \cap Found : m \notin minted /\ publishing[m] = "none"

Unwound == Under /\ Gated /\ Ends /\ Wiped

(* The frames of a stack that grows, shrinks or moves on.                  *)
LEMMA PushFrames ==
    ASSUME NEW s \in Seq(Frame), NEW f \in Frame
    PROVE  FramesIn(Append(s, f)) = FramesIn(s) \cup {f}
<1>1. /\ Len(Append(s, f)) = Len(s) + 1
      /\ Len(s) \in Nat
      /\ \A i \in 1..Len(s) : Append(s, f)[i] = s[i]
      /\ Append(s, f)[Len(s) + 1] = f
  BY Pushed
<1>2. FramesIn(Append(s, f)) \subseteq FramesIn(s) \cup {f}
  <2> SUFFICES ASSUME NEW i \in 1..(Len(s) + 1)
               PROVE  Append(s, f)[i] \in FramesIn(s) \cup {f}
    BY <1>1 DEF FramesIn
  <2>1. CASE i = Len(s) + 1
    BY <1>1, <2>1
  <2>2. CASE i # Len(s) + 1
    <3>1. i \in 1..Len(s)
      BY <1>1, <2>2
    <3> QED
      BY <1>1, <3>1 DEF FramesIn
  <2> QED
    BY <2>1, <2>2
<1>3. FramesIn(s) \subseteq FramesIn(Append(s, f))
  <2> SUFFICES ASSUME NEW i \in 1..Len(s)
               PROVE  s[i] \in FramesIn(Append(s, f))
    BY DEF FramesIn
  <2>1. i \in 1..Len(Append(s, f)) /\ Append(s, f)[i] = s[i]
    BY <1>1
  <2> QED
    BY <2>1 DEF FramesIn
<1>4. f \in FramesIn(Append(s, f))
  <2>1. Len(s) + 1 \in 1..Len(Append(s, f))
    BY <1>1
  <2> QED
    BY <1>1, <2>1 DEF FramesIn
<1> QED
  BY <1>2, <1>3, <1>4

(* ... and that shrinks, or whose top frame moves on.                      *)
LEMMA PopFrames ==
    ASSUME RunnerOK, stack # <<>>
    PROVE  /\ Top \in FramesIn(stack)
           /\ FramesIn(Below) \subseteq FramesIn(stack)
           /\ FramesIn(stack) \subseteq FramesIn(Below) \cup {Top}
           /\ \A at \in At :
                /\ [Top EXCEPT !.at = at] \in FramesIn(GoTo(at))
                /\ FramesIn(GoTo(at)) \subseteq FramesIn(stack) \cup {[Top EXCEPT !.at = at]}
                /\ FramesIn(stack) \subseteq FramesIn(GoTo(at)) \cup {Top}
<1>1. /\ Len(stack) \in Nat \ {0}
      /\ Top = stack[Len(stack)]
      /\ Len(Below) = Len(stack) - 1
      /\ \A i \in 1..(Len(stack) - 1) : Below[i] = stack[i]
      /\ \A at : /\ Len(GoTo(at)) = Len(stack)
                 /\ \A i \in 1..(Len(stack) - 1) : GoTo(at)[i] = stack[i]
                 /\ GoTo(at)[Len(stack)] = [Top EXCEPT !.at = at]
  BY Popped
<1>2. /\ \A i \in 1..Len(stack) : i = Len(stack) \/ i \in 1..(Len(stack) - 1)
      /\ \A i \in 1..(Len(stack) - 1) : i \in 1..Len(stack)
      /\ Len(stack) \in 1..Len(stack)
  BY <1>1
<1>3. Top \in FramesIn(stack)
  BY <1>1, <1>2 DEF FramesIn
<1>4. FramesIn(Below) \subseteq FramesIn(stack)
  BY <1>1, <1>2 DEF FramesIn
<1>5. FramesIn(stack) \subseteq FramesIn(Below) \cup {Top}
  BY <1>1, <1>2 DEF FramesIn
<1>6. ASSUME NEW at \in At
      PROVE  /\ [Top EXCEPT !.at = at] \in FramesIn(GoTo(at))
             /\ FramesIn(GoTo(at)) \subseteq FramesIn(stack) \cup {[Top EXCEPT !.at = at]}
             /\ FramesIn(stack) \subseteq FramesIn(GoTo(at)) \cup {Top}
  <2> DEFINE g == GoTo(at)
             t == [Top EXCEPT !.at = at]
  <2>1. /\ Len(g) = Len(stack)
        /\ \A i \in 1..(Len(stack) - 1) : g[i] = stack[i]
        /\ g[Len(stack)] = t
    BY <1>1
  <2> HIDE DEF g, t
  <2>2. t \in FramesIn(g)
    BY <1>2, <2>1 DEF FramesIn
  <2>3. FramesIn(g) \subseteq FramesIn(stack) \cup {t}
    BY <1>2, <2>1 DEF FramesIn
  <2>4. FramesIn(stack) \subseteq FramesIn(g) \cup {Top}
    BY <1>1, <1>2, <2>1 DEF FramesIn
  <2> QED
    BY <2>2, <2>3, <2>4 DEF g, t
<1> QED
  BY <1>3, <1>4, <1>5, <1>6

(* The queue, when its first task is taken and when one is posted.         *)
LEMMA QueueTaken ==
    ASSUME RunnerOK, Lined, NEW fn, Take(fn)
    PROVE  /\ Asked(fn)
           /\ Lined'
           /\ \A g : Asked(g)' => Asked(g)
           /\ fn = "shutdown" => ~Asked("shutdown")' /\ ~Asked("activate")'
<1>1. /\ Len(queue) \in Nat \ {0} /\ Len(queue') = Len(queue) - 1
      /\ \A i \in 1..Len(queue') : queue'[i] = queue[i + 1]
      /\ queue[1].fn = fn
  BY DEF RunnerOK, Take
<1>2. /\ 1 \in 1..Len(queue)
      /\ \A i \in 1..Len(queue') : i + 1 \in 1..Len(queue) /\ 1 < i + 1
      /\ \A i, j \in 1..Len(queue') : i < j => i + 1 < j + 1
  BY <1>1
<1>3. Asked(fn) /\ \A g : Asked(g)' => Asked(g)
  BY <1>1, <1>2 DEF Asked
<1>4. Lined'
  BY <1>1, <1>2 DEF Lined
<1>5. fn = "shutdown" => \A i \in 1..Len(queue') : queue'[i].fn \notin {"activate", "shutdown"}
  BY <1>1, <1>2 DEF Lined
<1> QED
  BY <1>3, <1>4, <1>5 DEF Asked

(* A task behind the shutdown's is neither another one nor an activation.  *)
LEMMA QueuePosted ==
    ASSUME RunnerOK, Lined, NEW t \in Task, Post(t),
           t.fn \notin {"activate", "shutdown"} \/ ~Asked("shutdown")
    PROVE  /\ Lined'
           /\ \A g : Asked(g)' => Asked(g) \/ g = t.fn
<1>1. /\ Len(queue) \in Nat /\ Len(queue') = Len(queue) + 1
      /\ \A i \in 1..Len(queue) : queue'[i] = queue[i]
      /\ queue'[Len(queue) + 1] = t
  BY DEF RunnerOK, Post
<1>2. \A i \in 1..Len(queue') : i \in 1..Len(queue) \/ i = Len(queue) + 1
  BY <1>1
<1>3. \A g : Asked(g)' => Asked(g) \/ g = t.fn
  BY <1>1, <1>2 DEF Asked
<1>4. ASSUME NEW i \in 1..Len(queue'), NEW j \in 1..Len(queue'), i < j,
             queue'[i].fn = "shutdown"
      PROVE  queue'[j].fn \notin {"activate", "shutdown"}
  <2>1. i \in 1..Len(queue)
    BY <1>1, <1>4
  <2>2. CASE j \in 1..Len(queue)
    BY <1>1, <1>4, <2>1, <2>2 DEF Lined
  <2>3. CASE j = Len(queue) + 1
    BY <1>1, <1>4, <2>1, <2>3 DEF Asked
  <2> QED
    BY <1>2, <2>2, <2>3
<1> QED
  BY <1>3, <1>4 DEF Lined

-----------------------------------------------------------------------------
(* What lies below the shutdown task, and the gates of what is down.       *)

(* The frames of s are the lowest ones of the stack.                       *)
Lowest(s) ==
    /\ s \in Seq(Frame) /\ Len(s) <= Len(stack)
    /\ \A i \in 1..Len(s) : s[i].fn = stack[i].fn /\ s[i].id = stack[i].id

LEMMA LowestStacks ==
    ASSUME RunnerOK
    PROVE  /\ Lowest(stack)
           /\ stack # <<>> => Lowest(Below) /\ \A at \in At : Lowest(GoTo(at))
<1>0. stack \in Seq(Frame) /\ Len(stack) \in Nat
  BY DEF RunnerOK
<1>1. Lowest(stack)
  BY <1>0 DEF Lowest
<1>2. ASSUME stack # <<>>
      PROVE  Lowest(Below)
  <2>1. /\ Below \in Seq(Frame) /\ Len(Below) = Len(stack) - 1
        /\ \A i \in 1..(Len(stack) - 1) : Below[i] = stack[i]
    BY <1>2, Popped, StackType
  <2> QED
    BY <1>0, <2>1 DEF Lowest
<1>3. ASSUME stack # <<>>, NEW at \in At
      PROVE  Lowest(GoTo(at))
  <2> DEFINE g == GoTo(at)
             n == Len(stack)
  <2>1. /\ g \in Seq(Frame) /\ Len(g) = n /\ n \in Nat \ {0}
        /\ \A i \in 1..(n - 1) : g[i] = stack[i]
        /\ g[n] = [Top EXCEPT !.at = at]
        /\ Top = stack[n] /\ Top \in Frame
    BY <1>3, Popped, StackType
  <2>2. g[n].fn = stack[n].fn /\ g[n].id = stack[n].id
    BY <2>1 DEF Frame
  <2>3. Len(g) <= Len(stack)
    BY <2>1
  <2> HIDE DEF g, n
  <2>4. \A i \in 1..n : i = n \/ i \in 1..(n - 1)
    BY <2>1
  <2>5. \A i \in 1..n : g[i].fn = stack[i].fn /\ g[i].id = stack[i].id
    BY <2>1, <2>2, <2>4
  <2> QED
    BY <2>1, <2>3, <2>5 DEF Lowest, g
<1> QED
  BY <1>1, <1>2, <1>3

(* Frames come and go above the shutdown task, not below it.               *)
LEMMA UnderKept ==
    ASSUME RunnerOK, Under, UNCHANGED <<ids, beneath>>, NEW s, Lowest(s),
           \/ stack' = s
           \/ \E f \in Frame : stack' = Append(s, f) /\ f.fn # "shutdown"
    PROVE  Under'
<1> DEFINE n == Len(s)
           k == Len(stack)
<1>0. n \in Nat /\ k \in Nat /\ n <= k /\ s \in Seq(Frame)
  BY DEF Lowest, RunnerOK
<1>1. /\ \A i \in 1..n : i \in 1..k /\ s[i].fn = stack[i].fn /\ s[i].id = stack[i].id
  BY <1>0 DEF Lowest
<1>2. /\ \A i \in 1..n : stack'[i] = s[i]
      /\ \A i \in 1..Len(stack') : i \in 1..n \/ stack'[i].fn # "shutdown"
  <2>1. CASE stack' = s
    BY <2>1
  <2>2. ASSUME NEW f \in Frame, stack' = Append(s, f), f.fn # "shutdown"
        PROVE  /\ \A i \in 1..n : stack'[i] = s[i]
               /\ \A i \in 1..Len(stack') : i \in 1..n \/ stack'[i].fn # "shutdown"
    <3>1. /\ Len(stack') = n + 1
          /\ \A i \in 1..n : stack'[i] = s[i]
          /\ stack'[n + 1] = f
      BY <1>0, <2>2, Pushed
    <3> HIDE DEF n
    <3> QED
      BY <1>0, <2>2, <3>1
  <2> QED
    BY <2>1, <2>2
<1>3. Found' = Found
  BY DEF Found
<1> SUFFICES ASSUME NEW i \in 1..Len(stack'), stack'[i].fn = "shutdown",
                    NEW j \in 1..(i - 1)
             PROVE  /\ stack'[j].fn # "shutdown"
                    /\ stack'[j].id \in Found => stack'[j].fn \in {"load", "exec"}
  BY <1>3 DEF Under
<1>4. i \in 1..n
  BY <1>2
<1>5. j \in 1..n /\ j \in 1..(i - 1)
  <2> HIDE DEF n
  <2> QED
    BY <1>0, <1>4
<1>6. stack[i].fn = "shutdown" /\ i \in 1..k
  BY <1>1, <1>2, <1>4
<1>7. stack'[j].fn = stack[j].fn /\ stack'[j].id = stack[j].id
  BY <1>1, <1>2, <1>5
<1> QED
  BY <1>5, <1>6, <1>7 DEF Under

LEMMA UnderNext ==
    ASSUME TypeOK, Under, Ends, Next
    PROVE  Under'
<1> USE DEF registry, delivery, gates, grants, runner, startup, shutdown, callers
<1>0. RunnerOK /\ stack \in Seq(Frame)
  BY DEF TypeOK, RunnerOK
<1>1. ASSUME UNCHANGED <<stack, ids, beneath>>
      PROVE  Under'
  BY <1>1, <1>0, UnderKept, LowestStacks
<1>2. ASSUME UNCHANGED <<ids, beneath>>, NEW f \in Frame, stack' = Append(stack, f),
             f.fn # "shutdown"
      PROVE  Under'
  BY <1>0, <1>2, UnderKept, LowestStacks
<1>3. ASSUME UNCHANGED <<ids, beneath>>, stack # <<>>,
             stack' = Below \/ \E at \in At : stack' = GoTo(at)
      PROVE  Under'
  BY <1>0, <1>3, UnderKept, LowestStacks
<1>4. CASE RegisterActivates
  <2>1. Top.id \in Modules /\ stack # <<>> /\ UNCHANGED <<ids, beneath>>
    BY <1>0, <1>4, TopType DEF RegisterActivates, OnTop
  <2> DEFINE f == MkFrame("activate", Top.id, NoTrigger, "hook")
  <2>2. f \in Frame /\ f.fn # "shutdown"
    BY <2>1, MkTypes DEF MkFrame, At
  <2>3. stack' = GoTo("wait") \/ stack' = Append(GoTo("wait"), f)
    BY <1>4 DEF RegisterActivates, ActivateNow
  <2> HIDE DEF f
  <2>4. Lowest(GoTo("wait"))
    BY <1>0, <2>1, LowestStacks DEF At
  <2> QED
    BY <1>0, <2>1, <2>2, <2>3, <2>4, UnderKept
<1>5. ASSUME NEW m \in Modules, ShutdownDeactivates(m) \/ ShutdownUnregisters(m)
      PROVE  Under'
  <2>1. /\ MkFrame("deactivate", m, NoTrigger, "drain") \in Frame
        /\ MkFrame("deactivate", m, NoTrigger, "drain").fn = "deactivate"
        /\ MkFrame("unregister", m, NoTrigger, "hook") \in Frame
        /\ MkFrame("unregister", m, NoTrigger, "hook").fn = "unregister"
    BY MkTypes DEF MkFrame, At
  <2>2. CASE ShutdownUnregisters(m)
    BY <1>2, <2>1, <2>2 DEF ShutdownUnregisters
  <2>3. CASE ShutdownDeactivates(m)
    BY <1>1, <1>2, <2>1, <2>3 DEF ShutdownDeactivates, DeactivateNow
  <2> QED
    BY <1>5, <2>2, <2>3
<1>6. CASE TaskActivate \/ TaskDeactivate \/ TaskExec \/ TaskLoad \/ TaskRegister
  <2>1. Head(queue).id \in Modules
    BY <1>0, <1>6, TakeType DEF TaskActivate, TaskDeactivate, TaskExec, TaskLoad, TaskRegister
  <2>2. \/ stack' = stack
        \/ \E f \in Frame : stack' = Append(stack, f) /\ f.fn # "shutdown"
    <3>1. CASE TaskExec
      <4>1. MkFrame("exec", Head(queue).id, Head(queue).tr, "hook") \in Frame
        BY <1>0, <3>1, TakeType, MkTypes DEF TaskExec, At
      <4> QED
        BY <3>1, <4>1 DEF TaskExec, MkFrame
    <3>2. CASE TaskActivate \/ TaskDeactivate \/ TaskLoad \/ TaskRegister
      <4>1. /\ MkFrame("activate", Head(queue).id, NoTrigger, "hook") \in Frame
            /\ MkFrame("deactivate", Head(queue).id, NoTrigger, "drain") \in Frame
            /\ MkFrame("load", Head(queue).id, NoTrigger, "host") \in Frame
            /\ MkFrame("register", Head(queue).id, NoTrigger, "host") \in Frame
        BY <2>1, MkTypes DEF At
      <4> QED
        BY <3>2, <4>1 DEF TaskActivate, ActivateNow, TaskDeactivate, DeactivateNow, TaskLoad,
             TaskRegister, MkFrame
    <3> QED
      BY <1>6, <3>1, <3>2
  <2>3. UNCHANGED <<ids, beneath>>
    BY <1>6 DEF TaskActivate, TaskDeactivate, TaskExec, TaskLoad, TaskRegister
  <2> QED
    BY <1>1, <1>2, <2>2, <2>3
<1>7. CASE TaskShutdown
  <2> DEFINE f == MkFrame("shutdown", NoModule, NoTrigger, "host")
             n == Len(stack)
  <2>1. /\ f \in Frame /\ stack' = Append(stack, f) /\ Take("shutdown")
        /\ ids' = {m \in Modules : state[m] # "none"}
        /\ beneath' = {stack[i].id : i \in {j \in 1..Len(stack) : Lifecycle(stack[j])}}
    BY <1>7 DEF TaskShutdown, MkFrame, Frame, At
  <2>2. /\ Len(stack') = n + 1 /\ n \in Nat
        /\ \A i \in 1..n : stack'[i] = stack[i] /\ stack[i] \in Frame
    BY <1>0, <2>1, Pushed
  <2>3. \A j \in 1..n : stack[j].fn # "shutdown"
    BY <1>0, <2>1, QueueTaken DEF Ends, InShutdown, FramesIn
  <2>4. ASSUME NEW j \in 1..n, stack[j].id \in Found'
        PROVE  stack[j].fn \in {"load", "exec"}
    <3>1. stack[j].id \notin beneath' /\ stack[j] \in Frame
      BY <2>2, <2>4 DEF Found
    <3>2. ~Lifecycle(stack[j])
      BY <2>1, <3>1
    <3> QED
      BY <2>3, <3>1, <3>2 DEF Lifecycle, Frame
  <2> HIDE DEF n, f
  <2>5. \A i \in 1..(n + 1), j \in 1..(n + 1) : j \in 1..(i - 1) => j \in 1..n
    BY <2>2
  <2>6. \A i \in 1..(n + 1) : \A j \in 1..(i - 1) : j \in 1..(n + 1)
    BY <2>2
  <2> QED
    BY <2>2, <2>3, <2>4, <2>5, <2>6 DEF Under
<1>8. CASE ActivateReturnsOk \/ ActivateFails \/ DeactivateDone \/ LoadRefused \/ LoadDone
           \/ RegisterDone \/ ShutdownTaskDone \/ UnregisterReturns \/ ExecReturns \/ ExecFails
  BY <1>3, <1>8 DEF ActivateReturnsOk, ActivateFails, DeactivateDone, LoadRefused, LoadDone,
       RegisterDone, ShutdownTaskDone, UnregisterReturns, ExecReturns, ExecFails, OnTop
<1>9. CASE ActivateReturnsError \/ DeactivateDrained \/ DeactivateTimesOut \/ DeactivateReturns
  BY <1>3, <1>9 DEF ActivateReturnsError, DeactivateDrained, DeactivateTimesOut,
       DeactivateReturns, Deactivated, OnTop, At
<1>10. CASE TaskExecRefused \/ TaskLoadRefused \/ TaskRegisterRefused
            \/ ScanStep \/ Posting \/ MainStep \/ \E tr \in Triggers : FailAwaiting(tr)
  BY <1>1, <1>10 DEF TaskExecRefused, TaskLoadRefused, TaskRegisterRefused,
       ScanStep, ScanVerifies, ScanPosts, Posting, PostExec, FailAwaiting,
       MainStep, MainGoes, ShutdownPosts, ShutdownGivesUp, ShutdownAwaited, ShutdownQuiet,
       ShutdownSweeps, ShutdownEnds, ShutdownRevokes
<1>11. CASE Environment
  BY <1>1, <1>11 DEF Environment, ShutdownBegins, MainGoes, ActiveModule, DeactivateModule,
       PostTransition, HostEnters, HostLeaves, PublishReads, PublishWrites, ListenEvent,
       ListenEventOnThread, TriggerEvent, AnswerEvent
<1> QED
  BY <1>4, <1>5, <1>6, <1>7, <1>8, <1>9, <1>10, <1>11 DEF Next, RunnerStep, HookReturns

(* Frames that come and go and are no activations.                         *)
LEMMA GatedBeside ==
    ASSUME TypeOK, Gated, UNCHANGED <<state, bound, gateClosed>>,
           \A f \in FramesIn(stack) : f.fn = "activate" => f \in FramesIn(stack'),
           \A f \in FramesIn(stack') : f.fn = "activate" => f \in FramesIn(stack)
    PROVE  Gated'
BY DEF Gated, FramesIn

(* An activation that begins opens the gate of its module and no other.    *)
LEMMA GatedActivate ==
    ASSUME TypeOK, StackFits, Gated, NEW m \in Modules, NEW s \in Seq(Frame), ActivateNow(m, s),
           \A f \in FramesIn(stack) : f.fn = "activate" => f \in FramesIn(s),
           \A f \in FramesIn(s) : f.fn = "activate" => f \in FramesIn(stack)
    PROVE  Gated'
<1>0. \A f \in FramesIn(stack) : f.fn = "activate" => state[f.id] = "activating"
  BY DEF StackFits, FrameFits, FramesIn
<1>1. CASE UNCHANGED <<state, gateClosed, grants>> /\ stack' = s
  BY <1>1, GatedBeside DEF grants
<1>2. CASE /\ state[m] \in {"registered", "inactive", "failed"}
           /\ SetState(m, "failed")
           /\ stack' = s
           /\ UNCHANGED <<gateClosed, grants>>
  <2>1. state' = [state EXCEPT ![m] = "failed"] /\ state \in [Modules -> States]
    BY <1>2 DEF SetState, TypeOK, RegistryOK
  <2>2. FramesIn(stack)' = FramesIn(s)
    BY <1>2 DEF FramesIn
  <2>3. bound \in SUBSET Modules /\ bound' = bound /\ gateClosed' = gateClosed
    BY <1>2 DEF grants, TypeOK, GatesOK
  <2>4. \A n \in Modules : state'[n] = IF n = m THEN "failed" ELSE state[n]
    BY <2>1
  <2> QED
    BY <1>2, <2>2, <2>3, <2>4 DEF Gated
<1>3. CASE /\ state[m] \in {"registered", "inactive", "failed"}
           /\ SetState(m, "activating")
           /\ bound' = bound \cup {m}
           /\ gateClosed' = gateClosed \ {m}
           /\ stack' = Append(s, MkFrame("activate", m, NoTrigger, "hook"))
  <2> DEFINE f == MkFrame("activate", m, NoTrigger, "hook")
  <2>1. f \in Frame /\ f.fn = "activate" /\ f.id = m /\ f.at = "hook"
    BY MkTypes DEF MkFrame, At
  <2>2. FramesIn(stack)' = FramesIn(s) \cup {f}
    <3>1. FramesIn(stack)' = FramesIn(Append(s, f))
      BY <1>3 DEF FramesIn
    <3> HIDE DEF f
    <3> QED
      BY <2>1, <3>1, PushFrames
  <2> HIDE DEF f
  <2>3. \A n \in Modules : state'[n] = IF n = m THEN "activating" ELSE state[n]
    BY <1>3 DEF SetState, TypeOK, RegistryOK
  <2>4. bound \in SUBSET Modules
    BY DEF TypeOK, GatesOK
  <2> QED
    BY <1>0, <1>3, <2>1, <2>2, <2>3, <2>4 DEF Gated
<1> QED
  BY <1>1, <1>2, <1>3 DEF ActivateNow, Republish, grants

(* A deactivation that begins closes it.                                   *)
LEMMA GatedDeactivate ==
    ASSUME TypeOK, Gated, NEW m \in Modules, DeactivateNow(m, stack), UNCHANGED bound
    PROVE  Gated'
<1>0. stack \in Seq(Frame)
  BY DEF TypeOK, RunnerOK
<1>1. CASE UNCHANGED <<state, gateClosed, stack>>
  BY <1>1, GatedBeside
<1>2. CASE /\ SetState(m, "deactivating")
           /\ Withdraw(m)
           /\ stack' = Append(stack, MkFrame("deactivate", m, NoTrigger, "drain"))
  <2> DEFINE f == MkFrame("deactivate", m, NoTrigger, "drain")
  <2>1. f \in Frame /\ f.fn = "deactivate"
    BY MkTypes DEF MkFrame, At
  <2>2. FramesIn(stack)' = FramesIn(stack) \cup {f}
    <3>1. FramesIn(stack)' = FramesIn(Append(stack, f))
      BY <1>2 DEF FramesIn
    <3> HIDE DEF f
    <3> QED
      BY <1>0, <2>1, <3>1, PushFrames
  <2> HIDE DEF f
  <2>3. \A n \in Modules : state'[n] = IF n = m THEN "deactivating" ELSE state[n]
    BY <1>2 DEF SetState, TypeOK, RegistryOK
  <2>4. bound \in SUBSET Modules /\ bound' = bound /\ gateClosed' = gateClosed \cup {m}
    BY <1>2 DEF TypeOK, GatesOK, Withdraw
  <2>5. m \in bound => state[m] \notin {"none", "registered"}
    BY DEF Gated
  <2> QED
    BY <2>1, <2>2, <2>3, <2>4, <2>5 DEF Gated
<1> QED
  BY <1>1, <1>2 DEF DeactivateNow, Republish

(* Gates, at any depth of nested loops.                                    *)
LEMMA GatedNext ==
    ASSUME Inv, Gated, Next
    PROVE  Gated'
<1> USE DEF registry, delivery, gates, grants, runner, startup, shutdown, callers
<1>0. TypeOK /\ StackFits /\ RunnerOK /\ stack \in Seq(Frame)
  BY DEF Inv, TypeOK, RunnerOK
<1>1. ASSUME UNCHANGED <<state, bound, gateClosed, stack>>
      PROVE  Gated'
  BY <1>1, <1>0, GatedBeside
<1>2. ASSUME NEW f \in Frame, f.fn # "activate", stack' = Append(stack, f),
             UNCHANGED <<state, bound, gateClosed>>
      PROVE  Gated'
  <2>1. FramesIn(stack') = FramesIn(stack) \cup {f}
    BY <1>0, <1>2, PushFrames
  <2> QED
    BY <1>0, <1>2, <2>1, GatedBeside
<1>3. ASSUME stack # <<>>, Top.fn # "activate", UNCHANGED <<state, bound, gateClosed>>,
             stack' = Below \/ \E at \in At : stack' = GoTo(at)
      PROVE  Gated'
  <2>1. Top \in Frame
    BY <1>0, <1>3, StackType
  <2>2. \A at : [Top EXCEPT !.at = at].fn = Top.fn
    BY <2>1 DEF Frame
  <2>3. \A f \in FramesIn(stack) : f.fn = "activate" => f \in FramesIn(stack')
    BY <1>0, <1>3, PopFrames
  <2>4. \A f \in FramesIn(stack') : f.fn = "activate" => f \in FramesIn(stack)
    BY <1>0, <1>3, <2>2, PopFrames
  <2> QED
    BY <1>0, <1>3, <2>3, <2>4, GatedBeside
<1>4. CASE TaskActivate
  <2>1. Head(queue).id \in Modules
    BY <1>0, <1>4, TakeType DEF TaskActivate
  <2> QED
    BY <1>0, <1>4, <2>1, GatedActivate DEF TaskActivate
<1>5. CASE RegisterActivates
  <2>1. /\ Top.id \in Modules /\ stack # <<>> /\ GoTo("wait") \in Seq(Frame)
        /\ Top \in Frame /\ Top.fn = "register"
    BY <1>0, <1>5, TopType, StackType DEF RegisterActivates, OnTop, At
  <2>2. [Top EXCEPT !.at = "wait"].fn = Top.fn
    BY <2>1 DEF Frame
  <2>3. \A f \in FramesIn(stack) : f.fn = "activate" => f \in FramesIn(GoTo("wait"))
    BY <1>0, <2>1, PopFrames DEF At
  <2>4. \A f \in FramesIn(GoTo("wait")) : f.fn = "activate" => f \in FramesIn(stack)
    BY <1>0, <2>1, <2>2, PopFrames DEF At
  <2> QED
    BY <1>0, <1>5, <2>1, <2>3, <2>4, GatedActivate DEF RegisterActivates
<1>6. CASE ActivateReturnsOk
  <2>1. stack # <<>> /\ Top.id \in Modules /\ stack' = Below
    BY <1>0, <1>6, TopType DEF ActivateReturnsOk, OnTop
  <2>2. /\ FramesIn(stack') \subseteq FramesIn(stack)
        /\ FramesIn(stack) \subseteq FramesIn(stack') \cup {Top}
    BY <1>0, <2>1, PopFrames
  <2>3. \A n \in Modules : state'[n] = IF n = Top.id THEN "active" ELSE state[n]
    BY <1>0, <1>6 DEF ActivateReturnsOk, SetState, TypeOK, RegistryOK
  <2>4. bound \in SUBSET Modules /\ UNCHANGED <<bound, gateClosed>>
    BY <1>0, <1>6 DEF ActivateReturnsOk, TypeOK, GatesOK
  <2>5. FramesIn(stack)' = FramesIn(stack')
    BY DEF FramesIn
  <2> QED
    BY <2>2, <2>3, <2>4, <2>5 DEF Gated
<1>7. CASE ActivateReturnsError
  <2>1. /\ stack # <<>> /\ Top.id \in Modules /\ stack' = GoTo("drain")
        /\ Top \in Frame /\ Top.fn = "activate"
    BY <1>0, <1>7, TopType, StackType DEF ActivateReturnsError, OnTop
  <2> DEFINE f == [Top EXCEPT !.at = "drain"]
  <2>2. f.fn = "activate" /\ f.id = Top.id
    BY <2>1 DEF Frame
  <2>3. /\ FramesIn(stack') \subseteq FramesIn(stack) \cup {f}
        /\ FramesIn(stack) \subseteq FramesIn(stack') \cup {Top}
        /\ f \in FramesIn(stack')
        /\ Top \in FramesIn(stack)
    BY <1>0, <2>1, PopFrames DEF At
  <2> HIDE DEF f
  <2>4. UNCHANGED <<state, bound>> /\ gateClosed' = gateClosed \cup {Top.id}
    BY <1>7 DEF ActivateReturnsError, Withdraw
  <2>5. FramesIn(stack)' = FramesIn(stack')
    BY DEF FramesIn
  <2> QED
    BY <2>1, <2>2, <2>3, <2>4, <2>5 DEF Gated
<1>8. CASE ActivateFails
  <2>1. /\ stack # <<>> /\ Top.id \in Modules /\ stack' = Below
        /\ Top.fn = "activate" /\ Top.at = "drain"
    BY <1>0, <1>8, TopType DEF ActivateFails, OnTop
  <2>2. /\ FramesIn(stack') \subseteq FramesIn(stack)
        /\ FramesIn(stack) \subseteq FramesIn(stack') \cup {Top}
        /\ Top \in FramesIn(stack)
    BY <1>0, <2>1, PopFrames
  <2>3. \A n \in Modules : state'[n] = IF n = Top.id THEN "failed" ELSE state[n]
    BY <1>0, <1>8 DEF ActivateFails, SetState, TypeOK, RegistryOK
  <2>4. bound \in SUBSET Modules /\ UNCHANGED <<bound, gateClosed>>
    BY <1>0, <1>8 DEF ActivateFails, TypeOK, GatesOK
  <2>5. FramesIn(stack)' = FramesIn(stack')
    BY DEF FramesIn
  <2> QED
    BY <2>1, <2>2, <2>3, <2>4, <2>5 DEF Gated
<1>9. CASE TaskDeactivate \/ \E m \in Modules : ShutdownDeactivates(m)
  <2>1. TaskDeactivate => Head(queue).id \in Modules
    BY <1>0, TakeType DEF TaskDeactivate
  <2> QED
    BY <1>0, <1>9, <2>1, GatedDeactivate DEF TaskDeactivate, ShutdownDeactivates
<1>10. CASE DeactivateTimesOut \/ DeactivateReturns
  <2>1. /\ stack # <<>> /\ Top.id \in Modules /\ stack' = GoTo("fail")
        /\ Top \in Frame /\ Top.fn = "deactivate" /\ Top.at \in {"drain", "hook"}
    BY <1>0, <1>10, TopType, StackType DEF DeactivateTimesOut, DeactivateReturns,
       Deactivated, OnTop
  <2>2. Top.id \in gateClosed /\ state[Top.id] = "deactivating"
    <3>1. FrameFits(Top)
      BY <1>0, <2>1, StackType DEF StackFits, Top
    <3> QED
      BY <2>1, <3>1 DEF FrameFits
  <2> DEFINE f == [Top EXCEPT !.at = "fail"]
  <2>3. f.fn = "deactivate"
    BY <2>1 DEF Frame
  <2>4. /\ FramesIn(stack') \subseteq FramesIn(stack) \cup {f}
        /\ FramesIn(stack) \subseteq FramesIn(stack') \cup {Top}
    BY <1>0, <2>1, PopFrames DEF At
  <2> HIDE DEF f
  <2>5. \A n \in Modules : state'[n] = IF n = Top.id THEN "inactive" ELSE state[n]
    BY <1>0, <1>10 DEF DeactivateTimesOut, DeactivateReturns, Deactivated, TypeOK, RegistryOK
  <2>6. bound \in SUBSET Modules /\ UNCHANGED <<bound, gateClosed>>
    BY <1>0, <1>10 DEF DeactivateTimesOut, DeactivateReturns, Deactivated, TypeOK, GatesOK
  <2>7. FramesIn(stack)' = FramesIn(stack')
    BY DEF FramesIn
  <2> QED
    BY <2>1, <2>2, <2>3, <2>4, <2>5, <2>6, <2>7 DEF Gated
<1>11. CASE TaskRegister
  <2> DEFINE m == Head(queue).id
             f == MkFrame("register", m, NoTrigger, "host")
  <2>1. m \in Modules
    BY <1>0, <1>11, TakeType DEF TaskRegister
  <2>2. f \in Frame /\ f.fn = "register"
    BY <2>1, MkTypes DEF MkFrame, At
  <2>3. stack' = Append(stack, f) /\ state[m] = "none" /\ SetState(m, "registered")
        /\ UNCHANGED <<bound, gateClosed>>
    BY <1>11 DEF TaskRegister
  <2> HIDE DEF f, m
  <2>4. FramesIn(stack') = FramesIn(stack) \cup {f}
    BY <1>0, <2>2, <2>3, PushFrames
  <2>5. \A n \in Modules : state'[n] = IF n = m THEN "registered" ELSE state[n]
    BY <1>0, <2>3 DEF SetState, TypeOK, RegistryOK
  <2>6. bound \in SUBSET Modules
    BY <1>0 DEF TypeOK, GatesOK
  <2>7. FramesIn(stack)' = FramesIn(stack')
    BY DEF FramesIn
  <2> QED
    BY <2>2, <2>3, <2>4, <2>5, <2>6, <2>7 DEF Gated
<1>12. CASE DeactivateDone
  <2>1. stack # <<>> /\ Top.fn = "deactivate" /\ stack' = Below
    BY <1>12 DEF DeactivateDone, OnTop
  <2> QED
    BY <1>3, <1>12, <2>1 DEF DeactivateDone, Republish
<1>13. CASE TaskExec \/ TaskLoad \/ TaskShutdown \/ \E m \in Modules : ShutdownUnregisters(m)
  <2>1. \E f \in Frame : f.fn # "activate" /\ stack' = Append(stack, f)
    <3>1. CASE TaskExec
      <4>1. MkFrame("exec", Head(queue).id, Head(queue).tr, "hook") \in Frame
        BY <1>0, <3>1, TakeType, MkTypes DEF TaskExec, At
      <4> QED
        BY <3>1, <4>1 DEF TaskExec, MkFrame
    <3>2. CASE TaskLoad
      <4>1. MkFrame("load", Head(queue).id, NoTrigger, "host") \in Frame
        BY <1>0, <3>2, TakeType, MkTypes DEF TaskLoad, At
      <4> QED
        BY <3>2, <4>1 DEF TaskLoad, MkFrame
    <3>3. CASE TaskShutdown
      <4>1. MkFrame("shutdown", NoModule, NoTrigger, "host") \in Frame
        BY DEF MkFrame, Frame, At
      <4> QED
        BY <3>3, <4>1 DEF TaskShutdown, MkFrame
    <3>4. ASSUME NEW m \in Modules, ShutdownUnregisters(m)
          PROVE  \E f \in Frame : f.fn # "activate" /\ stack' = Append(stack, f)
      <4>1. MkFrame("unregister", m, NoTrigger, "hook") \in Frame
        BY MkTypes DEF At
      <4> QED
        BY <3>4, <4>1 DEF ShutdownUnregisters, MkFrame
    <3> QED
      BY <1>13, <3>1, <3>2, <3>3, <3>4
  <2>2. UNCHANGED <<state, bound, gateClosed>>
    BY <1>13 DEF TaskExec, TaskLoad, TaskShutdown, ShutdownUnregisters
  <2> QED
    BY <1>2, <2>1, <2>2
<1>14. CASE DeactivateDrained \/ LoadRefused \/ LoadDone \/ RegisterDone \/ ShutdownTaskDone
            \/ UnregisterReturns \/ ExecReturns \/ ExecFails
  BY <1>3, <1>14 DEF DeactivateDrained, LoadRefused, LoadDone, RegisterDone, ShutdownTaskDone,
       UnregisterReturns, ExecReturns, ExecFails, OnTop, At
<1>15. CASE TaskExecRefused \/ TaskLoadRefused \/ TaskRegisterRefused \/ ScanStep \/ Posting
            \/ MainStep \/ \E tr \in Triggers : FailAwaiting(tr)
  BY <1>1, <1>15 DEF TaskExecRefused, TaskLoadRefused, TaskRegisterRefused, ScanStep,
       ScanVerifies, ScanPosts, Posting, PostExec, FailAwaiting,
       MainStep, MainGoes, ShutdownPosts, ShutdownGivesUp, ShutdownAwaited, ShutdownQuiet,
       ShutdownSweeps, ShutdownEnds, ShutdownRevokes
<1>16. CASE Environment
  BY <1>1, <1>16 DEF Environment, ShutdownBegins, MainGoes, ActiveModule, DeactivateModule,
       PostTransition, HostEnters, HostLeaves, PublishReads, PublishWrites, ListenEvent,
       ListenEventOnThread, TriggerEvent, AnswerEvent, Republish
<1> QED
  BY <1>4, <1>5, <1>6, <1>7, <1>8, <1>9, <1>10, <1>11, <1>12, <1>13, <1>14, <1>15, <1>16
     DEF Next, RunnerStep, HookReturns

-----------------------------------------------------------------------------
(* The end of the module system, from the shutdown task on.                *)

(* A frame that may be new on the stack: not the shutdown's, not one that  *)
(* brings up a module it found and, once that is over, not about such a    *)
(* module at all, nor one the closed gate would have to count.             *)
Welcome(f) ==
    /\ f.fn # "shutdown"
    /\ InShutdown /\ Rises(f) => f.id \notin Found
    /\ Over => f.id \notin Found /\ ~Counted(f)

Carried(s) ==
    \A f \in FramesIn(s) :
        Welcome(f) \/ \E g \in FramesIn(stack) : g.fn = f.fn /\ g.id = f.id

(* No module found comes up while the shutdown task runs, nor afterwards.  *)
Calm ==
    \A m \in Modules :
        \/ state'[m] = state[m]
        \/ /\ state'[m] # "none"
           /\ \/ state'[m] \notin {"activating", "active"}
              \/ InShutdown \/ Over => m \notin Found

(* The stacks a step may leave, other than the shutdown task's own.        *)
LEMMA CarriedStacks ==
    ASSUME RunnerOK
    PROVE  /\ Carried(stack)
           /\ stack # <<>> => Carried(Below) /\ \A at \in At : Carried(GoTo(at))
           /\ \A s \in Seq(Frame), f \in Frame :
                Carried(s) /\ Welcome(f) => Carried(Append(s, f))
<1>1. Carried(stack)
  BY DEF Carried
<1>2. ASSUME stack # <<>>
      PROVE  Carried(Below)
  BY <1>2, PopFrames DEF Carried
<1>3. ASSUME stack # <<>>, NEW at \in At
      PROVE  Carried(GoTo(at))
  <2>1. Top \in Frame
    BY <1>3, StackType
  <2>2. [Top EXCEPT !.at = at].fn = Top.fn /\ [Top EXCEPT !.at = at].id = Top.id
    BY <2>1 DEF Frame
  <2>3. /\ Top \in FramesIn(stack)
        /\ FramesIn(GoTo(at)) \subseteq FramesIn(stack) \cup {[Top EXCEPT !.at = at]}
    BY <1>3, PopFrames
  <2> QED
    BY <2>2, <2>3 DEF Carried
<1>4. ASSUME NEW s \in Seq(Frame), NEW f \in Frame,
             Carried(s), Welcome(f)
      PROVE  Carried(Append(s, f))
  BY <1>4, PushFrames DEF Carried
<1> QED
  BY <1>1, <1>2, <1>3, <1>4

(* After the shutdown began, the process-wide gate is closed.              *)
LEMMA OverMeans ==
    ASSUME Ends, Wiped
    PROVE  /\ Over => main # "running" /\ closed
           /\ Over => ~InShutdown /\ ~Asked("shutdown") /\ ~Asked("activate")
           /\ InShutdown \/ Over => \A f \in FramesIn(stack) : Rises(f) => f.id \notin Found
           /\ Quiet => Over
           /\ main \in {"running", "joining", "waiting"} => ~Over /\ swept = {}
BY DEF Ends, Wiped, Over, Rises, Counted, Quiet

(* A step outside the shutdown that brings nothing up in it or after it.   *)
LEMMA EndsKept ==
    ASSUME TypeOK, Ends, Wiped, UNCHANGED <<main, ids, beneath, toDeactivate, swept, closed>>,
           Lined',
           \/ \A g \in {"shutdown", "activate"} : Asked(g)' => Asked(g)
           \/ main = "running" /\ ~Asked("shutdown")',
           Carried(stack'),
           Calm
    PROVE  Ends'
<1>1. FramesIn(stack)' = FramesIn(stack')
  BY DEF FramesIn
<1>2. InShutdown' => InShutdown
  BY <1>1 DEF Carried, InShutdown, Welcome
<1>3. Over' = Over /\ Quiet' = Quiet /\ Found' = Found
  BY DEF Over, Quiet, Found
<1>4. Over => \A f \in FramesIn(stack') : f.id \in Found => Counted(f)
  <2> SUFFICES ASSUME Over, NEW f \in FramesIn(stack'), f.id \in Found
               PROVE  Counted(f)
    OBVIOUS
  <2>1. ~Welcome(f)
    BY DEF Welcome
  <2>2. PICK g \in FramesIn(stack) : g.fn = f.fn /\ g.id = f.id
    BY <2>1 DEF Carried
  <2> QED
    BY <2>2 DEF Ends, Counted
<1>a. Quiet => \A f \in FramesIn(stack') : ~Counted(f)
  <2> SUFFICES ASSUME Quiet, NEW f \in FramesIn(stack'), Counted(f)
               PROVE  FALSE
    OBVIOUS
  <2>1. Over
    BY OverMeans
  <2>2. PICK g \in FramesIn(stack) : g.fn = f.fn
    BY <2>1 DEF Carried, Welcome
  <2> QED
    BY <2>2 DEF Ends, Counted
<1>b. InShutdown => \A f \in FramesIn(stack') : Rises(f) => f.id \notin Found
  <2> SUFFICES ASSUME InShutdown, NEW f \in FramesIn(stack'), Rises(f), f.id \in Found
               PROVE  FALSE
    OBVIOUS
  <2>1. PICK g \in FramesIn(stack) : g.fn = f.fn /\ g.id = f.id
    BY DEF Carried, Welcome
  <2> QED
    BY <2>1 DEF Ends, Rises
<1>5. ids \in SUBSET Modules /\ Found \subseteq Modules
  BY DEF TypeOK, ShutdownOK, Found
<1>6. \A m \in ids : state'[m] # "none"
  BY <1>5 DEF Ends, Calm
<1>7. InShutdown => \A m \in Found \ toDeactivate : state'[m] \notin {"activating", "active"}
  BY <1>5 DEF Ends, Calm, Still
<1>8. Over => \A m \in Found : state'[m] \notin {"activating", "active"}
  BY <1>5 DEF Ends, Calm, Still
<1>9. main = "running" => ~Over /\ ~InShutdown
  BY OverMeans DEF Ends
<1>10. main \in {"running", "joining"} => ~Asked("shutdown")' /\ ~InShutdown'
  BY <1>2 DEF Ends
<1>11. InShutdown' => /\ ~Asked("shutdown")' /\ ~Asked("activate")'
                      /\ Still(Found \ toDeactivate)'
                      /\ \A f \in FramesIn(stack)' : Rises(f) => f.id \notin Found'
  BY <1>1, <1>2, <1>3, <1>7, <1>9, <1>b DEF Ends, Still
<1>12. Over' => /\ ~InShutdown' /\ ~Asked("shutdown")' /\ ~Asked("activate")'
                /\ Still(Found)'
                /\ \A f \in FramesIn(stack)' : f.id \in Found' => Counted(f)
  BY <1>1, <1>2, <1>3, <1>4, <1>8, <1>9 DEF Ends, Still
<1>13. (main # "running" => closed)'
  BY DEF Ends
<1>14. Quiet' => \A f \in FramesIn(stack)' : ~Counted(f)
  BY <1>1, <1>3, <1>a
<1> QED
  BY <1>6, <1>10, <1>11, <1>12, <1>13, <1>14 DEF Ends, Rises, Counted

(* The same, of a step that also leaves the queue alone.                   *)
LEMMA EndsQueued ==
    ASSUME TypeOK, Ends, Wiped, UNCHANGED <<main, ids, beneath, toDeactivate, swept, closed, queue>>,
           Carried(stack'), Calm
    PROVE  Ends'
<1>1. Lined' /\ \A g : Asked(g)' => Asked(g)
  BY DEF Lined, Asked, Ends
<1> QED
  BY <1>1, EndsKept

(* ... that takes a task.                                                  *)
LEMMA EndsTaken ==
    ASSUME TypeOK, Ends, Wiped, UNCHANGED <<main, ids, beneath, toDeactivate, swept, closed>>,
           NEW fn, Take(fn), Carried(stack'), Calm
    PROVE  Ends'
<1>1. Lined' /\ \A g : Asked(g)' => Asked(g)
  BY QueueTaken DEF Ends, TypeOK
<1> QED
  BY <1>1, EndsKept

(* ... that posts one: activations come from the main thread, before.      *)
LEMMA EndsPosted ==
    ASSUME TypeOK, Ends, Wiped, UNCHANGED <<main, ids, beneath, toDeactivate, swept, closed, state>>,
           NEW t \in Task, Post(t), Carried(stack'),
           t.fn \notin {"activate", "shutdown"} \/ (main = "running" /\ t.fn # "shutdown")
    PROVE  Ends'
<1>1. main = "running" => ~Asked("shutdown")
  BY DEF Ends
<1>2. Lined' /\ \A g : Asked(g)' => Asked(g) \/ g = t.fn
  BY <1>1, QueuePosted DEF Ends, TypeOK
<1>3. Calm
  BY DEF Calm
<1> QED
  BY <1>1, <1>2, <1>3, EndsKept

(* One module's record is written: what it takes to be calm.               *)
LEMMA CalmWrites ==
    ASSUME TypeOK, NEW m \in Modules, NEW s \in States, s # "none",
           state' = [state EXCEPT ![m] = s],
           s \in {"activating", "active"} => (InShutdown \/ Over => m \notin Found)
    PROVE  Calm
<1>1. \A n \in Modules : state'[n] = IF n = m THEN s ELSE state[n]
  BY DEF TypeOK, RegistryOK
<1> QED
  BY <1>1 DEF Calm

(* The tasks: late registrations are of modules the shutdown did not find, *)
(* late loads and events find the process-wide gate closed.                *)
LEMMA EndsTasks ==
    ASSUME TypeOK, Gated, Ends, Wiped,
           \/ TaskActivate \/ TaskDeactivate \/ TaskExecRefused \/ TaskExec
           \/ TaskLoadRefused \/ TaskLoad \/ TaskRegisterRefused \/ TaskRegister
    PROVE  Ends'
<1> USE DEF registry, delivery, gates, grants, runner, startup, shutdown, callers
<1>0. RunnerOK /\ stack \in Seq(Frame)
  BY DEF TypeOK, RunnerOK
<1>1. UNCHANGED <<main, ids, beneath, toDeactivate, swept, closed>>
  BY DEF TaskActivate, TaskDeactivate, TaskExecRefused, TaskExec, TaskLoadRefused, TaskLoad,
       TaskRegisterRefused, TaskRegister
<1>2. \A fn : Take(fn) => Asked(fn)
  BY <1>0, QueueTaken DEF Ends
<1>3. ASSUME NEW fn, NEW f \in Frame, Take(fn), Welcome(f),
             stack' = Append(stack, f), Calm
      PROVE  Ends'
  BY <1>0, <1>1, <1>3, CarriedStacks, EndsTaken
<1>4. ASSUME NEW fn, Take(fn), stack' = stack, Calm
      PROVE  Ends'
  BY <1>0, <1>1, <1>4, CarriedStacks, EndsTaken
<1>5. state' = state => Calm
  BY DEF Calm
<1>6. CASE TaskActivate
  <2> DEFINE m == Head(queue).id
             f == MkFrame("activate", m, NoTrigger, "hook")
  <2>1. m \in Modules /\ Take("activate") /\ ~InShutdown /\ ~Over
    BY <1>0, <1>2, <1>6, TakeType, OverMeans DEF TaskActivate, Ends
  <2>2. f \in Frame /\ f.fn # "shutdown"
    BY <2>1, MkTypes DEF MkFrame, At
  <2>a. Welcome(f)
    BY <2>1, <2>2 DEF Welcome
  <2>3. \/ state' = state /\ stack' = stack
        \/ state' = [state EXCEPT ![m] = "failed"] /\ stack' = stack
        \/ state' = [state EXCEPT ![m] = "activating"] /\ stack' = Append(stack, f)
    BY <1>6 DEF TaskActivate, ActivateNow, Republish, SetState
  <2> HIDE DEF m, f
  <2>4. Calm
    BY <1>5, <2>1, <2>3, CalmWrites DEF States
  <2> QED
    BY <1>3, <1>4, <2>1, <2>2, <2>3, <2>4, <2>a
<1>7. CASE TaskDeactivate
  <2> DEFINE m == Head(queue).id
             f == MkFrame("deactivate", m, NoTrigger, "drain")
  <2>1. m \in Modules /\ Take("deactivate")
    BY <1>0, <1>7, TakeType DEF TaskDeactivate
  <2>2. f \in Frame /\ f.fn = "deactivate" /\ f.id = m
    BY <2>1, MkTypes DEF MkFrame, At
  <2>3. \/ state' = state /\ stack' = stack
        \/ /\ state[m] = "active"
           /\ state' = [state EXCEPT ![m] = "deactivating"] /\ stack' = Append(stack, f)
    BY <1>7 DEF TaskDeactivate, DeactivateNow, Republish, SetState, MayDeactivate
  <2> HIDE DEF m, f
  <2>4. Calm
    BY <1>5, <2>1, <2>3, CalmWrites DEF States
  <2>5. state[m] = "active" => Welcome(f)
    BY <2>2 DEF Ends, Still, Welcome, Rises, Counted
  <2> QED
    BY <1>3, <1>4, <2>1, <2>2, <2>3, <2>4, <2>5
<1>8. CASE TaskExec
  <2> DEFINE f == MkFrame("exec", Head(queue).id, Head(queue).tr, "hook")
  <2>1. f \in Frame /\ f.fn = "exec"
    BY <1>0, <1>8, TakeType, MkTypes DEF TaskExec, MkFrame, At
  <2>2. stack' = Append(stack, f) /\ ~closed /\ state' = state /\ Take("exec")
    BY <1>8 DEF TaskExec
  <2> HIDE DEF f
  <2> QED
    BY <1>3, <1>5, <2>1, <2>2, OverMeans DEF Welcome, Rises, Ends
<1>9. CASE TaskLoad
  <2> DEFINE f == MkFrame("load", Head(queue).id, NoTrigger, "host")
  <2>0. Head(queue).id \in Modules
    BY <1>0, <1>9, TakeType DEF TaskLoad
  <2>1. f \in Frame /\ f.fn = "load"
    BY <2>0, MkTypes DEF MkFrame, At
  <2>2. stack' = Append(stack, f) /\ ~closed /\ state' = state /\ Take("load")
    BY <1>9 DEF TaskLoad
  <2> HIDE DEF f
  <2> QED
    BY <1>3, <1>5, <2>1, <2>2, OverMeans DEF Welcome, Rises, Ends
<1>10. CASE TaskRegister
  <2> DEFINE m == Head(queue).id
             f == MkFrame("register", m, NoTrigger, "host")
  <2>1. m \in Modules /\ Take("register")
    BY <1>0, <1>10, TakeType DEF TaskRegister
  <2>2. f \in Frame /\ f.fn = "register" /\ f.id = m
    BY <2>1, MkTypes DEF MkFrame, At
  <2>3. /\ state[m] = "none" /\ state' = [state EXCEPT ![m] = "registered"]
        /\ stack' = Append(stack, f)
    BY <1>10 DEF TaskRegister, SetState
  <2> HIDE DEF m, f
  <2>4. Calm
    BY <2>1, <2>3, CalmWrites DEF States
  <2>5. Welcome(f)
    BY <2>2, <2>3 DEF Ends, Welcome, Counted, Found
  <2> QED
    BY <1>3, <2>1, <2>2, <2>3, <2>4, <2>5
<1>11. CASE TaskExecRefused \/ TaskLoadRefused \/ TaskRegisterRefused
  BY <1>4, <1>5, <1>11 DEF TaskExecRefused, TaskLoadRefused, TaskRegisterRefused
<1> QED
  BY <1>6, <1>7, <1>8, <1>9, <1>10, <1>11

(* The frames on the stack.                                                *)
LEMMA EndsFrames ==
    ASSUME TypeOK, Gated, Ends, Wiped,
           \/ ActivateReturnsOk \/ ActivateReturnsError \/ ActivateFails
           \/ DeactivateDrained \/ DeactivateTimesOut \/ DeactivateReturns \/ DeactivateDone
           \/ \E tr \in Triggers : FailAwaiting(tr)
           \/ LoadRefused \/ LoadDone \/ RegisterActivates \/ RegisterDone
           \/ UnregisterReturns \/ ExecReturns \/ ExecFails
           \/ \E m \in Modules : ShutdownUnregisters(m)
    PROVE  Ends'
<1> USE DEF registry, delivery, gates, grants, runner, startup, shutdown, callers
<1>0. RunnerOK /\ stack \in Seq(Frame)
  BY DEF TypeOK, RunnerOK
<1>1. UNCHANGED <<main, ids, beneath, toDeactivate, swept, closed>>
  BY DEF ActivateReturnsOk, ActivateReturnsError, ActivateFails, DeactivateDrained,
       DeactivateTimesOut, DeactivateReturns, Deactivated, DeactivateDone, FailAwaiting,
       LoadRefused, LoadDone, RegisterActivates, RegisterDone, UnregisterReturns, ExecReturns,
       ExecFails, ShutdownUnregisters
<1>2. state' = state => Calm
  BY DEF Calm
<1>3. ASSUME stack # <<>>, stack' = Below \/ \E at \in At : stack' = GoTo(at),
             UNCHANGED queue, Calm
      PROVE  Ends'
  BY <1>0, <1>1, <1>3, CarriedStacks, EndsQueued
<1>4. CASE ActivateReturnsOk
  <2>1. Top.id \in Modules /\ stack # <<>> /\ Top \in FramesIn(stack) /\ Rises(Top)
    BY <1>0, <1>4, TopType, PopFrames DEF ActivateReturnsOk, OnTop, Rises
  <2>2. state' = [state EXCEPT ![Top.id] = "active"] /\ stack' = Below /\ UNCHANGED queue
    BY <1>4 DEF ActivateReturnsOk, SetState
  <2>3. Calm
    BY <2>1, <2>2, CalmWrites, OverMeans DEF States
  <2> QED
    BY <1>3, <2>1, <2>2, <2>3
<1>5. CASE ActivateFails \/ DeactivateTimesOut \/ DeactivateReturns
  <2>1. Top.id \in Modules /\ stack # <<>>
    BY <1>0, <1>5, TopType DEF ActivateFails, DeactivateTimesOut, DeactivateReturns, OnTop
  <2>2. /\ \E s \in {"failed", "inactive"} : state' = [state EXCEPT ![Top.id] = s]
        /\ stack' = Below \/ stack' = GoTo("fail")
        /\ UNCHANGED queue
    BY <1>5 DEF ActivateFails, DeactivateTimesOut, DeactivateReturns, Deactivated, SetState
  <2>3. Calm
    BY <2>1, <2>2, CalmWrites DEF States
  <2> QED
    BY <1>3, <2>1, <2>2, <2>3 DEF At
<1>6. CASE ActivateReturnsError \/ DeactivateDrained \/ DeactivateDone \/ LoadRefused
           \/ RegisterDone \/ UnregisterReturns \/ ExecReturns \/ ExecFails
  BY <1>2, <1>3, <1>6 DEF ActivateReturnsError, DeactivateDrained, DeactivateDone, LoadRefused,
       RegisterDone, UnregisterReturns, ExecReturns, ExecFails, OnTop, At, Republish
<1>7. CASE \E tr \in Triggers : FailAwaiting(tr)
  <2>1. UNCHANGED <<stack, queue, state>>
    BY <1>7 DEF FailAwaiting
  <2> QED
    BY <1>0, <1>1, <1>2, <2>1, CarriedStacks, EndsQueued
<1>8. CASE LoadDone
  <2> DEFINE t == MkTask("register", Top.id, NoTrigger)
  <2>0. Top.id \in Modules
    BY <1>0, <1>8, TopType DEF LoadDone
  <2>1. t \in Task /\ t.fn = "register"
    BY <2>0, MkTypes DEF MkTask, At
  <2>2. stack # <<>> /\ stack' = Below /\ Post(t) /\ state' = state
    BY <1>8 DEF LoadDone, OnTop
  <2> HIDE DEF t
  <2> QED
    BY <1>0, <1>1, <2>1, <2>2, CarriedStacks, EndsPosted
<1>9. CASE RegisterActivates
  <2> DEFINE f == MkFrame("activate", Top.id, NoTrigger, "hook")
  <2>1. /\ Top.id \in Modules /\ stack # <<>> /\ Top \in FramesIn(stack) /\ Rises(Top)
        /\ GoTo("wait") \in Seq(Frame)
    BY <1>0, <1>9, TopType, PopFrames, StackType DEF RegisterActivates, OnTop, At, Rises
  <2>2. f \in Frame /\ f.fn = "activate" /\ f.id = Top.id
    BY <2>1, MkTypes DEF MkFrame, At
  <2>3. /\ \/ state' = state /\ stack' = GoTo("wait")
           \/ state' = [state EXCEPT ![Top.id] = "failed"] /\ stack' = GoTo("wait")
           \/ state' = [state EXCEPT ![Top.id] = "activating"] /\ stack' = Append(GoTo("wait"), f)
        /\ UNCHANGED queue
    BY <1>9 DEF RegisterActivates, ActivateNow, Republish, SetState
  <2> HIDE DEF f
  <2>4. (InShutdown \/ Over => Top.id \notin Found) /\ Welcome(f)
    BY <2>1, <2>2, OverMeans DEF Welcome, Counted
  <2>5. Calm
    BY <1>2, <2>1, <2>3, <2>4, CalmWrites DEF States
  <2>6. Carried(GoTo("wait")) /\ Carried(Append(GoTo("wait"), f))
    BY <1>0, <2>1, <2>2, <2>4, CarriedStacks DEF At
  <2> QED
    BY <1>1, <2>3, <2>5, <2>6, EndsQueued
<1>10. ASSUME NEW m \in Modules, ShutdownUnregisters(m)
       PROVE  Ends'
  <2> DEFINE f == MkFrame("unregister", m, NoTrigger, "hook")
  <2>1. f \in Frame /\ f.fn = "unregister"
    BY MkTypes DEF MkFrame, At
  <2>2. stack' = Append(stack, f) /\ UNCHANGED <<queue, state>> /\ stack # <<>>
        /\ Top.fn = "shutdown"
    BY <1>10 DEF ShutdownUnregisters, OnTop
  <2> HIDE DEF f
  <2>3. ~Over /\ Welcome(f)
    BY <1>0, <2>1, <2>2, PopFrames, OverMeans DEF InShutdown, Welcome, Rises
  <2> QED
    BY <1>0, <1>1, <1>2, <2>1, <2>2, <2>3, CarriedStacks, EndsQueued
<1> QED
  BY <1>4, <1>5, <1>6, <1>7, <1>8, <1>9, <1>10

(* Other threads.                                                          *)
LEMMA EndsElsewhere ==
    ASSUME TypeOK, Ends, Wiped,
           \/ ScanStep \/ Posting
           \/ \E m \in Modules : \/ ActiveModule(m) \/ DeactivateModule(m)
                                 \/ HostEnters(m) \/ HostLeaves(m)
                                 \/ PublishReads(m) \/ PublishWrites(m)
           \/ \E m \in Modules, e \in Events : ListenEvent(m, e) \/ ListenEventOnThread(m, e)
           \/ \E tr \in Triggers : TriggerEvent(tr)
           \/ \E tr \in Triggers, m \in Modules : AnswerEvent(tr, m)
    PROVE  Ends'
<1> USE DEF registry, delivery, gates, grants, runner, startup, shutdown, callers
<1>0. RunnerOK /\ StartupOK
  BY DEF TypeOK
<1>1. UNCHANGED <<main, ids, beneath, toDeactivate, swept, closed, stack, state>>
  BY DEF ScanStep, ScanVerifies, ScanPosts, Posting, PostExec, ActiveModule, DeactivateModule,
       PostTransition, HostEnters, HostLeaves, PublishReads, PublishWrites, ListenEvent,
       ListenEventOnThread, TriggerEvent, AnswerEvent, Republish
<1>2. Calm /\ Carried(stack')
  BY <1>0, <1>1, CarriedStacks DEF Calm
<1>3. ASSUME UNCHANGED queue
      PROVE  Ends'
  BY <1>1, <1>2, <1>3, EndsQueued
<1>4. CASE ScanPosts
  <2> DEFINE t == MkTask("load", Packages[scan + 1], NoTrigger)
  <2>1. Packages[scan + 1] \in Modules
    BY <1>0, <1>4, ManagerAssumption DEF ScanPosts, StartupOK
  <2>2. t \in Task /\ t.fn = "load"
    BY <2>1, MkTypes DEF MkTask, At
  <2>3. Post(t)
    BY <1>4 DEF ScanPosts
  <2> HIDE DEF t
  <2> QED
    BY <1>1, <1>2, <2>2, <2>3, EndsPosted
<1>5. ASSUME NEW tr \in Triggers, NEW m \in Modules, PostExec(tr, m)
      PROVE  Ends'
  <2> DEFINE t == MkTask("exec", m, tr)
  <2>1. t \in Task /\ t.fn = "exec"
    BY MkTypes DEF MkTask, At
  <2>2. Post(t)
    BY <1>5 DEF PostExec
  <2> HIDE DEF t
  <2> QED
    BY <1>1, <1>2, <2>1, <2>2, EndsPosted
<1>6. ASSUME NEW m \in Modules, NEW fn \in {"activate", "deactivate"}, PostTransition(fn, m)
      PROVE  Ends'
  <2> DEFINE t == MkTask(fn, m, NoTrigger)
  <2>1. t \in Task /\ t.fn = fn
    BY MkTypes DEF MkTask, At
  <2>2. Post(t) /\ main = "running"
    BY <1>6 DEF PostTransition
  <2> HIDE DEF t
  <2> QED
    BY <1>1, <1>2, <2>1, <2>2, EndsPosted
<1> QED
  BY <1>3, <1>4, <1>5, <1>6 DEF ScanStep, ScanVerifies, Posting, ActiveModule,
       DeactivateModule, HostEnters, HostLeaves, PublishReads, PublishWrites, ListenEvent,
       ListenEventOnThread, TriggerEvent, AnswerEvent

(* The steps of the shutdown itself.                                       *)
LEMMA EndsShutdown ==
    ASSUME TypeOK, Under, Gated, Ends, Wiped,
           \/ TaskShutdown \/ ShutdownTaskDone \/ ShutdownBegins \/ MainStep
           \/ \E m \in Modules : ShutdownDeactivates(m)
    PROVE  Ends'
<1> USE DEF registry, delivery, gates, grants, runner, startup, shutdown, callers
<1>0. RunnerOK /\ stack \in Seq(Frame)
  BY DEF TypeOK, RunnerOK
<1>a. FramesIn(stack)' = FramesIn(stack')
  BY DEF FramesIn
<1>1. CASE TaskShutdown
  <2> DEFINE f == MkFrame("shutdown", NoModule, NoTrigger, "host")
             all == {m \in Modules : state[m] # "none"}
  <2>1. /\ Take("shutdown") /\ stack' = Append(stack, f)
        /\ ids' = all /\ toDeactivate' = all
        /\ beneath' = {stack[i].id : i \in {j \in 1..Len(stack) : Lifecycle(stack[j])}}
        /\ UNCHANGED <<state, main, swept, closed>>
    BY <1>1 DEF TaskShutdown
  <2>2. f \in Frame /\ f.fn = "shutdown"
    BY DEF MkFrame, Frame, At
  <2> HIDE DEF f
  <2>3. /\ Asked("shutdown") /\ Lined'
        /\ ~Asked("shutdown")' /\ ~Asked("activate")'
    BY <1>0, <2>1, QueueTaken DEF Ends
  <2>4. ~Over /\ main \notin {"running", "joining"}
    BY <2>3, OverMeans DEF Ends
  <2>5. ~Over' /\ ~Quiet'
    BY <2>1, <2>4 DEF Over, Quiet
  <2>6. Still(Found \ toDeactivate)'
    BY <2>1 DEF Still, Found
  <2>7. ASSUME NEW g \in FramesIn(stack'), Rises(g)
        PROVE  g.id \notin Found'
    <3>1. g \in FramesIn(stack)
      BY <1>0, <2>1, <2>2, <2>7, PushFrames DEF Rises
    <3>2. PICK i \in 1..Len(stack) : g = stack[i]
      BY <3>1 DEF FramesIn
    <3>3. Lifecycle(stack[i])
      BY <2>7, <3>2 DEF Rises, Lifecycle
    <3> QED
      BY <2>1, <3>2, <3>3 DEF Found
  <2> QED
    BY <1>a, <2>1, <2>3, <2>4, <2>5, <2>6, <2>7 DEF Ends, Rises
<1>2. CASE ShutdownTaskDone
  <2>1. /\ OnTop("shutdown", "host") /\ toDeactivate = {} /\ stack' = Below
        /\ main' = IF main = "waiting" THEN "promised" ELSE main
        /\ UNCHANGED <<state, queue, ids, beneath, toDeactivate, swept, closed>>
    BY <1>2 DEF ShutdownTaskDone
  <2>2. stack # <<>> /\ InShutdown /\ Top.fn = "shutdown"
    BY <1>0, <2>1, PopFrames DEF OnTop, InShutdown
  <2>3. \A f \in FramesIn(stack') : f.fn # "shutdown" /\ (f.id \in Found => Counted(f))
    <3> DEFINE n == Len(stack)
    <3>1. /\ n \in Nat \ {0} /\ stack[n] = Top /\ Len(stack') = n - 1
          /\ \A i \in 1..(n - 1) : stack'[i] = stack[i]
      BY <1>0, <2>1, <2>2, Popped
    <3> HIDE DEF n
    <3>2. n \in 1..n
      BY <3>1
    <3>a. stack[n].fn = "shutdown"
      BY <2>2, <3>1
    <3>b. n = Len(stack)
      BY DEF n
    <3>3. n \in 1..Len(stack)
      BY <3>2, <3>b
    <3>4. \A j \in 1..(n - 1) : /\ stack[j].fn # "shutdown"
                                /\ stack[j].id \in Found => stack[j].fn \in {"load", "exec"}
      BY <3>a, <3>3 DEF Under
    <3> QED
      BY <3>1, <3>4 DEF FramesIn, Counted
  <2>4. ~Over /\ ~Asked("shutdown") /\ ~Asked("activate") /\ Still(Found)
    BY <2>1, <2>2, OverMeans DEF Ends, Still
  <2>5. /\ ~InShutdown' /\ Still(Found)' /\ Lined' /\ ~Asked("shutdown")' /\ ~Asked("activate")'
        /\ Found' = Found
    BY <1>a, <2>1, <2>3, <2>4 DEF InShutdown, Still, Asked, Lined, Ends, Found
  <2>6. main \notin {"running", "joining"} /\ (main # "running" => closed)
    BY <2>2 DEF Ends
  <2>7. ~Quiet'
    BY <2>1, <2>4 DEF Quiet, Over
  <2> QED
    BY <1>a, <2>1, <2>3, <2>5, <2>6, <2>7 DEF Ends, Counted
<1>3. ASSUME UNCHANGED <<state, stack, ids, beneath, toDeactivate, closed>>, Over' => Over,
             Quiet' => Quiet \/ ~Inside,
             main # "running", main' \notin {"running", "joining"}, UNCHANGED queue
      PROVE  Ends'
  <2>1. /\ Lined' = Lined /\ \A g : Asked(g)' = Asked(g)
        /\ InShutdown' = InShutdown /\ Found' = Found
        /\ Still(Found)' = Still(Found)
        /\ Still(Found \ toDeactivate)' = Still(Found \ toDeactivate)
    BY <1>3 DEF Lined, Asked, InShutdown, Still, FramesIn, Found
  <2>2. Quiet' => \A f \in FramesIn(stack)' : ~Counted(f)
    BY <1>a, <1>3 DEF Ends, Inside, Counted, FramesIn
  <2>3. FramesIn(stack)' = FramesIn(stack)
    BY <1>3 DEF FramesIn
  <2> QED
    BY <1>3, <2>1, <2>2, <2>3 DEF Ends, Rises, Counted
<1>4. CASE ShutdownBegins
  <2>1. /\ main = "running" /\ main' = "joining" /\ closed' = TRUE
        /\ UNCHANGED <<state, stack, ids, beneath, toDeactivate, queue, swept>>
    BY <1>4 DEF ShutdownBegins, MainGoes
  <2>2. ~Over' /\ ~Quiet' /\ ~InShutdown /\ ~Asked("shutdown")
    BY <2>1, OverMeans DEF Over, Quiet, Ends
  <2>3. ~InShutdown' /\ ~Asked("shutdown")' /\ Lined'
    BY <2>1, <2>2 DEF InShutdown, Asked, Lined, Ends, FramesIn
  <2> QED
    BY <2>1, <2>2, <2>3 DEF Ends
<1>5. CASE ShutdownPosts
  <2> DEFINE t == MkTask("shutdown", NoModule, NoTrigger)
  <2>1. /\ main = "joining" /\ main' = "waiting" /\ Post(t)
        /\ UNCHANGED <<state, stack, ids, beneath, toDeactivate, swept, closed>>
    BY <1>5 DEF ShutdownPosts, MainGoes
  <2>2. t \in Task
    BY DEF MkTask, Task
  <2> HIDE DEF t
  <2>3. ~Over' /\ ~Quiet' /\ ~InShutdown /\ ~Asked("shutdown")
    BY <2>1, OverMeans DEF Over, Quiet, Ends
  <2>4. ~InShutdown' /\ Lined'
    BY <1>0, <2>1, <2>2, <2>3, QueuePosted DEF InShutdown, FramesIn, Ends
  <2>5. closed
    BY <2>1 DEF Ends
  <2> QED
    BY <2>1, <2>3, <2>4, <2>5 DEF Ends
<1>6. CASE MainStep
  <2>1. CASE ShutdownPosts
    BY <1>5, <2>1
  <2>2. CASE ShutdownGivesUp
    <3>1. /\ main \in {"waiting", "quiescing"} /\ main' = "done"
          /\ UNCHANGED <<state, stack, ids, beneath, toDeactivate, closed, queue, swept>>
      BY <2>2 DEF ShutdownGivesUp, MainGoes
    <3> QED
      BY <1>3, <3>1 DEF Over, Quiet
  <2>3. CASE \/ ShutdownAwaited \/ ShutdownQuiet \/ ShutdownSweeps \/ ShutdownEnds
             \/ \E m \in Modules : ShutdownRevokes(m)
    <3>1. /\ main \in {"promised", "quiescing", "sweeping"}
          /\ main' \in {"quiescing", "sweeping", "done"}
          /\ main' = "sweeping" \/ swept' # swept => main = "sweeping" \/ ~Inside
          /\ UNCHANGED <<state, stack, ids, beneath, toDeactivate, closed, queue>>
      BY <2>3 DEF ShutdownAwaited, ShutdownQuiet, ShutdownSweeps, ShutdownEnds,
           ShutdownRevokes, MainGoes
    <3> QED
      BY <1>3, <3>1 DEF Over, Quiet
  <2> QED
    BY <1>6, <2>1, <2>2, <2>3 DEF MainStep
<1>7. ASSUME NEW m \in Modules, ShutdownDeactivates(m)
      PROVE  Ends'
  <2> DEFINE f == MkFrame("deactivate", m, NoTrigger, "drain")
  <2>1. /\ OnTop("shutdown", "host") /\ toDeactivate' = toDeactivate \ {m}
        /\ UNCHANGED <<queue, main, ids, beneath, swept, closed>>
        /\ \/ state' = state /\ stack' = stack /\ state[m] # "active"
           \/ state' = [state EXCEPT ![m] = "deactivating"] /\ stack' = Append(stack, f)
    BY <1>7 DEF ShutdownDeactivates, DeactivateNow, Republish, SetState, MayDeactivate
  <2>2. f \in Frame /\ f.fn = "deactivate"
    BY MkTypes DEF MkFrame, At
  <2> HIDE DEF f
  <2>3. Top.fn = "shutdown" /\ InShutdown
    BY <1>0, <2>1, PopFrames DEF OnTop, InShutdown
  <2>4. ~Over /\ ~Over' /\ ~Quiet' /\ ~Asked("shutdown") /\ ~Asked("activate")
    BY <2>1, <2>3, OverMeans DEF Over, Quiet, Ends
  <2>5. Still(Found \ toDeactivate) /\ Found' = Found
    BY <2>1, <2>3 DEF Ends, Found
  <2>6. m \in Found => state[m] # "activating"
    BY <2>3 DEF Gated, Ends, Rises
  <2>7. ids \in SUBSET Modules /\ state \in [Modules -> States]
    BY DEF TypeOK, ShutdownOK, RegistryOK
  <2>8. \A n \in Modules : \/ n # m /\ state'[n] = state[n]
                           \/ n = m /\ state'[n] \in {state[n], "deactivating"}
                                    /\ (n \in Found => state'[n] \notin {"activating", "active"})
    BY <2>1, <2>6, <2>7
  <2>9. Still(Found \ toDeactivate)'
    <3>1. ASSUME NEW n \in Found, n \notin toDeactivate'
          PROVE  state'[n] \notin {"activating", "active"}
      <4>1. n \in Modules
        BY <2>7 DEF Found
      <4>2. n = m \/ n \notin toDeactivate
        BY <2>1, <3>1
      <4> QED
        BY <2>5, <2>8, <3>1, <4>1, <4>2 DEF Still
    <3> QED
      BY <2>5, <3>1 DEF Still
  <2>a. \A g \in FramesIn(stack') : Rises(g) => g \in FramesIn(stack)
    BY <1>0, <2>1, <2>2, PushFrames DEF Rises
  <2>b. \A g \in FramesIn(stack)' : Rises(g) => g.id \notin Found'
    BY <1>a, <2>3, <2>5, <2>a DEF Ends
  <2>10. \A n \in ids' : state'[n] # "none"
    BY <2>1, <2>7, <2>8 DEF Ends
  <2>11. Lined' /\ ~Asked("shutdown")' /\ ~Asked("activate")'
    BY <2>1, <2>4 DEF Lined, Asked, Ends
  <2>12. main \notin {"running", "joining"} /\ closed
    BY <2>3 DEF Ends
  <2> QED
    BY <2>1, <2>4, <2>9, <2>10, <2>11, <2>12, <2>b DEF Ends, Rises
<1> QED
  BY <1>1, <1>2, <1>4, <1>6, <1>7

LEMMA EndsNext ==
    ASSUME TypeOK, Under, Gated, Ends, Wiped, Next
    PROVE  Ends'
BY EndsTasks, EndsFrames, EndsElsewhere, EndsShutdown
   DEF Next, RunnerStep, HookReturns, Environment

-----------------------------------------------------------------------------
(* What is wiped stays so: no grant, no call and no SDK call comes back.   *)
LEMMA WipedKept ==
    ASSUME TypeOK, Ends, Wiped, UNCHANGED <<main, ids, beneath, toSweep, sweeping, swept>>,
           ~closed \/ \A m \in Modules : hostIn[m] = 0 => hostIn'[m] = 0,
           \A m \in minted' : m \in minted \/ (Over => m \notin Found),
           \A m \in Modules : \/ publishing'[m] \in {publishing[m], "none"}
                              \/ publishing[m] # "none" \/ m \in minted
    PROVE  Wiped'
<1>1. Quiet => Over /\ closed
  BY OverMeans
<1>a. Quiet' = Quiet /\ Found' = Found
  BY DEF Quiet, Found
<1>2. swept \in SUBSET Modules
  BY DEF TypeOK, ShutdownOK
<1>3. Quiet => \A m \in Modules : hostIn'[m] = 0
  BY <1>1 DEF Wiped
<1>4. sweeping # NoModule =>
        main = "sweeping" /\ sweeping \in ids /\ (sweeping \in Found => sweeping \notin minted')
  BY <1>1 DEF Wiped, Quiet
<1>5. \A m \in swept \cap Found : m \notin minted' /\ publishing'[m] = "none"
  BY <1>1, <1>2 DEF Wiped, Quiet
<1> QED
  BY <1>3, <1>4, <1>5, <1>a DEF Wiped

LEMMA WipedNext ==
    ASSUME TypeOK, Ends, Wiped, Next
    PROVE  Wiped'
<1> USE DEF registry, delivery, gates, grants, runner, startup, shutdown, callers
<1>0. RunnerOK
  BY DEF TypeOK
<1>1. ASSUME UNCHANGED <<main, ids, beneath, toSweep, sweeping, swept, hostIn, publishing>>,
             minted' \subseteq minted
      PROVE  Wiped'
  BY <1>1, WipedKept
<1>2. CASE TaskActivate \/ RegisterActivates
  <2>1. UNCHANGED <<main, ids, beneath, toSweep, sweeping, swept, hostIn, publishing>>
    BY <1>2 DEF TaskActivate, RegisterActivates
  <2>2. CASE TaskActivate
    <3>1. ~Over
      BY <1>0, <2>2, QueueTaken, OverMeans DEF TaskActivate, Ends
    <3> QED
      BY <2>1, <3>1, WipedKept
  <2>3. CASE RegisterActivates
    <3>1. Over => Top.id \notin Found
      BY <1>0, <2>3, PopFrames, OverMeans DEF RegisterActivates, OnTop, Rises
    <3>2. minted' \subseteq minted \cup {Top.id}
      BY <2>3 DEF RegisterActivates, ActivateNow
    <3> QED
      BY <2>1, <3>1, <3>2, WipedKept
  <2> QED
    BY <1>2, <2>2, <2>3
<1>3. CASE TaskShutdown
  <2>1. ~Over /\ swept = {} /\ main \notin {"quiescing", "sweeping"}
    BY <1>0, <1>3, QueueTaken, OverMeans DEF TaskShutdown, Ends, Over
  <2>2. UNCHANGED <<main, swept, sweeping>>
    BY <1>3 DEF TaskShutdown
  <2> QED
    BY <2>1, <2>2 DEF Wiped, Quiet
<1>4. CASE ShutdownTaskDone
  <2>1. /\ main' = IF main = "waiting" THEN "promised" ELSE main
        /\ UNCHANGED <<ids, beneath, toSweep, sweeping, swept, hostIn, publishing, minted>>
    BY <1>4 DEF ShutdownTaskDone
  <2> QED
    BY <2>1 DEF Wiped, Quiet, Found
<1>5. CASE MainStep \/ ShutdownBegins
  <2>1. UNCHANGED <<ids, beneath, hostIn, publishing>> /\ Found' = Found
    BY <1>5 DEF MainStep, MainGoes, ShutdownBegins, ShutdownPosts, ShutdownGivesUp,
         ShutdownAwaited, ShutdownQuiet, ShutdownSweeps, ShutdownEnds, ShutdownRevokes, Found
  <2>2. CASE ShutdownBegins \/ ShutdownPosts \/ ShutdownGivesUp
    <3>1. /\ main \in {"running", "joining", "waiting", "quiescing"}
          /\ main' \in {"joining", "waiting", "done"}
          /\ UNCHANGED <<minted, toSweep, sweeping, swept>>
      BY <2>2 DEF ShutdownBegins, ShutdownPosts, ShutdownGivesUp, MainGoes
    <3> QED
      BY <2>1, <3>1 DEF Wiped, Quiet
  <2>3. CASE ShutdownAwaited
    <3>1. /\ main = "promised" /\ main' = "quiescing" /\ toSweep' = ids
          /\ UNCHANGED <<minted, sweeping, swept>>
      BY <2>3 DEF ShutdownAwaited, MainGoes
    <3> QED
      BY <2>1, <3>1 DEF Wiped, Quiet
  <2>4. CASE ShutdownQuiet
    <3>1. /\ main = "quiescing" /\ main' = "sweeping" /\ ~Inside
          /\ UNCHANGED <<minted, toSweep, sweeping, swept>>
      BY <2>4 DEF ShutdownQuiet, MainGoes
    <3>2. \A m \in Modules : hostIn[m] = 0
      BY <3>1 DEF Inside, TypeOK, GatesOK
    <3> QED
      BY <2>1, <3>1, <3>2 DEF Wiped, Quiet
  <2>5. ASSUME NEW m \in Modules, ShutdownRevokes(m)
        PROVE  Wiped'
    <3>1. /\ main = "sweeping" /\ main' = "sweeping" /\ m \in toSweep
          /\ minted' = minted \ {m} /\ sweeping' = m
          /\ UNCHANGED <<toSweep, swept>>
      BY <2>5 DEF ShutdownRevokes, MainGoes
    <3> QED
      BY <2>1, <3>1 DEF Wiped, Quiet
  <2>6. CASE ShutdownSweeps
    <3>1. /\ main = "sweeping" /\ main' = "sweeping" /\ sweeping # NoModule
          /\ swept' = IF publishing[sweeping] = "none" THEN swept \cup {sweeping} ELSE swept
          /\ toSweep' = toSweep \ {sweeping} /\ sweeping' = NoModule
          /\ UNCHANGED minted
      BY <2>6 DEF ShutdownSweeps, MainGoes
    <3> QED
      BY <2>1, <3>1 DEF Wiped, Quiet
  <2>7. CASE ShutdownEnds
    <3>1. /\ main = "sweeping" /\ main' = "done" /\ sweeping = NoModule
          /\ UNCHANGED <<minted, toSweep, sweeping, swept>>
      BY <2>7 DEF ShutdownEnds, MainGoes
    <3> QED
      BY <2>1, <3>1 DEF Wiped, Quiet
  <2> QED
    BY <1>5, <2>2, <2>3, <2>4, <2>5, <2>6, <2>7 DEF MainStep
<1>6. ASSUME NEW m \in Modules,
             \/ HostEnters(m) \/ HostLeaves(m) \/ PublishReads(m) \/ PublishWrites(m)
             \/ \E e \in Events : ListenEventOnThread(m, e)
      PROVE  Wiped'
  <2>1. UNCHANGED <<main, ids, beneath, toSweep, sweeping, swept, minted>>
    BY <1>6 DEF HostEnters, HostLeaves, PublishReads, PublishWrites, ListenEventOnThread
  <2>2. ~closed \/ \A n \in Modules : hostIn[n] = 0 => hostIn'[n] = 0
    BY <1>6 DEF HostEnters, HostLeaves, PublishReads, PublishWrites, ListenEventOnThread,
         TypeOK, GatesOK
  <2>3. \A n \in Modules : \/ publishing'[n] \in {publishing[n], "none"}
                           \/ publishing[n] # "none" \/ n \in minted
    BY <1>6 DEF HostEnters, HostLeaves, PublishReads, PublishWrites, ListenEventOnThread,
         TypeOK, CallersOK
  <2> QED
    BY <2>1, <2>2, <2>3, WipedKept
<1>7. CASE \/ TaskDeactivate \/ TaskExecRefused \/ TaskExec \/ TaskLoadRefused \/ TaskLoad
           \/ TaskRegisterRefused \/ TaskRegister \/ LoadRefused \/ LoadDone \/ RegisterDone
           \/ DeactivateDrained \/ DeactivateDone \/ \E tr \in Triggers : FailAwaiting(tr)
           \/ \E m \in Modules : ShutdownDeactivates(m) \/ ShutdownUnregisters(m)
  BY <1>1, <1>7 DEF TaskDeactivate, TaskExecRefused, TaskExec, TaskLoadRefused, TaskLoad,
       TaskRegisterRefused, TaskRegister, LoadRefused, LoadDone, RegisterDone,
       DeactivateDrained, DeactivateDone, FailAwaiting, ShutdownDeactivates,
       ShutdownUnregisters
<1>8. CASE HookReturns \/ ActivateFails \/ DeactivateTimesOut
  <2>1. minted' \subseteq minted
    BY <1>8 DEF HookReturns, ActivateReturnsOk, ActivateReturnsError, ActivateFails,
         DeactivateReturns, DeactivateTimesOut, Deactivated, UnregisterReturns, ExecReturns,
         ExecFails
  <2>2. UNCHANGED <<main, ids, beneath, toSweep, sweeping, swept, hostIn, publishing>>
    BY <1>8 DEF HookReturns, ActivateReturnsOk, ActivateReturnsError, ActivateFails,
         DeactivateReturns, DeactivateTimesOut, Deactivated, UnregisterReturns, ExecReturns,
         ExecFails
  <2> QED
    BY <1>1, <2>1, <2>2
<1>9. CASE ScanStep \/ Posting
  BY <1>1, <1>9 DEF ScanStep, ScanVerifies, ScanPosts, Posting, PostExec
<1>10. CASE Environment
  BY <1>1, <1>5, <1>6, <1>10 DEF Environment, ActiveModule, DeactivateModule, PostTransition,
       ListenEvent, TriggerEvent, AnswerEvent
<1> QED
  BY <1>2, <1>3, <1>4, <1>5, <1>7, <1>8, <1>9, <1>10 DEF Next, RunnerStep

(* At any depth of nested event loops, the handles of a module at rest     *)
(* when the shutdown task was taken are wiped only when nothing of it runs *)
(* any more and nothing can bring it back: no task that was queued when    *)
(* the process began to end, no load that was overtaken by it, no hook     *)
(* that goes on, no thread of the module or of the host.                   *)
THEOREM ManagerSweptIsSilent == Spec => []SweptIsSilent
<1>1. Init => Unwound
  <2> SUFFICES ASSUME Init PROVE Unwound
    OBVIOUS
  <2>1. stack = <<>> /\ queue = <<>> /\ FramesIn(stack) = {}
    BY DEF Init, FramesIn
  <2>2. Under /\ Gated
    BY <2>1 DEF Init, Under, Gated
  <2>3. Lined /\ ~Asked("shutdown") /\ ~InShutdown /\ ~Over
    BY <2>1 DEF Init, Lined, Asked, InShutdown, Over
  <2>a. ~Quiet
    BY DEF Init, Quiet
  <2>4. Ends
    BY <2>3, <2>a DEF Init, Ends
  <2>5. Wiped
    BY <2>a DEF Init, Wiped
  <2> QED
    BY <2>2, <2>4, <2>5 DEF Unwound
<1>2. Inv /\ Unwound /\ [Next]_vars => Unwound'
  <2> SUFFICES ASSUME Inv, Unwound, [Next]_vars
               PROVE  Unwound'
    OBVIOUS
  <2>1. CASE Next
    BY <2>1, UnderNext, GatedNext, EndsNext, WipedNext DEF Unwound, Inv
  <2>2. CASE UNCHANGED vars
    BY <2>2 DEF Unwound, Under, Gated, Ends, Wiped, FramesIn, Lined, Asked, InShutdown, Over,
         Quiet, Found, Rises, Counted, Still, vars, registry, delivery, gates, grants, runner, startup, shutdown, callers
  <2> QED
    BY <2>1, <2>2
<1>3. Inv /\ Unwound => SweptIsSilent
  <2> SUFFICES ASSUME Inv, Unwound, NEW m \in swept \ beneath
               PROVE  /\ m \notin minted
                      /\ m \in bound => m \in gateClosed
                      /\ hostIn[m] = 0
                      /\ publishing[m] = "none"
                      /\ \A i \in 1..Len(stack) : stack[i].id # m
    BY DEF SweptIsSilent
  <2>1. m \in Found /\ m \in swept /\ m \in Modules /\ Over /\ Quiet
    BY DEF Unwound, Wiped, Over, Quiet, Found, Inv, TypeOK, ShutdownOK
  <2>2. m \notin minted /\ hostIn[m] = 0 /\ publishing[m] = "none"
    BY <2>1 DEF Unwound, Wiped
  <2>3. m \in bound => m \in gateClosed
    BY <2>1 DEF Unwound, Ends, Still, Gated
  <2>4. \A i \in 1..Len(stack) : stack[i].id # m
    BY <2>1 DEF Unwound, Ends, FramesIn, Counted
  <2> QED
    BY <2>2, <2>3, <2>4
<1> QED
  BY <1>1, <1>2, <1>3, Safety, PTL DEF Spec

=============================================================================
