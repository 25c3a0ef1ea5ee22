----------------------- MODULE CommandRegistryProofs -----------------------
(***************************************************************************)
(* Proofs about CommandRegistry, for any modules, commands, calls and      *)
(* threads, any nesting of callbacks and any number of registrations.      *)
(*                                                                         *)
(* The threads' stacks carry the argument.  Below its top a stack holds    *)
(* callbacks that run and the withdrawal under way, so a thread has one    *)
(* frame at most that waits for a delivery mutex.  What it waits for left  *)
(* pending_ after everything it has the mutex of: the order in which calls *)
(* leave pending_ is the order in which their mutexes are taken.           *)
(***************************************************************************)
EXTENDS CommandRegistry, SequenceTheorems, WellFoundedInduction, TLAPS

Depths(t) == 1 .. Len(stack[t])

Delivers(f, k, where) == f.op = "deliver" /\ f.call = k /\ f.at \in where

(* Past the delivery mutex, past pending_, and where done runs.            *)
Locked == {"erase", "decide", "call", "done"}
Erased == {"decide", "call", "done"}
Running == {"call", "done"}

(* Whatever is below the top is a callback or the withdrawal.              *)
Resting ==
    \A t \in Threads : \A i \in Depths(t) :
        i # Len(stack[t]) => stack[t][i].at \in {"done", "work"}

(* There is one withdrawal at a time, the runner's.                        *)
OneRemoval ==
    /\ \A t \in Threads : \A i \in Depths(t) :
          stack[t][i].op = "remove" => t = Runner /\ removing # NoModule
    /\ \A i, j \in Depths(Runner) :
          stack[Runner][i].op = "remove" /\ stack[Runner][j].op = "remove" => i = j
    /\ removing = NoModule => made = {} /\ provided = {}

(* What is known of a call that is about, and of a frame's.                *)
Begun == \A k \in pending_ \cup finished \cup made \cup provided : Accepted(k)

Fits(f) ==
    /\ f.op # "remove" => Accepted(f.call)
    /\ f.op = "deliver" /\ f.at \in Erased => f.call \notin pending_
    /\ f.op = "deliver" /\ f.at \in Running => f.call \in finished \ cancelOk
    /\ f.op = "deliver" /\ f.at = "call" => ran[f.call] = 0
    /\ f.op = "cancel" /\ f.at = "lock" => f.call \in cancelled

Flagged == \A t \in Threads : \A i \in Depths(t) : Fits(stack[t][i])

Counted ==
    /\ \A k \in Calls : ran[k] <= 1 /\ (k \notin finished => ran[k] = 0)
    /\ cancelOk \subseteq cancelled

(* A delivery mutex is one frame's.                                        *)
Alone ==
    \A t, u \in Threads : \A i \in Depths(t), j \in Depths(u) : \A k \in Calls :
        Delivers(stack[t][i], k, Locked) /\ Delivers(stack[u][j], k, Locked) => t = u /\ i = j

(* A thread in a's done has come to see to b, or has b on its list.        *)
Follows(a, b) ==
    \/ \E t \in Threads : \E i, j \in Depths(t) :
          /\ i < j
          /\ stack[t][i].op = "deliver" /\ stack[t][i].call = a
          /\ stack[t][j].op # "remove" /\ stack[t][j].call = b
    \/ /\ b \in made \cup provided
       /\ \E i, j \in Depths(Runner) :
             /\ i < j
             /\ stack[Runner][i].op = "deliver" /\ stack[Runner][i].call = a
             /\ stack[Runner][j].op = "remove"

(* Calls can be numbered as they leave pending_, so that b is pending or   *)
(* has left after a.                                                       *)
Ranks == Nat

Later(e, a, b) == b \in pending_ \/ e[a] < e[b]

Ordered == \E e \in [Calls -> Ranks] : \E n \in Ranks :
               /\ \A k \in Calls : e[k] <= n
               /\ \A a, b \in Calls : Follows(a, b) => Later(e, a, b)

InFrame(k, where) ==
    \E t \in Threads : \E i \in Depths(t) : Delivers(stack[t][i], k, where)

(* The commands of a closed module are not registered, and what is pending *)
(* on one has not been run, is cancelled, being delivered, or still on the *)
(* list of the withdrawal.                                                 *)
Withdrawn ==
    /\ \A c \in Commands : OwnerOf[c] \in closed_ => providers_[c] = 0
    /\ \A k \in Calls : Accepted(k) \/ invoke[k] = "found" => provider[k] # 0
    /\ \A k \in pending_ :
          OwnerOf[CommandOf[k]] \in closed_ /\ CallerOf[k] # OwnerOf[CommandOf[k]] =>
             \/ invoke[k] = "accepted" \/ k \in cancelled
             \/ removing = OwnerOf[CommandOf[k]] /\ k \in provided
             \/ InFrame(k, {"lock", "erase"})

(* An accepted call that is not pending has been seen to.                  *)
Seen ==
    \A k \in Calls \ pending_ : Accepted(k) =>
        k \in finished \cup cancelled \/ InFrame(k, {"decide"})

Inv ==
    /\ TypeOK /\ Resting /\ OneRemoval /\ Begun /\ Flagged /\ Counted /\ Alone /\ Ordered
    /\ Withdrawn /\ Seen

-----------------------------------------------------------------------------
(* Stacks that grow, shrink and move on.                                   *)

(* All that is needed of it: which frames there are now, and which there   *)
(* were.                                                                   *)
Same(u, i) == i \in Depths(u) /\ i \in Depths(u)' /\ stack'[u][i] = stack[u][i]

Grows(t, f) ==
    /\ stack' \in [Threads -> Seq(Frame)]
    /\ Len(stack'[t]) = Len(stack[t]) + 1
    /\ \A u \in Threads \ {t} : Len(stack'[u]) = Len(stack[u])
    /\ \A u \in Threads : \A i \in Depths(u) : Same(u, i)
    /\ \A u \in Threads : \A i \in Depths(u)' :
          Same(u, i) \/ (u = t /\ i = Len(stack'[t]) /\ stack'[u][i] = f)

Shrinks(t) ==
    /\ stack' \in [Threads -> Seq(Frame)]
    /\ Len(stack'[t]) = Len(stack[t]) - 1
    /\ \A u \in Threads \ {t} : Len(stack'[u]) = Len(stack[u])
    /\ \A u \in Threads : \A i \in Depths(u) : Same(u, i) \/ (u = t /\ i = Len(stack[t]))
    /\ \A u \in Threads : \A i \in Depths(u)' : Same(u, i)

Moves(t, at) ==
    /\ stack' \in [Threads -> Seq(Frame)]
    /\ \A u \in Threads : Len(stack'[u]) = Len(stack[u]) /\ Depths(u)' = Depths(u)
    /\ \A u \in Threads : \A i \in Depths(u) :
          \/ Same(u, i) /\ ~(u = t /\ i = Len(stack[t]))
          \/ /\ u = t /\ i = Len(stack[t])
             /\ stack'[u][i].op = stack[u][i].op
             /\ stack'[u][i].call = stack[u][i].call
             /\ stack'[u][i].at = at

(* The frames of a thread are frames, and so is the one on top.            *)
LEMMA FrameType ==
    ASSUME TypeOK, NEW t \in Threads
    PROVE  /\ stack[t] \in Seq(Frame) /\ Len(stack[t]) \in Nat
           /\ \A i \in Depths(t) : stack[t][i] \in Frame
           /\ stack[t] # <<>> => Len(stack[t]) \in Depths(t) /\ Top(t) \in Frame
BY DEF TypeOK, Depths, Top

(* What a frame is about, and where it can be.                             *)
LEMMA FrameParts ==
    ASSUME NEW f \in Frame
    PROVE  /\ f.op \in {"deliver", "cancel", "remove"}
           /\ f.op = "deliver" => f.call \in Calls /\ f.at \in {"lock", "erase", "decide", "call", "done"}
           /\ f.op = "cancel" => f.call \in Calls /\ f.at \in {"flag", "lock"}
           /\ f.op = "remove" => f.call = NoModule /\ f.at \in {"close", "work"}
BY DEF Frame

(* Push() adds a frame, and leaves the others as they are.                 *)
LEMMA PushGrows ==
    ASSUME TypeOK, NEW t \in Threads, NEW f \in Frame, Push(t, f)
    PROVE  Grows(t, f)
<1> DEFINE s == stack[t]
<1>1. s \in Seq(Frame)
  BY FrameType
<1>2. stack'[t] = Append(s, f) /\ \A u \in Threads \ {t} : stack'[u] = stack[u]
  BY DEF Push, TypeOK
<1>3. /\ Append(s, f) \in Seq(Frame) /\ Len(s) \in Nat
      /\ Len(Append(s, f)) = Len(s) + 1
      /\ \A i \in 1..Len(s) : Append(s, f)[i] = s[i]
      /\ Append(s, f)[Len(s) + 1] = f
  <2> HIDE DEF s
  <2> QED BY <1>1
<1>4. stack' \in [Threads -> Seq(Frame)]
  <2> HIDE DEF s
  <2>1. stack' = [stack EXCEPT ![t] = Append(s, f)]
    BY DEF Push, s
  <2> QED BY <1>3, <2>1 DEF TypeOK
<1>5. \A u \in Threads : \A i \in Depths(u) : Same(u, i)
  BY <1>2, <1>3 DEF Same, Depths
<1>6. \A u \in Threads : \A i \in Depths(u)' :
          Same(u, i) \/ (u = t /\ i = Len(stack'[t]) /\ stack'[u][i] = f)
  <2>1. ASSUME NEW u \in Threads \ {t}, NEW i \in Depths(u)' PROVE Same(u, i)
    BY <1>2, <2>1 DEF Same, Depths
  <2>2. ASSUME NEW i \in Depths(t)', i # Len(stack'[t]) PROVE Same(t, i)
    <3>1. i \in 1..Len(s)
      <4> HIDE DEF s
      <4> QED BY <1>2, <1>3, <2>2 DEF Depths
    <3> QED BY <1>2, <1>3, <3>1, <2>2 DEF Same, Depths
  <2>3. stack'[t][Len(stack'[t])] = f
    BY <1>2, <1>3
  <2> QED BY <2>1, <2>2, <2>3
<1> QED BY <1>2, <1>3, <1>4, <1>5, <1>6 DEF Grows

(* Pop() takes the top away.                                               *)
LEMMA PopShrinks ==
    ASSUME TypeOK, NEW t \in Threads, stack[t] # <<>>, Pop(t)
    PROVE  Shrinks(t)
<1> DEFINE s == stack[t]
<1> DEFINE n == Len(s) - 1
<1> DEFINE b == SubSeq(s, 1, n)
<1>1. s \in Seq(Frame) /\ s # <<>>
  BY FrameType
<1>2. Len(s) \in Nat \ {0} /\ n \in Nat /\ \A i \in 1..n : s[i] \in Frame
  <2> HIDE DEF s
  <2> QED BY <1>1
<1>3. /\ b \in Seq(Frame)
      /\ Len(b) = n
      /\ \A i \in 1..n : b[i] = s[i]
  <2> HIDE DEF s
  <2>1. b \in Seq(Frame)
    BY <1>1, <1>2
  <2>2. /\ Len(b) = (IF 1 <= n THEN n - 1 + 1 ELSE 0)
        /\ \A i \in 1..(n - 1 + 1) : b[i] = s[1 + i - 1]
    BY <1>1, <1>2, SubSeqProperties
  <2> HIDE DEF n, b
  <2> QED BY <1>2, <2>1, <2>2
<1>4. stack' = [stack EXCEPT ![t] = b]
  BY DEF Pop
<1>5. stack' \in [Threads -> Seq(Frame)] /\ stack'[t] = b /\ \A u \in Threads \ {t} : stack'[u] = stack[u]
  <2> HIDE DEF b
  <2> QED BY <1>3, <1>4 DEF TypeOK
<1>6. \A u \in Threads : \A i \in Depths(u) : Same(u, i) \/ (u = t /\ i = Len(stack[t]))
  <2> HIDE DEF b
  <2> QED BY <1>2, <1>3, <1>5 DEF Same, Depths
<1>7. \A u \in Threads : \A i \in Depths(u)' : Same(u, i)
  <2> HIDE DEF b
  <2> QED BY <1>2, <1>3, <1>5 DEF Same, Depths
<1> QED
  <2> HIDE DEF b
  <2> QED BY <1>2, <1>3, <1>5, <1>6, <1>7 DEF Shrinks

(* GoTo() moves the top frame on.                                          *)
LEMMA GoToMoves ==
    ASSUME TypeOK, NEW t \in Threads, stack[t] # <<>>, NEW at, [Top(t) EXCEPT !.at = at] \in Frame,
           GoTo(t, at)
    PROVE  Moves(t, at)
<1> DEFINE s == stack[t]
<1> DEFINE f == [Top(t) EXCEPT !.at = at]
<1> DEFINE b == [s EXCEPT ![Len(s)] = f]
<1>1. s \in Seq(Frame) /\ Len(s) \in Nat \ {0} /\ Top(t) = s[Len(s)] /\ Top(t) \in Frame /\ Len(s) \in Depths(t)
  BY FrameType DEF Top, Depths
<1>2. stack' = [stack EXCEPT ![t] = b]
  BY DEF GoTo, Top
<1>3. b \in Seq(Frame) /\ Len(b) = Len(s) /\ b[Len(s)] = f /\ \A i \in 1..Len(s) : i # Len(s) => b[i] = s[i]
  <2> HIDE DEF s, f
  <2>1. f \in Frame
    BY DEF f
  <2> QED BY <1>1, <2>1
<1>4. f.op = Top(t).op /\ f.call = Top(t).call /\ f.at = at
  BY <1>1 DEF Frame
<1>5. stack' \in [Threads -> Seq(Frame)] /\ stack'[t] = b /\ \A u \in Threads \ {t} : stack'[u] = stack[u]
  <2> HIDE DEF b
  <2> QED BY <1>2, <1>3 DEF TypeOK
<1> QED
  <2> HIDE DEF b, f
  <2> QED BY <1>1, <1>3, <1>4, <1>5 DEF Moves, Same, Depths

(* The frame on top, when it is a delivery or a cancellation.              *)
LEMMA TopCall ==
    ASSUME TypeOK, NEW t \in Threads, NEW op \in {"deliver", "cancel"}, NEW at, On(t, op, at)
    PROVE  /\ Top(t).call \in Calls /\ Top(t).op = op /\ Top(t).at = at
           /\ Len(stack[t]) \in Depths(t) /\ Top(t) = stack[t][Len(stack[t])]
BY FrameType, FrameParts DEF On, Top

(* What each operation does to the stacks.                                 *)
LEMMA ThreadEffects ==
    ASSUME TypeOK, NEW t \in Threads
    PROVE  /\ DeliverLocks(t) => Moves(t, "erase")
           /\ DeliverErases(t) => Moves(t, "decide")
           /\ DeliverIgnored(t) \/ DoneReturns(t) \/ CancelClears(t) => Shrinks(t)
           /\ DeliverClaims(t) => Moves(t, "call")
           /\ DeliverCalls(t) =>
                 IF CallerOf[Top(t).call] \in shut THEN Shrinks(t) ELSE Moves(t, "done")
           /\ CancelFlags(t) => Moves(t, "lock")
<1>1. ASSUME NEW op, NEW at, On(t, op, at) PROVE stack[t] # <<>> /\ Top(t) \in Frame /\ Top(t).op = op
  BY <1>1, FrameType DEF On
<1>2. ASSUME NEW at \in {"lock", "erase", "decide", "call", "done"}, Top(t) \in Frame, Top(t).op = "deliver"
      PROVE  [Top(t) EXCEPT !.at = at] \in Frame
  BY <1>2 DEF Frame
<1>3. ASSUME Top(t) \in Frame, Top(t).op = "cancel" PROVE [Top(t) EXCEPT !.at = "lock"] \in Frame
  BY <1>3 DEF Frame
<1>4. DeliverLocks(t) => Moves(t, "erase")
  BY <1>1, <1>2, GoToMoves DEF DeliverLocks
<1>5. DeliverErases(t) => Moves(t, "decide")
  BY <1>1, <1>2, GoToMoves DEF DeliverErases
<1>6. DeliverIgnored(t) \/ DoneReturns(t) \/ CancelClears(t) => Shrinks(t)
  BY <1>1, PopShrinks DEF DeliverIgnored, DoneReturns, CancelClears
<1>7. DeliverClaims(t) => Moves(t, "call")
  BY <1>1, <1>2, GoToMoves DEF DeliverClaims
<1>8. DeliverCalls(t) => IF CallerOf[Top(t).call] \in shut THEN Shrinks(t) ELSE Moves(t, "done")
  BY <1>1, <1>2, GoToMoves, PopShrinks DEF DeliverCalls
<1>9. CancelFlags(t) => Moves(t, "lock")
  BY <1>1, <1>3, GoToMoves DEF CancelFlags
<1> QED BY <1>4, <1>5, <1>6, <1>7, <1>8, <1>9

(* Finish() and Cancel() begin with a new frame, if the call is pending.   *)
LEMMA CallEffects ==
    ASSUME TypeOK, NEW t \in Threads, NEW k \in Calls
    PROVE  /\ RunProviderGone(t, k) \/ ProviderUnloading(t, k) \/ Complete(t, k) =>
                 IF k \in pending_ THEN Grows(t, MkFrame("deliver", k, "lock"))
                                   ELSE UNCHANGED stack
           /\ CancelFinds(t, k) => Grows(t, MkFrame("cancel", k, "flag"))
<1>1. MkFrame("deliver", k, "lock") \in Frame /\ MkFrame("cancel", k, "flag") \in Frame
  BY DEF MkFrame, Frame
<1> QED BY <1>1, PushGrows DEF RunProviderGone, ProviderUnloading, Complete, Finish, CancelFinds

(* So do Cancel() and Deliver() inside RemoveAllFor().                     *)
LEMMA RemovalEffects ==
    ASSUME TypeOK
    PROVE  /\ \A m \in Modules : GateCloses(m) => Grows(Runner, MkFrame("remove", NoModule, "close"))
           /\ \A m \in Modules : RemoveAllFor(m) => Moves(Runner, "work")
           /\ \A k \in Calls : RemoveCancels(k) =>
                 IF k \in pending_ THEN Grows(Runner, MkFrame("cancel", k, "flag"))
                                   ELSE UNCHANGED stack
           /\ \A k \in Calls : RemoveDelivers(k) => Grows(Runner, MkFrame("deliver", k, "lock"))
           /\ RemoveReturns => Shrinks(Runner)
<1>1. ASSUME NEW at, On(Runner, "remove", at)
      PROVE  stack[Runner] # <<>> /\ [Top(Runner) EXCEPT !.at = "work"] \in Frame
  <2>1. stack[Runner] # <<>> /\ Top(Runner) \in Frame /\ Top(Runner).op = "remove"
    BY <1>1, FrameType, RegistryAssumption DEF On
  <2> QED BY <2>1 DEF Frame
<1>2. MkFrame("remove", NoModule, "close") \in Frame
  BY DEF MkFrame, Frame
<1>3. \A k \in Calls : MkFrame("deliver", k, "lock") \in Frame /\ MkFrame("cancel", k, "flag") \in Frame
  BY DEF MkFrame, Frame
<1>4. \A m \in Modules : GateCloses(m) => Grows(Runner, MkFrame("remove", NoModule, "close"))
  BY <1>2, PushGrows, RegistryAssumption DEF GateCloses
<1>5. \A m \in Modules : RemoveAllFor(m) => Moves(Runner, "work")
  BY <1>1, GoToMoves, RegistryAssumption DEF RemoveAllFor
<1>6. \A k \in Calls : RemoveCancels(k) =>
         IF k \in pending_ THEN Grows(Runner, MkFrame("cancel", k, "flag")) ELSE UNCHANGED stack
  BY <1>3, PushGrows, RegistryAssumption DEF RemoveCancels
<1>7. \A k \in Calls : RemoveDelivers(k) => Grows(Runner, MkFrame("deliver", k, "lock"))
  BY <1>3, PushGrows, RegistryAssumption DEF RemoveDelivers
<1>8. RemoveReturns => Shrinks(Runner)
  BY <1>1, PopShrinks, RegistryAssumption DEF RemoveReturns
<1> QED BY <1>4, <1>5, <1>6, <1>7, <1>8

-----------------------------------------------------------------------------
(* The types.                                                              *)

(* Every operation keeps the types.                                        *)
LEMMA TypesKept ==
    ASSUME TypeOK, [Next]_vars
    PROVE  TypeOK'
<1> USE RegistryAssumption DEF TypeOK, Finish, Over, ServedBy, Grows, Shrinks, Moves,
        tables, calls, flags, removal, history
<1>1. CASE UNCHANGED vars
  BY <1>1 DEF vars
<1>2. ASSUME NEW t \in Threads, DeliverLocks(t) PROVE TypeOK'
  BY <1>2, ThreadEffects DEF DeliverLocks
<1>3. ASSUME NEW t \in Threads, DeliverErases(t) PROVE TypeOK'
  BY <1>3, ThreadEffects DEF DeliverErases
<1>4. ASSUME NEW t \in Threads, DeliverIgnored(t) PROVE TypeOK'
  BY <1>4, ThreadEffects DEF DeliverIgnored
<1>5. ASSUME NEW t \in Threads, DeliverClaims(t) PROVE TypeOK'
  <2>1. On(t, "deliver", "decide")
    BY <1>5 DEF DeliverClaims
  <2>2. Top(t).call \in Calls
    BY <2>1, TopCall
  <2>3. stack' \in [Threads -> Seq(Frame)]
    BY <1>5, ThreadEffects
  <2>4. finished' \in SUBSET Calls /\ armed' \in SUBSET Calls
    BY <1>5, <2>2 DEF DeliverClaims
  <2> QED BY <1>5, <2>3, <2>4 DEF DeliverClaims
<1>6. ASSUME NEW t \in Threads, DeliverCalls(t) PROVE TypeOK'
  <2>1. On(t, "deliver", "call")
    BY <1>6 DEF DeliverCalls
  <2>2. Top(t).call \in Calls
    BY <2>1, TopCall
  <2>3. stack' \in [Threads -> Seq(Frame)]
    BY <1>6, ThreadEffects
  <2>4. ran' \in [Calls -> Nat]
    BY <1>6, <2>2 DEF DeliverCalls
  <2> QED BY <1>6, <2>3, <2>4 DEF DeliverCalls
<1>7. ASSUME NEW t \in Threads, DoneReturns(t) PROVE TypeOK'
  BY <1>7, ThreadEffects DEF DoneReturns
<1>8. ASSUME NEW t \in Threads, CancelFlags(t) PROVE TypeOK'
  <2>1. On(t, "cancel", "flag")
    BY <1>8 DEF CancelFlags
  <2>2. Top(t).call \in Calls
    BY <2>1, TopCall
  <2>3. stack' \in [Threads -> Seq(Frame)]
    BY <1>8, ThreadEffects
  <2>4. cancelled' \in SUBSET Calls
    BY <1>8, <2>2 DEF CancelFlags
  <2> QED BY <1>8, <2>3, <2>4 DEF CancelFlags
<1>9. ASSUME NEW t \in Threads, CancelClears(t) PROVE TypeOK'
  <2>1. On(t, "cancel", "lock")
    BY <1>9 DEF CancelClears
  <2>2. Top(t).call \in Calls
    BY <2>1, TopCall
  <2>3. stack' \in [Threads -> Seq(Frame)]
    BY <1>9, ThreadEffects
  <2>4. /\ armed' \in SUBSET Calls /\ pending_' \in SUBSET Calls
        /\ cancelOk' \in SUBSET Calls /\ cancelReturned' \in SUBSET Calls
    BY <1>9, <2>2 DEF CancelClears
  <2> QED BY <1>9, <2>3, <2>4 DEF CancelClears
<1>10. ASSUME NEW m \in Modules, RemoveAllFor(m) PROVE TypeOK'
  BY <1>10, RemovalEffects DEF RemoveAllFor
<1>11. ASSUME NEW k \in Calls, RemoveCancels(k) PROVE TypeOK'
  BY <1>11, RemovalEffects DEF RemoveCancels
<1>12. ASSUME NEW k \in Calls, RemoveDelivers(k) PROVE TypeOK'
  BY <1>12, RemovalEffects DEF RemoveDelivers
<1>13. ASSUME RemoveReturns PROVE TypeOK'
  BY <1>13, RemovalEffects DEF RemoveReturns
<1>14. ASSUME NEW k \in Calls, InvokeAccepts(k) PROVE TypeOK'
  BY <1>14 DEF InvokeAccepts
<1>15. ASSUME NEW k \in Calls, RunCancelled(k) PROVE TypeOK'
  BY <1>15 DEF RunCancelled
<1>16. ASSUME NEW k \in Calls, Run(k) PROVE TypeOK'
  BY <1>16 DEF Run
<1>17. ASSUME NEW k \in Calls, ProviderEntered(k) PROVE TypeOK'
  BY <1>17 DEF ProviderEntered
<1>18. ASSUME NEW t \in Threads, NEW k \in Calls, RunProviderGone(t, k) PROVE TypeOK'
  BY <1>18, CallEffects DEF RunProviderGone
<1>19. ASSUME NEW t \in Threads, NEW k \in Calls, ProviderUnloading(t, k) PROVE TypeOK'
  BY <1>19, CallEffects DEF ProviderUnloading
<1>20. ASSUME NEW c \in Commands, Register(c) PROVE TypeOK'
  BY <1>20 DEF Register
<1>21. ASSUME NEW c \in Commands, Unregister(c) PROVE TypeOK'
  BY <1>21 DEF Unregister
<1>22. ASSUME NEW k \in Calls, InvokeChecks(k) PROVE TypeOK'
  BY <1>22 DEF InvokeChecks
<1>23. ASSUME NEW k \in Calls, InvokeRefused(k) PROVE TypeOK'
  BY <1>23 DEF InvokeRefused
<1>24. ASSUME NEW k \in Calls, InvokeLooksUp(k) PROVE TypeOK'
  BY <1>24 DEF InvokeLooksUp
<1>25. ASSUME NEW t \in Threads, NEW k \in Calls, Complete(t, k) PROVE TypeOK'
  BY <1>25, CallEffects DEF Complete
<1>26. ASSUME NEW t \in Threads, NEW k \in Calls, CancelUnknown(t, k) PROVE TypeOK'
  BY <1>26 DEF CancelUnknown
<1>27. ASSUME NEW t \in Threads, NEW k \in Calls, CancelFinds(t, k) PROVE TypeOK'
  BY <1>27, CallEffects DEF CancelFinds
<1>28. ASSUME NEW m \in Modules, GateCloses(m) PROVE TypeOK'
  BY <1>28, RemovalEffects DEF GateCloses
<1>29. ASSUME NEW m \in Modules, Reopen(m) PROVE TypeOK'
  BY <1>29 DEF Reopen
<1>30. ASSUME NEW m \in Modules, GateOpens(m) PROVE TypeOK'
  BY <1>30 DEF GateOpens
<1> QED
  BY <1>1, <1>2, <1>3, <1>4, <1>5, <1>6, <1>7, <1>8, <1>9, <1>10, <1>11, <1>12, <1>13, <1>14, <1>15,
     <1>16, <1>17, <1>18, <1>19, <1>20, <1>21, <1>22, <1>23, <1>24, <1>25, <1>26, <1>27, <1>28, <1>29, <1>30
  DEF Next, ThreadStep, RemoveStep, InvokeStep, Environment

(* The parts of every frame.                                               *)
LEMMA Frames ==
    ASSUME TypeOK, NEW t \in Threads
    PROVE  /\ Len(stack[t]) \in Nat
           /\ stack[t] # <<>> => Len(stack[t]) > 0
           /\ \A i \in Depths(t) :
                 /\ stack[t][i].op \in {"deliver", "cancel", "remove"}
                 /\ stack[t][i].op = "deliver" =>
                       stack[t][i].call \in Calls /\ stack[t][i].at \in {"lock", "erase", "decide", "call", "done"}
                 /\ stack[t][i].op = "cancel" =>
                       stack[t][i].call \in Calls /\ stack[t][i].at \in {"flag", "lock"}
                 /\ stack[t][i].op = "remove" =>
                       stack[t][i].call = NoModule /\ stack[t][i].at \in {"close", "work"}
BY FrameType, FrameParts DEF Depths

-----------------------------------------------------------------------------
(* The shape of the stacks.                                                *)

(* A thread runs something new only from a callback or the withdrawal.     *)
LEMMA RestingKept ==
    ASSUME TypeOK, Resting, NEW t \in Threads
    PROVE  /\ UNCHANGED stack => Resting'
           /\ \A f : Grows(t, f) /\ (stack[t] # <<>> => Top(t).at \in {"done", "work"}) => Resting'
           /\ Shrinks(t) => Resting'
           /\ \A at : Moves(t, at) => Resting'
<1>1. UNCHANGED stack => Resting'
  BY DEF Resting, Depths
<1>2. ASSUME NEW f, Grows(t, f), stack[t] # <<>> => Top(t).at \in {"done", "work"}
      PROVE  Resting'
  <2> SUFFICES ASSUME NEW u \in Threads, NEW i \in Depths(u)', i # Len(stack'[u])
               PROVE  stack'[u][i].at \in {"done", "work"}
    BY DEF Resting
  <2>1. Same(u, i) /\ Len(stack[u]) \in Nat
    BY <1>2, FrameType DEF Grows
  <2>2. CASE u = t /\ i = Len(stack[t])
    <3>1. stack[t] # <<>>
      BY <2>1, <2>2 DEF Same, Depths
    <3> QED BY <1>2, <2>1, <2>2, <3>1 DEF Same, Top
  <2>3. CASE u = t /\ i # Len(stack[t])
    BY <2>1, <2>3 DEF Same, Resting
  <2>4. CASE u # t
    BY <1>2, <2>1, <2>4 DEF Same, Resting, Grows
  <2> QED BY <2>2, <2>3, <2>4
<1>3. ASSUME Shrinks(t) PROVE Resting'
  <2> SUFFICES ASSUME NEW u \in Threads, NEW i \in Depths(u)', i # Len(stack'[u])
               PROVE  stack'[u][i].at \in {"done", "work"}
    BY DEF Resting
  <2>1. Same(u, i) /\ Len(stack[u]) \in Nat
    BY <1>3, FrameType DEF Shrinks
  <2>2. i # Len(stack[u])
    BY <1>3, <2>1 DEF Same, Shrinks, Depths
  <2> QED BY <2>1, <2>2 DEF Same, Resting
<1>4. ASSUME NEW at, Moves(t, at) PROVE Resting'
  BY <1>4 DEF Moves, Resting, Same
<1> QED BY <1>1, <1>2, <1>3, <1>4

(* The frames there are, and what they are about.                          *)
LEMMA RemovalKept ==
    ASSUME TypeOK, OneRemoval, NEW t \in Threads
    PROVE  /\ UNCHANGED stack /\ UNCHANGED <<removing, made, provided>> => OneRemoval'
           /\ \A f : Grows(t, f) /\ f.op # "remove" /\ UNCHANGED <<removing, made, provided>>
                 => OneRemoval'
           /\ Shrinks(t) /\ UNCHANGED <<removing, made, provided>> => OneRemoval'
           /\ \A at : Moves(t, at) /\ UNCHANGED <<removing, made, provided>> => OneRemoval'
<1> USE RegistryAssumption
<1>1. UNCHANGED stack /\ UNCHANGED <<removing, made, provided>> => OneRemoval'
  BY DEF OneRemoval, Depths
<1>2. ASSUME NEW f, Grows(t, f), f.op # "remove", UNCHANGED <<removing, made, provided>>
      PROVE  OneRemoval'
  BY <1>2 DEF OneRemoval, Grows, Same
<1>3. ASSUME Shrinks(t), UNCHANGED <<removing, made, provided>>
      PROVE  OneRemoval'
  BY <1>3 DEF OneRemoval, Shrinks, Same
<1>4. ASSUME NEW at, Moves(t, at), UNCHANGED <<removing, made, provided>>
      PROVE  OneRemoval'
  <2>1. \A u \in Threads : /\ Depths(u)' = Depths(u)
                           /\ \A i \in Depths(u) : stack'[u][i].op = stack[u][i].op
    BY <1>4 DEF Moves, Same
  <2> QED BY <1>4, <2>1 DEF OneRemoval
<1> QED BY <1>1, <1>2, <1>3, <1>4

-----------------------------------------------------------------------------
(* Calls go forward: what Invoke() accepted stays accepted, flags stay set,*)
(* and only what it accepts becomes pending.                               *)
Forward ==
    /\ \A k \in Calls : Accepted(k) => Accepted(k)'
    /\ finished \subseteq finished' /\ cancelled \subseteq cancelled'
    /\ \A k \in pending_' \ pending_ : ~Accepted(k) /\ Accepted(k)'
    /\ \A k \in Calls : Accepted(k)' => Accepted(k) \/ k \in pending_'

LEMMA GoesForward ==
    ASSUME TypeOK, [Next]_vars
    PROVE  Forward
<1> USE DEF TypeOK, Forward, Accepted, tables, calls, flags, removal, history
<1>1. CASE UNCHANGED vars
  BY <1>1 DEF vars
<1>2. ASSUME NEW t \in Threads, DeliverLocks(t) PROVE Forward
  BY <1>2 DEF DeliverLocks
<1>3. ASSUME NEW t \in Threads, DeliverErases(t) PROVE Forward
  BY <1>3 DEF DeliverErases
<1>4. ASSUME NEW t \in Threads, DeliverIgnored(t) PROVE Forward
  BY <1>4 DEF DeliverIgnored
<1>5. ASSUME NEW t \in Threads, DeliverClaims(t) PROVE Forward
  BY <1>5 DEF DeliverClaims
<1>6. ASSUME NEW t \in Threads, DeliverCalls(t) PROVE Forward
  BY <1>6 DEF DeliverCalls
<1>7. ASSUME NEW t \in Threads, DoneReturns(t) PROVE Forward
  BY <1>7 DEF DoneReturns
<1>8. ASSUME NEW t \in Threads, CancelFlags(t) PROVE Forward
  BY <1>8 DEF CancelFlags
<1>9. ASSUME NEW t \in Threads, CancelClears(t) PROVE Forward
  BY <1>9 DEF CancelClears
<1>10. ASSUME NEW m \in Modules, RemoveAllFor(m) PROVE Forward
  BY <1>10 DEF RemoveAllFor
<1>11. ASSUME NEW k \in Calls, RemoveCancels(k) PROVE Forward
  BY <1>11 DEF RemoveCancels
<1>12. ASSUME NEW k \in Calls, RemoveDelivers(k) PROVE Forward
  BY <1>12 DEF RemoveDelivers
<1>13. ASSUME RemoveReturns PROVE Forward
  BY <1>13 DEF RemoveReturns
<1>14. ASSUME NEW k \in Calls, InvokeAccepts(k) PROVE Forward
  BY <1>14 DEF InvokeAccepts
<1>15. ASSUME NEW k \in Calls, RunCancelled(k) PROVE Forward
  BY <1>15 DEF RunCancelled
<1>16. ASSUME NEW k \in Calls, Run(k) PROVE Forward
  BY <1>16 DEF Run
<1>17. ASSUME NEW k \in Calls, ProviderEntered(k) PROVE Forward
  BY <1>17 DEF ProviderEntered
<1>18. ASSUME NEW t \in Threads, NEW k \in Calls, RunProviderGone(t, k) PROVE Forward
  BY <1>18 DEF RunProviderGone
<1>19. ASSUME NEW t \in Threads, NEW k \in Calls, ProviderUnloading(t, k) PROVE Forward
  BY <1>19 DEF ProviderUnloading
<1>20. ASSUME NEW c \in Commands, Register(c) PROVE Forward
  BY <1>20 DEF Register
<1>21. ASSUME NEW c \in Commands, Unregister(c) PROVE Forward
  BY <1>21 DEF Unregister
<1>22. ASSUME NEW k \in Calls, InvokeChecks(k) PROVE Forward
  BY <1>22 DEF InvokeChecks
<1>23. ASSUME NEW k \in Calls, InvokeRefused(k) PROVE Forward
  BY <1>23 DEF InvokeRefused
<1>24. ASSUME NEW k \in Calls, InvokeLooksUp(k) PROVE Forward
  BY <1>24 DEF InvokeLooksUp
<1>25. ASSUME NEW t \in Threads, NEW k \in Calls, Complete(t, k) PROVE Forward
  BY <1>25 DEF Complete
<1>26. ASSUME NEW t \in Threads, NEW k \in Calls, CancelUnknown(t, k) PROVE Forward
  BY <1>26 DEF CancelUnknown
<1>27. ASSUME NEW t \in Threads, NEW k \in Calls, CancelFinds(t, k) PROVE Forward
  BY <1>27 DEF CancelFinds
<1>28. ASSUME NEW m \in Modules, GateCloses(m) PROVE Forward
  BY <1>28 DEF GateCloses
<1>29. ASSUME NEW m \in Modules, Reopen(m) PROVE Forward
  BY <1>29 DEF Reopen
<1>30. ASSUME NEW m \in Modules, GateOpens(m) PROVE Forward
  BY <1>30 DEF GateOpens
<1> QED
  BY <1>1, <1>2, <1>3, <1>4, <1>5, <1>6, <1>7, <1>8, <1>9, <1>10, <1>11, <1>12, <1>13, <1>14, <1>15,
     <1>16, <1>17, <1>18, <1>19, <1>20, <1>21, <1>22, <1>23, <1>24, <1>25, <1>26, <1>27, <1>28, <1>29, <1>30
  DEF Next, ThreadStep, RemoveStep, InvokeStep, Environment

(* The frame on top is known about as the others are.                      *)
LEMMA TopFits ==
    ASSUME TypeOK, Flagged, NEW t \in Threads, NEW op \in {"deliver", "cancel"}, NEW at, On(t, op, at)
    PROVE  Fits(Top(t)) /\ Accepted(Top(t).call)
BY TopCall DEF Flagged, Fits

(* Frames that stay fit.                                                   *)
LEMMA StillFits ==
    ASSUME TypeOK, Forward, ran' = ran, cancelOk' = cancelOk,
           NEW f \in Frame, Fits(f)
    PROVE  Fits(f)'
<1>1. f.op # "remove" => f.call \in Calls
  BY FrameParts
<1> QED BY <1>1, FrameParts DEF Fits, Forward, Erased, Running

(* What is on a list, or finished, was accepted.                           *)
LEMMA BegunKept ==
    ASSUME TypeOK, Begun, Flagged, [Next]_vars
    PROVE  Begun'
<1> USE DEF TypeOK, Begun, Accepted, ServedBy, tables, calls, flags, removal, history
<1>1. CASE UNCHANGED vars
  BY <1>1 DEF vars
<1>2. ASSUME NEW t \in Threads, DeliverLocks(t) PROVE Begun'
  BY <1>2 DEF DeliverLocks
<1>3. ASSUME NEW t \in Threads, DeliverErases(t) PROVE Begun'
  BY <1>3 DEF DeliverErases
<1>4. ASSUME NEW t \in Threads, DeliverIgnored(t) PROVE Begun'
  BY <1>4 DEF DeliverIgnored
<1>5. ASSUME NEW t \in Threads, DeliverClaims(t) PROVE Begun'
  <2>1. Accepted(Top(t).call)
    BY <1>5, TopFits DEF DeliverClaims
  <2> QED BY <1>5, <2>1 DEF DeliverClaims
<1>6. ASSUME NEW t \in Threads, DeliverCalls(t) PROVE Begun'
  BY <1>6 DEF DeliverCalls
<1>7. ASSUME NEW t \in Threads, DoneReturns(t) PROVE Begun'
  BY <1>7 DEF DoneReturns
<1>8. ASSUME NEW t \in Threads, CancelFlags(t) PROVE Begun'
  BY <1>8 DEF CancelFlags
<1>9. ASSUME NEW t \in Threads, CancelClears(t) PROVE Begun'
  BY <1>9 DEF CancelClears
<1>10. ASSUME NEW m \in Modules, RemoveAllFor(m) PROVE Begun'
  BY <1>10 DEF RemoveAllFor
<1>11. ASSUME NEW k \in Calls, RemoveCancels(k) PROVE Begun'
  BY <1>11 DEF RemoveCancels
<1>12. ASSUME NEW k \in Calls, RemoveDelivers(k) PROVE Begun'
  BY <1>12 DEF RemoveDelivers
<1>13. ASSUME RemoveReturns PROVE Begun'
  BY <1>13 DEF RemoveReturns
<1>14. ASSUME NEW k \in Calls, InvokeAccepts(k) PROVE Begun'
  BY <1>14 DEF InvokeAccepts
<1>15. ASSUME NEW k \in Calls, RunCancelled(k) PROVE Begun'
  BY <1>15 DEF RunCancelled
<1>16. ASSUME NEW k \in Calls, Run(k) PROVE Begun'
  BY <1>16 DEF Run
<1>17. ASSUME NEW k \in Calls, ProviderEntered(k) PROVE Begun'
  BY <1>17 DEF ProviderEntered
<1>18. ASSUME NEW t \in Threads, NEW k \in Calls, RunProviderGone(t, k) PROVE Begun'
  BY <1>18 DEF RunProviderGone
<1>19. ASSUME NEW t \in Threads, NEW k \in Calls, ProviderUnloading(t, k) PROVE Begun'
  BY <1>19 DEF ProviderUnloading
<1>20. ASSUME NEW c \in Commands, Register(c) PROVE Begun'
  BY <1>20 DEF Register
<1>21. ASSUME NEW c \in Commands, Unregister(c) PROVE Begun'
  BY <1>21 DEF Unregister
<1>22. ASSUME NEW k \in Calls, InvokeChecks(k) PROVE Begun'
  BY <1>22 DEF InvokeChecks
<1>23. ASSUME NEW k \in Calls, InvokeRefused(k) PROVE Begun'
  BY <1>23 DEF InvokeRefused
<1>24. ASSUME NEW k \in Calls, InvokeLooksUp(k) PROVE Begun'
  BY <1>24 DEF InvokeLooksUp
<1>25. ASSUME NEW t \in Threads, NEW k \in Calls, Complete(t, k) PROVE Begun'
  BY <1>25 DEF Complete
<1>26. ASSUME NEW t \in Threads, NEW k \in Calls, CancelUnknown(t, k) PROVE Begun'
  BY <1>26 DEF CancelUnknown
<1>27. ASSUME NEW t \in Threads, NEW k \in Calls, CancelFinds(t, k) PROVE Begun'
  BY <1>27 DEF CancelFinds
<1>28. ASSUME NEW m \in Modules, GateCloses(m) PROVE Begun'
  BY <1>28 DEF GateCloses
<1>29. ASSUME NEW m \in Modules, Reopen(m) PROVE Begun'
  BY <1>29 DEF Reopen
<1>30. ASSUME NEW m \in Modules, GateOpens(m) PROVE Begun'
  BY <1>30 DEF GateOpens
<1> QED
  BY <1>1, <1>2, <1>3, <1>4, <1>5, <1>6, <1>7, <1>8, <1>9, <1>10, <1>11, <1>12, <1>13, <1>14, <1>15,
     <1>16, <1>17, <1>18, <1>19, <1>20, <1>21, <1>22, <1>23, <1>24, <1>25, <1>26, <1>27, <1>28, <1>29, <1>30
  DEF Next, ThreadStep, RemoveStep, InvokeStep, Environment

(* done is counted by the one frame that claimed it.                       *)
LEMMA CountedKept ==
    ASSUME TypeOK, Counted, Flagged, [Next]_vars
    PROVE  Counted'
<1> USE DEF TypeOK, Counted, tables, calls, flags, removal, history
<1>1. CASE UNCHANGED vars
  BY <1>1 DEF vars
<1>2. ASSUME NEW t \in Threads, DeliverLocks(t) PROVE Counted'
  BY <1>2 DEF DeliverLocks
<1>3. ASSUME NEW t \in Threads, DeliverErases(t) PROVE Counted'
  BY <1>3 DEF DeliverErases
<1>4. ASSUME NEW t \in Threads, DeliverIgnored(t) PROVE Counted'
  BY <1>4 DEF DeliverIgnored
<1>5. ASSUME NEW t \in Threads, DeliverClaims(t) PROVE Counted'
  <2>1. On(t, "deliver", "decide")
    BY <1>5 DEF DeliverClaims
  <2>2. /\ Top(t).call \in Calls /\ Top(t).op = "deliver" /\ Top(t).at = "decide"
        /\ Len(stack[t]) \in Depths(t) /\ Top(t) = stack[t][Len(stack[t])]
        /\ Fits(Top(t))
    BY <2>1, TopCall, TopFits
  <2> QED BY <1>5, <2>2 DEF DeliverClaims
<1>6. ASSUME NEW t \in Threads, DeliverCalls(t) PROVE Counted'
  <2>1. On(t, "deliver", "call")
    BY <1>6 DEF DeliverCalls
  <2>2. /\ Top(t).call \in Calls /\ Top(t).op = "deliver" /\ Top(t).at = "call"
        /\ Len(stack[t]) \in Depths(t) /\ Top(t) = stack[t][Len(stack[t])]
        /\ Fits(Top(t))
    BY <2>1, TopCall, TopFits
  <2> QED BY <1>6, <2>2 DEF DeliverCalls, Fits, Running
<1>7. ASSUME NEW t \in Threads, DoneReturns(t) PROVE Counted'
  BY <1>7 DEF DoneReturns
<1>8. ASSUME NEW t \in Threads, CancelFlags(t) PROVE Counted'
  BY <1>8 DEF CancelFlags
<1>9. ASSUME NEW t \in Threads, CancelClears(t) PROVE Counted'
  <2>1. On(t, "cancel", "lock")
    BY <1>9 DEF CancelClears
  <2>2. /\ Top(t).call \in Calls /\ Top(t).op = "cancel" /\ Top(t).at = "lock"
        /\ Len(stack[t]) \in Depths(t) /\ Top(t) = stack[t][Len(stack[t])]
        /\ Fits(Top(t))
    BY <2>1, TopCall, TopFits
  <2> QED BY <1>9, <2>2 DEF CancelClears, Fits
<1>10. ASSUME NEW m \in Modules, RemoveAllFor(m) PROVE Counted'
  BY <1>10 DEF RemoveAllFor
<1>11. ASSUME NEW k \in Calls, RemoveCancels(k) PROVE Counted'
  BY <1>11 DEF RemoveCancels
<1>12. ASSUME NEW k \in Calls, RemoveDelivers(k) PROVE Counted'
  BY <1>12 DEF RemoveDelivers
<1>13. ASSUME RemoveReturns PROVE Counted'
  BY <1>13 DEF RemoveReturns
<1>14. ASSUME NEW k \in Calls, InvokeAccepts(k) PROVE Counted'
  BY <1>14 DEF InvokeAccepts
<1>15. ASSUME NEW k \in Calls, RunCancelled(k) PROVE Counted'
  BY <1>15 DEF RunCancelled
<1>16. ASSUME NEW k \in Calls, Run(k) PROVE Counted'
  BY <1>16 DEF Run
<1>17. ASSUME NEW k \in Calls, ProviderEntered(k) PROVE Counted'
  BY <1>17 DEF ProviderEntered
<1>18. ASSUME NEW t \in Threads, NEW k \in Calls, RunProviderGone(t, k) PROVE Counted'
  BY <1>18 DEF RunProviderGone
<1>19. ASSUME NEW t \in Threads, NEW k \in Calls, ProviderUnloading(t, k) PROVE Counted'
  BY <1>19 DEF ProviderUnloading
<1>20. ASSUME NEW c \in Commands, Register(c) PROVE Counted'
  BY <1>20 DEF Register
<1>21. ASSUME NEW c \in Commands, Unregister(c) PROVE Counted'
  BY <1>21 DEF Unregister
<1>22. ASSUME NEW k \in Calls, InvokeChecks(k) PROVE Counted'
  BY <1>22 DEF InvokeChecks
<1>23. ASSUME NEW k \in Calls, InvokeRefused(k) PROVE Counted'
  BY <1>23 DEF InvokeRefused
<1>24. ASSUME NEW k \in Calls, InvokeLooksUp(k) PROVE Counted'
  BY <1>24 DEF InvokeLooksUp
<1>25. ASSUME NEW t \in Threads, NEW k \in Calls, Complete(t, k) PROVE Counted'
  BY <1>25 DEF Complete
<1>26. ASSUME NEW t \in Threads, NEW k \in Calls, CancelUnknown(t, k) PROVE Counted'
  BY <1>26 DEF CancelUnknown
<1>27. ASSUME NEW t \in Threads, NEW k \in Calls, CancelFinds(t, k) PROVE Counted'
  BY <1>27 DEF CancelFinds
<1>28. ASSUME NEW m \in Modules, GateCloses(m) PROVE Counted'
  BY <1>28 DEF GateCloses
<1>29. ASSUME NEW m \in Modules, Reopen(m) PROVE Counted'
  BY <1>29 DEF Reopen
<1>30. ASSUME NEW m \in Modules, GateOpens(m) PROVE Counted'
  BY <1>30 DEF GateOpens
<1> QED
  BY <1>1, <1>2, <1>3, <1>4, <1>5, <1>6, <1>7, <1>8, <1>9, <1>10, <1>11, <1>12, <1>13, <1>14, <1>15,
     <1>16, <1>17, <1>18, <1>19, <1>20, <1>21, <1>22, <1>23, <1>24, <1>25, <1>26, <1>27, <1>28, <1>29, <1>30
  DEF Next, ThreadStep, RemoveStep, InvokeStep, Environment

-----------------------------------------------------------------------------
(* Who has a delivery mutex.                                               *)

(* FramesOf(), in terms of threads and depths.                             *)
LEMMA FramesAre ==
    ASSUME TypeOK, NEW k
    PROVE  /\ \A f \in FramesOf(k) : /\ f[1] \in Threads /\ f[2] \in Depths(f[1])
                                     /\ stack[f[1]][f[2]].op = "deliver"
                                     /\ stack[f[1]][f[2]].call = k
           /\ \A t \in Threads : \A i \in Depths(t) :
                 stack[t][i].op = "deliver" /\ stack[t][i].call = k
                    => \E f \in FramesOf(k) : f[1] = t /\ f[2] = i
<1>1. \A t \in Threads : DOMAIN stack[t] = Depths(t)
  BY FrameType DEF Depths
<1>2. ASSUME NEW f \in FramesOf(k)
      PROVE  /\ f[1] \in Threads /\ f[2] \in Depths(f[1])
             /\ stack[f[1]][f[2]].op = "deliver"
             /\ stack[f[1]][f[2]].call = k
  <2>1. PICK t \in Threads : f \in {t} \X DOMAIN stack[t]
    BY <1>2 DEF FramesOf
  <2> QED BY <1>1, <1>2, <2>1 DEF FramesOf
<1>3. ASSUME NEW t \in Threads, NEW i \in Depths(t),
             stack[t][i].op = "deliver", stack[t][i].call = k
      PROVE  \E f \in FramesOf(k) : f[1] = t /\ f[2] = i
  <2>1. <<t, i>> \in {t} \X DOMAIN stack[t]
    BY <1>1, <1>3
  <2>2. <<t, i>> \in UNION {{u} \X DOMAIN stack[u] : u \in Threads}
    BY <2>1, Zenon
  <2>3. <<t, i>> \in FramesOf(k)
    BY <1>3, <2>2 DEF FramesOf
  <2> QED BY <2>3
<1> QED BY <1>2, <1>3

(* LockedOut(), in the same terms.                                         *)
LEMMA LockedOutBy ==
    ASSUME TypeOK, NEW t \in Threads, NEW k
    PROVE  LockedOut(t, k) <=>
              \E u \in Threads \ {t} : \E i \in Depths(u) : Delivers(stack[u][i], k, Locked)
<1>1. ASSUME LockedOut(t, k)
      PROVE  \E u \in Threads \ {t} : \E i \in Depths(u) : Delivers(stack[u][i], k, Locked)
  <2>1. PICK f \in FramesOf(k) : f[1] # t /\ stack[f[1]][f[2]].at # "lock"
    BY <1>1 DEF LockedOut
  <2>2. /\ f[1] \in Threads /\ f[2] \in Depths(f[1])
        /\ stack[f[1]][f[2]].op = "deliver" /\ stack[f[1]][f[2]].call = k
    BY FramesAre
  <2>3. stack[f[1]][f[2]].at \in Locked
    BY <2>1, <2>2, Frames DEF Locked
  <2> QED BY <2>1, <2>2, <2>3 DEF Delivers
<1>2. ASSUME NEW u \in Threads \ {t}, NEW i \in Depths(u), Delivers(stack[u][i], k, Locked)
      PROVE  LockedOut(t, k)
  BY <1>2, FramesAre DEF LockedOut, Delivers, Locked
<1> QED BY <1>1, <1>2

(* A thread does not come back to a call whose done it is in.              *)
LEMMA Distinct ==
    ASSUME TypeOK, Resting, Flagged, Ordered, NEW t \in Threads,
           NEW i \in Depths(t), NEW j \in Depths(t), i < j,
           stack[t][i].op = "deliver", stack[t][j].op # "remove"
    PROVE  stack[t][i].call # stack[t][j].call
<1>1. stack[t][i].at = "done" /\ stack[t][i].call \in Calls
  BY Frames DEF Resting, Depths
<1>2. stack[t][i].call \notin pending_
  BY <1>1 DEF Flagged, Fits, Erased
<1>3. PICK e \in [Calls -> Ranks] : \A a, b \in Calls : Follows(a, b) => Later(e, a, b)
  BY DEF Ordered
<1>4. stack[t][j].call \in Calls /\ Follows(stack[t][i].call, stack[t][j].call)
  BY Frames DEF Follows
<1>5. e[stack[t][i].call] \in Nat
  BY <1>1 DEF Ranks
<1> QED BY <1>1, <1>2, <1>3, <1>4, <1>5 DEF Later

-----------------------------------------------------------------------------
(* What the frames know.                                                   *)

(* Whatever happens to the stacks, the frames that stay are known about.   *)
LEMMA FitsShapes ==
    ASSUME TypeOK, Flagged, Forward, ran' = ran, cancelOk' = cancelOk, NEW t \in Threads
    PROVE  /\ UNCHANGED stack => Flagged'
           /\ \A f : Grows(t, f) /\ Fits(f)' => Flagged'
           /\ Shrinks(t) => Flagged'
           /\ \A at : Moves(t, at) /\ stack[t] # <<>>
                 /\ (\A f : f.op = Top(t).op /\ f.call = Top(t).call /\ f.at = at => Fits(f)')
                    => Flagged'
<1>1. ASSUME NEW u \in Threads, NEW i \in Depths(u)
      PROVE  Fits(stack[u][i]) /\ \A f : f = stack[u][i] => Fits(f)'
  <2>1. stack[u][i] \in Frame /\ Fits(stack[u][i])
    BY FrameType DEF Flagged
  <2> QED BY <2>1, StillFits
<1>2. UNCHANGED stack => Flagged'
  <2> SUFFICES ASSUME UNCHANGED stack, NEW u \in Threads, NEW i \in Depths(u)'
               PROVE  Fits(stack[u][i])'
    BY DEF Flagged
  <2>1. i \in Depths(u) /\ stack'[u][i] = stack[u][i]
    BY DEF Depths
  <2> QED BY <1>1, <2>1 DEF Fits, Accepted
<1>3. ASSUME NEW f, Grows(t, f), Fits(f)' PROVE Flagged'
  <2> SUFFICES ASSUME NEW u \in Threads, NEW i \in Depths(u)' PROVE Fits(stack[u][i])'
    BY DEF Flagged
  <2>1. CASE Same(u, i)
    BY <1>1, <2>1 DEF Same, Fits, Accepted
  <2>2. CASE stack'[u][i] = f
    BY <1>3, <2>2 DEF Fits, Accepted
  <2> QED BY <1>3, <2>1, <2>2 DEF Grows
<1>4. ASSUME Shrinks(t) PROVE Flagged'
  <2> SUFFICES ASSUME NEW u \in Threads, NEW i \in Depths(u)' PROVE Fits(stack[u][i])'
    BY DEF Flagged
  <2>1. Same(u, i)
    BY <1>4 DEF Shrinks
  <2> QED BY <1>1, <2>1 DEF Same, Fits, Accepted
<1>5. ASSUME NEW at, Moves(t, at),
             \A f : f.op = Top(t).op /\ f.call = Top(t).call /\ f.at = at => Fits(f)'
      PROVE  Flagged'
  <2> SUFFICES ASSUME NEW u \in Threads, NEW i \in Depths(u)' PROVE Fits(stack[u][i])'
    BY DEF Flagged
  <2>1. CASE Same(u, i)
    BY <1>1, <2>1 DEF Same, Fits, Accepted
  <2>2. CASE ~Same(u, i)
    <3>1. /\ stack'[u][i].op = Top(t).op
          /\ stack'[u][i].call = Top(t).call
          /\ stack'[u][i].at = at
      BY <1>5, <2>2 DEF Moves, Top
    <3> QED BY <1>5, <3>1 DEF Fits, Accepted
  <2> QED BY <2>1, <2>2
<1> QED BY <1>2, <1>3, <1>4, <1>5

(* By operation.  When done is called, no other frame is about to call it; *)
(* when Cancel() returns, no frame is past the mutex.                      *)
LEMMA FlaggedKept ==
    ASSUME TypeOK, Resting, Begun, Flagged, Counted, Alone, Ordered, [Next]_vars
    PROVE  Flagged'
<1>f. Forward
  BY GoesForward
<1>q. UNCHANGED stack /\ ran' = ran /\ cancelOk' = cancelOk => Flagged'
  BY <1>f, FitsShapes, RegistryAssumption
<1>1. CASE UNCHANGED vars
  BY <1>1, <1>q DEF vars, history
<1>2. ASSUME NEW t \in Threads, DeliverLocks(t) PROVE Flagged'
  <2>1. ran' = ran /\ cancelOk' = cancelOk /\ On(t, "deliver", "lock")
    BY <1>2 DEF DeliverLocks, history
  <2>2. /\ Top(t).call \in Calls /\ Top(t).op = "deliver" /\ Fits(Top(t)) /\ stack[t] # <<>>
    BY <2>1, TopCall, TopFits DEF On
  <2>3. ASSUME NEW f, f.op = Top(t).op, f.call = Top(t).call, f.at = "erase"
        PROVE  Fits(f)'
    BY <1>2, <1>f, <2>2, <2>3 DEF DeliverLocks, Fits, Forward, Erased, Running
  <2> QED BY <1>2, <1>f, <2>1, <2>2, <2>3, FitsShapes, ThreadEffects
<1>3. ASSUME NEW t \in Threads, DeliverErases(t) PROVE Flagged'
  <2>1. ran' = ran /\ cancelOk' = cancelOk /\ On(t, "deliver", "erase")
    BY <1>3 DEF DeliverErases, history
  <2>2. /\ Top(t).call \in Calls /\ Top(t).op = "deliver" /\ Fits(Top(t)) /\ stack[t] # <<>>
    BY <2>1, TopCall, TopFits DEF On
  <2>3. ASSUME NEW f, f.op = Top(t).op, f.call = Top(t).call, f.at = "decide"
        PROVE  Fits(f)'
    BY <1>3, <1>f, <2>2, <2>3 DEF DeliverErases, Fits, Forward, Erased, Running
  <2> QED BY <1>3, <1>f, <2>1, <2>2, <2>3, FitsShapes, ThreadEffects
<1>4. ASSUME NEW t \in Threads, DeliverIgnored(t) PROVE Flagged'
  <2>1. ran' = ran /\ cancelOk' = cancelOk
    BY <1>4 DEF DeliverIgnored, history
  <2> QED BY <1>4, <1>f, <2>1, FitsShapes, ThreadEffects
<1>5. ASSUME NEW t \in Threads, DeliverClaims(t) PROVE Flagged'
  <2>1. ran' = ran /\ cancelOk' = cancelOk /\ On(t, "deliver", "decide")
    BY <1>5 DEF DeliverClaims, history
  <2>2. /\ Top(t).call \in Calls /\ Top(t).op = "deliver" /\ Top(t).at = "decide"
        /\ Fits(Top(t)) /\ stack[t] # <<>> /\ Accepted(Top(t).call)
    BY <2>1, TopCall, TopFits DEF On
  <2>3. /\ Top(t).call \in finished' /\ Top(t).call \notin cancelOk' /\ ran'[Top(t).call] = 0
        /\ Top(t).call \notin pending_'
    BY <1>5, <2>1, <2>2 DEF DeliverClaims, Over, Counted, Fits, Erased
  <2>4. ASSUME NEW f, f.op = Top(t).op, f.call = Top(t).call, f.at = "call"
        PROVE  Fits(f)'
    BY <1>f, <2>2, <2>3, <2>4 DEF Fits, Forward
  <2> QED BY <1>5, <1>f, <2>1, <2>2, <2>4, FitsShapes, ThreadEffects
<1>6. ASSUME NEW t \in Threads, DeliverCalls(t) PROVE Flagged'
  <2>1. On(t, "deliver", "call")
    BY <1>6 DEF DeliverCalls
  <2> DEFINE c == Top(t).call
  <2>2. /\ c \in Calls /\ Top(t).op = "deliver" /\ Top(t).at = "call"
        /\ Len(stack[t]) \in Depths(t) /\ Top(t) = stack[t][Len(stack[t])]
        /\ Fits(Top(t))
    BY <2>1, TopCall, TopFits
  <2>3. /\ UNCHANGED <<pending_, finished, cancelled, cancelOk, invoke>>
        /\ \A j \in Calls \ {c} : ran'[j] = ran[j]
    BY <1>6, <2>2 DEF DeliverCalls, TypeOK, tables, calls, flags, removal
  <2> HIDE DEF c
  <2> SUFFICES ASSUME NEW u \in Threads, NEW i \in Depths(u)' PROVE Fits(stack[u][i])'
    BY DEF Flagged
  <2>4. CASE Same(u, i) /\ ~(u = t /\ i = Len(stack[t]))
    <3>1. stack'[u][i] = stack[u][i] /\ i \in Depths(u) /\ Fits(stack[u][i])
      BY <2>4 DEF Same, Flagged
    <3>2. stack[u][i].op = "deliver" => stack[u][i].call \in Calls
      BY <3>1, Frames
    <3>3. ~Delivers(stack[u][i], c, Locked)
      BY <2>2, <2>4, <3>1 DEF Alone, Delivers, Locked, c
    <3> QED BY <2>2, <2>3, <3>1, <3>2, <3>3 DEF Fits, Accepted, Delivers, Locked
  <2>5. CASE Moves(t, "done") /\ u = t /\ i = Len(stack[t])
    <3>1. stack'[u][i].op = "deliver" /\ stack'[u][i].call = c /\ stack'[u][i].at = "done"
      BY <2>2, <2>5 DEF Moves, c
    <3> QED BY <2>2, <2>3, <3>1 DEF Fits, Accepted, Running, Erased, c
  <2>6. CASE Shrinks(t)
    BY <2>4, <2>6, Frames DEF Shrinks, Same, Depths
  <2>7. CASE Moves(t, "done")
    BY <2>4, <2>5, <2>7 DEF Moves
  <2> QED BY <1>6, <2>6, <2>7, ThreadEffects
<1>7. ASSUME NEW t \in Threads, DoneReturns(t) PROVE Flagged'
  <2>1. ran' = ran /\ cancelOk' = cancelOk
    BY <1>7 DEF DoneReturns, history
  <2> QED BY <1>7, <1>f, <2>1, FitsShapes, ThreadEffects
<1>8. ASSUME NEW t \in Threads, CancelFlags(t) PROVE Flagged'
  <2>1. ran' = ran /\ cancelOk' = cancelOk /\ On(t, "cancel", "flag")
    BY <1>8 DEF CancelFlags, history
  <2>2. /\ Top(t).call \in Calls /\ Top(t).op = "cancel" /\ Fits(Top(t)) /\ stack[t] # <<>>
    BY <2>1, TopCall, TopFits DEF On
  <2>3. ASSUME NEW f, f.op = Top(t).op, f.call = Top(t).call, f.at = "lock"
        PROVE  Fits(f)'
    BY <1>8, <1>f, <2>2, <2>3 DEF CancelFlags, Fits, Forward, Erased, Running
  <2> QED BY <1>8, <1>f, <2>1, <2>2, <2>3, FitsShapes, ThreadEffects
<1>9. ASSUME NEW t \in Threads, CancelClears(t) PROVE Flagged'
  <2>1. On(t, "cancel", "lock") /\ ~LockedOut(t, Top(t).call)
    BY <1>9 DEF CancelClears
  <2> DEFINE c == Top(t).call
  <2>2. /\ c \in Calls /\ Top(t).op = "cancel"
        /\ Len(stack[t]) \in Depths(t) /\ Top(t) = stack[t][Len(stack[t])]
    BY <2>1, TopCall
  <2>3. /\ UNCHANGED <<finished, cancelled, invoke, ran>>
        /\ pending_' \subseteq pending_ /\ cancelOk' = cancelOk \cup {c}
    BY <1>9, <2>2 DEF CancelClears, tables, calls, removal
  <2> HIDE DEF c
  <2> SUFFICES ASSUME NEW u \in Threads, NEW i \in Depths(u)' PROVE Fits(stack[u][i])'
    BY DEF Flagged
  <2>4. Shrinks(t)
    BY <1>9, ThreadEffects
  <2>5. /\ stack'[u][i] = stack[u][i] /\ i \in Depths(u) /\ Fits(stack[u][i])
        /\ u = t => i < Len(stack[t])
    BY <2>4, Frames DEF Shrinks, Same, Flagged, Depths
  <2>6. CASE u = t
    <3>1. stack[u][i].op = "deliver" => stack[u][i].call # c
      BY <2>2, <2>5, <2>6, Distinct DEF c
    <3> QED BY <2>3, <2>5, <3>1 DEF Fits, Accepted
  <2>7. CASE u # t
    <3>1. ~Delivers(stack[u][i], c, Locked)
      BY <2>1, <2>5, <2>7, LockedOutBy DEF c
    <3> QED BY <2>3, <2>5, <3>1 DEF Fits, Accepted, Delivers, Locked, Running
  <2> QED BY <2>6, <2>7
<1>10. ASSUME NEW m \in Modules, RemoveAllFor(m) PROVE Flagged'
  <2>1. ran' = ran /\ cancelOk' = cancelOk /\ On(Runner, "remove", "close")
    BY <1>10 DEF RemoveAllFor, history
  <2>2. \A f : f.op = Top(Runner).op => Fits(f)'
    BY <2>1 DEF Fits, On
  <2> QED BY <1>10, <1>f, <2>1, <2>2, FitsShapes, RemovalEffects, RegistryAssumption DEF On
<1>11. ASSUME NEW k \in Calls, RemoveCancels(k) PROVE Flagged'
  <2>1. ran' = ran /\ cancelOk' = cancelOk
    BY <1>11 DEF RemoveCancels, history
  <2>2. CASE k \in pending_
    <3>1. Fits(MkFrame("cancel", k, "flag"))'
      BY <1>f, <2>2 DEF Fits, MkFrame, Begun, Forward, TypeOK, Erased, Running
    <3> QED BY <1>11, <1>f, <2>1, <2>2, <3>1, FitsShapes, RemovalEffects, RegistryAssumption
  <2>3. CASE k \notin pending_
    BY <1>11, <1>q, <2>1, <2>3, RemovalEffects
  <2> QED BY <2>2, <2>3
<1>12. ASSUME NEW k \in Calls, RemoveDelivers(k) PROVE Flagged'
  <2>1. ran' = ran /\ cancelOk' = cancelOk /\ k \in provided
    BY <1>12 DEF RemoveDelivers, history
  <2>2. Fits(MkFrame("deliver", k, "lock"))'
    BY <1>f, <2>1 DEF Fits, MkFrame, Begun, Forward, Erased, Running
  <2> QED BY <1>12, <1>f, <2>1, <2>2, FitsShapes, RemovalEffects, RegistryAssumption
<1>13. ASSUME RemoveReturns PROVE Flagged'
  <2>1. ran' = ran /\ cancelOk' = cancelOk
    BY <1>13 DEF RemoveReturns, history
  <2> QED BY <1>13, <1>f, <2>1, FitsShapes, RemovalEffects, RegistryAssumption
<1>14. ASSUME NEW k \in Calls, InvokeAccepts(k) PROVE Flagged'
  BY <1>14, <1>q DEF InvokeAccepts, tables, calls, flags, removal, history
<1>15. ASSUME NEW k \in Calls, RunCancelled(k) PROVE Flagged'
  BY <1>15, <1>q DEF RunCancelled, tables, calls, flags, removal, history
<1>16. ASSUME NEW k \in Calls, Run(k) PROVE Flagged'
  BY <1>16, <1>q DEF Run, tables, calls, flags, removal, history
<1>17. ASSUME NEW k \in Calls, ProviderEntered(k) PROVE Flagged'
  BY <1>17, <1>q DEF ProviderEntered, tables, calls, flags, removal, history
<1>18. ASSUME NEW t \in Threads, NEW k \in Calls, RunProviderGone(t, k) PROVE Flagged'
  <2>1. ran' = ran /\ cancelOk' = cancelOk
    BY <1>18 DEF RunProviderGone, history
  <2>2. CASE k \in pending_
    <3>1. Fits(MkFrame("deliver", k, "lock"))'
      BY <1>f, <2>2 DEF Fits, MkFrame, Begun, Forward, TypeOK, Erased, Running
    <3> QED BY <1>18, <1>f, <2>1, <2>2, <3>1, FitsShapes, CallEffects, RegistryAssumption
  <2>3. CASE k \notin pending_
    BY <1>18, <1>q, <2>1, <2>3, CallEffects
  <2> QED BY <2>2, <2>3
<1>19. ASSUME NEW t \in Threads, NEW k \in Calls, ProviderUnloading(t, k) PROVE Flagged'
  <2>1. ran' = ran /\ cancelOk' = cancelOk
    BY <1>19 DEF ProviderUnloading, history
  <2>2. CASE k \in pending_
    <3>1. Fits(MkFrame("deliver", k, "lock"))'
      BY <1>f, <2>2 DEF Fits, MkFrame, Begun, Forward, TypeOK, Erased, Running
    <3> QED BY <1>19, <1>f, <2>1, <2>2, <3>1, FitsShapes, CallEffects, RegistryAssumption
  <2>3. CASE k \notin pending_
    BY <1>19, <1>q, <2>1, <2>3, CallEffects
  <2> QED BY <2>2, <2>3
<1>20. ASSUME NEW c \in Commands, Register(c) PROVE Flagged'
  BY <1>20, <1>q DEF Register, tables, calls, flags, removal, history
<1>21. ASSUME NEW c \in Commands, Unregister(c) PROVE Flagged'
  BY <1>21, <1>q DEF Unregister, tables, calls, flags, removal, history
<1>22. ASSUME NEW k \in Calls, InvokeChecks(k) PROVE Flagged'
  BY <1>22, <1>q DEF InvokeChecks, tables, calls, flags, removal, history
<1>23. ASSUME NEW k \in Calls, InvokeRefused(k) PROVE Flagged'
  BY <1>23, <1>q DEF InvokeRefused, tables, calls, flags, removal, history
<1>24. ASSUME NEW k \in Calls, InvokeLooksUp(k) PROVE Flagged'
  BY <1>24, <1>q DEF InvokeLooksUp, tables, calls, flags, removal, history
<1>25. ASSUME NEW t \in Threads, NEW k \in Calls, Complete(t, k) PROVE Flagged'
  <2>1. ran' = ran /\ cancelOk' = cancelOk
    BY <1>25 DEF Complete, history
  <2>2. CASE k \in pending_
    <3>1. Fits(MkFrame("deliver", k, "lock"))'
      BY <1>f, <2>2 DEF Fits, MkFrame, Begun, Forward, TypeOK, Erased, Running
    <3> QED BY <1>25, <1>f, <2>1, <2>2, <3>1, FitsShapes, CallEffects, RegistryAssumption
  <2>3. CASE k \notin pending_
    BY <1>25, <1>q, <2>1, <2>3, CallEffects
  <2> QED BY <2>2, <2>3
<1>26. ASSUME NEW t \in Threads, NEW k \in Calls, CancelUnknown(t, k) PROVE Flagged'
  BY <1>26, <1>q DEF CancelUnknown, tables, calls, flags, removal, history
<1>27. ASSUME NEW t \in Threads, NEW k \in Calls, CancelFinds(t, k) PROVE Flagged'
  <2>1. ran' = ran /\ cancelOk' = cancelOk /\ k \in pending_
    BY <1>27 DEF CancelFinds, history
  <2>2. Fits(MkFrame("cancel", k, "flag"))'
    BY <1>f, <2>1 DEF Fits, MkFrame, Begun, Forward, TypeOK
  <2> QED BY <1>27, <1>f, <2>1, <2>2, FitsShapes, CallEffects
<1>28. ASSUME NEW m \in Modules, GateCloses(m) PROVE Flagged'
  <2>1. ran' = ran /\ cancelOk' = cancelOk
    BY <1>28 DEF GateCloses, history
  <2>2. Fits(MkFrame("remove", NoModule, "close"))'
    BY DEF Fits, MkFrame
  <2> QED BY <1>28, <1>f, <2>1, <2>2, FitsShapes, RemovalEffects, RegistryAssumption
<1>29. ASSUME NEW m \in Modules, Reopen(m) PROVE Flagged'
  BY <1>29, <1>q DEF Reopen, tables, calls, flags, removal, history
<1>30. ASSUME NEW m \in Modules, GateOpens(m) PROVE Flagged'
  BY <1>30, <1>q DEF GateOpens, tables, calls, flags, removal, history
<1> QED
  BY <1>1, <1>2, <1>3, <1>4, <1>5, <1>6, <1>7, <1>8, <1>9, <1>10, <1>11, <1>12, <1>13, <1>14, <1>15,
     <1>16, <1>17, <1>18, <1>19, <1>20, <1>21, <1>22, <1>23, <1>24, <1>25, <1>26, <1>27, <1>28, <1>29, <1>30
  DEF Next, ThreadStep, RemoveStep, InvokeStep, Environment

-----------------------------------------------------------------------------
(* Delivery mutexes, one frame each.                                       *)

(* A frame gets past a mutex only by locking it,                           *)
LEMMA AloneShapes ==
    ASSUME TypeOK, Alone, NEW t \in Threads
    PROVE  /\ UNCHANGED stack => Alone'
           /\ \A f : Grows(t, f) /\ (f.op # "deliver" \/ f.at = "lock") => Alone'
           /\ Shrinks(t) => Alone'
           /\ \A at : Moves(t, at) /\ stack[t] # <<>>
                  /\ (Top(t).op # "deliver" \/ Top(t).at \in Locked) => Alone'
<1>0. ASSUME \A u \in Threads : \A i \in Depths(u)' : \A k :
                Delivers(stack'[u][i], k, Locked) =>
                   i \in Depths(u) /\ Delivers(stack[u][i], k, Locked)
      PROVE  Alone'
  BY <1>0 DEF Alone, Delivers
<1>1. ASSUME UNCHANGED stack PROVE Alone'
  BY <1>0, <1>1 DEF Depths, Delivers
<1>2. ASSUME NEW f, Grows(t, f), f.op # "deliver" \/ f.at = "lock" PROVE Alone'
  BY <1>0, <1>2 DEF Grows, Same, Delivers, Locked
<1>3. ASSUME Shrinks(t) PROVE Alone'
  BY <1>0, <1>3 DEF Shrinks, Same, Delivers
<1>4. ASSUME NEW at, Moves(t, at), Top(t).op # "deliver" \/ Top(t).at \in Locked PROVE Alone'
  BY <1>0, <1>4 DEF Moves, Same, Delivers, Top
<1> QED BY <1>1, <1>2, <1>3, <1>4

(* and then no other thread has it, and the thread itself is not in that   *)
(* call's done.                                                            *)
LEMMA LocksAlone ==
    ASSUME TypeOK, Resting, Flagged, Alone, Ordered, NEW t \in Threads, DeliverLocks(t)
    PROVE  Alone'
<1> DEFINE c == Top(t).call
<1>1. On(t, "deliver", "lock") /\ ~LockedOut(t, c)
  BY DEF DeliverLocks
<1>2. /\ c \in Calls /\ Top(t).op = "deliver" /\ Top(t).at = "lock"
      /\ Len(stack[t]) \in Depths(t) /\ Top(t) = stack[t][Len(stack[t])]
  BY <1>1, TopCall
<1>3. Moves(t, "erase")
  BY ThreadEffects
<1>4. ASSUME NEW u \in Threads, NEW i \in Depths(u)', NEW k \in Calls,
             Delivers(stack'[u][i], k, Locked), ~(u = t /\ i = Len(stack[t]))
      PROVE  i \in Depths(u) /\ Delivers(stack[u][i], k, Locked) /\ k # c
  <2>1. i \in Depths(u) /\ Delivers(stack[u][i], k, Locked)
    BY <1>3, <1>4 DEF Moves, Same, Delivers
  <2>2. CASE u = t
    <3>1. i < Len(stack[t])
      BY <1>4, <2>1, <2>2, Frames DEF Depths
    <3> QED BY <1>2, <2>1, <2>2, <3>1, Distinct DEF Delivers
  <2>3. CASE u # t
    BY <1>1, <2>1, <2>3, LockedOutBy
  <2> QED BY <2>1, <2>2, <2>3
<1>5. ASSUME NEW k \in Calls, NEW i \in Depths(t)', i = Len(stack[t]), Delivers(stack'[t][i], k, Locked)
      PROVE  k = c
  BY <1>2, <1>3, <1>5 DEF Moves, Delivers
<1> HIDE DEF c
<1> SUFFICES ASSUME NEW u \in Threads, NEW v \in Threads, NEW i \in Depths(u)', NEW j \in Depths(v)',
                    NEW k \in Calls, Delivers(stack'[u][i], k, Locked), Delivers(stack'[v][j], k, Locked)
             PROVE  u = v /\ i = j
  BY DEF Alone, Delivers
<1>6. CASE k = c
  BY <1>4, <1>6
<1>7. CASE k # c
  BY <1>4, <1>5, <1>7 DEF Alone
<1> QED BY <1>6, <1>7

-----------------------------------------------------------------------------
(* All three, by operation.                                                *)
LEMMA RunnerTop ==
    ASSUME TypeOK, OneRemoval, NEW at, On(Runner, "remove", at)
    PROVE  /\ Len(stack[Runner]) \in Depths(Runner) /\ Top(Runner) = stack[Runner][Len(stack[Runner])]
           /\ Top(Runner).op = "remove" /\ Top(Runner).at = at
           /\ removing # NoModule /\ stack[Runner] # <<>>
<1>1. Runner \in Threads
  BY RegistryAssumption
<1>2. Len(stack[Runner]) \in Depths(Runner) /\ Top(Runner) = stack[Runner][Len(stack[Runner])]
  BY <1>1, FrameType DEF On, Top
<1> QED BY <1>1, <1>2 DEF On, OneRemoval

Shaped == Resting /\ OneRemoval /\ Alone

LEMMA ShapedKept ==
    ASSUME TypeOK, Shaped, Flagged, Ordered, [Next]_vars
    PROVE  Shaped'
<1>r. Runner \in Threads
  BY RegistryAssumption
<1>q. UNCHANGED stack /\ UNCHANGED removal => Shaped'
  BY <1>r, RestingKept, RemovalKept, AloneShapes DEF Shaped, removal
<1> USE DEF Shaped
<1>1. CASE UNCHANGED vars
  BY <1>1, <1>q DEF vars
<1>2. ASSUME NEW t \in Threads, DeliverLocks(t) PROVE Shaped'
  <2>1. UNCHANGED <<removing, made, provided>>
    BY <1>2 DEF DeliverLocks, removal
  <2> QED BY <1>2, <2>1, ThreadEffects, RestingKept, RemovalKept, LocksAlone DEF Shaped
<1>3. ASSUME NEW t \in Threads, DeliverErases(t) PROVE Shaped'
  <2>1. UNCHANGED <<removing, made, provided>> /\ On(t, "deliver", "erase")
    BY <1>3 DEF DeliverErases, removal
  <2>2. stack[t] # <<>> /\ (Top(t).op # "deliver" \/ Top(t).at \in Locked)
    BY <2>1 DEF On, Locked
  <2> QED BY <1>3, <2>1, <2>2, ThreadEffects, RestingKept, RemovalKept, AloneShapes DEF Shaped
<1>4. ASSUME NEW t \in Threads, DeliverIgnored(t) PROVE Shaped'
  <2>1. UNCHANGED <<removing, made, provided>>
    BY <1>4 DEF DeliverIgnored, removal
  <2> QED BY <1>4, <2>1, ThreadEffects, RestingKept, RemovalKept, AloneShapes DEF Shaped
<1>5. ASSUME NEW t \in Threads, DeliverClaims(t) PROVE Shaped'
  <2>1. UNCHANGED <<removing, made, provided>> /\ On(t, "deliver", "decide")
    BY <1>5 DEF DeliverClaims, removal
  <2>2. stack[t] # <<>> /\ (Top(t).op # "deliver" \/ Top(t).at \in Locked)
    BY <2>1 DEF On, Locked
  <2> QED BY <1>5, <2>1, <2>2, ThreadEffects, RestingKept, RemovalKept, AloneShapes DEF Shaped
<1>6. ASSUME NEW t \in Threads, DeliverCalls(t) PROVE Shaped'
  <2>1. UNCHANGED <<removing, made, provided>> /\ On(t, "deliver", "call")
    BY <1>6 DEF DeliverCalls, removal
  <2>2. stack[t] # <<>> /\ (Top(t).op # "deliver" \/ Top(t).at \in Locked)
    BY <2>1 DEF On, Locked
  <2> QED BY <1>6, <2>1, <2>2, ThreadEffects, RestingKept, RemovalKept, AloneShapes DEF Shaped
<1>7. ASSUME NEW t \in Threads, DoneReturns(t) PROVE Shaped'
  <2>1. UNCHANGED <<removing, made, provided>>
    BY <1>7 DEF DoneReturns, removal
  <2> QED BY <1>7, <2>1, ThreadEffects, RestingKept, RemovalKept, AloneShapes DEF Shaped
<1>8. ASSUME NEW t \in Threads, CancelFlags(t) PROVE Shaped'
  <2>1. UNCHANGED <<removing, made, provided>> /\ On(t, "cancel", "flag")
    BY <1>8 DEF CancelFlags, removal
  <2>2. stack[t] # <<>> /\ (Top(t).op # "deliver" \/ Top(t).at \in Locked)
    BY <2>1 DEF On, Locked
  <2> QED BY <1>8, <2>1, <2>2, ThreadEffects, RestingKept, RemovalKept, AloneShapes DEF Shaped
<1>9. ASSUME NEW t \in Threads, CancelClears(t) PROVE Shaped'
  <2>1. UNCHANGED <<removing, made, provided>>
    BY <1>9 DEF CancelClears, removal
  <2> QED BY <1>9, <2>1, ThreadEffects, RestingKept, RemovalKept, AloneShapes DEF Shaped
<1>10. ASSUME NEW m \in Modules, RemoveAllFor(m) PROVE Shaped'
  <2>1. On(Runner, "remove", "close") /\ removing = m /\ removing' = m
    BY <1>10 DEF RemoveAllFor
  <2>2. Moves(Runner, "work")
    BY <1>10, RemovalEffects
  <2>3. stack[Runner] # <<>> /\ Top(Runner).op = "remove"
    BY <2>1 DEF On
  <2>4. \A u \in Threads : /\ Depths(u)' = Depths(u)
                           /\ \A i \in Depths(u) : stack'[u][i].op = stack[u][i].op
    BY <2>2 DEF Moves, Same
  <2>5. OneRemoval'
    BY <1>r, <2>1, <2>4, RegistryAssumption DEF Shaped, OneRemoval
  <2> QED BY <1>r, <2>2, <2>3, <2>5, RestingKept, AloneShapes DEF Shaped
<1>11. ASSUME NEW k \in Calls, RemoveCancels(k) PROVE Shaped'
  <2>1. /\ On(Runner, "remove", "work") /\ removing' = removing
        /\ made' \subseteq made /\ provided' \subseteq provided
    BY <1>11 DEF RemoveCancels
  <2>2. stack[Runner] # <<>> /\ Top(Runner).at \in {"done", "work"} /\ removing # NoModule
    BY <2>1, RunnerTop DEF Shaped
  <2> DEFINE f == MkFrame("cancel", k, "flag")
  <2>3. f.op # "remove" /\ (f.op # "deliver" \/ f.at = "lock")
    BY DEF MkFrame
  <2>4. (Grows(Runner, f)) \/ UNCHANGED stack
    BY <1>11, RemovalEffects
  <2> HIDE DEF f
  <2>5. OneRemoval'
    BY <1>r, <2>1, <2>2, <2>3, <2>4 DEF Shaped, OneRemoval, Grows, Same, Depths
  <2> QED BY <1>r, <2>2, <2>3, <2>4, <2>5, RestingKept, AloneShapes DEF Shaped
<1>12. ASSUME NEW k \in Calls, RemoveDelivers(k) PROVE Shaped'
  <2>1. /\ On(Runner, "remove", "work") /\ removing' = removing
        /\ made' \subseteq made /\ provided' \subseteq provided
    BY <1>12 DEF RemoveDelivers
  <2>2. stack[Runner] # <<>> /\ Top(Runner).at \in {"done", "work"} /\ removing # NoModule
    BY <2>1, RunnerTop DEF Shaped
  <2> DEFINE f == MkFrame("deliver", k, "lock")
  <2>3. f.op # "remove" /\ (f.op # "deliver" \/ f.at = "lock")
    BY DEF MkFrame
  <2>4. Grows(Runner, f)
    BY <1>12, RemovalEffects
  <2> HIDE DEF f
  <2>5. OneRemoval'
    BY <1>r, <2>1, <2>2, <2>3, <2>4 DEF Shaped, OneRemoval, Grows, Same, Depths
  <2> QED BY <1>r, <2>2, <2>3, <2>4, <2>5, RestingKept, AloneShapes DEF Shaped
<1>13. ASSUME RemoveReturns PROVE Shaped'
  <2>1. On(Runner, "remove", "work") /\ made' = {} /\ provided' = {}
    BY <1>13 DEF RemoveReturns
  <2>2. Shrinks(Runner)
    BY <1>13, RemovalEffects
  <2>3. \A i \in Depths(Runner) : stack[Runner][i].op = "remove" => i = Len(stack[Runner])
    BY <2>1, RunnerTop DEF Shaped, OneRemoval
  <2>4. \A u \in Threads : \A i \in Depths(u)' : stack'[u][i].op # "remove"
    BY <1>r, <2>2, <2>3, Frames DEF Shrinks, Same, Depths, Shaped, OneRemoval
  <2>5. OneRemoval'
    BY <1>r, <2>1, <2>4 DEF OneRemoval
  <2> QED BY <1>r, <2>2, <2>5, RestingKept, AloneShapes DEF Shaped
<1>14. ASSUME NEW k \in Calls, InvokeAccepts(k) PROVE Shaped'
  BY <1>14, <1>q DEF InvokeAccepts
<1>15. ASSUME NEW k \in Calls, RunCancelled(k) PROVE Shaped'
  BY <1>15, <1>q DEF RunCancelled
<1>16. ASSUME NEW k \in Calls, Run(k) PROVE Shaped'
  BY <1>16, <1>q DEF Run
<1>17. ASSUME NEW k \in Calls, ProviderEntered(k) PROVE Shaped'
  BY <1>17, <1>q DEF ProviderEntered
<1>18. ASSUME NEW t \in Threads, NEW k \in Calls, RunProviderGone(t, k) PROVE Shaped'
  <2>1. UNCHANGED removal /\ (stack[t] # <<>> => Top(t).at \in {"done", "work"})
    BY <1>18 DEF RunProviderGone, Free
  <2> DEFINE f == MkFrame("deliver", k, "lock")
  <2>2. f.op # "remove" /\ (f.op # "deliver" \/ f.at = "lock")
    BY DEF MkFrame
  <2>3. UNCHANGED <<removing, made, provided>>
    BY <2>1 DEF removal
  <2>4. (k \in pending_ /\ Grows(t, f)) \/ UNCHANGED stack
    BY <1>18, CallEffects
  <2> HIDE DEF f
  <2> QED BY <1>q, <2>1, <2>2, <2>3, <2>4, RestingKept, RemovalKept, AloneShapes DEF Shaped
<1>19. ASSUME NEW t \in Threads, NEW k \in Calls, ProviderUnloading(t, k) PROVE Shaped'
  <2>1. UNCHANGED removal /\ (stack[t] # <<>> => Top(t).at \in {"done", "work"})
    BY <1>19 DEF ProviderUnloading, Free
  <2> DEFINE f == MkFrame("deliver", k, "lock")
  <2>2. f.op # "remove" /\ (f.op # "deliver" \/ f.at = "lock")
    BY DEF MkFrame
  <2>3. UNCHANGED <<removing, made, provided>>
    BY <2>1 DEF removal
  <2>4. (k \in pending_ /\ Grows(t, f)) \/ UNCHANGED stack
    BY <1>19, CallEffects
  <2> HIDE DEF f
  <2> QED BY <1>q, <2>1, <2>2, <2>3, <2>4, RestingKept, RemovalKept, AloneShapes DEF Shaped
<1>20. ASSUME NEW c \in Commands, Register(c) PROVE Shaped'
  BY <1>20, <1>q DEF Register
<1>21. ASSUME NEW c \in Commands, Unregister(c) PROVE Shaped'
  BY <1>21, <1>q DEF Unregister
<1>22. ASSUME NEW k \in Calls, InvokeChecks(k) PROVE Shaped'
  BY <1>22, <1>q DEF InvokeChecks
<1>23. ASSUME NEW k \in Calls, InvokeRefused(k) PROVE Shaped'
  BY <1>23, <1>q DEF InvokeRefused
<1>24. ASSUME NEW k \in Calls, InvokeLooksUp(k) PROVE Shaped'
  BY <1>24, <1>q DEF InvokeLooksUp
<1>25. ASSUME NEW t \in Threads, NEW k \in Calls, Complete(t, k) PROVE Shaped'
  <2>1. UNCHANGED removal /\ (stack[t] # <<>> => Top(t).at \in {"done", "work"})
    BY <1>25 DEF Complete, Free
  <2> DEFINE f == MkFrame("deliver", k, "lock")
  <2>2. f.op # "remove" /\ (f.op # "deliver" \/ f.at = "lock")
    BY DEF MkFrame
  <2>3. UNCHANGED <<removing, made, provided>>
    BY <2>1 DEF removal
  <2>4. (k \in pending_ /\ Grows(t, f)) \/ UNCHANGED stack
    BY <1>25, CallEffects
  <2> HIDE DEF f
  <2> QED BY <1>q, <2>1, <2>2, <2>3, <2>4, RestingKept, RemovalKept, AloneShapes DEF Shaped
<1>26. ASSUME NEW t \in Threads, NEW k \in Calls, CancelUnknown(t, k) PROVE Shaped'
  BY <1>26, <1>q DEF CancelUnknown
<1>27. ASSUME NEW t \in Threads, NEW k \in Calls, CancelFinds(t, k) PROVE Shaped'
  <2>1. UNCHANGED removal /\ (stack[t] # <<>> => Top(t).at \in {"done", "work"})
    BY <1>27 DEF CancelFinds, Free
  <2> DEFINE f == MkFrame("cancel", k, "flag")
  <2>2. f.op # "remove" /\ (f.op # "deliver" \/ f.at = "lock")
    BY DEF MkFrame
  <2>3. UNCHANGED <<removing, made, provided>>
    BY <2>1 DEF removal
  <2>4. Grows(t, f)
    BY <1>27, CallEffects
  <2> HIDE DEF f
  <2> QED BY <1>q, <2>1, <2>2, <2>3, <2>4, RestingKept, RemovalKept, AloneShapes DEF Shaped
<1>28. ASSUME NEW m \in Modules, GateCloses(m) PROVE Shaped'
  <2>1. /\ removing = NoModule /\ removing' = m /\ UNCHANGED <<made, provided>>
        /\ stack[Runner] # <<>> => Top(Runner).at \in {"done", "work"}
    BY <1>28 DEF GateCloses, Free
  <2> DEFINE f == MkFrame("remove", NoModule, "close")
  <2>2. Grows(Runner, f) /\ f.op = "remove"
    BY <1>28, RemovalEffects DEF MkFrame
  <2> HIDE DEF f
  <2>3. \A u \in Threads : \A i \in Depths(u) : stack[u][i].op # "remove"
    BY <2>1 DEF Shaped, OneRemoval
  <2>4. \A u \in Threads : \A i \in Depths(u)' :
           stack'[u][i].op = "remove" => u = Runner /\ i = Len(stack'[Runner])
    BY <2>2, <2>3 DEF Grows, Same
  <2>5. OneRemoval'
    BY <1>r, <2>1, <2>4, RegistryAssumption DEF OneRemoval
  <2> QED BY <1>r, <2>1, <2>2, <2>5, RestingKept, AloneShapes DEF Shaped
<1>29. ASSUME NEW m \in Modules, Reopen(m) PROVE Shaped'
  BY <1>29, <1>q DEF Reopen
<1>30. ASSUME NEW m \in Modules, GateOpens(m) PROVE Shaped'
  BY <1>30, <1>q DEF GateOpens
<1> QED
  BY <1>1, <1>2, <1>3, <1>4, <1>5, <1>6, <1>7, <1>8, <1>9, <1>10, <1>11, <1>12, <1>13, <1>14, <1>15,
     <1>16, <1>17, <1>18, <1>19, <1>20, <1>21, <1>22, <1>23, <1>24, <1>25, <1>26, <1>27, <1>28, <1>29, <1>30
  DEF Next, ThreadStep, RemoveStep, InvokeStep, Environment

-----------------------------------------------------------------------------
(* The order in which calls leave pending_.                                *)

(* A call that leaves pending_ gets a number above all others.             *)
LEMMA OrderStays ==
    ASSUME Ordered, NEW k \in Calls, pending_ \subseteq pending_' \cup {k},
           \A a, b \in Calls : Follows(a, b)' => Follows(a, b) \/ b \in pending_',
           \A a, b \in Calls : Follows(a, b) => a \notin pending_
    PROVE  Ordered'
<1>1. PICK e \in [Calls -> Nat], n \in Nat :
         /\ \A j \in Calls : e[j] <= n
         /\ \A a, b \in Calls : Follows(a, b) => b \in pending_ \/ e[a] < e[b]
  BY DEF Ordered, Ranks, Later
<1>2. SUFFICES ASSUME TRUE
               PROVE  \E d \in [Calls -> Nat] : \E m \in Nat :
                         /\ \A j \in Calls : d[j] <= m
                         /\ \A a, b \in Calls : Follows(a, b)' => b \in pending_' \/ d[a] < d[b]
  BY DEF Ordered, Ranks, Later
<1>3. CASE k \in pending_ \ pending_'
  <2> DEFINE d == [e EXCEPT ![k] = n + 1]
  <2>1. d \in [Calls -> Nat] /\ n + 1 \in Nat /\ \A j \in Calls : d[j] <= n + 1
    BY <1>1
  <2>2. ASSUME NEW a \in Calls, NEW b \in Calls, Follows(a, b), b \notin pending_'
        PROVE  d[a] < d[b]
    <3>1. a # k /\ d[a] = e[a]
      BY <1>3, <2>2
    <3>2. CASE b = k
      BY <1>1, <3>1, <3>2
    <3>3. CASE b # k
      BY <1>1, <2>2, <3>1, <3>3
    <3> QED BY <3>2, <3>3
  <2> QED BY <2>1, <2>2
<1>4. CASE ~(k \in pending_ \ pending_')
  BY <1>1, <1>4
<1> QED BY <1>3, <1>4

(* A callback that runs has its call out of pending_.                      *)
LEMMA FollowersLeft ==
    ASSUME TypeOK, Resting, Flagged, NEW a \in Calls, NEW b \in Calls, Follows(a, b)
    PROVE  a \notin pending_
<1>1. ASSUME NEW t \in Threads, NEW i \in Depths(t), NEW j \in Depths(t), i < j,
             stack[t][i].op = "deliver", stack[t][i].call = a
      PROVE  a \notin pending_
  <2>1. stack[t][i].at = "done"
    BY <1>1, Frames DEF Resting, Depths
  <2> QED BY <1>1, <2>1 DEF Flagged, Fits, Erased
<1> QED BY <1>1, RegistryAssumption DEF Follows

(* Only what is pending comes to follow.                                   *)
LEMMA FollowsShapes ==
    ASSUME TypeOK, NEW t \in Threads, NEW a \in Calls, NEW b \in Calls, Follows(a, b)',
           b \in (made \cup provided)' => b \in pending_' \/ b \in made \cup provided
    PROVE  /\ UNCHANGED stack => Follows(a, b) \/ b \in pending_'
           /\ \A f : Grows(t, f) /\ f.op # "remove" => Follows(a, b) \/ b \in pending_' \/ b = f.call
           /\ Shrinks(t) => Follows(a, b) \/ b \in pending_'
           /\ \A at : Moves(t, at) => Follows(a, b) \/ b \in pending_'
<1>r. Runner \in Threads
  BY RegistryAssumption
<1>1. ASSUME UNCHANGED stack PROVE Follows(a, b) \/ b \in pending_'
  BY <1>1 DEF Follows, Depths
<1>2. ASSUME NEW f, Grows(t, f), f.op # "remove", b # f.call PROVE Follows(a, b) \/ b \in pending_'
  <2>1. ASSUME NEW u \in Threads, NEW i \in Depths(u)', NEW j \in Depths(u)', i < j PROVE Same(u, i)
    BY <1>2, <2>1, Frames DEF Grows, Depths
  <2>2. ASSUME NEW u \in Threads, NEW j \in Depths(u)',
               stack'[u][j].call = b \/ stack'[u][j].op = "remove"
        PROVE  Same(u, j)
    BY <1>2, <2>2 DEF Grows
  <2> QED BY <1>r, <2>1, <2>2 DEF Follows, Same
<1>3. ASSUME Shrinks(t) PROVE Follows(a, b) \/ b \in pending_'
  <2>1. \A u \in Threads : \A i \in Depths(u)' : i \in Depths(u) /\ stack'[u][i] = stack[u][i]
    BY <1>3 DEF Shrinks, Same
  <2> QED BY <1>r, <2>1 DEF Follows
<1>4. ASSUME NEW at, Moves(t, at) PROVE Follows(a, b) \/ b \in pending_'
  <2>1. \A u \in Threads : /\ Depths(u)' = Depths(u)
                           /\ \A i \in Depths(u) : /\ stack'[u][i].op = stack[u][i].op
                                                   /\ stack'[u][i].call = stack[u][i].call
    BY <1>4 DEF Moves, Same
  <2> QED BY <1>r, <2>1 DEF Follows
<1> QED BY <1>1, <1>2, <1>3, <1>4

(* By operation.  RemoveAllFor() delivers what was pending when it made    *)
(* its list, later than what it runs inside of.                            *)
LEMMA OrderedKept ==
    ASSUME TypeOK, Shaped, Flagged, Ordered, [Next]_vars
    PROVE  Ordered'
<1>r. Runner \in Threads
  BY RegistryAssumption
<1>f. Forward
  BY GoesForward
<1>l. \A a, b \in Calls : Follows(a, b) => a \notin pending_
  BY FollowersLeft DEF Shaped
<1>o. ASSUME pending_ \subseteq pending_',
             \A a, b \in Calls : Follows(a, b)' => Follows(a, b) \/ b \in pending_'
      PROVE  Ordered'
  <2>1. CASE Calls = {}
    BY <2>1 DEF Ordered, Ranks
  <2>2. CASE Calls # {}
    BY <1>l, <1>o, <2>2, OrderStays
  <2> QED BY <2>1, <2>2
<1>q. UNCHANGED <<stack, made, provided>> /\ pending_ \subseteq pending_' => Ordered'
  BY <1>r, <1>o, FollowsShapes
<1> USE DEF Shaped
<1>1. CASE UNCHANGED vars
  BY <1>1, <1>q DEF vars, removal, flags
<1>2. ASSUME NEW t \in Threads, DeliverLocks(t) PROVE Ordered'
  <2>1. UNCHANGED <<made, provided, pending_>>
    BY <1>2 DEF DeliverLocks, removal, flags
  <2> QED BY <1>2, <1>o, <2>1, FollowsShapes, ThreadEffects
<1>3. ASSUME NEW t \in Threads, DeliverErases(t) PROVE Ordered'
  <2>1. UNCHANGED <<made, provided>> /\ On(t, "deliver", "erase")
    BY <1>3 DEF DeliverErases, removal
  <2>2. Top(t).call \in Calls /\ pending_ \subseteq pending_' \cup {Top(t).call}
    BY <1>3, <2>1, TopCall DEF DeliverErases
  <2> QED BY <1>3, <1>l, <2>1, <2>2, OrderStays, FollowsShapes, ThreadEffects
<1>4. ASSUME NEW t \in Threads, DeliverIgnored(t) PROVE Ordered'
  <2>1. UNCHANGED <<made, provided, pending_>>
    BY <1>4 DEF DeliverIgnored, removal, flags
  <2> QED BY <1>4, <1>o, <2>1, FollowsShapes, ThreadEffects
<1>5. ASSUME NEW t \in Threads, DeliverClaims(t) PROVE Ordered'
  <2>1. UNCHANGED <<made, provided, pending_>>
    BY <1>5 DEF DeliverClaims, removal, flags
  <2> QED BY <1>5, <1>o, <2>1, FollowsShapes, ThreadEffects
<1>6. ASSUME NEW t \in Threads, DeliverCalls(t) PROVE Ordered'
  <2>1. UNCHANGED <<made, provided, pending_>>
    BY <1>6 DEF DeliverCalls, removal, flags
  <2> QED BY <1>6, <1>o, <2>1, FollowsShapes, ThreadEffects
<1>7. ASSUME NEW t \in Threads, DoneReturns(t) PROVE Ordered'
  <2>1. UNCHANGED <<made, provided, pending_>>
    BY <1>7 DEF DoneReturns, removal, flags
  <2> QED BY <1>7, <1>o, <2>1, FollowsShapes, ThreadEffects
<1>8. ASSUME NEW t \in Threads, CancelFlags(t) PROVE Ordered'
  <2>1. UNCHANGED <<made, provided, pending_>>
    BY <1>8 DEF CancelFlags, removal, flags
  <2> QED BY <1>8, <1>o, <2>1, FollowsShapes, ThreadEffects
<1>9. ASSUME NEW t \in Threads, CancelClears(t) PROVE Ordered'
  <2>1. UNCHANGED <<made, provided>> /\ On(t, "cancel", "lock")
    BY <1>9 DEF CancelClears, removal
  <2>2. Top(t).call \in Calls /\ pending_ \subseteq pending_' \cup {Top(t).call}
    BY <1>9, <2>1, TopCall DEF CancelClears
  <2> QED BY <1>9, <1>l, <2>1, <2>2, OrderStays, FollowsShapes, ThreadEffects
<1>10. ASSUME NEW m \in Modules, RemoveAllFor(m) PROVE Ordered'
  <2>1. pending_' = pending_ /\ (made \cup provided)' \subseteq pending_
    BY <1>10 DEF RemoveAllFor, ServedBy, flags
  <2> QED BY <1>10, <1>r, <1>o, <2>1, FollowsShapes, RemovalEffects
<1>11. ASSUME NEW k \in Calls, RemoveCancels(k) PROVE Ordered'
  <2> DEFINE f == MkFrame("cancel", k, "flag")
  <2>1. /\ pending_' = pending_ /\ (made \cup provided)' \subseteq made \cup provided
        /\ f.op # "remove" /\ f.call = k
    BY <1>11 DEF RemoveCancels, flags, MkFrame
  <2>2. UNCHANGED stack \/ (Grows(Runner, f) /\ k \in pending_)
    BY <1>11, RemovalEffects
  <2> HIDE DEF f
  <2>3. ASSUME NEW a \in Calls, NEW b \in Calls, Follows(a, b)' PROVE Follows(a, b) \/ b \in pending_'
    BY <1>r, <2>1, <2>2, <2>3, FollowsShapes
  <2> QED BY <1>o, <2>1, <2>3
<1>12. ASSUME NEW k \in Calls, RemoveDelivers(k) PROVE Ordered'
  <2> DEFINE f == MkFrame("deliver", k, "lock")
  <2>1. /\ pending_' = pending_ /\ (made \cup provided)' \subseteq made \cup provided
        /\ f.op # "remove" /\ f.call = k /\ On(Runner, "remove", "work") /\ k \in provided
    BY <1>12 DEF RemoveDelivers, flags, MkFrame
  <2>2. Grows(Runner, f)
    BY <1>12, RemovalEffects
  <2>3. /\ Len(stack[Runner]) \in Depths(Runner)
        /\ stack[Runner][Len(stack[Runner])].op = "remove"
    BY <2>1, RunnerTop DEF Shaped
  <2> HIDE DEF f
  <2>4. ASSUME NEW a \in Calls, Follows(a, k)' PROVE Follows(a, k) \/ k \in pending_'
    <3>1. \/ \E u \in Threads : \E i, j \in Depths(u)' :
                /\ i < j
                /\ stack'[u][i].op = "deliver" /\ stack'[u][i].call = a
                /\ stack'[u][j].op # "remove" /\ stack'[u][j].call = k
          \/ /\ k \in made' \cup provided'
             /\ \E i, j \in Depths(Runner)' :
                   /\ i < j
                   /\ stack'[Runner][i].op = "deliver" /\ stack'[Runner][i].call = a
                   /\ stack'[Runner][j].op = "remove"
      BY <2>4 DEF Follows
    <3>2. CASE \E i, j \in Depths(Runner)' :
                   /\ i < j
                   /\ stack'[Runner][i].op = "deliver" /\ stack'[Runner][i].call = a
                   /\ stack'[Runner][j].op = "remove"
      <4>1. PICK i \in Depths(Runner)', j \in Depths(Runner)' :
                   /\ i < j
                   /\ stack'[Runner][i].op = "deliver" /\ stack'[Runner][i].call = a
                   /\ stack'[Runner][j].op = "remove"
        BY <3>2
      <4>2. Same(Runner, i) /\ Same(Runner, j)
        BY <1>r, <2>1, <2>2, <4>1, Frames DEF Grows, Depths
      <4> QED BY <2>1, <4>1, <4>2 DEF Follows, Same
    <3>3. CASE \E u \in Threads : \E i, j \in Depths(u)' :
                /\ i < j
                /\ stack'[u][i].op = "deliver" /\ stack'[u][i].call = a
                /\ stack'[u][j].op # "remove" /\ stack'[u][j].call = k
      <4>0. PICK u \in Threads : \E i, j \in Depths(u)' :
                /\ i < j
                /\ stack'[u][i].op = "deliver" /\ stack'[u][i].call = a
                /\ stack'[u][j].op # "remove" /\ stack'[u][j].call = k
        BY <3>3
      <4>1. PICK i \in Depths(u)', j \in Depths(u)' :
                /\ i < j
                /\ stack'[u][i].op = "deliver" /\ stack'[u][i].call = a
                /\ stack'[u][j].op # "remove" /\ stack'[u][j].call = k
        BY <4>0
      <4>2. Same(u, i)
        BY <2>2, <4>1, Frames DEF Grows, Depths
      <4>3. CASE Same(u, j)
        BY <4>1, <4>2, <4>3 DEF Follows, Same
      <4>4. CASE ~Same(u, j)
        <5>1. u = Runner
          BY <2>2, <4>1, <4>4 DEF Grows
        <5>2. i < Len(stack[Runner]) /\ i \in Depths(Runner) /\ stack[Runner][i] = stack'[Runner][i]
          BY <2>3, <4>1, <4>2, <5>1, <1>r, Frames DEF Same, Depths
        <5> QED BY <2>1, <2>3, <4>1, <5>1, <5>2 DEF Follows
      <4> QED BY <4>3, <4>4
    <3> QED BY <3>1, <3>2, <3>3
  <2>5. ASSUME NEW a \in Calls, NEW b \in Calls, Follows(a, b)' PROVE Follows(a, b) \/ b \in pending_'
    BY <1>r, <2>1, <2>2, <2>4, <2>5, FollowsShapes
  <2> QED BY <1>o, <2>1, <2>5
<1>13. ASSUME RemoveReturns PROVE Ordered'
  <2>1. UNCHANGED <<made, provided, pending_>>
    BY <1>13 DEF RemoveReturns, removal, flags
  <2> QED BY <1>13, <1>r, <1>o, <2>1, FollowsShapes, RemovalEffects
<1>14. ASSUME NEW k \in Calls, InvokeAccepts(k) PROVE Ordered'
  BY <1>14, <1>q DEF InvokeAccepts, removal, flags
<1>15. ASSUME NEW k \in Calls, RunCancelled(k) PROVE Ordered'
  BY <1>15, <1>q DEF RunCancelled, removal, flags
<1>16. ASSUME NEW k \in Calls, Run(k) PROVE Ordered'
  BY <1>16, <1>q DEF Run, removal, flags
<1>17. ASSUME NEW k \in Calls, ProviderEntered(k) PROVE Ordered'
  BY <1>17, <1>q DEF ProviderEntered, removal, flags
<1>18. ASSUME NEW t \in Threads, NEW k \in Calls, RunProviderGone(t, k) PROVE Ordered'
  <2> DEFINE f == MkFrame("deliver", k, "lock")
  <2>1. UNCHANGED <<made, provided, pending_>> /\ f.op # "remove" /\ f.call = k
    BY <1>18 DEF RunProviderGone, removal, flags, MkFrame
  <2>2. UNCHANGED stack \/ (Grows(t, f) /\ k \in pending_)
    BY <1>18, CallEffects
  <2> HIDE DEF f
  <2>3. ASSUME NEW a \in Calls, NEW b \in Calls, Follows(a, b)' PROVE Follows(a, b) \/ b \in pending_'
    BY <2>1, <2>2, <2>3, FollowsShapes
  <2> QED BY <1>o, <2>1, <2>3
<1>19. ASSUME NEW t \in Threads, NEW k \in Calls, ProviderUnloading(t, k) PROVE Ordered'
  <2> DEFINE f == MkFrame("deliver", k, "lock")
  <2>1. UNCHANGED <<made, provided, pending_>> /\ f.op # "remove" /\ f.call = k
    BY <1>19 DEF ProviderUnloading, removal, flags, MkFrame
  <2>2. UNCHANGED stack \/ (Grows(t, f) /\ k \in pending_)
    BY <1>19, CallEffects
  <2> HIDE DEF f
  <2>3. ASSUME NEW a \in Calls, NEW b \in Calls, Follows(a, b)' PROVE Follows(a, b) \/ b \in pending_'
    BY <2>1, <2>2, <2>3, FollowsShapes
  <2> QED BY <1>o, <2>1, <2>3
<1>20. ASSUME NEW c \in Commands, Register(c) PROVE Ordered'
  BY <1>20, <1>q DEF Register, removal, flags
<1>21. ASSUME NEW c \in Commands, Unregister(c) PROVE Ordered'
  BY <1>21, <1>q DEF Unregister, removal, flags
<1>22. ASSUME NEW k \in Calls, InvokeChecks(k) PROVE Ordered'
  BY <1>22, <1>q DEF InvokeChecks, removal, flags
<1>23. ASSUME NEW k \in Calls, InvokeRefused(k) PROVE Ordered'
  BY <1>23, <1>q DEF InvokeRefused, removal, flags
<1>24. ASSUME NEW k \in Calls, InvokeLooksUp(k) PROVE Ordered'
  BY <1>24, <1>q DEF InvokeLooksUp, removal, flags
<1>25. ASSUME NEW t \in Threads, NEW k \in Calls, Complete(t, k) PROVE Ordered'
  <2> DEFINE f == MkFrame("deliver", k, "lock")
  <2>1. UNCHANGED <<made, provided, pending_>> /\ f.op # "remove" /\ f.call = k
    BY <1>25 DEF Complete, removal, flags, MkFrame
  <2>2. UNCHANGED stack \/ (Grows(t, f) /\ k \in pending_)
    BY <1>25, CallEffects
  <2> HIDE DEF f
  <2>3. ASSUME NEW a \in Calls, NEW b \in Calls, Follows(a, b)' PROVE Follows(a, b) \/ b \in pending_'
    BY <2>1, <2>2, <2>3, FollowsShapes
  <2> QED BY <1>o, <2>1, <2>3
<1>26. ASSUME NEW t \in Threads, NEW k \in Calls, CancelUnknown(t, k) PROVE Ordered'
  BY <1>26, <1>q DEF CancelUnknown, removal, flags
<1>27. ASSUME NEW t \in Threads, NEW k \in Calls, CancelFinds(t, k) PROVE Ordered'
  <2> DEFINE f == MkFrame("cancel", k, "flag")
  <2>1. UNCHANGED <<made, provided, pending_>> /\ f.op # "remove" /\ f.call = k
    BY <1>27 DEF CancelFinds, removal, flags, MkFrame
  <2>2. UNCHANGED stack \/ (Grows(t, f) /\ k \in pending_)
    BY <1>27, CallEffects DEF CancelFinds
  <2> HIDE DEF f
  <2>3. ASSUME NEW a \in Calls, NEW b \in Calls, Follows(a, b)' PROVE Follows(a, b) \/ b \in pending_'
    BY <2>1, <2>2, <2>3, FollowsShapes
  <2> QED BY <1>o, <2>1, <2>3
<1>28. ASSUME NEW m \in Modules, GateCloses(m) PROVE Ordered'
  <2>1. pending_' = pending_ /\ made' = {} /\ provided' = {}
    BY <1>28 DEF GateCloses, Shaped, OneRemoval, flags
  <2>2. Grows(Runner, MkFrame("remove", NoModule, "close"))
    BY <1>28, RemovalEffects
  <2>3. ASSUME NEW a \in Calls, NEW b \in Calls, Follows(a, b)' PROVE Follows(a, b)
    <3>0. PICK u \in Threads : \E i, j \in Depths(u)' :
                /\ i < j
                /\ stack'[u][i].op = "deliver" /\ stack'[u][i].call = a
                /\ stack'[u][j].op # "remove" /\ stack'[u][j].call = b
      BY <2>1, <2>3 DEF Follows
    <3>1. PICK i \in Depths(u)', j \in Depths(u)' :
                /\ i < j
                /\ stack'[u][i].op = "deliver" /\ stack'[u][i].call = a
                /\ stack'[u][j].op # "remove" /\ stack'[u][j].call = b
      BY <3>0
    <3>2. Same(u, i) /\ Same(u, j)
      BY <2>2, <3>1, Frames DEF Grows, Depths, MkFrame
    <3> QED BY <3>1, <3>2 DEF Follows, Same
  <2> QED BY <1>o, <2>1, <2>3
<1>29. ASSUME NEW m \in Modules, Reopen(m) PROVE Ordered'
  BY <1>29, <1>q DEF Reopen, removal, flags
<1>30. ASSUME NEW m \in Modules, GateOpens(m) PROVE Ordered'
  BY <1>30, <1>q DEF GateOpens, removal, flags
<1> QED
  BY <1>1, <1>2, <1>3, <1>4, <1>5, <1>6, <1>7, <1>8, <1>9, <1>10, <1>11, <1>12, <1>13, <1>14, <1>15,
     <1>16, <1>17, <1>18, <1>19, <1>20, <1>21, <1>22, <1>23, <1>24, <1>25, <1>26, <1>27, <1>28, <1>29, <1>30
  DEF Next, ThreadStep, RemoveStep, InvokeStep, Environment

-----------------------------------------------------------------------------
(* Calls that are still seen to.                                           *)

(* A delivery stays, unless it is on top and moves on or ends.             *)
LEMMA InFrameShapes ==
    ASSUME TypeOK, NEW t \in Threads, NEW k, NEW where, InFrame(k, where)
    PROVE  /\ UNCHANGED stack => InFrame(k, where)'
           /\ \A f : Grows(t, f) => InFrame(k, where)'
           /\ Shrinks(t) /\ stack[t] # <<>> => InFrame(k, where)' \/ Delivers(Top(t), k, where)
           /\ \A at : Moves(t, at) => InFrame(k, where)' \/ Delivers(Top(t), k, where)
<1>1. PICK u \in Threads : \E i \in Depths(u) : Delivers(stack[u][i], k, where)
  BY DEF InFrame
<1>2. PICK i \in Depths(u) : Delivers(stack[u][i], k, where)
  BY <1>1
<1>3. Same(u, i) => InFrame(k, where)'
  BY <1>2 DEF InFrame, Same, Delivers
<1>4. UNCHANGED stack => Same(u, i)
  BY DEF Same, Depths
<1>5. \A f : Grows(t, f) => Same(u, i)
  BY DEF Grows
<1>6. Shrinks(t) => Same(u, i) \/ (u = t /\ i = Len(stack[t]))
  BY DEF Shrinks
<1>7. \A at : Moves(t, at) => Same(u, i) \/ (u = t /\ i = Len(stack[t]))
  BY DEF Moves
<1> QED BY <1>2, <1>3, <1>4, <1>5, <1>6, <1>7 DEF Top

(* A delivery that begins, or moves on.                                    *)
LEMMA NewFrame ==
    ASSUME TypeOK, NEW t \in Threads, NEW k \in Calls, NEW where, NEW at \in where
    PROVE  /\ Grows(t, MkFrame("deliver", k, at)) => InFrame(k, where)'
           /\ Moves(t, at) /\ stack[t] # <<>> /\ Top(t).op = "deliver" /\ Top(t).call = k
                 => InFrame(k, where)'
<1>1. ASSUME Grows(t, MkFrame("deliver", k, at)) PROVE InFrame(k, where)'
  <2>1. Len(stack'[t]) \in Depths(t)' /\ ~Same(t, Len(stack'[t]))
    BY <1>1, Frames DEF Grows, Depths, Same
  <2>2. stack'[t][Len(stack'[t])] = MkFrame("deliver", k, at)
    BY <1>1, <2>1 DEF Grows
  <2> QED BY <2>1, <2>2 DEF InFrame, Delivers, MkFrame
<1>2. ASSUME Moves(t, at), stack[t] # <<>>, Top(t).op = "deliver", Top(t).call = k
      PROVE  InFrame(k, where)'
  <2>1. Len(stack[t]) \in Depths(t) /\ Len(stack[t]) \in Depths(t)'
    BY <1>2, FrameType DEF Moves
  <2>2. /\ stack'[t][Len(stack[t])].op = "deliver"
        /\ stack'[t][Len(stack[t])].call = k
        /\ stack'[t][Len(stack[t])].at = at
    BY <1>2, <2>1 DEF Moves, Top
  <2> QED BY <2>1, <2>2 DEF InFrame, Delivers
<1> QED BY <1>1, <1>2

(* A delivery decides only once the call is out of pending_, and sets      *)
(* `finished` unless the call is over.                                     *)
LEMMA SeenKept ==
    ASSUME TypeOK, Flagged, Seen, [Next]_vars
    PROVE  Seen'
<1>r. Runner \in Threads
  BY RegistryAssumption
<1>f. Forward
  BY GoesForward
<1>s. ASSUME \A k \in pending_ \ pending_' : k \in finished' \cup cancelled' \/ InFrame(k, {"decide"})',
             \A k \in Calls : InFrame(k, {"decide"}) =>
                k \in finished' \cup cancelled' \/ InFrame(k, {"decide"})'
      PROVE  Seen'
  BY <1>f, <1>s DEF Seen, Forward
<1>q. UNCHANGED stack /\ pending_ \subseteq pending_' => Seen'
  BY <1>r, <1>s, InFrameShapes
<1>1. CASE UNCHANGED vars
  BY <1>1, <1>q DEF vars, flags
<1>2. ASSUME NEW t \in Threads, DeliverLocks(t) PROVE Seen'
  <2>1. pending_' = pending_ /\ On(t, "deliver", "lock")
    BY <1>2 DEF DeliverLocks, flags
  <2>2. stack[t] # <<>> /\ \A k : ~Delivers(Top(t), k, {"decide"})
    BY <1>2, <2>1 DEF On, Delivers
  <2> QED BY <1>2, <1>s, <2>1, <2>2, InFrameShapes, ThreadEffects
<1>3. ASSUME NEW t \in Threads, DeliverErases(t) PROVE Seen'
  <2>1. pending_' = pending_ \ {Top(t).call} /\ On(t, "deliver", "erase")
    BY <1>3 DEF DeliverErases
  <2>2. /\ stack[t] # <<>> /\ Top(t).op = "deliver" /\ Top(t).call \in Calls
        /\ \A k : ~Delivers(Top(t), k, {"decide"})
    BY <2>1, TopCall DEF On, Delivers
  <2>3. Moves(t, "decide")
    BY <1>3, ThreadEffects
  <2> QED BY <1>s, <2>1, <2>2, <2>3, InFrameShapes, NewFrame
<1>4. ASSUME NEW t \in Threads, DeliverIgnored(t) PROVE Seen'
  <2>1. pending_' = pending_ /\ On(t, "deliver", "decide")
    BY <1>4 DEF DeliverIgnored, flags
  <2>2. stack[t] # <<>> /\ Top(t).call \in finished' \cup cancelled'
    BY <1>4, <2>1 DEF On, Delivers, DeliverIgnored, Over, flags
  <2> QED BY <1>4, <1>s, <2>1, <2>2, InFrameShapes, ThreadEffects DEF Delivers
<1>5. ASSUME NEW t \in Threads, DeliverClaims(t) PROVE Seen'
  <2>1. pending_' = pending_ /\ On(t, "deliver", "decide")
    BY <1>5 DEF DeliverClaims, flags
  <2>2. stack[t] # <<>> /\ Top(t).call \in finished' \cup cancelled'
    BY <1>5, <2>1 DEF On, Delivers, DeliverClaims, Over, flags
  <2> QED BY <1>5, <1>s, <2>1, <2>2, InFrameShapes, ThreadEffects DEF Delivers
<1>6. ASSUME NEW t \in Threads, DeliverCalls(t) PROVE Seen'
  <2>1. pending_' = pending_ /\ On(t, "deliver", "call")
    BY <1>6 DEF DeliverCalls, flags
  <2>2. stack[t] # <<>> /\ \A k : ~Delivers(Top(t), k, {"decide"})
    BY <1>6, <2>1 DEF On, Delivers
  <2> QED BY <1>6, <1>s, <2>1, <2>2, InFrameShapes, ThreadEffects
<1>7. ASSUME NEW t \in Threads, DoneReturns(t) PROVE Seen'
  <2>1. pending_' = pending_ /\ On(t, "deliver", "done")
    BY <1>7 DEF DoneReturns, flags
  <2>2. stack[t] # <<>> /\ \A k : ~Delivers(Top(t), k, {"decide"})
    BY <1>7, <2>1 DEF On, Delivers
  <2> QED BY <1>7, <1>s, <2>1, <2>2, InFrameShapes, ThreadEffects
<1>8. ASSUME NEW t \in Threads, CancelFlags(t) PROVE Seen'
  <2>1. pending_' = pending_ /\ On(t, "cancel", "flag")
    BY <1>8 DEF CancelFlags, flags
  <2>2. stack[t] # <<>> /\ \A k : ~Delivers(Top(t), k, {"decide"})
    BY <1>8, <2>1 DEF On, Delivers
  <2> QED BY <1>8, <1>s, <2>1, <2>2, InFrameShapes, ThreadEffects
<1>9. ASSUME NEW t \in Threads, CancelClears(t) PROVE Seen'
  <2>1. /\ pending_' = pending_ \ {Top(t).call} /\ cancelled' = cancelled
        /\ On(t, "cancel", "lock")
    BY <1>9 DEF CancelClears
  <2>2. /\ stack[t] # <<>> /\ Top(t).call \in cancelled'
        /\ \A k : ~Delivers(Top(t), k, {"decide"})
    BY <2>1, TopCall, TopFits DEF On, Delivers, Fits
  <2> QED BY <1>9, <1>s, <2>1, <2>2, InFrameShapes, ThreadEffects
<1>10. ASSUME NEW m \in Modules, RemoveAllFor(m) PROVE Seen'
  <2>1. pending_' = pending_ /\ On(Runner, "remove", "close")
    BY <1>10 DEF RemoveAllFor, flags
  <2>2. stack[Runner] # <<>> /\ \A k : ~Delivers(Top(Runner), k, {"decide"})
    BY <2>1 DEF On, Delivers
  <2> QED BY <1>10, <1>r, <1>s, <2>1, <2>2, InFrameShapes, RemovalEffects
<1>11. ASSUME NEW k \in Calls, RemoveCancels(k) PROVE Seen'
  <2>1. pending_' = pending_
    BY <1>11 DEF RemoveCancels, flags
  <2> QED BY <1>11, <1>r, <1>s, <1>q, <2>1, InFrameShapes, RemovalEffects
<1>12. ASSUME NEW k \in Calls, RemoveDelivers(k) PROVE Seen'
  <2>1. pending_' = pending_
    BY <1>12 DEF RemoveDelivers, flags
  <2> QED BY <1>12, <1>r, <1>s, <1>q, <2>1, InFrameShapes, RemovalEffects
<1>13. ASSUME RemoveReturns PROVE Seen'
  <2>1. pending_' = pending_ /\ On(Runner, "remove", "work")
    BY <1>13 DEF RemoveReturns, flags
  <2>2. stack[Runner] # <<>> /\ \A k : ~Delivers(Top(Runner), k, {"decide"})
    BY <2>1 DEF On, Delivers
  <2> QED BY <1>13, <1>r, <1>s, <2>1, <2>2, InFrameShapes, RemovalEffects
<1>14. ASSUME NEW k \in Calls, InvokeAccepts(k) PROVE Seen'
  BY <1>14, <1>q DEF InvokeAccepts, flags
<1>15. ASSUME NEW k \in Calls, RunCancelled(k) PROVE Seen'
  BY <1>15, <1>q DEF RunCancelled, flags
<1>16. ASSUME NEW k \in Calls, Run(k) PROVE Seen'
  BY <1>16, <1>q DEF Run, flags
<1>17. ASSUME NEW k \in Calls, ProviderEntered(k) PROVE Seen'
  BY <1>17, <1>q DEF ProviderEntered, flags
<1>18. ASSUME NEW t \in Threads, NEW k \in Calls, RunProviderGone(t, k) PROVE Seen'
  <2>1. pending_' = pending_
    BY <1>18 DEF RunProviderGone, flags
  <2> QED BY <1>18, <1>s, <1>q, <2>1, InFrameShapes, CallEffects
<1>19. ASSUME NEW t \in Threads, NEW k \in Calls, ProviderUnloading(t, k) PROVE Seen'
  <2>1. pending_' = pending_
    BY <1>19 DEF ProviderUnloading, flags
  <2> QED BY <1>19, <1>s, <1>q, <2>1, InFrameShapes, CallEffects
<1>20. ASSUME NEW c \in Commands, Register(c) PROVE Seen'
  BY <1>20, <1>q DEF Register, flags
<1>21. ASSUME NEW c \in Commands, Unregister(c) PROVE Seen'
  BY <1>21, <1>q DEF Unregister, flags
<1>22. ASSUME NEW k \in Calls, InvokeChecks(k) PROVE Seen'
  BY <1>22, <1>q DEF InvokeChecks, flags
<1>23. ASSUME NEW k \in Calls, InvokeRefused(k) PROVE Seen'
  BY <1>23, <1>q DEF InvokeRefused, flags
<1>24. ASSUME NEW k \in Calls, InvokeLooksUp(k) PROVE Seen'
  BY <1>24, <1>q DEF InvokeLooksUp, flags
<1>25. ASSUME NEW t \in Threads, NEW k \in Calls, Complete(t, k) PROVE Seen'
  <2>1. pending_' = pending_
    BY <1>25 DEF Complete, flags
  <2> QED BY <1>25, <1>s, <1>q, <2>1, InFrameShapes, CallEffects
<1>26. ASSUME NEW t \in Threads, NEW k \in Calls, CancelUnknown(t, k) PROVE Seen'
  BY <1>26, <1>q DEF CancelUnknown, flags
<1>27. ASSUME NEW t \in Threads, NEW k \in Calls, CancelFinds(t, k) PROVE Seen'
  <2>1. pending_' = pending_
    BY <1>27 DEF CancelFinds, flags
  <2> QED BY <1>27, <1>s, <1>q, <2>1, InFrameShapes, CallEffects
<1>28. ASSUME NEW m \in Modules, GateCloses(m) PROVE Seen'
  <2>1. pending_' = pending_
    BY <1>28 DEF GateCloses, flags
  <2> QED BY <1>28, <1>r, <1>s, <1>q, <2>1, InFrameShapes, RemovalEffects
<1>29. ASSUME NEW m \in Modules, Reopen(m) PROVE Seen'
  BY <1>29, <1>q DEF Reopen, flags
<1>30. ASSUME NEW m \in Modules, GateOpens(m) PROVE Seen'
  BY <1>30, <1>q DEF GateOpens, flags
<1> QED
  BY <1>1, <1>2, <1>3, <1>4, <1>5, <1>6, <1>7, <1>8, <1>9, <1>10, <1>11, <1>12, <1>13, <1>14, <1>15,
     <1>16, <1>17, <1>18, <1>19, <1>20, <1>21, <1>22, <1>23, <1>24, <1>25, <1>26, <1>27, <1>28, <1>29, <1>30
  DEF Next, ThreadStep, RemoveStep, InvokeStep, Environment

(* What is pending on the commands of a closed module.                     *)
LEMMA WithdrawnKept ==
    ASSUME TypeOK, Begun, Withdrawn, [Next]_vars
    PROVE  Withdrawn'
<1>r. Runner \in Threads
  BY RegistryAssumption
<1>f. Forward
  BY GoesForward
<1> DEFINE W == {"lock", "erase"}
<1>e. "lock" \in W /\ "erase" \in W
  OBVIOUS
<1>w. ASSUME UNCHANGED <<providers_, closed_, invoke, provider, removing, provided>>,
             pending_' \subseteq pending_, cancelled \subseteq cancelled',
             \A k \in pending_' : InFrame(k, W) => InFrame(k, W)'
      PROVE  Withdrawn'
  BY <1>w DEF Withdrawn, Accepted
<1>q. UNCHANGED <<stack, providers_, closed_, invoke, provider, removing, provided, pending_, cancelled>>
         => Withdrawn'
  BY <1>r, <1>w, InFrameShapes
<1>1. CASE UNCHANGED vars
  BY <1>1, <1>q DEF vars, tables, calls, flags, removal
<1>2. ASSUME NEW t \in Threads, DeliverLocks(t) PROVE Withdrawn'
  <2>1. /\ UNCHANGED <<providers_, closed_, invoke, provider, removing, provided, pending_, cancelled>>
        /\ On(t, "deliver", "lock")
    BY <1>2 DEF DeliverLocks, tables, calls, flags, removal
  <2>2. stack[t] # <<>> /\ Top(t).op = "deliver" /\ Top(t).call \in Calls /\ Moves(t, "erase")
    BY <1>2, <2>1, TopCall, ThreadEffects DEF On
  <2>3. \A k : Delivers(Top(t), k, W) => InFrame(k, W)'
    BY <1>e, <2>2, NewFrame DEF Delivers
  <2>4. \A k \in pending_' : InFrame(k, W) => InFrame(k, W)'
    BY <2>2, <2>3, InFrameShapes
  <2> QED BY <1>w, <2>1, <2>4
<1>3. ASSUME NEW t \in Threads, DeliverErases(t) PROVE Withdrawn'
  <2>1. /\ UNCHANGED <<providers_, closed_, invoke, provider, removing, provided, cancelled>>
        /\ pending_' = pending_ \ {Top(t).call}
    BY <1>3 DEF DeliverErases, tables, calls, removal
  <2>2. \A k \in pending_' : ~Delivers(Top(t), k, W)
    BY <2>1 DEF Delivers
  <2>3. \A k \in pending_' : InFrame(k, W) => InFrame(k, W)'
    BY <1>3, <2>2, InFrameShapes, ThreadEffects
  <2> QED BY <1>w, <2>1, <2>3
<1>4. ASSUME NEW t \in Threads, DeliverIgnored(t) PROVE Withdrawn'
  <2>1. /\ UNCHANGED <<providers_, closed_, invoke, provider, removing, provided>>
        /\ pending_' \subseteq pending_ /\ cancelled \subseteq cancelled'
        /\ On(t, "deliver", "decide")
    BY <1>4 DEF DeliverIgnored, tables, calls, flags, removal
  <2>2. stack[t] # <<>> /\ \A k : ~Delivers(Top(t), k, W)
    BY <2>1 DEF On, Delivers
  <2>3. \A k \in pending_' : InFrame(k, W) => InFrame(k, W)'
    BY <1>4, <2>2, InFrameShapes, ThreadEffects
  <2> QED BY <1>w, <2>1, <2>3
<1>5. ASSUME NEW t \in Threads, DeliverClaims(t) PROVE Withdrawn'
  <2>1. /\ UNCHANGED <<providers_, closed_, invoke, provider, removing, provided>>
        /\ pending_' \subseteq pending_ /\ cancelled \subseteq cancelled'
        /\ On(t, "deliver", "decide")
    BY <1>5 DEF DeliverClaims, tables, calls, flags, removal
  <2>2. stack[t] # <<>> /\ \A k : ~Delivers(Top(t), k, W)
    BY <2>1 DEF On, Delivers
  <2>3. \A k \in pending_' : InFrame(k, W) => InFrame(k, W)'
    BY <1>5, <2>2, InFrameShapes, ThreadEffects
  <2> QED BY <1>w, <2>1, <2>3
<1>6. ASSUME NEW t \in Threads, DeliverCalls(t) PROVE Withdrawn'
  <2>1. /\ UNCHANGED <<providers_, closed_, invoke, provider, removing, provided>>
        /\ pending_' \subseteq pending_ /\ cancelled \subseteq cancelled'
        /\ On(t, "deliver", "call")
    BY <1>6 DEF DeliverCalls, tables, calls, flags, removal
  <2>2. stack[t] # <<>> /\ \A k : ~Delivers(Top(t), k, W)
    BY <2>1 DEF On, Delivers
  <2>3. \A k \in pending_' : InFrame(k, W) => InFrame(k, W)'
    BY <1>6, <2>2, InFrameShapes, ThreadEffects
  <2> QED BY <1>w, <2>1, <2>3
<1>7. ASSUME NEW t \in Threads, DoneReturns(t) PROVE Withdrawn'
  <2>1. /\ UNCHANGED <<providers_, closed_, invoke, provider, removing, provided>>
        /\ pending_' \subseteq pending_ /\ cancelled \subseteq cancelled'
        /\ On(t, "deliver", "done")
    BY <1>7 DEF DoneReturns, tables, calls, flags, removal
  <2>2. stack[t] # <<>> /\ \A k : ~Delivers(Top(t), k, W)
    BY <2>1 DEF On, Delivers
  <2>3. \A k \in pending_' : InFrame(k, W) => InFrame(k, W)'
    BY <1>7, <2>2, InFrameShapes, ThreadEffects
  <2> QED BY <1>w, <2>1, <2>3
<1>8. ASSUME NEW t \in Threads, CancelFlags(t) PROVE Withdrawn'
  <2>1. /\ UNCHANGED <<providers_, closed_, invoke, provider, removing, provided>>
        /\ pending_' \subseteq pending_ /\ cancelled \subseteq cancelled'
        /\ On(t, "cancel", "flag")
    BY <1>8 DEF CancelFlags, tables, calls, flags, removal
  <2>2. stack[t] # <<>> /\ \A k : ~Delivers(Top(t), k, W)
    BY <2>1 DEF On, Delivers
  <2>3. \A k \in pending_' : InFrame(k, W) => InFrame(k, W)'
    BY <1>8, <2>2, InFrameShapes, ThreadEffects
  <2> QED BY <1>w, <2>1, <2>3
<1>9. ASSUME NEW t \in Threads, CancelClears(t) PROVE Withdrawn'
  <2>1. /\ UNCHANGED <<providers_, closed_, invoke, provider, removing, provided>>
        /\ pending_' \subseteq pending_ /\ cancelled \subseteq cancelled'
        /\ On(t, "cancel", "lock")
    BY <1>9 DEF CancelClears, tables, calls, flags, removal
  <2>2. stack[t] # <<>> /\ \A k : ~Delivers(Top(t), k, W)
    BY <2>1 DEF On, Delivers
  <2>3. \A k \in pending_' : InFrame(k, W) => InFrame(k, W)'
    BY <1>9, <2>2, InFrameShapes, ThreadEffects
  <2> QED BY <1>w, <2>1, <2>3
<1>10. ASSUME NEW m \in Modules, RemoveAllFor(m) PROVE Withdrawn'
  <2>1. /\ UNCHANGED <<invoke, provider, removing, pending_, cancelled>>
        /\ removing = m /\ closed_' = closed_ \cup {m} /\ provided' = ServedBy(m)
        /\ providers_' = [c \in Commands |-> IF OwnerOf[c] = m THEN 0 ELSE providers_[c]]
        /\ On(Runner, "remove", "close")
    BY <1>10 DEF RemoveAllFor, calls, flags
  <2>2. stack[Runner] # <<>> /\ \A j : ~Delivers(Top(Runner), j, W)
    BY <2>1 DEF On, Delivers
  <2>3. \A j \in pending_' : InFrame(j, W) => InFrame(j, W)'
    BY <1>10, <1>r, <2>2, InFrameShapes, RemovalEffects
  <2>4. \A c \in Commands : OwnerOf[c] \in closed_' => providers_'[c] = 0
    BY <2>1 DEF Withdrawn
  <2>5. \A k \in Calls : (Accepted(k) \/ invoke[k] = "found")' => provider'[k] # 0
    BY <2>1 DEF Withdrawn, Accepted
  <2>6. ASSUME NEW k \in pending_', OwnerOf[CommandOf[k]] \in closed_',
               CallerOf[k] # OwnerOf[CommandOf[k]]
        PROVE  \/ invoke'[k] = "accepted" \/ k \in cancelled'
               \/ removing' = OwnerOf[CommandOf[k]] /\ k \in provided'
               \/ InFrame(k, W)'
    <3>1. CASE OwnerOf[CommandOf[k]] = m
      BY <2>1, <2>6, <3>1 DEF ServedBy
    <3>2. CASE OwnerOf[CommandOf[k]] # m
      BY <2>1, <2>3, <2>6, <3>2 DEF Withdrawn
    <3> QED BY <3>1, <3>2
  <2> QED BY <2>4, <2>5, <2>6 DEF Withdrawn
<1>11. ASSUME NEW k \in Calls, RemoveCancels(k) PROVE Withdrawn'
  <2>1. UNCHANGED <<providers_, closed_, invoke, provider, removing, provided, pending_, cancelled>>
    BY <1>11 DEF RemoveCancels, tables, calls, flags, removal
  <2>2. \A j \in pending_' : InFrame(j, W) => InFrame(j, W)'
    BY <1>11, <1>r, InFrameShapes, RemovalEffects
  <2> QED BY <1>w, <2>1, <2>2
<1>12. ASSUME NEW k \in Calls, RemoveDelivers(k) PROVE Withdrawn'
  <2>1. /\ UNCHANGED <<providers_, closed_, invoke, provider, removing, pending_, cancelled>>
        /\ provided' = provided \ {k}
    BY <1>12 DEF RemoveDelivers, tables, calls, flags
  <2>2. \A j \in pending_' : InFrame(j, W) => InFrame(j, W)'
    BY <1>12, <1>r, InFrameShapes, RemovalEffects
  <2>3. InFrame(k, W)'
    BY <1>12, <1>r, <1>e, NewFrame, RemovalEffects
  <2> QED BY <2>1, <2>2, <2>3 DEF Withdrawn, Accepted
<1>13. ASSUME RemoveReturns PROVE Withdrawn'
  <2>1. /\ UNCHANGED <<providers_, closed_, invoke, provider, provided, pending_, cancelled>>
        /\ provided = {} /\ On(Runner, "remove", "work")
    BY <1>13 DEF RemoveReturns, tables, calls, flags
  <2>2. stack[Runner] # <<>> /\ \A j : ~Delivers(Top(Runner), j, W)
    BY <2>1 DEF On, Delivers
  <2>3. \A j \in pending_' : InFrame(j, W) => InFrame(j, W)'
    BY <1>13, <1>r, <2>2, InFrameShapes, RemovalEffects
  <2> QED BY <2>1, <2>3 DEF Withdrawn, Accepted
<1>14. ASSUME NEW k \in Calls, InvokeAccepts(k) PROVE Withdrawn'
  <2>1. /\ UNCHANGED <<providers_, closed_, provider, removing, provided, cancelled>>
        /\ invoke[k] = "found" /\ invoke' = [invoke EXCEPT ![k] = "accepted"]
        /\ pending_' = pending_ \cup {k}
    BY <1>14 DEF InvokeAccepts, tables, calls, flags, removal
  <2>2. \A j \in pending_ : InFrame(j, W) => InFrame(j, W)'
    BY <1>14, <1>r, InFrameShapes DEF InvokeAccepts
  <2> QED BY <2>1, <2>2 DEF Withdrawn, Accepted, TypeOK
<1>15. ASSUME NEW k \in Calls, RunCancelled(k) PROVE Withdrawn'
  <2>1. /\ UNCHANGED <<providers_, closed_, provider, removing, provided, cancelled, pending_>>
        /\ invoke[k] = "accepted" /\ invoke' = [invoke EXCEPT ![k] = "over"]
        /\ k \in cancelled
    BY <1>15 DEF RunCancelled, tables, calls, flags, removal
  <2>2. \A j \in pending_ : InFrame(j, W) => InFrame(j, W)'
    BY <1>15, <1>r, InFrameShapes DEF RunCancelled
  <2> QED BY <2>1, <2>2 DEF Withdrawn, Accepted, TypeOK
<1>16. ASSUME NEW k \in Calls, Run(k) PROVE Withdrawn'
  <2>1. /\ UNCHANGED <<providers_, closed_, provider, removing, provided, cancelled, pending_>>
        /\ invoke[k] = "accepted" /\ invoke' = [invoke EXCEPT ![k] = "calling"]
    BY <1>16 DEF Run, tables, calls, flags, removal
  <2>2. \A j \in pending_ : InFrame(j, W) => InFrame(j, W)'
    BY <1>16, <1>r, InFrameShapes DEF Run
  <2>3. CommandOf[k] \in Commands /\ providers_[CommandOf[k]] = provider[k]
    BY <1>16, RegistryAssumption DEF Run, SameProvider
  <2>4. OwnerOf[CommandOf[k]] \notin closed_
    BY <2>1, <2>3 DEF Withdrawn, Accepted
  <2> QED BY <2>1, <2>2, <2>4 DEF Withdrawn, Accepted, TypeOK
<1>17. ASSUME NEW k \in Calls, ProviderEntered(k) PROVE Withdrawn'
  <2>1. /\ UNCHANGED <<providers_, closed_, provider, removing, provided, cancelled, pending_>>
        /\ invoke[k] = "calling" /\ invoke' = [invoke EXCEPT ![k] = "served"]
    BY <1>17 DEF ProviderEntered, tables, calls, flags, removal
  <2>2. \A j \in pending_ : InFrame(j, W) => InFrame(j, W)'
    BY <1>17, <1>r, InFrameShapes DEF ProviderEntered
  <2> QED BY <2>1, <2>2 DEF Withdrawn, Accepted, TypeOK
<1>18. ASSUME NEW t \in Threads, NEW k \in Calls, RunProviderGone(t, k) PROVE Withdrawn'
  <2>1. /\ UNCHANGED <<providers_, closed_, provider, removing, provided, cancelled, pending_>>
        /\ invoke[k] = "accepted" /\ invoke' = [invoke EXCEPT ![k] = "over"]
    BY <1>18 DEF RunProviderGone, tables, calls, flags, removal
  <2>2. \A j \in pending_ : InFrame(j, W) => InFrame(j, W)'
    BY <1>18, InFrameShapes, CallEffects
  <2>3. k \in pending_ => InFrame(k, W)'
    BY <1>18, <1>e, NewFrame, CallEffects
  <2> QED BY <2>1, <2>2, <2>3 DEF Withdrawn, Accepted, TypeOK
<1>19. ASSUME NEW t \in Threads, NEW k \in Calls, ProviderUnloading(t, k) PROVE Withdrawn'
  <2>1. /\ UNCHANGED <<providers_, closed_, provider, removing, provided, cancelled, pending_>>
        /\ invoke[k] = "calling" /\ invoke' = [invoke EXCEPT ![k] = "over"]
    BY <1>19 DEF ProviderUnloading, tables, calls, flags, removal
  <2>2. \A j \in pending_ : InFrame(j, W) => InFrame(j, W)'
    BY <1>19, InFrameShapes, CallEffects
  <2>3. k \in pending_ => InFrame(k, W)'
    BY <1>19, <1>e, NewFrame, CallEffects
  <2> QED BY <2>1, <2>2, <2>3 DEF Withdrawn, Accepted, TypeOK
<1>20. ASSUME NEW c \in Commands, Register(c) PROVE Withdrawn'
  <2>1. /\ UNCHANGED <<closed_, invoke, provider, removing, provided, cancelled, pending_>>
        /\ OwnerOf[c] \notin closed_ /\ \E n : providers_' = [providers_ EXCEPT ![c] = n]
    BY <1>20 DEF Register, calls, flags, removal
  <2>2. \A j \in pending_ : InFrame(j, W) => InFrame(j, W)'
    BY <1>20, <1>r, InFrameShapes DEF Register
  <2> QED BY <2>1, <2>2 DEF Withdrawn, Accepted, TypeOK
<1>21. ASSUME NEW c \in Commands, Unregister(c) PROVE Withdrawn'
  <2>1. /\ UNCHANGED <<closed_, invoke, provider, removing, provided, cancelled, pending_>>
        /\ providers_' = [providers_ EXCEPT ![c] = 0]
    BY <1>21 DEF Unregister, calls, flags, removal
  <2>2. \A j \in pending_ : InFrame(j, W) => InFrame(j, W)'
    BY <1>21, <1>r, InFrameShapes DEF Unregister
  <2> QED BY <2>1, <2>2 DEF Withdrawn, Accepted, TypeOK
<1>22. ASSUME NEW k \in Calls, InvokeChecks(k) PROVE Withdrawn'
  <2>1. /\ UNCHANGED <<providers_, closed_, provider, removing, provided, cancelled, pending_>>
        /\ \E s \in {"refused", "checked"} : invoke' = [invoke EXCEPT ![k] = s]
    BY <1>22 DEF InvokeChecks, tables, calls, flags, removal
  <2>2. k \notin pending_
    BY <1>22 DEF InvokeChecks, Begun, Accepted
  <2>3. \A j \in pending_ : InFrame(j, W) => InFrame(j, W)'
    BY <1>22, <1>r, InFrameShapes DEF InvokeChecks
  <2> QED BY <2>1, <2>2, <2>3 DEF Withdrawn, Accepted, TypeOK
<1>23. ASSUME NEW k \in Calls, InvokeRefused(k) PROVE Withdrawn'
  <2>1. /\ UNCHANGED <<providers_, closed_, provider, removing, provided, cancelled, pending_>>
        /\ invoke' = [invoke EXCEPT ![k] = "refused"]
    BY <1>23 DEF InvokeRefused, tables, calls, flags, removal
  <2>2. k \notin pending_
    BY <1>23 DEF InvokeRefused, Begun, Accepted
  <2>3. \A j \in pending_ : InFrame(j, W) => InFrame(j, W)'
    BY <1>23, <1>r, InFrameShapes DEF InvokeRefused
  <2> QED BY <2>1, <2>2, <2>3 DEF Withdrawn, Accepted, TypeOK
<1>24. ASSUME NEW k \in Calls, InvokeLooksUp(k) PROVE Withdrawn'
  <2>1. /\ UNCHANGED <<providers_, closed_, removing, provided, cancelled, pending_>>
        /\ invoke' = [invoke EXCEPT ![k] = "found"]
        /\ provider' = [provider EXCEPT ![k] = providers_[CommandOf[k]]]
        /\ providers_[CommandOf[k]] # 0
    BY <1>24 DEF InvokeLooksUp, tables, flags, removal
  <2>2. k \notin pending_
    BY <1>24 DEF InvokeLooksUp, Begun, Accepted
  <2>3. \A j \in pending_ : InFrame(j, W) => InFrame(j, W)'
    BY <1>24, <1>r, InFrameShapes DEF InvokeLooksUp
  <2> QED BY <2>1, <2>2, <2>3 DEF Withdrawn, Accepted, TypeOK
<1>25. ASSUME NEW t \in Threads, NEW k \in Calls, Complete(t, k) PROVE Withdrawn'
  <2>1. UNCHANGED <<providers_, closed_, invoke, provider, removing, provided, pending_, cancelled>>
    BY <1>25 DEF Complete, tables, calls, flags, removal
  <2>2. \A j \in pending_' : InFrame(j, W) => InFrame(j, W)'
    BY <1>25, <1>r, InFrameShapes, CallEffects
  <2> QED BY <1>w, <2>1, <2>2
<1>26. ASSUME NEW t \in Threads, NEW k \in Calls, CancelUnknown(t, k) PROVE Withdrawn'
  BY <1>26, <1>q DEF CancelUnknown, tables, calls, flags, removal
<1>27. ASSUME NEW t \in Threads, NEW k \in Calls, CancelFinds(t, k) PROVE Withdrawn'
  <2>1. UNCHANGED <<providers_, closed_, invoke, provider, removing, provided, pending_, cancelled>>
    BY <1>27 DEF CancelFinds, tables, calls, flags, removal
  <2>2. \A j \in pending_' : InFrame(j, W) => InFrame(j, W)'
    BY <1>27, <1>r, InFrameShapes, CallEffects
  <2> QED BY <1>w, <2>1, <2>2
<1>28. ASSUME NEW m \in Modules, GateCloses(m) PROVE Withdrawn'
  <2>1. /\ UNCHANGED <<providers_, closed_, invoke, provider, provided, pending_, cancelled>>
        /\ removing = NoModule
    BY <1>28 DEF GateCloses, calls, flags
  <2>2. \A j \in pending_' : InFrame(j, W) => InFrame(j, W)'
    BY <1>28, <1>r, InFrameShapes, RemovalEffects
  <2>3. \A c \in closed_ : c # NoModule
    BY RegistryAssumption DEF TypeOK
  <2> QED BY <2>1, <2>2, <2>3 DEF Withdrawn, Accepted
<1>29. ASSUME NEW m \in Modules, Reopen(m) PROVE Withdrawn'
  <2>1. /\ UNCHANGED <<providers_, invoke, provider, removing, provided, cancelled, pending_>>
        /\ closed_' \subseteq closed_
    BY <1>29 DEF Reopen, calls, flags, removal
  <2>2. \A j \in pending_ : InFrame(j, W) => InFrame(j, W)'
    BY <1>29, <1>r, InFrameShapes DEF Reopen
  <2> QED BY <2>1, <2>2 DEF Withdrawn, Accepted
<1>30. ASSUME NEW m \in Modules, GateOpens(m) PROVE Withdrawn'
  BY <1>30, <1>q DEF GateOpens, tables, calls, flags, removal
<1> QED
  BY <1>1, <1>2, <1>3, <1>4, <1>5, <1>6, <1>7, <1>8, <1>9, <1>10, <1>11, <1>12, <1>13, <1>14, <1>15,
     <1>16, <1>17, <1>18, <1>19, <1>20, <1>21, <1>22, <1>23, <1>24, <1>25, <1>26, <1>27, <1>28, <1>29, <1>30
  DEF Next, ThreadStep, RemoveStep, InvokeStep, Environment

-----------------------------------------------------------------------------
(* The invariant holds.                                                    *)

(* At first there is nothing.                                              *)
LEMMA InvStarts == Init => Inv
<1> SUFFICES ASSUME Init PROVE Inv
  OBVIOUS
<1>1. TypeOK
  BY RegistryAssumption DEF Init, TypeOK
<1>2. \A t \in Threads : Depths(t) = {}
  BY DEF Init, Depths
<1>3. Resting /\ OneRemoval /\ Alone /\ Flagged
  BY <1>2, RegistryAssumption DEF Init, Resting, OneRemoval, Alone, Flagged
<1>4. Ordered
  <2>1. \A a, b : ~Follows(a, b)
    BY <1>2, RegistryAssumption DEF Follows
  <2>2. [k \in Calls |-> 0] \in [Calls -> Nat] /\ \A k \in Calls : [j \in Calls |-> 0][k] <= 0
    OBVIOUS
  <2> QED BY <2>1, <2>2 DEF Ordered, Ranks
<1>5. Begun /\ Counted /\ Withdrawn /\ Seen
  BY DEF Init, Begun, Counted, Withdrawn, Seen, Accepted
<1> QED BY <1>1, <1>3, <1>4, <1>5 DEF Inv

LEMMA InvKept == Inv /\ [Next]_vars => Inv'
<1> SUFFICES ASSUME Inv, [Next]_vars PROVE Inv'
  OBVIOUS
<1>1. TypeOK /\ Shaped /\ Begun /\ Flagged /\ Counted /\ Ordered /\ Withdrawn /\ Seen
      /\ Resting /\ Alone
  BY DEF Inv, Shaped
<1>2. TypeOK' /\ Shaped' /\ Ordered'
  BY <1>1, TypesKept, ShapedKept, OrderedKept
<1>3. Begun' /\ Flagged' /\ Counted'
  BY <1>1, BegunKept, FlaggedKept, CountedKept
<1>4. Withdrawn' /\ Seen'
  BY <1>1, WithdrawnKept, SeenKept
<1> QED BY <1>2, <1>3, <1>4 DEF Inv, Shaped

(* The invariant, in every behaviour.                                      *)
LEMMA InvHolds == Spec => []Inv
BY InvStarts, InvKept, PTL DEF Spec

-----------------------------------------------------------------------------
(* The theorems.                                                           *)

(* The registry's state stays well typed: in particular the frames of a    *)
(* thread's stack are of a delivery, a cancellation or the withdrawal.     *)
THEOREM RegistryTypes == Spec => []TypeOK
<1>1. Inv => TypeOK
  BY DEF Inv
<1> QED BY <1>1, InvHolds, PTL

(* However often and from however many threads a call is completed, its    *)
(* done runs once at most, and only if Invoke() accepted the call: of the  *)
(* frames that deliver it one is past the mutex, and the first of them     *)
(* sets `finished`.                                                        *)
THEOREM RegistryDoneOnce == Spec => []DoneOnce
<1>1. Inv => DoneOnce
  BY DEF Inv, TypeOK, Counted, Begun, DoneOnce
<1> QED BY <1>1, InvHolds, PTL

(* Once a Cancel() that found the call has returned, its done is neither   *)
(* running nor about to: Cancel() waited for the delivery under way, and   *)
(* cannot have been called from inside it.                                 *)
THEOREM RegistryCancelIsFinal == Spec => []CancelIsFinal
<1>1. ASSUME Inv PROVE CancelIsFinal
  <2> SUFFICES ASSUME NEW k \in cancelOk, NEW f \in At(k, {"call", "done"}) PROVE FALSE
    BY DEF CancelIsFinal
  <2>1. /\ f[1] \in Threads /\ f[2] \in Depths(f[1])
        /\ stack[f[1]][f[2]].op = "deliver" /\ stack[f[1]][f[2]].call = k
        /\ stack[f[1]][f[2]].at \in {"call", "done"}
    BY <1>1, FramesAre DEF At, Inv
  <2> QED BY <1>1, <2>1 DEF Inv, Flagged, Fits, Running
<1> QED BY <1>1, InvHolds, PTL

(* An accepted call that has left pending_ has been finished or cancelled, *)
(* or the delivery that took it out is about to decide.                    *)
THEOREM RegistryNoCallLost == Spec => []NoCallLost
<1>1. ASSUME Inv PROVE NoCallLost
  <2> SUFFICES ASSUME NEW k \in Calls, Accepted(k), k \notin pending_, k \notin finished \cup cancelled
               PROVE  At(k, {"decide"}) # {}
    BY DEF NoCallLost
  <2>1. InFrame(k, {"decide"})
    BY <1>1 DEF Inv, Seen
  <2>2. PICK t \in Threads : \E i \in Depths(t) : Delivers(stack[t][i], k, {"decide"})
    BY <2>1 DEF InFrame
  <2>3. PICK i \in Depths(t) : Delivers(stack[t][i], k, {"decide"})
    BY <2>2
  <2>4. PICK f \in FramesOf(k) : f[1] = t /\ f[2] = i
    BY <1>1, <2>3, FramesAre DEF Inv, Delivers
  <2> QED BY <2>3, <2>4 DEF At, Delivers
<1> QED BY <1>1, InvHolds, PTL

(* After RemoveAllFor() nobody is left waiting for the module: a call that *)
(* is still pending on it will find the provider gone, is cancelled, or is *)
(* being delivered.                                                        *)
THEOREM RegistryWithdrawnServesNothing == Spec => []WithdrawnServesNothing
<1>1. ASSUME Inv PROVE WithdrawnServesNothing
  <2> SUFFICES ASSUME NEW k \in pending_, OwnerOf[CommandOf[k]] \in closed_ \ {removing},
                      CallerOf[k] \notin closed_, invoke[k] # "accepted", k \notin cancelled
               PROVE  FramesOf(k) # {}
    BY DEF WithdrawnServesNothing
  <2>1. InFrame(k, {"lock", "erase"})
    BY <1>1 DEF Inv, Withdrawn
  <2>2. PICK t \in Threads : \E i \in Depths(t) : Delivers(stack[t][i], k, {"lock", "erase"})
    BY <2>1 DEF InFrame
  <2> QED BY <1>1, <2>2, FramesAre DEF Inv, Delivers
<1> QED BY <1>1, InvHolds, PTL

(* A thread that waits for a mutex has those it holds further down.        *)
LEMMA HeldBelow ==
    ASSUME Inv, NEW t \in Threads, Blocked(t), NEW i \in Depths(t), NEW k \in Calls,
           Delivers(stack[t][i], k, Locked)
    PROVE  k \notin pending_ /\ Top(t).call \in Calls /\ Follows(k, Top(t).call)
<1>1. /\ Len(stack[t]) \in Depths(t) /\ Top(t) = stack[t][Len(stack[t])]
      /\ Top(t).op \in {"deliver", "cancel"} /\ Top(t).at = "lock" /\ Top(t).call \in Calls
  BY TopCall DEF Inv, Blocked, On
<1>2. i < Len(stack[t])
  BY <1>1, Frames DEF Inv, Depths, Delivers, Locked
<1>3. stack[t][i].at = "done"
  BY <1>2, Frames DEF Inv, Resting, Delivers, Depths
<1>4. k \notin pending_
  BY <1>3 DEF Inv, Flagged, Fits, Delivers, Erased
<1>5. Follows(k, Top(t).call)
  BY <1>1, <1>2 DEF Follows, Delivers
<1> QED BY <1>1, <1>4, <1>5

(* Callbacks that cancel each other's calls, or withdraw the module that   *)
(* serves them, never all wait for one another: of those that wait, the    *)
(* one whose call left pending_ last waits for a thread that does not.     *)
THEOREM RegistryNoStandstill == Spec => []NoStandstill
<1>1. ASSUME Inv PROVE NoStandstill
  <2> SUFFICES ASSUME NEW s \in Threads, Blocked(s),
                      \A t \in Threads : stack[t] # <<>> => Blocked(t)
               PROVE  FALSE
    BY DEF NoStandstill
  <2>1. PICK e \in [Calls -> Nat], n \in Nat :
           /\ \A k \in Calls : e[k] <= n
           /\ \A a, b \in Calls : Follows(a, b) => b \in pending_ \/ e[a] < e[b]
    BY <1>1 DEF Inv, Ordered, Ranks, Later
  <2>2. ASSUME NEW t \in Threads, Blocked(t)
        PROVE  /\ Top(t).call \in Calls
               /\ \E u \in Threads : /\ Blocked(u)
                                     /\ Top(t).call \notin pending_
                                     /\ Top(u).call \in Calls
                                     /\ Follows(Top(t).call, Top(u).call)
    <3>1. Top(t).call \in Calls /\ LockedOut(t, Top(t).call)
      BY <1>1, <2>2, TopCall DEF Inv, Blocked
    <3>2. PICK u \in Threads : \E i \in Depths(u) : Delivers(stack[u][i], Top(t).call, Locked)
      BY <1>1, <3>1, LockedOutBy DEF Inv
    <3>3. stack[u] # <<>>
      BY <3>2 DEF Depths
    <3>4. Blocked(u)
      BY <3>3
    <3> QED BY <1>1, <3>1, <3>2, <3>4, HeldBelow
  <2> DEFINE gaps == {g \in Nat : \E t \in Threads : Blocked(t) /\ g = n - e[Top(t).call]}
  <2>3. \A t \in Threads : Blocked(t) => n - e[Top(t).call] \in gaps
    BY <2>1, <2>2
  <2>4. gaps \subseteq Nat /\ gaps # {}
    BY <2>3
  <2> DEFINE R == OpToRel(<, Nat)
  <2>5. IsWellFoundedOn(R, Nat)
    BY NatLessThanWellFounded
  <2>6. \A q, r \in Nat : q < r => <<q, r>> \in R
    BY DEF OpToRel
  <2> HIDE DEF R
  <2>7. PICK least \in gaps : \A g \in gaps : ~(<<g, least>> \in R)
    <3> HIDE DEF gaps
    <3> QED BY <2>4, <2>5, WFMin
  <2>8. PICK t \in Threads : Blocked(t) /\ least = n - e[Top(t).call]
    BY <2>7
  <2>9. PICK u \in Threads : /\ Blocked(u)
                             /\ Top(u).call \in Calls
                             /\ Follows(Top(t).call, Top(u).call)
    BY <2>2, <2>8
  <2>10. Top(t).call \in Calls /\ Top(u).call \notin pending_
    BY <2>2, <2>8, <2>9
  <2>11. e[Top(t).call] < e[Top(u).call]
    BY <2>1, <2>9, <2>10
  <2>12. n - e[Top(u).call] \in gaps /\ n - e[Top(u).call] < least
    BY <2>1, <2>3, <2>8, <2>9, <2>10, <2>11
  <2> HIDE DEF gaps
  <2> QED BY <2>4, <2>6, <2>7, <2>12
<1> QED BY <1>1, InvHolds, PTL

=============================================================================
