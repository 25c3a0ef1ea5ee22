----------------------- MODULE ProfileSessionsProofs -----------------------
(***************************************************************************)
(* Proofs about ProfileSessions, for any number of processes, packages,    *)
(* places for a tree, starts and faults.                                   *)
(*                                                                         *)
(* A package that is not torn has, at any moment, either processes taking  *)
(* it apart or one that holds its lock, never both: who takes it apart     *)
(* came there by letting go of the lock, or found it free, and from then   *)
(* on a process that locks it tears it.  Everything else is said of the    *)
(* one that holds it, and disturbed by nobody but itself.                  *)
(***************************************************************************)
EXTENDS ProfileSessions, TLAPS

(* What a process works on: a package, and in the sweep never its own;     *)
(* from the unpacking on a place, which is the anchor where the lock file  *)
(* goes with the tree.                                                     *)
Placed ==
    \A p \in Processes :
        /\ pc[p] # "off" => opens[p] \in Packages
        /\ pc[p] \in {"sweep", "sweep_probe", "sweep_tree", "sweep_anchor"}
              => opens[p] \notin sweeps[p]
        /\ pc[p] \in {"sweep_probe", "sweep_tree", "sweep_anchor"}
              => swept[p] \in Packages \ {opens[p]}
        /\ pc[p] \in {"unpack", "adopt", "opening", "open", "saving", "unmount", "unlock",
                      "unlock_kept", "unlock_late", "unlock_retry", "rest", "retry"}
              => base[p] \in Bases

(* No package is empty, nor is what one is about to be replaced by.        *)
Filled ==
    /\ \A k \in Packages : package[k] # {}
    /\ \A p \in Processes : pc[p] = "saving" => packed[p] # {}

(* Who holds k has its lock file there, and nobody takes it apart.         *)
Held(k) ==
    \A p \in Processes : Has(p, k) =>
        /\ lock[k] = p
        /\ \A q \in Processes : ~TakesApart(q, k)

(* From the unpacking on, the tree has all the package has, and what is    *)
(* packed is the tree.                                                     *)
Whole(k) ==
    \A p \in Processes : Has(p, k) =>
        /\ pc[p] \in {"adopt", "opening", "open", "saving"}
              => package[k] \subseteq tree[k][base[p]]
        /\ pc[p] = "saving" => packed[p] = tree[k][base[p]]

(* Before the anchor goes, the tree it was followed to has.                *)
Emptied(k) ==
    \A p \in Processes :
        /\ pc[p] = "sweep_anchor" /\ swept[p] = k /\ aimed[p] \in Elsewhere
              => tree[k][aimed[p]] = {}
        /\ pc[p] = "discard_anchor" /\ opens[p] = k /\ base[p] \in Bases
              => tree[k][base[p]] = {}

(* A tree has its name, and before it comes the name is there.             *)
Led(k) ==
    /\ \A b \in Bases : tree[k][b] # {} /\ <<k, b>> \notin unnamed => Named(k, b)
    /\ \A p \in Processes : Has(p, k) /\ pc[p] = "unpack" =>
          pointer[k] = base[p] \/ <<k, base[p]>> \in unnamed

Kept(k) == Held(k) /\ Whole(k) /\ Emptied(k) /\ Led(k)

Inv == TypeOK /\ Placed /\ Filled /\ \A k \in Packages \ torn : Kept(k)

-----------------------------------------------------------------------------
(* Types.                                                                  *)


(* What clearing a root leaves has the right types.                        *)
LEMMA ClearTypes ==
    ASSUME TypeOK, NEW k \in Packages, NEW b \in Bases, NEW c \in Contents, NEW done,
           ClearRoot(k, b, c, done)
    PROVE  /\ pointer' \in [Packages -> Bases \cup {None}]
           /\ marked' \in [Packages -> BOOLEAN]
           /\ tree' \in [Packages -> [Bases -> Contents]]
           /\ unnamed' \subseteq Packages \X Bases
<1> USE SessionsAssumption DEF TypeOK
<1>1. tree' \in [Packages -> [Bases -> Contents]]
  BY DEF ClearRoot
<1>2. pointer' \in [Packages -> Bases \cup {None}] /\ marked' \in [Packages -> BOOLEAN]
  BY DEF ClearRoot
<1>3. Lost(k) \subseteq Packages \X Bases /\ <<k, Anchor>> \in Packages \X Bases
  BY DEF Lost
<1>4. unnamed' \subseteq Packages \X Bases
  BY <1>3 DEF ClearRoot
<1> QED BY <1>1, <1>2, <1>4

(* Every step keeps the types.                                             *)
LEMMA TypesKept == TypeOK /\ Placed /\ [Next]_vars => TypeOK'
<1> SUFFICES ASSUME TypeOK, Placed, [Next]_vars PROVE TypeOK'
  OBVIOUS
<1> USE SessionsAssumption DEF TypeOK, Placed, Contents, Holding, Leaving, Fault,
        Lost, Goto, Unlock, disk, sweeper, process, bounds, history
<1>1. CASE UNCHANGED vars
  BY <1>1 DEF vars
<1>2. ASSUME NEW p \in Processes, NEW k \in Packages, Start(p, k) PROVE TypeOK'
  BY <1>2 DEF Start
<1>3. ASSUME NEW p \in Processes, NEW k \in Packages, SweepRead(p, k) PROVE TypeOK'
  <2>1. sweeps' \in [Processes -> SUBSET Packages]
    BY <1>3 DEF SweepRead
  <2>2. CASE pointer[k] # None \/ marked[k]
    <3>1. /\ swept' = [swept EXCEPT ![p] = k]
          /\ aimed' = [aimed EXCEPT ![p] = pointer[k]]
          /\ pc' = [pc EXCEPT ![p] = "sweep_probe"]
      BY <1>3, <2>2 DEF SweepRead
    <3> QED BY <1>3, <2>1, <3>1 DEF SweepRead
  <2>3. CASE ~(pointer[k] # None \/ marked[k])
    <3>1. UNCHANGED <<swept, aimed, pc>>
      BY <1>3, <2>3 DEF SweepRead
    <3> QED BY <1>3, <2>1, <3>1 DEF SweepRead
  <2> QED BY <2>2, <2>3
<1>4. ASSUME NEW p \in Processes, NEW b \in Bases, Provision(p, b) PROVE TypeOK'
  <2>1. base' \in [Processes -> Bases \cup {None}]
    BY <1>4 DEF Provision
  <2>2. pointer' \in [Packages -> Bases \cup {None}]
    BY <1>4 DEF Provision
  <2>3. unnamed' \subseteq Packages \X Bases
    BY <1>4 DEF Provision
  <2>4. pc' \in [Processes -> Holding \cup Leaving \cup {"off", "lock"}]
    BY <1>4 DEF Provision
  <2>5. faults' \in 0 .. MaxFaults
    BY <1>4 DEF Provision
  <2> QED BY <1>4, <2>1, <2>2, <2>3, <2>4, <2>5 DEF Provision
<1>5. ASSUME NEW p \in Processes, NEW b \in Bases, Downgraded(p, b) PROVE TypeOK'
  BY <1>5 DEF Downgraded
<1>6. ASSUME NEW p \in Processes, AcquireLock(p) PROVE TypeOK'
  BY <1>6 DEF AcquireLock
<1>7. ASSUME NEW p \in Processes, LockRefused(p) PROVE TypeOK'
  BY <1>7 DEF LockRefused
<1>8. ASSUME NEW p \in Processes, SweepProbe(p) PROVE TypeOK'
  BY <1>8 DEF SweepProbe
<1>9. ASSUME NEW p \in Processes, SweepTree(p) PROVE TypeOK'
  <2>1. swept[p] \in Packages
    BY <1>9 DEF SweepTree
  <2>2. CASE /\ aimed[p] \in Elsewhere
             /\ tree' = [tree EXCEPT ![swept[p]][aimed[p]] = {}]
             /\ pc' = [pc EXCEPT ![p] = "sweep_anchor"]
             /\ UNCHANGED faults
    BY <1>9, <2>1, <2>2 DEF SweepTree, Elsewhere
  <2>3. CASE /\ pc' = [pc EXCEPT ![p] = "sweep"]
             /\ Fault /\ UNCHANGED tree
    BY <1>9, <2>1, <2>3 DEF SweepTree
  <2>4. CASE /\ aimed[p] \notin Elsewhere
             /\ pc' = [pc EXCEPT ![p] = "sweep_anchor"]
             /\ UNCHANGED <<tree, faults>>
    BY <1>9, <2>1, <2>4 DEF SweepTree
  <2> QED BY <1>9, <2>2, <2>3, <2>4 DEF SweepTree
<1>10. ASSUME NEW p \in Processes, SweepAnchor(p) PROVE TypeOK'
  <2>1. swept[p] \in Packages /\ Anchor \in Bases
    BY <1>10 DEF SweepAnchor
  <2>2. ClearRoot(swept[p], Anchor, {}, aimed[p])
    BY <1>10 DEF SweepAnchor, RemoveRoot
  <2>3. {} \in Contents
    BY <2>1
  <2>4. /\ pointer' \in [Packages -> Bases \cup {None}] /\ marked' \in [Packages -> BOOLEAN]
        /\ tree' \in [Packages -> [Bases -> Contents]] /\ unnamed' \subseteq Packages \X Bases
    BY <2>1, <2>2, <2>3, ClearTypes
  <2>5. lock' \in [Packages -> Processes \cup {None, Dead}]
    BY <1>10, <2>1 DEF SweepAnchor, RemoveRoot
  <2>6. pc' \in [Processes -> Holding \cup Leaving \cup {"off", "lock"}] /\ faults' \in 0 .. MaxFaults
    BY <1>10 DEF SweepAnchor
  <2> QED BY <1>10, <2>4, <2>5, <2>6 DEF SweepAnchor
<1>11. ASSUME NEW p \in Processes, Swept(p) PROVE TypeOK'
  BY <1>11 DEF Swept
<1>12. ASSUME NEW p \in Processes, Unpack(p) PROVE TypeOK'
  <2>1. opens[p] \in Packages /\ base[p] \in Bases
    BY <1>12 DEF Unpack
  <2>2. ClearRoot(opens[p], base[p], package[opens[p]], None)
    BY <1>12 DEF Unpack
  <2>3. package[opens[p]] \in Contents
    BY <2>1
  <2>4. /\ pointer' \in [Packages -> Bases \cup {None}] /\ marked' \in [Packages -> BOOLEAN]
        /\ tree' \in [Packages -> [Bases -> Contents]] /\ unnamed' \subseteq Packages \X Bases
    BY <2>1, <2>2, <2>3, ClearTypes
  <2>5. lock' \in [Packages -> Processes \cup {None, Dead}]
    BY <1>12, <2>1 DEF Unpack
  <2>6. pc' \in [Processes -> Holding \cup Leaving \cup {"off", "lock"}] /\ faults' \in 0 .. MaxFaults
    BY <1>12 DEF Unpack
  <2> QED BY <1>12, <2>4, <2>5, <2>6 DEF Unpack
<1>13. ASSUME NEW p \in Processes, UnpackFails(p) PROVE TypeOK'
  <2>1. opens[p] \in Packages /\ base[p] \in Bases
    BY <1>13 DEF UnpackFails
  <2>2. ClearRoot(opens[p], base[p], {}, None)
    BY <1>13 DEF UnpackFails
  <2>3. {} \in Contents
    BY <2>1
  <2>4. /\ pointer' \in [Packages -> Bases \cup {None}] /\ marked' \in [Packages -> BOOLEAN]
        /\ tree' \in [Packages -> [Bases -> Contents]] /\ unnamed' \subseteq Packages \X Bases
    BY <2>1, <2>2, <2>3, ClearTypes
  <2>5. lock' \in [Packages -> Processes \cup {None, Dead}]
    BY <1>13, <2>1 DEF UnpackFails
  <2>6. pc' \in [Processes -> Holding \cup Leaving \cup {"off", "lock"}] /\ faults' \in 0 .. MaxFaults
    BY <1>13 DEF UnpackFails
  <2> QED BY <1>13, <2>4, <2>5, <2>6 DEF UnpackFails
<1>14. ASSUME NEW p \in Processes, Adopt(p) PROVE TypeOK'
  BY <1>14 DEF Adopt
<1>15. ASSUME NEW p \in Processes, MountFails(p) PROVE TypeOK'
  BY <1>15 DEF MountFails
<1>16. ASSUME NEW p \in Processes, SealFails(p) PROVE TypeOK'
  <2>1. opens[p] \in Packages /\ base[p] \in Bases
    BY <1>16 DEF SealFails
  <2>2. ClearRoot(opens[p], base[p], {}, None)
    BY <1>16 DEF SealFails, RemoveRoot
  <2>3. {} \in Contents
    BY <2>1
  <2>4. /\ pointer' \in [Packages -> Bases \cup {None}] /\ marked' \in [Packages -> BOOLEAN]
        /\ tree' \in [Packages -> [Bases -> Contents]] /\ unnamed' \subseteq Packages \X Bases
    BY <2>1, <2>2, <2>3, ClearTypes
  <2>5. lock' \in [Packages -> Processes \cup {None, Dead}]
    BY <1>16, <2>1 DEF SealFails, RemoveRoot
  <2>6. pc' \in [Processes -> Holding \cup Leaving \cup {"off", "lock"}] /\ faults' \in 0 .. MaxFaults
    BY <1>16 DEF SealFails
  <2> QED BY <1>16, <2>4, <2>5, <2>6 DEF SealFails
<1>17. ASSUME NEW p \in Processes, FailedUnlock(p) PROVE TypeOK'
  BY <1>17 DEF FailedUnlock
<1>18. ASSUME NEW p \in Processes, DiscardTree(p) PROVE TypeOK'
  <2>1. CASE base[p] = None
    BY <1>18, <2>1 DEF DiscardTree
  <2>2. CASE base[p] # None
    <3>1. opens[p] \in Packages /\ base[p] \in Bases /\ {} \in Contents
      BY <1>18, <2>2 DEF DiscardTree
    <3>2. ClearRoot(opens[p], base[p], {}, None)
      BY <1>18, <2>2 DEF DiscardTree, RemoveRoot
    <3>3. /\ pointer' \in [Packages -> Bases \cup {None}] /\ marked' \in [Packages -> BOOLEAN]
          /\ tree' \in [Packages -> [Bases -> Contents]] /\ unnamed' \subseteq Packages \X Bases
      BY <3>1, <3>2, ClearTypes
    <3>4. lock' \in [Packages -> Processes \cup {None, Dead}]
      BY <1>18, <2>2, <3>1 DEF DiscardTree, RemoveRoot
    <3>5. pc' \in [Processes -> Holding \cup Leaving \cup {"off", "lock"}]
      BY <1>18 DEF DiscardTree
    <3> QED BY <1>18, <3>3, <3>4, <3>5 DEF DiscardTree
  <2> QED BY <2>1, <2>2
<1>19. ASSUME NEW p \in Processes, DiscardAnchor(p) PROVE TypeOK'
  <2>1. opens[p] \in Packages /\ Anchor \in Bases
    BY <1>19 DEF DiscardAnchor
  <2>2. ClearRoot(opens[p], Anchor, {}, base[p])
    BY <1>19 DEF DiscardAnchor, RemoveRoot
  <2>3. {} \in Contents
    BY <2>1
  <2>4. /\ pointer' \in [Packages -> Bases \cup {None}] /\ marked' \in [Packages -> BOOLEAN]
        /\ tree' \in [Packages -> [Bases -> Contents]] /\ unnamed' \subseteq Packages \X Bases
    BY <2>1, <2>2, <2>3, ClearTypes
  <2>5. lock' \in [Packages -> Processes \cup {None, Dead}]
    BY <1>19, <2>1 DEF DiscardAnchor, RemoveRoot
  <2>6. pc' \in [Processes -> Holding \cup Leaving \cup {"off", "lock"}] /\ faults' \in 0 .. MaxFaults
    BY <1>19 DEF DiscardAnchor
  <2> QED BY <1>19, <2>4, <2>5, <2>6 DEF DiscardAnchor
<1>20. ASSUME NEW p \in Processes, Opened(p) PROVE TypeOK'
  BY <1>20 DEF Opened
<1>21. ASSUME NEW p \in Processes, Change(p) PROVE TypeOK'
  BY <1>21 DEF Change
<1>22. ASSUME NEW p \in Processes, Pack(p) PROVE TypeOK'
  BY <1>22 DEF Pack
<1>23. ASSUME NEW p \in Processes, WriteBack(p) PROVE TypeOK'
  <2>1. package' \in [Packages -> Contents]
    BY <1>23 DEF WriteBack
  <2>2. settled' \in [Processes -> BOOLEAN]
    BY <1>23 DEF WriteBack
  <2>3. packed' \in [Processes -> Contents]
    BY <1>23 DEF WriteBack
  <2>4. pc' \in [Processes -> Holding \cup Leaving \cup {"off", "lock"}]
    BY <1>23 DEF WriteBack
  <2> QED BY <1>23, <2>1, <2>2, <2>3, <2>4 DEF WriteBack
<1>24. ASSUME NEW p \in Processes, Close(p) PROVE TypeOK'
  BY <1>24 DEF Close
<1>25. ASSUME NEW p \in Processes, Unmount(p) PROVE TypeOK'
  <2>1. opens[p] \in Packages /\ base[p] \in Bases
    BY <1>25 DEF Unmount
  <2>2. ClearRoot(opens[p], base[p], {}, None)
    BY <1>25 DEF Unmount, RemoveRoot
  <2>3. {} \in Contents
    BY <2>1
  <2>4. /\ pointer' \in [Packages -> Bases \cup {None}] /\ marked' \in [Packages -> BOOLEAN]
        /\ tree' \in [Packages -> [Bases -> Contents]] /\ unnamed' \subseteq Packages \X Bases
    BY <2>1, <2>2, <2>3, ClearTypes
  <2>5. lock' \in [Packages -> Processes \cup {None, Dead}]
    BY <1>25, <2>1 DEF Unmount, RemoveRoot
  <2>6. pc' \in [Processes -> Holding \cup Leaving \cup {"off", "lock"}] /\ faults' \in 0 .. MaxFaults
    BY <1>25 DEF Unmount
  <2> QED BY <1>25, <2>4, <2>5, <2>6 DEF Unmount
<1>26. ASSUME NEW p \in Processes, UnmountAnchor(p) PROVE TypeOK'
  BY <1>26 DEF UnmountAnchor
<1>27. ASSUME NEW p \in Processes, UnmountRest(p) PROVE TypeOK'
  <2>1. opens[p] \in Packages /\ Anchor \in Bases
    BY <1>27 DEF UnmountRest
  <2>2. ClearRoot(opens[p], Anchor, {}, None)
    BY <1>27 DEF UnmountRest, RemoveRoot
  <2>3. {} \in Contents
    BY <2>1
  <2>4. /\ pointer' \in [Packages -> Bases \cup {None}] /\ marked' \in [Packages -> BOOLEAN]
        /\ tree' \in [Packages -> [Bases -> Contents]] /\ unnamed' \subseteq Packages \X Bases
    BY <2>1, <2>2, <2>3, ClearTypes
  <2>5. lock' \in [Packages -> Processes \cup {None, Dead}]
    BY <1>27, <2>1 DEF UnmountRest, RemoveRoot
  <2>6. pc' \in [Processes -> Holding \cup Leaving \cup {"off", "lock"}] /\ faults' \in 0 .. MaxFaults
    BY <1>27 DEF UnmountRest
  <2> QED BY <1>27, <2>4, <2>5, <2>6 DEF UnmountRest
<1>28. ASSUME NEW p \in Processes, UnmountKept(p) PROVE TypeOK'
  <2>1. opens[p] \in Packages /\ base[p] \in Bases
    BY <1>28 DEF UnmountKept
  <2>2. ClearRoot(opens[p], base[p], {}, None)
    BY <1>28 DEF UnmountKept
  <2>3. {} \in Contents
    BY <2>1
  <2>4. /\ pointer' \in [Packages -> Bases \cup {None}] /\ marked' \in [Packages -> BOOLEAN]
        /\ tree' \in [Packages -> [Bases -> Contents]] /\ unnamed' \subseteq Packages \X Bases
    BY <2>1, <2>2, <2>3, ClearTypes
  <2>5. lock' \in [Packages -> Processes \cup {None, Dead}]
    BY <1>28, <2>1 DEF UnmountKept
  <2>6. pc' \in [Processes -> Holding \cup Leaving \cup {"off", "lock"}] /\ faults' \in 0 .. MaxFaults
    BY <1>28 DEF UnmountKept
  <2> QED BY <1>28, <2>4, <2>5, <2>6 DEF UnmountKept
<1>29. ASSUME NEW p \in Processes, Unload(p) PROVE TypeOK'
  <2>1. lock' \in [Packages -> Processes \cup {None, Dead}]
    BY <1>29 DEF Unload
  <2>2. pc' \in [Processes -> Holding \cup Leaving \cup {"off", "lock"}]
    BY <1>29 DEF Unload
  <2> QED BY <1>29, <2>1, <2>2 DEF Unload
<1>30. ASSUME NEW p \in Processes, RetryRemove(p) PROVE TypeOK'
  <2>1. opens[p] \in Packages /\ base[p] \in Bases
    BY <1>30 DEF RetryRemove
  <2>2. ClearRoot(opens[p], base[p], {}, None)
    BY <1>30 DEF RetryRemove, RemoveRoot
  <2>3. {} \in Contents
    BY <2>1
  <2>4. /\ pointer' \in [Packages -> Bases \cup {None}] /\ marked' \in [Packages -> BOOLEAN]
        /\ tree' \in [Packages -> [Bases -> Contents]] /\ unnamed' \subseteq Packages \X Bases
    BY <2>1, <2>2, <2>3, ClearTypes
  <2>5. lock' \in [Packages -> Processes \cup {None, Dead}]
    BY <1>30, <2>1 DEF RetryRemove, RemoveRoot
  <2>6. pc' \in [Processes -> Holding \cup Leaving \cup {"off", "lock"}] /\ faults' \in 0 .. MaxFaults
    BY <1>30 DEF RetryRemove
  <2> QED BY <1>30, <2>4, <2>5, <2>6 DEF RetryRemove
<1>31. ASSUME NEW p \in Processes, Crash(p) PROVE TypeOK'
  BY <1>31 DEF Crash
<1> QED
  BY <1>1, <1>2, <1>3, <1>4, <1>5, <1>6, <1>7, <1>8, <1>9, <1>10, <1>11, <1>12, <1>13,
     <1>14, <1>15, <1>16, <1>17, <1>18, <1>19, <1>20, <1>21, <1>22, <1>23, <1>24,
     <1>25, <1>26, <1>27, <1>28, <1>29, <1>30, <1>31 DEF Next

(* Who works on which package, and where.                                  *)
LEMMA PlacedKept == TypeOK /\ Placed /\ [Next]_vars => Placed'
<1> SUFFICES ASSUME TypeOK, Placed, [Next]_vars PROVE Placed'
  OBVIOUS
<1> USE SessionsAssumption DEF TypeOK, Placed, Goto, Unlock, ClearRoot, RemoveRoot,
        disk, sweeper, process, bounds, history
<1>1. CASE UNCHANGED vars
  BY <1>1 DEF vars
<1>2. ASSUME NEW p \in Processes, NEW k \in Packages, Start(p, k) PROVE Placed'
  BY <1>2 DEF Start
<1>3. ASSUME NEW p \in Processes, NEW k \in Packages, SweepRead(p, k) PROVE Placed'
  BY <1>3 DEF SweepRead
<1>4. ASSUME NEW p \in Processes, NEW b \in Bases, Provision(p, b) PROVE Placed'
  BY <1>4 DEF Provision
<1>5. ASSUME NEW p \in Processes, NEW b \in Bases, Downgraded(p, b) PROVE Placed'
  BY <1>5 DEF Downgraded
<1>6. ASSUME NEW p \in Processes, AcquireLock(p) PROVE Placed'
  BY <1>6 DEF AcquireLock
<1>7. ASSUME NEW p \in Processes, LockRefused(p) PROVE Placed'
  BY <1>7 DEF LockRefused
<1>8. ASSUME NEW p \in Processes, SweepProbe(p) PROVE Placed'
  BY <1>8 DEF SweepProbe
<1>9. ASSUME NEW p \in Processes, SweepTree(p) PROVE Placed'
  BY <1>9 DEF SweepTree
<1>10. ASSUME NEW p \in Processes, SweepAnchor(p) PROVE Placed'
  BY <1>10 DEF SweepAnchor
<1>11. ASSUME NEW p \in Processes, Swept(p) PROVE Placed'
  BY <1>11 DEF Swept
<1>12. ASSUME NEW p \in Processes, Unpack(p) PROVE Placed'
  BY <1>12 DEF Unpack
<1>13. ASSUME NEW p \in Processes, UnpackFails(p) PROVE Placed'
  BY <1>13 DEF UnpackFails
<1>14. ASSUME NEW p \in Processes, Adopt(p) PROVE Placed'
  BY <1>14 DEF Adopt
<1>15. ASSUME NEW p \in Processes, MountFails(p) PROVE Placed'
  BY <1>15 DEF MountFails
<1>16. ASSUME NEW p \in Processes, SealFails(p) PROVE Placed'
  BY <1>16 DEF SealFails
<1>17. ASSUME NEW p \in Processes, FailedUnlock(p) PROVE Placed'
  BY <1>17 DEF FailedUnlock
<1>18. ASSUME NEW p \in Processes, DiscardTree(p) PROVE Placed'
  BY <1>18 DEF DiscardTree
<1>19. ASSUME NEW p \in Processes, DiscardAnchor(p) PROVE Placed'
  BY <1>19 DEF DiscardAnchor
<1>20. ASSUME NEW p \in Processes, Opened(p) PROVE Placed'
  BY <1>20 DEF Opened
<1>21. ASSUME NEW p \in Processes, Change(p) PROVE Placed'
  BY <1>21 DEF Change
<1>22. ASSUME NEW p \in Processes, Pack(p) PROVE Placed'
  BY <1>22 DEF Pack
<1>23. ASSUME NEW p \in Processes, WriteBack(p) PROVE Placed'
  BY <1>23 DEF WriteBack
<1>24. ASSUME NEW p \in Processes, Close(p) PROVE Placed'
  BY <1>24 DEF Close
<1>25. ASSUME NEW p \in Processes, Unmount(p) PROVE Placed'
  BY <1>25 DEF Unmount
<1>26. ASSUME NEW p \in Processes, UnmountAnchor(p) PROVE Placed'
  BY <1>26 DEF UnmountAnchor
<1>27. ASSUME NEW p \in Processes, UnmountRest(p) PROVE Placed'
  BY <1>27 DEF UnmountRest
<1>28. ASSUME NEW p \in Processes, UnmountKept(p) PROVE Placed'
  BY <1>28 DEF UnmountKept
<1>29. ASSUME NEW p \in Processes, Unload(p) PROVE Placed'
  BY <1>29 DEF Unload
<1>30. ASSUME NEW p \in Processes, RetryRemove(p) PROVE Placed'
  BY <1>30 DEF RetryRemove
<1>31. ASSUME NEW p \in Processes, Crash(p) PROVE Placed'
  BY <1>31 DEF Crash
<1> QED
  BY <1>1, <1>2, <1>3, <1>4, <1>5, <1>6, <1>7, <1>8, <1>9, <1>10, <1>11, <1>12, <1>13,
     <1>14, <1>15, <1>16, <1>17, <1>18, <1>19, <1>20, <1>21, <1>22, <1>23, <1>24,
     <1>25, <1>26, <1>27, <1>28, <1>29, <1>30, <1>31 DEF Next

(* What is never empty.                                                    *)
LEMMA FilledKept == TypeOK /\ Placed /\ Filled /\ [Next]_vars => Filled'
<1> SUFFICES ASSUME TypeOK, Placed, Filled, [Next]_vars PROVE Filled'
  OBVIOUS
<1> USE DEF TypeOK, Placed, Filled, Goto, Unlock, ClearRoot, RemoveRoot, disk,
        sweeper, process, bounds, history
<1>1. CASE UNCHANGED vars
  BY <1>1 DEF vars
<1>2. ASSUME NEW p \in Processes, NEW k \in Packages, Start(p, k) PROVE Filled'
  BY <1>2 DEF Start
<1>3. ASSUME NEW p \in Processes, NEW k \in Packages, SweepRead(p, k) PROVE Filled'
  BY <1>3 DEF SweepRead
<1>4. ASSUME NEW p \in Processes, NEW b \in Bases, Provision(p, b) PROVE Filled'
  BY <1>4 DEF Provision
<1>5. ASSUME NEW p \in Processes, NEW b \in Bases, Downgraded(p, b) PROVE Filled'
  BY <1>5 DEF Downgraded
<1>6. ASSUME NEW p \in Processes, AcquireLock(p) PROVE Filled'
  BY <1>6 DEF AcquireLock
<1>7. ASSUME NEW p \in Processes, LockRefused(p) PROVE Filled'
  BY <1>7 DEF LockRefused
<1>8. ASSUME NEW p \in Processes, SweepProbe(p) PROVE Filled'
  BY <1>8 DEF SweepProbe
<1>9. ASSUME NEW p \in Processes, SweepTree(p) PROVE Filled'
  BY <1>9 DEF SweepTree
<1>10. ASSUME NEW p \in Processes, SweepAnchor(p) PROVE Filled'
  BY <1>10 DEF SweepAnchor
<1>11. ASSUME NEW p \in Processes, Swept(p) PROVE Filled'
  BY <1>11 DEF Swept
<1>12. ASSUME NEW p \in Processes, Unpack(p) PROVE Filled'
  BY <1>12 DEF Unpack
<1>13. ASSUME NEW p \in Processes, UnpackFails(p) PROVE Filled'
  BY <1>13 DEF UnpackFails
<1>14. ASSUME NEW p \in Processes, Adopt(p) PROVE Filled'
  BY <1>14 DEF Adopt
<1>15. ASSUME NEW p \in Processes, MountFails(p) PROVE Filled'
  BY <1>15 DEF MountFails
<1>16. ASSUME NEW p \in Processes, SealFails(p) PROVE Filled'
  BY <1>16 DEF SealFails
<1>17. ASSUME NEW p \in Processes, FailedUnlock(p) PROVE Filled'
  BY <1>17 DEF FailedUnlock
<1>18. ASSUME NEW p \in Processes, DiscardTree(p) PROVE Filled'
  BY <1>18 DEF DiscardTree
<1>19. ASSUME NEW p \in Processes, DiscardAnchor(p) PROVE Filled'
  BY <1>19 DEF DiscardAnchor
<1>20. ASSUME NEW p \in Processes, Opened(p) PROVE Filled'
  BY <1>20 DEF Opened
<1>21. ASSUME NEW p \in Processes, Change(p) PROVE Filled'
  BY <1>21 DEF Change
<1>22. ASSUME NEW p \in Processes, Pack(p) PROVE Filled'
  BY <1>22 DEF Pack
<1>23. ASSUME NEW p \in Processes, WriteBack(p) PROVE Filled'
  BY <1>23 DEF WriteBack
<1>24. ASSUME NEW p \in Processes, Close(p) PROVE Filled'
  BY <1>24 DEF Close
<1>25. ASSUME NEW p \in Processes, Unmount(p) PROVE Filled'
  BY <1>25 DEF Unmount
<1>26. ASSUME NEW p \in Processes, UnmountAnchor(p) PROVE Filled'
  BY <1>26 DEF UnmountAnchor
<1>27. ASSUME NEW p \in Processes, UnmountRest(p) PROVE Filled'
  BY <1>27 DEF UnmountRest
<1>28. ASSUME NEW p \in Processes, UnmountKept(p) PROVE Filled'
  BY <1>28 DEF UnmountKept
<1>29. ASSUME NEW p \in Processes, Unload(p) PROVE Filled'
  BY <1>29 DEF Unload
<1>30. ASSUME NEW p \in Processes, RetryRemove(p) PROVE Filled'
  BY <1>30 DEF RetryRemove
<1>31. ASSUME NEW p \in Processes, Crash(p) PROVE Filled'
  BY <1>31 DEF Crash
<1> QED
  BY <1>1, <1>2, <1>3, <1>4, <1>5, <1>6, <1>7, <1>8, <1>9, <1>10, <1>11, <1>12, <1>13,
     <1>14, <1>15, <1>16, <1>17, <1>18, <1>19, <1>20, <1>21, <1>22, <1>23, <1>24,
     <1>25, <1>26, <1>27, <1>28, <1>29, <1>30, <1>31 DEF Next

(* Once torn, a package stays so.                                          *)
LEMMA TornStays == [Next]_vars => torn \subseteq torn'
<1> SUFFICES ASSUME [Next]_vars PROVE torn \subseteq torn'
  OBVIOUS
<1> USE DEF Unlock, disk, history
<1>1. CASE UNCHANGED vars
  BY <1>1 DEF vars
<1>2. ASSUME NEW p \in Processes, NEW k \in Packages, Start(p, k) PROVE torn \subseteq torn'
  BY <1>2 DEF Start
<1>3. ASSUME NEW p \in Processes, NEW k \in Packages, SweepRead(p, k) PROVE torn \subseteq torn'
  BY <1>3 DEF SweepRead
<1>4. ASSUME NEW p \in Processes, NEW b \in Bases, Provision(p, b) PROVE torn \subseteq torn'
  BY <1>4 DEF Provision
<1>5. ASSUME NEW p \in Processes, NEW b \in Bases, Downgraded(p, b) PROVE torn \subseteq torn'
  BY <1>5 DEF Downgraded
<1>6. ASSUME NEW p \in Processes, AcquireLock(p) PROVE torn \subseteq torn'
  BY <1>6 DEF AcquireLock
<1>7. ASSUME NEW p \in Processes, LockRefused(p) PROVE torn \subseteq torn'
  BY <1>7 DEF LockRefused
<1>8. ASSUME NEW p \in Processes, SweepProbe(p) PROVE torn \subseteq torn'
  BY <1>8 DEF SweepProbe
<1>9. ASSUME NEW p \in Processes, SweepTree(p) PROVE torn \subseteq torn'
  BY <1>9 DEF SweepTree
<1>10. ASSUME NEW p \in Processes, SweepAnchor(p) PROVE torn \subseteq torn'
  BY <1>10 DEF SweepAnchor
<1>11. ASSUME NEW p \in Processes, Swept(p) PROVE torn \subseteq torn'
  BY <1>11 DEF Swept
<1>12. ASSUME NEW p \in Processes, Unpack(p) PROVE torn \subseteq torn'
  BY <1>12 DEF Unpack
<1>13. ASSUME NEW p \in Processes, UnpackFails(p) PROVE torn \subseteq torn'
  BY <1>13 DEF UnpackFails
<1>14. ASSUME NEW p \in Processes, Adopt(p) PROVE torn \subseteq torn'
  BY <1>14 DEF Adopt
<1>15. ASSUME NEW p \in Processes, MountFails(p) PROVE torn \subseteq torn'
  BY <1>15 DEF MountFails
<1>16. ASSUME NEW p \in Processes, SealFails(p) PROVE torn \subseteq torn'
  BY <1>16 DEF SealFails
<1>17. ASSUME NEW p \in Processes, FailedUnlock(p) PROVE torn \subseteq torn'
  BY <1>17 DEF FailedUnlock
<1>18. ASSUME NEW p \in Processes, DiscardTree(p) PROVE torn \subseteq torn'
  BY <1>18 DEF DiscardTree
<1>19. ASSUME NEW p \in Processes, DiscardAnchor(p) PROVE torn \subseteq torn'
  BY <1>19 DEF DiscardAnchor
<1>20. ASSUME NEW p \in Processes, Opened(p) PROVE torn \subseteq torn'
  BY <1>20 DEF Opened
<1>21. ASSUME NEW p \in Processes, Change(p) PROVE torn \subseteq torn'
  BY <1>21 DEF Change
<1>22. ASSUME NEW p \in Processes, Pack(p) PROVE torn \subseteq torn'
  BY <1>22 DEF Pack
<1>23. ASSUME NEW p \in Processes, WriteBack(p) PROVE torn \subseteq torn'
  BY <1>23 DEF WriteBack
<1>24. ASSUME NEW p \in Processes, Close(p) PROVE torn \subseteq torn'
  BY <1>24 DEF Close
<1>25. ASSUME NEW p \in Processes, Unmount(p) PROVE torn \subseteq torn'
  BY <1>25 DEF Unmount
<1>26. ASSUME NEW p \in Processes, UnmountAnchor(p) PROVE torn \subseteq torn'
  BY <1>26 DEF UnmountAnchor
<1>27. ASSUME NEW p \in Processes, UnmountRest(p) PROVE torn \subseteq torn'
  BY <1>27 DEF UnmountRest
<1>28. ASSUME NEW p \in Processes, UnmountKept(p) PROVE torn \subseteq torn'
  BY <1>28 DEF UnmountKept
<1>29. ASSUME NEW p \in Processes, Unload(p) PROVE torn \subseteq torn'
  BY <1>29 DEF Unload
<1>30. ASSUME NEW p \in Processes, RetryRemove(p) PROVE torn \subseteq torn'
  BY <1>30 DEF RetryRemove
<1>31. ASSUME NEW p \in Processes, Crash(p) PROVE torn \subseteq torn'
  BY <1>31 DEF Crash
<1> QED
  BY <1>1, <1>2, <1>3, <1>4, <1>5, <1>6, <1>7, <1>8, <1>9, <1>10, <1>11, <1>12, <1>13,
     <1>14, <1>15, <1>16, <1>17, <1>18, <1>19, <1>20, <1>21, <1>22, <1>23, <1>24,
     <1>25, <1>26, <1>27, <1>28, <1>29, <1>30, <1>31 DEF Next

(* The lock, and who takes apart.  A process takes the lock where it is    *)
(* free, so nobody holds it, and tears the package if somebody takes it    *)
(* apart; a sweep begins where the lock is free, the rest where it was let *)
(* go of or went with the tree.                                            *)
LEMMA HeldKept ==
    ASSUME Inv, [Next]_vars, NEW j \in Packages \ torn'
    PROVE  Held(j)'
<1>t. j \in Packages \ torn
  BY TornStays
<1> USE <1>t, SessionsAssumption DEF Inv, TypeOK, Placed, Kept, Held, Has, TakesApart,
        Holding, Leaving, Free, Elsewhere, Goto, Unlock, ClearRoot, RemoveRoot, disk,
        sweeper, process, bounds, history
<1>1. CASE UNCHANGED vars
  BY <1>1 DEF vars
<1>2. ASSUME NEW p \in Processes, NEW k \in Packages, Start(p, k) PROVE Held(j)'
  BY <1>2 DEF Start
<1>3. ASSUME NEW p \in Processes, NEW k \in Packages, SweepRead(p, k) PROVE Held(j)'
  BY <1>3 DEF SweepRead
<1>4. ASSUME NEW p \in Processes, NEW b \in Bases, Provision(p, b) PROVE Held(j)'
  BY <1>4 DEF Provision
<1>5. ASSUME NEW p \in Processes, NEW b \in Bases, Downgraded(p, b) PROVE Held(j)'
  BY <1>5 DEF Downgraded
<1>6. ASSUME NEW p \in Processes, AcquireLock(p) PROVE Held(j)'
  BY <1>6 DEF AcquireLock
<1>7. ASSUME NEW p \in Processes, LockRefused(p) PROVE Held(j)'
  BY <1>7 DEF LockRefused
<1>8. ASSUME NEW p \in Processes, SweepProbe(p) PROVE Held(j)'
  BY <1>8 DEF SweepProbe
<1>9. ASSUME NEW p \in Processes, SweepTree(p) PROVE Held(j)'
  BY <1>9 DEF SweepTree
<1>10. ASSUME NEW p \in Processes, SweepAnchor(p) PROVE Held(j)'
  BY <1>10 DEF SweepAnchor
<1>11. ASSUME NEW p \in Processes, Swept(p) PROVE Held(j)'
  BY <1>11 DEF Swept
<1>12. ASSUME NEW p \in Processes, Unpack(p) PROVE Held(j)'
  BY <1>12 DEF Unpack
<1>13. ASSUME NEW p \in Processes, UnpackFails(p) PROVE Held(j)'
  BY <1>13 DEF UnpackFails
<1>14. ASSUME NEW p \in Processes, Adopt(p) PROVE Held(j)'
  BY <1>14 DEF Adopt
<1>15. ASSUME NEW p \in Processes, MountFails(p) PROVE Held(j)'
  BY <1>15 DEF MountFails
<1>16. ASSUME NEW p \in Processes, SealFails(p) PROVE Held(j)'
  BY <1>16 DEF SealFails
<1>17. ASSUME NEW p \in Processes, FailedUnlock(p) PROVE Held(j)'
  BY <1>17 DEF FailedUnlock
<1>18. ASSUME NEW p \in Processes, DiscardTree(p) PROVE Held(j)'
  BY <1>18 DEF DiscardTree
<1>19. ASSUME NEW p \in Processes, DiscardAnchor(p) PROVE Held(j)'
  BY <1>19 DEF DiscardAnchor
<1>20. ASSUME NEW p \in Processes, Opened(p) PROVE Held(j)'
  BY <1>20 DEF Opened
<1>21. ASSUME NEW p \in Processes, Change(p) PROVE Held(j)'
  BY <1>21 DEF Change
<1>22. ASSUME NEW p \in Processes, Pack(p) PROVE Held(j)'
  BY <1>22 DEF Pack
<1>23. ASSUME NEW p \in Processes, WriteBack(p) PROVE Held(j)'
  BY <1>23 DEF WriteBack
<1>24. ASSUME NEW p \in Processes, Close(p) PROVE Held(j)'
  BY <1>24 DEF Close
<1>25. ASSUME NEW p \in Processes, Unmount(p) PROVE Held(j)'
  BY <1>25 DEF Unmount
<1>26. ASSUME NEW p \in Processes, UnmountAnchor(p) PROVE Held(j)'
  BY <1>26 DEF UnmountAnchor
<1>27. ASSUME NEW p \in Processes, UnmountRest(p) PROVE Held(j)'
  BY <1>27 DEF UnmountRest
<1>28. ASSUME NEW p \in Processes, UnmountKept(p) PROVE Held(j)'
  BY <1>28 DEF UnmountKept
<1>29. ASSUME NEW p \in Processes, Unload(p) PROVE Held(j)'
  BY <1>29 DEF Unload
<1>30. ASSUME NEW p \in Processes, RetryRemove(p) PROVE Held(j)'
  BY <1>30 DEF RetryRemove
<1>31. ASSUME NEW p \in Processes, Crash(p) PROVE Held(j)'
  BY <1>31 DEF Crash
<1> QED
  BY <1>1, <1>2, <1>3, <1>4, <1>5, <1>6, <1>7, <1>8, <1>9, <1>10, <1>11, <1>12, <1>13,
     <1>14, <1>15, <1>16, <1>17, <1>18, <1>19, <1>20, <1>21, <1>22, <1>23, <1>24,
     <1>25, <1>26, <1>27, <1>28, <1>29, <1>30, <1>31 DEF Next

(* The tree is changed by who holds the package, or by who takes it apart. *)
LEMMA WholeKept ==
    ASSUME Inv, [Next]_vars, NEW j \in Packages \ torn'
    PROVE  Whole(j)'
<1>t. j \in Packages \ torn
  BY TornStays
<1> USE <1>t, SessionsAssumption DEF Inv, TypeOK, Placed, Kept, Held, Whole, Filled,
        Has, TakesApart, Holding, Leaving, Free, Elsewhere, Goto, Unlock, ClearRoot,
        RemoveRoot, disk, sweeper, process, bounds, history
<1>1. CASE UNCHANGED vars
  BY <1>1 DEF vars
<1>2. ASSUME NEW p \in Processes, NEW k \in Packages, Start(p, k) PROVE Whole(j)'
  BY <1>2 DEF Start
<1>3. ASSUME NEW p \in Processes, NEW k \in Packages, SweepRead(p, k) PROVE Whole(j)'
  BY <1>3 DEF SweepRead
<1>4. ASSUME NEW p \in Processes, NEW b \in Bases, Provision(p, b) PROVE Whole(j)'
  BY <1>4 DEF Provision
<1>5. ASSUME NEW p \in Processes, NEW b \in Bases, Downgraded(p, b) PROVE Whole(j)'
  BY <1>5 DEF Downgraded
<1>6. ASSUME NEW p \in Processes, AcquireLock(p) PROVE Whole(j)'
  BY <1>6 DEF AcquireLock
<1>7. ASSUME NEW p \in Processes, LockRefused(p) PROVE Whole(j)'
  BY <1>7 DEF LockRefused
<1>8. ASSUME NEW p \in Processes, SweepProbe(p) PROVE Whole(j)'
  BY <1>8 DEF SweepProbe
<1>9. ASSUME NEW p \in Processes, SweepTree(p) PROVE Whole(j)'
  BY <1>9 DEF SweepTree
<1>10. ASSUME NEW p \in Processes, SweepAnchor(p) PROVE Whole(j)'
  BY <1>10 DEF SweepAnchor
<1>11. ASSUME NEW p \in Processes, Swept(p) PROVE Whole(j)'
  BY <1>11 DEF Swept
<1>12. ASSUME NEW p \in Processes, Unpack(p) PROVE Whole(j)'
  BY <1>12 DEF Unpack
<1>13. ASSUME NEW p \in Processes, UnpackFails(p) PROVE Whole(j)'
  BY <1>13 DEF UnpackFails
<1>14. ASSUME NEW p \in Processes, Adopt(p) PROVE Whole(j)'
  BY <1>14 DEF Adopt
<1>15. ASSUME NEW p \in Processes, MountFails(p) PROVE Whole(j)'
  BY <1>15 DEF MountFails
<1>16. ASSUME NEW p \in Processes, SealFails(p) PROVE Whole(j)'
  BY <1>16 DEF SealFails
<1>17. ASSUME NEW p \in Processes, FailedUnlock(p) PROVE Whole(j)'
  BY <1>17 DEF FailedUnlock
<1>18. ASSUME NEW p \in Processes, DiscardTree(p) PROVE Whole(j)'
  BY <1>18 DEF DiscardTree
<1>19. ASSUME NEW p \in Processes, DiscardAnchor(p) PROVE Whole(j)'
  BY <1>19 DEF DiscardAnchor
<1>20. ASSUME NEW p \in Processes, Opened(p) PROVE Whole(j)'
  BY <1>20 DEF Opened
<1>21. ASSUME NEW p \in Processes, Change(p) PROVE Whole(j)'
  BY <1>21 DEF Change
<1>22. ASSUME NEW p \in Processes, Pack(p) PROVE Whole(j)'
  BY <1>22 DEF Pack
<1>23. ASSUME NEW p \in Processes, WriteBack(p) PROVE Whole(j)'
  BY <1>23 DEF WriteBack
<1>24. ASSUME NEW p \in Processes, Close(p) PROVE Whole(j)'
  BY <1>24 DEF Close
<1>25. ASSUME NEW p \in Processes, Unmount(p) PROVE Whole(j)'
  BY <1>25 DEF Unmount
<1>26. ASSUME NEW p \in Processes, UnmountAnchor(p) PROVE Whole(j)'
  BY <1>26 DEF UnmountAnchor
<1>27. ASSUME NEW p \in Processes, UnmountRest(p) PROVE Whole(j)'
  <2>1. pc[p] = "rest" /\ opens[p] \in Packages /\ package' = package /\ packed' = packed
        /\ base' = base /\ opens' = opens
    BY <1>27 DEF UnmountRest
  <2>2. pc' = [pc EXCEPT ![p] = "unlock_late"] \/ pc' = [pc EXCEPT ![p] = "unlock_retry"]
    BY <1>27 DEF UnmountRest
  <2>3. tree' = [tree EXCEPT ![opens[p]][Anchor] = {}]
    BY <1>27 DEF UnmountRest
  <2>4. CASE opens[p] = j
    BY <2>1, <2>2, <2>4
  <2>5. CASE opens[p] # j
    BY <2>1, <2>2, <2>3, <2>5
  <2> QED BY <2>4, <2>5
<1>28. ASSUME NEW p \in Processes, UnmountKept(p) PROVE Whole(j)'
  BY <1>28 DEF UnmountKept
<1>29. ASSUME NEW p \in Processes, Unload(p) PROVE Whole(j)'
  BY <1>29 DEF Unload
<1>30. ASSUME NEW p \in Processes, RetryRemove(p) PROVE Whole(j)'
  BY <1>30 DEF RetryRemove
<1>31. ASSUME NEW p \in Processes, Crash(p) PROVE Whole(j)'
  BY <1>31 DEF Crash
<1> QED
  BY <1>1, <1>2, <1>3, <1>4, <1>5, <1>6, <1>7, <1>8, <1>9, <1>10, <1>11, <1>12, <1>13,
     <1>14, <1>15, <1>16, <1>17, <1>18, <1>19, <1>20, <1>21, <1>22, <1>23, <1>24,
     <1>25, <1>26, <1>27, <1>28, <1>29, <1>30, <1>31 DEF Next

(* A tree is filled only by who holds the package.                         *)
LEMMA EmptiedKept ==
    ASSUME Inv, [Next]_vars, NEW j \in Packages \ torn'
    PROVE  Emptied(j)'
<1>t. j \in Packages \ torn
  BY TornStays
<1> USE <1>t, SessionsAssumption DEF Inv, TypeOK, Placed, Kept, Held, Emptied, Has,
        TakesApart, Holding, Leaving, Free, Elsewhere, Goto, Unlock, ClearRoot,
        RemoveRoot, disk, sweeper, process, bounds, history
<1>1. CASE UNCHANGED vars
  BY <1>1 DEF vars
<1>2. ASSUME NEW p \in Processes, NEW k \in Packages, Start(p, k) PROVE Emptied(j)'
  BY <1>2 DEF Start
<1>3. ASSUME NEW p \in Processes, NEW k \in Packages, SweepRead(p, k) PROVE Emptied(j)'
  BY <1>3 DEF SweepRead
<1>4. ASSUME NEW p \in Processes, NEW b \in Bases, Provision(p, b) PROVE Emptied(j)'
  BY <1>4 DEF Provision
<1>5. ASSUME NEW p \in Processes, NEW b \in Bases, Downgraded(p, b) PROVE Emptied(j)'
  BY <1>5 DEF Downgraded
<1>6. ASSUME NEW p \in Processes, AcquireLock(p) PROVE Emptied(j)'
  BY <1>6 DEF AcquireLock
<1>7. ASSUME NEW p \in Processes, LockRefused(p) PROVE Emptied(j)'
  BY <1>7 DEF LockRefused
<1>8. ASSUME NEW p \in Processes, SweepProbe(p) PROVE Emptied(j)'
  BY <1>8 DEF SweepProbe
<1>9. ASSUME NEW p \in Processes, SweepTree(p) PROVE Emptied(j)'
  <2>1. swept[p] \in Packages
    BY <1>9 DEF SweepTree
  <2>2. CASE /\ aimed[p] \in Elsewhere
             /\ tree' = [tree EXCEPT ![swept[p]][aimed[p]] = {}]
             /\ pc' = [pc EXCEPT ![p] = "sweep_anchor"]
             /\ UNCHANGED faults
    BY <1>9, <2>1, <2>2 DEF SweepTree, Elsewhere
  <2>3. CASE /\ pc' = [pc EXCEPT ![p] = "sweep"]
             /\ Fault /\ UNCHANGED tree
    BY <1>9, <2>1, <2>3 DEF SweepTree
  <2>4. CASE /\ aimed[p] \notin Elsewhere
             /\ pc' = [pc EXCEPT ![p] = "sweep_anchor"]
             /\ UNCHANGED <<tree, faults>>
    BY <1>9, <2>1, <2>4 DEF SweepTree
  <2> QED BY <1>9, <2>2, <2>3, <2>4 DEF SweepTree
<1>10. ASSUME NEW p \in Processes, SweepAnchor(p) PROVE Emptied(j)'
  BY <1>10 DEF SweepAnchor
<1>11. ASSUME NEW p \in Processes, Swept(p) PROVE Emptied(j)'
  BY <1>11 DEF Swept
<1>12. ASSUME NEW p \in Processes, Unpack(p) PROVE Emptied(j)'
  BY <1>12 DEF Unpack
<1>13. ASSUME NEW p \in Processes, UnpackFails(p) PROVE Emptied(j)'
  <2>1. /\ opens[p] \in Packages /\ base[p] \in Bases
        /\ tree' = [tree EXCEPT ![opens[p]][base[p]] = {}]
        /\ pc' = [pc EXCEPT ![p] = "mount"] \/ pc' = [pc EXCEPT ![p] = "failed"]
        /\ UNCHANGED <<opens, base, sweeper>>
    BY <1>13 DEF UnpackFails
  <2>2. \A x \in Bases : tree[j][x] = {} => tree'[j][x] = {}
    BY <2>1
  <2> HIDE DEF ClearRoot
  <2> QED BY <2>1, <2>2
<1>14. ASSUME NEW p \in Processes, Adopt(p) PROVE Emptied(j)'
  BY <1>14 DEF Adopt
<1>15. ASSUME NEW p \in Processes, MountFails(p) PROVE Emptied(j)'
  BY <1>15 DEF MountFails
<1>16. ASSUME NEW p \in Processes, SealFails(p) PROVE Emptied(j)'
  BY <1>16 DEF SealFails
<1>17. ASSUME NEW p \in Processes, FailedUnlock(p) PROVE Emptied(j)'
  BY <1>17 DEF FailedUnlock
<1>18. ASSUME NEW p \in Processes, DiscardTree(p) PROVE Emptied(j)'
  <2>1. CASE base[p] = None
    BY <1>18, <2>1 DEF DiscardTree
  <2>2. CASE base[p] # None
    <3>1. /\ opens[p] \in Packages /\ base[p] \in Bases
          /\ tree' = [tree EXCEPT ![opens[p]][base[p]] = {}]
          /\ pc' = [pc EXCEPT ![p] = "discard_anchor"]
          /\ UNCHANGED <<opens, base, sweeper>>
      BY <1>18, <2>2 DEF DiscardTree
    <3>2. /\ \A x \in Bases : tree[j][x] = {} => tree'[j][x] = {}
          /\ opens[p] = j => tree'[j][base[p]] = {}
      BY <3>1
    <3> HIDE DEF ClearRoot, RemoveRoot
    <3> QED BY <3>1, <3>2
  <2> QED BY <2>1, <2>2
<1>19. ASSUME NEW p \in Processes, DiscardAnchor(p) PROVE Emptied(j)'
  BY <1>19 DEF DiscardAnchor
<1>20. ASSUME NEW p \in Processes, Opened(p) PROVE Emptied(j)'
  BY <1>20 DEF Opened
<1>21. ASSUME NEW p \in Processes, Change(p) PROVE Emptied(j)'
  BY <1>21 DEF Change
<1>22. ASSUME NEW p \in Processes, Pack(p) PROVE Emptied(j)'
  BY <1>22 DEF Pack
<1>23. ASSUME NEW p \in Processes, WriteBack(p) PROVE Emptied(j)'
  BY <1>23 DEF WriteBack
<1>24. ASSUME NEW p \in Processes, Close(p) PROVE Emptied(j)'
  BY <1>24 DEF Close
<1>25. ASSUME NEW p \in Processes, Unmount(p) PROVE Emptied(j)'
  BY <1>25 DEF Unmount
<1>26. ASSUME NEW p \in Processes, UnmountAnchor(p) PROVE Emptied(j)'
  BY <1>26 DEF UnmountAnchor
<1>27. ASSUME NEW p \in Processes, UnmountRest(p) PROVE Emptied(j)'
  BY <1>27 DEF UnmountRest
<1>28. ASSUME NEW p \in Processes, UnmountKept(p) PROVE Emptied(j)'
  BY <1>28 DEF UnmountKept
<1>29. ASSUME NEW p \in Processes, Unload(p) PROVE Emptied(j)'
  BY <1>29 DEF Unload
<1>30. ASSUME NEW p \in Processes, RetryRemove(p) PROVE Emptied(j)'
  BY <1>30 DEF RetryRemove
<1>31. ASSUME NEW p \in Processes, Crash(p) PROVE Emptied(j)'
  BY <1>31 DEF Crash
<1> QED
  BY <1>1, <1>2, <1>3, <1>4, <1>5, <1>6, <1>7, <1>8, <1>9, <1>10, <1>11, <1>12, <1>13,
     <1>14, <1>15, <1>16, <1>17, <1>18, <1>19, <1>20, <1>21, <1>22, <1>23, <1>24,
     <1>25, <1>26, <1>27, <1>28, <1>29, <1>30, <1>31 DEF Next

(* A name goes only after its tree, or the tree is among the unnamed.      *)
LEMMA LedKept ==
    ASSUME Inv, [Next]_vars, NEW j \in Packages \ torn'
    PROVE  Led(j)'
<1>t. j \in Packages \ torn
  BY TornStays
<1> USE <1>t, SessionsAssumption DEF Inv, TypeOK, Placed, Kept, Held, Emptied, Led,
        Whole, Filled, Named, Lost, Has, TakesApart, Holding, Leaving, Free,
        Elsewhere, Goto, Unlock, ClearRoot, RemoveRoot, disk, sweeper, process,
        bounds, history
<1>1. CASE UNCHANGED vars
  BY <1>1 DEF vars
<1>2. ASSUME NEW p \in Processes, NEW k \in Packages, Start(p, k) PROVE Led(j)'
  BY <1>2 DEF Start
<1>3. ASSUME NEW p \in Processes, NEW k \in Packages, SweepRead(p, k) PROVE Led(j)'
  BY <1>3 DEF SweepRead
<1>4. ASSUME NEW p \in Processes, NEW b \in Bases, Provision(p, b) PROVE Led(j)'
  BY <1>4 DEF Provision
<1>5. ASSUME NEW p \in Processes, NEW b \in Bases, Downgraded(p, b) PROVE Led(j)'
  BY <1>5 DEF Downgraded
<1>6. ASSUME NEW p \in Processes, AcquireLock(p) PROVE Led(j)'
  BY <1>6 DEF AcquireLock
<1>7. ASSUME NEW p \in Processes, LockRefused(p) PROVE Led(j)'
  BY <1>7 DEF LockRefused
<1>8. ASSUME NEW p \in Processes, SweepProbe(p) PROVE Led(j)'
  BY <1>8 DEF SweepProbe
<1>9. ASSUME NEW p \in Processes, SweepTree(p) PROVE Led(j)'
  <2>1. swept[p] \in Packages
    BY <1>9 DEF SweepTree
  <2>2. CASE /\ aimed[p] \in Elsewhere
             /\ tree' = [tree EXCEPT ![swept[p]][aimed[p]] = {}]
             /\ pc' = [pc EXCEPT ![p] = "sweep_anchor"]
             /\ UNCHANGED faults
    BY <1>9, <2>1, <2>2 DEF SweepTree, Elsewhere
  <2>3. CASE /\ pc' = [pc EXCEPT ![p] = "sweep"]
             /\ Fault /\ UNCHANGED tree
    BY <1>9, <2>1, <2>3 DEF SweepTree
  <2>4. CASE /\ aimed[p] \notin Elsewhere
             /\ pc' = [pc EXCEPT ![p] = "sweep_anchor"]
             /\ UNCHANGED <<tree, faults>>
    BY <1>9, <2>1, <2>4 DEF SweepTree
  <2> QED BY <1>9, <2>2, <2>3, <2>4 DEF SweepTree
<1>10. ASSUME NEW p \in Processes, SweepAnchor(p) PROVE Led(j)'
  BY <1>10 DEF SweepAnchor
<1>11. ASSUME NEW p \in Processes, Swept(p) PROVE Led(j)'
  BY <1>11 DEF Swept
<1>12. ASSUME NEW p \in Processes, Unpack(p) PROVE Led(j)'
  BY <1>12 DEF Unpack
<1>13. ASSUME NEW p \in Processes, UnpackFails(p) PROVE Led(j)'
  BY <1>13 DEF UnpackFails
<1>14. ASSUME NEW p \in Processes, Adopt(p) PROVE Led(j)'
  BY <1>14 DEF Adopt
<1>15. ASSUME NEW p \in Processes, MountFails(p) PROVE Led(j)'
  BY <1>15 DEF MountFails
<1>16. ASSUME NEW p \in Processes, SealFails(p) PROVE Led(j)'
  BY <1>16 DEF SealFails
<1>17. ASSUME NEW p \in Processes, FailedUnlock(p) PROVE Led(j)'
  BY <1>17 DEF FailedUnlock
<1>18. ASSUME NEW p \in Processes, DiscardTree(p) PROVE Led(j)'
  <2>1. CASE base[p] = None
    BY <1>18, <2>1 DEF DiscardTree
  <2>2. CASE base[p] = Anchor
    BY <1>18, <2>2 DEF DiscardTree
  <2>3. CASE base[p] \in Elsewhere
    <3>1. /\ opens[p] \in Packages /\ base[p] \in Bases
          /\ tree' = [tree EXCEPT ![opens[p]][base[p]] = {}]
          /\ pc' = [pc EXCEPT ![p] = "discard_anchor"]
          /\ UNCHANGED <<opens, base, pointer, marked, unnamed>>
      BY <1>18, <2>3 DEF DiscardTree
    <3>2. \A x \in Bases : tree'[j][x] # {} => tree[j][x] # {}
      BY <3>1
    <3> HIDE DEF ClearRoot, RemoveRoot
    <3> QED BY <3>1, <3>2
  <2> QED BY <2>1, <2>2, <2>3
<1>19. ASSUME NEW p \in Processes, DiscardAnchor(p) PROVE Led(j)'
  BY <1>19 DEF DiscardAnchor
<1>20. ASSUME NEW p \in Processes, Opened(p) PROVE Led(j)'
  BY <1>20 DEF Opened
<1>21. ASSUME NEW p \in Processes, Change(p) PROVE Led(j)'
  BY <1>21 DEF Change
<1>22. ASSUME NEW p \in Processes, Pack(p) PROVE Led(j)'
  BY <1>22 DEF Pack
<1>23. ASSUME NEW p \in Processes, WriteBack(p) PROVE Led(j)'
  BY <1>23 DEF WriteBack
<1>24. ASSUME NEW p \in Processes, Close(p) PROVE Led(j)'
  BY <1>24 DEF Close
<1>25. ASSUME NEW p \in Processes, Unmount(p) PROVE Led(j)'
  BY <1>25 DEF Unmount
<1>26. ASSUME NEW p \in Processes, UnmountAnchor(p) PROVE Led(j)'
  BY <1>26 DEF UnmountAnchor
<1>27. ASSUME NEW p \in Processes, UnmountRest(p) PROVE Led(j)'
  BY <1>27 DEF UnmountRest
<1>28. ASSUME NEW p \in Processes, UnmountKept(p) PROVE Led(j)'
  BY <1>28 DEF UnmountKept
<1>29. ASSUME NEW p \in Processes, Unload(p) PROVE Led(j)'
  BY <1>29 DEF Unload
<1>30. ASSUME NEW p \in Processes, RetryRemove(p) PROVE Led(j)'
  BY <1>30 DEF RetryRemove
<1>31. ASSUME NEW p \in Processes, Crash(p) PROVE Led(j)'
  BY <1>31 DEF Crash
<1> QED
  BY <1>1, <1>2, <1>3, <1>4, <1>5, <1>6, <1>7, <1>8, <1>9, <1>10, <1>11, <1>12, <1>13,
     <1>14, <1>15, <1>16, <1>17, <1>18, <1>19, <1>20, <1>21, <1>22, <1>23, <1>24,
     <1>25, <1>26, <1>27, <1>28, <1>29, <1>30, <1>31 DEF Next

(* Nothing but a save writes a package.                                    *)
LEMMA OnlySavesWrite ==
    ASSUME [Next]_vars, \A p \in Processes : ~WriteBack(p) PROVE package' = package

<1> USE DEF Unlock, disk
<1>1. CASE UNCHANGED vars
  BY <1>1 DEF vars
<1>2. ASSUME NEW p \in Processes, NEW k \in Packages, Start(p, k) PROVE package' = package
  BY <1>2 DEF Start
<1>3. ASSUME NEW p \in Processes, NEW k \in Packages, SweepRead(p, k) PROVE package' = package
  BY <1>3 DEF SweepRead
<1>4. ASSUME NEW p \in Processes, NEW b \in Bases, Provision(p, b) PROVE package' = package
  BY <1>4 DEF Provision
<1>5. ASSUME NEW p \in Processes, NEW b \in Bases, Downgraded(p, b) PROVE package' = package
  BY <1>5 DEF Downgraded
<1>6. ASSUME NEW p \in Processes, AcquireLock(p) PROVE package' = package
  BY <1>6 DEF AcquireLock
<1>7. ASSUME NEW p \in Processes, LockRefused(p) PROVE package' = package
  BY <1>7 DEF LockRefused
<1>8. ASSUME NEW p \in Processes, SweepProbe(p) PROVE package' = package
  BY <1>8 DEF SweepProbe
<1>9. ASSUME NEW p \in Processes, SweepTree(p) PROVE package' = package
  BY <1>9 DEF SweepTree
<1>10. ASSUME NEW p \in Processes, SweepAnchor(p) PROVE package' = package
  BY <1>10 DEF SweepAnchor
<1>11. ASSUME NEW p \in Processes, Swept(p) PROVE package' = package
  BY <1>11 DEF Swept
<1>12. ASSUME NEW p \in Processes, Unpack(p) PROVE package' = package
  BY <1>12 DEF Unpack
<1>13. ASSUME NEW p \in Processes, UnpackFails(p) PROVE package' = package
  BY <1>13 DEF UnpackFails
<1>14. ASSUME NEW p \in Processes, Adopt(p) PROVE package' = package
  BY <1>14 DEF Adopt
<1>15. ASSUME NEW p \in Processes, MountFails(p) PROVE package' = package
  BY <1>15 DEF MountFails
<1>16. ASSUME NEW p \in Processes, SealFails(p) PROVE package' = package
  BY <1>16 DEF SealFails
<1>17. ASSUME NEW p \in Processes, FailedUnlock(p) PROVE package' = package
  BY <1>17 DEF FailedUnlock
<1>18. ASSUME NEW p \in Processes, DiscardTree(p) PROVE package' = package
  BY <1>18 DEF DiscardTree
<1>19. ASSUME NEW p \in Processes, DiscardAnchor(p) PROVE package' = package
  BY <1>19 DEF DiscardAnchor
<1>20. ASSUME NEW p \in Processes, Opened(p) PROVE package' = package
  BY <1>20 DEF Opened
<1>21. ASSUME NEW p \in Processes, Change(p) PROVE package' = package
  BY <1>21 DEF Change
<1>22. ASSUME NEW p \in Processes, Pack(p) PROVE package' = package
  BY <1>22 DEF Pack
<1>23. ASSUME NEW p \in Processes, WriteBack(p) PROVE package' = package
  BY <1>23
<1>24. ASSUME NEW p \in Processes, Close(p) PROVE package' = package
  BY <1>24 DEF Close
<1>25. ASSUME NEW p \in Processes, Unmount(p) PROVE package' = package
  BY <1>25 DEF Unmount
<1>26. ASSUME NEW p \in Processes, UnmountAnchor(p) PROVE package' = package
  BY <1>26 DEF UnmountAnchor
<1>27. ASSUME NEW p \in Processes, UnmountRest(p) PROVE package' = package
  BY <1>27 DEF UnmountRest
<1>28. ASSUME NEW p \in Processes, UnmountKept(p) PROVE package' = package
  BY <1>28 DEF UnmountKept
<1>29. ASSUME NEW p \in Processes, Unload(p) PROVE package' = package
  BY <1>29 DEF Unload
<1>30. ASSUME NEW p \in Processes, RetryRemove(p) PROVE package' = package
  BY <1>30 DEF RetryRemove
<1>31. ASSUME NEW p \in Processes, Crash(p) PROVE package' = package
  BY <1>31 DEF Crash
<1> QED
  BY <1>1, <1>2, <1>3, <1>4, <1>5, <1>6, <1>7, <1>8, <1>9, <1>10, <1>11, <1>12, <1>13,
     <1>14, <1>15, <1>16, <1>17, <1>18, <1>19, <1>20, <1>21, <1>22, <1>23, <1>24,
     <1>25, <1>26, <1>27, <1>28, <1>29, <1>30, <1>31 DEF Next

-----------------------------------------------------------------------------
(* The theorems.                                                           *)

(* It holds at first,                                                      *)
LEMMA InvStarts == Init => Inv
<1> SUFFICES ASSUME Init PROVE Inv
  OBVIOUS
<1>1. TypeOK
  BY SessionsAssumption DEF Init, TypeOK, Contents, Holding, Leaving
<1>2. Placed /\ Filled
  BY DEF Init, Placed, Filled
<1>3. \A k \in Packages \ torn : Kept(k)
  BY DEF Init, Kept, Held, Whole, Emptied, Led, Has, TakesApart, Holding, Leaving
<1> QED BY <1>1, <1>2, <1>3 DEF Inv

(* every step keeps it,                                                    *)
LEMMA InvKept == Inv /\ [Next]_vars => Inv'
<1> SUFFICES ASSUME Inv, [Next]_vars PROVE Inv'
  OBVIOUS
<1>1. TypeOK' /\ Placed' /\ Filled'
  BY TypesKept, PlacedKept, FilledKept DEF Inv
<1>2. ASSUME NEW j \in Packages \ torn' PROVE Kept(j)'
  BY <1>2, HeldKept, WholeKept, EmptiedKept, LedKept DEF Kept
<1> QED BY <1>1, <1>2 DEF Inv

(* and so it always holds.                                                 *)
LEMMA InvHolds == Spec => []Inv
BY InvStarts, InvKept, PTL DEF Spec

(* The state keeps its types: a package's contents never name a start that *)
(* was not made, and the bounds of the model are kept.                     *)
THEOREM SessionTypes == Spec => []TypeOK
<1>1. Inv => TypeOK
  BY DEF Inv
<1> QED BY <1>1, InvHolds, PTL

(* For any number of processes and packages: a package that nobody locked  *)
(* while another process was still taking it apart is held by one process  *)
(* at a time (Mount(), ProfileLock), its lock file says so to the others,  *)
(* and an open session has its tree.                                       *)
THEOREM SessionsAlone == Spec => []OneSession
<1>1. Inv => OneSession
  BY DEF Inv, Placed, Filled, Kept, Held, Whole, OneSession, Has, Holding
<1> QED BY <1>1, InvHolds, PTL

(* Of such a package, what is left unpacked is found by                    *)
(* SweepTransientProfileRoots(), in whichever places its sessions put      *)
(* their trees, unless the name of the tree is known to be lost: not       *)
(* written, written over by a session elsewhere, removed with a mount that *)
(* had no storage yet, by a sweep that had read an older one, or by        *)
(* unpacking into the anchor, until the marker is there.                   *)
THEOREM SessionLeftoversNamed == Spec => []LeftoversAreNamed
<1>1. Inv => LeftoversAreNamed
  BY DEF Inv, Kept, Led, LeftoversAreNamed
<1> QED BY <1>1, InvHolds, PTL

(* A package is written only by WriteBack(), of the tree of the process    *)
(* that holds it, which has had all of it since it was unpacked.           *)
LEMMA SavesAdd ==
    Inv /\ [Next]_vars => \A k \in Packages \ torn : package[k] \subseteq package'[k]
<1> SUFFICES ASSUME Inv, [Next]_vars, NEW j \in Packages \ torn
             PROVE  package[j] \subseteq package'[j]
  OBVIOUS
<1>1. ASSUME NEW p \in Processes, WriteBack(p) PROVE package[j] \subseteq package'[j]
  <2>1. opens[p] \in Packages /\ pc[p] = "saving" /\ package \in [Packages -> Contents]
    BY <1>1 DEF WriteBack, Inv, TypeOK, Placed
  <2>2. CASE opens[p] = j
    <3>1. package[j] \subseteq packed[p]
      BY <2>1, <2>2 DEF Inv, Kept, Whole, Has, Holding
    <3> QED BY <1>1, <2>1, <2>2, <3>1 DEF WriteBack
  <2>3. CASE opens[p] # j
    BY <1>1, <2>1, <2>3 DEF WriteBack
  <2> QED BY <2>2, <2>3
<1>2. CASE package' = package
  BY <1>2
<1>3. (\E p \in Processes : WriteBack(p)) \/ package' = package
  BY OnlySavesWrite
<1> QED BY <1>1, <1>2, <1>3

(* Of such a package, no save takes away what a session saved before.      *)
THEOREM SessionSavesAddUp == Spec => SavesAddUp
<1>1. Inv /\ [Next]_vars => [\A k \in Packages \ torn : package[k] \subseteq package'[k]]_vars
  BY SavesAdd
<1> QED BY <1>1, InvHolds, PTL DEF Spec, SavesAddUp

=============================================================================
