------------------------- MODULE DataObjectsProofs -------------------------
(***************************************************************************)
(* What the collection of data objects keeps and for how long, for every   *)
(* set of objects, every rotation period and grace period, and every       *)
(* number of days, sessions and failures.                                  *)
(*                                                                         *)
(* The collector decides in one step on what it saw in another, and from   *)
(* notes other sessions left.  So the invariant says what is still true of *)
(* what was seen (Looked, Suspicion), and that a note never names a day    *)
(* too early for what it is about (Dated, Aside); and, of the key set,     *)
(* that nothing is sealed with a key no session will have (Keyed).         *)
(***************************************************************************)
EXTENDS DataObjects, TLAPS

(* What a run keeps to itself is forgotten when it ends, and nothing runs  *)
(* without a session.                                                      *)
Rests ==
    /\ ~Up => gc = "done"
    /\ gc \in {"posted", "done"} => pending = NoReason /\ okSeen = {} /\ suspect = FALSE
    /\ gc \in {"posted", "classify", "done"} => moved = {}

(* Every object is looked at once.  What was found unusable still is, or   *)
(* was stored since; of what was found healthy, nothing is noted, or       *)
(* noted today.                                                            *)
Looked ==
    \A r \in Refs :
        /\ pending[r] # "none" => ~Readable(r) \/ r \in fresh
        /\ r \in okSeen => /\ pending[r] = "none"
                           /\ state[r] = NoEntry \/ state[r].first = day
        /\ gc = "classify" /\ r \in todo => pending[r] = "none" /\ r \notin okSeen
        /\ gc = "act" /\ r \in todo => pending[r] # "none" /\ r \notin moved

(* The verdict on the key set is of everything this run looked at.         *)
Suspicion ==
    /\ gc \in {"act", "sweep"} =>
         (suspect <=> okSeen = {} /\ \E r \in Refs : pending[r] = "missing_key")
    /\ gc = "sweep" /\ suspect => todo = {}

(* What is noted of an object was noted after it was last found healthy.   *)
Dated ==
    \A r \in Refs : /\ saved[r] # NoEntry => okDay[r] <= saved[r].first
                    /\ state[r] # NoEntry => okDay[r] <= state[r].first

(* What is noted of a copy set aside is no older than it.                  *)
Aside ==
    \A r \in Refs : quarantine[r] # None =>
        /\ r \notin unrecorded \cup moved /\ saved[r] # NoEntry =>
             movedAt[r] <= Since(saved[r])
        /\ r \notin unrecorded \ moved /\ state[r] # NoEntry =>
             movedAt[r] <= Since(state[r])

(* Whatever an object is sealed with is the root key or a period's key     *)
(* that was written or was to be.                                          *)
Keyed ==
    /\ \A r \in Refs : main[r] \in Nat => main[r] \in {Root} \cup keyFiles \cup unwritten
    /\ active \in {Root} \cup keyFiles \cup unwritten
    /\ Up => Root \in held
    /\ level = "rotating" => keyFiles \subseteq held
    /\ Up /\ level # "rotating" /\ ~lowered => keyFiles \cup unwritten = {}

Inv == TypeOK /\ Rests /\ Looked /\ Suspicion /\ Dated /\ Aside /\ Keyed

-----------------------------------------------------------------------------
(* Helpers.                                                                *)

Reasons == {"none", "read_failed", "short", "decrypt_failed", "missing_key"}

(* The first period is 1, so that no rotated key is mistaken for the root  *)
(* key's 0.                                                                *)
LEMMA PeriodType == ASSUME TypeOK PROVE Period \in Nat \ {0}
<1>1. day \div PeriodDays \in Nat
  BY DataAssumption DEF TypeOK
<1> QED
  BY <1>1 DEF Period

(* What an empty state file and a run that noted nothing hold.             *)
LEMMA Defaults ==
    ASSUME day \in Nat
    PROVE  /\ NoEntry \in Entries
           /\ EmptyState \in [Refs -> Entries]
           /\ \A r \in Refs : EmptyState[r] = NoEntry
           /\ NoReason \in [Refs -> Reasons]
           /\ \A r \in Refs : NoReason[r] = "none"
BY DEF NoEntry, NoDay, Entries, EmptyState, NoReason, Reasons

(* What MaybeQuarantineOrDelete() notes keeps the day the object was first *)
(* seen and the day it was set aside, if there is a note of it.            *)
LEMMA ItemType ==
    ASSUME TypeOK, NEW r \in Refs, NEW path \in {"main", "quarantine"}
    PROVE  /\ Item(r, path) \in Entries
           /\ Item(r, path) # NoEntry
           /\ Item(r, path).path = path
           /\ Item(r, path).at = state[r].at
           /\ state[r] = NoEntry => Item(r, path).first = day
           /\ state[r] # NoEntry => Item(r, path).first = state[r].first
           /\ state[r] = NoEntry => Since(Item(r, path)) = day
           /\ state[r] # NoEntry => Since(Item(r, path)) = Since(state[r])
<1>1. state[r] \in Entries /\ day \in Nat
  BY DEF TypeOK
<1>2. Item(r, path) \in Entries
  BY <1>1 DEF Item, Entries
<1>3. state[r] = NoEntry => state[r].at = NoDay
  BY DEF NoEntry
<1>4. Item(r, path).path = path /\ NoEntry.path = "none"
  BY DEF Item, NoEntry
<1> QED
  BY <1>1, <1>2, <1>3, <1>4 DEF Item, Since

(* Since when an object is set aside is a day that has been.               *)
LEMMA SinceType ==
    ASSUME NEW e \in Entries PROVE Since(e) \in 0 .. day
BY DEF Entries, Since

-----------------------------------------------------------------------------
(* Steps.                                                                  *)

(* A start: a new key set, and a collection that has looked at nothing.    *)
LEMMA StartInv ==
    ASSUME Inv, NEW l \in Levels, Start(l)
    PROVE  Inv'
<1>1. TypeOK'
  <2>1. Period \in Nat
    BY PeriodType DEF Inv
  <2>2. held' \subseteq Nat /\ active' \in Nat
    BY <2>1 DEF Start, Inv, TypeOK, KeySet, Root
  <2>3. keyFiles' \subseteq Nat /\ unwritten' \subseteq Nat
    BY <2>1 DEF Start, Inv, TypeOK
  <2> QED
    BY <2>2, <2>3 DEF Start, Inv, TypeOK, Contents, Entries, files
<1>2. Rests'
  BY DEF Start, Inv, Rests, Up, Levels, NoReason
<1>3. Looked'
  <2>1. pending = NoReason /\ okSeen = {}
    BY DEF Start, Inv, Rests, Up
  <2> QED
    BY <2>1, Defaults DEF Start, Inv, Looked, TypeOK
<1>4. Suspicion'
  BY DEF Start, Inv, Suspicion, Fault, KeySet, Period, Rests
<1>5. Dated'
  BY DEF Start, Inv, Dated, Fault, KeySet, Period
<1>6. Aside'
  BY DEF Start, Inv, Aside, Fault, KeySet, Period, files, Since
<1>7. Keyed'
  BY DEF Start, Inv, Keyed, Fault, KeySet, Period, files, Up, Root
<1> QED
  BY <1>1, <1>2, <1>3, <1>4, <1>5, <1>6, <1>7 DEF Inv

(* A shutdown that has begun changes nothing the invariant is about.       *)
LEMMA StopInv ==
    ASSUME Inv, Stop
    PROVE  Inv'
<1>1. TypeOK'
  BY DEF Stop, Inv, TypeOK, files, run, bounds, history, Contents, Entries, Levels, Up
<1>2. Rests'
  BY DEF Stop, Inv, Rests, run, history, Up, NoReason
<1>3. Looked'
  BY DEF Stop, Inv, Looked, files, run, history, Readable, IsKey
<1>4. Suspicion'
  BY DEF Stop, Inv, Suspicion, run, Rests
<1>5. Dated'
  BY DEF Stop, Inv, Dated, run, history
<1>6. Aside'
  BY DEF Stop, Inv, Aside, files, run, history, Since
<1>7. Keyed'
  BY DEF Stop, Inv, Keyed, files, history, Up, Root
<1> QED
  BY <1>1, <1>2, <1>3, <1>4, <1>5, <1>6, <1>7 DEF Inv

(* The end of a process: what it moved and did not note is unrecorded.     *)
LEMMA ExitInv ==
    ASSUME Inv, Exit
    PROVE  Inv'
<1>1. TypeOK'
  BY Defaults DEF Exit, Ended, Fault, Inv, TypeOK, Reasons, Root, Contents, Entries,
     files, session, run, bounds, history
<1>2. Rests'
  BY DEF Exit, Inv, Rests, Ended, Up, NoReason
<1>3. Looked'
  BY DEF Exit, Inv, Looked, Ended, files, Readable, IsKey
<1>4. Suspicion'
  BY DEF Exit, Inv, Suspicion, Ended, Rests
<1>5. Dated'
  BY DEF Exit, Inv, Dated, Ended, EmptyState
<1>6. Aside'
  BY DEF Exit, Inv, Aside, Ended, files, EmptyState, Since
<1>7. Keyed'
  BY DEF Exit, Inv, Keyed, Ended, files, Up, Root
<1> QED
  BY <1>1, <1>2, <1>3, <1>4, <1>5, <1>6, <1>7 DEF Inv

(* A new day: nothing is being looked at, and no note changes.             *)
LEMMA NextDayInv ==
    ASSUME Inv, NextDay
    PROVE  Inv'
<1>1. TypeOK'
  BY DEF NextDay, Inv, TypeOK, files, session, run, bounds, history, Contents,
     Entries, Levels
<1>2. Rests'
  BY DEF NextDay, Inv, Rests, session, run, history, Up, NoReason
<1>3. Looked'
  <2>1. pending = NoReason /\ okSeen = {}
    BY DEF NextDay, Inv, Rests
  <2> QED
    BY <2>1, Defaults DEF NextDay, Inv, Looked, TypeOK, run
<1>4. Suspicion'
  BY DEF NextDay, Inv, Suspicion, run, Rests
<1>5. Dated'
  BY DEF NextDay, Inv, Dated, run, history
<1>6. Aside'
  BY DEF NextDay, Inv, Aside, files, run, history, Since
<1>7. Keyed'
  BY DEF NextDay, Inv, Keyed, files, session, history, Up, Root
<1> QED
  BY <1>1, <1>2, <1>3, <1>4, <1>5, <1>6, <1>7 DEF Inv

(* A store seals with the active key, and the object counts as fresh.      *)
LEMMA StoreInv ==
    ASSUME Inv, NEW r \in Refs, Store(r)
    PROVE  Inv'
<1>1. TypeOK'
  BY DEF Store, Inv, TypeOK, session, run, Contents, Entries, Levels, Up
<1>2. Rests'
  BY DEF Store, Inv, Rests, session, run, Up, NoReason
<1>3. Looked'
  BY DEF Store, Inv, Looked, session, run, Readable, IsKey
<1>4. Suspicion'
  BY DEF Store, Inv, Suspicion, run, Rests
<1>5. Dated'
  BY DEF Store, Inv, Dated, run
<1>6. Aside'
  BY DEF Store, Inv, Aside, run, Since
<1>7. Keyed'
  BY DEF Store, Inv, Keyed, session, Up, Root
<1> QED
  BY <1>1, <1>2, <1>3, <1>4, <1>5, <1>6, <1>7 DEF Inv

(* A removed object is not readable.                                       *)
LEMMA RemoveInv ==
    ASSUME Inv, NEW r \in Refs, Remove(r)
    PROVE  Inv'
<1>1. TypeOK'
  BY DEF Remove, Inv, TypeOK, session, run, bounds, history, Contents, Entries,
     Levels, Up
<1>2. Rests'
  BY DEF Remove, Inv, Rests, session, run, history, Up, NoReason
<1>3. Looked'
  BY DEF Remove, Inv, Looked, session, run, history, Readable, IsKey
<1>4. Suspicion'
  BY DEF Remove, Inv, Suspicion, run, Rests
<1>5. Dated'
  BY DEF Remove, Inv, Dated, run, history
<1>6. Aside'
  BY DEF Remove, Inv, Aside, run, history, Since
<1>7. Keyed'
  BY DataAssumption DEF Remove, Inv, Keyed, session, history, Up, Root, TypeOK
<1> QED
  BY <1>1, <1>2, <1>3, <1>4, <1>5, <1>6, <1>7 DEF Inv

(* Nor is a damaged one.                                                   *)
LEMMA DamageInv ==
    ASSUME Inv, NEW r \in Refs, NEW c \in {Damaged, Short}, Damage(r, c)
    PROVE  Inv'
<1>1. TypeOK'
  BY DEF Damage, Inv, TypeOK, Fault, session, run, history, Contents, Entries, Levels
<1>2. Rests'
  BY DEF Damage, Inv, Rests, Fault, session, run, history, Up, NoReason
<1>3. Looked'
  BY DEF Damage, Inv, Looked, Fault, session, run, history, Readable, IsKey
<1>4. Suspicion'
  BY DEF Damage, Inv, Suspicion, Fault, run, Rests
<1>5. Dated'
  BY DEF Damage, Inv, Dated, Fault, run, history
<1>6. Aside'
  BY DEF Damage, Inv, Aside, Fault, run, history, Since
<1>7. Keyed'
  BY DataAssumption DEF Damage, Inv, Keyed, Fault, session, history, Up, Root, TypeOK
<1> QED
  BY <1>1, <1>2, <1>3, <1>4, <1>5, <1>6, <1>7 DEF Inv

(* A run begins with the notes on disk.                                    *)
LEMMA GcBeginInv ==
    ASSUME Inv, GcBegin
    PROVE  Inv'
<1>1. TypeOK'
  BY DEF GcBegin, Inv, TypeOK, Present, files, session, bounds, history, Contents,
     Entries, Levels
<1>2. Rests'
  BY DEF GcBegin, Inv, Rests, Present, session, history, Up, NoReason
<1>3. Looked'
  <2>1. pending = NoReason /\ okSeen = {}
    BY DEF GcBegin, Inv, Rests
  <2> QED
    BY <2>1, Defaults DEF GcBegin, Inv, Looked, TypeOK
<1>4. Suspicion'
  BY DEF GcBegin, Inv, Suspicion, Present, Rests
<1>5. Dated'
  BY DEF GcBegin, Inv, Dated, Present, history
<1>6. Aside'
  <2>1. moved = {}
    BY DEF GcBegin, Inv, Rests
  <2> QED
    BY <2>1 DEF GcBegin, Inv, Aside, files, history, Since
<1>7. Keyed'
  BY DEF GcBegin, Inv, Keyed, Present, files, session, history, Up, Root
<1> QED
  BY <1>1, <1>2, <1>3, <1>4, <1>5, <1>6, <1>7 DEF Inv

(* One object is looked at, healthy or not.                                *)
LEMMA GcClassifyInv ==
    ASSUME Inv, NEW r \in Refs, GcClassify(r)
    PROVE  Inv'
<1>1. TypeOK'
  <2>1. Health(r) \in Reasons \cup {"ok"}
    BY DEF Health, Reasons
  <2>2. pending' \in [Refs -> Reasons] /\ okSeen' \subseteq Refs
    BY <2>1 DEF GcClassify, Inv, TypeOK, Reasons
  <2>3. state' \in [Refs -> Entries]
    BY Defaults DEF GcClassify, Inv, TypeOK
  <2> QED
    BY <2>2, <2>3 DEF GcClassify, Inv, TypeOK, Reasons, Contents, Entries, files,
       session, run, bounds, history
<1>2. Rests'
  BY DEF GcClassify, Inv, Rests, Health, IsFirst, session, Up, NoReason
<1>3. Looked'
  BY DataAssumption DEF GcClassify, Inv, Looked, Health, IsFirst, files, session,
     Readable, IsKey, TypeOK
<1>4. Suspicion'
  BY DEF GcClassify, Inv, Suspicion, Health, IsFirst, Rests
<1>5. Dated'
  BY DataAssumption DEF GcClassify, Inv, Dated, Health, IsFirst, TypeOK
<1>6. Aside'
  BY DataAssumption DEF GcClassify, Inv, Aside, Health, IsFirst, files, TypeOK, Since
<1>7. Keyed'
  BY DEF GcClassify, Inv, Keyed, Health, IsFirst, files, session, Up, Root
<1> QED
  BY <1>1, <1>2, <1>3, <1>4, <1>5, <1>6, <1>7 DEF Inv

(* All have been looked at, and the key set is judged.                     *)
LEMMA GcClassifiedInv ==
    ASSUME Inv, GcClassified
    PROVE  Inv'
<1>1. TypeOK'
  BY DEF GcClassified, Inv, TypeOK, files, session, bounds, history, Contents,
     Entries, Levels
<1>2. Rests'
  BY DEF GcClassified, Inv, Rests, session, history, Up, NoReason
<1>3. Looked'
  <2>1. moved = {} /\ moved' = {}
    BY DEF GcClassified, Inv, Rests, history
  <2> QED
    BY <2>1 DEF GcClassified, Inv, Looked, Readable, IsKey, files, session, history
<1>4. Suspicion'
  BY DEF GcClassified, Inv, Suspicion, Rests
<1>5. Dated'
  BY DEF GcClassified, Inv, Dated, history
<1>6. Aside'
  BY DEF GcClassified, Inv, Aside, files, history, Since
<1>7. Keyed'
  BY DEF GcClassified, Inv, Keyed, files, session, history, Up, Root
<1> QED
  BY <1>1, <1>2, <1>3, <1>4, <1>5, <1>6, <1>7 DEF Inv

(* One is noted, or gone, and left.                                        *)
LEMMA GcKeepInv ==
    ASSUME Inv, NEW r \in Refs, GcKeep(r)
    PROVE  Inv'
<1>1. TypeOK'
  <2>1. state' \in [Refs -> Entries]
    BY ItemType, Defaults DEF GcKeep, Inv, TypeOK, Entries
  <2> QED
    BY <2>1 DEF GcKeep, MayMove, Fault, Inv, TypeOK, Reasons, Contents, Entries, files,
       session, run, bounds, history
<1>2. Rests'
  BY DEF GcKeep, Inv, Rests, IsFirst, session, history, Up, NoReason
<1>3. Looked'
  BY DEF GcKeep, Inv, Looked, IsFirst, files, session, history, Readable, IsKey
<1>4. Suspicion'
  BY DEF GcKeep, Inv, Suspicion, IsFirst, Rests
<1>5. Dated'
  <2>1. \/ state'[r] = state[r] \/ state'[r] = NoEntry
        \/ state'[r].first = Item(r, "main").first
    BY ItemType, Defaults DEF GcKeep, Inv, TypeOK, Entries
  <2>2. \A q \in Refs \ {r} : state'[q] = state[q]
    BY DEF GcKeep, Inv, TypeOK
  <2>3. okDay[r] <= Item(r, "main").first
    BY ItemType DEF Inv, Dated, TypeOK
  <2> QED
    BY <2>1, <2>2, <2>3 DEF GcKeep, Inv, Dated, TypeOK, history
<1>6. Aside'
  <2>1. SUFFICES ASSUME NEW q \in Refs, quarantine'[q] # None
                 PROVE  /\ q \notin unrecorded' \cup moved' /\ saved'[q] # NoEntry =>
                             movedAt'[q] <= Since(saved'[q])
                        /\ q \notin unrecorded' \ moved' /\ state'[q] # NoEntry =>
                             movedAt'[q] <= Since(state'[q])
    BY DEF Aside, Since
  <2>2. CASE q # r
    BY <2>1, <2>2 DEF GcKeep, Inv, Aside, TypeOK, Fault, files, history, Since
  <2>3. CASE q = r
    <3>1. state'[r] = state[r] \/ (state'[r] = Item(r, "main"))
      BY DEF GcKeep, Inv, TypeOK
    <3>2. movedAt[r] \in 0 .. day /\ day \in Nat
      BY DEF Inv, TypeOK
    <3> QED
      BY <2>1, <2>3, <3>1, <3>2, ItemType DEF GcKeep, Inv, Aside, files, history
  <2> QED
    BY <2>2, <2>3
<1>7. Keyed'
  BY DEF GcKeep, Inv, Keyed, IsFirst, files, session, history, Up, Root
<1> QED
  BY <1>1, <1>2, <1>3, <1>4, <1>5, <1>6, <1>7 DEF Inv

(* One is moved, and noted as set aside today.                             *)
LEMMA GcMoveInv ==
    ASSUME Inv, NEW r \in Refs, GcMove(r)
    PROVE  Inv'
<1>1. TypeOK'
  <2>1. state' \in [Refs -> Entries]
    BY ItemType, Defaults DEF GcMove, Inv, TypeOK, Entries
  <2> QED
    BY <2>1 DEF GcMove, MayMove, Fault, Inv, TypeOK, Reasons, Contents, Entries, files,
       session, run, bounds, history
<1>2. Rests'
  BY DEF GcMove, Inv, Rests, MayMove, IsFirst, session, Up, NoReason
<1>3. Looked'
  BY DEF GcMove, Inv, Looked, MayMove, IsFirst, session, Readable, IsKey
<1>4. Suspicion'
  BY DEF GcMove, Inv, Suspicion, MayMove, IsFirst, Rests
<1>5. Dated'
  <2>1. \/ state'[r] = state[r] \/ state'[r] = NoEntry
        \/ state'[r].first = Item(r, "main").first
    BY ItemType, Defaults DEF GcMove, Inv, TypeOK, Entries
  <2>2. \A q \in Refs \ {r} : state'[q] = state[q]
    BY DEF GcMove, Inv, TypeOK
  <2>3. okDay[r] <= Item(r, "main").first
    BY ItemType DEF Inv, Dated, TypeOK
  <2> QED
    BY <2>1, <2>2, <2>3 DEF GcMove, Inv, Dated, TypeOK, history
<1>6. Aside'
  <2>1. SUFFICES ASSUME NEW q \in Refs, quarantine'[q] # None
                 PROVE  /\ q \notin unrecorded' \cup moved' /\ saved'[q] # NoEntry =>
                             movedAt'[q] <= Since(saved'[q])
                        /\ q \notin unrecorded' \ moved' /\ state'[q] # NoEntry =>
                             movedAt'[q] <= Since(state'[q])
    BY DEF Aside, Since
  <2>2. CASE q # r
    BY <2>1, <2>2 DEF GcMove, Inv, Aside, TypeOK, Fault, files, history, Since
  <2>3. CASE q = r
    <3>1. /\ state'[r] = [Item(r, "main") EXCEPT !.at = day]
          /\ movedAt'[r] = day /\ r \in moved'
      BY DEF GcMove, Inv, TypeOK
    <3>2. Since(state'[r]) = day
      BY <3>1, ItemType DEF Since, Inv, TypeOK, NoDay, Entries
    <3> QED
      BY <2>3, <3>1, <3>2 DEF Inv, TypeOK
  <2> QED
    BY <2>2, <2>3
<1>7. Keyed'
  BY DataAssumption DEF GcMove, Inv, Keyed, MayMove, IsFirst, session, Up, Root,
     TypeOK
<1> QED
  BY <1>1, <1>2, <1>3, <1>4, <1>5, <1>6, <1>7 DEF Inv

(* One is not moved, or copied without a note of when.                     *)
LEMMA GcMoveFailsInv ==
    ASSUME Inv, NEW r \in Refs, GcMoveFails(r)
    PROVE  Inv'
<1>1. TypeOK'
  <2>1. state' \in [Refs -> Entries]
    BY ItemType, Defaults DEF GcMoveFails, Inv, TypeOK, Entries
  <2>2. quarantine' \in [Refs -> Contents]
    BY DEF GcMoveFails, Inv, TypeOK, Contents
  <2>3. movedAt' \in [Refs -> 0 .. day] /\ unrecorded' \subseteq Refs
    BY DEF GcMoveFails, Inv, TypeOK
  <2> QED
    BY <2>1, <2>2, <2>3 DEF GcMoveFails, Inv, TypeOK, Contents, Entries, session
<1>2. Rests'
  BY DEF GcMoveFails, Inv, Rests, MayMove, Fault, IsFirst, session, Up, NoReason
<1>3. Looked'
  BY DEF GcMoveFails, Inv, Looked, MayMove, Fault, IsFirst, session, Readable, IsKey
<1>4. Suspicion'
  BY DEF GcMoveFails, Inv, Suspicion, MayMove, Fault, IsFirst, Rests
<1>5. Dated'
  <2>1. \/ state'[r] = state[r] \/ state'[r] = NoEntry
        \/ state'[r].first = Item(r, "main").first
    BY ItemType, Defaults DEF GcMoveFails, Inv, TypeOK, Entries
  <2>2. \A q \in Refs \ {r} : state'[q] = state[q]
    BY DEF GcMoveFails, Inv, TypeOK
  <2>3. okDay[r] <= Item(r, "main").first
    BY ItemType DEF Inv, Dated, TypeOK
  <2> QED
    BY <2>1, <2>2, <2>3 DEF GcMoveFails, Inv, Dated, TypeOK, history
<1>6. Aside'
  <2>1. SUFFICES ASSUME NEW q \in Refs, quarantine'[q] # None
                 PROVE  /\ q \notin unrecorded' \cup moved' /\ saved'[q] # NoEntry =>
                             movedAt'[q] <= Since(saved'[q])
                        /\ q \notin unrecorded' \ moved' /\ state'[q] # NoEntry =>
                             movedAt'[q] <= Since(state'[q])
    BY DEF Aside, Since
  <2>2. CASE q # r
    BY <2>1, <2>2 DEF GcMoveFails, Inv, Aside, TypeOK, Fault, files, history, Since
  <2>3. CASE q = r
    <3>1. state'[r] = Item(r, "main") /\ moved' = moved /\ saved' = saved
      BY DEF GcMoveFails, Inv, TypeOK
    <3>2. r \notin moved
      BY DEF GcMoveFails, MayMove, IsFirst, Inv, Looked
    <3>3. CASE r \in unrecorded'
      BY <2>3, <3>1, <3>2, <3>3
    <3>4. CASE r \notin unrecorded'
      <4>1. quarantine'[r] = quarantine[r] /\ movedAt' = movedAt /\ unrecorded' = unrecorded
        BY <2>1, <2>3, <3>4 DEF GcMoveFails, Inv, TypeOK
      <4>2. movedAt[r] \in 0 .. day /\ day \in Nat
        BY DEF Inv, TypeOK
      <4> QED
        BY <2>1, <2>3, <3>1, <4>1, <4>2, ItemType DEF Inv, Aside
    <3> QED
      BY <3>3, <3>4
  <2> QED
    BY <2>2, <2>3
<1>7. Keyed'
  BY DEF GcMoveFails, Inv, Keyed, MayMove, Fault, IsFirst, session, Up, Root
<1> QED
  BY <1>1, <1>2, <1>3, <1>4, <1>5, <1>6, <1>7 DEF Inv

(* A run cut short forgets its notes; what it moved is unrecorded.         *)
LEMMA GcAbandonInv ==
    ASSUME Inv, GcAbandon
    PROVE  Inv'
<1>1. TypeOK'
  BY Defaults DEF GcAbandon, Ended, Fault, Inv, TypeOK, Reasons, Contents, Entries,
     files, session, run, bounds, history
<1>2. Rests'
  BY DEF GcAbandon, Inv, Rests, session, Up, NoReason
<1>3. Looked'
  BY Defaults DEF GcAbandon, Inv, Looked, TypeOK
<1>4. Suspicion'
  BY DEF GcAbandon, Inv, Suspicion, Rests
<1>5. Dated'
  BY DEF GcAbandon, Inv, Dated, EmptyState
<1>6. Aside'
  BY DEF GcAbandon, Inv, Aside, files, EmptyState, Since
<1>7. Keyed'
  BY DEF GcAbandon, Inv, Keyed, files, session, Up, Root
<1> QED
  BY <1>1, <1>2, <1>3, <1>4, <1>5, <1>6, <1>7 DEF Inv

(* The sweep lists what is set aside, unless the key set is suspect.       *)
LEMMA GcActedInv ==
    ASSUME Inv, GcActed
    PROVE  Inv'
<1>1. TypeOK'
  BY DEF GcActed, Inv, TypeOK, Present, files, session, bounds, history, Contents,
     Entries, Levels
<1>2. Rests'
  BY DEF GcActed, Inv, Rests, Present, session, history, Up, NoReason
<1>3. Looked'
  BY DEF GcActed, Inv, Looked, Present, files, session, history, Readable, IsKey
<1>4. Suspicion'
  BY DEF GcActed, Inv, Suspicion, Present, Rests
<1>5. Dated'
  BY DEF GcActed, Inv, Dated, Present, history
<1>6. Aside'
  BY DEF GcActed, Inv, Aside, Present, files, history, Since
<1>7. Keyed'
  BY DEF GcActed, Inv, Keyed, Present, files, session, history, Up, Root
<1> QED
  BY <1>1, <1>2, <1>3, <1>4, <1>5, <1>6, <1>7 DEF Inv

(* One set aside is noted, or deleted with its note.                       *)
LEMMA GcSweepInv ==
    ASSUME Inv, NEW r \in Refs, GcSweep(r)
    PROVE  Inv'
<1>1. TypeOK'
  <2>1. state' \in [Refs -> Entries]
    <3>1. \/ state' = [state EXCEPT ![r] = Item(r, "quarantine")]
          \/ state' = [state EXCEPT ![r] = NoEntry]
      BY DEF GcSweep
    <3>2. Item(r, "quarantine") \in Entries /\ NoEntry \in Entries
      BY ItemType, Defaults DEF Inv, TypeOK
    <3> QED
      BY <3>1, <3>2 DEF Inv, TypeOK
  <2> QED
    BY <2>1 DEF GcSweep, Inv, TypeOK, Contents, Entries, session
<1>2. Rests'
  BY DEF GcSweep, Inv, Rests, IsFirst, session, Up, NoReason
<1>3. Looked'
  <2>1. \A q \in Refs : q \in okSeen => state'[q] = NoEntry \/ state'[q].first = day
    <3>1. state'[r] = NoEntry \/ state'[r] = Item(r, "quarantine")
      BY DEF GcSweep, Inv, TypeOK
    <3>2. \A q \in Refs \ {r} : state'[q] = state[q]
      BY DEF GcSweep, Inv, TypeOK
    <3> QED
      BY <3>1, <3>2, ItemType DEF Inv, Looked
  <2> QED
    BY <2>1 DEF GcSweep, Inv, Looked, Readable, IsKey, session
<1>4. Suspicion'
  BY DEF GcSweep, Inv, Suspicion, IsFirst, Rests
<1>5. Dated'
  <2>1. \/ state'[r] = state[r] \/ state'[r] = NoEntry
        \/ state'[r].first = Item(r, "quarantine").first
    BY ItemType, Defaults DEF GcSweep, Inv, TypeOK, Entries
  <2>2. \A q \in Refs \ {r} : state'[q] = state[q]
    BY DEF GcSweep, Inv, TypeOK
  <2>3. okDay[r] <= Item(r, "quarantine").first
    BY ItemType DEF Inv, Dated, TypeOK
  <2> QED
    BY <2>1, <2>2, <2>3 DEF GcSweep, Inv, Dated, TypeOK, history
<1>6. Aside'
  <2>1. SUFFICES ASSUME NEW q \in Refs, quarantine'[q] # None
                 PROVE  /\ q \notin unrecorded' \cup moved' /\ saved'[q] # NoEntry =>
                             movedAt'[q] <= Since(saved'[q])
                        /\ q \notin unrecorded' \ moved' /\ state'[q] # NoEntry =>
                             movedAt'[q] <= Since(state'[q])
    BY DEF Aside, Since
  <2>2. CASE q # r
    BY <2>1, <2>2 DEF GcSweep, Inv, Aside, TypeOK, Fault, files, history, Since
  <2>3. CASE q = r
    <3>1. /\ state'[r] = Item(r, "quarantine")
          /\ UNCHANGED <<quarantine, unrecorded, movedAt, moved, saved>>
      BY <2>1, <2>3 DEF GcSweep, Inv, TypeOK
    <3>2. movedAt[r] \in 0 .. day /\ day \in Nat
      BY DEF Inv, TypeOK
    <3> QED
      BY <2>1, <2>3, <3>1, <3>2, ItemType DEF Inv, Aside
  <2> QED
    BY <2>2, <2>3
<1>7. Keyed'
  BY DEF GcSweep, Inv, Keyed, IsFirst, session, Up, Root
<1> QED
  BY <1>1, <1>2, <1>3, <1>4, <1>5, <1>6, <1>7 DEF Inv

(* The notes are saved, with a note kept or dropped but never changed.     *)
LEMMA GcSaveInv ==
    ASSUME Inv, GcSave
    PROVE  Inv'
<1>1. TypeOK'
  <2>1. saved' \in [Refs -> Entries]
    BY Defaults DEF GcSave, Compacted, Inv, TypeOK
  <2>2. okDay' \in [Refs -> 0 .. day]
    BY DEF GcSave, Inv, TypeOK
  <2> QED
    BY <2>1, <2>2, Defaults DEF GcSave, Inv, TypeOK, Reasons, Contents, Entries, files,
       session, run, bounds, history
<1>2. Rests'
  BY DEF GcSave, Inv, Rests, Fault, session, Up, NoReason
<1>3. Looked'
  BY Defaults DEF GcSave, Inv, Looked, TypeOK
<1>4. Suspicion'
  BY DEF GcSave, Inv, Suspicion, Fault, Rests
<1>5. Dated'
  <2>1. \A q \in Refs : state'[q] = NoEntry
    BY Defaults DEF GcSave, Inv, TypeOK
  <2>2. ASSUME NEW q \in Refs, saved'[q] # NoEntry
        PROVE  okDay'[q] <= saved'[q].first
    <3>1. CASE saved' = saved /\ okDay' = okDay
      BY <2>2, <3>1 DEF Inv, Dated
    <3>2. CASE /\ saved' = Compacted
               /\ okDay' = [r \in Refs |-> IF r \in okSeen THEN day ELSE okDay[r]]
      <4>1. saved'[q] = state[q]
        BY <2>2, <3>2 DEF Compacted
      <4> QED
        BY <2>2, <3>2, <4>1 DEF Inv, Dated, Looked, TypeOK
    <3> QED
      BY <3>1, <3>2 DEF GcSave
  <2> QED
    BY <2>1, <2>2 DEF Dated
<1>6. Aside'
  <2>1. \A q \in Refs : state'[q] = NoEntry
    BY Defaults DEF GcSave, Inv, TypeOK
  <2>2. ASSUME NEW q \in Refs, quarantine'[q] # None, saved'[q] # NoEntry,
               q \notin unrecorded' \cup moved'
        PROVE  movedAt'[q] <= Since(saved'[q])
    <3>0. quarantine' = quarantine /\ movedAt' = movedAt
      BY DEF GcSave, files
    <3>1. CASE saved' = saved /\ unrecorded' = unrecorded \cup moved
      BY <2>2, <3>0, <3>1 DEF Inv, Aside
    <3>2. CASE saved' = Compacted /\ unrecorded' = unrecorded \ moved
      <4>1. saved'[q] = state[q]
        BY <2>2, <3>2 DEF Compacted
      <4> QED
        BY <2>2, <3>0, <3>2, <4>1 DEF Inv, Aside
    <3> QED
      BY <3>1, <3>2 DEF GcSave
  <2> QED
    BY <2>1, <2>2 DEF Aside, Since
<1>7. Keyed'
  BY DEF GcSave, Inv, Keyed, Fault, files, session, Up, Root
<1> QED
  BY <1>1, <1>2, <1>3, <1>4, <1>5, <1>6, <1>7 DEF Inv

(* A torn state file has no notes.                                         *)
LEMMA GcTornSaveInv ==
    ASSUME Inv, GcTornSave
    PROVE  Inv'
<1>1. TypeOK'
  BY Defaults DEF GcTornSave, Ended, Fault, Inv, TypeOK, Reasons, Root, Contents,
     Entries, files, session, run, bounds, history
<1>2. Rests'
  BY DEF GcTornSave, Inv, Rests, Fault, Ended, Up, NoReason
<1>3. Looked'
  BY DEF GcTornSave, Inv, Looked, Fault, Ended, files, Readable, IsKey
<1>4. Suspicion'
  BY DEF GcTornSave, Inv, Suspicion, Fault, Ended, Rests
<1>5. Dated'
  BY DEF GcTornSave, Inv, Dated, Fault, Ended, EmptyState
<1>6. Aside'
  BY DEF GcTornSave, Inv, Aside, Fault, Ended, files, EmptyState, Since
<1>7. Keyed'
  BY DEF GcTornSave, Inv, Keyed, Fault, Ended, files, Up, Root
<1> QED
  BY <1>1, <1>2, <1>3, <1>4, <1>5, <1>6, <1>7 DEF Inv

-----------------------------------------------------------------------------
(* The invariant.                                                          *)

(* It holds when nothing has run yet.                                      *)
LEMMA InitInv == Init => Inv
<1> SUFFICES ASSUME Init PROVE Inv
  OBVIOUS
<1>1. TypeOK
  <2>1. /\ saved \in [Refs -> Entries] /\ state \in [Refs -> Entries]
        /\ pending \in [Refs -> Reasons]
    BY Defaults DEF Init
  <2>2. main \in [Refs -> Contents] /\ quarantine \in [Refs -> Contents]
    BY DEF Init, Contents
  <2>3. movedAt \in [Refs -> 0 .. day] /\ okDay \in [Refs -> 0 .. day]
    BY DEF Init, NoDay
  <2>4. stopping \in BOOLEAN /\ suspect \in BOOLEAN /\ lowered \in BOOLEAN
    BY Zenon DEF Init
  <2>5. /\ day \in Nat \ {0} /\ keyFiles \subseteq Nat /\ held \subseteq Nat
        /\ active \in Nat /\ unwritten \subseteq Nat /\ level = "none" /\ gc = "done"
    BY DEF Init, Root
  <2>6. /\ todo \subseteq Refs /\ okSeen \subseteq Refs /\ fresh \subseteq Refs
        /\ moved \subseteq Refs /\ unrecorded \subseteq Refs
    BY DEF Init
  <2> QED
    BY <2>1, <2>2, <2>3, <2>4, <2>5, <2>6 DEF TypeOK, Reasons
<1>2. Rests /\ Suspicion
  BY DEF Init, Rests, Suspicion, Up
<1>3. Looked /\ Dated /\ Aside
  BY Defaults DEF Init, Looked, Dated, Aside
<1>4. Keyed
  BY DataAssumption DEF Init, Keyed, Up, Root
<1> QED
  BY <1>1, <1>2, <1>3, <1>4 DEF Inv

(* And every step keeps it.                                                *)
LEMMA NextInv == Inv /\ [Next]_vars => Inv'
<1> SUFFICES ASSUME Inv, [Next]_vars PROVE Inv'
  OBVIOUS
<1>1. CASE UNCHANGED vars
  <2>1. TypeOK' /\ Rests'
    BY <1>1 DEF Inv, TypeOK, Rests, Up, Entries, vars, files, session, run, history
  <2>2. Looked' /\ Suspicion'
    BY <1>1 DEF Inv, Looked, Suspicion, Readable, vars, files, session, run, history
  <2>3. Dated' /\ Aside'
    BY <1>1 DEF Inv, Dated, Aside, Since, vars, files, run, history
  <2>4. Keyed'
    BY <1>1 DEF Inv, Keyed, Up, vars, files, session, history
  <2> QED
    BY <2>1, <2>2, <2>3, <2>4 DEF Inv
<1>2. ASSUME NEW l \in Levels, Start(l) PROVE Inv'
  BY <1>2, StartInv
<1>3. CASE Stop \/ Exit \/ NextDay
  BY <1>3, StopInv, ExitInv, NextDayInv
<1>4. ASSUME NEW r \in Refs,
             Store(r) \/ Remove(r) \/ \E c \in {Damaged, Short} : Damage(r, c)
      PROVE  Inv'
  BY <1>4, StoreInv, RemoveInv, DamageInv
<1>5. CASE GcBegin \/ GcClassified \/ GcAbandon
  BY <1>5, GcBeginInv, GcClassifiedInv, GcAbandonInv
<1>6. CASE GcActed \/ GcSave \/ GcTornSave
  BY <1>6, GcActedInv, GcSaveInv, GcTornSaveInv
<1>7. ASSUME NEW r \in Refs, GcClassify(r) \/ GcKeep(r) PROVE Inv'
  BY <1>7, GcClassifyInv, GcKeepInv
<1>8. ASSUME NEW r \in Refs, GcMove(r) \/ GcMoveFails(r) \/ GcSweep(r) PROVE Inv'
  BY <1>8, GcMoveInv, GcMoveFailsInv, GcSweepInv
<1> QED
  BY <1>1, <1>2, <1>3, <1>4, <1>5, <1>6, <1>7, <1>8 DEF Next, GcStep

(* So it always holds.                                                     *)
LEMMA Always == Spec => []Inv
BY InitInv, NextInv, PTL DEF Spec

-----------------------------------------------------------------------------
(* What a step of the collector may do.                                    *)

(* Only a successful move sets an object aside.                            *)
LEMMA OnlyMoveSetsAside ==
    ASSUME Inv, [Next]_vars, NEW r \in Refs, SetAside(r)
    PROVE  GcMove(r)
<1>0. gc = "act" /\ r \in moved' /\ r \notin moved
  BY DEF SetAside
<1>1. moved' # moved /\ moved' # {}
  BY <1>0
<1>2. ~UNCHANGED vars /\ ~Stop /\ ~Exit /\ ~NextDay /\ \A l \in Levels : ~Start(l)
  BY <1>1 DEF vars, history, Stop, Exit, Ended, NextDay, Start
<1>3. \A q \in Refs : /\ ~Store(q) /\ ~Remove(q)
                      /\ \A c \in {Damaged, Short} : ~Damage(q, c)
  BY <1>1 DEF Store, Remove, Damage, history
<1>4. ~GcBegin /\ ~GcClassified /\ ~GcAbandon /\ ~GcActed /\ ~GcSave /\ ~GcTornSave
  BY <1>1 DEF GcBegin, GcClassified, GcAbandon, GcActed, GcSave, GcTornSave, Ended, history
<1>5. \A q \in Refs : ~GcClassify(q) /\ ~GcKeep(q) /\ ~GcMoveFails(q) /\ ~GcSweep(q)
  BY <1>1 DEF GcClassify, GcKeep, GcMoveFails, GcSweep, history
<1>6. PICK q \in Refs : GcMove(q)
  BY <1>2, <1>3, <1>4, <1>5 DEF Next, GcStep
<1>7. moved' = moved \cup {q}
  BY <1>6 DEF GcMove
<1> QED
  BY <1>0, <1>6, <1>7

(* Only the sweep deletes for good, once it has counted the days.          *)
LEMMA OnlySweepSweeps ==
    ASSUME Inv, [Next]_vars, NEW r \in Refs, Swept(r)
    PROVE  /\ GcSweep(r)
           /\ day - Since(Item(r, "quarantine")) >= QuarantineGrace[Policy]
<1>0. gc = "sweep" /\ quarantine[r] # None /\ quarantine'[r] = None
  BY DEF Swept
<1>1. quarantine' # quarantine
  BY <1>0
<1>2. ~UNCHANGED vars /\ ~Stop /\ ~Exit /\ ~NextDay /\ \A l \in Levels : ~Start(l)
  BY <1>1 DEF vars, files, Stop, Exit, NextDay, Start
<1>3. \A q \in Refs : /\ ~Store(q) /\ ~Remove(q)
                      /\ \A c \in {Damaged, Short} : ~Damage(q, c)
  BY <1>1 DEF Store, Remove, Damage
<1>4. ~GcBegin /\ ~GcClassified /\ ~GcAbandon /\ ~GcActed /\ ~GcSave /\ ~GcTornSave
  BY <1>1 DEF GcBegin, GcClassified, GcAbandon, GcActed, GcSave, GcTornSave, files
<1>5. \A q \in Refs : ~GcClassify(q) /\ ~GcKeep(q) /\ ~GcMove(q) /\ ~GcMoveFails(q)
  BY <1>0, <1>1 DEF GcClassify, GcKeep, GcMove, GcMoveFails, MayMove, files
<1>6. PICK q \in Refs : GcSweep(q)
  BY <1>2, <1>3, <1>4, <1>5 DEF Next, GcStep
<1>7. /\ quarantine' = [quarantine EXCEPT ![q] = None]
      /\ day - Since(Item(q, "quarantine")) >= QuarantineGrace[Policy]
  BY <1>1, <1>6 DEF GcSweep
<1>8. q = r
  BY <1>0, <1>7 DEF Inv, TypeOK
<1> QED
  BY <1>6, <1>7, <1>8

(* A copy in quarantine ends with the sweep, or makes room for the file    *)
(* that is in place under its name.                                        *)
LEMMA DestroyedHow ==
    ASSUME Inv, [Next]_vars, NEW r \in Refs, Destroyed(r)
    PROVE  Swept(r) \/ MadeRoom(r)
<1>0. quarantine[r] # None /\ ~(quarantine'[r] = quarantine[r] /\ movedAt'[r] = movedAt[r])
  BY DEF Destroyed
<1>1. ~(UNCHANGED <<quarantine, movedAt>>)
  BY <1>0
<1>2. ~UNCHANGED vars /\ ~Stop /\ ~Exit /\ ~NextDay /\ \A l \in Levels : ~Start(l)
  BY <1>1 DEF vars, files, history, Stop, Exit, NextDay, Start
<1>3. \A q \in Refs : /\ ~Store(q) /\ ~Remove(q)
                      /\ \A c \in {Damaged, Short} : ~Damage(q, c)
  BY <1>1 DEF Store, Remove, Damage, history
<1>4. ~GcBegin /\ ~GcClassified /\ ~GcAbandon /\ ~GcActed /\ ~GcSave /\ ~GcTornSave
  BY <1>1 DEF GcBegin, GcClassified, GcAbandon, GcActed, GcSave, GcTornSave, files, history
<1>5. \A q \in Refs : ~GcClassify(q) /\ ~GcKeep(q)
  BY <1>1 DEF GcClassify, GcKeep, files, history
<1>6. PICK q \in Refs : GcMove(q) \/ GcMoveFails(q) \/ GcSweep(q)
  BY <1>2, <1>3, <1>4, <1>5 DEF Next, GcStep
<1>7. main \in [Refs -> Contents] /\ quarantine \in [Refs -> Contents] /\ movedAt \in [Refs -> 0 .. day]
  BY DEF Inv, TypeOK
<1>8. CASE GcMove(q)
  <2>1. /\ MayMove(q)
        /\ quarantine' = [quarantine EXCEPT ![q] = main[q]]
        /\ movedAt' = [movedAt EXCEPT ![q] = day]
    BY <1>8 DEF GcMove
  <2>2. q = r
    BY <1>0, <1>7, <2>1
  <2>3. quarantine'[r] = main[r]
    BY <1>7, <2>1, <2>2
  <2> QED
    BY <2>1, <2>2, <2>3 DEF MayMove, MadeRoom, IsFirst
<1>9. CASE GcMoveFails(q)
  <2>1. /\ MayMove(q) /\ main' = main
        /\ \A p \in Refs \ {q} : quarantine'[p] = quarantine[p] /\ movedAt'[p] = movedAt[p]
    BY <1>7, <1>9 DEF GcMoveFails
  <2>2. q = r
    BY <1>0, <2>1
  <2> QED
    BY <2>1, <2>2 DEF MayMove, MadeRoom, IsFirst
<1>10. CASE GcSweep(q)
  <2>1. gc = "sweep" /\ movedAt' = movedAt
    BY <1>10 DEF GcSweep
  <2>2. quarantine' = [quarantine EXCEPT ![q] = None]
    BY <1>1, <1>10, <2>1 DEF GcSweep
  <2>3. q = r
    BY <1>0, <1>7, <2>1, <2>2
  <2> QED
    BY <1>0, <1>7, <2>1, <2>2, <2>3 DEF Swept
<1> QED
  BY <1>6, <1>8, <1>9, <1>10

-----------------------------------------------------------------------------
(* Theorems.                                                               *)

(* What the store, the state file, the key set and a collection hold is of *)
(* the kind it should be, and no day noted anywhere lies in the future.    *)
THEOREM DataTypes == Spec => []TypeOK
<1>1. Inv => TypeOK
  BY DEF Inv
<1> QED
  BY <1>1, Always, PTL

(* Staying on a level or raising it loses no object, for every length of   *)
(* the rotation period and every number of days, sessions and failures     *)
(* (KeySet(), ProfileSecureKeyManager::Load()).                            *)
THEOREM DataStayingPutIsSafe == Spec => []StayingPutIsSafe
<1>1. Inv => StayingPutIsSafe
  BY DEF Inv, Keyed, StayingPutIsSafe
<1> QED
  BY <1>1, Always, PTL

(* Between the look at an object and the move of it (ClassifyDataObjects() *)
(* and MaybeQuarantineOrDelete()) other threads store and remove; one the  *)
(* session can read is still only moved if it was stored in between.       *)
THEOREM DataReadableKept == Spec => ReadableKept
<1>1. Inv /\ [Next]_vars =>
        [\A r \in Refs : SetAside(r) /\ Readable(r) => r \in fresh]_vars
  <2> SUFFICES ASSUME Inv, [Next]_vars, NEW r \in Refs, SetAside(r), Readable(r)
               PROVE  r \in fresh
    OBVIOUS
  <2>1. gc = "act" /\ r \in todo
    BY OnlyMoveSetsAside DEF GcMove, MayMove, IsFirst
  <2> QED
    BY <2>1 DEF Inv, Looked
<1> QED
  BY <1>1, Always, PTL DEF Spec, ReadableKept

(* No object is set aside for want of its key within the grace period      *)
(* after a run whose state was saved found it healthy, whatever sessions,  *)
(* levels and torn or unwritten state files lie between.                   *)
THEOREM DataMissingWaits == Spec => MissingWaits
<1>1. Inv /\ [Next]_vars =>
        [\A r \in Refs : SetAside(r) /\ pending[r] = "missing_key"
            => day - okDay[r] >= MissingGrace[Policy]]_vars
  <2> SUFFICES ASSUME Inv, [Next]_vars, NEW r \in Refs, SetAside(r),
                      pending[r] = "missing_key"
               PROVE  day - okDay[r] >= MissingGrace[Policy]
    OBVIOUS
  <2>1. ~(day - Item(r, "main").first < MissingGrace[Policy])
    BY OnlyMoveSetsAside DEF GcMove, MayMove, Waits
  <2>2. okDay[r] <= Item(r, "main").first
    BY ItemType DEF Inv, Dated, TypeOK
  <2>3. /\ day \in Nat /\ okDay[r] \in Nat /\ Item(r, "main").first \in Nat
        /\ MissingGrace[Policy] \in Nat
    BY ItemType, DataAssumption DEF Inv, TypeOK, Entries, Policy, Policies
  <2> QED
    BY <2>1, <2>2, <2>3
<1> QED
  BY <1>1, Always, PTL DEF Spec, MissingWaits

(* What was set aside is destroyed no sooner than the quarantine's grace   *)
(* period after, whatever step does it, if the run that set it aside saved *)
(* its state; or it makes room for a later file of its name, which is not  *)
(* lost (MoveFileReplacing()).                                             *)
THEOREM DataGraceKept == Spec => GraceKept
<1>1. Inv /\ [Next]_vars =>
        [\A r \in Refs \ unrecorded : Destroyed(r)
            => MadeRoom(r) \/ day - movedAt[r] >= QuarantineGrace[Policy]]_vars
  <2> SUFFICES ASSUME Inv, [Next]_vars, NEW r \in Refs \ unrecorded, Destroyed(r),
                      ~MadeRoom(r)
               PROVE  day - movedAt[r] >= QuarantineGrace[Policy]
    OBVIOUS
  <2>0. Swept(r)
    BY DestroyedHow
  <2> DEFINE since == Since(Item(r, "quarantine"))
  <2>1. day - since >= QuarantineGrace[Policy]
    BY <2>0, OnlySweepSweeps
  <2>2. day \in Nat /\ movedAt[r] \in 0 .. day /\ since \in Nat
    BY ItemType, SinceType DEF Inv, TypeOK
  <2>3. movedAt[r] <= since
    BY <2>0, <2>2, ItemType DEF Inv, Aside, Swept
  <2>4. QuarantineGrace[Policy] \in Nat
    BY DataAssumption DEF Policy, Policies
  <2> HIDE DEF since
  <2> QED
    BY <2>1, <2>2, <2>3, <2>4
<1> QED
  BY <1>1, Always, PTL DEF Spec, GraceKept

(* A run that found none of the objects readable and some without their    *)
(* key leaves those in place and sweeps nothing (IsWholesaleKeyFailure(),  *)
(* decided before the first move and read throughout the run).             *)
THEOREM DataKeyFailureSpares == Spec => KeyFailureSpares
<1>1. Inv /\ [Next]_vars =>
        [\A r \in Refs :
            /\ SetAside(r) /\ pending[r] = "missing_key" => okSeen # {}
            /\ Swept(r) => okSeen # {} \/ \A q \in Refs : pending[q] # "missing_key"]_vars
  <2> SUFFICES ASSUME Inv, [Next]_vars, NEW r \in Refs
               PROVE  /\ SetAside(r) /\ pending[r] = "missing_key" => okSeen # {}
                      /\ Swept(r) => \/ okSeen # {}
                                       \/ \A q \in Refs : pending[q] # "missing_key"
    OBVIOUS
  <2>1. ASSUME SetAside(r), pending[r] = "missing_key"
        PROVE  okSeen # {}
    <3>1. gc = "act" /\ DeleteAllowed(pending[r])
      BY <2>1, OnlyMoveSetsAside DEF GcMove, MayMove
    <3>2. ~suspect
      BY <2>1, <3>1 DEF DeleteAllowed
    <3> QED
      BY <2>1, <3>1, <3>2 DEF Inv, Suspicion
  <2>2. ASSUME Swept(r)
        PROVE  okSeen # {} \/ \A q \in Refs : pending[q] # "missing_key"
    <3>1. gc = "sweep" /\ r \in todo
      BY <2>2, OnlySweepSweeps DEF GcSweep, IsFirst
    <3> QED
      BY <3>1 DEF Inv, Suspicion
  <2> QED
    BY <2>1, <2>2
<1> QED
  BY <1>1, Always, PTL DEF Spec, KeyFailureSpares

=============================================================================
