------------------------- MODULE CacheManagerProofs -------------------------
(***************************************************************************)
(* Proofs about CacheManager, for any keys, values, callers and bounds,    *)
(* with any callers on one key.                                            *)
(*                                                                         *)
(* NothingForgotten speaks of an entry that no flush has in hand.  What    *)
(* makes it hold is said of an entry at every moment: a flush that will    *)
(* read it again is due, or one has its present value in hand, or the disk *)
(* has it and no hand holds another (Kept).  ResetStays needs that while   *)
(* the map has no value of a key, no flush has one in hand (Released) and  *)
(* a load has only what the disk has (Drawn).  A reset that has not come   *)
(* to the object suspends all this, and its removal restores it or leaves  *)
(* the key in crossed.                                                     *)
(***************************************************************************)
EXTENDS CacheManager, TLAPS

(* No flush is under way outside of its own steps, nor in no process.      *)
Quiet ==
    /\ \A t \in Threads : job[t].at \notin {"each", "store"} => job[t].todo = {}
    /\ phase = "down" => job = [t \in Threads |-> Idle]

Lifting(k) == \E t \in Threads : Removing(t, k)

Kept(k) ==
    storage[k] \in Values /\ ~Lifting(k) =>
        \/ Due(k)
        \/ \E t \in Threads : InHand(t, k) /\ job[t].hand = storage[k]
        \/ /\ object[k] = storage[k]
           /\ \A t \in Threads : InHand(t, k) => job[t].hand = storage[k]

Released(k) ==
    storage[k] \notin Values /\ ~Lifting(k) => \A t \in Threads : ~InHand(t, k)

Drawn(k) ==
    storage[k] \notin Values /\ ~Lifting(k) =>
        \A t \in Threads : Fetched(t, k) => job[t].hand = object[k]

Gone(k) ==
    k \in dropped /\ ~Lifting(k) => object[k] = Absent /\ storage[k] \notin Values

Entry(k) == k \notin crossed => Kept(k) /\ Released(k) /\ Drawn(k) /\ Gone(k)

Inv == TypeOK /\ Quiet /\ \A k \in Keys : Entry(k)

-----------------------------------------------------------------------------
(* An empty cache and no process.                                          *)
LEMMA InitInv == Init => Inv
<1> SUFFICES ASSUME Init PROVE Inv
  OBVIOUS
<1> USE CacheAssumption
<1>1. \A t \in Threads : job[t] = Idle
  BY DEF Init
<1>2. Idle \in Jobs
  BY DEF Idle, Jobs, Steps
<1>3. TypeOK
  BY <1>1, <1>2 DEF Init, TypeOK, Nothing, Idle, Calling
<1>4. Quiet
  BY <1>1 DEF Init, Quiet, Idle
<1>5. \A k \in Keys : Entry(k)
  BY <1>1 DEF Init, Entry, Kept, Released, Drawn, Gone, InHand, Fetched, Nothing, Idle
<1>6. QED
  BY <1>3, <1>4, <1>5 DEF Inv

-----------------------------------------------------------------------------
(* Types.                                                                  *)

(* What TypeOK says of a job, and of the rest.                             *)
JobOK(r) ==
    /\ r \in Jobs
    /\ r.at \in Calling => r.key \in Keys
    /\ r.at \in {"save_compare", "save_insert"} => r.hand \in Values
    /\ r.at = "load_insert" => r.hand \in Values \cup {Empty}
    /\ r.at = "store" => r.cur \in Keys /\ r.hand \in Values
    /\ r.at = "store_list" => r.hand \subseteq Keys

RestOK ==
    /\ object \in [Keys -> Values \cup {Absent}]
    /\ list = Absent \/ list \in SUBSET Keys
    /\ phase \in {"down", "running", "stopping", "final", "flushed"}
    /\ storage \in [Keys -> Values \cup {Absent, Empty}]
    /\ known \subseteq Keys /\ dirty \subseteq Keys
    /\ listDirty \in BOOLEAN
    /\ crossed \subseteq Keys /\ dropped \subseteq Keys

(* The two together are the types.                                         *)
LEMMA TypesSplit ==
  TypeOK <=> /\ RestOK
             /\ job \in [Threads -> Jobs]
             /\ \A t \in Threads : JobOK(job[t])
<1>1. QED
  BY DEF TypeOK, RestOK, JobOK

(* A thread that is idle, or goes on to a flush.                           *)
LEMMA JobTyped ==
  ASSUME TypeOK, NEW t \in Threads
  PROVE  /\ JobOK(Idle)
         /\ JobOK([Idle EXCEPT !.at = "take"])
         /\ JobOK([job[t] EXCEPT !.at = "take"])
<1> USE CacheAssumption
<1>1. job[t] \in Jobs
  BY DEF TypeOK
<1>2. QED
  BY <1>1 DEF JobOK, Idle, Jobs, Steps, Calling

(* One thread's job changes, and its new one is typed.                     *)
LEMMA OneJobTyped ==
  ASSUME TypeOK, NEW t \in Threads, NEW r, JobOK(r), job' = [job EXCEPT ![t] = r], RestOK'
  PROVE  TypeOK'
<1>1. job' \in [Threads -> Jobs]
  BY TypesSplit DEF JobOK
<1>2. ASSUME NEW u \in Threads PROVE JobOK(job'[u])
  <2>1. JobOK(job[u])
    BY TypesSplit
  <2>2. job'[u] = IF u = t THEN r ELSE job[u]
    BY TypesSplit
  <2>3. QED
    BY <2>1, <2>2
<1>3. QED
  BY <1>1, <1>2 DEF TypeOK, RestOK, JobOK

(* A call that goes on to a step that holds no value of its own.           *)
LEMMA GotoTyped ==
  ASSUME TypeOK, NEW t \in Threads, job[t].at \in Calling,
         NEW at \in {"save_register", "save_mark", "reset_object", "reset_mark"},
         NEW h \in {Absent, job[t].hand}
  PROVE  JobOK([job[t] EXCEPT !.at = at, !.hand = h]) /\ JobOK([job[t] EXCEPT !.at = at])
<1>1. job[t] \in Jobs /\ job[t].key \in Keys
  BY DEF TypeOK
<1>2. QED
  BY <1>1 DEF JobOK, Jobs, Steps, Calling

(* Loads keep the types.                                                   *)
LEMMA TypesLoad ==
  ASSUME TypeOK, NEW t \in Threads,
         (\E k \in Keys : Load(t, k)) \/ LoadRead(t) \/ LoadInsert(t)
  PROVE  TypeOK'
<1> USE CacheAssumption DEF disk, memory, bounds, history
<1>0. RestOK /\ JobOK(job[t]) /\ job \in [Threads -> Jobs]
  BY TypesSplit
<1>1. ASSUME NEW k \in Keys, Load(t, k) PROVE TypeOK'
  <2> DEFINE r == [Idle EXCEPT !.at = "load_read", !.key = k]
  <2>1. JobOK(r)
    BY DEF JobOK, Idle, Jobs, Steps, Calling
  <2>2. RestOK' /\ job' = [job EXCEPT ![t] = r]
    BY <1>0, <1>1 DEF Load, RestOK
  <2> HIDE DEF r
  <2>3. QED
    BY <2>1, <2>2, OneJobTyped
<1>2. CASE LoadRead(t)
  <2> DEFINE h == IF object[job[t].key] = Absent THEN Empty ELSE object[job[t].key]
             r == [job[t] EXCEPT !.at = "load_insert", !.hand = h]
  <2>1. job[t].key \in Keys
    BY <1>0, <1>2 DEF LoadRead, JobOK, Calling, Steps
  <2>2. h \in Values \cup {Empty}
    BY <1>0, <2>1 DEF RestOK
  <2>3. RestOK' /\ job' = [job EXCEPT ![t] = r]
    BY <1>0, <1>2 DEF LoadRead, RestOK
  <2> HIDE DEF h
  <2>4. JobOK(r)
    BY <1>0, <2>1, <2>2 DEF JobOK, Jobs, Steps, Calling
  <2> HIDE DEF r
  <2>5. QED
    BY <2>3, <2>4, OneJobTyped
<1>3. CASE LoadInsert(t)
  <2>1. job[t].key \in Keys /\ job[t].hand \in Values \cup {Empty}
    BY <1>0, <1>3 DEF LoadInsert, JobOK, Calling, Steps
  <2>2. RestOK' /\ job' = [job EXCEPT ![t] = Idle]
    BY <1>0, <1>3, <2>1 DEF LoadInsert, RestOK
  <2>3. QED
    BY <2>2, JobTyped, OneJobTyped
<1>4. QED
  BY <1>1, <1>2, <1>3

(* Saves keep the types.                                                   *)
LEMMA TypesSave ==
  ASSUME TypeOK, NEW t \in Threads,
         \/ \E k \in Keys, v \in Values, flush \in BOOLEAN : Save(t, k, v, flush)
         \/ SaveCompare(t) \/ SaveInsert(t) \/ SaveRegister(t) \/ SaveMark(t)
  PROVE  TypeOK'
<1> USE CacheAssumption DEF disk, memory, bounds, history
<1>0. RestOK /\ JobOK(job[t]) /\ job \in [Threads -> Jobs] /\ job[t] \in Jobs
  BY TypesSplit
<1>1. ASSUME NEW k \in Keys, NEW v \in Values, NEW flush \in BOOLEAN, Save(t, k, v, flush)
      PROVE  TypeOK'
  <2>1. PICK new \in BOOLEAN : new = (k \notin known)
    OBVIOUS
  <2>2. PICK at \in {"save_compare", "save_insert"} :
            at = IF k \in known THEN "save_compare" ELSE "save_insert"
    OBVIOUS
  <2> DEFINE r == [Idle EXCEPT !.at = at, !.key = k, !.hand = v, !.new = new, !.flush = flush]
  <2>3. JobOK(r)
    BY DEF JobOK, Idle, Jobs, Steps, Calling
  <2>4. RestOK'
    BY <1>0, <1>1 DEF Save, RestOK
  <2>5. job' = [job EXCEPT ![t] = r]
    BY <1>1, <2>1, <2>2, Zenon DEF Save
  <2> HIDE DEF r
  <2>6. QED
    BY <2>3, <2>4, <2>5, OneJobTyped
<1>2. CASE SaveCompare(t)
  <2> DEFINE r == [job[t] EXCEPT !.at = "save_insert"]
  <2>1. JobOK(r)
    BY <1>0, <1>2 DEF SaveCompare, JobOK, Jobs, Steps, Calling
  <2>2. RestOK'
    BY <1>0, <1>2 DEF SaveCompare, RestOK
  <2>3. job' = [job EXCEPT ![t] = r] \/ job' = [job EXCEPT ![t] = Idle]
    BY <1>0, <1>2 DEF SaveCompare
  <2> HIDE DEF r
  <2>4. QED
    BY <2>1, <2>2, <2>3, JobTyped, OneJobTyped
<1>3. CASE SaveInsert(t)
  <2>1. PICK at \in {"save_register", "save_mark"} :
            at = IF job[t].new THEN "save_register" ELSE "save_mark"
    OBVIOUS
  <2> DEFINE r == [job[t] EXCEPT !.at = at, !.hand = Absent]
  <2>2. job[t].key \in Keys /\ job[t].hand \in Values /\ job[t].at \in Calling
    BY <1>0, <1>3 DEF SaveInsert, JobOK, Calling, Steps
  <2>3. JobOK(r)
    BY <2>2, GotoTyped
  <2>4. RestOK' /\ job' = [job EXCEPT ![t] = r]
    BY <1>0, <1>3, <2>1, <2>2 DEF SaveInsert, RestOK
  <2> HIDE DEF r
  <2>5. QED
    BY <2>3, <2>4, OneJobTyped
<1>4. CASE SaveRegister(t)
  <2> DEFINE r == [job[t] EXCEPT !.at = "save_mark"]
  <2>1. job[t].key \in Keys /\ job[t].at \in Calling
    BY <1>0, <1>4 DEF SaveRegister, JobOK, Calling, Steps
  <2>2. JobOK(r)
    BY <2>1, GotoTyped
  <2>3. RestOK' /\ job' = [job EXCEPT ![t] = r]
    BY <1>0, <1>4, <2>1 DEF SaveRegister, Goto, RestOK
  <2> HIDE DEF r
  <2>4. QED
    BY <2>2, <2>3, OneJobTyped
<1>5. CASE SaveMark(t)
  <2>1. job[t].key \in Keys
    BY <1>0, <1>5 DEF SaveMark, JobOK, Calling, Steps
  <2>2. listDirty' \in BOOLEAN
    BY <1>5, Zenon DEF SaveMark
  <2>3. RestOK'
    BY <1>0, <1>5, <2>1, <2>2 DEF SaveMark, RestOK
  <2>4. \/ job' = [job EXCEPT ![t] = [Idle EXCEPT !.at = "take"]]
        \/ job' = [job EXCEPT ![t] = Idle]
    BY <1>5 DEF SaveMark
  <2>5. QED
    BY <2>3, <2>4, JobTyped, OneJobTyped
<1>6. QED
  BY <1>1, <1>2, <1>3, <1>4, <1>5

(* Resets keep the types.                                                  *)
LEMMA TypesReset ==
  ASSUME TypeOK, NEW t \in Threads,
         (\E k \in Keys : Reset(t, k)) \/ ResetKnown(t) \/ ResetObject(t) \/ ResetMark(t)
  PROVE  TypeOK'
<1> USE CacheAssumption DEF disk, memory, bounds, history
<1>0. RestOK /\ JobOK(job[t]) /\ job \in [Threads -> Jobs] /\ job[t] \in Jobs
  BY TypesSplit
<1>1. ASSUME NEW k \in Keys, Reset(t, k) PROVE TypeOK'
  <2> DEFINE r == [Idle EXCEPT !.at = "reset_known", !.key = k]
  <2>1. JobOK(r)
    BY DEF JobOK, Idle, Jobs, Steps, Calling
  <2>2. RestOK' /\ job' = [job EXCEPT ![t] = r]
    BY <1>0, <1>1 DEF Reset, RestOK
  <2> HIDE DEF r
  <2>3. QED
    BY <2>1, <2>2, OneJobTyped
<1>2. CASE ResetKnown(t) \/ ResetObject(t)
  <2>1. PICK at \in {"reset_object", "reset_mark"} : Goto(t, at)
    BY <1>2 DEF ResetKnown, ResetObject
  <2> DEFINE r == [job[t] EXCEPT !.at = at]
  <2>2. job[t].key \in Keys /\ job[t].at \in Calling
    BY <1>0, <1>2 DEF ResetKnown, ResetObject, JobOK, Calling, Steps
  <2>3. JobOK(r)
    BY <2>2, GotoTyped
  <2>4. RestOK'
    BY <1>0, <1>2, <2>2 DEF ResetKnown, ResetObject, RestOK
  <2>5. job' = [job EXCEPT ![t] = r]
    BY <2>1 DEF Goto
  <2> HIDE DEF r
  <2>6. QED
    BY <2>3, <2>4, <2>5, OneJobTyped
<1>3. CASE ResetMark(t)
  <2>1. job[t].key \in Keys
    BY <1>0, <1>3 DEF ResetMark, JobOK, Calling, Steps
  <2>2. RestOK' /\ job' = [job EXCEPT ![t] = [Idle EXCEPT !.at = "take"]]
    BY <1>0, <1>3, <2>1 DEF ResetMark, RestOK
  <2>3. QED
    BY <2>2, JobTyped, OneJobTyped
<1>4. QED
  BY <1>1, <1>2, <1>3

(* Flushes do.                                                             *)
LEMMA TypesFlush ==
  ASSUME TypeOK, NEW t \in Threads, FlushStep(t)
  PROVE  TypeOK'
<1> USE CacheAssumption DEF disk, memory, bounds, history
<1>0. RestOK /\ JobOK(job[t])
  BY TypesSplit
<1>1. CASE FlushTake(t)
  <2>1. RestOK'
    BY <1>0, <1>1 DEF FlushTake, Return, RestOK
  <2>2. CASE job' = [job EXCEPT ![t] = Idle]
    BY <2>1, <2>2, JobTyped, OneJobTyped
  <2>3. CASE job' = [job EXCEPT ![t].at = "each", ![t].todo = dirty, ![t].withList = listDirty]
    <3> DEFINE r == [job[t] EXCEPT !.at = "each", !.todo = dirty, !.withList = listDirty]
    <3>1. JobOK(r)
      BY <1>0 DEF JobOK, Jobs, Steps, Calling, RestOK
    <3>2. job' = [job EXCEPT ![t] = r]
      BY <2>3, TypesSplit
    <3> HIDE DEF r
    <3>3. QED
      BY <2>1, <3>1, <3>2, OneJobTyped
  <2>4. QED
    BY <1>1, <2>2, <2>3 DEF FlushTake, Return
<1>2. ASSUME NEW k \in Keys, FlushRead(t, k) PROVE TypeOK'
  <2> DEFINE held == storage[k] \in Values
             r == [job[t] EXCEPT !.todo = job[t].todo \ {k},
                                 !.at = IF held THEN "store" ELSE "each",
                                 !.cur = IF held THEN k ELSE Absent,
                                 !.hand = IF held THEN storage[k] ELSE Absent]
  <2>1. JobOK(r)
    BY <1>0 DEF JobOK, Jobs, Steps, Calling
  <2>2. job' = [job EXCEPT ![t] = r]
    BY <1>2, TypesSplit DEF FlushRead
  <2>3. RestOK'
    BY <1>0, <1>2 DEF FlushRead, RestOK
  <2> HIDE DEF r
  <2>4. QED
    BY <2>1, <2>2, <2>3, OneJobTyped
<1>3. CASE FlushStore(t)
  <2> DEFINE r == [job[t] EXCEPT !.at = "each", !.cur = Absent, !.hand = Absent]
  <2>1. JobOK(r)
    BY <1>0 DEF JobOK, Jobs, Steps, Calling
  <2>2. job' = [job EXCEPT ![t] = r]
    BY <1>3, TypesSplit DEF FlushStore
  <2>3. RestOK'
    BY <1>0, <1>3 DEF FlushStore, RestOK, JobOK
  <2> HIDE DEF r
  <2>4. QED
    BY <2>1, <2>2, <2>3, OneJobTyped
<1>4. CASE FlushList(t)
  <2>1. RestOK'
    BY <1>0, <1>4 DEF FlushList, Return, RestOK
  <2>2. CASE job' = [job EXCEPT ![t] = Idle]
    BY <2>1, <2>2, JobTyped, OneJobTyped
  <2>3. CASE job' = [job EXCEPT ![t].at = "store_list", ![t].hand = known]
    <3> DEFINE r == [job[t] EXCEPT !.at = "store_list", !.hand = known]
    <3>1. JobOK(r)
      BY <1>0 DEF JobOK, Jobs, Steps, Calling, RestOK
    <3>2. job' = [job EXCEPT ![t] = r]
      BY <2>3, TypesSplit
    <3> HIDE DEF r
    <3>3. QED
      BY <2>1, <3>1, <3>2, OneJobTyped
  <2>4. QED
    BY <1>4, <2>2, <2>3 DEF FlushList, Return
<1>5. CASE FlushStoreList(t)
  <2>1. RestOK'
    BY <1>0, <1>5 DEF FlushStoreList, Return, RestOK, JobOK
  <2>2. QED
    BY <1>5, <2>1, JobTyped, OneJobTyped DEF FlushStoreList, Return
<1>6. QED
  BY <1>1, <1>2, <1>3, <1>4, <1>5 DEF FlushStep

(* So do the starts and ends of the process.                               *)
LEMMA TypesProcess ==
  ASSUME TypeOK, Start \/ Stop \/ FinalFlush \/ Exit \/ TimerFlush
  PROVE  TypeOK'
<1> USE CacheAssumption DEF TypeOK, disk, memory, bounds, history
<1> Main \in Threads /\ IO \in Threads
  BY DEF Threads
<1>1. CASE Start
  BY <1>1 DEF Start
<1>2. CASE Stop
  BY <1>2 DEF Stop
<1>3. CASE FinalFlush
  BY <1>3 DEF FinalFlush, Idle, Jobs, Steps, Calling
<1>4. CASE Exit
  BY <1>4 DEF Exit, Nothing, Idle, Jobs, Steps, Calling
<1>5. CASE TimerFlush
  BY <1>5 DEF TimerFlush, Idle, Jobs, Steps, Calling
<1>6. QED
  BY <1>1, <1>2, <1>3, <1>4, <1>5

-----------------------------------------------------------------------------
(* Entries.                                                                *)

(* What one thread's step leaves alone of an entry, its invariant keeps.   *)
LEMMA OtherEntry ==
  ASSUME NEW t \in Threads, NEW k \in Keys, Entry(k),
         \A u \in Threads \ {t} : job'[u] = job[u],
         InHand(t, k)' <=> InHand(t, k), InHand(t, k) => job'[t].hand = job[t].hand,
         Fetched(t, k)' => Fetched(t, k) /\ job'[t].hand = job[t].hand,
         Removing(t, k)' <=> Removing(t, k),
         storage'[k] = storage[k], object'[k] = object[k],
         k \in crossed' <=> k \in crossed, k \in dropped' => k \in dropped,
         Due(k) => Due(k)'
  PROVE  Entry(k)'
<1>1. /\ \A u \in Threads : InHand(u, k)' <=> InHand(u, k)
      /\ \A u \in Threads : InHand(u, k) => job'[u].hand = job[u].hand
      /\ \A u \in Threads : Fetched(u, k)' => Fetched(u, k) /\ job'[u].hand = job[u].hand
      /\ \A u \in Threads : Removing(u, k)' <=> Removing(u, k)
  BY DEF InHand, Fetched, Removing
<1>2. Lifting(k)' <=> Lifting(k)
  BY <1>1 DEF Lifting
<1>3. Kept(k) => Kept(k)'
  BY <1>1, <1>2 DEF Kept
<1>4. (Released(k) => Released(k)') /\ (Drawn(k) => Drawn(k)') /\ (Gone(k) => Gone(k)')
  BY <1>1, <1>2 DEF Released, Drawn, Gone
<1>5. QED
  BY <1>3, <1>4 DEF Entry

(* An entry that was due stays so if t's part in that is passed on.        *)
LEMMA StaysDue ==
  ASSUME NEW t \in Threads, NEW k \in Keys,
         \A u \in Threads \ {t} : job'[u] = job[u],
         k \in dirty => k \in dirty' \/ k \in job'[t].todo,
         k \in job[t].todo => k \in job'[t].todo,
         job[t].at \in {"save_register", "save_mark"} /\ job[t].key = k =>
             \/ k \in dirty'
             \/ job'[t].at \in {"save_register", "save_mark"} /\ job'[t].key = k
  PROVE  Due(k) => Due(k)'
BY DEF Due

(* Where a thread in the middle of a call stands.                          *)
LEMMA InCall ==
  ASSUME Inv, NEW t \in Threads, job[t].at \in Calling
  PROVE  /\ phase # "down" /\ job[t].todo = {} /\ job[t].key \in Keys
         /\ job[t] \in Jobs /\ job \in [Threads -> Jobs]
<1>1. job[t].at # "idle" /\ job[t].at \notin {"each", "store"}
  BY DEF Calling, Steps
<1>2. QED
  BY <1>1 DEF Inv, TypeOK, Quiet, Idle

(* The beginning of a load.                                                *)
LEMMA LoadBegins ==
  ASSUME Inv, NEW t \in Threads, NEW l \in Keys, Load(t, l)
  PROVE  /\ job[t].at = "idle" /\ dirty' = dirty
         /\ \A u \in Threads \ {t} : job'[u] = job[u]
         /\ job'[t].at = "load_read" /\ job'[t].todo = {}
<1>1. dirty' = dirty /\ job[t].at = "idle"
  BY DEF Load, memory, Idle
<1>2. QED
  BY <1>1 DEF Load, Idle, Inv, TypeOK

(* The beginning of a save.                                                *)
LEMMA SaveBegins ==
  ASSUME Inv, NEW t \in Threads, NEW l \in Keys, NEW v \in Values, NEW flush \in BOOLEAN,
         Save(t, l, v, flush)
  PROVE  /\ job[t].at = "idle" /\ dirty' = dirty
         /\ \A u \in Threads \ {t} : job'[u] = job[u]
         /\ job'[t].at \in {"save_compare", "save_insert"} /\ job'[t].todo = {}
<1>1. dirty' = dirty /\ job[t].at = "idle"
  BY DEF Save, memory, Idle
<1>2. QED
  BY <1>1 DEF Save, Idle, Inv, TypeOK

(* The beginning of a load or a save, and the steps that touch no value:   *)
(* the mark of a save takes over what the caller owed.                     *)
LEMMA EntryStill ==
  ASSUME Inv, NEW t \in Threads,
         \/ \E l \in Keys : Load(t, l)
         \/ \E l \in Keys, v \in Values, flush \in BOOLEAN : Save(t, l, v, flush)
         \/ SaveCompare(t) \/ SaveRegister(t) \/ SaveMark(t) \/ ResetKnown(t)
  PROVE  Quiet' /\ \A k \in Keys : Entry(k)'
<1> USE CacheAssumption
<1>0. job[t] \in Jobs /\ job \in [Threads -> Jobs]
  BY DEF Inv, TypeOK
<1>1. /\ job[t].at \in {"idle", "save_compare", "save_register", "save_mark", "reset_known"}
      /\ phase # "down" /\ job[t].todo = {}
  <2>1. CASE job[t] = Idle /\ Working
    BY <2>1 DEF Idle, Working
  <2>2. CASE job[t].at \in {"save_compare", "save_register", "save_mark", "reset_known"}
    BY <2>2, InCall DEF Calling, Steps
  <2>3. QED
    BY <2>1, <2>2 DEF Load, Save, SaveCompare, SaveRegister, SaveMark, ResetKnown
<1>2. /\ \A u \in Threads \ {t} : job'[u] = job[u]
      /\ job'[t].todo = {}
      /\ job'[t].at \in {"load_read", "save_compare", "save_insert", "save_mark", "take", "idle",
                         "reset_object"}
      /\ job[t].at = "save_register" => job'[t].at = "save_mark" /\ job'[t].key = job[t].key
      /\ job[t].at = "save_mark" => job[t].key \in dirty'
      /\ job[t].at = "reset_known" <=> job'[t].at = "reset_object"
      /\ job[t].at = "reset_known" => job'[t].key = job[t].key
      /\ dirty \subseteq dirty'
  <2>1. CASE \E l \in Keys : Load(t, l)
    BY <2>1, LoadBegins
  <2>2. CASE \E l \in Keys, v \in Values, flush \in BOOLEAN : Save(t, l, v, flush)
    BY <2>2, SaveBegins
  <2>3. CASE SaveCompare(t)
    BY <1>0, <1>1, <2>3 DEF SaveCompare, Idle, memory, Jobs
  <2>4. CASE SaveRegister(t)
    BY <1>0, <1>1, <2>4 DEF SaveRegister, Goto, Jobs
  <2>5. CASE SaveMark(t)
    BY <1>0, <1>1, <2>5 DEF SaveMark, Goto, Idle, Jobs
  <2>6. CASE ResetKnown(t)
    BY <1>0, <1>1, <2>6 DEF ResetKnown, Goto, Jobs
  <2>7. QED
    BY <2>1, <2>2, <2>3, <2>4, <2>5, <2>6
<1>3. /\ storage' = storage /\ object' = object /\ phase' = phase
      /\ crossed' = crossed /\ dropped' = dropped
  BY DEF Load, Save, SaveCompare, SaveRegister, SaveMark, ResetKnown, disk, memory, history
<1>4. Quiet'
  BY <1>1, <1>2, <1>3 DEF Inv, Quiet
<1>5. ASSUME NEW k \in Keys PROVE Entry(k)'
  <2>1. /\ ~InHand(t, k) /\ ~InHand(t, k)' /\ ~Fetched(t, k)'
        /\ Removing(t, k)' <=> Removing(t, k)
    BY <1>1, <1>2 DEF InHand, Fetched, Removing
  <2>2. Due(k) => Due(k)'
    BY <1>1, <1>2, StaysDue
  <2>3. QED
    BY <1>2, <1>3, <2>1, <2>2, OtherEntry DEF Inv
<1>6. QED
  BY <1>4, <1>5

(* A load reads the object: it has what the disk has.                      *)
LEMMA EntryLoadRead ==
  ASSUME Inv, NEW t \in Threads, LoadRead(t)
  PROVE  Quiet' /\ \A k \in Keys : Entry(k)'
<1> USE CacheAssumption
<1>0. PICK l \in Keys :
        /\ job[t].key = l /\ phase # "down" /\ job[t].todo = {}
        /\ job[t] \in Jobs /\ job \in [Threads -> Jobs]
  BY InCall DEF LoadRead, Calling, Steps
<1>1. /\ job[t].at = "load_read"
      /\ \A u \in Threads \ {t} : job'[u] = job[u]
      /\ job'[t].at = "load_insert" /\ job'[t].key = l /\ job'[t].todo = {}
      /\ job'[t].hand \in {object[l], Empty}
      /\ storage' = storage /\ object' = object /\ phase' = phase /\ dirty' = dirty
      /\ crossed' = crossed /\ dropped' = dropped
  BY <1>0 DEF LoadRead, Jobs, disk, memory, history
<1>2. Quiet'
  BY <1>0, <1>1 DEF Inv, Quiet
<1>3. ASSUME NEW k \in Keys PROVE Entry(k)'
  <2>1. /\ ~InHand(t, k) /\ ~InHand(t, k)' /\ ~Removing(t, k) /\ ~Removing(t, k)'
        /\ Fetched(t, k)' => k = l /\ job'[t].hand = object[l]
    BY <1>1 DEF InHand, Fetched, Removing
  <2>2. Due(k) => Due(k)'
    BY <1>0, <1>1, StaysDue
  <2>3. CASE k = l
    <3>1. /\ \A u \in Threads : InHand(u, k)' <=> InHand(u, k)
          /\ \A u \in Threads : InHand(u, k) => job'[u].hand = job[u].hand
          /\ \A u \in Threads : Removing(u, k)' <=> Removing(u, k)
          /\ \A u \in Threads : Fetched(u, k)' =>
                \/ job'[u].hand = object[k]
                \/ Fetched(u, k) /\ job'[u].hand = job[u].hand
      BY <1>1, <2>1, <2>3 DEF InHand, Fetched, Removing
    <3>2. Lifting(k)' <=> Lifting(k)
      BY <3>1 DEF Lifting
    <3>3. Entry(k)
      BY DEF Inv
    <3>4. Kept(k) => Kept(k)'
      BY <1>1, <2>2, <3>1, <3>2 DEF Kept
    <3>5. (Released(k) => Released(k)') /\ (Drawn(k) => Drawn(k)') /\ (Gone(k) => Gone(k)')
      BY <1>1, <3>1, <3>2 DEF Released, Drawn, Gone
    <3>6. QED
      BY <1>1, <3>3, <3>4, <3>5 DEF Entry
  <2>4. CASE k # l
    BY <1>1, <2>1, <2>2, <2>4, OtherEntry DEF Inv
  <2>5. QED
    BY <2>3, <2>4
<1>4. QED
  BY <1>2, <1>3

(* A load puts it into the map: over no value, or the same, or the key is  *)
(* crossed.                                                                *)
LEMMA EntryLoadInsert ==
  ASSUME Inv, NEW t \in Threads, LoadInsert(t)
  PROVE  Quiet' /\ \A k \in Keys : Entry(k)'
<1> USE CacheAssumption
<1>0. PICK l \in Keys :
        /\ job[t].key = l /\ phase # "down" /\ job[t].todo = {}
        /\ job[t] \in Jobs /\ job \in [Threads -> Jobs]
  BY InCall DEF LoadInsert, Calling, Steps
<1>1. /\ job[t].at = "load_insert" /\ job[t].hand \in Values \cup {Empty}
      /\ \A u \in Threads \ {t} : job'[u] = job[u]
      /\ job'[t].at = "idle" /\ job'[t].todo = {}
      /\ object' = object /\ phase' = phase /\ dirty' = dirty /\ dropped' = dropped
      /\ storage' = [storage EXCEPT ![l] = job[t].hand]
      /\ crossed' = IF storage[l] \in Values \ {job[t].hand} THEN crossed \cup {l} ELSE crossed
  BY <1>0 DEF LoadInsert, Idle, disk, Inv, TypeOK
<1>2. Quiet'
  BY <1>0, <1>1 DEF Inv, Quiet
<1>3. ASSUME NEW k \in Keys PROVE Entry(k)'
  <2>1. /\ ~InHand(t, k) /\ ~InHand(t, k)' /\ ~Removing(t, k) /\ ~Removing(t, k)'
        /\ ~Fetched(t, k)'
    BY <1>1 DEF InHand, Fetched, Removing
  <2>2. Due(k) => Due(k)'
    BY <1>0, <1>1, StaysDue
  <2>3. storage'[k] = IF k = l THEN job[t].hand ELSE storage[k]
    BY <1>1 DEF Inv, TypeOK
  <2>4. CASE k # l \/ storage'[k] = storage[k]
    <3>1. k \in crossed' <=> k \in crossed
      BY <1>1, <2>3, <2>4
    <3>2. QED
      BY <1>1, <2>1, <2>2, <2>3, <2>4, <3>1, OtherEntry DEF Inv
  <2>5. CASE k = l /\ storage'[k] # storage[k] /\ storage[k] \in Values
    BY <1>1, <2>3, <2>5 DEF Entry
  <2>6. CASE k = l /\ storage[k] \notin Values
    <3>1. SUFFICES ASSUME k \notin crossed' PROVE Kept(k)' /\ Released(k)' /\ Drawn(k)' /\ Gone(k)'
      BY DEF Entry
    <3>2. k \notin crossed /\ Kept(k) /\ Released(k) /\ Drawn(k) /\ Gone(k)
      BY <1>1, <3>1 DEF Inv, Entry
    <3>3. /\ \A u \in Threads : InHand(u, k)' <=> InHand(u, k)
          /\ \A u \in Threads : Removing(u, k)' <=> Removing(u, k)
          /\ \A u \in Threads : Fetched(u, k)' => Fetched(u, k) /\ job'[u].hand = job[u].hand
      BY <1>1, <2>1 DEF InHand, Fetched, Removing
    <3>4. Lifting(k)' <=> Lifting(k)
      BY <3>3 DEF Lifting
    <3>5. storage'[k] \in Values /\ ~Lifting(k) => object[k] = storage'[k]
      <4>1. storage'[k] \in Values => Fetched(t, k)
        BY <1>0, <1>1, <2>3, <2>6 DEF Fetched
      <4>2. QED
        BY <2>3, <2>6, <3>2, <4>1 DEF Drawn
    <3>6. Kept(k)' /\ Released(k)'
      BY <1>1, <2>6, <3>2, <3>3, <3>4, <3>5 DEF Kept, Released
    <3>7. Drawn(k)'
      BY <1>1, <2>6, <3>2, <3>3, <3>4 DEF Drawn
    <3>8. Gone(k)'
      BY <1>1, <2>6, <3>2, <3>4, <3>5 DEF Gone
    <3>9. QED
      BY <3>6, <3>7, <3>8
  <2>7. QED
    BY <2>3, <2>4, <2>5, <2>6
<1>4. QED
  BY <1>2, <1>3

(* A save puts its value into the map, where it is due at once.            *)
LEMMA EntrySaveInsert ==
  ASSUME Inv, NEW t \in Threads, SaveInsert(t)
  PROVE  Quiet' /\ \A k \in Keys : Entry(k)'
<1> USE CacheAssumption
<1>0. PICK l \in Keys :
        /\ job[t].key = l /\ phase # "down" /\ job[t].todo = {}
        /\ job[t] \in Jobs /\ job \in [Threads -> Jobs]
  BY InCall DEF SaveInsert, Calling, Steps
<1>1. /\ job[t].at = "save_insert" /\ job[t].hand \in Values
      /\ \A u \in Threads \ {t} : job'[u] = job[u]
      /\ job'[t].at \in {"save_register", "save_mark"} /\ job'[t].key = l /\ job'[t].todo = {}
      /\ object' = object /\ phase' = phase /\ dirty' = dirty /\ dropped' = dropped \ {l}
      /\ storage' = [storage EXCEPT ![l] = job[t].hand]
      /\ crossed' = crossed
  BY <1>0 DEF SaveInsert, Jobs, disk, Inv, TypeOK
<1>2. Quiet'
  BY <1>0, <1>1 DEF Inv, Quiet
<1>3. ASSUME NEW k \in Keys PROVE Entry(k)'
  <2>1. /\ ~InHand(t, k) /\ ~InHand(t, k)' /\ ~Removing(t, k) /\ ~Removing(t, k)'
        /\ ~Fetched(t, k)'
    BY <1>1 DEF InHand, Fetched, Removing
  <2>2. Due(k) => Due(k)'
    BY <1>0, <1>1, StaysDue
  <2>3. storage'[k] = IF k = l THEN job[t].hand ELSE storage[k]
    BY <1>1 DEF Inv, TypeOK
  <2>4. CASE k = l
    <3>1. Due(k)'
      BY <1>1, <2>4 DEF Due
    <3>2. QED
      BY <1>1, <2>3, <2>4, <3>1 DEF Entry, Kept, Released, Drawn, Gone
  <2>5. CASE k # l
    BY <1>1, <2>1, <2>2, <2>3, <2>5, OtherEntry DEF Inv
  <2>6. QED
    BY <2>4, <2>5
<1>4. QED
  BY <1>2, <1>3

(* A reset takes the entry out of the map; until the object is removed     *)
(* nothing is said of it.                                                  *)
LEMMA EntryReset ==
  ASSUME Inv, NEW t \in Threads, NEW l \in Keys, Reset(t, l)
  PROVE  Quiet' /\ \A k \in Keys : Entry(k)'
<1> USE CacheAssumption
<1>0. job[t] = Idle /\ phase # "down" /\ job[t].todo = {} /\ job[t].at = "idle"
  BY DEF Reset, Working, Idle
<1>1. /\ \A u \in Threads \ {t} : job'[u] = job[u]
      /\ job'[t].at = "reset_known" /\ job'[t].key = l /\ job'[t].todo = {}
      /\ object' = object /\ phase' = phase /\ dirty' = dirty /\ dropped' = dropped \cup {l}
      /\ storage' = [storage EXCEPT ![l] = Absent]
      /\ crossed' = crossed
  BY <1>0 DEF Reset, Idle, disk, Inv, TypeOK
<1>2. Quiet'
  BY <1>0, <1>1 DEF Inv, Quiet
<1>3. ASSUME NEW k \in Keys PROVE Entry(k)'
  <2>1. /\ ~InHand(t, k) /\ ~InHand(t, k)' /\ ~Fetched(t, k)' /\ ~Removing(t, k)
        /\ Removing(t, k)' <=> k = l
    BY <1>0, <1>1 DEF InHand, Fetched, Removing
  <2>2. Due(k) => Due(k)'
    BY <1>0, <1>1, StaysDue
  <2>3. k # l => storage'[k] = storage[k]
    BY <1>1 DEF Inv, TypeOK
  <2>4. CASE k = l
    <3>1. Lifting(k)'
      BY <2>1, <2>4 DEF Lifting
    <3>2. QED
      BY <3>1 DEF Entry, Kept, Released, Drawn, Gone
  <2>5. CASE k # l
    BY <1>1, <2>1, <2>2, <2>3, <2>5, OtherEntry DEF Inv
  <2>6. QED
    BY <2>4, <2>5
<1>4. QED
  BY <1>2, <1>3

(* The removal of the object: after it nobody has a value of the entry, or *)
(* the key is crossed.                                                     *)
LEMMA EntryResetObject ==
  ASSUME Inv, NEW t \in Threads, ResetObject(t)
  PROVE  Quiet' /\ \A k \in Keys : Entry(k)'
<1> USE CacheAssumption
<1>0. PICK l \in Keys :
        /\ job[t].key = l /\ phase # "down" /\ job[t].todo = {}
        /\ job[t] \in Jobs /\ job \in [Threads -> Jobs]
  BY InCall DEF ResetObject, Calling, Steps
<1>1. /\ job[t].at = "reset_object"
      /\ \A u \in Threads \ {t} : job'[u] = job[u]
      /\ job'[t].at = "reset_mark" /\ job'[t].key = l /\ job'[t].todo = {}
      /\ storage' = storage /\ phase' = phase /\ dirty' = dirty /\ dropped' = dropped
  BY <1>0 DEF ResetObject, Goto, Jobs, memory
<1>2. /\ \A k \in Keys \ {l} : object'[k] = object[k] /\ (k \in crossed' <=> k \in crossed)
      /\ l \notin crossed' =>
            /\ object'[l] = Absent /\ storage[l] \notin Values
            /\ \A u \in Threads : ~InHand(u, l) /\ ~Fetched(u, l)
  BY <1>0 DEF ResetObject, Inv, TypeOK
<1>3. Quiet'
  BY <1>0, <1>1 DEF Inv, Quiet
<1>4. ASSUME NEW k \in Keys PROVE Entry(k)'
  <2>1. /\ ~InHand(t, k) /\ ~InHand(t, k)' /\ ~Fetched(t, k)'
        /\ k # l => ~Removing(t, k) /\ ~Removing(t, k)'
    BY <1>0, <1>1 DEF InHand, Fetched, Removing
  <2>2. Due(k) => Due(k)'
    BY <1>0, <1>1, StaysDue
  <2>3. CASE k = l
    <3>1. SUFFICES ASSUME k \notin crossed' PROVE Kept(k)' /\ Released(k)' /\ Drawn(k)' /\ Gone(k)'
      BY DEF Entry
    <3>2. \A u \in Threads : ~InHand(u, k)' /\ ~Fetched(u, k)'
      BY <1>1, <1>2, <2>1, <2>3, <3>1 DEF InHand, Fetched
    <3>3. QED
      BY <1>1, <1>2, <2>3, <3>1, <3>2 DEF Kept, Released, Drawn, Gone
  <2>4. CASE k # l
    BY <1>1, <1>2, <2>1, <2>2, <2>4, OtherEntry DEF Inv
  <2>5. QED
    BY <2>3, <2>4
<1>5. QED
  BY <1>3, <1>4

(* The mark goes: that of no value, or the key is crossed.                 *)
LEMMA EntryResetMark ==
  ASSUME Inv, NEW t \in Threads, ResetMark(t)
  PROVE  Quiet' /\ \A k \in Keys : Entry(k)'
<1> USE CacheAssumption
<1>0. PICK l \in Keys :
        /\ job[t].key = l /\ phase # "down" /\ job[t].todo = {}
        /\ job[t] \in Jobs /\ job \in [Threads -> Jobs]
  BY InCall DEF ResetMark, Calling, Steps
<1>1. /\ job[t].at = "reset_mark"
      /\ \A u \in Threads \ {t} : job'[u] = job[u]
      /\ job'[t].at = "take" /\ job'[t].todo = {}
      /\ storage' = storage /\ object' = object /\ phase' = phase /\ dropped' = dropped
      /\ dirty' = dirty \ {l}
      /\ crossed' = IF l \in dirty /\ storage[l] \in Values THEN crossed \cup {l} ELSE crossed
  BY <1>0 DEF ResetMark, Idle, disk
<1>2. Quiet'
  BY <1>0, <1>1 DEF Inv, Quiet
<1>3. ASSUME NEW k \in Keys PROVE Entry(k)'
  <2>1. /\ ~InHand(t, k) /\ ~InHand(t, k)' /\ ~Fetched(t, k)'
        /\ ~Removing(t, k) /\ ~Removing(t, k)'
    BY <1>1 DEF InHand, Fetched, Removing
  <2>2. CASE k # l \/ k \notin dirty
    <3>1. Due(k) => Due(k)'
      BY <1>0, <1>1, <2>2, StaysDue
    <3>2. k \in crossed' <=> k \in crossed
      BY <1>1, <2>2
    <3>3. QED
      BY <1>1, <2>1, <3>1, <3>2, OtherEntry DEF Inv
  <2>3. CASE k = l /\ k \in dirty /\ storage[k] \in Values
    BY <1>1, <2>3 DEF Entry
  <2>4. CASE k = l /\ k \in dirty /\ storage[k] \notin Values
    <3>1. /\ \A u \in Threads : InHand(u, k)' <=> InHand(u, k)
          /\ \A u \in Threads : Removing(u, k)' <=> Removing(u, k)
          /\ \A u \in Threads : Fetched(u, k)' => Fetched(u, k) /\ job'[u].hand = job[u].hand
      BY <1>1, <2>1 DEF InHand, Fetched, Removing
    <3>2. Lifting(k)' <=> Lifting(k)
      BY <3>1 DEF Lifting
    <3>3. crossed' = crossed /\ Entry(k)
      BY <1>1, <2>4 DEF Inv
    <3>4. Kept(k)' /\ (Released(k) => Released(k)') /\ (Drawn(k) => Drawn(k)')
          /\ (Gone(k) => Gone(k)')
      BY <1>1, <2>4, <3>1, <3>2 DEF Kept, Released, Drawn, Gone
    <3>5. QED
      BY <3>3, <3>4 DEF Entry
  <2>5. QED
    BY <2>2, <2>3, <2>4
<1>4. QED
  BY <1>2, <1>3

(* A flush takes the marks, writes the list or ends: what was marked is    *)
(* still due.                                                              *)
LEMMA EntryTake ==
  ASSUME Inv, NEW t \in Threads, FlushTake(t) \/ FlushList(t) \/ FlushStoreList(t)
  PROVE  Quiet' /\ \A k \in Keys : Entry(k)'
<1> USE CacheAssumption
<1>0. /\ job[t].at \in {"take", "each", "store_list"} /\ job[t].todo = {}
      /\ phase' # "down"
      /\ \A u \in Threads \ {t} : job'[u] = job[u]
      /\ job'[t].at \in {"idle", "each", "store_list"}
      /\ job'[t].at # "each" => job'[t].todo = {}
      /\ dirty' = dirty \/ (job'[t].todo = dirty /\ dirty' = {})
  <2>1. job[t] \in Jobs /\ job \in [Threads -> Jobs]
    BY DEF Inv, TypeOK
  <2>2. job[t].at \in {"take", "each", "store_list"} /\ job[t].todo = {}
    BY DEF FlushTake, FlushList, FlushStoreList, Inv, Quiet
  <2>3. phase # "down"
    BY <2>1, <2>2 DEF Inv, Quiet, Idle
  <2>4. CASE FlushTake(t)
    BY <2>1, <2>2, <2>3, <2>4 DEF FlushTake, Return, Idle, Jobs
  <2>5. CASE FlushList(t)
    BY <2>1, <2>2, <2>3, <2>5 DEF FlushList, Return, Idle, Jobs, memory
  <2>6. CASE FlushStoreList(t)
    BY <2>1, <2>2, <2>3, <2>6 DEF FlushStoreList, Return, Idle, Jobs, memory
  <2>7. QED
    BY <2>4, <2>5, <2>6
<1>1. Quiet'
  BY <1>0 DEF Inv, Quiet
<1>2. storage' = storage /\ object' = object /\ crossed' = crossed /\ dropped' = dropped
  BY DEF FlushTake, FlushList, FlushStoreList, disk, memory
<1>3. ASSUME NEW k \in Keys PROVE Entry(k)'
  <2>1. /\ ~InHand(t, k) /\ ~InHand(t, k)' /\ ~Fetched(t, k)'
        /\ ~Removing(t, k) /\ ~Removing(t, k)'
    BY <1>0 DEF InHand, Fetched, Removing
  <2>2. Due(k) => Due(k)'
    BY <1>0, StaysDue
  <2>3. QED
    BY <1>0, <1>2, <2>1, <2>2, OtherEntry DEF Inv
<1>4. QED
  BY <1>1, <1>3

(* A flush reads an entry: what is in the map is then in its hand.         *)
LEMMA EntryRead ==
  ASSUME Inv, NEW t \in Threads, NEW l \in Keys, FlushRead(t, l)
  PROVE  Quiet' /\ \A k \in Keys : Entry(k)'
<1> USE CacheAssumption
<1>0. /\ job[t].at = "each" /\ phase' # "down"
      /\ \A u \in Threads \ {t} : job'[u] = job[u]
      /\ job'[t].todo = job[t].todo \ {l} /\ job'[t].at \in {"store", "each"}
      /\ storage[l] \in Values => InHand(t, l)' /\ job'[t].hand = storage[l]
      /\ storage[l] \notin Values => job'[t].at = "each"
      /\ \A k \in Keys \ {l} : ~InHand(t, k)'
  <2>1. job[t] \in Jobs /\ job \in [Threads -> Jobs]
    BY DEF Inv, TypeOK
  <2>2. job[t].at = "each"
    BY DEF FlushRead
  <2>3. phase # "down"
    BY <2>1, <2>2 DEF Inv, Quiet, Idle
  <2>4. QED
    BY <2>1, <2>2, <2>3 DEF FlushRead, InHand, Jobs
<1>1. Quiet'
  BY <1>0 DEF Inv, Quiet
<1>2. /\ storage' = storage /\ object' = object /\ dirty' = dirty
      /\ crossed' = crossed /\ dropped' = dropped
  BY DEF FlushRead, disk, memory, history
<1>3. ASSUME NEW k \in Keys PROVE Entry(k)'
  <2>1. /\ ~InHand(t, k) /\ ~Fetched(t, k)' /\ ~Removing(t, k) /\ ~Removing(t, k)'
    BY <1>0 DEF InHand, Fetched, Removing
  <2>2. CASE k = l
    <3>1. /\ \A u \in Threads : Removing(u, k)' <=> Removing(u, k)
          /\ \A u \in Threads \ {t} : InHand(u, k)' <=> InHand(u, k)
          /\ \A u \in Threads \ {t} : job'[u].hand = job[u].hand
          /\ \A u \in Threads : Fetched(u, k)' => Fetched(u, k) /\ job'[u].hand = job[u].hand
      BY <1>0, <2>1 DEF InHand, Fetched, Removing
    <3>2. Lifting(k)' <=> Lifting(k)
      BY <3>1 DEF Lifting
    <3>3. storage[k] \notin Values => \A u \in Threads : InHand(u, k)' => InHand(u, k)
      BY <1>0, <2>2, <3>1 DEF InHand
    <3>4. Kept(k)'
      BY <1>0, <1>2, <2>2 DEF Kept
    <3>5. (Released(k) => Released(k)') /\ (Drawn(k) => Drawn(k)') /\ (Gone(k) => Gone(k)')
      BY <1>2, <3>1, <3>2, <3>3 DEF Released, Drawn, Gone
    <3>6. QED
      BY <1>2, <3>4, <3>5 DEF Inv, Entry
  <2>3. CASE k # l
    <3>1. Due(k) => Due(k)'
      BY <1>0, <1>2, <2>3, StaysDue
    <3>2. ~InHand(t, k)'
      BY <1>0, <2>3
    <3>3. QED
      BY <1>0, <1>2, <2>1, <3>1, <3>2, OtherEntry DEF Inv
  <2>4. QED
    BY <2>2, <2>3
<1>4. QED
  BY <1>1, <1>3

(* A flush writes what it has in hand.  If that is not what the map has    *)
(* now, another is due, or the key is crossed.                             *)
LEMMA EntryStore ==
  ASSUME Inv, NEW t \in Threads, FlushStore(t)
  PROVE  Quiet' /\ \A k \in Keys : Entry(k)'
<1> USE CacheAssumption
<1>0. PICK l \in Keys :
        /\ job[t].at = "store" /\ phase' # "down" /\ job[t].cur = l
        /\ job[t].hand \in Values
        /\ \A u \in Threads \ {t} : job'[u] = job[u]
        /\ job'[t].todo = job[t].todo /\ job'[t].at = "each"
  <2>1. job[t] \in Jobs /\ job \in [Threads -> Jobs]
    BY DEF Inv, TypeOK
  <2>2. job[t].at = "store"
    BY DEF FlushStore
  <2>3. phase # "down"
    BY <2>1, <2>2 DEF Inv, Quiet, Idle
  <2>4. job[t].cur \in Keys /\ job[t].hand \in Values
    BY <2>2 DEF Inv, TypeOK
  <2>5. QED
    BY <2>1, <2>2, <2>3, <2>4 DEF FlushStore, Jobs
<1>1. Quiet'
  BY <1>0 DEF Inv, Quiet
<1>2. storage' = storage /\ dirty' = dirty /\ dropped' = dropped
  BY DEF FlushStore, memory
<1>3. /\ \A k \in Keys \ {l} : object'[k] = object[k] /\ (k \in crossed' <=> k \in crossed)
      /\ l \notin crossed' =>
            /\ object'[l] = job[t].hand
            /\ \A u \in Threads \ {t} : ~InHand(u, l)
            /\ l \notin crossed \/ (job[t].hand = storage[l] /\ l \notin dropped)
  BY <1>0 DEF FlushStore, Inv, TypeOK
<1>4. ASSUME NEW k \in Keys PROVE Entry(k)'
  <2>1. /\ ~InHand(t, k)' /\ ~Fetched(t, k)' /\ ~Removing(t, k) /\ ~Removing(t, k)'
        /\ k # l => ~InHand(t, k)
    BY <1>0 DEF InHand, Fetched, Removing
  <2>2. Due(k) => Due(k)'
    BY <1>0, <1>2, StaysDue
  <2>3. CASE k = l
    <3>1. SUFFICES ASSUME k \notin crossed' PROVE Kept(k)' /\ Released(k)' /\ Drawn(k)' /\ Gone(k)'
      BY DEF Entry
    <3>2. /\ \A u \in Threads : Removing(u, k)' <=> Removing(u, k)
          /\ \A u \in Threads : ~InHand(u, k)'
      BY <1>0, <1>3, <2>1, <2>3, <3>1 DEF InHand, Removing
    <3>3. Lifting(k)' <=> Lifting(k)
      BY <3>2 DEF Lifting
    <3>4. InHand(t, k) /\ \A u \in Threads \ {t} : ~InHand(u, k)
      BY <1>0, <1>3, <2>3, <3>1 DEF InHand
    <3>5. CASE job[t].hand = storage[k]
      <4>1. k \in dropped => Lifting(k)
        BY <1>0, <1>3, <2>3, <3>1, <3>5 DEF Inv, Entry, Gone
      <4>2. QED
        BY <1>0, <1>2, <1>3, <2>3, <3>1, <3>2, <3>3, <3>5, <4>1 DEF Kept, Released, Drawn, Gone
    <3>6. CASE job[t].hand # storage[k]
      <4>1. k \notin crossed /\ Kept(k) /\ Released(k) /\ Gone(k)
        BY <1>3, <2>3, <3>1, <3>6 DEF Inv, Entry
      <4>2. storage[k] \in Values \/ Lifting(k)
        BY <3>4, <4>1 DEF Released
      <4>3. Kept(k)'
        BY <1>2, <2>2, <3>3, <3>4, <3>6, <4>1 DEF Kept
      <4>4. QED
        BY <1>2, <3>2, <3>3, <4>1, <4>2, <4>3 DEF Released, Drawn, Gone
    <3>7. QED
      BY <3>5, <3>6
  <2>4. CASE k # l
    BY <1>0, <1>2, <1>3, <2>1, <2>2, <2>4, OtherEntry DEF Inv
  <2>5. QED
    BY <2>3, <2>4
<1>5. QED
  BY <1>1, <1>4

(* A process starts with what the disk has, and ends with nothing in hand; *)
(* a reset it did not finish counts for nothing.                           *)
LEMMA EntryProcess ==
  ASSUME Inv, Start \/ Exit
  PROVE  Quiet' /\ \A k \in Keys : Entry(k)'
<1> USE CacheAssumption
<1>0. /\ \A t \in Threads : job'[t] = Idle
      /\ job' = [t \in Threads |-> Idle]
      /\ object' = object /\ crossed' = crossed
  BY DEF Start, Exit, Inv, Quiet, disk, history
<1>1. Quiet'
  BY <1>0 DEF Quiet, Idle
<1>2. ASSUME NEW k \in Keys PROVE Entry(k)'
  <2>1. \A t \in Threads : ~InHand(t, k)' /\ ~Fetched(t, k)'
    BY <1>0 DEF InHand, Fetched, Idle
  <2>2. storage'[k] \in Values => storage'[k] = object[k]
    BY DEF Start, Exit, Nothing
  <2>3. k \in dropped' /\ k \notin crossed => object[k] = Absent
    <3>1. CASE Start
      <4>1. ~Lifting(k) /\ dropped' = dropped
        BY <3>1 DEF Start, Inv, Quiet, Lifting, Removing, Idle, history
      <4>2. QED
        BY <4>1 DEF Inv, Entry, Gone
    <3>2. CASE Exit
      <4>1. k \in dropped' => k \in dropped /\ ~Lifting(k)
        BY <3>2 DEF Exit, Lifting
      <4>2. QED
        BY <4>1 DEF Inv, Entry, Gone
    <3>3. QED
      BY <3>1, <3>2
  <2>4. QED
    BY <1>0, <2>1, <2>2, <2>3 DEF Entry, Kept, Released, Drawn, Gone
<1>3. QED
  BY <1>1, <1>2

(* The timer and the shutdown start flushes, and no more.                  *)
LEMMA EntryFlushBegins ==
  ASSUME Inv, Stop \/ FinalFlush \/ TimerFlush
  PROVE  Quiet' /\ \A k \in Keys : Entry(k)'
<1> USE CacheAssumption
<1>0. PICK t \in Threads :
        /\ phase' # "down"
        /\ \A u \in Threads \ {t} : job'[u] = job[u]
        /\ job'[t] = job[t] \/ (job[t] = Idle /\ job'[t] = [Idle EXCEPT !.at = "take"])
        /\ storage' = storage /\ object' = object /\ dirty' = dirty
        /\ crossed' = crossed /\ dropped' = dropped
  BY DEF Stop, FinalFlush, TimerFlush, Inv, TypeOK, Threads, disk, memory, history
<1>1. \/ job'[t] = job[t]
      \/ /\ job[t].at = "idle" /\ job[t].todo = {}
         /\ job'[t].at = "take" /\ job'[t].todo = {}
  BY <1>0 DEF Idle
<1>2. Quiet'
  BY <1>0, <1>1 DEF Inv, Quiet
<1>3. ASSUME NEW k \in Keys PROVE Entry(k)'
  <2>1. /\ InHand(t, k)' <=> InHand(t, k)
        /\ InHand(t, k) => job'[t].hand = job[t].hand
        /\ Fetched(t, k)' => Fetched(t, k) /\ job'[t].hand = job[t].hand
        /\ Removing(t, k)' <=> Removing(t, k)
    BY <1>1 DEF InHand, Fetched, Removing
  <2>2. Due(k) => Due(k)'
    BY <1>0, <1>1, StaysDue
  <2>3. QED
    BY <1>0, <2>1, <2>2, OtherEntry DEF Inv
<1>4. QED
  BY <1>2, <1>3

-----------------------------------------------------------------------------
(* Every step keeps the invariant.                                         *)
LEMMA StepInv == Inv /\ [Next]_vars => Inv'
<1> SUFFICES ASSUME Inv, [Next]_vars PROVE Inv'
  OBVIOUS
<1>1. ASSUME NEW t \in Callers, CallerStep(t) PROVE Inv'
  <2>0. t \in Threads
    BY DEF Threads
  <2>1. TypeOK'
    BY <1>1, <2>0, TypesLoad, TypesSave, TypesReset DEF Inv, CallerStep, CallGoesOn
  <2>2. Quiet' /\ \A k \in Keys : Entry(k)'
    BY <1>1, <2>0, EntryStill, EntryLoadRead, EntryLoadInsert, EntrySaveInsert, EntryReset,
       EntryResetObject, EntryResetMark DEF CallerStep, CallGoesOn
  <2>3. QED
    BY <2>1, <2>2 DEF Inv
<1>2. ASSUME NEW t \in Threads, FlushStep(t) PROVE Inv'
  <2>1. TypeOK'
    BY <1>2, TypesFlush DEF Inv
  <2>2. Quiet' /\ \A k \in Keys : Entry(k)'
    BY <1>2, EntryTake, EntryRead, EntryStore DEF FlushStep
  <2>3. QED
    BY <2>1, <2>2 DEF Inv
<1>3. CASE Start \/ Stop \/ FinalFlush \/ Exit \/ TimerFlush
  BY <1>3, TypesProcess, EntryProcess, EntryFlushBegins DEF Inv
<1>4. CASE UNCHANGED vars
  BY <1>4 DEF vars, disk, memory, bounds, history, Inv, TypeOK, Quiet, Entry, Kept, Released,
              Drawn, Gone, Due, InHand, Fetched, Removing, Lifting
<1>5. QED
  BY <1>1, <1>2, <1>3, <1>4 DEF Next

(* The invariant holds of every behaviour.                                 *)
LEMMA AlwaysInv == Spec => []Inv
<1>1. QED
  BY InitInv, StepInv, PTL DEF Spec

(* The map, the marks, the objects on disk and what each thread has in     *)
(* hand keep their types.                                                  *)
THEOREM CacheTypes == Spec => []TypeOK
<1>1. Inv => TypeOK
  BY DEF Inv
<1>2. QED
  BY <1>1, AlwaysInv, PTL

(* Whatever saves, loads, resets and flushes of a key overlap, on any      *)
(* threads, no change of an entry is lost between SaveSecDurableCache()'s  *)
(* mark and slot_flush_cache_storage() clearing it, outside the orders     *)
(* that put the key into crossed.                                          *)
THEOREM CacheNothingForgotten == Spec => []NothingForgotten
<1>1. Inv => NothingForgotten
  BY DEF Inv, Entry, Kept, Lifting, NothingForgotten
<1>2. QED
  BY <1>1, AlwaysInv, PTL

(* What ResetDurableCache() removed stays removed, through every flush and *)
(* restart, with the same exceptions.                                      *)
THEOREM CacheResetStays == Spec => []ResetStays
<1>1. Inv => ResetStays
  BY DEF Inv, TypeOK, Entry, Gone, Lifting, ResetStays
<1>2. QED
  BY <1>1, AlwaysInv, PTL

=============================================================================
