---------------------------- MODULE CacheManager ----------------------------
(***************************************************************************)
(* The durable cache: a map in memory, the set of keys changed since they  *)
(* were last written, the list of known keys, and one data object on disk  *)
(* for each key and one for the list (core/function/CacheManager.cpp).     *)
(*                                                                         *)
(* Callers, on any threads, save, load and reset entries, the same key     *)
(* too; a timer has the IO runner flush, and a reset or a flushing save    *)
(* flushes on the caller's thread.  Each shared structure has a lock of    *)
(* its own, held for one access, so a step below is one such access, or    *)
(* one read or write of a file.  Reading or writing an object may be taken *)
(* from DataObjectOperator as atomic: QSaveFile renames the new file over  *)
(* the old one.                                                            *)
(*                                                                         *)
(* The runtime cache with its expiry times, which never reaches the disk,  *)
(* is left out.                                                            *)
(***************************************************************************)
EXTENDS Naturals

CONSTANTS
    Keys, Values,
    Absent,       \* no entry in the map, or no object on disk
    Empty,        \* an empty GFBuffer: in the map, never on disk
    Callers,      \* threads that use the cache
    Main,         \* the one that shuts the core down
    IO,           \* the IO task runner
    Flushing,     \* callers that ask for a flush when they save
    WritesFail,   \* threads whose writes or removals of objects may fail
    MaxSaves, MaxResets, MaxStarts

ASSUME CacheAssumption ==
    /\ Absent \notin Values /\ Empty \notin Values /\ Absent # Empty
    /\ Main \in Callers /\ IO \notin Callers
    /\ Flushing \subseteq Callers
    /\ WritesFail \subseteq Callers \cup {IO}
    /\ MaxSaves \in Nat /\ MaxResets \in Nat /\ MaxStarts \in Nat

VARIABLES
    \* durable
    object,         \* the stored object of each key
    list,           \* the stored list of keys, or Absent
    \* the process
    phase,          \* "down", "running", "stopping", "final" (flush), "flushed"
    storage,        \* durable_cache_storage_
    known,          \* key_storage_
    dirty,          \* dirty_keys_
    listDirty,      \* registry_dirty_
    job,            \* what each thread is doing
    \* bounds
    saves, resets, starts,
    \* history
    crossed,        \* keys that calls or writes the code does not order got at
    dropped         \* keys reset and not saved since

disk == <<object, list>>
memory == <<storage, known, dirty, listDirty>>
bounds == <<saves, resets, starts>>
history == <<crossed, dropped>>
vars == <<disk, phase, memory, job, bounds, history>>

Threads == Callers \cup {IO}

Steps == {"idle", "load_read", "load_insert",
          "save_compare", "save_insert", "save_register", "save_mark",
          "reset_known", "reset_object", "reset_mark",
          "take", "each", "store", "store_list"}

(* at: the next step; key, new, flush: of the call; todo and withList:     *)
(* what the flush has taken; cur: the entry it is writing; hand: what the  *)
(* load, the save or the flush is about to put somewhere.                  *)
Idle == [at |-> "idle", key |-> Absent, new |-> FALSE,
         flush |-> FALSE, todo |-> {}, withList |-> FALSE,
         cur |-> Absent, hand |-> Absent]

Jobs == [at : Steps, key : Keys \cup {Absent}, new : BOOLEAN, flush : BOOLEAN,
         todo : SUBSET Keys, withList : BOOLEAN, cur : Keys \cup {Absent},
         hand : Values \cup {Absent, Empty} \cup SUBSET Keys]

Nothing == [k \in Keys |-> Absent]

Init ==
    /\ object = Nothing /\ list = Absent
    /\ phase = "down"
    /\ storage = Nothing /\ known = {} /\ dirty = {} /\ listDirty = FALSE
    /\ job = [t \in Threads |-> Idle]
    /\ saves = 0 /\ resets = 0 /\ starts = 0
    /\ crossed = {} /\ dropped = {}

(* A flush is about to write a value of k; a load is about to put one into *)
(* the map; a reset has taken k out of the map and not off the disk.       *)
InHand(t, k) == job[t].at = "store" /\ job[t].cur = k
Fetched(t, k) == job[t].at = "load_insert" /\ job[t].key = k /\ job[t].hand \in Values
Removing(t, k) == job[t].at \in {"reset_known", "reset_object"} /\ job[t].key = k

Working == phase \in {"running", "stopping", "final"}

Goto(t, step) == job' = [job EXCEPT ![t].at = step]

-----------------------------------------------------------------------------
(* The constructor: load_all_cache_storage().  A list that is not there,   *)
(* or that this session's keys do not open, is written anew, empty; every  *)
(* key on the list is loaded, to Empty if it has no object.                *)
Start ==
    /\ phase = "down" /\ starts < MaxStarts
    /\ phase' = "running"
    /\ LET keys == IF list = Absent THEN {} ELSE list
       IN  /\ list' = keys \/ (Main \in WritesFail /\ list' = list)
           /\ known' = keys
           /\ storage' = [k \in Keys |->
                 IF k \notin keys THEN Absent
                 ELSE IF object[k] = Absent THEN Empty ELSE object[k]]
    /\ dirty' = {} /\ listDirty' = FALSE
    /\ starts' = starts + 1
    /\ UNCHANGED <<object, job, saves, resets, history>>

(* LoadSecDurableCache() of a key that is not in the map: the test,        *)
Load(t, k) ==
    /\ Working /\ job[t] = Idle
    /\ storage[k] = Absent
    /\ job' = [job EXCEPT ![t] = [Idle EXCEPT !.at = "load_read", !.key = k]]
    /\ UNCHANGED <<disk, phase, memory, bounds, history>>

(* load_cache_storage(),                                                   *)
LoadRead(t) ==
    /\ job[t].at = "load_read"
    /\ LET o == object[job[t].key] IN
       job' = [job EXCEPT ![t].at = "load_insert", ![t].hand = IF o = Absent THEN Empty ELSE o]
    /\ UNCHANGED <<disk, phase, memory, bounds, history>>

(* and what came of it, put into the map whatever is there by now.         *)
(* History: whether that was a newer value.                                *)
LoadInsert(t) ==
    /\ job[t].at = "load_insert"
    /\ LET k == job[t].key IN
       /\ storage' = [storage EXCEPT ![k] = job[t].hand]
       /\ crossed' = IF storage[k] \in Values \ {job[t].hand} THEN crossed \cup {k} ELSE crossed
    /\ job' = [job EXCEPT ![t] = Idle]
    /\ UNCHANGED <<disk, phase, known, dirty, listDirty, bounds, dropped>>

(* SaveSecDurableCache(), of a value that is not empty, as no caller saves *)
(* one that is: whether the key is a known one,                            *)
Save(t, k, v, flush) ==
    /\ Working /\ job[t] = Idle /\ saves < MaxSaves
    /\ job' = [job EXCEPT ![t] =
          [Idle EXCEPT !.at = IF k \in known THEN "save_compare" ELSE "save_insert",
                       !.key = k, !.hand = v, !.new = k \notin known, !.flush = flush]]
    /\ saves' = saves + 1
    /\ UNCHANGED <<disk, phase, memory, resets, starts, history>>

(* and then whether it holds the value already, which ends the save;       *)
SaveCompare(t) ==
    /\ job[t].at = "save_compare"
    /\ job' = [job EXCEPT ![t] = IF storage[@.key] = @.hand THEN Idle
                                 ELSE [@ EXCEPT !.at = "save_insert"]]
    /\ UNCHANGED <<disk, phase, memory, bounds, history>>

(* else the map first,                                                     *)
SaveInsert(t) ==
    /\ job[t].at = "save_insert"
    /\ storage' = [storage EXCEPT ![job[t].key] = job[t].hand]
    /\ job' = [job EXCEPT ![t].at = IF job[t].new THEN "save_register" ELSE "save_mark",
                          ![t].hand = Absent]
    /\ dropped' = dropped \ {job[t].key}
    /\ UNCHANGED <<disk, phase, known, dirty, listDirty, bounds, crossed>>

(* then the list of keys,                                                  *)
SaveRegister(t) ==
    /\ job[t].at = "save_register"
    /\ known' = known \cup {job[t].key}
    /\ Goto(t, "save_mark")
    /\ UNCHANGED <<disk, phase, storage, dirty, listDirty, bounds, history>>

(* Seeded fault: only a new key is marked.                                 *)
SaveMarkNew(t) ==
    /\ job[t].at = "save_mark"
    /\ dirty' = IF job[t].new THEN dirty \cup {job[t].key} ELSE dirty
    /\ listDirty' = (listDirty \/ job[t].new)
    /\ job' = [job EXCEPT ![t] = IF job[t].flush THEN [Idle EXCEPT !.at = "take"] ELSE Idle]
    /\ UNCHANGED <<disk, phase, storage, known, bounds, history>>

(* then the mark that the next flush goes by; flush asks for one at once.  *)
SaveMark(t) ==
    /\ job[t].at = "save_mark"
    /\ dirty' = dirty \cup {job[t].key}
    /\ listDirty' = (listDirty \/ job[t].new)
    /\ job' = [job EXCEPT ![t] = IF job[t].flush THEN [Idle EXCEPT !.at = "take"] ELSE Idle]
    /\ UNCHANGED <<disk, phase, storage, known, bounds, history>>

(* ResetDurableCache(): the map,                                           *)
Reset(t, k) ==
    /\ Working /\ job[t] = Idle /\ resets < MaxResets
    /\ storage' = [storage EXCEPT ![k] = Absent]
    /\ job' = [job EXCEPT ![t] = [Idle EXCEPT !.at = "reset_known", !.key = k]]
    /\ resets' = resets + 1
    /\ dropped' = dropped \cup {k}
    /\ UNCHANGED <<disk, phase, known, dirty, listDirty, saves, starts, crossed>>

(* then the list,                                                          *)
ResetKnown(t) ==
    /\ job[t].at = "reset_known"
    /\ known' = known \ {job[t].key}
    /\ Goto(t, "reset_object")
    /\ UNCHANGED <<disk, phase, storage, dirty, listDirty, bounds, history>>

(* Seeded fault: the object stays.                                         *)
ResetObjectKept(t) ==
    /\ job[t].at = "reset_object"
    /\ Goto(t, "reset_mark")
    /\ UNCHANGED <<disk, phase, memory, bounds, history>>

(* then the object, whose removal nobody asks about.  History: whether     *)
(* somebody has a value of it by now, in the map or to put there or on     *)
(* disk; if nobody has, the removal puts things right.                     *)
ResetObject(t) ==
    /\ job[t].at = "reset_object"
    /\ LET k == job[t].key IN
       \/ /\ object' = [object EXCEPT ![k] = Absent]
          /\ crossed' = IF \/ storage[k] \in Values
                           \/ \E u \in Threads : InHand(u, k) \/ Fetched(u, k)
                        THEN crossed \cup {k} ELSE crossed \ {k}
       \/ /\ t \in WritesFail
          /\ object' = object
          /\ crossed' = crossed \cup {k}
    /\ Goto(t, "reset_mark")
    /\ UNCHANGED <<list, phase, memory, bounds, dropped>>

(* then the marks, and a flush of whatever else is dirty.  History:        *)
(* whether the mark was that of a value saved since.                       *)
ResetMark(t) ==
    /\ job[t].at = "reset_mark"
    /\ LET k == job[t].key IN
       /\ dirty' = dirty \ {k}
       /\ crossed' = IF k \in dirty /\ storage[k] \in Values THEN crossed \cup {k} ELSE crossed
    /\ listDirty' = TRUE
    /\ job' = [job EXCEPT ![t] = [Idle EXCEPT !.at = "take"]]
    /\ UNCHANGED <<disk, phase, storage, known, bounds, dropped>>

-----------------------------------------------------------------------------
(* Seeded fault: the timer goes by the list's mark alone.                  *)
TimerFlushOfList ==
    /\ phase = "running" /\ job[IO] = Idle /\ listDirty
    /\ job' = [job EXCEPT ![IO] = [Idle EXCEPT !.at = "take"]]
    /\ UNCHANGED <<disk, phase, memory, bounds, history>>

(* slot_post_flush_cache_storage(): the timer, while the core is not being *)
(* torn down, has the IO runner flush.                                     *)
TimerFlush ==
    /\ phase = "running" /\ job[IO] = Idle
    /\ job' = [job EXCEPT ![IO] = [Idle EXCEPT !.at = "take"]]
    /\ UNCHANGED <<disk, phase, memory, bounds, history>>

Return(t) ==
    /\ job' = [job EXCEPT ![t] = Idle]
    /\ phase' = IF phase = "final" /\ t = Main THEN "flushed" ELSE phase

(* slot_flush_cache_storage(): takes the marks and clears them,            *)
FlushTake(t) ==
    /\ job[t].at = "take"
    /\ \/ /\ dirty = {} /\ ~listDirty
          /\ Return(t)
          /\ UNCHANGED <<dirty, listDirty>>
       \/ /\ dirty # {} \/ listDirty
          /\ job' = [job EXCEPT ![t].at = "each", ![t].todo = dirty, ![t].withList = listDirty]
          /\ dirty' = {} /\ listDirty' = FALSE
          /\ UNCHANGED phase
    /\ UNCHANGED <<disk, storage, known, bounds, crossed, dropped>>

(* reads the entries one by one, passing over those gone or empty,         *)
FlushRead(t, k) ==
    /\ job[t].at = "each" /\ k \in job[t].todo
    /\ job' = [job EXCEPT
          ![t].todo = @ \ {k},
          ![t].at = IF storage[k] \in Values THEN "store" ELSE "each",
          ![t].cur = IF storage[k] \in Values THEN k ELSE Absent,
          ![t].hand = IF storage[k] \in Values THEN storage[k] ELSE Absent]
    /\ UNCHANGED <<disk, phase, memory, bounds, history>>

(* StoreSecDataObj(), whose result nobody looks at.  History: whether      *)
(* another flush had a value of the entry in hand.  A write of the present *)
(* value with no other under way puts things right.                        *)
FlushStore(t) ==
    /\ job[t].at = "store"
    /\ LET k == job[t].cur
           v == job[t].hand
       IN  \/ /\ object' = [object EXCEPT ![k] = v]
              /\ crossed' = IF \E u \in Threads \ {t} : InHand(u, k) THEN crossed \cup {k}
                            ELSE IF v = storage[k] /\ k \notin dropped THEN crossed \ {k}
                            ELSE crossed
           \/ /\ t \in WritesFail
              /\ object' = object
              /\ crossed' = crossed \cup {k}
    /\ job' = [job EXCEPT ![t].at = "each", ![t].cur = Absent, ![t].hand = Absent]
    /\ UNCHANGED <<list, phase, memory, bounds, dropped>>

(* and then the list, if it was marked: copied under its lock, stored after.*)
FlushList(t) ==
    /\ job[t].at = "each" /\ job[t].todo = {}
    /\ \/ /\ job[t].withList
          /\ job' = [job EXCEPT ![t].at = "store_list", ![t].hand = known]
          /\ UNCHANGED phase
       \/ ~job[t].withList /\ Return(t)
    /\ UNCHANGED <<disk, memory, bounds, crossed, dropped>>

FlushStoreList(t) ==
    /\ job[t].at = "store_list"
    /\ \/ list' = job[t].hand
       \/ t \in WritesFail /\ list' = list
    /\ Return(t)
    /\ UNCHANGED <<object, memory, bounds, crossed, dropped>>

-----------------------------------------------------------------------------
(* DestroyGpgFrontendCore(): no more timer flushes; the runners are given  *)
(* a bounded time to end; the last flush is the main thread's own.         *)
Stop ==
    /\ phase = "running"
    /\ phase' = "stopping"
    /\ UNCHANGED <<disk, memory, job, bounds, history>>

FinalFlush ==
    /\ phase = "stopping" /\ job[Main] = Idle
    /\ phase' = "final"
    /\ job' = [job EXCEPT ![Main] = [Idle EXCEPT !.at = "take"]]
    /\ UNCHANGED <<disk, memory, bounds, history>>

(* The process ends: after the last flush, or at any moment by a crash.    *)
Exit ==
    /\ phase # "down"
    /\ phase' = "down"
    /\ storage' = Nothing /\ known' = {} /\ dirty' = {} /\ listDirty' = FALSE
    /\ job' = [t \in Threads |-> Idle]
    /\ dropped' = {k \in dropped : \A t \in Threads : ~Removing(t, k)}
    /\ UNCHANGED <<disk, bounds, crossed>>

FlushStep(t) ==
    \/ FlushTake(t) \/ FlushStore(t) \/ FlushList(t) \/ FlushStoreList(t)
    \/ \E k \in Keys : FlushRead(t, k)

(* What goes on by itself once a call was made.                            *)
CallGoesOn(t) ==
    \/ LoadRead(t) \/ LoadInsert(t)
    \/ SaveCompare(t) \/ SaveInsert(t) \/ SaveRegister(t) \/ SaveMark(t)
    \/ ResetKnown(t) \/ ResetObject(t) \/ ResetMark(t)

CallerStep(t) ==
    \/ \E k \in Keys :
          \/ Load(t, k) \/ Reset(t, k)
          \/ \E v \in Values, flush \in BOOLEAN :
                (flush => t \in Flushing) /\ Save(t, k, v, flush)
    \/ CallGoesOn(t)

Next ==
    \/ Start \/ Stop \/ FinalFlush \/ Exit \/ TimerFlush
    \/ \E t \in Callers : CallerStep(t)
    \/ \E t \in Threads : FlushStep(t)

Spec == Init /\ [][Next]_vars

(* The timer fires, and a flush under way is gone on with; no caller has   *)
(* to call, nor to get on with a call, and the core need not be shut down. *)
Fairness ==
    /\ WF_vars(TimerFlush)
    /\ \A t \in Threads : WF_vars(FlushStep(t))

FairSpec == Spec /\ Fairness

-----------------------------------------------------------------------------
(* Properties.                                                             *)

Calling == Steps \ {"idle", "take", "each", "store", "store_list"}

(* Types of the state.                                                     *)
TypeOK ==
    /\ object \in [Keys -> Values \cup {Absent}]
    /\ list = Absent \/ list \in SUBSET Keys
    /\ phase \in {"down", "running", "stopping", "final", "flushed"}
    /\ storage \in [Keys -> Values \cup {Absent, Empty}]
    /\ known \subseteq Keys /\ dirty \subseteq Keys
    /\ listDirty \in BOOLEAN
    /\ job \in [Threads -> Jobs]
    /\ \A t \in Threads :
          /\ job[t].at \in Calling => job[t].key \in Keys
          /\ job[t].at \in {"save_compare", "save_insert"} => job[t].hand \in Values
          /\ job[t].at = "load_insert" => job[t].hand \in Values \cup {Empty}
          /\ job[t].at = "store" => job[t].cur \in Keys /\ job[t].hand \in Values
          /\ job[t].at = "store_list" => job[t].hand \subseteq Keys
    /\ crossed \subseteq Keys /\ dropped \subseteq Keys

(* The entry's mark, or a thread, will have a flush read it again.         *)
Due(k) ==
    \/ k \in dirty
    \/ \E t \in Threads :
          \/ k \in job[t].todo
          \/ job[t].at \in {"save_register", "save_mark"} /\ job[t].key = k

(* No change of an entry is forgotten: it is on disk, or being written, or *)
(* due, whatever saves, loads, resets and flushes of it overlap.  The      *)
(* comment in SaveSecDurableCache() relies on it when it leaves an         *)
(* unchanged value alone.  Nothing is said of a key while its reset has    *)
(* not come to the object yet, nor of one in crossed: two flushes held it  *)
(* at once, a load put an older value over it, a reset removed the object  *)
(* or the mark of a value saved meanwhile, or a write failed.  The code    *)
(* does not order the former, nor mark a key again after the latter.       *)
NothingForgotten ==
    \A k \in Keys \ crossed :
        storage[k] \in Values /\ ~Due(k) /\ (\A t \in Threads : ~InHand(t, k) /\ ~Removing(t, k))
            => object[k] = storage[k]

(* Once a reset has removed the object of a key, and until the key is      *)
(* saved again, it has none and no value in the map, so no later load and  *)
(* no start brings one back (ResetDurableCache()); the same exceptions.    *)
ResetStays ==
    \A k \in dropped \ crossed :
        (\A t \in Threads : ~Removing(t, k)) => object[k] = Absent /\ storage[k] \notin Values

(* While the process lives, a marked entry is written: what is in memory   *)
(* reaches the disk, unless it changes first or the write fails.           *)
SavesReachDisk ==
    \A k \in Keys : \A v \in Values :
        (k \in dirty /\ storage[k] = v)
            ~> \/ object[k] = v \/ storage[k] # v \/ k \in crossed
               \/ phase # "running"

(* What the comment in SaveSecDurableCache() says of a save that repeats   *)
(* the value the map holds: "the on-disk copy is already correct", or at   *)
(* least on its way.  False where a flush that read an older value writes  *)
(* it last, and where a load or a reset of the key came in between.        *)
SkipsWhatIsStored ==
    [][\A t \in Callers :
          LET k == job[t].key IN
          job[t].at = "save_compare" /\ job'[t] = Idle /\ phase' # "down" =>
              object[k] = storage[k] \/ Due(k) \/ \E u \in Threads : InHand(u, k)]_vars

(* What the comment in ResetDurableCache() takes the removal of the object *)
(* for: that the reset does not revert.  It does when a flush or a load    *)
(* had the value in hand.                                                  *)
ResetIsFinal ==
    \A k \in dropped :
        (\A t \in Threads : ~Removing(t, k)) => object[k] = Absent /\ storage[k] \notin Values

=============================================================================
