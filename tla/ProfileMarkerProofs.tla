------------------------ MODULE ProfileMarkerProofs ------------------------
(***************************************************************************)
(* Proofs about ProfileMarker, for any ladder, any builds and any number   *)
(* of starts and faults.                                                   *)
(*                                                                         *)
(* The three properties speak of the files alone.  What a running start    *)
(* has already done is what makes them hold of the next write: the rungs   *)
(* left are exactly those of this stage from the version held, the PRE     *)
(* rungs are done once the PRE stage is over and all of them before the    *)
(* stamp (Climbing); a session has the identity the files would give the   *)
(* next one (Naming); what is written lies between the oldest version      *)
(* supported and the newest build (Bounded).                               *)
(***************************************************************************)
EXTENDS ProfileMarker, FiniteSetTheorems, WellFoundedInduction, TLAPS

Earned(v) == \A r \in RunsHere : r < v => r \in applied
PreDone == \A r \in RunsHere \cap Pre : r < target => r \in applied

Running == pc # "off"
OnLadder == pc \in {"rung", "commit"}

(* A missing file holds nothing; while rungs are left the marker is there. *)
Shape ==
    /\ marker.form = "missing" => marker = Missing
    /\ OnLadder => /\ Present /\ held.uuid = Read.uuid /\ held.form = "good"
                   /\ todo = Rungs(stage, held.version, target) /\ todo # {}
    /\ pc \in {"identity", "key"} => stage = "pre"
    /\ pc \in {"stamp", "open"} => stage = "post"
    /\ starts >= 1
    /\ Running => target \in Targets

(* A profile nobody has opened has neither file.                           *)
Fresh == ~made => marker = Missing /\ copy = Missing /\ applied = {} /\ ~Running

(* How far the data has come.                                              *)
Climbing ==
    /\ Earned(marker.version) /\ Earned(copy.version)
    /\ Running /\ ~Present => marker = Missing /\ Earned(target)
    /\ OnLadder => Earned(held.version)
    /\ pc = "commit" => \A r \in RunsHere : r = NextRung => r \in applied
    /\ Running /\ (stage = "post" \/ pc \in {"identity", "key"}) => PreDone
    /\ pc \in {"stamp", "open"} => Earned(target)
    /\ "zero" \notin slips

Bounded(m) ==
    m.form = "good" => Oldest <= m.version /\ m.version <= newest /\ m.reader <= newest

InBounds ==
    /\ Bounded(marker) /\ Bounded(copy)
    /\ OnLadder => Bounded(held)
    /\ Running => target <= newest

(* The identity a start would find.                                        *)
Id == ReadToUpdate.uuid

Naming ==
    /\ marker.form = "damaged" /\ copy.form = "good" /\ marker.uuid # NoUuid
          => marker.uuid = copy.uuid
    /\ Running => uuid \in {NoUuid, Id}
    /\ OnLadder => uuid = Id
    /\ Running /\ (stage = "post" \/ pc = "key") => uuid # NoUuid
    /\ ~classic => accounts = {} \/ (accounts = {Id} /\ Id # NoUuid) \/ Illegible
    /\ \E a \in Nat : accounts \subseteq {a}
    /\ classic => accounts \subseteq {NoUuid}

Inv ==
    /\ TypeOK
    /\ Shape
    /\ Fresh
    /\ "version" \notin slips => Climbing
    /\ "zero" \notin slips => InBounds
    /\ "uuid" \notin slips => Naming

-----------------------------------------------------------------------------
(* Facts about the operators.                                              *)

(* A set of natural numbers that is not empty has a least one.             *)
LEMMA LeastRung ==
  ASSUME TypeOK, todo # {}
  PROVE  NextRung \in todo /\ NextRung \in Nat /\ \A q \in todo : NextRung <= q
<1>1. todo \subseteq Nat
  BY MarkerAssumption DEF TypeOK, Ladder
<1> DEFINE R == OpToRel(<, Nat)
<1>2. IsWellFoundedOn(R, Nat)
  BY NatLessThanWellFounded
<1>3. \A q, r \in Nat : q < r => <<q, r>> \in R
  BY DEF OpToRel
<1> HIDE DEF R
<1>4. PICK r \in todo : \A q \in todo : ~(<<q, r>> \in R)
  BY <1>1, <1>2, WFMin
<1>5. ASSUME NEW q \in todo PROVE r <= q
  <2>1. q \in Nat /\ r \in Nat
    BY <1>1
  <2>2. ~(q < r)
    BY <1>3, <1>4, <2>1, Zenon
  <2>3. QED
    BY <2>1, <2>2
<1>6. QED
  BY <1>1, <1>5 DEF NextRung

(* What is read is one of the two files; what is updated is a good marker. *)
LEMMA ReadFacts ==
  ASSUME TypeOK
  PROVE  /\ Read \in {marker, copy} /\ Read \in Markers
         /\ ReadToUpdate \in Markers /\ ReadToUpdate.form = "good"
         /\ Present => ReadToUpdate = Read /\ Read.form = "good" /\ ReadOrBlank = Read
         /\ ~Present => /\ ReadToUpdate.version = 0 /\ ReadToUpdate.reader = 0
                        /\ ReadToUpdate.uuid = marker.uuid
                        /\ ReadOrBlank.uuid = NoUuid
         /\ ReadOrBlank \in Markers /\ ReadOrBlank.form = "good"
<1>1. QED
  BY DEF TypeOK, Read, ReadToUpdate, ReadOrBlank, Present, Markers, Blank, Good, NoUuid

(* Files that stay are read the same.                                      *)
LEMMA SameFiles ==
  ASSUME marker' = marker, copy' = copy
  PROVE  /\ Read' = Read /\ (Present' <=> Present) /\ ReadOrBlank' = ReadOrBlank
         /\ ReadToUpdate' = ReadToUpdate /\ Id' = Id /\ (Illegible' <=> Illegible)
<1>1. QED
  BY DEF Read, Present, ReadOrBlank, ReadToUpdate, Id, Illegible

(* What was written is read.                                               *)
LEMMA WrittenRead ==
  ASSUME NEW m \in Markers, m.form = "good", Written(m)
  PROVE  /\ marker' = m /\ copy' \in {m, copy}
         /\ Read' = m /\ Present' /\ Id' = m.uuid /\ ~Illegible'
<1>1. marker' = m /\ copy' \in {m, copy}
  BY DEF Written
<1>2. Read' = m
  BY <1>1 DEF Read
<1>3. Present'
  BY <1>2 DEF Present
<1>4. QED
  BY <1>1, <1>2, <1>3 DEF ReadToUpdate, Id, Illegible

(* The marker with which a rung is committed.                              *)
Committed == [held EXCEPT !.version = NextRung + 1,
                          !.reader = IF NextRung \in Raising /\ NextRung + 1 > @
                                     THEN NextRung + 1 ELSE @]

(* It is a good one, of the next version, that keeps the identity.         *)
LEMMA CommittedFacts ==
  ASSUME TypeOK, Shape, pc = "commit"
  PROVE  /\ Committed \in Markers
         /\ Committed.form = "good" /\ Committed.version = NextRung + 1
         /\ Committed.uuid = Read.uuid
         /\ Committed.reader \in {held.reader, NextRung + 1}
         /\ NextRung \in todo /\ NextRung \in Nat /\ \A q \in todo : NextRung <= q
         /\ held.version <= NextRung /\ NextRung < target
<1>1. OnLadder /\ todo # {} /\ held \in Markers
  BY DEF OnLadder, Shape, TypeOK
<1>2. NextRung \in todo /\ NextRung \in Nat /\ \A q \in todo : NextRung <= q
  BY <1>1, LeastRung
<1>3. held.version <= NextRung /\ NextRung < target
  BY <1>1, <1>2 DEF Shape, Rungs
<1>4. held.form = "good" /\ held.uuid = Read.uuid
  BY <1>1 DEF Shape
<1>5. PICK v \in Nat : v = NextRung + 1
  BY <1>2
<1>6. PICK x \in Nat : /\ x = IF NextRung \in Raising /\ NextRung + 1 > held.reader
                              THEN NextRung + 1 ELSE held.reader
                       /\ x \in {held.reader, NextRung + 1}
  BY <1>1, <1>2 DEF Markers
<1>7. Committed = [held EXCEPT !.version = v, !.reader = x]
  BY <1>1, <1>5, <1>6 DEF Committed, Markers
<1>8. QED
  BY <1>1, <1>2, <1>3, <1>4, <1>5, <1>6, <1>7 DEF Markers

(* A new identity is one, and an identity that was there is kept.          *)
LEMMA NamedFacts ==
  ASSUME TypeOK, Shape, Running, NEW m \in Markers, m.form = "good"
  PROVE  /\ Named(m) \in Markers /\ Named(m).form = "good" /\ Named(m).uuid # NoUuid
         /\ m.uuid # NoUuid => Named(m) = m
         /\ \/ Named(m).version = m.version /\ Named(m).reader = m.reader
            \/ m.version = 0 /\ Named(m).version = target /\ Named(m).reader = MinReader
         /\ m.uuid = NoUuid /\ m.version = 0 => Named(m).version = target
<1>1. target \in Nat /\ MinReader \in Nat /\ starts \in Nat /\ starts >= 1
  BY MarkerAssumption DEF TypeOK, Shape
<1>2. QED
  BY <1>1 DEF Named, Markers, Good, NoUuid

(* The stamp gives the build's version.                                    *)
LEMMA StampedFacts ==
  ASSUME TypeOK, NEW m \in Markers, m.form = "good"
  PROVE  /\ Stamped(m) \in Markers /\ Stamped(m).form = "good" /\ Stamped(m).uuid = m.uuid
         /\ Stamped(m).version = target /\ Stamped(m).reader \in {m.reader, MinReader}
<1>1. target \in Nat /\ MinReader \in Nat
  BY MarkerAssumption DEF TypeOK
<1>2. QED
  BY <1>1 DEF Stamped, Markers

-----------------------------------------------------------------------------
(* A profile nobody has opened, or one an earlier build wrote.             *)
LEMMA InitInv == Init => Inv
<1> SUFFICES ASSUME Init PROVE Inv
  OBVIOUS
<1> USE MarkerAssumption DEF NoUuid
<1>0. /\ pc = "off" /\ target = 0 /\ stage = "pre" /\ todo = {} /\ held = Blank /\ uuid = 0
      /\ starts = 1 /\ faults = 0 /\ accounts = {} /\ slips = {} /\ classic \in BOOLEAN
  BY DEF Init
<1>1. Missing \in Markers /\ Blank \in Markers
  BY DEF Missing, Blank, Good, Markers
<1>2. CASE /\ marker = Missing /\ copy = Missing /\ applied = {} /\ newest = 0
           /\ made \in BOOLEAN
  <2>1. TypeOK
    BY <1>0, <1>1, <1>2 DEF TypeOK
  <2>2. marker.form = "missing" /\ copy.form = "missing" /\ marker.version = 0 /\ copy.version = 0
    BY <1>2 DEF Missing
  <2>3. Earned(marker.version) /\ Earned(copy.version)
    BY <2>2 DEF Earned, RunsHere, Ladder
  <2>4. QED
    BY <1>0, <1>2, <2>1, <2>2, <2>3
       DEF Inv, Shape, Fresh, Climbing, InBounds, Naming, Bounded, Running, OnLadder
<1>3. ASSUME NEW v \in Targets, NEW u \in {NoUuid, 1}, marker = Good(v, MinReader, u),
             copy \in {Missing, marker}, applied = {r \in RunsHere : r < v}, newest = v, made
      PROVE  Inv
  <2>0. v \in Nat /\ u \in Nat
    OBVIOUS
  <2>1. marker \in Markers
    BY <1>3, <2>0 DEF Good, Markers
  <2>2. applied \subseteq Ladder
    BY <1>3 DEF RunsHere
  <2>3. TypeOK
    BY <1>0, <1>1, <1>3, <2>0, <2>1, <2>2 DEF TypeOK
  <2>4. /\ marker.form = "good" /\ marker.version = v /\ marker.reader = MinReader
        /\ copy = marker \/ (copy.form = "missing" /\ copy.version = 0)
    BY <1>3 DEF Good, Missing
  <2>5. Earned(marker.version) /\ Earned(copy.version)
    BY <1>3, <2>0, <2>4 DEF Earned, RunsHere, Ladder
  <2>6. Bounded(marker) /\ Bounded(copy)
    BY <1>3, <2>0, <2>4 DEF Bounded
  <2>7. QED
    BY <1>0, <1>3, <2>3, <2>4, <2>5, <2>6
       DEF Inv, Shape, Fresh, Climbing, InBounds, Naming, Running, OnLadder
<1>4. QED
  BY <1>2, <1>3 DEF Init

-----------------------------------------------------------------------------
(* Before the first start there is nothing.                                *)
LEMMA StepFresh ==
  ASSUME Inv, Next
  PROVE  Fresh'
<1>1. ASSUME NEW t \in Targets, Start(t) PROVE Fresh'
  BY <1>1 DEF Start, Fresh
<1>2. CASE PlanRefuses \/ PlanRuns \/ ApplyRung \/ RungFails \/ CommitRung \/ CommitFails
           \/ EnsureIdentity \/ LoadKey \/ LoadKeyFails \/ Stamp \/ Ends
  <2>1. made' = made /\ Running
    BY <1>2 DEF PlanRefuses, PlanRuns, ApplyRung, RungFails, CommitRung, CommitFails,
         EnsureIdentity, LoadKey, LoadKeyFails, Stamp, Ends, disk, Running
  <2>2. QED
    BY <2>1 DEF Inv, Fresh
<1>3. CASE DamageMarker \/ DamageCopy
  <2>1. made' = made /\ ("good" \in {marker.form, copy.form})
    BY <1>3 DEF DamageMarker, DamageCopy
  <2>2. QED
    BY <2>1 DEF Inv, Fresh, Missing
<1>4. QED
  BY <1>1, <1>2, <1>3 DEF Next

-----------------------------------------------------------------------------
(* Types, and the rungs that are left.                                     *)
LEMMA StepShape ==
  ASSUME Inv, Next
  PROVE  TypeOK' /\ Shape'
<1> USE MarkerAssumption DEF NoUuid
<1>0. TypeOK /\ Shape
  BY DEF Inv
<1>1. ASSUME NEW t \in Targets, Start(t) PROVE TypeOK' /\ Shape'
  <2>1. TypeOK'
    BY <1>0, <1>1, ReadFacts DEF Start, TypeOK, RunsHere, Markers
  <2>2. Shape'
    BY <1>0, <1>1 DEF Start, Shape, TypeOK, OnLadder, Running
  <2>3. QED
    BY <2>1, <2>2
<1>2. CASE PlanRefuses \/ RungFails \/ LoadKeyFails \/ Ends
  <2>1. /\ marker' = marker /\ copy' = copy /\ applied' = applied /\ classic' = classic /\ made' = made
        /\ target' = target /\ stage' = stage /\ todo' = todo /\ held' = held /\ uuid' = uuid
        /\ starts' = starts /\ faults' = faults /\ newest' = newest /\ accounts' = accounts
        /\ slips' = slips /\ pc' = "off"
    BY <1>2 DEF PlanRefuses, RungFails, LoadKeyFails, Ends, disk, process
  <2>2. QED
    BY <1>0, <2>1 DEF TypeOK, Shape, OnLadder, Running
<1>3. CASE PlanRuns
  <2>1. /\ marker' = marker /\ copy' = copy /\ applied' = applied /\ classic' = classic /\ made' = made
        /\ target' = target /\ stage' = stage /\ starts' = starts /\ faults' = faults
        /\ newest' = newest /\ accounts' = accounts /\ slips' = slips /\ pc = "plan"
        /\ held' = ReadOrBlank /\ uuid' \in {uuid, Read.uuid}
    BY <1>3 DEF PlanRuns, disk
  <2>2. /\ \/ todo' = {} /\ pc' = AfterStage
           \/ /\ pc' = "rung" /\ todo' = Rungs(stage, Read.version, target) /\ todo' # {}
              /\ Upgrade(target)
    BY <1>3 DEF PlanRuns
  <2>3. /\ Read' = Read /\ (Present' <=> Present)
    BY <2>1, SameFiles
  <2>4. pc' \in {"identity", "stamp", "rung"} /\ todo' \subseteq Ladder
        /\ (pc' = "identity" => stage = "pre") /\ (pc' = "stamp" => stage = "post")
    BY <1>0, <2>2 DEF AfterStage, Rungs, Ladder, TypeOK
  <2>5. TypeOK'
    BY <1>0, <2>1, <2>4, ReadFacts DEF TypeOK, Markers
  <2>6. pc' = "rung" => /\ Present /\ ReadOrBlank = Read /\ Read.form = "good"
                        /\ todo' = Rungs(stage, Read.version, target) /\ todo' # {}
    BY <1>0, <2>2, ReadFacts DEF Upgrade, AfterStage
  <2>7. Rungs(stage, held.version, target)' = Rungs(stage, held'.version, target)
    BY <2>1 DEF Rungs
  <2>8. Shape'
    BY <1>0, <2>1, <2>3, <2>4, <2>6, <2>7 DEF Shape, OnLadder, Running
  <2>9. QED
    BY <2>5, <2>8
<1>4. CASE ApplyRung
  <2>1. /\ marker' = marker /\ copy' = copy /\ classic' = classic /\ made' = made
        /\ target' = target /\ stage' = stage /\ todo' = todo /\ held' = held /\ uuid' = uuid
        /\ starts' = starts /\ faults' = faults /\ newest' = newest /\ accounts' = accounts
        /\ slips' = slips /\ pc = "rung" /\ pc' = "commit"
        /\ applied' \subseteq applied \cup RunsHere
    BY <1>4 DEF ApplyRung, process
  <2>2. Read' = Read /\ (Present' <=> Present)
    BY <2>1, SameFiles
  <2>3. QED
    BY <1>0, <2>1, <2>2 DEF TypeOK, Shape, OnLadder, Running, RunsHere, Rungs
<1>5. CASE CommitRung
  <2>1. /\ applied' = applied /\ classic' = classic /\ made' = made /\ target' = target /\ stage' = stage
        /\ starts' = starts /\ newest' = newest /\ accounts' = accounts /\ slips' = slips
        /\ Written(Committed) /\ held' = Committed /\ todo' = todo \ {NextRung}
        /\ uuid' = Committed.uuid /\ pc = "commit"
        /\ pc' = IF todo' = {} THEN AfterStage ELSE "rung"
    BY <1>5 DEF CommitRung, Committed
  <2>2. /\ Committed \in Markers /\ Committed.form = "good" /\ Committed.version = NextRung + 1
        /\ NextRung \in todo /\ NextRung \in Nat /\ (\A q \in todo : NextRung <= q)
        /\ held.version <= NextRung
    BY <1>0, <2>1, CommittedFacts
  <2>3. marker' = Committed /\ copy' \in {Committed, copy} /\ Read' = Committed /\ Present'
    BY <2>1, <2>2, WrittenRead
  <2>4. faults' \in Nat
    BY <1>0, <2>1 DEF Written, Fault, TypeOK
  <2>5. pc' \in {"identity", "stamp", "rung"}
        /\ (pc' = "identity" => stage = "pre") /\ (pc' = "stamp" => stage = "post")
        /\ (pc' = "rung" => todo' # {})
    BY <1>0, <2>1 DEF AfterStage, TypeOK
  <2>6. TypeOK'
    BY <1>0, <2>1, <2>2, <2>3, <2>4, <2>5 DEF TypeOK, Markers
  <2>7. todo' = Rungs(stage, NextRung + 1, target)
    <3>1. todo = Rungs(stage, held.version, target) /\ held.version \in Nat /\ target \in Nat
      BY <1>0, <2>1 DEF Shape, OnLadder, TypeOK, Markers
    <3> DEFINE S == IF stage = "pre" THEN Pre ELSE Post
    <3>2. S \subseteq Nat /\ todo = {r \in S : held.version <= r /\ r < target}
      BY <3>1 DEF Rungs
    <3>3. \A n : Rungs(stage, n, target) = {r \in S : n <= r /\ r < target}
      BY DEF Rungs
    <3> HIDE DEF S
    <3>4. PICK n \in Nat : n = NextRung
      BY <2>2
    <3>5. ASSUME NEW r \in S PROVE r \in todo \ {n} <=> (n + 1 <= r /\ r < target)
      BY <2>2, <3>1, <3>2, <3>4
    <3>6. QED
      BY <2>1, <3>2, <3>3, <3>4, <3>5
  <2>8. Rungs(stage, held.version, target)' = Rungs(stage, NextRung + 1, target)
    BY <2>1, <2>2 DEF Rungs
  <2>9. Shape'
    BY <1>0, <2>1, <2>2, <2>3, <2>5, <2>7, <2>8 DEF Shape, OnLadder, Running, Missing
  <2>10. QED
    BY <2>6, <2>9
<1>6. CASE CommitFails
  <2>1. /\ marker' = marker /\ copy' = copy /\ applied' = applied /\ classic' = classic /\ made' = made
        /\ target' = target /\ stage' = stage /\ todo' = todo /\ held' = held /\ uuid' = uuid
        /\ starts' = starts /\ newest' = newest /\ accounts' = accounts
        /\ slips' = slips /\ pc' = "off" /\ faults' = faults + 1
    BY <1>6 DEF CommitFails, NotWritten, Fault, process
  <2>2. QED
    BY <1>0, <2>1 DEF TypeOK, Shape, OnLadder, Running
<1>7. CASE EnsureIdentity
  <2> DEFINE m == Named(ReadToUpdate)
  <2>1. /\ applied' = applied /\ classic' = classic /\ made' = made /\ target' = target /\ stage' = stage
        /\ starts' = starts /\ newest' = newest /\ accounts' = accounts
        /\ held' = held /\ todo' = todo /\ pc = "identity" /\ pc' = "key"
    BY <1>7 DEF EnsureIdentity
  <2>2. m \in Markers /\ m.form = "good"
    BY <1>0, <2>1, ReadFacts, NamedFacts DEF Running
  <2>3. \/ marker' = marker /\ copy' = copy /\ uuid' = uuid /\ faults' = faults /\ slips' = slips
        \/ /\ Written(m) /\ uuid' = m.uuid /\ slips' \subseteq slips \cup {"zero", "uuid"}
        \/ /\ marker' = marker /\ copy' = copy /\ uuid' = uuid /\ faults' = faults + 1
           /\ slips' = slips \cup {"uuid"}
    BY <1>7 DEF EnsureIdentity, NotWritten, Fault
  <2> HIDE DEF m
  <2>4. marker' \in {marker, m} /\ copy' \in {copy, m} /\ uuid' \in Nat /\ faults' \in Nat
    BY <1>0, <2>2, <2>3 DEF TypeOK, Written, Fault, Markers
  <2>5. slips' \subseteq {"version", "uuid", "zero"}
    BY <1>0, <2>3 DEF TypeOK
  <2>6. QED
    BY <1>0, <2>1, <2>2, <2>4, <2>5 DEF TypeOK, Shape, OnLadder, Running
<1>8. CASE LoadKey
  <2>1. /\ marker' = marker /\ copy' = copy /\ applied' = applied /\ classic' = classic /\ made' = made
        /\ target' = target /\ stage' = "post" /\ todo' = todo /\ held' = held /\ uuid' = uuid
        /\ starts' = starts /\ faults' = faults /\ newest' = newest
        /\ accounts' = accounts \cup {Account} /\ slips' = slips /\ pc = "key" /\ pc' = "plan"
    BY <1>8 DEF LoadKey, disk
  <2>2. QED
    BY <1>0, <2>1 DEF TypeOK, Shape, OnLadder, Running, Account
<1>9. CASE Stamp
  <2> DEFINE m == Stamped(ReadToUpdate)
  <2>1. /\ applied' = applied /\ classic' = classic /\ made' = made /\ target' = target /\ stage' = stage
        /\ starts' = starts /\ newest' = newest /\ accounts' = accounts /\ slips' = slips
        /\ held' = held /\ todo' = todo /\ pc = "stamp" /\ pc' = "open"
    BY <1>9 DEF Stamp
  <2>2. m \in Markers /\ m.form = "good" /\ m.uuid = ReadToUpdate.uuid
    BY <1>0, ReadFacts, StampedFacts
  <2>3. \/ Written(m) /\ uuid' = m.uuid
        \/ marker' = marker /\ copy' = copy /\ uuid' = uuid /\ faults' = faults + 1
    BY <1>9, <2>2 DEF Stamp, NotWritten, Fault
  <2> HIDE DEF m
  <2>4. marker' \in {marker, m} /\ copy' \in {copy, m} /\ uuid' \in Nat /\ faults' \in Nat
    BY <1>0, <2>2, <2>3 DEF TypeOK, Written, Fault, Markers
  <2>5. QED
    BY <1>0, <2>1, <2>2, <2>4 DEF TypeOK, Shape, OnLadder, Running
<1>10. CASE DamageMarker
  <2>1. PICK u \in Nat : marker' = Damaged(u)
    BY <1>0, <1>10 DEF DamageMarker, TypeOK, Markers
  <2>2. Damaged(u) \in Markers /\ Damaged(u).form = "damaged"
    BY DEF Damaged, Markers
  <2>3. /\ copy' = copy /\ applied' = applied /\ classic' = classic /\ made' = made
        /\ target' = target /\ stage' = stage /\ todo' = todo /\ held' = held /\ uuid' = uuid
        /\ starts' = starts /\ faults' = faults + 1 /\ newest' = newest /\ accounts' = accounts
        /\ slips' \in {slips, slips \cup {"uuid"}} /\ pc = "off" /\ pc' = pc
    BY <1>10 DEF DamageMarker, Fault, process
  <2>4. QED
    BY <1>0, <2>1, <2>2, <2>3 DEF TypeOK, Shape, OnLadder, Running
<1>11. CASE DamageCopy
  <2>1. Damaged(0) \in Markers
    BY DEF Damaged, Markers
  <2>2. /\ marker' = marker /\ copy' = Damaged(0) /\ applied' = applied /\ classic' = classic /\ made' = made
        /\ target' = target /\ stage' = stage /\ todo' = todo /\ held' = held /\ uuid' = uuid
        /\ starts' = starts /\ faults' = faults + 1 /\ newest' = newest /\ accounts' = accounts
        /\ slips' = slips /\ pc = "off" /\ pc' = pc
    BY <1>11 DEF DamageCopy, Fault, process
  <2>3. QED
    BY <1>0, <2>1, <2>2 DEF TypeOK, Shape, OnLadder, Running
<1>12. QED
  BY <1>1, <1>2, <1>3, <1>4, <1>5, <1>6, <1>7, <1>8, <1>9, <1>10, <1>11 DEF Next

-----------------------------------------------------------------------------
(* The data is brought to every version that is written.                   *)
LEMMA StepClimbing ==
  ASSUME Inv, Next, "version" \notin slips'
  PROVE  Climbing'
<1> USE MarkerAssumption DEF NoUuid
<1>0. TypeOK /\ Shape /\ RunsHere \subseteq Nat
  BY DEF Inv, RunsHere, Ladder
<1>a. "version" \notin slips
  BY DEF Next, Start, PlanRefuses, PlanRuns, ApplyRung, RungFails, CommitRung, CommitFails,
         EnsureIdentity, LoadKey, LoadKeyFails, Stamp, Ends, DamageMarker, DamageCopy
<1>b. Climbing /\ "zero" \notin slips /\ InBounds
  BY <1>a DEF Inv, Climbing
<1>1. ASSUME NEW t \in Targets, Start(t) PROVE Climbing'
  <2>1. /\ marker' = marker /\ copy' = copy /\ classic' = classic /\ target' = t
        /\ applied \subseteq applied' /\ pc' = "plan" /\ stage' = "pre"
        /\ (~made => {r \in RunsHere : r < t} \subseteq applied')
        /\ slips' = IF made /\ ~Present THEN slips \cup {"version"} ELSE slips
    BY <1>1 DEF Start, Inv, Fresh
  <2>2. RunsHere' = RunsHere /\ Read' = Read /\ (Present' <=> Present)
    BY <2>1, SameFiles DEF RunsHere
  <2>3. Earned(marker.version)' /\ Earned(copy.version)'
    BY <1>b, <2>1, <2>2 DEF Climbing, Earned
  <2>4. ~Present => ~made /\ marker = Missing
    BY <2>1 DEF Inv, Fresh
  <2>5. ~Present' => marker' = Missing /\ Earned(target)'
    BY <2>1, <2>2, <2>4 DEF Earned
  <2>6. "zero" \notin slips'
    BY <1>b, <2>1
  <2>7. QED
    BY <2>1, <2>3, <2>5, <2>6 DEF Climbing, OnLadder, Running
<1>2. CASE PlanRefuses \/ RungFails \/ LoadKeyFails \/ Ends \/ CommitFails
  <2>1. /\ marker' = marker /\ copy' = copy /\ applied' = applied /\ classic' = classic
        /\ slips' = slips /\ pc' = "off"
    BY <1>2 DEF PlanRefuses, RungFails, LoadKeyFails, Ends, CommitFails, NotWritten, disk, process
  <2>2. QED
    BY <1>b, <2>1 DEF Climbing, OnLadder, Running, Earned, RunsHere
<1>3. CASE PlanRuns
  <2>1. /\ marker' = marker /\ copy' = copy /\ applied' = applied /\ classic' = classic
        /\ target' = target /\ stage' = stage /\ slips' = slips /\ pc = "plan"
        /\ held' = ReadOrBlank /\ ~Refused(target)
        /\ todo' = IF Upgrade(target) THEN Rungs(stage, Read.version, target) ELSE {}
        /\ pc' = IF todo' = {} THEN AfterStage ELSE "rung"
    BY <1>3 DEF PlanRuns, disk
  <2>2. RunsHere' = RunsHere /\ Read' = Read /\ (Present' <=> Present)
    BY <2>1, SameFiles DEF RunsHere
  <2>3. Earned(Read.version) /\ target \in Nat /\ Read.version \in Nat
    BY <1>0, <1>b, ReadFacts DEF Climbing, TypeOK, Markers
  <2>4. /\ Earned(marker.version)' /\ Earned(copy.version)'
        /\ Running' /\ ~Present' => marker' = Missing /\ Earned(target)'
        /\ "zero" \notin slips'
    BY <1>b, <2>1, <2>2 DEF Climbing, Earned, Running
  <2>5. CASE Upgrade(target) /\ todo' # {}
    <3>1. pc' = "rung" /\ held' = Read
      BY <1>0, <2>1, <2>5, ReadFacts DEF Upgrade
    <3>2. Earned(held.version)'
      BY <2>1, <2>2, <2>3, <3>1 DEF Earned
    <3>3. stage' = "post" => PreDone'
      BY <1>b, <2>1, <2>2 DEF Climbing, PreDone, Running
    <3>4. QED
      BY <2>4, <3>1, <3>2, <3>3 DEF Climbing, OnLadder
  <2>6. CASE ~Upgrade(target) \/ todo' = {}
    <3>1. pc' = AfterStage /\ pc' \in {"identity", "stamp"} /\ (pc' = "stamp" <=> stage = "post")
      BY <1>0, <2>1, <2>6 DEF AfterStage, TypeOK
    <3>2. CASE ~Present
      <4>1. Earned(target)
        BY <1>b, <2>1, <3>2 DEF Climbing, Running
      <4>2. Earned(target)' /\ PreDone'
        BY <2>1, <2>2, <4>1 DEF Earned, PreDone
      <4>3. QED
        BY <2>4, <3>1, <4>2 DEF Climbing, OnLadder
    <3>3. CASE Present /\ ~Upgrade(target)
      <4>1. Read.version = target
        BY <2>1, <2>3, <3>3 DEF Upgrade, Refused
      <4>2. Earned(target)' /\ PreDone'
        BY <2>1, <2>2, <2>3, <4>1 DEF Earned, PreDone
      <4>3. QED
        BY <2>4, <3>1, <4>2 DEF Climbing, OnLadder
    <3>4. CASE Upgrade(target) /\ todo' = {}
      <4>1. Rungs(stage, Read.version, target) = {}
        BY <2>1, <3>4
      <4>2. CASE stage = "pre"
        <5>1. PreDone'
          BY <1>0, <2>1, <2>2, <2>3, <4>1, <4>2 DEF Rungs, Earned, PreDone
        <5>2. QED
          BY <2>1, <2>4, <3>1, <4>2, <5>1 DEF Climbing, OnLadder
      <4>3. CASE stage = "post"
        <5>1. PreDone
          BY <1>b, <2>1, <4>3 DEF Climbing, Running
        <5>2. \A r \in RunsHere : r < target => r \in applied
          <6>1. RunsHere \subseteq Pre \cup Post
            BY DEF RunsHere, Ladder
          <6>2. QED
            BY <1>0, <2>3, <4>1, <4>3, <5>1, <6>1 DEF Rungs, Earned, PreDone
        <5>3. Earned(target)' /\ PreDone'
          BY <2>1, <2>2, <5>2 DEF Earned, PreDone
        <5>4. QED
          BY <2>4, <3>1, <5>3 DEF Climbing, OnLadder
      <4>4. QED
        BY <1>0, <4>2, <4>3 DEF TypeOK
    <3>5. QED
      BY <2>6, <3>2, <3>3, <3>4
  <2>7. QED
    BY <2>5, <2>6
<1>4. CASE ApplyRung
  <2>1. /\ marker' = marker /\ copy' = copy /\ classic' = classic
        /\ target' = target /\ stage' = stage /\ todo' = todo /\ held' = held
        /\ slips' = slips /\ pc = "rung" /\ pc' = "commit"
        /\ applied' = IF NextRung \in RunsHere THEN applied \cup {NextRung} ELSE applied
    BY <1>4 DEF ApplyRung, process
  <2>2. /\ RunsHere' = RunsHere /\ Read' = Read /\ (Present' <=> Present) /\ NextRung' = NextRung
    BY <2>1, SameFiles DEF RunsHere, NextRung
  <2>3. /\ Earned(marker.version)' /\ Earned(copy.version)' /\ Earned(held.version)'
        /\ Running' /\ ~Present' => marker' = Missing /\ Earned(target)'
    BY <1>b, <2>1, <2>2 DEF Climbing, Earned, Running, OnLadder
  <2>4. stage' = "post" => PreDone'
    BY <1>b, <2>1, <2>2 DEF Climbing, PreDone, Running
  <2>5. \A r \in RunsHere' : r = NextRung' => r \in applied'
    BY <2>1, <2>2
  <2>6. QED
    BY <1>b, <2>1, <2>3, <2>4, <2>5 DEF Climbing
<1>5. CASE CommitRung
  <2>1. /\ applied' = applied /\ classic' = classic /\ target' = target /\ stage' = stage
        /\ slips' = slips
        /\ Written(Committed) /\ held' = Committed /\ todo' = todo \ {NextRung}
        /\ pc = "commit"
        /\ pc' = IF todo' = {} THEN AfterStage ELSE "rung"
    BY <1>5 DEF CommitRung, Committed
  <2>2. /\ Committed \in Markers /\ Committed.form = "good" /\ Committed.version = NextRung + 1
        /\ NextRung \in todo /\ NextRung \in Nat /\ (\A q \in todo : NextRung <= q)
        /\ held.version <= NextRung /\ NextRung < target
    BY <1>0, <2>1, CommittedFacts
  <2>3. marker' = Committed /\ copy' \in {Committed, copy} /\ Read' = Committed /\ Present'
    BY <2>1, <2>2, WrittenRead
  <2>4. RunsHere' = RunsHere
    BY <2>1 DEF RunsHere
  <2>5. /\ todo = Rungs(stage, held.version, target) /\ held.version \in Nat /\ target \in Nat
        /\ Earned(held.version)
        /\ stage = "post" => PreDone
        /\ stage \in {"pre", "post"}
    BY <1>0, <1>b, <2>1 DEF Shape, OnLadder, TypeOK, Markers, Climbing, Running
  <2>6. Earned(NextRung + 1)
    <3>1. SUFFICES ASSUME NEW r \in RunsHere, r < NextRung + 1 PROVE r \in applied
      BY DEF Earned
    <3>2. r \in Nat /\ r \in Pre \cup Post /\ r <= NextRung
      BY <1>0, <2>2, <3>1 DEF RunsHere, Ladder
    <3>3. CASE r = NextRung
      BY <1>b, <2>1, <3>3 DEF Climbing
    <3>4. CASE r < held.version
      BY <2>5, <3>4 DEF Earned
    <3>5. CASE r # NextRung /\ held.version <= r
      <4>1. r < NextRung /\ r \notin todo /\ r < target
        BY <2>2, <2>5, <3>2, <3>5
      <4>2. CASE stage = "pre"
        <5>1. NextRung \in Pre /\ r \notin Pre
          BY <2>2, <2>5, <3>5, <4>1, <4>2 DEF Rungs
        <5>2. QED
          BY <2>2, <3>2, <4>1, <5>1
      <4>3. CASE stage = "post"
        <5>1. r \in Pre
          BY <2>5, <3>2, <3>5, <4>1, <4>3 DEF Rungs
        <5>2. QED
          BY <2>5, <4>1, <4>3, <5>1 DEF PreDone
      <4>4. QED
        BY <2>5, <4>2, <4>3
    <3>6. QED
      BY <2>5, <3>2, <3>3, <3>4, <3>5
  <2>7. Earned(marker.version)' /\ Earned(copy.version)' /\ Earned(held.version)'
    BY <1>b, <2>1, <2>2, <2>3, <2>4, <2>6 DEF Climbing, Earned
  <2>8. CASE todo' # {}
    <3>1. stage' = "post" => PreDone'
      BY <2>1, <2>4, <2>5 DEF PreDone
    <3>2. QED
      BY <1>b, <2>1, <2>3, <2>7, <2>8, <3>1 DEF Climbing, OnLadder
  <2>9. CASE todo' = {}
    <3>1. \A q \in Rungs(stage, held.version, target) : q = NextRung
      BY <2>1, <2>5, <2>9
    <3>2. PreDone
      <4>1. CASE stage = "post"
        BY <2>5, <4>1
      <4>2. CASE stage = "pre"
        <5>1. SUFFICES ASSUME NEW r \in RunsHere \cap Pre, r < target PROVE r \in applied
          BY DEF PreDone
        <5>2. CASE r < held.version
          BY <2>5, <5>2 DEF Earned
        <5>3. CASE held.version <= r
          <6>1. r = NextRung
            BY <3>1, <4>2, <5>1, <5>3 DEF Rungs
          <6>2. QED
            BY <1>b, <2>1, <6>1 DEF Climbing
        <5>4. QED
          BY <1>0, <2>5, <5>2, <5>3
      <4>3. QED
        BY <2>5, <4>1, <4>2
    <3>3. stage = "post" => Earned(target)
      <4>1. SUFFICES ASSUME stage = "post", NEW r \in RunsHere, r < target PROVE r \in applied
        BY DEF Earned
      <4>2. r \in Nat /\ r \in Pre \cup Post
        BY <1>0 DEF RunsHere, Ladder
      <4>3. CASE r \in Pre
        BY <3>2, <4>1, <4>3 DEF PreDone
      <4>4. CASE r \in Post /\ r < held.version
        BY <2>5, <4>4 DEF Earned
      <4>5. CASE r \in Post /\ held.version <= r
        <5>1. r = NextRung
          BY <3>1, <4>1, <4>5 DEF Rungs
        <5>2. QED
          BY <1>b, <2>1, <5>1 DEF Climbing
      <4>6. QED
        BY <2>5, <4>2, <4>3, <4>4, <4>5
    <3>4. PreDone' /\ (stage = "post" => Earned(target)')
      BY <2>1, <2>4, <3>2, <3>3 DEF PreDone, Earned
    <3>5. pc' \in {"identity", "stamp"} /\ (pc' = "stamp" => stage = "post")
      BY <2>1, <2>5, <2>9 DEF AfterStage
    <3>6. QED
      BY <1>b, <2>1, <2>3, <2>7, <3>4, <3>5 DEF Climbing, OnLadder
  <2>10. QED
    BY <2>8, <2>9
<1>6. CASE EnsureIdentity
  <2> DEFINE m == Named(ReadToUpdate)
  <2>1. /\ applied' = applied /\ classic' = classic /\ target' = target /\ stage' = stage
        /\ pc = "identity" /\ pc' = "key"
    BY <1>6 DEF EnsureIdentity
  <2>2. /\ m \in Markers /\ m.form = "good"
        /\ \/ m.version = ReadToUpdate.version
           \/ ReadToUpdate.version = 0 /\ m.version = target
    BY <1>0, <2>1, ReadFacts, NamedFacts DEF Running
  <2>3. \/ marker' = marker /\ copy' = copy /\ slips' \in {slips, slips \cup {"uuid"}}
        \/ /\ Written(m)
           /\ slips' = slips \cup (IF Salvaged THEN {"zero"} ELSE {})
                             \cup (IF Illegible THEN {"uuid"} ELSE {})
    BY <1>6 DEF EnsureIdentity, NotWritten
  <2> HIDE DEF m
  <2>4. RunsHere' = RunsHere
    BY <2>1 DEF RunsHere
  <2>5. PreDone /\ PreDone'
    BY <1>b, <2>1, <2>4 DEF Climbing, PreDone, Running
  <2>6. ~Present => marker = Missing /\ Earned(target)
    BY <1>b, <2>1 DEF Climbing, Running
  <2>7. CASE marker' = marker /\ copy' = copy /\ slips' \in {slips, slips \cup {"uuid"}}
    <3>1. Present' <=> Present
      BY <2>7, SameFiles
    <3>2. QED
      BY <1>b, <2>1, <2>4, <2>5, <2>6, <2>7, <3>1 DEF Climbing, Earned, OnLadder, Running
  <2>8. CASE /\ Written(m)
             /\ slips' = slips \cup (IF Salvaged THEN {"zero"} ELSE {})
                               \cup (IF Illegible THEN {"uuid"} ELSE {})
    <3>1. marker' = m /\ copy' \in {m, copy} /\ Present'
      BY <2>2, <2>8, WrittenRead
    <3>2. ~Salvaged
      BY <2>6 DEF Salvaged, Missing
    <3>3. Earned(m.version)
      <4>1. CASE Present
        <5>1. ReadToUpdate = Read /\ Read \in {marker, copy} /\ Read.form = "good"
              /\ Read.version \in Nat
          BY <1>0, <4>1, ReadFacts DEF Markers
        <5>2. Read.version >= 1
          BY <1>b, <5>1 DEF InBounds, Bounded
        <5>3. m.version = Read.version
          BY <2>2, <5>1, <5>2
        <5>4. QED
          BY <1>b, <5>1, <5>3 DEF Climbing
      <4>2. CASE ~Present
        <5>1. ReadToUpdate.version = 0 /\ m.version \in {0, target}
          BY <1>0, <2>2, <4>2, ReadFacts
        <5>2. Earned(0)
          BY <1>0 DEF Earned
        <5>3. QED
          BY <2>6, <4>2, <5>1, <5>2
      <4>3. QED
        BY <4>1, <4>2
    <3>4. Earned(marker.version)' /\ Earned(copy.version)'
      BY <1>b, <2>1, <2>4, <3>1, <3>3 DEF Climbing, Earned
    <3>5. "zero" \notin slips'
      BY <1>b, <2>8, <3>2
    <3>6. QED
      BY <2>1, <2>5, <3>1, <3>4, <3>5 DEF Climbing, OnLadder, Running
  <2>9. QED
    BY <2>3, <2>7, <2>8
<1>7. CASE LoadKey
  <2>1. /\ marker' = marker /\ copy' = copy /\ applied' = applied /\ classic' = classic
        /\ target' = target /\ slips' = slips /\ pc = "key" /\ pc' = "plan"
    BY <1>7 DEF LoadKey, disk
  <2>2. RunsHere' = RunsHere /\ (Present' <=> Present)
    BY <2>1, SameFiles DEF RunsHere
  <2>3. QED
    BY <1>b, <2>1, <2>2 DEF Climbing, Earned, PreDone, OnLadder, Running
<1>8. CASE Stamp
  <2> DEFINE m == Stamped(ReadToUpdate)
  <2>1. /\ applied' = applied /\ classic' = classic /\ target' = target /\ stage' = stage
        /\ slips' = slips /\ pc = "stamp" /\ pc' = "open" /\ stage = "post"
    BY <1>0, <1>8 DEF Stamp, Shape
  <2>2. m \in Markers /\ m.form = "good" /\ m.version = target
    BY <1>0, ReadFacts, StampedFacts
  <2>3. Written(m) \/ (marker' = marker /\ copy' = copy)
    BY <1>8 DEF Stamp, NotWritten
  <2> HIDE DEF m
  <2>4. RunsHere' = RunsHere /\ Earned(target) /\ PreDone
    BY <1>b, <2>1 DEF RunsHere, Climbing, Running
  <2>5. marker' \in {m, marker} /\ copy' \in {m, copy}
    BY <2>3 DEF Written
  <2>6. Earned(marker.version)' /\ Earned(copy.version)' /\ Earned(target)' /\ PreDone'
    BY <1>b, <2>1, <2>2, <2>4, <2>5 DEF Climbing, Earned, PreDone
  <2>7. ~Present' => marker' = Missing
    <3>1. CASE Written(m)
      BY <2>2, <3>1, WrittenRead
    <3>2. CASE marker' = marker /\ copy' = copy
      BY <1>b, <2>1, <3>2, SameFiles DEF Climbing, Running
    <3>3. QED
      BY <2>3, <3>1, <3>2
  <2>8. QED
    BY <1>b, <2>1, <2>6, <2>7 DEF Climbing, OnLadder
<1>9. CASE DamageMarker \/ DamageCopy
  <2>1. /\ marker' = marker \/ marker'.version = 0
        /\ copy' = copy \/ copy'.version = 0
        /\ applied' = applied /\ classic' = classic /\ pc' = "off"
        /\ slips' \in {slips, slips \cup {"uuid"}}
    BY <1>9 DEF DamageMarker, DamageCopy, Damaged
  <2>2. RunsHere' = RunsHere
    BY <2>1 DEF RunsHere
  <2>3. Earned(marker.version)' /\ Earned(copy.version)'
    BY <1>0, <1>b, <2>1, <2>2 DEF Climbing, Earned
  <2>4. QED
    BY <1>b, <2>1, <2>3 DEF Climbing, OnLadder, Running
<1>10. QED
  BY <1>1, <1>2, <1>3, <1>4, <1>5, <1>6, <1>7, <1>8, <1>9 DEF Next

-----------------------------------------------------------------------------
(* What is written is neither too old nor past the newest build.           *)
LEMMA StepInBounds ==
  ASSUME Inv, Next, "zero" \notin slips'
  PROVE  InBounds'
<1> USE MarkerAssumption DEF NoUuid
<1>0. TypeOK /\ Shape /\ newest \in Nat /\ target \in Nat
  BY DEF Inv, TypeOK
<1>a. "zero" \notin slips
  BY DEF Next, Start, PlanRefuses, PlanRuns, ApplyRung, RungFails, CommitRung, CommitFails,
         EnsureIdentity, LoadKey, LoadKeyFails, Stamp, Ends, DamageMarker, DamageCopy
<1>b. InBounds
  BY <1>a DEF Inv
<1>1. ASSUME NEW t \in Targets, Start(t) PROVE InBounds'
  <2>1. /\ marker' = marker /\ copy' = copy /\ target' = t /\ pc' = "plan"
        /\ newest' = IF t > newest THEN t ELSE newest
    BY <1>1 DEF Start
  <2>2. /\ newest <= newest' /\ t <= newest' /\ newest' \in Nat
    BY <1>0, <2>1
  <2>3. marker \in Markers /\ copy \in Markers /\ Bounded(marker) /\ Bounded(copy)
    BY <1>0, <1>b DEF TypeOK, InBounds
  <2>4. QED
    BY <1>0, <2>1, <2>2, <2>3 DEF InBounds, OnLadder, Bounded, Markers
<1>2. CASE PlanRefuses \/ RungFails \/ LoadKeyFails \/ Ends \/ CommitFails \/ LoadKey
  <2>1. /\ marker' = marker /\ copy' = copy /\ newest' = newest
        /\ pc' = "off" \/ (Running /\ pc' = "plan" /\ target' = target)
    BY <1>2 DEF PlanRefuses, RungFails, LoadKeyFails, Ends, CommitFails, LoadKey, NotWritten, disk,
                process, Running
  <2>2. QED
    BY <1>b, <2>1 DEF InBounds, OnLadder, Running, Bounded
<1>3. CASE PlanRuns
  <2>1. /\ marker' = marker /\ copy' = copy /\ newest' = newest /\ target' = target /\ pc = "plan"
        /\ held' = ReadOrBlank /\ (pc' = "rung" => Upgrade(target)) /\ pc' # "commit"
    BY <1>3 DEF PlanRuns, disk, AfterStage
  <2>2. pc' = "rung" => held' \in {marker, copy}
    BY <1>0, <2>1, ReadFacts DEF Upgrade
  <2>3. QED
    BY <1>b, <2>1, <2>2 DEF InBounds, OnLadder, Running, Bounded
<1>4. CASE ApplyRung
  <2>1. /\ marker' = marker /\ copy' = copy /\ newest' = newest /\ target' = target /\ pc = "rung"
        /\ held' = held
    BY <1>4 DEF ApplyRung, process
  <2>2. QED
    BY <1>b, <2>1 DEF InBounds, OnLadder, Running, Bounded
<1>5. CASE CommitRung
  <2>1. /\ target' = target /\ newest' = newest /\ pc = "commit"
        /\ Written(Committed) /\ held' = Committed
    BY <1>5 DEF CommitRung, Committed
  <2>2. /\ Committed \in Markers /\ Committed.form = "good" /\ Committed.version = NextRung + 1
        /\ Committed.reader \in {held.reader, NextRung + 1} /\ NextRung \in Nat
        /\ held.version <= NextRung /\ NextRung < target
    BY <1>0, <2>1, CommittedFacts
  <2>3. /\ Bounded(held) /\ held.form = "good" /\ target <= newest /\ held \in Markers
    BY <1>0, <1>b, <2>1 DEF InBounds, Shape, OnLadder, Running, TypeOK
  <2>4. Bounded(Committed)
    BY <1>0, <2>2, <2>3 DEF Bounded, Markers
  <2>5. marker' = Committed /\ copy' \in {Committed, copy}
    BY <2>1, <2>2, WrittenRead
  <2>6. Bounded(marker)' /\ Bounded(copy)' /\ Bounded(held)'
    BY <1>b, <2>1, <2>4, <2>5 DEF InBounds, Bounded
  <2>7. QED
    BY <2>1, <2>3, <2>6 DEF InBounds
<1>6. CASE EnsureIdentity
  <2> DEFINE m == Named(ReadToUpdate)
  <2>1. /\ target' = target /\ newest' = newest /\ pc = "identity" /\ pc' = "key"
    BY <1>6 DEF EnsureIdentity
  <2>2. /\ m \in Markers /\ m.form = "good"
        /\ \/ m.version = ReadToUpdate.version /\ m.reader = ReadToUpdate.reader
           \/ m.version = target /\ m.reader = MinReader
        /\ ReadToUpdate.uuid = 0 /\ ReadToUpdate.version = 0 => m.version = target
    BY <1>0, <2>1, ReadFacts, NamedFacts DEF Running
  <2>3. \/ marker' = marker /\ copy' = copy
        \/ Written(m) /\ (Salvaged => "zero" \in slips')
    BY <1>6 DEF EnsureIdentity, NotWritten
  <2>4. target <= newest /\ target \in Targets
    BY <1>0, <1>b, <2>1 DEF InBounds, Running, Shape
  <2>5. ~Salvaged => Bounded(m)
    <3>1. CASE Present
      <4>1. ReadToUpdate = Read /\ Read \in {marker, copy} /\ Read.form = "good" /\ Read \in Markers
        BY <1>0, <3>1, ReadFacts
      <4>2. Bounded(Read)
        BY <1>b, <4>1 DEF InBounds
      <4>3. QED
        BY <1>0, <2>2, <2>4, <4>1, <4>2 DEF Bounded, Markers
    <3>2. CASE ~Present
      <4>1. /\ ReadToUpdate.version = 0 /\ ReadToUpdate.reader = 0
            /\ ReadToUpdate.uuid = marker.uuid
        BY <1>0, <3>2, ReadFacts
      <4>2. ~Salvaged => m.version = target /\ m.reader \in {0, MinReader}
        BY <2>2, <3>2, <4>1 DEF Salvaged
      <4>3. QED
        BY <1>0, <2>2, <2>4, <4>2 DEF Bounded
    <3>3. QED
      BY <3>1, <3>2
  <2> HIDE DEF m
  <2>6. \/ marker' = marker /\ copy' = copy
        \/ Bounded(m) /\ marker' = m /\ copy' \in {m, copy}
    BY <2>2, <2>3, <2>5, WrittenRead
  <2>7. Bounded(marker)' /\ Bounded(copy)'
    BY <1>b, <2>1, <2>6 DEF InBounds, Bounded
  <2>8. QED
    BY <2>1, <2>4, <2>7 DEF InBounds, OnLadder
<1>7. CASE Stamp
  <2> DEFINE m == Stamped(ReadToUpdate)
  <2>1. /\ target' = target /\ newest' = newest /\ pc = "stamp" /\ pc' = "open"
    BY <1>7 DEF Stamp
  <2>2. /\ m \in Markers /\ m.form = "good" /\ m.version = target
        /\ m.reader \in {ReadToUpdate.reader, MinReader}
    BY <1>0, ReadFacts, StampedFacts
  <2>3. Written(m) \/ (marker' = marker /\ copy' = copy)
    BY <1>7 DEF Stamp, NotWritten
  <2>4. target <= newest /\ target \in Targets
    BY <1>0, <1>b, <2>1 DEF InBounds, Running, Shape
  <2>5. ReadToUpdate.reader <= newest
    <3>1. CASE Present
      BY <1>0, <1>b, <3>1, ReadFacts DEF InBounds, Bounded
    <3>2. CASE ~Present
      BY <1>0, <3>2, ReadFacts
    <3>3. QED
      BY <3>1, <3>2
  <2>6. Bounded(m)
    BY <1>0, <2>2, <2>4, <2>5 DEF Bounded
  <2> HIDE DEF m
  <2>7. marker' \in {m, marker} /\ copy' \in {m, copy}
    BY <2>3 DEF Written
  <2>8. Bounded(marker)' /\ Bounded(copy)'
    BY <1>b, <2>1, <2>6, <2>7 DEF InBounds, Bounded
  <2>9. QED
    BY <2>1, <2>4, <2>8 DEF InBounds, OnLadder
<1>8. CASE DamageMarker \/ DamageCopy
  <2>1. /\ marker' = marker \/ marker'.form = "damaged"
        /\ copy' = copy \/ copy'.form = "damaged"
        /\ newest' = newest /\ pc' = "off"
    BY <1>8 DEF DamageMarker, DamageCopy, Damaged
  <2>2. QED
    BY <1>b, <2>1 DEF InBounds, Bounded, OnLadder, Running
<1>9. QED
  BY <1>1, <1>2, <1>3, <1>4, <1>5, <1>6, <1>7, <1>8 DEF Next

-----------------------------------------------------------------------------
(* The identity of a session is the one the files give the next.           *)
LEMMA StepNaming ==
  ASSUME Inv, Next, "uuid" \notin slips'
  PROVE  Naming'
<1> USE MarkerAssumption DEF NoUuid
<1>0. TypeOK /\ Shape /\ uuid \in Nat
  BY DEF Inv, TypeOK
<1>a. "uuid" \notin slips
  BY DEF Next, Start, PlanRefuses, PlanRuns, ApplyRung, RungFails, CommitRung, CommitFails,
         EnsureIdentity, LoadKey, LoadKeyFails, Stamp, Ends, DamageMarker, DamageCopy
<1>b. Naming
  BY <1>a DEF Inv
<1>c. /\ ReadToUpdate \in Markers /\ ReadToUpdate.form = "good" /\ Id = ReadToUpdate.uuid
      /\ Present => ReadToUpdate = Read /\ ReadOrBlank = Read /\ Id = Read.uuid
      /\ ~Present => ReadOrBlank.uuid = 0 /\ Id = marker.uuid
      /\ Read \in Markers
  BY <1>0, ReadFacts DEF Id
<1>1. ASSUME NEW t \in Targets, Start(t) PROVE Naming'
  <2>1. /\ marker' = marker /\ copy' = copy /\ classic' = classic /\ accounts' = accounts
        /\ pc' = "plan" /\ stage' = "pre" /\ uuid' = ReadOrBlank.uuid
    BY <1>1 DEF Start
  <2>2. Id' = Id /\ (Illegible' <=> Illegible)
    BY <2>1, SameFiles
  <2>3. uuid' \in {0, Id}
    BY <1>c, <2>1
  <2>4. QED
    BY <1>b, <2>1, <2>2, <2>3 DEF Naming, OnLadder, Running
<1>2. CASE PlanRefuses \/ RungFails \/ LoadKeyFails \/ Ends \/ CommitFails
  <2>1. /\ marker' = marker /\ copy' = copy /\ classic' = classic /\ accounts' = accounts
        /\ pc' = "off"
    BY <1>2 DEF PlanRefuses, RungFails, LoadKeyFails, Ends, CommitFails, NotWritten, disk, process
  <2>2. Id' = Id /\ (Illegible' <=> Illegible)
    BY <2>1, SameFiles
  <2>3. QED
    BY <1>b, <2>1, <2>2 DEF Naming, OnLadder, Running
<1>3. CASE PlanRuns
  <2>1. /\ marker' = marker /\ copy' = copy /\ classic' = classic /\ accounts' = accounts
        /\ pc = "plan" /\ stage' = stage
        /\ uuid' = IF Upgrade(target) THEN Read.uuid ELSE uuid
        /\ pc' = "rung" => Upgrade(target)
        /\ pc' \in {"rung", AfterStage}
    BY <1>3 DEF PlanRuns, disk, AfterStage
  <2>2. Id' = Id /\ (Illegible' <=> Illegible)
    BY <2>1, SameFiles
  <2>3. Upgrade(target) => uuid' = Id
    BY <1>c, <2>1 DEF Upgrade
  <2>4. uuid \in {0, Id} /\ (stage = "post" => uuid # 0)
    BY <1>b, <2>1 DEF Naming, Running
  <2>5. pc' \in {"rung", "identity", "stamp"}
    BY <2>1 DEF AfterStage
  <2>6. QED
    BY <1>b, <2>1, <2>2, <2>3, <2>4, <2>5 DEF Naming, OnLadder, Running
<1>4. CASE ApplyRung
  <2>1. /\ marker' = marker /\ copy' = copy /\ classic' = classic /\ accounts' = accounts
        /\ pc = "rung" /\ pc' = "commit" /\ stage' = stage /\ uuid' = uuid
    BY <1>4 DEF ApplyRung, process
  <2>2. Id' = Id /\ (Illegible' <=> Illegible)
    BY <2>1, SameFiles
  <2>3. QED
    BY <1>b, <2>1, <2>2 DEF Naming, OnLadder, Running
<1>5. CASE CommitRung
  <2>1. /\ classic' = classic /\ accounts' = accounts /\ stage' = stage
        /\ Written(Committed) /\ uuid' = Committed.uuid /\ pc = "commit"
        /\ pc' \in {"rung", "identity", "stamp"}
    BY <1>5 DEF CommitRung, Committed, AfterStage
  <2>2. Committed \in Markers /\ Committed.form = "good" /\ Committed.uuid = Read.uuid
    BY <1>0, <2>1, CommittedFacts
  <2>3. marker' = Committed /\ Id' = Committed.uuid /\ ~Illegible'
    BY <2>1, <2>2, WrittenRead
  <2>4. Present /\ Id = Read.uuid
    BY <1>0, <1>c, <2>1 DEF Shape, OnLadder
  <2>5. ~Illegible
    BY <2>4 DEF Illegible
  <2>6. uuid = Id /\ (stage = "post" => uuid # 0)
    BY <1>b, <2>1 DEF Naming, OnLadder, Running
  <2>7. QED
    BY <1>b, <2>1, <2>2, <2>3, <2>4, <2>5, <2>6 DEF Naming, OnLadder, Running
<1>6. CASE EnsureIdentity
  <2> DEFINE m == Named(ReadToUpdate)
  <2>1. /\ classic' = classic /\ accounts' = accounts /\ stage' = stage /\ stage = "pre"
        /\ pc = "identity" /\ pc' = "key"
    BY <1>0, <1>6 DEF EnsureIdentity, Shape
  <2>2. /\ m \in Markers /\ m.form = "good" /\ m.uuid # 0
        /\ Id # 0 => m = ReadToUpdate
    BY <1>0, <1>c, <2>1, NamedFacts DEF Running
  <2>3. \/ marker' = marker /\ copy' = copy /\ uuid' = uuid /\ uuid # 0
        \/ Written(m) /\ uuid' = m.uuid /\ (Illegible => "uuid" \in slips')
    BY <1>6 DEF EnsureIdentity
  <2> HIDE DEF m
  <2>4. CASE marker' = marker /\ copy' = copy /\ uuid' = uuid /\ uuid # 0
    <3>1. Id' = Id /\ (Illegible' <=> Illegible)
      BY <2>4, SameFiles
    <3>2. QED
      BY <1>b, <2>1, <2>4, <3>1 DEF Naming, OnLadder, Running
  <2>5. CASE Written(m) /\ uuid' = m.uuid /\ (Illegible => "uuid" \in slips')
    <3>1. marker' = m /\ Id' = m.uuid /\ ~Illegible'
      BY <2>2, <2>5, WrittenRead
    <3>2. ~Illegible
      BY <2>5
    <3>3. ~classic => accounts = {} \/ accounts = {m.uuid}
      BY <1>b, <1>c, <2>2, <3>2 DEF Naming
    <3>4. QED
      BY <1>b, <2>1, <2>2, <2>5, <3>1, <3>3 DEF Naming, OnLadder, Running
  <2>6. QED
    BY <2>3, <2>4, <2>5
<1>7. CASE LoadKey
  <2>1. /\ marker' = marker /\ copy' = copy /\ classic' = classic /\ uuid' = uuid
        /\ pc = "key" /\ pc' = "plan" /\ stage' = "post"
        /\ accounts' = accounts \cup {Account}
    BY <1>7 DEF LoadKey, disk
  <2>2. Id' = Id /\ (Illegible' <=> Illegible)
    BY <2>1, SameFiles
  <2>3. uuid = Id /\ uuid # 0
    BY <1>b, <2>1 DEF Naming, Running
  <2>4. ~Illegible
    BY <1>c, <2>3 DEF Illegible
  <2>5. CASE classic
    <3>1. accounts' \subseteq {0}
      BY <1>b, <2>1, <2>5 DEF Naming, Account
    <3>2. QED
      BY <1>b, <2>1, <2>2, <2>3, <2>5, <3>1 DEF Naming, OnLadder, Running
  <2>6. CASE ~classic
    <3>1. accounts' = {Id}
      BY <1>b, <2>1, <2>3, <2>4, <2>6 DEF Naming, Account
    <3>2. Id \in Nat
      BY <1>0, <2>3
    <3>3. QED
      BY <1>b, <2>1, <2>2, <2>3, <2>6, <3>1, <3>2 DEF Naming, OnLadder, Running
  <2>7. QED
    BY <2>5, <2>6
<1>8. CASE Stamp
  <2> DEFINE m == Stamped(ReadToUpdate)
  <2>1. /\ classic' = classic /\ accounts' = accounts /\ stage' = stage
        /\ pc = "stamp" /\ pc' = "open" /\ stage = "post"
    BY <1>0, <1>8 DEF Stamp, Shape
  <2>2. m \in Markers /\ m.form = "good" /\ m.uuid = Id
    BY <1>0, <1>c, StampedFacts
  <2>3. \/ Written(m) /\ uuid' = Id
        \/ marker' = marker /\ copy' = copy /\ uuid' = uuid
    BY <1>8, <1>c DEF Stamp, NotWritten
  <2> HIDE DEF m
  <2>4. uuid = Id /\ uuid # 0
    BY <1>b, <2>1 DEF Naming, Running
  <2>5. ~Illegible
    BY <1>c, <2>4 DEF Illegible
  <2>6. CASE Written(m) /\ uuid' = Id
    <3>1. marker' = m /\ Id' = Id /\ ~Illegible'
      BY <2>2, <2>6, WrittenRead
    <3>2. QED
      BY <1>b, <2>1, <2>2, <2>4, <2>5, <2>6, <3>1 DEF Naming, OnLadder, Running
  <2>7. CASE marker' = marker /\ copy' = copy /\ uuid' = uuid
    <3>1. Id' = Id /\ (Illegible' <=> Illegible)
      BY <2>7, SameFiles
    <3>2. QED
      BY <1>b, <2>1, <2>4, <2>5, <2>7, <3>1 DEF Naming, OnLadder, Running
  <2>8. QED
    BY <2>3, <2>6, <2>7
<1>9. CASE DamageMarker
  <2>1. PICK u \in {marker.uuid, 0} : marker' = Damaged(u)
    BY <1>9 DEF DamageMarker
  <2>2. /\ copy' = copy /\ classic' = classic /\ accounts' = accounts /\ pc' = "off"
        /\ marker.form = "good" /\ marker'.form = "damaged" /\ marker'.uuid = u
        /\ copy.form = "good" => copy.uuid = marker.uuid
    BY <1>9, <2>1 DEF DamageMarker, Damaged
  <2>3. Id = marker.uuid /\ ~Illegible
    BY <1>c, <2>2 DEF Present, Read, Illegible
  <2>4. CASE copy.form = "good"
    <3>1. Read' = copy /\ Present' /\ Id' = copy.uuid
      BY <2>2, <2>4 DEF Read, Present, Id, ReadToUpdate
    <3>2. QED
      BY <1>b, <2>2, <2>3, <2>4, <3>1 DEF Naming, OnLadder, Running
  <2>5. CASE copy.form # "good"
    <3>1. Read' = marker' /\ ~Present'
      BY <2>2, <2>5 DEF Read, Present
    <3>2. Id' = u
      BY <2>2, <3>1 DEF Id, ReadToUpdate, Blank, Good
    <3>3. u = 0 => Illegible'
      BY <2>2, <3>1 DEF Illegible
    <3>4. QED
      BY <1>b, <2>2, <2>3, <2>5, <3>2, <3>3 DEF Naming, OnLadder, Running
  <2>6. QED
    BY <2>4, <2>5
<1>10. CASE DamageCopy
  <2>1. /\ marker' = marker /\ classic' = classic /\ accounts' = accounts /\ pc' = "off"
        /\ copy.form = "good" /\ copy'.form = "damaged"
    BY <1>10 DEF DamageCopy, Damaged
  <2>2. CASE marker.form = "damaged"
    <3>1. Present /\ Id = copy.uuid /\ ~Illegible
      BY <2>1, <2>2 DEF Present, Read, Id, ReadToUpdate, Illegible
    <3>2. Read' = marker /\ ~Present'
      BY <2>1, <2>2 DEF Read, Present
    <3>3. Id' = marker.uuid
      BY <2>1, <3>2 DEF Id, ReadToUpdate, Blank, Good
    <3>4. marker.uuid = 0 => Illegible'
      BY <2>1, <2>2, <3>2 DEF Illegible
    <3>5. marker.uuid # 0 => marker.uuid = copy.uuid
      BY <1>b, <2>1, <2>2 DEF Naming
    <3>6. QED
      BY <1>b, <2>1, <3>1, <3>3, <3>4, <3>5 DEF Naming, OnLadder, Running
  <2>3. CASE marker.form # "damaged"
    <3>1. Read' = Read /\ (Present' <=> Present)
      BY <2>1, <2>3 DEF Read, Present
    <3>2. Id' = Id /\ ~Illegible /\ ~Illegible'
      BY <2>1, <2>3, <3>1 DEF Id, ReadToUpdate, Illegible
    <3>3. QED
      BY <1>b, <2>1, <2>3, <3>2 DEF Naming, OnLadder, Running
  <2>4. QED
    BY <2>2, <2>3
<1>11. QED
  BY <1>1, <1>2, <1>3, <1>4, <1>5, <1>6, <1>7, <1>8, <1>9, <1>10 DEF Next

-----------------------------------------------------------------------------
(* Every step keeps the invariant.                                         *)
LEMMA StepInv == Inv /\ [Next]_vars => Inv'
<1> SUFFICES ASSUME Inv, [Next]_vars PROVE Inv'
  OBVIOUS
<1>1. CASE Next
  BY <1>1, StepShape, StepFresh, StepClimbing, StepInBounds, StepNaming DEF Inv
<1>2. CASE UNCHANGED vars
  <2>1. /\ marker' = marker /\ copy' = copy /\ applied' = applied /\ classic' = classic /\ made' = made
        /\ target' = target /\ stage' = stage /\ todo' = todo /\ held' = held /\ uuid' = uuid
        /\ starts' = starts /\ faults' = faults /\ newest' = newest /\ accounts' = accounts
        /\ slips' = slips /\ pc' = pc
    BY <1>2 DEF vars, disk, process
  <2>2. TypeOK' /\ Shape'
    BY <2>1, SameFiles DEF Inv, TypeOK, Shape, OnLadder, Running, Rungs
  <2>3. Climbing <=> Climbing'
    BY <2>1, SameFiles DEF Climbing, Earned, PreDone, RunsHere, OnLadder, Running, NextRung
  <2>4. InBounds <=> InBounds'
    BY <2>1 DEF InBounds, Bounded, OnLadder, Running
  <2>5. Naming <=> Naming'
    BY <2>1, SameFiles DEF Naming, OnLadder, Running
  <2>6. Fresh'
    BY <2>1 DEF Inv, Fresh, Running
  <2>7. QED
    BY <2>1, <2>2, <2>3, <2>4, <2>5, <2>6 DEF Inv
<1>3. QED
  BY <1>1, <1>2

(* The invariant holds of every behaviour.                                 *)
LEMMA AlwaysInv == Spec => []Inv
<1>1. QED
  BY InitInv, StepInv, PTL DEF Spec

(* RunProfileMigration() and stamp_marker() never record a version that    *)
(* the profile's data has not been brought to, wherever starts of whatever *)
(* builds end and whichever writes fail, while every start of a profile    *)
(* that has data finds a marker to read.                                   *)
THEOREM MarkerVersionEarned == Spec => []VersionEarned
<1>1. Inv => VersionEarned
  BY DEF Inv, Climbing, Earned, VersionEarned
<1>2. QED
  BY <1>1, AlwaysInv, PTL

(* ensure_identity() and UpdateMarker() keep the account of the profile's  *)
(* key: all starts use one, while a legible uuid is left and is written.   *)
THEOREM MarkerIdentityKept == Spec => []IdentityKept
<1>1. Inv => IdentityKept
  <2> SUFFICES ASSUME Inv, "uuid" \notin slips PROVE Cardinality(accounts) <= 1
    BY DEF IdentityKept
  <2>1. PICK a \in Nat : accounts \subseteq {a}
    BY DEF Inv, Naming
  <2>2. accounts = {} \/ accounts = {a}
    BY <2>1
  <2>3. Cardinality({}) = 0 /\ Cardinality({a}) = 1
    BY FS_EmptySet, FS_Singleton
  <2>4. QED
    BY <2>2, <2>3
<1>2. QED
  BY <1>1, AlwaysInv, PTL

(* PlanProfileMigration() never refuses a profile to the newest build that *)
(* has opened it, nor to a newer one, unless an identity was salvaged from *)
(* a marker that could not be read.                                        *)
THEOREM MarkerStillOpens == Spec => []StillOpens
<1>1. Inv => StillOpens
  <2> SUFFICES ASSUME Inv, "zero" \notin slips, NEW t \in Targets, t >= newest PROVE ~Refused(t)
    BY DEF StillOpens, NotBricked
  <2>1. TypeOK /\ InBounds /\ t \in Nat /\ newest \in Nat
    BY MarkerAssumption DEF Inv, TypeOK
  <2>2. Present => Bounded(Read) /\ Read.form = "good" /\ Read \in Markers
    BY <2>1, ReadFacts DEF InBounds
  <2>3. QED
    BY <2>1, <2>2, MarkerAssumption DEF Refused, Bounded, Markers
<1>2. QED
  BY <1>1, AlwaysInv, PTL

=============================================================================
