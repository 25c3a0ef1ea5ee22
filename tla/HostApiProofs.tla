--------------------------- MODULE HostApiProofs ---------------------------
(***************************************************************************)
(* The host api's safety, for any modules, records, threads and calls.     *)
(*                                                                         *)
(* Inv is inductive.  The counters count tickets (CountsExact), so a wait  *)
(* that finds nothing in flight has found no call.  It stays so because    *)
(* only the last record minted for a module is ever live (Minted) and that *)
(* one has been revoked (ShutdownOK).  A handle can only be issued to a    *)
(* module with a call running (Attributed), which a swept one never has.   *)
(***************************************************************************)
EXTENDS HostApi, FiniteSetTheorems, TLAPS

Pos(t) == 1..Len(nest[t])

NestOK ==
    /\ \A t \in Threads : \A i \in Pos(t) :
        /\ ThreadOf[nest[t][i]] = t
        /\ ticket[nest[t][i]] # NoRecord
        /\ \A j \in Pos(t) : nest[t][i] = nest[t][j] => i = j
    /\ \A k \in Calls : ticket[k] # NoRecord =>
        \E i \in Pos(ThreadOf[k]) : nest[ThreadOf[k]][i] = k

Attributed ==
    /\ AttributionFollows
    /\ \A t \in Threads : \A i \in Pos(t) :
        previous[nest[t][i]] = IF i = 1 THEN NoOne ELSE owner[ticket[nest[t][i - 1]]]

Minted ==
    /\ LiveIsCurrent
    /\ \A m \in Modules : by_id[m] # NoRecord => owner[by_id[m]] = m
    /\ \A k \in Calls : ticket[k] # NoRecord => owner[ticket[k]] # NoOne

Revoked(m) == \A r \in live : owner[r] # m

ShutdownOK ==
    /\ phase \notin {"running", "over"} => nest[Main] = <<>>
    /\ phase \in {"asleep", "awake", "expired", "idle"} =>
        now \in Modules /\ now \in found /\ Revoked(now)
    /\ phase = "running" => swept = {}
    /\ todo \subseteq found /\ swept \subseteq found
    /\ \A m \in swept : Revoked(m) /\ CallsOf(m) = {}

Inv ==
    /\ TypeOK /\ CountsExact /\ NestOK /\ Attributed /\ Minted /\ ShutdownOK
    /\ IdleMeansAlone /\ SweptForGood /\ NoLostWakeup

-----------------------------------------------------------------------------
(* Sets of calls are finite, and one call more or less changes their size  *)
(* by one.                                                                 *)
LEMMA CallSets ==
    ASSUME NEW S \in SUBSET Calls
    PROVE  /\ IsFiniteSet(S)
           /\ Cardinality(S) \in Nat
           /\ Cardinality(S) = 0 <=> S = {}
           /\ \A k \in Calls \ S : Cardinality(S \cup {k}) = Cardinality(S) + 1
<1>1. IsFiniteSet(S)
  BY FS_Subset, HostApiAssumption
<1> QED
  BY <1>1, FS_CardinalityType, FS_EmptySet, FS_AddElement

(* Busy() is a question about calls: with Main inside none, it is whether  *)
(* the module has any.                                                     *)
LEMMA BusyMeansCalls ==
    ASSUME TypeOK, CountsExact, NestOK, nest[Main] = <<>>, NEW m \in Modules
    PROVE  Busy(m) <=> CallsOf(m) # {}
<1>1. Main \in Threads /\ NoRecord \notin Records /\ ThreadOf \in [Calls -> Threads]
  BY HostApiAssumption
<1>2. \A k \in Calls : ThreadOf[k] = Main => ticket[k] = NoRecord
  BY <1>1 DEF NestOK, Pos
<1>3. ASSUME NEW r \in Records
      PROVE  in_flight[r] - held[Main][r] > 0 <=> CallsWith(r) # {}
  <2>1. CallsBy(Main, r) = {}
    BY <1>1, <1>2 DEF CallsBy
  <2>2. held[Main][r] = 0
    BY <1>1, <2>1, FS_EmptySet DEF CountsExact
  <2>3. CallsWith(r) \in SUBSET Calls
    BY DEF CallsWith
  <2>4. Cardinality(CallsWith(r)) \in Nat /\ (Cardinality(CallsWith(r)) = 0 <=> CallsWith(r) = {})
    BY <2>3, CallSets
  <2> QED
    BY <2>2, <2>4 DEF CountsExact
<1>4. Busy(m) <=> \E r \in Records : owner[r] = m /\ CallsWith(r) # {}
  BY <1>3 DEF Busy
<1> QED
  BY <1>1, <1>4 DEF CallsOf, CallsWith, TypeOK

-----------------------------------------------------------------------------
(* Nothing is minted, running, issued or waited for at first.              *)
LEMMA InitInv == Init => Inv
<1> SUFFICES ASSUME Init PROVE Inv
  OBVIOUS
<1>1. Main \in Threads /\ NoRecord \notin Records /\ ThreadOf \in [Calls -> Threads] /\ 0 \in Grants
  BY HostApiAssumption
<1>2. \A r \in Records : CallsWith(r) = {} /\ \A t \in Threads : CallsBy(t, r) = {}
  BY <1>1 DEF Init, CallsWith, CallsBy
<1>3. CountsExact
  BY <1>2, FS_EmptySet DEF Init, CountsExact
<1>4. TypeOK
  BY <1>1 DEF Init, TypeOK, Phases
<1>5. NestOK /\ Attributed
  BY DEF Init, NestOK, Attributed, AttributionFollows, Pos
<1>6. Minted /\ ShutdownOK /\ IdleMeansAlone /\ SweptForGood /\ NoLostWakeup
  BY DEF Init, Minted, LiveIsCurrent, ShutdownOK, IdleMeansAlone, SweptForGood, NoLostWakeup
<1> QED
  BY <1>3, <1>4, <1>5, <1>6 DEF Inv

-----------------------------------------------------------------------------
(* What a step that leaves calls, records and their owners alone keeps.    *)
LEMMA CallsFrame ==
    ASSUME Inv, UNCHANGED <<owner, counts, ticket, nest, attribution>>
    PROVE  /\ CountsExact' /\ NestOK' /\ Attributed'
           /\ \A m : CallsOf(m)' = CallsOf(m)
<1>1. CountsExact'
  BY DEF Inv, CountsExact, CallsWith, CallsBy, counts
<1>2. NestOK'
  BY DEF Inv, NestOK, Pos
<1>3. Attributed'
  BY DEF Inv, Attributed, AttributionFollows, Pos, attribution
<1> QED
  BY <1>1, <1>2, <1>3 DEF CallsOf

(* The steps that touch the ledger alone issue to whoever has a call       *)
(* running, or before anything is swept, or take something out.            *)
LEMMA LedgerInv ==
    ASSUME Inv, UNCHANGED <<records, counts, ticket, nest, attribution, shutdown>>,
           live_' \in SUBSET Handles, issuedTo' \in [Handles -> Modules \cup {NoOne}],
           \A h \in live_' : issuedTo'[h] \notin swept
    PROVE  Inv'
<1>1. CountsExact' /\ NestOK' /\ Attributed' /\ \A m : CallsOf(m)' = CallsOf(m)
  BY CallsFrame DEF records
<1>2. TypeOK'
  BY DEF Inv, TypeOK, records, counts, attribution, shutdown
<1>3. Minted'
  BY DEF Inv, Minted, LiveIsCurrent, records
<1>4. ShutdownOK'
  BY <1>1 DEF Inv, ShutdownOK, Revoked, records, shutdown
<1>5. IdleMeansAlone' /\ NoLostWakeup'
  BY <1>1 DEF Inv, IdleMeansAlone, NoLostWakeup, shutdown
<1>6. SweptForGood'
  BY DEF SweptForGood, shutdown
<1> QED
  BY <1>1, <1>2, <1>3, <1>4, <1>5, <1>6 DEF Inv

(* The innermost call of a thread runs, for the module the thread works    *)
(* for.                                                                    *)
LEMMA InnermostRuns ==
    ASSUME Inv, NEW k \in Calls, Innermost(k)
    PROVE  /\ ThreadOf[k] \in Threads
           /\ Len(nest[ThreadOf[k]]) \in Nat \ {0}
           /\ nest[ThreadOf[k]][Len(nest[ThreadOf[k]])] = k
           /\ ticket[k] \in Records
           /\ current[ThreadOf[k]] = owner[ticket[k]]
           /\ current[ThreadOf[k]] \in Modules
           /\ k \in CallsOf(current[ThreadOf[k]])
<1> DEFINE t == ThreadOf[k]
<1>1. t \in Threads
  BY HostApiAssumption
<1>2. nest[t] \in Seq(Calls) /\ nest[t] # <<>>
  BY <1>1 DEF Inv, TypeOK, Innermost
<1>3. Len(nest[t]) \in Nat \ {0}
  BY <1>2
<1>4. nest[t][Len(nest[t])] = k
  BY DEF Innermost
<1>5. ticket[k] # NoRecord
  BY <1>1, <1>3, <1>4 DEF Inv, NestOK, Pos
<1>6. ticket[k] \in Records
  BY <1>5 DEF Inv, TypeOK
<1>7. current[t] = owner[ticket[k]]
  BY <1>1, <1>2, <1>4 DEF Inv, Attributed, AttributionFollows
<1>8. owner[ticket[k]] \in Modules
  BY <1>5, <1>6 DEF Inv, TypeOK, Minted
<1> QED
  BY <1>1, <1>3, <1>4, <1>5, <1>6, <1>7, <1>8 DEF CallsOf

(* NewHandle, NewBufferFor and TakeHandle.                                 *)
LEMMA HandlesInv ==
    ASSUME Inv,
           \/ \E k \in Calls, h \in Handles : NewHandle(k, h) \/ TakeHandle(k, h)
           \/ \E m \in Modules, h \in Handles : NewBufferFor(m, h)
    PROVE  Inv'
<1>1. ASSUME NEW k \in Calls, NEW h \in Handles, NewHandle(k, h) PROVE Inv'
  <2>1. current[ThreadOf[k]] \in Modules /\ k \in CallsOf(current[ThreadOf[k]])
    BY <1>1, InnermostRuns DEF NewHandle
  <2>2. current[ThreadOf[k]] \notin swept
    BY <2>1 DEF Inv, ShutdownOK
  <2>3. live_' = live_ \cup {h} /\ issuedTo' = [issuedTo EXCEPT ![h] = current[ThreadOf[k]]]
    BY <1>1 DEF NewHandle, Issue
  <2>4. live_' \in SUBSET Handles /\ issuedTo' \in [Handles -> Modules \cup {NoOne}]
    BY <2>1, <2>3 DEF Inv, TypeOK
  <2>5. \A x \in live_' : issuedTo'[x] \notin swept
    BY <2>2, <2>3 DEF Inv, TypeOK, SweptForGood
  <2> QED
    BY <1>1, <2>4, <2>5, LedgerInv DEF NewHandle
<1>2. ASSUME NEW k \in Calls, NEW h \in Handles, TakeHandle(k, h) PROVE Inv'
  <2>1. live_' = live_ \ {h} /\ issuedTo' = issuedTo
    BY <1>2 DEF TakeHandle
  <2>2. live_' \in SUBSET Handles /\ issuedTo' \in [Handles -> Modules \cup {NoOne}]
        /\ \A x \in live_' : issuedTo'[x] \notin swept
    BY <2>1 DEF Inv, TypeOK, SweptForGood
  <2> QED
    BY <1>2, <2>2, LedgerInv DEF TakeHandle
<1>3. ASSUME NEW m \in Modules, NEW h \in Handles, NewBufferFor(m, h) PROVE Inv'
  <2>1. swept = {} /\ live_' = live_ \cup {h} /\ issuedTo' = [issuedTo EXCEPT ![h] = m]
    BY <1>3 DEF NewBufferFor, Issue, Inv, ShutdownOK
  <2>2. live_' \in SUBSET Handles /\ issuedTo' \in [Handles -> Modules \cup {NoOne}]
        /\ \A x \in live_' : issuedTo'[x] \notin swept
    BY <2>1 DEF Inv, TypeOK
  <2> QED
    BY <1>3, <2>2, LedgerInv DEF NewBufferFor
<1> QED
  BY <1>1, <1>2, <1>3

(* A module's new record replaces the one that was live.                   *)
LEMMA MintInv ==
    ASSUME Inv, NEW m \in Modules, NEW g \in Grants, NEW r \in Records, MintHostApi(m, g, r)
    PROVE  Inv'
<1>0. NoOne \notin Modules /\ NoRecord \notin Records
  BY HostApiAssumption
<1>1. TypeOK'
  BY DEF Inv, TypeOK, MintHostApi, counts, attribution, ledger, shutdown
<1>2. \A k \in Calls : ticket[k] # r
  BY <1>0 DEF Inv, Minted, MintHostApi, TypeOK
<1>3. \A k \in Calls : ticket[k] # NoRecord => owner'[ticket[k]] = owner[ticket[k]]
  BY <1>2 DEF Inv, TypeOK, MintHostApi
<1>4. CountsExact' /\ NestOK'
  BY DEF Inv, CountsExact, CallsWith, CallsBy, NestOK, Pos, MintHostApi, counts
<1>5. ASSUME NEW t \in Threads, NEW i \in Pos(t)
      PROVE  nest[t][i] \in Calls /\ owner'[ticket[nest[t][i]]] = owner[ticket[nest[t][i]]]
  <2>1. nest[t] \in Seq(Calls)
    BY DEF Inv, TypeOK
  <2>2. nest[t][i] \in Calls
    BY <2>1 DEF Pos
  <2> QED
    BY <1>3, <2>2 DEF Inv, NestOK
<1>6. AttributionFollows'
  <2> SUFFICES ASSUME NEW t \in Threads
               PROVE  current'[t] = IF nest'[t] = <<>> THEN NoOne
                                    ELSE owner'[ticket'[nest'[t][Len(nest'[t])]]]
    BY DEF AttributionFollows
  <2>1. nest' = nest /\ ticket' = ticket /\ current' = current
    BY DEF MintHostApi, attribution
  <2>2. current[t] = IF nest[t] = <<>> THEN NoOne ELSE owner[ticket[nest[t][Len(nest[t])]]]
    BY DEF Inv, Attributed, AttributionFollows
  <2>3. nest[t] # <<>> => Len(nest[t]) \in Pos(t)
    BY DEF Inv, TypeOK, Pos
  <2> QED
    BY <1>5, <2>1, <2>2, <2>3
<1>7. Attributed'
  <2> SUFFICES ASSUME NEW t \in Threads, NEW i \in Pos(t)
               PROVE  previous[nest[t][i]] =
                        IF i = 1 THEN NoOne ELSE owner'[ticket[nest[t][i - 1]]]
    BY <1>6 DEF Attributed, Pos, MintHostApi, attribution
  <2>1. previous[nest[t][i]] = IF i = 1 THEN NoOne ELSE owner[ticket[nest[t][i - 1]]]
    BY DEF Inv, Attributed
  <2>2. i # 1 => i - 1 \in Pos(t)
    BY DEF Pos, Inv, TypeOK
  <2> QED
    BY <1>5, <2>1, <2>2
<1>8. Minted'
  <2>1. LiveIsCurrent'
    BY <1>0 DEF Inv, TypeOK, Minted, LiveIsCurrent, MintHostApi
  <2>2. \A n \in Modules : by_id'[n] # NoRecord => owner'[by_id'[n]] = n
    BY <1>0 DEF Inv, TypeOK, Minted, MintHostApi
  <2> QED
    BY <1>3, <2>1, <2>2 DEF Inv, Minted, MintHostApi
<1>9. \A n : CallsOf(n)' = CallsOf(n)
  BY <1>3 DEF CallsOf, MintHostApi
<1>10. UNCHANGED <<nest, live_, issuedTo, phase, todo, now, swept, found>>
  BY DEF MintHostApi, ledger, shutdown
<1>11. ASSUME NEW n, n # m, Revoked(n) PROVE \A q \in live' : owner'[q] # n
  <2>1. live' \subseteq live \cup {r} /\ live \subseteq Records
        /\ \A q \in Records : owner'[q] = IF q = r THEN m ELSE owner[q]
    BY DEF MintHostApi, Inv, TypeOK
  <2> QED
    BY <1>11, <2>1 DEF Revoked
<1>12. /\ phase \in {"asleep", "awake", "expired", "idle"} => \A q \in live' : owner'[q] # now
       /\ \A n \in swept : \A q \in live' : owner'[q] # n
  <2>1. phase = "running" \/ m \notin found
    BY DEF MintHostApi, Undecided
  <2>2. phase \in {"asleep", "awake", "expired", "idle"} => now # m /\ Revoked(now)
    BY <2>1 DEF Inv, ShutdownOK
  <2>3. \A n \in swept : n # m /\ Revoked(n)
    BY <2>1 DEF Inv, ShutdownOK
  <2> QED
    BY <1>11, <2>2, <2>3
<1>13. ShutdownOK'
  BY <1>9, <1>10, <1>12 DEF Inv, ShutdownOK, Revoked
<1>14. IdleMeansAlone' /\ SweptForGood' /\ NoLostWakeup'
  BY <1>9, <1>10 DEF Inv, IdleMeansAlone, SweptForGood, NoLostWakeup
<1> QED
  BY <1>1, <1>4, <1>7, <1>8, <1>13, <1>14 DEF Inv

(* Revoking makes nothing live.                                            *)
LEMMA ReleaseInv ==
    ASSUME Inv, NEW m \in Modules, ReleaseHostApi(m)
    PROVE  Inv'
<1>1. CountsExact' /\ NestOK' /\ Attributed' /\ \A n : CallsOf(n)' = CallsOf(n)
  BY CallsFrame DEF ReleaseHostApi
<1>2. TypeOK'
  BY DEF Inv, TypeOK, ReleaseHostApi, counts, attribution, ledger, shutdown
<1>3. Minted'
  BY DEF Inv, Minted, LiveIsCurrent, ReleaseHostApi
<1>4. /\ UNCHANGED <<owner, nest, live_, issuedTo, phase, todo, now, swept, found>>
      /\ live' \subseteq live
  BY DEF ReleaseHostApi, ledger, shutdown
<1>5. ShutdownOK' /\ IdleMeansAlone' /\ SweptForGood' /\ NoLostWakeup'
  BY <1>1, <1>4 DEF Inv, ShutdownOK, Revoked, IdleMeansAlone, SweptForGood, NoLostWakeup
<1> QED
  BY <1>1, <1>2, <1>3, <1>5 DEF Inv

(* Only a live record is called with, and neither the module being waited  *)
(* for nor one that was swept has any.                                     *)
LEMMA BeginInv ==
    ASSUME Inv, NEW k \in Calls, NEW r \in Records, BeginCall(k, r)
    PROVE  Inv'
<1> DEFINE t == ThreadOf[k]
<1>0. /\ t \in Threads /\ Main \in Threads /\ NoRecord \notin Records
      /\ ThreadOf \in [Calls -> Threads]
  BY HostApiAssumption
<1>1. /\ in_flight' = [in_flight EXCEPT ![r] = @ + 1]
      /\ held' = [held EXCEPT ![t][r] = @ + 1]
      /\ ticket' = [ticket EXCEPT ![k] = r]
      /\ nest' = [nest EXCEPT ![t] = Append(@, k)]
      /\ previous' = [previous EXCEPT ![k] = current[t]]
      /\ current' = [current EXCEPT ![t] = owner[r]]
      /\ ticket[k] = NoRecord /\ r \in live
      /\ (t = Main => phase \in {"running", "over"})
  BY DEF BeginCall, Free
<1>2. UNCHANGED <<owner, granted, live, by_id, live_, issuedTo, phase, todo, now, swept, found>>
  BY DEF BeginCall, records, ledger, shutdown
<1>3. TypeOK
  BY DEF Inv
<1>4. TypeOK'
  <2>1. in_flight' \in [Records -> Nat] /\ held' \in [Threads -> [Records -> Nat]]
    BY <1>0, <1>1, <1>3 DEF TypeOK
  <2>2. ticket' \in [Calls -> Records \cup {NoRecord}]
    BY <1>1, <1>3 DEF TypeOK
  <2>3. nest' \in [Threads -> Seq(Calls)]
    BY <1>0, <1>1, <1>3 DEF TypeOK
  <2>4. current' \in [Threads -> Modules \cup {NoOne}] /\ previous' \in [Calls -> Modules \cup {NoOne}]
    BY <1>0, <1>1, <1>3 DEF TypeOK
  <2> QED
    BY <1>2, <1>3, <2>1, <2>2, <2>3, <2>4 DEF TypeOK
<1>5. CountsExact'
  <2> SUFFICES ASSUME NEW q \in Records
               PROVE  /\ in_flight'[q] = Cardinality(CallsWith(q)')
                      /\ \A u \in Threads : held'[u][q] = Cardinality(CallsBy(u, q)')
    BY DEF CountsExact
  <2>1. /\ in_flight[q] = Cardinality(CallsWith(q))
        /\ \A u \in Threads : held[u][q] = Cardinality(CallsBy(u, q))
    BY DEF Inv, CountsExact
  <2>2. in_flight'[q] = Cardinality(CallsWith(q)')
    <3>1. CASE q = r
      <4>1. CallsWith(q)' = CallsWith(q) \cup {k} /\ k \notin CallsWith(q)
        BY <1>0, <1>1, <1>3, <3>1 DEF CallsWith, TypeOK
      <4>2. Cardinality(CallsWith(q) \cup {k}) = Cardinality(CallsWith(q)) + 1
        BY <4>1, CallSets DEF CallsWith
      <4> QED
        BY <1>1, <1>3, <2>1, <3>1, <4>1, <4>2 DEF TypeOK
    <3>2. CASE q # r
      <4>1. CallsWith(q)' = CallsWith(q)
        BY <1>0, <1>1, <1>3, <3>2 DEF CallsWith, TypeOK
      <4> QED
        BY <1>1, <1>3, <2>1, <3>2, <4>1 DEF TypeOK
    <3> QED
      BY <3>1, <3>2
  <2>3. ASSUME NEW u \in Threads PROVE held'[u][q] = Cardinality(CallsBy(u, q)')
    <3>1. CASE q = r /\ u = t
      <4>1. CallsBy(u, q)' = CallsBy(u, q) \cup {k} /\ k \notin CallsBy(u, q)
        BY <1>0, <1>1, <1>3, <3>1 DEF CallsBy, TypeOK
      <4>2. Cardinality(CallsBy(u, q) \cup {k}) = Cardinality(CallsBy(u, q)) + 1
        BY <4>1, CallSets DEF CallsBy
      <4> QED
        BY <1>0, <1>1, <1>3, <2>1, <3>1, <4>1, <4>2 DEF TypeOK
    <3>2. CASE ~(q = r /\ u = t)
      <4>1. CallsBy(u, q)' = CallsBy(u, q)
        BY <1>0, <1>1, <1>3, <3>2 DEF CallsBy, TypeOK
      <4>2. held'[u][q] = held[u][q]
        BY <1>0, <1>1, <1>3, <3>2 DEF TypeOK
      <4> QED
        BY <2>1, <4>1, <4>2
    <3> QED
      BY <3>1, <3>2
  <2> QED
    BY <2>2, <2>3
<1> DEFINE n == Len(nest[t])
<1>6. /\ n \in Nat
      /\ nest'[t] = Append(nest[t], k)
      /\ Len(nest'[t]) = n + 1
      /\ nest'[t][n + 1] = k
      /\ \A i \in 1..n : nest'[t][i] = nest[t][i] /\ nest[t][i] \in Calls
      /\ \A u \in Threads : u # t => nest'[u] = nest[u]
  <2>1. nest[t] \in Seq(Calls)
    BY <1>0, <1>3 DEF TypeOK
  <2>2. nest'[t] = Append(nest[t], k) /\ \A u \in Threads : u # t => nest'[u] = nest[u]
    BY <1>0, <1>1, <1>3 DEF TypeOK
  <2> QED
    BY <2>1, <2>2
<1>7. \A u \in Threads : \A i \in Pos(u) : nest[u][i] \in Calls /\ nest[u][i] # k
  BY <1>1, <1>3 DEF Inv, NestOK, TypeOK, Pos
<1>8. NestOK'
  <2>1. ASSUME NEW u \in Threads, NEW i \in Pos(u)'
        PROVE  /\ ThreadOf[nest'[u][i]] = u
               /\ ticket'[nest'[u][i]] # NoRecord
               /\ \A j \in Pos(u)' : nest'[u][i] = nest'[u][j] => i = j
    <3>1. CASE u # t
      <4>1. nest'[u] = nest[u] /\ i \in Pos(u) /\ Pos(u)' = Pos(u)
        BY <1>6, <3>1 DEF Pos
      <4>2. /\ ThreadOf[nest[u][i]] = u /\ ticket[nest[u][i]] # NoRecord
            /\ \A j \in Pos(u) : nest[u][i] = nest[u][j] => i = j
        BY <4>1 DEF Inv, NestOK
      <4> QED
        BY <1>1, <1>3, <1>7, <4>1, <4>2 DEF TypeOK
    <3>2. CASE u = t
      <4>1. Pos(u) = 1..n /\ Pos(u)' = 1..(n + 1)
        BY <1>6, <3>2 DEF Pos
      <4>2. \A j \in 1..n : /\ ThreadOf[nest[t][j]] = t /\ ticket[nest[t][j]] # NoRecord
                            /\ \A l \in 1..n : nest[t][j] = nest[t][l] => j = l
        BY <1>0, <3>2, <4>1 DEF Inv, NestOK
      <4>3. \A j \in 1..n : nest[t][j] # k
        BY <1>7, <3>2, <4>1
      <4>4. ticket'[k] # NoRecord /\ \A j \in 1..n : ticket'[nest[t][j]] = ticket[nest[t][j]]
        BY <1>0, <1>1, <1>3, <1>6, <4>3 DEF TypeOK
      <4>5. ThreadOf[nest'[t][n + 1]] = t /\ ticket'[nest'[t][n + 1]] # NoRecord
        BY <1>6, <4>4
      <4>6. \A j \in 1..n : ThreadOf[nest'[t][j]] = t /\ ticket'[nest'[t][j]] # NoRecord
        BY <1>6, <4>2, <4>4
      <4>7. \A j, l \in 1..n : nest'[t][j] = nest'[t][l] => j = l
        BY <1>6, <4>2
      <4>8. \A j \in 1..n : nest'[t][j] # nest'[t][n + 1]
        BY <1>6, <4>3
      <4>9. \A j \in 1..(n + 1) : j \in 1..n \/ j = n + 1
        BY <1>6
      <4>10. \A j, l \in 1..(n + 1) : nest'[t][j] = nest'[t][l] => j = l
        BY <4>7, <4>8, <4>9
      <4> HIDE DEF n, t
      <4> QED
        BY <3>2, <4>1, <4>5, <4>6, <4>9, <4>10
    <3> QED
      BY <3>1, <3>2
  <2>2. ASSUME NEW c \in Calls, ticket'[c] # NoRecord
        PROVE  \E i \in Pos(ThreadOf[c])' : nest'[ThreadOf[c]][i] = c
    <3>1. CASE c = k
      BY <1>6, <3>1 DEF Pos
    <3>2. CASE c # k
      <4>1. ticket[c] # NoRecord
        BY <1>1, <1>3, <2>2, <3>2 DEF TypeOK
      <4>2. PICK i \in Pos(ThreadOf[c]) : nest[ThreadOf[c]][i] = c
        BY <4>1 DEF Inv, NestOK
      <4> QED
        BY <1>0, <1>6, <4>2 DEF Pos
    <3> QED
      BY <3>1, <3>2
  <2> QED
    BY <2>1, <2>2 DEF NestOK
<1>9. Attributed'
  <2>1. \A u \in Threads : \A i \in Pos(u) :
          /\ ticket'[nest[u][i]] = ticket[nest[u][i]]
          /\ previous'[nest[u][i]] = previous[nest[u][i]]
    BY <1>1, <1>3, <1>7 DEF TypeOK
  <2>2. ticket'[k] = r /\ previous'[k] = current[t]
    BY <1>1, <1>3 DEF TypeOK
  <2>3. AttributionFollows'
    <3> SUFFICES ASSUME NEW u \in Threads
                 PROVE  current'[u] = IF nest'[u] = <<>> THEN NoOne
                                      ELSE owner[ticket'[nest'[u][Len(nest'[u])]]]
      BY <1>2 DEF AttributionFollows
    <3>1. CASE u = t
      <4>1. current'[t] = owner[r]
        BY <1>0, <1>1, <1>3 DEF TypeOK
      <4> QED
        BY <1>6, <2>2, <3>1, <4>1
    <3>2. CASE u # t
      <4>1. current'[u] = current[u] /\ nest'[u] = nest[u]
        BY <1>1, <1>3, <1>6, <3>2 DEF TypeOK
      <4>2. nest[u] # <<>> => Len(nest[u]) \in Pos(u)
        BY <1>3 DEF TypeOK, Pos
      <4> QED
        BY <2>1, <4>1, <4>2 DEF Inv, Attributed, AttributionFollows
    <3> QED
      BY <3>1, <3>2
  <2>4. ASSUME NEW u \in Threads, NEW i \in Pos(u)'
        PROVE  previous'[nest'[u][i]] =
                 IF i = 1 THEN NoOne ELSE owner[ticket'[nest'[u][i - 1]]]
    <3>1. CASE u # t
      <4>1. nest'[u] = nest[u] /\ i \in Pos(u) /\ (i # 1 => i - 1 \in Pos(u))
        BY <1>3, <1>6, <3>1 DEF Pos, TypeOK
      <4>2. previous[nest[u][i]] = IF i = 1 THEN NoOne ELSE owner[ticket[nest[u][i - 1]]]
        BY <4>1 DEF Inv, Attributed
      <4> QED
        BY <2>1, <4>1, <4>2
    <3>2. CASE u = t /\ i \in Pos(t)
      <4>1. i \in 1..n /\ (i # 1 => i - 1 \in 1..n) /\ Pos(t) = 1..n
        BY <1>6, <3>2 DEF Pos
      <4>2. previous[nest[t][i]] = IF i = 1 THEN NoOne ELSE owner[ticket[nest[t][i - 1]]]
        BY <1>0, <3>2 DEF Inv, Attributed
      <4>3. nest'[t][i] = nest[t][i] /\ (i # 1 => nest'[t][i - 1] = nest[t][i - 1])
        BY <1>6, <4>1
      <4> QED
        BY <1>0, <2>1, <3>2, <4>1, <4>2, <4>3
    <3>3. CASE u = t /\ i \notin Pos(t)
      <4>1. i = n + 1 /\ nest'[t][i] = k
        BY <1>6, <3>3 DEF Pos
      <4>2. current[t] = IF nest[t] = <<>> THEN NoOne ELSE owner[ticket[nest[t][n]]]
        BY <1>0 DEF Inv, Attributed, AttributionFollows
      <4>3. (nest[t] = <<>> <=> n = 0) /\ (n # 0 => n \in Pos(t) /\ nest'[t][n] = nest[t][n])
        BY <1>0, <1>3, <1>6 DEF Pos, TypeOK
      <4>4. (i = 1 <=> n = 0) /\ i - 1 = n
        BY <1>6, <4>1
      <4>5. CASE n = 0
        BY <2>2, <3>3, <4>1, <4>2, <4>3, <4>4, <4>5
      <4>6. CASE n # 0
        <5>1. ticket'[nest'[t][n]] = ticket[nest[t][n]]
          BY <1>0, <2>1, <4>3, <4>6
        <5>2. previous'[nest'[t][i]] = owner[ticket'[nest'[t][n]]]
          BY <2>2, <4>1, <4>2, <4>3, <4>6, <5>1
        <5> QED
          BY <3>3, <4>4, <4>6, <5>2
      <4> QED
        BY <4>5, <4>6
    <3> QED
      BY <3>1, <3>2, <3>3
  <2> QED
    BY <1>2, <2>3, <2>4 DEF Attributed
<1>10. owner[r] # NoOne
  BY <1>1 DEF Inv, Minted, LiveIsCurrent
<1>11. Minted'
  BY <1>1, <1>2, <1>3, <1>10 DEF Inv, Minted, LiveIsCurrent, TypeOK
<1>12. \A m : CallsOf(m) \subseteq CallsOf(m)' /\ (owner[r] # m => CallsOf(m)' = CallsOf(m))
  BY <1>0, <1>1, <1>2, <1>3 DEF CallsOf, TypeOK
<1>13. ShutdownOK'
  <2>1. phase \notin {"running", "over"} => nest'[Main] = <<>>
    BY <1>0, <1>1, <1>6 DEF Inv, ShutdownOK
  <2>2. \A m \in swept : CallsOf(m)' = {}
    BY <1>1, <1>12 DEF Inv, ShutdownOK, Revoked
  <2> QED
    BY <1>2, <2>1, <2>2 DEF Inv, ShutdownOK, Revoked
<1>14. IdleMeansAlone' /\ SweptForGood' /\ NoLostWakeup'
  BY <1>1, <1>2, <1>12 DEF Inv, ShutdownOK, Revoked, IdleMeansAlone, SweptForGood, NoLostWakeup
<1> QED
  BY <1>4, <1>5, <1>8, <1>9, <1>11, <1>13, <1>14 DEF Inv

(* The innermost call ends: its counts go down, its thread works again for *)
(* whom it did before, and a sleeping Main is woken.                       *)
LEMMA EndInv ==
    ASSUME Inv, NEW k \in Calls, EndCall(k)
    PROVE  Inv'
<1> DEFINE t == ThreadOf[k]
<1>0. /\ t \in Threads /\ Main \in Threads /\ NoRecord \notin Records
      /\ ThreadOf \in [Calls -> Threads]
  BY HostApiAssumption
<1>a. PICK r \in Records : r = ticket[k]
  BY InnermostRuns DEF EndCall
<1>b. PICK n \in Nat \ {0} : n = Len(nest[t])
  BY InnermostRuns DEF EndCall
<1>1. /\ n \in Nat \ {0} /\ n = Len(nest[t]) /\ nest[t][n] = k
      /\ r \in Records /\ r = ticket[k]
  BY <1>a, <1>b, InnermostRuns DEF EndCall
<1>2. /\ in_flight' = [in_flight EXCEPT ![r] = @ - 1]
      /\ held' = [held EXCEPT ![t][r] = IF @ - 1 <= 0 THEN 0 ELSE @ - 1]
      /\ ticket' = [ticket EXCEPT ![k] = NoRecord]
      /\ nest' = [nest EXCEPT ![t] = SubSeq(@, 1, Len(@) - 1)]
      /\ current' = [current EXCEPT ![t] = previous[k]]
      /\ phase' = (IF phase = "asleep" THEN "awake" ELSE phase)
  BY <1>a DEF EndCall, WakeAll
<1>3. UNCHANGED <<owner, granted, live, by_id, previous, live_, issuedTo, todo, now, swept, found>>
  BY DEF EndCall, records, ledger
<1>4. TypeOK
  BY DEF Inv
<1>5. CountsExact' /\ in_flight' \in [Records -> Nat] /\ held' \in [Threads -> [Records -> Nat]]
  <2>1. ASSUME NEW q \in Records, q # r
        PROVE  in_flight'[q] = in_flight[q] /\ CallsWith(q)' = CallsWith(q)
    BY <1>0, <1>1, <1>2, <1>4, <2>1 DEF CallsWith, TypeOK
  <2>2. in_flight'[r] = Cardinality(CallsWith(r)')
    <3>1. k \notin CallsWith(r)' /\ CallsWith(r) = CallsWith(r)' \cup {k} /\ CallsWith(r)' \in SUBSET Calls
      BY <1>0, <1>1, <1>2, <1>4 DEF CallsWith, TypeOK
    <3>2. Cardinality(CallsWith(r)') \in Nat
          /\ Cardinality(CallsWith(r)' \cup {k}) = Cardinality(CallsWith(r)') + 1
      BY <3>1, CallSets
    <3>3. in_flight[r] = Cardinality(CallsWith(r)') + 1
      BY <1>1, <3>1, <3>2 DEF Inv, CountsExact
    <3>4. in_flight'[r] = in_flight[r] - 1
      BY <1>1, <1>2, <1>4 DEF TypeOK
    <3> QED
      BY <3>2, <3>3, <3>4
  <2>3. ASSUME NEW q \in Records, NEW u \in Threads, ~(q = r /\ u = t)
        PROVE  held'[u][q] = held[u][q] /\ CallsBy(u, q)' = CallsBy(u, q)
    BY <1>0, <1>1, <1>2, <1>4, <2>3 DEF CallsBy, TypeOK
  <2>4. held'[t][r] = Cardinality(CallsBy(t, r)')
    <3>1. k \notin CallsBy(t, r)' /\ CallsBy(t, r) = CallsBy(t, r)' \cup {k} /\ CallsBy(t, r)' \in SUBSET Calls
      BY <1>0, <1>1, <1>2, <1>4 DEF CallsBy, TypeOK
    <3>2. Cardinality(CallsBy(t, r)') \in Nat
          /\ Cardinality(CallsBy(t, r)' \cup {k}) = Cardinality(CallsBy(t, r)') + 1
      BY <3>1, CallSets
    <3>3. held[t][r] = Cardinality(CallsBy(t, r)') + 1
      BY <1>0, <1>1, <3>1, <3>2 DEF Inv, CountsExact
    <3>4. held'[t][r] = IF held[t][r] - 1 <= 0 THEN 0 ELSE held[t][r] - 1
      BY <1>0, <1>1, <1>2, <1>4 DEF TypeOK
    <3> QED
      BY <3>2, <3>3, <3>4
  <2>5. CountsExact'
    <3> SUFFICES ASSUME NEW q \in Records
                 PROVE  /\ in_flight'[q] = Cardinality(CallsWith(q)')
                        /\ \A u \in Threads : held'[u][q] = Cardinality(CallsBy(u, q)')
      BY DEF CountsExact
    <3>1. in_flight'[q] = Cardinality(CallsWith(q)')
      BY <2>1, <2>2 DEF Inv, CountsExact
    <3>2. ASSUME NEW u \in Threads PROVE held'[u][q] = Cardinality(CallsBy(u, q)')
      BY <2>3, <2>4 DEF Inv, CountsExact
    <3> QED
      BY <3>1, <3>2
  <2>6. \A q \in Records : CallsWith(q)' \in SUBSET Calls /\ \A u \in Threads : CallsBy(u, q)' \in SUBSET Calls
    BY DEF CallsWith, CallsBy
  <2>7. \A q \in Records : in_flight'[q] \in Nat /\ \A u \in Threads : held'[u][q] \in Nat
    BY <2>5, <2>6, CallSets DEF CountsExact
  <2>8. in_flight' \in [Records -> Nat]
    BY <1>2, <1>4, <2>7 DEF TypeOK
  <2>9. held' \in [Threads -> [Records -> Nat]]
    BY <1>0, <1>1, <1>2, <1>4 DEF TypeOK
  <2> QED
    BY <2>5, <2>8, <2>9
<1>6. /\ nest'[t] \in Seq(Calls)
      /\ Len(nest'[t]) = n - 1
      /\ \A i \in 1..(n - 1) : nest'[t][i] = nest[t][i] /\ nest[t][i] \in Calls
      /\ \A u \in Threads : u # t => nest'[u] = nest[u]
  <2>1. nest[t] \in Seq(Calls)
    BY <1>0, <1>4 DEF TypeOK
  <2>2. nest'[t] = SubSeq(nest[t], 1, n - 1) /\ \A u \in Threads : u # t => nest'[u] = nest[u]
    BY <1>0, <1>1, <1>2, <1>4 DEF TypeOK
  <2> QED
    BY <1>1, <2>1, <2>2
<1>7. TypeOK'
  <2>1. nest' \in [Threads -> Seq(Calls)]
    BY <1>2, <1>4, <1>6 DEF TypeOK
  <2>2. ticket' \in [Calls -> Records \cup {NoRecord}] /\ current' \in [Threads -> Modules \cup {NoOne}]
    BY <1>0, <1>2, <1>4 DEF TypeOK
  <2>3. phase' \in Phases
    BY <1>2, <1>4 DEF TypeOK, Phases
  <2> QED
    BY <1>3, <1>4, <1>5, <2>1, <2>2, <2>3 DEF TypeOK
<1>8. \A u \in Threads : \A i \in Pos(u)' :
        /\ i \in Pos(u) /\ (i # 1 => i - 1 \in Pos(u)')
        /\ nest'[u][i] = nest[u][i] /\ nest[u][i] \in Calls /\ nest[u][i] # k
  <2> SUFFICES ASSUME NEW u \in Threads, NEW i \in Pos(u)'
               PROVE  /\ i \in Pos(u) /\ (i # 1 => i - 1 \in Pos(u)')
                      /\ nest'[u][i] = nest[u][i] /\ nest[u][i] \in Calls /\ nest[u][i] # k
    OBVIOUS
  <2>1. CASE u = t
    <3>1. Pos(u)' = 1..(n - 1) /\ Pos(u) = 1..n
      BY <1>1, <1>6, <2>1 DEF Pos
    <3>2. i \in 1..n /\ n \in 1..n /\ i # n /\ (i # 1 => i - 1 \in 1..(n - 1))
      BY <1>1, <3>1
    <3>3. nest[t][i] # k
      BY <1>0, <1>1, <2>1, <3>1, <3>2 DEF Inv, NestOK
    <3> QED
      BY <1>6, <2>1, <3>1, <3>2, <3>3
  <2>2. CASE u # t
    <3>1. nest'[u] = nest[u] /\ nest[u] \in Seq(Calls)
      BY <1>4, <1>6, <2>2 DEF TypeOK
    <3>2. i \in Pos(u) /\ (i # 1 => i - 1 \in Pos(u)') /\ nest[u][i] \in Calls
      BY <3>1 DEF Pos
    <3>3. ThreadOf[nest[u][i]] = u
      BY <3>2 DEF Inv, NestOK
    <3> QED
      BY <2>2, <3>1, <3>2, <3>3
  <2> QED
    BY <2>1, <2>2
<1>9. \A c \in Calls : c # k => ticket'[c] = ticket[c]
  BY <1>2, <1>4 DEF TypeOK
<1>10. ticket'[k] = NoRecord
  BY <1>2, <1>4 DEF TypeOK
<1>11. NestOK'
  <2>1. ASSUME NEW u \in Threads, NEW i \in Pos(u)'
        PROVE  /\ ThreadOf[nest'[u][i]] = u
               /\ ticket'[nest'[u][i]] # NoRecord
               /\ \A j \in Pos(u)' : nest'[u][i] = nest'[u][j] => i = j
    BY <1>8, <1>9 DEF Inv, NestOK
  <2>2. ASSUME NEW c \in Calls, ticket'[c] # NoRecord
        PROVE  \E i \in Pos(ThreadOf[c])' : nest'[ThreadOf[c]][i] = c
    <3>1. c # k /\ ticket[c] # NoRecord
      BY <1>9, <1>10, <2>2
    <3>2. PICK i \in Pos(ThreadOf[c]) : nest[ThreadOf[c]][i] = c
      BY <3>1 DEF Inv, NestOK
    <3>3. CASE ThreadOf[c] = t
      <4>1. i \in 1..n /\ i # n
        BY <1>1, <3>1, <3>2, <3>3 DEF Pos
      <4>2. i \in 1..(n - 1) /\ Pos(t)' = 1..(n - 1)
        BY <1>1, <1>6, <4>1 DEF Pos
      <4> QED
        BY <1>6, <3>2, <3>3, <4>2
    <3>4. CASE ThreadOf[c] # t
      BY <1>0, <1>6, <3>2, <3>4 DEF Pos
    <3> QED
      BY <3>3, <3>4
  <2> QED
    BY <2>1, <2>2 DEF NestOK
<1>12. AttributionFollows'
  <2> SUFFICES ASSUME NEW u \in Threads
               PROVE  current'[u] = IF nest'[u] = <<>> THEN NoOne
                                    ELSE owner[ticket'[nest'[u][Len(nest'[u])]]]
    BY <1>3 DEF AttributionFollows
  <2>1. nest'[u] # <<>> => Len(nest'[u]) \in Pos(u)'
    BY <1>7 DEF TypeOK, Pos
  <2>2. CASE u # t
    <3>1. current'[u] = current[u] /\ nest'[u] = nest[u]
      BY <1>2, <1>4, <1>6, <2>2 DEF TypeOK
    <3> QED
      BY <1>8, <1>9, <2>1, <3>1 DEF Inv, Attributed, AttributionFollows
  <2>3. CASE u = t
    <3>1. current'[t] = previous[k]
      BY <1>0, <1>2, <1>4 DEF TypeOK
    <3>2. previous[k] = IF n = 1 THEN NoOne ELSE owner[ticket[nest[t][n - 1]]]
      <4>1. n \in Pos(t)
        BY <1>1 DEF Pos
      <4>2. previous[nest[t][n]] = IF n = 1 THEN NoOne ELSE owner[ticket[nest[t][n - 1]]]
        BY <1>0, <4>1 DEF Inv, Attributed
      <4> QED
        BY <1>1, <4>2
    <3>3. nest'[t] = <<>> <=> n = 1
      <4>1. nest'[t] \in Seq(Calls) /\ Len(nest'[t]) = n - 1 /\ n \in Int
        BY <1>1, <1>6
      <4> QED
        BY <4>1
    <3>4. n # 1 => n - 1 \in Pos(t)' /\ Len(nest'[t]) = n - 1
      <4>1. Len(nest'[t]) = n - 1 /\ n \in Int /\ n >= 1
        BY <1>1, <1>6
      <4> QED
        BY <4>1 DEF Pos
    <3>5. n # 1 => ticket'[nest'[t][n - 1]] = ticket[nest[t][n - 1]]
      BY <1>0, <1>8, <1>9, <3>4
    <3> QED
      BY <2>3, <3>1, <3>2, <3>3, <3>4, <3>5
  <2> QED
    BY <2>2, <2>3
<1>13. Attributed'
  <2> SUFFICES ASSUME NEW u \in Threads, NEW i \in Pos(u)'
               PROVE  previous[nest'[u][i]] =
                        IF i = 1 THEN NoOne ELSE owner[ticket'[nest'[u][i - 1]]]
    BY <1>3, <1>12 DEF Attributed
  <2>1. previous[nest[u][i]] = IF i = 1 THEN NoOne ELSE owner[ticket[nest[u][i - 1]]]
    BY <1>8 DEF Inv, Attributed
  <2>2. i # 1 => ticket'[nest'[u][i - 1]] = ticket[nest[u][i - 1]]
    BY <1>8, <1>9
  <2> QED
    BY <1>8, <2>1, <2>2
<1>14. Minted'
  BY <1>3, <1>9, <1>10 DEF Inv, Minted, LiveIsCurrent
<1>15. \A m : CallsOf(m)' \subseteq CallsOf(m)
  BY <1>3, <1>9, <1>10 DEF CallsOf
<1>16. ShutdownOK'
  <2>1. phase' \notin {"running", "over"} => nest'[Main] = <<>>
    <3>1. phase' \notin {"running", "over"} => nest[Main] = <<>> /\ t # Main
      BY <1>2 DEF EndCall, Free, Inv, ShutdownOK
    <3> QED
      BY <1>0, <1>6, <3>1
  <2>2. \A m \in swept : CallsOf(m)' = {}
    BY <1>15 DEF Inv, ShutdownOK
  <2> QED
    BY <1>2, <1>3, <2>1, <2>2 DEF Inv, ShutdownOK, Revoked
<1>17. IdleMeansAlone' /\ NoLostWakeup'
  BY <1>2, <1>3, <1>15 DEF Inv, IdleMeansAlone, NoLostWakeup
<1>18. SweptForGood'
  BY <1>3 DEF Inv, SweptForGood
<1> QED
  BY <1>5, <1>7, <1>11, <1>13, <1>14, <1>16, <1>17, <1>18 DEF Inv

-----------------------------------------------------------------------------
(* What a step of Main that touches neither calls nor the ledger has to    *)
(* show for itself.                                                        *)
LEMMA MainInv ==
    ASSUME Inv,
           UNCHANGED <<owner, granted, by_id, counts, ticket, nest, attribution, ledger, swept>>,
           live' \subseteq live,
           phase' \in Phases, todo' \in SUBSET Modules, found' \in SUBSET Modules, now' \in Modules \cup {NoOne},
           ShutdownOK', IdleMeansAlone', NoLostWakeup'
    PROVE  Inv'
<1>1. CountsExact' /\ NestOK' /\ Attributed' /\ \A m : CallsOf(m)' = CallsOf(m)
  BY CallsFrame
<1>2. TypeOK'
  BY DEF Inv, TypeOK, counts, attribution, ledger
<1>3. Minted'
  BY DEF Inv, Minted, LiveIsCurrent
<1>4. SweptForGood'
  BY DEF Inv, SweptForGood, ledger
<1> QED
  BY <1>1, <1>2, <1>3, <1>4 DEF Inv

(* The sweep of one module begins: its grant goes, then Main looks whether *)
(* calls remain.                                                           *)
LEMMA RevokesInv ==
    ASSUME Inv, NEW m \in Modules, SweepRevokes(m)
    PROVE  Inv'
<1>1. \A n : CallsOf(n)' = CallsOf(n)
  BY CallsFrame DEF SweepRevokes
<1>2. nest[Main] = <<>> /\ nest'[Main] = <<>>
  BY DEF Inv, ShutdownOK, SweepRevokes
<1>3. Busy(m) <=> CallsOf(m) # {}
  BY <1>2, BusyMeansCalls DEF Inv
<1>4. \A r \in live' : owner'[r] # m
  BY DEF SweepRevokes, Inv, Minted, LiveIsCurrent
<1>5. phase' = (IF Busy(m) THEN "asleep" ELSE "idle") /\ now' = m /\ swept' = swept
  BY DEF SweepRevokes
<1>6. ShutdownOK'
  BY <1>1, <1>2, <1>4, <1>5 DEF Inv, ShutdownOK, Revoked, SweepRevokes
<1>7. IdleMeansAlone' /\ NoLostWakeup'
  BY <1>1, <1>3, <1>5 DEF IdleMeansAlone, NoLostWakeup
<1>8. /\ phase' \in Phases /\ todo' \in SUBSET Modules /\ found' \in SUBSET Modules
      /\ live' \subseteq live
  BY DEF SweepRevokes, Phases, Inv, TypeOK
<1> QED
  BY <1>5, <1>6, <1>7, <1>8, MainInv DEF SweepRevokes

(* Main looks again after a wait; the grant is still revoked.              *)
LEMMA ResumesInv ==
    ASSUME Inv, WaitResumes
    PROVE  Inv'
<1>1. \A n : CallsOf(n)' = CallsOf(n)
  BY CallsFrame DEF WaitResumes, records
<1>2. /\ nest[Main] = <<>> /\ now \in Modules /\ now \in found /\ Revoked(now)
      /\ phase # "running"
  BY DEF Inv, ShutdownOK, WaitResumes
<1>3. Busy(now) <=> CallsOf(now) # {}
  BY <1>2, BusyMeansCalls DEF Inv
<1>4. /\ phase' = IF Busy(now) THEN "asleep" ELSE "idle"
      /\ UNCHANGED <<owner, granted, live, by_id, nest, todo, now, swept, found>>
  BY DEF WaitResumes, records
<1>5. ShutdownOK'
  BY <1>1, <1>2, <1>4 DEF Inv, ShutdownOK, Revoked
<1>6. IdleMeansAlone' /\ NoLostWakeup'
  BY <1>1, <1>3, <1>4 DEF IdleMeansAlone, NoLostWakeup
<1>7. /\ phase' \in Phases /\ todo' \in SUBSET Modules /\ found' \in SUBSET Modules
      /\ now' \in Modules \cup {NoOne}
  BY <1>4 DEF Phases, Inv, TypeOK
<1> QED
  BY <1>4, <1>5, <1>6, <1>7, MainInv DEF WaitResumes

(* Main enters step 4, gives a wait up, goes on to the next module, ends.  *)
LEMMA MovesInv ==
    ASSUME Inv,
           \/ \E ids \in SUBSET Modules : ShutdownReaches(ids)
           \/ WaitExpires \/ SweepSkips \/ ShutdownEnds
    PROVE  Inv'
<1>1. UNCHANGED <<owner, granted, live, by_id, counts, ticket, nest, attribution, ledger, swept>>
  BY DEF ShutdownReaches, WaitExpires, SweepSkips, ShutdownEnds, records
<1>2. \A n : CallsOf(n)' = CallsOf(n)
  BY <1>1, CallsFrame
<1>3. ShutdownOK'
  BY <1>1, <1>2 DEF Inv, ShutdownOK, Revoked, ShutdownReaches, WaitExpires, SweepSkips, ShutdownEnds
<1>4. IdleMeansAlone' /\ NoLostWakeup'
  BY DEF IdleMeansAlone, NoLostWakeup, ShutdownReaches, WaitExpires, SweepSkips, ShutdownEnds
<1>5. /\ phase' \in Phases /\ todo' \in SUBSET Modules /\ found' \in SUBSET Modules
      /\ now' \in Modules \cup {NoOne}
  BY DEF Phases, Inv, TypeOK, ShutdownReaches, WaitExpires, SweepSkips, ShutdownEnds
<1> QED
  BY <1>1, <1>3, <1>4, <1>5, MainInv

(* The sweep takes everything of a module that is revoked and idle.        *)
LEMMA SweepInv ==
    ASSUME Inv, Sweep
    PROVE  Inv'
<1>1. CountsExact' /\ NestOK' /\ Attributed' /\ \A m : CallsOf(m)' = CallsOf(m)
  BY CallsFrame DEF Sweep, records
<1>2. /\ phase = "idle" /\ phase' = "next" /\ now' = NoOne /\ swept' = swept \cup {now}
      /\ UNCHANGED <<owner, granted, live, by_id, nest, issuedTo, todo, found>>
      /\ live_' = {h \in live_ : issuedTo[h] # now}
  BY DEF Sweep, records
<1>3. now \in Modules /\ Revoked(now) /\ CallsOf(now) = {} /\ nest[Main] = <<>>
  BY <1>2 DEF Inv, ShutdownOK, IdleMeansAlone
<1>4. TypeOK'
  BY <1>2, <1>3 DEF Inv, TypeOK, Phases, Sweep, counts, attribution
<1>5. Minted'
  BY <1>2 DEF Inv, Minted, LiveIsCurrent, Sweep
<1>6. ShutdownOK'
  BY <1>1, <1>2, <1>3 DEF Inv, ShutdownOK, Revoked
<1>7. IdleMeansAlone' /\ SweptForGood' /\ NoLostWakeup'
  BY <1>2 DEF Inv, IdleMeansAlone, SweptForGood, NoLostWakeup
<1> QED
  BY <1>1, <1>4, <1>5, <1>6, <1>7 DEF Inv

-----------------------------------------------------------------------------
(* Every step, and every stutter, keeps the invariant.                     *)
LEMMA NextInv == Inv /\ [Next]_vars => Inv'
<1> SUFFICES ASSUME Inv, [Next]_vars PROVE Inv'
  OBVIOUS
<1>1. CASE \E m \in Modules, g \in Grants, r \in Records : MintHostApi(m, g, r)
  BY <1>1, MintInv
<1>2. CASE \E m \in Modules : ReleaseHostApi(m)
  BY <1>2, ReleaseInv
<1>3. CASE \/ \E m \in Modules, h \in Handles : NewBufferFor(m, h)
           \/ \E k \in Calls, h \in Handles : NewHandle(k, h) \/ TakeHandle(k, h)
  BY <1>3, HandlesInv
<1>4. CASE \E k \in Calls, r \in Records : BeginCall(k, r)
  BY <1>4, BeginInv
<1>5. CASE \E k \in Calls : EndCall(k)
  BY <1>5, EndInv
<1>6. CASE \E m \in Modules : SweepRevokes(m)
  BY <1>6, RevokesInv
<1>7. CASE WaitResumes
  BY <1>7, ResumesInv
<1>8. CASE Sweep
  BY <1>8, SweepInv
<1>9. CASE \/ \E ids \in SUBSET Modules : ShutdownReaches(ids)
           \/ WaitExpires \/ SweepSkips \/ ShutdownEnds
  BY <1>9, MovesInv
<1>10. CASE UNCHANGED vars
  <2>1. UNCHANGED <<records, counts, ticket, nest, attribution, ledger, shutdown>>
    BY <1>10 DEF vars
  <2>2. live_' \in SUBSET Handles /\ issuedTo' \in [Handles -> Modules \cup {NoOne}]
        /\ \A h \in live_' : issuedTo'[h] \notin swept
    BY <2>1 DEF Inv, TypeOK, SweptForGood, ledger
  <2> QED
    BY <2>1, <2>2, LedgerInv
<1> QED
  BY <1>1, <1>2, <1>3, <1>4, <1>5, <1>6, <1>7, <1>8, <1>9, <1>10 DEF Next, CallStep, MainStep

(* The strengthening holds of every behaviour.                             *)
LEMMA HostApiInv == Spec => []Inv
  BY InitInv, NextInv, PTL DEF Spec

(* The registry, the calls, the ledger and the shutdown keep their types.  *)
THEOREM HostApiTypes == Spec => []TypeOK
<1>1. Inv => TypeOK
  BY DEF Inv
<1> QED
  BY <1>1, HostApiInv, PTL

(* BeginCall() and EndCall() keep both counters exact.                     *)
THEOREM HostApiCounts == Spec => []CountsExact
<1>1. Inv => CountsExact
  BY DEF Inv
<1> QED
  BY <1>1, HostApiInv, PTL

(* No context but the last one minted for a module is ever accepted.       *)
THEOREM HostApiLive == Spec => []LiveIsCurrent
<1>1. Inv => LiveIsCurrent
  BY DEF Inv, Minted
<1> QED
  BY <1>1, HostApiInv, PTL

(* A thread works for the module its innermost call was made by.           *)
THEOREM HostApiAttribution == Spec => []AttributionFollows
<1>1. Inv => AttributionFollows
  BY DEF Inv, Attributed
<1> QED
  BY <1>1, HostApiInv, PTL

(* WaitHostApiIdle() returns true only when no call of the module runs,    *)
(* and none begins before its handles are reclaimed.                       *)
THEOREM HostApiIdle == Spec => []IdleMeansAlone
<1>1. Inv => IdleMeansAlone
  BY DEF Inv
<1> QED
  BY <1>1, HostApiInv, PTL

(* What GFSdkSweepModuleHandles() took from a module stays taken.          *)
THEOREM HostApiSwept == Spec => []SweptForGood
<1>1. Inv => SweptForGood
  BY DEF Inv
<1> QED
  BY <1>1, HostApiInv, PTL

(* WaitHostApiIdle() never sleeps through the last EndCall().              *)
THEOREM HostApiWakeups == Spec => []NoLostWakeup
<1>1. Inv => NoLostWakeup
  BY DEF Inv
<1> QED
  BY <1>1, HostApiInv, PTL

-----------------------------------------------------------------------------
(* Every handle in the ledger belongs to some module.                      *)
Issued == \A h \in live_ : issuedTo[h] \in Modules

(* Both ways of making a handle have a module to make it for.              *)
LEMMA IssuedStep == Inv /\ Issued /\ [Next]_vars => Issued'
<1> SUFFICES ASSUME Inv, Issued, [Next]_vars PROVE Issued'
  OBVIOUS
<1>1. ASSUME NEW m \in Modules, NEW h \in Handles, Issue(h, m) PROVE Issued'
  BY <1>1 DEF Issue, Issued, Inv, TypeOK
<1>2. CASE \E k \in Calls, h \in Handles : NewHandle(k, h)
  BY <1>1, <1>2, InnermostRuns DEF NewHandle
<1>3. CASE \E m \in Modules, h \in Handles : NewBufferFor(m, h)
  BY <1>1, <1>3 DEF NewBufferFor
<1>4. CASE live_' \subseteq live_ /\ issuedTo' = issuedTo
  BY <1>4 DEF Issued
<1>5. CASE UNCHANGED vars
  BY <1>4, <1>5 DEF vars, ledger
<1>6. CASE \E k \in Calls, h \in Handles : TakeHandle(k, h)
  BY <1>4, <1>6 DEF TakeHandle
<1>7. CASE Sweep
  BY <1>4, <1>7 DEF Sweep
<1>8. CASE \/ \E m \in Modules, g \in Grants, r \in Records : MintHostApi(m, g, r)
           \/ \E m \in Modules : ReleaseHostApi(m) \/ SweepRevokes(m)
           \/ \E k \in Calls, r \in Records : BeginCall(k, r)
           \/ \E k \in Calls : EndCall(k)
           \/ \E ids \in SUBSET Modules : ShutdownReaches(ids)
           \/ WaitResumes \/ WaitExpires \/ SweepSkips \/ ShutdownEnds
  BY <1>4, <1>8 DEF MintHostApi, ReleaseHostApi, SweepRevokes, BeginCall, EndCall,
     ShutdownReaches, WaitResumes, WaitExpires, SweepSkips, ShutdownEnds, ledger
<1> QED
  BY <1>2, <1>3, <1>5, <1>6, <1>7, <1>8 DEF Next, CallStep, MainStep

(* What leaves the ledger leaves it in a step of its owner.                *)
LEMMA OwnersStep ==
    ASSUME Inv, Issued, [Next]_vars, NEW h \in live_ \ live_'
    PROVE  (phase = "idle" /\ issuedTo[h] = now) \/ \E k \in CallsOf(issuedTo[h]) : Innermost(k)
<1>1. CASE \E k \in Calls, x \in Handles : TakeHandle(k, x)
  <2>1. PICK k \in Calls, x \in Handles : TakeHandle(k, x)
    BY <1>1
  <2>2. h = x /\ Innermost(k) /\ Mine(h, current[ThreadOf[k]])
    BY <2>1 DEF TakeHandle
  <2>3. current[ThreadOf[k]] \in Modules /\ k \in CallsOf(current[ThreadOf[k]])
    BY <2>2, InnermostRuns
  <2>4. issuedTo[h] = current[ThreadOf[k]]
    BY <2>2, <2>3, HostApiAssumption DEF Mine, Issued
  <2> QED
    BY <2>2, <2>3, <2>4
<1>2. CASE Sweep
  BY <1>2 DEF Sweep
<1>3. CASE \/ UNCHANGED vars
           \/ \E m \in Modules, g \in Grants, r \in Records : MintHostApi(m, g, r)
           \/ \E m \in Modules : ReleaseHostApi(m) \/ SweepRevokes(m)
           \/ \E m \in Modules, x \in Handles : NewBufferFor(m, x)
           \/ \E k \in Calls, x \in Handles : NewHandle(k, x)
           \/ \E k \in Calls, r \in Records : BeginCall(k, r)
           \/ \E k \in Calls : EndCall(k)
           \/ \E ids \in SUBSET Modules : ShutdownReaches(ids)
           \/ WaitResumes \/ WaitExpires \/ SweepSkips \/ ShutdownEnds
  <2>1. live_ \subseteq live_'
    BY <1>3 DEF vars, MintHostApi, ReleaseHostApi, SweepRevokes, NewBufferFor, NewHandle, Issue,
       BeginCall, EndCall, ShutdownReaches, WaitResumes, WaitExpires, SweepSkips, ShutdownEnds, ledger
  <2> QED
    BY <2>1
<1> QED
  BY <1>1, <1>2, <1>3 DEF Next, CallStep, MainStep

(* GFHandleRegistry::Check() lets no module release another's handle.      *)
THEOREM HostApiOwners == Spec => OnlyOwnersRelease
<1>1. Init => Issued
  BY DEF Init, Issued
<1>2. Inv /\ Issued /\ [Next]_vars =>
        [\A h \in live_ \ live_' :
          (phase = "idle" /\ issuedTo[h] = now) \/ \E k \in CallsOf(issuedTo[h]) : Innermost(k)]_vars
  BY OwnersStep
<1> QED
  BY <1>1, <1>2, IssuedStep, HostApiInv, PTL DEF Spec, OnlyOwnersRelease
=============================================================================
