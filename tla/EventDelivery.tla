--------------------------- MODULE EventDelivery ---------------------------
(***************************************************************************)
(* What event delivery promises the thread that triggers an event, without *)
(* queues, gates or lifecycles: a trigger goes to a set of listeners at    *)
(* once; each of them answers exactly once, with its own answer or with a  *)
(* failure the host gives in its place; when there is no listener, the     *)
(* caller hears exactly that.                                              *)
(***************************************************************************)
EXTENDS Naturals

CONSTANTS Modules, Triggers,
          NoModule    \* the empty listener id of "no active module"

VARIABLES fired,      \* triggers that have been delivered
          owed,       \* listeners that have yet to answer a trigger
          replies     \* callbacks executed, per trigger and listener

vars == <<fired, owed, replies>>

Init ==
    /\ fired = {}
    /\ owed = [tr \in Triggers |-> {}]
    /\ replies = [tr \in Triggers |-> [m \in Modules \cup {NoModule} |-> 0]]

Fire(tr) ==
    /\ tr \notin fired
    /\ fired' = fired \cup {tr}
    /\ \E targets \in SUBSET Modules :
         /\ owed' = [owed EXCEPT ![tr] = targets]
         /\ replies' = IF targets = {} THEN [replies EXCEPT ![tr][NoModule] = @ + 1]
                                       ELSE replies

Answer(tr, m) ==
    /\ m \in owed[tr]
    /\ owed' = [owed EXCEPT ![tr] = @ \ {m}]
    /\ replies' = [replies EXCEPT ![tr][m] = @ + 1]
    /\ UNCHANGED fired

Next == \E tr \in Triggers : Fire(tr) \/ \E m \in Modules : Answer(tr, m)

Spec == Init /\ [][Next]_vars

=============================================================================
