------------------------------- MODULE Forest -------------------------------
(***************************************************************************)
(* What the storages of a place promise to be: a forest of bounded depth   *)
(* that grows by planting a storage, is rearranged by grafting a storage   *)
(* with everything in it somewhere else, and loses whole subtrees.  There  *)
(* is no path and no level here: ancestry is what following parents gives. *)
(***************************************************************************)
EXTENDS Naturals, FiniteSets

CONSTANTS StorageIds, NoStorage, MAX_DEPTH

VARIABLES
  parent,    \* the parent of each storage, or NoStorage
  planted,   \* the storages that were ever created
  alive      \* those not deleted

vars == <<parent, planted, alive>>

\* The storages met when following parents from s: the least set that holds
\* the parent of s and the parent of each of its members.
HoldsParents(s, set) ==
  \A t \in set \cup {s} : parent[t] # NoStorage => parent[t] \in set

Ancestors(s) ==
  {t \in StorageIds : \A set \in SUBSET StorageIds : HoldsParents(s, set) => t \in set}

Subtree(s) == {t \in alive : t = s \/ s \in Ancestors(t)}

Depth(s) == Cardinality(Ancestors(s))

\* The level s would have under p.
LevelUnder(p) == IF p = NoStorage THEN 0 ELSE Depth(p) + 1

Init ==
  /\ parent = [s \in StorageIds |-> NoStorage]
  /\ planted = {}
  /\ alive = {}

Plant(s, p) ==
  /\ s \notin planted
  /\ p \in alive \cup {NoStorage}
  /\ LevelUnder(p) <= MAX_DEPTH
  /\ parent' = [parent EXCEPT ![s] = p]
  /\ planted' = planted \cup {s}
  /\ alive' = alive \cup {s}

Graft(s, p) ==
  /\ s \in alive
  /\ p \in (alive \ Subtree(s)) \cup {NoStorage}
  /\ \A t \in Subtree(s) : LevelUnder(p) + Depth(t) - Depth(s) <= MAX_DEPTH
  /\ parent' = [parent EXCEPT ![s] = p]
  /\ UNCHANGED <<planted, alive>>

Fell(s) ==
  /\ s \in alive
  /\ alive' = alive \ Subtree(s)
  /\ UNCHANGED <<parent, planted>>

Next ==
  \E s \in StorageIds :
    \/ \E p \in StorageIds \cup {NoStorage} : Plant(s, p) \/ Graft(s, p)
    \/ Fell(s)

Spec == Init /\ [][Next]_vars

=============================================================================
