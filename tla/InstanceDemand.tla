----------------------------- MODULE InstanceDemand -----------------------------
(***************************************************************************)
(* discoverInstanceTypes: how many replicas of each instance type an       *)
(* AppWrapper asks for (src/controllers/appwrapper_controller.go:295-319). *)
(* Its orderedinstance label names instance types, its generic items have  *)
(* pod resources, each with replicas; the code takes the two together in   *)
(* one pass of two nested loops, which are the two actions here. What it   *)
(* returns is the demand the scaling calls of the other modules are given. *)
(*                                                                         *)
(* id and idx count from 0 as in the code, and sequences from 1.           *)
(***************************************************************************)
EXTENDS Naturals, Sequences, SequencesExt

CONSTANTS
    InstanceTypes,  \* names between underscores, the empty one included
    MaxReplicas,    \* bound: replicas of a pod resource
    MaxNames,       \* bound: names in the label
    MaxItems,       \* bound: generic items
    MaxPods         \* bound: pod resources of an item

ASSUME DemandBounds == {MaxReplicas, MaxNames, MaxItems, MaxPods} \subseteq Nat

VARIABLES
    label,      \* the orderedinstance label
    items,      \* the replicas of each pod resource of each generic item
    id, idx,    \* the loops' indices
    demand      \* demandMapPerInstanceType

inputs == <<label, items>>
vars   == <<inputs, id, idx, demand>>

Labels == [exists : BOOLEAN, names : BoundedSeq(InstanceTypes, MaxNames) \ {<<>>}]

Items == BoundedSeq(BoundedSeq(0..MaxReplicas, MaxPods), MaxItems)

(* A label that is there has at least one name, if only the empty one.     *)
getInstanceRequired(l) == IF l.exists THEN l.names ELSE <<>>

instanceRequired == getInstanceRequired(label)

(* Wrong on purpose: the items before this one are not counted.            *)
IndexInItem(i, j) == j

combinedIndex(i, j) == j + i

Returned == instanceRequired = <<>> \/ id = Len(items)

-----------------------------------------------------------------------------
(* A Go map in which n now has the count c.                                *)
Put(map, n, c) == [m \in DOMAIN map \cup {n} |-> IF m = n THEN c ELSE map[m]]

(* Wrong on purpose: the first count that is found stays.                  *)
VisitKeepingFirst ==
    LET k == combinedIndex(id, idx) IN
    /\ ~Returned /\ idx < Len(items[id + 1])
    /\ demand' = IF k < Len(instanceRequired) /\ instanceRequired[k + 1] \notin DOMAIN demand
                 THEN Put(demand, instanceRequired[k + 1], items[id + 1][idx + 1])
                 ELSE demand
    /\ idx' = idx + 1
    /\ UNCHANGED <<inputs, id>>

(* The inner loop: a count already there for the type is overwritten.      *)
VisitPodResource ==
    LET k == combinedIndex(id, idx) IN
    /\ ~Returned /\ idx < Len(items[id + 1])
    /\ demand' = IF k < Len(instanceRequired)
                 THEN Put(demand, instanceRequired[k + 1], items[id + 1][idx + 1])
                 ELSE demand
    /\ idx' = idx + 1
    /\ UNCHANGED <<inputs, id>>

(* The outer loop.                                                         *)
NextItem ==
    /\ ~Returned /\ idx = Len(items[id + 1])
    /\ id' = id + 1
    /\ idx' = 0
    /\ UNCHANGED <<inputs, demand>>

Init ==
    /\ label \in Labels
    /\ items \in Items
    /\ id = 0 /\ idx = 0
    /\ demand = <<>>

Next == VisitPodResource \/ NextItem

Spec == Init /\ [][Next]_vars

-----------------------------------------------------------------------------
(* The pod resources, by their indices.                                    *)
PodResources ==
    {p \in (0..MaxItems) \X (0..MaxPods) :
        p[1] < Len(items) /\ p[2] < Len(items[p[1] + 1])}

Replicas(p) == items[p[1] + 1][p[2] + 1]

Before(p, q) == p[1] < q[1] \/ (p[1] = q[1] /\ p[2] < q[2])

(* Those visited so far that are taken for instance type n: a diagonal.    *)
TakenFor(n) ==
    {p \in PodResources :
        /\ Before(p, <<id, idx>>)
        /\ p[1] + p[2] < Len(instanceRequired)
        /\ instanceRequired[p[1] + p[2] + 1] = n}

(* What the loops compute for every input: the count of a type is that of  *)
(* the last pod resource whose two indices add up to a position of the     *)
(* type's name in the label, and a type without one is not asked for.      *)
LastTakenWins ==
    /\ DOMAIN demand = {n \in InstanceTypes : TakenFor(n) # {}}
    /\ \A n \in DOMAIN demand :
          \E p \in TakenFor(n) :
              /\ demand[n] = Replicas(p)
              /\ \A q \in TakenFor(n) \ {p} : Before(q, p)

(* The pod resources in order, whatever item they are in.                  *)
InOrder == FlattenSeq(items)

(* The order of the names is that of the pod resources.                    *)
Matched(k) == k \in 1..Len(InOrder) /\ k \in 1..Len(instanceRequired)

(* What the label is for (orderedinstance): the k-th name is the type of   *)
(* the k-th pod resource. The loops get it right when no name comes twice  *)
(* and every item but the last has exactly one pod resource; with several  *)
(* in an earlier item, a name serves two pod resources or none.            *)
NamedInOrder ==
    (/\ Returned
     /\ IsInjective(instanceRequired)
     /\ \A i \in 1..(Len(items) - 1) : Len(items[i]) = 1)
        => demand = [n \in {instanceRequired[k] : k \in {h \in DOMAIN InOrder : Matched(h)}} |->
                        InOrder[CHOOSE k \in DOMAIN InOrder :
                                    Matched(k) /\ instanceRequired[k] = n]]
=============================================================================
