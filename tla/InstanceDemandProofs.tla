------------------------- MODULE InstanceDemandProofs -------------------------
(***************************************************************************)
(* For every set of instance types and every bound: what the two loops of  *)
(* discoverInstanceTypes have computed is, at each step, LastTakenWins,    *)
(* and in the end, where pod resources and names pair up, what the label   *)
(* says (NamedInOrder).                                                    *)
(***************************************************************************)
EXTENDS InstanceDemand, FiniteSums, SequenceTheorems

(* The input as the loops index it.                                        *)
InputsOK ==
    /\ instanceRequired \in Seq(InstanceTypes)
    /\ items \in Seq(Seq(Nat))
    /\ Len(items) <= MaxItems
    /\ \A i \in 1..Len(items) : Len(items[i]) <= MaxPods

(* The loops' indices stay in the input; after the last item, there is no  *)
(* pod resource to come.                                                   *)
IndicesOK ==
    /\ id \in 0..Len(items) /\ idx \in Nat
    /\ id < Len(items) => idx <= Len(items[id + 1])
    /\ id = Len(items) => idx = 0

LoopInv == InputsOK /\ IndicesOK /\ LastTakenWins

(* A function on 1..m is a sequence of length m.                           *)
LEMMA FunctionIsSeq ==
  ASSUME NEW S, NEW m \in Nat, NEW s \in [1..m -> S]
  PROVE  s \in Seq(S) /\ Len(s) = m
  OBVIOUS

(* A sequence of bounded length is a sequence.                             *)
LEMMA BoundedSeqIsSeq ==
  ASSUME NEW S, NEW n \in Nat, NEW s \in BoundedSeq(S, n)
  PROVE  s \in Seq(S) /\ Len(s) <= n
<1>1. PICK m \in 0..n : s \in [1..m -> S]
  BY DEF BoundedSeq, SeqOf
<1>2. s \in Seq(S) /\ Len(s) = m
  BY <1>1, FunctionIsSeq
<1>3. QED
  BY <1>2

(* The inputs the program may get are in range.                            *)
LEMMA InitInputs == Init => InputsOK
<1> SUFFICES ASSUME Init PROVE InputsOK
  OBVIOUS
<1>0. MaxReplicas \in Nat /\ MaxNames \in Nat /\ MaxItems \in Nat /\ MaxPods \in Nat
  BY DemandBounds
<1>1. instanceRequired \in Seq(InstanceTypes)
  <2>1. label.exists \in BOOLEAN /\ label.names \in BoundedSeq(InstanceTypes, MaxNames)
    BY DEF Init, Labels
  <2>2. label.names \in Seq(InstanceTypes)
    BY <1>0, <2>1, BoundedSeqIsSeq
  <2>3. QED
    BY <2>2 DEF instanceRequired, getInstanceRequired
<1>2. items \in Seq(BoundedSeq(0..MaxReplicas, MaxPods)) /\ Len(items) <= MaxItems
  <2>1. items \in BoundedSeq(BoundedSeq(0..MaxReplicas, MaxPods), MaxItems)
    BY DEF Init, Items
  <2>2. QED
    BY <1>0, <2>1, BoundedSeqIsSeq
<1>3. \A s \in BoundedSeq(0..MaxReplicas, MaxPods) : s \in Seq(Nat) /\ Len(s) <= MaxPods
  <2>1. TAKE s \in BoundedSeq(0..MaxReplicas, MaxPods)
  <2>2. s \in Seq(0..MaxReplicas) /\ Len(s) <= MaxPods
    BY <1>0, BoundedSeqIsSeq
  <2>3. QED
    BY <1>0, <2>2
<1>4. QED
  BY <1>1, <1>2, <1>3 DEF InputsOK

(* Nothing is visited before the first pod resource.                       *)
LEMMA InitLoopInv == Init => LoopInv
<1> SUFFICES ASSUME Init PROVE LoopInv
  OBVIOUS
<1>1. InputsOK
  BY InitInputs
<1>2. IndicesOK
  BY <1>1 DEF Init, InputsOK, IndicesOK
<1>3. \A n \in InstanceTypes : TakenFor(n) = {}
  BY DEF Init, TakenFor, PodResources, Before
<1>4. LastTakenWins
  BY <1>3 DEF Init, LastTakenWins
<1>5. QED
  BY <1>1, <1>2, <1>4 DEF LoopInv

-----------------------------------------------------------------------------
(* The item the loops are at.                                              *)
LEMMA CurrentItem ==
  ASSUME InputsOK, IndicesOK, ~Returned
  PROVE  /\ id \in 0..MaxItems /\ idx \in 0..MaxPods
         /\ id < Len(items) /\ Len(items[id + 1]) \in 0..MaxPods
         /\ idx <= Len(items[id + 1])
<1>0. MaxItems \in Nat /\ MaxPods \in Nat
  BY DemandBounds
<1>1. id \in Nat /\ Len(items) \in Nat /\ id < Len(items)
  BY DEF InputsOK, IndicesOK, Returned
<1>2. id + 1 \in 1..Len(items)
  BY <1>1
<1>3. items[id + 1] \in Seq(Nat) /\ Len(items[id + 1]) <= MaxPods
  BY <1>2 DEF InputsOK
<1>4. Len(items[id + 1]) \in Nat
  BY <1>3
<1>5. Len(items) <= MaxItems /\ idx \in Nat /\ idx <= Len(items[id + 1])
  BY <1>1 DEF InputsOK, IndicesOK
<1>6. QED
  BY <1>0, <1>1, <1>3, <1>4, <1>5

(* The pod resources before the indices are those before the next ones,    *)
(* and the one they point at.                                              *)
LEMMA NextPodResource ==
  ASSUME InputsOK, IndicesOK, VisitPodResource, NEW n \in InstanceTypes
  PROVE  /\ <<id, idx>> \in PodResources
         /\ \A p \in TakenFor(n) : Before(p, <<id, idx>>)
         /\ <<id, idx>> \notin TakenFor(n)
         /\ TakenFor(n)' =
              IF /\ id + idx < Len(instanceRequired)
                 /\ instanceRequired[id + idx + 1] = n
              THEN TakenFor(n) \cup {<<id, idx>>}
              ELSE TakenFor(n)
<1>1. <<id, idx>> \in PodResources
  BY CurrentItem DEF VisitPodResource, PodResources
<1>2. \A p \in TakenFor(n) : Before(p, <<id, idx>>)
  BY DEF TakenFor
<1>3. <<id, idx>> \notin TakenFor(n)
  BY DEF TakenFor, Before, IndicesOK
<1>4. \A p \in PodResources :
         Before(p, <<id', idx'>>) <=> Before(p, <<id, idx>>) \/ p = <<id, idx>>
  <2>1. id' = id /\ idx' = idx + 1 /\ id \in Nat /\ idx \in Nat
    BY CurrentItem DEF VisitPodResource
  <2>2. \A p \in PodResources :
           p[1] \in Nat /\ p[2] \in Nat /\ p = <<p[1], p[2]>>
    BY DEF PodResources
  <2>3. QED
    BY <2>1, <2>2 DEF Before
<1>5. PodResources' = PodResources /\ instanceRequired' = instanceRequired
  BY DEF VisitPodResource, inputs, PodResources, instanceRequired, getInstanceRequired
<1>6. QED
  BY <1>1, <1>2, <1>3, <1>4, <1>5 DEF TakenFor

(* At the end of an item nothing lies between its last pod resource and    *)
(* the first one of the next item.                                         *)
LEMMA NextItemTakesNone ==
  ASSUME InputsOK, IndicesOK, NextItem, NEW n \in InstanceTypes
  PROVE  TakenFor(n)' = TakenFor(n)
<1>1. \A p \in PodResources : Before(p, <<id', idx'>>) <=> Before(p, <<id, idx>>)
  <2>1. /\ id' = id + 1 /\ idx' = 0 /\ idx = Len(items[id + 1])
        /\ id \in Nat /\ idx \in Nat
    BY CurrentItem DEF NextItem
  <2>2. \A p \in PodResources :
           /\ p[1] \in Nat /\ p[2] \in Nat
           /\ p[1] = id => p[2] < Len(items[id + 1])
    BY DEF PodResources
  <2>3. QED
    BY <2>1, <2>2 DEF Before
<1>2. PodResources' = PodResources /\ instanceRequired' = instanceRequired
  BY DEF NextItem, inputs, PodResources, instanceRequired, getInstanceRequired
<1>3. QED
  BY <1>1, <1>2 DEF TakenFor

(* The loops' indices stay where they belong.                              *)
LEMMA StepIndices ==
  ASSUME InputsOK, IndicesOK, [Next]_vars
  PROVE  InputsOK' /\ IndicesOK'
<1>1. UNCHANGED inputs
  BY DEF Next, VisitPodResource, NextItem, vars
<1>2. InputsOK'
  BY <1>1 DEF InputsOK, inputs, instanceRequired, getInstanceRequired
<1>3. IndicesOK'
  <2>1. CASE VisitPodResource
    BY <2>1 DEF InputsOK, IndicesOK, VisitPodResource, Returned, inputs
  <2>2. CASE NextItem
    BY <2>2 DEF InputsOK, IndicesOK, NextItem, Returned, inputs
  <2>3. CASE UNCHANGED vars
    BY <2>3 DEF IndicesOK, vars, inputs
  <2>4. QED
    BY <2>1, <2>2, <2>3 DEF Next
<1>4. QED
  BY <1>2, <1>3

(* The inner loop: the pod resource it looks at is the last one so far of  *)
(* the type it is taken for, and of no other.                              *)
LEMMA VisitKeepsLast ==
  ASSUME LoopInv, VisitPodResource
  PROVE  LastTakenWins'
<1> DEFINE here == <<id, idx>>
           k == id + idx
<1>0. InputsOK /\ IndicesOK /\ LastTakenWins
  BY DEF LoopInv
<1>1. /\ here \in PodResources
      /\ \A n \in InstanceTypes :
            /\ \A p \in TakenFor(n) : Before(p, here)
            /\ here \notin TakenFor(n)
            /\ TakenFor(n)' = IF k < Len(instanceRequired) /\ instanceRequired[k + 1] = n
                              THEN TakenFor(n) \cup {here} ELSE TakenFor(n)
  <2>1. here \in PodResources
    BY <1>0, CurrentItem DEF VisitPodResource, PodResources
  <2>2. QED
    BY <1>0, <2>1, NextPodResource
<1>2. \A p : Replicas(p)' = Replicas(p)
  BY DEF Replicas, VisitPodResource, inputs
<1>3. combinedIndex(id, idx) = k
  BY <1>0 DEF IndicesOK, combinedIndex
<1>4. CASE k < Len(instanceRequired)
  <2>1. PICK type \in InstanceTypes : type = instanceRequired[k + 1]
    BY <1>0, <1>4 DEF InputsOK, IndicesOK
  <2>2. demand' = Put(demand, type, Replicas(here))
    BY <1>4, <1>3, <2>1 DEF VisitPodResource, Replicas
  <2>3. TakenFor(type)' = TakenFor(type) \cup {here}
    BY <1>1, <1>4, <2>1
  <2>4. \A n \in InstanceTypes \ {type} : TakenFor(n)' = TakenFor(n)
    BY <1>1, <2>1
  <2>5. DOMAIN demand' = DOMAIN demand \cup {type}
    BY <2>2 DEF Put
  <2>6. DOMAIN demand = {n \in InstanceTypes : TakenFor(n) # {}}
    BY <1>0 DEF LastTakenWins
  <2>7. DOMAIN demand' = {n \in InstanceTypes : TakenFor(n)' # {}}
    BY <2>1, <2>3, <2>4, <2>5, <2>6
  <2>8. ASSUME NEW n \in DOMAIN demand'
        PROVE  \E p \in TakenFor(n)' : /\ demand'[n] = Replicas(p)
                                       /\ \A q \in TakenFor(n)' \ {p} : Before(q, p)
    <3>1. CASE n = type
      <4>1. demand'[n] = Replicas(here)
        BY <2>2, <3>1 DEF Put
      <4>2. \A q \in TakenFor(n)' \ {here} : Before(q, here)
        BY <1>1, <2>1, <2>3, <3>1
      <4>3. QED
        BY <2>3, <3>1, <4>1, <4>2
    <3>2. CASE n # type
      <4>1. n \in DOMAIN demand /\ n \in InstanceTypes
        BY <2>5, <2>6, <3>2
      <4>2. demand'[n] = demand[n]
        BY <2>2, <3>2, <4>1 DEF Put
      <4>3. QED
        BY <1>0, <2>4, <3>2, <4>1, <4>2 DEF LastTakenWins
    <3>3. QED
      BY <3>1, <3>2
  <2>9. QED
    BY <1>2, <2>7, <2>8 DEF LastTakenWins, Before
<1>5. CASE ~(k < Len(instanceRequired))
  <2>1. demand' = demand
    BY <1>5, <1>3 DEF VisitPodResource
  <2>2. \A n \in InstanceTypes : TakenFor(n)' = TakenFor(n)
    BY <1>1, <1>5
  <2>3. QED
    BY <1>0, <1>2, <2>1, <2>2 DEF LastTakenWins, Before
<1>6. QED
  BY <1>4, <1>5

(* The outer loop changes neither the demand nor what was taken.           *)
LEMMA NextItemKeepsLast ==
  ASSUME LoopInv, NextItem
  PROVE  LastTakenWins'
<1>1. \A n \in InstanceTypes : TakenFor(n)' = TakenFor(n)
  BY NextItemTakesNone DEF LoopInv
<1>2. demand' = demand /\ \A p : Replicas(p)' = Replicas(p)
  BY DEF NextItem, Replicas, inputs
<1>3. QED
  BY <1>1, <1>2 DEF LoopInv, LastTakenWins, Before

(* Each iteration of either loop keeps the invariant.                      *)
LEMMA StepLoopInv == LoopInv /\ [Next]_vars => LoopInv'
<1> SUFFICES ASSUME LoopInv, [Next]_vars PROVE LoopInv'
  OBVIOUS
<1>1. InputsOK' /\ IndicesOK'
  BY StepIndices DEF LoopInv
<1>2. LastTakenWins'
  <2>1. CASE VisitPodResource
    BY <2>1, VisitKeepsLast
  <2>2. CASE NextItem
    BY <2>2, NextItemKeepsLast
  <2>3. CASE UNCHANGED vars
    <3>1. \A n \in InstanceTypes : TakenFor(n)' = TakenFor(n)
      BY <2>3 DEF TakenFor, PodResources, Before, vars, inputs,
                  instanceRequired, getInstanceRequired
    <3>2. demand' = demand /\ \A p : Replicas(p)' = Replicas(p)
      BY <2>3 DEF vars, inputs, Replicas
    <3>3. QED
      BY <3>1, <3>2 DEF LoopInv, LastTakenWins, Before
  <2>4. QED
    BY <2>1, <2>2, <2>3 DEF Next
<1>3. QED
  BY <1>1, <1>2 DEF LoopInv

(* Whatever the label and the items are, and however long they are, the    *)
(* demand of a type is the count of the last pod resource whose indices    *)
(* add up to one of the type's positions in the label (the nested loops of *)
(* discoverInstanceTypes).                                                 *)
THEOREM DemandOfLast == Spec => []LastTakenWins
<1>1. LoopInv => LastTakenWins
  BY DEF LoopInv
<1>2. QED
  BY <1>1, InitLoopInv, StepLoopInv, PTL DEF Spec

-----------------------------------------------------------------------------
(* Items that have one pod resource each, but for the last, which may have *)
(* any number.                                                             *)
OneEach(s) == \A i \in 1..(Len(s) - 1) : Len(s[i]) = 1

(* The first i of them, in order.                                          *)
FirstItems(s, i) ==
    [k \in 1..(i - 1 + Len(s[i])) |-> IF k < i THEN s[k][1] ELSE s[i][k - i + 1]]

(* The equation by which FlattenSeq defines its function.                  *)
Flattens(s, g) ==
    g = [i \in 1..Len(s) |-> IF i = 1 THEN s[i] ELSE g[i - 1] \o s[i]]

(* The items up to one, flattened, are those up to the one before and it.  *)
LEMMA NextFirstItems ==
  ASSUME NEW s \in Seq(Seq(Nat)), OneEach(s), NEW i \in 1..Len(s)
  PROVE  FirstItems(s, i) = IF i = 1 THEN s[i] ELSE FirstItems(s, i - 1) \o s[i]
<1>1. \A j \in 1..Len(s) : s[j] \in Seq(Nat) /\ Len(s[j]) \in Nat
  OBVIOUS
<1>2. CASE i = 1
  <2>1. FirstItems(s, 1) = [k \in 1..Len(s[1]) |-> s[1][k]]
    BY <1>1, <1>2 DEF FirstItems
  <2>2. s[1] = [k \in 1..Len(s[1]) |-> s[1][k]]
    BY <1>1, <1>2
  <2>3. QED
    BY <1>2, <2>1, <2>2
<1>3. CASE i # 1
  <2>1. /\ i - 1 \in 1..Len(s) /\ Len(s[i - 1]) = 1
        /\ \A k \in 1..(i - 1) : Len(s[k]) = 1 /\ s[k][1] \in Nat
    BY <1>1, <1>3 DEF OneEach
  <2> DEFINE first == FirstItems(s, i - 1)
             both == first \o s[i]
  <2>2. first = [k \in 1..(i - 1) |-> s[k][1]]
    BY <2>1 DEF FirstItems
  <2>3. first \in Seq(Nat) /\ Len(first) = i - 1
    <3> HIDE DEF first
    <3>1. i - 1 \in Nat /\ first \in [1..(i - 1) -> Nat]
      BY <2>1, <2>2
    <3>2. QED
      BY <3>1, FunctionIsSeq
  <2> HIDE DEF first
  <2>4. both = [k \in 1..(i - 1 + Len(s[i])) |->
                  IF k <= i - 1 THEN first[k] ELSE s[i][k - (i - 1)]]
    <3>1. /\ both \in Seq(Nat) /\ Len(both) = Len(first) + Len(s[i])
          /\ \A k \in 1..(Len(first) + Len(s[i])) :
                both[k] = IF k <= Len(first) THEN first[k] ELSE s[i][k - Len(first)]
      <4>1. s[i] \in Seq(Nat)
        BY <1>1
      <4>2. QED
        BY <2>3, <4>1, ConcatProperties
    <3> HIDE DEF both
    <3>2. both = [k \in 1..Len(both) |-> both[k]]
      BY <3>1
    <3>3. QED
      BY <2>3, <3>1, <3>2
  <2>5. \A k \in 1..(i - 1 + Len(s[i])) :
           /\ k <= i - 1 <=> k < i
           /\ k <= i - 1 => first[k] = s[k][1]
           /\ k - (i - 1) = k - i + 1
    BY <1>1, <2>2
  <2>6. both = FirstItems(s, i)
    BY <2>4, <2>5 DEF FirstItems
  <2>7. QED
    BY <1>3, <2>6 DEF first
<1>4. QED
  BY <1>2, <1>3

(* FlattenSeq of items with one pod resource each, but the last, is        *)
(* FirstItems of all of them: there is a function with the equation that   *)
(* FlattenSeq chooses by, and any such function agrees with it, or there   *)
(* would be a first item where it does not.                                *)
LEMMA FlattenItems ==
  ASSUME NEW s \in Seq(Seq(Nat)), OneEach(s), Len(s) # 0
  PROVE  FlattenSeq(s) = FirstItems(s, Len(s))
<1>1. FlattenSeq(s) = (CHOOSE g : Flattens(s, g))[Len(s)]
  BY DEF FlattenSeq, Flattens
<1>2. PICK g : g = (CHOOSE h : Flattens(s, h))
  OBVIOUS
<1>3. Flattens(s, g)
  <2> DEFINE w == [i \in 1..Len(s) |-> FirstItems(s, i)]
  <2>1. \A i \in 1..Len(s) :
           w[i] = IF i = 1 THEN s[i] ELSE w[i - 1] \o s[i]
    <3>1. \A i \in 1..Len(s) : i # 1 => i - 1 \in 1..Len(s)
      OBVIOUS
    <3>2. QED
      BY <3>1, NextFirstItems
  <2>2. w = [i \in 1..Len(s) |-> w[i]]
    OBVIOUS
  <2> HIDE DEF w
  <2>3. Flattens(s, w)
    BY <2>1, <2>2 DEF Flattens
  <2>4. QED
    BY <1>2, <2>3
<1> DEFINE Bad == {i \in 1..Len(s) : g[i] # FirstItems(s, i)}
<1>4. ASSUME NEW i \in Bad, \A j \in Bad : i <= j
      PROVE  FALSE
  <2>1. i \in 1..Len(s) /\ g[i] # FirstItems(s, i)
    OBVIOUS
  <2>2. g[i] = IF i = 1 THEN s[i] ELSE g[i - 1] \o s[i]
    BY <1>3, <2>1 DEF Flattens
  <2>3. i # 1 => g[i - 1] = FirstItems(s, i - 1)
    <3>1. i # 1 => i - 1 \in 1..Len(s) /\ ~(i <= i - 1)
      BY <2>1
    <3>2. QED
      BY <1>4, <3>1
  <2>4. QED
    BY <2>1, <2>2, <2>3, NextFirstItems
<1>5. Bad = {}
  <2>1. Bad \in SUBSET Nat
    OBVIOUS
  <2> HIDE DEF Bad
  <2>2. QED
    BY <1>4, <2>1, LeastNatural
<1>6. Len(s) \in 1..Len(s)
  OBVIOUS
<1>7. QED
  BY <1>1, <1>2, <1>5, <1>6

(* The place of a pod resource among all of them, and in the label.        *)
Position(p) == p[1] + p[2] + 1

(* Where every item but the last has one pod resource, the two indices of  *)
(* a pod resource add up to its place in the order.                        *)
LEMMA PositionInOrder ==
  ASSUME InputsOK, OneEach(items)
  PROVE  /\ DOMAIN InOrder = 1..Len(InOrder)
         /\ \A p \in PodResources : /\ Position(p) \in DOMAIN InOrder
                                    /\ InOrder[Position(p)] = Replicas(p)
         /\ \A k \in DOMAIN InOrder : \E p \in PodResources : Position(p) = k
<1> DEFINE n == Len(items)
<1>0. /\ items \in Seq(Seq(Nat)) /\ n \in Nat /\ n <= MaxItems
      /\ \A i \in 1..n : /\ items[i] \in Seq(Nat) /\ Len(items[i]) \in Nat
                        /\ Len(items[i]) <= MaxPods
      /\ MaxItems \in Nat /\ MaxPods \in Nat
  BY DemandBounds DEF InputsOK
<1>1. CASE n = 0
  <2>1. InOrder = items /\ DOMAIN items = 1..0 /\ Len(items) = 0
    BY <1>0, <1>1 DEF InOrder, FlattenSeq
  <2>2. PodResources = {}
    BY <1>1 DEF PodResources
  <2>3. QED
    BY <2>1, <2>2
<1>2. CASE n # 0
  <2> DEFINE last == Len(items[n])
             m == n - 1 + last
  <2>1. last \in Nat /\ last <= MaxPods /\ m \in Nat
    BY <1>0, <1>2
  <2>2. InOrder = [k \in 1..m |-> IF k < n THEN items[k][1] ELSE items[n][k - n + 1]]
    BY <1>0, <1>2, FlattenItems DEF InOrder, FirstItems
  <2>3. \A k \in 1..m : InOrder[k] \in Nat
    <3>1. TAKE k \in 1..m
    <3>2. CASE k < n
      <4>1. k \in 1..n /\ Len(items[k]) = 1
        BY <1>0, <3>2 DEF OneEach
      <4>2. QED
        BY <1>0, <2>2, <3>2, <4>1
    <3>3. CASE ~(k < n)
      <4>1. k - n + 1 \in 1..last /\ n \in 1..n
        BY <1>0, <1>2, <2>1, <3>3
      <4>2. items[n][k - n + 1] \in Nat
        BY <1>0, <4>1
      <4>3. QED
        BY <2>2, <3>3, <4>2
    <3>4. QED
      BY <3>2, <3>3
  <2>4. Len(InOrder) = m /\ DOMAIN InOrder = 1..m
    <3>1. InOrder \in [1..m -> Nat]
      BY <2>2, <2>3
    <3> HIDE DEF m
    <3>2. QED
      BY <2>1, <3>1, FunctionIsSeq
  <2>5. ASSUME NEW p \in PodResources
        PROVE  Position(p) \in 1..m /\ InOrder[Position(p)] = Replicas(p)
    <3>1. /\ p[1] \in Nat /\ p[2] \in Nat /\ p[1] < n
          /\ p[2] < Len(items[p[1] + 1])
      BY <1>0 DEF PodResources
    <3>2. CASE p[1] = n - 1
      <4>1. Position(p) = n + p[2] /\ p[2] < last /\ p[1] + 1 = n
        BY <1>0, <3>1, <3>2 DEF Position
      <4>2. Position(p) \in 1..m /\ ~(Position(p) < n) /\ Position(p) - n + 1 = p[2] + 1
        <5> HIDE DEF n, last
        <5>1. QED
          BY <1>0, <1>2, <2>1, <3>1, <4>1
      <4>3. QED
        BY <2>2, <4>1, <4>2 DEF Replicas
    <3>3. CASE p[1] # n - 1
      <4>1. p[1] + 1 \in 1..(n - 1)
        BY <1>0, <3>1, <3>3
      <4>2. p[2] = 0
        <5>1. Len(items[p[1] + 1]) = 1
          BY <4>1 DEF OneEach
        <5>2. QED
          BY <3>1, <5>1
      <4>3. Position(p) = p[1] + 1 /\ p[2] + 1 = 1
        BY <3>1, <4>2 DEF Position
      <4>4. Position(p) \in 1..m /\ Position(p) < n
        BY <1>0, <2>1, <4>1, <4>3
      <4>5. QED
        BY <2>2, <4>3, <4>4 DEF Replicas
    <3>4. QED
      BY <3>2, <3>3
  <2>6. ASSUME NEW k \in 1..m
        PROVE  \E p \in PodResources : Position(p) = k
    <3>1. CASE k < n
      <4>1. k \in 1..(n - 1) /\ Len(items[k]) = 1
        BY <1>0, <3>1 DEF OneEach
      <4>2. PICK j \in 0..MaxItems : j + 1 = k /\ j < n
        <5>1. k - 1 \in 0..MaxItems /\ (k - 1) + 1 = k /\ k - 1 < n
          BY <1>0, <4>1
        <5>2. QED
          BY <5>1
      <4>3. <<j, 0>> \in PodResources
        <5>1. Len(items[j + 1]) = 1
          BY <4>1, <4>2
        <5>2. 0 < Len(items[j + 1]) /\ j < Len(items) /\ 0 \in 0..MaxPods
          BY <1>0, <4>2, <5>1
        <5>3. QED
          BY <5>2 DEF PodResources
      <4>4. Position(<<j, 0>>) = k
        BY <4>2 DEF Position
      <4>5. QED
        BY <4>3, <4>4
    <3>2. CASE ~(k < n)
      <4>1. k - n \in 0..MaxPods /\ k - n < last /\ n - 1 \in 0..MaxItems
        BY <1>0, <1>2, <2>1, <3>2
      <4>2. <<n - 1, k - n>> \in PodResources
        BY <1>0, <1>2, <4>1 DEF PodResources
      <4>3. Position(<<n - 1, k - n>>) = k
        BY <1>0, <4>1 DEF Position
      <4>4. QED
        BY <4>2, <4>3
    <3>3. QED
      BY <3>1, <3>2
  <2> HIDE DEF m
  <2>7. QED
    BY <2>4, <2>5, <2>6
<1>3. QED
  BY <1>1, <1>2

(* What is returned is a map.                                              *)
IsMap == demand = [n \in DOMAIN demand |-> demand[n]]

(* The map is empty to begin with, and stays one.                          *)
LEMMA MapInit == Init => IsMap
  BY DEF Init, IsMap

LEMMA MapKept ==
  ASSUME IsMap, [Next]_vars
  PROVE  IsMap'
  BY DEF IsMap, Next, VisitPodResource, NextItem, Put, vars

(* With all pod resources visited, those taken for a type are those whose  *)
(* place is that of its name.                                              *)
LEMMA TakenAtEnd ==
  ASSUME InputsOK, IndicesOK, Returned, NEW n \in InstanceTypes
  PROVE  TakenFor(n) = {p \in PodResources :
                           /\ Position(p) \in 1..Len(instanceRequired)
                           /\ instanceRequired[Position(p)] = n}
<1>1. instanceRequired \in Seq(InstanceTypes) /\ Len(instanceRequired) \in Nat
  BY DEF InputsOK
<1>2. ASSUME NEW p \in PodResources
      PROVE  /\ Position(p) \in 1..Len(instanceRequired)
                   <=> p[1] + p[2] < Len(instanceRequired)
             /\ instanceRequired # <<>> => Before(p, <<id, idx>>)
  <2>1. p[1] \in Nat /\ p[2] \in Nat /\ p[1] < Len(items)
    BY DEF PodResources
  <2>2. QED
    BY <1>1, <2>1 DEF Position, Before, Returned
<1>3. CASE instanceRequired = <<>>
  <2>1. Len(instanceRequired) = 0
    BY <1>3
  <2>2. \A p \in PodResources : ~(p[1] + p[2] < Len(instanceRequired))
    BY <2>1 DEF PodResources
  <2>3. QED
    BY <1>2, <2>2 DEF TakenFor
<1>4. CASE instanceRequired # <<>>
  BY <1>2, <1>4 DEF TakenFor, Position
<1>5. QED
  BY <1>3, <1>4

(* Where every item but the last has one pod resource and no name comes    *)
(* twice, what the loops have computed in the end is what the label says:  *)
(* the k-th name is the type of the k-th pod resource.                     *)
LEMMA OrderedAtEnd ==
  ASSUME LoopInv, IsMap
  PROVE  NamedInOrder
<1> DEFINE K == {h \in DOMAIN InOrder : Matched(h)}
           named == {instanceRequired[k] : k \in K}
           At(n) == CHOOSE k \in DOMAIN InOrder : Matched(k) /\ instanceRequired[k] = n
<1> SUFFICES ASSUME Returned, IsInjective(instanceRequired), OneEach(items)
             PROVE  demand = [n \in named |-> InOrder[At(n)]]
  BY DEF NamedInOrder, OneEach
<1>0. InputsOK /\ IndicesOK /\ LastTakenWins
  BY DEF LoopInv
<1>1. /\ DOMAIN InOrder = 1..Len(InOrder)
      /\ \A p \in PodResources : /\ Position(p) \in DOMAIN InOrder
                                 /\ InOrder[Position(p)] = Replicas(p)
      /\ \A k \in DOMAIN InOrder : \E p \in PodResources : Position(p) = k
  BY <1>0, PositionInOrder
<1>2. /\ \A k \in 1..Len(instanceRequired) : instanceRequired[k] \in InstanceTypes
      /\ DOMAIN instanceRequired = 1..Len(instanceRequired)
  BY <1>0 DEF InputsOK
<1>3. \A n \in InstanceTypes :
         TakenFor(n) = {p \in PodResources :
                           /\ Position(p) \in 1..Len(instanceRequired)
                           /\ instanceRequired[Position(p)] = n}
  BY <1>0, TakenAtEnd
<1>4. DOMAIN demand = named
  <2>1. ASSUME NEW n \in InstanceTypes, TakenFor(n) # {} PROVE n \in named
    <3>1. PICK p \in PodResources : /\ Position(p) \in 1..Len(instanceRequired)
                                    /\ instanceRequired[Position(p)] = n
      BY <1>3, <2>1
    <3>2. Position(p) \in K
      BY <1>1, <3>1 DEF Matched
    <3>3. QED
      BY <3>1, <3>2
  <2>2. ASSUME NEW k \in K
        PROVE  /\ instanceRequired[k] \in InstanceTypes
               /\ TakenFor(instanceRequired[k]) # {}
    <3>1. k \in 1..Len(instanceRequired) /\ k \in DOMAIN InOrder
      BY DEF Matched
    <3>2. PICK p \in PodResources : Position(p) = k
      BY <1>1, <3>1
    <3>3. instanceRequired[k] \in InstanceTypes
      BY <1>2, <3>1
    <3>4. p \in TakenFor(instanceRequired[k])
      BY <1>3, <3>1, <3>2, <3>3
    <3>5. QED
      BY <3>3, <3>4
  <2>3. QED
    BY <1>0, <2>1, <2>2 DEF LastTakenWins
<1>5. ASSUME NEW n \in DOMAIN demand
      PROVE  demand[n] = InOrder[At(n)]
  <2>1. PICK p \in TakenFor(n) : demand[n] = Replicas(p)
    BY <1>0 DEF LastTakenWins
  <2>2. n \in InstanceTypes
    BY <1>0 DEF LastTakenWins
  <2>3. /\ p \in PodResources /\ Position(p) \in 1..Len(instanceRequired)
        /\ instanceRequired[Position(p)] = n
    BY <1>3, <2>1, <2>2
  <2>4. Position(p) \in DOMAIN InOrder /\ Matched(Position(p))
    BY <1>1, <2>3 DEF Matched
  <2>5. \A k \in DOMAIN InOrder :
           Matched(k) /\ instanceRequired[k] = n => k = Position(p)
    BY <1>2, <2>3 DEF Matched, IsInjective
  <2>6. At(n) = Position(p)
    BY <2>3, <2>4, <2>5
  <2>7. QED
    BY <1>1, <2>1, <2>3, <2>6
<1> HIDE DEF named, At
<1>6. QED
  BY <1>4, <1>5 DEF IsMap

(* For labels and items of whatever length, orderedinstance means what its *)
(* name says, as far as no name comes twice and only the last item has     *)
(* more pod resources than one (discoverInstanceTypes).                    *)
THEOREM DemandInOrder == Spec => []NamedInOrder
<1>1. IsMap /\ [Next]_vars => IsMap'
  BY MapKept
<1>2. LoopInv /\ IsMap => NamedInOrder
  BY OrderedAtEnd
<1>3. QED
  BY <1>1, <1>2, InitLoopInv, StepLoopInv, MapInit, PTL DEF Spec
=============================================================================
