--------------------------- MODULE InstaScaleProofs ---------------------------
(***************************************************************************)
(* For every set of AppWrappers, instance types, configurations and pool   *)
(* names, and without the bounds mattering: what it takes for the          *)
(* controller to make a pool of the wrong kind, or a second one of a type  *)
(* for an AppWrapper that does not change what it asks for, is an empty    *)
(* answer of OCM; though each process begins with a guess, and every pass  *)
(* asks OCM anew and reads an AppWrapper from a cache.                     *)
(***************************************************************************)
EXTENDS InstaScaleRefinementProofs

USE DEF poolVars

(* The guess stands until OCM was asked, and what was learnt of a known    *)
(* cluster is true, unless the answer was empty.                           *)
KindIsGuessed ==
    ~process.machineCheck => process.machineType \in {"MachineSet", "MachinePool"}

KindIsKnown ==
    process.machineCheck /\ process.clusterID /\ ~process.unsure
        => process.machineType = ClusterKind

(* A process that is not set up has asked nothing.                         *)
NothingAsked == process.stage # "running" => ~process.machineCheck

(* A configured strategy is never taken for a kind of pool.                *)
StrategyIsNoPool == installed \in Installed /\ process.strategy \notin PoolKinds

(* No pass is under way before OCM was asked.                              *)
PassKnowsKind == worker.pc # "idle" => ~MustDetect

KindInv ==
    /\ KindIsGuessed
    /\ KindIsKnown
    /\ NothingAsked
    /\ StrategyIsNoPool
    /\ PassKnowsKind
    /\ PoolsFitCluster

(* A process starts with MachineSets, no check, and no pools.              *)
LEMMA InitKind == Init => KindInv
<1> SUFFICES ASSUME Init PROVE KindInv
  OBVIOUS
<1>1. /\ installed \in Installed /\ pools = {} /\ worker.pc = "idle"
      /\ ~process.machineCheck /\ process.machineType = "MachineSet"
      /\ process.strategy \notin PoolKinds
  BY DEF Init, ProcessInit, StoreInit, Idle, Down, PoolKinds
<1>2. KindIsKnown
  BY <1>1 DEF KindIsKnown
<1>3. QED
  BY <1>1, <1>2
  DEF KindInv, KindIsGuessed, NothingAsked, StrategyIsNoPool, PassKnowsKind,
      PoolsFitCluster

-----------------------------------------------------------------------------
(* Pools go, and an empty answer that led to one is not forgotten.         *)
PoolsOnlyGo ==
    /\ pools' \subseteq pools
    /\ \A p \in pools' : p.id \in blind => p.id \in blind'

(* Steps that neither add a pool, nor change what the process remembers,   *)
(* nor start a pass.                                                       *)
LEMMA QuietKeeps ==
  ASSUME KindInv, process' = process, PoolsOnlyGo,
         installed' = installed,
         worker'.pc # "idle" => worker.pc # "idle"
  PROVE  KindInv'
  BY DEF KindInv, KindIsGuessed, KindIsKnown, NothingAsked, StrategyIsNoPool,
         PassKnowsKind, MustDetect, PoolsFitCluster, PoolsOnlyGo

(* Every way a pass, or a call in it, ends.                                *)
LEMMA EndsQuietly ==
  ASSUME \/ \E r \in BOOLEAN : Finish(r)
         \/ \E r \in BOOLEAN : Return(r)
         \/ Crash
  PROVE  worker'.pc = "idle"
  BY DEF Finish, Return, Crash, Idle

(* The other clients' writes leave the worker where it is.                 *)
LEMMA ClientQuiet ==
  ASSUME NEW aw \in AppWrappers, Client(aw) \/ Informer(aw)
  PROVE  worker'.pc = worker.pc
<1>1. ASSUME NEW o, ExternalWrite(aw, o) PROVE worker'.pc = worker.pc
  BY <1>1 DEF ExternalWrite
<1>2. QED
  BY <1>1 DEF Client, Informer, CreateAppWrapper, DeleteAppWrapper,
              EditAppWrapper, DispatchAppWrapper, SyncCache, Resync

-----------------------------------------------------------------------------
(* The steps of the process itself.                                        *)
LEMMA ProcessKeeps ==
  ASSUME IInv, KindInv, ProcessChange
  PROVE  KindInv'
<1>0. pools' = pools /\ blind' = blind
  BY DEF ProcessChange
<1>1. CASE ReadConfiguration
  <2>1. /\ installed \in Installed /\ installed' = installed /\ worker' = worker
        /\ process'.strategy = installed.strategy
        /\ process'.machineType = "MachineSet" /\ ~process'.machineCheck
    BY <1>1 DEF ReadConfiguration, Down, KindInv, StrategyIsNoPool, storeVars
  <2>2. installed.strategy \notin PoolKinds
    BY <2>1, ProcessAssumption
  <2>3. KindIsKnown'
    BY <2>1 DEF KindIsKnown
  <2>4. QED
    BY <1>0, <2>1, <2>2, <2>3
    DEF KindInv, KindIsGuessed, NothingAsked, StrategyIsNoPool, PassKnowsKind,
        MustDetect, PoolsFitCluster
<1>2. CASE SetupWithManager
  <2>1. /\ installed' = installed /\ worker'.pc = "idle" /\ ~process.machineCheck
    BY <1>2, EndsQuietly DEF SetupWithManager, KindInv, NothingAsked
  <2>2. /\ process'.strategy \notin PoolKinds /\ ~process'.machineCheck
        /\ process'.machineType \in {"MachineSet", "MachinePool"}
    <3>1. CASE process' = Down
      BY <3>1 DEF Down, PoolKinds
    <3>2. CASE process' # Down
      BY <1>2, <2>1, <3>2 DEF SetupWithManager, KindInv, StrategyIsNoPool
    <3>3. QED
      BY <3>1, <3>2
  <2>3. QED
    BY <1>0, <2>1, <2>2
    DEF KindInv, KindIsGuessed, KindIsKnown, NothingAsked, StrategyIsNoPool,
        PassKnowsKind, PoolsFitCluster
<1>3. CASE Stop
  <2>1. installed' = installed /\ worker'.pc = "idle" /\ process' = Down
    BY <1>3, EndsQuietly DEF Stop
  <2>2. /\ ~process'.machineCheck /\ process'.machineType = "MachineSet"
        /\ process'.strategy \notin PoolKinds
    BY <2>1 DEF Down, PoolKinds
  <2>3. KindIsKnown'
    BY <2>2 DEF KindIsKnown
  <2>4. QED
    BY <1>0, <2>1, <2>2, <2>3
    DEF KindInv, KindIsGuessed, NothingAsked, StrategyIsNoPool, PassKnowsKind,
        PoolsFitCluster
<1>4. CASE Reconfigure
  BY <1>0, <1>4
  DEF Reconfigure, storeVars, KindInv, KindIsGuessed, KindIsKnown, NothingAsked,
      StrategyIsNoPool, PassKnowsKind, MustDetect, PoolsFitCluster
<1>5. CASE setMachineType
  BY <1>0, <1>5
  DEF setMachineType, Detecting, MustDetect, Serving, ClusterKind, storeVars,
      KindInv, KindIsGuessed, KindIsKnown, NothingAsked, StrategyIsNoPool,
      PassKnowsKind, PoolsFitCluster, PoolKinds
<1>6. CASE SearchFails
  BY <1>0, <1>6
  DEF SearchFails, Detecting, MustDetect, Serving, storeVars,
      KindInv, KindIsGuessed, KindIsKnown, NothingAsked, StrategyIsNoPool,
      PassKnowsKind, PoolsFitCluster
<1>7. CASE CheckUnanswered
  <2>1. process \in Process
    BY DEF IInv, TypeOK, ProcessTypeOK
  <2>2. /\ process'.machineCheck /\ process'.unsure
        /\ process'.stage = process.stage /\ process'.strategy = process.strategy
        /\ process.stage = "running"
        /\ installed' = installed /\ worker' = worker
    BY <1>7, <2>1 DEF CheckUnanswered, Process, Detecting, Serving, storeVars
  <2>3. QED
    BY <1>0, <2>2
    DEF KindInv, KindIsGuessed, KindIsKnown, NothingAsked, StrategyIsNoPool,
        PassKnowsKind, MustDetect, PoolsFitCluster
<1>8. CASE CheckFails
  BY <1>0, <1>8
  DEF CheckFails, Detecting, MustDetect, Serving, storeVars,
      KindInv, KindIsGuessed, KindIsKnown, NothingAsked, StrategyIsNoPool,
      PassKnowsKind, PoolsFitCluster
<1>9. QED
  BY <1>1, <1>2, <1>3, <1>4, <1>5, <1>6, <1>7, <1>8 DEF ProcessChange, ProcessStep

(* A pool is added in a pass, so after OCM was asked, and to a cluster it  *)
(* knows: if OCM answered, to the collection of that cluster's kind.       *)
LEMMA AddsKnownKind ==
  ASSUME KindInv, NEW t \in InstanceTypes, Scaling(t), process.clusterID,
         ~process.unsure
  PROVE  process.machineType = ClusterKind
<1>1. worker.pc = "scale" /\ ScaleBy \in PoolKinds /\ process.clusterID
  BY DEF Scaling
<1>2. process.machineType \in PoolKinds
  BY <1>1 DEF ScaleBy, KindInv, StrategyIsNoPool
<1>3. process.machineCheck
  BY <1>1, <1>2 DEF KindInv, PassKnowsKind, MustDetect, PoolKinds
<1>4. QED
  BY <1>1, <1>2, <1>3 DEF KindInv, KindIsKnown

(* What adding a pool does, with an answer of OCM or an empty one.         *)
LEMMA Adds ==
  ASSUME NEW t \in InstanceTypes, AddPool(t) \/ AddPoolUnlisted(t)
  PROVE  /\ Scaling(t) /\ process.clusterID
         /\ process' = process /\ worker' = worker /\ installed' = installed
         /\ \E id \in PoolIds :
               /\ pools' = pools \cup {Added(id, t)}
               /\ blind' \in {blind, blind \cup {id}}
               /\ id \notin blind' => AddPool(t) /\ ~process.unsure
  BY DEF AddPool, AddPoolUnlisted, AddedTo, generateMachineName, storeVars,
         processVars

(* So the pool fits, or came of an empty answer.                           *)
LEMMA AddPoolKeeps ==
  ASSUME KindInv, NEW t \in InstanceTypes, AddPool(t) \/ AddPoolUnlisted(t)
  PROVE  KindInv'
<1>1. /\ process' = process /\ worker' = worker /\ installed' = installed
      /\ Scaling(t) /\ process.clusterID
  BY Adds
<1>2. PICK id \in PoolIds : /\ pools' = pools \cup {Added(id, t)}
                            /\ blind' \in {blind, blind \cup {id}}
                            /\ id \notin blind' => ~process.unsure
  BY Adds
<1>3. Added(id, t).id = id /\ Added(id, t).kind = process.machineType
  BY DEF Added
<1>4. id \notin blind' => process.machineType = ClusterKind
  BY <1>1, <1>2, AddsKnownKind
<1>5. PoolsFitCluster'
  BY <1>2, <1>3, <1>4 DEF KindInv, PoolsFitCluster, ClusterKind
<1>6. QED
  BY <1>1, <1>5 DEF KindInv, KindIsGuessed, KindIsKnown, NothingAsked,
                    StrategyIsNoPool, PassKnowsKind, MustDetect

(* The rest of the pools' calls: nothing is added.                         *)
LEMMA PoolStepKeeps ==
  ASSUME KindInv, PoolStep
  PROVE  KindInv'
<1> USE DEF storeVars, processVars, Scaling, Deleting, PoolsOnlyGo
<1>1. ASSUME NEW t \in InstanceTypes, KeepPool(t) \/ AddPoolFails(t) PROVE KindInv'
  BY <1>1, QuietKeeps DEF KeepPool, AddPoolFails
<1>2. CASE ListPoolsFails \/ PoolsScaled \/ NoConnection
  BY <1>2, EndsQuietly, QuietKeeps DEF ListPoolsFails, PoolsScaled, NoConnection
<1>3. CASE ListPools \/ ListPoolsIgnored
  BY <1>3, QuietKeeps DEF ListPools, ListPoolsIgnored
<1>4. ASSUME NEW id \in PoolIds, DeletePool(id) \/ DeletePoolFails(id) PROVE KindInv'
  <2>1. PoolsOnlyGo
    BY <1>4 DEF DeletePool, DeletePoolFails
  <2>2. QED
    BY <1>4, <2>1, QuietKeeps DEF DeletePool, DeletePoolFails
<1>5. CASE PoolsDeleted
  BY <1>5, QuietKeeps DEF PoolsDeleted
<1>6. QED
  BY <1>1, <1>2, <1>3, <1>4, <1>5, AddPoolKeeps DEF PoolStep

(* The duplicate strategy has no pools, and starts no pass.                *)
LEMMA DupKeeps ==
  ASSUME KindInv, DupStep \/ DupEnvironment, UNCHANGED poolVars
  PROVE  KindInv'
<1> USE DEF storeVars, processVars, Copying, Removing, PoolsOnlyGo
<1>1. CASE DupEnvironment
  BY <1>1, QuietKeeps DEF DupEnvironment, MachinesChange, SyncDup
<1>2. ASSUME NEW t \in InstanceTypes,
             \/ PassMachineSet(t) \/ CreateMachineSet(t) \/ AwaitMachineSet(t)
             \/ DeleteMachineSet(t) \/ DeleteMachineSetFails(t)
      PROVE  KindInv'
  <2>1. CASE PassMachineSet(t) \/ CreateMachineSet(t) \/ DeleteMachineSet(t)
    BY <2>1, QuietKeeps DEF PassMachineSet, CreateMachineSet, DeleteMachineSet
  <2>2. CASE AwaitMachineSet(t) \/ DeleteMachineSetFails(t)
    BY <2>2, EndsQuietly, QuietKeeps DEF AwaitMachineSet, DeleteMachineSetFails
  <2>3. QED
    BY <1>2, <2>1, <2>2
<1>3. CASE MachineSetCreated \/ MachineSetsCopied
  BY <1>3, EndsQuietly, QuietKeeps DEF MachineSetCreated, MachineSetsCopied
<1>4. CASE ListCopies \/ CopiesDeleted
  BY <1>4, QuietKeeps DEF ListCopies, CopiesDeleted
<1>5. QED
  BY <1>1, <1>2, <1>3, <1>4 DEF DupStep

(* Neither has the reuse strategy.                                         *)
LEMMA ReuseKeeps ==
  ASSUME KindInv, \/ ReuseScales \/ ReuseFinalizes
                  \/ ReuseOverlooks \/ OverlookingReturns
  PROVE  KindInv'
<1> USE DEF storeVars, processVars, PoolsOnlyGo
<1>1. /\ process' = process /\ pools' = pools /\ blind' = blind
      /\ installed' = installed
  BY DEF ReuseScales, ReuseFinalizes, ReuseOverlooks, OverlookingReturns,
         strategyVars
<1>2. worker'.pc # "idle" => worker.pc # "idle"
  <2>1. CASE Reuse!Acquire \/ Reuse!Release
    BY <2>1 DEF Reuse!Acquire, Reuse!Release, Reuse!storeVars
  <2>2. CASE Reuse!ScaleReturns \/ Reuse!FinalizeReturns \/ Reuse!FinalizeFails
    BY <2>2 DEF Reuse!ScaleReturns, Reuse!FinalizeReturns, Reuse!FinalizeFails
  <2>3. CASE ReuseOverlooks \/ OverlookingReturns
    BY <2>3, EndsQuietly DEF ReuseOverlooks, OverlookingReturns, Reusing
  <2>4. QED
    BY <2>1, <2>2, <2>3 DEF ReuseScales, ReuseFinalizes
<1>3. QED
  BY <1>1, <1>2, QuietKeeps

(* The calls of a pass.                                                    *)
LEMMA CallKeeps ==
  ASSUME KindInv, CallStep
  PROVE  KindInv'
<1> USE DEF PoolsOnlyGo
<1>1. CASE finalizeScalingDownMachines
  BY <1>1, QuietKeeps
  DEF finalizeScalingDownMachines, storeVars, processVars, strategyVars
<1>2. CASE NoStrategy
  BY <1>2, EndsQuietly, QuietKeeps DEF NoStrategy, processVars, strategyVars
<1>3. QED
  BY <1>1, <1>2, PoolStepKeeps, DupKeeps, ReuseKeeps DEF CallStep

(* A pass starts when there is nothing left to detect; the other steps of  *)
(* the store start none.                                                   *)
LEMMA StoreKeeps ==
  ASSUME KindInv, NEW aw \in AppWrappers,
         ClientStep(aw) \/ WatchStep(aw) \/ Take(aw)
  PROVE  KindInv'
<1> USE DEF StoreFrame, processVars, strategyVars, PoolsOnlyGo
<1>1. CASE ClientStep(aw) \/ WatchStep(aw)
  BY <1>1, ClientQuiet, QuietKeeps DEF ClientStep, WatchStep
<1>2. CASE Take(aw)
  BY <1>2 DEF Take, KindInv, KindIsGuessed, KindIsKnown, NothingAsked,
              StrategyIsNoPool, PassKnowsKind, MustDetect, PoolsFitCluster
<1>3. QED
  BY <1>1, <1>2

(* What the process believes of the cluster, in every reachable state.     *)
LEMMA KindInvariant == Spec => []KindInv
<1>1. IInv /\ KindInv /\ [Next]_vars => KindInv'
  <2> SUFFICES ASSUME IInv, KindInv, [Next]_vars PROVE KindInv'
    OBVIOUS
  <2>1. CASE UNCHANGED vars
    BY <2>1, QuietKeeps DEF vars, storeVars, processVars, PoolsOnlyGo
  <2>2. CASE UpdateStep
    <3>1. worker'.pc = "idle"
      BY <2>2, EndsQuietly DEF UpdateStep, AddFinalizer, RemoveFinalizer, UpdateFails
    <3>2. QED
      BY <2>2, <3>1, QuietKeeps
      DEF UpdateStep, StoreFrame, processVars, strategyVars, PoolsOnlyGo
  <2>3. QED
    BY <2>1, <2>2, StoreKeeps, ProcessKeeps, CallKeeps, DupKeeps DEF Next
<1>2. QED
  BY <1>1, InitKind, ControllerInvariant, PTL DEF Spec

(* Whatever is configured, fails or restarts, a pool is only ever of the   *)
(* kind the cluster takes, if it was not added after an empty answer of    *)
(* OCM, which checkHypershiftEnabled does not return as an error           *)
(* (setMachineType comes before every pass, and addMachinePool and         *)
(* addNodePool need the cluster's ID).                                     *)
THEOREM PoolsOfOneKind == Spec => []PoolsFitCluster
<1>1. KindInv => PoolsFitCluster
  BY DEF KindInv
<1>2. QED
  BY <1>1, KindInvariant, PTL

-----------------------------------------------------------------------------
(* AppWrappers ask for what f says, as long as they are there.             *)
Steady(f) == \A aw \in AppWrappers : api[aw].exists => Wants[api[aw].demand] = f[aw]

(* What the cache shows, and the worker holds, was asked for.              *)
ReadsAreSteady(f) ==
    /\ \A aw \in AppWrappers : cache[aw].exists => Wants[cache[aw].demand] = f[aw]
    /\ worker.pc # "idle" => Wants[worker.copy.demand] = f[worker.key]

(* A pool is of the size that is asked for.                                *)
PoolsAreSteady(f) == \A p \in pools : p.replicas = f[p.owner][p.type]

OnceInv(f) == ReadsAreSteady(f) /\ PoolsAreSteady(f) /\ ScaledOnce

(* There are no pools to begin with.                                       *)
LEMMA OnceInit ==
  ASSUME NEW f, Init
  PROVE  OnceInv(f)
  BY DEF Init, ProcessInit, StoreInit, Idle, Absent, OnceInv, ReadsAreSteady,
         PoolsAreSteady, ScaledOnce

(* The cache, and the worker's copy, come from the objects themselves: in  *)
(* no other way does a step of the controller change them.                 *)
LEMMA ReadsKept ==
  ASSUME NEW f, IInv, ReadsAreSteady(f), Steady(f), [Next]_vars
  PROVE  ReadsAreSteady(f)'
<1>0. /\ worker \in Worker /\ cache \in [AppWrappers -> Object]
      /\ [Reconciler!Next]_(Reconciler!vars)
  BY StepRefines DEF IInv, TypeOK, ProcessTypeOK, StoreTypeOK
<1>1. CASE UNCHANGED Reconciler!vars
  BY <1>1 DEF Reconciler!vars, ReadsAreSteady
<1>2. ASSUME NEW aw \in AppWrappers, Reconciler!Client(aw)
      PROVE  ReadsAreSteady(f)'
  BY <1>0, <1>2
  DEF Worker, ReadsAreSteady, Reconciler!Client, Reconciler!CreateAppWrapper,
      Reconciler!DeleteAppWrapper, Reconciler!EditAppWrapper,
      Reconciler!DispatchAppWrapper, Reconciler!ExternalWrite, Reconciler!Store
<1>3. ASSUME NEW aw \in AppWrappers, Reconciler!Informer(aw)
      PROVE  ReadsAreSteady(f)'
  BY <1>0, <1>3
  DEF ReadsAreSteady, Steady, Reconciler!Informer, Reconciler!SyncCache,
      Reconciler!Resync
<1>4. ASSUME NEW aw \in AppWrappers, Reconciler!Dequeue(aw)
      PROVE  ReadsAreSteady(f)'
  BY <1>4
  DEF ReadsAreSteady, Reconciler!Dequeue, Reconciler!Branch, Reconciler!Idle
<1>5. CASE \/ Reconciler!AddFinalizer \/ Reconciler!RemoveFinalizer
           \/ Reconciler!UpdateFails \/ Reconciler!ScaleReturns
           \/ Reconciler!FinalizeFails
  BY <1>5
  DEF ReadsAreSteady, Reconciler!AddFinalizer, Reconciler!RemoveFinalizer,
      Reconciler!UpdateFails, Reconciler!ScaleReturns,
      Reconciler!FinalizeFails, Reconciler!Finish, Reconciler!Store,
      Reconciler!Idle
<1>6. CASE Reconciler!FinalizeReturns
  BY <1>0, <1>6 DEF Worker, ReadsAreSteady, Reconciler!FinalizeReturns
<1>7. CASE Reconciler!Acquire \/ Reconciler!Release
  BY <1>7
  DEF ReadsAreSteady, Reconciler!Acquire, Reconciler!Release, Reconciler!storeVars
<1>8. CASE Reconciler!Crash
  BY <1>8 DEF ReadsAreSteady, Steady, Reconciler!Crash, Reconciler!Idle
<1>9. QED
  BY <1>0, <1>1, <1>2, <1>3, <1>4, <1>5, <1>6, <1>7, <1>8
  DEF Reconciler!Next, Reconciler!WorkerStep

(* A pool is of the size its AppWrapper asks for.                          *)
LEMMA AddsSteady ==
  ASSUME NEW f, OnceInv(f), NEW t \in InstanceTypes, Scaling(t)
  PROVE  demand(t) = f[key][t]
  BY DEF Scaling, demand, key, OnceInv, ReadsAreSteady

(* It is only added where there is none yet, where no answer was empty.    *)
LEMMA AddsFirst ==
  ASSUME NEW f, KindInv, OnceInv(f), NEW t \in InstanceTypes, AddPool(t),
         ~process.unsure
  PROVE  \A p \in pools : p.id \notin blind => ~(p.owner = key /\ p.type = t)
<1>1. /\ demand(t) = f[key][t] /\ PoolMissing(t) /\ Scaling(t)
      /\ process.clusterID
  BY AddsSteady DEF AddPool
<1>2. process.machineType = ClusterKind
  BY <1>1, AddsKnownKind
<1>3. ASSUME NEW p \in pools, p.id \notin blind, p.owner = key, p.type = t
      PROVE  FALSE
  <2>1. p \in {q \in OwnPools(key) : q.type = t}
    BY <1>2, <1>3 DEF OwnPools, KindInv, PoolsFitCluster, ClusterKind
  <2>2. numberOfMachines(t) = {q.replicas : q \in {r \in OwnPools(key) : r.type = t}}
    BY <2>1 DEF numberOfMachines
  <2>3. \A n \in numberOfMachines(t) : n = f[key][t]
    BY <2>2 DEF OwnPools, OnceInv, PoolsAreSteady
  <2>4. QED
    BY <1>1, <2>3 DEF PoolMissing
<1>4. QED
  BY <1>1, <1>3

(* All other steps leave the pools alone, or delete some.                  *)
LEMMA PoolsGrowByAdd ==
  ASSUME [Next]_vars
  PROVE  PoolsOnlyGo \/ \E t \in InstanceTypes : AddPool(t) \/ AddPoolUnlisted(t)
  BY DEF PoolsOnlyGo, Next, vars, ClientStep, WatchStep, Take, UpdateStep, StoreFrame,
         strategyVars, ProcessChange, CallStep, finalizeScalingDownMachines,
         ReuseScales, ReuseFinalizes, ReuseOverlooks, OverlookingReturns,
         NoStrategy, PoolStep, KeepPool,
         AddPoolFails, ListPoolsFails, PoolsScaled, ListPools,
         ListPoolsIgnored, NoConnection, DeletePool, DeletePoolFails,
         PoolsDeleted

(* What adds a pool finds none of the size that is asked for, or had an    *)
(* empty answer.                                                           *)
LEMMA OnceKept ==
  ASSUME NEW f, IInv, KindInv, OnceInv(f), Steady(f), [Next]_vars
  PROVE  OnceInv(f)'
<1>1. ReadsAreSteady(f)'
  BY ReadsKept DEF OnceInv
<1>2. CASE PoolsOnlyGo
  BY <1>1, <1>2 DEF PoolsOnlyGo, OnceInv, PoolsAreSteady, ScaledOnce
<1>3. ASSUME NEW t \in InstanceTypes, AddPool(t) \/ AddPoolUnlisted(t)
      PROVE  OnceInv(f)'
  <2>1. PICK id \in PoolIds :
           /\ pools' = pools \cup {Added(id, t)}
           /\ blind' \in {blind, blind \cup {id}}
           /\ id \notin blind' => AddPool(t) /\ ~process.unsure
    BY <1>3, Adds
  <2>2. /\ Added(id, t).owner = key /\ Added(id, t).type = t
        /\ Added(id, t).replicas = f[key][t] /\ Added(id, t).id = id
    BY <1>3, Adds, AddsSteady DEF Added
  <2>3. PoolsAreSteady(f)'
    BY <2>1, <2>2 DEF OnceInv, PoolsAreSteady
  <2>4. ScaledOnce'
    <3>1. CASE id \in blind'
      BY <2>1, <2>2, <3>1 DEF OnceInv, ScaledOnce
    <3>2. CASE id \notin blind'
      <4>1. \A p \in pools : p.id \notin blind' => ~(p.owner = key /\ p.type = t)
        BY <2>1, <3>2, AddsFirst
      <4>2. QED
        BY <2>1, <2>2, <3>2, <4>1 DEF OnceInv, ScaledOnce
    <3>3. QED
      BY <3>1, <3>2
  <2>5. QED
    BY <1>1, <2>3, <2>4 DEF OnceInv
<1>4. QED
  BY <1>2, <1>3, PoolsGrowByAdd

(* As long as AppWrappers ask for the same, whatever calls fail, replies   *)
(* are lost or processes restart, none has two pools of one type           *)
(* (numberOfMachines # replicas is all that keeps another pass of          *)
(* scaleMachinePool or scaleNodePool from adding another), but for those   *)
(* that were added after an empty answer of OCM.                           *)
THEOREM PoolsScaledOnce ==
  ASSUME NEW CONSTANT f
  PROVE  Spec /\ []Steady(f) => []ScaledOnce
<1>1. Init => OnceInv(f)
  BY OnceInit
<1>2. IInv /\ KindInv /\ OnceInv(f) /\ Steady(f) /\ [Next]_vars => OnceInv(f)'
  BY OnceKept
<1>3. OnceInv(f) => ScaledOnce
  BY DEF OnceInv
<1>4. QED
  BY <1>1, <1>2, <1>3, ControllerInvariant, KindInvariant, PTL DEF Spec
=============================================================================
