---------------------- MODULE InstaScaleRefinementProofs ----------------------
(***************************************************************************)
(* For every set of AppWrappers, instance types, demands, configurations   *)
(* and pool names: the state of the whole controller stays in range, and   *)
(* it implements AppWrapperReconciler for everything that no finalizing    *)
(* call gave up on. The inductive invariant is IInv of InstaScale.         *)
(***************************************************************************)
EXTENDS InstaScale, AppWrapperStoreProofs

USE DEF processVars, callVars, bounds, poolVars, dupVars, strategyVars

(* The counters of the bounds.                                             *)
BoundsOK ==
    writes \in 0..MaxWrites /\ edits \in 0..MaxEdits /\ faults \in 0..MaxFaults

(* A fault is only taken while there are faults left.                      *)
LEMMA BoundsType ==
  ASSUME BoundsOK, Fault \/ UNCHANGED bounds
  PROVE  BoundsOK'
  BY ProcessAssumption DEF BoundsOK, Fault

(* No call, and a process that is down, are values in range.               *)
LEMMA NoCallType == NoCall \in Call
  BY DEF NoCall, Call

LEMMA DownType == Down \in Process
  BY DEF Down, Process, Strategies, MachineTypes

(* Wherever pools are added, or MachineSets copied, it is for a number.    *)
LEMMA DemandType ==
  ASSUME NEW d \in Demands, NEW t \in DOMAIN Wants[d]
  PROVE  Wants[d][t] \in Nat
<1>1. PICK named \in SUBSET InstanceTypes : Wants[d] \in [named -> Nat]
  BY ProcessAssumption
<1>2. QED
  BY <1>1

(* A configured strategy is not taken for a kind of pool.                  *)
LEMMA StrategyType ==
  ASSUME process \in Process
  PROVE  /\ process.strategy \notin PoolKinds
         /\ FinalizeBy \in PoolKinds => FinalizeBy = process.machineType
  BY ProcessAssumption DEF Process, Strategies, PoolKinds, FinalizeBy

(* What is held for an AppWrapper, spelled out.                            *)
LEMMA HeldByWhat ==
  ASSUME NEW aw, NEW k
  PROVE  k \in HeldBy(aw)
           <=> \/ \E p \in pools : p.owner = aw /\ p.kind = k
               \/ k = "duplicate"
                    /\ \E t \in InstanceTypes : dups[aw][t].exists
               \/ k = "reuse" /\ aw \in reused
  BY DEF HeldBy

(* Before the first process starts nothing is held and nothing is under    *)
(* way.                                                                    *)
LEMMA InitInvariant == Init => IInv
<1> SUFFICES ASSUME Init PROVE IInv
  OBVIOUS
<1>1. BoundsOK
  BY ProcessAssumption DEF Init, ProcessInit, BoundsOK
<1>2. ProcessTypeOK
  BY <1>1, StoreInitType, NoCallType, DownType
  DEF Init, ProcessInit, ProcessTypeOK, BoundsOK
<1>3. /\ dups \in [AppWrappers -> [InstanceTypes -> Dup]]
      /\ dupCache = dups
  BY DEF Init, Dup, NoDup
<1>4. TypeOK
  BY <1>2, <1>3 DEF Init, ProcessInit, TypeOK
<1>5. EveryObjectAsks /\ CallIsPlaced /\ NamesAreUnique /\ NothingOverlooked
  BY InitAsks
  DEF Init, ProcessInit, StoreInit, Idle, NoCall, CallIsPlaced,
      NamesAreUnique, NothingOverlooked
<1>6. QED
  BY <1>4, <1>5 DEF IInv

-----------------------------------------------------------------------------
(* No call is under way afterwards: it ended, or none was.                 *)
LEMMA NoCallKeeps ==
  ASSUME IInv, StoreTypeOK', EveryObjectAsks', BoundsOK', call' = NoCall,
         worker'.pc # "idle" => Serving',
         installed' \in Installed, process' \in Process,
         dropped' \subseteq AppWrappers, UNCHANGED <<poolVars, dups>>,
         dupCache' \in [AppWrappers -> [InstanceTypes -> Dup]],
         dupSynced' \subseteq AppWrappers \X InstanceTypes,
         reused' \subseteq AppWrappers
  PROVE  IInv'
<1>1. TypeOK'
  BY NoCallType DEF IInv, TypeOK, ProcessTypeOK, BoundsOK
<1>2. CallIsPlaced' /\ NamesAreUnique' /\ NothingOverlooked'
  BY DEF IInv, NoCall, CallIsPlaced, NamesAreUnique, NothingOverlooked
<1>3. QED
  BY <1>1, <1>2 DEF IInv

(* A call that returns, with nil or with an error or a requeue.            *)
LEMMA ReturnKeeps ==
  ASSUME IInv, worker.pc \in {"scale", "finalize"},
         (\E r \in BOOLEAN : Return(r)) \/ Finalized,
         Fault \/ UNCHANGED bounds,
         UNCHANGED <<processVars, dropped, strategyVars>>
  PROVE  IInv'
<1>1. StoreTypeOK' /\ EveryObjectAsks'
  <2>1. StoreTypeOK'
    BY FinishType, FinalizedType
    DEF IInv, TypeOK, ProcessTypeOK, Return, Finalized
  <2>2. EveryObjectAsks'
    BY DEF IInv, TypeOK, ProcessTypeOK, StoreTypeOK, Worker, EveryObjectAsks,
           Return, Finish, Idle, Finalized
  <2>3. QED
    BY <2>1, <2>2
<1>2. BoundsOK'
  BY BoundsType DEF IInv, TypeOK, ProcessTypeOK, BoundsOK
<1>3. call' = NoCall /\ (worker'.pc # "idle" => Serving')
  BY DEF Return, Finalized, IInv, CallIsPlaced, Serving
<1>4. QED
  BY <1>1, <1>2, <1>3, NoCallKeeps DEF IInv, TypeOK, ProcessTypeOK

(* A step of the scaling call.                                             *)
LEMMA ScalingKeeps ==
  ASSUME IInv, worker.pc = "scale", UNCHANGED <<storeVars, processVars>>,
         call' \in Call, call'.stage \in {"start", "created"},
         call'.left = call.left, ScaleBy # "reuse" \/ UNCHANGED call,
         Fault \/ UNCHANGED bounds, dropped' \subseteq AppWrappers,
         pools' \subseteq Pool, blind' \subseteq PoolIds, NamesAreUnique',
         dups' \in [AppWrappers -> [InstanceTypes -> Dup]],
         UNCHANGED dupCache, dupSynced' \subseteq AppWrappers \X InstanceTypes,
         reused' \subseteq AppWrappers
  PROVE  IInv'
<1>1. BoundsOK'
  BY BoundsType DEF IInv, TypeOK, ProcessTypeOK, BoundsOK
<1>2. TypeOK'
  BY <1>1
  DEF IInv, TypeOK, ProcessTypeOK, StoreTypeOK, storeVars, BoundsOK,
      CallIsPlaced, Serving
<1>3. EveryObjectAsks' /\ CallIsPlaced' /\ NothingOverlooked'
  BY DEF IInv, storeVars, EveryObjectAsks, CallIsPlaced, Serving, ScaleBy,
         NothingOverlooked
<1>4. QED
  BY <1>2, <1>3 DEF IInv

(* A step of the finalizing call: nothing is acquired.                     *)
LEMMA FinalizingKeeps ==
  ASSUME IInv, worker.pc = "finalize", UNCHANGED <<storeVars, processVars>>,
         call' \in Call, call'.stage \in {"dispatched", "listed"},
         call'.stage = "dispatched" => call'.left = call.left,
         call'.stage = "dispatched" => call.stage # "listed",
         Fault \/ UNCHANGED bounds, dropped' \subseteq AppWrappers,
         pools' \subseteq pools, blind' \subseteq PoolIds,
         dups' \in [AppWrappers -> [InstanceTypes -> Dup]],
         UNCHANGED dupCache, dupSynced' \subseteq AppWrappers \X InstanceTypes,
         reused' \subseteq AppWrappers, NothingOverlooked'
  PROVE  IInv'
<1>1. BoundsOK'
  BY BoundsType DEF IInv, TypeOK, ProcessTypeOK, BoundsOK
<1>2. TypeOK'
  BY <1>1
  DEF IInv, TypeOK, ProcessTypeOK, StoreTypeOK, storeVars, BoundsOK,
      CallIsPlaced, Serving
<1>3. EveryObjectAsks' /\ CallIsPlaced' /\ NamesAreUnique'
  BY DEF IInv, storeVars, EveryObjectAsks, CallIsPlaced, Serving, NamesAreUnique
<1>4. QED
  BY <1>2, <1>3 DEF IInv

-----------------------------------------------------------------------------
(* Steps during which a call may be under way, but not a step of it: what  *)
(* the other clients, the watch, the administrator and the machine API do. *)
LEMMA BystanderKeeps ==
  ASSUME IInv, StoreTypeOK', EveryObjectAsks', BoundsOK',
         UNCHANGED <<process, callVars, poolVars, reused>>,
         worker'.pc = worker.pc, worker'.key = worker.key,
         installed' \in Installed,
         dups' \in [AppWrappers -> [InstanceTypes -> Dup]],
         dupCache' \in [AppWrappers -> [InstanceTypes -> Dup]],
         dupSynced' \subseteq AppWrappers \X InstanceTypes,
         \A aw \in AppWrappers, t \in InstanceTypes :
            dups'[aw][t].exists => dups[aw][t].exists
  PROVE  IInv'
<1>1. TypeOK'
  BY DEF IInv, TypeOK, ProcessTypeOK, BoundsOK, Serving
<1>2. CallIsPlaced' /\ NamesAreUnique'
  BY DEF IInv, CallIsPlaced, Serving, ScaleBy, NamesAreUnique
<1>3. ASSUME call.stage \in {"dispatched", "listed"}, key \notin dropped
      PROVE  HeldBy(key)' \subseteq {FinalizeBy}
  <2>1. key \in AppWrappers
    BY <1>3 DEF IInv, TypeOK, ProcessTypeOK, StoreTypeOK, Worker, CallIsPlaced, key
  <2>2. HeldBy(key)' \subseteq HeldBy(key)
    BY <2>1 DEF HeldBy, key
  <2>3. HeldBy(key) \subseteq {FinalizeBy}
    BY <1>3 DEF IInv, NothingOverlooked
  <2>4. QED
    BY <2>2, <2>3
<1>4. ASSUME call.stage = "listed", NEW t \in InstanceTypes
      PROVE  dups'[key][t].exists => dups[key][t].exists
  BY <1>4 DEF IInv, TypeOK, ProcessTypeOK, StoreTypeOK, Worker, CallIsPlaced, key
<1>5. NothingOverlooked'
  BY <1>3, <1>4 DEF IInv, NothingOverlooked, FinalizeBy, key
<1>6. QED
  BY <1>1, <1>2, <1>5 DEF IInv

(* What the process remembers, whatever it reads or is told.               *)
LEMMA ProcessType ==
  ASSUME process \in Process, installed \in Installed, ProcessStep, ~Reconfigure
  PROVE  process' \in Process
<1>1. CASE ReadConfiguration
  <2>1. installed.strategy \in Strategies
    BY DEF Strategies
  <2>2. QED
    BY <1>1, <2>1, DownType DEF ReadConfiguration, Process
<1>2. CASE SetupWithManager
  <2>1. PICK b \in BOOLEAN, m \in MachineTypes :
           \/ process' = Down
           \/ process' = [process EXCEPT !.stage = "running", !.watching = b,
                                         !.machineType = m]
    BY <1>2 DEF SetupWithManager, MachineTypes, PoolKinds
  <2>2. QED
    BY <2>1, DownType DEF Process
<1>3. CASE Stop
  BY <1>3, DownType DEF Stop
<1>4. CASE setMachineType
  <2>1. PICK m \in MachineTypes :
           process' = [process EXCEPT !.clusterID = TRUE, !.machineCheck = TRUE,
                                      !.machineType = m]
    BY <1>4 DEF setMachineType, MachineTypes, PoolKinds, Process
  <2>2. QED
    BY <2>1 DEF Process
<1>5. CASE SearchFails \/ CheckUnanswered \/ CheckFails
  BY <1>5 DEF SearchFails, CheckUnanswered, CheckFails, Process
<1>6. QED
  BY <1>1, <1>2, <1>3, <1>4, <1>5 DEF ProcessStep

(* The steps of the store and the process, and the duplicates' machines.   *)
LEMMA OutsideKeeps ==
  ASSUME IInv,
         \/ \E aw \in AppWrappers : ClientStep(aw) \/ WatchStep(aw) \/ Take(aw)
         \/ UpdateStep
         \/ ProcessChange
         \/ DupEnvironment /\ UNCHANGED <<poolVars, reused>>
  PROVE  IInv'
<1>0. /\ StoreTypeOK /\ EveryObjectAsks /\ BoundsOK /\ process \in Process
      /\ dups \in [AppWrappers -> [InstanceTypes -> Dup]]
      /\ dupCache \in [AppWrappers -> [InstanceTypes -> Dup]]
      /\ dupSynced \subseteq AppWrappers \X InstanceTypes
      /\ worker.pc \notin {"scale", "finalize"} => call = NoCall
      /\ ~Serving => call = NoCall
  BY DEF IInv, TypeOK, ProcessTypeOK, BoundsOK
<1>1. ASSUME NEW aw \in AppWrappers, ClientStep(aw) \/ WatchStep(aw) PROVE IInv'
  <2>1. BoundsOK'
    BY <1>0, <1>1, ProcessAssumption DEF ClientStep, WatchStep, BoundsOK
  <2>2. worker'.pc = worker.pc /\ worker'.key = worker.key
    BY <1>0, <1>1
    DEF ClientStep, WatchStep, Client, CreateAppWrapper, DeleteAppWrapper,
        EditAppWrapper, DispatchAppWrapper, ExternalWrite, Informer,
        SyncCache, Resync, StoreTypeOK, Worker
  <2>3. StoreTypeOK' /\ EveryObjectAsks'
    BY <1>0, <1>1, ClientType, ClientAsks DEF ClientStep, WatchStep
  <2>4. QED
    BY <1>0, <1>1, <2>1, <2>2, <2>3, BystanderKeeps
    DEF ClientStep, WatchStep, StoreFrame, IInv, TypeOK, ProcessTypeOK
<1>2. ASSUME NEW aw \in AppWrappers, Take(aw) PROVE IInv'
  <2>1. StoreTypeOK' /\ EveryObjectAsks'
    BY <1>0, <1>2, WorkerType, WorkerAsks DEF Take, WorkerStep
  <2>2. call' = NoCall /\ Serving'
    BY <1>0, <1>2 DEF Take, Dequeue, StoreFrame, Serving
  <2>3. QED
    BY <1>0, <1>2, <2>1, <2>2, NoCallKeeps
    DEF Take, StoreFrame, BoundsOK, IInv, TypeOK, ProcessTypeOK
<1>3. CASE UpdateStep
  <2>1. StoreTypeOK' /\ EveryObjectAsks'
    BY <1>0, <1>3, WorkerType, WorkerAsks DEF UpdateStep, WorkerStep
  <2>2. call' = NoCall /\ worker'.pc = "idle"
    BY <1>0, <1>3
    DEF UpdateStep, AddFinalizer, RemoveFinalizer, UpdateFails, Finish, Idle,
        StoreFrame
  <2>3. QED
    BY <1>0, <1>3, <2>1, <2>2, NoCallKeeps
    DEF UpdateStep, StoreFrame, BoundsOK, IInv, TypeOK, ProcessTypeOK
<1>4. CASE ProcessChange
  <2>1. /\ dupCache' \in [AppWrappers -> [InstanceTypes -> Dup]]
        /\ dupSynced' \subseteq AppWrappers \X InstanceTypes
        /\ UNCHANGED <<dups, poolVars, reused>>
    BY <1>0, <1>4 DEF ProcessChange, RelistDups
  <2>2. BoundsOK'
    <3>1. CASE Reconfigure
      BY <1>0, <3>1, ProcessAssumption DEF Reconfigure, BoundsOK
    <3>2. CASE ~Reconfigure
      BY <1>0, <1>4, <3>2, BoundsType
      DEF ProcessChange, ProcessStep, ReadConfiguration, SetupWithManager,
          Stop, setMachineType, SearchFails, CheckUnanswered, CheckFails
    <3>3. QED
      BY <3>1, <3>2
  <2>3. StoreTypeOK' /\ EveryObjectAsks'
    <3>1. UNCHANGED storeVars => StoreTypeOK' /\ EveryObjectAsks'
      BY <1>0 DEF StoreTypeOK, EveryObjectAsks, storeVars
    <3>2. QED
      BY <1>0, <1>4, <3>1, CrashType, CrashAsks
      DEF ProcessChange, ProcessStep, ReadConfiguration, SetupWithManager,
          Stop, Reconfigure, setMachineType, SearchFails, CheckUnanswered, CheckFails
  <2>4. CASE Reconfigure
    BY <1>0, <2>1, <2>2, <2>3, <2>4, BystanderKeeps DEF Reconfigure, storeVars
  <2>5. CASE ~Reconfigure
    <3>1. process' \in Process
      BY <1>4, <2>5, ProcessType DEF ProcessChange, IInv, TypeOK, ProcessTypeOK
    <3>2. worker'.pc # "idle" => Serving'
      BY <1>0, <1>4, <2>5
      DEF ProcessChange, ProcessStep, ReadConfiguration, SetupWithManager,
          Stop, setMachineType, SearchFails, CheckUnanswered, CheckFails, Crash, Idle,
          Detecting, Serving, storeVars, IInv, CallIsPlaced
    <3>3. call' = NoCall /\ dropped' = dropped /\ installed' = installed
      BY <1>0, <1>4, <2>5
      DEF ProcessChange, ProcessStep, ReadConfiguration, SetupWithManager,
          Stop, setMachineType, SearchFails, CheckUnanswered, CheckFails, Detecting, Serving
    <3>4. QED
      BY <1>0, <2>1, <2>2, <2>3, <3>1, <3>2, <3>3, NoCallKeeps
      DEF IInv, TypeOK, ProcessTypeOK
  <2>6. QED
    BY <2>4, <2>5
<1>5. ASSUME NEW aw \in AppWrappers, NEW t \in InstanceTypes,
             MachinesChange(aw, t) \/ SyncDup(aw, t), UNCHANGED <<poolVars, reused>>
      PROVE  IInv'
  <2>1. dups[aw] \in [InstanceTypes -> Dup] /\ dups[aw][t] \in Dup
    BY <1>0
  <2>2. CASE MachinesChange(aw, t)
    <3>1. PICK n \in {0, dups[aw][t].replicas} :
             StoreDup(aw, t, [dups[aw][t] EXCEPT !.available = n])
      BY <2>2 DEF MachinesChange
    <3>2. [dups[aw][t] EXCEPT !.available = n] \in Dup
      BY <2>1 DEF Dup
    <3>3. dups' = [dups EXCEPT ![aw] =
                     [dups[aw] EXCEPT ![t] = [dups[aw][t] EXCEPT !.available = n]]]
      BY <3>1 DEF StoreDup
    <3>4. [dups[aw][t] EXCEPT !.available = n].exists = dups[aw][t].exists
      BY <2>1 DEF Dup
    <3>5. /\ dups' \in [AppWrappers -> [InstanceTypes -> Dup]]
          /\ dupCache' = dupCache /\ dupSynced' \subseteq dupSynced
          /\ \A a \in AppWrappers, u \in InstanceTypes :
                dups'[a][u].exists = dups[a][u].exists
      BY <1>0, <2>1, <3>1, <3>2, <3>3, <3>4 DEF StoreDup
    <3>6. QED
      BY <1>0, <2>2, <3>5, <1>5, BystanderKeeps
      DEF MachinesChange, StoreTypeOK, EveryObjectAsks, storeVars, BoundsOK, IInv, TypeOK,
          ProcessTypeOK
  <2>3. CASE SyncDup(aw, t)
    <3>1. dupCache' \in [AppWrappers -> [InstanceTypes -> Dup]]
      BY <1>0, <2>1, <2>3 DEF SyncDup
    <3>2. dupSynced' \subseteq AppWrappers \X InstanceTypes
      BY <1>0, <2>3 DEF SyncDup
    <3>3. QED
      BY <1>0, <2>3, <3>1, <3>2, <1>5, BystanderKeeps
      DEF SyncDup, StoreTypeOK, EveryObjectAsks, storeVars, BoundsOK, IInv,
          TypeOK, ProcessTypeOK
  <2>4. QED
    BY <1>5, <2>2, <2>3
<1>6. QED
  BY <1>1, <1>2, <1>3, <1>4, <1>5 DEF DupEnvironment

-----------------------------------------------------------------------------
(* The steps of a call, by what they do: acquire, release, or return.      *)
ReuseAcquires ==
    /\ ScaleBy = "reuse" /\ Reuse!Acquire /\ dropped' = dropped \ {key}
    /\ UNCHANGED <<processVars, call, bounds, poolVars, dupVars>>

ReuseReleases ==
    /\ FinalizeBy = "reuse" /\ call.stage = "dispatched" /\ Reuse!Release
    /\ UNCHANGED <<processVars, callVars, bounds, poolVars, dupVars>>

ReuseReturns ==
    /\ \/ ScaleBy = "reuse" /\ Reuse!ScaleReturns /\ UNCHANGED call
       \/ /\ FinalizeBy = "reuse" /\ call.stage = "dispatched"
          /\ Reuse!FinalizeReturns \/ Reuse!FinalizeFails
          /\ call' = NoCall
    /\ UNCHANGED <<processVars, dropped, bounds, poolVars, dupVars>>

ScaleStep ==
    \/ \E t \in InstanceTypes :
          /\ KeepPool(t) \/ AddPool(t) \/ AddPoolUnlisted(t) \/ AddPoolFails(t)
          /\ UNCHANGED <<dupVars, reused>>
    \/ \E t \in InstanceTypes :
          /\ PassMachineSet(t) \/ CreateMachineSet(t)
          /\ UNCHANGED <<poolVars, reused>>
    \/ ReuseAcquires

ReturnStep ==
    \/ /\ ListPoolsFails \/ PoolsScaled \/ NoConnection \/ PoolsDeleted
       /\ UNCHANGED <<dupVars, reused>>
    \/ /\ \/ \E t \in InstanceTypes : AwaitMachineSet(t) \/ DeleteMachineSetFails(t)
          \/ MachineSetCreated \/ MachineSetsCopied \/ CopiesDeleted
       /\ UNCHANGED <<poolVars, reused>>
    \/ OverlookingReturns
    \/ NoStrategy

(* What a scaling call adds.                                               *)
LEMMA ScaleStepKeeps ==
  ASSUME IInv, ScaleStep
  PROVE  IInv'
<1>0. /\ call \in Call /\ worker \in Worker /\ dropped \subseteq AppWrappers
      /\ pools \subseteq Pool /\ blind \subseteq PoolIds
      /\ dups \in [AppWrappers -> [InstanceTypes -> Dup]]
      /\ dupSynced \subseteq AppWrappers \X InstanceTypes
      /\ reused \subseteq AppWrappers /\ NamesAreUnique
      /\ worker.pc = "scale" => call.stage \in {"start", "created"}
      /\ worker.pc = "scale" => key \in AppWrappers /\ worker.copy.demand \in Demands
  BY DEF IInv, TypeOK, ProcessTypeOK, StoreTypeOK, EveryObjectAsks, Worker,
         Call, CallIsPlaced, key
<1>1. ASSUME NEW t \in InstanceTypes, KeepPool(t) \/ AddPoolFails(t),
             UNCHANGED <<dupVars, reused>>
      PROVE  IInv'
  <2>1. call' \in Call /\ call'.stage = call.stage /\ call'.left = call.left
    BY <1>0, <1>1 DEF KeepPool, AddPoolFails, TypeDone, Call
  <2>2. NamesAreUnique'
    BY <1>0, <1>1 DEF KeepPool, AddPoolFails, NamesAreUnique
  <2>3. QED
    BY <1>0, <1>1, <2>1, <2>2, ScalingKeeps DEF KeepPool, AddPoolFails, Scaling, PoolKinds
<1>2. ASSUME NEW t \in InstanceTypes, AddPool(t) \/ AddPoolUnlisted(t),
             UNCHANGED <<dupVars, reused>>
      PROVE  IInv'
  <2>1. /\ call' \in Call /\ call'.stage = call.stage /\ call'.left = call.left
        /\ Scaling(t) /\ UNCHANGED <<storeVars, processVars>>
        /\ dropped' = dropped \ {key} /\ (Fault \/ UNCHANGED bounds)
    BY <1>0, <1>2 DEF AddPool, AddPoolUnlisted, TypeDone, Call
  <2>2. PICK id \in PoolIds : /\ ~Taken(id) /\ pools' = pools \cup {Added(id, t)}
                              /\ blind' \in {blind, blind \cup {id}}
    BY <1>2 DEF AddPool, AddPoolUnlisted, AddedTo, generateMachineName
  <2>3. demand(t) \in Nat
    BY <1>0, <2>1, DemandType DEF Scaling, Named, demand
  <2>4. Added(id, t) \in Pool
    <3>1. process.machineType \in PoolKinds /\ key \in AppWrappers
      BY <1>0, <2>1, StrategyType
      DEF Scaling, ScaleBy, IInv, TypeOK, ProcessTypeOK
    <3>2. QED
      BY <2>3, <3>1 DEF Added, Pool
  <2>5. NamesAreUnique'
    BY <1>0, <2>2 DEF NamesAreUnique, Taken, Added
  <2>6. QED
    BY <1>0, <1>2, <2>1, <2>2, <2>4, <2>5, ScalingKeeps DEF Scaling, PoolKinds
<1>3. ASSUME NEW t \in InstanceTypes, PassMachineSet(t), UNCHANGED <<poolVars, reused>>
      PROVE  IInv'
  <2>1. /\ call' \in Call /\ call'.stage = call.stage
        /\ call'.left = call.left /\ NamesAreUnique'
    BY <1>0, <1>3 DEF PassMachineSet, Call, NamesAreUnique
  <2>2. QED
    BY <1>0, <1>3, <2>1, ScalingKeeps DEF PassMachineSet, Copying
<1>4. ASSUME NEW t \in InstanceTypes, CreateMachineSet(t), UNCHANGED <<poolVars, reused>>
      PROVE  IInv'
  <2>1. /\ call' \in Call /\ call'.stage = "created"
        /\ call'.left = call.left /\ NamesAreUnique'
    BY <1>0, <1>4 DEF CreateMachineSet, Call, NamesAreUnique
  <2>2. [NoDup EXCEPT !.exists = TRUE, !.replicas = demand(t)] \in Dup
    BY <1>0, <1>4, DemandType
    DEF CreateMachineSet, Copying, Named, demand, NoDup, Dup
  <2>3. dups' \in [AppWrappers -> [InstanceTypes -> Dup]]
    BY <1>0, <1>4, <2>2 DEF CreateMachineSet, StoreDup, Copying
  <2>4. QED
    BY <1>0, <1>4, <2>1, <2>3, ScalingKeeps DEF CreateMachineSet, StoreDup, Copying
<1>5. CASE ReuseAcquires
  <2>1. /\ worker.pc = "scale" /\ reused' = reused \cup {key} /\ NamesAreUnique'
        /\ UNCHANGED storeVars
    BY <1>0, <1>5
    DEF ReuseAcquires, Reuse!Acquire, Reuse!storeVars, storeVars, key, NamesAreUnique
  <2>2. QED
    BY <1>0, <1>5, <2>1, ScalingKeeps DEF ReuseAcquires
<1>6. QED
  BY <1>1, <1>2, <1>3, <1>4, <1>5 DEF ScaleStep

(* A call that returns leaves what is held as it is.                       *)
LEMMA ReturnStepKeeps ==
  ASSUME IInv, ReturnStep
  PROVE  IInv'
<1>1. worker.pc \in {"scale", "finalize"} /\ (Fault \/ UNCHANGED bounds)
  BY DEF ReturnStep, ListPoolsFails, PoolsScaled, NoConnection, PoolsDeleted,
         AwaitMachineSet, DeleteMachineSetFails, MachineSetCreated,
         MachineSetsCopied, CopiesDeleted, NoStrategy, OverlookingReturns,
         Scaling, Deleting, Copying, Removing, Reusing
<1>2. (\E r \in BOOLEAN : Return(r)) \/ Finalized
  BY DEF ReturnStep, ListPoolsFails, PoolsScaled, NoConnection, PoolsDeleted,
         AwaitMachineSet, DeleteMachineSetFails, MachineSetCreated,
         MachineSetsCopied, CopiesDeleted, NoStrategy, OverlookingReturns
<1>3. UNCHANGED <<processVars, dropped, strategyVars>>
  BY DEF ReturnStep, ListPoolsFails, PoolsScaled, NoConnection, PoolsDeleted,
         AwaitMachineSet, DeleteMachineSetFails, MachineSetCreated,
         MachineSetsCopied, CopiesDeleted, NoStrategy, OverlookingReturns
<1>4. QED
  BY <1>1, <1>2, <1>3, ReturnKeeps

-----------------------------------------------------------------------------
(* The steps of a finalizing call before it returns.                       *)
FinalizeStep ==
    \/ finalizeScalingDownMachines
    \/ ReuseOverlooks
    \/ /\ \/ ListPools \/ ListPoolsIgnored
          \/ \E id \in PoolIds : DeletePool(id) \/ DeletePoolFails(id)
       /\ UNCHANGED <<dupVars, reused>>
    \/ /\ ListCopies \/ \E t \in InstanceTypes : DeleteMachineSet(t)
       /\ UNCHANGED <<poolVars, reused>>
    \/ ReuseReleases

(* The steps of a call, by what they do to what is held.                   *)
LEMMA CallSteps == CallStep => ScaleStep \/ FinalizeStep \/ ReturnStep \/ ReuseReturns
  BY DEF CallStep, PoolStep, DupStep, ReuseScales, ReuseFinalizes, ScaleStep,
         FinalizeStep, ReturnStep, ReuseAcquires, ReuseReleases, ReuseReturns,
         Reusing

(* As ReturnKeeps, for what AppWrapperReconciler says of the strategy.     *)
LEMMA ReuseReturnsKeeps ==
  ASSUME IInv, ReuseReturns
  PROVE  IInv'
<1>1. CASE ScaleBy = "reuse" /\ Reuse!ScaleReturns /\ UNCHANGED call
  <2>1. PICK r \in BOOLEAN : Reuse!Finish(r)
    BY <1>1 DEF Reuse!ScaleReturns
  <2>2. Finish(r)
    BY <2>1 DEF Finish, Idle, Absent, Reuse!Finish, Reuse!Idle, Reuse!Absent
  <2>3. worker.pc = "scale" /\ call' = NoCall /\ UNCHANGED <<api, cache, synced, reused>>
    BY <1>1 DEF Reuse!ScaleReturns, IInv, CallIsPlaced
  <2>4. QED
    BY <2>2, <2>3, ReturnKeeps DEF ReuseReturns, Return
<1>2. CASE Reuse!FinalizeReturns /\ call' = NoCall
  BY <1>2, ReturnKeeps DEF ReuseReturns, Reuse!FinalizeReturns, Finalized
<1>3. CASE Reuse!FinalizeFails /\ call' = NoCall
  <2>1. Finish(TRUE)
    BY <1>3
    DEF Finish, Idle, Absent, Reuse!FinalizeFails, Reuse!Finish, Reuse!Idle,
        Reuse!Absent
  <2>2. QED
    BY <1>3, <2>1, ReturnKeeps DEF ReuseReturns, Return, Reuse!FinalizeFails
<1>4. QED
  BY <1>1, <1>2, <1>3 DEF ReuseReturns

(* Where nothing is added, no more is held.                                *)
LEMMA HeldByShrinks ==
  ASSUME UNCHANGED <<storeVars, processVars>>, pools' \subseteq pools,
         reused' \subseteq reused,
         \A t \in InstanceTypes :
            dups'[key][t].exists => dups[key][t].exists
  PROVE  /\ HeldBy(key)' \subseteq HeldBy(key) /\ FinalizeBy' = FinalizeBy
         /\ key' = key
  BY DEF HeldBy, FinalizeBy, storeVars, key

(* The finalizing call chooses a strategy, lists, and deletes one by one.  *)
LEMMA FinalizeStepKeeps ==
  ASSUME IInv, FinalizeStep
  PROVE  IInv'
<1>0. /\ call \in Call /\ dropped \subseteq AppWrappers /\ process \in Process
      /\ pools \subseteq Pool /\ blind \subseteq PoolIds
      /\ dups \in [AppWrappers -> [InstanceTypes -> Dup]]
      /\ dupSynced \subseteq AppWrappers \X InstanceTypes
      /\ reused \subseteq AppWrappers
      /\ worker.pc = "finalize" => key \in AppWrappers
      /\ NothingOverlooked
  BY DEF IInv, TypeOK, ProcessTypeOK, StoreTypeOK, Worker, key
<1>1. CASE finalizeScalingDownMachines
  <2>1. /\ call' \in Call /\ call'.stage = "dispatched"
        /\ call'.left = call.left /\ call.stage = "start"
    BY <1>0, <1>1 DEF finalizeScalingDownMachines, Call
  <2>2. UNCHANGED <<storeVars, processVars, strategyVars, bounds>>
    BY <1>1 DEF finalizeScalingDownMachines
  <2>3. NothingOverlooked'
    BY <1>1, <2>1, <2>2, HeldByShrinks DEF finalizeScalingDownMachines, NothingOverlooked
  <2>4. QED
    BY <1>0, <1>1, <2>1, <2>2, <2>3, FinalizingKeeps DEF finalizeScalingDownMachines
<1>2. CASE ListPools /\ UNCHANGED <<dupVars, reused>>
  <2>1. /\ call' \in Call /\ call'.stage = "listed"
        /\ call'.left = {p.id : p \in OwnPools(key)}
    <3>1. {p.id : p \in OwnPools(key)} \subseteq PoolIds
      BY <1>0 DEF OwnPools, Pool
    <3>2. QED
      BY <1>0, <1>2, <3>1 DEF ListPools, Call
  <2>2. /\ UNCHANGED <<storeVars, processVars, strategyVars, bounds, dropped>>
        /\ worker.pc = "finalize" /\ FinalizeBy \in PoolKinds
        /\ call.stage = "dispatched"
    BY <1>2 DEF ListPools, Deleting
  <2>3. /\ FinalizeBy = process.machineType
        /\ FinalizeBy \notin {"duplicate", "reuse"}
    BY <1>0, <2>2, StrategyType DEF PoolKinds
  <2>4. ASSUME key \notin dropped PROVE HeldBy(key) \subseteq {FinalizeBy}
    BY <1>0, <2>2, <2>4 DEF NothingOverlooked
  <2>5. ASSUME key \notin dropped, NEW p \in pools, p.owner = key
        PROVE  p.id \in call'.left
    <3>1. p.kind \in HeldBy(key)
      BY <2>5, HeldByWhat
    <3>2. p \in OwnPools(key)
      BY <2>3, <2>4, <2>5, <3>1 DEF OwnPools
    <3>3. QED
      BY <2>1, <3>2
  <2>6. ASSUME NEW p \in pools, p.id \in call'.left PROVE p.owner = key
    <3>1. PICK q \in OwnPools(key) : q.id = p.id
      BY <2>1, <2>6
    <3>2. QED
      BY <3>1 DEF OwnPools, IInv, NamesAreUnique
  <2>7. NothingOverlooked'
    BY <2>1, <2>2, <2>3, <2>4, <2>5, <2>6, HeldByShrinks DEF NothingOverlooked
  <2>8. QED
    BY <1>0, <2>1, <2>2, <2>7, FinalizingKeeps
<1>3. CASE ListPoolsIgnored /\ UNCHANGED <<dupVars, reused>>
  <2>1. /\ call' \in Call /\ call'.stage = "listed" /\ call'.left = call.left
        /\ dropped' = dropped \cup {key} /\ call.stage = "dispatched"
        /\ worker.pc = "finalize" /\ FinalizeBy \in PoolKinds
    BY <1>0, <1>3 DEF ListPoolsIgnored, Deleting, Call
  <2>2. call.left = {}
    BY <2>1 DEF IInv, CallIsPlaced
  <2>3. UNCHANGED <<storeVars, processVars, strategyVars>>
    BY <1>3 DEF ListPoolsIgnored
  <2>4. NothingOverlooked'
    BY <2>1, <2>2, <2>3, HeldByShrinks DEF NothingOverlooked
  <2>5. QED
    BY <1>0, <1>3, <2>1, <2>3, <2>4, FinalizingKeeps DEF ListPoolsIgnored
<1>4. ASSUME NEW id \in PoolIds, DeletePool(id) \/ DeletePoolFails(id),
             UNCHANGED <<dupVars, reused>>
      PROVE  IInv'
  <2>1. /\ call' \in Call /\ call'.stage = "listed" /\ call.stage = "listed"
        /\ call'.left = call.left \ {id}
        /\ worker.pc = "finalize" /\ FinalizeBy \in PoolKinds
    BY <1>0, <1>4 DEF DeletePool, DeletePoolFails, Deleting, Call
  <2>2. /\ \/ pools' = {p \in pools : p.id # id} /\ dropped' = dropped
           \/ pools' = pools /\ dropped' = dropped \cup {key}
        /\ UNCHANGED <<storeVars, processVars, dupVars, reused>>
        /\ blind' \subseteq blind
    BY <1>4 DEF DeletePool, DeletePoolFails
  <2>3. pools' \subseteq pools /\ FinalizeBy \notin {"duplicate", "reuse"}
    BY <2>1, <2>2 DEF PoolKinds
  <2>4. HeldBy(key)' \subseteq HeldBy(key) /\ FinalizeBy' = FinalizeBy /\ key' = key
    BY <2>2, <2>3, HeldByShrinks
  <2>5. NothingOverlooked'
    BY <1>0, <2>1, <2>2, <2>3, <2>4 DEF NothingOverlooked
  <2>6. QED
    BY <1>0, <1>4, <2>1, <2>2, <2>3, <2>5, FinalizingKeeps
    DEF DeletePool, DeletePoolFails
<1>5. CASE ListCopies /\ UNCHANGED <<poolVars, reused>>
  <2>1. /\ call' \in Call /\ call'.stage = "listed"
        /\ call'.left = {t \in InstanceTypes : Copied(t)}
    BY <1>0, <1>5 DEF ListCopies, Call
  <2>2. /\ UNCHANGED <<storeVars, processVars, strategyVars, bounds>>
        /\ worker.pc = "finalize" /\ FinalizeBy = "duplicate"
        /\ call.stage = "dispatched"
        /\ dropped' = dropped \/ dropped' = dropped \cup {key}
        /\ key \notin dropped'
              => \A t \in InstanceTypes : dups[key][t].exists => Copied(t)
    BY <1>5 DEF ListCopies, Removing
  <2>3. NothingOverlooked'
    BY <1>0, <2>1, <2>2, HeldByShrinks DEF NothingOverlooked, PoolKinds
  <2>4. QED
    BY <1>0, <2>1, <2>2, <2>3, FinalizingKeeps
<1>6. ASSUME NEW t \in InstanceTypes, DeleteMachineSet(t), UNCHANGED <<poolVars, reused>>
      PROVE  IInv'
  <2>1. /\ call' \in Call /\ call'.stage = "listed" /\ call.stage = "listed"
        /\ call'.left = call.left \ {t}
        /\ worker.pc = "finalize" /\ FinalizeBy = "duplicate"
    BY <1>0, <1>6 DEF DeleteMachineSet, Removing, Call
  <2>2. dups' = [dups EXCEPT ![key] = [dups[key] EXCEPT ![t] = NoDup]]
    BY <1>6 DEF DeleteMachineSet, StoreDup
  <2>3. dups[key] \in [InstanceTypes -> Dup] /\ NoDup \in Dup /\ ~NoDup.exists
    BY <1>0, <2>1 DEF Dup, NoDup
  <2>4. /\ dups' \in [AppWrappers -> [InstanceTypes -> Dup]]
        /\ ~dups'[key][t].exists
        /\ \A u \in InstanceTypes \ {t} : dups'[key][u] = dups[key][u]
    BY <1>0, <2>1, <2>2, <2>3
  <2>5. HeldBy(key)' \subseteq HeldBy(key) /\ FinalizeBy' = FinalizeBy /\ key' = key
    BY <1>6, <2>4, HeldByShrinks DEF DeleteMachineSet
  <2>6. NothingOverlooked'
    BY <1>0, <1>6, <2>1, <2>4, <2>5
    DEF DeleteMachineSet, NothingOverlooked, PoolKinds
  <2>7. QED
    BY <1>0, <1>6, <2>1, <2>4, <2>6, FinalizingKeeps DEF DeleteMachineSet, StoreDup
<1>7. CASE ReuseReleases
  <2>1. /\ worker.pc = "finalize" /\ reused' = reused \ {key}
        /\ UNCHANGED storeVars
    BY <1>7 DEF ReuseReleases, Reuse!Release, Reuse!storeVars, storeVars, key
  <2>2. NothingOverlooked'
    BY <1>0, <1>7, <2>1, HeldByShrinks DEF ReuseReleases, NothingOverlooked, storeVars
  <2>3. QED
    BY <1>0, <1>7, <2>1, <2>2, FinalizingKeeps DEF ReuseReleases
<1>8. CASE ReuseOverlooks
  <2>1. /\ call' \in Call /\ call'.stage = "listed" /\ call'.left = call.left
        /\ dropped' = dropped \cup {key} /\ call.stage = "dispatched"
        /\ worker.pc = "finalize" /\ FinalizeBy = "reuse"
    BY <1>0, <1>8 DEF ReuseOverlooks, Reusing, Call
  <2>2. call.left = {}
    BY <2>1 DEF IInv, CallIsPlaced
  <2>3. UNCHANGED <<storeVars, processVars, strategyVars, bounds>>
    BY <1>8 DEF ReuseOverlooks
  <2>4. NothingOverlooked'
    BY <2>1, <2>2, <2>3, HeldByShrinks DEF NothingOverlooked
  <2>5. QED
    BY <1>0, <2>1, <2>3, <2>4, FinalizingKeeps
<1>9. QED
  BY <1>1, <1>2, <1>3, <1>4, <1>5, <1>6, <1>7, <1>8 DEF FinalizeStep

-----------------------------------------------------------------------------
(* The invariant is kept by every step of the composition.                 *)
LEMMA StepKeeps ==
  ASSUME IInv, [Next]_vars
  PROVE  IInv'
<1>1. CASE UNCHANGED vars
  <2>1. TypeOK' /\ EveryObjectAsks' /\ NamesAreUnique'
    BY <1>1
    DEF vars, storeVars, IInv, TypeOK, ProcessTypeOK, StoreTypeOK,
        EveryObjectAsks, NamesAreUnique, Serving
  <2>2. CallIsPlaced'
    BY <1>1 DEF vars, storeVars, IInv, CallIsPlaced, Serving, ScaleBy
  <2>3. NothingOverlooked'
    BY <1>1 DEF vars, storeVars, IInv, NothingOverlooked, HeldBy, FinalizeBy, key
  <2>4. QED
    BY <2>1, <2>2, <2>3 DEF IInv
<1>2. CASE Next
  BY <1>2, OutsideKeeps, CallSteps, ScaleStepKeeps, FinalizeStepKeeps,
     ReturnStepKeeps, ReuseReturnsKeeps
  DEF Next
<1>3. QED
  BY <1>1, <1>2

(* The invariant of every reachable state: whatever the configuration was  *)
(* and is, a finalizing call that has not given up knows of all that is    *)
(* held for its AppWrapper, and of nothing of another one's.               *)
THEOREM ControllerInvariant == Spec => []IInv
<1>1. IInv /\ [Next]_vars => IInv'
  BY StepKeeps
<1>2. QED
  BY <1>1, InitInvariant, PTL DEF Spec

(* Every variable of the controller stays in its range, and a call is only *)
(* under way in a pass of a process that serves.                           *)
THEOREM ControllerTypeCorrect == Spec => []TypeOK
<1>1. IInv => TypeOK
  BY DEF IInv
<1>2. QED
  BY <1>1, ControllerInvariant, PTL

-----------------------------------------------------------------------------
(* The steps of the AppWrappers, the cache and the worker are those of     *)
(* AppWrapperReconciler.                                                   *)
LEMMA SameSteps ==
  /\ Reconciler!StoreInit = StoreInit
  /\ \A aw \in AppWrappers : /\ Client(aw) => Reconciler!Client(aw)
                             /\ Informer(aw) => Reconciler!Informer(aw)
  /\ WorkerStep => Reconciler!WorkerStep
  /\ Crash => Reconciler!Crash
  /\ \A r \in BOOLEAN : Finish(r) => Reconciler!Finish(r)
<1>1. Reconciler!StoreInit = StoreInit
  BY DEF StoreInit, Reconciler!StoreInit, Idle, Absent, Reconciler!Idle,
         Reconciler!Absent
<1>2. ASSUME NEW aw \in AppWrappers, Client(aw) PROVE Reconciler!Client(aw)
  BY <1>2
  DEF Client, CreateAppWrapper, DeleteAppWrapper, EditAppWrapper,
      DispatchAppWrapper, ExternalWrite, Store, States, Absent,
      Reconciler!Client, Reconciler!CreateAppWrapper,
      Reconciler!DeleteAppWrapper, Reconciler!EditAppWrapper,
      Reconciler!DispatchAppWrapper, Reconciler!ExternalWrite,
      Reconciler!Store, Reconciler!States, Reconciler!Absent
<1>3. ASSUME NEW aw \in AppWrappers, Informer(aw) PROVE Reconciler!Informer(aw)
  BY <1>3
  DEF Informer, SyncCache, Resync, Reconciler!Informer,
      Reconciler!SyncCache, Reconciler!Resync
<1>4. ASSUME NEW r \in BOOLEAN, Finish(r) PROVE Reconciler!Finish(r)
  BY <1>4
  DEF Finish, Idle, Absent, Reconciler!Finish, Reconciler!Idle,
      Reconciler!Absent
<1>5. ASSUME WorkerStep PROVE Reconciler!WorkerStep
  BY <1>4, <1>5
  DEF WorkerStep, Dequeue, AddFinalizer, RemoveFinalizer, UpdateFails,
      Branch, Terminal, Store, Idle, Absent,
      Reconciler!WorkerStep, Reconciler!Dequeue, Reconciler!AddFinalizer,
      Reconciler!RemoveFinalizer, Reconciler!UpdateFails, Reconciler!Branch,
      Reconciler!Terminal, Reconciler!Store, Reconciler!Idle, Reconciler!Absent
<1>6. ASSUME Crash PROVE Reconciler!Crash
  BY <1>6
  DEF Crash, Idle, Absent, Reconciler!Crash, Reconciler!Idle, Reconciler!Absent
<1>7. QED
  BY <1>1, <1>2, <1>3, <1>4, <1>5, <1>6

(* Nothing that AppWrapperReconciler speaks of changes.                    *)
LEMMA Stutters ==
  ASSUME UNCHANGED <<api, cache, synced, queue, worker>>,
         Held' \ dropped' = Held \ dropped
  PROVE  UNCHANGED Reconciler!vars
  BY DEF Reconciler!vars

(* What is held depends on which pools and copies there are, and no more.  *)
LEMMA HeldStays ==
  ASSUME UNCHANGED <<pools, reused>>,
         \A aw \in AppWrappers, t \in InstanceTypes :
            dups'[aw][t].exists = dups[aw][t].exists
  PROVE  Held' = Held
<1>1. ASSUME NEW aw \in AppWrappers PROVE HeldBy(aw)' = HeldBy(aw)
  BY DEF HeldBy
<1>2. QED
  BY <1>1 DEF Held

(* Before the first process starts, AppWrapperReconciler is in its initial *)
(* state.                                                                  *)
LEMMA InitRefines ==
  ASSUME Init
  PROVE  Reconciler!Init
<1>1. Held = {}
  BY DEF Init, NoDup, Held, HeldBy
<1>2. QED
  BY <1>1, SameSteps DEF Init, ProcessInit, Reconciler!Init

(* Something is acquired for the AppWrapper being scaled.                  *)
LEMMA Acquires ==
  ASSUME worker.pc = "scale", key \in AppWrappers, UNCHANGED storeVars,
         dropped' = dropped \ {key}, HeldBy(key)' # {},
         \A aw \in AppWrappers \ {key} : HeldBy(aw)' = HeldBy(aw)
  PROVE  Reconciler!Acquire
<1>1. key' = key
  BY DEF storeVars, key
<1>2. Held' \ dropped' = (Held \ dropped) \cup {key}
  BY <1>1 DEF Held
<1>3. QED
  BY <1>2 DEF Reconciler!Acquire, Reconciler!storeVars, storeVars, key

(* Something of the AppWrapper being finalized is given back, or given up. *)
LEMMA Releases ==
  ASSUME worker.pc = "finalize", key \in AppWrappers, UNCHANGED storeVars,
         dropped' \in {dropped, dropped \cup {key}},
         HeldBy(key)' \subseteq HeldBy(key),
         \A aw \in AppWrappers \ {key} : HeldBy(aw)' = HeldBy(aw)
  PROVE  Reconciler!Release \/ UNCHANGED Reconciler!vars
<1>1. key' = key
  BY DEF storeVars, key
<1>2. \/ Held' \ dropped' = Held \ dropped
      \/ Held' \ dropped' = (Held \ dropped) \ {key}
  BY <1>1 DEF Held
<1>3. QED
  BY <1>2, Stutters DEF Reconciler!Release, Reconciler!storeVars, storeVars, key

(* The calls that add a pool, or a MachineSet, or have one grown.          *)
LEMMA ScaleStepRefines ==
  ASSUME IInv, ScaleStep
  PROVE  Reconciler!Acquire \/ UNCHANGED Reconciler!vars
<1>0. /\ dups \in [AppWrappers -> [InstanceTypes -> Dup]]
      /\ worker.pc = "scale" => key \in AppWrappers
  BY DEF IInv, TypeOK, ProcessTypeOK, StoreTypeOK, Worker, key
<1>1. ASSUME NEW t \in InstanceTypes,
             \/ (KeepPool(t) \/ AddPoolFails(t)) /\ UNCHANGED <<dupVars, reused>>
             \/ PassMachineSet(t) /\ UNCHANGED <<poolVars, reused>>
      PROVE  UNCHANGED Reconciler!vars
  <2>1. UNCHANGED <<storeVars, dropped, pools, dups, reused>>
    BY <1>1 DEF KeepPool, AddPoolFails, PassMachineSet
  <2>2. QED
    BY <2>1, HeldStays, Stutters DEF storeVars
<1>2. ASSUME NEW t \in InstanceTypes, AddPool(t) \/ AddPoolUnlisted(t),
             UNCHANGED <<dupVars, reused>>
      PROVE  Reconciler!Acquire
  <2>1. PICK id \in PoolIds : pools' = pools \cup {Added(id, t)}
    BY <1>2 DEF AddPool, AddPoolUnlisted, AddedTo, generateMachineName
  <2>2. /\ worker.pc = "scale" /\ UNCHANGED storeVars /\ dropped' = dropped \ {key}
        /\ key' = key
    BY <1>2 DEF AddPool, AddPoolUnlisted, Scaling, storeVars, key
  <2>3. Added(id, t) \in pools' /\ Added(id, t).owner = key
    BY <2>1 DEF Added
  <2>4. HeldBy(key)' # {}
    BY <2>2, <2>3 DEF HeldBy
  <2>5. ASSUME NEW aw \in AppWrappers \ {key} PROVE HeldBy(aw)' = HeldBy(aw)
    <3>1. {p \in pools' : p.owner = aw} = {p \in pools : p.owner = aw}
      BY <2>1, <2>3
    <3>2. QED
      BY <1>2, <3>1 DEF HeldBy
  <2>6. QED
    BY <1>0, <2>2, <2>4, <2>5, Acquires
<1>3. ASSUME NEW t \in InstanceTypes, CreateMachineSet(t), UNCHANGED <<poolVars, reused>>
      PROVE  Reconciler!Acquire
  <2>1. /\ worker.pc = "scale" /\ UNCHANGED storeVars /\ dropped' = dropped \ {key}
        /\ key' = key
    BY <1>3 DEF CreateMachineSet, Copying, storeVars, key
  <2>2. dups' = [dups EXCEPT ![key] =
                   [dups[key] EXCEPT ![t] =
                      [NoDup EXCEPT !.exists = TRUE, !.replicas = demand(t)]]]
    BY <1>3 DEF CreateMachineSet, StoreDup
  <2>3. [NoDup EXCEPT !.exists = TRUE, !.replicas = demand(t)].exists
    BY DEF NoDup
  <2>4. dups[key] \in [InstanceTypes -> Dup]
    BY <1>0, <2>1
  <2>5. /\ dups'[key][t].exists
        /\ \A aw \in AppWrappers \ {key} : dups'[aw] = dups[aw]
    BY <1>0, <2>1, <2>2, <2>3, <2>4
  <2>6. HeldBy(key)' # {}
    BY <2>1, <2>5 DEF HeldBy
  <2>7. ASSUME NEW aw \in AppWrappers \ {key} PROVE HeldBy(aw)' = HeldBy(aw)
    BY <1>3, <2>5 DEF HeldBy
  <2>8. QED
    BY <1>0, <2>1, <2>6, <2>7, Acquires
<1>4. CASE ReuseAcquires
  <2>1. /\ worker.pc = "scale" /\ reused' = reused \cup {key}
        /\ UNCHANGED storeVars /\ key' = key /\ dropped' = dropped \ {key}
    BY <1>4 DEF ReuseAcquires, Reuse!Acquire, Reuse!storeVars, storeVars, key
  <2>2. HeldBy(key)' # {}
    BY <2>1 DEF HeldBy
  <2>3. ASSUME NEW aw \in AppWrappers \ {key} PROVE HeldBy(aw)' = HeldBy(aw)
    BY <1>4, <2>1 DEF ReuseAcquires, HeldBy
  <2>4. QED
    BY <1>0, <2>1, <2>2, <2>3, Acquires
<1>5. QED
  BY <1>1, <1>2, <1>3, <1>4 DEF ScaleStep

(* The calls that give back, or give up: only what is the AppWrapper's.    *)
LEMMA FinalizeStepRefines ==
  ASSUME IInv, FinalizeStep
  PROVE  Reconciler!Release \/ UNCHANGED Reconciler!vars
<1>0. /\ dups \in [AppWrappers -> [InstanceTypes -> Dup]]
      /\ worker.pc = "finalize" => key \in AppWrappers
      /\ NothingOverlooked
  BY DEF IInv, TypeOK, ProcessTypeOK, StoreTypeOK, Worker, key
<1>1. CASE \/ finalizeScalingDownMachines \/ ReuseOverlooks
           \/ /\ \/ ListPools \/ ListPoolsIgnored
                 \/ \E id \in PoolIds : DeletePoolFails(id)
              /\ UNCHANGED <<dupVars, reused>>
           \/ ListCopies /\ UNCHANGED <<poolVars, reused>>
  <2>1. /\ worker.pc = "finalize" /\ UNCHANGED <<storeVars, pools, dups, reused>>
        /\ dropped' \in {dropped, dropped \cup {key}}
    BY <1>1
    DEF finalizeScalingDownMachines, ReuseOverlooks, Reusing, ListPools,
        ListPoolsIgnored, DeletePoolFails, ListCopies, Deleting, Removing
  <2>2. ASSUME NEW aw PROVE HeldBy(aw)' = HeldBy(aw)
    BY <2>1 DEF HeldBy
  <2>3. HeldBy(key)' = HeldBy(key)
    BY <2>1 DEF HeldBy, storeVars, key
  <2>4. QED
    BY <1>0, <2>1, <2>2, <2>3, Releases
<1>2. ASSUME NEW id \in PoolIds, DeletePool(id), UNCHANGED <<dupVars, reused>>
      PROVE  Reconciler!Release \/ UNCHANGED Reconciler!vars
  <2>1. /\ worker.pc = "finalize" /\ UNCHANGED <<storeVars, processVars, dropped>>
        /\ pools' = {p \in pools : p.id # id}
        /\ call.stage = "listed" /\ id \in call.left /\ FinalizeBy \in PoolKinds
    BY <1>2 DEF DeletePool, Deleting
  <2>2. ASSUME NEW p \in pools, p.id = id PROVE p.owner = key
    BY <1>0, <2>1, <2>2 DEF NothingOverlooked
  <2>3. ASSUME NEW aw \in AppWrappers \ {key} PROVE HeldBy(aw)' = HeldBy(aw)
    <3>1. {p \in pools' : p.owner = aw} = {p \in pools : p.owner = aw}
      BY <2>1, <2>2
    <3>2. QED
      BY <1>2, <3>1 DEF HeldBy
  <2>4. HeldBy(key)' \subseteq HeldBy(key)
    BY <1>2, <2>1, HeldByShrinks
  <2>5. QED
    BY <1>0, <2>1, <2>3, <2>4, Releases
<1>3. ASSUME NEW t \in InstanceTypes, DeleteMachineSet(t), UNCHANGED <<poolVars, reused>>
      PROVE  Reconciler!Release \/ UNCHANGED Reconciler!vars
  <2>1. /\ worker.pc = "finalize" /\ UNCHANGED <<storeVars, processVars, dropped>>
        /\ dups' = [dups EXCEPT ![key] = [dups[key] EXCEPT ![t] = NoDup]]
    BY <1>3 DEF DeleteMachineSet, Removing, StoreDup
  <2>2. dups[key] \in [InstanceTypes -> Dup] /\ ~NoDup.exists
    BY <1>0, <2>1 DEF NoDup
  <2>3. /\ \A aw \in AppWrappers \ {key} : dups'[aw] = dups[aw]
        /\ \A u \in InstanceTypes :
              dups'[key][u].exists => dups[key][u].exists
    BY <1>0, <2>1, <2>2
  <2>4. ASSUME NEW aw \in AppWrappers \ {key} PROVE HeldBy(aw)' = HeldBy(aw)
    BY <1>3, <2>3 DEF HeldBy
  <2>5. HeldBy(key)' \subseteq HeldBy(key)
    BY <1>3, <2>1, <2>3, HeldByShrinks
  <2>6. QED
    BY <1>0, <2>1, <2>4, <2>5, Releases
<1>4. CASE ReuseReleases
  <2>1. /\ worker.pc = "finalize" /\ reused' = reused \ {key}
        /\ UNCHANGED <<storeVars, processVars, dropped, pools, dups>>
    BY <1>4 DEF ReuseReleases, Reuse!Release, Reuse!storeVars, storeVars, key
  <2>2. ASSUME NEW aw \in AppWrappers \ {key} PROVE HeldBy(aw)' = HeldBy(aw)
    BY <2>1 DEF HeldBy
  <2>3. HeldBy(key)' \subseteq HeldBy(key)
    BY <2>1, HeldByShrinks
  <2>4. QED
    BY <1>0, <2>1, <2>2, <2>3, Releases
<1>5. QED
  BY <1>1, <1>2, <1>3, <1>4 DEF FinalizeStep

(* A finalizing call returns nil when it holds nothing any more: what the  *)
(* strategy it was sent to did not release, it has given up on.            *)
LEMMA NothingLeft ==
  ASSUME IInv,
         \/ PoolsDeleted \/ CopiesDeleted
         \/ OverlookingReturns
         \/ NoStrategy /\ worker.pc = "finalize"
         \/ /\ worker.pc = "finalize" /\ FinalizeBy = "reuse"
            /\ call.stage = "dispatched" /\ key \notin reused
  PROVE  key \notin Held \ dropped
<1> SUFFICES ASSUME key \in Held, key \notin dropped PROVE FALSE
  OBVIOUS
<1>1. call.stage \in {"dispatched", "listed"} /\ worker.pc = "finalize"
  BY DEF PoolsDeleted, Deleting, CopiesDeleted, Removing, NoStrategy,
         OverlookingReturns, Reusing
<1>2. HeldBy(key) \subseteq {FinalizeBy} /\ HeldBy(key) # {}
  BY <1>1 DEF IInv, NothingOverlooked, Held
<1>3. FinalizeBy \in HeldBy(key)
  BY <1>2
<1>4. \/ \E p \in pools : p.owner = key /\ p.kind = FinalizeBy
      \/ /\ FinalizeBy = "duplicate"
         /\ \E t \in InstanceTypes : dups[key][t].exists
      \/ FinalizeBy = "reuse" /\ key \in reused
  BY <1>3, HeldByWhat
<1>5. \A p \in pools : p.kind \in PoolKinds
  BY DEF IInv, TypeOK, Pool
<1>6. CASE PoolsDeleted
  BY <1>4, <1>6 DEF PoolsDeleted, Deleting, PoolKinds, IInv, NothingOverlooked
<1>7. CASE CopiesDeleted
  BY <1>4, <1>5, <1>7 DEF CopiesDeleted, Removing, PoolKinds, IInv, NothingOverlooked
<1>8. CASE NoStrategy
  BY <1>1, <1>4, <1>5, <1>8 DEF NoStrategy
<1>9. CASE FinalizeBy = "reuse" /\ key \notin reused
  BY <1>4, <1>5, <1>9 DEF PoolKinds
<1>10. CASE OverlookingReturns
  BY <1>10 DEF OverlookingReturns, Reusing, IInv, NothingOverlooked
<1>11. QED
  BY <1>6, <1>7, <1>8, <1>9, <1>10

(* The calls' returns.                                                     *)
LEMMA ReturnStepRefines ==
  ASSUME IInv, ReturnStep
  PROVE  Reconciler!Next
<1>1. UNCHANGED <<pools, dups, reused, dropped>>
  BY DEF ReturnStep, ListPoolsFails, PoolsScaled, NoConnection, PoolsDeleted,
         AwaitMachineSet, DeleteMachineSetFails, MachineSetCreated,
         MachineSetsCopied, CopiesDeleted, NoStrategy, OverlookingReturns
<1>2. Held' \ dropped' = Held \ dropped
  BY <1>1, HeldStays
<1>3. CASE worker.pc = "scale"
  <2>1. \E r \in BOOLEAN : Return(r)
    BY <1>3
    DEF ReturnStep, ListPoolsFails, PoolsScaled, NoConnection, PoolsDeleted,
        AwaitMachineSet, DeleteMachineSetFails, MachineSetCreated,
        MachineSetsCopied, CopiesDeleted, NoStrategy, OverlookingReturns,
        Deleting, Removing, Reusing
  <2>2. QED
    BY <1>2, <1>3, <2>1, SameSteps
    DEF Return, Reconciler!Next, Reconciler!ScaleReturns
<1>4. CASE worker.pc # "scale"
  <2>1. /\ worker.pc = "finalize"
        /\ \/ NoConnection \/ \E t \in InstanceTypes : DeleteMachineSetFails(t)
           \/ PoolsDeleted \/ CopiesDeleted \/ NoStrategy
           \/ OverlookingReturns
    BY <1>4
    DEF ReturnStep, ListPoolsFails, PoolsScaled, NoConnection, PoolsDeleted,
        AwaitMachineSet, DeleteMachineSetFails, MachineSetCreated,
        MachineSetsCopied, CopiesDeleted, NoStrategy, Deleting, Removing,
        OverlookingReturns, Reusing, Scaling, Copying
  <2>2. CASE NoConnection \/ \E t \in InstanceTypes : DeleteMachineSetFails(t)
    <3>1. Return(TRUE)
      BY <2>2 DEF NoConnection, DeleteMachineSetFails
    <3>2. QED
      BY <1>2, <2>1, <3>1, SameSteps
      DEF Return, Reconciler!Next, Reconciler!FinalizeFails
  <2>3. CASE Finalized /\ key \notin Held \ dropped
    BY <1>2, <2>1, <2>3
    DEF Finalized, Reconciler!Next, Reconciler!FinalizeReturns, key
  <2>4. CASE PoolsDeleted \/ CopiesDeleted \/ NoStrategy
    BY <2>1, <2>3, <2>4, NothingLeft DEF PoolsDeleted, CopiesDeleted, NoStrategy
  <2>5. CASE OverlookingReturns
    <3>1. CASE Return(TRUE)
      BY <1>2, <2>1, <3>1, SameSteps
      DEF Return, Reconciler!Next, Reconciler!FinalizeFails
    <3>2. QED
      BY <2>3, <2>5, <3>1, NothingLeft DEF OverlookingReturns
  <2>6. QED
    BY <2>1, <2>2, <2>4, <2>5
<1>5. QED
  BY <1>3, <1>4

(* The returns of the reuse strategy.                                      *)
LEMMA ReuseReturnsRefines ==
  ASSUME IInv, ReuseReturns
  PROVE  Reconciler!Next
<1> USE DEF Reuse!ScaleReturns, Reuse!FinalizeReturns, Reuse!FinalizeFails
<1>1. UNCHANGED <<pools, dups, reused, dropped>>
  BY DEF ReuseReturns
<1>2. Held' \ dropped' = Held \ dropped
  BY <1>1, HeldStays
<1>3. \A r \in BOOLEAN : Reuse!Finish(r) => Reconciler!Finish(r)
  BY DEF Reuse!Finish, Reuse!Idle, Reuse!Absent, Reconciler!Finish,
         Reconciler!Idle, Reconciler!Absent
<1>4. CASE Reuse!ScaleReturns
  BY <1>2, <1>3, <1>4 DEF Reconciler!Next, Reconciler!ScaleReturns
<1>5. CASE Reuse!FinalizeFails
  BY <1>2, <1>3, <1>5 DEF Reconciler!Next, Reconciler!FinalizeFails
<1>6. CASE Reuse!FinalizeReturns /\ FinalizeBy = "reuse" /\ call.stage = "dispatched"
  <2>1. key \notin Held \ dropped
    BY <1>6, NothingLeft DEF key
  <2>2. QED
    BY <1>2, <1>6, <2>1 DEF Reconciler!Next, Reconciler!FinalizeReturns, key
<1>7. QED
  BY <1>4, <1>5, <1>6 DEF ReuseReturns

(* Every step of the controller is one of AppWrapperReconciler, or none.   *)
LEMMA StepRefines ==
  ASSUME IInv, [Next]_vars
  PROVE  [Reconciler!Next]_(Reconciler!vars)
<1>1. ASSUME NEW aw \in AppWrappers, ClientStep(aw) \/ WatchStep(aw) \/ Take(aw)
      PROVE  Reconciler!Next
  <2>1. Held' \ dropped' = Held \ dropped
    BY <1>1, HeldStays DEF ClientStep, WatchStep, Take, StoreFrame
  <2>2. Client(aw) \/ Informer(aw) \/ WorkerStep
    BY <1>1 DEF ClientStep, WatchStep, Take, WorkerStep
  <2>3. QED
    BY <2>1, <2>2, SameSteps DEF Reconciler!Next
<1>2. CASE UpdateStep
  <2>1. Held' \ dropped' = Held \ dropped
    BY <1>2, HeldStays DEF UpdateStep, StoreFrame
  <2>2. WorkerStep
    BY <1>2 DEF UpdateStep, WorkerStep
  <2>3. QED
    BY <2>1, <2>2, SameSteps DEF Reconciler!Next
<1>3. CASE ProcessChange
  <2>1. UNCHANGED <<pools, dups, reused, dropped>>
    BY <1>3
    DEF ProcessChange, RelistDups, ProcessStep, ReadConfiguration,
        SetupWithManager, Stop, Reconfigure, setMachineType, SearchFails,
        CheckUnanswered, CheckFails
  <2>2. Held' \ dropped' = Held \ dropped
    BY <2>1, HeldStays
  <2>3. Crash \/ UNCHANGED storeVars
    BY <1>3
    DEF ProcessChange, ProcessStep, ReadConfiguration, SetupWithManager, Stop,
        Reconfigure, setMachineType, SearchFails, CheckUnanswered, CheckFails
  <2>4. QED
    BY <2>2, <2>3, SameSteps, Stutters DEF Reconciler!Next, storeVars
<1>4. CASE DupEnvironment /\ UNCHANGED <<poolVars, reused>>
  <2>1. PICK aw \in AppWrappers, t \in InstanceTypes :
           MachinesChange(aw, t) \/ SyncDup(aw, t)
    BY <1>4 DEF DupEnvironment
  <2>2. dups \in [AppWrappers -> [InstanceTypes -> Dup]] /\ dups[aw][t] \in Dup
    BY DEF IInv, TypeOK
  <2>3. ASSUME NEW a \in AppWrappers, NEW u \in InstanceTypes
        PROVE  dups'[a][u].exists = dups[a][u].exists
    <3>1. CASE MachinesChange(aw, t)
      <4>1. PICK n : dups' = [dups EXCEPT ![aw] =
                        [dups[aw] EXCEPT ![t] = [dups[aw][t] EXCEPT !.available = n]]]
        BY <3>1 DEF MachinesChange, StoreDup
      <4>2. [dups[aw][t] EXCEPT !.available = n].exists = dups[aw][t].exists
        BY <2>2 DEF Dup
      <4>3. dups[aw] \in [InstanceTypes -> Dup]
        BY <2>2
      <4>4. QED
        BY <2>2, <4>1, <4>2, <4>3
    <3>2. CASE SyncDup(aw, t)
      BY <3>2 DEF SyncDup
    <3>3. QED
      BY <2>1, <3>1, <3>2
  <2>4. UNCHANGED <<storeVars, dropped>>
    BY <2>1 DEF MachinesChange, SyncDup
  <2>5. QED
    BY <1>4, <2>3, <2>4, HeldStays, Stutters DEF storeVars
<1>5. CASE CallStep
  BY <1>5, CallSteps, ScaleStepRefines, FinalizeStepRefines,
     ReturnStepRefines, ReuseReturnsRefines
  DEF Reconciler!Next
<1>6. CASE UNCHANGED vars
  BY <1>6, HeldStays, Stutters DEF vars, storeVars
<1>7. QED
  BY <1>1, <1>2, <1>3, <1>4, <1>5, <1>6 DEF Next

(* The whole controller keeps InstaScale's promise for everything that no  *)
(* finalizing call gave up on, whichever strategies the configurations it  *)
(* is started with send its passes to.                                     *)
THEOREM ControllerImplements == Spec => ImplementsReconciler
<1>1. Init => Reconciler!Init
  BY InitRefines
<1>2. IInv /\ [Next]_vars => [Reconciler!Next]_(Reconciler!vars)
  BY StepRefines
<1>3. QED
  BY <1>1, <1>2, ControllerInvariant, PTL
  DEF Spec, ImplementsReconciler, Reconciler!Spec

(* The theorems about AppWrapperReconciler, with what is held here.        *)
Protection == INSTANCE AppWrapperReconcilerProofs WITH held <- Held \ dropped

(* Nothing is left behind but what a finalizing call gave up on: as long   *)
(* as a pool, a copy or a grown MachineSet is held for an AppWrapper, that *)
(* AppWrapper exists and has the finalizer, whatever processes with other  *)
(* configurations and other strategies did in between.                     *)
THEOREM ControllerProtects == Spec => []Reconciler!HeldIsProtected
<1>1. Protection!Spec => []Protection!HeldIsProtected
  BY AppWrapperAssumption, DemandAssumption, Protection!HeldProtected
<1>2. Protection!HeldIsProtected => Reconciler!HeldIsProtected
  BY DEF Protection!HeldIsProtected, Reconciler!HeldIsProtected
<1>3. Reconciler!Init => Protection!Init
  BY DEF Reconciler!Init, Protection!Init, Reconciler!StoreInit,
         Protection!StoreInit, Reconciler!Idle, Protection!Idle,
         Reconciler!Absent, Protection!Absent
<1>4. [Reconciler!Next]_(Reconciler!vars) => [Protection!Next]_(Protection!vars)
  BY
  DEF Reconciler!Next, Protection!Next, Reconciler!vars, Protection!vars,
      Reconciler!Client, Protection!Client, Reconciler!CreateAppWrapper,
      Protection!CreateAppWrapper, Reconciler!DeleteAppWrapper,
      Protection!DeleteAppWrapper, Reconciler!EditAppWrapper,
      Protection!EditAppWrapper, Reconciler!DispatchAppWrapper,
      Protection!DispatchAppWrapper, Reconciler!ExternalWrite,
      Protection!ExternalWrite, Reconciler!Store, Protection!Store,
      Reconciler!States, Protection!States, Reconciler!Absent,
      Protection!Absent, Reconciler!Informer, Protection!Informer,
      Reconciler!SyncCache, Protection!SyncCache, Reconciler!Resync,
      Protection!Resync, Reconciler!WorkerStep, Protection!WorkerStep,
      Reconciler!Dequeue, Protection!Dequeue, Reconciler!AddFinalizer,
      Protection!AddFinalizer, Reconciler!RemoveFinalizer,
      Protection!RemoveFinalizer, Reconciler!UpdateFails,
      Protection!UpdateFails, Reconciler!Branch, Protection!Branch,
      Reconciler!Terminal, Protection!Terminal, Reconciler!Idle,
      Protection!Idle, Reconciler!Finish, Protection!Finish,
      Reconciler!Acquire, Protection!Acquire, Reconciler!ScaleReturns,
      Protection!ScaleReturns, Reconciler!Release, Protection!Release,
      Reconciler!FinalizeReturns, Protection!FinalizeReturns,
      Reconciler!FinalizeFails, Protection!FinalizeFails, Reconciler!Crash,
      Protection!Crash, Reconciler!storeVars, Protection!storeVars
<1>5. QED
  BY <1>1, <1>2, <1>3, <1>4, ControllerImplements, PTL
  DEF ImplementsReconciler, Reconciler!Spec, Protection!Spec
=============================================================================
