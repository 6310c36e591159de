------------------------ MODULE MachineSetReuseProofs ------------------------
(***************************************************************************)
(* For every set of AppWrappers, MachineSets and machines: the state of    *)
(* the reuse strategy stays in range, and the strategy implements          *)
(* AppWrapperReconciler, step by step, for every AppWrapper whose labels   *)
(* no finalizing call's list of MachineSets overlooked. The inductive      *)
(* invariant is IInv of MachineSetReuse; a lemma per group of actions      *)
(* shows that it is kept.                                                  *)
(***************************************************************************)
EXTENDS MachineSetReuse, AppWrapperStoreProofs, FiniteSetTheorems

USE DEF machineVars, setVars, bounds

(* Sets of machines are finite, so that they can be counted.               *)
LEMMA CountType ==
  ASSUME NEW S, S \subseteq Machines
  PROVE  Cardinality(S) \in Nat
  BY ReuseAssumption, FS_Subset, FS_CardinalityType

(* What an AppWrapper asks for, and what a label says, are numbers.        *)
LEMMA DemandType ==
  ASSUME NEW d \in Demands \cup {0}
  PROVE  d \in Nat /\ d \in Int
  BY DemandAssumption

(* That no call is under way is a value in range.                          *)
LEMMA NoPassType == NoPass \in Pass
  BY DEF NoPass, Pass, MachineSet

(* A pass that begins with an instance type.                               *)
LEMMA BeginType ==
  ASSUME NEW type \in InstanceTypes, NEW types \in SUBSET InstanceTypes,
         NEW l \in [MachineSets -> MachineSet], NEW f \in SUBSET MachineSets,
         NEW b \in BOOLEAN
  PROVE  /\ [Begin(type, types) EXCEPT !.sets = l, !.fresh = f] \in Pass
         /\ [Begin(type, types) EXCEPT !.sets = l, !.fresh = f,
                                       !.isScaled = b] \in Pass
  BY NoPassType DEF Begin, Pass

(* A machine that is gone, and one in another phase, are in range.         *)
LEMMA MachineType ==
  /\ NoMachine \in Machine
  /\ \A o \in Machine, p \in {"Provisioning", "Running", "Deleting"} :
        [o EXCEPT !.phase = p] \in Machine
  BY DEF NoMachine, Machine

(* Nothing is labelled, and no call under way, to begin with.              *)
LEMMA InitInvariant == Init => IInv
<1> SUFFICES ASSUME Init PROVE IInv
  OBVIOUS
<1>1. mset \in [MachineSets -> MachineSet]
  BY ReuseAssumption DEF Init, MachineSet
<1>2. machine \in [Machines -> Machine]
  BY MachineType DEF Init
<1>3. writes \in 0..MaxWrites /\ faults \in 0..MaxFaults
  BY ReuseAssumption DEF Init
<1>4. TypeOK
  BY <1>1, <1>2, <1>3, StoreInitType, NoPassType DEF Init, TypeOK
<1>5. PassIsPlaced /\ VersionsAreSound /\ NoLabelOverlooked
  BY DEF Init, NoPass, PassIsPlaced, VersionsAreSound, NoLabelOverlooked
<1>6. QED
  BY <1>4, <1>5 DEF IInv

-----------------------------------------------------------------------------
(* Users, MCAD, the informer and the worker between two calls: they leave  *)
(* a call under way alone.                                                 *)
LEMMA OutsideKeeps ==
  ASSUME IInv, ClientStep \/ ControllerStep
  PROVE  IInv'
<1>1. StoreTypeOK' /\ writes' \in 0..MaxWrites
  <2>1. StoreTypeOK
    BY DEF IInv, TypeOK
  <2>2. CASE ClientStep
    BY <2>1, <2>2, ClientType, ReuseAssumption DEF ClientStep, IInv, TypeOK
  <2>3. CASE ControllerStep
    BY <2>1, <2>3, ClientType, WorkerType DEF ControllerStep, IInv, TypeOK
  <2>4. QED
    BY <2>2, <2>3
<1>2. /\ pass' = pass /\ faults' = faults /\ dropped' = dropped
      /\ UNCHANGED setVars /\ UNCHANGED machineVars
  BY DEF ClientStep, ControllerStep
<1>3. TypeOK'
  BY <1>1, <1>2 DEF IInv, TypeOK
<1>4. VersionsAreSound'
  BY <1>2 DEF IInv, VersionsAreSound
<1>5. \/ worker'.pc = worker.pc /\ worker'.key = worker.key
      \/ worker.pc \notin {"scale", "finalize"}
  <2>1. worker \in Worker
    BY DEF IInv, TypeOK, StoreTypeOK
  <2>2. QED
    BY <2>1
    DEF Worker, ClientStep, ControllerStep, Client, CreateAppWrapper,
        DeleteAppWrapper, EditAppWrapper, DispatchAppWrapper, ExternalWrite,
        Informer, SyncCache, Resync, WorkerStep, Dequeue, AddFinalizer,
        RemoveFinalizer, UpdateFails
<1>6. PassIsPlaced' /\ NoLabelOverlooked'
  BY <1>2, <1>5 DEF IInv, TypeOK, PassIsPlaced, NoLabelOverlooked, key
<1>7. QED
  BY <1>3, <1>4, <1>6 DEF IInv

(* The call is over: nothing is left of the pass but the MachineSets.      *)
LEMMA PassEnds ==
  ASSUME IInv, StoreTypeOK', pass' = NoPass,
         UNCHANGED <<mset, dropped, writes>>, faults' \in 0..MaxFaults,
         \/ UNCHANGED <<setVars, machineVars>>
         \/ /\ setCache' = mset /\ setSynced' = MachineSets
            /\ machineCache' = machine /\ machineSynced' = Machines
            /\ UNCHANGED machine
  PROVE  IInv'
<1>1. TypeOK'
  BY NoPassType DEF IInv, TypeOK
<1>2. PassIsPlaced' /\ VersionsAreSound' /\ NoLabelOverlooked'
  BY DEF IInv, NoPass, PassIsPlaced, VersionsAreSound, NoLabelOverlooked
<1>3. QED
  BY <1>1, <1>2 DEF IInv

(* The MachineSets and Machines themselves, and the caches of them.        *)
LEMMA MachinesMove ==
  ASSUME IInv, UNCHANGED <<storeVars, setVars, pass, dropped, bounds>>,
         machine' \in [Machines -> Machine],
         machineCache' \in [Machines -> Machine],
         machineSynced' \subseteq Machines
  PROVE  IInv'
<1>1. TypeOK'
  BY DEF IInv, TypeOK, StoreTypeOK, storeVars
<1>2. PassIsPlaced' /\ VersionsAreSound' /\ NoLabelOverlooked'
  BY DEF IInv, storeVars, PassIsPlaced, VersionsAreSound, NoLabelOverlooked, key
<1>3. QED
  BY <1>1, <1>2 DEF IInv

(* What the machine API and the informer of the Machines do.               *)
LEMMA MachineStepKeeps ==
  ASSUME IInv, NEW m \in Machines, MachineStep(m)
  PROVE  IInv'
<1>1. machine \in [Machines -> Machine] /\ machineCache \in [Machines -> Machine]
  BY DEF IInv, TypeOK
<1>2. machine[m] \in Machine
  BY <1>1
<1>3. /\ machine' \in [Machines -> Machine]
      /\ machineCache' \in [Machines -> Machine]
      /\ machineSynced' \subseteq Machines
  BY <1>1, <1>2, MachineType
  DEF IInv, TypeOK, MachineStep, CreateMachine, StartMachine, DeleteMachine,
      RemoveMachine, SyncMachine, StoreMachine
<1>4. UNCHANGED <<storeVars, setVars, pass, dropped, bounds>>
  BY DEF MachineStep, CreateMachine, StartMachine, DeleteMachine,
         RemoveMachine, SyncMachine, StoreMachine
<1>5. QED
  BY <1>3, <1>4, MachinesMove

(* A status update and the informer of the MachineSets.                    *)
LEMMA MachineSetStepKeeps ==
  ASSUME IInv, NEW ms \in MachineSets, MachineSetStep(ms)
  PROVE  IInv'
<1>1. CASE UpdateStatus(ms)
  <2>1. pass \in Pass
    BY DEF IInv, TypeOK
  <2>2. pass' = [pass EXCEPT !.fresh = @ \ {ms}]
    BY <1>1 DEF UpdateStatus
  <2>3. pass' \in Pass
    BY <2>1, <2>2 DEF Pass
  <2>4. /\ pass'.stage = pass.stage /\ pass'.ms = pass.ms
        /\ pass'.sets = pass.sets /\ pass'.todo = pass.todo
        /\ pass'.fresh = pass.fresh \ {ms}
    BY <2>1, <2>2 DEF Pass
  <2>5. TypeOK'
    BY <1>1, <2>3 DEF UpdateStatus, storeVars, IInv, TypeOK, StoreTypeOK
  <2>6. PassIsPlaced' /\ VersionsAreSound' /\ NoLabelOverlooked'
    BY <1>1, <2>4
    DEF UpdateStatus, storeVars, IInv, PassIsPlaced, VersionsAreSound,
        NoLabelOverlooked, key
  <2>7. QED
    BY <2>5, <2>6 DEF IInv
<1>2. CASE SyncMachineSet(ms)
  <2>1. TypeOK'
    BY <1>2 DEF SyncMachineSet, storeVars, IInv, TypeOK, StoreTypeOK
  <2>2. PassIsPlaced' /\ VersionsAreSound' /\ NoLabelOverlooked'
    BY <1>2
    DEF SyncMachineSet, storeVars, IInv, TypeOK, PassIsPlaced,
        VersionsAreSound, NoLabelOverlooked, key
  <2>3. QED
    BY <2>1, <2>2 DEF IInv
<1>3. QED
  BY <1>1, <1>2 DEF MachineSetStep

-----------------------------------------------------------------------------
(* A step of a call that writes no MachineSet and does not stand among the *)
(* MachineSets to shrink: what it takes for fresh comes from the cache.    *)
LEMMA PassMoves ==
  ASSUME IInv, UNCHANGED <<storeVars, setVars, dropped, writes>>,
         faults' \in 0..MaxFaults,
         machine' \in [Machines -> Machine], UNCHANGED machineCache,
         machineSynced' \subseteq Machines, pass' \in Pass,
         \/ worker.pc = "scale" /\ pass'.stage \in {"visit", "label", "node"}
         \/ worker.pc = "finalize" /\ pass'.stage = "annotate",
         \/ pass'.sets = pass.sets /\ pass'.fresh = pass.fresh
         \/ pass'.sets = setCache /\ pass'.fresh = setSynced
         \/ pass'.fresh = {}
  PROVE  IInv'
<1>1. TypeOK'
  BY DEF IInv, TypeOK, StoreTypeOK, storeVars
<1>2. PassIsPlaced' /\ VersionsAreSound' /\ NoLabelOverlooked'
  BY DEF IInv, storeVars, PassIsPlaced, VersionsAreSound, NoLabelOverlooked
<1>3. QED
  BY <1>1, <1>2 DEF IInv

(* The scaling call, as long as it reads and labels.                       *)
LEMMA LabellingKeeps ==
  ASSUME IInv,
         \/ \E type \in InstanceTypes :
               ListMachineSets(type) \/ NextInstanceType(type)
         \/ VisitMachineSet \/ SkipMachine
         \/ addLabelToMachine \/ addLabelToNode
         \/ LeaveMachineSet
  PROVE  IInv'
<1> USE DEF ScaleStage
<1>0. /\ pass \in Pass /\ machine \in [Machines -> Machine]
      /\ machineSynced \subseteq Machines /\ faults \in 0..MaxFaults
      /\ setCache \in [MachineSets -> MachineSet] /\ setSynced \subseteq MachineSets
  BY DEF IInv, TypeOK
<1>1. ASSUME NEW type \in InstanceTypes, ListMachineSets(type) PROVE IInv'
  <2>1. pass' = [Begin(type, InstanceTypes) EXCEPT !.sets = setCache,
                                                   !.fresh = setSynced]
    BY <1>1 DEF ListMachineSets
  <2>2. pass' \in Pass
    BY <1>0, <2>1, BeginType
  <2>3. pass'.stage = "visit" /\ pass'.sets = setCache /\ pass'.fresh = setSynced
    BY <2>1 DEF Begin, NoPass
  <2>4. QED
    BY <1>0, <1>1, <2>2, <2>3, PassMoves DEF ListMachineSets
<1>2. ASSUME NEW type \in InstanceTypes, NextInstanceType(type) PROVE IInv'
  <2>1. pass' = [Begin(type, pass.types) EXCEPT !.sets = pass.sets,
                     !.fresh = pass.fresh, !.isScaled = pass.isScaled]
    BY <1>2 DEF NextInstanceType
  <2>2. pass' \in Pass
    <3>1. /\ pass.types \in SUBSET InstanceTypes /\ pass.fresh \in SUBSET MachineSets
          /\ pass.sets \in [MachineSets -> MachineSet] /\ pass.isScaled \in BOOLEAN
      BY <1>0 DEF Pass
    <3>2. QED
      BY <2>1, <3>1, BeginType
  <2>3. /\ pass'.stage = "visit"
        /\ pass'.sets = pass.sets /\ pass'.fresh = pass.fresh
    BY <2>1 DEF Begin, NoPass
  <2>4. QED
    BY <1>0, <1>2, <2>2, <2>3, PassMoves DEF NextInstanceType
<1>3. CASE VisitMachineSet
  <2>1. PICK ms \in pass.todo :
           pass' = [pass EXCEPT
              !.stage = "label", !.ms = ms, !.todo = @ \ {ms},
              !.running = Cardinality(filterAwMachines(key, TypeOf[ms])),
              !.isScaled = @ \/ pass.sets[ms].label[key] = demand,
              !.machines = {m \in CachedMachines(ms) :
                               machineCache[m].phase = "Running"}]
    BY <1>3 DEF VisitMachineSet
  <2>2. Cardinality(filterAwMachines(key, TypeOf[ms])) \in Nat
    BY CountType DEF filterAwMachines, LabelledMachines
  <2>3. {m \in CachedMachines(ms) : machineCache[m].phase = "Running"} \subseteq Machines
    BY DEF CachedMachines
  <2>4. /\ pass' \in Pass /\ pass'.stage = "label"
        /\ pass'.sets = pass.sets /\ pass'.fresh = pass.fresh
    BY <1>0, <2>1, <2>2, <2>3 DEF Pass
  <2>5. QED
    BY <1>0, <1>3, <2>4, PassMoves DEF VisitMachineSet
<1>4. CASE SkipMachine
  <2>1. /\ pass' \in Pass /\ pass'.stage = "label"
        /\ pass'.sets = pass.sets /\ pass'.fresh = pass.fresh
    BY <1>0, <1>4 DEF SkipMachine, Pass
  <2>2. QED
    BY <1>0, <1>4, <2>1, PassMoves DEF SkipMachine
<1>5. CASE addLabelToMachine
  <2>1. PICK m \in pass.machines :
           /\ StoreMachine(m, [machine[m] EXCEPT !.labels = @ \cup {key}])
           /\ pass' = [pass EXCEPT !.stage = "node", !.patched = {m},
                                   !.machines = @ \ {m}]
    BY <1>5 DEF addLabelToMachine
  <2>2. m \in Machines /\ key \in AppWrappers
    BY <1>0, <1>5 DEF Pass, addLabelToMachine, IInv, TypeOK, StoreTypeOK, Worker, key
  <2>3. [machine[m] EXCEPT !.labels = @ \cup {key}] \in Machine
    BY <1>0, <2>2 DEF Machine
  <2>4. /\ pass' \in Pass /\ pass'.stage = "node"
        /\ pass'.sets = pass.sets /\ pass'.fresh = pass.fresh
    BY <1>0, <2>1, <2>2 DEF Pass
  <2>5. QED
    BY <1>0, <1>5, <2>1, <2>2, <2>3, <2>4, PassMoves
    DEF addLabelToMachine, StoreMachine
<1>6. CASE addLabelToNode
  <2>1. PICK m \in pass.patched : machine' = [machine EXCEPT ![m].node = @ \cup {key}]
    BY <1>6 DEF addLabelToNode
  <2>2. m \in Machines /\ key \in AppWrappers
    BY <1>0, <1>6 DEF Pass, addLabelToNode, IInv, TypeOK, StoreTypeOK, Worker, key
  <2>3. [machine[m] EXCEPT !.node = @ \cup {key}] \in Machine
    BY <1>0, <2>2 DEF Machine
  <2>4. machine' \in [Machines -> Machine]
    BY <1>0, <2>1, <2>3
  <2>5. /\ pass' \in Pass /\ pass'.stage = "label"
        /\ pass'.sets = pass.sets /\ pass'.fresh = pass.fresh
    BY <1>0, <1>6 DEF addLabelToNode, Pass
  <2>6. QED
    BY <1>0, <1>6, <2>4, <2>5, PassMoves DEF addLabelToNode
<1>7. CASE LeaveMachineSet
  <2>1. /\ pass' \in Pass /\ pass'.stage = "visit"
        /\ pass'.sets = pass.sets /\ pass'.fresh = pass.fresh
    BY <1>0, <1>7 DEF LeaveMachineSet, Pass
  <2>2. QED
    BY <1>0, <1>7, <2>1, PassMoves DEF LeaveMachineSet, Labelled
<1>8. QED
  BY <1>1, <1>2, <1>3, <1>4, <1>5, <1>6, <1>7

(* The one write of the scaling call: the MachineSet is still as it was    *)
(* listed, and grows together with its label.                              *)
LEMMA GrowKeeps ==
  ASSUME IInv, GrowMachineSet
  PROVE  IInv'
<1>1. /\ pass \in Pass /\ mset \in [MachineSets -> MachineSet]
      /\ worker \in Worker /\ worker.pc = "scale" /\ pass.ms \in MachineSets
  BY DEF IInv, TypeOK, StoreTypeOK, Pass, GrowMachineSet, Labelled, ScaleStage
<1>2. /\ pass.sets[pass.ms] \in MachineSet /\ pass.running \in Nat
      /\ demand \in Demands \cup {0}
  BY <1>1 DEF Pass, Worker, Object, demand
<1>3. [pass.sets[pass.ms] EXCEPT !.replicas = @ - pass.running + demand,
                                 !.label[key] = demand] \in MachineSet
  <2>1. pass.sets[pass.ms].replicas - pass.running + demand \in Int
    BY <1>2, DemandType DEF MachineSet
  <2>2. QED
    BY <1>2, <2>1 DEF MachineSet
<1>4. /\ mset' \in [MachineSets -> MachineSet]
      /\ setSynced' = setSynced \ {pass.ms} /\ setCache' = setCache
      /\ \A ms \in MachineSets \ {pass.ms} : mset'[ms] = mset[ms]
  BY <1>1, <1>3 DEF GrowMachineSet, StoreMachineSet
<1>5. pass' \in Pass /\ pass'.stage = "requeue" /\ pass'.fresh = {}
  BY NoPassType DEF GrowMachineSet, NoPass, Pass
<1>6. TypeOK'
  BY <1>4, <1>5 DEF GrowMachineSet, storeVars, IInv, TypeOK, StoreTypeOK
<1>7. PassIsPlaced' /\ VersionsAreSound' /\ NoLabelOverlooked'
  BY <1>1, <1>4, <1>5
  DEF GrowMachineSet, storeVars, IInv, TypeOK, PassIsPlaced,
      VersionsAreSound, NoLabelOverlooked
<1>8. QED
  BY <1>6, <1>7 DEF IInv

(* The scaling call, whatever its next step is.                            *)
LEMMA ScaleStepKeeps ==
  ASSUME IInv, ScaleStep
  PROVE  IInv'
<1>1. ASSUME NEW r \in BOOLEAN, worker.pc = "scale", Return(r),
             UNCHANGED <<setVars, machineVars, dropped, bounds>>
      PROVE  IInv'
  <2>1. StoreTypeOK'
    BY <1>1, FinishType DEF IInv, TypeOK, Return
  <2>2. QED
    BY <1>1, <2>1, PassEnds DEF IInv, TypeOK, Return
<1>2. CASE \/ LabelFails \/ AwaitMachines \/ removeMachinesBasedOnReplicas
           \/ RequeueAfterUpdate \/ EndScale
  BY <1>1, <1>2
  DEF LabelFails, AwaitMachines, removeMachinesBasedOnReplicas,
      RequeueAfterUpdate, EndScale, Labelled, ScaleStage
<1>3. QED
  BY <1>2, GrowKeeps, LabellingKeeps DEF ScaleStep

-----------------------------------------------------------------------------
(* The finalizing call until it lists the MachineSets.                     *)
LEMMA AnnotatingKeeps ==
  ASSUME IInv, ListNodes \/ AnnotateMachine
  PROVE  IInv'
<1> USE DEF FinalizeStage
<1>0. /\ pass \in Pass /\ machine \in [Machines -> Machine]
      /\ machineSynced \subseteq Machines /\ faults \in 0..MaxFaults
      /\ MaxFaults \in Nat
  BY ReuseAssumption DEF IInv, TypeOK
<1>1. CASE ListNodes
  <2>1. faults' \in 0..MaxFaults /\ writes' = writes
    BY <1>0, <1>1 DEF ListNodes, Fault
  <2>2. pass' \in Pass /\ pass'.stage = "annotate" /\ pass'.fresh = {}
    BY <1>1, NoPassType DEF ListNodes, NoPass, Pass
  <2>3. QED
    BY <1>0, <1>1, <2>1, <2>2, PassMoves DEF ListNodes
<1>2. CASE AnnotateMachine
  <2>1. PICK m \in pass.machines :
           /\ pass' = [pass EXCEPT !.machines = @ \ {m}]
           /\ \/ UNCHANGED machineVars
              \/ StoreMachine(m, [machine[m] EXCEPT !.doomed = TRUE])
    BY <1>2 DEF AnnotateMachine
  <2>2. m \in Machines
    BY <1>0 DEF Pass
  <2>3. [machine[m] EXCEPT !.doomed = TRUE] \in Machine
    BY <1>0, <2>2 DEF Machine
  <2>4. /\ machine' \in [Machines -> Machine] /\ UNCHANGED machineCache
        /\ machineSynced' \subseteq Machines
    BY <1>0, <2>1, <2>2, <2>3 DEF StoreMachine
  <2>5. /\ pass' \in Pass /\ pass'.stage = "annotate"
        /\ pass'.sets = pass.sets /\ pass'.fresh = pass.fresh
    BY <1>0, <1>2, <2>1 DEF Pass, AnnotateMachine
  <2>6. QED
    BY <1>0, <1>2, <2>4, <2>5, PassMoves DEF AnnotateMachine
<1>3. QED
  BY <1>1, <1>2

(* Every labelled MachineSet is on the list, or the label is overlooked.   *)
LEMMA ListLabelledKeeps ==
  ASSUME IInv, ListLabelled
  PROVE  IInv'
<1>1. /\ setCache \in [MachineSets -> MachineSet] /\ setSynced \subseteq MachineSets
  BY DEF IInv, TypeOK
<1>2. /\ pass' \in Pass /\ pass'.stage = "shrink" /\ pass'.fresh = setSynced
      /\ pass'.sets = setCache
      /\ pass'.todo = {ms \in MachineSets : setCache[ms].label[key] # 0}
  BY <1>1, NoPassType DEF ListLabelled, NoPass, Pass
<1>3. TypeOK'
  <2>1. dropped' \subseteq AppWrappers
    BY DEF ListLabelled, Overlooking, FinalizeStage, IInv, TypeOK, StoreTypeOK,
           Worker, key
  <2>2. QED
    BY <1>2, <2>1 DEF ListLabelled, storeVars, IInv, TypeOK, StoreTypeOK
<1>4. PassIsPlaced' /\ VersionsAreSound'
  BY <1>2
  DEF ListLabelled, FinalizeStage, storeVars, IInv, PassIsPlaced, VersionsAreSound
<1>5. NoLabelOverlooked'
  <2>1. /\ UNCHANGED <<mset, worker>>
        /\ dropped' = IF \E ms \in MachineSets : /\ mset[ms].label[key] # 0
                                                 /\ setCache[ms].label[key] = 0
                      THEN dropped \cup {key} ELSE dropped
    BY DEF ListLabelled, Overlooking, storeVars
  <2>2. QED
    BY <1>2, <2>1 DEF NoLabelOverlooked, key
<1>6. QED
  BY <1>3, <1>4, <1>5 DEF IInv

(* A MachineSet is taken off the list when it is shrunk, and is the one    *)
(* whose label is removed next.                                            *)
LEMMA ShrinkKeeps ==
  ASSUME IInv, ShrinkMachineSet
  PROVE  IInv'
<1>1. /\ pass \in Pass /\ mset \in [MachineSets -> MachineSet]
      /\ worker \in Worker /\ worker.pc = "finalize" /\ pass.stage = "shrink"
      /\ worker.key \in AppWrappers
  BY DEF IInv, TypeOK, StoreTypeOK, Worker, ShrinkMachineSet, FinalizeStage
<1>2. PICK ms \in pass.todo \cap pass.fresh :
         /\ StoreMachineSet(ms,
               [pass.sets[ms] EXCEPT !.replicas = @ - pass.sets[ms].label[key]])
         /\ pass' = [pass EXCEPT !.stage = "unlabel", !.ms = ms,
                                 !.todo = @ \ {ms}, !.fresh = @ \ {ms}]
  BY DEF ShrinkMachineSet
<1>3. ms \in MachineSets /\ pass.sets[ms] \in MachineSet
  BY <1>1 DEF Pass
<1>4. pass.sets[ms].label[key] \in Int
  <2>1. pass.sets[ms].label[key] \in Demands \cup {0}
    BY <1>1, <1>3 DEF MachineSet, key
  <2>2. QED
    BY <2>1, DemandType
<1>5. /\ mset' \in [MachineSets -> MachineSet]
      /\ setSynced' = setSynced \ {ms} /\ setCache' = setCache
      /\ \A other \in MachineSets \ {ms} : mset'[other] = mset[other]
  BY <1>1, <1>2, <1>3, <1>4 DEF StoreMachineSet, MachineSet
<1>6. /\ pass' \in Pass /\ pass'.stage = "unlabel" /\ pass'.ms = ms
      /\ pass'.sets = pass.sets /\ pass'.fresh = pass.fresh \ {ms}
      /\ pass'.todo = pass.todo \ {ms}
  BY <1>1, <1>2, <1>3 DEF Pass
<1>7. TypeOK'
  BY <1>5, <1>6 DEF ShrinkMachineSet, storeVars, IInv, TypeOK, StoreTypeOK
<1>8. PassIsPlaced'
  BY <1>1, <1>6 DEF ShrinkMachineSet, storeVars, PassIsPlaced
<1>9. VersionsAreSound'
  BY <1>1, <1>5, <1>6 DEF IInv, TypeOK, Pass, VersionsAreSound
<1>10. NoLabelOverlooked'
  BY <1>1, <1>5, <1>6 DEF ShrinkMachineSet, storeVars, IInv, NoLabelOverlooked, key
<1>11. QED
  BY <1>7, <1>8, <1>9, <1>10 DEF IInv

(* The label goes, and with it the reason to come back to the MachineSet.  *)
LEMMA UnlabelKeeps ==
  ASSUME IInv, removeMachineSetLabel
  PROVE  IInv'
<1>1. /\ pass \in Pass /\ mset \in [MachineSets -> MachineSet]
      /\ worker.pc = "finalize" /\ pass.stage = "unlabel"
      /\ pass.ms \in MachineSets
  BY ReuseAssumption DEF IInv, TypeOK, removeMachineSetLabel, FinalizeStage
<1>2. [mset[pass.ms] EXCEPT !.label[key] = 0] \in MachineSet
  BY <1>1 DEF MachineSet
<1>3. /\ mset' \in [MachineSets -> MachineSet]
      /\ setSynced' = setSynced \ {pass.ms} /\ setCache' = setCache
      /\ \A ms \in MachineSets \ {pass.ms} : mset'[ms] = mset[ms]
  BY <1>1, <1>2 DEF removeMachineSetLabel, StoreMachineSet
<1>4. key \in AppWrappers => mset'[pass.ms].label[key] = 0
  BY <1>1 DEF removeMachineSetLabel, StoreMachineSet, MachineSet
<1>5. key \in AppWrappers
  BY <1>1 DEF IInv, TypeOK, StoreTypeOK, Worker, key
<1>6. /\ pass' \in Pass /\ pass'.stage = "shrink"
      /\ pass'.sets = pass.sets /\ pass'.fresh = pass.fresh
      /\ pass'.todo = pass.todo
  BY <1>1 DEF removeMachineSetLabel, Pass
<1>7. TypeOK'
  BY <1>3, <1>6 DEF removeMachineSetLabel, storeVars, IInv, TypeOK, StoreTypeOK
<1>8. PassIsPlaced' /\ VersionsAreSound'
  BY <1>1, <1>3, <1>6
  DEF removeMachineSetLabel, storeVars, IInv, TypeOK, Pass, PassIsPlaced,
      VersionsAreSound
<1>9. NoLabelOverlooked'
  BY <1>1, <1>3, <1>4, <1>5, <1>6
  DEF removeMachineSetLabel, storeVars, IInv, NoLabelOverlooked, key
<1>10. QED
  BY <1>7, <1>8, <1>9 DEF IInv

(* The finalizing call, whatever its next step is.                         *)
LEMMA FinalizeStepKeeps ==
  ASSUME IInv, FinalizeStep
  PROVE  IInv'
<1>0. StoreTypeOK /\ faults \in 0..MaxFaults
  BY DEF IInv, TypeOK
<1>1. CASE EndFinalize
  <2>1. StoreTypeOK'
    BY <1>0, <1>1, FinalizedType DEF EndFinalize, FinalizeStage
  <2>2. QED
    BY <1>0, <1>1, <2>1, PassEnds DEF EndFinalize
<1>2. CASE FinalizeConflicts
  <2>1. StoreTypeOK'
    BY <1>0, <1>2, FinishType DEF FinalizeConflicts, FinalizeStage, Return
  <2>2. QED
    BY <1>0, <1>2, <2>1, PassEnds DEF FinalizeConflicts, Return
<1>3. QED
  BY <1>1, <1>2, AnnotatingKeeps, ListLabelledKeeps, ShrinkKeeps, UnlabelKeeps
  DEF FinalizeStep

(* A failed call and a restart end the pass.                               *)
LEMMA FaultKeeps ==
  ASSUME IInv, CallFails \/ CrashStep
  PROVE  IInv'
<1>0. StoreTypeOK /\ faults \in 0..MaxFaults /\ MaxFaults \in Nat
  BY ReuseAssumption DEF IInv, TypeOK
<1>1. faults' \in 0..MaxFaults /\ writes' = writes
  <2>1. Fault
    BY DEF CallFails, CrashStep
  <2>2. QED
    BY <1>0, <2>1 DEF Fault
<1>2. CASE CallFails
  <2>1. worker.pc # "idle"
    BY <1>2 DEF CallFails, IInv, PassIsPlaced
  <2>2. StoreTypeOK'
    BY <1>0, <1>2, <2>1, FinishType DEF CallFails, Return
  <2>3. QED
    BY <1>1, <1>2, <2>2, PassEnds DEF CallFails, Return
<1>3. CASE CrashStep
  <2>1. StoreTypeOK'
    BY <1>0, <1>3, CrashType DEF CrashStep
  <2>2. QED
    BY <1>1, <1>3, <2>1, PassEnds DEF CrashStep
<1>4. QED
  BY <1>2, <1>3

-----------------------------------------------------------------------------
(* The invariant is kept by every step, of whomever.                       *)
LEMMA StepKeeps ==
  ASSUME IInv, [Next]_vars
  PROVE  IInv'
<1>1. CASE UNCHANGED vars
  <2>1. TypeOK'
    BY <1>1 DEF vars, storeVars, IInv, TypeOK, StoreTypeOK
  <2>2. PassIsPlaced' /\ VersionsAreSound' /\ NoLabelOverlooked'
    BY <1>1
    DEF vars, storeVars, IInv, PassIsPlaced, VersionsAreSound,
        NoLabelOverlooked, key
  <2>3. QED
    BY <2>1, <2>2 DEF IInv
<1>2. CASE Next
  BY <1>2, OutsideKeeps, ScaleStepKeeps, FinalizeStepKeeps, FaultKeeps,
     MachineStepKeeps, MachineSetStepKeeps
  DEF Next
<1>3. QED
  BY <1>1, <1>2

(* The invariant of every reachable state: what a call takes for the       *)
(* newest version of a MachineSet is it, whatever the informers and the    *)
(* machine API do meanwhile, and a finalizing call has still to come to    *)
(* every MachineSet with the AppWrapper's label, unless its list did not   *)
(* show one of the labels.                                                 *)
THEOREM ReuseInvariant == Spec => []IInv
<1>1. IInv /\ [Next]_vars => IInv'
  BY StepKeeps
<1>2. QED
  BY <1>1, InitInvariant, PTL DEF Spec

(* Every variable of the reuse strategy stays in its range.                *)
THEOREM ReuseTypeCorrect == Spec => []TypeOK
<1>1. IInv => TypeOK
  BY DEF IInv
<1>2. QED
  BY <1>1, ReuseInvariant, PTL

-----------------------------------------------------------------------------
(* The steps of the AppWrappers, the cache and the worker are those of     *)
(* AppWrapperReconciler.                                                   *)
LEMMA SameSteps ==
  /\ Reconciler!StoreInit = StoreInit
  /\ \A aw \in AppWrappers : /\ Client(aw) => Reconciler!Client(aw)
                             /\ Informer(aw) => Reconciler!Informer(aw)
  /\ WorkerStep => Reconciler!WorkerStep
  /\ Crash => Reconciler!Crash
  /\ \A r \in BOOLEAN : Finish(r) => Reconciler!Finish(r)
<1>1. Reconciler!StoreInit = StoreInit
  BY DEF StoreInit, Reconciler!StoreInit, Idle, Absent, Reconciler!Idle,
         Reconciler!Absent
<1>2. ASSUME NEW aw \in AppWrappers, Client(aw) PROVE Reconciler!Client(aw)
  BY <1>2
  DEF Client, CreateAppWrapper, DeleteAppWrapper, EditAppWrapper,
      DispatchAppWrapper, ExternalWrite, Store, States, Absent,
      Reconciler!Client, Reconciler!CreateAppWrapper,
      Reconciler!DeleteAppWrapper, Reconciler!EditAppWrapper,
      Reconciler!DispatchAppWrapper, Reconciler!ExternalWrite,
      Reconciler!Store, Reconciler!States, Reconciler!Absent
<1>3. ASSUME NEW aw \in AppWrappers, Informer(aw) PROVE Reconciler!Informer(aw)
  BY <1>3
  DEF Informer, SyncCache, Resync, Reconciler!Informer,
      Reconciler!SyncCache, Reconciler!Resync
<1>4. ASSUME NEW r \in BOOLEAN, Finish(r) PROVE Reconciler!Finish(r)
  BY <1>4
  DEF Finish, Idle, Absent, Reconciler!Finish, Reconciler!Idle,
      Reconciler!Absent
<1>5. ASSUME WorkerStep PROVE Reconciler!WorkerStep
  BY <1>4, <1>5
  DEF WorkerStep, Dequeue, AddFinalizer, RemoveFinalizer, UpdateFails,
      Branch, Terminal, Store, Idle, Absent,
      Reconciler!WorkerStep, Reconciler!Dequeue, Reconciler!AddFinalizer,
      Reconciler!RemoveFinalizer, Reconciler!UpdateFails, Reconciler!Branch,
      Reconciler!Terminal, Reconciler!Store, Reconciler!Idle, Reconciler!Absent
<1>6. ASSUME Crash PROVE Reconciler!Crash
  BY <1>6
  DEF Crash, Idle, Absent, Reconciler!Crash, Reconciler!Idle, Reconciler!Absent
<1>7. QED
  BY <1>1, <1>2, <1>3, <1>4, <1>5, <1>6

(* What is held is read off the labels.                                    *)
LEMMA HeldStays ==
  ASSUME mset' = mset
  PROVE  /\ Held' = Held
         /\ dropped' = dropped => (Held \ dropped)' = Held \ dropped
  BY DEF Held

(* Without labels, AppWrapperReconciler is in its initial state.           *)
LEMMA InitRefines ==
  ASSUME Init
  PROVE  Reconciler!Init
<1>1. Held = {}
  BY DEF Init, Held
<1>2. QED
  BY <1>1, SameSteps DEF Init, Reconciler!Init

(* A step that leaves the AppWrappers and the labels alone.                *)
LEMMA Stutters ==
  ASSUME UNCHANGED <<storeVars, mset, dropped>>
  PROVE  UNCHANGED Reconciler!vars
  BY HeldStays DEF storeVars, Reconciler!vars

(* A call that returns without a MachineSet written: the end of a scaling  *)
(* pass, or an error of a finalizing one.                                  *)
LEMMA ReturnRefines ==
  ASSUME UNCHANGED <<mset, dropped>>, NEW r \in BOOLEAN, Return(r),
         worker.pc = "scale" \/ (worker.pc = "finalize" /\ r = TRUE)
  PROVE  Reconciler!Next
<1>1. /\ Reconciler!Finish(r) /\ (Held \ dropped)' = Held \ dropped
      /\ UNCHANGED <<api, cache, synced>>
  BY HeldStays, SameSteps DEF Return
<1>2. CASE worker.pc = "scale"
  BY <1>1, <1>2 DEF Reconciler!Next, Reconciler!ScaleReturns
<1>3. CASE worker.pc = "finalize" /\ r = TRUE
  BY <1>1, <1>3 DEF Reconciler!Next, Reconciler!FinalizeFails
<1>4. QED
  BY <1>2, <1>3

(* The write of the scaling call acquires, for the demand is not 0: as a   *)
(* string, nothing is less than any number.                                *)
LEMMA GrowRefines ==
  ASSUME IInv, GrowMachineSet
  PROVE  Reconciler!Acquire
<1>1. /\ mset \in [MachineSets -> MachineSet]
      /\ worker \in Worker /\ worker.pc = "scale" /\ key \in AppWrappers
      /\ pass.ms \in MachineSets /\ pass.sets[pass.ms] = mset[pass.ms]
      /\ UNCHANGED storeVars
  BY DEF IInv, TypeOK, StoreTypeOK, VersionsAreSound, Worker, Pass, key,
         GrowMachineSet, Labelled, ScaleStage
<1>2. demand # 0
  BY DEF GrowMachineSet, StringLess
<1>3. mset[pass.ms] \in MachineSet
  BY <1>1
<1>4. /\ mset'[pass.ms].label = [mset[pass.ms].label EXCEPT ![key] = demand]
      /\ \A ms \in MachineSets \ {pass.ms} : mset'[ms] = mset[ms]
  BY <1>1, <1>3 DEF GrowMachineSet, StoreMachineSet, MachineSet
<1>5. mset[pass.ms].label \in [AppWrappers -> Demands \cup {0}]
  BY <1>3 DEF MachineSet
<1>6. Held' = Held \cup {key} /\ dropped' = dropped \ {key}
  BY <1>1, <1>2, <1>4, <1>5 DEF Held, GrowMachineSet
<1>7. QED
  BY <1>1, <1>6 DEF Reconciler!Acquire, storeVars, Reconciler!storeVars, key

(* The finalizing call gives back what it held, or one MachineSet of it.   *)
LEMMA UnlabelRefines ==
  ASSUME IInv, removeMachineSetLabel
  PROVE  Reconciler!Release \/ UNCHANGED Reconciler!vars
<1>1. /\ mset \in [MachineSets -> MachineSet]
      /\ worker.pc = "finalize" /\ pass.ms \in MachineSets
      /\ UNCHANGED storeVars
  BY ReuseAssumption DEF IInv, TypeOK, removeMachineSetLabel, FinalizeStage
<1>2. mset[pass.ms] \in MachineSet
  BY <1>1
<1>3. /\ mset'[pass.ms].label = [mset[pass.ms].label EXCEPT ![key] = 0]
      /\ \A ms \in MachineSets \ {pass.ms} : mset'[ms] = mset[ms]
  BY <1>1, <1>2 DEF removeMachineSetLabel, StoreMachineSet, MachineSet
<1>4. mset[pass.ms].label \in [AppWrappers -> Demands \cup {0}]
  BY <1>2 DEF MachineSet
<1>5. (Held' = Held \/ Held' = Held \ {key}) /\ dropped' = dropped
  BY <1>1, <1>3, <1>4 DEF Held, removeMachineSetLabel
<1>6. QED
  BY <1>1, <1>5
  DEF Reconciler!Release, storeVars, Reconciler!storeVars, Reconciler!vars, key

(* Shrinking leaves the labels alone.                                      *)
LEMMA ShrinkRefines ==
  ASSUME IInv, ShrinkMachineSet
  PROVE  UNCHANGED Reconciler!vars
<1>1. /\ pass \in Pass /\ mset \in [MachineSets -> MachineSet]
      /\ UNCHANGED storeVars
  BY DEF IInv, TypeOK, ShrinkMachineSet
<1>2. PICK ms \in pass.todo \cap pass.fresh :
         mset' = [mset EXCEPT ![ms] =
            [pass.sets[ms] EXCEPT !.replicas = @ - pass.sets[ms].label[key]]]
  BY DEF ShrinkMachineSet, StoreMachineSet
<1>3. ms \in MachineSets /\ pass.sets[ms] = mset[ms] /\ mset[ms] \in MachineSet
  BY <1>1 DEF Pass, IInv, VersionsAreSound
<1>4. /\ mset'[ms].label = mset[ms].label
      /\ \A other \in MachineSets \ {ms} : mset'[other] = mset[other]
  BY <1>1, <1>2, <1>3 DEF MachineSet
<1>5. Held' = Held /\ dropped' = dropped
  BY <1>3, <1>4 DEF Held, ShrinkMachineSet
<1>6. QED
  BY <1>1, <1>5 DEF storeVars, Reconciler!vars

(* A list that overlooks a label gives the AppWrapper up, which to the     *)
(* promise is no different from a release.                                 *)
LEMMA ListRefines ==
  ASSUME ListLabelled
  PROVE  Reconciler!Release \/ UNCHANGED Reconciler!vars
<1>1. /\ worker.pc = "finalize" /\ UNCHANGED storeVars /\ UNCHANGED mset
      /\ dropped' = dropped \/ dropped' = dropped \cup {key}
  BY DEF ListLabelled, Overlooking, FinalizeStage
<1>2. \/ (Held \ dropped)' = Held \ dropped
      \/ (Held \ dropped)' = (Held \ dropped) \ {key}
  BY <1>1, HeldStays
<1>3. QED
  BY <1>1, <1>2
  DEF Reconciler!Release, storeVars, Reconciler!storeVars, Reconciler!vars, key

(* The finalizing call returns nil with nothing held that it did not       *)
(* overlook.                                                               *)
LEMMA EndRefines ==
  ASSUME IInv, EndFinalize
  PROVE  Reconciler!FinalizeReturns
<1>1. key \notin Held \ dropped
  BY DEF EndFinalize, FinalizeStage, IInv, NoLabelOverlooked, Held
<1>2. (Held \ dropped)' = Held \ dropped
  BY HeldStays DEF EndFinalize
<1>3. QED
  BY <1>1, <1>2
  DEF EndFinalize, FinalizeStage, Reconciler!FinalizeReturns, key

(* Every step is one of AppWrapperReconciler, or none.                     *)
LEMMA StepRefines ==
  ASSUME IInv, [Next]_vars
  PROVE  [Reconciler!Next]_(Reconciler!vars)
<1>1. CASE ClientStep \/ ControllerStep
  BY <1>1, HeldStays, SameSteps DEF ClientStep, ControllerStep, Reconciler!Next
<1>2. CASE ScaleStep
  <2>1. CASE GrowMachineSet
    BY <2>1, GrowRefines DEF Reconciler!Next
  <2>2. CASE \/ LabelFails \/ AwaitMachines \/ removeMachinesBasedOnReplicas
             \/ RequeueAfterUpdate \/ EndScale
    <3>1. worker.pc = "scale" /\ UNCHANGED <<mset, dropped>>
      BY <2>2
      DEF LabelFails, AwaitMachines, removeMachinesBasedOnReplicas,
          RequeueAfterUpdate, EndScale, Labelled, ScaleStage
    <3>2. \E r \in BOOLEAN : Return(r)
      BY <2>2
      DEF LabelFails, AwaitMachines, removeMachinesBasedOnReplicas,
          RequeueAfterUpdate, EndScale
    <3>3. QED
      BY <3>1, <3>2, ReturnRefines
  <2>3. CASE \/ \E type \in InstanceTypes :
                  ListMachineSets(type) \/ NextInstanceType(type)
             \/ VisitMachineSet \/ SkipMachine
             \/ addLabelToMachine \/ addLabelToNode \/ LeaveMachineSet
    <3>1. UNCHANGED <<storeVars, mset, dropped>>
      BY <2>3
      DEF ListMachineSets, NextInstanceType, VisitMachineSet, SkipMachine,
          addLabelToMachine, addLabelToNode, LeaveMachineSet
    <3>2. QED
      BY <3>1, Stutters
  <2>4. QED
    BY <1>2, <2>1, <2>2, <2>3 DEF ScaleStep
<1>3. CASE FinalizeStep
  <2>1. CASE ListNodes \/ AnnotateMachine
    <3>1. UNCHANGED <<storeVars, mset, dropped>>
      BY <2>1 DEF ListNodes, AnnotateMachine
    <3>2. QED
      BY <3>1, Stutters
  <2>2. CASE FinalizeConflicts
    BY <2>2, ReturnRefines DEF FinalizeConflicts, FinalizeStage
  <2>3. CASE EndFinalize
    BY <2>3, EndRefines DEF Reconciler!Next
  <2>4. CASE removeMachineSetLabel
    BY <2>4, UnlabelRefines DEF Reconciler!Next
  <2>5. QED
    BY <1>3, <2>1, <2>2, <2>3, <2>4, ListRefines, ShrinkRefines
    DEF FinalizeStep, Reconciler!Next
<1>4. CASE CallFails
  <2>1. worker.pc \in {"scale", "finalize"}
    BY <1>4 DEF CallFails, IInv, PassIsPlaced
  <2>2. QED
    BY <1>4, <2>1, ReturnRefines DEF CallFails
<1>5. CASE CrashStep
  BY <1>5, HeldStays, SameSteps DEF CrashStep, Reconciler!Next
<1>6. CASE \E m \in Machines : MachineStep(m)
  <2>1. UNCHANGED <<storeVars, mset, dropped>>
    BY <1>6 DEF MachineStep, CreateMachine, StartMachine, DeleteMachine,
                RemoveMachine, SyncMachine
  <2>2. QED
    BY <2>1, Stutters
<1>7. CASE \E ms \in MachineSets : MachineSetStep(ms)
  <2>1. UNCHANGED <<storeVars, mset, dropped>>
    BY <1>7 DEF MachineSetStep, UpdateStatus, SyncMachineSet
  <2>2. QED
    BY <2>1, Stutters
<1>8. CASE UNCHANGED vars
  BY <1>8, Stutters DEF vars
<1>9. QED
  BY <1>1, <1>2, <1>3, <1>4, <1>5, <1>6, <1>7, <1>8 DEF Next

(* The reuse strategy keeps InstaScale's promise: an AppWrapper is let go  *)
(* by annotateToDeleteMachine only when no MachineSet carries its label, or*)
(* when a list read from the cache did not show a label that was there.    *)
THEOREM ReuseImplements == Spec => ImplementsReconciler
<1>1. Init => Reconciler!Init
  BY InitRefines
<1>2. IInv /\ [Next]_vars => [Reconciler!Next]_(Reconciler!vars)
  BY StepRefines
<1>3. QED
  BY <1>1, <1>2, ReuseInvariant, PTL
  DEF Spec, ImplementsReconciler, Reconciler!Spec

(* The theorems about AppWrapperReconciler, with what the labels hold.     *)
Protection == INSTANCE AppWrapperReconcilerProofs WITH held <- Held \ dropped

(* A MachineSet carries an AppWrapper's label only as long as that         *)
(* AppWrapper exists and has the finalizer by which it is remembered, but  *)
(* for an AppWrapper of which a finalizing call's list lacked a label that *)
(* was there: nothing else, no conflict, failed call, lost reply or        *)
(* restart, leaves a MachineSet grown for good.                            *)
THEOREM LabelledProtected ==
  Spec => [](\A aw \in Held \ dropped : api[aw].exists /\ api[aw].fin)
<1>1. Protection!Spec => []Protection!HeldIsProtected
  BY AppWrapperAssumption, DemandAssumption, Protection!HeldProtected
<1>2. Protection!HeldIsProtected
         => \A aw \in Held \ dropped : api[aw].exists /\ api[aw].fin
  BY DEF Protection!HeldIsProtected
<1>3. Reconciler!Init => Protection!Init
  BY DEF Reconciler!Init, Protection!Init, Reconciler!StoreInit,
         Protection!StoreInit, Reconciler!Idle, Protection!Idle,
         Reconciler!Absent, Protection!Absent
<1>4. [Reconciler!Next]_(Reconciler!vars) => [Protection!Next]_(Protection!vars)
  BY
  DEF Reconciler!Next, Protection!Next, Reconciler!vars, Protection!vars,
      Reconciler!Client, Protection!Client, Reconciler!CreateAppWrapper,
      Protection!CreateAppWrapper, Reconciler!DeleteAppWrapper,
      Protection!DeleteAppWrapper, Reconciler!EditAppWrapper,
      Protection!EditAppWrapper, Reconciler!DispatchAppWrapper,
      Protection!DispatchAppWrapper, Reconciler!ExternalWrite,
      Protection!ExternalWrite, Reconciler!Store, Protection!Store,
      Reconciler!States, Protection!States, Reconciler!Absent,
      Protection!Absent, Reconciler!Informer, Protection!Informer,
      Reconciler!SyncCache, Protection!SyncCache, Reconciler!Resync,
      Protection!Resync, Reconciler!WorkerStep, Protection!WorkerStep,
      Reconciler!Dequeue, Protection!Dequeue, Reconciler!AddFinalizer,
      Protection!AddFinalizer, Reconciler!RemoveFinalizer,
      Protection!RemoveFinalizer, Reconciler!UpdateFails,
      Protection!UpdateFails, Reconciler!Branch, Protection!Branch,
      Reconciler!Terminal, Protection!Terminal, Reconciler!Idle,
      Protection!Idle, Reconciler!Finish, Protection!Finish,
      Reconciler!Acquire, Protection!Acquire, Reconciler!ScaleReturns,
      Protection!ScaleReturns, Reconciler!Release, Protection!Release,
      Reconciler!FinalizeReturns, Protection!FinalizeReturns,
      Reconciler!FinalizeFails, Protection!FinalizeFails, Reconciler!Crash,
      Protection!Crash, Reconciler!storeVars, Protection!storeVars
<1>5. QED
  BY <1>1, <1>2, <1>3, <1>4, ReuseImplements, PTL
  DEF ImplementsReconciler, Reconciler!Spec, Protection!Spec
=============================================================================
