------------------------ MODULE MachineSetGrowthProofs ------------------------
(***************************************************************************)
(* For every finite set of AppWrappers, and every set of MachineSets,      *)
(* machines and instance types: no replica above a MachineSet's base is    *)
(* unaccounted for by the labels, as long as no AppWrapper changes what it *)
(* asks for. Lists of MachineSets may be out of date.                      *)
(***************************************************************************)
EXTENDS MachineSetReuseProofs, FiniteSums

USE DEF machineVars, setVars, bounds

-----------------------------------------------------------------------------
(* AppWrappers ask for what f says, as long as they are there.             *)
Steady(f) == \A aw \in AppWrappers : api[aw].exists => api[aw].demand = f[aw]

(* What the cache shows, and the worker holds, was asked for.              *)
ReadsAreSteady(f) ==
    /\ \A aw \in AppWrappers : cache[aw].exists => cache[aw].demand = f[aw]
    /\ worker.pc # "idle" => demand = f[key]

(* A label says what is asked for, or nothing.                             *)
LabelsAreSteady(f) ==
    \A ms \in MachineSets, aw \in AppWrappers : mset[ms].label[aw] \in {0, f[aw]}

(* What is gone from a MachineSet and still on its label, because the call *)
(* is between its two writes.                                              *)
Gone(ms) ==
    IF pass.stage = "unlabel" /\ ms = pass.ms THEN mset[ms].label[key] ELSE 0

Accounted(ms) == mset[ms].replicas + Gone(ms) <= Base[ms] + Total(mset[ms].label)

GrowthInv(f) ==
    /\ ReadsAreSteady(f)
    /\ LabelsAreSteady(f)
    /\ \A ms \in MachineSets : Accounted(ms)

(* Labels are numbers for which the lemmas about totals hold.              *)
LEMMA LabelType ==
  ASSUME TypeOK, NEW ms \in MachineSets
  PROVE  /\ mset[ms].label \in [AppWrappers -> Nat]
         /\ mset[ms].label \in [AppWrappers -> Demands \cup {0}]
         /\ mset[ms].replicas \in Int /\ Base[ms] \in Int /\ Base[ms] \in Nat
         /\ mset[ms] \in MachineSet
<1>1. mset[ms] \in MachineSet
  BY DEF TypeOK
<1>2. QED
  BY <1>1, DemandType, ReuseAssumption DEF MachineSet

(* At first MachineSets have their own replicas and no label.              *)
LEMMA GrowthInit ==
  ASSUME IsFiniteSet(AppWrappers), NEW f, Init
  PROVE  GrowthInv(f)
<1>1. TypeOK
  BY InitInvariant DEF IInv
<1>2. ASSUME NEW ms \in MachineSets PROVE Accounted(ms)
  <2>1. Total(mset[ms].label) \in Nat
    BY <1>1, LabelType, TotalNatural
  <2>2. mset[ms].replicas = Base[ms] /\ Gone(ms) = 0
    BY DEF Init, NoPass, Gone
  <2>3. Base[ms] \in Nat
    BY ReuseAssumption
  <2>4. QED
    BY <2>1, <2>2, <2>3 DEF Accounted
<1>3. ReadsAreSteady(f) /\ LabelsAreSteady(f)
  BY DEF Init, StoreInit, Idle, Absent, ReadsAreSteady, LabelsAreSteady
<1>4. QED
  BY <1>2, <1>3 DEF GrowthInv

(* A pass copies what it reads from the cache, and the cache is filled from*)
(* the objects; no other step writes either.                               *)
LEMMA ReadsKept ==
  ASSUME NEW f, IInv, ReadsAreSteady(f), Steady(f), [Next]_vars
  PROVE  ReadsAreSteady(f)'
<1> USE DEF key, demand
<1>0. worker \in Worker /\ cache \in [AppWrappers -> Object]
  BY DEF IInv, TypeOK, StoreTypeOK
<1>1. CASE UNCHANGED storeVars
  BY <1>1 DEF storeVars, ReadsAreSteady
<1>2. CASE worker' = Idle /\ cache' = cache
  BY <1>2 DEF Idle, ReadsAreSteady
<1>3. CASE EndFinalize
  BY <1>0, <1>3 DEF EndFinalize, FinalizeStage, Worker, ReadsAreSteady
<1>4. CASE Crash
  BY <1>4 DEF Crash, Idle, Steady, ReadsAreSteady
<1>5. ASSUME NEW aw \in AppWrappers, Client(aw) PROVE ReadsAreSteady(f)'
  BY <1>0, <1>5
  DEF Client, CreateAppWrapper, DeleteAppWrapper, EditAppWrapper,
      DispatchAppWrapper, ExternalWrite, Store, Worker, ReadsAreSteady
<1>6. ASSUME NEW aw \in AppWrappers, Informer(aw) PROVE ReadsAreSteady(f)'
  BY <1>0, <1>6 DEF Informer, SyncCache, Resync, Steady, ReadsAreSteady
<1>7. ASSUME NEW aw \in AppWrappers, Dequeue(aw) PROVE ReadsAreSteady(f)'
  BY <1>7 DEF Dequeue, Branch, Idle, ReadsAreSteady
<1>8. \/ UNCHANGED storeVars
      \/ worker' = Idle /\ cache' = cache
      \/ EndFinalize \/ Crash
      \/ \E aw \in AppWrappers : Client(aw) \/ Informer(aw) \/ Dequeue(aw)
  <2>1. ASSUME NEW r \in BOOLEAN, Return(r) PROVE worker' = Idle /\ cache' = cache
    BY <2>1 DEF Return, Finish
  <2>2. CASE ScaleStep
    BY <2>1, <2>2
    DEF ScaleStep, ListMachineSets, NextInstanceType, VisitMachineSet,
        SkipMachine, addLabelToMachine, addLabelToNode, LabelFails,
        LeaveMachineSet, GrowMachineSet, AwaitMachines,
        removeMachinesBasedOnReplicas, RequeueAfterUpdate, EndScale
  <2>3. CASE FinalizeStep \/ CallFails
    BY <2>1, <2>3
    DEF FinalizeStep, ListNodes, AnnotateMachine, ListLabelled,
        ShrinkMachineSet, removeMachineSetLabel, FinalizeConflicts, CallFails
  <2>4. CASE WorkerStep
    BY <2>4
    DEF WorkerStep, AddFinalizer, RemoveFinalizer, UpdateFails, Store, Finish
  <2>5. CASE \/ \E m \in Machines : MachineStep(m)
             \/ \E ms \in MachineSets : MachineSetStep(ms)
    BY <2>5
    DEF MachineStep, MachineSetStep, CreateMachine, StartMachine,
        DeleteMachine, RemoveMachine, SyncMachine, UpdateStatus, SyncMachineSet
  <2>6. QED
    BY <2>2, <2>3, <2>4, <2>5 DEF Next, vars, ClientStep, ControllerStep, CrashStep
<1>9. QED
  BY <1>1, <1>2, <1>3, <1>4, <1>5, <1>6, <1>7, <1>8

(* The writes to MachineSets that the strategy makes.                      *)
LEMMA MachineSetWrites ==
  ASSUME [Next]_vars, mset' # mset
  PROVE  GrowMachineSet \/ ShrinkMachineSet \/ removeMachineSetLabel
<1>1. ASSUME \/ \E type \in InstanceTypes :
                   ListMachineSets(type) \/ NextInstanceType(type)
             \/ VisitMachineSet \/ SkipMachine
             \/ addLabelToMachine \/ addLabelToNode \/ LeaveMachineSet
      PROVE  mset' = mset
  BY <1>1
  DEF ListMachineSets, NextInstanceType, VisitMachineSet, SkipMachine,
      addLabelToMachine, addLabelToNode, LeaveMachineSet
<1>2. ASSUME \/ LabelFails \/ AwaitMachines \/ removeMachinesBasedOnReplicas
             \/ RequeueAfterUpdate \/ EndScale
      PROVE  mset' = mset
  BY <1>2
  DEF LabelFails, AwaitMachines, removeMachinesBasedOnReplicas,
      RequeueAfterUpdate, EndScale
<1>3. ASSUME \/ ListNodes \/ AnnotateMachine \/ ListLabelled \/ EndFinalize
             \/ FinalizeConflicts \/ CallFails \/ CrashStep
      PROVE  mset' = mset
  BY <1>3
  DEF ListNodes, AnnotateMachine, ListLabelled, EndFinalize,
      FinalizeConflicts, CallFails, CrashStep
<1>4. ASSUME \/ \E m \in Machines : MachineStep(m)
             \/ \E ms \in MachineSets : MachineSetStep(ms)
      PROVE  mset' = mset
  BY <1>4
  DEF MachineStep, MachineSetStep, CreateMachine, StartMachine,
      DeleteMachine, RemoveMachine, SyncMachine, UpdateStatus, SyncMachineSet
<1>5. ASSUME ClientStep \/ ControllerStep \/ UNCHANGED vars
      PROVE  mset' = mset
  BY <1>5 DEF ClientStep, ControllerStep, vars
<1>6. QED
  BY <1>1, <1>2, <1>3, <1>4, <1>5 DEF Next, ScaleStep, FinalizeStep

(* Only ShrinkMachineSet brings the call between its two writes.           *)
LEMMA BetweenWrites ==
  ASSUME IInv, [Next]_vars, ~ShrinkMachineSet, pass'.stage = "unlabel"
  PROVE  pass.stage = "unlabel" /\ pass'.ms = pass.ms /\ key' = key
<1> USE DEF key
<1>0. /\ pass \in Pass /\ worker \in Worker
      /\ pass.stage = "unlabel" => worker.pc = "finalize"
  BY DEF IInv, TypeOK, StoreTypeOK, PassIsPlaced
<1>1. pass' # NoPass
  BY DEF NoPass
<1>2. ~Return(TRUE) /\ ~Return(FALSE)
  BY <1>1 DEF Return
<1>3. CASE UNCHANGED <<pass, worker>>
  BY <1>3
<1>4. CASE ClientStep \/ ControllerStep
  <2>1. pass' = pass /\ worker.pc = "finalize"
    BY <1>0, <1>4 DEF ClientStep, ControllerStep
  <2>2. worker'.key = worker.key
    BY <1>0, <1>4, <2>1
    DEF ClientStep, ControllerStep, Client, CreateAppWrapper,
        DeleteAppWrapper, EditAppWrapper, DispatchAppWrapper, ExternalWrite,
        Informer, SyncCache, Resync, WorkerStep, Dequeue, AddFinalizer,
        RemoveFinalizer, UpdateFails, Worker
  <2>3. QED
    BY <2>1, <2>2
<1>5. CASE ScaleStep
  BY <1>0, <1>2, <1>5
  DEF ScaleStep, ListMachineSets, NextInstanceType, VisitMachineSet,
      SkipMachine, addLabelToMachine, addLabelToNode, LabelFails,
      LeaveMachineSet, GrowMachineSet, AwaitMachines, Labelled,
      removeMachinesBasedOnReplicas, RequeueAfterUpdate, EndScale, Begin,
      NoPass, ScaleStage, Pass, storeVars
<1>6. CASE FinalizeStep \/ CallFails \/ CrashStep
  BY <1>0, <1>1, <1>2, <1>6
  DEF FinalizeStep, ListNodes, AnnotateMachine, ListLabelled, EndFinalize,
      removeMachineSetLabel, FinalizeConflicts, CallFails, CrashStep, NoPass,
      FinalizeStage, Pass, storeVars
<1>7. ASSUME NEW ms \in MachineSets, UpdateStatus(ms)
      PROVE  pass'.stage = pass.stage /\ pass'.ms = pass.ms /\ key' = key
  BY <1>0, <1>7 DEF UpdateStatus, Pass, storeVars
<1>8. CASE \/ \E m \in Machines : MachineStep(m)
           \/ \E ms \in MachineSets : SyncMachineSet(ms)
  BY <1>3, <1>8
  DEF MachineStep, CreateMachine, StartMachine, DeleteMachine, RemoveMachine,
      SyncMachine, SyncMachineSet, storeVars
<1>9. QED
  BY <1>3, <1>4, <1>5, <1>6, <1>7, <1>8 DEF Next, vars, storeVars, MachineSetStep

(* What is gone is a number, since only a pass, and so for an AppWrapper,  *)
(* is ever between the two writes.                                         *)
LEMMA GoneType ==
  ASSUME IInv, NEW ms \in MachineSets
  PROVE  /\ Gone(ms) \in Nat
         /\ worker.pc # "idle" => key \in AppWrappers
<1>1. worker.pc # "idle" => key \in AppWrappers
  BY DEF IInv, TypeOK, StoreTypeOK, Worker, key
<1>2. pass.stage = "unlabel" => worker.pc # "idle"
  BY DEF IInv, PassIsPlaced
<1>3. mset[ms].label \in [AppWrappers -> Nat]
  BY LabelType DEF IInv
<1>4. QED
  BY <1>1, <1>2, <1>3 DEF Gone

(* A MachineSet that a step leaves alone is accounted for as before.       *)
LEMMA UntouchedAccounted ==
  ASSUME IsFiniteSet(AppWrappers), IInv, [Next]_vars, NEW ms \in MachineSets,
         Accounted(ms), mset'[ms] = mset[ms],
         ~(ShrinkMachineSet /\ pass'.ms = ms)
  PROVE  Accounted(ms)'
<1>1. Gone(ms)' = 0 \/ Gone(ms)' = Gone(ms)
  <2>1. CASE pass'.stage = "unlabel" /\ pass'.ms = ms
    BY <2>1, BetweenWrites DEF Gone
  <2>2. CASE ~(pass'.stage = "unlabel" /\ pass'.ms = ms)
    BY <2>2 DEF Gone
  <2>3. QED
    BY <2>1, <2>2
<1>2. /\ Gone(ms) \in Nat /\ mset[ms].replicas \in Int /\ Base[ms] \in Int
      /\ Total(mset[ms].label) \in Nat
  BY GoneType, LabelType, TotalNatural DEF IInv
<1>3. mset[ms].replicas + Gone(ms)' <= Base[ms] + Total(mset[ms].label)
  BY <1>1, <1>2 DEF Accounted
<1>4. QED
  BY <1>3 DEF Accounted

(* The replicas that are added are on the label, which was empty.          *)
LEMMA GrowAccounted ==
  ASSUME IsFiniteSet(AppWrappers), NEW f, IInv, GrowthInv(f), GrowMachineSet,
         NEW ms, ms = pass.ms
  PROVE  /\ ms \in MachineSets /\ Accounted(ms)' /\ LabelsAreSteady(f)'
         /\ \A other \in MachineSets \ {ms} : mset'[other] = mset[other]
<1> DEFINE old == mset[ms]
<1>1. /\ pass \in Pass /\ mset \in [MachineSets -> MachineSet]
      /\ worker.pc = "scale" /\ pass.stage = "label" /\ ms \in MachineSets
      /\ pass.sets[ms] = old
  BY DEF IInv, TypeOK, Pass, VersionsAreSound, GrowMachineSet, Labelled, ScaleStage
<1>2. /\ key \in AppWrappers /\ demand \in Nat /\ pass.running \in Nat
      /\ old.label \in [AppWrappers -> Nat] /\ old \in MachineSet
      /\ old.replicas \in Int /\ Base[ms] \in Int
  <2>1. demand \in Demands \cup {0}
    BY DEF IInv, TypeOK, StoreTypeOK, Worker, Object, demand
  <2>2. QED
    BY <1>1, <2>1, DemandType, GoneType, LabelType DEF IInv, Pass
<1>3. demand = f[key] /\ old.label[key] = 0
  BY <1>1, <1>2 DEF GrowMachineSet, GrowthInv, ReadsAreSteady, LabelsAreSteady
<1>4. mset' = [mset EXCEPT ![ms] =
         [old EXCEPT !.replicas = @ - pass.running + demand, !.label[key] = demand]]
  BY <1>1 DEF GrowMachineSet, StoreMachineSet
<1>5. /\ mset'[ms].replicas = old.replicas - pass.running + demand
      /\ mset'[ms].label = [old.label EXCEPT ![key] = demand]
      /\ \A other \in MachineSets \ {ms} : mset'[other] = mset[other]
  BY <1>1, <1>2, <1>4 DEF MachineSet
<1> HIDE DEF old
<1>6. Total(mset'[ms].label) = Total(old.label) - old.label[key] + demand
  BY <1>2, <1>5, TotalChanges
<1>7. Accounted(ms)'
  <2>1. Gone(ms) = 0 /\ Gone(ms)' = 0
    BY <1>1 DEF GrowMachineSet, NoPass, Gone
  <2>2. old.replicas <= Base[ms] + Total(old.label)
    BY <1>1, <1>2, <2>1 DEF GrowthInv, Accounted, old
  <2>3. Total(old.label) \in Nat
    BY <1>2, TotalNatural
  <2>4. mset'[ms].replicas + 0 <= Base[ms] + Total(mset'[ms].label)
    BY <1>2, <1>3, <1>5, <1>6, <2>2, <2>3
  <2>5. QED
    BY <2>1, <2>4 DEF Accounted
<1>8. LabelsAreSteady(f)'
  BY <1>2, <1>3, <1>5 DEF GrowthInv, LabelsAreSteady, old
<1>9. QED
  BY <1>1, <1>5, <1>7, <1>8

(* What a MachineSet is shrunk by stays on its label for the moment.       *)
LEMMA ShrinkAccounted ==
  ASSUME IsFiniteSet(AppWrappers), NEW f, IInv, GrowthInv(f),
         ShrinkMachineSet, NEW ms, ms = pass'.ms
  PROVE  /\ ms \in MachineSets /\ Accounted(ms)' /\ LabelsAreSteady(f)'
         /\ \A other \in MachineSets \ {ms} : mset'[other] = mset[other]
<1> DEFINE old == mset[ms]
<1>1. /\ pass \in Pass /\ mset \in [MachineSets -> MachineSet]
      /\ worker.pc = "finalize" /\ pass.stage = "shrink" /\ key' = key
  BY DEF IInv, TypeOK, ShrinkMachineSet, FinalizeStage, storeVars, key
<1>2. /\ ms \in MachineSets /\ pass.sets[ms] = old /\ pass'.stage = "unlabel"
      /\ mset' = [mset EXCEPT ![ms] =
                    [old EXCEPT !.replicas = @ - old.label[key]]]
  <2>1. PICK m \in pass.todo \cap pass.fresh :
           /\ StoreMachineSet(m,
                 [pass.sets[m] EXCEPT !.replicas = @ - pass.sets[m].label[key]])
           /\ pass' = [pass EXCEPT !.stage = "unlabel", !.ms = m,
                                   !.todo = @ \ {m}, !.fresh = @ \ {m}]
    BY DEF ShrinkMachineSet
  <2>2. m = ms /\ pass'.stage = "unlabel" /\ m \in MachineSets
    BY <1>1, <2>1 DEF Pass
  <2>3. pass.sets[ms] = old
    BY <2>2 DEF IInv, VersionsAreSound
  <2>4. QED
    BY <2>1, <2>2, <2>3 DEF StoreMachineSet
<1>3. /\ key \in AppWrappers /\ old \in MachineSet
      /\ old.label \in [AppWrappers -> Nat] /\ old.label[key] \in Nat
      /\ old.replicas \in Int /\ Base[ms] \in Int
  BY <1>1, <1>2, GoneType, LabelType DEF IInv
<1>4. /\ mset'[ms].replicas = old.replicas - old.label[key]
      /\ mset'[ms].label = old.label
      /\ \A other \in MachineSets \ {ms} : mset'[other] = mset[other]
  BY <1>1, <1>2, <1>3 DEF MachineSet
<1> HIDE DEF old
<1>5. Gone(ms)' = old.label[key] /\ Gone(ms) = 0
  BY <1>1, <1>2, <1>4 DEF Gone
<1>6. old.replicas <= Base[ms] + Total(old.label) /\ Total(old.label) \in Nat
  BY <1>2, <1>3, <1>5, TotalNatural DEF GrowthInv, Accounted, old
<1>7. mset'[ms].replicas + old.label[key] <= Base[ms] + Total(mset'[ms].label)
  BY <1>3, <1>4, <1>6
<1>8. Accounted(ms)'
  BY <1>5, <1>7 DEF Accounted
<1>9. LabelsAreSteady(f)'
  BY <1>4 DEF GrowthInv, LabelsAreSteady, old
<1>10. QED
  BY <1>2, <1>4, <1>8, <1>9

(* The label goes after the replicas.                                      *)
LEMMA UnlabelAccounted ==
  ASSUME IsFiniteSet(AppWrappers), NEW f, IInv, GrowthInv(f),
         removeMachineSetLabel, NEW ms, ms = pass.ms
  PROVE  /\ ms \in MachineSets /\ Accounted(ms)' /\ LabelsAreSteady(f)'
         /\ \A other \in MachineSets \ {ms} : mset'[other] = mset[other]
<1> DEFINE old == mset[ms]
<1>1. /\ pass \in Pass /\ mset \in [MachineSets -> MachineSet]
      /\ worker.pc = "finalize" /\ pass.stage = "unlabel" /\ ms \in MachineSets
  BY ReuseAssumption DEF IInv, TypeOK, removeMachineSetLabel, FinalizeStage
<1>2. /\ key \in AppWrappers /\ old \in MachineSet
      /\ old.label \in [AppWrappers -> Nat] /\ old.label[key] \in Nat
      /\ old.replicas \in Int /\ Base[ms] \in Int
  BY <1>1, GoneType, LabelType DEF IInv
<1>3. mset' = [mset EXCEPT ![ms] = [old EXCEPT !.label[key] = 0]]
  BY DEF removeMachineSetLabel, StoreMachineSet
<1>4. /\ mset'[ms].replicas = old.replicas
      /\ mset'[ms].label = [old.label EXCEPT ![key] = 0]
      /\ \A other \in MachineSets \ {ms} : mset'[other] = mset[other]
  BY <1>1, <1>2, <1>3 DEF MachineSet
<1> HIDE DEF old
<1>5. Gone(ms) = old.label[key] /\ Gone(ms)' = 0
  BY <1>1 DEF removeMachineSetLabel, Pass, Gone, old
<1>6. Total(mset'[ms].label) = Total(old.label) - old.label[key] + 0
  <2>1. ASSUME NEW n \in Nat
        PROVE  Total([old.label EXCEPT ![key] = n]) = Total(old.label) - old.label[key] + n
    BY <1>2, TotalChanges
  <2>2. QED
    BY <1>4, <2>1
<1>7. /\ old.replicas + old.label[key] <= Base[ms] + Total(old.label)
      /\ Total(old.label) \in Nat
  BY <1>1, <1>2, <1>5, TotalNatural DEF GrowthInv, Accounted, old
<1>8. mset'[ms].replicas + 0 <= Base[ms] + Total(mset'[ms].label)
  BY <1>2, <1>4, <1>6, <1>7
<1>9. Accounted(ms)'
  BY <1>5, <1>8 DEF Accounted
<1>10. LabelsAreSteady(f)'
  BY <1>2, <1>4 DEF GrowthInv, LabelsAreSteady, old
<1>11. QED
  BY <1>1, <1>4, <1>9, <1>10

(* A MachineSet is accounted for after any step: it is left alone, or it   *)
(* is the one that a strategy's write was for.                             *)
LEMMA GrowthKept ==
  ASSUME IsFiniteSet(AppWrappers), NEW f, IInv, GrowthInv(f), Steady(f),
         [Next]_vars
  PROVE  GrowthInv(f)'
<1>1. ReadsAreSteady(f)'
  BY ReadsKept DEF GrowthInv
<1>2. CASE mset' = mset /\ ~ShrinkMachineSet
  BY <1>1, <1>2, UntouchedAccounted DEF GrowthInv, LabelsAreSteady
<1>3. ASSUME NEW ms \in MachineSets, Accounted(ms)', LabelsAreSteady(f)',
             \A other \in MachineSets \ {ms} : mset'[other] = mset[other],
             ShrinkMachineSet => pass'.ms = ms
      PROVE  GrowthInv(f)'
  BY <1>1, <1>3, UntouchedAccounted DEF GrowthInv
<1>4. CASE GrowMachineSet
  <2>1. ~ShrinkMachineSet
    BY <1>4 DEF GrowMachineSet, ShrinkMachineSet, Labelled, ScaleStage, FinalizeStage
  <2>2. QED
    BY <1>3, <1>4, <2>1, GrowAccounted
<1>5. CASE ShrinkMachineSet
  BY <1>3, <1>5, ShrinkAccounted
<1>6. CASE removeMachineSetLabel
  <2>1. ~ShrinkMachineSet
    BY <1>6 DEF removeMachineSetLabel, ShrinkMachineSet, FinalizeStage
  <2>2. QED
    BY <1>3, <1>6, <2>1, UnlabelAccounted
<1>7. QED
  BY <1>2, <1>4, <1>5, <1>6, MachineSetWrites

(* As long as AppWrappers ask for the same, no conflict, failed call, lost *)
(* reply, crash or stale list makes a MachineSet larger than its base and  *)
(* the labels that promise to take the rest away: growing writes replicas  *)
(* and label at once, and shrinking removes the label last.                *)
THEOREM GrowthLabelled ==
  ASSUME IsFiniteSet(AppWrappers), NEW CONSTANT f
  PROVE  Spec /\ []Steady(f) => []GrowthIsLabelled
<1>1. Init => GrowthInv(f)
  BY GrowthInit
<1>2. IInv /\ GrowthInv(f) /\ Steady(f) /\ [Next]_vars => GrowthInv(f)'
  BY GrowthKept
<1>3. IInv /\ GrowthInv(f) => GrowthIsLabelled
  <2> SUFFICES ASSUME IInv, GrowthInv(f), NEW ms \in MachineSets
               PROVE  mset[ms].replicas <= Base[ms] + Total(mset[ms].label)
    BY DEF GrowthIsLabelled, Total
  <2>1. /\ Gone(ms) \in Nat /\ mset[ms].replicas \in Int /\ Base[ms] \in Int
        /\ mset[ms].replicas + Gone(ms) <= Base[ms] + Total(mset[ms].label)
    BY GoneType, LabelType DEF IInv, GrowthInv, Accounted
  <2>2. Total(mset[ms].label) \in Int
    BY LabelType, TotalNatural DEF IInv
  <2>3. QED
    BY <2>1, <2>2
<1>4. QED
  BY <1>1, <1>2, <1>3, ReuseInvariant, PTL DEF Spec
=============================================================================
