--------------------------- MODULE MachineSetReuse ---------------------------
(***************************************************************************)
(* The reuse strategy (src/controllers/machineset.go): a pending           *)
(* AppWrapper's MachineSets are grown in place and remember, in one label  *)
(* per AppWrapper, by how much; its machines and nodes are labelled as     *)
(* they come up; a finished AppWrapper's nodes are annotated for deletion, *)
(* the MachineSets shrunk by what the label says, and the label removed.   *)
(*                                                                         *)
(* The module fills in the calls "scale" and "finalize" of AppWrapperStore *)
(* step by step. MachineSets and Machines are read from informer caches of *)
(* their own; an Update carries the version that was read, a patch does    *)
(* not; Nodes are read and patched at the API server.                      *)
(*                                                                         *)
(* An AppWrapper asks for as many machines of each instance type as its    *)
(* demand says; MachineSets of other types are not represented.            *)
(***************************************************************************)
EXTENDS AppWrapperStore, Integers, FiniteSets, Functions

CONSTANTS
    MachineSets,
    InstanceTypes,  \* the types the AppWrappers ask for
    TypeOf,         \* the instance type of each MachineSet
    Machines,       \* names for machines, reused once a machine is gone
    InMachineApi,   \* those in the namespace openshift-machine-api
    SetOf,          \* the MachineSet a machine name belongs to
    Base,           \* each MachineSet's replicas before InstaScale
    MaxScaleout,    \* maxScaleoutAllowed of the configuration
    NoSet,          \* no MachineSet is being visited
    MaxWrites,      \* bound: writes to AppWrappers by users and MCAD
    MaxFaults       \* bound: failed calls, lost replies and crashes

ASSUME ReuseAssumption ==
    /\ InMachineApi \subseteq MachineSets
    /\ TypeOf \in [MachineSets -> InstanceTypes]
    /\ SetOf \in [Machines -> MachineSets] /\ IsFiniteSet(Machines)
    /\ Base \in [MachineSets -> Nat]
    /\ MaxScaleout \in Nat /\ MaxWrites \in Nat /\ MaxFaults \in Nat
    /\ NoSet \notin MachineSets

VARIABLES
    mset,           \* the API server's MachineSets
    setCache,       \* the informer cache of them
    setSynced,      \* those whose newest version is in the cache
    machine,        \* the API server's Machines, each with its Node's labels
    machineCache,   \* the informer cache of the Machines
    machineSynced,
    pass,           \* the local state of the scaling or finalizing call
    dropped,        \* history: for whom a finalizing call overlooked a label
    writes,         \* writes to AppWrappers so far
    faults          \* faults so far

setVars     == <<mset, setCache, setSynced>>
machineVars == <<machine, machineCache, machineSynced>>
bounds      == <<writes, faults>>
vars        == <<storeVars, setVars, machineVars, pass, dropped, bounds>>

(* label[aw] is the value of the replica label instascale.codeflare.dev-aw,*)
(* 0 when the MachineSet does not have it.                                 *)
MachineSet == [replicas : Int, label : [AppWrappers -> Demands \cup {0}]]

Machine == [phase : {"none", "Provisioning", "Running", "Deleting"},
            labels : SUBSET AppWrappers,    \* of the Machine
            node : SUBSET AppWrappers,      \* of its Node
            doomed : BOOLEAN]               \* cluster-api-delete-machine

NoMachine == [phase |-> "none", labels |-> {}, node |-> {}, doomed |-> FALSE]

(* stage: where in the call the worker stands; sets: the MachineSets as    *)
(* the call listed them; fresh: those not changed since; todo: those it    *)
(* has still to visit (of one instance type); types: the types after that; *)
(* ms: the one it visits; machines: those it has still to label or         *)
(* annotate; patched: the one whose Node is labelled next; running: the    *)
(* AppWrapper's running machines before any was labelled; isScaled: as in  *)
(* the code.                                                               *)
Pass == [stage : {"start", "visit", "label", "node", "requeue", "annotate",
                  "shrink", "unlabel"},
         sets : [MachineSets -> MachineSet], fresh : SUBSET MachineSets,
         types : SUBSET InstanceTypes,
         todo : SUBSET MachineSets, ms : MachineSets \cup {NoSet},
         machines : SUBSET Machines, patched : SUBSET Machines,
         running : Nat, isScaled : BOOLEAN]

NoPass == [stage |-> "start",
           sets |-> [ms \in MachineSets |->
                       [replicas |-> 0, label |-> [aw \in AppWrappers |-> 0]]],
           fresh |-> {}, types |-> {}, todo |-> {}, ms |-> NoSet,
           machines |-> {}, patched |-> {}, running |-> 0, isScaled |-> FALSE]

key == worker.key
demand == worker.copy.demand

-----------------------------------------------------------------------------
(* What the controller reads of the machines.                              *)

CachedMachines(ms) ==
    {m \in Machines : SetOf[m] = ms /\ machineCache[m].phase # "none"}

LabelledMachines(aw, type) ==
    {m \in Machines : /\ machineCache[m].phase # "none"
                      /\ aw \in machineCache[m].labels
                      /\ TypeOf[SetOf[m]] = type}

(* The AppWrapper's running machines of a type, of whichever MachineSet.   *)
filterAwMachines(aw, type) ==
    {m \in LabelledMachines(aw, type) : machineCache[m].phase = "Running"}

(* The machines counted against the limit are those labelled with the bare *)
(* name of the AppWrapper, which this strategy never does: only the        *)
(* AppWrapper's own demand of all types is left to compare.                *)
canScaleMachineset == demand * Cardinality(InstanceTypes) <= MaxScaleout

Digits(n) == IF n < 10 THEN <<n>> ELSE <<n \div 10, n % 10>>

(* The order of two counts below 100 written in decimal, as strings; 0     *)
(* stands for the empty string.                                            *)
StringLess(m, n) ==
    LET s == Digits(m)  t == Digits(n) IN
    /\ n # 0
    /\ \/ m = 0
       \/ s[1] < t[1]
       \/ s[1] = t[1] /\ m < n

-----------------------------------------------------------------------------
(* The calls that fail, and the replies that are lost.                     *)

Fault == faults < MaxFaults /\ faults' = faults + 1 /\ UNCHANGED writes

Return(requeue) ==
    /\ Finish(requeue)
    /\ pass' = NoPass
    /\ UNCHANGED <<api, cache, synced>>

StoreMachineSet(ms, o) ==
    /\ mset' = [mset EXCEPT ![ms] = o]
    /\ setSynced' = setSynced \ {ms}
    /\ UNCHANGED setCache

StoreMachine(m, o) ==
    /\ machine' = [machine EXCEPT ![m] = o]
    /\ machineSynced' = machineSynced \ {m}
    /\ UNCHANGED machineCache

-----------------------------------------------------------------------------
(* The scaling call: reconcileReuseMachineSet.                             *)

ScaleStage(s) == worker.pc = "scale" /\ pass.stage = s

(* The MachineSets of an instance type, in the order of a Go map.          *)
Begin(type, types) ==
    [NoPass EXCEPT !.stage = "visit", !.types = types \ {type},
                   !.todo = {ms \in MachineSets : TypeOf[ms] = type}]

(* The MachineSets are listed once, for the whole pass.                    *)
ListMachineSets(type) ==
    /\ ScaleStage("start")
    /\ pass' = [Begin(type, InstanceTypes) EXCEPT !.sets = setCache,
                                                  !.fresh = setSynced]
    /\ UNCHANGED <<storeVars, setVars, machineVars, dropped, bounds>>

NextInstanceType(type) ==
    /\ ScaleStage("visit") /\ pass.todo = {} /\ type \in pass.types
    /\ pass' = [Begin(type, pass.types) EXCEPT !.sets = pass.sets,
                    !.fresh = pass.fresh, !.isScaled = pass.isScaled]
    /\ UNCHANGED <<storeVars, setVars, machineVars, dropped, bounds>>

(* The next MachineSet, in the arbitrary order of the list; isScaled is    *)
(* never reset, not for the next type either.                              *)
VisitMachineSet ==
    /\ ScaleStage("visit")
    /\ \E ms \in pass.todo :
          pass' = [pass EXCEPT
              !.stage = "label", !.ms = ms, !.todo = @ \ {ms},
              !.running = Cardinality(filterAwMachines(key, TypeOf[ms])),
              !.isScaled = @ \/ pass.sets[ms].label[key] = demand,
              !.machines = {m \in CachedMachines(ms) :
                               machineCache[m].phase = "Running"}]
    /\ UNCHANGED <<storeVars, setVars, machineVars, dropped, bounds>>

(* A running machine of the MachineSet is labelled unless as many as are   *)
(* asked for are labelled already; whose machine it was is not looked at.  *)
SkipMachine ==
    /\ ScaleStage("label")
    /\ Cardinality(LabelledMachines(key, TypeOf[pass.ms])) = demand
    /\ \E m \in pass.machines :
          pass' = [pass EXCEPT !.machines = @ \ {m}]
    /\ UNCHANGED <<storeVars, setVars, machineVars, dropped, bounds>>

(* A machine can be labelled if the cache knows it in openshift-machine-api*)
(* and the API server still has it.                                        *)
Patchable(m) ==
    /\ SetOf[m] \in InMachineApi
    /\ machine[m].phase # "none" /\ machineCache[m].phase # "none"

addLabelToMachine ==
    /\ ScaleStage("label")
    /\ Cardinality(LabelledMachines(key, TypeOf[pass.ms])) # demand
    /\ \E m \in pass.machines :
          /\ Patchable(m)
          /\ StoreMachine(m, [machine[m] EXCEPT !.labels = @ \cup {key}])
          /\ pass' = [pass EXCEPT !.stage = "node", !.patched = {m},
                                  !.machines = @ \ {m}]
    /\ UNCHANGED <<storeVars, setVars, dropped, bounds>>

(* A Node exists once its Machine runs, and as long as the Machine does.   *)
HasNode(m) == machine[m].phase \in {"Running", "Deleting"}

addLabelToNode ==
    /\ ScaleStage("node")
    /\ \E m \in pass.patched :
          /\ HasNode(m)
          /\ machine' = [machine EXCEPT ![m].node = @ \cup {key}]
    /\ pass' = [pass EXCEPT !.stage = "label", !.patched = {}]
    /\ UNCHANGED <<storeVars, setVars, machineCache, machineSynced, dropped, bounds>>

(* A machine that is not found, or whose node is not, ends the pass with   *)
(* an error.                                                               *)
LabelFails ==
    /\ \/ /\ ScaleStage("label")
          /\ Cardinality(LabelledMachines(key, TypeOf[pass.ms])) # demand
          /\ \E m \in pass.machines : ~Patchable(m)
       \/ ScaleStage("node") /\ \A m \in pass.patched : ~HasNode(m)
    /\ Return(TRUE)
    /\ UNCHANGED <<setVars, machineVars, dropped, bounds>>

(* With the machines labelled, is there anything to do for this MachineSet?*)
Labelled == ScaleStage("label") /\ pass.machines = {}

MustScale ==
    /\ canScaleMachineset
    /\ ~pass.isScaled \/ Cardinality(filterAwMachines(key, TypeOf[pass.ms])) # demand

LeaveMachineSet ==
    /\ Labelled /\ ~MustScale
    /\ pass' = [pass EXCEPT !.stage = "visit", !.ms = NoSet, !.running = 0]
    /\ UNCHANGED <<storeVars, setVars, machineVars, dropped, bounds>>

(* Wrong on purpose: the replica label is not looked at.                   *)
GrowEveryPass ==
    LET old == pass.sets[pass.ms] IN
    /\ Labelled /\ MustScale
    /\ pass.ms \in pass.fresh
    /\ StoreMachineSet(pass.ms,
          [old EXCEPT !.replicas = @ - pass.running + demand,
                      !.label[key] = demand])
    /\ pass' = [NoPass EXCEPT !.stage = "requeue"]
    /\ dropped' = dropped \ {key}
    /\ UNCHANGED <<storeVars, machineVars, bounds>>

(* The replicas asked for are added to those the AppWrapper does not have  *)
(* yet. A conflict is only logged.                                         *)
GrowMachineSet ==
    LET old == pass.sets[pass.ms] IN
    /\ Labelled /\ MustScale
    /\ old.label[key] # demand /\ ~StringLess(demand, old.label[key])
    /\ pass.ms \in pass.fresh
    /\ StoreMachineSet(pass.ms,
          [old EXCEPT !.replicas = @ - pass.running + demand,
                      !.label[key] = demand])
    /\ pass' = [NoPass EXCEPT !.stage = "requeue"]
    /\ dropped' = dropped \ {key}
    /\ UNCHANGED <<storeVars, machineVars, bounds>>

(* Wrong on purpose: the call returns without asking for another pass.     *)
AwaitNothing ==
    /\ Labelled /\ MustScale
    /\ pass.sets[pass.ms].label[key] = demand \/ pass.ms \notin pass.fresh
    /\ Return(FALSE)
    /\ UNCHANGED <<setVars, machineVars, dropped, bounds>>

(* The machines asked for are not running yet, or the Update conflicted:   *)
(* another pass, at once or in 30 seconds.                                 *)
AwaitMachines ==
    /\ Labelled /\ MustScale
    /\ pass.sets[pass.ms].label[key] = demand \/ pass.ms \notin pass.fresh
    /\ Return(TRUE)
    /\ UNCHANGED <<setVars, machineVars, dropped, bounds>>

(* Fewer replicas are asked for than the label says. The nodes looked for  *)
(* are those labelled with the AppWrapper's bare name, which no node is,   *)
(* so that nothing is removed before the next pass is asked for.           *)
removeMachinesBasedOnReplicas ==
    /\ Labelled /\ MustScale
    /\ StringLess(demand, pass.sets[pass.ms].label[key])
    /\ Return(TRUE)
    /\ UNCHANGED <<setVars, machineVars, dropped, bounds>>

RequeueAfterUpdate ==
    /\ ScaleStage("requeue")
    /\ Return(TRUE)
    /\ UNCHANGED <<setVars, machineVars, dropped, bounds>>

EndScale ==
    /\ ScaleStage("visit") /\ pass.todo = {} /\ pass.types = {}
    /\ Return(FALSE)
    /\ UNCHANGED <<setVars, machineVars, dropped, bounds>>

-----------------------------------------------------------------------------
(* The finalizing call: annotateToDeleteMachine. findExactMatch looks for  *)
(* an AppWrapper with an empty orderedinstance label and so finds none for *)
(* an AppWrapper that asked for instances.                                 *)

FinalizeStage(s) == worker.pc = "finalize" /\ pass.stage = s

(* The AppWrapper's nodes; the error of the list is ignored.               *)
ListNodes ==
    /\ FinalizeStage("start")
    /\ \/ /\ pass' = [NoPass EXCEPT !.stage = "annotate",
                 !.machines = {m \in Machines : key \in machine[m].node}]
          /\ UNCHANGED bounds
       \/ /\ pass' = [NoPass EXCEPT !.stage = "annotate"]
          /\ Fault
    /\ UNCHANGED <<storeVars, setVars, machineVars, dropped>>

(* The node's machine, unless the cache does not know it or shows it going.*)
AnnotateMachine ==
    /\ FinalizeStage("annotate")
    /\ \E m \in pass.machines :
          /\ pass' = [pass EXCEPT !.machines = @ \ {m}]
          /\ IF machineCache[m].phase \in {"none", "Deleting"}
             THEN UNCHANGED machineVars
             ELSE /\ m \in machineSynced
                  /\ StoreMachine(m, [machine[m] EXCEPT !.doomed = TRUE])
    /\ UNCHANGED <<storeVars, setVars, dropped, bounds>>

(* A label the cache does not show yet is given up.                        *)
Overlooking ==
    dropped' = IF \E ms \in MachineSets : /\ mset[ms].label[key] # 0
                                          /\ setCache[ms].label[key] = 0
               THEN dropped \cup {key} ELSE dropped

(* Wrong on purpose: MachineSets that changed a moment ago are left out.   *)
ListFreshOnly ==
    /\ FinalizeStage("annotate") /\ pass.machines = {}
    /\ pass' = [NoPass EXCEPT !.stage = "shrink", !.sets = setCache,
                    !.fresh = setSynced,
                    !.todo = {ms \in setSynced : setCache[ms].label[key] # 0}]
    /\ Overlooking
    /\ UNCHANGED <<storeVars, setVars, machineVars, bounds>>

(* The MachineSets that carry the AppWrapper's label, as the cache has it. *)
ListLabelled ==
    /\ FinalizeStage("annotate") /\ pass.machines = {}
    /\ pass' = [NoPass EXCEPT !.stage = "shrink", !.sets = setCache,
                    !.fresh = setSynced,
                    !.todo = {ms \in MachineSets : setCache[ms].label[key] # 0}]
    /\ Overlooking
    /\ UNCHANGED <<storeVars, setVars, machineVars, bounds>>

ShrinkMachineSet ==
    /\ FinalizeStage("shrink")
    /\ \E ms \in pass.todo \cap pass.fresh :
          /\ StoreMachineSet(ms,
                [pass.sets[ms] EXCEPT !.replicas = @ - pass.sets[ms].label[key]])
          /\ pass' = [pass EXCEPT !.stage = "unlabel", !.ms = ms,
                                  !.todo = @ \ {ms}, !.fresh = @ \ {ms}]
    /\ UNCHANGED <<storeVars, machineVars, dropped, bounds>>

(* A second write, a patch this time; the MachineSet is looked up in the   *)
(* namespace openshift-machine-api whichever namespace it was listed in.   *)
removeMachineSetLabel ==
    /\ FinalizeStage("unlabel")
    /\ pass.ms \in InMachineApi
    /\ mset[pass.ms].label[key] # 0
    /\ StoreMachineSet(pass.ms, [mset[pass.ms] EXCEPT !.label[key] = 0])
    /\ pass' = [pass EXCEPT !.stage = "shrink", !.ms = NoSet]
    /\ UNCHANGED <<storeVars, machineVars, dropped, bounds>>

(* Wrong on purpose: the pass ends after the first MachineSet.             *)
EndFinalizeEarly ==
    /\ FinalizeStage("shrink")
    /\ worker' = [worker EXCEPT !.pc = "removeFinalizer"]
    /\ pass' = NoPass
    /\ UNCHANGED <<api, cache, synced, queue, setVars, machineVars, dropped, bounds>>

EndFinalize ==
    /\ FinalizeStage("shrink") /\ pass.todo = {}
    /\ worker' = [worker EXCEPT !.pc = "removeFinalizer"]
    /\ pass' = NoPass
    /\ UNCHANGED <<api, cache, synced, queue, setVars, machineVars, dropped, bounds>>

(* Wrong on purpose: a conflict is not returned as an error.               *)
FinalizeConflictsSilently ==
    /\ FinalizeStage("shrink") /\ pass.todo \ pass.fresh # {}
    /\ Return(FALSE)
    /\ UNCHANGED <<setVars, machineVars, dropped, bounds>>

(* A stale version, a MachineSet that is not found, or a label that is     *)
(* gone already.                                                           *)
FinalizeConflicts ==
    /\ \/ /\ FinalizeStage("annotate")
          /\ \E m \in pass.machines \ machineSynced :
                machineCache[m].phase \notin {"none", "Deleting"}
       \/ FinalizeStage("shrink") /\ pass.todo \ pass.fresh # {}
       \/ /\ FinalizeStage("unlabel")
          /\ pass.ms \notin InMachineApi \/ mset[pass.ms].label[key] = 0
    /\ Return(TRUE)
    /\ UNCHANGED <<setVars, machineVars, dropped, bounds>>

(* A call of the API server fails, or its reply is lost.                   *)
CallFails ==
    /\ pass.stage \in {"label", "node", "annotate", "shrink", "unlabel"}
    /\ Fault
    /\ Return(TRUE)
    /\ UNCHANGED <<setVars, machineVars, dropped>>

-----------------------------------------------------------------------------
(* The machine API and the informers.                                      *)

Live(ms) ==
    {m \in Machines : SetOf[m] = ms
                      /\ machine[m].phase \in {"Provisioning", "Running"}}

(* A status update changes a MachineSet's version and nothing else here.   *)
UpdateStatus(ms) ==
    /\ ms \in setSynced \cup pass.fresh
    /\ setSynced' = setSynced \ {ms}
    /\ pass' = [pass EXCEPT !.fresh = @ \ {ms}]
    /\ UNCHANGED <<storeVars, mset, setCache, machineVars, dropped, bounds>>

(* A new machine takes a name that nothing remembers.                      *)
CreateMachine(m) ==
    /\ machine[m].phase = "none" /\ machineCache[m].phase = "none"
    /\ m \notin pass.machines \cup pass.patched
    /\ Cardinality(Live(SetOf[m])) < mset[SetOf[m]].replicas
    /\ StoreMachine(m, [NoMachine EXCEPT !.phase = "Provisioning"])
    /\ UNCHANGED <<storeVars, setVars, pass, dropped, bounds>>

StartMachine(m) ==
    /\ machine[m].phase = "Provisioning"
    /\ StoreMachine(m, [machine[m] EXCEPT !.phase = "Running"])
    /\ UNCHANGED <<storeVars, setVars, pass, dropped, bounds>>

(* Annotated machines go first.                                            *)
DeleteMachine(m) ==
    /\ m \in Live(SetOf[m])
    /\ Cardinality(Live(SetOf[m])) > mset[SetOf[m]].replicas
    /\ \A n \in Live(SetOf[m]) : machine[n].doomed => machine[m].doomed
    /\ StoreMachine(m, [machine[m] EXCEPT !.phase = "Deleting"])
    /\ UNCHANGED <<storeVars, setVars, pass, dropped, bounds>>

RemoveMachine(m) ==
    /\ machine[m].phase = "Deleting"
    /\ StoreMachine(m, NoMachine)
    /\ UNCHANGED <<storeVars, setVars, pass, dropped, bounds>>

SyncMachine(m) ==
    /\ m \notin machineSynced
    /\ machineCache' = [machineCache EXCEPT ![m] = machine[m]]
    /\ machineSynced' = machineSynced \cup {m}
    /\ UNCHANGED <<storeVars, setVars, machine, pass, dropped, bounds>>

SyncMachineSet(ms) ==
    /\ ms \notin setSynced
    /\ setCache' = [setCache EXCEPT ![ms] = mset[ms]]
    /\ setSynced' = setSynced \cup {ms}
    /\ UNCHANGED <<storeVars, mset, machineVars, pass, dropped, bounds>>

-----------------------------------------------------------------------------
Init ==
    /\ StoreInit
    /\ mset = [ms \in MachineSets |->
                  [replicas |-> Base[ms], label |-> [aw \in AppWrappers |-> 0]]]
    /\ setCache = mset
    /\ setSynced = MachineSets
    /\ \E up \in SUBSET Machines :
          /\ \A ms \in MachineSets :
                Cardinality({m \in up : SetOf[m] = ms}) = Base[ms]
          /\ machine = [m \in Machines |->
                IF m \in up THEN [NoMachine EXCEPT !.phase = "Running"]
                            ELSE NoMachine]
    /\ machineCache = machine
    /\ machineSynced = Machines
    /\ pass = NoPass
    /\ dropped = {}
    /\ writes = 0 /\ faults = 0

ScaleStep ==
    \/ \E type \in InstanceTypes : ListMachineSets(type) \/ NextInstanceType(type)
    \/ VisitMachineSet
    \/ SkipMachine
    \/ addLabelToMachine
    \/ addLabelToNode
    \/ LabelFails
    \/ LeaveMachineSet
    \/ GrowMachineSet
    \/ AwaitMachines
    \/ removeMachinesBasedOnReplicas
    \/ RequeueAfterUpdate
    \/ EndScale

FinalizeStep ==
    \/ ListNodes
    \/ AnnotateMachine
    \/ ListLabelled
    \/ ShrinkMachineSet
    \/ removeMachineSetLabel
    \/ EndFinalize
    \/ FinalizeConflicts

MachineStep(m) ==
    \/ CreateMachine(m)
    \/ StartMachine(m)
    \/ DeleteMachine(m)
    \/ RemoveMachine(m)
    \/ SyncMachine(m)

MachineSetStep(ms) ==
    \/ UpdateStatus(ms)
    \/ SyncMachineSet(ms)

(* The other clients of the AppWrappers, up to MaxWrites writes.           *)
ClientStep ==
    /\ writes < MaxWrites
    /\ writes' = writes + 1
    /\ \E aw \in AppWrappers : Client(aw)
    /\ UNCHANGED <<setVars, machineVars, pass, dropped, faults>>

ControllerStep ==
    /\ WorkerStep \/ \E aw \in AppWrappers : Informer(aw)
    /\ UNCHANGED <<setVars, machineVars, pass, dropped, bounds>>

(* A restart lists machines and MachineSets afresh, too.                   *)
CrashStep ==
    /\ Crash
    /\ Fault
    /\ setCache' = mset /\ setSynced' = MachineSets
    /\ machineCache' = machine /\ machineSynced' = Machines
    /\ pass' = NoPass
    /\ UNCHANGED <<mset, machine, dropped>>

Next ==
    \/ ClientStep
    \/ ControllerStep
    \/ ScaleStep
    \/ FinalizeStep
    \/ CallFails
    \/ CrashStep
    \/ \E m \in Machines : MachineStep(m)
    \/ \E ms \in MachineSets : MachineSetStep(ms)

Spec == Init /\ [][Next]_vars

(* The fairness of AppWrapperReconciler, step by step: caches catch up, a  *)
(* pass goes on to its end, the calls that are retried for ever succeed at *)
(* last, and the status of a MachineSet, which reports on finitely many    *)
(* changes, settles. Where there are several instance types, each is the   *)
(* first of a pass now and then: the order of a Go map is random.          *)
Frame == UNCHANGED <<setVars, machineVars, pass, dropped, bounds>>

Fairness ==
    /\ \A aw \in AppWrappers :
          /\ WF_vars(SyncCache(aw) /\ Frame)
          /\ SF_vars(Dequeue(aw) /\ Frame)
          /\ SF_vars(key = aw /\ AddFinalizer /\ Frame)
          /\ SF_vars(key = aw /\ RemoveFinalizer /\ Frame)
          /\ \A type \in {t \in InstanceTypes : InstanceTypes # {t}} :
                SF_vars(key = aw /\ ListMachineSets(type))
          /\ SF_vars(key = aw /\ GrowMachineSet)
          /\ SF_vars(key = aw /\ AnnotateMachine)
          /\ SF_vars(key = aw /\ ShrinkMachineSet)
          /\ SF_vars(key = aw /\ removeMachineSetLabel)
    /\ WF_vars(UpdateFails /\ Frame)
    /\ WF_vars(ScaleStep \/ FinalizeStep)
    /\ \A m \in Machines : WF_vars(SyncMachine(m))
    /\ \A ms \in MachineSets : WF_vars(SyncMachineSet(ms))
    /\ <>[][\A ms \in MachineSets : ~UpdateStatus(ms)]_vars

FairSpec == Spec /\ Fairness

-----------------------------------------------------------------------------
(* The AppWrappers some MachineSet has been grown for. The controller's    *)
(* promise is about those of them that no list overlooked.                 *)
Held == {aw \in AppWrappers : \E ms \in MachineSets : mset[ms].label[aw] # 0}

Reconciler == INSTANCE AppWrapperReconciler WITH held <- Held \ dropped

(* Every variable stays in its range.                                      *)
TypeOK ==
    /\ StoreTypeOK
    /\ mset \in [MachineSets -> MachineSet]
    /\ setCache \in [MachineSets -> MachineSet]
    /\ setSynced \subseteq MachineSets
    /\ machine \in [Machines -> Machine]
    /\ machineCache \in [Machines -> Machine]
    /\ machineSynced \subseteq Machines
    /\ pass \in Pass
    /\ dropped \subseteq AppWrappers
    /\ writes \in 0..MaxWrites /\ faults \in 0..MaxFaults

(* A call is only under way in a pass that scales or finalizes.            *)
PassIsPlaced ==
    /\ pass.stage \in {"visit", "label", "node", "requeue"} => worker.pc = "scale"
    /\ pass.stage \in {"annotate", "shrink", "unlabel"} => worker.pc = "finalize"

(* What is taken for the newest version is it; a MachineSet that the call  *)
(* has written is not taken for it any more.                               *)
VersionsAreSound ==
    /\ \A ms \in setSynced : setCache[ms] = mset[ms]
    /\ \A ms \in pass.fresh : pass.sets[ms] = mset[ms]
    /\ pass.stage = "unlabel" => pass.ms \notin pass.fresh

(* No other label is overlooked than one the list did not show: while a    *)
(* finalizing call shrinks MachineSets, it has still to come to each one   *)
(* that carries the AppWrapper's label.                                    *)
NoLabelOverlooked ==
    pass.stage \in {"shrink", "unlabel"} /\ key \notin dropped =>
        \A ms \in MachineSets :
            mset[ms].label[key] # 0
                => ms \in pass.todo \/ (pass.stage = "unlabel" /\ ms = pass.ms)

(* The inductive invariant behind ImplementsReconciler: at the end of the  *)
(* finalizing call nothing is labelled, whatever conflicted on the way,    *)
(* unless the call's list did not show a label that was there.             *)
IInv ==
    /\ TypeOK
    /\ PassIsPlaced
    /\ VersionsAreSound
    /\ NoLabelOverlooked

(* The labels account for every replica above the base: whatever fails,    *)
(* conflicts or is read out of date, a MachineSet is never larger than its *)
(* base and what its labels promise to take away again (GrowMachineSet     *)
(* writes both at once, on the version it read; removeMachineSetLabel      *)
(* comes after ShrinkMachineSet). It holds as long as no AppWrapper        *)
(* changes what it asks for: an edited demand is added to the replicas     *)
(* before the old one is taken off (see GrowsByDemand).                    *)
GrowthIsLabelled ==
    \A ms \in MachineSets :
        mset[ms].replicas <= Base[ms]
            + FoldFunction(LAMBDA n, t : n + t, 0, mset[ms].label)

(* A MachineSet changes by as much as its replica label does, while the    *)
(* AppWrapper is scaled (README.md:66: "The MachineSet replicas should     *)
(* increase by the number of replicas you have specified").                *)
GrowsByDemand ==
    [][\A ms \in MachineSets, aw \in AppWrappers :
          mset'[ms].label[aw] \notin {0, mset[ms].label[aw]}
             => mset'[ms].replicas - mset[ms].replicas
                  = mset'[ms].label[aw] - mset[ms].label[aw]]_vars

(* The replicas a MachineSet had before InstaScale are not taken away from *)
(* it (functional-tests/appwrapper_reconciler_test.go:216-222: 0 replicas, *)
(* the initial number, after the AppWrapper is deleted).                   *)
NeverBelowBase == \A ms \in MachineSets : mset[ms].replicas >= Base[ms]

(* The configured limit (pkg/config/config.go:27-28: "the upper limit for  *)
(* the number of cluster nodes that can be scaled out by InstaScale").     *)
WithinMaxScaleout ==
    FoldFunction(LAMBDA ms, t : ms.replicas + t, 0, mset)
        <= MaxScaleout + FoldFunction(LAMBDA n, t : n + t, 0, Base)

(* What was obtained for an AppWrapper is given back before the AppWrapper *)
(* is let go (README.md:20: "When job completes, resources obtained for    *)
(* the job are released").                                                 *)
LabelledIsProtected == \A aw \in Held : api[aw].exists /\ api[aw].fin

(* The reuse strategy keeps InstaScale's promise (AppWrapperReconciler):   *)
(* the finalizer is there as long as a MachineSet carries the label, but   *)
(* for an AppWrapper whose label a finalizing call's list did not show.    *)
ImplementsReconciler == Reconciler!Spec

(* Conflicts, stale reads of machines and a failed call do not keep a      *)
(* finished AppWrapper's replicas for ever, if no list overlooked them.    *)
EventuallyReleased == Reconciler!EventuallyReleased

(* An AppWrapper that stays short of resources, and may be scaled, gets,   *)
(* of each instance type, a MachineSet that is grown by what it asks for.  *)
Pending(aw) ==
    /\ api[aw].exists /\ ~api[aw].del /\ api[aw].state = "Insufficient"
    /\ api[aw].demand * Cardinality(InstanceTypes) <= MaxScaleout

EventuallyScaled ==
    \A aw \in AppWrappers :
        Pending(aw) ~> \/ ~Pending(aw)
                       \/ \A type \in InstanceTypes : \E ms \in MachineSets :
                             /\ TypeOf[ms] = type
                             /\ mset[ms].label[aw] = api[aw].demand
=============================================================================
