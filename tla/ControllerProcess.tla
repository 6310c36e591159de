-------------------------- MODULE ControllerProcess --------------------------
(***************************************************************************)
(* The process around Reconcile: what main (src/main.go) and               *)
(* SetupWithManager read when it starts, and the machine type that the     *)
(* first pass asks OCM for (setMachineType). By these Reconcile chooses    *)
(* the strategy that scales and finalizes; CloudPools and                  *)
(* MachineSetDuplicate extend this module with theirs, and InstaScale      *)
(* composes them.                                                          *)
(*                                                                         *)
(* A start that fails before SetupWithManager exits and is tried again: it *)
(* changes nothing and is not represented.                                 *)
(***************************************************************************)
EXTENDS AppWrapperStore

CONSTANTS
    InstanceTypes,  \* the instance types AppWrappers name
    Wants,          \* Wants[d]: the types a demand d names, with the replicas
    Installed,      \* the ConfigMaps and Secrets there may be
    Hypershift,     \* whether OCM says the cluster is a hosted one
    PoolIds,        \* names of pools, drawn at random
    MaxWrites,      \* bound: writes of AppWrappers by users and MCAD
    MaxEdits,       \* bound: edits of the ConfigMap and the Secret
    MaxFaults       \* bound: failed calls, lost replies and crashes

PoolKinds == {"MachinePool", "NodePool"}
MachineTypes == PoolKinds \cup {"MachineSet"}
Strategies == {c.strategy : c \in Installed} \cup {"reuse"}

(* The OCM Secret may be missing, or lack its token.                       *)
Secrets == {"none", "noToken", "token"}

ASSUME ProcessAssumption ==
    /\ \A d \in Demands : \E named \in SUBSET InstanceTypes :
          Wants[d] \in [named -> Nat]
    /\ \A c \in Installed : c.strategy \notin PoolKinds /\ c.secret \in Secrets
    /\ Hypershift \in BOOLEAN
    /\ MaxWrites \in Nat /\ MaxEdits \in Nat /\ MaxFaults \in Nat

VARIABLES
    installed,  \* the ConfigMap and the Secret
    process,    \* the memory of the process
    call,       \* the local state of the scaling or finalizing call
    dropped,    \* history: whose resources a finalizing call gave up on
    writes,     \* writes of AppWrappers by users and MCAD so far
    edits,      \* edits of the ConfigMap and the Secret so far
    faults      \* faults so far

processVars == <<installed, process>>
callVars    == <<call, dropped>>
bounds      == <<writes, edits, faults>>

(* watching: the controller is registered with the manager; clusterID: the *)
(* cluster's ID in OCM is known. The others as in the code, but for        *)
(* unsure, a history of the process: OCM's answer to its check was empty.  *)
Process == [stage : {"down", "configured", "running"}, watching : BOOLEAN,
            strategy : Strategies, ocmSecretRef : BOOLEAN,
            machineType : MachineTypes, machineCheck : BOOLEAN,
            clusterID : BOOLEAN, unsure : BOOLEAN]

Down == [stage |-> "down", watching |-> FALSE, strategy |-> "reuse",
         ocmSecretRef |-> FALSE, machineType |-> "MachineSet",
         machineCheck |-> FALSE, clusterID |-> FALSE, unsure |-> FALSE]

(* done: the types the scaling call has dealt with; left: the pools, or    *)
(* the types of the MachineSets, the finalizing call has still to delete.  *)
Call == [stage : {"start", "created", "dispatched", "listed"},
         done : SUBSET InstanceTypes, left : SUBSET (PoolIds \cup InstanceTypes)]

NoCall == [stage |-> "start", done |-> {}, left |-> {}]

key == worker.key
(* The instance types the AppWrapper names, perhaps with 0 replicas.       *)
Named == DOMAIN Wants[worker.copy.demand]
demand(t) == Wants[worker.copy.demand][t]

Fault == faults < MaxFaults /\ faults' = faults + 1
         /\ UNCHANGED <<writes, edits>>

Serving == process.stage = "running" /\ process.watching

-----------------------------------------------------------------------------
(* Start-up.                                                               *)

(* main reads the ConfigMap, and whether the Secret is there.              *)
ReadConfiguration ==
    /\ process.stage = "down"
    /\ process' = [Down EXCEPT !.stage = "configured",
                               !.strategy = installed.strategy,
                               !.ocmSecretRef = installed.secret # "none"]
    /\ UNCHANGED <<storeVars, installed, callVars, bounds>>

(* The Secret is read again for its token. If it has gone the process      *)
(* exits; if it lacks the token, nil is returned before the controller is  *)
(* registered. The manager's caches list every object as they start.       *)
SetupWithManager ==
    LET pools == process.ocmSecretRef /\ installed.secret = "token" IN
    /\ process.stage = "configured"
    /\ process' =
          IF process.ocmSecretRef /\ installed.secret = "none" THEN Down
          ELSE [process EXCEPT !.stage = "running",
                   !.watching = ~process.ocmSecretRef \/ pools,
                   !.machineType = IF pools THEN "MachinePool" ELSE "MachineSet"]
    /\ Crash
    /\ UNCHANGED <<installed, callVars, bounds>>

(* The process stops; nothing it remembers survives.                       *)
Stop ==
    /\ process.stage # "down"
    /\ Crash
    /\ Fault
    /\ process' = Down
    /\ call' = NoCall
    /\ UNCHANGED <<installed, dropped>>

(* An administrator edits the ConfigMap or the Secret.                     *)
Reconfigure ==
    /\ edits < MaxEdits
    /\ edits' = edits + 1
    /\ installed' \in Installed \ {installed}
    /\ UNCHANGED <<storeVars, process, callVars, writes, faults>>

-----------------------------------------------------------------------------
(* setMachineType, which begins every pass until it has returned nil once. *)

MustDetect == ~process.machineCheck /\ process.machineType # "MachineSet"

Detecting == Serving /\ MustDetect /\ worker.pc = "idle" /\ queue # {}

(* The cluster is found in OCM, and asked whether it is a hosted one.      *)
setMachineType ==
    /\ Detecting
    /\ process' = [process EXCEPT !.clusterID = TRUE, !.machineCheck = TRUE,
                      !.machineType = IF Hypershift THEN "NodePool" ELSE @]
    /\ UNCHANGED <<storeVars, installed, callVars, bounds>>

(* getOCMClusterID only logs that the search failed. Asked for a cluster   *)
(* without a name, OCM answers for the collection, which is not hosted.    *)
SearchFails ==
    /\ Detecting /\ ~process.clusterID
    /\ Fault
    /\ process' = [process EXCEPT !.machineCheck = TRUE]
    /\ UNCHANGED <<storeVars, installed, callVars>>

(* OCM answers the check with nothing: checkHypershiftEnabled returns the  *)
(* nil error of the call, and the machine type counts as checked. Every    *)
(* process begins with MachinePool.                                        *)
CheckUnanswered ==
    /\ Detecting
    /\ Fault
    /\ process' = [process EXCEPT !.clusterID = TRUE, !.machineCheck = TRUE,
                                  !.unsure = TRUE]
    /\ UNCHANGED <<storeVars, installed, callVars>>

(* Wrong on purpose: an error, too, leaves the machine type checked.       *)
CheckFailsForGood ==
    /\ Detecting
    /\ Fault
    /\ process' = [process EXCEPT !.clusterID = TRUE, !.machineCheck = TRUE]
    /\ UNCHANGED <<storeVars, installed, callVars>>

(* checkHypershiftEnabled fails, and with it the pass. An error before the *)
(* cluster is found changes nothing, and a nil connection in               *)
(* getOCMClusterID is a Stop.                                              *)
CheckFails ==
    /\ Detecting
    /\ Fault
    /\ process' = [process EXCEPT !.clusterID = TRUE]
    /\ UNCHANGED <<storeVars, installed, callVars>>

-----------------------------------------------------------------------------
(* The choice of a strategy in Reconcile and finalizeScalingDownMachines.  *)

ScaleBy == IF process.ocmSecretRef THEN process.machineType ELSE process.strategy

FinalizeBy == IF process.machineType = "MachineSet" THEN process.strategy
              ELSE process.machineType

Return(requeue) ==
    /\ Finish(requeue)
    /\ call' = NoCall
    /\ UNCHANGED <<api, cache, synced>>

(* The finalizing call returns nil.                                        *)
Finalized ==
    /\ worker' = [worker EXCEPT !.pc = "removeFinalizer"]
    /\ call' = NoCall
    /\ UNCHANGED <<api, cache, synced, queue>>

ProcessTypeOK ==
    /\ StoreTypeOK
    /\ installed \in Installed
    /\ process \in Process
    /\ call \in Call
    /\ dropped \subseteq AppWrappers
    /\ writes \in 0..MaxWrites /\ edits \in 0..MaxEdits /\ faults \in 0..MaxFaults

ProcessInit ==
    /\ StoreInit
    /\ installed \in Installed
    /\ process = Down
    /\ call = NoCall
    /\ dropped = {}
    /\ writes = 0 /\ edits = 0 /\ faults = 0

ProcessStep ==
    \/ ReadConfiguration
    \/ SetupWithManager
    \/ Stop
    \/ Reconfigure
    \/ setMachineType
    \/ SearchFails
    \/ CheckUnanswered
    \/ CheckFails
=============================================================================
