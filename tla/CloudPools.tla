------------------------------ MODULE CloudPools ------------------------------
(***************************************************************************)
(* Scaling through OCM: machine pools (src/controllers/machinepools.go),   *)
(* and node pools (src/controllers/nodepools.go) on a hosted cluster. The  *)
(* two are the same code on two collections, so they are one set of        *)
(* actions here, with process.machineType for the collection.              *)
(*                                                                         *)
(* OCM is asked directly, there is no cache. What one listing and the call *)
(* it leads to do are one action: nobody but the one worker writes pools.  *)
(***************************************************************************)
EXTENDS ControllerProcess

VARIABLES
    pools,      \* the pools OCM has, each labelled with its AppWrapper
    blind       \* history: the pools added on an empty answer of OCM

poolVars == <<pools, blind>>

Pool == [id : PoolIds, kind : PoolKinds, owner : AppWrappers,
         type : InstanceTypes, replicas : Nat]

(* The pools the cluster takes.                                            *)
ClusterKind == IF Hypershift THEN "NodePool" ELSE "MachinePool"

(* The pools of the cluster's collection with the AppWrapper's label.      *)
OwnPools(aw) == {p \in pools : p.owner = aw /\ p.kind = process.machineType}

-----------------------------------------------------------------------------
(* scaleMachinePool, scaleNodePool: each type the AppWrapper asks for, in  *)
(* any order.                                                              *)

Scaling(t) ==
    /\ worker.pc = "scale" /\ ScaleBy \in PoolKinds
    /\ t \in Named \ call.done

(* Wrong on purpose: the instance type of a pool is not looked at.         *)
numberOfMachinesOfAnyType(t) ==
    IF OwnPools(key) = {} THEN {0} ELSE {p.replicas : p \in OwnPools(key)}

(* That of the first pool of the type that is listed: any of them.         *)
numberOfMachines(t) ==
    LET own == {p \in OwnPools(key) : p.type = t}
    IN  IF own = {} THEN {0} ELSE {p.replicas : p \in own}

PoolFound(t)   == demand(t) \in numberOfMachines(t)
PoolMissing(t) == \E n \in numberOfMachines(t) : n # demand(t)

(* The AppWrapper's name, cut short, and a random number: any name at all, *)
(* taken or not.                                                           *)
generateMachineName == PoolIds

Taken(id) == \E p \in pools : p.id = id

Added(id, t) == [id |-> id, kind |-> process.machineType, owner |-> key,
                 type |-> t, replicas |-> demand(t)]

(* blind is told whether the process knows the collection it adds to.      *)
AddedTo(id, t) ==
    /\ ~Taken(id)
    /\ pools' = pools \cup {Added(id, t)}
    /\ blind' = IF process.unsure THEN blind \cup {id} ELSE blind

TypeDone(t) == call' = [call EXCEPT !.done = @ \cup {t}]

KeepPool(t) ==
    /\ Scaling(t) /\ process.clusterID
    /\ PoolFound(t)
    /\ TypeDone(t)
    /\ UNCHANGED <<storeVars, processVars, dropped, poolVars, bounds>>

(* Wrong on purpose: the pools there are not looked at.                    *)
AddPoolAnyway(t) ==
    /\ Scaling(t) /\ process.clusterID
    /\ \E id \in generateMachineName : AddedTo(id, t)
    /\ TypeDone(t)
    /\ dropped' = dropped \ {key}
    /\ UNCHANGED <<storeVars, processVars, bounds>>

(* Another pool is added under a random name. Whether the reply is lost    *)
(* makes no difference: an error is logged and the call goes on.           *)
AddPool(t) ==
    /\ Scaling(t) /\ process.clusterID
    /\ PoolMissing(t)
    /\ \E id \in generateMachineName : AddedTo(id, t)
    /\ TypeDone(t)
    /\ dropped' = dropped \ {key}
    /\ UNCHANGED <<storeVars, processVars, bounds>>

(* OCM answers the listing with nothing, which is taken for no pools.      *)
AddPoolUnlisted(t) ==
    /\ Scaling(t) /\ process.clusterID
    /\ demand(t) # 0
    /\ Fault
    /\ \E id \in generateMachineName :
          /\ ~Taken(id)
          /\ pools' = pools \cup {Added(id, t)}
          /\ blind' = blind \cup {id}
    /\ TypeDone(t)
    /\ dropped' = dropped \ {key}
    /\ UNCHANGED <<storeVars, processVars>>

(* The name is taken, OCM has no such collection for the cluster, or the   *)
(* call fails: the error is logged, and another pass is not asked for.     *)
AddPoolFails(t) ==
    /\ Scaling(t) /\ process.clusterID
    /\ PoolMissing(t)
    /\ \/ /\ \/ \E id \in generateMachineName : Taken(id)
             \/ process.machineType # ClusterKind
          /\ UNCHANGED bounds
       \/ Fault
    /\ TypeDone(t)
    /\ UNCHANGED <<storeVars, processVars, dropped, poolVars>>

(* No connection, no list, or no cluster to list the pools of.             *)
ListPoolsFails ==
    /\ \E t \in InstanceTypes : Scaling(t)
    /\ \/ ~process.clusterID /\ UNCHANGED bounds
       \/ Fault
    /\ Return(TRUE)
    /\ UNCHANGED <<processVars, dropped, poolVars>>

(* No other pass is asked for, whatever was added or failed.               *)
PoolsScaled ==
    /\ worker.pc = "scale" /\ ScaleBy \in PoolKinds
    /\ \A t \in InstanceTypes : ~Scaling(t)
    /\ Return(FALSE)
    /\ UNCHANGED <<processVars, dropped, poolVars, bounds>>

-----------------------------------------------------------------------------
(* deleteMachinePool, deleteNodePool.                                      *)

Deleting(stage) ==
    /\ worker.pc = "finalize" /\ FinalizeBy \in PoolKinds
    /\ call.stage = stage

(* The AppWrapper's pools are listed. The error of the list is ignored,    *)
(* and an empty list taken for the answer.                                 *)
ListPools ==
    /\ Deleting("dispatched") /\ process.clusterID
    /\ call' = [call EXCEPT !.stage = "listed",
                            !.left = {p.id : p \in OwnPools(key)}]
    /\ UNCHANGED <<storeVars, processVars, dropped, poolVars, bounds>>

ListPoolsIgnored ==
    /\ Deleting("dispatched")
    /\ \/ ~process.clusterID /\ UNCHANGED bounds
       \/ Fault
    /\ call' = [call EXCEPT !.stage = "listed"]
    /\ dropped' = dropped \cup {key}
    /\ UNCHANGED <<storeVars, processVars, poolVars>>

(* No connection: the one failure that is returned.                        *)
NoConnection ==
    /\ Deleting("dispatched")
    /\ Fault
    /\ Return(TRUE)
    /\ UNCHANGED <<processVars, dropped, poolVars>>

DeletePool(id) ==
    /\ Deleting("listed") /\ id \in call.left
    /\ pools' = {p \in pools : p.id # id}
    /\ blind' = blind \ {id}
    /\ call' = [call EXCEPT !.left = @ \ {id}]
    /\ UNCHANGED <<storeVars, processVars, dropped, bounds>>

(* The error is logged, and the next pool deleted.                         *)
DeletePoolFails(id) ==
    /\ Deleting("listed") /\ id \in call.left
    /\ Fault
    /\ call' = [call EXCEPT !.left = @ \ {id}]
    /\ dropped' = dropped \cup {key}
    /\ UNCHANGED <<storeVars, processVars, poolVars>>

(* Wrong on purpose: the loop ends with the first pool.                    *)
PoolsDeletedEarly ==
    /\ Deleting("listed")
    /\ Finalized
    /\ UNCHANGED <<processVars, dropped, poolVars, bounds>>

PoolsDeleted ==
    /\ Deleting("listed") /\ call.left = {}
    /\ Finalized
    /\ UNCHANGED <<processVars, dropped, poolVars, bounds>>

-----------------------------------------------------------------------------
PoolStep ==
    \/ \E t \in InstanceTypes :
          \/ KeepPool(t)
          \/ AddPool(t)
          \/ AddPoolUnlisted(t)
          \/ AddPoolFails(t)
    \/ ListPoolsFails
    \/ PoolsScaled
    \/ ListPools
    \/ ListPoolsIgnored
    \/ NoConnection
    \/ \E id \in PoolIds : DeletePool(id) \/ DeletePoolFails(id)
    \/ PoolsDeleted

(* An AppWrapper has at most one pool of a type, of the size it asks for,  *)
(* whatever calls fail, replies are lost or processes restart, as long as  *)
(* it does not change what it asks for (numberOfMachines # replicas is all *)
(* that keeps another pass from adding another pool). Only an answer of    *)
(* OCM that is empty, to the check or to the listing, makes it two.        *)
ScaledOnce ==
    \A p, q \in pools :
        p.owner = q.owner /\ p.type = q.type /\ {p.id, q.id} \cap blind = {}
            => p = q

(* Only pools of the kind the cluster takes are added, though every        *)
(* process begins with MachinePool: a pool of the other kind would not be  *)
(* in the collection the next process lists. It takes an empty answer of   *)
(* OCM, which checkHypershiftEnabled does not return as an error, to get   *)
(* the kind wrong: no failed call or cluster search does, no restart, and  *)
(* no edit of the configuration.                                           *)
PoolsFitCluster ==
    \A p \in pools : p.id \notin blind => p.kind = ClusterKind
=============================================================================
