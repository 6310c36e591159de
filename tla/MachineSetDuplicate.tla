------------------------- MODULE MachineSetDuplicate -------------------------
(***************************************************************************)
(* The duplicate strategy (src/controllers/machineset.go:43-147 and        *)
(* 721-748): each instance type a pending AppWrapper asks for gets a       *)
(* MachineSet of the AppWrapper's own, copied from one the cluster has; a  *)
(* finished AppWrapper's MachineSets are deleted.                          *)
(*                                                                         *)
(* The copy's name is made of the AppWrapper and the type, so that there   *)
(* is one for each; it is written at the API server and read from the      *)
(* informer cache. Labelling the nodes is left out: the machines are       *)
(* selected by a label that only MachineSets carry.                        *)
(***************************************************************************)
EXTENDS ControllerProcess

CONSTANT Templates      \* the types of the MachineSets the cluster has

VARIABLES
    dups,       \* the copies at the API server, by AppWrapper and type
    dupCache,   \* the informer cache of them
    dupSynced   \* those whose newest version is in the cache

dupVars == <<dups, dupCache, dupSynced>>

Dup == [exists : BOOLEAN, replicas : Nat, available : Nat]

NoDup == [exists |-> FALSE, replicas |-> 0, available |-> 0]

StoreDup(aw, t, o) ==
    /\ dups' = [dups EXCEPT ![aw][t] = o]
    /\ dupSynced' = dupSynced \ {<<aw, t>>}
    /\ UNCHANGED dupCache

-----------------------------------------------------------------------------
(* reconcileCreateMachineSet: the types in any order.                      *)

Copying(t) ==
    /\ worker.pc = "scale" /\ ScaleBy = "duplicate" /\ call.stage = "start"
    /\ t \in Named \ call.done

Copied(t) == dupCache[key][t].exists

(* No MachineSet of the type to copy, or the copy's machines are all there:*)
(* on to the next type.                                                    *)
PassMachineSet(t) ==
    /\ Copying(t)
    /\ t \in Templates => Copied(t) /\ dupCache[key][t].available = demand(t)
    /\ call' = [call EXCEPT !.done = @ \cup {t}]
    /\ UNCHANGED <<storeVars, processVars, dropped, dupVars, bounds>>

(* One MachineSet is created, and no other type looked at in this pass.    *)
CreateMachineSet(t) ==
    /\ Copying(t) /\ t \in Templates /\ ~Copied(t)
    /\ ~dups[key][t].exists
    /\ StoreDup(key, t, [NoDup EXCEPT !.exists = TRUE, !.replicas = demand(t)])
    /\ dropped' = dropped \ {key}
    /\ call' = [call EXCEPT !.stage = "created"]
    /\ UNCHANGED <<storeVars, processVars, bounds>>

(* The next pass is asked for.                                             *)
MachineSetCreated ==
    /\ worker.pc = "scale" /\ call.stage = "created"
    /\ Return(TRUE)
    /\ UNCHANGED <<processVars, dropped, dupVars, bounds>>

(* The cache does not show the copy yet and the server refuses another,    *)
(* the call fails, or the machines are not available: another pass.        *)
AwaitMachineSet(t) ==
    /\ Copying(t) /\ t \in Templates
    /\ \/ ~Copied(t) /\ dups[key][t].exists /\ UNCHANGED bounds
       \/ ~Copied(t) /\ Fault
       \/ Copied(t) /\ dupCache[key][t].available # demand(t) /\ UNCHANGED bounds
    /\ Return(TRUE)
    /\ UNCHANGED <<processVars, dropped, dupVars>>

MachineSetsCopied ==
    /\ worker.pc = "scale" /\ ScaleBy = "duplicate" /\ call.stage = "start"
    /\ \A t \in InstanceTypes : ~Copying(t)
    /\ Return(FALSE)
    /\ UNCHANGED <<processVars, dropped, dupVars, bounds>>

-----------------------------------------------------------------------------
(* deleteMachineSet.                                                       *)

Removing(stage) ==
    /\ worker.pc = "finalize" /\ FinalizeBy = "duplicate"
    /\ call.stage = stage

(* Wrong on purpose: MachineSets that are still coming up are left alone.  *)
ListReady ==
    /\ Removing("dispatched")
    /\ call' = [call EXCEPT !.stage = "listed",
                   !.left = {t \in InstanceTypes : dupCache[key][t].available # 0}]
    /\ UNCHANGED <<storeVars, processVars, dropped, dupVars, bounds>>

(* The copies the cache shows. One it does not show yet is given up.       *)
ListCopies ==
    /\ Removing("dispatched")
    /\ call' = [call EXCEPT !.stage = "listed",
                   !.left = {t \in InstanceTypes : Copied(t)}]
    /\ dropped' = IF \E t \in InstanceTypes : dups[key][t].exists /\ ~Copied(t)
                  THEN dropped \cup {key} ELSE dropped
    /\ UNCHANGED <<storeVars, processVars, dupVars, bounds>>

DeleteMachineSet(t) ==
    /\ Removing("listed") /\ t \in call.left
    /\ dups[key][t].exists
    /\ StoreDup(key, t, NoDup)
    /\ call' = [call EXCEPT !.left = @ \ {t}]
    /\ UNCHANGED <<storeVars, processVars, dropped, bounds>>

(* It has gone already, the call fails, or its reply is lost.              *)
DeleteMachineSetFails(t) ==
    /\ Removing("listed")
    /\ \/ t \in call.left /\ ~dups[key][t].exists /\ UNCHANGED bounds
       \/ Fault
    /\ Return(TRUE)
    /\ UNCHANGED <<processVars, dropped, dupVars>>

CopiesDeleted ==
    /\ Removing("listed") /\ call.left = {}
    /\ Finalized
    /\ UNCHANGED <<processVars, dropped, dupVars, bounds>>

-----------------------------------------------------------------------------
(* The machine API and the informer.                                       *)

MachinesChange(aw, t) ==
    /\ dups[aw][t].exists
    /\ \E n \in {0, dups[aw][t].replicas} \ {dups[aw][t].available} :
          StoreDup(aw, t, [dups[aw][t] EXCEPT !.available = n])
    /\ UNCHANGED <<storeVars, processVars, callVars, bounds>>

SyncDup(aw, t) ==
    /\ <<aw, t>> \notin dupSynced
    /\ dupCache' = [dupCache EXCEPT ![aw][t] = dups[aw][t]]
    /\ dupSynced' = dupSynced \cup {<<aw, t>>}
    /\ UNCHANGED <<storeVars, processVars, callVars, dups, bounds>>

(* A new process lists the MachineSets as it starts.                       *)
RelistDups ==
    /\ dupCache' = dups
    /\ dupSynced' = AppWrappers \X InstanceTypes
    /\ UNCHANGED dups

-----------------------------------------------------------------------------
DupStep ==
    \/ \E t \in InstanceTypes :
          \/ PassMachineSet(t)
          \/ CreateMachineSet(t)
          \/ AwaitMachineSet(t)
          \/ DeleteMachineSet(t)
          \/ DeleteMachineSetFails(t)
    \/ MachineSetCreated
    \/ MachineSetsCopied
    \/ ListCopies
    \/ CopiesDeleted

DupEnvironment ==
    \E aw \in AppWrappers, t \in InstanceTypes :
        MachinesChange(aw, t) \/ SyncDup(aw, t)
=============================================================================
