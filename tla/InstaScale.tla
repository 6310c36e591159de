------------------------------ MODULE InstaScale ------------------------------
(***************************************************************************)
(* The whole controller: the process (ControllerProcess), the pass over an *)
(* AppWrapper (AppWrapperStore), and the strategies a pass may be sent to: *)
(* pools (CloudPools), duplicated MachineSets (MachineSetDuplicate), and   *)
(* reused MachineSets. The last are used through what they promise, the    *)
(* actions of AppWrapperReconciler on the variable reused, with the one    *)
(* exception to it, ReuseOverlooks; MachineSetReuse is shown to keep that  *)
(* promise, with that exception, on its own.                               *)
(*                                                                         *)
(* Simplifications: one process; writes of AppWrappers by users and MCAD   *)
(* count against MaxWrites, edits of the configuration against MaxEdits,   *)
(* failed calls, lost replies and crashes against MaxFaults. The Updates   *)
(* of an AppWrapper, and the calls of the reuse strategy, may fail any     *)
(* number of times.                                                        *)
(***************************************************************************)
EXTENDS CloudPools, MachineSetDuplicate

VARIABLE reused     \* AppWrappers the reuse strategy has grown MachineSets for

vars == <<storeVars, processVars, callVars, bounds, poolVars, dupVars, reused>>

strategyVars == <<poolVars, dupVars, reused>>

Reuse == INSTANCE AppWrapperReconciler WITH held <- reused

-----------------------------------------------------------------------------
(* What is held for an AppWrapper, and by what it can be given back.       *)

HeldBy(aw) ==
    {p.kind : p \in {p \in pools : p.owner = aw}}
    \cup {k \in {"duplicate"} : \E t \in InstanceTypes : dups[aw][t].exists}
    \cup {k \in {"reuse"} : aw \in reused}

Held == {aw \in AppWrappers : HeldBy(aw) # {}}

-----------------------------------------------------------------------------
(* finalizeScalingDownMachines looks at one strategy only. What another    *)
(* acquired, before the configuration changed, is forgotten.               *)
finalizeScalingDownMachines ==
    /\ worker.pc = "finalize" /\ call.stage = "start"
    /\ call' = [call EXCEPT !.stage = "dispatched"]
    /\ dropped' = IF HeldBy(key) \subseteq {FinalizeBy} THEN dropped
                  ELSE dropped \cup {key}
    /\ UNCHANGED <<storeVars, processVars, bounds, strategyVars>>

ReuseScales ==
    /\ ScaleBy = "reuse"
    /\ \/ Reuse!Acquire /\ dropped' = dropped \ {key}
       \/ Reuse!ScaleReturns /\ UNCHANGED dropped
    /\ UNCHANGED <<processVars, call, bounds, poolVars, dupVars>>

Reusing(stage) ==
    /\ worker.pc = "finalize" /\ FinalizeBy = "reuse"
    /\ call.stage = stage

ReuseFinalizes ==
    /\ Reusing("dispatched")
    /\ \/ Reuse!Release /\ UNCHANGED call
       \/ Reuse!FinalizeReturns /\ call' = NoCall
       \/ Reuse!FinalizeFails /\ call' = NoCall
    /\ UNCHANGED <<processVars, dropped, bounds, poolVars, dupVars>>

(* The call's list of MachineSets comes from a cache that does not show a  *)
(* label yet; with what it does show the call returns nil, or an error.    *)
ReuseOverlooks ==
    /\ Reusing("dispatched") /\ key \in reused
    /\ call' = [call EXCEPT !.stage = "listed"]
    /\ dropped' = dropped \cup {key}
    /\ UNCHANGED <<storeVars, processVars, bounds, strategyVars>>

OverlookingReturns ==
    /\ Reusing("listed")
    /\ Finalized \/ Return(TRUE)
    /\ UNCHANGED <<processVars, dropped, bounds, strategyVars>>

(* A machineSetsStrategy that is no strategy: nothing is done.             *)
NoStrategy ==
    /\ \/ worker.pc = "scale"
          /\ ScaleBy \notin PoolKinds \cup {"reuse", "duplicate"}
          /\ Return(FALSE)
       \/ worker.pc = "finalize" /\ call.stage = "dispatched"
          /\ FinalizeBy \notin PoolKinds \cup {"reuse", "duplicate"}
          /\ Finalized
    /\ UNCHANGED <<processVars, dropped, bounds, strategyVars>>

CallStep ==
    \/ finalizeScalingDownMachines
    \/ ReuseScales
    \/ ReuseFinalizes
    \/ ReuseOverlooks
    \/ OverlookingReturns
    \/ NoStrategy
    \/ PoolStep /\ UNCHANGED <<dupVars, reused>>
    \/ DupStep /\ UNCHANGED <<poolVars, reused>>

-----------------------------------------------------------------------------
(* The store's actions, where the process lets them happen.                *)

StoreFrame == UNCHANGED <<processVars, callVars, strategyVars>>

ClientStep(aw) ==
    /\ writes < MaxWrites /\ writes' = writes + 1
    /\ Client(aw)
    /\ UNCHANGED <<edits, faults>>
    /\ StoreFrame

WatchStep(aw) == Serving /\ Informer(aw) /\ StoreFrame /\ UNCHANGED bounds

Take(aw) ==
    /\ Serving /\ ~MustDetect
    /\ Dequeue(aw)
    /\ StoreFrame /\ UNCHANGED bounds

UpdateStep ==
    /\ AddFinalizer \/ RemoveFinalizer \/ UpdateFails
    /\ StoreFrame /\ UNCHANGED bounds

(* A process that starts, or stops, has no cache of MachineSets either.    *)
ProcessChange ==
    /\ ProcessStep
    /\ IF process'.stage # process.stage THEN RelistDups ELSE UNCHANGED dupVars
    /\ UNCHANGED <<poolVars, reused>>

Init ==
    /\ ProcessInit
    /\ pools = {} /\ blind = {}
    /\ dups = [aw \in AppWrappers |-> [t \in InstanceTypes |-> NoDup]]
    /\ dupCache = dups
    /\ dupSynced = AppWrappers \X InstanceTypes
    /\ reused = {}

Next ==
    \/ \E aw \in AppWrappers : ClientStep(aw) \/ WatchStep(aw) \/ Take(aw)
    \/ UpdateStep
    \/ ProcessChange
    \/ CallStep
    \/ DupEnvironment /\ UNCHANGED <<poolVars, reused>>

(* What the one process does next: at most one of these is enabled.        *)
ControllerStep ==
    \/ (ReadConfiguration \/ SetupWithManager) /\ ProcessChange
    \/ setMachineType /\ ProcessChange
    \/ UpdateStep
    \/ CallStep

(* The process goes on; watch events arrive; the informer resyncs (every   *)
(* ten hours unless told otherwise); the queue is first-in first-out; and  *)
(* a call that is retried for ever succeeds at last.                       *)
Fairness ==
    /\ WF_vars(ControllerStep)
    /\ \A aw \in AppWrappers :
          /\ WF_vars(SyncCache(aw) /\ WatchStep(aw))
          /\ WF_vars(Resync(aw) /\ WatchStep(aw))
          /\ SF_vars(Take(aw))
          /\ SF_vars(key = aw /\ AddFinalizer /\ UpdateStep)
          /\ SF_vars(key = aw /\ (Reuse!Release \/ Reuse!FinalizeReturns)
                        /\ ReuseFinalizes)
          /\ \A t \in InstanceTypes :
                /\ SF_vars(/\ key = aw /\ process.machineType = ClusterKind
                           /\ AddPool(t) /\ CallStep)
                /\ WF_vars(SyncDup(aw, t) /\ UNCHANGED <<poolVars, reused>>)

Spec == Init /\ [][Next]_vars

FairSpec == Spec /\ Fairness

-----------------------------------------------------------------------------
(* Every variable stays in its range; a call is only under way while a     *)
(* pass scales or finalizes, in a process that is running.                 *)
TypeOK ==
    /\ ProcessTypeOK
    /\ pools \subseteq Pool /\ blind \subseteq PoolIds
    /\ dups \in [AppWrappers -> [InstanceTypes -> Dup]]
    /\ dupCache \in [AppWrappers -> [InstanceTypes -> Dup]]
    /\ dupSynced \subseteq AppWrappers \X InstanceTypes
    /\ reused \subseteq AppWrappers
    /\ call # NoCall => worker.pc \in {"scale", "finalize"} /\ Serving

(* A pass, and a call in it, is only under way where it can be: the        *)
(* strategy it was sent to cannot change until it returns.                 *)
CallIsPlaced ==
    /\ worker.pc # "idle" => Serving
    /\ call.stage = "created" => worker.pc = "scale"
    /\ call.stage \in {"dispatched", "listed"} => worker.pc = "finalize"
    /\ worker.pc = "scale" /\ ScaleBy = "reuse" => call = NoCall
    /\ call.stage # "listed" => call.left = {}

(* A name is the name of one pool, whoever's it is.                        *)
NamesAreUnique == \A p, q \in pools : p.id = q.id => p = q

(* What the finalizing call has still to delete is everything held for the *)
(* AppWrapper, unless it gave up on some, and nothing of anyone else.      *)
NothingOverlooked ==
    /\ call.stage \in {"dispatched", "listed"} /\ key \notin dropped
          => HeldBy(key) \subseteq {FinalizeBy}
    /\ call.stage = "listed" /\ key \notin dropped =>
          /\ FinalizeBy # "reuse"
          /\ FinalizeBy \in PoolKinds
                => \A p \in pools : p.owner = key => p.id \in call.left
          /\ FinalizeBy = "duplicate"
                => \A t \in InstanceTypes :
                      dups[key][t].exists => t \in call.left
    /\ call.stage = "listed" /\ FinalizeBy \in PoolKinds
          => \A p \in pools : p.id \in call.left => p.owner = key

(* The inductive invariant behind ImplementsReconciler.                    *)
IInv ==
    /\ TypeOK
    /\ EveryObjectAsks
    /\ CallIsPlaced
    /\ NamesAreUnique
    /\ NothingOverlooked

(* Whatever strategy a pass is sent to, and however the configuration      *)
(* changes from one process to the next, the controller keeps the promise  *)
(* of AppWrapperReconciler for everything that no finalizing call gave up  *)
(* on: a finalizer never goes while something is held, except for a pool   *)
(* whose list or deletion failed, a copy or a replica label that the cache *)
(* did not show, and what the call does not look at: what was acquired     *)
(* under another configuration, and the pools of the other kind.           *)
Reconciler == INSTANCE AppWrapperReconciler WITH held <- Held \ dropped

ImplementsReconciler == Reconciler!Spec

(* What was obtained for an AppWrapper is given back before the AppWrapper *)
(* is let go, nothing excepted (README.md:20: "When job completes,         *)
(* resources obtained for the job are released").                          *)
NothingLeftBehind == \A aw \in Held : api[aw].exists /\ api[aw].fin

(* What is held for a finished AppWrapper, and was not given up on, is     *)
(* given back while a process serves: the pools and copies by every pass   *)
(* that goes on after the failed calls and restarts before it. (Of the     *)
(* reuse strategy this is assumed here and checked by MachineSetReuse.)    *)
EventuallyReleased ==
    \A aw \in AppWrappers :
        Serving /\ aw \in Held \ dropped /\ Terminal(api[aw])
            ~> ~Serving \/ aw \notin Held \ dropped

(* aw waits, and the process that serves can scale pools (it has found its *)
(* cluster and the cluster's kind, or has yet to look for them, and there  *)
(* is a name left for another pool) or duplicates MachineSets.             *)
Able(aw) ==
    /\ Serving
    /\ api[aw].exists /\ ~api[aw].del /\ api[aw].state = "Insufficient"
    /\ \/ ScaleBy = "duplicate"
       \/ /\ ScaleBy \in PoolKinds
          /\ \/ MustDetect
             \/ process.clusterID /\ process.machineType = ClusterKind
          /\ \E id \in PoolIds : ~Taken(id)

Granted(aw) ==
    \A t \in DOMAIN Wants[api[aw].demand] :
        \/ ScaleBy = "duplicate" /\ (t \in Templates => dups[aw][t].exists)
        \/ ScaleBy \in PoolKinds /\ Wants[api[aw].demand][t] = 0
        \/ \E p \in pools : /\ p.owner = aw /\ p.kind = process.machineType
                            /\ p.type = t

(* A waiting AppWrapper gets a pool, or a copied MachineSet, of every type *)
(* it asks for, even after a failed call that asks for no other pass.      *)
EventuallyScaled ==
    \A aw \in AppWrappers : Able(aw) ~> ~Able(aw) \/ Granted(aw)
=============================================================================
