------------------------ MODULE AppWrapperReconciler ------------------------
(***************************************************************************)
(* What InstaScale promises, whatever it scales with: held is the set of   *)
(* AppWrappers for which the cluster has been grown and not shrunk again   *)
(* (a replica label on a MachineSet, a MachineSet, a machine pool or a     *)
(* node pool of their own).                                                *)
(*                                                                         *)
(* A pass over a pending AppWrapper may acquire; a pass over a finished    *)
(* one releases, and hands the finalizer back only when nothing is held.   *)
(* The finalizer is what protects a held resource from being forgotten.    *)
(***************************************************************************)
EXTENDS AppWrapperStore

VARIABLE held

vars == <<api, cache, synced, queue, worker, held>>

(* The cluster is grown for the AppWrapper the worker is scaling.          *)
Acquire ==
    /\ worker.pc = "scale"
    /\ held' = held \cup {worker.key}
    /\ UNCHANGED storeVars

(* The scaling pass ends, successfully or not, asking for another or not.  *)
ScaleReturns ==
    /\ worker.pc = "scale"
    /\ \E requeue \in BOOLEAN : Finish(requeue)
    /\ UNCHANGED <<api, cache, synced, held>>

(* What was acquired for the AppWrapper being finalized is given back.     *)
Release ==
    /\ worker.pc = "finalize"
    /\ held' = held \ {worker.key}
    /\ UNCHANGED storeVars

(* finalizeScalingDownMachines returns nil only when nothing is held.      *)
FinalizeReturns ==
    /\ worker.pc = "finalize"
    /\ worker.key \notin held
    /\ worker' = [worker EXCEPT !.pc = "removeFinalizer"]
    /\ UNCHANGED <<api, cache, synced, queue, held>>

(* Wrong on purpose: the error is not returned.                            *)
FinalizeFailsSilently ==
    /\ worker.pc = "finalize"
    /\ Finish(FALSE)
    /\ UNCHANGED <<api, cache, synced, held>>

(* It returns an error: Reconcile will be called again.                    *)
FinalizeFails ==
    /\ worker.pc = "finalize"
    /\ Finish(TRUE)
    /\ UNCHANGED <<api, cache, synced, held>>

Init == StoreInit /\ held = {}

Next ==
    \/ (\E aw \in AppWrappers : Client(aw) \/ Informer(aw)) /\ UNCHANGED held
    \/ WorkerStep /\ UNCHANGED held
    \/ Acquire
    \/ ScaleReturns
    \/ Release
    \/ FinalizeReturns
    \/ FinalizeFails
    \/ Crash /\ UNCHANGED held

(* Watch events arrive; the queue is first-in first-out; every call of a   *)
(* pass ends; and a call that is retried for ever (the queue's rate        *)
(* limiter knows no last retry) succeeds at last.                          *)
Fairness ==
    /\ \A aw \in AppWrappers :
          /\ WF_vars(SyncCache(aw) /\ UNCHANGED held)
          /\ SF_vars(Dequeue(aw) /\ UNCHANGED held)
          /\ SF_vars(worker.key = aw /\ Release)
          /\ SF_vars(worker.key = aw /\ FinalizeReturns)
          /\ SF_vars(worker.key = aw /\ RemoveFinalizer /\ UNCHANGED held)
          /\ SF_vars(worker.key = aw /\ AddFinalizer /\ UNCHANGED held)
    /\ WF_vars(UpdateFails /\ UNCHANGED held)
    /\ WF_vars(ScaleReturns)
    /\ WF_vars(FinalizeFails)

Spec == Init /\ [][Next]_vars

FairSpec == Spec /\ Fairness

-----------------------------------------------------------------------------
(* Every variable stays in its range; the worker has a key exactly when it *)
(* is not idle.                                                            *)
TypeOK == StoreTypeOK /\ held \subseteq AppWrappers

(* Resources are never orphaned: as long as something is held for an       *)
(* AppWrapper, its object is there and carries InstaScale's finalizer, so  *)
(* no deletion, stale read or restart can make the controller forget it.   *)
HeldIsProtected ==
    \A aw \in held : api[aw].exists /\ api[aw].fin

(* The facts HeldIsProtected rests on: how far the cache and the worker's  *)
(* copy may lag behind the API server.                                     *)
CacheIsSound ==
    \A aw \in AppWrappers :
        /\ aw \in synced => cache[aw] = api[aw]
        /\ (cache[aw].exists /\ cache[aw].fin /\ ~Terminal(cache[aw]))
              => api[aw].exists /\ api[aw].fin

WorkerIsSound ==
    /\ worker.current => worker.key \in synced /\ api[worker.key] = worker.copy
    /\ worker.pc = "scale" => api[worker.key].exists /\ api[worker.key].fin
    /\ worker.pc \in {"finalize", "removeFinalizer"}
          => Terminal(worker.copy) /\ worker.copy.fin
    /\ worker.pc = "addFinalizer" => worker.copy.exists /\ ~worker.copy.fin
    /\ worker.pc = "removeFinalizer" => worker.key \notin held

(* The inductive invariant: what is held is protected, and so is anything  *)
(* the worker is about to acquire on a stale read.                         *)
IInv == TypeOK /\ HeldIsProtected /\ CacheIsSound /\ WorkerIsSound

(* Whatever is held for an AppWrapper that is deleted or has completed is  *)
(* given back in the end, however stale the reads and however many the     *)
(* restarts.                                                               *)
EventuallyReleased ==
    \A aw \in AppWrappers :
        (aw \in held /\ Terminal(api[aw])) ~> (aw \notin held)

(* A deleted AppWrapper does not hang on its finalizer.                    *)
DeletionCompletes ==
    \A aw \in AppWrappers : api[aw].del ~> ~api[aw].exists

(* The desired state is reached: the controller stops rewriting an         *)
(* AppWrapper that stays completed (the doc comment of Reconcile:          *)
(* "move the current state of the cluster closer to the desired state").   *)
CompletedSettles ==
    \A aw \in AppWrappers :
        <>[](api[aw].exists /\ api[aw].state = "Completed")
            => <>[](api[aw].fin) \/ <>[](~api[aw].fin)
=============================================================================
