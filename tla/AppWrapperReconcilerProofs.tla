--------------------- MODULE AppWrapperReconcilerProofs ---------------------
(***************************************************************************)
(* For every set of AppWrappers: the controller's state stays in range,    *)
(* and nothing held is ever left without its finalizer. The argument is    *)
(* the inductive invariant IInv of AppWrapperReconciler, one lemma per     *)
(* action; the writes of the API server's other clients share one.         *)
(***************************************************************************)
EXTENDS AppWrapperReconciler, TLAPS

(* The worker's resting state, and the absent object, are in range.        *)
LEMMA IdleInRange == Idle \in Worker /\ Absent \in Object
  BY DEF Idle, Worker, Stages, Absent, Object, States

(* What the branch Reconcile takes says of the object it read.             *)
LEMMA BranchFacts ==
  ASSUME NEW o \in Object
  PROVE  /\ Branch(o) \in Stages
         /\ Branch(o) = "addFinalizer" => o.exists /\ ~o.fin
         /\ Branch(o) = "scale" => o.exists /\ o.fin /\ ~Terminal(o)
         /\ Branch(o) \in {"finalize", "removeFinalizer"}
               => Terminal(o) /\ o.fin /\ Branch(o) = "finalize"
  BY DEF Branch, Stages, Terminal, Object

(* Nothing is held before the first AppWrapper is created.                 *)
LEMMA InitInvariant == Init => IInv
  BY IdleInRange, AppWrapperAssumption
  DEF Init, StoreInit, IInv, TypeOK, StoreTypeOK, HeldIsProtected,
      CacheIsSound, WorkerIsSound, Idle, Absent

-----------------------------------------------------------------------------
(* A write of another client keeps the invariant if it does not take the   *)
(* finalizer, or the object under it, away.                                *)
LEMMA ExternalWriteKeeps ==
  ASSUME IInv, NEW aw \in AppWrappers, NEW o \in Object,
         api[aw].exists /\ api[aw].fin => o.exists /\ o.fin,
         ExternalWrite(aw, o), UNCHANGED held
  PROVE  IInv'
<1>1. TypeOK'
  BY DEF IInv, TypeOK, StoreTypeOK, ExternalWrite, Store, Worker, Object
<1>2. HeldIsProtected'
  BY DEF IInv, TypeOK, StoreTypeOK, HeldIsProtected, ExternalWrite, Store
<1>3. CacheIsSound'
  BY DEF IInv, TypeOK, StoreTypeOK, CacheIsSound, ExternalWrite, Store
<1>4. WorkerIsSound'
  BY AppWrapperAssumption
  DEF IInv, TypeOK, StoreTypeOK, WorkerIsSound, ExternalWrite, Store, Worker
<1>5. QED
  BY <1>1, <1>2, <1>3, <1>4 DEF IInv

(* Creation, deletion, edits and MCAD's status updates are such writes.    *)
LEMMA ExternalKeeps ==
  ASSUME IInv, NEW aw \in AppWrappers, Client(aw) \/ Informer(aw), UNCHANGED held
  PROVE  IInv'
<1>0. api[aw] \in Object
  BY DEF IInv, TypeOK, StoreTypeOK
<1>1. CASE CreateAppWrapper(aw)
  <2>1. PICK f \in BOOLEAN, d \in Demands :
           ExternalWrite(aw, [exists |-> TRUE, fin |-> f, del |-> FALSE,
                              state |-> "Queued", demand |-> d])
    BY <1>1 DEF CreateAppWrapper
  <2>2. [exists |-> TRUE, fin |-> f, del |-> FALSE,
         state |-> "Queued", demand |-> d] \in Object
    BY DEF Object, States
  <2>3. ~api[aw].exists
    BY <1>1 DEF CreateAppWrapper
  <2>4. QED
    BY <2>1, <2>2, <2>3, ExternalWriteKeeps
<1>2. CASE DeleteAppWrapper(aw)
  <2>1. CASE api[aw].fin
    <3>1. ExternalWrite(aw, [api[aw] EXCEPT !.del = TRUE])
      BY <1>2, <2>1 DEF DeleteAppWrapper
    <3>2. /\ [api[aw] EXCEPT !.del = TRUE] \in Object
          /\ [api[aw] EXCEPT !.del = TRUE].exists = api[aw].exists
          /\ [api[aw] EXCEPT !.del = TRUE].fin = api[aw].fin
      BY <1>0 DEF Object
    <3>3. QED
      BY <3>1, <3>2, ExternalWriteKeeps
  <2>2. CASE ~api[aw].fin
    BY <1>2, <2>2, IdleInRange, ExternalWriteKeeps DEF DeleteAppWrapper
  <2>3. QED
    BY <2>1, <2>2
<1>3. CASE EditAppWrapper(aw)
  <2>1. PICK d \in Demands : ExternalWrite(aw, [api[aw] EXCEPT !.demand = d])
    BY <1>3 DEF EditAppWrapper
  <2>2. /\ [api[aw] EXCEPT !.demand = d] \in Object
        /\ [api[aw] EXCEPT !.demand = d].exists = api[aw].exists
        /\ [api[aw] EXCEPT !.demand = d].fin = api[aw].fin
    BY <1>0 DEF Object
  <2>3. QED
    BY <2>1, <2>2, ExternalWriteKeeps
<1>4. CASE DispatchAppWrapper(aw)
  <2>1. PICK s \in States : ExternalWrite(aw, [api[aw] EXCEPT !.state = s])
    BY <1>4 DEF DispatchAppWrapper
  <2>2. /\ [api[aw] EXCEPT !.state = s] \in Object
        /\ [api[aw] EXCEPT !.state = s].exists = api[aw].exists
        /\ [api[aw] EXCEPT !.state = s].fin = api[aw].fin
    BY <1>0 DEF Object
  <2>3. QED
    BY <2>1, <2>2, ExternalWriteKeeps
<1>5. CASE SyncCache(aw)
  <2>1. TypeOK'
    BY <1>5 DEF IInv, TypeOK, StoreTypeOK, SyncCache
  <2>2. CacheIsSound'
    BY <1>5 DEF IInv, TypeOK, StoreTypeOK, CacheIsSound, SyncCache
  <2>3. HeldIsProtected' /\ WorkerIsSound'
    BY <1>5 DEF IInv, HeldIsProtected, WorkerIsSound, SyncCache
  <2>4. QED
    BY <2>1, <2>2, <2>3 DEF IInv
<1>6. CASE Resync(aw)
  BY <1>6 DEF IInv, TypeOK, StoreTypeOK, HeldIsProtected, CacheIsSound,
              WorkerIsSound, Resync
<1>7. QED
  BY <1>1, <1>2, <1>3, <1>4, <1>5, <1>6 DEF Client, Informer

-----------------------------------------------------------------------------
(* When a pass ends without a write of its own, the worker has no copy     *)
(* left to be wrong about.                                                 *)
LEMMA FinishKeeps ==
  ASSUME IInv, worker.pc # "idle", NEW r \in BOOLEAN, Finish(r),
         UNCHANGED <<api, cache, synced, held>>
  PROVE  IInv'
<1>1. TypeOK'
  BY IdleInRange
  DEF IInv, TypeOK, StoreTypeOK, Finish, Idle, Worker
<1>2. HeldIsProtected' /\ CacheIsSound'
  BY DEF IInv, HeldIsProtected, CacheIsSound
<1>3. WorkerIsSound'
  BY DEF Finish, Idle, WorkerIsSound
<1>4. QED
  BY <1>1, <1>2, <1>3 DEF IInv

(* The worker starts on what the cache shows, and so on a protected object *)
(* when it is going to scale.                                              *)
LEMMA DequeueKeeps ==
  ASSUME IInv, NEW aw \in AppWrappers, Dequeue(aw), UNCHANGED held
  PROVE  IInv'
<1>0. cache[aw] \in Object /\ aw # NoKey
  BY AppWrapperAssumption DEF IInv, TypeOK, StoreTypeOK
<1>1. HeldIsProtected' /\ CacheIsSound'
  BY DEF IInv, HeldIsProtected, CacheIsSound, Dequeue
<1>2. CASE Branch(cache[aw]) = "idle"
  BY <1>1, <1>2, IdleInRange
  DEF IInv, TypeOK, StoreTypeOK, WorkerIsSound, Dequeue, Idle
<1>3. CASE Branch(cache[aw]) # "idle"
  <2>1. worker' = [pc |-> Branch(cache[aw]), key |-> aw,
                   copy |-> cache[aw], current |-> aw \in synced]
    BY <1>3 DEF Dequeue
  <2>2. TypeOK'
    BY <1>0, <1>3, <2>1, BranchFacts
    DEF IInv, TypeOK, StoreTypeOK, Dequeue, Worker
  <2>3. WorkerIsSound'
    <3>1. /\ worker'.pc = Branch(cache[aw]) /\ worker'.key = aw
          /\ worker'.copy = cache[aw] /\ worker'.current = (aw \in synced)
          /\ UNCHANGED <<api, synced>>
      BY <2>1 DEF Dequeue
    <3>2. /\ aw \in synced => cache[aw] = api[aw]
          /\ Branch(cache[aw]) = "scale" => api[aw].exists /\ api[aw].fin
      BY <1>0, BranchFacts DEF IInv, CacheIsSound
    <3>3. /\ Branch(cache[aw]) = "addFinalizer"
               => cache[aw].exists /\ ~cache[aw].fin
          /\ Branch(cache[aw]) \in {"finalize", "removeFinalizer"}
               => /\ Terminal(cache[aw]) /\ cache[aw].fin
                  /\ Branch(cache[aw]) = "finalize"
      BY <1>0, BranchFacts
    <3>4. QED
      BY <3>1, <3>2, <3>3 DEF WorkerIsSound
  <2>4. QED
    BY <1>1, <2>2, <2>3 DEF IInv
<1>4. QED
  BY <1>2, <1>3

(* The finalizer is added to the version the worker read, or not at all.   *)
LEMMA AddFinalizerKeeps ==
  ASSUME IInv, AddFinalizer, UNCHANGED held
  PROVE  IInv'
<1>0. /\ worker.key \in AppWrappers
      /\ api[worker.key] = worker.copy
      /\ worker.copy \in Object /\ worker.copy.exists
  BY DEF IInv, TypeOK, StoreTypeOK, WorkerIsSound, AddFinalizer, Worker
<1> DEFINE o == [worker.copy EXCEPT !.fin = TRUE]
<1>1. o \in Object /\ o.exists /\ o.fin
  BY <1>0 DEF Object
<1> HIDE DEF o
<1>2. /\ api' = [api EXCEPT ![worker.key] = o]
      /\ synced' = synced \ {worker.key}
      /\ cache' = cache /\ worker' = Idle
      /\ queue' \subseteq queue \cup {worker.key}
  BY DEF AddFinalizer, Store, Finish, o
<1>3. TypeOK'
  BY <1>0, <1>1, <1>2, IdleInRange
  DEF IInv, TypeOK, StoreTypeOK, Idle
<1>4. HeldIsProtected' /\ CacheIsSound'
  BY <1>0, <1>1, <1>2
  DEF IInv, TypeOK, StoreTypeOK, HeldIsProtected, CacheIsSound
<1>5. WorkerIsSound'
  BY <1>2 DEF Idle, WorkerIsSound
<1>6. QED
  BY <1>3, <1>4, <1>5 DEF IInv

(* The finalizer goes only when nothing is held, and the cache cannot show *)
(* a version older than the finished one the worker read.                  *)
LEMMA RemoveFinalizerKeeps ==
  ASSUME IInv, RemoveFinalizer, UNCHANGED held
  PROVE  IInv'
<1>0. /\ worker.key \in AppWrappers /\ worker.key \notin held
      /\ cache[worker.key] = worker.copy
      /\ worker.copy \in Object /\ Terminal(worker.copy)
  BY DEF IInv, TypeOK, StoreTypeOK, WorkerIsSound, CacheIsSound,
         RemoveFinalizer, Worker
<1> DEFINE o == IF worker.copy.del THEN Absent
                ELSE [worker.copy EXCEPT !.fin = FALSE]
<1>1. o \in Object
  BY <1>0, IdleInRange DEF Object
<1> HIDE DEF o
<1>2. /\ api' = [api EXCEPT ![worker.key] = o]
      /\ synced' = synced \ {worker.key}
      /\ cache' = cache /\ worker' = Idle
      /\ queue' \subseteq queue \cup {worker.key}
  BY DEF RemoveFinalizer, Store, Finish, o
<1>3. TypeOK'
  BY <1>0, <1>1, <1>2, IdleInRange
  DEF IInv, TypeOK, StoreTypeOK, Idle
<1>4. HeldIsProtected' /\ CacheIsSound'
  BY <1>0, <1>2
  DEF IInv, TypeOK, StoreTypeOK, HeldIsProtected, CacheIsSound
<1>5. WorkerIsSound'
  BY <1>2 DEF Idle, WorkerIsSound
<1>6. QED
  BY <1>3, <1>4, <1>5 DEF IInv

(* Reads, writes and failures of the worker outside a scaling or finalizing *)
(* call.                                                                    *)
LEMMA WorkerStepKeeps ==
  ASSUME IInv, WorkerStep, UNCHANGED held
  PROVE  IInv'
<1>1. CASE UpdateFails
  BY <1>1, FinishKeeps DEF UpdateFails
<1>2. QED
  BY <1>1, DequeueKeeps, AddFinalizerKeeps, RemoveFinalizerKeeps
  DEF WorkerStep

(* What the scaling and finalizing calls do.                               *)
LEMMA CallKeeps ==
  ASSUME IInv,
         Acquire \/ ScaleReturns \/ Release \/ FinalizeReturns \/ FinalizeFails
  PROVE  IInv'
<1>0. worker.pc # "idle" => worker.key \in AppWrappers
  BY DEF IInv, TypeOK, StoreTypeOK, Worker
<1>1. CASE Acquire
  BY <1>0, <1>1
  DEF Acquire, storeVars, IInv, TypeOK, StoreTypeOK, HeldIsProtected,
      CacheIsSound, WorkerIsSound
<1>2. CASE ScaleReturns
  BY <1>2, FinishKeeps DEF ScaleReturns
<1>3. CASE Release
  BY <1>3
  DEF Release, storeVars, IInv, TypeOK, StoreTypeOK, HeldIsProtected,
      CacheIsSound, WorkerIsSound
<1>4. CASE FinalizeReturns
  <2>1. worker' = [worker EXCEPT !.pc = "removeFinalizer"] /\ worker \in Worker
    BY <1>4 DEF FinalizeReturns, IInv, TypeOK, StoreTypeOK
  <2>2. TypeOK'
    BY <1>4, <2>1
    DEF FinalizeReturns, IInv, TypeOK, StoreTypeOK, Worker, Stages
  <2>3. WorkerIsSound'
    BY <1>4, <2>1 DEF FinalizeReturns, IInv, WorkerIsSound, Worker
  <2>4. HeldIsProtected' /\ CacheIsSound'
    BY <1>4 DEF FinalizeReturns, IInv, HeldIsProtected, CacheIsSound
  <2>5. QED
    BY <2>2, <2>3, <2>4 DEF IInv
<1>5. CASE FinalizeFails
  BY <1>5, FinishKeeps DEF FinalizeFails
<1>6. QED
  BY <1>1, <1>2, <1>3, <1>4, <1>5

(* A restart keeps the objects and what is held, and starts from a fresh   *)
(* cache.                                                                  *)
LEMMA CrashKeeps ==
  ASSUME IInv, Crash, UNCHANGED held
  PROVE  IInv'
  BY IdleInRange
  DEF Crash, IInv, TypeOK, StoreTypeOK, HeldIsProtected, CacheIsSound,
      WorkerIsSound, Idle

-----------------------------------------------------------------------------
(* The invariant of every reachable state.                                 *)
THEOREM InductiveInvariant == Spec => []IInv
<1>1. IInv /\ [Next]_vars => IInv'
  <2> SUFFICES ASSUME IInv, [Next]_vars
               PROVE  IInv'
    OBVIOUS
  <2>1. CASE UNCHANGED vars
    BY <2>1
    DEF vars, IInv, TypeOK, StoreTypeOK, HeldIsProtected, CacheIsSound,
        WorkerIsSound
  <2>2. QED
    BY <2>1, ExternalKeeps, WorkerStepKeeps, CallKeeps, CrashKeeps DEF Next
<1>2. QED
  BY <1>1, InitInvariant, PTL DEF Spec

(* The variables stay in range (Reconcile's state, whatever the order of   *)
(* reads, writes and restarts).                                            *)
THEOREM TypeCorrect == Spec => []TypeOK
<1>1. IInv => TypeOK
  BY DEF IInv
<1>2. QED
  BY <1>1, InductiveInvariant, PTL

(* Nothing is orphaned: an AppWrapper for which something is held exists   *)
(* and carries the finalizer (Reconcile adds it before it scales, and      *)
(* removes it only after finalizeScalingDownMachines has returned nil).    *)
THEOREM HeldProtected == Spec => []HeldIsProtected
<1>1. IInv => HeldIsProtected
  BY DEF IInv
<1>2. QED
  BY <1>1, InductiveInvariant, PTL
=============================================================================
