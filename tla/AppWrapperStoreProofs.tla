------------------------ MODULE AppWrapperStoreProofs ------------------------
(***************************************************************************)
(* The AppWrapper objects, the cache, the queue and the worker stay in     *)
(* range under every step of AppWrapperStore: what the proofs of all the   *)
(* modules that extend it begin with.                                      *)
(***************************************************************************)
EXTENDS AppWrapperStore, TLAPS

(* The worker's resting state, and the absent object, are in range.        *)
LEMMA IdleAbsentType == Idle \in Worker /\ Absent \in Object
  BY DEF Idle, Worker, Stages, Absent, Object, States

(* What the branch Reconcile takes says of the object it read.             *)
LEMMA BranchType ==
  ASSUME NEW o \in Object
  PROVE  Branch(o) \in Stages \ {"removeFinalizer"}
  BY DEF Branch, Stages

(* There are no AppWrappers to begin with.                                 *)
LEMMA StoreInitType == StoreInit => StoreTypeOK
  BY IdleAbsentType, AppWrapperAssumption
  DEF StoreInit, StoreTypeOK, Idle

(* A write of another client of an object that is in range.                *)
LEMMA ExternalWriteType ==
  ASSUME StoreTypeOK, NEW aw \in AppWrappers, NEW o \in Object, ExternalWrite(aw, o)
  PROVE  StoreTypeOK'
  BY DEF StoreTypeOK, ExternalWrite, Store, Worker

(* Users, MCAD and the informer.                                           *)
LEMMA ClientType ==
  ASSUME StoreTypeOK, NEW aw \in AppWrappers, Client(aw) \/ Informer(aw)
  PROVE  StoreTypeOK'
<1>0. api[aw] \in Object
  BY DEF StoreTypeOK
<1>1. CASE CreateAppWrapper(aw)
  <2>1. PICK f \in BOOLEAN, d \in Demands :
           ExternalWrite(aw, [exists |-> TRUE, fin |-> f, del |-> FALSE,
                              state |-> "Queued", demand |-> d])
    BY <1>1 DEF CreateAppWrapper
  <2>2. [exists |-> TRUE, fin |-> f, del |-> FALSE,
         state |-> "Queued", demand |-> d] \in Object
    BY DEF Object, States
  <2>3. QED
    BY <2>1, <2>2, ExternalWriteType
<1>2. CASE DeleteAppWrapper(aw)
  <2>1. [api[aw] EXCEPT !.del = TRUE] \in Object
    BY <1>0 DEF Object
  <2>2. QED
    BY <1>2, <2>1, IdleAbsentType, ExternalWriteType DEF DeleteAppWrapper
<1>3. CASE EditAppWrapper(aw)
  <2>1. PICK d \in Demands : ExternalWrite(aw, [api[aw] EXCEPT !.demand = d])
    BY <1>3 DEF EditAppWrapper
  <2>2. [api[aw] EXCEPT !.demand = d] \in Object
    BY <1>0 DEF Object
  <2>3. QED
    BY <2>1, <2>2, ExternalWriteType
<1>4. CASE DispatchAppWrapper(aw)
  <2>1. PICK s \in States : ExternalWrite(aw, [api[aw] EXCEPT !.state = s])
    BY <1>4 DEF DispatchAppWrapper
  <2>2. [api[aw] EXCEPT !.state = s] \in Object
    BY <1>0 DEF Object
  <2>3. QED
    BY <2>1, <2>2, ExternalWriteType
<1>5. CASE Informer(aw)
  BY <1>5 DEF StoreTypeOK, Informer, SyncCache, Resync
<1>6. QED
  BY <1>1, <1>2, <1>3, <1>4, <1>5 DEF Client

(* A pass that ends.                                                       *)
LEMMA FinishType ==
  ASSUME StoreTypeOK, worker.pc # "idle", NEW r \in BOOLEAN, Finish(r),
         UNCHANGED <<api, cache, synced>>
  PROVE  StoreTypeOK'
<1>1. worker.key \in AppWrappers
  BY DEF StoreTypeOK, Worker
<1>2. QED
  BY <1>1, IdleAbsentType DEF StoreTypeOK, Finish, Idle

(* The finalizing call has returned nil.                                   *)
LEMMA FinalizedType ==
  ASSUME StoreTypeOK, worker.pc # "idle",
         worker' = [worker EXCEPT !.pc = "removeFinalizer"],
         UNCHANGED <<api, cache, synced, queue>>
  PROVE  StoreTypeOK'
  BY DEF StoreTypeOK, Worker, Stages

(* The worker's reads, and its Updates of the finalizer.                   *)
LEMMA WorkerType ==
  ASSUME StoreTypeOK, WorkerStep
  PROVE  StoreTypeOK'
<1>0. worker.pc # "idle" => worker.key \in AppWrappers
  BY DEF StoreTypeOK, Worker
<1>1. ASSUME NEW aw \in AppWrappers, Dequeue(aw) PROVE StoreTypeOK'
  <2>1. cache[aw] \in Object /\ aw # NoKey
    BY AppWrapperAssumption DEF StoreTypeOK
  <2>2. CASE Branch(cache[aw]) = "idle"
    BY <1>1, <2>2, IdleAbsentType DEF StoreTypeOK, Dequeue, Idle
  <2>3. CASE Branch(cache[aw]) # "idle"
    <3>1. worker' = [pc |-> Branch(cache[aw]), key |-> aw,
                     copy |-> cache[aw], current |-> aw \in synced]
      BY <1>1, <2>3 DEF Dequeue
    <3>2. worker' \in Worker /\ worker'.pc # "idle" /\ worker'.key # NoKey
      BY <2>1, <2>3, <3>1, BranchType DEF Worker
    <3>3. QED
      BY <1>1, <3>2 DEF StoreTypeOK, Dequeue
  <2>4. QED
    BY <2>2, <2>3
<1>2. CASE AddFinalizer
  <2>1. [worker.copy EXCEPT !.fin = TRUE] \in Object
    BY DEF StoreTypeOK, Worker, Object
  <2>2. QED
    BY <1>0, <1>2, <2>1, IdleAbsentType
    DEF StoreTypeOK, AddFinalizer, Store, Finish, Idle
<1>3. CASE RemoveFinalizer
  <2>1. [worker.copy EXCEPT !.fin = FALSE] \in Object
    BY DEF StoreTypeOK, Worker, Object
  <2>2. QED
    BY <1>0, <1>3, <2>1, IdleAbsentType
    DEF StoreTypeOK, RemoveFinalizer, Store, Finish, Idle
<1>4. CASE UpdateFails
  BY <1>4, FinishType DEF UpdateFails
<1>5. QED
  BY <1>1, <1>2, <1>3, <1>4 DEF WorkerStep

(* A restart.                                                              *)
LEMMA CrashType ==
  ASSUME StoreTypeOK, Crash
  PROVE  StoreTypeOK'
  BY IdleAbsentType DEF StoreTypeOK, Crash, Idle

-----------------------------------------------------------------------------
(* Every object that is there has a demand, and so has the copy of it that *)
(* the worker holds, under each of these steps.                            *)
LEMMA InitAsks == StoreInit => EveryObjectAsks
  BY DEF StoreInit, EveryObjectAsks, Idle, Absent

(* A write of another client.                                              *)
LEMMA ExternalWriteAsks ==
  ASSUME StoreTypeOK, EveryObjectAsks, NEW aw \in AppWrappers, NEW o,
         o.exists => o.demand \in Demands, ExternalWrite(aw, o)
  PROVE  EveryObjectAsks'
  BY DEF StoreTypeOK, EveryObjectAsks, ExternalWrite, Store, Worker

(* Users, MCAD and the informer.                                           *)
LEMMA ClientAsks ==
  ASSUME StoreTypeOK, EveryObjectAsks, NEW aw \in AppWrappers,
         Client(aw) \/ Informer(aw)
  PROVE  EveryObjectAsks'
<1>0. api[aw] \in Object /\ (api[aw].exists => api[aw].demand \in Demands)
  BY DEF StoreTypeOK, EveryObjectAsks
<1>1. CASE CreateAppWrapper(aw)
  BY <1>1, ExternalWriteAsks DEF CreateAppWrapper
<1>2. CASE DeleteAppWrapper(aw)
  <2>1. [api[aw] EXCEPT !.del = TRUE].demand = api[aw].demand /\ ~Absent.exists
    BY <1>0 DEF Object, Absent
  <2>2. QED
    BY <1>0, <1>2, <2>1, ExternalWriteAsks DEF DeleteAppWrapper
<1>3. CASE EditAppWrapper(aw)
  <2>1. PICK d \in Demands : ExternalWrite(aw, [api[aw] EXCEPT !.demand = d])
    BY <1>3 DEF EditAppWrapper
  <2>2. [api[aw] EXCEPT !.demand = d].demand = d
    BY <1>0 DEF Object
  <2>3. QED
    BY <2>1, <2>2, ExternalWriteAsks
<1>4. CASE DispatchAppWrapper(aw)
  <2>1. PICK s \in States : ExternalWrite(aw, [api[aw] EXCEPT !.state = s])
    BY <1>4 DEF DispatchAppWrapper
  <2>2. /\ [api[aw] EXCEPT !.state = s].demand = api[aw].demand
        /\ [api[aw] EXCEPT !.state = s].exists = api[aw].exists
    BY <1>0 DEF Object
  <2>3. QED
    BY <1>0, <2>1, <2>2, ExternalWriteAsks
<1>5. CASE Informer(aw)
  BY <1>5 DEF StoreTypeOK, EveryObjectAsks, Informer, SyncCache, Resync
<1>6. QED
  BY <1>1, <1>2, <1>3, <1>4, <1>5 DEF Client

(* The worker's reads, and its Updates of the finalizer.                   *)
LEMMA WorkerAsks ==
  ASSUME StoreTypeOK, EveryObjectAsks, WorkerStep
  PROVE  EveryObjectAsks'
<1>0. /\ worker.copy \in Object
      /\ worker.pc # "idle" => worker.copy.demand \in Demands
  BY DEF StoreTypeOK, EveryObjectAsks, Worker
<1>1. ASSUME NEW aw \in AppWrappers, Dequeue(aw) PROVE EveryObjectAsks'
  BY <1>1 DEF EveryObjectAsks, Dequeue, Branch, Idle
<1>2. ASSUME NEW b \in BOOLEAN PROVE [worker.copy EXCEPT !.fin = b].demand = worker.copy.demand
  BY <1>0 DEF Object
<1>3. CASE AddFinalizer \/ RemoveFinalizer
  <2>1. PICK o : api' = [api EXCEPT ![worker.key] = o]
                 /\ (o.exists => o.demand \in Demands)
    BY <1>0, <1>2, <1>3 DEF AddFinalizer, RemoveFinalizer, Store, Absent
  <2>2. UNCHANGED cache /\ worker'.pc = "idle"
    BY <1>3 DEF AddFinalizer, RemoveFinalizer, Store, Finish, Idle
  <2>3. QED
    BY <2>1, <2>2 DEF StoreTypeOK, EveryObjectAsks
<1>4. CASE UpdateFails
  BY <1>4 DEF UpdateFails, EveryObjectAsks, Finish, Idle
<1>5. QED
  BY <1>1, <1>3, <1>4 DEF WorkerStep

(* A restart.                                                              *)
LEMMA CrashAsks ==
  ASSUME EveryObjectAsks, Crash
  PROVE  EveryObjectAsks'
  BY DEF EveryObjectAsks, Crash, Idle
=============================================================================
