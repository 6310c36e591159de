--------------------------- MODULE AppWrapperStore ---------------------------
(***************************************************************************)
(* The AppWrapper objects and the frame of the one controller that watches *)
(* them: the API server's copy of every object, the informer cache the     *)
(* controller reads, its work queue, and the worker that runs Reconcile    *)
(* (src/controllers/appwrapper_controller.go:91-158).                      *)
(*                                                                         *)
(* What a pass does to the cluster between "scale" or "finalize" and its   *)
(* return is left to the modules that extend this one:                     *)
(* AppWrapperReconciler states what it may do, MachineSetReuse what the    *)
(* reuse strategy does.                                                    *)
(*                                                                         *)
(* A resourceVersion is represented by what the controller can tell with   *)
(* it: aw \in synced when the cache holds the newest version of aw, and    *)
(* worker.current when the version the worker read is still the newest     *)
(* (an Update carrying it would not conflict).                             *)
(***************************************************************************)
EXTENDS Naturals

CONSTANTS
    AppWrappers,    \* the namespaced names AppWrappers are created under
    Demands,        \* the replicas an AppWrapper may ask for
    NoKey           \* the idle worker's key

ASSUME AppWrapperAssumption == NoKey \notin AppWrappers
ASSUME DemandAssumption == Demands \subseteq Nat \ {0}

VARIABLES
    api,        \* the API server's AppWrappers
    cache,      \* the controller's informer cache of them
    synced,     \* the AppWrappers whose newest version the cache holds
    queue,      \* the keys waiting in the work queue
    worker      \* the one worker (MaxConcurrentReconciles is 1)

storeVars == <<api, cache, synced, queue, worker>>

(* "Queued" and "Running" stand for every state in which Reconcile does    *)
(* nothing; "Insufficient" is Pending with an Insufficient condition.      *)
States == {"Queued", "Insufficient", "Running", "Completed"}

Object == [exists : BOOLEAN, fin : BOOLEAN, del : BOOLEAN,
           state : States, demand : Demands \cup {0}]

Absent == [exists |-> FALSE, fin |-> FALSE, del |-> FALSE,
           state |-> "Queued", demand |-> 0]

Stages == {"idle", "addFinalizer", "scale", "finalize", "removeFinalizer"}

Worker == [pc : Stages, key : AppWrappers \cup {NoKey},
           copy : Object, current : BOOLEAN]

Idle == [pc |-> "idle", key |-> NoKey, copy |-> Absent, current |-> FALSE]

(* The condition under which Reconcile gives an AppWrapper's resources     *)
(* back: a deletion timestamp, or the Completed state.                     *)
Terminal(o) == o.exists /\ (o.del \/ o.state = "Completed")

-----------------------------------------------------------------------------
(* The API server, its other clients and the informer.                     *)

Store(aw, o) ==
    /\ api' = [api EXCEPT ![aw] = o]
    /\ synced' = synced \ {aw}
    /\ UNCHANGED cache

(* A write by anyone but the worker outdates the copy the worker holds.    *)
ExternalWrite(aw, o) ==
    /\ Store(aw, o)
    /\ worker' = [worker EXCEPT !.current = @ /\ worker.key # aw]
    /\ UNCHANGED queue

(* A user may create the object with the finalizer already set.            *)
CreateAppWrapper(aw) ==
    /\ ~api[aw].exists
    /\ \E f \in BOOLEAN, d \in Demands :
          ExternalWrite(aw, [exists |-> TRUE, fin |-> f, del |-> FALSE,
                             state |-> "Queued", demand |-> d])

(* With a finalizer the server only sets the deletion timestamp.           *)
DeleteAppWrapper(aw) ==
    /\ api[aw].exists /\ ~api[aw].del
    /\ ExternalWrite(aw, IF api[aw].fin THEN [api[aw] EXCEPT !.del = TRUE]
                                        ELSE Absent)

(* An edit of the replicas asked for, or (d unchanged) of anything else.   *)
EditAppWrapper(aw) ==
    /\ api[aw].exists /\ ~api[aw].del
    /\ \E d \in Demands : ExternalWrite(aw, [api[aw] EXCEPT !.demand = d])

(* MCAD writes the status; Completed is final, and an object that is being *)
(* deleted can only still complete.                                        *)
DispatchAppWrapper(aw) ==
    /\ api[aw].exists /\ api[aw].state # "Completed"
    /\ \E s \in States \ {api[aw].state} :
          /\ api[aw].del => s = "Completed"
          /\ ExternalWrite(aw, [api[aw] EXCEPT !.state = s])

(* A watch event reaches the cache, and its handler enqueues the key.      *)
SyncCache(aw) ==
    /\ aw \notin synced
    /\ cache' = [cache EXCEPT ![aw] = api[aw]]
    /\ synced' = synced \cup {aw}
    /\ queue' = queue \cup {aw}
    /\ UNCHANGED <<api, worker>>

(* The informer's periodic resync enqueues what it holds.                  *)
Resync(aw) ==
    /\ cache[aw].exists /\ aw \notin queue
    /\ queue' = queue \cup {aw}
    /\ UNCHANGED <<api, cache, synced, worker>>

-----------------------------------------------------------------------------
(* The worker.                                                             *)

(* Wrong on purpose: scaling is tested for before the finalizer.           *)
BranchScalingFirst(o) ==
    IF ~o.exists THEN "idle"
    ELSE IF o.state = "Insufficient" /\ ~o.del THEN "scale"
    ELSE IF ~o.fin THEN "addFinalizer"
    ELSE IF Terminal(o) THEN "finalize"
    ELSE "idle"

(* What Reconcile does with the object it read, in the order of its tests. *)
Branch(o) ==
    IF ~o.exists THEN "idle"
    ELSE IF ~o.fin THEN "addFinalizer"
    ELSE IF Terminal(o) THEN "finalize"
    ELSE IF o.state = "Insufficient" THEN "scale"
    ELSE "idle"

(* Reconcile begins with a read from the cache.                            *)
Dequeue(aw) ==
    /\ worker.pc = "idle" /\ aw \in queue
    /\ queue' = queue \ {aw}
    /\ worker' = IF Branch(cache[aw]) = "idle" THEN Idle
                 ELSE [pc |-> Branch(cache[aw]), key |-> aw,
                       copy |-> cache[aw], current |-> aw \in synced]
    /\ UNCHANGED <<api, cache, synced>>

(* Wrong on purpose: the key is not forgotten.                             *)
FinishKeepingKey(requeue) ==
    /\ worker' = [worker EXCEPT !.pc = "idle"]
    /\ queue' = IF requeue THEN queue \cup {worker.key} ELSE queue

(* Reconcile returns; an error or a requeue puts the key back. Delays of a *)
(* requeue are not represented.                                            *)
Finish(requeue) ==
    /\ worker' = Idle
    /\ queue' = IF requeue THEN queue \cup {worker.key} ELSE queue

(* The finalizer is written; the server refuses it to an object that is    *)
(* being deleted. The reply may be lost, which Reconcile takes for a       *)
(* failure.                                                                *)
AddFinalizer ==
    /\ worker.pc = "addFinalizer" /\ worker.current /\ ~worker.copy.del
    /\ Store(worker.key, [worker.copy EXCEPT !.fin = TRUE])
    /\ \E lost \in BOOLEAN : Finish(lost)

(* Wrong on purpose: a patch that looks at no resourceVersion.             *)
RemoveFinalizerByPatch ==
    /\ worker.pc = "removeFinalizer" /\ api[worker.key].exists
    /\ Store(worker.key, IF api[worker.key].del THEN Absent
                         ELSE [api[worker.key] EXCEPT !.fin = FALSE])
    /\ \E lost \in BOOLEAN : Finish(lost)

(* The last finalizer of an object that is being deleted: it disappears.   *)
RemoveFinalizer ==
    /\ worker.pc = "removeFinalizer" /\ worker.current
    /\ Store(worker.key, IF worker.copy.del THEN Absent
                         ELSE [worker.copy EXCEPT !.fin = FALSE])
    /\ \E lost \in BOOLEAN : Finish(lost)

(* Wrong on purpose: the error is not returned.                            *)
UpdateFailsSilently ==
    /\ worker.pc \in {"addFinalizer", "removeFinalizer"}
    /\ Finish(FALSE)
    /\ UNCHANGED <<api, cache, synced>>

(* A conflict, an absent object or a failed call: nothing is written.      *)
UpdateFails ==
    /\ worker.pc \in {"addFinalizer", "removeFinalizer"}
    /\ Finish(TRUE)
    /\ UNCHANGED <<api, cache, synced>>

(* The process stops and another one starts: its informer lists every      *)
(* object before the worker runs.                                          *)
Crash ==
    /\ cache' = api
    /\ synced' = AppWrappers
    /\ queue' = {aw \in AppWrappers : api[aw].exists}
    /\ worker' = Idle
    /\ UNCHANGED api

-----------------------------------------------------------------------------
StoreTypeOK ==
    /\ api \in [AppWrappers -> Object]
    /\ cache \in [AppWrappers -> Object]
    /\ synced \subseteq AppWrappers
    /\ queue \subseteq AppWrappers
    /\ worker \in Worker
    /\ worker.pc # "idle" <=> worker.key # NoKey

(* What is read of an object that is there is a demand.                    *)
EveryObjectAsks ==
    /\ \A aw \in AppWrappers :
          /\ api[aw].exists => api[aw].demand \in Demands
          /\ cache[aw].exists => cache[aw].demand \in Demands
    /\ worker.pc # "idle" => worker.copy.exists /\ worker.copy.demand \in Demands

StoreInit ==
    /\ api = [aw \in AppWrappers |-> Absent]
    /\ cache = api
    /\ synced = AppWrappers
    /\ queue = {}
    /\ worker = Idle

Client(aw) ==
    \/ CreateAppWrapper(aw)
    \/ DeleteAppWrapper(aw)
    \/ EditAppWrapper(aw)
    \/ DispatchAppWrapper(aw)

Informer(aw) ==
    \/ SyncCache(aw)
    \/ Resync(aw)

WorkerStep ==
    \/ \E aw \in AppWrappers : Dequeue(aw)
    \/ AddFinalizer
    \/ RemoveFinalizer
    \/ UpdateFails
=============================================================================
