# A verification project for InstaScale

InstaScale is a Kubernetes controller. It watches AppWrappers (batch jobs
queued by MCAD), grows the cluster when one waits for resources, and shrinks it
again when the AppWrapper is deleted or completed. This directory models the
controller in TLA+, checks the models with TLC and proves theorems about them
with TLAPS. Paths below are relative to `src/`.

## The system

| Part | State | Operations | Talks to |
|------|-------|------------|----------|
| Reconcile loop (`controllers/appwrapper_controller.go:91-235`) | a work queue, an informer cache of AppWrappers, one worker; the finalizer on each AppWrapper | `Reconcile`: add the finalizer, scale, or finalize and remove the finalizer | API server (cached reads, versioned Updates), MCAD (through the AppWrapper's status) |
| MachineSet reuse (`controllers/machineset.go:149-554, 622-654, 692-719`) | replicas and one label per AppWrapper on each MachineSet; labels on Machines and Nodes; a deletion annotation on Machines | `reconcileReuseMachineSet`, `annotateToDeleteMachine` | caches of MachineSets and Machines, the Nodes at the API server, the machine API |
| Machine transfer (`findExactMatch`, `swapNodeLabels`) | labels of Machines and Nodes | relabel the machines of a finished AppWrapper for another | same |
| MachineSet duplicate (`machineset.go:43-147, 721-748`) | a MachineSet of the AppWrapper's own | `reconcileCreateMachineSet`, `deleteMachineSet` | same |
| Machine pools, node pools (`machinepools.go`, `nodepools.go`) | pools in OCM labelled with the AppWrapper | `scale...Pool`, `delete...Pool` | OCM's REST API |
| OCM connection, machine type (`ocm_manager.go`, `setMachineType`) | cluster ID, machine type, found in the first pass | `getOCMClusterID`, `checkHypershiftEnabled` | OCM |
| Instance demand (`discoverInstanceTypes`, `utils.go`) | none | replicas wanted per instance type | - |
| Start-up (`main.go`, `SetupWithManager`) | configuration | read ConfigMap and Secret | API server |

The parts meet in the one worker: `Reconcile` calls a scaling or a finalizing
function by strategy and machine type. Everything else they share is in the API
server. What is hard about the system is not in any one function:

* every read of AppWrappers, MachineSets and Machines comes from a cache of its
  own, and the three lag independently;
* an Update carries the version that was read and conflicts if it is stale; a
  patch does not;
* a call may fail, or succeed with its reply lost; the process may stop
  anywhere (a nil dereference stops it too);
* only AppWrappers are watched: a pass that waits for a machine must ask for
  another pass, or nobody will.

What makes each part correct: the loop never forgets an AppWrapper for which
the cluster was grown (the finalizer), and gets rid of it in the end; a
strategy grows by what was asked for, gives back exactly that, and gives it
back once.

`PROJECT.json` lists, under `hazards`, every place where this can go wrong,
with the properties that speak of it.

## Modules

* `AppWrapperStore` - the AppWrapper objects at the API server (`api`), the
  informer cache (`cache`, `synced`), the work `queue` and the `worker`; the
  actions of users and MCAD, the informer, the worker's read and the Updates of
  the finalizer, and a restart. Every module but `InstanceDemand` is built on it.
* `AppWrapperReconciler` - the abstract specification of InstaScale. `held` is
  the set of AppWrappers for which the cluster has been grown. A scaling call
  may acquire, a finalizing call releases and returns nil only when nothing is
  held, and both may fail at any time.
* `MachineSetReuse` - the reuse strategy, one action per step of its two
  calls, with the machine API around it. It extends `AppWrapperStore`, and
  `AppWrapperReconciler` is instantiated with `held` the AppWrappers whose label
  some MachineSet carries, less those whose label a finalizing call did not see
  (`dropped`): the property `ImplementsReconciler`.
* `ControllerProcess` - the process around `Reconcile`: `installed` (ConfigMap
  and Secret), `process` (what main, `SetupWithManager` and `setMachineType`
  have found out), restarts, and the choice of a strategy by them. Extends
  `AppWrapperStore`.
* `CloudPools`, `MachineSetDuplicate` - the strategies that scale through OCM
  and by copying MachineSets, with what they read: OCM itself, a cache. Both
  extend `ControllerProcess`.
* `InstaScale` - the composition: extends both, and takes the reuse strategy as
  `AppWrapperReconciler` with the variable `reused` for `held`, plus the one way
  in which it falls short of it, a finalizing call that overlooks a label
  (`ReuseOverlooks`). This is sound because `MachineSetReuse` is shown to
  implement just that, and keeps the composition small enough to check. The
  composition as a whole is again shown to implement `AppWrapperReconciler`,
  this time with everything the cluster holds and no call gave up on.
* `InstanceDemand` - `discoverInstanceTypes`, on its own: a loop over its input.
* `AppWrapperReconcilerProofs`, `MachineSetReuseProofs`,
  `MachineSetGrowthProofs`, `InstaScaleRefinementProofs`, `InstaScaleProofs` and
  `InstanceDemandProofs` - the theorems. `AppWrapperStoreProofs` holds the
  lemmas the modules built on the store share, `FiniteSums` those about numbers
  added up over a finite set.
* `MCMachineSetReuse`, `MCInstaScale`, `MCInstanceDemand` - the instances for
  TLC. `AppWrapperReconciler` needs none.

Operators named `...Silently`, `...EveryPass`, `...Anyway` and the like, with
the comment "Wrong on purpose", are what a plausible bug would make of the
definition after them; substituted for it they break the property that
`PROJECT.json` pairs them with, and are used nowhere else.

### How the code maps to the actions

`Reconcile` reads the AppWrapper in `Dequeue`; `Branch` is the order of its
tests. A pass then is `AddFinalizer` or `UpdateFails`; or a scaling call
(`worker.pc = "scale"`); or a finalizing call (`"finalize"`) followed by
`RemoveFinalizer` or `UpdateFails`. `Finish` is its return: an error, `Requeue`
and `RequeueAfter` all put the key back, since delays are not represented.

A resourceVersion is abstracted to what the controller can find out with it:
whether the cache is at the newest version (`synced`) and whether the worker's
copy still is (`worker.current`). Comparing values instead would be wrong: the
finalizer of a completed AppWrapper goes and comes back. A watch event takes the
cache to the newest version; that a cache may pass through the versions in
between is covered as far as an earlier event can have delivered them.

In `MachineSetReuse`, the local variables of the call are in `pass`. The scaling
call is `ListMachineSets` (the list taken once for the pass, and the first
instance type), `NextInstanceType` (the others, in any order, since a Go map has
none), `VisitMachineSet` (a MachineSet of the type, in any order, since the
informer's list has none),
`addLabelToMachine` / `addLabelToNode` / `SkipMachine` for each running machine,
and then `GrowMachineSet`, `AwaitMachines`, `removeMachinesBasedOnReplicas` or
`LeaveMachineSet`. The finalizing call is `ListNodes`, `AnnotateMachine`,
`ListLabelled`, and `ShrinkMachineSet` with `removeMachineSetLabel` for each
MachineSet: two writes, as in the code. `CallFails` is a failed call or a lost
reply at any of these steps, `FinalizeConflicts` and `LabelFails` the errors
that stale data brings about without any fault. The machine API creates
machines up to the replicas, deletes annotated ones first, and updates the
status of MachineSets, which makes versions stale.

In `InstaScale` the process comes up in two steps, as in the code: main reads
the ConfigMap and whether the Secret is there (`ReadConfiguration`),
`SetupWithManager` reads the Secret again, which may have changed. A Secret
without a token leaves a process that runs and watches nothing
(`process.watching`). The first pass begins with `setMachineType`; its failures
are `SearchFails`, which `getOCMClusterID` only logs, `CheckFails`, which
fails the pass, and `CheckUnanswered`: an answer without a body is logged with
the nil error of the call (`nodepools.go:145-148`), so that the check counts as
made and the machine type stays the one every process begins with. A pass then
goes where `ScaleBy` or `FinalizeBy` sends it.

* A pool scaling call takes the instance types in any order: `KeepPool`,
  `AddPool`, `AddPoolUnlisted` (the listing is answered with nothing, which
  `response.Items()` makes no pools), `AddPoolFails`, and `PoolsScaled` or
  `ListPoolsFails` to return. A finalizing call is `ListPools` or `ListPoolsIgnored`, `DeletePool` or
  `DeletePoolFails` for each pool, and `PoolsDeleted`, or `NoConnection`.
  Machine pools and node pools are the same code on two collections, so one set
  of actions stands for both; `map` names one of the two files for each.
* A duplicating call passes over types (`PassMachineSet`), and returns at the
  first it has to create or wait for (`CreateMachineSet`, `AwaitMachineSet`). A
  finalizing call is `ListCopies`, `DeleteMachineSet` for each copy, and
  `CopiesDeleted` or `DeleteMachineSetFails`.
* A reusing call is what `AppWrapperReconciler` says (`ReuseScales`,
  `ReuseFinalizes`), or a finalizing call that overlooks a label
  (`ReuseOverlooks`, `OverlookingReturns`).

Two history variables and one history field record where the code loses what it
knows; no action reads them.

* `dropped` holds the AppWrappers on whose resources a finalizing call gave up:
  because the list or the deletion of a pool failed and the error was dropped;
  because the cache did not show a copy yet; because it did not show the label
  of a MachineSet yet (also in `MachineSetReuse`); or because they were acquired
  under another configuration, or are pools of the other kind. Each of the four
  leaves resources behind for good, until the AppWrapper is scaled again and
  finalized once more. Everywhere else the controller keeps its promise:
  `ImplementsReconciler` is stated for what is held and not dropped.
* `blind` holds the pools that were added after an empty answer of OCM: by a
  process whose check was not answered (`process.unsure`), or after a listing
  that was not. `ScaledOnce` and `PoolsFitCluster` are stated for the others;
  for all pools both are violated in the instance of the run `InstaScale`, by a
  MachinePool on the hosted cluster and, after a restart, the NodePool beside
  it.

`InstanceDemand` has an action for each of the two nested loops
(`VisitPodResource`, `NextItem`) and an initial state for every input.

`findExactMatch` selects AppWrappers whose `orderedinstance` label is empty and
then compares it with the finished AppWrapper's, so it finds nothing for an
AppWrapper that asked for instances; the finalizing call is modelled for
those. `filterAllRunningAwMachines` and `removeMachinesBasedOnReplicas` select
by the AppWrapper's bare name, a label that this strategy never sets; they see
no machine and no node, and the model says so where they are called.

## Runs

| Run | Instance | Question and answer |
|-----|----------|---------------------|
| `Reconciler` | one AppWrapper name, created again and again, nothing else bounded | Is anything ever held without the finalizer that will release it? No (`HeldIsProtected`), because of `IInv`. Is everything held for a finished AppWrapper released, and does a deleted one go away? Yes, under `Fairness`. |
| `CompletedSettles` | the same | Does the controller leave a completed AppWrapper alone? **No**: it removes and adds the finalizer for ever. |
| `ReuseSafety` | two AppWrappers, one MachineSet, one machine name, 5 writes by users and MCAD | Is every replica above the base on a label, and does the strategy implement the abstract specification for the labels its lists showed? Yes. |
| `ReuseTypes` | one AppWrapper that may be created, short of resources, edited and finished, in 4 writes, two instance types with a MachineSet each, one machine name, no fault but every conflict and stale list | Does the finalizer wait for every label the list for deletion showed? Yes, because of `IInv`. |
| `ReuseFaults` | one AppWrapper, one instance type, one MachineSet, one machine name, 3 writes, 1 fault | With a crash, a failed call or a lost reply anywhere, does the finalizer still wait for the label, if the list showed it? Is a pending AppWrapper scaled and a finished one released in the end? Yes, under `Fairness`. |
| `GrowsByDemand` | one AppWrapper, demand 1 or 2, no fault | Does the MachineSet grow by the demand? **No**: a demand edited before its machines run is added in full again. |
| `NeverBelowBase` | one AppWrapper, a MachineSet outside openshift-machine-api, no fault | Does a MachineSet keep its own replicas? **No**: the label cannot be removed and every retry shrinks it again, below 0 (the MachineSet's schema is taken to set no minimum). |
| `WithinMaxScaleout` | two AppWrappers, a limit of 1, no fault | Is the configured limit kept? **No**: each AppWrapper is compared with it alone. |
| `StaleMachineSets` | one AppWrapper, no fault | Is the promise kept without the exception that `dropped` makes (`LabelledIsProtected`)? **No**: an AppWrapper finished right after it was scaled is let go with its replicas. |
| `InstaScale` | one AppWrapper that asks for one machine of each of two types, five configurations, a hosted cluster, two pool names, 3 writes, 1 edit of the configuration, 2 faults | Over restarts, changed configurations and failed calls: is a pool added once (`ScaledOnce`), and only of the kind the cluster takes (`PoolsFitCluster`), unless OCM answers with nothing? Is nothing let go but what `dropped` records (`ImplementsReconciler`, because of `IInv`), is the rest released, and is a waiting AppWrapper scaled? Yes. |
| `Leftovers` | one AppWrapper that asks for one type, a cluster that takes machine pools, 1 fault | Is everything given back before the finalizer goes, `dropped` or not (`NothingLeftBehind`)? **No**: the list of pools fails, its error is ignored, and the pool stays. |
| `InstanceDemand` | every label of up to 3 names, every AppWrapper of up to 3 items with up to 2 pod resources of 0 to 2 replicas | What demand do the loops compute? Along the diagonals of items and pod resources, the last one wins (`LastTakenWins`). Is it the one the label describes? For AppWrappers with one pod resource in every item but the last, and no name twice (`NamedInOrder`); with more, not in general. |

The six runs whose answer is No are findings; `PROJECT.json` quotes the line each contradicts.
They also show why the passing runs make their exceptions: `StaleMachineSets`
and `Leftovers` are two of the four ways into `dropped`, and `GrowthIsLabelled`
is checked with a constant demand, since editing the demand breaks it for the
reason `GrowsByDemand` shows.

### Bounds

`MaxWrites` bounds the writes to AppWrappers by users and MCAD: 3 is a life of
one AppWrapper (create, insufficient, finished), 4 one with an edit before the
end, 5 two of them pending and one finished. `MaxFaults = 1` is one crash,
failed call or lost reply at any step; the retry after it is what the properties are about. Machine
names are reused once nothing remembers them; one is enough for a machine that
is shared, and for one that is missing. The cache lag of AppWrappers
and Machines, the number of conflicts, of passes and of status updates are not
bounded. In `InstaScale`, `MaxFaults = 2` is a failed call and a restart, or two
failed calls of one pass; with `MaxEdits = 1` a process may end that acquired
something and one begin that is configured otherwise, anywhere in the life of
an AppWrapper. One AppWrapper is enough for what the composition is about, since
pools and copies are labelled with theirs, and two types for calls that fail
half-way; a second life under the same name (5 writes) is beyond this run and is
covered by `Reconciler` for the loop itself. Only `ReuseSafety` and
`WithinMaxScaleout` have two AppWrappers; the theorems hold for any number.
`PoolIds` are two names: when both are taken, `EventuallyScaled` asks for nothing
more, as the code, which draws from many, would not run out. Every type named is
asked for once (`OneOfEach`): a type named with 0 replicas, for which the
duplicate strategy makes a MachineSet of none, is in the model and covered by
the theorems only. The demand is not edited:
with an edit `ScaledOnce` does not hold, since a pool of another size is not
changed but joined by one more (`machinepools.go:56`). In `InstanceDemand` three
items and two pod resources give every diagonal that two pod resources can
share. `AppWrapperReconciler` has no bound at all, and no theorem depends on the value
of one.

### Fairness

Watch events arrive (weak fairness of `SyncCache` and its kin). The work queue
is first-in first-out, so a key that keeps coming back is served (strong
fairness of `Dequeue`). Every call ends (weak fairness of returns). Calls are
retried without limit by the queue's rate limiter, and a call retried for ever
is assumed to succeed at last (strong fairness of the successful actions). In
`MachineSetReuse` the status updates of a MachineSet are assumed to cease: each
reports a change, and there are finitely many. Where several instance types are
asked for, each is taken to be the first of a pass now and then
(`ListMachineSets(type)`), as Go's map iteration is random: a type whose machines
never come up ends every pass that starts with it (`machineset.go:356-362`).
`ReuseFaults` has one type, where this assumption says nothing; `EventuallyScaled`
alone with `MachineSets = {ms1, ms3}`, both types and `MaxWrites = 2` passes too,
and is violated without the assumption. In `InstaScale` the informer
also resyncs (the manager's default is every ten hours): a pool whose creation
failed is not asked for again by anything else (`machinepools.go:76`). Its
liveness properties are stated for a process that serves, since an
administrator may leave a Secret without a token for ever. `EventuallyScaled`
asks nothing of a process that did not find its cluster or its kind, which would
need a restart; that `AddPool` succeeds at last is assumed of the kind the
cluster takes only. That a reusing call releases at last is assumed here, and
checked by `ReuseFaults`, where it takes many steps. Nothing is assumed of users, of
MCAD or of the machine API, and crashes are not excluded.

## Theorems

All of them hold for every value of the constants that the modules' assumptions
allow, the bounds (`MaxWrites`, `MaxFaults`, `MaxEdits`, `MaxNames`, ...)
included: however many writes, faults or edits there are.

| Theorem | States | Also assumes |
|---------|--------|--------------|
| `AppWrapperReconcilerProofs`: `InductiveInvariant`, `TypeCorrect`, `HeldProtected` | `IInv`, `TypeOK`, `HeldIsProtected` | |
| `MachineSetReuseProofs`: `ReuseInvariant`, `ReuseTypeCorrect` | `IInv`, `TypeOK` | |
| `MachineSetReuseProofs`: `ReuseImplements`, `LabelledProtected` | the strategy implements `AppWrapperReconciler` for what is labelled and not `dropped`, and so keeps a label only while its AppWrapper has the finalizer, unless the list for deletion did not show it | |
| `MachineSetGrowthProofs`: `GrowthLabelled` | `GrowthIsLabelled` | finitely many AppWrappers; `[]Steady(f)` |
| `InstaScaleRefinementProofs`: `ControllerInvariant`, `ControllerTypeCorrect` | `IInv`, `TypeOK` | |
| `InstaScaleRefinementProofs`: `ControllerImplements`, `ControllerProtects` | the controller implements `AppWrapperReconciler` for what is held and not `dropped`, and so keeps that for AppWrappers with the finalizer | |
| `InstaScaleProofs`: `PoolsOfOneKind` | `PoolsFitCluster` | |
| `InstaScaleProofs`: `PoolsScaledOnce` | `ScaledOnce` | `[]Steady(f)` |
| `InstanceDemandProofs`: `DemandOfLast`, `DemandInOrder` | `LastTakenWins`, `NamedInOrder` | |

The modules' own assumptions are `AppWrapperAssumption` (the idle key is no
AppWrapper), `DemandAssumption` (demands are positive numbers),
`ReuseAssumption`, `ProcessAssumption` and `DemandBounds`, which give the other
constants their types; `ReuseAssumption` also says that there are finitely many
names for machines, since machines are counted.

No theorem assumes anything of how far the caches lag. The one hypothesis that
the code does not give is `[]Steady(f)`: as long as an AppWrapper is there it
asks for what `f` says. An AppWrapper may come, finish, complete, go and come
again, but a user does not edit what it asks for. `GrowsByDemand` is what an
edit does to a MachineSet, and `machinepools.go:56` what it does to pools: the
pool of the old size is not the one looked for, so another is added to it.

`dropped` and `blind` make exceptions in the statements themselves, for what the
code does wrong by a single failed call, empty answer or stale list. They are
exact where it matters: `dropped` only grows in the steps that lose something,
and shrinks when the AppWrapper is scaled again; `blind` only grows with the pool
that was added after an empty answer.

### The reconcile loop

`HeldIsProtected` is not inductive: a pass acquires on the strength of a read
that may be stale. `IInv` adds why this is safe. If the cache shows a live
object with the finalizer, the API server's object has the finalizer too
(`CacheIsSound`): only the worker removes it, from the version it read, which
was finished, and a finished version never becomes live again; so the cache
cannot show an older, live version afterwards. While the worker's copy is
current, it is what the cache shows (`WorkerIsSound`). There is one lemma per
worker action; the writes of other clients share `ExternalWriteKeeps`, which
says that a write that does not take the finalizer away keeps the invariant.

### The reuse strategy

That it implements `AppWrapperReconciler` comes down to one step: the
finalizing call returns nil only when no MachineSet carries the label. `IInv`
says why. A call is only under way in a pass of its kind (`PassIsPlaced`). What
the call or the informer takes for the newest version of a MachineSet is it
(`VersionsAreSound`), so that a write that does not conflict changes what was
read and nothing else. And while a finalizing call shrinks, every MachineSet
with the label is one it has still to come to, or the one it is at, unless the
list did not show one and `dropped` says so (`NoLabelOverlooked`; the label that
is missing from the list was missing from the cache, so that `ListLabelled` is
where it is decided). Every other step is a step of the abstract worker, informer or client, or
a stutter, by `StepRefines`. `LabelledProtected` then is `HeldProtected`, cited
for the abstract specification with `held` the labelled AppWrappers.

`GrowthIsLabelled` is broken for a moment in the middle of the argument, or
rather it has slack there: a finalizing call takes the replicas away first and
the label in a second write. `GrowthInv` counts what is gone and still on the
label (`Gone`), so that a call that fails or crashes between the two leaves a
MachineSet too small and never too large. Growing writes replicas and label at
once; that it may take `demand` for what the label says needs `Steady`: a label
of the AppWrapper is nothing or what it asks for (`LabelsAreSteady`), and so is
what the cache and the worker's copy show (`ReadsAreSteady`).

### The composition

`InstaScaleRefinementProofs` shows the same of the whole controller. A call is
only under way in a pass of a process that serves, and the strategy it was
started for cannot change until it returns, because a restart ends it
(`CallIsPlaced`). A pool's name is its own (`NamesAreUnique`), so that deleting
by name deletes one pool. What a finalizing call has still to delete is all that
is held for the AppWrapper in its strategy, and nothing of another AppWrapper;
where something is held in another one, or the list did not show it, the call
has given up and `dropped` says so (`NothingOverlooked`); a reusing call that
overlooks a label is one of these. `ScaleStep`,
`FinalizeStep`, `ReturnStep` and `ReuseReturns` sort the steps of all four
strategies by what they do to what is held, and `CallSteps` says that there are
no others.

A process begins with the guess that the cluster takes machine pools, and a
failed call may leave it half informed: with the cluster's ID and no check, or
checked and without an ID. `KindInv` says why neither adds a wrong pool: a pass
starts only when the check has been made or there is no OCM (`PassKnowsKind`),
and what was found for a cluster with an ID is true (`KindIsKnown`), unless the
answer was empty, in which case the pools that follow are `blind`; without an
ID no pool can be listed or added.

`ScaledOnce` needs that a pool is of the size the AppWrapper asks for
(`PoolsAreSteady`), since `scaleMachinePool` looks for a pool of that size before
it adds one, and asks OCM itself, not a cache; and it needs `KindInv`, since it
only looks where the process takes the cluster's pools to be (`AddsFirst`).
`PoolsGrowByAdd` says that no other step adds a pool.

### Demand

The invariant `LoopInv` adds to `LastTakenWins` that the two indices stay in the
input. `NextPodResource` is the point: the pod resource the inner loop looks at
comes after all that were taken, so that it is the last of the one type it is
taken for; at the end of an item nothing is taken (`NextItemTakesNone`).
`DemandInOrder` follows from `LastTakenWins` at the end of the loops: when each
item but the last has one pod resource, the position of a pod resource in the
flattened items is the sum of its indices (`PositionInOrder`), and when no name
comes twice there is one for each type.

### Induction over data

Sums over a set and `FlattenSeq` are recursive functions of the community
modules, and the library's induction theorems cannot be used here, since they
take a predicate as a parameter. `FiniteSums` gets along with a theorem that
takes a set (`WFMin`): if a claim failed for some number, there would be a least
one it fails for (`LeastNatural`). So `PartialExists` shows that there is a
function with the equation by which `FoldFunction` is chosen, and
`TotalNatural` and `TotalChanges` what that equation implies: a total of
natural numbers is one, and changing one of them changes the total by as much.
`FlattenItems` does the same for `FlattenSeq`.

### What only TLC checks

* The liveness properties `EventuallyReleased`, `DeletionCompletes` and
  `EventuallyScaled`: they rest on fairness, and so on ENABLED, which the prover
  does not know.
* That fairness carries over in the refinements: `Reconciler!Spec` is safety.
* What the six findings show, each a counterexample.

## Not modelled, and the plan

1. `MachineSetReuse`: ownership of machines (whose label is on an annotated
   machine, how many are labelled, nodes without a label) and a run in which
   the demand falls; liveness for several instance types over a whole life of
   the AppWrapper, which is too long to check.
2. `InstaScale`: a demand that is edited, and two lives of one name with copies
   in the cache; both need larger instances. `ControllerImplements` covers both
   for safety; what is missing are their liveness and the sizes of pools. What
   happens to the pools of a wrong kind, which only a process that is again not
   answered would delete, is not stated beyond `dropped`.
3. The comparison of counts as strings (`machineset.go:333`) with counts of two
   digits.

Machine transfer is not modelled: `findExactMatch` lists AppWrappers whose
`orderedinstance` label is empty and takes one whose label equals the finished
one's, so it finds none for an AppWrapper that names an instance type; and
`swapNodeLabels` would select machines by the AppWrapper's bare name, which the
reuse strategy sets on none. A model of it would be one of code that does
nothing.

Left out for good: logging, flags and manifests; rendering of names; the
OCM SDK; delays (`RequeueAfter`), which only postpone a pass; and a second
instance of the controller (the deployment has one replica and leader
election).
