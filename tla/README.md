# ARMI in TLA+

Specifications of the parts of ARMI (`src/armi`) whose state changes in steps that
can go wrong in each other's wake: the operator that marches a reactor through
cycles and time nodes, what it writes and how that is loaded again, the processes
of a parallel run, the outages in which fuel is shuffled, and the changes that a
reactor model goes through around and between solves: retained states,
symmetry conversions, cross-section groups, expanded and uniform meshes, and the
volumes and densities of a block. TLC checks small instances; TLAPS proves for every
instance that the operator implements its abstract specification, and the main
properties of the operator, the parallel run, shuffling, statepoints, retained states,
symmetry conversions, cross-section groups and axial meshes.

Paths below are relative to `src/armi/` unless they begin with `src/`.

## 1. The system

### Components, their state and their operations

| Component | State | Operations | What makes it correct |
|---|---|---|---|
| **Operator** `operators/operator.py` | `r` (reactor with `p.cycle`, `p.timeNode`, `p.time`, …), `cs` (settings), `interfaces` (ordered stack), coupling iteration | `operate`/`_mainOperate`, `_cycleLoop`, `_timeNodeLoop`, `_performTightCoupling`, `interactAll*`, `interactAllRestart`, `__enter__`/`__exit__` | every node of the plan is visited once and in order, with the right hooks; a restarted run is indistinguishable from one that was not interrupted; every run ends |
| **Interfaces** `interfaces.py`, `bookkeeping/mainInterface.py` | enabled, `bolForce`, `reverseAtEOL`, a `TightCoupler` | one hook per interaction point | hooks run in stack order, EOL-reversed ones last |
| **Fuel handler** `physics/fuelCycle/` | core locations, spent fuel pool, location histories, cycle of the last shuffle | `interactBOC`, `manageFuel`, swaps, cascades, discharges, repeats | fuel is shuffled once per cycle, restarted or not; assemblies are neither lost nor duplicated; a reported shuffle can be repeated |
| **Global flux** `physics/neutronics/globalFlux/` | `_bocKeff`, reactivity swing | BOC, EveryNode, Coupled hooks; transformations before and after a solve | results saved for a node are that node's; the core is after a solve what it was before, with the results |
| **Database interface** `bookkeeping/db/databaseInterface.py` | `_db` | `initDB`, `writeDBEveryNode`, `interactEOL`, `interactError`, `prepRestartRun` | each node is saved once; what was saved survives; success flag means success |
| **Database** `bookkeeping/db/database.py` | an HDF5 file under the fast path, a copy in the working directory | `open`, `close`, `writeToDB`, `syncToSharedFolder`, `mergeHistory`, `load`, `getHistories` | the copy is whole between two writes; merged history ends where the run begins |
| **Statepoint layout** `bookkeeping/db/layout.py`, `jaggedArray.py` | rows of a tree, columns of parameters | pack, unpack, compose | what is loaded is what was written; serial numbers stay unique; an object is found in all statepoints |
| **MPI operator and actions** `operators/operatorMPI.py`, `mpiActions.py` | per process: position in the command protocol, its reactor and interfaces | broadcast of commands and actions, scatter and split, state distribution | every collective call is matched on every rank; all ranks stop |
| **State retention, synchronisation** `reactor/parameters/`, `reactor/composites.py` | values, assignment flags, back-ups, cached areas | set, `retainState`, `syncMpiState` | temporary changes are undone; what was assigned is what is synchronised; a cache is never stale |
| **Hexagonal grid, symmetry** `reactor/grids/hexagonal.py`, `reactor/converters/geometryConverters.py` | symmetry of the core, share of an assembly in a cell, scaled parameters | moves, edge assemblies, third to full core, undoing | integrated values are those of the part that is modelled; conversions are undone |
| **Cross-section groups, lattice physics** `physics/neutronics/` | groups, representative blocks, library, burnups at its generation | group assignment, refresh, generation, merging | every block has cross sections of its own group, made from its present state when the setting says so |
| **Axial expansion, uniform mesh** `reactor/converters/` | bounds of blocks and components, densities, tables of names, stored assemblies | expand, snap, make uniform, map results back | blocks fill the assembly; atoms are kept; results return to the blocks they are of |
| **Blocks and components** `reactor/blocks/`, `reactor/components/` | dimensions, links, temperatures, densities, cached volumes | set dimensions, temperature, height, pitch, densities, masses; add, remove, merge | volumes are those of the present dimensions; atoms are what was asked for |
| **Process context** `context.py` | fast path, MPI rank and size | activate and clean the fast path | nothing that was closed is deleted |
| **Cases and suites** `cases/` | case settings, a list of cases | `Case.run` | each case gets its own operator |

`PROJECT.json` lists these and the remaining parts (blueprints, materials, nuclear
data, command line, …) with what is and is not modelled of each, and why.

### Interactions

The operator calls interfaces, which share `r`, `cs` and the file. A few also look others
up through the operator: `FuelHandlerInterface.interactBOC` gets the lattice physics and
cross section group interfaces and, with `runLatticePhysicsBeforeShuffling`, calls their
`interactBOC` before the shuffle (`fuelHandlerInterface.py:89-97`). The interactions
that the properties are about are:

* operator → database interface → `Database`: `interactEveryNode` declines to
  write when tight coupling is on and `_performTightCoupling` calls
  `writeDBEveryNode` instead;
* case settings → fuel handler: a BOC hook is given the cycle and not the node,
  so `FuelHandlerInterface.interactBOC` rebuilds "is this a continued cycle?"
  from `loadStyle`, `startCycle` and `startNode`;
* run → file → next run: everything a restart knows is in the file, whatever an
  interface keeps in an attribute is gone;
* fuel handling, depletion, temperatures → cross-section groups → lattice
  physics: through the blocks' burnup, temperature and `envGroup`, and the
  manager's representative blocks, each hook at its place in the stack;
* fuel handling → grid symmetry: a move into or out of a cell on a symmetry line
  scales every volume-integrated parameter, through `Assembly.moveTo`; the flux
  solve adds and removes assemblies on those lines around itself;
* expansion → mesh of the core → uniform mesh → flux: an expanded assembly is
  not on the core's mesh, so the solve gets a homogenised copy whose results are
  mapped by overlap;
* component → block → core: a dimension set on one component changes the area of
  those linked to it, of the coolant around it and of the block, all of which
  cache it; a flag on the parent says that the coolant must be derived again.

### What is hard here

Nothing of the standard operator runs concurrently; its hard parts are failures
and order. The parallel operator is a protocol between processes that must make
the same sequence of collective calls from two different loops. A process may die
between or inside two writes, a copy over a network
drive may fail or stop half-way, an exception may be raised by any hook, hooks
of the error path may fail themselves, and a restart may begin at any node, at
either side of a cycle boundary, with a plan that has changed since.

In the reactor model the hard parts are values that must follow others without a
single place that says so: caches that must be cleared along links, flags that
mark what to synchronise, scale factors that must be applied once in each
direction, tables of names kept beside a tree, counters that must not repeat, and
conversions that are undone by a list of what they did, after a step that may
have failed. The full list, each with its line and the properties that watch it,
is `hazards` in `PROJECT.json`.

## 2. The modules

```
Schedule ─► Database ─► Operator ─► OperatorProperties ─► MCOperator     (TLC)
    └─────► Timeline ◄── refined by ──────┤
                                          └─► OperatorProofs             (TLAPS)
MpiOperator ─► MpiProperties ─► MCMpi                                    (TLC)
                     └────────► MpiProofs                                (TLAPS)
MoveList ─► Shuffle ─► ShuffleProperties ─► MCShuffle                    (TLC)
                                └─────────► ShuffleProofs                (TLAPS)
StateRetainer ─► RetainerProperties ─► MCRetainer                        (TLC)
                          └──────────► RetainerProofs                    (TLAPS)
HexGrid ─► CoreGeometry ─► GeometryProperties ─► MCGeometry              (TLC)
                                  └────────────► GeometryProofs          (TLAPS)
XsGroups ─► XsProperties ─► MCXs                                         (TLC)
                  └───────► XsProofs                                     (TLAPS)
Layout ─► Statepoints ─► StatepointProperties ─► MCStatepoints           (TLC)
                                  └────────────► StatepointProofs        (TLAPS)
AxialExpansion ─► AxialMeshes ─► MeshProperties ─► MCMeshes              (TLC)
                                       └─────────► MeshProofs            (TLAPS)
Fractions ─► BlockVolumes ─► BlockVolumeProperties ─► MCBlocks           (TLC)
```

Each `…Properties` module states the properties, each `MC…` module the instance
that its `.cfg` files give to TLC.

**Schedule** – the time history of a case (`utils/__init__.py`): cycles, step
lengths, nodes, `getPreviousTimeNode`, and the comparison of two histories that
a restart makes. A case is given one of several `Plans`, so that a restart may
change its history.

**Database** – the file. `fast` is the file under the process's fast path,
`disk` the file of that name in the working directory, `h5` the state of the
`Database` object. A file is a function from statepoint keys
`<<cycle, node, name>>` to reactor states with the plan and the
`successfulCompletion` flag. `BeginSync`/`FinishSync` are the two halves of the
copy after a write, because the process can die in between and leave a torn
file.

**Operator** – the main loop. One step is one hook of one interface or the
operator's code between two interactions. Where the code is, is `at`: an
interaction point (`"BOL"`, `"BOC"`, `"EveryNode"`, `"Coupled"`, `"EOC"`,
`"EOL"`, `"Restart"`, `"RestartEOC"`) with `todo`, the interfaces whose hook is
still to come, or a place in between.

| Code | Action |
|---|---|
| `_mainOperate`, `DatabaseInterface.initDB` | `StartRun` |
| `prepRestartRun` | `PrepRestart` |
| `interactAllRestart` | `AfterRestart`, `AfterRestartEOC` |
| `_cycleLoop`, `_timeNodeLoop` | `AfterBOL`, `AfterBOC`, `AfterEveryNode`, `AfterSave`, `AfterEOC`, with `BeginCycle`, `EnterNode`, `LeaveNode` |
| `_performTightCoupling`, `_checkTightCouplingConvergence` | `AfterEveryNode`, `AfterCoupled`, `SaveAfterCoupling` |
| `_interactAll` | `IsNext`, `Active`, `Precedes`, `HookSkipped`, `IdleHook`, `HookRaises` |
| `FuelHandlerInterface.interactBOC` | `FuelHandlerBOC` |
| `GlobalFluxInterface` hooks | `PhysicsBOC`, `Solve` |
| `DatabaseInterface.interactEveryNode`, `writeDBEveryNode`, `interactEOL`, `interactError` | `DatabaseEveryNode`, `WriteDBEveryNode`, `DatabaseEOL`, `HandleError` |
| `syncToSharedFolder`, `safeCopy` | `BeginSync`, `Synced`, `CopyCutShort` |
| `Case.run`, clean-up at exit | `AfterEOL`, `ExitRun` |
| death of the process, a new submission | `Kill`, `Resubmit` (external) |

The reactor is a record of what the properties tell apart: cycle, node, time,
the outage due, the number of shuffles, the coupled iteration, a stamp per
physics interface (the node and iteration its result is of) and the reactivity
swing (the cycle whose BOC keff it was computed from). The convergence of a
coupler is a nondeterministic Boolean; so is whether an interface asks to halt.

**Timeline** – the abstract specification: a history of saved nodes grows by the
plan's next node, at its exact time and with one shuffle per cycle begun, or
loses an end. Nothing else.

**OperatorProperties** – invariants, action and liveness
properties, the refinement mapping `SavedHistory`, and the type invariant that
the proofs use.

**OperatorProofs** – theorems about the operator: types, shuffles and what is saved;
the refinement of `Timeline`. The theorems of the other components are in
**MpiProofs**, **ShuffleProofs**, **StatepointProofs** (with those of `Layout`),
**RetainerProofs**, **GeometryProofs** (with those of `HexGrid`), **XsProofs** and
**MeshProofs**.

**MpiOperator** – a parallel run: `at` says where each rank is, `inbox` what the
primary has sent to each worker and the worker has not taken yet.

| Code | Actions |
|---|---|
| `OperatorMPI.__init__`, `operate` | `PrimaryStarts`, `PrimaryFailsOnInit`, `PrimaryRaises`, `StopWorkers`, `CloseLogs` |
| `_finalizeInteract`, `_resetWorker`, `mpiActionRequiresReset` | `EndHook`, `ResetAfter`, `KeepsReactor` |
| `MpiAction.broadcast`, `gather` | `BroadcastAction`, `Gather` |
| `workerOperate`, `workerQuit` | `TakeCommand`, `WorkerQuits` |
| `PrintSystemMemoryUsageAction` | `Report` |
| `MacroXSGenerator` | `ScatterBlocks`, `SendLib`, `TakeBlocks`, `TakeLib`, `MakeMacros` |
| `DistributeStateAction` | `SendSettings` … `StateIsSent`, `PassInterface` (the primary walks its whole stack and transmits what is not renewed or skipped), `TransmissionFails` on the primary; `TakeSettings` … `StateIsTaken` on a worker |
| `DistributionAction` | `ScatterActions`, `TakeAction`, `Split`, `PrimaryActs`, `WorkerActs` |
| `__main__.main` | `Abort` |

State is modelled by its origin: the hook and the distribution a worker's
reactor comes from, the distribution each of its interface copies comes from.
A root of a broadcast or scatter, and a worker that contributes to a gather, go
on at once; receivers wait; `Split` waits for all. The commands `"sync"` and
those that interfaces understand are left out: nothing under `src/armi` sends
them.

**MpiProperties**, **MCMpi** – as for the operator.

**MoveList** – lists of moves as pure definitions: what a YAML sequence asks for
(`CascadeMoves`, `Moves`, `Swaps`), the chains of locations that the handler
finds in a list (`TrackChain`, `ProcessMoveList`), and the pairs it swaps to
carry a chain out (`LoadSwaps`, `LoopSwaps`).

**Shuffle** – the outages of a run, one per cycle, and of a second run that
repeats them from the report of the first. `Operator` says *when* a cycle is
shuffled; `Shuffle` says what that does.

| Code | Definitions and actions |
|---|---|
| `reactorBlueprint`, `Assembly.getLocation` | `Init`, `BlueprintLoc`, `BlueprintHist` |
| `manageFuel`, `outage`, `performShuffle` | `BeginOutage`, `PerformShuffle`, `EndOutage` |
| `chooseSwaps` of a user's handler | `ChooseCascade`, `ChooseFeed`, `ChooseReturn` (any calls in any order) |
| `doRepeatShuffle`, swaps of a sequence | `Program`, `Call`, `CallSwap`, `CallCharge` |
| `swapAssemblies`, `dischargeSwap`, `_transferStationaryBlocks` | `SwapAssemblies`, `DischargeSwap`, `ExchangePlates` |
| `Core.removeAssembly`, `add`, `createAssemblyOfType`, `incrementAssemNum` | `Discharged`, `LoadNew` |
| `updateAllLocationHistParams`, `getAssemblyWithRingPosHist` | `Located`, `Preconditioned`, `WereAt`, `WithRingPosHist` |
| `setMoveList`, `makeShuffleReport`, `readMoves` | `SetMoveList`, `Reported`, `MakeShuffleReport`, `Unreadable` |

A program of swaps is carried out one call at a time, with assemblies looked up
when the code looks them up; invariants hold between any two calls. `at` is the
core's index `childrenByLocator`, `loc` the assembly's own parent and locator:
the code changes both, at different places. `been` and `layout` are ghosts: the
cores operated so far, and where the first run left everything. Enrichments are
part of an assembly's type; rotation angles are not kept.

**StateRetainer** – the parameters of a core and its blocks on each MPI rank, the
flags that say what was assigned since when, nested retained states, and the
synchronisation of all ranks. Assigning is per rank, `with` blocks and
synchronisation are entered by all ranks together, as they run the same program.

| Code | Actions |
|---|---|
| `Parameter.__set__`, `Component.setDimension`'s cache clearing | `SetParam` |
| `Block.getArea` and its cache | `GetArea` |
| `StateRetainer.__enter__`, `__exit__`, `backUp`, `restoreBackup` | `Enter(c, keep)`, `Exit` |
| `Composite.syncMpiState`, `_syncParameters`, `_syncChildren…` | `Sync`, `Aborted` |

`entered` and `changed` are ghosts: what was so on entry, and what was assigned
since the last synchronisation.

**HexGrid** – cells of a hexagonal grid: rings and positions, the first third,
its symmetry lines, the cells a cell stands for, rotation.

**CoreGeometry** – a third of a core and what scales the integrated values in it.
A cell holds an assembly or a part of it (`Factor`).

| Code | Actions |
|---|---|
| `swapAssemblies`, `dischargeSwap`, `Assembly.moveTo`, `_transferStationaryBlocks` | `SwapAssemblies`, `DischargeSwap` |
| a flux solve, `Block.getArea` | `Solve`, `GetArea` |
| `EdgeAssemblyChanger.addEdgeAssemblies`, `removeEdgeAssemblies` | `AddEdgeAssemblies`, `UndoEdgeAssemblies`, `SolveFails` |
| `ThirdCoreHexToFullCoreChanger.convert`, `restorePreviousGeometry` | `Convert`, `ConvertFails`, `RestorePreviousGeometry` |
| `growToFullCore`, a core that stays full | `StaysFull` |

**XsGroups** – the hooks of the cross-section group manager and of lattice
physics among those that change blocks, each a step, in the order of the stack,
for every value of `latticePhysicsFrequency`. A library is a function from group
IDs to the burnup it was generated at and when (`made`).

| Code | Actions |
|---|---|
| `CrossSectionGroupManager.interact*`, `createRepresentativeBlocks`, `_updateEnvironmentGroups`, `_modifyUnrepresentedXSIDs` | `Groups`, `GroupsEOC` |
| `LatticePhysicsInterface.interact*`, `updateXSLibrary`, `_newLibraryShouldBeCreated`, `_checkBurnupThresholds` | `Lattice`, `LatticeEOC` |
| fuel handling, depletion, flux and temperatures | `Shuffle`, `Deplete`, `Solve` |

**Layout** – how a statepoint holds a tree: rows in depth-first order with
numbers of children, columns with their `None`s and jagged arrays, and how
ancestors and places are recovered from them.

**Statepoints** – a reactor that is shuffled, depleted, written at each node, and
loaded by a restarted case, over `Layout`.

| Code | Actions and definitions |
|---|---|
| `dischargeSwap`, `swapAssemblies`, `Core.add`, `removeAssembly`, `normalizeNames` | `LoadFresh`, `LoadFromPool`, `SwapAssemblies` |
| depletion and a solver that assigns a parameter | `Deplete` |
| `writeToDB`, `Layout.__init__`, `packSpecialData` | `WriteToDB`, `Statepoint` |
| `load`, `_compose`, `unpackSpecialData` | `Restart`, `Load` |
| `getHistories`, `getHistoriesByLocation` | `GetHistories`, `GetHistoriesByLocation` |

`truth` is a ghost: the trees that were written.

**AxialExpansion** – the expansion of one assembly and its return to a mesh, as
functions of the stack of blocks. **AxialMeshes** – a core whose assemblies expand
and are made uniform around flux solves.

| Code | Actions and definitions |
|---|---|
| `AxialExpansionChanger.performPrescribedAxialExpansion`, `axiallyExpandAssembly`, `AssemblyAxialLinkage` | `Expand`, `ExpandFails`; `Grown`, … in `AxialExpansion` |
| `manageCoreMesh`, `Assembly.setBlockMesh`, `updateAxialMesh` | `ManageCoreMesh` |
| `UniformMeshGenerator` | `CommonMesh`, `AverageMesh`, `Filtered`, `Decusped` |
| `UniformMeshGeometryConverter.convert`, `makeAssemWithUniformMesh` | `ConvertInPlace`, `ConvertToCopy`, `ConvertFails` |
| `applyStateToOriginal`, `setAssemblyStateFromOverlaps`, `reset` | `ApplyInPlace`, `ApplyCopy`, `LeaveCopy` |
| a flux solve | `Solve` |

**Fractions** – exact fractions. **BlockVolumes** – a block, its components and
every cache of an area or volume, as the code fills and clears them.

| Code | Actions |
|---|---|
| `getVolume`, `getArea`, `DerivedShape._deriveVolumeAndArea`, `getVolumeFractions` | `ReadVolumes`, `ReadArea`, `ReadCoolantArea` |
| `Component.setTemperature`, `setDimension`, `clearLinkedCache` | `ChangeTemperature`, `ChangeDimension` |
| `setPitch`, `setHeight`, `adjustDensity` | `ChangePitch`, `ChangeHeight` |
| `Component.setNumberDensity`, `updateNumberDensities`; on a block `setNumberDensity`, `setMass`, `addMass` | `SetComponentDensity`, `SetBlockDensity`, `SetBlockMass`, `AddBlockMass` |
| `Block.add`, `remove` | `AddComponent`, `RemoveComponent` |
| `BlockConverter.dissolveComponentIntoComponent` | `Dissolve` |

`moles` is a ghost: what the moles of each nuclide should be by what was asked.

## 3. What the runs check

| Run | Instance | Shows |
|---|---|---|
| `standard` | uncoupled, `syncDbAfterWrite`, 3 runs, 2 faults | `SavesATimeline`: with any faults and restarts the saved history follows `Timeline`. `CopyKeepsUp`: between writes the copy has everything. `SuccessMeansComplete`: the flag implies a complete file. `OnlyFaultsFailARun`: no step of the code fails by itself, e.g. by writing a node twice. |
| `coupled` | tight coupling up to 2 iterations, skipped in cycle 0; two plans and restarts that change the plan, copies that fail, disabled, BOL-forced and deferred interfaces, one that may halt; 2 runs, 2 faults | `ShuffledOncePerCycle`: every saved state had one shuffle per cycle begun. `SolvedAtNode`: what is saved comes from the last iteration at that node. `LeftNodesAreSaved`: no node is left unsaved or changed after it was saved. `RunsEnd`: every run ends (liveness). |
| `parallel` | primary and 2 workers, 2 hooks of up to 2 calls, a stack with interfaces of every kind, 1 exception on any rank | `NoStateIsCarriedOver`: no worker acts on the state of an earlier hook. `StateIsWhole`: none acts on a half-distributed state. `RanksAgree`: without a fault every worker gets what it waits for. `AllRanksEnd`: every process ends (liveness; it includes the absence of deadlock). |
| `shuffles` | core of 3 locations, 1 assembly in the pool, 2 outages after the first core; any 3 calls of shuffle logic, or any 2 of 11 YAML plans; then a repeat of the report | `PlacesAgree`: locations and assemblies correspond one to one between any two calls. `PlatesStay`: grid plates do not move. `FoundByHistory`: a location and a past cycle find the assembly that was there. `SequenceApplied`: a YAML plan has the effect it describes, stated as a map of locations without chains or swaps. `FailsForCause`: it fails only over an assembly that is not in the pool, or a rotation listed too early. `RepeatsExactly`: the repeat ends with the same core, histories and pool. |
| `retained` | 2 ranks, a core of 2 blocks, a dimension and a result, retainers 2 deep, 2 assignments, values symmetric | `RestoresValues`: leaving a retained state gives back everything but what was to be kept, also after a synchronisation within. `AreaIsCurrent`: no cached area outlives its dimensions. `RanksAgree`: ranks differ only where one has assigned since the last synchronisation. `NoUpdateIsLost`: a synchronisation hands on every assignment and changes nothing else. |
| `geometry` | 4 cells: the centre, an inner one, one on the lower symmetry line, one that is further out on it; 2 shuffles, 1 area cached at a time | `SharesAreRight`: integrated values are those of the part of the assembly that its cell holds. `AreaIsCurrent`: areas follow the symmetry factor. `HistoriesFollow`: a copy's history is the image of its original's. `ConversionsAreUndone`: what follows the solve is the core before it, with the results. `StationaryStays`: plates stay where they are, unscaled. |
| `xs_groups` | 2 cycles of 2 nodes, 2 coupled iterations, fuel in two places, structure of the same type, a shield with given cross sections, a blanket in the blueprints only; every frequency | `EveryBlockIsCovered`, `LibraryIsFresh`: at each flux solve every block finds its group in the library, and the library was made when the setting says. |
| `burnup_window` | as `xs_groups`, one burnup group, tolerance 1 | violation, finding 1 below |
| `statepoints` | 2 cells, assemblies of 1 block, 2 statepoints, 3 moves with the pool and 5 without, 1 restart | `NamesFindAssemblies`: numbers are unique and found by name. `SerialsAreUnique`: no serial number is used twice in the reactor and all the file keeps. `HistoriesAreRight`: histories by object and by location are those of the object and the location. `LoadsWhatWasWritten`: a load inverts a write. |
| `meshes` | 3 assemblies (fuel, reflector, control rod), each with several expansions, one of which fails; minimum sizes none, small, large; detailed or not, uniform copy or in place; 1 conversion in place | `BlocksFill`: after every expansion the blocks are stacked without gaps to the same top. `ExpansionKeepsMass`: as much of each material as before, in the target components block by block. `AtomsAreKept`: the uniform mesh has the atoms of the original. `TablesFollow`: the tables of names list what is in the core. `ResultsComeBack`: after a solve each assembly is what it was, with all of the power found. |
| `lost_top` | a control rod that ends closer to the top than the minimum size | violation, finding 2 |
| `blocks` | annular fuel, bond, liner, cladding, wire, duct and coolant, with links between them and an expansion that depends on composition; any 3 operations; symmetry factor 3 | `VolumesAreCurrent`: no stored area or volume differs from that of the present dimensions, the coolant's and the block's included. `MolesAreRight`: atoms are what was asked for. |

**Why the bounds are enough.** *Operator.* The instances have two cycles (one
and two burn steps) with distinct step lengths and outages, so that a wrong node,
a node at a wrong time or a missed outage shows in the saved times; the stack is
main, fuel handler, global flux, one more physics interface, database. Every
hazard needs at most two faults (a failure, and another one on the way out or in
the next run) and two restarts (one on each side of a boundary, or a restart of a
restart). `MaxRuns` bounds the runs of the case and `MaxFaults` the exceptions,
failed copies and kills over all runs.

*Parallel.* Two hooks are needed for state to be carried over,
two calls in one for a call after a distribution, two duplicated interfaces for
a distribution that stops half-way, and two workers for one of them to be ahead
of the other.

*Shuffles.* Three locations make the shortest loop whose direction matters and a
cascade with a first, a middle and a last location. Two outages let what the
first did (a discharge, a new assembly, a history) be used by the second. Three
calls make an assembly leave, come back and be displaced again. The plans have
cascades of every length, two in one outage, swaps before and after them, and
returns of assemblies that are and are not in the pool. `MaxAssems` is never
reached.

*Retained.* A parameter definition is shared by the blocks, so two are needed for
a flag to say too much or too little; two retainers are one inside another
that has, or has not, the same object; two assignments are one before and one
within. *Geometry.* Each cell is of another kind: a third, a whole, two halves
whose images are each other's neighbours. Two shuffles bring an assembly to the
centre and away. `Unit` is 36, so that all quotients are whole. *Cross sections.*
Two nodes in each of two cycles have a first and a later one of both kinds, two
iterations a first and a later one. *Statepoints.* Two statepoints are one before
and one after a restart; without tracking, five moves make a number free that is
used before and after. *Meshes.* The reference is an assembly with a dummy block,
another has none, the third has its anchors elsewhere; lengths are even and masses
divisible by all overlaps, so that all quotients are whole. `MaxMoves` bounds the conversions in
place. *Blocks.* Three operations are a read that fills caches, a change that
must clear them and one more of either; the links are of different kinds (diameter to
diameter, multiplicity), with the gap between two solids, of negative area where the
fuel is wider than the liner. No dimension is linked to one that is linked itself:
chains of links, of which `clearLinkedCache` clears only the first
(`component.py:1011`), are outside the run.

**Deadlock** is checked in all runs but three. In `Operator`, `Finished` lets a case rest
only after its process has ended, and in `Shuffle` after a failure or the end of
the repeat; the other modules have such a step each (`Aborted`, `Failed`, `Done`).
In `MpiOperator` a waiting rank spins (`Wait`),
so a deadlock is a violation of `AllRanksEnd`. In `meshes`, `lost_top` and `blocks` a sequence of
calls that a user makes ends at its bound, so these say `CHECK_DEADLOCK FALSE`.

**Fairness** is `WF_vars(Step)`: the operator is a sequential program, and as
long as its process lives it goes on to its next step. `Step` includes hooks,
loops, the end of a copy, error handling and exit; it excludes faults, kills and
restarts, which nothing obliges to happen. It assumes that a hook returns.
`MpiOperator` has the same for each rank, and for the collectives that all ranks
complete together; a hook makes finitely many calls. The other modules are
sequences of calls that a program may make and state no liveness.

### Where the code and its documents disagree

1. **`burnup_window`** – with `tolerateBurnupChange`, `_checkBurnupThresholds` stores
   a group's burnup as that of its cross sections before it is decided whether any
   are generated. In a coupled run nothing is generated at the node, and in the
   coupled iteration the burnup then looks unchanged: the flux is solved with
   cross sections from outside the tolerance.
2. **`lost_top`** – the generator of the uniform mesh makes the top of the core an
   anchor only if fuel or absorber ends there. If they end closer to it than
   `uniformMeshMinimumSize` the top is filtered out, the uniform assemblies are
   short, and mapping back raises what the code calls a major bug.

### Seen while modelling, outside what the runs express

Operator and database:

* `DatabaseInterface.interactEOL` closes the file as successful before the EOL
  hooks of the interfaces after it have run; if one raises, the failed run's file
  keeps `successfulCompletion = True` (cf. `tests/test_databaseInterface.py:416`
  under `bookkeeping/db`).
* `mergeHistory` stops at the group of the start node only
  (`database.py:502`, `:518`). If the restart lengthened a cycle, all later
  history of the old file is copied, against its docstring ("up to, but not including
  the passed cycle and node"), and the run fails when it reaches a node that is already
  there. `NoGap` in §4 keeps this out.
* The BOC keff lives in an attribute of the global flux interface
  (`globalFluxInterface.py:107`) that a restart does not restore, so the last node
  of a cycle restarted in its middle has no reactivity swing.
* `src/doc/user/inputs.rst` describes negative `startNode` values, which the
  schema (`settings/fwSettings/globalSettings.py`, minimum 0) rejects.
* Interfaces named in `deferredInterfaceNames` never get a BOL interaction, even
  once their cycle has come.
* `safeMove` waits 6000 s where its comment says one minute, and returns `None`
  when it gives up; `Database.close` then uses the path it had. When the first
  copy fails the file is closed and `interactError` cannot write to it.
* `halt = halt or interactMethod()` means that a truthy return of any hook, at
  any interaction point, silences the hooks of the interfaces after it.
* `tightCouplingMaxNumIters = 0` leaves `converged` unbound.
* The pattern that recognises statepoint groups takes exactly two digits
  (`database.py:123`), the writer at least two: cycle 100 is saved and never found.
* `interactError` after an `"error"` group was merged from an earlier run fails
  and its failure is swallowed, so the file is not closed there.

Parallel runs:

* The primary broadcasts "finished" to "wait until they're done cleaning up", but
  the root of a broadcast does not wait: it may close, concatenate and delete all
  logs while workers are still in an action (`operatorMPI.py:86`).
* After `DistributeStateAction` a worker's interface stack is in another order than
  the primary's, because what is received or renewed is appended while what is
  skipped stays (`mpiActions.py:687`–`:713`).
* A `TypeError` raised on the primary after the last broadcast of a distribution
  sends the workers two "quit"s, so "finished" finds nobody; with an MPI whose
  broadcasts wait for the receivers this run would hang (`mpiActions.py:579`).
* A worker whose action fails is never waited for: the other ranks are only
  released by `MPI_COMM.Abort` in `__main__`, so a parallel run started from a
  script, without `main`, may hang where the model ends.

Shuffles:

* With `trackAssems` False, the default, a discharged assembly has no parent and
  reads as being in the load queue. The report says that it moved to `LoadQueue`;
  the repeating run looks for moves to `SFP` or `Delete`, finds no discharge, and
  silently loads no fresh assembly (`fuelHandlers.py:1539`). `RepeatsExactly` is
  checked with `trackAssems` True.
* A shuffle in which an assembly comes from the pool that never ran in the core
  cannot be repeated (`NeverRan`, excepted in `RepeatsExactly`): `outage` updates
  the histories before it takes the identifying place from them, so the report
  names the place of the move itself, where nobody is found in the repeat; if
  there is no place at all, `readMoves` cannot parse the line.
* `extraRotations` listed before a cascade through the same location (excepted in
  `FailsForCause`): the rotation is kept as a move from the location to itself and
  found first when the chain is tracked, so the run fails, where
  `src/doc/user/inputs.rst` says that rotations apply after all cascades.
* `src/doc/user/inputs.rst` says that `Delete` always removes the assembly from the
  model; with `trackAssems` True it goes to the pool.
* Rotations are not in the report. Moves made at cycle 0 are, but are not repeated,
  and a restarted run reports only its own moves.
* Assembly types with characters that `readMoves` does not expect (an underscore,
  say) make a report unreadable.

Retained states and synchronisation (the model's programs keep to
`ChangesOutside = FALSE` and `SyncsKept = FALSE`, so the first two do not occur):

* An assignment to a sibling outside the retained tree loses its flag at exit,
  because definitions are shared, and is not synchronised.
* A synchronisation within a retainer that keeps parameters, followed by setting
  the value back, loses the update.
* `StructuredGrid.backUp` has one slot (`structuredGrid.py:283`), so nested retainers
  restore a grid to the inner state; a child added within a retainer has no
  back-up; a parameter kept at exit that is a dimension leaves a stale area.
* A link between dimensions that is overwritten within a retained state is lost
  at exit; `derivedMustUpdate` is not backed up.
* `rotate` changes `p.orientation[2]` in place, which sets no flag, so that the
  rotation is not synchronised.

Symmetry conversions (constants of `CoreGeometry` keep these out of the run):

* If a stationary block is exchanged with the centre cell's, the values of both are
  scaled wrongly (`fuelHandlers.py:871`; `PlatesAtCentre`); a discharged centre
  assembly keeps the values of a third (`DischargeCentre`).
* A parameter assigned for the first time in a temporary full core is not scaled
  down afterwards (`FirstSolvedFull`).
* `convert` raises `IndexError` (`geometryConverters.py:1150`) when an assembly
  outside the centre has been at the centre; the model has it as `ConvertFails`.
* An exception in a solve leaves the edge assemblies in the core (`SolveFails`).
* Without cells on the lower line, `addEdgeAssemblies` still clears the flags of
  assignments (`geometryConverters.py:1223`), but `removeEdgeAssemblies` sets them again
  only if it finds edge assemblies (`:1259`): what a solve in between does not assign
  is not scaled at the centre by a later conversion. `SharesAreRight` fails for such a
  core, and the theorem asks for an edge cell (`FirstEdgeIsFilled`).
* `restorePreviousGeometry` does nothing if nothing was added (`:1124`): a core that is
  its centre alone stays full.
* The copies of a full core count one more move than their original.

Cross sections:

* In a cycle of `cyclesSkipTightCouplingInteraction` the library is kept at a node as if
  coupled iterations would follow (`latticePhysicsInterface.py:201`), and
  `LibraryIsFresh` fails; the runs have no such cycle, and the theorem excludes it.
* With a tolerance above 0, a group that disappears, and comes back with a burnup within
  the tolerance of the recorded one, is in the record (`_oldXsIdsAndBurnup` forgets
  nothing) but not in the library that was regenerated without it: nothing is
  generated and its blocks have no cross sections. `EveryBlockIsCovered` fails so
  in the instance of `xs_groups` with `Tolerance = 1`; hence `AlwaysGenerated` in §4.
* With the frequency BOL, fuel that is in the blueprints only, of a type that structure
  in the core already has, is not "missing" (`_getMissingBlueprintBlocks` compares
  group IDs), so it has no cross sections when it is loaded later; hence
  `FuelIsLoaded` in §4.
* With a tolerance an update regenerates all groups but records the burnups of
  those that changed only.
* With `runLatticePhysicsBeforeShuffling` the library of the core before
  the shuffle is used after it, unless a group is missing.

Statepoints:

* A load raises the global serial number to the highest one in the statepoint, not
  in the file (`database.py:743`, "so we don't reuse a number"). With `trackAssems`
  False and a pool that is not empty at first, a new assembly may be written,
  then be deleted in exchange for an older one of the pool: its number is in
  earlier groups only, and is given again after a restart if it exceeds the number of
  objects that the restarted process makes. `SerialsAreUnique` is
  checked with `trackAssems` True, or False and an empty pool, where it holds.
* Unsigned integers store `None` as one value and read another as `None`
  (`layout.py`, `NONE_MAP` and `replaceNonsenseWithNones`); a NaN in a column with a
  `None`, and an empty array in a jagged column, read back as `None`; a scalar among
  arrays reads back as an array of one.
* Assemblies of the pool are not in `assembliesByName` after a load, and their
  places in the pool may be others, as its number of columns is recomputed.

Expansion and meshes:

* Applying results in place calls `Core.add` on assemblies whose last location is
  not "the database": charge time and cycle are set anew and `numMoves` grows at
  each solve.
* The first cell of a generated mesh is not tested against the minimum size
  (`uniformMesh.py:134`); fuel or absorber that starts at the bottom puts 0.0 in the mesh
  (`ValueError`); a fuel column shorter than the minimum size is an error (`ConvertFails`).
* An expansion that raises leaves the assembly half expanded (`ExpandFails`).
* Peaks are mapped starting from 0.0, so negative ones are lost. The top block is
  chopped when it is not a dummy block, and its mass with it.

Blocks:

* `clearLinkedCache` clears direct dependents only (`component.py:1005`): with a chain
  of links a ← b ← c, the volume of c is stale. `setLink` clears nothing.
* A component removed while others are linked to it leaves their volumes stale.
* Dissolving a component whose multiplicity the solvent is linked to makes
  `restablishLinks` link the solvent to itself.
* `mergeNuclidesInto` sets one nuclide after the other with an area taken once: a
  solvent whose expansion depends on composition gets wrong amounts.
* The block's area is cached under one key whether cold or hot dimensions were asked.
* `Component.setMass`, `addMass` and `setMasses` use the whole volume where `getMass`
  divides by the symmetry factor (`composites.py:2048`).
* `createHomogenizedCopy` takes the pitch the duct had when it was added.
* Assemblies made during a run are not sorted, while a load sorts the whole tree
  (`database.py:748`), which reassigns pin indices without moving pin data along.

## 4. What is proved

A theorem holds for every value of the constants that satisfies the assumptions of its
module, and its own hypotheses where it has any; each hypothesis below says what it
keeps out and why the code does not promise more. The proofs have one shape: an
invariant that every action keeps, in named parts that TLC checked first, with a lemma
per action or per part, and a last step that goes from actions to behaviours.

### Operator (`OperatorProofs`)

Assumptions: `PlanAssumption` (a non-empty set of plans, a positive number of cycles,
natural step lengths and outages), `StackAssumption` (positions are distinct, the named
interfaces are in the stack, the database is neither disabled nor deferred) and
`SettingAssumption` (at least one coupled iteration allowed; the bounds are natural
numbers).

* **`TypeCorrect`**: `Spec => []TypeOK`. `TypeOK` is inductive as it stands because it
  has, besides types, where the loop can be (`InPlan`: during a cycle the reactor is in
  a cycle of the plan and at one of its nodes; `LoopOK`: only BOC is halted, hooks are
  pending only at an interaction point). Without `InPlan`, `LeaveNode` could leave the
  domain of the step lengths. `TypeInvariant` is the same without fairness.
* **`FuelShuffledOncePerCycle`**: `FuelIsManaged => (Spec => []ShuffledOncePerCycle)`,
  where `FuelIsManaged` says that the fuel handler is neither disabled nor deferred.
  `ShuffledOncePerCycle` talks about files only; the invariant adds
  `ShufflesMatchCycle`, which ties the shuffles of the reactor in memory to its cycle at
  each place of the loop, with the one exception that makes restarts hard: at BOC,
  before the fuel handler's hook, the shuffle of the cycle is missing unless the cycle
  is *resumed*.
* **`PhysicsIsCurrent`** (`SolvedAtNode`) and **`NodesAreSaved`** (`LeftNodesAreSaved`),
  for stacks in which the database comes after the physics (`DatabaseIsLast`:
  `STACK_ORDER` ends with bookkeeping). `SolvingInvariant` says for each hook what
  the stamps of the interfaces before and after it are (`SolvesMatch`), and
  that a node about to be left is in the file as it is in memory (`WrittenAsLeft`).
* **`HistoriesHaveNoGaps`**, **`OnlyFaultsFail`** (`OnlyFaultsFailARun`),
  **`MergeStopsAtStart`** (what a restart takes over ends before the node it starts at;
  `HistoryStopsAtStart`, in no run), **`SuccessIsComplete`** (`SuccessMeansComplete`) and
  **`CopyIsCurrent`** (`CopyKeepsUp`, if copies do not fail). All rest on
  `HistoryInvariant`: a file with a statepoint has all nodes of its plan before it
  (`FilesHold`), and the file of the run has exactly the nodes before the present
  place of the loop (`PlacesHold`, with a case for a resting, restarting, cycling and
  ending run). The hypothesis `NoGap` says of plans and restart points that a restart
  accepted by the comparison of histories starts at a node that the earlier plan had,
  or after all of them; without it `mergeHistory` never meets its end (§3).
* **`RunsSaveATimeline`** (`SavesATimeline`): the operator implements `Timeline`, for a
  case that keeps its plan (`OnePlan`) and manages its fuel. Initial states map to
  initial states, and every step to a step of `Timeline` or a stutter.
  `TimelineInvariant` adds to the invariants above that saved times are sums of
  lengths and outages (`FilesTimed`), that the copy is a part of the history that the
  file had (`CopyIsPart`), and what the clock is at each place of the loop
  (`ClockRuns`).

### Parallel run (`MpiProofs`)

Any number of workers, of interfaces of any kind in the stack, of hooks and calls, no
hypothesis: **`MpiTypesHold`**, **`HooksStartClean`** (`NoStateIsCarriedOver`),
**`StateIsSentWhole`** (`StateIsWhole`), **`CollectivesMatch`** (`RanksAgree`). The
invariant that types lack is how far a worker may be behind the primary.
`StepInvariant` says it with *views*: a rank's place in the protocol with what
it has of the state. For each worker there is a view `v` that the worker is at
(`WorkerSees`), a view `u` that the primary is at (`PrimarySees`), and the
messages in the worker's inbox lead from `v` to `u` (`Leads`), each message being what
the view before it waits for. A failed rank ends the protocol; what the others still do is
bounded by what they were sent before.

### Shuffles (`ShuffleProofs`)

Assumption: `CoreAssumption` (initial assemblies are distinct and numbered below
`BlueprintMade`; locations have other names than the places outside of the core).

* **`LocationsCorrespond`**, **`StationaryBlocksStay`**: `PlacesAgree` and
  `PlatesStay` are inductive together with the types of places: a swap needs
  that both assemblies are where the index says, a discharge that the incoming
  one is not in the core, a new assembly that its number is unused.
* **`HistoryFindsAssemblies`**: `FoundByHistory`. The invariant `IInv` adds
  `HistoryTypes` (histories are no longer than the cycles begun, but for the
  entry that the blueprints make), `NoPastYet` (an unused number is in no history)
  and `PastIsTold` (an assembly of the model was at a location in a cycle if and
  only if its history says so). The step that matters is `EndOutageKeeps`: the
  histories are cut or padded to the cycle and get the present place.
* **`ShufflesAreTyped`**: `TypeOK`, from the same invariant.

### Statepoints (`StatepointProofs`)

Assumptions of `Statepoints`: a finite, non-empty set of cells, a natural number of
blocks per assembly, pools of a natural size. The cells, blocks, time nodes, moves and
restarts are any number, so a history passes through any sequence of shuffles, writes
and loads.

* **`NamesAreFound`** (`NamesFindAssemblies`), no hypothesis. `NamesInv` says more than
  names: the core is full, each group of the file is the statepoint of the reactor as
  it was (`FileInv`), and numbers are below the counter that a load restores
  (`TreeInv`). A move is a map from the places after it to those before
  (`Follows`); that numbers stay distinct is one lemma for all moves.
* **`SerialsStayUnique`** (`SerialsAreUnique`) if `PoolsAreTracked`: a case that deletes
  what it discharges starts with an empty pool. Without it the code does give a
  number again (§3). Under it the newest object that any statepoint has is still in
  all later ones (`Outlives`), so the counter that a load recomputes from one
  statepoint is above all that the file keeps up to it; `SerialsInv`.
* **`RestartsLoadWhatWasWritten`** (`LoadsWhatWasWritten`) if `ValuesOfOneKind`: the
  solver gives a parameter numbers only or arrays only, no NaN and no empty
  array, each of which reads back as something else (§3). The argument has three parts.
  Which row of the layout is which: `LayoutRows`, and `EveryRow` for the converse.
  Composing: `ForestExists` shows that the recursion of `_compose` is a
  function, by the least row where it would not be, and `ComposeLayout` follows it through
  the rows. Packing: `Holding` is the invariant of the loop that makes a jagged
  array: each value so far is at its offset, and the index among those stored is its index
  less the `None`s before it.
* **`HistoriesStayRight`** (`HistoriesAreRight`) if `PoolsAreTracked`. `ToldApart` puts
  the invariants together with `ApartInv` (an object is at one place): a serial number finds
  one row of a statepoint, a location one row below the core. The latter rests on the walk
  of `computeAncestors`, whose stack at each row is known exactly (`StackIs`): at most
  the reactor, the core or pool, and an assembly are open, with what is left of each, and
  the parent of a row follows (`ParentIs`).

`NamesInv`, `SerialsInv`, `ApartInv` and that values are the solver's (`SolvedInv`) were
invariants of the run `statepoints` before they were proved.

### Retained states (`RetainerProofs`)

Any number of ranks, blocks and parameters, retainers nested to any depth.

* **`ValuesAreRestored`** (`RestoresValues`), no hypothesis. `RestoreInvariant` relates
  the chains of back-ups, one per object, pushed and popped by each `with` block
  that contains it, to the ghost `entered`, one snapshot per open `with` block: the
  element of a chain that belongs to a level is that level's snapshot (`Mirrored`), and a
  flag tells of each assignment since (`FlagTells`).
* **`AreaStaysCurrent`** (`AreaIsCurrent`) if no dimension is kept at exit
  (`NoDimensionIsKept`). The code restores the cached area with the values (see
  §3); every snapshot must have an area that fits it.
* **`RanksStayAgreed`** (`RanksAgree`) and **`UpdatesArrive`** (`NoUpdateIsLost`) for
  programs that are `Disciplined`: nothing outside a retained tree is assigned in the
  `with` block, and nothing is synchronised while a retainer that keeps parameters is
  open. §3 has what goes wrong otherwise. The invariant says that assignments since the last
  synchronisation are marked (`Marked`), and that unmarked values agree (`Agreed`), of
  the present state and of every snapshot still to be restored.

### Hexagonal grid and symmetry conversions (`GeometryProofs`)

Theorems for every cell of an unbounded grid, with no assumption:

* **`ThreeTurns`**, **`TwoSixthsAreATurn`**: symmetric images are orbits of the same
  rotation that `rotateIndex` does.
* **`CellsAreFoundByPosition`**: ring and position find the cell they came from; the
  lemmas say on which of six edges a cell is and that the quotient and remainder of its
  position are edge and offset.
* **`OneOfThreeIsModelled`**, **`EdgesAreLines`**: `isInFirstThird` is arithmetic on ring
  and position with a case for odd rings; the lemma `ThirdsAreSectors` shows that it is
  a sector between two lines, from which follow that a third has exactly one of three
  images, that its edges are on the symmetry lines, and that one edge is the image of the
  other. Conversions to a full core and edge assemblies rest on these.

Theorems about a core of any finite set of cells of a third, with its centre
(`GeometryAssumption`; `Unit`, the amount in a whole block, is a multiple of 36 so that
shares are whole):

* **`AreasAreCurrent`** (`AreaIsCurrent`), **`HistoriesAreFollowed`** (`HistoriesFollow`),
  **`ConversionsUndo`** (`ConversionsAreUndone`), with no hypothesis: whatever is
  shuffled, converted, solved and undone, cached areas fit the symmetry factor, a copy has
  the image of its original's history, and undoing a conversion gives the core from
  before with the solve's results.
* **`PlatesStay`** (`StationaryStays`), if no stationary block is exchanged with the
  centre cell's (`~PlatesAtCentre`), and **`SharesAreKept`** (`SharesAreRight`), if also
  the assembly at the centre is not discharged and nothing is solved for the first time
  in a temporary full core (`~DischargeCentre`, `~FirstSolvedFull`): these are the
  faults of §3. A last hypothesis, `FirstEdgeIsFilled`, says that there are edge cells,
  the first of the upper edge (`UpperEdge`) among them: without any, the flags are not
  set again (§3), and the code takes cells on the lower line for halves only if it
  finds an assembly at that first cell.

The invariant has a part for which cells hold an assembly in each phase of a
conversion (`CellsHold`, `Phase`), and one each for caches, histories,
masses, powers, shares and the stored original. A lemma per action says once what it
makes of a cell.

### Cross sections (`XsProofs`)

* **`BlocksAreCovered`** (`EveryBlockIsCovered`) and **`LibrariesAreFresh`**
  (`LibraryIsFresh`), for any cores, blueprints, cycles and coupled iterations, and every
  `latticePhysicsFrequency` but *never*. Both need `AlwaysGenerated`: cross sections are
  generated, from the first cycle on and whatever the burnup. Otherwise finding 1 and the
  observations of §3 apply. Covering needs, for the frequency BOL only, that fuel
  of a type which the core has from the beginning is not in the blueprints only
  (`FuelIsLoaded`); freshness that no cycle skips coupling (`SkipTight = {}`).
  The invariant follows a representative block and its library through the hooks of a
  statepoint: whose turn it is (`HooksHold`), when groups, library and file were made
  (`TimesHold`), and which blocks they cover (`CoverHolds`).

### Axial meshes (`MeshProofs`)

Assumptions: `LoadingAssumption` (a core has finitely many places; assemblies as built
are stacks of at least two blocks of a positive height, those below the top have a
target component, masses are natural numbers and no block tracks a mesh point yet),
`SnapAssumption` (without
detailed axial expansion every top lies on the reference mesh; `makeAxialSnapList`
raises otherwise) and `RatesAssumption` (a solver finds no negative power). The number
of places and blocks, the expansions and the sizes are any.

* **`TablesAreRight`** (`TablesFollow`), no hypothesis: `assembliesByName` and
  `blocksByName` name what is in the core, uniform in place or not.
  `NamesHold` says of every place what its names stand for; that blocks of a name
  are removed before new ones are added matters when the uniform assembly has fewer.
* **`AssembliesAreKept`**: `Shaped` and `NamesHold`. A conversion puts aside as many
  assemblies as it replaces, and the way back finds each by its name: names of places
  are distinct, so the `CHOOSE` in `ApplyInPlace` has one candidate.
* **`HeightsAreKept`** (`BlocksFill`), if assemblies are built to one height
  (`EqualHeights`). The requirements document asks for it (`reactors_reqs.rst:222`: "Many
  physics solvers require that the total height of each assembly in the core is
  consistent"), no code enforces it, and a uniform assembly on the reference mesh has
  the reference's height. The proof goes along the loop of
  `axiallyExpandAssembly`: when the blocks up to the i-th are aligned they are stacked,
  and the target component of the next block starts where the i-th ends
  (`AlignedBelowTop`, `AlignedAtTop`). That is what `MovesWith` is for, and its mutant
  breaks. The loop is a recursive function, which exists by `StepsExist`.
* **`AtomsFollowMeshes`** and **`AtomsStay`** (`AtomsAreKept`), if `EqualHeights`, in the
  states where `DensitiesAreWhole`. Masses are integers, and what a uniform block gets
  of a block is its share of that block's height: `DensitiesAreWhole` says that a block's
  mass is a multiple of its height, so that no share is rounded. It holds in every state of the
  run `meshes`; the code divides floating-point numbers. `AtomsStay` also says that a
  uniform assembly ends where its assembly does, and needs that there is no
  minimum size (`MinimumSizes = {NoSize}`, the default of `uniformMeshMinimumSize`): finding
  2 is what happens otherwise. `AtomsFollowMeshes` is for every size. What `FromOverlaps`
  gives between two elevations is the difference of what lies below each
  (`BetweenElevations`), and the sum over a uniform stack telescopes (`Telescoped`).
  The invariant `MeshHolds` says of which assembly each uniform one was computed, which is
  still in the core or the storage as it was (`Copied`, `StandingIn`), and that what a
  solve found is not negative (`Rated`). That the recursion of `_filterMesh` is a function
  (`FilterExists`) and which points it leaves is shown by induction on the
  length of the list.
* **`ResultsReturn`** (`ResultsComeBack`), if `EqualHeights`, in behaviours where
  `EmptyBlocksIdle`: no block of height 0 has power when a uniform core is left.
  `setAssemblyStateFromOverlaps` skips such a block, which keeps what it had and not what was
  found; expansion may make one, and in the run `meshes` none has power. The
  power mapped back to the blocks of an assembly adds up to that of its uniform one, as
  parts of uniform blocks between two tops telescope in the other direction.
* **`MassStays`** (`ExpansionKeepsMass`), if `PlainChains`: in each assembly as built that
  expansion is meant for, linked components are of one material, and the dummy block on
  top has no solid. `radial_and_axial_expansion.rst` says both: the first under "Mass
  Redistribution Between Like Materials" (otherwise mass is removed, with a warning), the
  second under "Mass Conservation". In the run `meshes` the fuel and the control assembly
  are meant for expansion and satisfy them. The changes asked for, what was snapped, and the solves
  before are any. Along the loop of `axiallyExpandAssembly`, `KeptSoFar` says that the
  blocks done are stacked with each component as high as its block and the chains'
  masses what they were: mass cut off one block goes to the component above it
  (`MassMoved`), and that the next block does not vanish, which the code checks, bounds the
  part that is cut off. The invariant it needs, `StillWhole`, says that an assembly that was not expanded
  yet has the masses, materials and flags it was built with, and blocks on its own mesh or on
  that of the reference. None of those has height 0, and the code divides by heights;
  an assembly that has expanded may have such a block, but expands once only.

### Only model-checked

* `RunsEnd` and `AllRanksEnd` (liveness: fairness and `ENABLED`).
* `SequenceApplied`, `FailsForCause` and `RepeatsExactly` of the shuffles: they say what
  a whole program of calls comes to, which is made of chains found in lists of any
  length. An invariant would have to tell, between any two calls, what the rest of the
  program is going to do; none was found that is simpler than the program.
* `VolumesAreCurrent` and `MolesAreRight` of `BlockVolumes`, which are computed by
  `RECURSIVE` operators.

The type invariants of the operator, the parallel run and the shuffles are in no run:
they are proved.

## 5. What is abstracted

* Solves, thermal feedback and depletion are stamps. Step times are exact
  integers; the code's floating-point sums are not modelled.
* A move of the file at close is atomic and succeeds; a copy may fail before it
  starts, be cut short, or be torn by a kill.
* Restart points lie in the plan. The settings do not check this; the code does
  not say what should happen otherwise.
* The interface stack does not change during a run; snapshots
  (`operators/snapshots.py`) and `loadStyle` other than `fromInput` and `fromDB`
  are left out.
* In `Shuffle`, user logic begins at cycle 1, as YAML sequences must, calls the
  handler with assemblies that are where they should be, and does not undo its
  own bookkeeping. Files are well formed; a sequence has an entry for every cycle.
  Every assembly has one stationary block at the same height, so the checks of
  `_transferStationaryBlocks` pass. The search for assemblies by parameters
  (`findAssembly`) and the rotation algorithms are left out.
* A restart uses the file in the working directory, renamed, as
  `reloadDBName`; a run never restarts from the fast path of another process.
* `StateRetainer`: a `with` block that is left by an exception is left as any
  other. Nothing in `src/armi` outside of tests retains a state and synchronises in
  it; the model allows it.
* `CoreGeometry`: one fuel block and one plate per assembly, two integrated
  parameters, one of which a solve assigns. The axial index plays no part.
* `XsGroups`: average burnups have equal weights; files named after cycle and node
  are not told apart; a library of an earlier case is external.
* `Statepoints`: the histories' own addition of the current node, and
  components below blocks, are left out.
* `AxialMeshes`: components are linked if they have one shape; masses are integers;
  a block's cross-section type in the uniform assembly, submeshes, temperatures and
  reaction rates are left out; an assembly expands at most once.
* `BlockVolumes`: a cross section is the square of its diameter; expansion is a whole
  factor; solids never overlap or vanish (the code raises); solutes are merged only into
  solvents whose expansion does not depend on composition, and only components that
  nobody is linked to are removed, never the duct; after a merge a block is only
  read or merged again; the least inner diameter that a caller may give the solvent
  (`minID`, `blockConverters.py:107-109`) is its default, 0.

### Not modelled, and why

The map covers about a tenth of the lines of ARMI. Of the rest:

* plots, tables, reports, the grid editor, the command line and logging produce
  output and change nothing;
* settings, blueprints and input parsing build the state that the models start
  from, in one pass, and fail at once;
* nuclide data, material properties and the readers and writers of nuclear data
  formats (ISOTXS, DIF3D, COMPXS, …) are tables and record layouts: their mistakes
  are single formulas, which the repository's tests compare with reference values;
* hexagonal to RZT conversion, Cartesian and theta-RZ grids, and case suites are
  arithmetic or loops over independent items;
* snapshots and the history tracker use the operator and histories
  that are modelled, in a straight line;
* the choice of a rotation and what it does to pin data is arithmetic on
  floating-point results; `HexGrid` has the rotation of indices.

## 6. Plan

What is left, most important first:

1. `ShuffleProperties`: the parts of `RepeatsExactly` that are not about lists of any
   length (which moves are reported, where the repeat looks).
2. `BlockVolumes`: `VolumesAreCurrent`, once its recursive operators are recursive
   functions.
