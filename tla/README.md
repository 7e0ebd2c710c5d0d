# G4OCCT in TLA+

A verification project for G4OCCT, the library that lets Geant4, TGeo and
DD4hep navigate shapes kept by OpenCASCADE (OCCT). The modules model the code
under `src/src` and `src/include`; OCCT, Geant4 and ROOT are outside and appear
only through what the code gets from them.

Run a check with `tlc -config <run>.cfg <module>` and a proof with
`tlapm <module>Proofs.tla`. `PROJECT.json` lists the runs, the source lines each
definition models, the hazards, the mutants that show each property can fail,
and the theorems.

## 1. Inventory

| Component | State | Operations | What is hard |
|---|---|---|---|
| **Solid kernel** `G4OCCTSolidKernel` | `fShape`; bounds, face cache, triangle set, deflections, initial spheres derived from it; `fShapeGeneration`; volume and area under a mutex; surface tessellation under a mutex and a condition variable | constructor, `SetShape`, point and ray queries, `GetPointOnSurface`, `GetCubicVolume`, `GetSurfaceArea` | worker threads query one kernel; caches are filled lazily and invalidated by a generation; `SetShape` is several steps and may throw half-way |
| **Per-thread caches** | classifier, intersectors, inscribed spheres, each with the generation it was made for | reloaded by the query that finds the tag stale | generation, data and tag are read and written in separate steps |
| **Geant4 adapter** `G4OCCTSolid` | the kernel, thread-local caches, a display mesh with its own mutex, flag, stamp | forwards queries; `CreatePolyhedron`; `SetOCCTShape` | the wait predicate reads a stamp that `SetOCCTShape` changes silently |
| **TGeo adapter** `TGeoOCCTSolid`, `TGeoOCCTSolidBridge` | the kernel, thread-local caches by key, display mesh with a stamp, display helper with a stamp | the TGeo query interface in cm, `DisplayMesh`, drawing, `SetOCCTShape` | a mesh is converted from a reference read without a lock and stamped with an older generation |
| **Assembly import** `G4OCCTAssemblyVolume` | label-to-volume memo with recentring offsets, names given, volumes by name, placements | `FromSTEP`, `ApplySDMap` | recursion over shared prototypes; names that collide with numbered ones; failure half-way |
| **Registry** `G4OCCTAssemblyRegistry` | assemblies by name, owned | `Register`, `Get`, `Release` | ownership across DD4hep's phases |
| **Maps** for materials and sensitive detectors, and their XML readers | materials by key, rules in order | `Add`, `Resolve`, `Merge`, reading in two passes | the last file wins a key, the first rule wins a volume; refusals |
| **DD4hep plugins** | none of their own | build detector elements, convert solids, attach sensitive detectors | order of the parse and the construction phases; failures between them |
| **g4occt application** | files to load in order of the command line and the macro, world, ntuples, counters per event and track | options, `/load`, `/world`, `/output` commands, `Construct`, user actions | errors before, while and after building; counters that reset at different moments |
| **step2dd4hep** | parts found, materials already mapped | writes a material map and a compact file, reads the filled map back | escaping must survive the round trip |

How they interact: an adapter owns one kernel and passes a thread's caches into
each query. Query threads share the kernel without a lock, except for the
tessellation and the volume and area. Only the owner of the geometry calls
`SetOCCTShape`, and `G4OCCTSolid.hh` forbids doing so while a simulation runs. The
import creates adapters and logical volumes; the plugins and the application
use the import.

What makes the components correct:

* kernel and caches: nobody uses data of another shape than the one its
  generation stands for; the tessellation is built once and nobody waits for
  ever; a bound is never larger than the distance it bounds; pruning never
  changes an answer; a cached "inside" is inside, or off by no more than the deflections explain.
* adapters: the same for the display mesh.
* import, registry, maps: each part is placed once per occurrence under a name of
  its own, with the material and the detector the first matching rule gives;
  nothing is leaked or freed twice.
* g4occt: the last declaration of a key counts, whatever the order of the files; it
  dies only for a reason; the rows of steps, tracks and events agree.
* step2dd4hep: what the user fills in is kept by the next run, and a job finds every material it asks for.

The hazards, each with its line and the properties that watch it, are in
`PROJECT.json`.

## 2. Modules

| Module | Models | Extends |
|---|---|---|
| `KernelShape` | `SetShape` step by step, and what else is true of the kernel's shape | |
| `SurfaceCache` | `GetOrBuildSurfaceCache` | `KernelShape` |
| `SingleFlight` | the abstract promise of the surface cache | |
| `KernelCaches` | the caches owned by threads; volume and area | `KernelShape` |
| `PolyhedronCache` | `CreatePolyhedron`, `SetOCCTShape` | `KernelShape` |
| `SphereCache` | inscribed spheres and the `kInside` fast path | |
| `FaceDistance` | `SurfaceNormal`, safeties, exact distances, the pruned scan | |
| `TGeoDisplay` | `DisplayMesh`, `EnsureDisplayHelper`, `SetOCCTShape` of the TGeo adapter | `SurfaceCache` |
| `RayQuery` | `ClassifyPoint` and the directed distances | |
| `DetectorMaps` | material and sensitive-detector maps, their readers | |
| `AssemblyImport` | `FromSTEP`, `ImportLabel`, `ApplySDMap` | `DetectorMaps` |
| `DetectorProcess` | what the programs share: phase, fault, material table | `AssemblyImport` |
| `ScoringActions` | the user actions and the output commands | |
| `G4OCCTApp` | the application: command line, macro, `Construct` | `DetectorProcess`, `ScoringActions` |
| `DD4hepPlugin` | the plugins, the registry, the converter, a job that uses them | `DetectorProcess` |
| `Step2DD4hep` | the tool, its files, the job started from them | `DD4hepPlugin` |
| `DetectorSession` | the composition of these programs | `G4OCCTApp`, `Step2DD4hep` |
| `MC...` | the instances TLC checks | each its module |
| `...Proofs` | theorems and proofs | each its module and `TLAPS`; `ClassifyPointProofs` extends `SphereCache` and `RayQuery` |
| `SequenceFolds` | what a fold of any operator computes, proved once and instantiated | `TLAPS` |

### KernelShape

A shape is the number of the `SetShape` call that installed it. `shape` is
`fShape`; `derived` is the shape that bounds, face cache, triangles and spheres
describe; `gen` is `fShapeGeneration`; `setter` is where the thread inside
`SetShape` is: replace `fShape`, `ComputeBounds` (or its exception), reset volume
and area, reset the tessellation, publish the generation, return to the adapter.
One thread at a time is in `SetShape`, as the callers require. `Overlap` says
whether queries may run meanwhile: `FALSE` is the documented use; `TRUE` asks what
the generations and mutexes give by themselves. `Settled` means that no `SetShape`
is under way and the last one succeeded.

While `ComputeBounds` is at work (`HalfDerived`) another thread may read half of its
results, and faces of the new shape that are not meshed yet. Reading a C++
object while another thread writes it is undefined; the outcomes modelled are
old data, new data, or data that describe neither.

### SurfaceCache

`cache`, `cacheGen`, `building` are `fSurfaceCache`, its stamp and its flag; `pc`,
`myGen`, `built` the locals of each call. A critical section is one step, together
with the `notify_all` after it. Outside the mutex and hence steps of their own:
loading the generation, meshing, collecting the triangles, the dereference after
the unlock, and the use of the reference (`GetPointOnSurface`, of which the random
choice of a triangle is left out). `Enter` and `Recheck` differ as in the code: before sleeping the
flag is tested first, after waking the payload. `BuildThrows` is the `catch (...)`.
Spurious wake-ups are included.

`SingleFlight` says the same to callers: a table filled once per version by one
caller at a time and answered only for the current version. `SurfaceCache`
implements it (property `ImplementsSingleFlight`): the table is the payload while
it belongs to the shape held, the builder is the thread that set the flag. The mapping
needs no auxiliary variable.

### KernelCaches

For each thread and kind of cache `tag` and `loaded`; a query loads the generation,
compares, loads, tags, uses. The three `GetOrCreate...` functions have the same
shape, so one set of actions stands for them; they differ in their source: the
classifier reads `fShape`, the others what `ComputeBounds` derived. `LoadThrows` is
an OCCT exception half-way through a load. The volume and the area are one
`measure` under `fVolumeAreaMutex`, held while it is integrated.

### PolyhedronCache

As `SurfaceCache`, with the differences of `CreatePolyhedron`: the wait has a
predicate; a null mesh (no facets) is not kept; the stamp is compared with the
kernel's generation before the store; the flag is nobody else's; callers own a
copy. The history variable `began` is the newest shape whose `SetShape()` was over when the
call began (`Concluded`), whether it had succeeded or thrown. It is a shape and not a
generation, since a failed `SetShape()` lets the two drift apart. `SetOCCTShape` runs the kernel's `SetShape`, then discards mesh and stamp
without notifying.

### SphereCache

One thread's spheres. Space is a finite set of points with a distance that obeys
the triangle inequality; a shape is the set of its interior points, its box and its faces, each with
its surface, its plane, its triangles and the deflection the code ascribes to it. No sphere is
assumed inscribed: the radius is what the code computes and stores unchecked, the
least distance to a plane, the distance to the nearest triangle less the deflection of its face, or the exact
distance, in the order of `DistanceToOut()` and `ComputeInitialSpheres()`. Geometry promises only that the way out of
the solid meets a face, that a planar face lies in its plane, and that a face's triangles keep to its
deflection. `FastPathSound` therefore says how wrong `kInside` can be: by the difference of two faces'
deflections, and not at all where they agree. It asks that the mesher has given up on all faces or on none
(`Meshed`): a single face without triangles is in no bound. `SetShape` is one step here, since the race with
it is the subject of `KernelCaches`. That `DistanceToOut(p)` is called for inside
points is Geant4's contract.

### FaceDistance

A behaviour is one shape, one point and any sequence of queries. A face is what the
code measures to it from the point: the exact distance (and whether OCCT finds
one), the distance to its box, to its plane, to its triangles, its deflection,
and whether it has a polygon and a cached normal. Geometry promises only that box
and plane are no farther than the face and triangles are within the
deflection the code ascribes to the face. `TryFindClosestFace` is one step per face. The triangle that the BVH
reports among equally near ones is a choice. Whether a normal can be evaluated on
the face found is left out: the answer is the face.

### TGeoDisplay

`mesh` and `helper` are `displayMesh` and `fDisplayHelper` with their stamps; `at`,
`ask`, `copied` the locals of each call of `DisplayMesh()`; `drawGen` the generation
`EnsureDisplayHelper()` has loaded. The call of `GetOrBuildSurfaceCache()` in the
loop is the whole protocol of `SurfaceCache`, taken over action by action: the
display is the only source of its calls here. A mesh is identified by the shape
it was made from. Since the triangles are copied through a reference that no lock
protects, a copy made while the tessellation is reset or replaced may be
`Incomplete`. TGeo paints from one thread, `Drawer`; the other threads call
`DisplayMesh()` directly.

The history variable `overrun` says that a build which `SetShape()` had overtaken
has stored its tessellation over a newer one. That can only happen with overlap,
and then `DisplayMesh()` may publish old triangles under the current generation:
the store in `GetOrBuildSurfaceCache()` takes the place of a newer payload, and a thread
that has already been given the reference reads what is there now. `DisplaySound`
excludes exactly these behaviours and no other overlap.

### RayQuery

A solid is a set of cells of a grid; its faces are the squares between a cell
inside and one outside, in two triangles each, or without triangles (`meshed`). Rays run along the axes,
as all those that `ClassifyPoint()` casts do. So a ray may run
along a face, through an edge or a vertex, along the diagonal of a square, start on the surface,
or meet several parts. Each tier of `ClassifyPoint()` is an operator (`OutOfBounds`,
`InSphere`, `ByTriangles`, `ByFaces`), `Class` their order. The exact classifier is
external and says what the cells say. The actions are called `ClassifyPointAt`,
`DistanceToInAlong` and `DistanceToOutAlong`, so that the module can be extended together with
`SphereCache`. A face with a polygon and one with an
intersector answer alike on a grid and are one definition, `Hits`.

### DetectorMaps, AssemblyImport, DetectorProcess

A document is its labels: assembly, simple or other, with name, material, the
components with their locations, and a shape that is `solid`, `null`, or `void`
(without a bounding box). `ImportLabel()` is recursive; `todo` holds the calls still
to be made, in order, and one action is one call up to its recursive calls.
`LocationToTrsf` and the composition of transformations are sequences of datums with
their exponents, so a power, an inverse, or an offset composed on the wrong side
shows. A name is a sequence of the name in the file and the number that
`MakeUniqueName()` appends, because a file may itself contain such a
name. `heap` holds each assembly allocated with the document it came from, its owner
(import, caller, `Construct()`, registry, user, leaked, deleted), its parts,
its volumes by name and its placements.

The readers are functions of a parsed file, with their errors: a fault names the
`G4Exception`. `Fail` and `Die` end the process, since the faults are fatal and nothing
catches them.

### G4OCCTApp, ScoringActions

`phase` goes from `parse` (the arguments, one per step) to `commands` (the macro
or the typed session) and, inside `/run/initialize`, to `construct`: reading the material
files, building the solids, importing the assemblies, sizing the world. A session
may give commands in any order the macro has them. `ScoringActions` is
one thread's events, of one primary each: tracks with steps and deposits from small sets, in any order,
and the three ntuples that `/output` commands switch between runs.

### DD4hepPlugin, Step2DD4hep

A compact file is a sequence of detectors of the two plugins. `CreateStepAssembly`
imports and registers; `ConstructGeo` converts the solids, each once; afterwards the user's
code releases and deletes assemblies and applies sensitive detectors (`UserCall`, up to
`MaxUserCalls`), and `ExitJob` destroys the registry. `Step2DD4hep` is the tool from its arguments to
its files; strings are sequences of characters of which only those that XML
escapes, the bodies of its entities, and those outside ASCII, are told apart. The user may fill in
the TODOs one at a time, each with a material suitable for the part (`Suitable`), in either file, run
the tool again on the filled map, and start a DD4hep job on the
compact file. `tool.given` keeps the entries of the map a run was given, as a history: what has to be found in both files
afterwards (`FilledInSurvives`). Two names of a map may be decoded to the same one, and then the last line
counts; the order of lines is not modelled, so `ReadExistingMap` may take either.

### DetectorSession

The initial state chooses one of the three programs; the rest is the disjunction of
their steps. They share the import, the maps, the heap and the way of dying, which is
why they are composed: each property of the import is checked in every way the
programs reach it.

## 3. Runs

| Run | Instance | Shows |
|---|---|---|
| `SurfaceCacheQuiescent` | 3 threads, 2 `SetShape`, 2 throwing builds, no overlap | one builder, no needless build, references stay valid and current, refinement, every call returns |
| `KernelCaches` | 2 threads, 2 kinds, 2 `SetShape` of which the first throws, overlap | tags and volume truthful, queries use the faces the kernel has |
| `PolyhedronCache` | 3 threads, 3 `SetOCCTShape` (first throws, second has no facets), 1 throwing build, overlap | one builder, no lost wake-up, stamp sound, answers recent |
| `SphereCache` | 21 points of a line, 4 shapes (uneven deflections, two parts, planes only, unmeshed), 3 spheres, 2 seeds; 22,993 states | fast path sound up to the difference of deflections, order and bound, eviction of the smallest only |
| `FaceDistance` | 3 faces from curved, planar, unmeshed and unsolvable ones, with equal and different distances and deflections | pruning safe, seeded normals right, exact distances exact, safeties off by at most the spread of deflections |
| `TGeoDisplay` | a drawing and a calling thread, 2 `SetOCCTShape` of which the first throws, 1 throwing build, overlap; 106,191 states | stamps of the tessellation sound, what is drawn is the shape, every call returns |
| `RayQuery` | 6 solids, meshed or not, 8 × 5 × 7 points, all rays along the axes; 43,764 states | every tier of `ClassifyPoint` right, directed distances skip no matter |
| `DetectorSession` | 12 documents, 25 command lines with 5 macros, 9 material files, 8 compact files, 4 lists of rules, 4 rule files, 21 command lines of the tool; 586,727 states | names, placements, materials, aborts, ledger, ownership, sensitive detectors, round trip |
| `KernelCachesVoid` | as `KernelCaches`, no overlap | finding 1 |
| `FaceDistanceNormal` | a plate with a hole | finding 2 |
| `FaceDistanceSafety` | a flat patch beside a coarse bulge | finding 3 |
| `DetectorSessionNames` | as `DetectorSession` | finding 4 |

Bounds. Three threads are a builder, a sleeper and a latecomer; a fourth is
another sleeper. Two shapes let a build started under one generation end under the
next, the first of them failing where a run says so; the third lets a failed `SetShape` be followed by two good ones. One throwing
build is enough to leave the flag to others, two let the successor fail as well.
Two kinds are the two sources of data. Three spheres with two seeds reach the limit,
past which the code repeats itself. Three faces are a best match, a pruned face and a
better one. All counters bounded by these constants (`MaxSetShape`, `MaxThrows`,
`MaxSeeds`) only count; `MaxSpheres` is the code's
`kMaxInscribedSpheres`, made small.

`RayQuery`: the points lie on faces, edges, vertices and diagonals, one lattice unit
inside and outside of them, and beyond the box; the solids are a block, steps, a
bridge with two overhangs, two separate parts, two that share an edge, and a ring. Rays
along the axes are those of `ClassifyPoint()`; Geant4's rays are oblique as
well, and those are not checked.

`DetectorSession`: the documents cover a nested assembly used twice, a part
placed several times, a part named as another's numbered copy, unnamed parts, null
shapes, components without a shape, shapes without a bounding box, names to be escaped, files that
are missing, unreadable or empty; the command lines, macros and XML files reach every error
of the parsers and the readers. `MaxSuffix` 4 is more than any
document needs. Two tracks of one step (`MaxTracks`, `MaxSteps`) in up to three events
of two runs suffice to carry a counter from one track, event or run to the next. Three
`MaxUserCalls` allow release, use and a second release; two `MaxToolRuns` are a
run, the user's edit, and a run on what the first wrote; `Suitable` gives different parts different
materials, and one part a choice of two, so that a mix-up shows.

Fairness (`FairSpec` of `SurfaceCache`): weak fairness of each thread inside a call
and of the thread inside `SetShape`. The code never blocks there except on a mutex
held for finitely many steps and on the condition variable, whose wait has no
fair action: it ends by notification (or spuriously, never assumed). Nobody is obliged to
start a call, to throw, or to wake spuriously. `DisplayFairness` of `TGeoDisplay` is the
same for the calls of `DisplayMesh()`; that they return (`EveryDrawReturns`) needs
that `SetOCCTShape()` is called finitely often, since each call may send the loop
round again, and that is what `MaxSetShape` bounds. The other modules state no
fairness: their programs are sequential and end or wait for the user. `PolyhedronCache` claims no
liveness: with meshes that are always null each waiter rebuilds in turn, and
`std::mutex` does not promise that a given waiter ever wins; what is
claimed instead is `SleepersHaveBuilder`.

Deadlock is checked in every run. A process that is over stutters by an action of its own (`Over`).

## 4. Findings

1. `KernelCachesVoid`: `SetShape` replaces `fShape` before `ComputeBounds` throws
   for a shape without a bounding box. A caller that catches the documented exception
   has a kernel with the rejected shape (used by the classifier, the volume, the
   tessellation) and the bounds and faces of the previous one.
2. `FaceDistanceNormal`: on all-planar solids `SurfaceNormal` skips faces with a hole
   or a curved edge, and compares infinite planes; it may return the normal of another face.
3. `FaceDistanceSafety`: the BVH bound subtracts the deflection of the nearest triangle's
   face only. It is conservative when all faces have the same deflection;
   otherwise it may exceed the true distance by the difference
   (`SafetyOverestimate`, proved).
   `DistanceToOut` and `ComputeInitialSpheres` also store that bound as the radius of an inscribed
   sphere, and `docs/solid_navigation.md:428-429` says that every positive value proves its ball to be inside the solid. Next to a coarse
   face it may reach out, and `ClassifyPoint` then answers `kInside` for a point outside: in `Uneven` of
   `MCSphereCache`, `DistanceToOut(7)` returns 6, and the point 3, beyond the face at 4, is then answered `kInside`. How far it goes is bounded by the difference of the deflections (`FastPathSound`, proved).
4. `DetectorSessionNames`: `XmlUnescape` replaces `&amp;` first, so the name `A&lt;`, which is written
   `A&amp;lt;`, is decoded twice, to `A<`. `step2dd4hep/main.cc:149-150` says that names read back match the
   raw ones; the tool does not find the material filled in for such a part, or gives it to the
   part called `A<`. Names that neither contain an
   entity nor are what such a name decodes to come back (`FilledInSurvives`, proved).

Other places where the code and what is written about it differ, met while modelling. They
are described here and have no run, because they lie outside what the models distinguish or
nothing in the repository states the contrary as a property:

* `G4OCCTDetectorConstruction.cc:212`: the assemblies are owned by unique pointers local to
  `Construct()`, so they are deleted when it returns while their imprints are in
  the world; `G4AssemblyVolume`'s destructor deletes what it has imprinted. The model has the
  deletion (`FinishConstruct`), not Geant4's part of it.
* `G4OCCTDetectorConstruction.cc:216-223`: the world is sized from the boxes of an
  assembly's recentred parts in their own frames, once each, although
  `G4OCCTDetectorConstruction.hh:42-44` promises the box of all placed volumes. An assembly that
  places a part farther out than 10 cm or 110 % of that box has it outside the world. `WorldHalfSize` and `Imprint` model
  both sides; for `nested.step` the world built has a half-size of 10 cm and a part at 19 to 23 cm.
* `step2dd4hep/main.cc:66-74` writes `?` for characters outside ASCII while the import's keys are
  UTF-8: a generated map never matches such a part. `GeneratedCompactServes` is stated for ASCII names.
* `G4OCCTAssemblyRegistry.hh:26-27` speaks of deletion on `Release()`; the function, and lines 60-67,
  hand ownership to the caller. The model follows the function.
* A part without a bounding box makes `FromSTEP()` leave by `std::invalid_argument`;
  assembly and volumes made so far are leaked (owner `leaked`, and `OneOwner` allows exactly these).
* `G4OCCTDetectorConstruction.cc:189-205`: the application queues solids without a material, so
  they are made of `G4_AIR` whatever material files were read; a part of an assembly aborts in that case.
* A rule for sensitive detectors named `Bolt` reaches `Bolt` and its numbered copies `Bolt_<n>`, but
  a part the file calls `Bolt_1`, when numbered, is `Bolt_1_1`, which `Bolt` does not reach.

## 5. Proofs

Everything below is proved by TLAPS for every value of the constants that satisfies
the modules' named assumptions.

* **SurfaceCacheProofs.** `TypeInv` adds to the types that the generation lags the
  shape from the assignment of `fShape` to the increment; without the lag the type of
  `gen` is not inductive. `StampInv` and `CurrentInv` give
  `StampSound` with overlap allowed: outside the window from `ComputeBounds` to the
  increment (`Published`), whatever is stored or about to be stored under the
  kernel's generation is no older than the shape it was published for. With
  `~Overlap` assumed, `FlightInv` (the flag is the builder, builders have a miss,
  holders a hit, everyone works for the current generation) gives `OneBuilder`,
  `BuildOnlyOnMiss` and `ReadersUndisturbed`. With all shapes having a bounding box as
  well, the generation equals the shape (`GenerationCounts`), the stamp
  the payload (`ExactInv`), whence `HoldersSeeCurrentShape` and the refinement of `SingleFlight`, step by step.
* **KernelCachesProofs.** `TagInv`: the tag never passes the generation loaded by the
  query, and what is under the kernel's generation is no older than what is
  derived; a cache being reloaded has an older tag, which is what makes a load that
  throws harmless. `MeasureInv` uses that the mutex excludes the reset during an
  integration.
* **PolyhedronCacheProofs.** `FlightInv` (flag, builder, sleepers) and
  `StampInv`, all with overlap allowed. That answers are recent does not follow from the generations alone, which a failed `SetShape()`
  leaves behind: `AgeInv` says that a mesh kept, or about to be kept, under the kernel's generation is as new as
  every shape accepted so far, and one under the generation a call has loaded as new as those accepted
  when it began; `AnswerInv` says it of the meshes on their way to be returned, or why there is none.
* **ClassifyPointProofs, `SphereCache`.** Each bound is no larger than the distance to a point of the surface
  plus the difference of two deflections (`Reaches`), whichever tier it came from; that the spheres are centred in the solid and reach no
  farther is kept across insertion, eviction and reseeding (`Belongs`), and the triangle inequality carries it to the point that is
  answered. Order and bound; what an insertion may remove.
* **ClassifyPointProofs, `RayQuery`.** The invariants themselves are easily inductive, since a query
  changes nothing but the answer; the work is that each answer is right, for any finite solid.
  All of it rests on one fact (`Crossing`): in a row of cells, between one of the solid and one outside
  there is a face, at a level between them.
  *Distances*: a ray from one side of the surface has a hit before it is on the other (`HitBefore`),
  a hit is on the surface (`HitOnSurface`), and a finite solid is left (`LeavesSolid`); the nearest face from
  inside is met from its cell's side (`LeftByItsSide`).
  *Spheres*: on the way from the centre to a point of a cell outside, along one axis after the other, there is
  a face no farther than the point along any axis (`WayOut`), so no such point is inside the
  sphere (`InSphereIs`).
  *Parity*: a row of cells that is left above starts in the solid if it changes an odd number of times
  (`StepsParity`, by induction over its length), and when no hit is on a boundary all hits are in one
  row and correspond to its changes one to one (`HitsParity`). Off the edges each face gives one
  triangle (`CastCounts`), so each vote is right away from the surface (`VoteRight`) and no majority is wrong.
* **FaceDistanceProofs.** The loop invariant of the scan (best among the faces
  visited, first among equals, nothing nearer pruned), and the arithmetic
  of bound, seed radius and deflection.
* **SurfaceCacheProofs, last part: `TGeoDisplay`.** `DisplayUsesCache`: every step of the
  display is a step of `SurfaceCache` or leaves it alone, so the cache's invariants hold for the display
  (`CacheInv`). On them rests `DisplayInv`: generations are loaded in an order
  (`Order`: what a thread asked for is no newer than what its build loads), and whatever
  travels from the tessellation to the screen under the current generation is no older
  than the shape described (`Fresh`: reference, copy, kept mesh, helper). `Fresh` is needed for each stage, since
  each stamp is taken before the data are read, and holds outside an overrun and outside `SetShape`'s window.
* **DetectorSessionProofs.** `PartsReachable`, for every set of documents, files and
  command lines: `GoodHeap` says of each assembly that `volumes` maps the name of
  each part back to the part; `NamesTaken` that an import has recorded each name it
  has given out, which is what makes a new name new. `UniqueName` is the fact about
  `MakeUniqueName()` both rest on. It needs `MaxSuffixAssumption` only.
  `AssemblyHasOneOwner`, on top of `NamesInv`: the
  registry lists what it owns, once (`RegistryOwns`); the import owns the last assembly and walks labels of
  its document (`ImportOwns`, which needs `DocumentsAssumption`: components refer to labels of
  the same document); which owners exist in which phase (`PhaseOwners`); a leak
  has a shape without a bounding box (`LeaksExplained`).
  `SessionTypes`: the types are inductive only with the form of the assemblies
  (`HeapTypes`), of the prototypes of an import (`ProtoTypes`) and of the locals of
  `Construct()` (`BuildForm`), and with what a phase implies (`ProcessInv`: no import
  before files and solids are done).
* **DetectorSessionProofs, last part.** `PartsPlaced`: an occurrence of a part is a path of indexes from a
  free shape down to it (`Follow`), and `PartsStayInPlace` counts those paths. The code works on
  a list of calls, so the invariant ties the two (`Walked`): there are paths for the placements made and for the calls
  to come, each placement is what its path leads to, recentred there (`PlacedAs`), each call is for the end of its path
  (`CallsFollow`), and `Cover`: no two placed paths are the same, no path to come begins
  another or a placed one, and every part of the document is placed or below a path to come.
  A call that skips, places or opens keeps it (`CoverSkip`, `CoverPlace`, `CoverOpen`);
  when no call is left, the placements count the occurrences (`CoverCounts`). Two facts
  are about documents: a path that leads somewhere is no longer than the assemblies
  are many, plus one (`PathInPaths`, since no assembly is inside itself), and where a recentred part is placed
  tells where its path leads (`SameEnd`). `PlacesInv` says this of the import under way and of every
  assembly that was returned.
* **SequenceFolds.** The readers and the assignment of rules are loops, in the model
  `FoldLeft`s. The library's induction theorems take the property as a parameter, which no
  installed prover can instantiate; here the operator and the property are CONSTANT
  operators of a module instead, and the induction goes over a set of natural numbers, which
  has a least element. `FoldInvariant`: what holds of the start and is kept by each element
  holds of the result. `Fold` is the library's `FoldLeft` with its definitions expanded. Each
  loop is an instance: `Assigning`, `Reading`, `ReadingElements`, `ReadingMaterials`, `MappingEntries`.
* **DetectorContentsProofs.** What the parts of a session are made of and what its files tell, in
  five parts.
  `ListedParts`: rules that were read or given pair a pattern and a detector (`GoodRules`); a part's name
  is its raw name or a numbered copy of it (`HeapNamed`); so a rule for the raw name
  matches, some rule answers, and `ApplySDMap()` has written the answer (`AppliedInv`).
  `MaterialsMapped`: by the folds, one file's map is its last declarations and `Merge` lets the later file
  win (`QueueMap`); what was declared is in the store of elements and the table (`FilesProvide`);
  an import is given the map of the files or that of the entries (`MapGiven`) and makes
  each part of what the map has for its key (`PartsMade`).
  `AbortsJustified`: an import that aborts has met a key the map lacks (`MissingKey`),
  and a reader dies of a reference only where nothing before it provides the
  component (`FaultInv`, by `FilesProvide`); a dead process takes no step (`DeadStops`).
  `FilesOfARunAgree`: the totals over the rows are recursive functions of their length
  (`TotalAppend`: a row more adds its deposit). `LedgerInv` says of the event under way what
  `LedgerBalances` says of those that ended, less the track that has no row yet (`OpenEvent`),
  and that events count down, so that a new one has no rows
  (`RowsPassed`). It holds because the ntuples cannot be switched while a run is on (`CommandsOK`).
  `FilledInIsKept` and `GeneratedServes` have a part about texts and a part about the session.
  *Texts*: escaping is undone entity by entity. `Partly` escapes only the characters of some of the entities;
  the tool's text is `Partly` for all it escapes, and `ReplaceEntity()` takes one entity from the set
  as long as the text itself has no entity in it, by induction over the text (`RoundTrip`). No such condition is
  needed for what a parser of XML does: no two texts are escaped to the same (`EscapeOnce`, from the end of the
  text, where the last tokens tell whether a character was escaped), so the name read back is the name written
  (`NameReadBack`). *Session*: a file has an entry for each key of its STEP file, and no empty
  material, whatever was overwritten or filled in (`FilesInv`), and no text twice; between reading and writing the tool has the keys of its
  document, knows what the existing map has filled in for them and nothing else, also when it has just overwritten that map itself
  (`ToolInv`: `HasRead`, `KnowsFilled`), and what it knows is in both files and stays there while other placeholders are
  filled in (`FilesKept`). That is `FilledInIsKept`; `GeneratedServes` goes on to the job. A job started from such a file has an entry for each key of the
  documents of its detectors (`GivesAll`), and its import calls `ImportLabel()` only for labels the tool
  has visited (`WalksVisited`), so that a part whose key is missing has a name that the tool could not write
  (`StopsForNames`; these three are `JobInv`).

`PartsPlaced` made the property speak of the document's own indexes (`Root`, `Down`) and say which
documents it is about. Proving also found places where the model could not be reasoned about or was too
narrow, all changed: a file that does not exist was outside the domain of the files and is now one
that cannot be opened (`MaterialFile`), reached by two command lines of the run; `Merge` was
written with an operator that only TLC defines; `RayQuery` summed its distances by a fold and chose by
`CASE ... OTHER`, and both are now written out; two properties spoke of the last element of
a flattened list and now say what they mean of the files themselves (`FilesSay`), and a reference
is provided by the name a material is known by, which for a NIST material is not the one in `name`; the tool's walk was a recursion over a document and
the replacement of an entity a recursion over a text, which say nothing to a prover, and are now a least set of labels
(`Visited`) and a list of pieces; and the tool looked up a STEP file among the documents before it knew it was one (`ToolRead`).

Only model-checked:

* `EveryCallReturns` and `EveryDrawReturns`: liveness under fairness is beyond the prover.

Every safety property that a passing run checks is stated by a theorem.

Assumptions, all named and evaluated by TLC on each run: the ranges of the
constants; `VoidShapes`, `EmptyShapes` are shapes, and a shape without a bounding box
has no facets; `Drawer` is a thread; `MaxSuffix` is a number; components and free shapes of a
document are labels of it; a document has finitely many labels, its locations have integer powers, and no
assembly is a component of itself, however deep (an import of such a file would not return);
solids of the grid are finite sets of cells and not empty, and cells are a multiple of 8 wide (`GridAssumption`); `Distance` is a distance on `Points`; `FaceDataAssumption`, the geometry of a face;
deposits are integers (`DepositsAssumption`); names, macros, rules, rule files, material files and compact
files are lists of finite length (`DocumentsAssumption`, `MacrosAssumption`, `RulesAssumption`,
`MaterialFilesAssumption`, `CompactFilesAssumption`); the names in a document have spellings, and a
spelling is of one name (`SpellingAssumption`); the files written by default and NIST's materials have
names that are not empty (`OutputAssumption`).

## 6. Not modelled, and why

OCCT's algorithms, Geant4's navigation and ROOT are external. Two meshers working on
one shape at once (kernel, adapter, or two solids of one prototype) is a race
inside OCCT. Exceptions of OCCT inside `ComputeBounds` other than the one the code
throws itself are not modelled. Torn reads of a `TopoDS_Shape` handle are not
distinguished from reading the old or the new one. Logging and
formatting are left out.

The thread-local map of caches by key in `TGeoOCCTSolidBridge` (keys are never reused and
entries hold weak pointers: a model would only restate this), two threads that draw one TGeo solid at once
(`EnsureDisplayHelper()` replaces a `std::unique_ptr` without a lock, which is undefined behaviour), the logical
volumes that an import which failed leaves in Geant4's store, and the conversion
between mm and cm. `G4OCCTLogicalVolume` and `G4OCCTPlacement`, which hold a shape and
forward; visual attributes; the macro search path and visualisation commands of the application; the merge of
the ntuples of several threads. Rays that are not along an axis, and
`TryGetOutwardNormal()` on curved faces. `AddSolid()` with a material
name: the application never calls it so. XML as text: the readers begin from a parsed
file. Tests, benchmarks and examples.

## 7. Plan

What is left, in this order.

1. The size of the world against the placed parts, as a run of its own, with
   rotations among the placements.
2. The thread-local map of caches, should its keys ever be reused.
