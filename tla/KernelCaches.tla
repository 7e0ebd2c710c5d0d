------------------------------ MODULE KernelCaches ------------------------------
(***************************************************************************)
(* The caches of G4OCCTSolidKernel that are not shared tessellations: the   *)
(* classifier, intersectors and inscribed spheres that each thread owns and *)
(* hands to every query, tagged with the generation they were loaded for,   *)
(* and the volume and area kept under fVolumeAreaMutex.                     *)
(*                                                                          *)
(* A query is: load the generation, compare it with the tag, reload when    *)
(* they differ, tag, use.  What a cache holds is the shape it was loaded    *)
(* from: the classifier reads fShape, the other two read what               *)
(* ComputeBounds() derived.  The volume and the area obey the same code and *)
(* are one Measure.  With Overlap a load that races with ComputeBounds()    *)
(* may get data that are neither the old nor the new.                       *)
(***************************************************************************)
EXTENDS KernelShape

CONSTANTS
  Threads,
  Kinds  \* the thread caches: a subset of {"classifier", "intersector", "sphere"}

ASSUME KindsAssumption ==
  Kinds # {} /\ Kinds \subseteq {"classifier", "intersector", "sphere"}

VARIABLES
  tag,      \* per thread and kind: cache.generation
  loaded,   \* per thread and kind: the shape its content describes
  query,    \* per thread: where its query is, of which kind, for which generation
  measure,  \* fCachedVolume / fCachedSurfaceArea
  holder,   \* the thread inside fVolumeAreaMutex
  computed  \* the value it has just integrated

cacheVars   == <<tag, loaded, query>>
measureVars == <<measure, holder, computed>>
vars        == <<shapeVars, cacheVars, measureVars>>

(* Nothing, or nothing that describes a shape. *)
NoValue  == -1
NoThread == "none"

ASSUME NoThreadAssumption == NoThread \notin Threads

Steps == {"idle", "compare", "load", "tag", "use"}

Queries == [at : Steps, kind : Kinds, gen : 0 .. MaxSetShape]

NoQuery == [at |-> "idle", kind |-> CHOOSE k \in Kinds : TRUE, gen |-> 0]

TypeOK ==
  /\ ShapeTypeOK
  /\ tag \in [Threads -> [Kinds -> {NoGen} \cup 0 .. MaxSetShape]]
  /\ loaded \in [Threads -> [Kinds -> {NoValue} \cup 0 .. MaxSetShape]]
  /\ query \in [Threads -> Queries]
  /\ measure \in {NoValue} \cup 0 .. MaxSetShape
  /\ holder \in Threads \cup {NoThread}
  /\ computed \in {NoValue} \cup 0 .. MaxSetShape

Init ==
  /\ ShapeInit
  /\ tag = [t \in Threads |-> [k \in Kinds |-> NoGen]]
  /\ loaded = [t \in Threads |-> [k \in Kinds |-> NoValue]]
  /\ query = [t \in Threads |-> NoQuery]
  /\ measure = NoValue
  /\ holder = NoThread
  /\ computed = NoValue

-----------------------------------------------------------------------------
(* Thread caches. *)

(* What a kind of cache is loaded from. *)
Source(k) == IF k = "classifier" THEN shape ELSE derived

At(t, step) == query[t].at = step

MoveTo(t, step) == query' = [query EXCEPT ![t].at = step]

Leave(t) == query' = [query EXCEPT ![t] = NoQuery]

(* Mutation: the local is never loaded and keeps its initial maximum. *)
LoadGenerationForgotten(t, k) ==
  /\ At(t, "idle")
  /\ QueryAllowed
  /\ query' = [query EXCEPT ![t] = [at |-> "compare", kind |-> k, gen |-> NoGen]]
  /\ UNCHANGED <<shapeVars, tag, loaded, measureVars>>

LoadGeneration(t, k) ==
  /\ At(t, "idle")
  /\ QueryAllowed
  /\ query' = [query EXCEPT ![t] = [at |-> "compare", kind |-> k, gen |-> gen]]
  /\ UNCHANGED <<shapeVars, tag, loaded, measureVars>>

(* Mutation: a cache that was filled once is taken for valid. *)
CompareFilledOnly(t) ==
  LET k == query[t].kind
  IN  /\ At(t, "compare")
      /\ MoveTo(t, IF tag[t][k] # NoGen THEN "use" ELSE "load")
      /\ UNCHANGED <<shapeVars, tag, loaded, measureVars>>

Compare(t) ==
  LET k == query[t].kind
  IN  /\ At(t, "compare")
      /\ MoveTo(t, IF tag[t][k] = query[t].gen THEN "use" ELSE "load")
      /\ UNCHANGED <<shapeVars, tag, loaded, measureVars>>

Load(t) ==
  LET k == query[t].kind
  IN  /\ At(t, "load")
      /\ \/ loaded' = [loaded EXCEPT ![t][k] = Source(k)]
         \/ /\ HalfDerived /\ k # "classifier"
            /\ loaded' = [loaded EXCEPT ![t][k] = NoValue]
      /\ MoveTo(t, "tag")
      /\ UNCHANGED <<shapeVars, tag, measureVars>>

(* Mutation: the generation is loaded again for the tag. *)
TagWithLatest(t) ==
  LET k == query[t].kind
  IN  /\ At(t, "tag")
      /\ tag' = [tag EXCEPT ![t][k] = gen]
      /\ MoveTo(t, "use")
      /\ UNCHANGED <<shapeVars, loaded, measureVars>>

Tag(t) ==
  LET k == query[t].kind
  IN  /\ At(t, "tag")
      /\ tag' = [tag EXCEPT ![t][k] = query[t].gen]
      /\ MoveTo(t, "use")
      /\ UNCHANGED <<shapeVars, loaded, measureVars>>

(* OCCT throws half-way: the old content is gone, the tag is not updated. *)
LoadThrows(t) ==
  LET k == query[t].kind
  IN  /\ At(t, "load")
      /\ loaded' = [loaded EXCEPT ![t][k] = NoValue]
      /\ Leave(t)
      /\ UNCHANGED <<shapeVars, tag, measureVars>>

Use(t) ==
  /\ At(t, "use")
  /\ Leave(t)
  /\ UNCHANGED <<shapeVars, tag, loaded, measureVars>>

-----------------------------------------------------------------------------
(* GetCubicVolume() and GetSurfaceArea(): the mutex is held throughout. *)

Integrate(t) ==
  /\ holder = NoThread
  /\ QueryAllowed
  /\ measure = NoValue
  /\ holder' = t
  /\ computed' = shape
  /\ UNCHANGED <<shapeVars, cacheVars, measure>>

StoreMeasure(t) ==
  /\ holder = t
  /\ measure' = computed
  /\ holder' = NoThread
  /\ computed' = NoValue
  /\ UNCHANGED <<shapeVars, cacheVars>>

-----------------------------------------------------------------------------
(* SetShape() as these caches see it. *)

StartSetShape ==
  /\ Overlap \/ (holder = NoThread /\ \A t \in Threads : At(t, "idle"))
  /\ WriteShape
  /\ UNCHANGED <<cacheVars, measureVars>>

(* Mutation: the stored volume survives SetShape(). *)
KeepMeasure ==
  /\ ResetVolumeArea
  /\ holder = NoThread
  /\ UNCHANGED <<cacheVars, measureVars>>

ResetMeasure ==
  /\ ResetVolumeArea
  /\ holder = NoThread
  /\ measure' = NoValue
  /\ UNCHANGED <<cacheVars, holder, computed>>

OtherSetShapeStep ==
  /\ \/ ComputeBounds \/ ComputeBoundsThrows
     \/ ResetSurfaceCache \/ BumpGeneration \/ AdapterReset
  /\ UNCHANGED <<cacheVars, measureVars>>

Next ==
  \/ StartSetShape \/ ResetMeasure \/ OtherSetShapeStep
  \/ \E t \in Threads : \/ \E k \in Kinds : LoadGeneration(t, k)
                        \/ Compare(t) \/ Load(t) \/ LoadThrows(t) \/ Tag(t) \/ Use(t)
                        \/ Integrate(t) \/ StoreMeasure(t)

Spec == Init /\ [][Next]_vars

-----------------------------------------------------------------------------
(* Properties. *)

(* Once a SetShape() has succeeded, a thread cache whose tag is the kernel's *)
(* generation describes the kernel's shape, although it reads the generation *)
(* and the data in separate steps that SetShape() may interleave with.       *)
TagsSound ==
  Settled =>
    \A t \in Threads, k \in Kinds : tag[t][k] = gen => loaded[t][k] = shape

(* ClassifyPoint() and DistanceTo*() index expandedBoxes and faceIntersectors *)
(* by the positions of fFaceBoundsCache: a query in use that no SetShape()    *)
(* has overtaken finds its cache made from the face cache the kernel has.     *)
UsesCurrentFaces ==
  setter = "idle" =>
    \A t \in Threads :
      /\ At(t, "use") /\ query[t].gen = gen
      /\ query[t].kind # "classifier"
      => loaded[t][query[t].kind] = derived

(* Once a SetShape() has succeeded, the stored volume and area are those of  *)
(* the shape, also when they were being integrated meanwhile.                *)
MeasureCurrent == Settled /\ measure # NoValue => measure = shape

(* "Return the cached axis-aligned bounds for the current shape." *)
BoundsDescribeShape == setter = "idle" => derived = shape
=============================================================================
