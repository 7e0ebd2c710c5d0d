--------------------------- MODULE KernelCachesProofs ---------------------------
(***************************************************************************)
(* Theorems about KernelCaches, for any threads, kinds of cache and number  *)
(* of SetShape() calls, which may overlap queries.                          *)
(***************************************************************************)
EXTENDS KernelCaches, TLAPS

(* The types, and the generation lagging the shape: strictly from the        *)
(* assignment of fShape to the increment.                                    *)
TypeInv ==
  /\ TypeOK
  /\ gen <= shape
  /\ setter \notin {"idle", "adapter"} => gen < shape

(* A thread outside a query. *)
LEMMA NoQueryTyped == NoQuery \in Queries /\ NoQuery.at = "idle" /\ NoQuery.gen = 0
<1>1. (CHOOSE k \in Kinds : TRUE) \in Kinds
  BY KindsAssumption
<1> QED
  BY <1>1, KernelShapeAssumption DEF NoQuery, Queries, Steps

(* The constructor's state has the types. *)
LEMMA TypeInit == Init => TypeInv
  BY KernelShapeAssumption, NoQueryTyped
  DEF Init, ShapeInit, TypeInv, TypeOK, ShapeTypeOK, SetterStates, Queries, Steps

(* Every step keeps the types. *)
LEMMA TypeStep == TypeInv /\ [Next]_vars => TypeInv'
<1> USE KernelShapeAssumption
    DEF TypeInv, TypeOK, ShapeTypeOK, SetterStates, Queries, Steps, NoThread,
        shapeVars, cacheVars, measureVars
<1> SUFFICES ASSUME TypeInv, [Next]_vars PROVE TypeInv'
  OBVIOUS
<1>1. ASSUME NEW t \in Threads, NEW k \in Kinds, LoadGeneration(t, k) PROVE TypeInv'
  BY <1>1 DEF LoadGeneration
<1>2. ASSUME NEW t \in Threads, Compare(t) PROVE TypeInv'
  BY <1>2 DEF Compare, MoveTo
<1>3. ASSUME NEW t \in Threads, Load(t) PROVE TypeInv'
  <2>1. PICK v \in {NoValue} \cup 0 .. MaxSetShape :
          loaded' = [loaded EXCEPT ![t][query[t].kind] = v]
    BY <1>3 DEF Load, Source, NoValue
  <2>2. loaded' \in [Threads -> [Kinds -> {NoValue} \cup 0 .. MaxSetShape]]
    BY <2>1
  <2> QED
    BY <1>3, <2>2 DEF Load, MoveTo
<1>4. ASSUME NEW t \in Threads, LoadThrows(t) PROVE TypeInv'
  BY <1>4, NoQueryTyped DEF LoadThrows, Leave
<1>5. ASSUME NEW t \in Threads, Tag(t) PROVE TypeInv'
  BY <1>5 DEF Tag, MoveTo
<1>6. ASSUME NEW t \in Threads, Use(t) PROVE TypeInv'
  BY <1>6, NoQueryTyped DEF Use, Leave
<1>7. ASSUME NEW t \in Threads, Integrate(t) PROVE TypeInv'
  BY <1>7 DEF Integrate
<1>8. ASSUME NEW t \in Threads, StoreMeasure(t) PROVE TypeInv'
  BY <1>8 DEF StoreMeasure
<1>9. CASE StartSetShape
  BY <1>9 DEF StartSetShape, WriteShape
<1>10. CASE ResetMeasure
  BY <1>10 DEF ResetMeasure, ResetVolumeArea
<1>11. CASE OtherSetShapeStep
  BY <1>11 DEF OtherSetShapeStep, ComputeBounds, ComputeBoundsThrows, ResetSurfaceCache,
               BumpGeneration, AdapterReset
<1>12. CASE UNCHANGED vars
  BY <1>12 DEF vars
<1> QED
  BY <1>1, <1>2, <1>3, <1>4, <1>5, <1>6, <1>7, <1>8, <1>9, <1>10, <1>11, <1>12 DEF Next

(* Type correctness, including that the generation never passes the number   *)
(* of SetShape() calls.                                                      *)
THEOREM TypeCorrect == Spec => []TypeOK
<1>1. TypeInv => TypeOK
  BY DEF TypeInv
<1> QED
  BY <1>1, TypeInit, TypeStep, PTL DEF Spec

-----------------------------------------------------------------------------
(* Tags. *)

(* What is derived describes the shape from ComputeBounds() on; a failed one  *)
(* leaves it behind.                                                         *)
ShapePhase ==
  /\ derived <= shape
  /\ setter \notin {"idle", "computeBounds"} => derived = shape

(* SetShape() is not between ComputeBounds() and the increment.  Only then is  *)
(* the generation that of the last shape installed, and the data whole.       *)
Published == setter \in {"idle", "computeBounds", "adapter"} /\ ~HalfDerived

(* The generation is loaded before the data is read, and the tag written      *)
(* after: under the tag, or the loaded generation, of the last shape          *)
(* installed there is no data from before it.  Data lost to an exception is   *)
(* under a tag that is already old.                                           *)
TagOK(t) ==
  /\ query[t].gen <= gen
  /\ At(t, "load") => tag[t][query[t].kind] < query[t].gen
  /\ At(t, "use") => tag[t][query[t].kind] = query[t].gen
  /\ At(t, "tag") /\ query[t].gen = gen /\ Published =>
       derived <= loaded[t][query[t].kind]
  /\ \A k \in Kinds :
       /\ tag[t][k] <= gen
       /\ ~At(t, "idle") => tag[t][k] <= query[t].gen
       /\ tag[t][k] = gen /\ Published => derived <= loaded[t][k]
       /\ loaded[t][k] <= shape
       /\ k # "classifier" => loaded[t][k] <= derived

TagInv == \A t \in Threads : TagOK(t)

(* The volume under the mutex, and the stored one, are no older than what is  *)
(* derived unless SetShape() is about to reset them.                         *)
MeasureInv ==
  /\ measure <= shape
  /\ computed <= shape
  /\ setter # "resetVolumeArea" => /\ measure # NoValue => derived <= measure
                                   /\ holder # NoThread => derived <= computed

(* The constructor's state. *)
LEMMA PhaseInit == Init => ShapePhase /\ MeasureInv
  BY DEF Init, ShapeInit, ShapePhase, MeasureInv, NoThread, NoValue

(* No cache is loaded at the start. *)
LEMMA TagInit == Init => TagInv
<1> SUFFICES ASSUME Init, NEW t \in Threads PROVE TagOK(t)
  BY DEF TagInv
<1> QED
  BY NoQueryTyped DEF Init, ShapeInit, TagOK, At, NoGen, NoValue

(* SetShape() goes through its phases whatever the queries do. *)
LEMMA PhaseStep ==
  TypeInv /\ ShapePhase /\ [Next]_vars =>
    /\ ShapePhase'
    /\ shape <= shape' /\ derived <= derived' /\ gen <= gen'
    /\ Published' => \/ gen < gen'
                     \/ Published /\ derived' = derived /\ gen' = gen
<1> SUFFICES ASSUME TypeInv, ShapePhase, [Next]_vars
             PROVE  /\ ShapePhase'
                    /\ shape <= shape' /\ derived <= derived' /\ gen <= gen'
                    /\ Published' => \/ gen < gen'
                                     \/ Published /\ derived' = derived /\ gen' = gen
  OBVIOUS
<1>1. \/ WriteShape \/ ComputeBounds \/ ComputeBoundsThrows \/ ResetVolumeArea
      \/ ResetSurfaceCache \/ BumpGeneration \/ AdapterReset \/ UNCHANGED shapeVars
  BY DEF Next, vars, StartSetShape, ResetMeasure, OtherSetShapeStep, LoadGeneration, Compare,
         Load, LoadThrows, Tag, Use, Integrate, StoreMeasure
<1> QED
  BY <1>1, KernelShapeAssumption
  DEF WriteShape, ComputeBounds, ComputeBoundsThrows, ResetVolumeArea, ResetSurfaceCache,
      BumpGeneration, AdapterReset, shapeVars, ShapePhase, Published, HalfDerived, TypeInv, TypeOK,
      ShapeTypeOK, SetterStates

(* What the arithmetic below is about are integers. *)
LEMMA Ranges ==
  ASSUME NEW t \in Threads, TypeInv
  PROVE  /\ gen \in Int /\ shape \in Int /\ derived \in Int
         /\ query[t].gen \in Int /\ query[t].kind \in Kinds
         /\ \A k \in Kinds : tag[t][k] \in Int /\ loaded[t][k] \in Int
  BY KernelShapeAssumption
  DEF TypeInv, TypeOK, ShapeTypeOK, Queries, NoGen, NoValue

(* A step of someone else, or of SetShape(), leaves a thread's tags in order: a *)
(* generation is published only above every tag there is.                      *)
LEMMA TagFrame ==
  ASSUME NEW t \in Threads, TypeInv, TypeInv', TagOK(t), ShapePhase, [Next]_vars,
         UNCHANGED <<query[t], tag[t], loaded[t]>>
  PROVE  TagOK(t)'
<1>1. query'[t] = query[t] /\ tag'[t] = tag[t] /\ loaded'[t] = loaded[t]
  OBVIOUS
<1>2. gen' \in Int /\ shape' \in Int /\ derived' \in Int
  BY KernelShapeAssumption DEF TypeInv, TypeOK, ShapeTypeOK
<1>3. /\ shape <= shape' /\ derived <= derived' /\ gen <= gen'
      /\ Published' => \/ gen < gen'
                       \/ Published /\ derived' = derived /\ gen' = gen
  BY PhaseStep
<1>4. /\ query'[t].gen <= gen'
      /\ query'[t].at = "load" => tag'[t][query'[t].kind] < query'[t].gen
      /\ query'[t].at = "use" => tag'[t][query'[t].kind] = query'[t].gen
      /\ query'[t].at = "tag" /\ query'[t].gen = gen' /\ Published' =>
           derived' <= loaded'[t][query'[t].kind]
  BY <1>1, <1>2, <1>3, Ranges DEF TagOK, At
<1>5. ASSUME NEW k \in Kinds
      PROVE  /\ tag'[t][k] <= gen'
             /\ ~(query'[t].at = "idle") => tag'[t][k] <= query'[t].gen
             /\ tag'[t][k] = gen' /\ Published' => derived' <= loaded'[t][k]
             /\ loaded'[t][k] <= shape'
             /\ k # "classifier" => loaded'[t][k] <= derived'
  BY <1>1, <1>2, <1>3, Ranges DEF TagOK, At
<1> QED
  BY <1>4, <1>5 DEF TagOK, At

(* The thread's own steps: data read after a generation that is still the      *)
(* kernel's describes the last shape installed, or a later one.                *)
LEMMA TagStep ==
  TypeInv /\ TypeInv' /\ ShapePhase /\ TagInv /\ [Next]_vars => TagInv'
<1> SUFFICES ASSUME TypeInv, TypeInv', ShapePhase, TagInv, [Next]_vars,
                    NEW t \in Threads
             PROVE  TagOK(t)'
  BY DEF TagInv
<1> USE KernelShapeAssumption DEF NoGen, NoValue
<1>0. TagOK(t)
  BY DEF TagInv
<1>1. ASSUME NEW u \in Threads, u # t,
             \/ \E k \in Kinds : LoadGeneration(u, k)
             \/ Compare(u) \/ Load(u) \/ LoadThrows(u) \/ Tag(u) \/ Use(u)
      PROVE  TagOK(t)'
  <2>1. UNCHANGED <<query[t], tag[t], loaded[t]>>
    BY <1>1 DEF LoadGeneration, Compare, Load, LoadThrows, Tag, Use, MoveTo, Leave,
                shapeVars, TypeInv, TypeOK
  <2> QED
    BY <2>1, <1>0, TagFrame
<1>2. ASSUME UNCHANGED cacheVars PROVE TagOK(t)'
  <2>1. UNCHANGED <<query[t], tag[t], loaded[t]>>
    BY <1>2 DEF cacheVars
  <2> QED
    BY <2>1, <1>0, TagFrame
<1>3. ASSUME NEW k \in Kinds, LoadGeneration(t, k) PROVE TagOK(t)'
  BY <1>3, <1>0
  DEF LoadGeneration, TagOK, At, TypeInv, TypeOK, ShapeTypeOK, Queries, shapeVars, Published, HalfDerived
<1>4. CASE Compare(t)
  <2>0. UNCHANGED <<tag, loaded, gen, shape, derived, setter>> /\ query[t].at = "compare"
    BY <1>4 DEF Compare, At, shapeVars
  <2>1. CASE tag[t][query[t].kind] = query[t].gen
    <3>1. /\ query'[t].kind = query[t].kind /\ query'[t].gen = query[t].gen
          /\ query'[t].at = "use"
      BY <1>4, <2>1 DEF Compare, MoveTo, TypeInv, TypeOK, Queries
    <3> QED
      BY <2>0, <2>1, <3>1, <1>0 DEF TagOK, At, Published, HalfDerived
  <2>2. CASE tag[t][query[t].kind] # query[t].gen
    <3>1. /\ query'[t].kind = query[t].kind /\ query'[t].gen = query[t].gen
          /\ query'[t].at = "load"
      BY <1>4, <2>2 DEF Compare, MoveTo, TypeInv, TypeOK, Queries
    <3>2. tag[t][query[t].kind] < query[t].gen
      BY <2>0, <2>2, <1>0, Ranges DEF TagOK, At
    <3> QED
      BY <2>0, <3>1, <3>2, <1>0 DEF TagOK, At, Published, HalfDerived
  <2> QED
    BY <2>1, <2>2
<1>5. CASE Load(t)
  <2>1. /\ derived <= Source(query[t].kind) /\ Source(query[t].kind) <= shape
        /\ Source(query[t].kind) \in Nat
        /\ query[t].kind # "classifier" => Source(query[t].kind) <= derived
    BY DEF Source, ShapePhase, TypeInv, TypeOK, ShapeTypeOK
  <2>2. tag[t][query[t].kind] # gen
    BY <1>5, <1>0, Ranges DEF Load, TagOK, At
  <2>3. CASE loaded' = [loaded EXCEPT ![t][query[t].kind] = Source(query[t].kind)]
    BY <1>5, <2>1, <2>2, <2>3, <1>0
    DEF Load, MoveTo, TagOK, At, TypeInv, TypeOK, ShapeTypeOK, Queries, shapeVars, Published,
        HalfDerived
  <2>4. CASE HalfDerived /\ loaded' = [loaded EXCEPT ![t][query[t].kind] = NoValue]
    <3>1. ~Published'
      BY <1>5, <2>4 DEF Load, shapeVars, Published, HalfDerived
    <3>2. loaded'[t][query[t].kind] = NoValue
      BY <2>4 DEF TypeInv, TypeOK, Queries
    <3> QED
      BY <1>5, <2>2, <2>4, <3>1, <3>2, <1>0
      DEF Load, MoveTo, TagOK, At, TypeInv, TypeOK, ShapeTypeOK, Queries, shapeVars
  <2> QED
    BY <1>5, <2>3, <2>4 DEF Load
<1>6. CASE LoadThrows(t)
  <2>1. tag[t][query[t].kind] # gen
    BY <1>6, <1>0, Ranges DEF LoadThrows, TagOK, At
  <2>2. query'[t] = NoQuery
    BY <1>6 DEF LoadThrows, Leave, TypeInv, TypeOK
  <2> QED
    BY <1>6, <2>1, <2>2, <1>0, NoQueryTyped
    DEF LoadThrows, TagOK, At, TypeInv, TypeOK, ShapeTypeOK, shapeVars, Published, HalfDerived
<1>7. CASE Tag(t)
  BY <1>7, <1>0
  DEF Tag, MoveTo, TagOK, At, TypeInv, TypeOK, ShapeTypeOK, Queries, shapeVars, Published, HalfDerived
<1>8. CASE Use(t)
  <2>1. query'[t] = NoQuery
    BY <1>8 DEF Use, Leave, TypeInv, TypeOK
  <2> QED
    BY <1>8, <2>1, <1>0, NoQueryTyped
    DEF Use, TagOK, At, TypeInv, TypeOK, ShapeTypeOK, shapeVars, Published, HalfDerived
<1>9. \/ UNCHANGED cacheVars
      \/ \E u \in Threads :
           \/ \E k \in Kinds : LoadGeneration(u, k)
           \/ Compare(u) \/ Load(u) \/ LoadThrows(u) \/ Tag(u) \/ Use(u)
  BY DEF Next, vars, StartSetShape, ResetMeasure, OtherSetShapeStep, Integrate, StoreMeasure
<1> QED
  BY <1>1, <1>2, <1>3, <1>4, <1>5, <1>6, <1>7, <1>8, <1>9

(* The mutex keeps SetShape() from resetting the volume while it is computed. *)
LEMMA MeasureStep ==
  TypeInv /\ ShapePhase /\ MeasureInv /\ [Next]_vars => MeasureInv'
<1> SUFFICES ASSUME TypeInv, ShapePhase, MeasureInv, [Next]_vars PROVE MeasureInv'
  OBVIOUS
<1> USE KernelShapeAssumption DEF TypeInv, TypeOK, ShapeTypeOK, ShapePhase, MeasureInv, NoValue
<1>1. CASE UNCHANGED measureVars /\ ~ResetMeasure
  <2>1. \/ WriteShape \/ ComputeBounds \/ ComputeBoundsThrows
        \/ ResetSurfaceCache \/ BumpGeneration \/ AdapterReset \/ UNCHANGED shapeVars
    BY <1>1 DEF Next, vars, StartSetShape, OtherSetShapeStep, LoadGeneration, Compare,
           Load, LoadThrows, Tag, Use, Integrate, StoreMeasure
  <2> QED
    BY <1>1, <2>1
    DEF WriteShape, ComputeBounds, ComputeBoundsThrows, ResetSurfaceCache, BumpGeneration,
        AdapterReset, shapeVars, measureVars
<1>2. CASE ResetMeasure
  BY <1>2 DEF ResetMeasure, ResetVolumeArea
<1>3. ASSUME NEW t \in Threads, Integrate(t) PROVE MeasureInv'
  BY <1>3 DEF Integrate, shapeVars
<1>4. ASSUME NEW t \in Threads, StoreMeasure(t) PROVE MeasureInv'
  <2>1. t # NoThread
    BY NoThreadAssumption
  <2> QED
    BY <1>4, <2>1 DEF StoreMeasure, shapeVars
<1> QED
  BY <1>1, <1>2, <1>3, <1>4
  DEF Next, vars, StartSetShape, OtherSetShapeStep, LoadGeneration, Compare, Load, LoadThrows,
      Tag, Use

(* Once a SetShape() has succeeded, a cache tagged with the kernel's           *)
(* generation describes the kernel's shape, for any number of threads, kinds  *)
(* of cache, SetShape() calls overlapping the queries, and failures of both.  *)
THEOREM ThreadTagsAreSound == Spec => []TagsSound
<1>1. TypeInv /\ ShapePhase /\ TagInv => TagsSound
  <2> SUFFICES ASSUME TypeInv, ShapePhase, TagInv, Settled,
                      NEW t \in Threads, NEW k \in Kinds, tag[t][k] = gen
               PROVE  loaded[t][k] = shape
    BY DEF TagsSound
  <2>1. TagOK(t)
    BY DEF TagInv
  <2>2. derived = shape /\ Published
    BY DEF Settled, Published, HalfDerived
  <2> QED
    BY <2>1, <2>2, Ranges DEF TagOK
<1> QED
  BY <1>1, TypeInit, TypeStep, PhaseInit, PhaseStep, TagInit, TagStep, PTL DEF Spec

(* A query that no SetShape() has overtaken uses intersectors and spheres made *)
(* from the face cache the kernel has, even after a SetShape() that threw.     *)
THEOREM FacesAreCurrent == Spec => []UsesCurrentFaces
<1>1. TypeInv /\ ShapePhase /\ TagInv => UsesCurrentFaces
  <2> SUFFICES ASSUME TypeInv, ShapePhase, TagInv, setter = "idle",
                      NEW t \in Threads, At(t, "use"), query[t].gen = gen,
                      query[t].kind # "classifier"
               PROVE  loaded[t][query[t].kind] = derived
    BY DEF UsesCurrentFaces
  <2>1. TagOK(t)
    BY DEF TagInv
  <2>2. tag[t][query[t].kind] = gen /\ query[t].kind \in Kinds
    BY <2>1, Ranges DEF TagOK
  <2> QED
    BY <2>1, <2>2, Ranges DEF TagOK, Published, HalfDerived
<1> QED
  BY <1>1, TypeInit, TypeStep, PhaseInit, PhaseStep, TagInit, TagStep, PTL DEF Spec

(* Once a SetShape() has succeeded, the stored volume and area are those of    *)
(* the shape.                                                                  *)
THEOREM MeasuresAreCurrent == Spec => []MeasureCurrent
<1>1. TypeInv /\ MeasureInv => MeasureCurrent
  BY KernelShapeAssumption
  DEF TypeInv, TypeOK, ShapeTypeOK, MeasureInv, MeasureCurrent, Settled, NoValue
<1> QED
  BY <1>1, TypeInit, TypeStep, PhaseInit, PhaseStep, MeasureStep, PTL DEF Spec
=============================================================================
