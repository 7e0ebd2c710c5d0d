--------------------------- MODULE SurfaceCacheProofs ---------------------------
(***************************************************************************)
(* Theorems about SurfaceCache, for any set of threads, any number of       *)
(* SetShape() calls and any number of builds that throw, and, in the last   *)
(* part, about TGeoDisplay, which draws from that cache.                    *)
(***************************************************************************)
EXTENDS TGeoDisplay, TLAPS

-----------------------------------------------------------------------------
(* Type correctness. *)

(* The generation counts the SetShape() calls that succeeded: it lags the   *)
(* shape strictly from the assignment of fShape to the increment.           *)
GenerationLags ==
  /\ gen <= shape
  /\ setter \notin {"idle", "adapter"} => gen < shape

TypeInv == TypeOK /\ GenerationLags

(* The invariant holds initially, fShape being the constructor's shape. *)
LEMMA TypeInit == Init => TypeInv
<1> SUFFICES ASSUME Init PROVE TypeInv
  OBVIOUS
<1>1. building \in BOOLEAN
  BY DEF Init
<1> QED
  BY <1>1, KernelShapeAssumption, SurfaceCacheAssumption
  DEF Init, ShapeInit, TypeInv, TypeOK, ShapeTypeOK, GenerationLags, SetterStates, PCs

(* Every step of a call and of SetShape() keeps the types and the lag. *)
LEMMA TypeStep == TypeInv /\ [Next]_vars => TypeInv'
<1> USE KernelShapeAssumption, SurfaceCacheAssumption
    DEF TypeInv, TypeOK, ShapeTypeOK, GenerationLags, SetterStates, PCs, NoCache, Incomplete, NoGen,
        shapeVars, cacheVars, callVars
<1> SUFFICES ASSUME TypeInv, [Next]_vars PROVE TypeInv'
  OBVIOUS
<1>1. ASSUME NEW t \in Threads, LoadGeneration(t) PROVE TypeInv'
  BY <1>1 DEF LoadGeneration, Goto
<1>2. ASSUME NEW t \in Threads, Enter(t) PROVE TypeInv'
  BY <1>2 DEF Enter, Wait, ReturnCached, Claim, Goto
<1>3. ASSUME NEW t \in Threads, Recheck(t) PROVE TypeInv'
  BY <1>3 DEF Recheck, Wait, ReturnCached, Claim, Goto
<1>4. ASSUME NEW t \in Threads, SpuriousWake(t) PROVE TypeInv'
  BY <1>4 DEF SpuriousWake, Goto
<1>5. ASSUME NEW t \in Threads, Mesh(t) \/ Collect(t) PROVE TypeInv'
  <2>1. built' \in [Threads -> {NoCache, Incomplete} \cup 0 .. MaxSetShape]
    BY <1>5 DEF Mesh, Collect
  <2> QED
    BY <1>5, <2>1 DEF Mesh, Collect, Goto
<1>6. ASSUME NEW t \in Threads, BuildThrows(t) PROVE TypeInv'
  <2>1. building' \in BOOLEAN
    BY <1>6 DEF BuildThrows
  <2> QED
    BY <1>6, <2>1 DEF BuildThrows, NotifyAll
<1>7. ASSUME NEW t \in Threads, Store(t) PROVE TypeInv'
  BY <1>7 DEF Store, NotifyAll
<1>8. ASSUME NEW t \in Threads, Deref(t) PROVE TypeInv'
  BY <1>8 DEF Deref, Goto
<1>9. ASSUME NEW t \in Threads, Finish(t) PROVE TypeInv'
  BY <1>9 DEF Finish, Goto
<1>10. CASE StartSetShape
  BY <1>10 DEF StartSetShape, WriteShape
<1>11. CASE ResetCache
  BY <1>11 DEF ResetCache, ResetSurfaceCache
<1>12. CASE OtherSetShapeStep
  BY <1>12 DEF OtherSetShapeStep, ComputeBounds, ComputeBoundsThrows, ResetVolumeArea,
               BumpGeneration, AdapterReset
<1>13. CASE UNCHANGED vars
  BY <1>13 DEF vars
<1> QED
  BY <1>1, <1>2, <1>3, <1>4, <1>5, <1>6, <1>7, <1>8, <1>9, <1>10, <1>11, <1>12, <1>13
  DEF Next, Call, SetShape

(* Type correctness: the counters stay within the number of SetShape()      *)
(* calls, in particular the generation never runs ahead of the shapes.      *)
THEOREM TypeCorrect == Spec => []TypeOK
<1>1. TypeInv => TypeOK
  BY DEF TypeInv
<1> QED
  BY <1>1, TypeInit, TypeStep, PTL DEF Spec

-----------------------------------------------------------------------------
(* The stamps, however SetShape() and the builds are interleaved. *)

(* What a build stores was read from a shape the kernel has held; a stored   *)
(* payload has a stamp, of a generation that was published.                  *)
StampInv ==
  /\ \A t \in Threads : myGen[t] <= gen
  /\ \A t \in Threads : pc[t] = "store" => /\ built[t] # NoCache
                                           /\ built[t] <= shape
  /\ cache # NoCache => /\ cacheGen # NoGen
                        /\ cache <= shape
  /\ cache = NoCache => cacheGen = NoGen

(* There is nothing stored or under construction at the start. *)
LEMMA StampInit == Init => StampInv
  BY KernelShapeAssumption DEF Init, ShapeInit, StampInv, NoCache, NoGen

(* Both change in Store() and in the reset of SetShape() only. *)
LEMMA StampStep == TypeInv /\ StampInv /\ [Next]_vars => StampInv'
<1> USE DEF TypeInv, TypeOK, ShapeTypeOK, GenerationLags, StampInv, NoCache, Incomplete, NoGen,
        shapeVars, cacheVars, callVars
<1> SUFFICES ASSUME TypeInv, StampInv, [Next]_vars PROVE StampInv'
  OBVIOUS
<1>1. ASSUME NEW t \in Threads, LoadGeneration(t) PROVE StampInv'
  BY <1>1 DEF LoadGeneration, Goto
<1>2. ASSUME NEW t \in Threads, Enter(t) PROVE StampInv'
  BY <1>2 DEF Enter, Wait, ReturnCached, Claim, Goto
<1>3. ASSUME NEW t \in Threads, Recheck(t) PROVE StampInv'
  BY <1>3 DEF Recheck, Wait, ReturnCached, Claim, Goto
<1>4. ASSUME NEW t \in Threads, SpuriousWake(t) PROVE StampInv'
  BY <1>4 DEF SpuriousWake, Goto
<1>5. ASSUME NEW t \in Threads, Mesh(t) \/ Collect(t) PROVE StampInv'
  BY <1>5, KernelShapeAssumption DEF Mesh, Collect, Goto
<1>6. ASSUME NEW t \in Threads, BuildThrows(t) PROVE StampInv'
  BY <1>6 DEF BuildThrows, NotifyAll
<1>7. ASSUME NEW t \in Threads, Store(t) PROVE StampInv'
  <2>1. built[t] # NoCache /\ myGen[t] # NoGen
    BY <1>7 DEF Store
  <2>2. CASE Hit(t)
    BY <1>7, <2>2 DEF Store, NotifyAll
  <2>3. CASE ~Hit(t)
    BY <1>7, <2>1, <2>3 DEF Store, NotifyAll
  <2> QED
    BY <2>2, <2>3
<1>8. ASSUME NEW t \in Threads, Deref(t) PROVE StampInv'
  BY <1>8 DEF Deref, Goto
<1>9. ASSUME NEW t \in Threads, Finish(t) PROVE StampInv'
  BY <1>9 DEF Finish, Goto
<1>10. CASE StartSetShape
  BY <1>10, KernelShapeAssumption DEF StartSetShape, WriteShape
<1>11. CASE ResetCache
  BY <1>11 DEF ResetCache, ResetSurfaceCache
<1>12. CASE OtherSetShapeStep
  BY <1>12, KernelShapeAssumption
  DEF OtherSetShapeStep, ComputeBounds, ComputeBoundsThrows, ResetVolumeArea,
      BumpGeneration, AdapterReset
<1>13. CASE UNCHANGED vars
  BY <1>13 DEF vars
<1> QED
  BY <1>1, <1>2, <1>3, <1>4, <1>5, <1>6, <1>7, <1>8, <1>9, <1>10, <1>11, <1>12, <1>13
  DEF Next, Call, SetShape

(* What is derived describes the shape from ComputeBounds() on; a failed one *)
(* leaves it behind.                                                        *)
ShapePhase ==
  /\ derived <= shape
  /\ setter \notin {"idle", "computeBounds"} => derived = shape

(* SetShape() is not between the start of ComputeBounds() and the increment. *)
(* Only then is the generation that of the last shape installed ...          *)
Published == setter \in {"idle", "computeBounds", "adapter"} /\ ~HalfDerived

(* ... and what is stored, or about to be, under that generation is no older *)
(* than the shape it was published for.                                      *)
CurrentInv ==
  /\ ShapePhase
  /\ cacheGen <= gen
  /\ Published => /\ cache # NoCache /\ cacheGen = gen => derived <= cache
                  /\ \A t \in Threads :
                       pc[t] = "store" /\ myGen[t] = gen => derived <= built[t]

(* Holds of the constructor's shape. *)
LEMMA CurrentInit == Init => CurrentInv
  BY DEF Init, ShapeInit, CurrentInv, ShapePhase, NoCache, NoGen

(* A build reads fShape after its generation was published; publishing a     *)
(* generation makes every earlier build and payload one of the past.         *)
LEMMA CurrentStep == TypeInv /\ StampInv /\ CurrentInv /\ [Next]_vars => CurrentInv'
<1> USE DEF TypeInv, TypeOK, ShapeTypeOK, StampInv, CurrentInv, ShapePhase, Published,
        HalfDerived, NoCache, Incomplete, NoGen, shapeVars, cacheVars, callVars
<1> SUFFICES ASSUME TypeInv, StampInv, CurrentInv, [Next]_vars PROVE CurrentInv'
  OBVIOUS
<1>1. ASSUME NEW t \in Threads, LoadGeneration(t) PROVE CurrentInv'
  BY <1>1 DEF LoadGeneration, Goto
<1>2. ASSUME NEW t \in Threads, Enter(t) \/ Recheck(t) PROVE CurrentInv'
  BY <1>2 DEF Enter, Recheck, Wait, ReturnCached, Claim, Goto
<1>3. ASSUME NEW t \in Threads, SpuriousWake(t) \/ Deref(t) \/ Finish(t) PROVE CurrentInv'
  BY <1>3 DEF SpuriousWake, Deref, Finish, Goto
<1>4. ASSUME NEW t \in Threads, Mesh(t) \/ Collect(t) PROVE CurrentInv'
  BY <1>4, KernelShapeAssumption DEF Mesh, Collect, Goto
<1>5. ASSUME NEW t \in Threads, BuildThrows(t) PROVE CurrentInv'
  BY <1>5 DEF BuildThrows, NotifyAll
<1>6. ASSUME NEW t \in Threads, Store(t) PROVE CurrentInv'
  <2>1. CASE Hit(t)
    BY <1>6, <2>1 DEF Store, NotifyAll
  <2>2. CASE ~Hit(t)
    BY <1>6, <2>2 DEF Store, NotifyAll
  <2> QED
    BY <2>1, <2>2
<1>7. CASE StartSetShape
  BY <1>7, KernelShapeAssumption DEF StartSetShape, WriteShape
<1>8. CASE ResetCache
  BY <1>8, KernelShapeAssumption DEF ResetCache, ResetSurfaceCache
<1>9. CASE OtherSetShapeStep
  BY <1>9, KernelShapeAssumption
  DEF OtherSetShapeStep, ComputeBounds, ComputeBoundsThrows, ResetVolumeArea,
      BumpGeneration, AdapterReset
<1>10. CASE UNCHANGED vars
  BY <1>10 DEF vars
<1> QED
  BY <1>1, <1>2, <1>3, <1>4, <1>5, <1>6, <1>7, <1>8, <1>9, <1>10 DEF Next, Call, SetShape

(* Once a SetShape() has succeeded, a payload stamped with the kernel's      *)
(* generation is the tessellation of the kernel's shape; SetShape() may      *)
(* overlap any number of builds, and any of them may have thrown.            *)
THEOREM StampsAreSound == Spec => []StampSound
<1>1. TypeInv /\ StampInv /\ CurrentInv => StampSound
  BY KernelShapeAssumption
  DEF TypeInv, TypeOK, ShapeTypeOK, StampInv, CurrentInv, Published, HalfDerived, Settled,
      StampSound, NoCache
<1> QED
  BY <1>1, TypeInit, TypeStep, StampInit, StampStep, CurrentInit, CurrentStep, PTL DEF Spec

-----------------------------------------------------------------------------
(* When every shape has a bounding box, the generation is the shape except   *)
(* inside SetShape().                                                        *)
GenerationCounts ==
  /\ setter \in {"idle", "adapter"} => shape = gen
  /\ setter \notin {"idle", "adapter"} => shape = gen + 1

(* Holds of the constructor's shape. *)
LEMMA CountInit == Init => GenerationCounts
  BY DEF Init, ShapeInit, GenerationCounts

(* Each successful SetShape() adds one to both. *)
LEMMA CountStep ==
  ASSUME VoidShapes = {}
  PROVE  TypeInv /\ GenerationCounts /\ [Next]_vars => GenerationCounts'
<1> SUFFICES ASSUME TypeInv, GenerationCounts, [Next]_vars PROVE GenerationCounts'
  OBVIOUS
<1>1. ASSUME NEW t \in Threads, Call(t) PROVE UNCHANGED shapeVars
  BY <1>1 DEF Call, LoadGeneration, Enter, Recheck, SpuriousWake, Mesh, Collect,
              BuildThrows, Store, Deref, Finish
<1>2. CASE UNCHANGED shapeVars
  BY <1>2 DEF shapeVars, GenerationCounts
<1>3. CASE SetShape
  BY <1>3, KernelShapeAssumption
  DEF SetShape, StartSetShape, WriteShape, ResetCache, ResetSurfaceCache, OtherSetShapeStep,
      ComputeBounds, ComputeBoundsThrows, ResetVolumeArea, BumpGeneration, AdapterReset,
      GenerationCounts, TypeInv, TypeOK, ShapeTypeOK
<1> QED
  BY <1>1, <1>2, <1>3 DEF Next, vars

(* Single flight, when SetShape() keeps out of the way of queries. *)

(* The documented use: nobody is inside a call while SetShape() runs, hence  *)
(* every call works for the kernel's generation.                             *)
Quiet ==
  /\ setter # "idle" => \A t \in Threads : pc[t] = "idle"
  /\ \A t \in Threads : pc[t] # "idle" => myGen[t] = gen

(* A build is under way only while the generation's payload is missing, and  *)
(* a thread is on its way to the reference only once it is stored: together  *)
(* they keep a second payload from replacing the first.                      *)
FlightInv ==
  /\ Quiet
  /\ building => \E t \in Threads : pc[t] \in {"build", "collect", "store"}
  /\ \A t \in Threads : pc[t] \in {"build", "collect", "store"} => building /\ ~Hit(t)
  /\ \A t, u \in Threads :
        pc[t] \in {"build", "collect", "store"} /\ pc[u] \in {"build", "collect", "store"} => t = u
  /\ \A t \in Threads : pc[t] \in {"deref", "reading"} => Hit(t)

(* Everyone is idle at the start. *)
LEMMA FlightInit == Init => FlightInv
  BY DEF Init, ShapeInit, FlightInv, Quiet, Hit, NoCache

(* Claims are made by one thread at a time and on a miss; storing turns      *)
(* every waiter's miss into a hit.                                           *)
LEMMA FlightStep ==
  ASSUME ~Overlap
  PROVE  TypeInv /\ StampInv /\ FlightInv /\ [Next]_vars => FlightInv'
<1> USE DEF TypeInv, TypeOK, ShapeTypeOK, StampInv, FlightInv, Quiet, Hit,
        shapeVars, cacheVars, callVars
<1> SUFFICES ASSUME TypeInv, StampInv, FlightInv, [Next]_vars PROVE FlightInv'
  OBVIOUS
<1>1. ASSUME NEW t \in Threads, LoadGeneration(t) PROVE FlightInv'
  BY <1>1 DEF LoadGeneration, Goto, QueryAllowed
<1>2. ASSUME NEW t \in Threads, Enter(t) PROVE FlightInv'
  BY <1>2 DEF Enter, Wait, ReturnCached, Claim, Goto
<1>3. ASSUME NEW t \in Threads, Recheck(t) PROVE FlightInv'
  BY <1>3 DEF Recheck, Wait, ReturnCached, Claim, Goto
<1>4. ASSUME NEW t \in Threads, SpuriousWake(t) PROVE FlightInv'
  BY <1>4 DEF SpuriousWake, Goto
<1>5. ASSUME NEW t \in Threads, Mesh(t) \/ Collect(t) PROVE FlightInv'
  BY <1>5 DEF Mesh, Collect, Goto
<1>6. ASSUME NEW t \in Threads, BuildThrows(t) PROVE FlightInv'
  BY <1>6 DEF BuildThrows, NotifyAll
<1>7. ASSUME NEW t \in Threads, Store(t) PROVE FlightInv'
  <2>1. cache' = built[t] /\ cacheGen' = gen /\ built[t] # NoCache
    BY <1>7 DEF Store
  <2> QED
    BY <1>7, <2>1 DEF Store, NotifyAll
<1>8. ASSUME NEW t \in Threads, Deref(t) PROVE FlightInv'
  BY <1>8 DEF Deref, Goto
<1>9. ASSUME NEW t \in Threads, Finish(t) PROVE FlightInv'
  BY <1>9 DEF Finish, Goto
<1>10. CASE StartSetShape
  BY <1>10 DEF StartSetShape, WriteShape
<1>11. CASE ResetCache
  BY <1>11 DEF ResetCache, ResetSurfaceCache
<1>12. CASE OtherSetShapeStep
  BY <1>12 DEF OtherSetShapeStep, ComputeBounds, ComputeBoundsThrows, ResetVolumeArea,
               BumpGeneration, AdapterReset
<1>13. CASE UNCHANGED vars
  BY <1>13 DEF vars
<1> QED
  BY <1>1, <1>2, <1>3, <1>4, <1>5, <1>6, <1>7, <1>8, <1>9, <1>10, <1>11, <1>12, <1>13
  DEF Next, Call, SetShape

(* While SetShape() is kept out of queries, the flag is set exactly while    *)
(* one thread builds, even when SetShape() or builds throw.                  *)
THEOREM SingleBuilder ==
  ASSUME ~Overlap
  PROVE  Spec => []OneBuilder
<1>1. FlightInv => OneBuilder
  BY DEF FlightInv, OneBuilder, Builders
<1> QED
  BY <1>1, TypeInit, TypeStep, StampInit, StampStep, FlightInit, FlightStep, PTL DEF Spec

(* ... and it only builds what is not stored. *)
THEOREM BuildsOnlyOnMiss ==
  ASSUME ~Overlap
  PROVE  Spec => []BuildOnlyOnMiss
<1>1. FlightInv => BuildOnlyOnMiss
  BY DEF FlightInv, BuildOnlyOnMiss, Builders
<1> QED
  BY <1>1, TypeInit, TypeStep, StampInit, StampStep, FlightInit, FlightStep, PTL DEF Spec

(* The payload stays put while a reference to it is out. *)
THEOREM ReferencesStayValid ==
  ASSUME ~Overlap
  PROVE  Spec => ReadersUndisturbed
<1>1. ASSUME TypeInv, StampInv, FlightInv, [Next]_vars
      PROVE  [Holders # {} => UNCHANGED <<cache, cacheGen>>]_vars
  <2> SUFFICES ASSUME NEW h \in Threads, pc[h] \in {"deref", "reading"}, Next
               PROVE  UNCHANGED <<cache, cacheGen>>
    BY <1>1 DEF Holders
  <2>1. cache # NoCache /\ cacheGen = gen /\ setter = "idle"
    BY <1>1 DEF FlightInv, Quiet, Hit
  <2>2. ASSUME NEW t \in Threads, Store(t) PROVE UNCHANGED <<cache, cacheGen>>
    BY <1>1, <2>1, <2>2 DEF FlightInv, Quiet, Hit, Store
  <2>3. CASE ResetCache
    BY <2>1, <2>3 DEF ResetCache, ResetSurfaceCache
  <2> QED
    BY <2>2, <2>3
    DEF Next, SetShape, StartSetShape, OtherSetShapeStep, Call, LoadGeneration, Enter,
        Recheck, SpuriousWake, Mesh, Collect, BuildThrows, Deref, Finish, cacheVars
<1> QED
  BY <1>1, TypeInit, TypeStep, StampInit, StampStep, FlightInit, FlightStep, PTL
  DEF Spec, ReadersUndisturbed

-----------------------------------------------------------------------------
(* The detailed cache implements SingleFlight. *)

(* With one builder, the mapping's CHOOSE names it. *)
LEMMA BuilderNamed ==
  ASSUME FlightInv
  PROVE  /\ Builders = {} => MappedBuilder = NoCache
         /\ \A t \in Threads : pc[t] \in {"build", "collect", "store"} => MappedBuilder = t
<1>1. ASSUME NEW t \in Threads, pc[t] \in {"build", "collect", "store"}
      PROVE  MappedBuilder = t
  <2>1. t \in Builders
    BY <1>1 DEF Builders
  <2>2. \A u \in Threads : u \in Builders => u = t
    BY <1>1 DEF Builders, FlightInv
  <2> QED
    BY <2>1, <2>2 DEF MappedBuilder
<1> QED
  BY <1>1 DEF MappedBuilder

(* Without overlap a build reads fShape in the generation it was claimed for: *)
(* the stamp of a payload is exactly the shape it tessellates.                *)
ExactInv ==
  /\ cache # NoCache => cache = cacheGen /\ cacheGen <= gen
  /\ \A t \in Threads : pc[t] = "store" => built[t] = myGen[t]

AllInv == TypeInv /\ StampInv /\ GenerationCounts /\ FlightInv /\ ExactInv

(* Nothing is built at the start. *)
LEMMA ExactInit == Init => ExactInv
  BY DEF Init, ExactInv

(* A builder finds SetShape() idle, hence the shape equal to the generation. *)
LEMMA ExactStep ==
  ASSUME ~Overlap, VoidShapes = {}
  PROVE  AllInv /\ [Next]_vars => ExactInv'
<1> SUFFICES ASSUME AllInv, [Next]_vars PROVE ExactInv'
  OBVIOUS
<1> USE DEF AllInv, ExactInv, TypeInv, TypeOK, ShapeTypeOK, shapeVars, cacheVars, callVars
<1>1. ASSUME NEW t \in Threads, Mesh(t) \/ Collect(t) PROVE ExactInv'
  <2>1. shape = gen /\ myGen[t] = gen /\ ~HalfDerived
    BY <1>1 DEF Mesh, Collect, FlightInv, Quiet, GenerationCounts, HalfDerived
  <2> QED
    BY <1>1, <2>1 DEF Mesh, Collect, Goto
<1>2. ASSUME NEW t \in Threads, Store(t) PROVE ExactInv'
  <2>1. myGen[t] = gen
    BY <1>2 DEF Store, FlightInv, Quiet
  <2> QED
    BY <1>2, <2>1 DEF Store, NotifyAll
<1>3. ASSUME NEW t \in Threads, Call(t), ~Mesh(t), ~Collect(t), ~Store(t) PROVE ExactInv'
  BY <1>3 DEF Call, LoadGeneration, Enter, Recheck, SpuriousWake, BuildThrows, Deref,
              Finish, Wait, ReturnCached, Claim, Goto, NotifyAll, FlightInv, Quiet
<1>4. CASE SetShape
  BY <1>4, KernelShapeAssumption
  DEF SetShape, StartSetShape, WriteShape, ResetCache, ResetSurfaceCache, OtherSetShapeStep,
      ComputeBounds, ComputeBoundsThrows, ResetVolumeArea, BumpGeneration, AdapterReset,
      StampInv, NoCache
<1>5. CASE UNCHANGED vars
  BY <1>5 DEF vars
<1> QED
  BY <1>1, <1>2, <1>3, <1>4, <1>5 DEF Next

(* All the invariants together, for the documented use of SetShape(). *)
LEMMA AllInvariant ==
  ASSUME ~Overlap, VoidShapes = {}
  PROVE  Spec => []AllInv
<1>1. Init => AllInv
  BY TypeInit, StampInit, CountInit, FlightInit, ExactInit DEF AllInv
<1>2. AllInv /\ [Next]_vars => AllInv'
  BY TypeStep, StampStep, CountStep, FlightStep, ExactStep DEF AllInv
<1> QED
  BY <1>1, <1>2, PTL DEF Spec

(* Whoever dereferences fSurfaceCache or still uses the reference sees the   *)
(* tessellation of the shape the kernel holds.                               *)
THEOREM HoldersAreCurrent ==
  ASSUME ~Overlap, VoidShapes = {}
  PROVE  Spec => []HoldersSeeCurrentShape
<1>1. AllInv => HoldersSeeCurrentShape
  BY DEF AllInv, ExactInv, GenerationCounts, FlightInv, Quiet, Hit, HoldersSeeCurrentShape,
         Holders
<1> QED
  BY <1>1, AllInvariant, PTL

(* Outside SetShape() the mapped table is filled exactly on a hit. *)
LEMMA TableMeansHit ==
  ASSUME AllInv, setter = "idle"
  PROVE  /\ MappedTable = shape <=> cache # NoCache /\ cacheGen = gen
         /\ MappedTable = NoCache <=> ~(cache # NoCache /\ cacheGen = gen)
  BY KernelShapeAssumption
  DEF AllInv, TypeInv, TypeOK, ShapeTypeOK, ExactInv, GenerationCounts, StampInv,
      MappedTable, NoCache

(* What a program counter stands for in SingleFlight. *)
Meaning(label) == CASE label = "idle" -> "idle"
                    [] label = "reading" -> "answered"
                    [] OTHER -> "asked"

(* A thread that moves to a label, waking the waiters or not, moves its call  *)
(* to the meaning of the label and nobody else's.                             *)
LEMMA CallMoves ==
  ASSUME NEW t \in Threads, NEW label \in PCs, TypeOK,
         Goto(t, label) \/ NotifyAll(t, label)
  PROVE  MappedCall' = [MappedCall EXCEPT ![t] = Meaning(label)]
<1>1. CASE Goto(t, label)
  BY <1>1 DEF MappedCall, TypeOK, Goto, Meaning
<1>2. CASE NotifyAll(t, label)
  BY <1>2 DEF MappedCall, TypeOK, NotifyAll, Meaning
<1> QED
  BY <1>1, <1>2

(* The builder stays the same when nobody enters or leaves a build. *)
LEMMA BuilderStays ==
  ASSUME \A u \in Threads : pc'[u] \in {"build", "collect", "store"} <=> pc[u] \in {"build", "collect", "store"}
  PROVE  MappedBuilder' = MappedBuilder
<1>1. Builders' = Builders
  BY DEF Builders
<1> QED
  BY <1>1 DEF MappedBuilder

(* The table and the version depend on the shape and the payload only. *)
LEMMA TableStays ==
  ASSUME UNCHANGED <<shape, cache>>
  PROVE  MappedTable' = MappedTable
  BY DEF MappedTable

(* Every step of the cache is a step of SingleFlight or leaves it alone. *)
LEMMA FlightRefinementStep ==
  ASSUME ~Overlap, VoidShapes = {}
  PROVE  AllInv /\ AllInv' /\ [Next]_vars => [Flight!Next]_(Flight!vars)
<1> SUFFICES ASSUME AllInv, AllInv', [Next]_vars
             PROVE  [Flight!Next]_(Flight!vars)
  OBVIOUS
<1> USE DEF Flight!vars
<1>0. TypeOK /\ FlightInv /\ FlightInv' /\ pc \in [Threads -> PCs]
  BY DEF AllInv, TypeInv, TypeOK
<1>1. ASSUME NEW t \in Threads, LoadGeneration(t) PROVE Flight!Ask(t)
  <2>1. Goto(t, "lock") /\ pc[t] = "idle" /\ UNCHANGED <<shape, cache>>
    BY <1>1 DEF LoadGeneration, shapeVars, cacheVars
  <2>2. UNCHANGED <<MappedTable, MappedBuilder>>
    BY <2>1, <1>0, TableStays, BuilderStays DEF Goto
  <2>3. MappedCall[t] = "idle" /\ MappedCall' = [MappedCall EXCEPT ![t] = "asked"]
    BY <2>1, <1>0, CallMoves DEF MappedCall, PCs, Meaning
  <2> QED
    BY <2>1, <2>2, <2>3 DEF Flight!Ask
<1>2. ASSUME NEW t \in Threads, Enter(t) \/ Recheck(t)
      PROVE  Flight!Answer(t) \/ Flight!Begin(t) \/ UNCHANGED Flight!vars
  <2>1. /\ pc[t] \in {"lock", "woken"} /\ UNCHANGED <<shape, cache>>
        /\ \/ Goto(t, "waiting")
           \/ Goto(t, "reading") /\ Hit(t)
           \/ Goto(t, "build") /\ ~building /\ ~Hit(t)
    BY <1>2 DEF Enter, Recheck, Wait, ReturnCached, Claim, shapeVars
  <2>2. UNCHANGED MappedTable
    BY <2>1, TableStays
  <2>3. setter = "idle" /\ myGen[t] = gen /\ MappedCall[t] = "asked"
    BY <2>1, <1>0 DEF FlightInv, Quiet, MappedCall
  <2>4. CASE Goto(t, "waiting")
    <3>1. UNCHANGED MappedBuilder
      BY <2>1, <2>4, <1>0, BuilderStays DEF Goto
    <3>2. MappedCall' = [MappedCall EXCEPT ![t] = "asked"]
      BY <2>4, <1>0, CallMoves DEF PCs, Meaning
    <3>3. UNCHANGED MappedCall
      BY <2>3, <3>2 DEF MappedCall
    <3> QED
      BY <2>1, <2>2, <3>1, <3>3
  <2>5. CASE Goto(t, "reading") /\ Hit(t)
    <3>1. UNCHANGED MappedBuilder
      BY <2>1, <2>5, <1>0, BuilderStays DEF Goto
    <3>2. MappedCall' = [MappedCall EXCEPT ![t] = "answered"]
      BY <2>5, <1>0, CallMoves DEF PCs, Meaning
    <3>3. MappedTable = shape
      BY <2>3, <2>5, TableMeansHit DEF Hit
    <3>4. MappedBuilder # t
      <4>1. Builders = {}
        BY <2>3, <2>5, <1>0 DEF Builders, FlightInv, Quiet, Hit
      <4> QED
        BY <4>1, ThreadsAssumption DEF MappedBuilder
    <3> QED
      BY <2>1, <2>2, <2>3, <3>1, <3>2, <3>3, <3>4 DEF Flight!Answer
  <2>6. CASE Goto(t, "build") /\ ~building /\ ~Hit(t)
    <3>1. MappedBuilder = NoCache
      BY <2>6, <1>0, BuilderNamed DEF Builders, FlightInv
    <3>2. pc'[t] \in {"build", "collect", "store"}
      BY <2>6, <1>0 DEF Goto
    <3>3. MappedBuilder' = t
      <4>1. t \in Builders' /\ \A u \in Threads : u \in Builders' => u = t
        BY <3>2, <1>0 DEF Builders, FlightInv
      <4> QED
        BY <4>1 DEF MappedBuilder
    <3>4. MappedCall' = [MappedCall EXCEPT ![t] = "asked"]
      BY <2>6, <1>0, CallMoves DEF PCs, Meaning
    <3>5. UNCHANGED MappedCall
      BY <2>3, <3>4 DEF MappedCall
    <3>6. MappedTable = NoCache
      BY <2>3, <2>6, TableMeansHit DEF Hit
    <3> QED
      BY <2>1, <2>2, <2>3, <3>1, <3>3, <3>5, <3>6 DEF Flight!Begin
  <2> QED
    BY <2>1, <2>4, <2>5, <2>6
<1>3. ASSUME NEW t \in Threads, SpuriousWake(t) \/ Mesh(t) \/ Collect(t)
      PROVE  UNCHANGED Flight!vars
  <2>1. /\ UNCHANGED <<shape, cache>>
        /\ \/ pc[t] = "waiting" /\ Goto(t, "woken")
           \/ pc[t] = "build" /\ Goto(t, "collect")
           \/ pc[t] = "collect" /\ Goto(t, "store")
    BY <1>3 DEF SpuriousWake, Mesh, Collect, shapeVars, cacheVars
  <2>2. UNCHANGED <<MappedTable, MappedBuilder>>
    BY <2>1, <1>0, TableStays, BuilderStays DEF Goto
  <2>3. MappedCall' = [MappedCall EXCEPT ![t] = "asked"] /\ MappedCall[t] = "asked"
    BY <2>1, <1>0, CallMoves DEF PCs, Meaning, MappedCall
  <2>4. UNCHANGED MappedCall
    BY <2>3 DEF MappedCall
  <2> QED
    BY <2>1, <2>2, <2>4
<1>4. ASSUME NEW t \in Threads, BuildThrows(t) PROVE Flight!Abandon(t)
  <2>1. pc[t] \in {"build", "collect"} /\ NotifyAll(t, "idle") /\ UNCHANGED <<shape, cache>>
    BY <1>4 DEF BuildThrows, shapeVars
  <2>2. MappedBuilder = t
    BY <2>1, <1>0, BuilderNamed
  <2>3. MappedBuilder' = NoCache
    <3>1. \A u \in Threads : pc'[u] \notin {"build", "collect", "store"}
      BY <2>1, <1>0 DEF NotifyAll, FlightInv
    <3>2. Builders' = {}
      BY <3>1 DEF Builders
    <3> QED
      BY <3>2 DEF MappedBuilder
  <2>4. MappedCall' = [MappedCall EXCEPT ![t] = "idle"]
    BY <2>1, <1>0, CallMoves DEF PCs, Meaning
  <2> QED
    BY <2>1, <2>2, <2>3, <2>4, TableStays DEF Flight!Abandon
<1>5. ASSUME NEW t \in Threads, Store(t) PROVE Flight!Complete(t)
  <2>1. pc[t] = "store" /\ NotifyAll(t, "deref") /\ UNCHANGED shape /\ ~Hit(t)
    BY <1>5, <1>0 DEF Store, shapeVars, FlightInv
  <2>2. MappedBuilder = t
    BY <2>1, <1>0, BuilderNamed
  <2>3. MappedBuilder' = NoCache
    <3>1. \A u \in Threads : pc'[u] \notin {"build", "collect", "store"}
      BY <2>1, <1>0 DEF NotifyAll, FlightInv
    <3>2. Builders' = {}
      BY <3>1 DEF Builders
    <3> QED
      BY <3>2 DEF MappedBuilder
  <2>4. MappedCall' = [MappedCall EXCEPT ![t] = "asked"] /\ MappedCall[t] = "asked"
    BY <2>1, <1>0, CallMoves DEF PCs, Meaning, MappedCall
  <2>5. UNCHANGED MappedCall
    BY <2>4 DEF MappedCall
  <2>6. cache' = shape
    <3>1. cache' = built[t] /\ built[t] = myGen[t] /\ myGen[t] = gen /\ setter = "idle"
      BY <1>5, <2>1 DEF Store, AllInv, ExactInv, FlightInv, Quiet
    <3> QED
      BY <3>1 DEF AllInv, GenerationCounts
  <2> QED
    BY <2>1, <2>2, <2>3, <2>5, <2>6 DEF Flight!Complete, MappedTable
<1>6. ASSUME NEW t \in Threads, Deref(t) PROVE Flight!Answer(t)
  <2>1. pc[t] = "deref" /\ Goto(t, "reading") /\ UNCHANGED <<shape, cache>>
    BY <1>6 DEF Deref, shapeVars, cacheVars
  <2>2. UNCHANGED <<MappedTable, MappedBuilder>>
    BY <2>1, <1>0, TableStays, BuilderStays DEF Goto
  <2>3. MappedCall' = [MappedCall EXCEPT ![t] = "answered"] /\ MappedCall[t] = "asked"
    BY <2>1, <1>0, CallMoves DEF PCs, Meaning, MappedCall
  <2>4. setter = "idle" /\ cache # NoCache /\ cacheGen = gen
    BY <2>1, <1>0 DEF FlightInv, Quiet, Hit
  <2>5. MappedTable = shape
    BY <2>4, TableMeansHit
  <2>6. Builders = {}
    BY <2>4, <1>0 DEF Builders, FlightInv, Quiet, Hit
  <2>7. MappedBuilder # t
    BY <2>6, ThreadsAssumption DEF MappedBuilder
  <2> QED
    BY <2>1, <2>2, <2>3, <2>5, <2>7 DEF Flight!Answer
<1>7. ASSUME NEW t \in Threads, Finish(t) PROVE Flight!Release(t)
  <2>1. pc[t] = "reading" /\ Goto(t, "idle") /\ UNCHANGED <<shape, cache>>
    BY <1>7 DEF Finish, shapeVars, cacheVars
  <2>2. UNCHANGED <<MappedTable, MappedBuilder>>
    BY <2>1, <1>0, TableStays, BuilderStays DEF Goto
  <2>3. MappedCall' = [MappedCall EXCEPT ![t] = "idle"] /\ MappedCall[t] = "answered"
    BY <2>1, <1>0, CallMoves DEF PCs, Meaning, MappedCall
  <2> QED
    BY <2>1, <2>2, <2>3 DEF Flight!Release
<1>8. CASE StartSetShape
  <2>1. /\ \A t \in Threads : pc[t] = "idle"
        /\ setter = "idle" /\ shape' = shape + 1 /\ UNCHANGED <<cache, pc>>
    BY <1>8 DEF StartSetShape, WriteShape, cacheVars, callVars
  <2>2. UNCHANGED <<MappedBuilder, MappedCall>>
    BY <2>1, BuilderStays DEF MappedCall
  <2>3. MappedTable' = NoCache
    BY <2>1, KernelShapeAssumption
    DEF AllInv, TypeInv, TypeOK, ShapeTypeOK, StampInv, MappedTable, NoCache
  <2>4. \A t \in Threads : MappedCall[t] = "idle"
    BY <2>1 DEF MappedCall
  <2> QED
    BY <2>1, <2>2, <2>3, <2>4 DEF Flight!Replace, Flight!Next
<1>9. CASE ResetCache
  <2>1. /\ setter = "resetSurfaceCache" /\ cache' = NoCache /\ UNCHANGED shape
        /\ \A t \in Threads : pc[t] = "idle"
    BY <1>9, <1>0 DEF ResetCache, ResetSurfaceCache, FlightInv, Quiet
  <2>2. UNCHANGED pc
    BY <1>9, <2>1, <1>0 DEF ResetCache
  <2>3. cache # shape /\ shape # NoCache
    BY <2>1, KernelShapeAssumption
    DEF AllInv, TypeInv, TypeOK, ShapeTypeOK, ExactInv, GenerationCounts, NoCache
  <2> QED
    BY <2>1, <2>2, <2>3, BuilderStays DEF MappedTable, MappedCall
<1>10. CASE OtherSetShapeStep
  <2>1. UNCHANGED <<shape, cache, pc>>
    BY <1>10 DEF OtherSetShapeStep, ComputeBounds, ComputeBoundsThrows, ResetVolumeArea,
                 BumpGeneration, AdapterReset, cacheVars, callVars
  <2> QED
    BY <2>1, BuilderStays, TableStays DEF MappedCall
<1>11. CASE UNCHANGED vars
  <2>1. UNCHANGED <<shape, cache, pc>>
    BY <1>11 DEF vars, shapeVars, cacheVars, callVars
  <2> QED
    BY <2>1, BuilderStays, TableStays DEF MappedCall
<1>12. ASSUME NEW t \in Threads, Call(t) PROVE [Flight!Next]_(Flight!vars)
  <2>1. \/ Flight!Ask(t) \/ Flight!Begin(t) \/ Flight!Complete(t)
        \/ Flight!Abandon(t) \/ Flight!Answer(t) \/ Flight!Release(t)
        \/ UNCHANGED Flight!vars
    BY <1>12, <1>1, <1>2, <1>3, <1>4, <1>5, <1>6, <1>7 DEF Call
  <2> QED
    BY <2>1 DEF Flight!Next
<1>13. CASE SetShape
  BY <1>13, <1>8, <1>9, <1>10 DEF SetShape, Flight!Next
<1> QED
  BY <1>11, <1>12, <1>13 DEF Next

(* The mutex, the flag, the condition variable and the generations together  *)
(* give callers a table built once per shape by one thread at a time and     *)
(* handed out only for the shape it belongs to.                              *)
THEOREM SurfaceCacheImplementsSingleFlight ==
  ASSUME ~Overlap, VoidShapes = {}
  PROVE  Spec => ImplementsSingleFlight
<1>1. Init => Flight!Init
  <2> SUFFICES ASSUME Init PROVE Flight!Init
    OBVIOUS
  <2>1. Builders = {}
    BY DEF Init, Builders
  <2> QED
    BY <2>1 DEF Init, ShapeInit, Flight!Init, MappedTable, MappedBuilder, MappedCall, NoCache
<1> QED
  BY <1>1, AllInvariant, FlightRefinementStep, PTL
  DEF Spec, ImplementsSingleFlight, Flight!Spec

-----------------------------------------------------------------------------
Payloads == {NoCache, Incomplete} \cup 0 .. MaxSetShape
Gens     == {NoGen} \cup 0 .. MaxSetShape

AtStates == {"idle", "loop", "check", "build", "publish", "return"}

DisplayTypes ==
  /\ bridge \in BOOLEAN /\ overrun \in BOOLEAN
  /\ mesh \in [of : Payloads, gen : Gens]
  /\ helper \in [of : Payloads, gen : Gens]
  /\ at \in [Threads -> AtStates]
  /\ ask \in [Threads -> 0 .. MaxSetShape]
  /\ copied \in [Threads -> Payloads]
  /\ drawGen \in Gens

(* A thread is inside GetOrBuildSurfaceCache() only from DisplayMesh(), and *)
(* each generation it loads is no older than the one it loaded before.      *)
Order ==
  /\ \A t \in Threads :
       /\ pc[t] # "idle" => at[t] = "build" /\ ask[t] <= myGen[t]
       /\ ask[t] <= gen
       /\ copied[t] <= shape
  /\ at[Drawer] \in {"check", "build", "publish"} => drawGen <= ask[Drawer]
  /\ drawGen <= gen
  /\ mesh.gen <= gen /\ mesh.of <= shape
  /\ helper.gen <= gen /\ helper.of <= shape

(* While the generation is that of the shape described, what carries it on  *)
(* its way from the tessellation to the screen is no older than that shape. *)
Fresh ==
  /\ \A t \in Threads :
       /\ pc[t] \in {"deref", "reading"} /\ myGen[t] = gen => cache # NoCache /\ cacheGen = gen
       /\ at[t] = "publish" /\ ask[t] = gen => derived <= copied[t]
  /\ mesh.of # NoCache /\ mesh.gen = gen => derived <= mesh.of
  /\ at[Drawer] = "return" /\ drawGen = gen => derived <= copied[Drawer]
  /\ helper.of # NoCache /\ helper.gen = gen => derived <= helper.of

CacheInv   == TypeInv /\ StampInv /\ CurrentInv
DisplayInv == DisplayTypes /\ Order /\ (~overrun /\ Published => Fresh)

-----------------------------------------------------------------------------
(* A step of the display is a step of the tessellation's threads, or none   *)
(* of theirs.                                                               *)
LEMMA DisplayStepIsCacheStep == [DisplayNext]_allVars => [Next]_vars
<1> SUFFICES ASSUME [DisplayNext]_allVars PROVE [Next]_vars
  OBVIOUS
<1>1. ASSUME NEW t \in Threads, DisplayMesh(t) PROVE [Next]_vars
  <2>1. CASE BuildSurface(t)
    BY <2>1 DEF BuildSurface, Next, Call
  <2>2. CASE BuildSurfaceThrows(t)
    BY <2>2 DEF BuildSurfaceThrows, Next, Call
  <2>3. CASE CopyTriangles(t)
    BY <2>3 DEF CopyTriangles, Next, Call
  <2> QED
    BY <1>1, <2>1, <2>2, <2>3
    DEF DisplayMesh, CallDisplayMesh, LoadDisplayGeneration, CheckMesh, Publish, Return
<1>2. CASE SetKernelShape \/ ResetHelper
  BY <1>2 DEF SetKernelShape, ResetHelper, Next, SetShape
<1>3. CASE EnsureWithoutBridge \/ EnsureDisplayHelper \/ AssignHelper \/ InstallBridge
  BY <1>3 DEF EnsureWithoutBridge, EnsureDisplayHelper, AssignHelper, InstallBridge
<1> QED
  BY <1>1, <1>2, <1>3 DEF DisplayNext, allVars

(* DisplayMesh() is one of the callers that SurfaceCache stands for: what   *)
(* holds of the shared tessellation holds while it is drawn.                *)
THEOREM DisplayUsesCache == DisplayInit /\ [][DisplayNext]_allVars => Spec
<1>1. DisplayInit => Init
  BY DEF DisplayInit
<1> QED
  BY <1>1, DisplayStepIsCacheStep, PTL DEF Spec

LEMMA DisplayInvInit == DisplayInit => DisplayInv
<1> SUFFICES ASSUME DisplayInit PROVE DisplayInv
  OBVIOUS
<1> USE KernelShapeAssumption DEF DisplayInit, Init, ShapeInit, Nothing, NoCache, NoGen, Incomplete
<1>0. bridge \in BOOLEAN /\ overrun \in BOOLEAN
  OBVIOUS
<1>1. DisplayTypes
  BY <1>0 DEF DisplayTypes, Payloads, Gens, AtStates
<1>2. Order
  BY DrawerAssumption DEF Order
<1>3. Fresh
  BY DrawerAssumption DEF Fresh
<1> QED
  BY <1>1, <1>2, <1>3 DEF DisplayInv

-----------------------------------------------------------------------------
(* Types. *)
LEMMA DisplayTypesStep ==
  TypeInv /\ DisplayTypes /\ [DisplayNext]_allVars => DisplayTypes'
<1> SUFFICES ASSUME TypeInv, DisplayTypes, [DisplayNext]_allVars PROVE DisplayTypes'
  OBVIOUS
<1> USE DEF DisplayTypes, Payloads, Gens, AtStates, NoCache, Incomplete, NoGen, Nothing, EmptyHelper,
        TypeInv, TypeOK, ShapeTypeOK, Step
<1>1. CASE EnsureWithoutBridge
  BY <1>1 DEF EnsureWithoutBridge
<1>2. CASE EnsureDisplayHelper
  BY <1>2 DEF EnsureDisplayHelper
<1>3. CASE AssignHelper
  BY <1>3, DrawerAssumption DEF AssignHelper
<1>4. ASSUME NEW t \in Threads, CallDisplayMesh(t) \/ LoadDisplayGeneration(t) PROVE DisplayTypes'
  BY <1>4 DEF CallDisplayMesh, LoadDisplayGeneration
<1>5. ASSUME NEW t \in Threads, CheckMesh(t) PROVE DisplayTypes'
  BY <1>5 DEF CheckMesh, Serve
<1>6. ASSUME NEW t \in Threads, BuildSurface(t) PROVE DisplayTypes'
  <2>1. overrun' \in BOOLEAN
    BY <1>6 DEF BuildSurface
  <2>2. UNCHANGED <<bridge, mesh, helper, at, ask, copied, drawGen>>
    BY <1>6 DEF BuildSurface
  <2> QED
    BY <2>1, <2>2
<1>7. ASSUME NEW t \in Threads, BuildSurfaceThrows(t) PROVE DisplayTypes'
  BY <1>7 DEF BuildSurfaceThrows
<1>8. ASSUME NEW t \in Threads, CopyTriangles(t) PROVE DisplayTypes'
  BY <1>8 DEF CopyTriangles
<1>9. ASSUME NEW t \in Threads, Publish(t) PROVE DisplayTypes'
  BY <1>9 DEF Publish, Serve
<1>10. ASSUME NEW t \in Threads, Return(t) PROVE DisplayTypes'
  BY <1>10 DEF Return
<1>11. CASE InstallBridge \/ ResetHelper
  <2>1. bridge' \in BOOLEAN
    BY <1>11 DEF InstallBridge, ResetHelper
  <2> QED
    BY <1>11, <2>1 DEF InstallBridge, ResetHelper
<1>12. CASE UNCHANGED displayVars
  BY <1>12 DEF displayVars
<1> QED
  BY <1>1, <1>2, <1>3, <1>4, <1>5, <1>6, <1>7, <1>8, <1>9, <1>10, <1>11, <1>12
  DEF DisplayNext, DisplayMesh, SetKernelShape, allVars

-----------------------------------------------------------------------------
(* What a step does to the shape, for the steps of one call. *)
LEMMA CallKeepsShape ==
  ASSUME NEW t \in Threads, DisplayMesh(t)
  PROVE  UNCHANGED <<shape, derived, gen, setter>>
<1> USE DEF shapeVars, vars
<1>1. CASE BuildSurface(t)
  BY <1>1 DEF BuildSurface, LoadGeneration, Enter, Recheck, SpuriousWake, Mesh, Collect, Store, Deref
<1>2. CASE BuildSurfaceThrows(t) \/ CopyTriangles(t)
  BY <1>2 DEF BuildSurfaceThrows, BuildThrows, CopyTriangles, Finish
<1> QED
  BY <1>1, <1>2 DEF DisplayMesh, CallDisplayMesh, LoadDisplayGeneration, CheckMesh, Publish, Return

(* Where the threads of GetOrBuildSurfaceCache() can go. *)
LEMMA BuildMoves ==
  ASSUME TypeInv, NEW t \in Threads, BuildSurface(t)
  PROVE  /\ at[t] = "build"
         /\ \A u \in Threads : u # t => (pc[u] = "idle" <=> pc'[u] = "idle") /\ myGen'[u] = myGen[u]
         /\ myGen'[t] = IF pc[t] = "idle" THEN gen ELSE myGen[t]
         /\ \A u \in Threads : u # t /\ pc'[u] \in {"deref", "reading"} => pc[u] = pc'[u]
<1> USE DEF TypeInv, TypeOK, Goto
<1>1. CASE LoadGeneration(t)
  BY <1>1 DEF BuildSurface, LoadGeneration
<1>2. CASE Enter(t) \/ Recheck(t)
  BY <1>2 DEF BuildSurface, Enter, Recheck, Wait, ReturnCached, Claim
<1>3. CASE SpuriousWake(t) \/ Mesh(t) \/ Collect(t) \/ Deref(t)
  BY <1>3 DEF BuildSurface, SpuriousWake, Mesh, Collect, Deref
<1>4. CASE Store(t)
  BY <1>4 DEF BuildSurface, Store, NotifyAll
<1> QED
  BY <1>1, <1>2, <1>3, <1>4 DEF BuildSurface

LEMMA OrderStep ==
  CacheInv /\ DisplayTypes /\ Order /\ [DisplayNext]_allVars => Order'
<1> SUFFICES ASSUME CacheInv, DisplayTypes, Order, [DisplayNext]_allVars PROVE Order'
  OBVIOUS
<1> USE DrawerAssumption, KernelShapeAssumption
    DEF CacheInv, DisplayTypes, Payloads, Gens, AtStates, Order, NoCache, Incomplete, NoGen, Nothing,
        EmptyHelper, TypeInv, TypeOK, ShapeTypeOK, Step, vars, shapeVars, cacheVars, callVars
<1>1. CASE EnsureWithoutBridge
  BY <1>1 DEF EnsureWithoutBridge
<1>2. CASE EnsureDisplayHelper
  BY <1>2 DEF EnsureDisplayHelper
<1>3. CASE AssignHelper
  BY <1>3 DEF AssignHelper
<1>4. ASSUME NEW t \in Threads, CallDisplayMesh(t) \/ LoadDisplayGeneration(t) PROVE Order'
  BY <1>4 DEF CallDisplayMesh, LoadDisplayGeneration
<1>5. ASSUME NEW t \in Threads, CheckMesh(t) PROVE Order'
  BY <1>5 DEF CheckMesh, Serve
<1>6. ASSUME NEW t \in Threads, BuildSurface(t) PROVE Order'
  <2>1. UNCHANGED <<shape, gen, mesh, helper, at, ask, copied, drawGen>>
    BY <1>6, CallKeepsShape DEF BuildSurface, DisplayMesh
  <2> QED
    BY <1>6, <2>1, BuildMoves
<1>7. ASSUME NEW t \in Threads, BuildSurfaceThrows(t) PROVE Order'
  BY <1>7 DEF BuildSurfaceThrows, BuildThrows, NotifyAll
<1>8. ASSUME NEW t \in Threads, CopyTriangles(t) PROVE Order'
  <2>1. cache <= shape
    BY DEF StampInv
  <2>2. \A u \in Threads : copied'[u] <= shape'
    BY <1>8, <2>1 DEF CopyTriangles, Finish
  <2> QED
    BY <1>8, <2>2 DEF CopyTriangles, Finish, Goto
<1>9. ASSUME NEW t \in Threads, Publish(t) PROVE Order'
  BY <1>9 DEF Publish, Serve
<1>10. ASSUME NEW t \in Threads, Return(t) PROVE Order'
  BY <1>10 DEF Return
<1>11. CASE InstallBridge
  BY <1>11 DEF InstallBridge
<1>12. CASE SetKernelShape \/ ResetHelper
  <2>1. gen <= gen' /\ gen' \in Int /\ shape <= shape' /\ shape' \in Int
    BY <1>12 DEF SetKernelShape, ResetHelper, SetShape, StartSetShape, WriteShape, ResetCache,
       ResetSurfaceCache, OtherSetShapeStep, ComputeBounds, ComputeBoundsThrows, ResetVolumeArea,
       BumpGeneration, AdapterReset
  <2>2. \A u \in Threads : pc'[u] # "idle" => pc[u] # "idle"
    BY <1>12 DEF SetKernelShape, ResetHelper, SetShape, StartSetShape, ResetCache, OtherSetShapeStep
  <2>3. UNCHANGED <<myGen, mesh, at, ask, copied, drawGen>> /\ (UNCHANGED helper \/ helper' = Nothing)
    BY <1>12 DEF SetKernelShape, ResetHelper, SetShape, StartSetShape, ResetCache, OtherSetShapeStep,
       displayVars
  <2>4. \A t \in Threads :
          /\ pc'[t] # "idle" => at'[t] = "build" /\ ask'[t] <= myGen'[t]
          /\ ask'[t] <= gen'
          /\ copied'[t] <= shape'
    BY <2>1, <2>2, <2>3
  <2>5. /\ at'[Drawer] \in {"check", "build", "publish"} => drawGen' <= ask'[Drawer]
        /\ drawGen' <= gen' /\ mesh'.gen <= gen' /\ mesh'.of <= shape'
    BY <2>1, <2>3
  <2>6. helper'.gen <= gen' /\ helper'.of <= shape'
    BY <2>1, <2>3
  <2> QED
    BY <2>4, <2>5, <2>6
<1>13. CASE UNCHANGED allVars
  BY <1>13 DEF allVars, displayVars
<1> QED
  BY <1>1, <1>2, <1>3, <1>4, <1>5, <1>6, <1>7, <1>8, <1>9, <1>10, <1>11, <1>12, <1>13
  DEF DisplayNext, DisplayMesh

-----------------------------------------------------------------------------
(* The steps of one call keep what they carry fresh. *)
LEMMA FreshCall ==
  ASSUME CacheInv, DisplayInv, NEW t \in Threads, DisplayMesh(t), ~overrun', Published'
  PROVE  Fresh'
<1> USE DrawerAssumption, KernelShapeAssumption
    DEF CacheInv, DisplayInv, DisplayTypes, Payloads, Gens, AtStates, Order, Fresh, NoCache,
        Incomplete, NoGen, TypeInv, TypeOK, ShapeTypeOK, Step
<1>1. UNCHANGED <<shape, derived, gen, setter>>
  BY CallKeepsShape
<1>2. Published
  BY <1>1 DEF Published, HalfDerived
<1>3. CASE CallDisplayMesh(t) \/ LoadDisplayGeneration(t)
  BY <1>1, <1>2, <1>3 DEF CallDisplayMesh, LoadDisplayGeneration, vars, cacheVars, callVars
<1>4. CASE CheckMesh(t)
  BY <1>1, <1>2, <1>4 DEF CheckMesh, Serve, vars, cacheVars, callVars
<1>5. CASE BuildSurface(t)
  <2>1. /\ ~overrun /\ UNCHANGED <<mesh, helper, at, ask, copied, drawGen>>
        /\ pc[t] = "store" => cacheGen <= myGen[t]
    <3>1. ~(overrun \/ (pc[t] = "store" /\ cacheGen > myGen[t]))
      BY <1>5, Zenon DEF BuildSurface
    <3>2. ~(pc[t] = "store" /\ cacheGen > myGen[t])
      BY <3>1
    <3>3. pc[t] = "store" => cacheGen <= myGen[t]
      BY <3>2
    <3> QED
      BY <1>5, <3>1, <3>3, Zenon DEF BuildSurface
  <2>2. Fresh
    BY <1>2, <2>1
  <2> HIDE DEF DisplayInv, Order
  <2>3. ASSUME NEW u \in Threads, pc'[u] \in {"deref", "reading"}, myGen'[u] = gen
        PROVE  cache' # NoCache /\ cacheGen' = gen
    <3>1. CASE Store(t)
      <4>1. built[t] # NoCache /\ myGen' = myGen /\ myGen[t] <= gen /\ pc[t] = "store"
        BY <3>1 DEF Store, StampInv
      <4>2. CASE Hit(t)
        <5>1. UNCHANGED <<cache, cacheGen>>
          BY <3>1, <4>2 DEF Store
        <5> QED
          BY <1>5, <2>2, <2>3, <4>1, <4>2, <5>1, BuildMoves DEF Hit
      <4>3. CASE ~Hit(t)
        <5>1. cache' = built[t] /\ cacheGen' = myGen[t]
          BY <3>1, <4>3 DEF Store
        <5>2. CASE u = t
          BY <2>3, <4>1, <5>1, <5>2
        <5>3. CASE u # t
          <6>1. cache # NoCache /\ cacheGen = gen
            BY <1>5, <2>2, <2>3, <4>1, <5>3, BuildMoves
          <6> QED
            BY <2>1, <4>1, <4>3, <6>1 DEF Hit
        <5> QED
          BY <5>2, <5>3
      <4> QED
        BY <4>2, <4>3
    <3>2. CASE Enter(t) \/ Recheck(t)
      <4>1. UNCHANGED <<cache, cacheGen, myGen>>
        BY <3>2 DEF Enter, Recheck
      <4>2. u = t => Hit(t)
        BY <2>3, <3>2 DEF Enter, Recheck, ReturnCached, Wait, Claim, Goto
      <4> QED
        BY <1>5, <2>2, <2>3, <4>1, <4>2, BuildMoves DEF Hit
    <3>3. CASE LoadGeneration(t) \/ SpuriousWake(t) \/ Mesh(t) \/ Collect(t) \/ Deref(t)
      <4>1. UNCHANGED <<cache, cacheGen>>
        BY <3>3 DEF LoadGeneration, SpuriousWake, Mesh, Collect, Deref, cacheVars
      <4>2. pc[u] \in {"deref", "reading"} /\ myGen[u] = myGen'[u]
        BY <2>3, <3>3 DEF LoadGeneration, SpuriousWake, Mesh, Collect, Deref, Goto
      <4> QED
        BY <2>2, <2>3, <4>1, <4>2
    <3> QED
      BY <1>5, <3>1, <3>2, <3>3 DEF BuildSurface
  <2>4. mesh.of # NoCache /\ mesh.gen = gen => derived <= mesh.of
    BY <2>2
  <2>5. /\ at[Drawer] = "return" /\ drawGen = gen => derived <= copied[Drawer]
        /\ helper.of # NoCache /\ helper.gen = gen => derived <= helper.of
        /\ \A u \in Threads : at[u] = "publish" /\ ask[u] = gen => derived <= copied[u]
    BY <2>2
  <2>6. \A u \in Threads :
          pc'[u] \in {"deref", "reading"} /\ myGen'[u] = gen' => cache' # NoCache /\ cacheGen' = gen'
    BY <1>1, <2>3
  <2> QED
    BY <1>1, <2>1, <2>4, <2>5, <2>6
<1>6. CASE BuildSurfaceThrows(t)
  BY <1>1, <1>2, <1>6 DEF BuildSurfaceThrows, BuildThrows, NotifyAll
<1>7. CASE CopyTriangles(t)
  <2>1. /\ ~overrun /\ UNCHANGED <<cache, cacheGen, myGen, mesh, helper, ask, drawGen>>
        /\ at[t] = "build" /\ at' = [at EXCEPT ![t] = "publish"]
        /\ pc[t] = "reading" /\ pc' = [pc EXCEPT ![t] = "idle"]
    BY <1>7 DEF CopyTriangles, Finish, Goto, cacheVars
  <2>2. Fresh
    BY <1>2, <2>1
  <2>3. ask[t] = gen => derived <= copied'[t]
    <3> SUFFICES ASSUME ask[t] = gen PROVE derived <= copied'[t]
      OBVIOUS
    <3>1. myGen[t] = gen
      BY <2>1 DEF StampInv
    <3>2. cache # NoCache /\ cacheGen = gen
      BY <2>1, <2>2, <3>1
    <3>3. derived <= cache
      BY <1>2, <3>2 DEF CurrentInv
    <3>4. copied'[t] = cache
      BY <1>7, <3>1, <3>2 DEF CopyTriangles
    <3> QED
      BY <3>3, <3>4
  <2>4. \A u \in Threads : u # t => copied'[u] = copied[u]
    BY <1>7 DEF CopyTriangles
  <2>5. at'[Drawer] = "return" => Drawer # t /\ at[Drawer] = "return"
    BY <2>1
  <2> QED
    BY <1>1, <2>1, <2>2, <2>3, <2>4, <2>5
<1>8. CASE Publish(t)
  <2>1. /\ ~overrun /\ UNCHANGED <<cache, cacheGen, myGen, pc, helper, ask, drawGen>> /\ at[t] = "publish"
    BY <1>8 DEF Publish, vars, cacheVars, callVars
  <2>2. Fresh
    BY <1>2, <2>1
  <2>3. CASE mesh.of # NoCache /\ mesh.gen = gen /\ Serve(t)
    BY <1>1, <2>1, <2>2, <2>3 DEF Serve
  <2>4. CASE /\ gen = ask[t]
             /\ mesh' = [of |-> copied[t], gen |-> gen]
             /\ at' = [at EXCEPT ![t] = "return"]
             /\ UNCHANGED copied
    BY <1>1, <2>1, <2>2, <2>4
  <2>5. CASE /\ at' = [at EXCEPT ![t] = "loop"]
             /\ copied' = [copied EXCEPT ![t] = NoCache]
             /\ UNCHANGED mesh
    BY <1>1, <2>1, <2>2, <2>5
  <2> QED
    BY <1>8, <2>3, <2>4, <2>5 DEF Publish
<1>9. CASE Return(t)
  BY <1>1, <1>2, <1>9 DEF Return, vars, cacheVars, callVars
<1> QED
  BY <1>3, <1>4, <1>5, <1>6, <1>7, <1>8, <1>9 DEF DisplayMesh

(* Every other step: a generation is published after the shape, and nothing *)
(* carries it yet.                                                          *)
LEMMA FreshStep ==
  CacheInv /\ DisplayInv /\ [DisplayNext]_allVars => (~overrun' /\ Published' => Fresh')
<1> SUFFICES ASSUME CacheInv, DisplayInv, [DisplayNext]_allVars, ~overrun', Published' PROVE Fresh'
  OBVIOUS
<1> USE DrawerAssumption, KernelShapeAssumption
    DEF CacheInv, DisplayInv, DisplayTypes, Payloads, Gens, AtStates, Order, Fresh, NoCache,
        Incomplete, NoGen, TypeInv, TypeOK, ShapeTypeOK, Step, vars, shapeVars, cacheVars, callVars
<1>1. CASE EnsureWithoutBridge \/ EnsureDisplayHelper \/ AssignHelper \/ InstallBridge
  <2>1. UNCHANGED <<shape, derived, gen, setter, cache, cacheGen, pc, myGen, overrun, ask, mesh>>
    BY <1>1 DEF EnsureWithoutBridge, EnsureDisplayHelper, AssignHelper, InstallBridge
  <2>2. Published /\ Fresh
    BY <2>1 DEF Published, HalfDerived
  <2>3. CASE EnsureWithoutBridge \/ InstallBridge
    BY <2>1, <2>2, <2>3 DEF EnsureWithoutBridge, InstallBridge, EmptyHelper, Nothing
  <2>4. CASE EnsureDisplayHelper
    BY <2>1, <2>2, <2>4 DEF EnsureDisplayHelper
  <2>5. CASE AssignHelper
    BY <2>1, <2>2, <2>5 DEF AssignHelper
  <2> QED
    BY <1>1, <2>3, <2>4, <2>5
<1>2. ASSUME NEW t \in Threads, DisplayMesh(t) PROVE Fresh'
  BY <1>2, FreshCall
<1>3. CASE SetKernelShape \/ ResetHelper
  <2>0. /\ UNCHANGED <<myGen, mesh, at, ask, copied, drawGen, overrun>>
        /\ UNCHANGED helper \/ helper' = Nothing
    BY <1>3 DEF SetKernelShape, ResetHelper, SetShape, StartSetShape, ResetCache, OtherSetShapeStep,
       displayVars
  <2>1. CASE BumpGeneration
    <3>1. gen' = gen + 1
      BY <2>1 DEF BumpGeneration
    <3>2. \A u \in Threads : myGen'[u] <= gen /\ ask'[u] <= gen
      BY <2>0 DEF StampInv
    <3>3. mesh'.gen <= gen /\ drawGen' <= gen /\ helper'.gen <= gen
      BY <2>0 DEF Nothing
    <3> QED
      BY <3>1, <3>2, <3>3
  <2>2. CASE StartSetShape \/ ComputeBoundsThrows \/ AdapterReset
    <3>1. /\ UNCHANGED <<derived, gen, cache, cacheGen, pc>> /\ setter \in {"idle", "computeBounds", "adapter"}
          /\ Published
      BY <1>3, <2>2 DEF StartSetShape, WriteShape, ComputeBoundsThrows, AdapterReset, SetKernelShape,
         ResetHelper, SetShape, ResetCache, ResetSurfaceCache, OtherSetShapeStep, ComputeBounds,
         ResetVolumeArea, BumpGeneration, Published, HalfDerived
    <3>2. Fresh
      BY <2>0, <3>1
    <3> QED
      BY <2>0, <3>1, <3>2 DEF Nothing
  <2>3. CASE ComputeBounds \/ ResetVolumeArea \/ ResetCache
    BY <2>3 DEF ComputeBounds, ResetVolumeArea, ResetCache, ResetSurfaceCache, Published
  <2> QED
    BY <1>3, <2>1, <2>2, <2>3 DEF SetKernelShape, ResetHelper, SetShape, OtherSetShapeStep
<1>4. CASE UNCHANGED allVars
  BY <1>4 DEF allVars, displayVars, Published, HalfDerived
<1> QED
  BY <1>1, <1>2, <1>3, <1>4 DEF DisplayNext

(* What TGeo draws is the shape: a mesh or helper whose stamp lets it pass   *)
(* after a successful SetOCCTShape() was made from the kernel's shape, for  *)
(* any number of threads and shapes, builds that throw and SetShape() calls *)
(* that overlap them, as long as no overtaken build has stored its          *)
(* tessellation over a newer one.                                           *)
THEOREM DisplayIsSound == DisplaySpec => []DisplaySound
<1>1. DisplayInit => CacheInv
  BY TypeInit, StampInit, CurrentInit DEF DisplayInit, CacheInv
<1>2. CacheInv /\ [DisplayNext]_allVars => CacheInv'
  BY DisplayStepIsCacheStep, TypeStep, StampStep, CurrentStep DEF CacheInv
<1>3. CacheInv /\ DisplayInv /\ [DisplayNext]_allVars => DisplayInv'
  <2>1. CacheInv => TypeInv
    BY DEF CacheInv
  <2> QED
    BY <2>1, DisplayTypesStep, OrderStep, FreshStep DEF DisplayInv
<1>4. CacheInv /\ DisplayInv => DisplaySound
  <2> SUFFICES ASSUME CacheInv, DisplayInv, Settled, ~overrun
               PROVE  /\ mesh.of # NoCache /\ mesh.gen = gen => mesh.of = shape
                      /\ helper.of # NoCache /\ helper.gen = gen => helper.of = shape
    BY DEF DisplaySound
  <2>1. derived = shape /\ Fresh
    BY DEF Settled, DisplayInv, Published, HalfDerived
  <2> QED
    BY <2>1, KernelShapeAssumption
    DEF CacheInv, DisplayInv, DisplayTypes, Payloads, Order, Fresh, TypeInv, TypeOK, ShapeTypeOK,
        NoCache, Incomplete
<1> QED
  BY DisplayInvInit, <1>1, <1>2, <1>3, <1>4, PTL DEF DisplaySpec
================================================================================
