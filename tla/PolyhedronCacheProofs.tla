------------------------- MODULE PolyhedronCacheProofs -------------------------
(***************************************************************************)
(* Theorems about PolyhedronCache, for any threads, any number of           *)
(* SetOCCTShape() calls overlapping them, and any number of builds that     *)
(* throw or end in a null mesh.                                             *)
(***************************************************************************)
EXTENDS PolyhedronCache, TLAPS

(* The types; the generation lags what is derived, strictly from            *)
(* ComputeBounds() to the increment.                                        *)
TypeInv ==
  /\ TypeOK
  /\ gen <= derived /\ derived <= shape
  /\ setter \notin {"idle", "computeBounds"} => derived = shape
  /\ setter \in {"computeBounds", "resetVolumeArea", "resetSurfaceCache", "bump"} => gen < shape
  /\ setter \in {"resetVolumeArea", "resetSurfaceCache", "bump"} => gen < derived

(* The constructor's state has the types. *)
LEMMA TypeInit == Init => TypeInv
<1> SUFFICES ASSUME Init PROVE TypeInv
  OBVIOUS
<1>1. building \in BOOLEAN
  BY DEF Init
<1> QED
  BY <1>1, KernelShapeAssumption, PolyhedronCacheAssumption
  DEF Init, ShapeInit, TypeInv, TypeOK, ShapeTypeOK, SetterStates, PCs

(* Every step of a call and of SetOCCTShape() keeps the types. *)
LEMMA TypeStep == TypeInv /\ [Next]_vars => TypeInv'
<1> USE KernelShapeAssumption, PolyhedronCacheAssumption
    DEF TypeInv, TypeOK, ShapeTypeOK, SetterStates, PCs, NoPoly, Incomplete, NoGen,
        shapeVars, polyVars, callVars
<1> SUFFICES ASSUME TypeInv, [Next]_vars PROVE TypeInv'
  OBVIOUS
<1>1. ASSUME NEW t \in Threads, LoadGeneration(t) PROVE TypeInv'
  <2>1. Concluded \in 0 .. MaxSetShape
    BY DEF Concluded
  <2> QED
    BY <1>1, <2>1 DEF LoadGeneration, Goto
<1>2. ASSUME NEW t \in Threads, Wait(t) \/ SpuriousWake(t) PROVE TypeInv'
  BY <1>2 DEF Wait, SpuriousWake, Goto
<1>3. ASSUME NEW t \in Threads, ReturnCached(t) PROVE TypeInv'
  BY <1>3 DEF ReturnCached, Goto
<1>4. ASSUME NEW t \in Threads, Claim(t) PROVE TypeInv'
  BY <1>4 DEF Claim, Goto
<1>5. ASSUME NEW t \in Threads, Mesh(t) \/ Collect(t) PROVE TypeInv'
  <2>1. fresh' \in [Threads -> {NoPoly, Incomplete} \cup 0 .. MaxSetShape]
    BY <1>5 DEF Mesh, Collect
  <2> QED
    BY <1>5, <2>1 DEF Mesh, Collect, Goto
<1>6. ASSUME NEW t \in Threads, BuildThrows(t) PROVE TypeInv'
  <2>1. building' \in BOOLEAN
    BY <1>6 DEF BuildThrows
  <2> QED
    BY <1>6, <2>1 DEF BuildThrows, NotifyAll
<1>7. ASSUME NEW t \in Threads, Store(t) PROVE TypeInv'
  BY <1>7 DEF Store, NotifyAll
<1>8. ASSUME NEW t \in Threads, Finish(t) PROVE TypeInv'
  BY <1>8 DEF Finish, Goto
<1>9. CASE StartSetShape
  BY <1>9 DEF StartSetShape, WriteShape
<1>10. CASE KernelSetShapeStep
  BY <1>10 DEF KernelSetShapeStep, ComputeBounds, ComputeBoundsThrows, ResetVolumeArea,
               ResetSurfaceCache, BumpGeneration
<1>11. CASE DiscardPolyhedron
  BY <1>11 DEF DiscardPolyhedron, AdapterReset
<1>12. CASE UNCHANGED vars
  BY <1>12 DEF vars
<1> QED
  BY <1>1, <1>2, <1>3, <1>4, <1>5, <1>6, <1>7, <1>8, <1>9, <1>10, <1>11, <1>12
  DEF Next, Call, SetOCCTShape

(* Type correctness. *)
THEOREM TypeCorrect == Spec => []TypeOK
<1>1. TypeInv => TypeOK
  BY DEF TypeInv
<1> QED
  BY <1>1, TypeInit, TypeStep, PTL DEF Spec

-----------------------------------------------------------------------------
(* The flag and the sleepers. *)

(* The flag is the presence of a builder; a sleeper has neither cause to go on *)
(* that the predicate names; there is a mesh exactly when there is a stamp.    *)
FlightInv ==
  /\ building => \E t \in Threads : pc[t] \in {"build", "collect", "store"}
  /\ \A t \in Threads : pc[t] \in {"build", "collect", "store"} => building
  /\ \A t, u \in Threads :
        pc[t] \in {"build", "collect", "store"} /\ pc[u] \in {"build", "collect", "store"} => t = u
  /\ \A t \in Threads : pc[t] = "waiting" => building /\ polyGen # myGen[t]
  /\ poly = NoPoly <=> polyGen = NoGen

(* Everyone is idle at the start. *)
LEMMA FlightInit == Init => FlightInv
  BY DEF Init, ShapeInit, FlightInv, NoPoly, NoGen

(* The mesh and its stamp change in Store(), which notifies, and in            *)
(* SetOCCTShape(), which makes the predicate harder to satisfy.                *)
LEMMA FlightStep == TypeInv /\ FlightInv /\ [Next]_vars => FlightInv'
<1> USE DEF TypeInv, TypeOK, ShapeTypeOK, FlightInv, MayProceed, Cached, NoPoly, Incomplete, NoGen,
        shapeVars, polyVars, callVars
<1> SUFFICES ASSUME TypeInv, FlightInv, [Next]_vars PROVE FlightInv'
  OBVIOUS
<1>1. ASSUME NEW t \in Threads, LoadGeneration(t) PROVE FlightInv'
  BY <1>1 DEF LoadGeneration, Goto
<1>2. ASSUME NEW t \in Threads, Wait(t) PROVE FlightInv'
  BY <1>2 DEF Wait, Goto
<1>3. ASSUME NEW t \in Threads, ReturnCached(t) PROVE FlightInv'
  BY <1>3 DEF ReturnCached, Goto
<1>4. ASSUME NEW t \in Threads, Claim(t) PROVE FlightInv'
  <2>1. ~building
    BY <1>4 DEF Claim
  <2> QED
    BY <1>4, <2>1 DEF Claim, Goto
<1>5. ASSUME NEW t \in Threads, SpuriousWake(t) \/ Finish(t) PROVE FlightInv'
  BY <1>5 DEF SpuriousWake, Finish, Goto
<1>6. ASSUME NEW t \in Threads, Mesh(t) \/ Collect(t) PROVE FlightInv'
  BY <1>6 DEF Mesh, Collect, Goto
<1>7. ASSUME NEW t \in Threads, BuildThrows(t) PROVE FlightInv'
  BY <1>7 DEF BuildThrows, NotifyAll
<1>8. ASSUME NEW t \in Threads, Store(t) PROVE FlightInv'
  <2>1. myGen[t] # NoGen
    BY KernelShapeAssumption
  <2>2. poly' = NoPoly <=> polyGen' = NoGen
    BY <1>8, <2>1 DEF Store
  <2> QED
    BY <1>8, <2>2 DEF Store, NotifyAll
<1>9. CASE StartSetShape
  BY <1>9 DEF StartSetShape, WriteShape
<1>10. CASE KernelSetShapeStep
  BY <1>10 DEF KernelSetShapeStep, ComputeBounds, ComputeBoundsThrows, ResetVolumeArea,
               ResetSurfaceCache, BumpGeneration
<1>11. CASE DiscardPolyhedron
  <2>1. \A t \in Threads : myGen[t] # NoGen
    BY KernelShapeAssumption
  <2> QED
    BY <1>11, <2>1 DEF DiscardPolyhedron, AdapterReset
<1>12. CASE UNCHANGED vars
  BY <1>12 DEF vars
<1> QED
  BY <1>1, <1>2, <1>3, <1>4, <1>5, <1>6, <1>7, <1>8, <1>9, <1>10, <1>11, <1>12
  DEF Next, Call, SetOCCTShape

(* One thread at a time builds the mesh and the flag says so, whatever           *)
(* SetOCCTShape() does meanwhile.                                                *)
THEOREM SingleBuilder == Spec => []OneBuilder
<1>1. FlightInv => OneBuilder
  BY DEF FlightInv, OneBuilder, Builders
<1> QED
  BY <1>1, TypeInit, TypeStep, FlightInit, FlightStep, PTL DEF Spec

(* Nobody sleeps without a builder that will notify, nor beside a mesh of his     *)
(* own generation: no wake-up is lost.                                            *)
THEOREM SleepersAreWoken == Spec => []SleepersHaveBuilder
<1>1. FlightInv => SleepersHaveBuilder
  BY DEF FlightInv, SleepersHaveBuilder, Cached
<1> QED
  BY <1>1, TypeInit, TypeStep, FlightInit, FlightStep, PTL DEF Spec

-----------------------------------------------------------------------------
(* The stamps and the answers. *)

(* SetShape() is not between the start of ComputeBounds() and the increment. *)
Published == setter \in {"idle", "computeBounds", "adapter"} /\ ~HalfDerived

(* What is stored, or about to be, under the kernel's generation is no older     *)
(* than the last shape installed.                                                *)
StampInv ==
  /\ poly <= shape /\ polyGen <= gen
  /\ Published /\ poly # NoPoly /\ polyGen = gen => derived <= poly
  /\ \A t \in Threads :
       /\ myGen[t] <= gen
       /\ fresh[t] <= shape
       /\ Published /\ pc[t] = "store" /\ fresh[t] # NoPoly /\ myGen[t] = gen
            => derived <= fresh[t]

(* No older a shape than any that the SetShape() calls up to the n-th accepted. *)
AsNewAs(m, n) == \A s \in 0 .. n : s <= m \/ s \in VoidShapes

(* A newer shape with faces has taken the place of the n-th. *)
Replaced(n) == \E s \in Int : n < s /\ s <= shape /\ s \notin VoidShapes

(* A mesh is there, not null and not spoilt. *)
Whole(m) == m # NoPoly /\ m # Incomplete

(* What is stored, or about to be, under a generation the kernel still shows is  *)
(* as new as everything accepted; under one it showed when a call began, as new  *)
(* as everything accepted at that time.                                          *)
AgeInv ==
  /\ derived \notin VoidShapes
  /\ Whole(poly) /\ polyGen = gen => AsNewAs(poly, Concluded)
  /\ \A t \in Threads :
       /\ began[t] <= Concluded
       /\ Whole(fresh[t]) /\ pc[t] = "store" /\ myGen[t] = gen => AsNewAs(fresh[t], Concluded)
       /\ Whole(poly) /\ pc[t] # "idle" /\ polyGen = myGen[t] => AsNewAs(poly, began[t])
       /\ poly = Incomplete /\ pc[t] # "idle" /\ polyGen = myGen[t] => Replaced(began[t])

(* A thread past its build, or past the mesh it found, holds one as new as all   *)
(* that was accepted when its call began, nothing because a shape held since     *)
(* then had no facets, or something that a newer shape has spoilt.               *)
HasAnswer(t) ==
  \/ Whole(fresh[t]) /\ AsNewAs(fresh[t], began[t])
  \/ fresh[t] = NoPoly /\ \E s \in EmptyShapes : began[t] <= s /\ s <= shape
  \/ ~Whole(fresh[t]) /\ Replaced(began[t])

AnswerInv == \A t \in Threads : pc[t] \in {"store", "returned"} => HasAnswer(t)

(* Nothing is built at the start. *)
LEMMA StampInit == Init => StampInv /\ AgeInv /\ AnswerInv
  BY KernelShapeAssumption
  DEF Init, ShapeInit, StampInv, AgeInv, AnswerInv, Concluded, Whole, NoPoly, NoGen

(* The shape read by a build is at least the generation loaded before it.         *)
LEMMA StampStep == TypeInv /\ StampInv /\ [Next]_vars => StampInv'
<1> USE DEF TypeInv, TypeOK, ShapeTypeOK, StampInv, Published, HalfDerived, NoPoly, Incomplete, NoGen,
        shapeVars, polyVars, callVars
<1> SUFFICES ASSUME TypeInv, StampInv, [Next]_vars PROVE StampInv'
  OBVIOUS
<1> USE KernelShapeAssumption
<1>1. ASSUME NEW t \in Threads, LoadGeneration(t) PROVE StampInv'
  BY <1>1 DEF LoadGeneration, Goto
<1>2. ASSUME NEW t \in Threads, Wait(t) \/ Claim(t) \/ SpuriousWake(t) PROVE StampInv'
  BY <1>2 DEF Wait, Claim, SpuriousWake, Goto
<1>3. ASSUME NEW t \in Threads, ReturnCached(t) PROVE StampInv'
  BY <1>3 DEF ReturnCached, Goto
<1>4. ASSUME NEW t \in Threads, Mesh(t) \/ Collect(t) PROVE StampInv'
  <2>1. CASE Mesh(t)
    BY <2>1 DEF Mesh, Goto
  <2>2. PICK mesh \in {NoPoly, Incomplete, shape} :
          Collect(t) => /\ fresh' = [fresh EXCEPT ![t] = mesh]
                        /\ mesh = Incomplete => HalfDerived
    BY DEF Collect
  <2>3. CASE Collect(t)
    BY <2>2, <2>3 DEF Collect, Goto
  <2> QED
    BY <1>4, <2>1, <2>3
<1>5. ASSUME NEW t \in Threads, BuildThrows(t) PROVE StampInv'
  BY <1>5 DEF BuildThrows, NotifyAll
<1>6. ASSUME NEW t \in Threads, Store(t) PROVE StampInv'
  BY <1>6 DEF Store, NotifyAll
<1>7. ASSUME NEW t \in Threads, Finish(t) PROVE StampInv'
  BY <1>7 DEF Finish, Goto
<1>8. CASE StartSetShape
  BY <1>8 DEF StartSetShape, WriteShape
<1>9. CASE KernelSetShapeStep
  BY <1>9 DEF KernelSetShapeStep, ComputeBounds, ComputeBoundsThrows, ResetVolumeArea,
              ResetSurfaceCache, BumpGeneration
<1>10. CASE DiscardPolyhedron
  BY <1>10 DEF DiscardPolyhedron, AdapterReset
<1>11. CASE UNCHANGED vars
  BY <1>11 DEF vars
<1> QED
  BY <1>1, <1>2, <1>3, <1>4, <1>5, <1>6, <1>7, <1>8, <1>9, <1>10, <1>11
  DEF Next, Call, SetOCCTShape

(* What is as new as more is as new as less. *)
LEMMA AsNewAsFewer ==
  ASSUME NEW m, NEW n \in Int, NEW k \in Int, k <= n, AsNewAs(m, n)
  PROVE  AsNewAs(m, k)
BY DEF AsNewAs

(* A shape is as new as itself and all before it. *)
LEMMA AsNewAsItself ==
  ASSUME NEW m \in Int, NEW n \in Int, n <= m
  PROVE  AsNewAs(m, n)
BY DEF AsNewAs

(* A SetShape() that throws makes nothing older. *)
LEMMA AsNewAsFailed ==
  ASSUME NEW m, NEW n \in Int, n + 1 \in VoidShapes, AsNewAs(m, n)
  PROVE  AsNewAs(m, n + 1)
BY DEF AsNewAs

(* Nothing is taken back: a shape replaced by a newer one stays replaced, and a   *)
(* SetShape() that is over stays over.                                            *)
LEMMA OnlyGrows ==
  TypeInv /\ [Next]_vars =>
    /\ shape \in Int /\ Concluded \in Int /\ Concluded <= shape
    /\ shape' \in Int /\ shape <= shape' /\ Concluded' \in Int /\ Concluded <= Concluded'
    /\ \A n \in Int : Replaced(n) => Replaced(n)'
<1> SUFFICES ASSUME TypeInv, [Next]_vars
             PROVE  /\ shape \in Int /\ Concluded \in Int /\ Concluded <= shape
                    /\ shape' \in Int /\ shape <= shape'
                    /\ Concluded' \in Int /\ Concluded <= Concluded'
                    /\ \A n \in Int : Replaced(n) => Replaced(n)'
  OBVIOUS
<1>1. shape \in Int /\ shape' \in Int
  BY TypeStep, KernelShapeAssumption DEF TypeInv, TypeOK, ShapeTypeOK
<1>2. shape <= shape' /\ Concluded <= Concluded'
  <2>1. CASE UNCHANGED shapeVars
    BY <1>1, <2>1 DEF shapeVars, Concluded
  <2>2. CASE WriteShape
    BY <1>1, <2>2 DEF WriteShape, Concluded
  <2>3. CASE ComputeBounds \/ ComputeBoundsThrows \/ ResetVolumeArea \/ ResetSurfaceCache
             \/ BumpGeneration \/ AdapterReset
    <3>1. shape' = shape
      BY <2>3 DEF ComputeBounds, ComputeBoundsThrows, ResetVolumeArea, ResetSurfaceCache,
                  BumpGeneration, AdapterReset
    <3>2. setter \in {"idle", "adapter"} => setter' \in {"idle", "adapter"}
      BY <2>3 DEF ComputeBounds, ComputeBoundsThrows, ResetVolumeArea, ResetSurfaceCache,
                  BumpGeneration, AdapterReset
    <3> QED
      BY <1>1, <3>1, <3>2 DEF Concluded
  <2>4. ASSUME NEW t \in Threads, Call(t) PROVE UNCHANGED shapeVars
    BY <2>4 DEF Call, LoadGeneration, Wait, ReturnCached, Claim, SpuriousWake, Mesh, Collect,
                BuildThrows, Store, Finish, shapeVars
  <2> QED
    BY <2>1, <2>2, <2>3, <2>4
    DEF Next, SetOCCTShape, StartSetShape, KernelSetShapeStep, DiscardPolyhedron, vars
<1>3. Concluded \in Int /\ Concluded <= shape /\ Concluded' \in Int
  BY <1>1 DEF Concluded
<1>4. \A n \in Int : Replaced(n) => Replaced(n)'
  BY <1>1, <1>2 DEF Replaced
<1> QED
  BY <1>1, <1>2, <1>3, <1>4

(* A mesh is stamped with the generation loaded before its shape was read; the    *)
(* generation moves on when a SetShape() is accepted, and then vouches for        *)
(* nothing made before.                                                           *)
LEMMA AgeStep == TypeInv /\ StampInv /\ AgeInv /\ [Next]_vars => AgeInv'
<1> USE DEF AgeInv, Whole, NoPoly, Incomplete, NoGen
<1> SUFFICES ASSUME TypeInv, StampInv, AgeInv, [Next]_vars PROVE AgeInv'
  OBVIOUS
<1> DEFINE Half == setter \in {"computeBounds", "resetVolumeArea", "resetSurfaceCache", "bump"}
<1>a. /\ shape \in Int /\ shape' \in Int /\ Concluded \in Int /\ Concluded' \in Int
      /\ Concluded <= shape /\ shape <= shape' /\ Concluded <= Concluded'
      /\ \A n \in Int : Replaced(n) => Replaced(n)'
  BY OnlyGrows
<1>b. /\ poly \in Int /\ polyGen \in Int /\ gen \in Int /\ polyGen <= gen
      /\ fresh \in [Threads -> Int] /\ myGen \in [Threads -> Int]
      /\ began \in [Threads -> Int]
      /\ pc \in [Threads -> PCs]
      /\ \A t \in Threads : myGen[t] <= gen
  BY KernelShapeAssumption DEF TypeInv, TypeOK, ShapeTypeOK, StampInv
<1>c. shape \notin VoidShapes /\ Half =>
        /\ Concluded = shape - 1
        /\ \A n \in Int : n <= Concluded => Replaced(n)
  BY <1>a DEF Concluded, Replaced
<1>d. Half /\ setter # "computeBounds" => shape \notin VoidShapes
  BY DEF TypeInv
<1>e. /\ poly = Incomplete /\ polyGen = gen => shape \notin VoidShapes /\ Half
      /\ \A t \in Threads : fresh[t] = Incomplete /\ pc[t] = "store" /\ myGen[t] = gen
                             => shape \notin VoidShapes /\ Half
  BY <1>d, KernelShapeAssumption
  DEF StampInv, TypeInv, TypeOK, ShapeTypeOK, SetterStates, Published, HalfDerived
<1> HIDE DEF Half
<1>1. ASSUME NEW t \in Threads, LoadGeneration(t) PROVE AgeInv'
  <2>1. Concluded' = Concluded
    BY <1>1 DEF LoadGeneration, shapeVars, Concluded
  <2>2. poly = Incomplete /\ polyGen = gen => Replaced(Concluded)'
    BY <1>a, <1>c, <1>e, <2>1
  <2> QED
    BY <1>1, <1>a, <1>b, <2>1, <2>2 DEF LoadGeneration, Goto, shapeVars, polyVars
<1>2. ASSUME NEW t \in Threads, Wait(t) \/ Claim(t) \/ SpuriousWake(t) PROVE AgeInv'
  <2>1. Concluded' = Concluded
    BY <1>2 DEF Wait, Claim, SpuriousWake, shapeVars, Concluded
  <2> QED
    BY <1>2, <1>a, <1>b, <2>1 DEF Wait, Claim, SpuriousWake, Goto, shapeVars, polyVars
<1>3. ASSUME NEW t \in Threads, ReturnCached(t) \/ Finish(t) PROVE AgeInv'
  <2>1. Concluded' = Concluded
    BY <1>3 DEF ReturnCached, Finish, shapeVars, Concluded
  <2> QED
    BY <1>3, <1>a, <1>b, <2>1 DEF ReturnCached, Finish, Goto, shapeVars, polyVars
<1>4. ASSUME NEW t \in Threads, Mesh(t) \/ Collect(t) PROVE AgeInv'
  <2>1. Concluded' = Concluded
    BY <1>4 DEF Mesh, Collect, shapeVars, Concluded
  <2>2. AsNewAs(shape, Concluded)
    BY <1>a, AsNewAsItself
  <2>3. CASE Mesh(t)
    BY <2>3, <1>a, <1>b, <2>1 DEF Mesh, Goto, shapeVars, polyVars
  <2>4. CASE Collect(t)
    BY <2>4, <1>a, <1>b, <2>1, <2>2 DEF Collect, Goto, shapeVars, polyVars
  <2> QED
    BY <1>4, <2>3, <2>4
<1>5. ASSUME NEW t \in Threads, BuildThrows(t) PROVE AgeInv'
  <2>1. Concluded' = Concluded
    BY <1>5 DEF BuildThrows, shapeVars, Concluded
  <2> QED
    BY <1>5, <1>a, <1>b, <2>1 DEF BuildThrows, NotifyAll, shapeVars
<1>6. ASSUME NEW t \in Threads, Store(t) PROVE AgeInv'
  <2>1. Concluded' = Concluded
    BY <1>6 DEF Store, shapeVars, Concluded
  <2>2. Whole(fresh[t]) /\ myGen[t] = gen => \A u \in Threads : AsNewAs(fresh[t], began[u])
    BY <1>6, <1>a, <1>b, AsNewAsFewer DEF Store
  <2>3. fresh[t] = Incomplete /\ myGen[t] = gen => \A u \in Threads : Replaced(began[u])'
    BY <1>6, <1>a, <1>b, <1>c, <1>e DEF Store
  <2>4. \A u \in Threads : pc'[u] # "idle" => pc[u] # "idle"
    BY <1>6, <1>b DEF Store, NotifyAll
  <2>5. \A u \in Threads : pc'[u] = "store" => pc[u] = "store"
    BY <1>6, <1>b DEF Store, NotifyAll
  <2>6. CASE fresh[t] # NoPoly /\ gen = myGen[t]
    BY <1>6, <1>a, <1>b, <2>1, <2>2, <2>3, <2>4, <2>5, <2>6 DEF Store, shapeVars
  <2>7. CASE ~(fresh[t] # NoPoly /\ gen = myGen[t])
    BY <1>6, <1>a, <1>b, <2>1, <2>4, <2>5, <2>7 DEF Store, shapeVars
  <2> QED
    BY <2>6, <2>7
<1>7. CASE StartSetShape
  <2>1. Concluded' = Concluded
    BY <1>7, <1>a DEF StartSetShape, WriteShape, Concluded
  <2> QED
    BY <1>7, <1>a, <1>b, <2>1 DEF StartSetShape, WriteShape, polyVars, callVars
<1>8. CASE ComputeBounds /\ UNCHANGED <<polyVars, callVars>>
  <2>1. Concluded' = Concluded
    BY <1>8 DEF ComputeBounds, Concluded
  <2> QED
    BY <1>8, <1>a, <1>b, <2>1 DEF ComputeBounds, polyVars, callVars
<1>9. CASE ComputeBoundsThrows /\ UNCHANGED <<polyVars, callVars>>
  <2>1. Concluded' = Concluded + 1 /\ Concluded + 1 \in VoidShapes
    BY <1>9, <1>a DEF ComputeBoundsThrows, Concluded
  <2>2. \A m : AsNewAs(m, Concluded) => AsNewAs(m, Concluded')
    BY <1>a, <2>1, AsNewAsFailed
  <2> QED
    BY <1>9, <1>a, <1>b, <2>2 DEF ComputeBoundsThrows, polyVars, callVars
<1>10. CASE (ResetVolumeArea \/ ResetSurfaceCache) /\ UNCHANGED <<polyVars, callVars>>
  <2>1. Concluded' = Concluded
    BY <1>10 DEF ResetVolumeArea, ResetSurfaceCache, Concluded
  <2> QED
    BY <1>10, <1>a, <1>b, <2>1 DEF ResetVolumeArea, ResetSurfaceCache, polyVars, callVars
<1>11. CASE BumpGeneration /\ UNCHANGED <<polyVars, callVars>>
  <2>1. polyGen # gen' /\ \A t \in Threads : myGen[t] # gen'
    BY <1>11, <1>b DEF BumpGeneration
  <2> QED
    BY <1>11, <1>a, <1>b, <2>1 DEF BumpGeneration, polyVars, callVars
<1>12. CASE DiscardPolyhedron
  <2>1. Concluded' = Concluded
    BY <1>12 DEF DiscardPolyhedron, AdapterReset, Concluded
  <2> QED
    BY <1>12, <1>a, <1>b, <2>1 DEF DiscardPolyhedron, AdapterReset, callVars
<1>13. CASE UNCHANGED vars
  BY <1>13, <1>a, <1>b DEF vars, shapeVars, polyVars, callVars, Concluded
<1> QED
  BY <1>1, <1>2, <1>3, <1>4, <1>5, <1>6, <1>7, <1>8, <1>9, <1>10, <1>11, <1>12, <1>13
  DEF Next, Call, SetOCCTShape, KernelSetShapeStep

(* A thread's own build decides its answer; the shape only grows under it.        *)
LEMMA AnswerStep == TypeInv /\ StampInv /\ AgeInv /\ AnswerInv /\ [Next]_vars => AnswerInv'
<1> USE DEF AnswerInv, HasAnswer, Whole, NoPoly, Incomplete
<1> SUFFICES ASSUME TypeInv, StampInv, AgeInv, AnswerInv, [Next]_vars PROVE AnswerInv'
  OBVIOUS
<1>a. /\ shape \in Int /\ shape' \in Int /\ Concluded \in Int
      /\ Concluded <= shape /\ shape <= shape'
      /\ \A n \in Int : Replaced(n) => Replaced(n)'
  BY OnlyGrows
<1>b. /\ poly \in Int
      /\ fresh \in [Threads -> Int] /\ began \in [Threads -> Int] /\ pc \in [Threads -> PCs]
      /\ \A t \in Threads : began[t] <= Concluded
      /\ EmptyShapes \subseteq Int
  BY KernelShapeAssumption, PolyhedronCacheAssumption
  DEF TypeInv, TypeOK, ShapeTypeOK, AgeInv, NoPoly, Incomplete
<1>k. ASSUME NEW t \in Threads, HasAnswer(t), fresh'[t] = fresh[t], began'[t] = began[t]
      PROVE  HasAnswer(t)'
  BY <1>a, <1>b, <1>k
<1> HIDE DEF HasAnswer
<1>1. ASSUME NEW t \in Threads, pc[t] \notin {"build", "collect", "store"},
             Call(t), ~ReturnCached(t)
      PROVE  AnswerInv'
  <2>1. \A u \in Threads : pc'[u] \in {"store", "returned"} =>
          /\ pc[u] \in {"store", "returned"} /\ u # t
          /\ fresh'[u] = fresh[u] /\ began'[u] = began[u]
    BY <1>1, <1>b DEF Call, LoadGeneration, Wait, Claim, SpuriousWake, Mesh, Collect,
                      BuildThrows, Store, Finish, Goto
  <2> QED
    BY <1>k, <2>1
<1>2. ASSUME NEW t \in Threads, ReturnCached(t) PROVE AnswerInv'
  <2>1. HasAnswer(t)'
    <3>1. poly # NoPoly /\ polyGen = myGen[t] /\ pc[t] # "idle"
      BY <1>2 DEF ReturnCached, Cached
    <3>2. fresh'[t] = poly /\ began'[t] = began[t]
      BY <1>2, <1>b DEF ReturnCached
    <3>3. (Whole(poly) /\ AsNewAs(poly, began[t])) \/ (poly = Incomplete /\ Replaced(began[t])')
      BY <3>1, <3>2, <1>a, <1>b DEF AgeInv
    <3> QED
      BY <3>2, <3>3, <1>b DEF HasAnswer
  <2>2. \A u \in Threads : u # t /\ pc'[u] \in {"store", "returned"} =>
          pc[u] \in {"store", "returned"} /\ fresh'[u] = fresh[u] /\ began'[u] = began[u]
    BY <1>2, <1>b DEF ReturnCached, Goto
  <2> QED
    BY <1>k, <2>1, <2>2
<1>3. ASSUME NEW t \in Threads, Mesh(t) \/ BuildThrows(t) PROVE AnswerInv'
  <2>1. \A u \in Threads : pc'[u] \in {"store", "returned"} =>
          /\ pc[u] \in {"store", "returned"} /\ u # t
          /\ fresh'[u] = fresh[u] /\ began'[u] = began[u]
    BY <1>3, <1>b DEF Mesh, BuildThrows, Goto, NotifyAll
  <2> QED
    BY <1>k, <2>1
<1>4. ASSUME NEW t \in Threads, Collect(t) PROVE AnswerInv'
  <2>1. began' = began /\ shape' = shape /\ began[t] <= shape
    BY <1>4, <1>a, <1>b DEF Collect, shapeVars
  <2>2. HasAnswer(t)'
    <3>1. CASE shape \in EmptyShapes /\ fresh' = [fresh EXCEPT ![t] = NoPoly]
      BY <3>1, <2>1, <1>b DEF HasAnswer
    <3>2. CASE fresh' = [fresh EXCEPT ![t] = shape]
      <4>1. shape >= 0
        BY KernelShapeAssumption DEF TypeInv, TypeOK, ShapeTypeOK
      <4>2. AsNewAs(shape, began[t])
        BY <2>1, <1>a, <1>b, AsNewAsItself
      <4> QED
        BY <3>2, <4>1, <4>2, <2>1, <1>a, <1>b DEF HasAnswer
    <3>3. ASSUME HalfDerived, NEW mesh \in {NoPoly, Incomplete},
                 fresh' = [fresh EXCEPT ![t] = mesh]
          PROVE  HasAnswer(t)'
      <4>1. Replaced(began[t])'
        <5>1. began[t] < shape /\ shape \notin VoidShapes
          BY <3>3, <1>a, <1>b DEF HalfDerived, Concluded
        <5> QED
          BY <5>1, <2>1, <1>a DEF Replaced
      <4>2. fresh'[t] = mesh
        BY <3>3, <1>b
      <4> QED
        BY <3>3, <4>1, <4>2, <2>1 DEF HasAnswer
    <3> QED
      BY <1>4, <3>1, <3>2, <3>3 DEF Collect
  <2>3. \A u \in Threads : u # t /\ pc'[u] \in {"store", "returned"} =>
          pc[u] \in {"store", "returned"} /\ fresh'[u] = fresh[u] /\ began'[u] = began[u]
    BY <1>4, <1>b DEF Collect, Goto
  <2> QED
    BY <1>k, <2>2, <2>3
<1>5. ASSUME NEW t \in Threads, Store(t) PROVE AnswerInv'
  <2>1. \A u \in Threads : pc'[u] \in {"store", "returned"} =>
          pc[u] \in {"store", "returned"} /\ fresh'[u] = fresh[u] /\ began'[u] = began[u]
    BY <1>5, <1>b DEF Store, NotifyAll
  <2> QED
    BY <1>k, <2>1
<1>6. ASSUME UNCHANGED callVars PROVE AnswerInv'
  <2>1. fresh' = fresh /\ began' = began /\ pc' = pc
    BY <1>6 DEF callVars
  <2> QED
    BY <1>k, <2>1
<1>7. ASSUME NEW t \in Threads, Call(t) PROVE AnswerInv'
  <2>1. \/ pc[t] \notin {"build", "collect", "store"} /\ ~ReturnCached(t)
        \/ ReturnCached(t) \/ Mesh(t) \/ BuildThrows(t) \/ Collect(t) \/ Store(t)
    BY <1>7 DEF Call, LoadGeneration, Wait, Claim, SpuriousWake, Finish
  <2> QED
    BY <1>7, <2>1, <1>1, <1>2, <1>3, <1>4, <1>5
<1> QED
  BY <1>6, <1>7
  DEF Next, SetOCCTShape, StartSetShape, KernelSetShapeStep, DiscardPolyhedron, vars, callVars

(* Once a SetOCCTShape() has succeeded, a mesh stamped with the kernel's          *)
(* generation was made from its shape, whatever was in flight meanwhile.          *)
THEOREM StampsAreSound == Spec => []PolyhedronStampSound
<1>1. TypeInv /\ StampInv => PolyhedronStampSound
  BY KernelShapeAssumption
  DEF TypeInv, TypeOK, ShapeTypeOK, StampInv, Published, HalfDerived, Settled,
      PolyhedronStampSound, NoPoly, Incomplete
<1> QED
  BY <1>1, TypeInit, TypeStep, StampInit, StampStep, PTL DEF Spec

(* A returned mesh is of no older a shape than any accepted when the call began;  *)
(* it is null only for a shape without facets held since then, and null or        *)
(* incomplete for another reason only when a newer shape has been put in.         *)
THEOREM AnswersAreRecent == Spec => []AnswerNotOlder
<1>1. TypeInv /\ StampInv /\ AnswerInv => AnswerNotOlder
  <2> SUFFICES ASSUME TypeInv, StampInv, AnswerInv, NEW t \in Threads, pc[t] = "returned"
               PROVE  \/ /\ fresh[t] \in 0 .. shape
                         /\ \A s \in 0 .. began[t] : s <= fresh[t] \/ s \in VoidShapes
                      \/ /\ fresh[t] = NoPoly
                         /\ began[t] .. shape \cap EmptyShapes # {}
                      \/ /\ fresh[t] \in {NoPoly, Incomplete}
                         /\ (began[t] + 1 .. shape) \ VoidShapes # {}
    BY DEF AnswerNotOlder
  <2>1. /\ began[t] \in Int /\ shape \in Int /\ EmptyShapes \subseteq Int
        /\ fresh[t] \in {NoPoly, Incomplete} \cup 0 .. shape
    BY KernelShapeAssumption, PolyhedronCacheAssumption
    DEF TypeInv, TypeOK, ShapeTypeOK, StampInv, NoPoly, Incomplete
  <2>2. HasAnswer(t)
    BY DEF AnswerInv
  <2>3. CASE Whole(fresh[t]) /\ AsNewAs(fresh[t], began[t])
    BY <2>1, <2>3 DEF Whole, AsNewAs
  <2>4. CASE fresh[t] = NoPoly /\ \E s \in EmptyShapes : began[t] <= s /\ s <= shape
    BY <2>1, <2>4
  <2>5. CASE ~Whole(fresh[t]) /\ Replaced(began[t])
    <3>1. PICK s \in Int : began[t] < s /\ s <= shape /\ s \notin VoidShapes
      BY <2>5 DEF Replaced
    <3>2. s \in (began[t] + 1 .. shape) \ VoidShapes
      BY <3>1, <2>1
    <3> QED
      BY <3>2, <2>5 DEF Whole
  <2> QED
    BY <2>2, <2>3, <2>4, <2>5 DEF HasAnswer
<1> QED
  BY <1>1, TypeInit, TypeStep, StampInit, StampStep, AgeStep, AnswerStep, PTL DEF Spec
=============================================================================
