---------------------------- MODULE PolyhedronCache ----------------------------
(***************************************************************************)
(* G4OCCTSolid::CreatePolyhedron(): the display mesh of the Geant4 adapter, *)
(* shared by the threads that draw, and SetOCCTShape(), which replaces the  *)
(* kernel's shape and then discards the mesh.                               *)
(*                                                                          *)
(* A critical section of polyhedronMutex is one step.  In the last one the  *)
(* kernel's generation, an atomic the mutex does not protect, is compared   *)
(* before the mesh is stored: a generation published between the two leaves *)
(* the same state as one published after the store.  A mesh is identified   *)
(* by the shape it was made from.  A build reads the kernel's shape twice,  *)
(* to mesh it and to collect the triangles: with Overlap the second reading *)
(* may find a newer shape whose faces nobody has meshed yet.  Unlike the    *)
(* surface cache, SetShape() does not touch this one's flag, and the caller *)
(* gets a copy it owns.                                                     *)
(***************************************************************************)
EXTENDS KernelShape

CONSTANTS
  Threads,      \* the threads calling CreatePolyhedron()
  EmptyShapes,  \* the shapes whose tessellation has no facet: the mesh is null
  MaxThrows     \* bound: builds that end in an exception

ASSUME PolyhedronCacheAssumption ==
  /\ EmptyShapes \subseteq 0 .. MaxSetShape
  /\ VoidShapes \subseteq EmptyShapes
  /\ MaxThrows \in Nat

VARIABLES
  poly,      \* cachedPolyhedron
  polyGen,   \* polyhedronGeneration
  building,  \* polyhedronBuilding
  pc,        \* where each thread is
  myGen,     \* its currentGeneration
  fresh,     \* its freshPolyhedron, then the mesh it returns
  throws,    \* builds that have thrown so far
  began      \* history, read by no step: Concluded when the thread's call began

callVars == <<pc, myGen, fresh, throws, began>>
polyVars == <<poly, polyGen, building>>
vars     == <<shapeVars, polyVars, callVars>>

(* A null unique_ptr. *)
NoPoly == -1

(* A mesh collected from faces that are not all meshed. *)
Incomplete == -2

PCs == {"idle", "lock", "waiting", "build", "collect", "store", "returned"}

TypeOK ==
  /\ ShapeTypeOK
  /\ poly \in {NoPoly, Incomplete} \cup 0 .. MaxSetShape
  /\ polyGen \in {NoGen} \cup 0 .. MaxSetShape
  /\ building \in BOOLEAN
  /\ pc \in [Threads -> PCs]
  /\ myGen \in [Threads -> 0 .. MaxSetShape]
  /\ fresh \in [Threads -> {NoPoly, Incomplete} \cup 0 .. MaxSetShape]
  /\ throws \in 0 .. MaxThrows
  /\ began \in [Threads -> 0 .. MaxSetShape]

Init ==
  /\ ShapeInit
  /\ poly = NoPoly
  /\ polyGen = NoGen
  /\ building = FALSE
  /\ pc = [t \in Threads |-> "idle"]
  /\ myGen = [t \in Threads |-> 0]
  /\ fresh = [t \in Threads |-> NoPoly]
  /\ throws = 0
  /\ began = [t \in Threads |-> 0]

-----------------------------------------------------------------------------
(* The steps of one call. *)

Goto(t, label) == pc' = [pc EXCEPT ![t] = label]

(* notify_all() together with the caller's own move to a label. *)
NotifyAll(t, label) ==
  pc' = [u \in Threads |-> IF u = t THEN label
                           ELSE IF pc[u] = "waiting" THEN "lock" ELSE pc[u]]

(* Mutation: the local is never loaded and keeps its initial maximum. *)
LoadGenerationForgotten(t) ==
  /\ pc[t] = "idle"
  /\ QueryAllowed
  /\ myGen' = [myGen EXCEPT ![t] = NoGen]
  /\ began' = [began EXCEPT ![t] = Concluded]
  /\ Goto(t, "lock")
  /\ UNCHANGED <<shapeVars, polyVars, fresh, throws>>

LoadGeneration(t) ==
  /\ pc[t] = "idle"
  /\ QueryAllowed
  /\ myGen' = [myGen EXCEPT ![t] = gen]
  /\ began' = [began EXCEPT ![t] = Concluded]
  /\ Goto(t, "lock")
  /\ UNCHANGED <<shapeVars, polyVars, fresh, throws>>

(* The predicate of the wait: nobody builds, or the mesh is already there. *)
MayProceed(t) == ~building \/ polyGen = myGen[t]

(* Mutation: any mesh will do. *)
CachedAtAll(t) == poly # NoPoly

Cached(t) == poly # NoPoly /\ polyGen = myGen[t]

Wait(t) ==
  /\ pc[t] = "lock"
  /\ ~MayProceed(t)
  /\ Goto(t, "waiting")
  /\ UNCHANGED <<shapeVars, polyVars, myGen, fresh, throws, began>>

ReturnCached(t) ==
  /\ pc[t] = "lock"
  /\ MayProceed(t)
  /\ Cached(t)
  /\ fresh' = [fresh EXCEPT ![t] = poly]
  /\ Goto(t, "returned")
  /\ UNCHANGED <<shapeVars, polyVars, myGen, throws, began>>

Claim(t) ==
  /\ pc[t] = "lock"
  /\ MayProceed(t)
  /\ ~Cached(t)
  /\ building' = TRUE
  /\ Goto(t, "build")
  /\ UNCHANGED <<shapeVars, poly, polyGen, myGen, fresh, throws, began>>

SpuriousWake(t) ==
  /\ pc[t] = "waiting"
  /\ Goto(t, "lock")
  /\ UNCHANGED <<shapeVars, polyVars, myGen, fresh, throws, began>>

(* BRepMesh_IncrementalMesh; until the triangles are collected, fresh is the *)
(* shape that was meshed.                                                    *)
Mesh(t) ==
  /\ pc[t] = "build"
  /\ fresh' = [fresh EXCEPT ![t] = shape]
  /\ Goto(t, "collect")
  /\ UNCHANGED <<shapeVars, polyVars, myGen, throws, began>>

Collect(t) ==
  /\ pc[t] = "collect"
  /\ \/ /\ shape \in EmptyShapes
        /\ fresh' = [fresh EXCEPT ![t] = NoPoly]
     \/ /\ shape \notin EmptyShapes
        /\ fresh' = [fresh EXCEPT ![t] = shape]
     \/ /\ HalfDerived /\ fresh[t] # shape
        /\ \E mesh \in {NoPoly, Incomplete} : fresh' = [fresh EXCEPT ![t] = mesh]
  /\ Goto(t, "store")
  /\ UNCHANGED <<shapeVars, polyVars, myGen, throws, began>>

(* Mutation: the exception clears the flag and notifies nobody. *)
BuildThrowsSilently(t) ==
  /\ pc[t] \in {"build", "collect"}
  /\ throws < MaxThrows
  /\ throws' = throws + 1
  /\ fresh' = [fresh EXCEPT ![t] = NoPoly]
  /\ building' = FALSE
  /\ Goto(t, "idle")
  /\ UNCHANGED <<shapeVars, poly, polyGen, myGen, began>>

BuildThrows(t) ==
  /\ pc[t] \in {"build", "collect"}
  /\ throws < MaxThrows
  /\ throws' = throws + 1
  /\ fresh' = [fresh EXCEPT ![t] = NoPoly]
  /\ building' = FALSE
  /\ NotifyAll(t, "idle")
  /\ UNCHANGED <<shapeVars, poly, polyGen, myGen, began>>

(* Mutation: the mesh is kept and stamped with the generation of the moment. *)
StoreStampedLate(t) ==
  /\ pc[t] = "store"
  /\ IF fresh[t] # NoPoly
     THEN /\ poly' = fresh[t]
          /\ polyGen' = gen
     ELSE UNCHANGED <<poly, polyGen>>
  /\ building' = FALSE
  /\ NotifyAll(t, "returned")
  /\ UNCHANGED <<shapeVars, myGen, fresh, throws, began>>

(* A null mesh, or one that was requested for an earlier generation, is      *)
(* returned but not kept.                                                    *)
Store(t) ==
  /\ pc[t] = "store"
  /\ IF fresh[t] # NoPoly /\ gen = myGen[t]
     THEN /\ poly' = fresh[t]
          /\ polyGen' = myGen[t]
     ELSE UNCHANGED <<poly, polyGen>>
  /\ building' = FALSE
  /\ NotifyAll(t, "returned")
  /\ UNCHANGED <<shapeVars, myGen, fresh, throws, began>>

Finish(t) ==
  /\ pc[t] = "returned"
  /\ fresh' = [fresh EXCEPT ![t] = NoPoly]
  /\ Goto(t, "idle")
  /\ UNCHANGED <<shapeVars, polyVars, myGen, throws, began>>

Call(t) ==
  \/ LoadGeneration(t) \/ Wait(t) \/ ReturnCached(t) \/ Claim(t) \/ SpuriousWake(t)
  \/ Mesh(t) \/ Collect(t) \/ BuildThrows(t) \/ Store(t) \/ Finish(t)

-----------------------------------------------------------------------------
(* SetOCCTShape(). *)

StartSetShape ==
  /\ Overlap \/ \A t \in Threads : pc[t] = "idle"
  /\ WriteShape
  /\ UNCHANGED <<polyVars, callVars>>

KernelSetShapeStep ==
  /\ \/ ComputeBounds \/ ComputeBoundsThrows
     \/ ResetVolumeArea \/ ResetSurfaceCache \/ BumpGeneration
  /\ UNCHANGED <<polyVars, callVars>>

(* Mutation: the flag is cleared too, as SetShape() does with the kernel's. *)
DiscardAndClearFlag ==
  /\ AdapterReset
  /\ poly' = NoPoly
  /\ polyGen' = NoGen
  /\ building' = FALSE
  /\ UNCHANGED callVars

DiscardPolyhedron ==
  /\ AdapterReset
  /\ poly' = NoPoly
  /\ polyGen' = NoGen
  /\ UNCHANGED <<building, callVars>>

SetOCCTShape == StartSetShape \/ KernelSetShapeStep \/ DiscardPolyhedron

Next == SetOCCTShape \/ \E t \in Threads : Call(t)

Spec == Init /\ [][Next]_vars

-----------------------------------------------------------------------------
(* Properties. *)

Builders == {t \in Threads : pc[t] \in {"build", "collect", "store"}}

(* One thread builds at a time, and the flag says so, also when SetOCCTShape() *)
(* intervenes: BRepMesh_IncrementalMesh writes into the shape it meshes.       *)
OneBuilder ==
  /\ building <=> Builders # {}
  /\ \A t, u \in Builders : t = u

(* No wake-up is lost: a thread sleeps on polyhedronCV only while another one  *)
(* builds, although SetOCCTShape() changes what the predicate reads without    *)
(* notifying, and a build may end in an exception or in a null mesh.           *)
SleepersHaveBuilder ==
  \A t \in Threads : pc[t] = "waiting" => building /\ ~Cached(t)

(* Once a SetOCCTShape() has succeeded, a mesh stamped with the kernel's       *)
(* generation was made from its shape, whatever was in flight meanwhile.       *)
PolyhedronStampSound ==
  Settled /\ poly # NoPoly /\ polyGen = gen => poly = shape

(* What a call returns answers for the moment it began, not only for the        *)
(* kernel's counter: the mesh is of no older a shape than any that a            *)
(* SetOCCTShape() concluded by then had accepted; it is null only for one of    *)
(* the shapes held since then, without facets; and it is null or incomplete     *)
(* for another reason only when a newer shape has been put in its place.        *)
AnswerNotOlder ==
  \A t \in Threads : pc[t] = "returned" =>
    \/ /\ fresh[t] \in 0 .. shape
       /\ \A s \in 0 .. began[t] : s <= fresh[t] \/ s \in VoidShapes
    \/ /\ fresh[t] = NoPoly
       /\ began[t] .. shape \cap EmptyShapes # {}
    \/ /\ fresh[t] \in {NoPoly, Incomplete}
       /\ (began[t] + 1 .. shape) \ VoidShapes # {}
=============================================================================
