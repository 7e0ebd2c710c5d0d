------------------------------ MODULE SurfaceCache ------------------------------
(***************************************************************************)
(* G4OCCTSolidKernel::GetOrBuildSurfaceCache(): the tessellation shared by  *)
(* all threads, built by the first one that misses while the others sleep   *)
(* on a condition variable, and SetShape() resetting it.                    *)
(*                                                                          *)
(* A critical section of fSurfaceCacheMutex is one step; so is a critical   *)
(* section with the notify_all() that follows its unlock, since a thread    *)
(* that would be notified late is covered by SpuriousWake.  Everything the  *)
(* code does without the mutex (loading the generation, meshing, the final  *)
(* dereference of fSurfaceCache, the use of the returned reference) is a    *)
(* step of its own.  A tessellation is identified by the shape it was made  *)
(* from.  A build reads fShape twice, to mesh it and to collect the         *)
(* triangles: with Overlap the second reading may find a newer shape whose  *)
(* faces nobody has meshed yet.                                             *)
(***************************************************************************)
EXTENDS KernelShape

CONSTANTS
  Threads,   \* the threads calling GetOrBuildSurfaceCache()
  MaxThrows  \* bound: builds that end in an exception

ASSUME SurfaceCacheAssumption == MaxThrows \in Nat

VARIABLES
  cache,     \* fSurfaceCache
  cacheGen,  \* fSurfaceCacheGeneration
  building,  \* fSurfaceCacheBuilding
  pc,        \* where each thread is
  myGen,     \* its currentGen
  built,     \* its local cache, not yet stored
  throws     \* builds that have thrown so far

callVars  == <<pc, myGen, built, throws>>
cacheVars == <<cache, cacheGen, building>>
vars      == <<shapeVars, cacheVars, callVars>>

(* An empty optional. *)
NoCache == -1

(* A tessellation collected from faces that are not all meshed. *)
Incomplete == -2

ASSUME ThreadsAssumption == NoCache \notin Threads

PCs == {"idle", "lock", "waiting", "woken", "build", "collect", "store", "deref", "reading"}

TypeOK ==
  /\ ShapeTypeOK
  /\ cache \in {NoCache, Incomplete} \cup 0 .. MaxSetShape
  /\ cacheGen \in {NoGen} \cup 0 .. MaxSetShape
  /\ building \in BOOLEAN
  /\ pc \in [Threads -> PCs]
  /\ myGen \in [Threads -> 0 .. MaxSetShape]
  /\ built \in [Threads -> {NoCache, Incomplete} \cup 0 .. MaxSetShape]
  /\ throws \in 0 .. MaxThrows

Init ==
  /\ ShapeInit
  /\ cache = NoCache
  /\ cacheGen = NoGen
  /\ building = FALSE
  /\ pc = [t \in Threads |-> "idle"]
  /\ myGen = [t \in Threads |-> 0]
  /\ built = [t \in Threads |-> NoCache]
  /\ throws = 0

-----------------------------------------------------------------------------
(* The steps of one call. *)

Goto(t, label) == pc' = [pc EXCEPT ![t] = label]

(* notify_all() together with the caller's own move to a label. *)
NotifyAll(t, label) ==
  pc' = [u \in Threads |-> IF u = t THEN label
                           ELSE IF pc[u] = "waiting" THEN "woken" ELSE pc[u]]

Hit(t) == cache # NoCache /\ cacheGen = myGen[t]

(* Mutation: the local is never loaded and keeps its initial maximum. *)
LoadGenerationForgotten(t) ==
  /\ pc[t] = "idle"
  /\ QueryAllowed
  /\ myGen' = [myGen EXCEPT ![t] = NoGen]
  /\ Goto(t, "lock")
  /\ UNCHANGED <<shapeVars, cacheVars, built, throws>>

LoadGeneration(t) ==
  /\ pc[t] = "idle"
  /\ QueryAllowed
  /\ myGen' = [myGen EXCEPT ![t] = gen]
  /\ Goto(t, "lock")
  /\ UNCHANGED <<shapeVars, cacheVars, built, throws>>

ReturnCached(t) ==
  /\ Goto(t, "reading")
  /\ UNCHANGED building

Wait(t) ==
  /\ Goto(t, "waiting")
  /\ UNCHANGED building

Claim(t) ==
  /\ building' = TRUE
  /\ Goto(t, "build")

(* Mutation: a miss claims the build without looking at the flag. *)
EnterWithoutFlag(t) ==
  /\ pc[t] = "lock"
  /\ \/ Hit(t) /\ ReturnCached(t)
     \/ ~Hit(t) /\ Claim(t)
  /\ UNCHANGED <<shapeVars, cache, cacheGen, myGen, built, throws>>

(* First look at the cache: the flag is tested before the payload. *)
Enter(t) ==
  /\ pc[t] = "lock"
  /\ \/ building /\ Wait(t)
     \/ ~building /\ Hit(t) /\ ReturnCached(t)
     \/ ~building /\ ~Hit(t) /\ Claim(t)
  /\ UNCHANGED <<shapeVars, cache, cacheGen, myGen, built, throws>>

(* Mutation: a woken thread only asks whether somebody still builds. *)
RecheckFlagOnly(t) ==
  /\ pc[t] = "woken"
  /\ \/ building /\ Wait(t)
     \/ ~building /\ Claim(t)
  /\ UNCHANGED <<shapeVars, cache, cacheGen, myGen, built, throws>>

(* Mutation: a woken thread trusts that the build it waited for succeeded. *)
RecheckTrusting(t) ==
  /\ pc[t] = "woken"
  /\ \/ ~building /\ ReturnCached(t)
     \/ building /\ Wait(t)
  /\ UNCHANGED <<shapeVars, cache, cacheGen, myGen, built, throws>>

(* After a wake-up: the payload is tested before the flag. *)
Recheck(t) ==
  /\ pc[t] = "woken"
  /\ \/ Hit(t) /\ ReturnCached(t)
     \/ ~Hit(t) /\ building /\ Wait(t)
     \/ ~Hit(t) /\ ~building /\ Claim(t)
  /\ UNCHANGED <<shapeVars, cache, cacheGen, myGen, built, throws>>

SpuriousWake(t) ==
  /\ pc[t] = "waiting"
  /\ Goto(t, "woken")
  /\ UNCHANGED <<shapeVars, cacheVars, myGen, built, throws>>

(* BRepMesh_IncrementalMesh; until the triangles are collected, built is the *)
(* shape that was meshed.                                                    *)
Mesh(t) ==
  /\ pc[t] = "build"
  /\ built' = [built EXCEPT ![t] = shape]
  /\ Goto(t, "collect")
  /\ UNCHANGED <<shapeVars, cacheVars, myGen, throws>>

Collect(t) ==
  /\ pc[t] = "collect"
  /\ \/ built' = [built EXCEPT ![t] = shape]
     \/ /\ HalfDerived /\ built[t] # shape
        /\ built' = [built EXCEPT ![t] = Incomplete]
  /\ Goto(t, "store")
  /\ UNCHANGED <<shapeVars, cacheVars, myGen, throws>>

(* Mutation: the exception clears the flag and notifies nobody. *)
BuildThrowsSilently(t) ==
  /\ pc[t] \in {"build", "collect"}
  /\ throws < MaxThrows
  /\ throws' = throws + 1
  /\ built' = [built EXCEPT ![t] = NoCache]
  /\ building' = FALSE
  /\ Goto(t, "idle")
  /\ UNCHANGED <<shapeVars, cache, cacheGen, myGen>>

BuildThrows(t) ==
  /\ pc[t] \in {"build", "collect"}
  /\ throws < MaxThrows
  /\ throws' = throws + 1
  /\ built' = [built EXCEPT ![t] = NoCache]
  /\ building' = FALSE
  /\ NotifyAll(t, "idle")
  /\ UNCHANGED <<shapeVars, cache, cacheGen, myGen>>

(* Mutation: the payload is stored without its stamp. *)
StoreUnstamped(t) ==
  /\ pc[t] = "store"
  /\ IF Hit(t) THEN UNCHANGED cache ELSE cache' = built[t]
  /\ built' = [built EXCEPT ![t] = NoCache]
  /\ building' = FALSE
  /\ NotifyAll(t, "deref")
  /\ UNCHANGED <<shapeVars, cacheGen, myGen, throws>>

(* Mutation: the payload is stamped with the generation of the moment. *)
StoreStampedLate(t) ==
  /\ pc[t] = "store"
  /\ IF Hit(t) THEN UNCHANGED <<cache, cacheGen>>
     ELSE /\ cache' = built[t]
          /\ cacheGen' = gen
  /\ built' = [built EXCEPT ![t] = NoCache]
  /\ building' = FALSE
  /\ NotifyAll(t, "deref")
  /\ UNCHANGED <<shapeVars, myGen, throws>>

Store(t) ==
  /\ pc[t] = "store"
  /\ IF Hit(t) THEN UNCHANGED <<cache, cacheGen>>
     ELSE /\ cache' = built[t]
          /\ cacheGen' = myGen[t]
  /\ built' = [built EXCEPT ![t] = NoCache]
  /\ building' = FALSE
  /\ NotifyAll(t, "deref")
  /\ UNCHANGED <<shapeVars, myGen, throws>>

(* Mutation: the payload is moved out of the cache to its caller. *)
DerefMovesOut(t) ==
  /\ pc[t] = "deref"
  /\ cache' = NoCache
  /\ Goto(t, "reading")
  /\ UNCHANGED <<shapeVars, cacheGen, building, myGen, built, throws>>

(* return *fSurfaceCache, after the mutex is released *)
Deref(t) ==
  /\ pc[t] = "deref"
  /\ Goto(t, "reading")
  /\ UNCHANGED <<shapeVars, cacheVars, myGen, built, throws>>

(* The caller (GetPointOnSurface(), DisplayMesh()) is done with the reference. *)
Finish(t) ==
  /\ pc[t] = "reading"
  /\ Goto(t, "idle")
  /\ UNCHANGED <<shapeVars, cacheVars, myGen, built, throws>>

Call(t) ==
  \/ LoadGeneration(t) \/ Enter(t) \/ Recheck(t) \/ SpuriousWake(t)
  \/ Mesh(t) \/ Collect(t) \/ BuildThrows(t) \/ Store(t) \/ Deref(t) \/ Finish(t)

-----------------------------------------------------------------------------
(* SetShape() as this cache sees it. *)

StartSetShape ==
  /\ Overlap \/ \A t \in Threads : pc[t] = "idle"
  /\ WriteShape
  /\ UNCHANGED <<cacheVars, callVars>>

ResetCache ==
  /\ ResetSurfaceCache
  /\ cache' = NoCache
  /\ cacheGen' = NoGen
  /\ building' = FALSE
  /\ pc' = [u \in Threads |-> IF pc[u] = "waiting" THEN "woken" ELSE pc[u]]
  /\ UNCHANGED <<myGen, built, throws>>

OtherSetShapeStep ==
  /\ \/ ComputeBounds \/ ComputeBoundsThrows
     \/ ResetVolumeArea \/ BumpGeneration \/ AdapterReset
  /\ UNCHANGED <<cacheVars, callVars>>

SetShape == StartSetShape \/ ResetCache \/ OtherSetShapeStep

Next == SetShape \/ \E t \in Threads : Call(t)

(* A thread inside the call, or inside SetShape(), keeps running: nothing   *)
(* obliges anyone to start a call, to throw, or to wake up spuriously.      *)
Progress(t) ==
  Enter(t) \/ Recheck(t) \/ Mesh(t) \/ Collect(t) \/ Store(t) \/ Deref(t) \/ Finish(t)

Fairness ==
  /\ WF_vars(ResetCache \/ OtherSetShapeStep)
  /\ \A t \in Threads : WF_vars(Progress(t))

Spec == Init /\ [][Next]_vars

FairSpec == Spec /\ Fairness

-----------------------------------------------------------------------------
(* Properties. *)

Builders == {t \in Threads : pc[t] \in {"build", "collect", "store"}}

Holders == {t \in Threads : pc[t] \in {"deref", "reading"}}

(* Single flight: fSurfaceCacheBuilding is set exactly while a thread is    *)
(* meshing, and never are there two ("so only one thread pays for           *)
(* meshing/tessellation work on a cold cache miss").                        *)
OneBuilder ==
  /\ building <=> Builders # {}
  /\ \A t, u \in Builders : t = u

(* Nobody meshes a shape whose tessellation is already stored: a claim is   *)
(* never made, nor a stale wake-up followed, for a generation that is hit.  *)
BuildOnlyOnMiss == \A t \in Builders : ~Hit(t)

(* A thread about to dereference fSurfaceCache, or using the reference it   *)
(* was given, finds the tessellation of the shape the kernel now holds,     *)
(* stamped with the generation it asked for.                                *)
HoldersSeeCurrentShape ==
  \A t \in Holders : /\ cacheGen = myGen[t] /\ myGen[t] = gen
                     /\ cache = shape

(* The reference is returned without the mutex: the payload it designates   *)
(* must not be replaced or destroyed under a thread that still uses it.     *)
ReadersUndisturbed == [][Holders # {} => UNCHANGED <<cache, cacheGen>>]_vars

(* Once a SetShape() has succeeded, a payload that carries the kernel's     *)
(* generation is the tessellation of the kernel's shape, however the builds *)
(* that read fShape, the SetShape() calls and their failures interleaved;   *)
(* and at no time does a woken waiter find a stamp without its payload.     *)
StampSound ==
  /\ cache = NoCache <=> cacheGen = NoGen
  /\ Settled /\ cache # NoCache /\ cacheGen = gen => cache = shape

(* Seen from its callers the mutex, the flag and the generations are a table *)
(* filled once per shape (SingleFlight): the payload counts as the table's   *)
(* content while it belongs to the shape held, the builder is the thread     *)
(* that set the flag.                                                        *)
MappedTable == IF cache = shape THEN cache ELSE NoCache

MappedBuilder ==
  IF Builders = {} THEN NoCache ELSE CHOOSE t \in Threads : t \in Builders

MappedCall == [t \in Threads |-> CASE pc[t] = "idle" -> "idle"
                                  [] pc[t] = "reading" -> "answered"
                                  [] OTHER -> "asked"]

Flight == INSTANCE SingleFlight WITH
  version <- shape, table <- MappedTable, builder <- MappedBuilder,
  call <- MappedCall, None <- NoCache

ImplementsSingleFlight == Flight!Spec

(* No wake-up is lost: every call of GetOrBuildSurfaceCache() returns or    *)
(* throws, also when the builder throws and when SetShape() intervenes.     *)
EveryCallReturns ==
  \A t \in Threads : pc[t] = "lock" ~> pc[t] \in {"reading", "idle"}
=============================================================================
