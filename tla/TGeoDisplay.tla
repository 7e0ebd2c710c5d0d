------------------------------ MODULE TGeoDisplay ------------------------------
(***************************************************************************)
(* The display mesh of a TGeoOCCTSolid.  TGeoOCCTSolidBridge::DisplayMesh() *)
(* converts the kernel's shared tessellation for any thread and keeps the   *)
(* result; TGeoOCCTSolid::EnsureDisplayHelper() turns it into a             *)
(* TGeoTessellated for the thread that draws; SetOCCTShape() replaces the   *)
(* shape.  Every call of GetOrBuildSurfaceCache() comes from DisplayMesh(). *)
(*                                                                          *)
(* EnsureDisplayHelper() locks nothing: TGeo's painter is one thread, the   *)
(* Drawer, and the assignment of a helper with its stamp, as its reset, is  *)
(* one step.  A mesh is identified by the shape it was made from.           *)
(***************************************************************************)
EXTENDS SurfaceCache

CONSTANT Drawer  \* the thread that draws; the others call DisplayMesh()

ASSUME DrawerAssumption == Drawer \in Threads

VARIABLES
  bridge,   \* is there an fBridge?
  mesh,     \* displayMesh and displayMeshGeneration
  helper,   \* fDisplayHelper and fDisplayGeneration
  at,       \* where each thread is in DisplayMesh()
  ask,      \* its generationToBuild
  copied,   \* its local mesh
  drawGen,  \* the generation EnsureDisplayHelper() has loaded
  overrun   \* history: has a late build replaced a newer tessellation?

displayVars == <<bridge, mesh, helper, at, ask, copied, drawGen, overrun>>
allVars     == <<vars, displayVars>>

Nothing == [of |-> NoCache, gen |-> NoGen]

(* The helper of a solid without a shape has no facets. *)
EmptyHelper == [of |-> Incomplete, gen |-> NoGen]

DisplayInit ==
  /\ Init
  /\ bridge \in BOOLEAN  \* FromSTEP(), or the default constructor
  /\ mesh = Nothing
  /\ helper = Nothing
  /\ at = [t \in Threads |-> "idle"]
  /\ ask = [t \in Threads |-> 0]
  /\ copied = [t \in Threads |-> NoCache]
  /\ drawGen = NoGen
  /\ overrun = FALSE

Step(t, from, to) ==
  /\ at[t] = from
  /\ at' = [at EXCEPT ![t] = to]

-----------------------------------------------------------------------------
(* EnsureDisplayHelper() *)

EnsureWithoutBridge ==
  /\ ~bridge /\ helper.of = NoCache
  /\ helper' = EmptyHelper
  /\ UNCHANGED <<vars, bridge, mesh, at, ask, copied, drawGen, overrun>>

(* A helper of this generation is kept. *)
EnsureDisplayHelper ==
  /\ bridge /\ QueryAllowed
  /\ ~(helper.of # NoCache /\ helper.gen = gen)
  /\ Step(Drawer, "idle", "loop")
  /\ drawGen' = gen
  /\ UNCHANGED <<vars, bridge, mesh, helper, ask, copied, overrun>>

(* The stamp is the generation from before the mesh was asked for. *)
AssignHelper ==
  /\ Step(Drawer, "return", "idle")
  /\ helper' = [of |-> copied[Drawer], gen |-> drawGen]
  /\ copied' = [copied EXCEPT ![Drawer] = NoCache]
  /\ drawGen' = NoGen
  /\ UNCHANGED <<vars, bridge, mesh, ask, overrun>>

-----------------------------------------------------------------------------
(* DisplayMesh() *)

CallDisplayMesh(t) ==
  /\ t # Drawer /\ bridge /\ QueryAllowed
  /\ Step(t, "idle", "loop")
  /\ UNCHANGED <<vars, bridge, mesh, helper, ask, copied, drawGen, overrun>>

LoadDisplayGeneration(t) ==
  /\ Step(t, "loop", "check")
  /\ ask' = [ask EXCEPT ![t] = gen]
  /\ UNCHANGED <<vars, bridge, mesh, helper, copied, drawGen, overrun>>

Serve(t) ==
  /\ at' = [at EXCEPT ![t] = "return"]
  /\ copied' = [copied EXCEPT ![t] = mesh.of]
  /\ UNCHANGED mesh

CheckMesh(t) ==
  /\ at[t] = "check"
  /\ \/ mesh.of # NoCache /\ mesh.gen = ask[t] /\ Serve(t)
     \/ /\ ~(mesh.of # NoCache /\ mesh.gen = ask[t])
        /\ at' = [at EXCEPT ![t] = "build"]
        /\ UNCHANGED <<mesh, copied>>
  /\ UNCHANGED <<vars, bridge, helper, ask, drawGen, overrun>>

(* The call of GetOrBuildSurfaceCache(); its exception passes through. *)
BuildSurface(t) ==
  /\ at[t] = "build"
  /\ \/ LoadGeneration(t) \/ Enter(t) \/ Recheck(t) \/ SpuriousWake(t)
     \/ Mesh(t) \/ Collect(t) \/ Store(t) \/ Deref(t)
  /\ overrun' = (overrun \/ (pc[t] = "store" /\ cacheGen > myGen[t]))
  /\ UNCHANGED <<bridge, mesh, helper, at, ask, copied, drawGen>>

BuildSurfaceThrows(t) ==
  /\ Step(t, "build", "idle")
  /\ BuildThrows(t)
  /\ UNCHANGED <<bridge, mesh, helper, ask, copied, drawGen, overrun>>

(* The triangles are read through the reference, without a lock: where the  *)
(* tessellation has been reset or replaced meanwhile, anything may be read. *)
CopyTriangles(t) ==
  /\ Finish(t)
  /\ Step(t, "build", "publish")
  /\ \/ cache # NoCache /\ copied' = [copied EXCEPT ![t] = cache]
     \/ cacheGen # myGen[t] /\ copied' = [copied EXCEPT ![t] = Incomplete]
  /\ UNCHANGED <<bridge, mesh, helper, ask, drawGen, overrun>>

(* Mutation: a mesh that was begun for an older generation is kept. *)
PublishAnyway(t) ==
  /\ at[t] = "publish"
  /\ \/ mesh.of # NoCache /\ mesh.gen = gen /\ Serve(t)
     \/ /\ ~(mesh.of # NoCache /\ mesh.gen = gen)
        /\ mesh' = [of |-> copied[t], gen |-> gen]
        /\ at' = [at EXCEPT ![t] = "return"]
        /\ UNCHANGED copied
  /\ UNCHANGED <<vars, bridge, helper, ask, drawGen, overrun>>

(* Mutation: the generation is loaded once, before the loop. *)
PublishLoadsOnce(t) ==
  /\ at[t] = "publish"
  /\ \/ mesh.of # NoCache /\ mesh.gen = gen /\ Serve(t)
     \/ /\ ~(mesh.of # NoCache /\ mesh.gen = gen)
        /\ gen = ask[t]
        /\ mesh' = [of |-> copied[t], gen |-> gen]
        /\ at' = [at EXCEPT ![t] = "return"]
        /\ UNCHANGED copied
     \/ /\ ~(mesh.of # NoCache /\ mesh.gen = gen)
        /\ gen # ask[t]
        /\ at' = [at EXCEPT ![t] = "check"]
        /\ copied' = [copied EXCEPT ![t] = NoCache]
        /\ UNCHANGED mesh
  /\ UNCHANGED <<vars, bridge, helper, ask, drawGen, overrun>>

(* Another thread may have been faster; a generation that has moved on      *)
(* sends the thread round again.                                            *)
Publish(t) ==
  /\ at[t] = "publish"
  /\ \/ mesh.of # NoCache /\ mesh.gen = gen /\ Serve(t)
     \/ /\ ~(mesh.of # NoCache /\ mesh.gen = gen)
        /\ gen = ask[t]
        /\ mesh' = [of |-> copied[t], gen |-> gen]
        /\ at' = [at EXCEPT ![t] = "return"]
        /\ UNCHANGED copied
     \/ /\ ~(mesh.of # NoCache /\ mesh.gen = gen)
        /\ gen # ask[t]
        /\ at' = [at EXCEPT ![t] = "loop"]
        /\ copied' = [copied EXCEPT ![t] = NoCache]
        /\ UNCHANGED mesh
  /\ UNCHANGED <<vars, bridge, helper, ask, drawGen, overrun>>

Return(t) ==
  /\ t # Drawer
  /\ Step(t, "return", "idle")
  /\ copied' = [copied EXCEPT ![t] = NoCache]
  /\ UNCHANGED <<vars, bridge, mesh, helper, ask, drawGen, overrun>>

DisplayMesh(t) ==
  \/ CallDisplayMesh(t) \/ LoadDisplayGeneration(t) \/ CheckMesh(t)
  \/ BuildSurface(t) \/ BuildSurfaceThrows(t) \/ CopyTriangles(t) \/ Publish(t) \/ Return(t)

-----------------------------------------------------------------------------
(* SetOCCTShape() *)

(* The first shape of a solid that had none: a new kernel. *)
InstallBridge ==
  /\ ~bridge
  /\ bridge' = TRUE
  /\ helper' = Nothing
  /\ UNCHANGED <<vars, mesh, at, ask, copied, drawGen, overrun>>

SetKernelShape ==
  /\ bridge /\ setter # "adapter"
  /\ Overlap \/ \A t \in Threads : at[t] = "idle"
  /\ SetShape
  /\ UNCHANGED displayVars

(* ComputeBBox(), then the helper goes. *)
ResetHelper ==
  /\ setter = "adapter"
  /\ OtherSetShapeStep
  /\ helper' = Nothing
  /\ UNCHANGED <<bridge, mesh, at, ask, copied, drawGen, overrun>>

DisplayNext ==
  \/ EnsureWithoutBridge \/ EnsureDisplayHelper \/ AssignHelper
  \/ (\E t \in Threads : DisplayMesh(t))
  \/ InstallBridge \/ SetKernelShape \/ ResetHelper

(* As in SurfaceCache: a call that is under way keeps running. *)
DisplayFairness ==
  /\ WF_allVars((setter # "idle" /\ SetKernelShape) \/ ResetHelper)
  /\ \A t \in Threads :
       WF_allVars(\/ LoadDisplayGeneration(t) \/ CheckMesh(t) \/ Publish(t) \/ Return(t)
                  \/ CopyTriangles(t) \/ (t = Drawer /\ AssignHelper)
                  \/ BuildSurface(t) /\ ~SpuriousWake(t))

DisplaySpec == DisplayInit /\ [][DisplayNext]_allVars /\ DisplayFairness

-----------------------------------------------------------------------------
(* Properties. *)

(* What is drawn is the shape: once a SetOCCTShape() has succeeded, a mesh  *)
(* or a helper that its stamp lets pass was made from the kernel's shape,   *)
(* although the stamps are taken before the tessellation is asked for, the  *)
(* reference to it is read without a lock and SetShape() may come anywhere. *)
(* One thing breaks it, which the callers must exclude: a build that        *)
(* SetShape() has overtaken stores its tessellation over a newer one.       *)
DisplaySound ==
  Settled /\ ~overrun =>
    /\ mesh.of # NoCache /\ mesh.gen = gen => mesh.of = shape
    /\ helper.of # NoCache /\ helper.gen = gen => helper.of = shape

(* The loop of DisplayMesh() ends: whoever draws or asks for the mesh comes *)
(* back, although every SetShape() may send it round again, a build it      *)
(* waits for may throw and another thread's mesh may be the one it returns. *)
EveryDrawReturns == \A t \in Threads : at[t] # "idle" ~> at[t] = "idle"
=============================================================================
