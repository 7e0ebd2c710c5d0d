------------------------------ MODULE KernelShape ------------------------------
(***************************************************************************)
(* The shape held by G4OCCTSolidKernel and the steps of SetShape().         *)
(*                                                                          *)
(* Shapes are numbered by the SetShape() call that installed them; 0 is the *)
(* shape given to the constructor.  SetShape() is not one atomic step: it   *)
(* replaces fShape, recomputes everything derived from it, resets the       *)
(* caches one mutex at a time and only then publishes the new generation.   *)
(* The modules of the caches extend this one and add, to each of its steps, *)
(* what the step does to their own state.                                   *)
(*                                                                          *)
(* One thread at a time runs SetShape(): the callers (SetOCCTShape() of the *)
(* two adapters) do not lock, and the documentation reserves the call for   *)
(* the thread that owns the geometry.                                       *)
(***************************************************************************)
EXTENDS Integers

CONSTANTS
  MaxSetShape,  \* bound: SetShape() calls in a behaviour
  VoidShapes,   \* the shapes without a bounding box: ComputeBounds() throws
  Overlap       \* may SetShape() run while other threads are inside a query?

ASSUME KernelShapeAssumption ==
  /\ MaxSetShape \in Nat
  /\ VoidShapes \subseteq 1 .. MaxSetShape
  /\ Overlap \in BOOLEAN

VARIABLES
  shape,    \* fShape
  derived,  \* the shape that bounds, face cache, triangle set, spheres describe
  gen,      \* fShapeGeneration
  setter    \* where the thread inside SetShape() is

shapeVars == <<shape, derived, gen, setter>>

(* numeric_limits<uint64_t>::max(): the stamp no generation ever equals. *)
NoGen == -1

SetterStates == {"idle", "computeBounds", "resetVolumeArea",
                 "resetSurfaceCache", "bump", "adapter"}

ShapeTypeOK ==
  /\ shape \in 0 .. MaxSetShape
  /\ derived \in 0 .. MaxSetShape
  /\ gen \in 0 .. MaxSetShape
  /\ setter \in SetterStates

(* The constructor has run ComputeBounds() on the first shape. *)
ShapeInit ==
  /\ shape = 0
  /\ derived = 0
  /\ gen = 0
  /\ setter = "idle"

(* A null shape throws before anything is written, so only the call with a  *)
(* shape is a step.                                                         *)
WriteShape ==
  /\ setter = "idle"
  /\ shape < MaxSetShape
  /\ shape' = shape + 1
  /\ setter' = "computeBounds"
  /\ UNCHANGED <<derived, gen>>

ComputeBounds ==
  /\ setter = "computeBounds"
  /\ shape \notin VoidShapes
  /\ derived' = shape
  /\ setter' = "resetVolumeArea"
  /\ UNCHANGED <<shape, gen>>

(* The exception leaves SetShape() with fShape already replaced. *)
ComputeBoundsThrows ==
  /\ setter = "computeBounds"
  /\ shape \in VoidShapes
  /\ setter' = "idle"
  /\ UNCHANGED <<shape, derived, gen>>

ResetVolumeArea ==
  /\ setter = "resetVolumeArea"
  /\ setter' = "resetSurfaceCache"
  /\ UNCHANGED <<shape, derived, gen>>

ResetSurfaceCache ==
  /\ setter = "resetSurfaceCache"
  /\ setter' = "bump"
  /\ UNCHANGED <<shape, derived, gen>>

BumpGeneration ==
  /\ setter = "bump"
  /\ gen' = gen + 1
  /\ setter' = "adapter"
  /\ UNCHANGED <<shape, derived>>

(* SetShape() has returned to the adapter's SetOCCTShape(). *)
AdapterReset ==
  /\ setter = "adapter"
  /\ setter' = "idle"
  /\ UNCHANGED <<shape, derived, gen>>

(* ComputeBounds() is at work: the face cache and all that follows from it   *)
(* are half-written, and the faces of the new shape not meshed yet.  A shape *)
(* without a bounding box has no faces, and throws before any of that.       *)
HalfDerived == setter = "computeBounds" /\ shape \notin VoidShapes

(* No SetShape() is under way, and the last one did not throw. *)
Settled == setter = "idle" /\ derived = shape

(* The newest shape whose SetShape() is over: it published its generation or *)
(* it threw.  While one is under way that is the shape before.               *)
Concluded == IF setter \in {"idle", "adapter"} THEN shape ELSE shape - 1

(* "This call is not synchronised with in-flight navigation; do not call it *)
(* while a simulation run is in progress": without Overlap a query starts   *)
(* only outside SetShape().                                                 *)
QueryAllowed == Overlap \/ setter = "idle"
=============================================================================
