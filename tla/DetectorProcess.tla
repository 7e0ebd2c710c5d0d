----------------------------- MODULE DetectorProcess -----------------------------
(***************************************************************************)
(* What the programs that import assemblies have in common: where the       *)
(* process is, why it ended, and Geant4's tables of materials and elements, *)
(* which outlive every file that fills them.                                *)
(***************************************************************************)
EXTENDS AssemblyImport

VARIABLES
  phase,     \* of the process
  fault,     \* why it died
  table,     \* the names in the G4Material table
  elements   \* the elements and isotopes defined so far

processVars == <<phase, fault, table, elements>>

(* An uncaught exception, a fatal G4Exception or an error return. *)
Die(code) ==
  /\ phase' = "dead"
  /\ fault' = code

(* The FromSTEP() of the solids takes the shapes of a file as one, which    *)
(* must have a bounding box.                                                *)
LoadsAsSolid(path) ==
  /\ Readable(path)
  /\ \E i \in DOMAIN Documents[path].free :
       Documents[path].labels[Documents[path].free[i]].shape = "solid"
=============================================================================
