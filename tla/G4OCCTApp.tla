-------------------------------- MODULE G4OCCTApp --------------------------------
(***************************************************************************)
(* The g4occt application: main(), which reads the command line and queues  *)
(* files, the UI commands that queue more, and                              *)
(* G4OCCTDetectorConstruction::Construct(), which turns the queues into a   *)
(* world.                                                                   *)
(*                                                                          *)
(* A session is the commands of a macro, or what a user types.  Lengths are *)
(* on one axis, in units of 10 mm; the size of the world is kept in tenths  *)
(* of that unit, because of its factor of 1.1.  A part extends Half around  *)
(* its centroid, which is Offset away from the origin of its own label, and *)
(* a datum moves by Offset: placements are translations.                    *)
(***************************************************************************)
EXTENDS DetectorProcess, ScoringActions

CONSTANTS
  CommandLines,   \* the command lines, sequences of arguments
  Options,        \* the arguments that begin with "-"
  Extension,      \* the lower-case extension of an argument
  MaterialFiles,  \* the material-map files, by path
  Macros,         \* macro, "" for the typed session: its UI commands
  Half, Offset

(* The UI manager refuses a number of events that is none. *)
ASSUME MacrosAssumption ==
  \A macro \in DOMAIN Macros :
    /\ IsList(Macros[macro])
    /\ \A i \in DOMAIN Macros[macro] :
         Macros[macro][i].cmd = "run/beamOn" => Macros[macro][i].arg \in Nat

ASSUME MaterialFilesAssumption ==
  \A path \in DOMAIN MaterialFiles : IsList(MaterialFiles[path].items)

VARIABLES
  args,      \* the command line not parsed yet
  cli,       \* what parsing has collected
  cmds,      \* the UI commands still to come
  queue,     \* fMaterialXmlFiles, fSolidEntries, fAssemblyEntries, world
  build,     \* the locals of Construct()
  world      \* the world volume and its daughters

appVars == <<args, cli, cmds, queue, build, world>>

NoBounds == [lo |-> 0, hi |-> -1]
NoWorld  == [half |-> 0, placed |-> <<>>]

NewBuild == [map |-> EmptyMap, materials |-> <<>>, solids |-> <<>>, assemblies |-> <<>>,
             bounds |-> NoBounds]

AppInit(line) ==
  /\ args = line
  /\ cli = [macro |-> "", steps |-> <<>>, xmls |-> <<>>]
  /\ cmds = <<>>
  /\ queue = [xmls |-> <<>>, solids |-> <<>>, assemblies |-> <<>>,
              worldHalf |-> 0, worldMaterial |-> "G4_AIR"]
  /\ build = NewBuild
  /\ world = NoWorld

-----------------------------------------------------------------------------
(* main(): the command line *)

ParseOption ==
  /\ phase = "parse" /\ args # <<>>
  /\ args[1] \in {"-m", "-u", "-t"} /\ Len(args) > 1
  /\ args[1] = "-t" => args[2] \notin Options
  /\ cli' = IF args[1] = "-m" THEN [cli EXCEPT !.macro = args[2]] ELSE cli
  /\ args' = SubSeq(args, 3, Len(args))
  /\ UNCHANGED <<processVars, cmds, queue, build, world>>

ParseFile ==
  /\ phase = "parse" /\ args # <<>>
  /\ args[1] \notin Options
  /\ \/ /\ Extension[args[1]] \in {".step", ".stp"}
        /\ cli' = [cli EXCEPT !.steps = Append(@, args[1])]
     \/ /\ Extension[args[1]] = ".xml"
        /\ cli' = [cli EXCEPT !.xmls = Append(@, args[1])]
  /\ args' = Tail(args)
  /\ UNCHANGED <<processVars, cmds, queue, build, world>>

(* An option without its value, an unknown option, another file type. *)
ParseError ==
  /\ phase = "parse" /\ args # <<>>
  /\ \/ args[1] \in {"-m", "-u", "-t"} /\ Len(args) = 1
     \/ args[1] = "-t" /\ Len(args) > 1 /\ args[2] \in Options
     \/ args[1] \in Options \ {"-m", "-u", "-t"}
     \/ args[1] \notin Options /\ Extension[args[1]] \notin {".step", ".stp", ".xml"}
  /\ Die("usage")
  /\ UNCHANGED <<table, elements, appVars>>

(* More than one top-level shape, or one that is an assembly; a file that   *)
(* cannot be read is left for FromSTEP() to complain about.                 *)
IsAssemblySTEP(path) ==
  LET d == Documents[path] IN
  /\ d.opens = "ok"
  /\ \/ Len(d.free) > 1
     \/ Len(d.free) = 1 /\ d.labels[d.free[1]].kind = "assembly"

AddSTEP(q, path) ==
  IF IsAssemblySTEP(path)
  THEN [q EXCEPT !.assemblies = Append(@, path)]
  ELSE [q EXCEPT !.solids = Append(@, [file |-> path, material |-> ""])]

(* The material maps are queued before the shapes, whatever the order of    *)
(* the arguments; then the macro, or the session, begins.  A macro that is  *)
(* not found executes nothing.                                              *)
EndOfArguments ==
  /\ phase = "parse" /\ args = <<>>
  /\ queue' = FoldLeft(AddSTEP, [queue EXCEPT !.xmls = cli.xmls], cli.steps)
  /\ cmds' = IF cli.macro \in DOMAIN Macros THEN Macros[cli.macro] ELSE <<>>
  /\ phase' = "commands"
  /\ UNCHANGED <<fault, table, elements, args, cli, build, world>>

-----------------------------------------------------------------------------
(* UI commands *)

Command(name) ==
  /\ phase = "commands" /\ beam.in = "nothing"
  /\ cmds # <<>> /\ cmds[1].cmd = name
  /\ cmds' = Tail(cmds)

QueueCommand ==
  /\ \/ Command("load/step") /\ queue' = AddSTEP(queue, cmds[1].arg)
     \/ Command("load/assembly") /\ queue' = [queue EXCEPT !.assemblies = Append(@, cmds[1].arg)]
     \/ Command("load/material") /\ queue' = [queue EXCEPT !.xmls = Append(@, cmds[1].arg)]
     \/ Command("world/setSize") /\ queue' = [queue EXCEPT !.worldHalf = cmds[1].arg]
     \/ Command("world/setMaterial") /\ queue' = [queue EXCEPT !.worldMaterial = cmds[1].arg]
  /\ UNCHANGED <<processVars, args, cli, build, world>>

(* Geant4 constructs the geometry once. *)
Initialize ==
  /\ Command("run/initialize")
  /\ phase' = IF world = NoWorld THEN "construct" ELSE "commands"
  /\ build' = NewBuild
  /\ UNCHANGED <<fault, table, elements, args, cli, queue, world>>

-----------------------------------------------------------------------------
(* Construct() *)

NoFile == [opens |-> "noDocument", root |-> "", items |-> <<>>]

(* A path without a file is a document that cannot be opened. *)
MaterialFile(path) == IF path \in DOMAIN MaterialFiles THEN MaterialFiles[path] ELSE NoFile

ReadNextMaterialFile ==
  /\ phase = "construct" /\ Len(build.materials) < Len(queue.xmls)
  /\ LET path == queue.xmls[Len(build.materials) + 1]
         read == ReadMaterialFile(MaterialFile(path), table, elements)
     IN  \/ /\ read.fatal = ""
            /\ build' = [build EXCEPT !.materials = Append(@, path),
                                      !.map = Merge(@, read.map)]
            /\ table' = read.table
            /\ elements' = read.elements
            /\ UNCHANGED <<phase, fault>>
         \/ /\ read.fatal # ""
            /\ Die(read.fatal)
            /\ UNCHANGED <<build, table, elements>>
  /\ UNCHANGED <<args, cli, cmds, queue, world>>

Hull(b, c) ==
  IF b = NoBounds THEN c
  ELSE [lo |-> Min({b.lo, c.lo}), hi |-> Max({b.hi, c.hi})]

(* BRepBndLib::AddOptimal() on a part whose centroid is at a position. *)
BoxAt(centre, label) == [lo |-> centre - Half[label], hi |-> centre + Half[label]]

(* A named material by map, then by the NIST manager; air when none is named. *)
SolidMaterial(entry) ==
  IF entry.material = "" THEN "G4_AIR"
  ELSE IF HasMaterial(build.map, <<entry.material>>) THEN build.map[<<entry.material>>]
  ELSE entry.material

MaterialsRead == phase = "construct" /\ Len(build.materials) = Len(queue.xmls)

(* The file's shape as one solid; its name gets an index when there are     *)
(* several.                                                                 *)
BuildNextSolid ==
  /\ MaterialsRead /\ Len(build.solids) < Len(queue.solids)
  /\ LET i     == Len(build.solids) + 1
         entry == queue.solids[i]
         d     == Documents[entry.file]
         label == d.free[1]
     IN  \/ /\ LoadsAsSolid(entry.file)
            /\ build' = [build EXCEPT
                 !.solids = Append(@, [name     |-> IF Len(queue.solids) > 1
                                                    THEN <<entry.file, i - 1>> ELSE <<entry.file>>,
                                       material |-> SolidMaterial(entry),
                                       box      |-> BoxAt(Offset[label], label)]),
                 !.bounds = Hull(@, BoxAt(Offset[label], label))]
            /\ IF SolidMaterial(entry) \in Nist \cup table
               THEN UNCHANGED <<phase, fault>> ELSE Die("App_MatNotFound")
         \/ /\ ~LoadsAsSolid(entry.file)
            /\ Die("exception")
            /\ UNCHANGED build
  /\ UNCHANGED <<table, elements, args, cli, cmds, queue, world>>

SolidsBuilt == MaterialsRead /\ Len(build.solids) = Len(queue.solids)

ImportNextAssembly ==
  /\ SolidsBuilt /\ Len(build.assemblies) < Len(queue.assemblies)
  /\ FromSTEP(queue.assemblies[Len(build.assemblies) + 1], build.map)
  /\ UNCHANGED <<processVars, appVars>>

(* The boxes of the recentred shapes are added where they are in their own  *)
(* frames.                                                                  *)
KeepAssembly ==
  /\ phase = "construct" /\ import = "done"
  /\ LET boxes == {BoxAt(0, heap[Current].parts[heap[Current].volumes[n]].label) :
                     n \in DOMAIN heap[Current].volumes}
     IN  build' = [build EXCEPT !.assemblies = Append(@, Current),
                                !.bounds = FoldSet(Hull, @, boxes)]
  /\ LeaveFromSTEP
  /\ UNCHANGED <<heap, processVars, args, cli, cmds, queue, world>>

(* Nobody catches the exception, and a fatal G4Exception aborts. *)
ImportFails ==
  /\ phase = "construct" /\ import \in {"threw", "aborted"}
  /\ Die(IF import = "threw" THEN "exception" ELSE "material")
  /\ LeaveFromSTEP
  /\ UNCHANGED <<heap, table, elements, appVars>>

(* 110 % of the largest coordinate, at least 10 cm, 50 cm without bounds *)
WorldHalfSize ==
  IF queue.worldHalf # 0 THEN queue.worldHalf
  ELSE IF build.bounds = NoBounds THEN 500
  ELSE Max({100, 11 * Max({build.bounds.hi, -build.bounds.hi}),
                 11 * Max({build.bounds.lo, -build.bounds.lo})})

Position(trsf) == FoldLeft(LAMBDA sum, d : sum + d[2] * Offset[d[1]], 0, trsf)

(* MakeImprint() at the origin: every placement of the assembly. *)
Imprint(a) ==
  [i \in DOMAIN heap[a].placed |->
    BoxAt(Position(heap[a].placed[i].trsf), heap[a].parts[heap[a].placed[i].part].label)]

FinishConstruct ==
  /\ SolidsBuilt /\ Len(build.assemblies) = Len(queue.assemblies)
  /\ import = "none"
  /\ \/ /\ queue.worldMaterial \notin Nist \cup table
        /\ Die("App_WorldMat")
        /\ UNCHANGED <<heap, build, world>>
     \/ /\ queue.worldMaterial \in Nist \cup table
        /\ world' = [half   |-> WorldHalfSize,
                     placed |-> [i \in DOMAIN build.solids |-> build.solids[i].box]
                                \o FlattenSeq([i \in DOMAIN build.assemblies |->
                                                 Imprint(build.assemblies[i])])]
        /\ heap' = [a \in DOMAIN heap |->
                      IF \E i \in DOMAIN build.assemblies : build.assemblies[i] = a
                      THEN [heap[a] EXCEPT !.owner = "deleted"] ELSE heap[a]]
        /\ phase' = "commands"
        /\ UNCHANGED <<fault, build>>
  /\ UNCHANGED <<import, ctxVars, table, elements, args, cli, cmds, queue>>

-----------------------------------------------------------------------------
RecordCommand ==
  /\ Command("output")
  /\ Record(cmds[1].arg, cmds[1].on)
  /\ UNCHANGED <<processVars, args, cli, queue, build, world>>

BeamOn ==
  /\ Command("run/beamOn")
  /\ world # NoWorld
  /\ BeginOfRunAction(cmds[1].arg)
  /\ UNCHANGED <<processVars, args, cli, queue, build, world>>

(* Mutation: the session may end while a run is going on. *)
QuitInRun ==
  /\ phase = "commands" /\ cmds = <<>>
  /\ phase' = "exit"
  /\ UNCHANGED <<fault, table, elements, appVars>>

Quit ==
  /\ phase = "commands" /\ beam.in = "nothing" /\ cmds = <<>>
  /\ phase' = "exit"
  /\ UNCHANGED <<fault, table, elements, appVars>>

AppStep ==
  \/ /\ \/ ParseOption \/ ParseFile \/ ParseError \/ EndOfArguments
        \/ QueueCommand \/ Initialize
        \/ ReadNextMaterialFile \/ BuildNextSolid \/ Quit
     /\ UNCHANGED <<importVars, scoringVars>>
  \/ /\ \/ ImportNextAssembly \/ KeepAssembly \/ ImportFails \/ FinishConstruct
        \/ phase = "construct" /\ ImportLabel /\ UNCHANGED <<processVars, appVars>>
     /\ UNCHANGED scoringVars
  \/ /\ \/ RecordCommand \/ BeamOn
        \/ phase = "commands" /\ EventLoop /\ UNCHANGED <<processVars, appVars>>
     /\ UNCHANGED importVars
=============================================================================
