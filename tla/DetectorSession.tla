----------------------------- MODULE DetectorSession -----------------------------
(***************************************************************************)
(* The programs that make detectors from STEP files, composed: a session of *)
(* the g4occt application, a DD4hep job on a given compact file, or a run   *)
(* of step2dd4hep that ends in a DD4hep job on the compact file it wrote.   *)
(* They share the import of assemblies, the maps and the material table;    *)
(* each is one process, and "phase" says which step it takes.               *)
(***************************************************************************)
EXTENDS G4OCCTApp, Step2DD4hep

CONSTANT CompactFiles  \* the compact files of the DD4hep jobs

ASSUME CompactFilesAssumption ==
  \A c \in CompactFiles : IsList(c) /\ \A i \in DOMAIN c : IsList(c[i].entries)

vars == <<importVars, processVars, scoringVars, appVars, pluginVars, toolVars>>

Starts(first, line, compactFile, toolLine) ==
  /\ ImportInit /\ ScoringInit
  /\ phase = first /\ fault = "" /\ table = {} /\ elements = {}
  /\ AppInit(line)
  /\ PluginInit(compactFile)
  /\ ToolInit(toolLine, IF first = "tool" THEN 1 ELSE 0)

Init ==
  \/ \E line \in CommandLines : Starts("parse", line, <<>>, <<>>)
  \/ \E compactFile \in CompactFiles : Starts("compact", <<>>, compactFile, <<>>)
  \/ \E line \in ToolLines : Starts("tool", <<>>, <<>>, line)

DetectorNames ==
  {"generated"} \cup UNION {{c[i].name : i \in DOMAIN c} : c \in CompactFiles}

(* A process that is over takes no step. *)
Over == phase \in {"exit", "dead"} /\ UNCHANGED vars

AppNext    == AppStep /\ UNCHANGED <<pluginVars, toolVars>>
PluginNext == PluginStep(DetectorNames) /\ UNCHANGED <<scoringVars, appVars, toolVars>>
ToolNext   == ToolStep /\ UNCHANGED <<importVars, scoringVars, appVars>>

Next == AppNext \/ PluginNext \/ ToolNext \/ Over

Spec == Init /\ [][Next]_vars

-----------------------------------------------------------------------------
(* Properties of the session. *)

Phases == {"parse", "commands", "construct", "compact", "user", "tool", "writeMap",
           "writeCompact", "written", "exit", "dead"}

(* The shape of the state: what each program keeps, and who is alive. *)
SessionTypeOK ==
  /\ ImportTypeOK
  /\ phase \in Phases
  /\ phase = "dead" <=> fault # ""
  /\ import # "none" => phase \in {"construct", "compact"}
  /\ \A n \in DOMAIN registry : registry[n] \in DOMAIN heap
  /\ beam.in # "nothing" => phase = "commands" /\ world # NoWorld

QueuedItems(j) == MaterialFile(queue.xmls[j]).items

(* An element of a material file declares a key, for a material that is     *)
(* known by this name.                                                      *)
Declares(item, key) == item.tag = "material" /\ item.stepName = key

DeclaredName(item) == IF item.geant4Name # "" THEN item.geant4Name ELSE item.name

(* The last of the first n files that declares the key does it last with    *)
(* this material.                                                           *)
FilesSay(n, key, material) ==
  \E j \in 1 .. n : \E i \in DOMAIN QueuedItems(j) :
    /\ Declares(QueuedItems(j)[i], key)
    /\ material = DeclaredName(QueuedItems(j)[i])
    /\ \A h \in DOMAIN QueuedItems(j) : h > i => ~Declares(QueuedItems(j)[h], key)
    /\ \A m \in j + 1 .. n : \A h \in DOMAIN QueuedItems(m) : ~Declares(QueuedItems(m)[h], key)

(* The last entry with the key has this material. *)
EntriesSay(entries, key, material) ==
  \E i \in DOMAIN entries :
    /\ entries[i].stepName = key
    /\ entries[i].material = material
    /\ \A h \in DOMAIN entries : h > i => entries[h].stepName # key

Declared(key) ==
  IF phase = "construct"
  THEN \E j \in 1 .. Len(queue.xmls) : \E i \in DOMAIN QueuedItems(j) : Declares(QueuedItems(j)[i], key)
  ELSE \E i \in DOMAIN compact[1].entries : compact[1].entries[i].stepName = key

(* A part is made of the material that the last declaration of its key      *)
(* names, in the files of the command line and of the macro in this order,  *)
(* or in the compact file's entries.                                        *)
MaterialsAsMapped ==
  import \in {"walking", "done"} =>
    \A i \in DOMAIN heap[Current].parts :
      LET part == heap[Current].parts[i]
          key  == MaterialKey(Labels[part.label])
      IN  IF phase = "construct" THEN FilesSay(Len(queue.xmls), key, part.material)
          ELSE EntriesSay(compact[1].entries, key, part.material)

(* The elements and materials a material of the file may refer to: every    *)
(* element up to the end of the file, and the materials before it.          *)
Provided(n, k) ==
  UNION {{QueuedItems(j)[i].name : i \in {h \in DOMAIN QueuedItems(j) :
            QueuedItems(j)[h].tag \in {"isotope", "element"}}} \cup
         {DeclaredName(QueuedItems(j)[i]) : i \in {h \in DOMAIN QueuedItems(j) :
            QueuedItems(j)[h].tag = "material" /\ (j < n \/ h < k)}} : j \in 1 .. n}

(* The process dies for the material of a file only when the file refers to *)
(* something no file has declared, wherever the elements are written and    *)
(* however often a material is; and an import aborts only for a part whose  *)
(* key nobody has declared.                                                 *)
AbortJustified ==
  /\ fault = "MatReader009" =>
       LET n == Len(build.materials) + 1 IN
       \E k \in DOMAIN QueuedItems(n) :
         /\ QueuedItems(n)[k].tag = "material"
         /\ ~(QueuedItems(n)[k].refs \subseteq Provided(n, k))
  /\ import = "aborted" =>
       \E l \in DOMAIN Labels :
         /\ Labels[l].kind = "simple" /\ Labels[l].shape # "null"
         /\ MaterialKey(Labels[l]) = NoName \/ ~Declared(MaterialKey(Labels[l]))
=============================================================================
