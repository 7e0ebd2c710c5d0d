------------------------------ MODULE DD4hepPlugin ------------------------------
(***************************************************************************)
(* A DD4hep job: the G4OCCT_STEPAssembly and G4OCCT_STEPSolid plugins build *)
(* the detectors of a compact file one after another, G4OCCTGeant4Converter *)
(* turns TGeo solids into G4OCCTSolids, and user code assigns sensitive     *)
(* detectors to what G4OCCTAssemblyRegistry keeps, or releases it.          *)
(*                                                                          *)
(* An address is an index into "heap".  The dd4hep::Assembly that a plugin  *)
(* places is empty, so no placement of a part is a step here.               *)
(***************************************************************************)
EXTENDS DetectorProcess

CONSTANTS
  DD4hepMaterials,  \* the materials of the compact file itself
  Detectors,        \* the sensitive detectors of G4SDManager
  Assignments,      \* the arguments G4OCCTAssemblySDSetup::Apply() is given
  RuleFiles,        \* the sensitive-detector maps user code reads
  MaxUserCalls      \* bound: calls of user code after the geometry is built

ASSUME RulesAssumption ==
  /\ \A x \in Assignments : IsList(x)
  /\ \A file \in DOMAIN RuleFiles : IsList(RuleFiles[file].items)

VARIABLES
  compact,   \* the detectors of the compact file not built yet
  registry,  \* fAssemblies: name -> address
  tgeo,      \* the TGeoOCCTSolids, each with its G4OCCTSolid or 0
  applied,   \* the last assignment: address, rules, number returned
  calls      \* calls of user code so far

pluginVars == <<compact, registry, tgeo, applied, calls>>

PluginInit(detectors) ==
  /\ compact = detectors
  /\ registry = EmptyMap
  /\ tgeo = <<>>
  /\ applied = [address |-> 0, rules |-> <<>>, count |-> 0]
  /\ calls = 0

-----------------------------------------------------------------------------
(* create_step_assembly() *)

Building(plugin) == phase = "compact" /\ compact # <<>> /\ compact[1].plugin = plugin

(* NIST first, then the Geant4 table; a name neither knows is an exception. *)
MapEntry(acc, entry) ==
  IF acc.unknown THEN acc
  ELSE IF entry.material \in Nist \cup acc.table
  THEN [acc EXCEPT !.map = AddMaterial(@, entry.stepName, entry.material),
                   !.table = @ \cup {entry.material}]
  ELSE [acc EXCEPT !.unknown = TRUE]

MapEntries(entries) ==
  FoldLeft(MapEntry, [map |-> EmptyMap, table |-> table, unknown |-> FALSE], entries)

CreateStepAssembly ==
  /\ Building("assembly") /\ import = "none"
  /\ LET mapped == MapEntries(compact[1].entries) IN
     /\ table' = mapped.table
     /\ \/ ~mapped.unknown /\ FromSTEP(compact[1].path, mapped.map) /\ UNCHANGED <<phase, fault>>
        \/ mapped.unknown /\ Die("unmapped") /\ UNCHANGED importVars
  /\ UNCHANGED <<elements, pluginVars>>

(* Mutation: the unique_ptr lets go before the registry has accepted. *)
RegisterReleasedAssembly ==
  /\ Building("assembly") /\ import = "done"
  /\ LeaveFromSTEP
  /\ LET name == compact[1].name IN
     \/ /\ name \notin DOMAIN registry
        /\ registry' = Put(registry, name, Current)
        /\ heap' = Owned("registry")
        /\ compact' = Tail(compact)
        /\ UNCHANGED <<phase, fault>>
     \/ /\ name \in DOMAIN registry
        /\ heap' = Owned("leaked")
        /\ Die("registered")
        /\ UNCHANGED <<registry, compact>>
  /\ UNCHANGED <<table, elements, tgeo, applied, calls>>

(* Register() throws for a name it has; the unique_ptr then deletes. *)
RegisterAssembly ==
  /\ Building("assembly") /\ import = "done"
  /\ LeaveFromSTEP
  /\ LET name == compact[1].name IN
     \/ /\ name \notin DOMAIN registry
        /\ registry' = Put(registry, name, Current)
        /\ heap' = Owned("registry")
        /\ compact' = Tail(compact)
        /\ UNCHANGED <<phase, fault>>
     \/ /\ name \in DOMAIN registry
        /\ heap' = Owned("deleted")
        /\ Die("registered")
        /\ UNCHANGED <<registry, compact>>
  /\ UNCHANGED <<table, elements, tgeo, applied, calls>>

(* An exception is wrapped and thrown on; a fatal G4Exception aborts. *)
PluginImportFails ==
  /\ Building("assembly") /\ import \in {"threw", "aborted"}
  /\ Die(IF import = "threw" THEN "exception" ELSE "material")
  /\ LeaveFromSTEP
  /\ UNCHANGED <<heap, table, elements, pluginVars>>

-----------------------------------------------------------------------------
(* create_step_solid() and constructGeo() *)

CreateStepSolid ==
  /\ Building("solid")
  /\ \/ /\ LoadsAsSolid(compact[1].path)
        /\ compact[1].material \in DD4hepMaterials
        /\ tgeo' = Append(tgeo, [shape |-> compact[1].path, solid |-> 0])
        /\ compact' = Tail(compact)
        /\ UNCHANGED <<phase, fault>>
     \/ /\ ~(LoadsAsSolid(compact[1].path) /\ compact[1].material \in DD4hepMaterials)
        /\ Die("exception")
        /\ UNCHANGED <<tgeo, compact>>
  /\ UNCHANGED <<importVars, table, elements, registry, applied, calls>>

Converted == {i \in DOMAIN tgeo : tgeo[i].solid # 0}

(* handleSolid(): a shape met again is served from the map of solids. *)
HandleSolid(i) ==
  /\ phase = "compact" /\ compact = <<>>
  /\ tgeo[i].solid = 0
  /\ tgeo' = [tgeo EXCEPT ![i].solid = Cardinality(Converted) + 1]
  /\ UNCHANGED <<importVars, processVars, compact, registry, applied, calls>>

(* The world is attached and handed to the kernel. *)
ConstructGeo ==
  /\ phase = "compact" /\ compact = <<>>
  /\ Converted = DOMAIN tgeo
  /\ phase' = "user"
  /\ UNCHANGED <<importVars, fault, table, elements, pluginVars>>

-----------------------------------------------------------------------------
(* User code *)

UserCall ==
  /\ phase = "user" /\ calls < MaxUserCalls
  /\ calls' = calls + 1

AssignmentRules(assignments) ==
  FoldLeft(LAMBDA rules, x : AddRule(rules, x.pattern, x.sd), <<>>, assignments)

ApplyRules(name, rules) ==
  \/ /\ name \notin DOMAIN registry  \* a warning, and 0
     /\ UNCHANGED <<heap, applied>>
  \/ /\ name \in DOMAIN registry
     /\ ApplySDMap(registry[name], rules)
     /\ applied' = [address |-> registry[name], rules |-> rules,
                    count |-> SDCount(registry[name], rules)]

(* G4OCCTAssemblySDSetup::Apply(): a null detector is fatal in Add(), but   *)
(* only once the assembly has been found.                                   *)
Apply(name, assignments) ==
  /\ UserCall
  /\ LET null == \E i \in DOMAIN assignments : assignments[i].sd = NoDetector IN
     \/ /\ ~(null /\ name \in DOMAIN registry)
        /\ ApplyRules(name, AssignmentRules(assignments))
        /\ UNCHANGED <<phase, fault>>
     \/ /\ null /\ name \in DOMAIN registry
        /\ Die("SDMap000")
        /\ UNCHANGED <<heap, applied>>
  /\ UNCHANGED <<import, ctxVars, table, elements, compact, registry, tgeo>>

(* ReadFile(), then Get() and ApplySDMap() *)
ApplyFile(name, file) ==
  /\ UserCall
  /\ LET read == ReadRuleFile(RuleFiles[file], Detectors) IN
     \/ /\ read.fatal = ""
        /\ ApplyRules(name, read.rules)
        /\ UNCHANGED <<phase, fault>>
     \/ /\ read.fatal # ""
        /\ Die(read.fatal)
        /\ UNCHANGED <<heap, applied>>
  /\ UNCHANGED <<import, ctxVars, table, elements, compact, registry, tgeo>>

Release(name) ==
  /\ UserCall
  /\ name \in DOMAIN registry
  /\ heap' = [heap EXCEPT ![registry[name]].owner = "user"]
  /\ registry' = [n \in DOMAIN registry \ {name} |-> registry[n]]
  /\ UNCHANGED <<import, ctxVars, processVars, compact, tgeo, applied>>

(* The registry is a static object: its destructor deletes what is left. *)
ExitJob ==
  /\ phase = "user"
  /\ phase' = "exit"
  /\ heap' = [a \in DOMAIN heap |->
                IF \E n \in DOMAIN registry : registry[n] = a
                THEN [heap[a] EXCEPT !.owner = "deleted"] ELSE heap[a]]
  /\ registry' = EmptyMap
  /\ UNCHANGED <<import, ctxVars, fault, table, elements, compact, tgeo, applied, calls>>

PluginStep(names) ==
  \/ CreateStepAssembly \/ RegisterAssembly \/ PluginImportFails
  \/ phase = "compact" /\ ImportLabel /\ UNCHANGED <<processVars, pluginVars>>
  \/ CreateStepSolid \/ (\E i \in DOMAIN tgeo : HandleSolid(i)) \/ ConstructGeo
  \/ \E name \in names :
       \/ \E x \in Assignments : Apply(name, x)
       \/ \E file \in DOMAIN RuleFiles : ApplyFile(name, file)
       \/ Release(name)
  \/ ExitJob

-----------------------------------------------------------------------------
(* Properties. *)

(* Ownership of an assembly passes from the import to the plugin's pointer, *)
(* to the registry, to user code, and never splits or gets lost: while user *)
(* code runs each assembly has one owner, the registry's are those it lists *)
(* once, and one is leaked only by FromSTEP()'s own exception for a part    *)
(* whose solid cannot be built, never by a name that is taken.              *)
OneOwner ==
  /\ \A n \in DOMAIN registry : heap[registry[n]].owner = "registry"
  /\ \A a \in DOMAIN heap :
       /\ heap[a].owner = "registry" =>
            Cardinality({n \in DOMAIN registry : registry[n] = a}) = 1
       /\ heap[a].owner = "leaked" =>
            \E l \in DOMAIN Documents[heap[a].doc].labels :
              Documents[heap[a].doc].labels[l].shape = "void"
       /\ phase = "user" => heap[a].owner \in {"registry", "user"}

(* A rule written for the name a part has in the STEP file reaches every    *)
(* copy of the part, also those MakeUniqueName() has numbered, and the      *)
(* number ApplySDMap() returns is that of the volumes that got a detector.  *)
ListedPartsSensitive ==
  applied.address # 0 =>
    LET parts   == heap[applied.address].parts
        rules   == applied.rules
        listed  == {rules[i].pattern : i \in DOMAIN rules}
        reached == {j \in DOMAIN parts : ResolveDetector(rules, parts[j].name) # NoDetector}
    IN  /\ \A j \in DOMAIN parts : parts[j].raw \in listed =>
             parts[j].sd \in {rules[i].sd : i \in DOMAIN rules}
        /\ applied.count = Cardinality(reached)
        /\ \A j \in reached : parts[j].sd = ResolveDetector(rules, parts[j].name)
=============================================================================
