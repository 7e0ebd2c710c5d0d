------------------------------ MODULE Step2DD4hep ------------------------------
(***************************************************************************)
(* The step2dd4hep tool and what its user does with the files it writes:    *)
(* fill in the TODOs of the material map, run the tool again on the filled  *)
(* map, and start a DD4hep job from the compact file.                       *)
(*                                                                          *)
(* The tool compares names as text.  A text is a sequence of tokens, where  *)
(* "&" and the bodies of the XML entities are tokens of their own.  A file  *)
(* is the set of its <entry> elements, each with the escaped name; what     *)
(* surrounds them is the same for every document.                           *)
(***************************************************************************)
EXTENDS DD4hepPlugin

CONSTANTS
  ToolLines,   \* the command lines
  Spelling,    \* the text of each name
  NonAscii,    \* the tokens LabelName() cannot write
  Defaults,    \* the files written for a STEP file unless options say others
  Unwritable,  \* the paths that cannot be opened for writing
  MaxToolRuns, \* bound: runs of the tool
  Suitable      \* bound: the materials the user may fill in for a name

(* A text spells one name.  The names in a document have a spelling.  What  *)
(* is written, and a material that is filled in, has a name.                *)
ASSUME SpellingAssumption ==
  /\ \A n \in DOMAIN Spelling :
       IsList(Spelling[n]) /\ \A m \in DOMAIN Spelling : Spelling[m] = Spelling[n] => m = n
  /\ \A path \in DOMAIN Documents : \A l \in DOMAIN Documents[path].labels :
       LET label == Documents[path].labels[l] IN
       /\ {label.name, label.material} \subseteq DOMAIN Spelling \cup {NoName}
       /\ \A i \in DOMAIN label.comps :
            label.comps[i].ref = "" =>
              {label.comps[i].name, label.comps[i].material} \subseteq DOMAIN Spelling \cup {NoName}

ASSUME OutputAssumption ==
  /\ \A path \in DOMAIN Documents : Defaults[path].compact # "" /\ Defaults[path].map # ""
  /\ "" \notin Nist

VARIABLES
  tool,   \* the locals of main(), the runs so far, and the entries its existing map had
  files   \* the XML files written: path -> STEP file and entries

toolVars == <<tool, files>>

TODO == "TODO"

NewTool(line, run) ==
  [args |-> line, step |-> "", compactOut |-> "", materialOut |-> "",
   existing |-> "", names |-> {}, known |-> EmptyMap, given |-> {}, run |-> run]

ToolInit(line, run) ==
  /\ tool = NewTool(line, run)
  /\ files = EmptyMap

-----------------------------------------------------------------------------
(* Names and XML *)

(* A character outside ASCII becomes a question mark. *)
LabelName(name) ==
  [i \in DOMAIN Spelling[name] |->
     IF Spelling[name][i] \in NonAscii THEN "?" ELSE Spelling[name][i]]

Entities == <<"amp;", "quot;", "lt;", "gt;", "apos;">>

Characters == <<"&", "\"", "<", ">", "'">>

(* What an entity stands for, in the same row of the table. *)
Raw ==
  [e \in Range(Entities) |-> Characters[CHOOSE i \in DOMAIN Entities : Entities[i] = e]]

Escape(token) ==
  LET es == {e \in DOMAIN Raw \ {"apos;"} : Raw[e] = token} IN
  IF es = {} THEN <<token>> ELSE <<"&", CHOOSE e \in es : TRUE>>

XmlAttr(text) == FlattenSeq([i \in DOMAIN text |-> Escape(text[i])])

Stands(text, e, i) == i \in 1 .. Len(text) - 1 /\ text[i] = "&" /\ text[i + 1] = e

(* Without a second look at what is put in.  The entity stands at places    *)
(* that do not overlap.                                                     *)
ReplaceEntity(text, e) ==
  FlattenSeq([i \in DOMAIN text |->
    IF Stands(text, e, i) THEN <<Raw[e]>>
    ELSE IF Stands(text, e, i - 1) THEN <<>> ELSE <<text[i]>>])

(* One entity after another, in the order of the table. *)
XmlUnescape(text) == FoldLeft(ReplaceEntity, text, Entities)

Closed(d, S) ==
  /\ \A i \in DOMAIN d.free : d.free[i] \in S
  /\ \A l \in S : d.labels[l].kind = "assembly" =>
       \A i \in DOMAIN d.labels[l].comps : d.labels[l].comps[i].ref \in S \cup {""}

(* The labels the walk comes to: the free shapes, and from assembly to      *)
(* component what they refer to.                                            *)
Visited(d) ==
  {l \in DOMAIN d.labels : \A S \in SUBSET DOMAIN d.labels : Closed(d, S) => l \in S}

KeyText(material, name) ==
  IF material # NoName THEN {Spelling[material]}
  ELSE IF name # NoName THEN {LabelName(name)} ELSE {}

Unreferred(label) == {i \in DOMAIN label.comps : label.comps[i].ref = ""}

(* Mutation: the name before the material.                                  *)
LabelKeysNameFirst(label) ==
  IF label.kind = "assembly"
  THEN UNION {KeyText(label.comps[i].name, label.comps[i].material) : i \in Unreferred(label)}
  ELSE KeyText(label.name, label.material)

(* What a label needs according to ImportLabel(), and the key of a          *)
(* component without a shape.                                               *)
LabelKeys(label) ==
  IF label.kind = "assembly"
  THEN UNION {KeyText(label.comps[i].material, label.comps[i].name) : i \in Unreferred(label)}
  ELSE KeyText(label.material, label.name)

CollectMaterials(d) == UNION {LabelKeys(d.labels[l]) : l \in Visited(d)}

FilledEntries(path) == {x \in files[path].entries : x.material \notin {"", TODO}}

(* Mutation: the names are taken as they are written. *)
ReadExistingMapRaw(path) ==
  IF path \notin DOMAIN files THEN {EmptyMap}
  ELSE {known \in [{x.text : x \in FilledEntries(path)} -> {x.material : x \in FilledEntries(path)}] :
          \A t \in DOMAIN known : \E x \in FilledEntries(path) :
            x.text = t /\ x.material = known[t]}

(* Entries that are still placeholders are left out; a file that cannot be  *)
(* opened is ignored with a warning.  Of two entries whose names are read   *)
(* back as one the last line counts: the order of the lines is not          *)
(* modelled, and it may be either.  A material's name has nothing to escape.*)
ReadExistingMap(path) ==
  IF path \notin DOMAIN files THEN {EmptyMap}
  ELSE {known \in [{XmlUnescape(x.text) : x \in FilledEntries(path)} ->
                    {x.material : x \in FilledEntries(path)}] :
          \A t \in DOMAIN known : \E x \in FilledEntries(path) :
            XmlUnescape(x.text) = t /\ x.material = known[t]}

-----------------------------------------------------------------------------
(* main() *)

Arguments(n) ==
  /\ phase = "tool" /\ Len(tool.args) >= n
  /\ UNCHANGED <<table, elements, files>>

Takes(n, with) == tool' = [with EXCEPT !.args = SubSeq(@, n + 1, Len(@))]

Value == {"-o", "-m", "--existing-map", "--detector-id", "--detector-name"}

ToolOption ==
  /\ Arguments(2)
  /\ tool.args[1] \in Value
  /\ tool.args[1] = "--detector-id" => tool.args[2] \in {"1", "7"}  \* std::stoi()
  /\ LET given(name, old) == IF tool.args[1] = name THEN tool.args[2] ELSE old IN
     Takes(2, [tool EXCEPT !.compactOut  = given("-o", @),
                           !.materialOut = given("-m", @),
                           !.existing    = given("--existing-map", @)])
  /\ UNCHANGED <<phase, fault>>

IsOption(arg) == arg \in Value \cup {"-h", "--help", "-x"}

ToolFile ==
  /\ Arguments(1)
  /\ ~IsOption(tool.args[1]) /\ tool.step = ""
  /\ Takes(1, [tool EXCEPT !.step = tool.args[1]])
  /\ UNCHANGED <<phase, fault>>

ToolHelp ==
  /\ Arguments(1)
  /\ tool.args[1] \in {"-h", "--help"}
  /\ phase' = "exit"
  /\ UNCHANGED <<fault, tool>>

(* A missing value, a number that is none, an unknown option, a second STEP *)
(* file, or no STEP file at all.                                            *)
ToolUsage ==
  /\ Arguments(0)
  /\ \/ tool.args = <<>> /\ tool.step = ""
     \/ /\ tool.args # <<>>
        /\ \/ tool.args[1] \in Value /\ Len(tool.args) = 1
           \/ tool.args[1] = "--detector-id" /\ tool.args[2] \notin {"1", "7"}
           \/ IsOption(tool.args[1]) /\ tool.args[1] \notin Value \cup {"-h", "--help"}
           \/ ~IsOption(tool.args[1]) /\ tool.step # ""
  /\ Die("usage")
  /\ UNCHANGED tool

GivenEntries == IF tool.existing \in DOMAIN files THEN files[tool.existing].entries ELSE {}

(* A file that is missing or cannot be read ends the tool; a document       *)
(* without keys is only worth a warning.  No file is called "", which is    *)
(* tool.existing when no map is given.                                      *)
ToolRead ==
  /\ Arguments(0)
  /\ tool.args = <<>> /\ tool.step # ""
  /\ LET opens == tool.step \in DOMAIN Documents /\ Documents[tool.step].opens = "ok"
         else(path, default) == IF path = "" THEN default ELSE path
     IN  \/ /\ opens
            /\ phase' = "writeMap"
            /\ \E known \in ReadExistingMap(tool.existing) :
                 tool' = [tool EXCEPT
                   !.names       = CollectMaterials(Documents[tool.step]),
                   !.known       = known,
                   !.given       = GivenEntries,
                   !.compactOut  = else(@, Defaults[tool.step].compact),
                   !.materialOut = else(@, Defaults[tool.step].map)]
            /\ UNCHANGED fault
         \/ /\ ~opens
            /\ Die("step")
            /\ UNCHANGED tool

Mapped(text) == IF text \in DOMAIN tool.known THEN tool.known[text] ELSE TODO

Entries == {[text |-> XmlAttr(t), material |-> Mapped(t)] : t \in tool.names}

(* Both files get the same entries, the material map first. *)
ToolWrite(now, path, next) ==
  /\ phase = now
  /\ \/ /\ path \notin Unwritable
        /\ files' = Put(files, path, [step |-> tool.step, entries |-> Entries])
        /\ phase' = next
        /\ UNCHANGED fault
     \/ /\ path \in Unwritable
        /\ Die("write")
        /\ UNCHANGED files
  /\ UNCHANGED <<table, elements, tool>>

WriteMaterialMap == ToolWrite("writeMap", tool.materialOut, "writeCompact")

WriteCompact == ToolWrite("writeCompact", tool.compactOut, "written")

-----------------------------------------------------------------------------
(* The user *)

(* The user and the job's parser know XML; an entry for a name the document *)
(* does not have stays a key nobody asks for.                               *)
NameRead(text) ==
  LET names == {n \in DOMAIN Spelling : XmlAttr(Spelling[n]) = text} IN
  IF names = {} THEN <<"?">> ELSE CHOOSE n \in names : TRUE

Todos(path) == {x \in files[path].entries : x.material = TODO}

(* One placeholder at a time, each with a material of its own.              *)
FillIn(path, entry, material) ==
  /\ phase = "written"
  /\ entry \in Todos(path) /\ material \in Suitable[NameRead(entry.text)]
  /\ files' = [files EXCEPT ![path].entries =
                 (@ \ {entry}) \cup {[entry EXCEPT !.material = material]}]
  /\ UNCHANGED <<processVars, tool>>

RunToolAgain(line) ==
  /\ phase = "written" /\ tool.run < MaxToolRuns
  /\ tool' = NewTool(line, tool.run + 1)
  /\ phase' = "tool"
  /\ UNCHANGED <<fault, table, elements, files>>

StartJob ==
  /\ phase = "written"
  /\ phase' = "compact"
  /\ LET file == files[tool.compactOut]
         es   == SetToSeq(file.entries)
     IN  /\ IsFiniteSet(file.entries)
         /\ compact' = <<[plugin |-> "assembly", name |-> "generated", path |-> file.step,
                          entries |-> [i \in DOMAIN es |-> [stepName |-> NameRead(es[i].text),
                                                            material |-> es[i].material]]]>>
  /\ UNCHANGED <<fault, table, elements, registry, tgeo, applied, calls, toolVars>>

ToolStep ==
  \/ /\ \/ ToolOption \/ ToolFile \/ ToolHelp \/ ToolUsage \/ ToolRead
        \/ WriteMaterialMap \/ WriteCompact
        \/ \E path \in DOMAIN files : \E entry \in Todos(path), material \in Nist :
             FillIn(path, entry, material)
        \/ \E line \in ToolLines : RunToolAgain(line)
     /\ UNCHANGED pluginVars
  \/ StartJob

-----------------------------------------------------------------------------
(* Properties. *)

(* The entry of the existing map that has been filled in for the key.       *)
FilledFor(t, entry) ==
  entry \in tool.given /\ entry.text = XmlAttr(t) /\ entry.material # TODO

NoEntity(t) == Range(t) \cap Range(Entities) = {}

(* No other name of the existing map is read back as this key.              *)
Unmistaken(t) == \A x \in tool.given : XmlUnescape(x.text) = t => x.text = XmlAttr(t)

(* What the user has filled in for a key, in a map that a later run of the  *)
(* tool is given, stands in both files of that run with the same material,  *)
(* whatever else is filled in or overwritten, and the run fills in nothing  *)
(* of its own: also for names with characters that XML must escape, but not *)
(* for one that contains the text of an entity, or is what such a name of   *)
(* the map decodes to.                                                      *)
FilledInSurvives ==
  /\ phase = "written" =>
       \A t \in tool.names, x \in tool.given :
         FilledFor(t, x) /\ NoEntity(t) /\ Unmistaken(t) =>
           \A out \in {tool.materialOut, tool.compactOut} : x \in files[out].entries
  /\ phase = "writeCompact" =>
       \A t \in tool.names, x \in files[tool.materialOut].entries :
         x.text = XmlAttr(t) /\ x.material # TODO /\ Unmistaken(t) => x \in tool.given

(* Names read back from the written XML match the raw strings: the tool     *)
(* finds the material of every key that its existing map has filled in.     *)
(* The comment of XmlUnescape() says so of every name.                      *)
NamesReadBack ==
  phase \in {"writeMap", "writeCompact"} =>
    \A t \in tool.names, x \in tool.given : FilledFor(t, x) => t \in DOMAIN tool.known

Plain(d) ==
  \A l \in DOMAIN d.labels :
    /\ d.labels[l].name # NoName => Range(Spelling[d.labels[l].name]) \cap NonAscii = {}
    /\ d.labels[l].kind = "simple" => d.labels[l].name # NoName \/ d.labels[l].material # NoName

(* A DD4hep job that starts from the compact file the tool wrote has an     *)
(* entry for every part of a document whose parts are named in ASCII: the   *)
(* keys the tool collects are those that the import asks for.               *)
GeneratedCompactServes ==
  phase = "dead" /\ fault = "material" /\ tool.run > 0 => ~Plain(Documents[compact[1].path])
=============================================================================
