----------------------------- MODULE AssemblyImport -----------------------------
(***************************************************************************)
(* G4OCCTAssemblyVolume: FromSTEP(), which walks the label tree of an XDE   *)
(* document and builds one logical volume per simple shape and one          *)
(* placement per occurrence of it, and ApplySDMap().                        *)
(*                                                                          *)
(* A document gives each label its kind, name, material attribute, shape    *)
(* and components.  ImportLabel() recurses; "todo" holds the calls that are *)
(* still to be made, the next one first, so that one step is one call.      *)
(* A transformation is a word over the datums of the document: <<d, 1>> is  *)
(* the datum d and <<d, -1>> its inverse, the leftmost applied last.  The   *)
(* translation to the bounding-box centroid of a label is the datum named   *)
(* after the label.                                                         *)
(*                                                                          *)
(* Every G4OCCTAssemblyVolume ever allocated is an element of "heap", with  *)
(* the path of its document and its owner, so that one nobody owns any more *)
(* stays visible.  A part is a G4OCCTLogicalVolume with its solid; "raw" is *)
(* the name it had before MakeUniqueName().                                 *)
(***************************************************************************)
EXTENDS DetectorMaps

CONSTANTS
  Documents,  \* the STEP files as XDE documents, by path
  MaxSuffix   \* bound: the numbers MakeUniqueName() appends

ASSUME MaxSuffixAssumption == MaxSuffix \in Nat

(* The labels of a document that are mentioned in it are there, with their  *)
(* names; "" is no label.  No assembly is a component of itself, however    *)
(* deep: among any labels there is one without a component among them.      *)
ASSUME DocumentsAssumption ==
  \A path \in DOMAIN Documents :
    LET d == Documents[path] IN
    /\ IsFiniteSet(DOMAIN d.labels) /\ "" \notin DOMAIN d.labels
    /\ d.free \in Seq(DOMAIN d.labels)
    /\ \A l \in DOMAIN d.labels :
         LET comps == d.labels[l].comps IN
         /\ IsList(d.labels[l].name)
         /\ Len(comps) \in Nat /\ DOMAIN comps = 1 .. Len(comps)
         /\ \A i \in DOMAIN comps :
              /\ comps[i].ref \in DOMAIN d.labels \cup {""}
              /\ IsList(comps[i].loc)
              /\ \A k \in DOMAIN comps[i].loc : comps[i].loc[k].power \in Int
    /\ \A S \in SUBSET DOMAIN d.labels : S # {} =>
         \E l \in S : \A i \in DOMAIN d.labels[l].comps : d.labels[l].comps[i].ref \notin S

VARIABLES
  heap,         \* the assemblies, in the order of their allocation
  import,       \* where the current FromSTEP() is
  todo,         \* the calls of ImportLabel() it has still to make
  materialMap,  \* ctx.materialMap
  protos,       \* ctx.prototypeMap: label -> its part and centroid
  usedNames     \* ctx.usedNames

ctxVars    == <<todo, materialMap, protos, usedNames>>
importVars == <<heap, import, ctxVars>>

ImportStates == {"none", "walking", "done", "threw", "aborted"}

Owners == {"import", "caller", "registry", "user", "leaked", "deleted"}

NewAssembly(path) ==
  [doc |-> path, owner |-> "import", parts |-> <<>>, volumes |-> EmptyMap, placed |-> <<>>]

ImportInit ==
  /\ heap = <<>>
  /\ import = "none"
  /\ todo = <<>>
  /\ materialMap = EmptyMap
  /\ protos = EmptyMap
  /\ usedNames = EmptyMap

Current == Len(heap)

Here == Head(todo)

Labels == Documents[heap[Current].doc].labels

Label == Labels[Here.label]

(* What the label of the call is, if there is one. *)
Kind == IF Here.label = "" THEN "none" ELSE Label.kind

Owned(owner) == [heap EXCEPT ![Current].owner = owner]

-----------------------------------------------------------------------------
(* Transformations *)

Identity == <<>>

Power(datum, n) ==
  [k \in 1 .. (IF n < 0 THEN -n ELSE n) |-> <<datum, IF n < 0 THEN -1 ELSE 1>>]

(* The datum-power chain of a TopLoc_Location, the first element outermost. *)
LocationToTrsf(loc) ==
  FlattenSeq([i \in DOMAIN loc |-> Power(loc[i].datum, loc[i].power)])

Compose(composed, loc) == composed \o LocationToTrsf(loc)

(* A shape without a bounding box is not moved. *)
Centroid(label) ==
  IF Labels[label].shape = "void" THEN Identity ELSE <<<<label, 1>>>>

-----------------------------------------------------------------------------
(* ImportLabel() *)

MaterialKey(label) == IF label.material # NoName THEN label.material ELSE label.name

RawName(label) == IF label.name # NoName THEN label.name ELSE <<"Part">>

Candidates(raw) == {raw} \cup {Append(raw, k) : k \in 1 .. MaxSuffix}

(* Mutation: a numbered name is not looked up before it is handed out. *)
MakeUniqueNameUnchecked(raw, unique) ==
  \/ /\ raw \notin DOMAIN usedNames
     /\ unique = raw
     /\ usedNames' = Put(usedNames, raw, 0)
  \/ /\ raw \in DOMAIN usedNames
     /\ unique = Append(raw, usedNames[raw] + 1)
     /\ usedNames' = Put(Put(usedNames, unique, 0), raw, usedNames[raw] + 1)

MakeUniqueName(raw, unique) ==
  \/ /\ raw \notin DOMAIN usedNames
     /\ unique = raw
     /\ usedNames' = Put(usedNames, raw, 0)
  \/ /\ raw \in DOMAIN usedNames
     /\ \E k \in usedNames[raw] + 1 .. MaxSuffix :
          /\ unique = Append(raw, k)
          /\ unique \notin DOMAIN usedNames
          /\ \A j \in usedNames[raw] + 1 .. k - 1 : Append(raw, j) \in DOMAIN usedNames
          /\ usedNames' = Put(Put(usedNames, unique, 0), raw, k)

AddPart(assembly, part) ==
  [assembly EXCEPT !.parts   = Append(@, part),
                   !.volumes = Put(@, part.name, Len(assembly.parts) + 1)]

AddPlacedVolume(assembly, part, composed, centroid) ==
  [assembly EXCEPT !.placed = Append(@, [part |-> part, trsf |-> composed \o centroid])]

AbortImport ==
  /\ import' = "aborted"
  /\ UNCHANGED <<heap, ctxVars>>

(* The components, in order. *)
ImportAssemblyLabel ==
  /\ import = "walking" /\ todo # <<>>
  /\ Kind = "assembly"
  /\ LET calls == [i \in DOMAIN Label.comps |->
                    [label |-> Label.comps[i].ref,
                     trsf  |-> Compose(Here.trsf, Label.comps[i].loc)]]
     IN  todo' = calls \o Tail(todo)
  /\ UNCHANGED <<heap, import, materialMap, protos, usedNames>>

(* Mutation: the reused volume is placed without its recentering offset. *)
ReusePrototypeUncentred ==
  /\ import = "walking" /\ todo # <<>>
  /\ Kind = "simple"
  /\ Here.label \in DOMAIN protos
  /\ heap' = [heap EXCEPT ![Current] =
                AddPlacedVolume(@, protos[Here.label].part, Here.trsf, Identity)]
  /\ todo' = Tail(todo)
  /\ UNCHANGED <<import, materialMap, protos, usedNames>>

ReusePrototype ==
  /\ import = "walking" /\ todo # <<>>
  /\ Kind = "simple"
  /\ Here.label \in DOMAIN protos
  /\ heap' = [heap EXCEPT ![Current] =
                AddPlacedVolume(@, protos[Here.label].part, Here.trsf,
                                protos[Here.label].centroid)]
  /\ todo' = Tail(todo)
  /\ UNCHANGED <<import, materialMap, protos, usedNames>>

(* A component that refers to no shape and a null shape get a warning; a    *)
(* label that is neither an assembly nor simple gets none.                  *)
SkipLabel ==
  /\ import = "walking" /\ todo # <<>>
  /\ \/ Kind \in {"none", "other"}
     \/ Kind = "simple" /\ Here.label \notin DOMAIN protos /\ Label.shape = "null"
  /\ todo' = Tail(todo)
  /\ UNCHANGED <<heap, import, materialMap, protos, usedNames>>

FirstEncounter ==
  /\ import = "walking" /\ todo # <<>>
  /\ Kind = "simple"
  /\ Here.label \notin DOMAIN protos
  /\ Label.shape # "null"

(* Neither a material attribute nor a name, or a key nobody registered. *)
MaterialMissing ==
  /\ FirstEncounter
  /\ MaterialKey(Label) = NoName \/ ~HasMaterial(materialMap, MaterialKey(Label))
  /\ AbortImport

BuildPart ==
  /\ FirstEncounter
  /\ HasMaterial(materialMap, MaterialKey(Label)) /\ MaterialKey(Label) # NoName
  /\ Label.shape = "solid"
  /\ \E unique \in Candidates(RawName(Label)) :
       /\ MakeUniqueName(RawName(Label), unique)
       /\ LET new  == Len(heap[Current].parts) + 1
              part == [name |-> unique, raw |-> RawName(Label), label |-> Here.label,
                       material |-> materialMap[MaterialKey(Label)], sd |-> NoDetector]
          IN  /\ heap' = [heap EXCEPT ![Current] =
                            AddPlacedVolume(AddPart(@, part), new, Here.trsf,
                                            Centroid(Here.label))]
              /\ protos' = Put(protos, Here.label,
                                [part |-> new, centroid |-> Centroid(Here.label)])
  /\ todo' = Tail(todo)
  /\ UNCHANGED <<import, materialMap>>

(* G4OCCTSolid's constructor throws: the name is taken, and the assembly    *)
(* that FromSTEP() holds by a plain pointer is left behind.                 *)
BuildPartThrows ==
  /\ FirstEncounter
  /\ HasMaterial(materialMap, MaterialKey(Label)) /\ MaterialKey(Label) # NoName
  /\ Label.shape = "void"
  /\ \E unique \in Candidates(RawName(Label)) : MakeUniqueName(RawName(Label), unique)
  /\ import' = "threw"
  /\ heap' = Owned("leaked")
  /\ UNCHANGED <<todo, materialMap, protos>>

EndWalk ==
  /\ import = "walking" /\ todo = <<>>
  /\ import' = "done"
  /\ heap' = Owned("caller")
  /\ UNCHANGED ctxVars

ImportLabel ==
  \/ ImportAssemblyLabel \/ ReusePrototype \/ SkipLabel
  \/ MaterialMissing \/ BuildPart \/ BuildPartThrows \/ EndWalk

-----------------------------------------------------------------------------
(* FromSTEP() begins; the program that calls it waits until import is       *)
(* "done", "threw" or "aborted".                                            *)

Readable(path) ==
  /\ path \in DOMAIN Documents
  /\ Documents[path].opens = "ok" /\ Documents[path].free # <<>>

FromSTEPFails(path) ==
  /\ import = "none"
  /\ ~Readable(path)
  /\ import' = "threw"
  /\ UNCHANGED <<heap, ctxVars>>

BeginFromSTEP(path, map) ==
  /\ import = "none"
  /\ Readable(path)
  /\ import' = "walking"
  /\ heap' = Append(heap, NewAssembly(path))
  /\ todo' = [i \in DOMAIN Documents[path].free |->
               [label |-> Documents[path].free[i], trsf |-> Identity]]
  /\ materialMap' = map
  /\ protos' = EmptyMap
  /\ usedNames' = EmptyMap

FromSTEP(path, map) == FromSTEPFails(path) \/ BeginFromSTEP(path, map)

(* The caller has taken the result, or the exception: the context is gone. *)
LeaveFromSTEP ==
  /\ import' = "none"
  /\ todo' = <<>>
  /\ materialMap' = EmptyMap
  /\ protos' = EmptyMap
  /\ usedNames' = EmptyMap

-----------------------------------------------------------------------------
(* ApplySDMap(): the assembly at address a, and the number it returns. *)

Assigned(a, rules) ==
  {n \in DOMAIN heap[a].volumes : ResolveDetector(rules, n) # NoDetector}

SDCount(a, rules) == Cardinality(Assigned(a, rules))

ApplySDMap(a, rules) ==
  heap' = [heap EXCEPT ![a].parts =
    [i \in DOMAIN @ |->
       IF \E n \in Assigned(a, rules) : heap[a].volumes[n] = i
       THEN [@[i] EXCEPT !.sd = ResolveDetector(rules,
               CHOOSE n \in Assigned(a, rules) : heap[a].volumes[n] = i)]
       ELSE @[i]]]

-----------------------------------------------------------------------------
(* Properties. *)

ImportTypeOK ==
  /\ import \in ImportStates
  /\ \A a \in DOMAIN heap :
       /\ heap[a].doc \in DOMAIN Documents
       /\ heap[a].owner \in Owners
       /\ \A i \in DOMAIN heap[a].placed : heap[a].placed[i].part \in DOMAIN heap[a].parts
  /\ import = "walking" => heap # <<>> /\ heap[Current].owner = "import"
  /\ \A l \in DOMAIN protos : protos[l].part \in DOMAIN heap[Current].parts

(* The logical volumes of an assembly are looked up by name, and a name     *)
(* holds one: no part overwrites another in fLogicalVolumes, whatever names *)
(* the file gives its parts, numbered ones included.                        *)
EveryPartReachable ==
  \A a \in DOMAIN heap : \A i \in DOMAIN heap[a].parts :
    /\ heap[a].parts[i].name \in DOMAIN heap[a].volumes
    /\ heap[a].volumes[heap[a].parts[i].name] = i

Nowhere == [label |-> "", trsf |-> Identity]

(* The free shape i of document d, and component i of what a label is.      *)
Root(d, i) ==
  IF i \in DOMAIN d.free THEN [label |-> d.free[i], trsf |-> Identity] ELSE Nowhere

Down(d, up, i) ==
  IF up = Nowhere THEN Nowhere
  ELSE IF d.labels[up.label].kind # "assembly" \/ i \notin DOMAIN d.labels[up.label].comps THEN Nowhere
  ELSE LET c == d.labels[up.label].comps[i] IN
       IF c.ref = "" THEN Nowhere
       ELSE [label |-> c.ref, trsf |-> up.trsf \o LocationToTrsf(c.loc)]

(* The label that the indexes p lead to from the root of document d, and    *)
(* the placements met on the way, outermost first.                          *)
Follow(d, p) ==
  LET at[n \in 1 .. Len(p)] == IF n = 1 THEN Root(d, p[1]) ELSE Down(d, at[n - 1], p[n])
  IN  at[Len(p)]

Indexes(d) == DOMAIN d.free \cup UNION {DOMAIN d.labels[l].comps : l \in DOMAIN d.labels}

Assemblies(d) == {l \in DOMAIN d.labels : d.labels[l].kind = "assembly"}

Paths(d) == UNION {[1 .. n -> Indexes(d)] : n \in 1 .. Cardinality(Assemblies(d)) + 1}

PartAt(d, p) ==
  /\ Follow(d, p) # Nowhere
  /\ d.labels[Follow(d, p).label].kind = "simple"
  /\ d.labels[Follow(d, p).label].shape = "solid"

Occurrences ==
  [path \in DOMAIN Documents |->
     LET d == Documents[path] IN
     {[at |-> p, end |-> Follow(d, p)] : p \in {q \in Paths(d) : PartAt(d, q)}}]

Finished(a) == heap[a].owner \notin {"import", "leaked"}

(* After FromSTEP() every occurrence of a part in the document has exactly  *)
(* one placement, under the product of the placements on the way to it, and *)
(* with the translation that recentering took from the shape put back: the  *)
(* parts, repeated ones too, stay where the file has them.                  *)
PartsStayInPlace ==
  \A a \in DOMAIN heap : Finished(a) =>
    LET occ    == Occurrences[heap[a].doc]
        placed == heap[a].placed
    IN  /\ Len(placed) = Cardinality(occ)
        /\ \A o \in occ :
             Cardinality({i \in DOMAIN placed :
                            /\ heap[a].parts[placed[i].part].label = o.end.label
                            /\ placed[i].trsf = o.end.trsf \o <<<<o.end.label, 1>>>>})
             = Cardinality({q \in occ : q.end = o.end})
=============================================================================
