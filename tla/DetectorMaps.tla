------------------------------ MODULE DetectorMaps ------------------------------
(***************************************************************************)
(* The lookup tables of a detector and the XML files they are read from:    *)
(* G4OCCTMaterialMap, G4OCCTSensitiveDetectorMap and their readers.         *)
(*                                                                          *)
(* A volume, part or material name is a sequence: a base string followed by *)
(* the numbers that "_<n>" suffixes have added to it.  <<"Gap", 1>> is      *)
(* "Gap_1" whether a STEP file says so or MakeUniqueName() made it, and <<>> *)
(* is the empty string.  A G4Material or a detector is known by its own     *)
(* name, a string, "" when missing.                                         *)
(*                                                                          *)
(* A fatal G4Exception ends the process: an operator that raises one        *)
(* reports its code in a field "fatal" and does nothing after it.           *)
(***************************************************************************)
EXTENDS Integers, TLC, SequencesExt

CONSTANT Nist  \* the materials G4NistManager can build

NoName     == <<>>
EmptyMap   == <<>>
NoDetector == ""

(* A name, a line of options, the elements of a file: a list, of whatever. *)
IsList(x) == Len(x) \in Nat /\ x = [i \in 1 .. Len(x) |-> x[i]]

(* map[key] = value of a std::map *)
Put(map, key, value) ==
  [k \in DOMAIN map \cup {key} |-> IF k = key THEN value ELSE map[k]]

-----------------------------------------------------------------------------
(* G4OCCTMaterialMap *)

AddMaterial(map, stepName, material) == Put(map, stepName, material)

HasMaterial(map, stepName) == stepName \in DOMAIN map

(* Mutation: an entry that is already there is kept. *)
MergeKeepsFirst(map, other) == map @@ other

(* Later files win. *)
Merge(map, other) ==
  [k \in DOMAIN map \cup DOMAIN other |-> IF k \in DOMAIN other THEN other[k] ELSE map[k]]

-----------------------------------------------------------------------------
(* G4OCCTSensitiveDetectorMap: rules in the order of their first Add(). *)

AddRule(rules, pattern, sd) ==
  LET same == {i \in DOMAIN rules : rules[i].pattern = pattern} IN
  IF same = {}
  THEN Append(rules, [pattern |-> pattern, sd |-> sd])
  ELSE [rules EXCEPT ![Min(same)].sd = sd]

(* Mutation: a numbered copy is not the part the rule names. *)
MatchesExact(pattern, volumeName) == volumeName = pattern

(* volumeName is the pattern, or the pattern, "_" and digits only *)
Matches(pattern, volumeName) ==
  \/ volumeName = pattern
  \/ /\ Len(volumeName) = Len(pattern) + 1
     /\ IsPrefix(pattern, volumeName)

ResolveDetector(rules, volumeName) ==
  LET hits == {i \in DOMAIN rules : Matches(rules[i].pattern, volumeName)} IN
  IF hits = {} THEN NoDetector ELSE rules[Min(hits)].sd

-----------------------------------------------------------------------------
(* The XML files.  "opens" is what the parser makes of the file.            *)

PreParseFault(file, root, codes) ==
  IF file.opens = "xmlError" THEN codes[1]
  ELSE IF file.opens = "domError" THEN codes[2]
  ELSE IF file.opens = "noDocument" THEN codes[3]
  ELSE IF file.opens = "empty" THEN codes[4]
  ELSE IF file.root # root THEN codes[5] ELSE ""

(* What reading has made so far: the map, the G4Material table, the elements. *)
Fail(acc, code) == [acc EXCEPT !.fatal = code]

(* IsotopeRead() and ElementRead() of the GDML reader *)
ReadElement(acc, item) ==
  IF item.tag \in {"isotope", "element"}
  THEN [acc EXCEPT !.elements = @ \cup {item.name}]
  ELSE acc

(* MaterialRead() of the GDML reader: a name made twice is fatal in Geant4, *)
(* and so is a component nobody has defined.                                *)
MaterialRead(acc, item) ==
  IF item.name \in acc.table \/ ~(item.refs \subseteq acc.elements \cup acc.table)
  THEN Fail(acc, "MatReader009")
  ELSE [acc EXCEPT !.table = @ \cup {item.name}]

(* A material that is registered under this name already is reused. *)
InlineMaterial(acc, item) ==
  IF item.name \in acc.table THEN acc ELSE MaterialRead(acc, item)

NistMaterial(acc, item) ==
  IF item.geant4Name \in Nist
  THEN [acc EXCEPT !.table = @ \cup {item.geant4Name}]
  ELSE Fail(acc, "MatReader007")

ReadMaterial(acc, item) ==
  LET material == IF item.geant4Name # "" THEN item.geant4Name ELSE item.name
      made     == IF item.stepName = NoName THEN Fail(acc, "MatReader006")
                  ELSE IF item.geant4Name # "" THEN NistMaterial(acc, item)
                  ELSE IF item.name = "" THEN Fail(acc, "MatReader008")
                  ELSE InlineMaterial(acc, item)
  IN  IF acc.fatal # "" \/ item.tag # "material" THEN acc
      ELSE IF made.fatal # "" THEN made
      ELSE [made EXCEPT !.map = AddMaterial(@, item.stepName, material)]

(* Mutation: one pass over the file, in document order. *)
ReadMaterialFileOnePass(file, table, elements) ==
  LET fault == PreParseFault(file, "materials",
                 <<"MatReader001", "MatReader002", "MatReader003", "MatReader004", "MatReader005">>)
      start == [map |-> EmptyMap, table |-> table, elements |-> elements, fatal |-> fault]
  IN  IF fault # "" THEN start
      ELSE FoldLeft(LAMBDA acc, item : ReadMaterial(ReadElement(acc, item), item),
                    start, file.items)

(* The elements of the whole file come first, so that a material may refer  *)
(* to an element that is written after it.                                  *)
ReadMaterialFile(file, table, elements) ==
  LET fault == PreParseFault(file, "materials",
                 <<"MatReader001", "MatReader002", "MatReader003", "MatReader004", "MatReader005">>)
      start == [map |-> EmptyMap, table |-> table, elements |-> elements, fatal |-> fault]
  IN  IF fault # "" THEN start
      ELSE FoldLeft(ReadMaterial, FoldLeft(ReadElement, start, file.items), file.items)

(* G4OCCTSensitiveDetectorMapReader, given the detectors of G4SDManager *)
ReadRule(detectors, acc, item) ==
  LET fault == IF item.name = NoName THEN "SDReader000"
               ELSE IF item.sensDet = NoDetector THEN "SDReader001"
               ELSE IF item.sensDet \notin detectors THEN "SDReader002" ELSE ""
  IN  IF acc.fatal # "" \/ item.tag # "volume" THEN acc
      ELSE IF fault # "" THEN Fail(acc, fault)
      ELSE [acc EXCEPT !.rules = AddRule(@, item.name, item.sensDet)]

ReadRuleFile(file, detectors) ==
  LET fault == PreParseFault(file, "sensitive_detector_map",
                 <<"SDReader003", "SDReader004", "SDReader005", "SDReader006", "SDReader007">>)
      start == [rules |-> <<>>, fatal |-> fault]
  IN  IF fault # "" THEN start
      ELSE FoldLeft(LAMBDA acc, item : ReadRule(detectors, acc, item), start, file.items)
=============================================================================
