---------------------------- MODULE MCDetectorSession ----------------------------
(* An instance of DetectorSession for TLC. *)
EXTENDS DetectorSession

Part(name, material, shape) ==
  [kind |-> "simple", name |-> name, material |-> material, shape |-> shape, comps |-> <<>>]

Assembly(name, comps) ==
  [kind |-> "assembly", name |-> name, material |-> <<>>, shape |-> "solid", comps |-> comps]

At(loc, ref) == [loc |-> loc, ref |-> ref, name |-> <<>>, material |-> <<>>]

D(datum, power) == [datum |-> datum, power |-> power]

Doc(free, labels) == [opens |-> "ok", free |-> free, labels |-> labels]

(* Two assemblies deep, the inner one and a part placed more than once, a   *)
(* part that is called what MakeUniqueName() would call another, a null     *)
(* shape, a component without a shape.                                      *)
Nested == Doc(<<"top">>,
  "top"   :> Assembly(<<"Top">>,
               <<At(<<D("d1", 1)>>, "sub"), At(<<D("d2", -1), D("d1", 2)>>, "sub"),
                 At(<<>>, "bolt"), [At(<<>>, "") EXCEPT !.name = <<"Ghost">>]>>) @@
  "sub"   :> Assembly(<<"Sub">>,
               <<At(<<D("d2", 1)>>, "bolt"), At(<<>>, "bolt1"), At(<<D("d1", -1)>>, "nut"),
                 At(<<>>, "none")>>) @@
  "bolt"  :> Part(<<"Bolt">>, <<"Steel">>, "solid") @@
  "bolt1" :> Part(<<"Bolt", 1>>, <<>>, "solid") @@
  "nut"   :> Part(<<"Bolt">>, <<"Steel">>, "solid") @@
  "none"  :> Part(<<"None">>, <<>>, "null"))

(* An assembly with a part that has a material and a component that has one *)
(* but no shape.                                                            *)
Frame == Doc(<<"frame">>,
  "frame" :> Assembly(<<"Top">>,
               <<At(<<>>, "bolt"), At(<<D("d1", 1)>>, "bolt"),
                 [At(<<>>, "") EXCEPT !.name = <<"Ghost">>, !.material = <<"Cover">>]>>) @@
  "bolt"  :> Part(<<"Bolt">>, <<"Steel">>, "solid"))

(* Several free shapes, one of them unnamed. *)
Multi == Doc(<<"p", "q", "wire">>,
  "p"    :> Part(<<>>, <<"Steel">>, "solid") @@
  "q"    :> Part(<<"Cover">>, <<>>, "solid") @@
  "wire" :> [Part(<<"Wire">>, <<>>, "null") EXCEPT !.kind = "other"])

Single == Doc(<<"s">>, "s" :> Part(<<"Cover">>, <<>>, "solid"))

(* A part without a bounding box behind a good one. *)
Void == Doc(<<"g", "v">>,
  "g" :> Part(<<"Cover">>, <<>>, "solid") @@ "v" :> Part(<<"Cover">>, <<>>, "void"))

(* A part with neither a name nor a material. *)
Anonymous == Doc(<<"g", "a">>,
  "g" :> Part(<<"Cover">>, <<>>, "solid") @@ "a" :> Part(<<>>, <<>>, "solid"))

(* Names with characters that XML escapes; one that contains an entity, one *)
(* that this decodes to, and one that is not ASCII.                         *)
Escapes == Doc(<<"e", "f">>,
  "e" :> Part(<<"A&B">>, <<>>, "solid") @@ "f" :> Part(<<"A<">>, <<>>, "solid"))

Entity == Doc(<<"o", "f">>,
  "o" :> Part(<<"A&lt;">>, <<>>, "solid") @@ "f" :> Part(<<"A<">>, <<>>, "solid"))

Umlaut == Doc(<<"u">>, "u" :> Part(<<"Brueckeu">>, <<>>, "solid"))

Unread == [Single EXCEPT !.opens = "unreadable"]

MCDocuments ==
  "nested.step" :> Nested @@ "frame.step" :> Frame @@ "multi.stp" :> Multi @@
  "single.step" :> Single @@ "void.step" :> Void @@ "anon.step" :> Anonymous @@
  "escapes.step" :> Escapes @@ "entity.step" :> Entity @@ "umlaut.step" :> Umlaut @@
  "unread.step" :> Unread @@ "empty.step" :> Doc(<<>>, Single.labels) @@
  "gone.step" :> [Unread EXCEPT !.opens = "missing"]

MCSpelling ==
  <<"Steel">> :> <<"Steel">> @@ <<"Bolt">> :> <<"Bolt">> @@ <<"Bolt", 1>> :> <<"Bolt", "_1">> @@
  <<"Cover">> :> <<"Cover">> @@ <<"Ghost">> :> <<"Ghost">> @@ <<"Top">> :> <<"Top">> @@
  <<"Sub">> :> <<"Sub">> @@ <<"None">> :> <<"None">> @@ <<"Wire">> :> <<"Wire">> @@
  <<"A&B">> :> <<"A", "&", "B">> @@ <<"A<">> :> <<"A", "<">> @@
  <<"A&lt;">> :> <<"A", "&", "lt;">> @@ <<"Brueckeu">> :> <<"Br", "ue", "cke">>

MCHalf   == [l \in UNION {DOMAIN MCDocuments[p].labels : p \in DOMAIN MCDocuments} |-> 2]
MCOffset == [l \in DOMAIN MCHalf \cup {"d1", "d2"} |->
               CASE l = "d1" -> 10 [] l = "d2" -> 3 [] OTHER -> 1]

-----------------------------------------------------------------------------
Material(stepName, geant4Name, name, refs) ==
  [tag |-> "material", stepName |-> stepName, geant4Name |-> geant4Name,
   name |-> name, refs |-> refs]

Element(name) == [Material(<<>>, "", name, {}) EXCEPT !.tag = "element"]

Xml(root, items) == [opens |-> "ok", root |-> root, items |-> items]

(* a.xml refers to an element before it is written; b.xml says something    *)
(* else of a name, and makes a material again.                              *)
MCMaterialFiles ==
  "a.xml" :> Xml("materials",
    <<Material(<<"Steel">>, "", "MySteel", {"Fe"}), Element("Fe"),
      Material(<<"Bolt", 1>>, "G4_Al", "", {}), Material(<<"Cover">>, "G4_Al", "", {})>>) @@
  "b.xml" :> Xml("materials",
    <<Element("Fe"), Material(<<"Steel">>, "", "MySteel", {"Fe"}),
      Material(<<"Bolt", 1>>, "", "Mixture", {"MySteel"}), Material(<<"Cover">>, "G4_Fe", "", {})>>) @@
  "few.xml" :> Xml("materials", <<Material(<<"Cover">>, "G4_Fe", "", {})>>) @@
  "dangling.xml" :> Xml("materials", <<Material(<<"Steel">>, "", "MySteel", {"Fe"})>>) @@
  "nokey.xml" :> Xml("materials", <<Material(<<>>, "G4_Fe", "", {})>>) @@
  "noname.xml" :> Xml("materials", <<Material(<<"Steel">>, "", "", {})>>) @@
  "nonist.xml" :> Xml("materials", <<Material(<<"Steel">>, "G4_Nix", "", {})>>) @@
  "root.xml" :> Xml("material_map", <<>>) @@
  "dom.xml" :> [Xml("materials", <<>>) EXCEPT !.opens = "domError"]

Do(cmd, arg) == [cmd |-> cmd, arg |-> arg]

Output(n, on) == [cmd |-> "output", arg |-> n, on |-> on]

(* "" is the typed session. *)
MCMacros ==
  "" :> <<Do("run/initialize", "")>> @@
  "run.mac" :> <<Output("steps", FALSE), Do("run/initialize", ""), Do("run/beamOn", 1),
                 Output("steps", TRUE), Do("run/beamOn", 2)>> @@
  "load.mac" :> <<Do("load/material", "b.xml"), Do("load/step", "single.step"),
                  Do("load/assembly", "single.step"), Do("world/setSize", 700),
                  Do("world/setMaterial", "MySteel"), Do("run/initialize", ""),
                  Do("run/initialize", "")>> @@
  "lost.mac" :> <<Do("load/assembly", "unread.step"), Do("run/initialize", "")>> @@
  "bad.mac" :> <<Do("world/setMaterial", "G4_Nix"), Do("run/initialize", "")>>

MCCommandLines ==
  {<<"nested.step", "a.xml", "b.xml">>, <<"b.xml", "a.xml", "nested.step">>,
   <<"multi.stp", "single.step", "a.xml">>, <<"single.step", "single.step">>,
   <<"-u", "batch", "-t", "2", "single.step", "-m", "run.mac">>, <<"a.xml", "-m", "load.mac">>,
   <<"-m", "bad.mac">>, <<"-m", "lost.mac">>, <<"void.step", "a.xml">>, <<"anon.step", "a.xml">>,
   <<"nested.step", "few.xml">>, <<"unread.step">>, <<"empty.step">>,
   <<"dangling.xml">>, <<"nokey.xml">>, <<"noname.xml">>, <<"nonist.xml">>, <<"root.xml">>,
   <<"dom.xml">>, <<"-m">>, <<"-t", "-m">>, <<"-x">>, <<"notes.txt">>,
   <<"nowhere.xml">>, <<"-m", "nowhere.mac">>}

MCExtension ==
  [f \in DOMAIN MCDocuments |-> IF f = "multi.stp" THEN ".stp" ELSE ".step"] @@
  [f \in DOMAIN MCMaterialFiles \cup {"nowhere.xml"} |-> ".xml"] @@ "notes.txt" :> ".txt"

-----------------------------------------------------------------------------
Detector(name, path, entries) ==
  [plugin |-> "assembly", name |-> name, path |-> path, entries |-> entries, material |-> ""]

Solid(path, material) == [Detector("", path, <<>>) EXCEPT !.plugin = "solid", !.material = material]

Entry(stepName, material) == [stepName |-> stepName, material |-> material]

NestedEntries ==
  <<Entry(<<"Steel">>, "G4_Fe"), Entry(<<"Bolt", 1>>, "G4_Fe"), Entry(<<"Bolt", 1>>, "G4_Al")>>

CoverEntries == <<Entry(<<"Cover">>, "G4_Al")>>

MCCompactFiles ==
  {<<Detector("Nested", "nested.step", NestedEntries), Solid("single.step", "Iron"),
     Detector("Cover", "single.step", CoverEntries), Solid("multi.stp", "Iron")>>,
   <<Detector("Cover", "single.step", CoverEntries), Detector("Cover", "single.step", CoverEntries)>>,
   <<Detector("Nested", "nested.step", CoverEntries)>>,
   <<Detector("Void", "void.step", CoverEntries)>>, <<Detector("None", "empty.step", <<>>)>>,
   <<Detector("Odd", "single.step", <<Entry(<<"Cover">>, "Nix")>>)>>,
   <<Solid("single.step", "Nix")>>, <<Solid("unread.step", "Iron")>>}

Rule(pattern, sd) == [pattern |-> pattern, sd |-> sd]

MCAssignments ==
  {<<Rule(<<"Bolt">>, "Tracker")>>, <<Rule(<<"Bolt", 1>>, "Tracker"), Rule(<<"Cover">>, "Calo")>>,
   <<Rule(<<"Bolt">>, "Tracker"), Rule(<<"Bolt", 1>>, "Calo"), Rule(<<"Bolt">>, "Calo")>>,
   <<Rule(<<"Cover">>, "")>>}

Volume(name, sd) == [tag |-> "volume", name |-> name, sensDet |-> sd]

MCRuleFiles ==
  "rules" :> Xml("sensitive_detector_map",
               <<Volume(<<"Cover">>, "Calo"), [Volume(<<>>, "") EXCEPT !.tag = "note"]>>) @@
  "unknown" :> Xml("sensitive_detector_map", <<Volume(<<"Cover">>, "Muon")>>) @@
  "nameless" :> Xml("sensitive_detector_map", <<Volume(<<>>, "Calo")>>) @@
  "empty" :> [Xml("sensitive_detector_map", <<>>) EXCEPT !.opens = "empty"]

-----------------------------------------------------------------------------
MCSuitable ==
  [n \in DOMAIN MCSpelling \cup {<<"?">>} |->
     CASE n = <<"Steel">> -> {"G4_Al", "G4_Fe"}
       [] n \in {<<"Bolt", 1>>, <<"A<">>} -> {"G4_Fe"}
       [] OTHER -> {"G4_Al"}]

MCDefaults ==
  [f \in DOMAIN MCDocuments |-> [compact |-> "c.xml", map |-> "m.xml"]]

MCToolLines ==
  {<<"nested.step">>, <<"frame.step">>, <<"frame.step", "--existing-map", "m.xml">>,
   <<"escapes.step">>, <<"escapes.step", "--existing-map", "m.xml", "-o", "out.xml">>,
   <<"entity.step">>, <<"--existing-map", "m.xml", "entity.step">>, <<"umlaut.step">>,
   <<"-m", "ro.xml", "multi.stp">>, <<"-o", "ro.xml", "multi.stp">>, <<"empty.step">>,
   <<"anon.step">>, <<"unread.step">>, <<"gone.step">>,
   <<"--detector-id", "7", "--detector-name", "Det", "anon.step">>,
   <<"--detector-id", "x">>, <<"-h">>, <<"-x">>, <<"-m">>, <<>>,
   <<"nested.step", "entity.step">>}
=============================================================================
