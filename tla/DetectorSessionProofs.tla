------------------------- MODULE DetectorSessionProofs -------------------------
(***************************************************************************)
(* Theorems about DetectorSession, for any documents, files, command lines  *)
(* and compact files: the parts of an assembly can be looked up by name,    *)
(* an assembly has one owner, what the state holds, and an import places    *)
(* every part where the document has it.                                    *)
(***************************************************************************)
EXTENDS DetectorSession, FiniteSetTheorems, FunctionTheorems, TLAPS

(* The forms of a part and of an assembly, whatever their fields hold. *)
PartForm(x) ==
  x = [name |-> x.name, raw |-> x.raw, label |-> x.label, material |-> x.material, sd |-> x.sd]

AssemblyForm(r) ==
  r = [doc |-> r.doc, owner |-> r.owner, parts |-> r.parts, volumes |-> r.volumes,
       placed |-> r.placed]

Reachable(r) ==
  \A i \in DOMAIN r.parts :
    /\ r.parts[i].name \in DOMAIN r.volumes
    /\ r.volumes[r.parts[i].name] = i

GoodAssembly(r) ==
  /\ AssemblyForm(r)
  /\ \E U : r.parts \in Seq(U)
  /\ \A i \in DOMAIN r.parts : PartForm(r.parts[i])
  /\ Reachable(r)

GoodHeap(h) ==
  /\ \E U : h \in Seq(U)
  /\ \A a \in DOMAIN h : GoodAssembly(h[a])

(* While an import walks its document, it has taken every name it has given. *)
NamesTaken(h) ==
  import = "walking" =>
    /\ h # <<>>
    /\ \A i \in DOMAIN h[Len(h)].parts : h[Len(h)].parts[i].name \in DOMAIN usedNames

NamesInv == GoodHeap(heap) /\ NamesTaken(heap)

-----------------------------------------------------------------------------
(* Sequences, and assemblies in them. *)

(* A sequence with an element more. *)
LEMMA AppendValues ==
  ASSUME NEW U, NEW s \in Seq(U), NEW e
  PROVE  /\ Append(s, e) \in Seq(U \cup {e})
         /\ Len(s) \in Nat /\ DOMAIN s = 1 .. Len(s)
         /\ Len(Append(s, e)) = Len(s) + 1
         /\ DOMAIN Append(s, e) = 1 .. Len(s) + 1
         /\ \A i \in 1 .. Len(s) : Append(s, e)[i] = s[i]
         /\ Append(s, e)[Len(s) + 1] = e
<1>1. s \in Seq(U \cup {e})
  OBVIOUS
<1> QED
  BY <1>1

(* A sequence with an element replaced, or left alone when there is none. *)
LEMMA ReplaceValues ==
  ASSUME NEW U, NEW s \in Seq(U), NEW a, NEW e
  PROVE  /\ [s EXCEPT ![a] = e] \in Seq(U \cup {e})
         /\ Len([s EXCEPT ![a] = e]) = Len(s)
         /\ DOMAIN [s EXCEPT ![a] = e] = DOMAIN s
         /\ \A i \in DOMAIN s : [s EXCEPT ![a] = e][i] = IF i = a THEN e ELSE s[i]
<1> DEFINE t == [s EXCEPT ![a] = e]
<1>1. /\ Len(s) \in Nat /\ DOMAIN s = 1 .. Len(s)
      /\ \A i \in DOMAIN s : s[i] \in U
  OBVIOUS
<1>2. t = [i \in 1 .. Len(s) |-> IF i = a THEN e ELSE s[i]]
  BY <1>1
<1> HIDE DEF t
<1>3. t \in [1 .. Len(s) -> U \cup {e}]
  BY <1>1, <1>2
<1>4. t \in Seq(U \cup {e}) /\ Len(t) = Len(s)
  BY <1>1, <1>3
<1> QED
  BY <1>1, <1>2, <1>4 DEF t

(* An assembly replaced by a good one leaves a good heap. *)
LEMMA ReplaceGood ==
  ASSUME NEW h, GoodHeap(h), NEW a, NEW r, a \in DOMAIN h => GoodAssembly(r)
  PROVE  /\ GoodHeap([h EXCEPT ![a] = r])
         /\ Len([h EXCEPT ![a] = r]) = Len(h)
         /\ DOMAIN [h EXCEPT ![a] = r] = DOMAIN h
         /\ \A b \in DOMAIN h : [h EXCEPT ![a] = r][b] = IF b = a THEN r ELSE h[b]
<1>1. PICK U : h \in Seq(U)
  BY DEF GoodHeap
<1>2. /\ [h EXCEPT ![a] = r] \in Seq(U \cup {r})
      /\ Len([h EXCEPT ![a] = r]) = Len(h)
      /\ DOMAIN [h EXCEPT ![a] = r] = DOMAIN h
      /\ \A b \in DOMAIN h : [h EXCEPT ![a] = r][b] = IF b = a THEN r ELSE h[b]
  BY <1>1, ReplaceValues
<1>3. \A b \in DOMAIN h : GoodAssembly(IF b = a THEN r ELSE h[b])
  BY DEF GoodHeap
<1> QED
  BY <1>2, <1>3 DEF GoodHeap

WithOwner(r, owner) == [r EXCEPT !.owner = owner]

(* The owner of an assembly has nothing to do with the names of its parts. *)
LEMMA OwnerGood ==
  ASSUME NEW r, GoodAssembly(r), NEW owner
  PROVE  GoodAssembly(WithOwner(r, owner)) /\ WithOwner(r, owner).parts = r.parts
<1> DEFINE q == WithOwner(r, owner)
<1>1. r = [doc |-> r.doc, owner |-> r.owner, parts |-> r.parts, volumes |-> r.volumes,
           placed |-> r.placed]
  BY DEF GoodAssembly, AssemblyForm
<1>2. /\ q = [doc |-> r.doc, owner |-> owner, parts |-> r.parts, volumes |-> r.volumes,
              placed |-> r.placed]
      /\ q.parts = r.parts /\ q.volumes = r.volumes
  BY <1>1 DEF WithOwner
<1>3. AssemblyForm(q)
  BY <1>2 DEF AssemblyForm
<1> QED
  BY <1>2, <1>3 DEF GoodAssembly, Reachable

(* Nor has a placement. *)
LEMMA PlacedGood ==
  ASSUME NEW r, GoodAssembly(r), NEW part, NEW composed, NEW centroid
  PROVE  /\ GoodAssembly(AddPlacedVolume(r, part, composed, centroid))
         /\ AddPlacedVolume(r, part, composed, centroid).parts = r.parts
<1> DEFINE p == Append(r.placed, [part |-> part, trsf |-> composed \o centroid])
           q == [r EXCEPT !.placed = p]
<1>0. AddPlacedVolume(r, part, composed, centroid) = q
  BY DEF AddPlacedVolume
<1> HIDE DEF p
<1>1. r = [doc |-> r.doc, owner |-> r.owner, parts |-> r.parts, volumes |-> r.volumes,
           placed |-> r.placed]
  BY DEF GoodAssembly, AssemblyForm
<1>2. /\ q = [doc |-> r.doc, owner |-> r.owner, parts |-> r.parts, volumes |-> r.volumes,
              placed |-> p]
      /\ q.parts = r.parts /\ q.volumes = r.volumes
  BY <1>1
<1>3. AssemblyForm(q)
  BY <1>2 DEF AssemblyForm
<1>4. GoodAssembly(q)
  BY <1>2, <1>3 DEF GoodAssembly, Reachable
<1> QED
  BY <1>0, <1>2, <1>4

(* A new part under a name no other part has. *)
LEMMA PartGood ==
  ASSUME NEW r, GoodAssembly(r), NEW part, PartForm(part),
         \A i \in DOMAIN r.parts : r.parts[i].name # part.name
  PROVE  GoodAssembly(AddPart(r, part)) /\ AddPart(r, part).parts = Append(r.parts, part)
<1> DEFINE ps == Append(r.parts, part)
           vs == Put(r.volumes, part.name, Len(r.parts) + 1)
           q  == [r EXCEPT !.parts = ps, !.volumes = vs]
<1>1. PICK U : r.parts \in Seq(U)
  BY DEF GoodAssembly
<1>2. /\ ps \in Seq(U \cup {part})
      /\ Len(r.parts) \in Nat /\ DOMAIN r.parts = 1 .. Len(r.parts)
      /\ DOMAIN ps = 1 .. Len(r.parts) + 1
      /\ \A i \in 1 .. Len(r.parts) : ps[i] = r.parts[i]
      /\ ps[Len(r.parts) + 1] = part
  BY <1>1, AppendValues
<1>3. /\ DOMAIN vs = DOMAIN r.volumes \cup {part.name}
      /\ vs[part.name] = Len(r.parts) + 1
      /\ \A k \in DOMAIN r.volumes : k # part.name => vs[k] = r.volumes[k]
  BY DEF Put
<1> HIDE DEF ps, vs
<1>4. r = [doc |-> r.doc, owner |-> r.owner, parts |-> r.parts, volumes |-> r.volumes,
           placed |-> r.placed]
  BY DEF GoodAssembly, AssemblyForm
<1>5. /\ q = [doc |-> r.doc, owner |-> r.owner, parts |-> ps, volumes |-> vs,
              placed |-> r.placed]
      /\ q.parts = ps /\ q.volumes = vs
  <2> DEFINE q1 == [r EXCEPT !.parts = ps]
  <2>1. q1 = [doc |-> r.doc, owner |-> r.owner, parts |-> ps, volumes |-> r.volumes,
              placed |-> r.placed]
    BY <1>4
  <2>2. q = [q1 EXCEPT !.volumes = vs]
    BY <1>4
  <2> HIDE DEF q1
  <2> QED
    BY <2>1, <2>2
<1>6. ASSUME NEW i \in 1 .. Len(r.parts) + 1
      PROVE  PartForm(ps[i]) /\ ps[i].name \in DOMAIN vs /\ vs[ps[i].name] = i
  <2>1. CASE i \in 1 .. Len(r.parts)
    BY <2>1, <1>2, <1>3 DEF GoodAssembly, Reachable
  <2>2. CASE i = Len(r.parts) + 1
    BY <2>2, <1>2, <1>3
  <2> QED
    BY <2>1, <2>2, <1>2
<1>7. AssemblyForm(q)
  BY <1>5 DEF AssemblyForm
<1>8. GoodAssembly(q)
  BY <1>2, <1>5, <1>6, <1>7 DEF GoodAssembly, Reachable
<1> QED
  BY <1>5, <1>8 DEF ps, vs, AddPart

(* MakeUniqueName() gives a name nobody has taken, and takes it. *)
LEMMA UniqueName ==
  ASSUME NEW raw, NEW unique, MakeUniqueName(raw, unique)
  PROVE  /\ unique \notin DOMAIN usedNames
         /\ unique \in DOMAIN usedNames'
         /\ DOMAIN usedNames \subseteq DOMAIN usedNames'
<1>1. CASE raw \notin DOMAIN usedNames
  BY <1>1 DEF MakeUniqueName, Put
<1>2. CASE raw \in DOMAIN usedNames
  <2>1. PICK k \in usedNames[raw] + 1 .. MaxSuffix :
          /\ unique \notin DOMAIN usedNames
          /\ usedNames' = Put(Put(usedNames, unique, 0), raw, k)
    BY <1>2 DEF MakeUniqueName
  <2> QED
    BY <2>1 DEF Put
<1> QED
  BY <1>1, <1>2

-----------------------------------------------------------------------------
(* Steps. *)

(* A heap of the same length whose assemblies are good and whose parts keep *)
(* their names.                                                             *)
SameNames(h, g) ==
  /\ Len(g) = Len(h) /\ (g = <<>> => h = <<>>)
  /\ \A a \in DOMAIN h :
       /\ DOMAIN g[a].parts = DOMAIN h[a].parts
       /\ \A i \in DOMAIN h[a].parts : g[a].parts[i].name = h[a].parts[i].name

(* A heap is empty when its length is zero. *)
LEMMA EmptyHeap ==
  ASSUME NEW h, GoodHeap(h)
  PROVE  /\ Len(h) \in Nat /\ DOMAIN h = 1 .. Len(h)
         /\ h = <<>> <=> Len(h) = 0
  BY DEF GoodHeap

(* A step that keeps the names and neither begins a walk nor forgets names. *)
LEMMA NamesKept ==
  ASSUME NamesInv, GoodHeap(heap'), SameNames(heap, heap'),
         import' = "walking" => import = "walking" /\ DOMAIN usedNames \subseteq DOMAIN usedNames'
  PROVE  NamesInv'
<1>1. PICK U : heap \in Seq(U)
  BY DEF NamesInv, GoodHeap
<1>2. heap # <<>> => Len(heap) \in DOMAIN heap
  BY <1>1
<1> QED
  BY <1>2 DEF NamesInv, NamesTaken, SameNames

(* A step that leaves the heap alone. *)
LEMMA HeapKept ==
  ASSUME NamesInv, UNCHANGED heap,
         import' = "walking" => import = "walking" /\ UNCHANGED usedNames
  PROVE  NamesInv'
  BY DEF NamesInv, NamesTaken, GoodHeap

(* A step that replaces an assembly by one with the same parts. *)
LEMMA ReplaceKeepsNames ==
  ASSUME NamesInv, NEW a, NEW r, heap' = [heap EXCEPT ![a] = r],
         a \in DOMAIN heap => GoodAssembly(r) /\ r.parts = heap[a].parts,
         import' = "walking" => import = "walking" /\ UNCHANGED usedNames
  PROVE  NamesInv'
<1>1. GoodHeap(heap)
  BY DEF NamesInv
<1>2. /\ GoodHeap(heap') /\ Len(heap') = Len(heap) /\ DOMAIN heap' = DOMAIN heap
      /\ \A b \in DOMAIN heap : heap'[b] = IF b = a THEN r ELSE heap[b]
  BY <1>1, ReplaceGood
<1>3. SameNames(heap, heap')
  BY <1>1, <1>2, EmptyHeap DEF SameNames
<1> QED
  BY <1>2, <1>3, NamesKept

(* A step that gives one assembly another owner. *)
LEMMA OwnerKeepsNames ==
  ASSUME NamesInv, NEW a, NEW owner, heap' = [heap EXCEPT ![a] = WithOwner(heap[a], owner)],
         import' = "walking" => import = "walking" /\ UNCHANGED usedNames
  PROVE  NamesInv'
<1>1. a \in DOMAIN heap =>
        GoodAssembly(WithOwner(heap[a], owner)) /\ WithOwner(heap[a], owner).parts = heap[a].parts
  BY OwnerGood DEF NamesInv, GoodHeap
<1> QED
  BY <1>1, ReplaceKeepsNames

(* The first encounter of a label: the new part and its name. *)
LEMMA BuildPartKeepsNames == NamesInv /\ BuildPart => NamesInv'
<1> SUFFICES ASSUME NamesInv, BuildPart PROVE NamesInv'
  OBVIOUS
<1> DEFINE h    == heap[Current]
           new  == Len(h.parts) + 1
           part(unique) == [name |-> unique, raw |-> RawName(Label), label |-> Here.label,
                            material |-> materialMap[MaterialKey(Label)], sd |-> NoDetector]
           with(unique) == AddPart(h, part(unique))
           r(unique) == AddPlacedVolume(with(unique), new, Here.trsf, Centroid(Here.label))
<1>1. PICK unique : /\ MakeUniqueName(RawName(Label), unique)
                    /\ heap' = [heap EXCEPT ![Current] = r(unique)]
  BY DEF BuildPart
<1>2. import = "walking" /\ import' = "walking"
  BY DEF BuildPart, FirstEncounter
<1>3. /\ unique \notin DOMAIN usedNames /\ unique \in DOMAIN usedNames'
      /\ DOMAIN usedNames \subseteq DOMAIN usedNames'
  BY <1>1, UniqueName
<1>4. /\ GoodHeap(heap) /\ Len(heap) \in DOMAIN heap /\ Current = Len(heap)
      /\ \A i \in DOMAIN h.parts : h.parts[i].name \in DOMAIN usedNames
  BY <1>2, EmptyHeap DEF NamesInv, NamesTaken, Current
<1>5. GoodAssembly(h)
  BY <1>4 DEF GoodHeap
<1>6. PartForm(part(unique)) /\ part(unique).name = unique
  BY DEF PartForm
<1>7. GoodAssembly(with(unique)) /\ with(unique).parts = Append(h.parts, part(unique))
  <2> HIDE DEF part
  <2> QED
    BY <1>3, <1>4, <1>5, <1>6, PartGood
<1>8. GoodAssembly(r(unique)) /\ r(unique).parts = Append(h.parts, part(unique))
  <2> HIDE DEF part, with, new
  <2> QED
    BY <1>7, PlacedGood
<1> HIDE DEF r, part, with, new
<1>9. /\ GoodHeap(heap') /\ Len(heap') = Len(heap) /\ DOMAIN heap' = DOMAIN heap
      /\ heap'[Len(heap)] = r(unique)
  <2>1. GoodHeap(heap) /\ Len(heap) \in DOMAIN heap /\ GoodAssembly(r(unique))
    BY <1>4, <1>8
  <2>2. heap' = [heap EXCEPT ![Len(heap)] = r(unique)]
    BY <1>1, <1>4
  <2> HIDE DEF h
  <2>3. /\ GoodHeap([heap EXCEPT ![Len(heap)] = r(unique)])
        /\ Len([heap EXCEPT ![Len(heap)] = r(unique)]) = Len(heap)
        /\ DOMAIN [heap EXCEPT ![Len(heap)] = r(unique)] = DOMAIN heap
        /\ \A b \in DOMAIN heap :
             [heap EXCEPT ![Len(heap)] = r(unique)][b] = IF b = Len(heap) THEN r(unique) ELSE heap[b]
    BY <2>1, ReplaceGood
  <2>4. [heap EXCEPT ![Len(heap)] = r(unique)][Len(heap)] = r(unique)
    BY <2>1, <2>3
  <2> QED
    BY <2>2, <2>3, <2>4
<1>10. \A i \in DOMAIN Append(h.parts, part(unique)) :
         Append(h.parts, part(unique))[i].name \in DOMAIN usedNames'
  <2>1. PICK U : h.parts \in Seq(U)
    BY <1>5 DEF GoodAssembly
  <2> QED
    BY <2>1, <1>3, <1>4, <1>6, AppendValues
<1>11. heap' # <<>>
  BY <1>4, <1>9, EmptyHeap
<1> QED
  BY <1>8, <1>9, <1>10, <1>11 DEF NamesInv, NamesTaken

(* The steps of ImportLabel(). *)
LEMMA ImportKeepsNames == NamesInv /\ ImportLabel => NamesInv'
<1> SUFFICES ASSUME NamesInv, ImportLabel PROVE NamesInv'
  OBVIOUS
<1>0. GoodHeap(heap)
  BY DEF NamesInv
<1>1. CASE ImportAssemblyLabel
  BY <1>1, HeapKept DEF ImportAssemblyLabel
<1>2. CASE ReusePrototype
  <2> DEFINE r == AddPlacedVolume(heap[Current], protos[Here.label].part, Here.trsf,
                                  protos[Here.label].centroid)
  <2>1. heap' = [heap EXCEPT ![Current] = r] /\ UNCHANGED <<import, usedNames>>
    BY <1>2 DEF ReusePrototype
  <2>2. Current \in DOMAIN heap => GoodAssembly(r) /\ r.parts = heap[Current].parts
    BY <1>0, PlacedGood DEF GoodHeap
  <2> HIDE DEF r
  <2> QED
    BY <2>1, <2>2, ReplaceKeepsNames
<1>3. CASE SkipLabel
  BY <1>3, HeapKept DEF SkipLabel
<1>4. CASE MaterialMissing
  BY <1>4, HeapKept DEF MaterialMissing, AbortImport
<1>5. CASE BuildPart
  BY <1>5, BuildPartKeepsNames
<1>6. CASE BuildPartThrows
  <2>1. /\ heap' = [heap EXCEPT ![Current] = WithOwner(heap[Current], "leaked")]
        /\ import' = "threw"
    BY <1>6 DEF BuildPartThrows, Owned, WithOwner
  <2> QED
    BY <2>1, OwnerKeepsNames
<1>7. CASE EndWalk
  <2>1. /\ heap' = [heap EXCEPT ![Current] = WithOwner(heap[Current], "caller")]
        /\ import' = "done"
    BY <1>7 DEF EndWalk, Owned, WithOwner
  <2> QED
    BY <2>1, OwnerKeepsNames
<1> QED
  BY <1>1, <1>2, <1>3, <1>4, <1>5, <1>6, <1>7 DEF ImportLabel

(* A walk begins on a new assembly, which has no parts. *)
LEMMA BeginKeepsNames ==
  ASSUME NamesInv, NEW path, NEW map, BeginFromSTEP(path, map)
  PROVE  NamesInv'
<1> DEFINE new == NewAssembly(path)
<1>1. heap' = Append(heap, new)
  BY DEF BeginFromSTEP
<1>2. PICK U : heap \in Seq(U)
  BY DEF NamesInv, GoodHeap
<1>3. GoodAssembly(new) /\ DOMAIN new.parts = {}
  BY DEF GoodAssembly, AssemblyForm, Reachable, NewAssembly
<1> HIDE DEF new
<1>4. /\ heap' \in Seq(U \cup {new}) /\ Len(heap) \in Nat
      /\ Len(heap') = Len(heap) + 1 /\ DOMAIN heap' = 1 .. Len(heap) + 1
      /\ \A a \in 1 .. Len(heap) : heap'[a] = heap[a] /\ a \in DOMAIN heap
      /\ heap'[Len(heap')] = new
  BY <1>1, <1>2, AppendValues
<1>5. \A a \in DOMAIN heap' : GoodAssembly(heap'[a])
  BY <1>3, <1>4 DEF NamesInv, GoodHeap
<1>6. GoodHeap(heap')
  BY <1>4, <1>5 DEF GoodHeap
<1>7. heap' # <<>>
  BY <1>4, <1>6, EmptyHeap
<1> QED
  BY <1>3, <1>4, <1>6, <1>7 DEF NamesInv, NamesTaken

LEMMA FromSTEPKeepsNames ==
  ASSUME NamesInv, NEW path, NEW map, FromSTEP(path, map)
  PROVE  NamesInv'
<1>1. CASE FromSTEPFails(path)
  BY <1>1, HeapKept DEF FromSTEPFails
<1>2. CASE BeginFromSTEP(path, map)
  BY <1>2, BeginKeepsNames
<1> QED
  BY <1>1, <1>2 DEF FromSTEP

(* Some of the assemblies are deleted. *)
LEMMA DeleteKeepsNames ==
  ASSUME NamesInv, NEW S,
         heap' = [a \in DOMAIN heap |->
                   IF a \in S THEN WithOwner(heap[a], "deleted") ELSE heap[a]],
         UNCHANGED <<import, usedNames>>
  PROVE  NamesInv'
<1> DEFINE q == [a \in DOMAIN heap |-> WithOwner(heap[a], "deleted")]
           V == {heap[a] : a \in DOMAIN heap} \cup {q[a] : a \in DOMAIN heap}
<1>1. /\ GoodHeap(heap) /\ Len(heap) \in Nat /\ DOMAIN heap = 1 .. Len(heap)
      /\ heap = <<>> <=> Len(heap) = 0
  BY EmptyHeap DEF NamesInv
<1>2. \A a \in DOMAIN heap : GoodAssembly(q[a]) /\ q[a].parts = heap[a].parts
  BY <1>1, OwnerGood DEF GoodHeap
<1>3. heap' = [a \in 1 .. Len(heap) |-> IF a \in S THEN q[a] ELSE heap[a]]
  BY <1>1
<1>4. \A a \in 1 .. Len(heap) : q[a] \in V /\ heap[a] \in V
  BY <1>1
<1> HIDE DEF q, V
<1>5. heap' \in [1 .. Len(heap) -> V]
  BY <1>3, <1>4
<1>6. heap' \in Seq(V) /\ Len(heap') = Len(heap)
  BY <1>1, <1>5
<1>7. \A a \in DOMAIN heap' : GoodAssembly(heap'[a]) /\ heap'[a].parts = heap[a].parts
  BY <1>1, <1>2, <1>3 DEF GoodHeap
<1>8. GoodHeap(heap')
  BY <1>6, <1>7 DEF GoodHeap
<1>9. SameNames(heap, heap')
  BY <1>1, <1>3, <1>6, <1>7, <1>8, EmptyHeap DEF SameNames
<1> QED
  BY <1>8, <1>9, NamesKept

(* ApplySDMap() changes no name. *)
LEMMA ApplyKeepsNames ==
  ASSUME NamesInv, NEW a, NEW rules, ApplySDMap(a, rules), UNCHANGED <<import, usedNames>>
  PROVE  NamesInv'
<1> DEFINE h == heap[a]
           hit(i) == \E n \in Assigned(a, rules) : h.volumes[n] = i
           sd(i) == ResolveDetector(rules, CHOOSE n \in Assigned(a, rules) : h.volumes[n] = i)
           part(i) == IF hit(i) THEN [h.parts[i] EXCEPT !.sd = sd(i)] ELSE h.parts[i]
           ps == [i \in DOMAIN h.parts |-> part(i)]
           r == [h EXCEPT !.parts = ps]
<1>1. heap' = [heap EXCEPT ![a] = r]
  BY DEF ApplySDMap
<1>2. ASSUME a \in DOMAIN heap
      PROVE  GoodHeap(heap') /\ SameNames(heap, heap')
  <2>1. GoodHeap(heap) /\ GoodAssembly(h)
    BY <1>2 DEF NamesInv, GoodHeap
  <2>2. PICK U : h.parts \in Seq(U)
    BY <2>1 DEF GoodAssembly
  <2>3. \A i \in DOMAIN h.parts : PartForm(part(i)) /\ part(i).name = h.parts[i].name
    <3> TAKE i \in DOMAIN h.parts
    <3> DEFINE old == h.parts[i]
    <3>1. old = [name |-> old.name, raw |-> old.raw, label |-> old.label,
                 material |-> old.material, sd |-> old.sd]
      BY <2>1 DEF GoodAssembly, PartForm
    <3>2. ASSUME NEW d
          PROVE  PartForm([old EXCEPT !.sd = d]) /\ [old EXCEPT !.sd = d].name = old.name
      <4> DEFINE new == [old EXCEPT !.sd = d]
      <4> HIDE DEF old
      <4>1. new = [name |-> old.name, raw |-> old.raw, label |-> old.label,
                   material |-> old.material, sd |-> d]
        BY <3>1
      <4> QED
        BY <4>1 DEF PartForm
    <3> HIDE DEF hit, sd
    <3> QED
      BY <3>1, <3>2 DEF PartForm
  <2> DEFINE V == {part(i) : i \in DOMAIN h.parts}
  <2>4. \A i \in DOMAIN h.parts : part(i) \in V
    OBVIOUS
  <2> HIDE DEF part, V
  <2>5. /\ DOMAIN h.parts = 1 .. Len(h.parts) /\ Len(h.parts) \in Nat
        /\ ps \in [1 .. Len(h.parts) -> V]
        /\ DOMAIN ps = DOMAIN h.parts /\ \A i \in DOMAIN h.parts : ps[i] = part(i)
    BY <2>2, <2>4
  <2>6. ps \in Seq(V)
    BY <2>5
  <2> HIDE DEF ps
  <2>7. h = [doc |-> h.doc, owner |-> h.owner, parts |-> h.parts, volumes |-> h.volumes,
             placed |-> h.placed]
    BY <2>1 DEF GoodAssembly, AssemblyForm
  <2> HIDE DEF h
  <2>8. /\ r = [doc |-> h.doc, owner |-> h.owner, parts |-> ps, volumes |-> h.volumes,
                placed |-> h.placed]
        /\ r.parts = ps /\ r.volumes = h.volumes
    BY <2>7
  <2>9. AssemblyForm(r)
    BY <2>8 DEF AssemblyForm
  <2>10. GoodAssembly(r)
    <3>1. \A i \in DOMAIN ps : PartForm(ps[i]) /\ ps[i].name = h.parts[i].name
      BY <2>3, <2>5
    <3>2. Reachable(r)
      BY <2>1, <2>5, <2>8, <3>1 DEF GoodAssembly, Reachable
    <3> QED
      BY <2>6, <2>8, <2>9, <3>1, <3>2 DEF GoodAssembly
  <2>11. /\ GoodHeap(heap') /\ Len(heap') = Len(heap) /\ DOMAIN heap' = DOMAIN heap
         /\ \A b \in DOMAIN heap : heap'[b] = IF b = a THEN r ELSE heap[b]
    BY <2>1, <2>10, <1>1, ReplaceGood
  <2>12. SameNames(heap, heap')
    <3> HIDE DEF r
    <3>1. h = heap[a]
      BY DEF h
    <3>2. \A i \in DOMAIN h.parts : r.parts[i].name = h.parts[i].name
      BY <2>3, <2>5, <2>8
    <3>3. DOMAIN r.parts = DOMAIN h.parts
      BY <2>5, <2>8
    <3>4. heap' = <<>> => heap = <<>>
      BY <2>1, <2>11, EmptyHeap
    <3> QED
      BY <2>11, <3>1, <3>2, <3>3, <3>4 DEF SameNames
  <2> QED
    BY <2>11, <2>12
<1>3. ASSUME a \notin DOMAIN heap
      PROVE  heap' = heap
  BY <1>1, <1>3 DEF NamesInv, GoodHeap
<1> QED
  BY <1>2, <1>3, NamesKept, HeapKept

-----------------------------------------------------------------------------
(* The programs. *)

LEMMA AppKeepsNames == NamesInv /\ AppStep => NamesInv'
<1> SUFFICES ASSUME NamesInv, AppStep PROVE NamesInv'
  OBVIOUS
<1>1. CASE UNCHANGED importVars
  BY <1>1, HeapKept DEF importVars, ctxVars
<1>2. CASE ImportNextAssembly
  BY <1>2, FromSTEPKeepsNames DEF ImportNextAssembly
<1>3. CASE KeepAssembly \/ ImportFails
  BY <1>3, HeapKept DEF KeepAssembly, ImportFails, LeaveFromSTEP
<1>4. CASE FinishConstruct
  <2>1. CASE UNCHANGED heap
    BY <1>4, <2>1, HeapKept DEF FinishConstruct, ctxVars
  <2>2. CASE heap' = [a \in DOMAIN heap |->
                       IF \E i \in DOMAIN build.assemblies : build.assemblies[i] = a
                       THEN [heap[a] EXCEPT !.owner = "deleted"] ELSE heap[a]]
    <3> DEFINE S == {build.assemblies[i] : i \in DOMAIN build.assemblies}
    <3>1. heap' = [a \in DOMAIN heap |->
                    IF a \in S THEN WithOwner(heap[a], "deleted") ELSE heap[a]]
      BY <2>2, Zenon DEF WithOwner
    <3>2. UNCHANGED <<import, usedNames>>
      BY <1>4 DEF FinishConstruct, ctxVars
    <3> HIDE DEF S
    <3> QED
      BY <3>1, <3>2, DeleteKeepsNames
  <2> QED
    BY <1>4, <2>1, <2>2 DEF FinishConstruct
<1>5. CASE ImportLabel
  BY <1>5, ImportKeepsNames
<1> QED
  BY <1>1, <1>2, <1>3, <1>4, <1>5 DEF AppStep

LEMMA PluginKeepsNames ==
  ASSUME NEW names, NamesInv, PluginStep(names)
  PROVE  NamesInv'
<1>1. CASE UNCHANGED importVars
  BY <1>1, HeapKept DEF importVars, ctxVars
<1>2. CASE CreateStepAssembly
  <2>1. CASE UNCHANGED importVars
    BY <2>1, <1>1
  <2>2. CASE \E map : FromSTEP(compact[1].path, map)
    BY <2>2, FromSTEPKeepsNames
  <2> QED
    BY <1>2, <2>1, <2>2 DEF CreateStepAssembly
<1>3. CASE RegisterAssembly
  <2>1. PICK owner : heap' = [heap EXCEPT ![Current] = WithOwner(heap[Current], owner)]
    BY <1>3 DEF RegisterAssembly, Owned, WithOwner
  <2>2. import' = "none"
    BY <1>3 DEF RegisterAssembly, LeaveFromSTEP
  <2> QED
    BY <2>1, <2>2, OwnerKeepsNames
<1>4. CASE PluginImportFails
  BY <1>4, HeapKept DEF PluginImportFails, LeaveFromSTEP
<1>5. CASE ImportLabel
  BY <1>5, ImportKeepsNames
<1>6. ASSUME NEW name, NEW rules, ApplyRules(name, rules), UNCHANGED <<import, ctxVars>>
      PROVE  NamesInv'
  BY <1>6, HeapKept, ApplyKeepsNames DEF ApplyRules, ctxVars
<1>7. ASSUME NEW name, NEW x, Apply(name, x)
      PROVE  NamesInv'
  <2>1. UNCHANGED <<import, ctxVars>>
    BY <1>7 DEF Apply
  <2>2. CASE UNCHANGED heap
    BY <2>1, <2>2, HeapKept DEF ctxVars
  <2>3. CASE ApplyRules(name, AssignmentRules(x))
    BY <2>1, <2>3, <1>6
  <2> QED
    BY <1>7, <2>2, <2>3 DEF Apply
<1>8. ASSUME NEW name, NEW file, ApplyFile(name, file)
      PROVE  NamesInv'
  <2>1. UNCHANGED <<import, ctxVars>>
    BY <1>8 DEF ApplyFile
  <2>2. CASE UNCHANGED heap
    BY <2>1, <2>2, HeapKept DEF ctxVars
  <2>3. CASE \E rules : ApplyRules(name, rules)
    BY <2>1, <2>3, <1>6
  <2> QED
    BY <1>8, <2>2, <2>3 DEF ApplyFile
<1>9. ASSUME NEW name, Release(name)
      PROVE  NamesInv'
  <2>1. heap' = [heap EXCEPT ![registry[name]] = WithOwner(heap[registry[name]], "user")]
    BY <1>9 DEF Release, WithOwner
  <2>2. UNCHANGED <<import, usedNames>>
    BY <1>9 DEF Release, ctxVars
  <2> QED
    BY <2>1, <2>2, OwnerKeepsNames
<1>10. CASE ExitJob
  <2> DEFINE S == {registry[n] : n \in DOMAIN registry}
  <2>1. heap' = [a \in DOMAIN heap |->
                  IF a \in S THEN WithOwner(heap[a], "deleted") ELSE heap[a]]
    BY <1>10, Zenon DEF ExitJob, WithOwner
  <2>2. UNCHANGED <<import, usedNames>>
    BY <1>10 DEF ExitJob, ctxVars
  <2> HIDE DEF S
  <2> QED
    BY <2>1, <2>2, DeleteKeepsNames
<1>11. CASE CreateStepSolid \/ (\E i \in DOMAIN tgeo : HandleSolid(i)) \/ ConstructGeo
  BY <1>1, <1>11 DEF CreateStepSolid, HandleSolid, ConstructGeo
<1> QED
  BY <1>2, <1>3, <1>4, <1>5, <1>7, <1>8, <1>9, <1>10, <1>11 DEF PluginStep

(* Every step of every program keeps the names. *)
LEMMA NamesStep == NamesInv /\ [Next]_vars => NamesInv'
<1> SUFFICES ASSUME NamesInv, [Next]_vars PROVE NamesInv'
  OBVIOUS
<1>1. CASE AppNext
  BY <1>1, AppKeepsNames DEF AppNext
<1>2. CASE PluginNext
  BY <1>2, PluginKeepsNames DEF PluginNext
<1>3. CASE ToolNext
  BY <1>3, HeapKept DEF ToolNext, importVars, ctxVars
<1>4. CASE UNCHANGED vars
  BY <1>4, HeapKept DEF vars, importVars, ctxVars
<1> QED
  BY <1>1, <1>2, <1>3, <1>4 DEF Next, Over

LEMMA NamesInit == Init => NamesInv
<1> SUFFICES ASSUME Init PROVE NamesInv
  OBVIOUS
<1>1. heap = <<>> /\ import = "none"
  BY DEF Init, Starts, ImportInit
<1>2. heap \in Seq({})
  BY <1>1
<1> QED
  BY <1>1, <1>2 DEF NamesInv, NamesTaken, GoodHeap

(* G4OCCTAssemblyVolume::GetLogicalVolumes() holds every part of the file   *)
(* under a name of its own: MakeUniqueName() never numbers one part so that *)
(* it takes the place of another, for any document, any names and any       *)
(* number of assemblies, in whichever program imports them.                 *)
THEOREM PartsReachable == Spec => []EveryPartReachable
<1>1. NamesInv => EveryPartReachable
  BY DEF NamesInv, GoodHeap, GoodAssembly, Reachable, EveryPartReachable
<1> QED
  BY NamesInit, NamesStep, <1>1, PTL DEF Spec

-----------------------------------------------------------------------------
(* Who owns an assembly. *)

ToolPhases == {"tool", "writeMap", "writeCompact", "written"}
AppPhases  == {"parse", "commands", "construct"}

(* The registry owns what it lists, lists it once, and owns nothing else. *)
RegistryOwns ==
  /\ \A n \in DOMAIN registry :
       registry[n] \in DOMAIN heap /\ heap[registry[n]].owner = "registry"
  /\ \A m, n \in DOMAIN registry : registry[m] = registry[n] => m = n
  /\ \A a \in DOMAIN heap : heap[a].owner = "registry" => \E n \in DOMAIN registry : registry[n] = a

HasVoid(path) ==
  \E l \in DOMAIN Documents[path].labels : Documents[path].labels[l].shape = "void"

LeaksExplained == \A a \in DOMAIN heap : heap[a].owner = "leaked" => HasVoid(heap[a].doc)

(* The import works on the last assembly, and on labels of its document. *)
ImportOwns ==
  /\ import = "walking" =>
       /\ Current \in DOMAIN heap /\ heap[Current].owner = "import"
       /\ heap[Current].doc \in DOMAIN Documents
       /\ \A i \in DOMAIN todo : todo[i].label \in DOMAIN Labels \cup {""}
  /\ import = "walking" => \E U : todo \in Seq(U)
  /\ import = "done" => Current \in DOMAIN heap /\ heap[Current].owner = "caller"

(* Who can own an assembly in each program. *)
PhaseOwners ==
  /\ phase \in ToolPhases => DOMAIN heap = {} /\ import = "none"
  /\ phase \in ToolPhases \cup AppPhases => DOMAIN registry = {}
  /\ phase = "compact" =>
       /\ \A a \in DOMAIN heap :
            heap[a].owner = "registry" \/ (a = Current /\ import # "none")
       /\ import # "none" => compact # <<>> /\ compact[1].plugin = "assembly"
  /\ phase = "user" =>
       /\ import = "none"
       /\ \A a \in DOMAIN heap : heap[a].owner \in {"registry", "user"}

OwnersInv == RegistryOwns /\ LeaksExplained /\ ImportOwns /\ PhaseOwners

-----------------------------------------------------------------------------
(* What the operations on an assembly do to its owner and document. *)

(* A heap with the same assemblies of the same documents and owners. *)
SameOwners(h, g) ==
  /\ Len(g) = Len(h) /\ DOMAIN g = DOMAIN h
  /\ \A a \in DOMAIN h : g[a].doc = h[a].doc /\ g[a].owner = h[a].owner

(* The same, but for the owner of assembly c. *)
OwnerChanged(h, g, c, owner) ==
  /\ Len(g) = Len(h) /\ DOMAIN g = DOMAIN h
  /\ \A a \in DOMAIN h :
       /\ g[a].doc = h[a].doc
       /\ g[a].owner = IF a = c THEN owner ELSE h[a].owner

LEMMA HeapReplaced ==
  ASSUME NEW h, GoodHeap(h), NEW a, NEW r
  PROVE  /\ Len([h EXCEPT ![a] = r]) = Len(h)
         /\ DOMAIN [h EXCEPT ![a] = r] = DOMAIN h
         /\ \A b \in DOMAIN h : [h EXCEPT ![a] = r][b] = IF b = a THEN r ELSE h[b]
<1>1. PICK U : h \in Seq(U)
  BY DEF GoodHeap
<1> QED
  BY <1>1, ReplaceValues

(* A part or a placement more, or other parts, leave both alone. *)
LEMMA PartsOwner ==
  ASSUME NEW r, AssemblyForm(r), NEW ps
  PROVE  [r EXCEPT !.parts = ps].doc = r.doc /\ [r EXCEPT !.parts = ps].owner = r.owner
  BY DEF AssemblyForm

LEMMA AddPartOwner ==
  ASSUME NEW r, AssemblyForm(r), NEW part
  PROVE  /\ AssemblyForm(AddPart(r, part))
         /\ AddPart(r, part).doc = r.doc /\ AddPart(r, part).owner = r.owner
<1> DEFINE ps == Append(r.parts, part)
           vs == Put(r.volumes, part.name, Len(r.parts) + 1)
           q1 == [r EXCEPT !.parts = ps]
           q  == [q1 EXCEPT !.volumes = vs]
<1> HIDE DEF ps, vs
<1>1. r = [doc |-> r.doc, owner |-> r.owner, parts |-> r.parts, volumes |-> r.volumes,
           placed |-> r.placed]
  BY DEF AssemblyForm
<1>2. AddPart(r, part) = q
  BY <1>1 DEF AddPart, ps, vs
<1>3. q1 = [doc |-> r.doc, owner |-> r.owner, parts |-> ps, volumes |-> r.volumes,
            placed |-> r.placed]
  BY <1>1
<1> HIDE DEF q1
<1>4. q = [doc |-> r.doc, owner |-> r.owner, parts |-> ps, volumes |-> vs,
           placed |-> r.placed]
  BY <1>3
<1> QED
  BY <1>2, <1>4 DEF AssemblyForm

LEMMA PlacedOwner ==
  ASSUME NEW r, AssemblyForm(r), NEW part, NEW composed, NEW centroid
  PROVE  /\ AddPlacedVolume(r, part, composed, centroid).doc = r.doc
         /\ AddPlacedVolume(r, part, composed, centroid).owner = r.owner
<1> DEFINE p == Append(r.placed, [part |-> part, trsf |-> composed \o centroid])
<1>1. AddPlacedVolume(r, part, composed, centroid) = [r EXCEPT !.placed = p]
  BY DEF AddPlacedVolume
<1> HIDE DEF p
<1> QED
  BY <1>1 DEF AssemblyForm

LEMMA OwnerOwner ==
  ASSUME NEW r, AssemblyForm(r), NEW owner
  PROVE  WithOwner(r, owner).doc = r.doc /\ WithOwner(r, owner).owner = owner
  BY DEF AssemblyForm, WithOwner

LEMMA ReplacedSame ==
  ASSUME NEW h, GoodHeap(h), NEW a, NEW r,
         a \in DOMAIN h => r.doc = h[a].doc /\ r.owner = h[a].owner
  PROVE  SameOwners(h, [h EXCEPT ![a] = r])
  BY HeapReplaced DEF SameOwners

LEMMA ReplacedOwner ==
  ASSUME NEW h, GoodHeap(h), NEW a, NEW owner
  PROVE  OwnerChanged(h, [h EXCEPT ![a].owner = owner], a, owner)
<1>1. [h EXCEPT ![a].owner = owner] = [h EXCEPT ![a] = WithOwner(h[a], owner)]
  BY DEF WithOwner
<1>2. a \in DOMAIN h => AssemblyForm(h[a])
  BY DEF GoodHeap, GoodAssembly
<1> QED
  BY <1>1, <1>2, HeapReplaced, OwnerOwner DEF OwnerChanged

-----------------------------------------------------------------------------
(* Kinds of steps. *)

(* A step that keeps owners, program and place, within an import or outside. *)
LEMMA SameStep ==
  ASSUME OwnersInv, SameOwners(heap, heap'), ImportOwns',
         UNCHANGED <<phase, registry, compact>>,
         import = "none" <=> import' = "none"
  PROVE  OwnersInv'
<1>1. RegistryOwns' /\ LeaksExplained'
  BY DEF OwnersInv, RegistryOwns, LeaksExplained, HasVoid, SameOwners
<1>2. PhaseOwners'
  BY DEF OwnersInv, PhaseOwners, SameOwners, Current
<1> QED
  BY <1>1, <1>2 DEF OwnersInv

(* The import gives its assembly away. *)
LEMMA ChangeStep ==
  ASSUME OwnersInv, import = "walking", phase \in {"construct", "compact"},
         NEW o \in {"leaked", "caller"}, OwnerChanged(heap, heap', Current, o),
         o = "leaked" => HasVoid(heap[Current].doc),
         import' \in {"threw", "done"}, import' = "done" => o = "caller",
         UNCHANGED <<phase, registry, compact>>
  PROVE  OwnersInv'
<1>1. Current \in DOMAIN heap /\ heap[Current].owner = "import" /\ Current' = Current
  BY DEF OwnersInv, ImportOwns, OwnerChanged, Current
<1>2. RegistryOwns'
  BY <1>1 DEF OwnersInv, RegistryOwns, OwnerChanged
<1>3. LeaksExplained'
  BY <1>1 DEF OwnersInv, LeaksExplained, HasVoid, OwnerChanged
<1>4. ImportOwns'
  BY <1>1 DEF ImportOwns, OwnerChanged
<1>5. PhaseOwners'
  BY <1>1 DEF OwnersInv, PhaseOwners, OwnerChanged, ToolPhases, AppPhases
<1> QED
  BY <1>2, <1>3, <1>4, <1>5 DEF OwnersInv

(* A step that touches neither heap nor registry, and leaves the import as  *)
(* it is or ends it.                                                        *)
LEMMA QuietStep ==
  ASSUME OwnersInv, UNCHANGED <<heap, registry>>, PhaseOwners',
         import' \notin {"walking", "done"} \/ UNCHANGED <<import, todo>>
  PROVE  OwnersInv'
<1>1. RegistryOwns' /\ LeaksExplained'
  BY DEF OwnersInv, RegistryOwns, LeaksExplained, HasVoid
<1>2. ImportOwns'
  BY DEF OwnersInv, ImportOwns, Current, Labels
<1> QED
  BY <1>1, <1>2 DEF OwnersInv

(* FromSTEP() begins. *)
LEMMA FromSTEPKeepsOwners ==
  ASSUME NamesInv, OwnersInv, NEW path, NEW map, FromSTEP(path, map),
         phase \in {"construct", "compact"},
         phase = "compact" => compact # <<>> /\ compact[1].plugin = "assembly",
         UNCHANGED <<phase, registry, compact>>
  PROVE  OwnersInv'
<1>1. CASE FromSTEPFails(path)
  <2>1. PhaseOwners'
    BY <1>1 DEF FromSTEPFails, OwnersInv, PhaseOwners, Current, ToolPhases, AppPhases
  <2> QED
    BY <1>1, <2>1, QuietStep DEF FromSTEPFails
<1>2. CASE BeginFromSTEP(path, map)
  <2> DEFINE new == NewAssembly(path)
  <2>1. heap' = Append(heap, new)
    BY <1>2 DEF BeginFromSTEP
  <2>2. PICK U : heap \in Seq(U)
    BY DEF NamesInv, GoodHeap
  <2>3. new.owner = "import" /\ new.doc = path
    BY DEF NewAssembly
  <2> HIDE DEF new
  <2>4. /\ Len(heap) \in Nat /\ DOMAIN heap = 1 .. Len(heap)
        /\ Current' = Len(heap) + 1 /\ DOMAIN heap' = 1 .. Len(heap) + 1
        /\ \A a \in DOMAIN heap : heap'[a] = heap[a]
        /\ heap'[Current'] = new
        /\ heap' \in Seq(U \cup {new})
    BY <2>1, <2>2, AppendValues DEF Current
  <2>5. import = "none" /\ import' = "walking"
    BY <1>2 DEF BeginFromSTEP
  <2>6. RegistryOwns'
    BY <2>3, <2>4 DEF OwnersInv, RegistryOwns
  <2>7. LeaksExplained'
    BY <2>3, <2>4 DEF OwnersInv, LeaksExplained, HasVoid
  <2>8. ImportOwns'
    <3>1. path \in DOMAIN Documents
      BY <1>2 DEF BeginFromSTEP, Readable
    <3>2. Documents[path].free \in Seq(DOMAIN Documents[path].labels)
      BY <3>1, DocumentsAssumption
    <3>3. todo' = [i \in DOMAIN Documents[path].free |->
                    [label |-> Documents[path].free[i], trsf |-> Identity]]
      BY <1>2 DEF BeginFromSTEP
    <3> DEFINE free == Documents[path].free
    <3>4. /\ Len(free) \in Nat /\ DOMAIN free = 1 .. Len(free)
          /\ \A i \in DOMAIN free : free[i] \in DOMAIN Documents[path].labels
      BY <3>2
    <3>5. /\ DOMAIN todo' = DOMAIN free
          /\ \A i \in DOMAIN free : todo'[i].label = free[i]
      BY <3>3
    <3>6. Labels' = Documents[path].labels
      BY <2>3, <2>4 DEF Labels
    <3> DEFINE call(i) == [label |-> free[i], trsf |-> Identity]
               V == {call(i) : i \in 1 .. Len(free)}
    <3>7. todo' \in Seq(V)
      <4>1. todo' = [i \in 1 .. Len(free) |-> call(i)]
        BY <3>3, <3>4
      <4>2. \A i \in 1 .. Len(free) : call(i) \in V
        OBVIOUS
      <4> HIDE DEF free, call, V
      <4>3. todo' \in [1 .. Len(free) -> V]
        BY <4>1, <4>2
      <4> QED
        BY <3>4, <4>3
    <3> HIDE DEF V
    <3>8. \E W : todo' \in Seq(W)
      BY <3>7
    <3>9. \A i \in DOMAIN todo' : todo'[i].label \in DOMAIN Labels'
      BY <3>4, <3>5, <3>6
    <3> HIDE DEF free
    <3>10. /\ Current' \in DOMAIN heap' /\ heap'[Current'].owner = "import"
           /\ heap'[Current'].doc \in DOMAIN Documents
      BY <2>3, <2>4, <3>1
    <3>11. import' # "done"
      BY <2>5
    <3> QED
      BY <3>8, <3>9, <3>10, <3>11 DEF ImportOwns
  <2>9. PhaseOwners'
    BY <2>4, <2>5 DEF OwnersInv, PhaseOwners, ToolPhases, AppPhases
  <2> QED
    BY <2>6, <2>7, <2>8, <2>9 DEF OwnersInv
<1> QED
  BY <1>1, <1>2 DEF FromSTEP

-----------------------------------------------------------------------------
(* The steps of ImportLabel(). *)

(* The next call is about a label of the document, or none; the calls after *)
(* it as well.                                                              *)
LEMMA Calls ==
  ASSUME OwnersInv, import = "walking", todo # <<>>
  PROVE  /\ Here.label \in DOMAIN Labels \cup {""}
         /\ \E U : Tail(todo) \in Seq(U)
         /\ \A i \in DOMAIN Tail(todo) : Tail(todo)[i].label \in DOMAIN Labels \cup {""}
<1>1. PICK U : todo \in Seq(U)
  BY DEF OwnersInv, ImportOwns
<1>2. \A i \in DOMAIN todo : todo[i].label \in DOMAIN Labels \cup {""}
  BY DEF OwnersInv, ImportOwns
<1>3. Tail(todo) \in Seq(U) /\ 1 \in DOMAIN todo /\ Head(todo) = todo[1]
  BY <1>1
<1>4. \A i \in DOMAIN Tail(todo) : i + 1 \in DOMAIN todo /\ Tail(todo)[i] = todo[i + 1]
  BY <1>1
<1> QED
  BY <1>2, <1>3, <1>4 DEF Here

(* A call has returned: the owners are the same. *)
LEMMA NextCall ==
  ASSUME OwnersInv, import = "walking", todo # <<>>, SameOwners(heap, heap'),
         todo' = Tail(todo), UNCHANGED <<import, phase, registry, compact>>
  PROVE  OwnersInv'
<1>1. Current' = Current /\ Current \in DOMAIN heap
  BY DEF SameOwners, Current, OwnersInv, ImportOwns
<1>2. Labels' = Labels
  BY <1>1 DEF SameOwners, Labels
<1>3. ImportOwns'
  BY <1>1, <1>2, Calls DEF OwnersInv, ImportOwns, SameOwners
<1> QED
  BY <1>3, SameStep

LEMMA ImportKeepsOwners ==
  ASSUME NamesInv, OwnersInv, ImportLabel, phase \in {"construct", "compact"},
         UNCHANGED <<phase, registry, compact>>
  PROVE  OwnersInv'
<1>0. /\ GoodHeap(heap)
      /\ \A a \in DOMAIN heap : AssemblyForm(heap[a])
  BY DEF NamesInv, GoodHeap, GoodAssembly
<1>1. CASE ImportAssemblyLabel
  <2> DEFINE comps == Label.comps
             call(i) == [label |-> comps[i].ref, trsf |-> Compose(Here.trsf, comps[i].loc)]
             deeper == [i \in DOMAIN comps |-> call(i)]
  <2>1. /\ import = "walking" /\ todo # <<>> /\ Here.label # "" /\ todo' = deeper \o Tail(todo)
        /\ UNCHANGED <<heap, import>>
    BY <1>1 DEF ImportAssemblyLabel, Kind
  <2>2. /\ Here.label \in DOMAIN Labels /\ heap[Current].doc \in DOMAIN Documents
        /\ Current \in DOMAIN heap /\ heap[Current].owner = "import"
    BY <2>1, Calls DEF OwnersInv, ImportOwns
  <2>3. /\ Len(comps) \in Nat /\ DOMAIN comps = 1 .. Len(comps)
        /\ \A i \in DOMAIN comps : comps[i].ref \in DOMAIN Labels \cup {""}
    BY <2>2, DocumentsAssumption DEF Label, Labels
  <2> DEFINE V == {call(i) : i \in DOMAIN comps}
  <2>4. deeper \in Seq(V) /\ DOMAIN deeper = 1 .. Len(deeper) /\ Len(deeper) \in Nat
    <3>1. \A i \in DOMAIN comps : call(i) \in V
      OBVIOUS
    <3>2. deeper = [i \in 1 .. Len(comps) |-> call(i)]
      BY <2>3
    <3> HIDE DEF V, call, comps, deeper
    <3>3. deeper \in [1 .. Len(comps) -> V]
      BY <2>3, <3>1, <3>2
    <3>4. Len(comps) \in Nat
      BY <2>3
    <3>5. deeper \in Seq(V)
      BY <3>3, <3>4
    <3> QED
      BY <3>5
  <2>5. \A i \in DOMAIN deeper : deeper[i].label \in DOMAIN Labels \cup {""}
    BY <2>3
  <2>6. PICK U : Tail(todo) \in Seq(U)
    BY <2>1, Calls
  <2> HIDE DEF deeper, V, comps
  <2>7. /\ \E W : todo' \in Seq(W)
        /\ \A i \in DOMAIN todo' : todo'[i].label \in DOMAIN Labels \cup {""}
    <3> DEFINE t == Tail(todo)
    <3>1. \A i \in DOMAIN t : t[i].label \in DOMAIN Labels \cup {""}
      BY <2>1, Calls
    <3>2. t \in Seq(U) /\ todo' = deeper \o t
      BY <2>1, <2>6
    <3> HIDE DEF t
    <3>3. deeper \in Seq(V \cup U) /\ t \in Seq(V \cup U)
      BY <2>4, <3>2
    <3>4. todo' \in Seq(V \cup U)
      BY <3>2, <3>3
    <3>5. ASSUME NEW i \in DOMAIN todo'
          PROVE  todo'[i] = IF i \in DOMAIN deeper THEN deeper[i] ELSE t[i - Len(deeper)]
      BY <2>4, <3>2
    <3>6. ASSUME NEW i \in DOMAIN todo', i \notin DOMAIN deeper
          PROVE  i - Len(deeper) \in DOMAIN t
      BY <2>4, <3>2, <3>6
    <3>7. ASSUME NEW i \in DOMAIN todo'
          PROVE  todo'[i].label \in DOMAIN Labels \cup {""}
      BY <2>5, <3>1, <3>5, <3>6
    <3> QED
      BY <3>4, <3>7
  <2>8. Current' = Current /\ Labels' = Labels
    BY <2>1 DEF Current, Labels
  <2>9. ImportOwns'
    BY <2>1, <2>2, <2>7, <2>8 DEF ImportOwns
  <2>10. SameOwners(heap, heap')
    BY <2>1 DEF SameOwners
  <2> QED
    BY <2>1, <2>9, <2>10, SameStep
<1>2. CASE ReusePrototype
  <2> DEFINE r == AddPlacedVolume(heap[Current], protos[Here.label].part, Here.trsf,
                                  protos[Here.label].centroid)
  <2>1. heap' = [heap EXCEPT ![Current] = r]
    BY <1>2 DEF ReusePrototype
  <2>2. Current \in DOMAIN heap => r.doc = heap[Current].doc /\ r.owner = heap[Current].owner
    BY <1>0, PlacedOwner
  <2> HIDE DEF r
  <2>3. SameOwners(heap, heap')
    BY <1>0, <2>1, <2>2, ReplacedSame
  <2> QED
    BY <1>2, <2>3, NextCall DEF ReusePrototype
<1>3. CASE SkipLabel
  <2>1. SameOwners(heap, heap')
    BY <1>3 DEF SkipLabel, SameOwners
  <2> QED
    BY <1>3, <2>1, NextCall DEF SkipLabel
<1>4. CASE MaterialMissing
  <2>1. UNCHANGED heap /\ import = "walking" /\ import' = "aborted"
    BY <1>4 DEF MaterialMissing, AbortImport, FirstEncounter
  <2>2. SameOwners(heap, heap') /\ ImportOwns'
    BY <2>1 DEF SameOwners, ImportOwns
  <2> QED
    BY <2>1, <2>2, SameStep
<1>5. CASE BuildPart
  <2> DEFINE h == heap[Current]
             new == Len(h.parts) + 1
             part(unique) == [name |-> unique, raw |-> RawName(Label), label |-> Here.label,
                              material |-> materialMap[MaterialKey(Label)], sd |-> NoDetector]
             with(unique) == AddPart(h, part(unique))
             r(unique) == AddPlacedVolume(with(unique), new, Here.trsf, Centroid(Here.label))
  <2>1. PICK unique : heap' = [heap EXCEPT ![Current] = r(unique)]
    BY <1>5 DEF BuildPart
  <2>2. Current \in DOMAIN heap => r(unique).doc = h.doc /\ r(unique).owner = h.owner
    <3> SUFFICES ASSUME Current \in DOMAIN heap
                 PROVE  r(unique).doc = h.doc /\ r(unique).owner = h.owner
      OBVIOUS
    <3>1. AssemblyForm(h)
      BY <1>0
    <3> HIDE DEF h, part
    <3>2. /\ AssemblyForm(with(unique))
          /\ with(unique).doc = h.doc /\ with(unique).owner = h.owner
      BY <3>1, AddPartOwner
    <3> HIDE DEF with, new
    <3> QED
      BY <3>2, PlacedOwner
  <2> HIDE DEF r
  <2>3. SameOwners(heap, heap')
    <3>1. SameOwners(heap, [heap EXCEPT ![Current] = r(unique)])
      BY <1>0, <2>2, ReplacedSame
    <3> QED
      BY <2>1, <3>1
  <2> QED
    BY <1>5, <2>3, NextCall DEF BuildPart, FirstEncounter
<1>6. CASE BuildPartThrows
  <2>1. /\ heap' = [heap EXCEPT ![Current].owner = "leaked"]
        /\ import = "walking" /\ import' = "threw" /\ todo # <<>>
        /\ Here.label # "" /\ Label.shape = "void"
    BY <1>6 DEF BuildPartThrows, Owned, FirstEncounter, Kind
  <2>2. HasVoid(heap[Current].doc)
    BY <2>1, Calls DEF HasVoid, Label, Labels
  <2>3. OwnerChanged(heap, heap', Current, "leaked")
    BY <1>0, <2>1, ReplacedOwner
  <2> QED
    BY <2>1, <2>2, <2>3, ChangeStep
<1>7. CASE EndWalk
  <2>1. /\ heap' = [heap EXCEPT ![Current].owner = "caller"]
        /\ import = "walking" /\ import' = "done"
    BY <1>7 DEF EndWalk, Owned
  <2>2. OwnerChanged(heap, heap', Current, "caller")
    BY <1>0, <2>1, ReplacedOwner
  <2> QED
    BY <2>1, <2>2, ChangeStep
<1> QED
  BY <1>1, <1>2, <1>3, <1>4, <1>5, <1>6, <1>7 DEF ImportLabel

-----------------------------------------------------------------------------
(* The g4occt application, whose assemblies the registry never sees. *)

LEMMA AppQuiet ==
  ASSUME OwnersInv, phase \in AppPhases, phase' \in AppPhases \cup {"exit", "dead"},
         UNCHANGED <<heap, registry>>,
         import' \notin {"walking", "done"} \/ UNCHANGED <<import, todo>>
  PROVE  OwnersInv'
<1>1. PhaseOwners'
  BY DEF OwnersInv, PhaseOwners, ToolPhases, AppPhases
<1> QED
  BY <1>1, QuietStep

(* Some assemblies are deleted that the registry does not list. *)
LEMMA AppDeletes ==
  ASSUME NamesInv, OwnersInv, phase \in AppPhases, phase' \in AppPhases, NEW S,
         heap' = [a \in DOMAIN heap |->
                   IF a \in S THEN WithOwner(heap[a], "deleted") ELSE heap[a]],
         import = "none", UNCHANGED <<import, registry>>
  PROVE  OwnersInv'
<1>1. /\ DOMAIN heap' = DOMAIN heap
      /\ \A a \in DOMAIN heap :
           /\ heap'[a].doc = heap[a].doc
           /\ heap'[a].owner = IF a \in S THEN "deleted" ELSE heap[a].owner
  <2>1. \A a \in DOMAIN heap : AssemblyForm(heap[a])
    BY DEF NamesInv, GoodHeap, GoodAssembly
  <2> QED
    BY <2>1, OwnerOwner
<1>2. DOMAIN registry = {}
  BY DEF OwnersInv, PhaseOwners
<1>3. RegistryOwns' /\ LeaksExplained'
  BY <1>1, <1>2 DEF OwnersInv, RegistryOwns, LeaksExplained, HasVoid
<1>4. ImportOwns'
  BY DEF ImportOwns
<1>5. PhaseOwners'
  BY <1>2 DEF PhaseOwners, ToolPhases, AppPhases
<1> QED
  BY <1>3, <1>4, <1>5 DEF OwnersInv

LEMMA AppKeepsOwners == NamesInv /\ OwnersInv /\ AppNext => OwnersInv'
<1> SUFFICES ASSUME NamesInv, OwnersInv, AppNext PROVE OwnersInv'
  OBVIOUS
<1> USE DEF AppPhases
<1>0. AppStep /\ UNCHANGED <<registry, compact>>
  BY DEF AppNext, pluginVars
<1>1. ASSUME phase \in AppPhases, phase' \in AppPhases \cup {"exit", "dead"},
             UNCHANGED importVars
      PROVE  OwnersInv'
  BY <1>0, <1>1, AppQuiet DEF importVars, ctxVars
<1>2. CASE ImportNextAssembly
  <2>1. phase = "construct" /\ UNCHANGED phase
    BY <1>2 DEF ImportNextAssembly, SolidsBuilt, MaterialsRead, processVars
  <2>2. PICK path, map : FromSTEP(path, map)
    BY <1>2 DEF ImportNextAssembly
  <2> QED
    BY <1>0, <2>1, <2>2, FromSTEPKeepsOwners
<1>3. CASE KeepAssembly \/ ImportFails
  <2>1. phase = "construct" /\ phase' \in {"construct", "dead"} /\ import' = "none"
    BY <1>3 DEF KeepAssembly, ImportFails, LeaveFromSTEP, processVars, Die
  <2>2. UNCHANGED heap
    BY <1>3 DEF KeepAssembly, ImportFails
  <2> QED
    BY <1>0, <2>1, <2>2, AppQuiet
<1>4. CASE FinishConstruct
  <2>0. phase = "construct" /\ import = "none" /\ UNCHANGED <<import, todo>>
    BY <1>4 DEF FinishConstruct, SolidsBuilt, MaterialsRead, ctxVars
  <2>1. CASE UNCHANGED heap /\ phase' = "dead"
    BY <1>0, <2>0, <2>1, AppQuiet
  <2>2. CASE /\ heap' = [a \in DOMAIN heap |->
                          IF \E i \in DOMAIN build.assemblies : build.assemblies[i] = a
                          THEN [heap[a] EXCEPT !.owner = "deleted"] ELSE heap[a]]
             /\ phase' = "commands"
    <3> DEFINE S == {build.assemblies[i] : i \in DOMAIN build.assemblies}
    <3>1. heap' = [a \in DOMAIN heap |->
                    IF a \in S THEN WithOwner(heap[a], "deleted") ELSE heap[a]]
      BY <2>2, Zenon DEF WithOwner
    <3> HIDE DEF S
    <3> QED
      BY <1>0, <2>0, <2>2, <3>1, AppDeletes
  <2> QED
    BY <1>4, <2>1, <2>2 DEF FinishConstruct, Die
<1>5. CASE phase = "construct" /\ ImportLabel /\ UNCHANGED <<processVars, appVars>>
  BY <1>0, <1>5, ImportKeepsOwners DEF processVars
<1>6. CASE /\ ParseOption \/ ParseFile \/ ParseError \/ EndOfArguments
           /\ UNCHANGED importVars
  <2>1. phase = "parse" /\ phase' \in {"parse", "dead", "commands"}
    BY <1>6 DEF ParseOption, ParseFile, ParseError, EndOfArguments, processVars, Die
  <2> QED
    BY <1>1, <1>6, <2>1
<1>7. CASE (QueueCommand \/ Initialize \/ Quit) /\ UNCHANGED importVars
  <2>1. phase = "commands" /\ phase' \in {"commands", "construct", "exit"}
    BY <1>7 DEF QueueCommand, Initialize, Quit, Command, processVars
  <2> QED
    BY <1>1, <1>7, <2>1
<1>8. CASE (ReadNextMaterialFile \/ BuildNextSolid) /\ UNCHANGED importVars
  <2>1. phase = "construct" /\ phase' \in {"construct", "dead"}
    BY <1>8 DEF ReadNextMaterialFile, BuildNextSolid, MaterialsRead, Die
  <2> QED
    BY <1>1, <1>8, <2>1
<1>9. CASE /\ \/ RecordCommand \/ BeamOn
              \/ phase = "commands" /\ EventLoop /\ UNCHANGED <<processVars, appVars>>
           /\ UNCHANGED importVars
  <2>1. phase = "commands" /\ phase' = "commands"
    BY <1>9 DEF RecordCommand, BeamOn, Command, processVars
  <2> QED
    BY <1>1, <1>9, <2>1
<1> QED
  BY <1>0, <1>2, <1>3, <1>4, <1>5, <1>6, <1>7, <1>8, <1>9 DEF AppStep

-----------------------------------------------------------------------------
(* A DD4hep job. *)

(* Register() of the assembly that FromSTEP() has returned. *)
LEMMA RegisterKeepsOwners ==
  ASSUME NamesInv, OwnersInv, RegisterAssembly
  PROVE  OwnersInv'
<1>1. /\ phase = "compact" /\ import = "done" /\ import' = "none"
      /\ Current \in DOMAIN heap /\ heap[Current].owner = "caller"
  BY DEF RegisterAssembly, Building, LeaveFromSTEP, OwnersInv, ImportOwns
<1>2. \A a \in DOMAIN heap : a # Current => heap[a].owner = "registry"
  BY <1>1 DEF OwnersInv, PhaseOwners
<1>3. GoodHeap(heap)
  BY DEF NamesInv
<1>4. ImportOwns'
  BY <1>1 DEF ImportOwns
<1>5. \A n \in DOMAIN registry : registry[n] # Current
  BY <1>1 DEF OwnersInv, RegistryOwns
<1> DEFINE name == compact[1].name
<1>6. CASE /\ name \notin DOMAIN registry
           /\ registry' = Put(registry, name, Current)
           /\ heap' = Owned("registry")
           /\ UNCHANGED phase
  <2>1. OwnerChanged(heap, heap', Current, "registry")
    BY <1>3, <1>6, ReplacedOwner DEF Owned
  <2>2. /\ DOMAIN registry' = DOMAIN registry \cup {name} /\ registry'[name] = Current
        /\ \A n \in DOMAIN registry : registry'[n] = registry[n]
    BY <1>6 DEF Put
  <2> HIDE DEF name
  <2>3. RegistryOwns'
    BY <1>1, <1>2, <1>5, <2>1, <2>2 DEF OwnersInv, RegistryOwns, OwnerChanged
  <2>4. LeaksExplained'
    BY <2>1 DEF OwnersInv, LeaksExplained, HasVoid, OwnerChanged
  <2>5. PhaseOwners'
    BY <1>1, <1>2, <1>6, <2>1 DEF PhaseOwners, OwnerChanged, ToolPhases, AppPhases
  <2> QED
    BY <1>4, <2>3, <2>4, <2>5 DEF OwnersInv
<1>7. CASE heap' = Owned("deleted") /\ phase' = "dead" /\ UNCHANGED registry
  <2>1. OwnerChanged(heap, heap', Current, "deleted")
    BY <1>3, <1>7, ReplacedOwner DEF Owned
  <2>2. RegistryOwns'
    BY <1>1, <1>5, <1>7, <2>1 DEF OwnersInv, RegistryOwns, OwnerChanged
  <2>3. LeaksExplained'
    BY <2>1 DEF OwnersInv, LeaksExplained, HasVoid, OwnerChanged
  <2>4. PhaseOwners'
    BY <1>7 DEF PhaseOwners, ToolPhases, AppPhases
  <2> QED
    BY <1>4, <2>2, <2>3, <2>4 DEF OwnersInv
<1> QED
  BY <1>6, <1>7 DEF RegisterAssembly, Die

LEMMA ApplyOwners ==
  ASSUME NamesInv, NEW a, NEW rules, ApplySDMap(a, rules)
  PROVE  SameOwners(heap, heap')
<1> DEFINE old == heap[a].parts
           ps == [i \in DOMAIN old |->
                   IF \E n \in Assigned(a, rules) : heap[a].volumes[n] = i
                   THEN [old[i] EXCEPT !.sd = ResolveDetector(rules,
                           CHOOSE n \in Assigned(a, rules) : heap[a].volumes[n] = i)]
                   ELSE old[i]]
           r == [heap[a] EXCEPT !.parts = ps]
<1>1. heap' = [heap EXCEPT ![a] = r]
  BY DEF ApplySDMap
<1>2. GoodHeap(heap) /\ (a \in DOMAIN heap => AssemblyForm(heap[a]))
  BY DEF NamesInv, GoodHeap, GoodAssembly
<1> HIDE DEF ps
<1>3. a \in DOMAIN heap => r.doc = heap[a].doc /\ r.owner = heap[a].owner
  BY <1>2, PartsOwner
<1> HIDE DEF r
<1> QED
  BY <1>1, <1>2, <1>3, ReplacedSame

(* A step of user code that leaves owners and registry alone. *)
LEMMA UserStep ==
  ASSUME OwnersInv, phase = "user", phase' \in {"user", "dead"}, SameOwners(heap, heap'),
         UNCHANGED <<import, registry>>
  PROVE  OwnersInv'
<1>1. import' = "none"
  BY DEF OwnersInv, PhaseOwners
<1>2. RegistryOwns' /\ LeaksExplained'
  BY DEF OwnersInv, RegistryOwns, LeaksExplained, HasVoid, SameOwners
<1>3. ImportOwns'
  BY <1>1 DEF ImportOwns
<1>4. PhaseOwners'
  BY <1>1 DEF OwnersInv, PhaseOwners, SameOwners, ToolPhases, AppPhases
<1> QED
  BY <1>2, <1>3, <1>4 DEF OwnersInv

LEMMA ReleaseKeepsOwners ==
  ASSUME NamesInv, OwnersInv, NEW name, Release(name)
  PROVE  OwnersInv'
<1> DEFINE c == registry[name]
<1>1. /\ phase = "user" /\ phase' = "user" /\ import = "none" /\ import' = "none"
      /\ name \in DOMAIN registry
      /\ registry' = [n \in DOMAIN registry \ {name} |-> registry[n]]
  BY DEF Release, UserCall, processVars, OwnersInv, PhaseOwners
<1>2. OwnerChanged(heap, heap', c, "user")
  BY ReplacedOwner DEF Release, NamesInv
<1>3. RegistryOwns'
  BY <1>1, <1>2 DEF OwnersInv, RegistryOwns, OwnerChanged
<1>4. LeaksExplained'
  BY <1>2 DEF OwnersInv, LeaksExplained, HasVoid, OwnerChanged
<1>5. ImportOwns' /\ PhaseOwners'
  BY <1>1, <1>2 DEF OwnersInv, ImportOwns, PhaseOwners, OwnerChanged, ToolPhases, AppPhases
<1> QED
  BY <1>3, <1>4, <1>5 DEF OwnersInv

(* The registry's destructor. *)
LEMMA ExitKeepsOwners ==
  ASSUME NamesInv, OwnersInv, ExitJob
  PROVE  OwnersInv'
<1>1. /\ phase' = "exit" /\ import' = "none" /\ DOMAIN registry' = {}
  BY DEF ExitJob, OwnersInv, PhaseOwners, EmptyMap
<1>2. heap' = [a \in DOMAIN heap |->
                IF \E n \in DOMAIN registry : registry[n] = a
                THEN WithOwner(heap[a], "deleted") ELSE heap[a]]
  BY Zenon DEF ExitJob, WithOwner
<1>3. \A a \in DOMAIN heap : AssemblyForm(heap[a])
  BY DEF NamesInv, GoodHeap, GoodAssembly
<1>4. /\ DOMAIN heap' = DOMAIN heap
      /\ \A a \in DOMAIN heap :
           /\ heap'[a].doc = heap[a].doc
           /\ heap'[a].owner = IF \E n \in DOMAIN registry : registry[n] = a
                               THEN "deleted" ELSE heap[a].owner
  BY <1>2, <1>3, OwnerOwner
<1>5. RegistryOwns'
  BY <1>1, <1>4 DEF OwnersInv, RegistryOwns
<1>6. LeaksExplained'
  BY <1>4 DEF OwnersInv, LeaksExplained, HasVoid
<1>7. ImportOwns' /\ PhaseOwners'
  BY <1>1 DEF ImportOwns, PhaseOwners, ToolPhases, AppPhases
<1> QED
  BY <1>5, <1>6, <1>7 DEF OwnersInv

LEMMA PluginKeepsOwners ==
  ASSUME NEW names, NamesInv, OwnersInv, PluginStep(names)
  PROVE  OwnersInv'
<1>1. CASE CreateStepAssembly
  <2>1. /\ phase = "compact" /\ import = "none" /\ UNCHANGED <<registry, compact>>
        /\ compact # <<>> /\ compact[1].plugin = "assembly"
    BY <1>1 DEF CreateStepAssembly, Building, pluginVars
  <2>2. CASE UNCHANGED phase /\ \E map : FromSTEP(compact[1].path, map)
    BY <2>1, <2>2, FromSTEPKeepsOwners
  <2>3. CASE phase' = "dead" /\ UNCHANGED importVars
    <3>1. PhaseOwners'
      BY <2>3 DEF PhaseOwners, ToolPhases, AppPhases
    <3> QED
      BY <2>1, <2>3, <3>1, QuietStep DEF importVars, ctxVars
  <2> QED
    BY <1>1, <2>2, <2>3 DEF CreateStepAssembly, Die
<1>2. CASE RegisterAssembly
  BY <1>2, RegisterKeepsOwners
<1>3. CASE PluginImportFails
  <2>1. phase' = "dead" /\ import' = "none" /\ UNCHANGED <<heap, registry>>
    BY <1>3 DEF PluginImportFails, Die, LeaveFromSTEP, pluginVars
  <2>2. PhaseOwners'
    BY <2>1 DEF PhaseOwners, ToolPhases, AppPhases
  <2> QED
    BY <2>1, <2>2, QuietStep
<1>4. CASE phase = "compact" /\ ImportLabel /\ UNCHANGED <<processVars, pluginVars>>
  BY <1>4, ImportKeepsOwners DEF processVars, pluginVars
<1>5. CASE CreateStepSolid \/ ConstructGeo \/ \E i \in DOMAIN tgeo : HandleSolid(i)
  <2>1. phase = "compact" /\ UNCHANGED <<heap, import, todo, registry>>
    BY <1>5 DEF CreateStepSolid, ConstructGeo, HandleSolid, Building, importVars, ctxVars, pluginVars
  <2>2. import = "none"
    BY <1>5 DEF CreateStepSolid, ConstructGeo, HandleSolid, Building, OwnersInv, PhaseOwners
  <2>3. phase' \in {"compact", "user", "dead"}
    BY <1>5, <2>1 DEF CreateStepSolid, ConstructGeo, HandleSolid, processVars, Die
  <2>4. PhaseOwners'
    BY <2>1, <2>2, <2>3 DEF OwnersInv, PhaseOwners, Current, ToolPhases, AppPhases
  <2> QED
    BY <2>1, <2>4, QuietStep
<1>6. ASSUME NEW name, NEW rules, ApplyRules(name, rules)
      PROVE  SameOwners(heap, heap')
  BY <1>6, ApplyOwners DEF ApplyRules, SameOwners
<1>7. ASSUME NEW name, NEW x, Apply(name, x)
      PROVE  OwnersInv'
  <2>1. phase = "user" /\ phase' \in {"user", "dead"} /\ UNCHANGED <<import, registry>>
    BY <1>7 DEF Apply, UserCall, Die
  <2>2. SameOwners(heap, heap')
    BY <1>6, <1>7 DEF Apply, SameOwners
  <2> QED
    BY <2>1, <2>2, UserStep
<1>8. ASSUME NEW name, NEW file, ApplyFile(name, file)
      PROVE  OwnersInv'
  <2>1. phase = "user" /\ phase' \in {"user", "dead"} /\ UNCHANGED <<import, registry>>
    BY <1>8 DEF ApplyFile, UserCall, Die
  <2>2. SameOwners(heap, heap')
    BY <1>6, <1>8 DEF ApplyFile, SameOwners
  <2> QED
    BY <2>1, <2>2, UserStep
<1> QED
  BY <1>1, <1>2, <1>3, <1>4, <1>5, <1>7, <1>8, ReleaseKeepsOwners, ExitKeepsOwners DEF PluginStep

-----------------------------------------------------------------------------
(* The tool imports nothing; its files may start a job. *)
LEMMA ToolKeepsOwners == OwnersInv /\ ToolNext => OwnersInv'
<1> SUFFICES ASSUME OwnersInv, ToolNext PROVE OwnersInv'
  OBVIOUS
<1>1. UNCHANGED <<heap, import, todo>> /\ UNCHANGED registry
  BY DEF ToolNext, ToolStep, StartJob, importVars, ctxVars, pluginVars
<1>2. phase \in ToolPhases /\ phase' \in ToolPhases \cup {"compact", "exit", "dead"}
  <2> USE DEF ToolPhases, Die
  <2>1. CASE ToolOption \/ ToolFile \/ ToolHelp \/ ToolUsage \/ ToolRead
    BY <2>1 DEF ToolOption, ToolFile, ToolHelp, ToolUsage, ToolRead, Arguments
  <2>2. CASE WriteMaterialMap \/ WriteCompact
    BY <2>2 DEF WriteMaterialMap, WriteCompact, ToolWrite
  <2>3. CASE \/ \E path, entry, material : FillIn(path, entry, material)
             \/ \E line : RunToolAgain(line)
    BY <2>3 DEF FillIn, RunToolAgain, processVars
  <2>4. CASE StartJob
    BY <2>4 DEF StartJob
  <2> QED
    BY <2>1, <2>2, <2>3, <2>4 DEF ToolNext, ToolStep
<1>3. PhaseOwners'
  BY <1>1, <1>2 DEF OwnersInv, PhaseOwners, ToolPhases, AppPhases
<1> QED
  BY <1>1, <1>3, QuietStep

LEMMA OwnersStep == NamesInv /\ OwnersInv /\ [Next]_vars => OwnersInv'
<1> SUFFICES ASSUME NamesInv, OwnersInv, [Next]_vars PROVE OwnersInv'
  OBVIOUS
<1>1. CASE UNCHANGED vars
  <2>1. UNCHANGED <<heap, import, todo, registry>> /\ UNCHANGED <<phase, compact>>
    BY <1>1 DEF vars, importVars, ctxVars, processVars, pluginVars
  <2>2. PhaseOwners'
    BY <2>1 DEF OwnersInv, PhaseOwners, Current
  <2> QED
    BY <2>1, <2>2, QuietStep
<1> QED
  BY <1>1, AppKeepsOwners, PluginKeepsOwners, ToolKeepsOwners DEF Next, PluginNext, Over

LEMMA OwnersInit == Init => OwnersInv
<1> SUFFICES ASSUME Init PROVE OwnersInv
  OBVIOUS
<1>0. /\ heap = <<>> /\ import = "none" /\ registry = <<>>
      /\ phase = "parse" \/ phase = "compact" \/ phase = "tool"
  BY DEF Init, Starts, ImportInit, PluginInit, EmptyMap
<1>1. /\ DOMAIN heap = {} /\ import = "none" /\ DOMAIN registry = {}
      /\ phase \in {"parse", "compact", "tool"}
  BY <1>0
<1>2. RegistryOwns /\ LeaksExplained /\ ImportOwns
  BY <1>1 DEF RegistryOwns, LeaksExplained, ImportOwns
<1>3. PhaseOwners
  BY <1>1 DEF PhaseOwners
<1> QED
  BY <1>2, <1>3 DEF OwnersInv

(* What the invariant says of the registry in terms of OneOwner. *)
LEMMA OwnersAreOne == OwnersInv => OneOwner
<1> SUFFICES ASSUME OwnersInv PROVE OneOwner
  OBVIOUS
<1>1. ASSUME NEW a \in DOMAIN heap, heap[a].owner = "registry"
      PROVE  Cardinality({n \in DOMAIN registry : registry[n] = a}) = 1
  <2>1. PICK n \in DOMAIN registry : registry[n] = a
    BY <1>1 DEF OwnersInv, RegistryOwns
  <2>2. {m \in DOMAIN registry : registry[m] = a} = {n}
    BY <2>1 DEF OwnersInv, RegistryOwns
  <2> QED
    BY <2>2, FS_Singleton
<1> QED
  BY <1>1 DEF OwnersInv, RegistryOwns, LeaksExplained, HasVoid, PhaseOwners, OneOwner

(* An assembly is owned once: by the plugin's pointer while it is imported, *)
(* by the registry under one name, or by the user code it was released to;  *)
(* a name that is taken deletes the newcomer and nothing else, the          *)
(* registry's destructor deletes what is still listed, and only a part      *)
(* whose solid cannot be built leaks an assembly.                           *)
THEOREM AssemblyHasOneOwner == Spec => []OneOwner
<1>1. NamesInv /\ OwnersInv /\ [Next]_vars => (NamesInv /\ OwnersInv)'
  BY NamesStep, OwnersStep
<1> QED
  BY NamesInit, OwnersInit, <1>1, OwnersAreOne, PTL DEF Spec

-----------------------------------------------------------------------------
(* The shape of the state: what a step does to the assemblies. *)

(* The same assemblies but for their owners. *)
SameParts(h, g) ==
  /\ Len(g) = Len(h) /\ DOMAIN g = DOMAIN h
  /\ \A a \in DOMAIN h :
       /\ g[a].doc = h[a].doc /\ g[a].parts = h[a].parts
       /\ g[a].volumes = h[a].volumes /\ g[a].placed = h[a].placed
       /\ g[a].owner = h[a].owner \/ g[a].owner \in Owners

(* A change of owner changes nothing else.                                  *)
LEMMA OwnerOnly ==
  ASSUME NEW r, AssemblyForm(r), NEW owner
  PROVE  /\ WithOwner(r, owner).doc = r.doc /\ WithOwner(r, owner).parts = r.parts
         /\ WithOwner(r, owner).volumes = r.volumes /\ WithOwner(r, owner).placed = r.placed
         /\ WithOwner(r, owner).owner = owner
  BY DEF AssemblyForm, WithOwner

LEMMA OwnerSameParts ==
  ASSUME NEW h, GoodHeap(h), NEW a, NEW owner \in Owners
  PROVE  SameParts(h, [h EXCEPT ![a].owner = owner])
<1>1. [h EXCEPT ![a].owner = owner] = [h EXCEPT ![a] = WithOwner(h[a], owner)]
  BY DEF WithOwner
<1>2. a \in DOMAIN h => AssemblyForm(h[a])
  BY DEF GoodHeap, GoodAssembly
<1> QED
  BY <1>1, <1>2, HeapReplaced, OwnerOnly DEF SameParts

(* Nor does the deletion of several assemblies.                             *)
LEMMA DeletedSameParts ==
  ASSUME NEW h, GoodHeap(h), NEW S,
         NEW g, g = [a \in DOMAIN h |-> IF a \in S THEN WithOwner(h[a], "deleted") ELSE h[a]]
  PROVE  SameParts(h, g)
<1>1. /\ Len(h) \in Nat /\ DOMAIN h = 1 .. Len(h)
      /\ \A a \in DOMAIN h : AssemblyForm(h[a])
  BY EmptyHeap DEF GoodHeap, GoodAssembly
<1>2. DOMAIN g = DOMAIN h /\ Len(g) = Len(h)
  <2> DEFINE val(a) == IF a \in S THEN WithOwner(h[a], "deleted") ELSE h[a]
             V == {val(a) : a \in DOMAIN h}
  <2>1. \A a \in DOMAIN h : val(a) \in V
    OBVIOUS
  <2>2. g = [a \in 1 .. Len(h) |-> val(a)]
    BY <1>1
  <2> HIDE DEF val, V
  <2>3. g \in [1 .. Len(h) -> V]
    BY <1>1, <2>1, <2>2
  <2>4. g \in Seq(V)
    BY <1>1, <2>3
  <2> QED
    BY <1>1, <2>3, <2>4
<1>3. ASSUME NEW a \in DOMAIN h
      PROVE  /\ g[a].doc = h[a].doc /\ g[a].parts = h[a].parts
             /\ g[a].volumes = h[a].volumes /\ g[a].placed = h[a].placed
             /\ g[a].owner = h[a].owner \/ g[a].owner \in Owners
  BY <1>1, OwnerOnly DEF Owners
<1> QED
  BY <1>2, <1>3 DEF SameParts

(* A step leaves the assemblies alone but for their owners, or begins one,  *)
(* adds a part or a placement to the last, or assigns detectors.            *)
LEMMA HeapSteps ==
  ASSUME NamesInv, [Next]_vars
  PROVE  \/ SameParts(heap, heap')
         \/ phase \in {"construct", "compact"} /\ (BuildPart \/ ReusePrototype)
         \/ \E path, map : BeginFromSTEP(path, map)
         \/ \E a, rules : phase = "user" /\ ApplySDMap(a, rules)
<1>0. GoodHeap(heap)
  BY DEF NamesInv
<1>1. CASE UNCHANGED heap
  BY <1>1 DEF SameParts
<1>2. CASE ImportLabel /\ phase \in {"construct", "compact"}
  <2>1. CASE ImportAssemblyLabel \/ SkipLabel \/ MaterialMissing
    BY <1>1, <2>1 DEF ImportAssemblyLabel, SkipLabel, MaterialMissing, AbortImport
  <2>2. CASE BuildPartThrows \/ EndWalk
    <3>1. PICK owner \in Owners : heap' = [heap EXCEPT ![Current].owner = owner]
      BY <2>2 DEF BuildPartThrows, EndWalk, Owned, Owners
    <3> QED
      BY <1>0, <3>1, OwnerSameParts
  <2> QED
    BY <1>2, <2>1, <2>2 DEF ImportLabel
<1>3. ASSUME NEW path, NEW map, FromSTEP(path, map)
      PROVE  UNCHANGED heap \/ BeginFromSTEP(path, map)
  BY <1>3 DEF FromSTEP, FromSTEPFails
<1>4. CASE AppNext
  <2>1. CASE UNCHANGED importVars \/ KeepAssembly \/ ImportFails
    BY <1>1, <2>1 DEF importVars, KeepAssembly, ImportFails
  <2>2. CASE ImportNextAssembly
    BY <1>1, <1>3, <2>2 DEF ImportNextAssembly
  <2>3. CASE FinishConstruct
    <3>1. CASE ~UNCHANGED heap
      <4> DEFINE S == {build.assemblies[i] : i \in DOMAIN build.assemblies}
      <4>1. heap' = [a \in DOMAIN heap |->
                       IF \E i \in DOMAIN build.assemblies : build.assemblies[i] = a
                       THEN [heap[a] EXCEPT !.owner = "deleted"] ELSE heap[a]]
        BY <2>3, <3>1, Zenon DEF FinishConstruct
      <4>2. heap' = [a \in DOMAIN heap |->
                      IF a \in S THEN WithOwner(heap[a], "deleted") ELSE heap[a]]
        BY <4>1, Zenon DEF WithOwner
      <4> HIDE DEF S
      <4> QED
        BY <1>0, <4>2, DeletedSameParts
    <3> QED
      BY <1>1, <3>1
  <2>4. CASE phase = "construct" /\ ImportLabel
    BY <1>2, <2>4
  <2> QED
    BY <1>4, <2>1, <2>2, <2>3, <2>4 DEF AppNext, AppStep
<1>5. CASE PluginNext
  <2>1. CASE CreateStepAssembly
    <3>1. UNCHANGED importVars \/ \E map : FromSTEP(compact[1].path, map)
      BY <2>1 DEF CreateStepAssembly
    <3> QED
      BY <1>1, <1>3, <3>1 DEF importVars
  <2>2. CASE RegisterAssembly
    <3>1. PICK owner \in Owners : heap' = [heap EXCEPT ![Current].owner = owner]
      BY <2>2 DEF RegisterAssembly, Owned, Owners
    <3> QED
      BY <1>0, <3>1, OwnerSameParts
  <2>3. CASE PluginImportFails \/ CreateStepSolid \/ (\E i \in DOMAIN tgeo : HandleSolid(i)) \/ ConstructGeo
    BY <1>1, <2>3 DEF PluginImportFails, CreateStepSolid, HandleSolid, ConstructGeo, importVars
  <2>4. CASE phase = "compact" /\ ImportLabel
    BY <1>2, <2>4
  <2>5. ASSUME NEW name, NEW x, Apply(name, x)
        PROVE  UNCHANGED heap \/ \E a, rules : phase = "user" /\ ApplySDMap(a, rules)
    <3>1. phase = "user"
      BY <2>5 DEF Apply, UserCall
    <3> QED
      BY <2>5, <3>1 DEF Apply, ApplyRules
  <2>6. ASSUME NEW name, NEW file, ApplyFile(name, file)
        PROVE  UNCHANGED heap \/ \E a, rules : phase = "user" /\ ApplySDMap(a, rules)
    <3>1. phase = "user"
      BY <2>6 DEF ApplyFile, UserCall
    <3> QED
      BY <2>6, <3>1 DEF ApplyFile, ApplyRules
  <2>7. ASSUME NEW name, Release(name)
        PROVE  SameParts(heap, heap')
    BY <1>0, <2>7, OwnerSameParts DEF Release, Owners
  <2>8. CASE ExitJob
    <3> DEFINE S == {registry[n] : n \in DOMAIN registry}
    <3>1. heap' = [a \in DOMAIN heap |->
                    IF a \in S THEN WithOwner(heap[a], "deleted") ELSE heap[a]]
      BY <2>8, Zenon DEF ExitJob, WithOwner
    <3> HIDE DEF S
    <3> QED
      BY <1>0, <3>1, DeletedSameParts
  <2> QED
    BY <1>1, <1>5, <2>1, <2>2, <2>3, <2>4, <2>5, <2>6, <2>7, <2>8 DEF PluginNext, PluginStep
<1>6. CASE ToolNext \/ UNCHANGED vars
  BY <1>1, <1>6 DEF ToolNext, vars, importVars
<1> QED
  BY <1>4, <1>5, <1>6 DEF Next, Over

-----------------------------------------------------------------------------
(* The types of the assemblies and of the prototypes of an import. *)

TypedAssembly(r) ==
  /\ r.doc \in DOMAIN Documents /\ r.owner \in Owners
  /\ \E U : r.placed \in Seq(U)
  /\ \A i \in DOMAIN r.placed : r.placed[i].part \in DOMAIN r.parts

HeapTypes == \A a \in DOMAIN heap : TypedAssembly(heap[a])

ProtoTypes ==
  /\ import = "none" => DOMAIN protos = {}
  /\ \A l \in DOMAIN protos : protos[l].part \in DOMAIN heap[Current].parts

(* A placement more of a part that is there. *)
Placement(part, composed, centroid) == [part |-> part, trsf |-> composed \o centroid]

(* What AddPlacedVolume() makes of an assembly, field by field.             *)
LEMMA PlacedFields ==
  ASSUME NEW r, AssemblyForm(r), NEW part, NEW composed, NEW centroid
  PROVE  /\ AssemblyForm(AddPlacedVolume(r, part, composed, centroid))
         /\ AddPlacedVolume(r, part, composed, centroid).doc = r.doc
         /\ AddPlacedVolume(r, part, composed, centroid).owner = r.owner
         /\ AddPlacedVolume(r, part, composed, centroid).parts = r.parts
         /\ AddPlacedVolume(r, part, composed, centroid).volumes = r.volumes
         /\ AddPlacedVolume(r, part, composed, centroid).placed =
              Append(r.placed, Placement(part, composed, centroid))
<1> DEFINE p == Append(r.placed, [part |-> part, trsf |-> composed \o centroid])
           q == AddPlacedVolume(r, part, composed, centroid)
<1>1. q = [r EXCEPT !.placed = p]
  BY DEF AddPlacedVolume
<1> HIDE DEF p, q
<1>2. q = [doc |-> r.doc, owner |-> r.owner, parts |-> r.parts, volumes |-> r.volumes, placed |-> p]
  BY <1>1 DEF AssemblyForm
<1>3. /\ AssemblyForm(q) /\ q.doc = r.doc /\ q.owner = r.owner
      /\ q.parts = r.parts /\ q.volumes = r.volumes /\ q.placed = p
  BY <1>2 DEF AssemblyForm
<1> QED
  BY <1>3 DEF p, q, Placement

(* A part more, under its name. *)
LEMMA PartFields ==
  ASSUME NEW r, AssemblyForm(r), NEW part
  PROVE  /\ AssemblyForm(AddPart(r, part))
         /\ AddPart(r, part).doc = r.doc /\ AddPart(r, part).owner = r.owner
         /\ AddPart(r, part).placed = r.placed
         /\ AddPart(r, part).parts = Append(r.parts, part)
         /\ AddPart(r, part).volumes = Put(r.volumes, part.name, Len(r.parts) + 1)
<1> DEFINE ps == Append(r.parts, part)
           vs == Put(r.volumes, part.name, Len(r.parts) + 1)
           q1 == [r EXCEPT !.parts = ps]
           q  == AddPart(r, part)
<1> HIDE DEF ps, vs
<1>1. r = [doc |-> r.doc, owner |-> r.owner, parts |-> r.parts, volumes |-> r.volumes,
           placed |-> r.placed]
  BY DEF AssemblyForm
<1>2. q = [q1 EXCEPT !.volumes = vs]
  BY <1>1 DEF AddPart, ps, vs
<1>3. q1 = [doc |-> r.doc, owner |-> r.owner, parts |-> ps, volumes |-> r.volumes,
            placed |-> r.placed]
  BY <1>1
<1> HIDE DEF q1, q
<1>4. q = [doc |-> r.doc, owner |-> r.owner, parts |-> ps, volumes |-> vs,
           placed |-> r.placed]
  BY <1>2, <1>3
<1>5. /\ AssemblyForm(q) /\ q.doc = r.doc /\ q.owner = r.owner /\ q.placed = r.placed
      /\ q.parts = ps /\ q.volumes = vs
  BY <1>4 DEF AssemblyForm
<1> QED
  BY <1>5 DEF ps, vs, q

(* The new part of BuildPart, and the assembly with it. *)
NewPart(unique) ==
  [name |-> unique, raw |-> RawName(Label), label |-> Here.label,
   material |-> materialMap[MaterialKey(Label)], sd |-> NoDetector]

(* What a first encounter adds to the assembly and to the memo.             *)
LEMMA BuildPartFields ==
  ASSUME NamesInv, OwnersInv, BuildPart
  PROVE  \E unique \in Candidates(RawName(Label)) :
           LET new == Len(heap[Current].parts) + 1
               q   == heap'[Current]
           IN  /\ MakeUniqueName(RawName(Label), unique)
               /\ Current \in DOMAIN heap /\ Len(heap') = Len(heap) /\ DOMAIN heap' = DOMAIN heap
               /\ \A a \in DOMAIN heap : a # Current => heap'[a] = heap[a]
               /\ q.doc = heap[Current].doc /\ q.owner = heap[Current].owner
               /\ q.parts = Append(heap[Current].parts, NewPart(unique))
               /\ q.volumes = Put(heap[Current].volumes, unique, new)
               /\ q.placed = Append(heap[Current].placed,
                                     Placement(new, Here.trsf, Centroid(Here.label)))
               /\ protos' = Put(protos, Here.label,
                                [part |-> new, centroid |-> Centroid(Here.label)])
<1> DEFINE h   == heap[Current]
           new == Len(h.parts) + 1
           r(unique) == AddPlacedVolume(AddPart(h, NewPart(unique)), new, Here.trsf,
                                        Centroid(Here.label))
<1>1. PICK unique \in Candidates(RawName(Label)) :
             /\ MakeUniqueName(RawName(Label), unique)
             /\ heap' = [heap EXCEPT ![Current] = r(unique)]
             /\ protos' = Put(protos, Here.label,
                              [part |-> new, centroid |-> Centroid(Here.label)])
  BY DEF BuildPart, NewPart
<1>2. Current \in DOMAIN heap /\ GoodHeap(heap) /\ AssemblyForm(h)
  BY DEF BuildPart, FirstEncounter, OwnersInv, ImportOwns, NamesInv, GoodHeap, GoodAssembly
<1> DEFINE w == AddPart(h, NewPart(unique))
<1>3. /\ AssemblyForm(w) /\ w.doc = h.doc /\ w.owner = h.owner /\ w.placed = h.placed
      /\ w.parts = Append(h.parts, NewPart(unique))
      /\ w.volumes = Put(h.volumes, unique, new)
  <2>1. NewPart(unique).name = unique
    BY DEF NewPart
  <2> HIDE DEF h
  <2> QED
    BY <1>2, <2>1, PartFields
<1> HIDE DEF w, new
<1> DEFINE q == AddPlacedVolume(w, new, Here.trsf, Centroid(Here.label))
<1>4. q = r(unique)
  BY DEF w
<1>5. /\ q.doc = w.doc /\ q.owner = w.owner /\ q.parts = w.parts /\ q.volumes = w.volumes
      /\ q.placed = Append(w.placed, Placement(new, Here.trsf, Centroid(Here.label)))
  <2> HIDE DEF w, new
  <2> QED
    BY <1>3, PlacedFields
<1> HIDE DEF q
<1>6. /\ Len(heap') = Len(heap) /\ DOMAIN heap' = DOMAIN heap
      /\ heap'[Current] = q
      /\ \A a \in DOMAIN heap : a # Current => heap'[a] = heap[a]
  <2>1. heap' = [heap EXCEPT ![Current] = q]
    BY <1>1, <1>4
  <2> QED
    BY <1>2, <2>1, HeapReplaced
<1> QED
  BY <1>1, <1>2, <1>3, <1>5, <1>6 DEF new

(* What the reuse of a prototype adds.                                      *)
LEMMA ReuseFields ==
  ASSUME NamesInv, OwnersInv, ReusePrototype
  PROVE  LET q == heap'[Current] IN
         /\ Current \in DOMAIN heap /\ Len(heap') = Len(heap) /\ DOMAIN heap' = DOMAIN heap
         /\ \A a \in DOMAIN heap : a # Current => heap'[a] = heap[a]
         /\ q.doc = heap[Current].doc /\ q.owner = heap[Current].owner
         /\ q.parts = heap[Current].parts /\ q.volumes = heap[Current].volumes
         /\ q.placed = Append(heap[Current].placed,
                              Placement(protos[Here.label].part, Here.trsf,
                                        protos[Here.label].centroid))
<1> DEFINE r == AddPlacedVolume(heap[Current], protos[Here.label].part, Here.trsf,
                                protos[Here.label].centroid)
<1>1. heap' = [heap EXCEPT ![Current] = r]
  BY DEF ReusePrototype
<1>2. Current \in DOMAIN heap /\ GoodHeap(heap) /\ AssemblyForm(heap[Current])
  BY DEF ReusePrototype, OwnersInv, ImportOwns, NamesInv, GoodHeap, GoodAssembly
<1>3. /\ r.doc = heap[Current].doc /\ r.owner = heap[Current].owner
      /\ r.parts = heap[Current].parts /\ r.volumes = heap[Current].volumes
      /\ r.placed = Append(heap[Current].placed,
                           Placement(protos[Here.label].part, Here.trsf,
                                     protos[Here.label].centroid))
  BY <1>2, PlacedFields
<1> HIDE DEF r
<1> QED
  BY <1>1, <1>2, <1>3, HeapReplaced

(* ApplySDMap() changes the detectors of the parts, and nothing else. *)
Hit(a, rules, i) == \E n \in Assigned(a, rules) : heap[a].volumes[n] = i

HitDetector(a, rules, i) ==
  ResolveDetector(rules, CHOOSE n \in Assigned(a, rules) : heap[a].volumes[n] = i)

LEMMA ApplyFields ==
  ASSUME NamesInv, NEW a, NEW rules, ApplySDMap(a, rules)
  PROVE  /\ Len(heap') = Len(heap) /\ DOMAIN heap' = DOMAIN heap
         /\ \A b \in DOMAIN heap :
              /\ b # a => heap'[b] = heap[b]
              /\ heap'[b].doc = heap[b].doc /\ heap'[b].owner = heap[b].owner
              /\ heap'[b].volumes = heap[b].volumes /\ heap'[b].placed = heap[b].placed
              /\ DOMAIN heap'[b].parts = DOMAIN heap[b].parts
              /\ \A i \in DOMAIN heap[b].parts :
                   /\ heap'[b].parts[i].name = heap[b].parts[i].name
                   /\ heap'[b].parts[i].raw = heap[b].parts[i].raw
                   /\ heap'[b].parts[i].label = heap[b].parts[i].label
                   /\ heap'[b].parts[i].material = heap[b].parts[i].material
                   /\ b = a => heap'[b].parts[i].sd = IF Hit(a, rules, i)
                                 THEN HitDetector(a, rules, i) ELSE heap[b].parts[i].sd
<1> DEFINE h == heap[a]
           hit(i) == Hit(a, rules, i)
           det(i) == HitDetector(a, rules, i)
           part(i) == IF hit(i) THEN [h.parts[i] EXCEPT !.sd = det(i)] ELSE h.parts[i]
           ps == [i \in DOMAIN h.parts |-> part(i)]
           r == [h EXCEPT !.parts = ps]
<1>1. heap' = [heap EXCEPT ![a] = r]
  BY DEF ApplySDMap, Hit, HitDetector
<1>2. /\ Len(heap') = Len(heap) /\ DOMAIN heap' = DOMAIN heap
      /\ \A b \in DOMAIN heap : heap'[b] = IF b = a THEN r ELSE heap[b]
  <2> HIDE DEF r
  <2> QED
    BY <1>1, HeapReplaced DEF NamesInv
<1>3. ASSUME a \in DOMAIN heap
      PROVE  /\ r.doc = h.doc /\ r.owner = h.owner /\ r.volumes = h.volumes /\ r.placed = h.placed
             /\ DOMAIN r.parts = DOMAIN h.parts
             /\ \A i \in DOMAIN h.parts :
                  /\ r.parts[i].name = h.parts[i].name /\ r.parts[i].raw = h.parts[i].raw
                  /\ r.parts[i].label = h.parts[i].label
                  /\ r.parts[i].material = h.parts[i].material
                  /\ r.parts[i].sd = IF hit(i) THEN det(i) ELSE h.parts[i].sd
  <2>1. AssemblyForm(h) /\ \A i \in DOMAIN h.parts : PartForm(h.parts[i])
    BY <1>3 DEF NamesInv, GoodHeap, GoodAssembly
  <2>2. ASSUME NEW i \in DOMAIN h.parts
        PROVE  /\ part(i).name = h.parts[i].name /\ part(i).raw = h.parts[i].raw
               /\ part(i).label = h.parts[i].label /\ part(i).material = h.parts[i].material
               /\ part(i).sd = IF hit(i) THEN det(i) ELSE h.parts[i].sd
    <3> DEFINE old == h.parts[i]
               new == [old EXCEPT !.sd = det(i)]
    <3>1. old = [name |-> old.name, raw |-> old.raw, label |-> old.label,
                 material |-> old.material, sd |-> old.sd]
      BY <2>1 DEF PartForm
    <3>2. part(i) = IF hit(i) THEN new ELSE old
      OBVIOUS
    <3> HIDE DEF old, hit, det, part
    <3>3. new = [name |-> old.name, raw |-> old.raw, label |-> old.label,
                 material |-> old.material, sd |-> det(i)]
      BY <3>1
    <3> HIDE DEF new
    <3>4. /\ new.name = old.name /\ new.raw = old.raw /\ new.label = old.label
          /\ new.material = old.material /\ new.sd = det(i)
      BY <3>3
    <3>5. /\ part(i).name = old.name /\ part(i).raw = old.raw
          /\ part(i).label = old.label /\ part(i).material = old.material
          /\ part(i).sd = IF hit(i) THEN det(i) ELSE old.sd
      BY <3>2, <3>4, Zenon
    <3> QED
      BY <3>5 DEF old
  <2> HIDE DEF part
  <2>3. DOMAIN ps = DOMAIN h.parts /\ \A i \in DOMAIN h.parts : ps[i] = part(i)
    OBVIOUS
  <2> HIDE DEF ps
  <2>4. /\ r.doc = h.doc /\ r.owner = h.owner /\ r.volumes = h.volumes /\ r.placed = h.placed
        /\ r.parts = ps
    <3> HIDE DEF h
    <3> QED
      BY <2>1 DEF AssemblyForm
  <2> HIDE DEF r, h, hit, det
  <2> QED
    BY <2>2, <2>3, <2>4
<1> HIDE DEF r, hit, det
<1>4. \A b \in DOMAIN heap : b = a => heap'[b] = r /\ heap[b] = h
  BY <1>2
<1> HIDE DEF h
<1> QED
  BY <1>2, <1>3, <1>4 DEF hit, det

(* The types hold on: only the last assembly grows, and only at its end.    *)
LEMMA HeapTypesStep ==
  ASSUME NamesInv, OwnersInv, HeapTypes, ProtoTypes, [Next]_vars
  PROVE  HeapTypes'
<1>0. /\ GoodHeap(heap)
      /\ \A a \in DOMAIN heap : \E U : heap[a].parts \in Seq(U)
  BY DEF NamesInv, GoodHeap, GoodAssembly
<1>1. CASE SameParts(heap, heap')
  BY <1>1 DEF SameParts, HeapTypes, TypedAssembly
<1>2. CASE BuildPart
  <2> DEFINE c == heap[Current]
             q == heap'[Current]
             new == Len(c.parts) + 1
             place == Placement(new, Here.trsf, Centroid(Here.label))
  <2>1. PICK unique :
          /\ Current \in DOMAIN heap /\ DOMAIN heap' = DOMAIN heap
          /\ \A a \in DOMAIN heap : a # Current => heap'[a] = heap[a]
          /\ q.doc = c.doc /\ q.owner = c.owner
          /\ q.parts = Append(c.parts, NewPart(unique))
          /\ q.placed = Append(c.placed, place)
    BY <1>2, BuildPartFields
  <2>2. PICK U : c.parts \in Seq(U)
    BY <1>0, <2>1
  <2>3. PICK V : c.placed \in Seq(V)
    BY <2>1 DEF HeapTypes, TypedAssembly
  <2>4. /\ DOMAIN q.parts = 1 .. Len(c.parts) + 1 /\ DOMAIN c.parts = 1 .. Len(c.parts)
        /\ Len(c.parts) \in Nat
    BY <2>1, <2>2, AppendValues
  <2>5. place.part = new
    BY DEF Placement
  <2> HIDE DEF place
  <2>6. /\ q.placed \in Seq(V \cup {place})
        /\ \A i \in DOMAIN q.placed : q.placed[i] = place
                                      \/ (i \in DOMAIN c.placed /\ q.placed[i] = c.placed[i])
    <3>1. /\ Append(c.placed, place) \in Seq(V \cup {place})
          /\ Len(c.placed) \in Nat /\ DOMAIN c.placed = 1 .. Len(c.placed)
          /\ DOMAIN Append(c.placed, place) = 1 .. Len(c.placed) + 1
          /\ \A i \in 1 .. Len(c.placed) : Append(c.placed, place)[i] = c.placed[i]
          /\ Append(c.placed, place)[Len(c.placed) + 1] = place
      BY <2>3, AppendValues
    <3> HIDE DEF c
    <3> QED
      BY <2>1, <3>1
  <2>7. \A i \in DOMAIN q.placed : q.placed[i].part \in DOMAIN q.parts
    BY <2>1, <2>4, <2>5, <2>6 DEF HeapTypes, TypedAssembly
  <2>8. TypedAssembly(q)
    BY <2>1, <2>6, <2>7 DEF HeapTypes, TypedAssembly
  <2> QED
    BY <2>1, <2>8 DEF HeapTypes
<1>3. CASE ReusePrototype
  <2> DEFINE c == heap[Current]
             q == heap'[Current]
             place == Placement(protos[Here.label].part, Here.trsf, protos[Here.label].centroid)
  <2>1. /\ Current \in DOMAIN heap /\ DOMAIN heap' = DOMAIN heap
        /\ \A a \in DOMAIN heap : a # Current => heap'[a] = heap[a]
        /\ q.doc = c.doc /\ q.owner = c.owner /\ q.parts = c.parts
        /\ q.placed = Append(c.placed, place)
    BY <1>3, ReuseFields
  <2>2. PICK V : c.placed \in Seq(V)
    BY <2>1 DEF HeapTypes, TypedAssembly
  <2>3. place.part \in DOMAIN c.parts
    BY <1>3 DEF Placement, ReusePrototype, ProtoTypes
  <2> HIDE DEF place
  <2>4. /\ q.placed \in Seq(V \cup {place})
        /\ \A i \in DOMAIN q.placed : q.placed[i] = place
                                      \/ (i \in DOMAIN c.placed /\ q.placed[i] = c.placed[i])
    <3>1. /\ Append(c.placed, place) \in Seq(V \cup {place})
          /\ Len(c.placed) \in Nat /\ DOMAIN c.placed = 1 .. Len(c.placed)
          /\ DOMAIN Append(c.placed, place) = 1 .. Len(c.placed) + 1
          /\ \A i \in 1 .. Len(c.placed) : Append(c.placed, place)[i] = c.placed[i]
          /\ Append(c.placed, place)[Len(c.placed) + 1] = place
      BY <2>2, AppendValues
    <3> HIDE DEF c
    <3> QED
      BY <2>1, <3>1
  <2>5. TypedAssembly(q)
    BY <2>1, <2>3, <2>4 DEF HeapTypes, TypedAssembly
  <2> QED
    BY <2>1, <2>5 DEF HeapTypes
<1>4. ASSUME NEW path, NEW map, BeginFromSTEP(path, map)
      PROVE  HeapTypes'
  <2> DEFINE new == NewAssembly(path)
  <2>1. PICK U : heap \in Seq(U)
    BY <1>0 DEF GoodHeap
  <2>2. heap' = Append(heap, new) /\ path \in DOMAIN Documents
    BY <1>4 DEF BeginFromSTEP, Readable
  <2>3. TypedAssembly(new)
    <3>1. new.placed = <<>> /\ <<>> \in Seq({}) /\ new.doc = path /\ new.owner = "import"
      BY DEF NewAssembly
    <3>2. DOMAIN new.placed = {}
      BY <3>1
    <3> QED
      BY <2>2, <3>1, <3>2 DEF TypedAssembly, Owners
  <2> HIDE DEF new
  <2>4. /\ DOMAIN heap' = 1 .. Len(heap) + 1 /\ DOMAIN heap = 1 .. Len(heap) /\ Len(heap) \in Nat
        /\ \A a \in DOMAIN heap : heap'[a] = heap[a]
        /\ heap'[Len(heap) + 1] = new
    BY <2>1, <2>2, AppendValues
  <2> QED
    BY <2>3, <2>4 DEF HeapTypes
<1>5. ASSUME NEW a, NEW rules, ApplySDMap(a, rules)
      PROVE  HeapTypes'
  BY <1>5, ApplyFields DEF HeapTypes, TypedAssembly
<1> QED
  BY <1>1, <1>2, <1>3, <1>4, <1>5, HeapSteps

-----------------------------------------------------------------------------
(* Which program does what to the context of the import. *)
LEMMA ContextSteps ==
  ASSUME OwnersInv, [Next]_vars
  PROVE  \/ UNCHANGED <<import, ctxVars>> /\ (UNCHANGED heap \/ import = "none")
         \/ LeaveFromSTEP
         \/ ImportLabel /\ phase \in {"construct", "compact"}
         \/ \E path, map : FromSTEP(path, map)
<1>1. CASE AppNext
  BY <1>1 DEF AppNext, AppStep, importVars, ImportNextAssembly, KeepAssembly, ImportFails,
              FinishConstruct
<1>2. CASE PluginNext
  <2>1. CASE CreateStepAssembly \/ RegisterAssembly \/ PluginImportFails \/ CreateStepSolid
             \/ (\E i \in DOMAIN tgeo : HandleSolid(i)) \/ ConstructGeo
    BY <2>1 DEF CreateStepAssembly, RegisterAssembly, PluginImportFails, CreateStepSolid,
                HandleSolid, ConstructGeo, importVars
  <2>2. CASE phase = "compact" /\ ImportLabel
    BY <2>2
  <2>3. phase = "user" => import = "none"
    BY DEF OwnersInv, PhaseOwners
  <2>4. ASSUME NEW name, NEW x, Apply(name, x) \/ ApplyFile(name, x) \/ Release(name)
        PROVE  UNCHANGED <<import, ctxVars>> /\ import = "none"
    BY <2>3, <2>4 DEF Apply, ApplyFile, Release, UserCall
  <2>5. CASE ExitJob
    BY <2>3, <2>5 DEF ExitJob
  <2> QED
    BY <1>2, <2>1, <2>2, <2>4, <2>5 DEF PluginNext, PluginStep
<1>3. CASE ToolNext \/ UNCHANGED vars
  BY <1>3 DEF ToolNext, vars, importVars
<1> QED
  BY <1>1, <1>2, <1>3 DEF Next, Over

(* A prototype is a part of the assembly that is being imported.            *)
LEMMA ProtoTypesStep ==
  ASSUME NamesInv, OwnersInv, ProtoTypes, [Next]_vars
  PROVE  ProtoTypes'
<1>0. /\ GoodHeap(heap)
      /\ \A a \in DOMAIN heap : \E U : heap[a].parts \in Seq(U)
  BY DEF NamesInv, GoodHeap, GoodAssembly
<1>1. CASE UNCHANGED <<import, ctxVars>> /\ (UNCHANGED heap \/ import = "none")
  BY <1>1 DEF ctxVars, ProtoTypes, Current
<1>2. CASE LeaveFromSTEP
  BY <1>2 DEF LeaveFromSTEP, ProtoTypes, EmptyMap
<1>3. ASSUME NEW path, NEW map, FromSTEP(path, map)
      PROVE  ProtoTypes'
  BY <1>3 DEF FromSTEP, FromSTEPFails, BeginFromSTEP, ProtoTypes, EmptyMap, ctxVars
<1>4. CASE BuildPart
  <2> DEFINE n == Len(heap[Current].parts)
             proto == [part |-> n + 1, centroid |-> Centroid(Here.label)]
  <2>1. PICK unique :
          /\ Current \in DOMAIN heap /\ Len(heap') = Len(heap)
          /\ heap'[Current].parts = Append(heap[Current].parts, NewPart(unique))
          /\ protos' = Put(protos, Here.label, proto)
    BY <1>4, BuildPartFields
  <2>2. DOMAIN heap'[Current].parts = 1 .. n + 1 /\ DOMAIN heap[Current].parts = 1 .. n /\ n \in Nat
    BY <1>0, <2>1, AppendValues
  <2>3. proto.part = n + 1
    OBVIOUS
  <2> HIDE DEF proto, n
  <2>4. \A l \in DOMAIN protos' :
          protos'[l] = proto \/ (l \in DOMAIN protos /\ protos'[l] = protos[l])
    BY <2>1 DEF Put
  <2>5. Current' = Current /\ import' = "walking"
    BY <1>4, <2>1 DEF BuildPart, FirstEncounter, Current
  <2>6. \A l \in DOMAIN protos' : protos'[l].part \in 1 .. n + 1
    BY <2>2, <2>3, <2>4 DEF ProtoTypes
  <2> QED
    BY <2>2, <2>5, <2>6 DEF ProtoTypes
<1>5. CASE ReusePrototype
  BY <1>5, ReuseFields DEF ReusePrototype, ProtoTypes, Current
<1>6. CASE ImportAssemblyLabel \/ SkipLabel \/ MaterialMissing
  BY <1>6 DEF ImportAssemblyLabel, SkipLabel, MaterialMissing, FirstEncounter, AbortImport, ctxVars,
              ProtoTypes, Current
<1>7. CASE BuildPartThrows \/ EndWalk
  <2>1. PICK owner \in Owners : heap' = [heap EXCEPT ![Current].owner = owner]
    BY <1>7 DEF BuildPartThrows, EndWalk, Owned, Owners
  <2>2. SameParts(heap, heap')
    BY <1>0, <2>1, OwnerSameParts
  <2>3. import = "walking" /\ import' # "none" /\ UNCHANGED protos
    BY <1>7 DEF BuildPartThrows, EndWalk, FirstEncounter, ctxVars
  <2>4. Current \in DOMAIN heap
    BY <2>3 DEF OwnersInv, ImportOwns
  <2> QED
    BY <2>2, <2>3, <2>4 DEF ProtoTypes, SameParts, Current
<1> QED
  BY <1>1, <1>2, <1>3, <1>4, <1>5, <1>6, <1>7, ContextSteps DEF ImportLabel

-----------------------------------------------------------------------------
(* The process. *)

(* The locals of Construct(); an import begins once files and solids are done. *)
BuildForm ==
  /\ build = [map |-> build.map, materials |-> build.materials, solids |-> build.solids,
              assemblies |-> build.assemblies, bounds |-> build.bounds]
  /\ \E U : build.materials \in Seq(U)
  /\ \E U : build.solids \in Seq(U)

ProcessInv ==
  /\ phase \in Phases
  /\ phase = "dead" <=> fault # ""
  /\ import # "none" => phase \in {"construct", "compact"}
  /\ phase = "construct" /\ import # "none" => SolidsBuilt
  /\ beam.in # "nothing" => phase = "commands" /\ world # NoWorld

(* The locals keep their form, and what is built is a list that grows.      *)
LEMMA BuildFormStep ==
  ASSUME BuildForm, [Next]_vars
  PROVE  BuildForm'
<1> DEFINE Form(b) == /\ b = [map |-> b.map, materials |-> b.materials, solids |-> b.solids,
                              assemblies |-> b.assemblies, bounds |-> b.bounds]
                      /\ \E U : b.materials \in Seq(U)
                      /\ \E U : b.solids \in Seq(U)
<1>1. CASE UNCHANGED build
  BY <1>1 DEF BuildForm
<1>2. CASE Initialize
  <2>1. <<>> \in Seq({})
    OBVIOUS
  <2>2. Form(NewBuild)
    BY <2>1 DEF NewBuild
  <2> QED
    BY <1>2, <2>2 DEF Initialize, BuildForm
<1>3. CASE ReadNextMaterialFile /\ ~UNCHANGED build
  <2>1. PICK path, map : build' = [build EXCEPT !.materials = Append(build.materials, path),
                                                !.map = map]
    BY <1>3 DEF ReadNextMaterialFile
  <2>2. PICK U : build.materials \in Seq(U)
    BY DEF BuildForm
  <2>3. Append(build.materials, path) \in Seq(U \cup {path})
    BY <2>2, AppendValues
  <2> DEFINE ms == Append(build.materials, path)
  <2> HIDE DEF ms
  <2>4. build' = [map |-> map, materials |-> ms, solids |-> build.solids,
                  assemblies |-> build.assemblies, bounds |-> build.bounds]
    BY <2>1 DEF BuildForm, ms
  <2> QED
    BY <2>3, <2>4 DEF BuildForm, ms
<1>4. CASE BuildNextSolid /\ ~UNCHANGED build
  <2>1. PICK solid, bounds : build' = [build EXCEPT !.solids = Append(build.solids, solid),
                                                    !.bounds = bounds]
    <3> DEFINE i == Len(build.solids) + 1
               entry == queue.solids[i]
               label == Documents[entry.file].free[1]
               solid == [name |-> IF Len(queue.solids) > 1
                                  THEN <<entry.file, i - 1>> ELSE <<entry.file>>,
                         material |-> SolidMaterial(entry),
                         box      |-> BoxAt(Offset[label], label)]
               bounds == Hull(build.bounds, BoxAt(Offset[label], label))
    <3>1. \/ build' = [build EXCEPT !.solids = Append(build.solids, solid), !.bounds = bounds]
          \/ build' = build
      BY <1>4, Zenon DEF BuildNextSolid
    <3> HIDE DEF solid, bounds
    <3> QED
      BY <1>4, <3>1
  <2>2. PICK U : build.solids \in Seq(U)
    BY DEF BuildForm
  <2>3. Append(build.solids, solid) \in Seq(U \cup {solid})
    BY <2>2, AppendValues
  <2> DEFINE ss == Append(build.solids, solid)
  <2> HIDE DEF ss
  <2>4. build' = [map |-> build.map, materials |-> build.materials, solids |-> ss,
                  assemblies |-> build.assemblies, bounds |-> bounds]
    BY <2>1 DEF BuildForm, ss
  <2> QED
    BY <2>3, <2>4 DEF BuildForm, ss
<1>5. CASE KeepAssembly
  <2>1. PICK as, bounds : build' = [build EXCEPT !.assemblies = as, !.bounds = bounds]
    BY <1>5, Zenon DEF KeepAssembly
  <2>2. build' = [map |-> build.map, materials |-> build.materials, solids |-> build.solids,
                  assemblies |-> as, bounds |-> bounds]
    BY <2>1 DEF BuildForm
  <2> QED
    BY <2>2 DEF BuildForm
<1>6. CASE AppNext
  <2>1. CASE ParseOption \/ ParseFile \/ ParseError \/ EndOfArguments \/ QueueCommand \/ Quit
             \/ RecordCommand \/ BeamOn
    BY <1>1, <2>1 DEF ParseOption, ParseFile, ParseError, EndOfArguments, QueueCommand, Quit,
                      RecordCommand, BeamOn, appVars
  <2>2. CASE UNCHANGED appVars \/ ImportNextAssembly \/ ImportFails \/ FinishConstruct
    BY <1>1, <2>2 DEF ImportNextAssembly, ImportFails, FinishConstruct, appVars
  <2> QED
    BY <1>2, <1>3, <1>4, <1>5, <1>6, <1>1, <2>1, <2>2 DEF AppNext, AppStep
<1> QED
  BY <1>1, <1>6 DEF Next, PluginNext, ToolNext, Over, vars, appVars

(* Files and solids are read and built before an import, and only then. *)
LEMMA SolidsAreBuilt ==
  ASSUME BuildForm, SolidsBuilt
  PROVE  ~ReadNextMaterialFile /\ ~BuildNextSolid
<1>1. Len(build.materials) \in Nat /\ Len(build.solids) \in Nat
  BY DEF BuildForm
<1>2. ~(Len(build.materials) < Len(queue.xmls)) /\ ~(Len(build.solids) < Len(queue.solids))
  BY <1>1 DEF SolidsBuilt, MaterialsRead
<1> QED
  BY <1>2, Zenon DEF ReadNextMaterialFile, BuildNextSolid

(* Each program keeps ProcessInv: it acts in phases of its own, and         *)
(* whatever dies leaves a code.                                             *)
LEMMA AppProcess ==
  ASSUME BuildForm, ProcessInv, AppNext
  PROVE  ProcessInv'
<1>0. UNCHANGED importVars => UNCHANGED import
  BY DEF importVars
<1>1. CASE /\ ParseOption \/ ParseFile \/ ParseError \/ EndOfArguments
           /\ UNCHANGED <<importVars, scoringVars>>
  <2>1. phase = "parse" /\ UNCHANGED <<import, beam>>
    BY <1>0, <1>1 DEF ParseOption, ParseFile, ParseError, EndOfArguments, scoringVars
  <2>2. \/ phase' \in {"parse", "commands"} /\ UNCHANGED fault
        \/ phase' = "dead" /\ fault' # ""
    BY <1>1, <2>1 DEF ParseOption, ParseFile, ParseError, EndOfArguments, processVars, Die
  <2> QED
    BY <2>1, <2>2 DEF ProcessInv, Phases
<1>2. CASE /\ QueueCommand \/ Initialize \/ Quit
           /\ UNCHANGED <<importVars, scoringVars>>
  <2>1. phase = "commands" /\ beam.in = "nothing" /\ phase' \in {"commands", "construct", "exit"}
    BY <1>2 DEF QueueCommand, Initialize, Quit, Command, processVars
  <2>2. UNCHANGED <<import, beam, fault>>
    BY <1>0, <1>2 DEF scoringVars, QueueCommand, Initialize, Quit, processVars
  <2> QED
    BY <2>1, <2>2 DEF ProcessInv, Phases
<1>3. CASE /\ ReadNextMaterialFile \/ BuildNextSolid
           /\ UNCHANGED <<importVars, scoringVars>>
  <2>1. phase = "construct" /\ import = "none"
    BY <1>3, SolidsAreBuilt DEF ReadNextMaterialFile, BuildNextSolid, MaterialsRead, ProcessInv
  <2>2. \/ UNCHANGED <<phase, fault>>
        \/ phase' = "dead" /\ fault' # ""
    BY <1>3 DEF ReadNextMaterialFile, BuildNextSolid, Die
  <2>3. UNCHANGED <<import, beam>>
    BY <1>0, <1>3 DEF scoringVars
  <2> QED
    BY <2>1, <2>2, <2>3 DEF ProcessInv, Phases
<1>4. CASE ImportNextAssembly /\ UNCHANGED scoringVars
  BY <1>4 DEF ImportNextAssembly, ProcessInv, processVars, appVars, scoringVars, SolidsBuilt,
              MaterialsRead
<1>5. CASE (KeepAssembly \/ ImportFails) /\ UNCHANGED scoringVars
  <2>1. phase = "construct" /\ import' = "none" /\ UNCHANGED beam
    BY <1>5 DEF KeepAssembly, ImportFails, LeaveFromSTEP, scoringVars
  <2>2. \/ UNCHANGED <<phase, fault>>
        \/ phase' = "dead" /\ fault' # ""
    BY <1>5 DEF KeepAssembly, ImportFails, Die, processVars
  <2> QED
    BY <2>1, <2>2 DEF ProcessInv, Phases
<1>6. CASE FinishConstruct /\ UNCHANGED scoringVars
  <2>1. phase = "construct" /\ import' = "none" /\ UNCHANGED beam
    BY <1>6 DEF FinishConstruct, SolidsBuilt, MaterialsRead, scoringVars
  <2>2. \/ phase' = "commands" /\ UNCHANGED fault
        \/ phase' = "dead" /\ fault' # ""
    BY <1>6 DEF FinishConstruct, Die
  <2> QED
    BY <2>1, <2>2 DEF ProcessInv, Phases
<1>7. CASE ImportLabel /\ phase = "construct" /\ UNCHANGED <<processVars, appVars, scoringVars>>
  <2>1. import # "none"
    BY <1>7 DEF ImportLabel, ImportAssemblyLabel, ReusePrototype, SkipLabel, MaterialMissing,
                BuildPart, BuildPartThrows, EndWalk, FirstEncounter
  <2> QED
    BY <1>7, <2>1 DEF ProcessInv, processVars, appVars, scoringVars, SolidsBuilt, MaterialsRead
<1>8. CASE (RecordCommand \/ BeamOn) /\ UNCHANGED importVars
  BY <1>0, <1>8 DEF RecordCommand, BeamOn, Command, Record, BeginOfRunAction, processVars, ProcessInv
<1>9. CASE phase = "commands" /\ EventLoop /\ UNCHANGED <<processVars, appVars>> /\ UNCHANGED importVars
  <2>1. beam.in # "nothing"
    BY <1>9 DEF EventLoop, BeginOfEventAction, PreUserTrackingAction, UserSteppingAction,
                PostUserTrackingAction, EndOfEventAction, EndOfRunAction
  <2> QED
    BY <1>0, <1>9, <2>1 DEF ProcessInv, processVars, appVars
<1> QED
  BY <1>1, <1>2, <1>3, <1>4, <1>5, <1>6, <1>7, <1>8, <1>9 DEF AppNext, AppStep

LEMMA PluginProcess ==
  ASSUME OwnersInv, ProcessInv, PluginNext
  PROVE  ProcessInv'
<1>1. UNCHANGED <<beam, world>>
  BY DEF PluginNext, scoringVars, appVars
<1>2. CASE CreateStepAssembly
  BY <1>1, <1>2 DEF CreateStepAssembly, Building, FromSTEP, FromSTEPFails, BeginFromSTEP,
     ProcessInv, Die, importVars, Phases
<1>3. CASE RegisterAssembly \/ PluginImportFails
  BY <1>1, <1>3 DEF RegisterAssembly, PluginImportFails, LeaveFromSTEP, Building,
     ProcessInv, Die, Phases
<1>4. CASE CreateStepSolid
  BY <1>1, <1>4 DEF CreateStepSolid, Building, OwnersInv, PhaseOwners, ProcessInv, Die,
     importVars, Phases
<1>5. CASE (\E i \in DOMAIN tgeo : HandleSolid(i)) \/ ConstructGeo
  BY <1>1, <1>5 DEF HandleSolid, ConstructGeo, OwnersInv, PhaseOwners, ProcessInv,
     importVars, processVars, Phases
<1>6. CASE phase = "compact" /\ ImportLabel /\ UNCHANGED processVars
  BY <1>1, <1>6 DEF ProcessInv, processVars
<1>7. ASSUME NEW name, NEW x, Apply(name, x) \/ ApplyFile(name, x) \/ Release(name)
      PROVE  ProcessInv'
  <2>1. phase = "user" /\ UNCHANGED import
    BY <1>7 DEF Apply, ApplyFile, Release, UserCall
  <2>2. \/ UNCHANGED <<phase, fault>>
        \/ phase' = "dead" /\ fault' # ""
    BY <1>7 DEF Apply, ApplyFile, Release, Die, processVars
  <2> QED
    BY <1>1, <2>1, <2>2 DEF ProcessInv, Phases
<1>8. CASE ExitJob
  BY <1>1, <1>8 DEF ExitJob, ProcessInv, Phases
<1> QED
  BY <1>2, <1>3, <1>4, <1>5, <1>6, <1>7, <1>8 DEF PluginNext, PluginStep

LEMMA ToolProcess ==
  ASSUME OwnersInv, ProcessInv, ToolNext
  PROVE  ProcessInv'
<1>1. UNCHANGED <<import, beam, world>>
  BY DEF ToolNext, importVars, scoringVars, appVars
<1>2. /\ phase \in {"tool", "writeMap", "writeCompact", "written"}
      /\ \/ UNCHANGED fault /\ phase' \in {phase, "exit", "writeMap", "writeCompact", "written",
                                           "tool", "compact"}
         \/ phase' = "dead" /\ fault' # ""
  <2>1. CASE ToolOption \/ ToolFile \/ ToolHelp \/ ToolUsage \/ ToolRead
    BY <2>1 DEF ToolOption, ToolFile, ToolHelp, ToolUsage, ToolRead, Arguments, Die
  <2>2. CASE WriteMaterialMap \/ WriteCompact
    BY <2>2 DEF WriteMaterialMap, WriteCompact, ToolWrite, Die
  <2>3. ASSUME NEW path, NEW x, NEW m, FillIn(path, x, m)
        PROVE  phase = "written" /\ UNCHANGED <<phase, fault>>
    BY <2>3 DEF FillIn, processVars
  <2>4. ASSUME NEW line, RunToolAgain(line)
        PROVE  phase = "written" /\ phase' = "tool" /\ UNCHANGED fault
    BY <2>4 DEF RunToolAgain
  <2>5. CASE StartJob
    BY <2>5 DEF StartJob
  <2> QED
    BY <2>1, <2>2, <2>3, <2>4, <2>5 DEF ToolNext, ToolStep
<1>3. import = "none" /\ beam.in = "nothing"
  BY <1>2 DEF ProcessInv
<1> QED
  BY <1>1, <1>2, <1>3 DEF ProcessInv, Phases

LEMMA ProcessStep ==
  ASSUME OwnersInv, BuildForm, ProcessInv, [Next]_vars
  PROVE  ProcessInv'
<1>1. CASE UNCHANGED vars
  BY <1>1 DEF vars, importVars, processVars, scoringVars, appVars, ProcessInv, SolidsBuilt, MaterialsRead
<1> QED
  BY <1>1, AppProcess, PluginProcess, ToolProcess DEF Next, Over

-----------------------------------------------------------------------------
(* The shape of the state, in one invariant.                                *)
SessionInv == HeapTypes /\ ProtoTypes /\ BuildForm /\ ProcessInv /\ import \in ImportStates

(* The session begins well, and each step keeps it so.                      *)
LEMMA SessionInvInit == Init => SessionInv
<1>1. ImportInit => HeapTypes /\ ProtoTypes
  BY DEF ImportInit, HeapTypes, ProtoTypes, EmptyMap
<1>2. ASSUME NEW line, AppInit(line)
      PROVE  BuildForm
  <2>1. <<>> \in Seq({})
    OBVIOUS
  <2>2. build = NewBuild
    BY <1>2 DEF AppInit
  <2> QED
    BY <2>1, <2>2 DEF NewBuild, BuildForm
<1>3. ASSUME Init
      PROVE  /\ phase \in {"parse", "compact", "tool"} /\ fault = ""
             /\ ImportInit /\ ScoringInit /\ \E line : AppInit(line)
  BY <1>3 DEF Init, Starts
<1>4. ASSUME Init
      PROVE  import = "none" /\ beam.in = "nothing"
  <2>1. import = "none" /\ beam = [in |-> "nothing", left |-> 0, steps |-> 0]
    BY <1>3, <1>4, Zenon DEF ImportInit, ScoringInit
  <2> QED
    BY <2>1
<1>5. Init => ProcessInv
  <2>1. ASSUME Init
        PROVE  /\ phase \in {"parse", "compact", "tool"} /\ fault = "" /\ import = "none"
               /\ beam.in = "nothing"
    BY <1>3, <1>4, <2>1
  <2> HIDE DEF Init
  <2> QED
    BY <2>1 DEF ProcessInv, Phases
<1>6. Init => HeapTypes /\ ProtoTypes /\ BuildForm
  BY <1>1, <1>2, <1>3
<1> QED
  BY <1>4, <1>5, <1>6 DEF SessionInv, ImportStates

LEMMA SessionInvStep ==
  ASSUME NamesInv, OwnersInv, SessionInv, [Next]_vars
  PROVE  SessionInv'
<1>1. import' \in ImportStates
  <2>1. ASSUME NEW path, NEW map, FromSTEP(path, map)
        PROVE  import' \in ImportStates
    BY <2>1 DEF FromSTEP, FromSTEPFails, BeginFromSTEP, ImportStates
  <2>2. CASE ImportLabel
    BY <2>2 DEF ImportLabel, ImportAssemblyLabel, ReusePrototype, SkipLabel, MaterialMissing, AbortImport,
                BuildPart, BuildPartThrows, EndWalk, FirstEncounter, ImportStates
  <2> QED
    BY <2>1, <2>2, ContextSteps DEF LeaveFromSTEP, ImportStates, SessionInv
<1> QED
  BY <1>1, HeapTypesStep, ProtoTypesStep, BuildFormStep, ProcessStep DEF SessionInv

(* The shape of the state, for any input: an import is under way only while *)
(* a world or a detector is built, it works on an assembly that is there,   *)
(* every placement and every memo names a part of its assembly, the         *)
(* registry lists assemblies that exist, and a process is dead if and only  *)
(* if it left a code.                                                       *)
THEOREM SessionTypes == Spec => []SessionTypeOK
<1> DEFINE I == NamesInv /\ OwnersInv /\ SessionInv
<1>1. Init => I
  BY NamesInit, OwnersInit, SessionInvInit
<1>2. I /\ [Next]_vars => I'
  BY NamesStep, OwnersStep, SessionInvStep
<1>3. I => SessionTypeOK
  <2> SUFFICES ASSUME I PROVE SessionTypeOK
    OBVIOUS
  <2>1. import = "walking" => heap # <<>> /\ heap[Current].owner = "import"
    <3>1. heap = <<>> => DOMAIN heap = {}
      OBVIOUS
    <3> QED
      BY <3>1 DEF OwnersInv, ImportOwns
  <2>2. ImportTypeOK
    BY <2>1 DEF ImportTypeOK, SessionInv, HeapTypes, TypedAssembly, ProtoTypes
  <2>3. \A n \in DOMAIN registry : registry[n] \in DOMAIN heap
    BY DEF OwnersInv, RegistryOwns
  <2> QED
    BY <2>2, <2>3 DEF SessionTypeOK, SessionInv, ProcessInv
<1> QED
  BY <1>1, <1>2, <1>3, PTL DEF Spec

-----------------------------------------------------------------------------
(* Where the parts of a document are, and the walk that places them. *)

(* The words of a location, joined.                                         *)
Join(words, word) == words \o word
Joined(ctx, i, words) == words \in Seq(ctx)
Joining == INSTANCE SequenceFolds WITH Op <- Join, Inv <- Joined

(* What SequenceFolds rests on, whatever is folded: a set of natural numbers *)
(* that is not empty has a least one, and one with 0 and the successors of  *)
(* its elements has every number.                                           *)
LEMMA NatLeast ==
  ASSUME NEW S, S \subseteq Nat, S # {}
  PROVE  \E n \in S : \A m \in S : n <= m
  BY Joining!NatLeast

LEMMA NatSetInduction ==
  ASSUME NEW S, 0 \in S, \A n \in Nat : n \in S => n + 1 \in S
  PROVE  \A n \in Nat : n \in S
  BY Joining!NatSetInduction

(* A dead process takes no step.                                            *)
LEMMA DeadStops ==
  ASSUME phase = "dead", [Next]_vars
  PROVE  UNCHANGED vars
<1>1. ~AppNext
  BY DEF AppNext, AppStep, ParseOption, ParseFile, ParseError, EndOfArguments, QueueCommand, Initialize,
     Quit, RecordCommand, BeamOn, Command, ReadNextMaterialFile, BuildNextSolid, MaterialsRead,
     ImportNextAssembly, SolidsBuilt, KeepAssembly, ImportFails, FinishConstruct
<1>2. ~PluginNext
  BY DEF PluginNext, PluginStep, CreateStepAssembly, RegisterAssembly, PluginImportFails, CreateStepSolid,
     HandleSolid, ConstructGeo, Building, Apply, ApplyFile, Release, UserCall, ExitJob
<1>3. ~ToolNext
  BY DEF ToolNext, ToolStep, ToolOption, ToolFile, ToolHelp, ToolUsage, ToolRead, Arguments,
     WriteMaterialMap, WriteCompact, ToolWrite, FillIn, RunToolAgain, StartJob
<1> QED
  BY <1>1, <1>2, <1>3 DEF Next, Over

-----------------------------------------------------------------------------
(* Where a path of indexes leads in a document. *)

(* The labels met on the first n indexes of p.                              *)
Trace(d, p, n, at) ==
  at = [k \in 1 .. n |-> IF k = 1 THEN Root(d, p[1]) ELSE Down(d, at[k - 1], p[k])]

(* The labels met on the way exist ...                                      *)
LEMMA TraceExists ==
  ASSUME NEW d, NEW p
  PROVE  \A n \in Nat : \E at : Trace(d, p, n, at)
<1> DEFINE S == {n \in Nat : \E at : Trace(d, p, n, at)}
<1>1. 0 \in S
  <2> DEFINE g == [k \in 1 .. 0 |-> Nowhere]
  <2>1. Trace(d, p, 0, g)
    BY DEF Trace
  <2> HIDE DEF g
  <2> QED
    BY <2>1
<1>2. ASSUME NEW n \in Nat, n \in S
      PROVE  n + 1 \in S
  <2>1. PICK at : Trace(d, p, n, at)
    BY <1>2
  <2> DEFINE val(f, k) == IF k = 1 THEN Root(d, p[1]) ELSE Down(d, f[k - 1], p[k])
             g == [k \in 1 .. n + 1 |-> IF k = n + 1 THEN val(at, k) ELSE at[k]]
  <2>2. ASSUME NEW k \in 1 .. n + 1
        PROVE  g[k] = val(g, k)
    <3>1. k # 1 => k - 1 \in 1 .. n + 1 /\ k - 1 # n + 1
      OBVIOUS
    <3>2. val(g, k) = val(at, k)
      <4>1. k # 1 => g[k - 1] = at[k - 1]
        BY <3>1
      <4> HIDE DEF g
      <4> QED
        BY <4>1
    <3>3. k # n + 1 => k \in 1 .. n
      OBVIOUS
    <3>4. k # n + 1 => at[k] = val(at, k)
      BY <2>1, <3>3 DEF Trace
    <3>5. g[k] = IF k = n + 1 THEN val(at, k) ELSE at[k]
      OBVIOUS
    <3> HIDE DEF g, val
    <3> QED
      BY <3>2, <3>4, <3>5
  <2>3. g = [k \in 1 .. n + 1 |-> val(g, k)]
    <3> DEFINE h == [k \in 1 .. n + 1 |-> val(g, k)]
    <3>1. DOMAIN g = 1 .. n + 1 /\ DOMAIN h = 1 .. n + 1 /\ g = [k \in DOMAIN g |-> g[k]]
      OBVIOUS
    <3>2. \A k \in 1 .. n + 1 : g[k] = h[k]
      <4> HIDE DEF g, val
      <4> QED
        BY <2>2
    <3> HIDE DEF g, val
    <3> QED
      BY <3>1, <3>2
  <2> HIDE DEF g
  <2>4. Trace(d, p, n + 1, g)
    BY <2>3 DEF Trace
  <2> QED
    BY <2>4
<1> HIDE DEF S
<1>3. \A n \in Nat : n \in S
  BY <1>1, <1>2, NatSetInduction
<1> QED
  BY <1>3 DEF S

(* ... and the last of them is where the path leads.                        *)
LEMMA FollowTrace ==
  ASSUME NEW d, NEW p, Len(p) \in Nat
  PROVE  \E at : Trace(d, p, Len(p), at) /\ Follow(d, p) = at[Len(p)]
<1> DEFINE c == CHOOSE at : Trace(d, p, Len(p), at)
<1>1. Trace(d, p, Len(p), c)
  BY TraceExists
<1>2. Follow(d, p) = c[Len(p)]
  BY DEF Follow, Trace
<1> QED
  BY <1>1, <1>2

(* The indexes of a free shape and of components below it.                  *)
IsPath(p) == p \in Seq(Nat) /\ p # <<>>

(* Path q begins with path p. *)
Extends(q, p) ==
  /\ Len(p) <= Len(q)
  /\ \A k \in 1 .. Len(p) : q[k] = p[k]

(* The indexes of a path are natural numbers, and there is one at least.    *)
LEMMA PathLen ==
  ASSUME NEW p, IsPath(p)
  PROVE  Len(p) \in Nat /\ Len(p) >= 1 /\ DOMAIN p = 1 .. Len(p) /\ p = [k \in 1 .. Len(p) |-> p[k]]
         /\ \A k \in 1 .. Len(p) : p[k] \in Nat
  BY DEF IsPath

(* A path that extends another one leads there on its way.                  *)
LEMMA OnTheWay ==
  ASSUME NEW d, NEW q, IsPath(q), NEW at, Trace(d, q, Len(q), at),
         NEW p, IsPath(p), Extends(q, p)
  PROVE  Follow(d, p) = at[Len(p)]
<1>0. /\ Len(p) \in Nat /\ Len(q) \in Nat /\ Len(p) >= 1 /\ Len(p) <= Len(q)
      /\ \A k \in 1 .. Len(p) : q[k] = p[k]
  BY PathLen DEF Extends
<1>1. PICK on : Trace(d, p, Len(p), on) /\ Follow(d, p) = on[Len(p)]
  BY <1>0, FollowTrace
<1> DEFINE S == {n \in Nat : n + 1 <= Len(p) => at[n + 1] = on[n + 1]}
<1>2. 0 \in S
  <2>1. 1 \in 1 .. Len(p) /\ 1 \in 1 .. Len(q) /\ q[1] = p[1] /\ 0 + 1 = 1
    BY <1>0
  <2>2. at[1] = Root(d, q[1]) /\ on[1] = Root(d, p[1])
    BY <1>1, <2>1 DEF Trace
  <2> QED
    BY <2>1, <2>2
<1>3. ASSUME NEW n \in Nat, n \in S
      PROVE  n + 1 \in S
  <2> SUFFICES ASSUME n + 1 + 1 <= Len(p) PROVE at[n + 1 + 1] = on[n + 1 + 1]
    OBVIOUS
  <2>1. /\ n + 1 + 1 \in 1 .. Len(p) /\ n + 1 + 1 \in 1 .. Len(q) /\ n + 1 + 1 # 1
        /\ (n + 1 + 1) - 1 = n + 1 /\ n + 1 <= Len(p)
    BY <1>0
  <2>2. at[n + 1] = on[n + 1] /\ q[n + 1 + 1] = p[n + 1 + 1]
    BY <1>0, <1>3, <2>1
  <2>3. at[n + 1 + 1] = Down(d, at[n + 1], q[n + 1 + 1])
    BY <2>1 DEF Trace
  <2>4. on[n + 1 + 1] = Down(d, on[n + 1], p[n + 1 + 1])
    BY <1>1, <2>1 DEF Trace
  <2> QED
    BY <2>2, <2>3, <2>4
<1>4. \A n \in Nat : n \in S
  <2> HIDE DEF S
  <2> QED
    BY <1>2, <1>3, NatSetInduction
<1>5. Len(p) - 1 \in Nat /\ (Len(p) - 1) + 1 = Len(p) /\ (Len(p) - 1) + 1 <= Len(p)
  BY <1>0
<1>6. at[(Len(p) - 1) + 1] = on[(Len(p) - 1) + 1]
  BY <1>4, <1>5
<1> QED
  BY <1>1, <1>5, <1>6

(* From nowhere a path leads nowhere.                                       *)
LEMMA AllSomewhere ==
  ASSUME NEW d, NEW q, IsPath(q), NEW at, Trace(d, q, Len(q), at), at[Len(q)] # Nowhere
  PROVE  \A k \in 1 .. Len(q) : at[k] # Nowhere
<1>0. Len(q) \in Nat /\ Len(q) >= 1
  BY PathLen
<1> DEFINE S == {n \in Nat : n < Len(q) => at[Len(q) - n] # Nowhere}
<1>1. 0 \in S
  BY <1>0
<1>2. ASSUME NEW n \in Nat, n \in S
      PROVE  n + 1 \in S
  <2> SUFFICES ASSUME n + 1 < Len(q) PROVE at[Len(q) - (n + 1)] # Nowhere
    OBVIOUS
  <2>1. /\ n < Len(q) /\ Len(q) - n \in 1 .. Len(q) /\ Len(q) - n # 1
        /\ (Len(q) - n) - 1 = Len(q) - (n + 1)
    BY <1>0
  <2>2. at[Len(q) - n] = Down(d, at[Len(q) - (n + 1)], q[Len(q) - n])
    BY <2>1 DEF Trace
  <2> QED
    BY <1>2, <2>1, <2>2 DEF Down
<1>3. \A n \in Nat : n \in S
  <2> HIDE DEF S
  <2> QED
    BY <1>1, <1>2, NatSetInduction
<1>4. ASSUME NEW k \in 1 .. Len(q)
      PROVE  at[k] # Nowhere
  <2>1. Len(q) - k \in Nat /\ Len(q) - k < Len(q) /\ Len(q) - (Len(q) - k) = k
    BY <1>0
  <2> QED
    BY <1>3, <2>1
<1> QED
  BY <1>4

(* Where a path with an index more leads.                                   *)
LEMMA FollowFirst ==
  ASSUME NEW d, NEW i \in Nat
  PROVE  IsPath(<<i>>) /\ Follow(d, <<i>>) = Root(d, i)
<1>1. IsPath(<<i>>) /\ Len(<<i>>) = 1 /\ <<i>>[1] = i
  BY DEF IsPath
<1>2. PICK at : Trace(d, <<i>>, 1, at) /\ Follow(d, <<i>>) = at[1]
  BY <1>1, FollowTrace
<1> QED
  BY <1>1, <1>2 DEF Trace

(* A path with an index more is a path that extends it.                     *)
LEMMA AppendPath ==
  ASSUME NEW p, IsPath(p), NEW i \in Nat
  PROVE  /\ IsPath(Append(p, i))
         /\ Len(Append(p, i)) = Len(p) + 1
         /\ Append(p, i)[Len(p) + 1] = i
         /\ \A k \in 1 .. Len(p) : Append(p, i)[k] = p[k]
         /\ Extends(Append(p, i), p)
<1>1. /\ p \in Seq(Nat) /\ Append(p, i) \in Seq(Nat) /\ Len(p) \in Nat
      /\ Len(Append(p, i)) = Len(p) + 1
      /\ Append(p, i)[Len(p) + 1] = i
      /\ \A k \in 1 .. Len(p) : Append(p, i)[k] = p[k]
  BY DEF IsPath
<1>2. Append(p, i) # <<>>
  BY <1>1
<1> QED
  BY <1>1, <1>2 DEF IsPath, Extends

(* An index more leads one component down.                                  *)
LEMMA FollowAppend ==
  ASSUME NEW d, NEW p, IsPath(p), NEW i \in Nat
  PROVE  Follow(d, Append(p, i)) = Down(d, Follow(d, p), i)
<1> DEFINE q == Append(p, i)
<1>1. /\ IsPath(q) /\ Len(q) = Len(p) + 1 /\ q[Len(p) + 1] = i /\ Extends(q, p)
      /\ Len(p) \in Nat /\ Len(p) >= 1
  BY AppendPath, PathLen
<1> HIDE DEF q
<1>2. PICK at : Trace(d, q, Len(q), at) /\ Follow(d, q) = at[Len(q)]
  BY <1>1, FollowTrace, PathLen
<1>3. Follow(d, p) = at[Len(p)]
  BY <1>1, <1>2, OnTheWay
<1>4. Len(q) \in 1 .. Len(q) /\ Len(q) # 1 /\ Len(q) - 1 = Len(p)
  BY <1>1
<1>5. at[Len(q)] = Down(d, at[Len(q) - 1], q[Len(q)])
  BY <1>2, <1>4 DEF Trace
<1> QED
  BY <1>1, <1>2, <1>3, <1>4, <1>5 DEF q

(* A path that goes on beyond another one, to somewhere, goes by an index   *)
(* of the assembly the other one leads to.                                  *)
LEMMA GoesThrough ==
  ASSUME NEW d, NEW q, IsPath(q), Follow(d, q) # Nowhere, NEW p, IsPath(p), Extends(q, p)
  PROVE  /\ Follow(d, p) # Nowhere
         /\ Len(p) < Len(q) =>
              /\ d.labels[Follow(d, p).label].kind = "assembly"
              /\ q[Len(p) + 1] \in DOMAIN d.labels[Follow(d, p).label].comps
              /\ q[Len(p) + 1] \in Nat
              /\ Extends(q, Append(p, q[Len(p) + 1]))
         /\ Len(p) = Len(q) => q = p
<1>0. /\ Len(p) \in Nat /\ Len(q) \in Nat /\ Len(p) >= 1 /\ Len(p) <= Len(q)
      /\ \A k \in 1 .. Len(p) : q[k] = p[k]
      /\ p = [k \in 1 .. Len(p) |-> p[k]] /\ q = [k \in 1 .. Len(q) |-> q[k]]
      /\ \A k \in 1 .. Len(q) : q[k] \in Nat
  BY PathLen DEF Extends
<1>1. PICK at : Trace(d, q, Len(q), at) /\ Follow(d, q) = at[Len(q)]
  BY <1>0, FollowTrace
<1>2. Follow(d, p) = at[Len(p)]
  BY <1>1, OnTheWay
<1>3. \A k \in 1 .. Len(q) : at[k] # Nowhere
  BY <1>1, AllSomewhere
<1>4. Follow(d, p) # Nowhere
  BY <1>0, <1>2, <1>3
<1>5. ASSUME Len(p) < Len(q)
      PROVE  /\ d.labels[Follow(d, p).label].kind = "assembly"
             /\ q[Len(p) + 1] \in DOMAIN d.labels[Follow(d, p).label].comps
             /\ q[Len(p) + 1] \in Nat
             /\ Extends(q, Append(p, q[Len(p) + 1]))
  <2>1. Len(p) + 1 \in 1 .. Len(q) /\ Len(p) + 1 # 1 /\ (Len(p) + 1) - 1 = Len(p) /\ Len(p) + 1 <= Len(q)
    BY <1>0, <1>5
  <2>2. at[Len(p) + 1] = Down(d, at[Len(p)], q[Len(p) + 1])
    BY <1>1, <2>1 DEF Trace
  <2>3. at[Len(p) + 1] # Nowhere
    BY <1>3, <2>1
  <2>4. /\ d.labels[Follow(d, p).label].kind = "assembly"
        /\ q[Len(p) + 1] \in DOMAIN d.labels[Follow(d, p).label].comps
    BY <1>2, <2>2, <2>3 DEF Down
  <2>5. q[Len(p) + 1] \in Nat
    BY <1>0, <2>1
  <2> DEFINE r == Append(p, q[Len(p) + 1])
  <2>6. Len(r) = Len(p) + 1 /\ r[Len(p) + 1] = q[Len(p) + 1] /\ \A k \in 1 .. Len(p) : r[k] = p[k]
    BY <2>5, AppendPath
  <2>7. \A k \in 1 .. Len(p) + 1 : k \in 1 .. Len(p) \/ k = Len(p) + 1
    BY <1>0
  <2> HIDE DEF r
  <2>8. Extends(q, r)
    BY <1>0, <2>1, <2>6, <2>7 DEF Extends
  <2> QED
    BY <2>4, <2>5, <2>8 DEF r
<1>6. Len(p) = Len(q) => q = p
  BY <1>0
<1> QED
  BY <1>4, <1>5, <1>6

-----------------------------------------------------------------------------
(* The documents: the transformations are words, the labels are theirs. *)

(* What FlattenSeq() makes of the first n words of s.                       *)
FlatTo(f, s, n) == f = [i \in 1 .. n |-> IF i = 1 THEN s[i] ELSE f[i - 1] \o s[i]]

WordsTo(D, f, n) == \A i \in 1 .. n : f[i] \in Seq(D)

(* What FlattenSeq() goes through.                                          *)
LEMMA FlattenRuns ==
  ASSUME NEW D, NEW s \in Seq(Seq(D)), Len(s) # 0
  PROVE  \E f : FlatTo(f, s, Len(s)) /\ FlattenSeq(s) = f[Len(s)]
<1>0. Len(s) \in Nat /\ \A i \in 1 .. Len(s) : s[i] \in Seq(D)
  OBVIOUS
<1> DEFINE S == {n \in Nat : n <= Len(s) => \E f : FlatTo(f, s, n) /\ WordsTo(D, f, n)}
<1>1. 0 \in S
  <2> DEFINE g == [i \in 1 .. 0 |-> <<>>]
  <2>1. FlatTo(g, s, 0) /\ WordsTo(D, g, 0)
    BY DEF FlatTo, WordsTo
  <2> HIDE DEF g
  <2> QED
    BY <2>1
<1>2. ASSUME NEW n \in Nat, n \in S
      PROVE  n + 1 \in S
  <2> SUFFICES ASSUME n + 1 <= Len(s)
               PROVE  \E f : FlatTo(f, s, n + 1) /\ WordsTo(D, f, n + 1)
    OBVIOUS
  <2>0. n <= Len(s) /\ n + 1 \in 1 .. Len(s)
    BY <1>0
  <2>1. PICK f : FlatTo(f, s, n) /\ WordsTo(D, f, n)
    BY <1>2, <2>0
  <2> DEFINE last == IF n + 1 = 1 THEN s[n + 1] ELSE f[n] \o s[n + 1]
             g == [i \in 1 .. n + 1 |-> IF i = n + 1 THEN last ELSE f[i]]
  <2>2. last \in Seq(D)
    <3>1. s[n + 1] \in Seq(D)
      BY <1>0, <2>0
    <3>2. n + 1 # 1 => n \in 1 .. n
      OBVIOUS
    <3> QED
      BY <2>1, <3>1, <3>2 DEF WordsTo
  <2>3. ASSUME NEW i \in 1 .. n + 1
        PROVE  /\ g[i] \in Seq(D)
               /\ g[i] = IF i = 1 THEN s[i] ELSE g[i - 1] \o s[i]
    <3>1. CASE i = n + 1
      <4>1. n + 1 # 1 => n \in 1 .. n + 1 /\ n # n + 1 /\ (n + 1) - 1 = n
        OBVIOUS
      <4>2. n + 1 # 1 => g[(n + 1) - 1] = f[n]
        BY <4>1
      <4>3. g[i] = last
        BY <3>1
      <4>4. last = IF n + 1 = 1 THEN s[n + 1] ELSE g[(n + 1) - 1] \o s[n + 1]
        <5> HIDE DEF g
        <5> QED
          BY <4>2
      <4> HIDE DEF g, last
      <4> QED
        BY <2>2, <3>1, <4>3, <4>4
    <3>2. CASE i # n + 1
      <4>1. i \in 1 .. n /\ (i # 1 => i - 1 \in 1 .. n + 1 /\ i - 1 # n + 1)
        BY <3>2
      <4>2. f[i] = IF i = 1 THEN s[i] ELSE f[i - 1] \o s[i]
        BY <2>1, <4>1 DEF FlatTo
      <4>3. g[i] = f[i] /\ (i # 1 => g[i - 1] = f[i - 1])
        BY <3>2, <4>1
      <4>4. f[i] \in Seq(D)
        BY <2>1, <4>1 DEF WordsTo
      <4> HIDE DEF g
      <4> QED
        BY <4>2, <4>3, <4>4
    <3> QED
      BY <3>1, <3>2
  <2>4. FlatTo(g, s, n + 1)
    <3>1. DOMAIN g = 1 .. n + 1 /\ g = [i \in DOMAIN g |-> g[i]]
      OBVIOUS
    <3>2. \A i \in 1 .. n + 1 : g[i] = IF i = 1 THEN s[i] ELSE g[i - 1] \o s[i]
      <4> HIDE DEF g
      <4> QED
        BY <2>3
    <3> HIDE DEF g
    <3> QED
      BY <3>1, <3>2 DEF FlatTo
  <2>5. WordsTo(D, g, n + 1)
    <3> HIDE DEF g
    <3> QED
      BY <2>3 DEF WordsTo
  <2> HIDE DEF g
  <2> QED
    BY <2>4, <2>5
<1>3. Len(s) \in S
  <2> HIDE DEF S
  <2>1. \A n \in Nat : n \in S
    BY <1>1, <1>2, NatSetInduction
  <2> QED
    BY <1>0, <2>1
<1> DEFINE c == CHOOSE h : FlatTo(h, s, Len(s))
<1>4. FlatTo(c, s, Len(s))
  BY <1>0, <1>3
<1>5. FlattenSeq(s) = c[Len(s)]
  BY DEF FlattenSeq, FlatTo
<1> QED
  BY <1>4, <1>5

(* Words put one after another are a word.                                  *)
LEMMA FlattenIsSeq ==
  ASSUME NEW D, NEW s \in Seq(Seq(D))
  PROVE  FlattenSeq(s) \in Seq(D)
<1>0. Len(s) \in Nat /\ \A i \in 1 .. Len(s) : s[i] \in Seq(D)
  OBVIOUS
<1>1. CASE Len(s) = 0
  BY <1>1 DEF FlattenSeq
<1>2. CASE Len(s) # 0
  <2>1. PICK c : FlatTo(c, s, Len(s)) /\ FlattenSeq(s) = c[Len(s)]
    BY <1>2, FlattenRuns
  <2> DEFINE T == {n \in Nat : n + 1 <= Len(s) => c[n + 1] \in Seq(D)}
  <2>2. 0 \in T
    <3>1. 1 \in 1 .. Len(s) /\ 0 + 1 = 1
      BY <1>0, <1>2
    <3>2. c[1] = s[1]
      BY <2>1, <3>1 DEF FlatTo
    <3> QED
      BY <1>0, <3>1, <3>2
  <2>3. ASSUME NEW n \in Nat, n \in T
        PROVE  n + 1 \in T
    <3> SUFFICES ASSUME n + 1 + 1 <= Len(s) PROVE c[n + 1 + 1] \in Seq(D)
      OBVIOUS
    <3>1. n + 1 + 1 \in 1 .. Len(s) /\ n + 1 + 1 # 1 /\ (n + 1 + 1) - 1 = n + 1 /\ n + 1 <= Len(s)
      BY <1>0
    <3>2. c[n + 1 + 1] = c[n + 1] \o s[n + 1 + 1]
      BY <2>1, <3>1 DEF FlatTo
    <3>3. c[n + 1] \in Seq(D) /\ s[n + 1 + 1] \in Seq(D)
      BY <1>0, <2>3, <3>1
    <3> QED
      BY <3>2, <3>3
  <2>4. Len(s) - 1 \in T /\ (Len(s) - 1) + 1 = Len(s) /\ Len(s) - 1 \in Nat
    <3> HIDE DEF T
    <3>1. \A n \in Nat : n \in T
      BY <2>2, <2>3, NatSetInduction
    <3> QED
      BY <1>0, <1>2, <3>1
  <2>5. c[Len(s)] \in Seq(D)
    BY <1>0, <2>4
  <2> QED
    BY <2>1, <2>5
<1> QED
  BY <1>0, <1>1, <1>2

(* A location composes to a word.                                           *)
LEMMA LocationIsSeq ==
  ASSUME NEW loc, IsList(loc), \A k \in DOMAIN loc : loc[k].power \in Int
  PROVE  \E D : LocationToTrsf(loc) \in Seq(D)
<1> DEFINE D == {loc[k].datum : k \in DOMAIN loc} \X {-1, 1}
           word(k) == Power(loc[k].datum, loc[k].power)
           s == [k \in DOMAIN loc |-> word(k)]
<1>1. Len(loc) \in Nat /\ DOMAIN loc = 1 .. Len(loc)
  BY DEF IsList
<1>2. ASSUME NEW k \in DOMAIN loc
      PROVE  word(k) \in Seq(D)
  <2> DEFINE n == loc[k].power
             m == IF n < 0 THEN -n ELSE n
             one == IF n < 0 THEN -1 ELSE 1
             e == <<loc[k].datum, one>>
  <2>1. n \in Int
    OBVIOUS
  <2>2. m \in Nat /\ one \in {-1, 1}
    <3> HIDE DEF n
    <3> QED
      BY <2>1
  <2>3. e \in D
    <3> HIDE DEF one
    <3> QED
      BY <2>2
  <2>4. word(k) = [j \in 1 .. m |-> e]
    BY DEF Power
  <2> HIDE DEF m, e, D, word
  <2> QED
    BY <2>2, <2>3, <2>4
<1> HIDE DEF D
<1>3. s \in [1 .. Len(loc) -> Seq(D)]
  <2> HIDE DEF word
  <2> QED
    BY <1>1, <1>2
<1>4. s \in Seq(Seq(D))
  <2> HIDE DEF s
  <2> QED
    BY <1>1, <1>3
<1>5. LocationToTrsf(loc) = FlattenSeq(s)
  BY DEF LocationToTrsf
<1> HIDE DEF s
<1> QED
  BY <1>4, <1>5, FlattenIsSeq

(* What DocumentsAssumption says of a document, as the proofs use it.       *)
DocForm(d) ==
  /\ IsFiniteSet(DOMAIN d.labels) /\ "" \notin DOMAIN d.labels
  /\ d.free \in Seq(DOMAIN d.labels)
  /\ \A l \in DOMAIN d.labels :
       /\ Len(d.labels[l].comps) \in Nat
       /\ DOMAIN d.labels[l].comps = 1 .. Len(d.labels[l].comps)
       /\ \A i \in DOMAIN d.labels[l].comps :
            /\ d.labels[l].comps[i].ref \in DOMAIN d.labels \cup {""}
            /\ IsList(d.labels[l].comps[i].loc)
            /\ \A k \in DOMAIN d.labels[l].comps[i].loc : d.labels[l].comps[i].loc[k].power \in Int
  /\ \A S \in SUBSET DOMAIN d.labels : S # {} =>
       \E l \in S : \A i \in DOMAIN d.labels[l].comps : d.labels[l].comps[i].ref \notin S

(* Every document has this form.                                            *)
LEMMA DocsAreFormed == \A path \in DOMAIN Documents : DocForm(Documents[path])
<1> SUFFICES ASSUME NEW path \in DOMAIN Documents PROVE DocForm(Documents[path])
  OBVIOUS
<1> DEFINE d == Documents[path]
<1>1. /\ IsFiniteSet(DOMAIN d.labels) /\ "" \notin DOMAIN d.labels
      /\ d.free \in Seq(DOMAIN d.labels)
  BY DocumentsAssumption
<1>2. ASSUME NEW l \in DOMAIN d.labels
      PROVE  /\ Len(d.labels[l].comps) \in Nat
             /\ DOMAIN d.labels[l].comps = 1 .. Len(d.labels[l].comps)
             /\ \A i \in DOMAIN d.labels[l].comps :
                  /\ d.labels[l].comps[i].ref \in DOMAIN d.labels \cup {""}
                  /\ IsList(d.labels[l].comps[i].loc)
                  /\ \A k \in DOMAIN d.labels[l].comps[i].loc : d.labels[l].comps[i].loc[k].power \in Int
  BY DocumentsAssumption
<1>3. \A S \in SUBSET DOMAIN d.labels : S # {} =>
        \E l \in S : \A i \in DOMAIN d.labels[l].comps : d.labels[l].comps[i].ref \notin S
  BY DocumentsAssumption
<1> HIDE DEF d
<1>4. DocForm(d)
  BY <1>1, <1>2, <1>3 DEF DocForm
<1> QED
  BY <1>4 DEF d

(* A label of the document under a word: where a path can lead.             *)
Somewhere(d, x) ==
  /\ x = [label |-> x.label, trsf |-> x.trsf]
  /\ x.label \in DOMAIN d.labels
  /\ \E D : x.trsf \in Seq(D)

(* A label of the document under a word is somewhere.                       *)
LEMMA EndIs ==
  ASSUME NEW d, NEW l \in DOMAIN d.labels, NEW D, NEW t \in Seq(D)
  PROVE  Somewhere(d, [label |-> l, trsf |-> t])
<1> DEFINE x == [label |-> l, trsf |-> t]
<1>1. x.label = l /\ x.trsf = t /\ x = [label |-> l, trsf |-> t]
  OBVIOUS
<1>2. x = [label |-> x.label, trsf |-> x.trsf]
  BY <1>1
<1>3. \E E : x.trsf \in Seq(E)
  BY <1>1
<1> HIDE DEF x
<1>4. Somewhere(d, x)
  BY <1>1, <1>2, <1>3 DEF Somewhere
<1> QED
  BY <1>4 DEF x

(* A free shape is somewhere, or there is none of this index.               *)
LEMMA RootForm ==
  ASSUME NEW d, DocForm(d), NEW i
  PROVE  Root(d, i) = Nowhere \/ Somewhere(d, Root(d, i))
<1>0. d.free \in Seq(DOMAIN d.labels)
  BY Zenon DEF DocForm
<1>1. i \in DOMAIN d.free => d.free[i] \in DOMAIN d.labels
  BY <1>0
<1>2. Identity \in Seq({})
  BY DEF Identity
<1> QED
  BY <1>1, <1>2, EndIs DEF Root

(* A component is somewhere, or it leads nowhere.                           *)
LEMMA DownForm ==
  ASSUME NEW d, DocForm(d), NEW up, up = Nowhere \/ Somewhere(d, up), NEW i
  PROVE  Down(d, up, i) = Nowhere \/ Somewhere(d, Down(d, up, i))
<1> SUFFICES ASSUME Down(d, up, i) # Nowhere PROVE Somewhere(d, Down(d, up, i))
  OBVIOUS
<1> DEFINE c == d.labels[up.label].comps[i]
<1>1. /\ up # Nowhere /\ i \in DOMAIN d.labels[up.label].comps /\ c.ref # ""
      /\ Down(d, up, i) = [label |-> c.ref, trsf |-> up.trsf \o LocationToTrsf(c.loc)]
  BY DEF Down
<1>2. up.label \in DOMAIN d.labels
  BY <1>1 DEF Somewhere
<1>3. c.ref \in DOMAIN d.labels /\ IsList(c.loc) /\ \A k \in DOMAIN c.loc : c.loc[k].power \in Int
  BY <1>1, <1>2 DEF DocForm
<1> HIDE DEF c
<1>4. PICK D : LocationToTrsf(c.loc) \in Seq(D)
  BY <1>3, LocationIsSeq
<1>5. PICK E : up.trsf \in Seq(E)
  BY <1>1 DEF Somewhere
<1>6. up.trsf \o LocationToTrsf(c.loc) \in Seq(D \cup E)
  <2>1. up.trsf \in Seq(D \cup E) /\ LocationToTrsf(c.loc) \in Seq(D \cup E)
    BY <1>4, <1>5
  <2> QED
    BY <2>1
<1> QED
  BY <1>1, <1>3, <1>6, EndIs

(* A path leads to a label of the document, under a word.                   *)
LEMMA FollowForm ==
  ASSUME NEW d, DocForm(d), NEW q, IsPath(q), NEW at, Trace(d, q, Len(q), at)
  PROVE  \A k \in 1 .. Len(q) : at[k] = Nowhere \/ Somewhere(d, at[k])
<1>0. Len(q) \in Nat
  BY PathLen
<1> DEFINE S == {n \in Nat : n + 1 <= Len(q) => at[n + 1] = Nowhere \/ Somewhere(d, at[n + 1])}
<1>1. 0 \in S
  <2> SUFFICES ASSUME 0 + 1 <= Len(q) PROVE at[0 + 1] = Nowhere \/ Somewhere(d, at[0 + 1])
    OBVIOUS
  <2>1. 1 \in 1 .. Len(q) /\ 0 + 1 = 1
    BY <1>0
  <2>2. at[1] = Root(d, q[1])
    BY <2>1 DEF Trace
  <2> QED
    BY <2>1, <2>2, RootForm
<1>2. ASSUME NEW n \in Nat, n \in S
      PROVE  n + 1 \in S
  <2> SUFFICES ASSUME n + 1 + 1 <= Len(q)
               PROVE  at[n + 1 + 1] = Nowhere \/ Somewhere(d, at[n + 1 + 1])
    OBVIOUS
  <2>1. n + 1 + 1 \in 1 .. Len(q) /\ n + 1 + 1 # 1 /\ (n + 1 + 1) - 1 = n + 1 /\ n + 1 <= Len(q)
    BY <1>0
  <2>2. at[n + 1 + 1] = Down(d, at[n + 1], q[n + 1 + 1])
    BY <2>1 DEF Trace
  <2>3. at[n + 1] = Nowhere \/ Somewhere(d, at[n + 1])
    BY <1>2, <2>1
  <2> QED
    BY <2>2, <2>3, DownForm
<1>3. \A n \in Nat : n \in S
  <2> HIDE DEF S
  <2> QED
    BY <1>1, <1>2, NatSetInduction
<1>4. ASSUME NEW k \in 1 .. Len(q)
      PROVE  at[k] = Nowhere \/ Somewhere(d, at[k])
  <2>1. k - 1 \in Nat /\ (k - 1) + 1 = k /\ k <= Len(q)
    BY <1>0
  <2>2. k - 1 \in S
    BY <1>3, <2>1
  <2> QED
    BY <2>1, <2>2
<1> QED
  BY <1>4

(* A path that does not lead nowhere leads somewhere.                       *)
LEMMA EndForm ==
  ASSUME NEW d, DocForm(d), NEW q, IsPath(q), Follow(d, q) # Nowhere
  PROVE  Somewhere(d, Follow(d, q))
<1>1. Len(q) \in Nat /\ Len(q) \in 1 .. Len(q)
  BY PathLen
<1>2. PICK at : Trace(d, q, Len(q), at) /\ Follow(d, q) = at[Len(q)]
  BY <1>1, FollowTrace
<1> QED
  BY <1>1, <1>2, FollowForm

-----------------------------------------------------------------------------
(* The paths of the placed parts and of the calls to come.                  *)

Cover(d, N, wp, M, wt) ==
  /\ \A i \in 1 .. N : IsPath(wp[i]) /\ PartAt(d, wp[i])
  /\ \A j \in 1 .. M : IsPath(wt[j])
  /\ \A i, k \in 1 .. N : wp[i] = wp[k] => i = k
  /\ \A i \in 1 .. N : \A j \in 1 .. M : ~Extends(wp[i], wt[j])
  /\ \A j, k \in 1 .. M : Extends(wt[k], wt[j]) => j = k
  /\ \A q : IsPath(q) /\ PartAt(d, q) =>
       \/ \E i \in 1 .. N : q = wp[i]
       \/ \E j \in 1 .. M : Extends(q, wt[j])

(* At the beginning every part is below one of the free shapes.             *)
LEMMA CoverBegin ==
  ASSUME NEW d, DocForm(d), NEW wp, NEW wt, \A j \in 1 .. Len(d.free) : wt[j] = <<j>>
  PROVE  Cover(d, 0, wp, Len(d.free), wt)
<1>0. d.free \in Seq(DOMAIN d.labels)
  BY Zenon DEF DocForm
<1> DEFINE M == Len(d.free)
<1>1. M \in Nat /\ DOMAIN d.free = 1 .. M
  BY <1>0
<1>2. \A j \in 1 .. M : wt[j] = <<j>>
  OBVIOUS
<1> HIDE DEF M
<1>3. ASSUME NEW j \in 1 .. M
      PROVE  IsPath(wt[j]) /\ Len(wt[j]) = 1 /\ wt[j][1] = j
  <2>1. j \in Nat /\ wt[j] = <<j>>
    BY <1>1, <1>2
  <2>2. IsPath(<<j>>)
    BY <2>1, FollowFirst
  <2> QED
    BY <2>1, <2>2
<1>4. ASSUME NEW j \in 1 .. M, NEW k \in 1 .. M, Extends(wt[k], wt[j])
      PROVE  j = k
  BY <1>3, <1>4 DEF Extends
<1>5. ASSUME NEW q, IsPath(q), PartAt(d, q)
      PROVE  \E j \in 1 .. M : Extends(q, wt[j])
  <2>1. Len(q) \in Nat /\ Len(q) >= 1 /\ q[1] \in Nat
    BY <1>5, PathLen
  <2>2. IsPath(<<q[1]>>) /\ Follow(d, <<q[1]>>) = Root(d, q[1])
    BY <2>1, FollowFirst
  <2>3. Extends(q, <<q[1]>>)
    BY <2>1 DEF Extends
  <2>4. Follow(d, q) # Nowhere
    BY <1>5 DEF PartAt
  <2>5. Root(d, q[1]) # Nowhere
    BY <1>5, <2>2, <2>3, <2>4, GoesThrough
  <2>6. q[1] \in 1 .. M
    BY <1>1, <2>5 DEF Root
  <2> QED
    BY <1>2, <2>3, <2>6
<1>6. \A i \in 1 .. 0 : FALSE
  OBVIOUS
<1>7. Cover(d, 0, wp, M, wt)
  BY <1>3, <1>4, <1>5, <1>6 DEF Cover
<1> QED
  BY <1>7 DEF M

(* A call that leads to no assembly has no part below it.                   *)
LEMMA NothingBelow ==
  ASSUME NEW d, NEW p, IsPath(p), NEW q, IsPath(q), PartAt(d, q), Extends(q, p),
         Follow(d, p) = Nowhere \/ d.labels[Follow(d, p).label].kind # "assembly"
  PROVE  q = p
<1>1. Follow(d, q) # Nowhere
  BY DEF PartAt
<1>2. /\ Follow(d, p) # Nowhere
      /\ Len(p) < Len(q) => d.labels[Follow(d, p).label].kind = "assembly"
      /\ Len(p) = Len(q) => q = p
  BY <1>1, GoesThrough
<1>3. Len(p) \in Nat /\ Len(q) \in Nat /\ Len(p) <= Len(q)
  BY PathLen DEF Extends
<1> QED
  BY <1>2, <1>3

(* A path to come that leads to no assembly and no part is dropped.         *)
LEMMA CoverSkip ==
  ASSUME NEW d, NEW N \in Nat, NEW wp, NEW M \in Nat, M >= 1, NEW wt, Cover(d, N, wp, M, wt),
         Follow(d, wt[1]) = Nowhere \/ d.labels[Follow(d, wt[1]).label].kind # "assembly",
         ~PartAt(d, wt[1]),
         NEW nt, \A j \in 1 .. M - 1 : nt[j] = wt[j + 1]
  PROVE  Cover(d, N, wp, M - 1, nt)
<1>0. /\ \A i \in 1 .. N : IsPath(wp[i]) /\ PartAt(d, wp[i])
      /\ \A j \in 1 .. M : IsPath(wt[j])
      /\ \A i, k \in 1 .. N : wp[i] = wp[k] => i = k
      /\ \A i \in 1 .. N : \A j \in 1 .. M : ~Extends(wp[i], wt[j])
      /\ \A j, k \in 1 .. M : Extends(wt[k], wt[j]) => j = k
      /\ \A q : IsPath(q) /\ PartAt(d, q) =>
           \/ \E i \in 1 .. N : q = wp[i]
           \/ \E j \in 1 .. M : Extends(q, wt[j])
  BY DEF Cover
<1>1. \A j \in 1 .. M - 1 : j + 1 \in 1 .. M
  OBVIOUS
<1>2. \A j \in 1 .. M : j # 1 => j - 1 \in 1 .. M - 1 /\ (j - 1) + 1 = j
  OBVIOUS
<1>3. 1 \in 1 .. M
  OBVIOUS
<1>4. \A j \in 1 .. M - 1 : IsPath(nt[j]) /\ \A i \in 1 .. N : ~Extends(wp[i], nt[j])
  BY <1>0, <1>1
<1>5. ASSUME NEW j \in 1 .. M - 1, NEW k \in 1 .. M - 1, Extends(nt[k], nt[j])
      PROVE  j = k
  <2>1. j + 1 = k + 1
    BY <1>0, <1>1, <1>5
  <2> QED
    BY <2>1
<1>6. ASSUME NEW q, IsPath(q), PartAt(d, q), \A i \in 1 .. N : q # wp[i]
      PROVE  \E j \in 1 .. M - 1 : Extends(q, nt[j])
  <2>1. PICK j \in 1 .. M : Extends(q, wt[j])
    BY <1>0, <1>6
  <2>2. j # 1
    <3> SUFFICES ASSUME j = 1 PROVE FALSE
      OBVIOUS
    <3>1. IsPath(wt[1]) /\ Extends(q, wt[1])
      BY <1>0, <2>1
    <3>2. q = wt[1]
      BY <1>6, <3>1, NothingBelow
    <3> QED
      BY <1>6, <3>2
  <2>3. j - 1 \in 1 .. M - 1 /\ nt[j - 1] = wt[j]
    BY <1>2, <2>2
  <2> QED
    BY <2>1, <2>3
<1> QED
  BY <1>0, <1>4, <1>5, <1>6 DEF Cover

(* A path to come that leads to a part becomes a placed one.                *)
LEMMA CoverPlace ==
  ASSUME NEW d, NEW N \in Nat, NEW wp, NEW M \in Nat, M >= 1, NEW wt, Cover(d, N, wp, M, wt),
         PartAt(d, wt[1]),
         NEW np, \A i \in 1 .. N : np[i] = wp[i], np[N + 1] = wt[1],
         NEW nt, \A j \in 1 .. M - 1 : nt[j] = wt[j + 1]
  PROVE  Cover(d, N + 1, np, M - 1, nt)
<1>0. /\ \A i \in 1 .. N : IsPath(wp[i]) /\ PartAt(d, wp[i])
      /\ \A j \in 1 .. M : IsPath(wt[j])
      /\ \A i, k \in 1 .. N : wp[i] = wp[k] => i = k
      /\ \A i \in 1 .. N : \A j \in 1 .. M : ~Extends(wp[i], wt[j])
      /\ \A j, k \in 1 .. M : Extends(wt[k], wt[j]) => j = k
      /\ \A q : IsPath(q) /\ PartAt(d, q) =>
           \/ \E i \in 1 .. N : q = wp[i]
           \/ \E j \in 1 .. M : Extends(q, wt[j])
  BY DEF Cover
<1>1. \A j \in 1 .. M - 1 : j + 1 \in 1 .. M /\ j + 1 # 1
  OBVIOUS
<1>2. \A j \in 1 .. M : j # 1 => j - 1 \in 1 .. M - 1 /\ (j - 1) + 1 = j
  OBVIOUS
<1>3. 1 \in 1 .. M /\ N + 1 \in 1 .. N + 1
  OBVIOUS
<1>n. /\ \A i \in 1 .. N + 1 : i \in 1 .. N \/ i = N + 1
      /\ \A i \in 1 .. N : i \in 1 .. N + 1
  OBVIOUS
<1>4. \A j \in 1 .. M - 1 : IsPath(nt[j])
  BY <1>0, <1>1
<1>5. ASSUME NEW j \in 1 .. M - 1, NEW k \in 1 .. M - 1, Extends(nt[k], nt[j])
      PROVE  j = k
  <2>1. j + 1 = k + 1
    BY <1>0, <1>1, <1>5
  <2> QED
    BY <2>1
<1>6. ASSUME NEW q, IsPath(q), PartAt(d, q), \A i \in 1 .. N + 1 : q # np[i]
      PROVE  \E j \in 1 .. M - 1 : Extends(q, nt[j])
  <2>0. (\A i \in 1 .. N : q # wp[i]) /\ q # wt[1]
    BY <1>3, <1>n, <1>6
  <2>1. PICK j \in 1 .. M : Extends(q, wt[j])
    BY <1>0, <1>6, <2>0
  <2>2. j # 1
    <3> SUFFICES ASSUME j = 1 PROVE FALSE
      OBVIOUS
    <3>1. IsPath(wt[1]) /\ Extends(q, wt[1])
      BY <1>0, <2>1
    <3>2. d.labels[Follow(d, wt[1]).label].kind # "assembly"
      BY DEF PartAt
    <3>3. q = wt[1]
      BY <1>6, <3>1, <3>2, NothingBelow
    <3> QED
      BY <2>0, <3>3
  <2>3. j - 1 \in 1 .. M - 1 /\ nt[j - 1] = wt[j]
    BY <1>2, <2>2
  <2> QED
    BY <2>1, <2>3
<1>7. \A i \in 1 .. N + 1 : IsPath(np[i]) /\ PartAt(d, np[i])
  BY <1>0, <1>3, <1>n
<1>8. \A p : IsPath(p) => Extends(p, p)
  BY PathLen DEF Extends
<1>9. ASSUME NEW i \in 1 .. N
      PROVE  wp[i] # wt[1]
  BY <1>0, <1>3, <1>8
<1>10. ASSUME NEW i \in 1 .. N + 1, NEW k \in 1 .. N + 1, np[i] = np[k]
       PROVE  i = k
  BY <1>0, <1>n, <1>9, <1>10
<1>11. ASSUME NEW i \in 1 .. N + 1, NEW j \in 1 .. M - 1
       PROVE  ~Extends(np[i], nt[j])
  BY <1>0, <1>1, <1>3, <1>n
<1> QED
  BY <1>4, <1>5, <1>6, <1>7, <1>10, <1>11 DEF Cover

(* A path extends what the paths it extends extend.                         *)
LEMMA ExtendsTwice ==
  ASSUME NEW p, IsPath(p), NEW q, IsPath(q), NEW r, IsPath(r), Extends(r, q), Extends(q, p)
  PROVE  Extends(r, p)
<1>1. Len(p) \in Nat /\ Len(q) \in Nat /\ Len(r) \in Nat
  BY PathLen
<1>2. Len(p) <= Len(q) /\ Len(q) <= Len(r)
  BY DEF Extends
<1>3. \A k \in 1 .. Len(p) : k \in 1 .. Len(q)
  BY <1>1, <1>2
<1> QED
  BY <1>1, <1>2, <1>3 DEF Extends

(* Of a path with an index more, the paths it extends are itself and those  *)
(* the path without it extends; one that extends it extends that one too.   *)
LEMMA ExtendsAppend ==
  ASSUME NEW p, IsPath(p), NEW i \in Nat, NEW r, IsPath(r), Extends(Append(p, i), r)
  PROVE  Extends(p, r) \/ Extends(r, p)
<1> DEFINE q == Append(p, i)
<1>1. /\ Len(p) \in Nat /\ Len(r) \in Nat
      /\ Len(q) = Len(p) + 1 /\ \A k \in 1 .. Len(p) : q[k] = p[k]
  BY PathLen, AppendPath
<1> HIDE DEF q
<1>2. Len(r) <= Len(q) /\ \A k \in 1 .. Len(r) : q[k] = r[k]
  BY DEF Extends, q
<1>3. CASE Len(r) <= Len(p)
  <2>1. \A k \in 1 .. Len(r) : k \in 1 .. Len(p)
    BY <1>1, <1>3
  <2> QED
    BY <1>1, <1>2, <1>3, <2>1 DEF Extends
<1>4. CASE Len(r) = Len(p) + 1
  <2>1. Len(p) <= Len(r) /\ \A k \in 1 .. Len(p) : k \in 1 .. Len(r)
    BY <1>1, <1>4
  <2> QED
    BY <1>1, <1>2, <2>1 DEF Extends
<1> QED
  BY <1>1, <1>2, <1>3, <1>4

(* A path to come that leads to an assembly makes way for its components.   *)
LEMMA CoverOpen ==
  ASSUME NEW d, NEW N \in Nat, NEW wp, NEW M \in Nat, M >= 1, NEW wt, Cover(d, N, wp, M, wt),
         d.labels[Follow(d, wt[1]).label].kind = "assembly",
         NEW n \in Nat, DOMAIN d.labels[Follow(d, wt[1]).label].comps = 1 .. n,
         NEW nt,
         \A j \in 1 .. n : nt[j] = Append(wt[1], j),
         \A j \in 2 .. M : nt[n + (j - 1)] = wt[j]
  PROVE  Cover(d, N, wp, n + (M - 1), nt)
<1>0. /\ \A i \in 1 .. N : IsPath(wp[i]) /\ PartAt(d, wp[i])
      /\ \A j \in 1 .. M : IsPath(wt[j])
      /\ \A i, k \in 1 .. N : wp[i] = wp[k] => i = k
      /\ \A i \in 1 .. N : \A j \in 1 .. M : ~Extends(wp[i], wt[j])
      /\ \A j, k \in 1 .. M : Extends(wt[k], wt[j]) => j = k
      /\ \A q : IsPath(q) /\ PartAt(d, q) =>
           \/ \E i \in 1 .. N : q = wp[i]
           \/ \E j \in 1 .. M : Extends(q, wt[j])
  BY DEF Cover
<1> DEFINE p == wt[1]
           L == n + (M - 1)
<1>1. 1 \in 1 .. M /\ IsPath(p)
  BY <1>0
<1>2. \A j \in 1 .. n : j \in Nat /\ j \in 1 .. L
  OBVIOUS
<1>3. \A j \in 2 .. M : n + (j - 1) \in 1 .. L /\ j \in 1 .. M /\ j # 1
  OBVIOUS
<1>4. \A j \in 1 .. L : j \in 1 .. n \/ \E i \in 2 .. M : j = n + (i - 1)
  <2> SUFFICES ASSUME NEW j \in 1 .. L, j \notin 1 .. n
               PROVE  \E i \in 2 .. M : j = n + (i - 1)
    OBVIOUS
  <2>1. j - n + 1 \in 2 .. M /\ j = n + ((j - n + 1) - 1)
    OBVIOUS
  <2> QED
    BY <2>1
<1>5. \A j \in 2 .. M : nt[n + (j - 1)] = wt[j]
  OBVIOUS
<1>6. \A j \in 1 .. n : nt[j] = Append(p, j)
  OBVIOUS
<1>k. d.labels[Follow(d, p).label].kind = "assembly" /\ DOMAIN d.labels[Follow(d, p).label].comps = 1 .. n
  OBVIOUS
<1>p. p = wt[1]
  OBVIOUS
<1> HIDE DEF L, p
<1>7. ASSUME NEW j \in 1 .. n
      PROVE  IsPath(nt[j]) /\ Extends(nt[j], p)
  <2>1. nt[j] = Append(p, j) /\ j \in Nat
    BY <1>2, <1>6
  <2> QED
    BY <1>1, <2>1, AppendPath
<1>r. ASSUME NEW m \in 2 .. M, NEW j, j = n + (m - 1)
      PROVE  nt[j] = wt[m] /\ m \in 1 .. M /\ m # 1 /\ IsPath(wt[m])
  <2>1. nt[j] = wt[m]
    BY <1>5, <1>r
  <2>2. m \in 1 .. M /\ m # 1
    BY <1>3
  <2> QED
    BY <1>0, <2>1, <2>2
<1>8. ASSUME NEW j \in 1 .. L
      PROVE  IsPath(nt[j])
  BY <1>4, <1>7, <1>r
<1>9. ASSUME NEW i \in 1 .. N, NEW j \in 1 .. L
      PROVE  ~Extends(wp[i], nt[j])
  <2>1. CASE j \in 1 .. n
    <3>1. ~Extends(wp[i], p)
      BY <1>0, <1>1, <1>p
    <3> QED
      BY <1>0, <1>1, <1>7, <2>1, <3>1, ExtendsTwice
  <2>2. ASSUME NEW m \in 2 .. M, j = n + (m - 1)
        PROVE  ~Extends(wp[i], nt[j])
    BY <1>0, <1>r, <2>2
  <2> QED
    BY <1>4, <2>1, <2>2
<1>10. ASSUME NEW j \in 1 .. L, NEW k \in 1 .. L, Extends(nt[k], nt[j])
       PROVE  j = k
  <2>1. CASE j \in 1 .. n /\ k \in 1 .. n
    <3>1. /\ Len(nt[j]) = Len(p) + 1 /\ nt[j][Len(p) + 1] = j
          /\ Len(nt[k]) = Len(p) + 1 /\ nt[k][Len(p) + 1] = k
      BY <1>1, <1>2, <1>6, <2>1, AppendPath
    <3>2. Len(p) \in Nat /\ Len(p) + 1 \in 1 .. Len(p) + 1
      <4>1. Len(p) \in Nat
        BY <1>1, PathLen
      <4> QED
        BY <4>1
    <3>3. nt[k][Len(p) + 1] = nt[j][Len(p) + 1]
      BY <1>10, <3>1, <3>2 DEF Extends
    <3> QED
      BY <3>1, <3>3
  <2>2. ASSUME k \in 1 .. n, NEW m \in 2 .. M, j = n + (m - 1)
        PROVE  FALSE
    <3>1. nt[j] = wt[m] /\ m \in 1 .. M /\ m # 1 /\ IsPath(wt[m])
      BY <1>0, <1>3, <1>5, <2>2
    <3>2. Extends(Append(p, k), wt[m])
      BY <1>6, <1>10, <2>2, <3>1
    <3>3. Extends(p, wt[m]) \/ Extends(wt[m], p)
      BY <1>1, <1>2, <2>2, <3>1, <3>2, ExtendsAppend
    <3> QED
      BY <1>0, <1>1, <1>p, <3>1, <3>3
  <2>3. ASSUME j \in 1 .. n, NEW m \in 2 .. M, k = n + (m - 1)
        PROVE  FALSE
    <3>1. nt[k] = wt[m] /\ m \in 1 .. M /\ m # 1 /\ IsPath(wt[m])
      BY <1>0, <1>3, <1>5, <2>3
    <3>2. Extends(wt[m], p)
      BY <1>1, <1>7, <1>10, <2>3, <3>1, ExtendsTwice
    <3> QED
      BY <1>0, <1>1, <1>p, <3>1, <3>2
  <2>4. ASSUME NEW m \in 2 .. M, j = n + (m - 1), NEW o \in 2 .. M, k = n + (o - 1)
        PROVE  j = k
    <3>1. nt[j] = wt[m] /\ nt[k] = wt[o] /\ m \in 1 .. M /\ o \in 1 .. M
      BY <1>3, <1>5, <2>4
    <3>2. m = o
      BY <1>0, <1>10, <3>1
    <3> QED
      BY <2>4, <3>2
  <2> QED
    BY <1>4, <2>1, <2>2, <2>3, <2>4
<1>11. ASSUME NEW q, IsPath(q), PartAt(d, q), \A i \in 1 .. N : q # wp[i]
       PROVE  \E j \in 1 .. L : Extends(q, nt[j])
  <2>1. PICK j \in 1 .. M : Extends(q, wt[j])
    BY <1>0, <1>11
  <2>2. CASE j # 1
    <3>1. j \in 2 .. M
      BY <2>2
    <3> QED
      BY <1>3, <1>5, <2>1, <3>1
  <2>3. CASE j = 1
    <3>1. Extends(q, p) /\ Follow(d, q) # Nowhere /\ d.labels[Follow(d, q).label].kind = "simple"
      BY <1>p, <1>11, <2>1, <2>3 DEF PartAt
    <3>2. /\ Len(p) < Len(q) =>
                /\ q[Len(p) + 1] \in DOMAIN d.labels[Follow(d, p).label].comps
                /\ Extends(q, Append(p, q[Len(p) + 1]))
          /\ Len(p) = Len(q) => q = p
      BY <1>1, <1>11, <3>1, GoesThrough
    <3>3. q # p
      BY <1>k, <3>1
    <3>4. Len(p) \in Nat /\ Len(q) \in Nat /\ Len(p) <= Len(q)
      BY <1>1, <1>11, <3>1, PathLen DEF Extends
    <3>5. Len(p) < Len(q)
      BY <3>2, <3>3, <3>4
    <3>6. q[Len(p) + 1] \in 1 .. n /\ Extends(q, Append(p, q[Len(p) + 1]))
      BY <1>k, <3>2, <3>5
    <3> QED
      BY <1>2, <1>6, <3>6
  <2> QED
    BY <2>2, <2>3
<1>12. Cover(d, N, wp, L, nt)
  BY <1>0, <1>8, <1>9, <1>10, <1>11 DEF Cover
<1> QED
  BY <1>12 DEF L

-----------------------------------------------------------------------------
(* No path to somewhere is longer than the assemblies are many.             *)

(* The components of a label are a list of references to labels, or none.   *)
LEMMA FormComps ==
  ASSUME NEW d, DocForm(d), NEW l \in DOMAIN d.labels
  PROVE  /\ Len(d.labels[l].comps) \in Nat
         /\ DOMAIN d.labels[l].comps = 1 .. Len(d.labels[l].comps)
         /\ \A i \in DOMAIN d.labels[l].comps : d.labels[l].comps[i].ref \in DOMAIN d.labels \cup {""}
<1>1. \A m \in DOMAIN d.labels :
        /\ Len(d.labels[m].comps) \in Nat
        /\ DOMAIN d.labels[m].comps = 1 .. Len(d.labels[m].comps)
        /\ \A i \in DOMAIN d.labels[m].comps : d.labels[m].comps[i].ref \in DOMAIN d.labels \cup {""}
  BY Zenon DEF DocForm
<1> QED
  BY <1>1

(* The labels are finitely many, and no assembly is inside itself.          *)
LEMMA FormLabels ==
  ASSUME NEW d, DocForm(d)
  PROVE  /\ IsFiniteSet(DOMAIN d.labels) /\ "" \notin DOMAIN d.labels
         /\ d.free \in Seq(DOMAIN d.labels)
         /\ \A S \in SUBSET DOMAIN d.labels : S # {} =>
              \E l \in S : \A i \in DOMAIN d.labels[l].comps : d.labels[l].comps[i].ref \notin S
  BY Zenon DEF DocForm

(* A path that leads somewhere is among those that Occurrences counts.      *)
LEMMA PathInPaths ==
  ASSUME NEW d, DocForm(d), NEW q, IsPath(q), Follow(d, q) # Nowhere
  PROVE  q \in Paths(d)
<1>0. Len(q) \in Nat /\ Len(q) >= 1 /\ q = [k \in 1 .. Len(q) |-> q[k]]
  BY PathLen
<1>1. PICK at : Trace(d, q, Len(q), at) /\ Follow(d, q) = at[Len(q)]
  BY <1>0, FollowTrace
<1>2. \A k \in 1 .. Len(q) : at[k] # Nowhere /\ at[k].label \in DOMAIN d.labels
  <2>1. \A k \in 1 .. Len(q) : at[k] # Nowhere
    BY <1>1, AllSomewhere
  <2>2. \A k \in 1 .. Len(q) : at[k] = Nowhere \/ Somewhere(d, at[k])
    BY <1>1, FollowForm
  <2> QED
    BY <2>1, <2>2, Zenon DEF Somewhere
<1>3. ASSUME NEW k \in 1 .. Len(q) - 1
      PROVE  /\ at[k].label \in Assemblies(d)
             /\ q[k + 1] \in DOMAIN d.labels[at[k].label].comps
             /\ at[k + 1].label = d.labels[at[k].label].comps[q[k + 1]].ref
  <2>1. k + 1 \in 1 .. Len(q) /\ k + 1 # 1 /\ (k + 1) - 1 = k /\ k \in 1 .. Len(q)
    BY <1>0
  <2>2. at[k + 1] = Down(d, at[k], q[k + 1])
    BY <1>1, <2>1 DEF Trace
  <2>3. at[k + 1] # Nowhere /\ at[k] # Nowhere /\ at[k].label \in DOMAIN d.labels
    BY <1>2, <2>1
  <2>4. /\ d.labels[at[k].label].kind = "assembly"
        /\ q[k + 1] \in DOMAIN d.labels[at[k].label].comps
    BY <2>2, <2>3 DEF Down
  <2>5. at[k + 1].label = d.labels[at[k].label].comps[q[k + 1]].ref
    <3> DEFINE c == d.labels[at[k].label].comps[q[k + 1]]
               t == at[k].trsf \o LocationToTrsf(c.loc)
    <3>1. at[k + 1] = [label |-> c.ref, trsf |-> t]
      BY <2>2, <2>3, <2>4, Zenon DEF Down
    <3> HIDE DEF c, t
    <3>2. at[k + 1].label = c.ref
      BY <3>1
    <3> QED
      BY <3>2 DEF c
  <2> QED
    BY <2>3, <2>4, <2>5 DEF Assemblies
<1>4. ASSUME NEW k \in 1 .. Len(q)
      PROVE  q[k] \in Indexes(d)
  <2>1. CASE k = 1
    <3>1. at[1] = Root(d, q[1]) /\ at[1] # Nowhere
      BY <1>0, <1>1, <1>2, <2>1 DEF Trace
    <3>2. q[1] \in DOMAIN d.free
      BY <3>1 DEF Root
    <3> QED
      BY <2>1, <3>2 DEF Indexes
  <2>2. CASE k # 1
    <3>1. k - 1 \in 1 .. Len(q) - 1 /\ (k - 1) + 1 = k
      BY <1>0, <2>2
    <3>2. at[k - 1].label \in DOMAIN d.labels /\ q[k] \in DOMAIN d.labels[at[k - 1].label].comps
      BY <1>3, <3>1 DEF Assemblies
    <3> QED
      BY <3>2 DEF Indexes
  <2> QED
    BY <2>1, <2>2
<1>5. ASSUME NEW i \in 1 .. Len(q) - 1, NEW j \in 1 .. Len(q) - 1, i < j, at[i].label = at[j].label
      PROVE  FALSE
  <2> DEFINE S == {at[k].label : k \in i .. j - 1}
  <2>0. Len(q) - 1 \in Nat
    BY <1>0
  <2>1. i \in i .. j - 1 /\ \A k \in i .. j - 1 : k \in 1 .. Len(q) - 1
    BY <1>5, <2>0
  <2>2. S \in SUBSET DOMAIN d.labels /\ S # {}
    BY <1>3, <2>1 DEF Assemblies
  <2>3. PICK l \in S : \A m \in DOMAIN d.labels[l].comps : d.labels[l].comps[m].ref \notin S
    <3> HIDE DEF S
    <3> QED
      BY <2>2, FormLabels
  <2>4. PICK k \in i .. j - 1 : l = at[k].label
    BY <2>3
  <2>5. q[k + 1] \in DOMAIN d.labels[l].comps /\ at[k + 1].label = d.labels[l].comps[q[k + 1]].ref
    BY <1>3, <2>1, <2>4
  <2>6. at[k + 1].label \in S
    <3>1. k + 1 \in i .. j - 1 \/ k + 1 = j
      BY <1>5, <2>0
    <3> QED
      BY <1>5, <2>1, <3>1
  <2> QED
    BY <2>3, <2>5, <2>6
<1>6. Len(q) - 1 <= Cardinality(Assemblies(d)) /\ Cardinality(Assemblies(d)) \in Nat
  <2> DEFINE n == Len(q) - 1
             f == [k \in 1 .. n |-> at[k].label]
  <2>1. n \in Nat /\ n \in Int
    BY <1>0
  <2>2. f \in [1 .. n -> Assemblies(d)]
    BY <1>3
  <2>3. ASSUME NEW i \in 1 .. n, NEW j \in 1 .. n, f[i] = f[j]
        PROVE  i = j
    <3>1. at[i].label = at[j].label
      BY <2>3
    <3>2. ~(i < j) /\ ~(j < i)
      BY <1>5, <3>1
    <3> QED
      BY <2>1, <3>2
  <2>4. IsFiniteSet(Assemblies(d))
    <3>1. IsFiniteSet(DOMAIN d.labels) /\ Assemblies(d) \in SUBSET DOMAIN d.labels
      BY FormLabels DEF Assemblies
    <3> QED
      BY <3>1, FS_Subset
  <2>5. f \in Injection(1 .. n, Assemblies(d))
    <3> HIDE DEF f
    <3> QED
      BY <2>2, <2>3, Fun_IsInj
  <2>6. Cardinality(1 .. n) <= Cardinality(Assemblies(d))
    <3> HIDE DEF f, n
    <3> QED
      BY <2>4, <2>5, FS_Injection
  <2>7. Cardinality(1 .. n) = n
    <3>1. 1 \in Int
      OBVIOUS
    <3>2. Cardinality(1 .. n) = IF 1 > n THEN 0 ELSE n - 1 + 1
      <4> HIDE DEF n
      <4> QED
        BY <2>1, <3>1, FS_Interval
    <3> HIDE DEF n
    <3> QED
      BY <2>1, <3>2
  <2>8. Cardinality(Assemblies(d)) \in Nat
    BY <2>4, FS_CardinalityType
  <2> QED
    BY <2>6, <2>7, <2>8
<1>7. Len(q) \in 1 .. Cardinality(Assemblies(d)) + 1
  BY <1>0, <1>6
<1>8. q \in [1 .. Len(q) -> Indexes(d)]
  BY <1>0, <1>4
<1> QED
  BY <1>7, <1>8 DEF Paths

(* What Occurrences counts are paths.                                       *)
LEMMA PathsArePaths ==
  ASSUME NEW d, DocForm(d), NEW q \in Paths(d)
  PROVE  IsPath(q)
<1>0. IsFiniteSet(Assemblies(d))
  <2>1. IsFiniteSet(DOMAIN d.labels) /\ Assemblies(d) \in SUBSET DOMAIN d.labels
    BY FormLabels DEF Assemblies
  <2> QED
    BY <2>1, FS_Subset
<1>1. Cardinality(Assemblies(d)) \in Nat
  BY <1>0, FS_CardinalityType
<1>2. PICK n \in 1 .. Cardinality(Assemblies(d)) + 1 : q \in [1 .. n -> Indexes(d)]
  BY DEF Paths
<1>3. n \in Nat /\ n >= 1 /\ 1 \in 1 .. n
  BY <1>1
<1>4. Indexes(d) \subseteq Nat
  <2>1. DOMAIN d.free \subseteq Nat
    <3>1. d.free \in Seq(DOMAIN d.labels)
      BY FormLabels
    <3> QED
      BY <3>1
  <2>2. ASSUME NEW l \in DOMAIN d.labels
        PROVE  DOMAIN d.labels[l].comps \subseteq Nat
    <3>1. DOMAIN d.labels[l].comps = 1 .. Len(d.labels[l].comps) /\ Len(d.labels[l].comps) \in Nat
      BY FormComps
    <3> QED
      BY <3>1
  <2> QED
    BY <2>1, <2>2 DEF Indexes
<1>5. q \in [1 .. n -> Nat]
  BY <1>2, <1>4
<1>6. q \in Seq(Nat) /\ q # <<>>
  BY <1>3, <1>5
<1> QED
  BY <1>6 DEF IsPath

-----------------------------------------------------------------------------
(* Every part placed once: the placements count the occurrences.            *)

(* Each placement is the part its path leads to, recentred there.           *)
PlacedAs(d, wp, placed, parts) ==
  \A i \in DOMAIN placed :
    /\ parts[placed[i].part].label = Follow(d, wp[i]).label
    /\ placed[i].trsf = Follow(d, wp[i]).trsf \o <<<<Follow(d, wp[i]).label, 1>>>>

(* The occurrences of parts in a document.                                  *)
OccurrencesOf(d) == {[at |-> p, end |-> Follow(d, p)] : p \in {q \in Paths(d) : PartAt(d, q)}}

(* Words that are the same with a last letter more are the same.            *)
LEMMA CancelLast ==
  ASSUME NEW D, NEW s \in Seq(D), NEW E, NEW t \in Seq(E), NEW x, s \o <<x>> = t \o <<x>>
  PROVE  s = t
<1>1. s \in Seq(D \cup E \cup {x}) /\ t \in Seq(D \cup E \cup {x}) /\ <<x>> \in Seq(D \cup E \cup {x})
  OBVIOUS
<1>2. /\ Len(s \o <<x>>) = Len(s) + 1 /\ Len(t \o <<x>>) = Len(t) + 1
      /\ Len(s) \in Nat /\ Len(t) \in Nat
      /\ \A k \in 1 .. Len(s) : (s \o <<x>>)[k] = s[k]
      /\ \A k \in 1 .. Len(t) : (t \o <<x>>)[k] = t[k]
  BY <1>1
<1>3. Len(s) = Len(t)
  BY <1>2
<1>4. \A k \in 1 .. Len(s) : s[k] = t[k]
  BY <1>2, <1>3
<1>5. s = [k \in 1 .. Len(s) |-> s[k]] /\ t = [k \in 1 .. Len(t) |-> t[k]]
  OBVIOUS
<1> QED
  BY <1>3, <1>4, <1>5

(* Where a recentred part belongs tells where its path leads.               *)
LEMMA SameEnd ==
  ASSUME NEW d, NEW x, Somewhere(d, x), NEW y, Somewhere(d, y), x.label = y.label,
         x.trsf \o <<<<x.label, 1>>>> = y.trsf \o <<<<y.label, 1>>>>
  PROVE  x = y
<1>1. PICK D : x.trsf \in Seq(D)
  BY DEF Somewhere
<1>2. PICK E : y.trsf \in Seq(E)
  BY DEF Somewhere
<1>3. x.trsf = y.trsf
  BY <1>1, <1>2, CancelLast
<1> QED
  BY <1>3 DEF Somewhere

(* What PartsStayInPlace says of the placements of an assembly.             *)
PlacedOnce(occ, placed, parts) ==
  /\ Len(placed) = Cardinality(occ)
  /\ \A o \in occ :
       Cardinality({i \in DOMAIN placed :
                      /\ parts[placed[i].part].label = o.end.label
                      /\ placed[i].trsf = o.end.trsf \o <<<<o.end.label, 1>>>>})
       = Cardinality({q \in occ : q.end = o.end})

(* When no path is to come, the placements count the occurrences.           *)
LEMMA CoverCounts ==
  ASSUME NEW d, DocForm(d), NEW U, NEW placed \in Seq(U), NEW parts, NEW wp, NEW wt,
         Cover(d, Len(placed), wp, 0, wt), PlacedAs(d, wp, placed, parts)
  PROVE  PlacedOnce(OccurrencesOf(d), placed, parts)
<1> DEFINE N == Len(placed)
           occ == OccurrencesOf(d)
           f == [i \in 1 .. N |-> [at |-> wp[i], end |-> Follow(d, wp[i])]]
<1>0. N \in Nat /\ DOMAIN placed = 1 .. N
  OBVIOUS
<1>1. /\ \A i \in 1 .. N : IsPath(wp[i]) /\ PartAt(d, wp[i])
      /\ \A i, k \in 1 .. N : wp[i] = wp[k] => i = k
      /\ \A q : IsPath(q) /\ PartAt(d, q) => \E i \in 1 .. N : q = wp[i]
  <2>1. \A j \in 1 .. 0 : FALSE
    OBVIOUS
  <2>2. \A q : IsPath(q) /\ PartAt(d, q) =>
          (\E i \in 1 .. N : q = wp[i]) \/ \E j \in 1 .. 0 : Extends(q, wt[j])
    BY Zenon DEF Cover
  <2>3. /\ \A i \in 1 .. N : IsPath(wp[i]) /\ PartAt(d, wp[i])
        /\ \A i, k \in 1 .. N : wp[i] = wp[k] => i = k
    BY Zenon DEF Cover
  <2> QED
    BY <2>1, <2>2, <2>3
<1>p. \A i \in 1 .. N : /\ parts[placed[i].part].label = Follow(d, wp[i]).label
                        /\ placed[i].trsf = Follow(d, wp[i]).trsf \o <<<<Follow(d, wp[i]).label, 1>>>>
  BY <1>0 DEF PlacedAs
<1>2. \A i \in 1 .. N : f[i].at = wp[i] /\ f[i].end = Follow(d, wp[i])
  OBVIOUS
<1>3. \A i \in 1 .. N : f[i] \in occ
  <2> SUFFICES ASSUME NEW i \in 1 .. N PROVE f[i] \in occ
    OBVIOUS
  <2>1. IsPath(wp[i]) /\ PartAt(d, wp[i]) /\ Follow(d, wp[i]) # Nowhere
    BY <1>1 DEF PartAt
  <2>2. wp[i] \in Paths(d)
    BY <2>1, PathInPaths
  <2> QED
    BY <2>1, <2>2 DEF OccurrencesOf
<1>4. \A o \in occ : \E i \in 1 .. N : f[i] = o
  <2> SUFFICES ASSUME NEW o \in occ PROVE \E i \in 1 .. N : f[i] = o
    OBVIOUS
  <2>1. PICK p \in Paths(d) : PartAt(d, p) /\ o = [at |-> p, end |-> Follow(d, p)]
    BY DEF OccurrencesOf
  <2>2. IsPath(p)
    BY PathsArePaths
  <2>3. PICK i \in 1 .. N : p = wp[i]
    BY <1>1, <2>1, <2>2
  <2> QED
    BY <2>1, <2>3
<1>5. \A i, k \in 1 .. N : f[i] = f[k] => i = k
  <2> SUFFICES ASSUME NEW i \in 1 .. N, NEW k \in 1 .. N, f[i] = f[k] PROVE i = k
    OBVIOUS
  <2>1. wp[i] = wp[k]
    <3> HIDE DEF f
    <3> QED
      BY <1>2
  <2> QED
    BY <1>1, <2>1
<1>f. DOMAIN f = 1 .. N /\ f = [i \in 1 .. N |-> f[i]]
  OBVIOUS
<1> HIDE DEF f, occ, N
<1>6. Cardinality(occ) = N
  <2>1. f \in [1 .. N -> occ]
    BY <1>3, <1>f
  <2>2. f \in Bijection(1 .. N, occ)
    BY <2>1, <1>4, <1>5 DEF Bijection, Injection, Surjection, IsInjective
  <2>3. ExistsBijection(1 .. N, occ)
    BY <2>2 DEF ExistsBijection
  <2> QED
    BY <1>0, <2>3, FS_CountingElements
<1>7. ASSUME NEW o \in occ
      PROVE  Cardinality({i \in DOMAIN placed :
                      /\ parts[placed[i].part].label = o.end.label
                      /\ placed[i].trsf = o.end.trsf \o <<<<o.end.label, 1>>>>})
             = Cardinality({q \in occ : q.end = o.end})
  <2> DEFINE A == {i \in DOMAIN placed :
                      /\ parts[placed[i].part].label = o.end.label
                      /\ placed[i].trsf = o.end.trsf \o <<<<o.end.label, 1>>>>}
             B == {q \in occ : q.end = o.end}
             g == [i \in A |-> f[i]]
  <2>1. \A i \in 1 .. N : Somewhere(d, f[i].end)
    <3> SUFFICES ASSUME NEW i \in 1 .. N PROVE Somewhere(d, f[i].end)
      OBVIOUS
    <3>1. IsPath(wp[i]) /\ Follow(d, wp[i]) # Nowhere
      BY <1>1 DEF PartAt
    <3>2. Somewhere(d, Follow(d, wp[i]))
      BY <3>1, EndForm
    <3> QED
      BY <1>2, <3>2
  <2>2. Somewhere(d, o.end)
    BY <1>4, <2>1
  <2>3. ASSUME NEW i \in 1 .. N
        PROVE  i \in A <=> f[i].end = o.end
    <3>1. /\ parts[placed[i].part].label = f[i].end.label
          /\ placed[i].trsf = f[i].end.trsf \o <<<<f[i].end.label, 1>>>>
      BY <1>2, <1>p
    <3>2. f[i].end = o.end => i \in A
      BY <1>0, <3>1
    <3>3. ASSUME i \in A PROVE f[i].end = o.end
      <4>1. /\ f[i].end.label = o.end.label
            /\ f[i].end.trsf \o <<<<f[i].end.label, 1>>>> = o.end.trsf \o <<<<o.end.label, 1>>>>
        BY <3>1, <3>3
      <4> QED
        BY <2>1, <2>2, <4>1, SameEnd
    <3> QED
      BY <3>2, <3>3
  <2>4. A \subseteq 1 .. N
    BY <1>0
  <2>5. IsFiniteSet(A)
    <3>1. IsFiniteSet(1 .. N)
      <4>1. 1 \in Int /\ N \in Int
        BY <1>0
      <4> QED
        BY <4>1, FS_Interval
    <3> HIDE DEF A
    <3> QED
      BY <2>4, <3>1, FS_Subset
  <2> HIDE DEF A
  <2>6. \A i \in A : g[i] = f[i] /\ g[i] \in B
    BY <1>3, <2>3, <2>4
  <2>7. DOMAIN g = A /\ g = [i \in A |-> g[i]]
    OBVIOUS
  <2>8. ASSUME NEW q \in B
        PROVE  \E i \in A : g[i] = q
    <3>1. PICK i \in 1 .. N : f[i] = q
      BY <1>4
    <3>2. i \in A
      BY <2>3, <3>1
    <3> QED
      BY <3>1, <3>2
  <2> HIDE DEF g, B
  <2>9. \A i, k \in A : g[i] = g[k] => i = k
    BY <1>5, <2>4, <2>6
  <2>10. g \in [A -> B]
    BY <2>6, <2>7
  <2>11. g \in Bijection(A, B)
    BY <2>8, <2>9, <2>10 DEF Bijection, Injection, Surjection, IsInjective
  <2>12. ExistsBijection(A, B)
    BY <2>11 DEF ExistsBijection
  <2>13. Cardinality(B) = Cardinality(A)
    BY <2>5, <2>12, FS_Bijection
  <2> QED
    BY <2>13 DEF A, B
<1> QED
  BY <1>6, <1>7 DEF PlacedOnce, N, occ

-----------------------------------------------------------------------------
(* The calls to come lead where their paths do. *)

(* Each call to come is for what its path leads to.                         *)
CallsFollow(d, wt, next) ==
  \A j \in DOMAIN next : Follow(d, wt[j]) = IF next[j].label = "" THEN Nowhere ELSE next[j]

(* What a call leads to: nothing to place, a part, or an assembly.          *)
CallToNothing(d, h) ==
  \/ h.label = ""
  \/ /\ d.labels[h.label].kind # "assembly"
     /\ d.labels[h.label].kind # "simple" \/ d.labels[h.label].shape # "solid"

CallToPart(d, h) ==
  /\ h.label # ""
  /\ d.labels[h.label].kind = "simple" /\ d.labels[h.label].shape = "solid"

CallToAssembly(d, h) ==
  /\ h.label # "" /\ h.label \in DOMAIN d.labels
  /\ d.labels[h.label].kind = "assembly"

(* The calls for the components c of what the call h leads to. *)
Descent(h, c) == [i \in DOMAIN c |-> [label |-> c[i].ref, trsf |-> Compose(h.trsf, c[i].loc)]]

(* The calls for the free shapes.                                           *)
Roots(d) == [i \in DOMAIN d.free |-> [label |-> d.free[i], trsf |-> Identity]]

(* The walk of a document: some paths are placed, the others to come.       *)
Walked(d, placed, parts, next) ==
  \E wp, wt :
    /\ Cover(d, Len(placed), wp, Len(next), wt)
    /\ PlacedAs(d, wp, placed, parts)
    /\ CallsFollow(d, wt, next)

(* A walk begins with the calls for the free shapes, and no placement.      *)
LEMMA WalkBegins ==
  ASSUME NEW d, DocForm(d), NEW parts
  PROVE  Walked(d, <<>>, parts, Roots(d))
<1>0. d.free \in Seq(DOMAIN d.labels)
  BY FormLabels
<1>1. /\ Len(d.free) \in Nat /\ DOMAIN d.free = 1 .. Len(d.free)
      /\ \A j \in DOMAIN d.free : d.free[j] \in DOMAIN d.labels
  BY <1>0
<1>s. "" \notin DOMAIN d.labels
  BY FormLabels
<1> DEFINE wt == [j \in 1 .. Len(d.free) |-> <<j>>]
           next == Roots(d)
<1>2. DOMAIN next = 1 .. Len(d.free) /\ Len(next) = Len(d.free)
  BY <1>1 DEF Roots
<1>3. \A j \in 1 .. Len(d.free) : wt[j] = <<j>>
  OBVIOUS
<1> HIDE DEF wt
<1>4. Cover(d, 0, <<>>, Len(d.free), wt)
  BY <1>3, CoverBegin
<1>5. ASSUME NEW j \in DOMAIN next
      PROVE  Follow(d, wt[j]) = IF next[j].label = "" THEN Nowhere ELSE next[j]
  <2>0. j \in Nat /\ j \in DOMAIN d.free /\ d.free[j] \in DOMAIN d.labels
    BY <1>1, <1>2
  <2>1. j \in Nat /\ j \in DOMAIN d.free /\ d.free[j] # ""
    BY <1>s, <2>0
  <2>2. Follow(d, wt[j]) = Root(d, j)
    BY <1>1, <1>3, <2>1, FollowFirst
  <2> DEFINE r == [label |-> d.free[j], trsf |-> Identity]
  <2>3. next[j] = r /\ Root(d, j) = r
    BY <2>1 DEF Roots, Root
  <2>4. r.label # ""
    BY <2>1
  <2> HIDE DEF r, next
  <2> QED
    BY <2>2, <2>3, <2>4
<1> HIDE DEF next
<1>6. CallsFollow(d, wt, next)
  BY <1>5 DEF CallsFollow
<1>7. Len(<<>>) = 0 /\ DOMAIN <<>> = {}
  OBVIOUS
<1>8. PlacedAs(d, <<>>, <<>>, parts)
  BY <1>7 DEF PlacedAs
<1>9. Walked(d, <<>>, parts, next)
  BY <1>2, <1>4, <1>6, <1>7, <1>8 DEF Walked
<1> QED
  BY <1>9 DEF next

(* The calls that remain when the first has been taken.                     *)
LEMMA TailCalls ==
  ASSUME NEW U, NEW next \in Seq(U), next # <<>>
  PROVE  /\ Len(next) \in Nat /\ Len(next) >= 1 /\ DOMAIN next = 1 .. Len(next)
         /\ Tail(next) \in Seq(U) /\ Len(Tail(next)) = Len(next) - 1
         /\ DOMAIN Tail(next) = 1 .. Len(next) - 1
         /\ \A j \in 1 .. Len(next) - 1 : Tail(next)[j] = next[j + 1] /\ j + 1 \in 1 .. Len(next)
         /\ Head(next) = next[1]
  OBVIOUS

(* A call that leads to no assembly and no part is skipped.                 *)
LEMMA WalkSkips ==
  ASSUME NEW d, NEW V, NEW placed \in Seq(V), NEW parts, NEW U, NEW next \in Seq(U), next # <<>>,
         Walked(d, placed, parts, next),
         CallToNothing(d, Head(next))
  PROVE  Walked(d, placed, parts, Tail(next))
<1>1. PICK wp, wt : /\ Cover(d, Len(placed), wp, Len(next), wt)
                    /\ PlacedAs(d, wp, placed, parts)
                    /\ CallsFollow(d, wt, next)
  BY DEF Walked
<1> DEFINE M == Len(next)
           h == Head(next)
           nt == [j \in 1 .. M - 1 |-> wt[j + 1]]
<1>2. /\ M \in Nat /\ M >= 1 /\ DOMAIN next = 1 .. M /\ h = next[1]
      /\ Len(Tail(next)) = M - 1 /\ DOMAIN Tail(next) = 1 .. M - 1
      /\ \A j \in 1 .. M - 1 : Tail(next)[j] = next[j + 1] /\ j + 1 \in 1 .. M
  BY TailCalls
<1>3. \A j \in 1 .. M - 1 : nt[j] = wt[j + 1]
  OBVIOUS
<1>r. 1 \in DOMAIN next
  BY <1>2
<1>h. h = next[1]
  BY <1>2
<1> HIDE DEF nt, h
<1>4. Follow(d, wt[1]) = IF h.label = "" THEN Nowhere ELSE h
  BY <1>1, <1>h, <1>r, Zenon DEF CallsFollow
<1>5. /\ Follow(d, wt[1]) = Nowhere \/ d.labels[Follow(d, wt[1]).label].kind # "assembly"
      /\ ~PartAt(d, wt[1])
  BY <1>4 DEF PartAt, CallToNothing, h
<1>6. Len(placed) \in Nat
  OBVIOUS
<1>7. Cover(d, Len(placed), wp, M - 1, nt)
  BY <1>1, <1>2, <1>3, <1>5, <1>6, CoverSkip
<1>8. CallsFollow(d, nt, Tail(next))
  <2> SUFFICES ASSUME NEW j \in 1 .. M - 1
               PROVE  Follow(d, nt[j]) = IF Tail(next)[j].label = "" THEN Nowhere ELSE Tail(next)[j]
    BY <1>2 DEF CallsFollow
  <2>1. j + 1 \in DOMAIN next /\ Tail(next)[j] = next[j + 1] /\ nt[j] = wt[j + 1]
    BY <1>2, <1>3
  <2> QED
    BY <1>1, <2>1 DEF CallsFollow
<1> QED
  BY <1>1, <1>2, <1>7, <1>8 DEF Walked

(* A call that leads to a part places it.                                   *)
LEMMA WalkPlaces ==
  ASSUME NEW d, NEW V, NEW placed \in Seq(V), NEW parts, NEW U, NEW next \in Seq(U), next # <<>>,
         Walked(d, placed, parts, next),
         CallToPart(d, Head(next)),
         NEW new, \A i \in DOMAIN placed : new[placed[i].part].label = parts[placed[i].part].label,
         NEW part, new[part].label = Head(next).label
  PROVE  Walked(d, Append(placed, Placement(part, Head(next).trsf, <<<<Head(next).label, 1>>>>)), new,
                Tail(next))
<1>1. PICK wp, wt : /\ Cover(d, Len(placed), wp, Len(next), wt)
                    /\ PlacedAs(d, wp, placed, parts)
                    /\ CallsFollow(d, wt, next)
  BY DEF Walked
<1> DEFINE M == Len(next)
           N == Len(placed)
           h == Head(next)
           x == Placement(part, h.trsf, <<<<h.label, 1>>>>)
           np == [i \in 1 .. N + 1 |-> IF i = N + 1 THEN wt[1] ELSE wp[i]]
           nt == [j \in 1 .. M - 1 |-> wt[j + 1]]
<1>2. /\ M \in Nat /\ M >= 1 /\ DOMAIN next = 1 .. M /\ h = next[1]
      /\ Len(Tail(next)) = M - 1 /\ DOMAIN Tail(next) = 1 .. M - 1
      /\ \A j \in 1 .. M - 1 : Tail(next)[j] = next[j + 1] /\ j + 1 \in 1 .. M
  BY TailCalls
<1>3. \A j \in 1 .. M - 1 : nt[j] = wt[j + 1]
  OBVIOUS
<1>n. N \in Nat /\ DOMAIN placed = 1 .. N
  OBVIOUS
<1>4. (\A i \in 1 .. N : np[i] = wp[i]) /\ np[N + 1] = wt[1]
  BY <1>n
<1>r. 1 \in DOMAIN next /\ h = next[1]
  BY <1>2
<1>5. Follow(d, wt[1]) = h
  BY <1>1, <1>r DEF CallsFollow, CallToPart
<1>6. x.part = part /\ x.trsf = h.trsf \o <<<<h.label, 1>>>>
  BY DEF Placement
<1>7. /\ Len(Append(placed, x)) = N + 1 /\ DOMAIN Append(placed, x) = 1 .. N + 1
      /\ \A i \in 1 .. N : Append(placed, x)[i] = placed[i]
      /\ Append(placed, x)[N + 1] = x
  <2> HIDE DEF x
  <2> QED
    BY <1>n, AppendValues
<1> HIDE DEF nt, np, x
<1>8. PartAt(d, wt[1])
  <2>1. h # Nowhere
    <3>1. Nowhere.label = "" /\ h.label # ""
      BY DEF Nowhere, CallToPart
    <3> QED
      BY <3>1
  <2> QED
    BY <1>5, <2>1 DEF PartAt, CallToPart
<1>9. Cover(d, N + 1, np, M - 1, nt)
  BY <1>1, <1>2, <1>3, <1>4, <1>8, <1>n, CoverPlace
<1>10. CallsFollow(d, nt, Tail(next))
  <2> SUFFICES ASSUME NEW j \in 1 .. M - 1
               PROVE  Follow(d, nt[j]) = IF Tail(next)[j].label = "" THEN Nowhere ELSE Tail(next)[j]
    BY <1>2 DEF CallsFollow
  <2>1. j + 1 \in DOMAIN next /\ Tail(next)[j] = next[j + 1] /\ nt[j] = wt[j + 1]
    BY <1>2, <1>3
  <2> QED
    BY <1>1, <2>1 DEF CallsFollow
<1>11. PlacedAs(d, np, Append(placed, x), new)
  <2> SUFFICES ASSUME NEW i \in 1 .. N + 1
               PROVE  /\ new[Append(placed, x)[i].part].label = Follow(d, np[i]).label
                      /\ Append(placed, x)[i].trsf =
                           Follow(d, np[i]).trsf \o <<<<Follow(d, np[i]).label, 1>>>>
    BY <1>7 DEF PlacedAs
  <2>1. CASE i = N + 1
    BY <1>4, <1>5, <1>6, <1>7, <2>1
  <2>2. CASE i # N + 1
    <3>1. i \in 1 .. N
      BY <1>n, <2>2
    <3>2. /\ parts[placed[i].part].label = Follow(d, wp[i]).label
          /\ placed[i].trsf = Follow(d, wp[i]).trsf \o <<<<Follow(d, wp[i]).label, 1>>>>
      BY <1>1, <1>n, <3>1 DEF PlacedAs
    <3> QED
      BY <1>4, <1>7, <1>n, <3>1, <3>2
  <2> QED
    BY <2>1, <2>2
<1>12. Walked(d, Append(placed, x), new, Tail(next))
  BY <1>2, <1>7, <1>9, <1>10, <1>11 DEF Walked
<1> QED
  BY <1>12 DEF x

(* A call that leads to an assembly next for its components, in order.     *)
LEMMA WalkOpens ==
  ASSUME NEW d, DocForm(d), NEW V, NEW placed \in Seq(V), NEW parts,
         NEW U, NEW next \in Seq(U), next # <<>>,
         Walked(d, placed, parts, next),
         CallToAssembly(d, Head(next))
  PROVE  Walked(d, placed, parts, Descent(Head(next), d.labels[Head(next).label].comps) \o Tail(next))
<1>1. PICK wp, wt : /\ Cover(d, Len(placed), wp, Len(next), wt)
                    /\ PlacedAs(d, wp, placed, parts)
                    /\ CallsFollow(d, wt, next)
  BY DEF Walked
<1> DEFINE M == Len(next)
           h == Head(next)
           comps == d.labels[h.label].comps
           n == Len(comps)
           first == Descent(h, comps)
           all == first \o Tail(next)
           nt == [j \in 1 .. n + (M - 1) |-> IF j <= n THEN Append(wt[1], j) ELSE wt[j - n + 1]]
<1>2. /\ M \in Nat /\ M >= 1 /\ DOMAIN next = 1 .. M /\ h = next[1]
      /\ Tail(next) \in Seq(U)
      /\ Len(Tail(next)) = M - 1 /\ DOMAIN Tail(next) = 1 .. M - 1
      /\ \A j \in 1 .. M - 1 : Tail(next)[j] = next[j + 1] /\ j + 1 \in 1 .. M
  BY TailCalls
<1>l. h.label \in DOMAIN d.labels
  BY DEF CallToAssembly
<1>3. n \in Nat /\ DOMAIN comps = 1 .. n
  BY <1>l, FormComps
<1>r. 1 \in DOMAIN next /\ h = next[1]
  BY <1>2
<1>4. Follow(d, wt[1]) = h
  BY <1>1, <1>r DEF CallsFollow, CallToAssembly
<1>5. h # Nowhere
  <2>1. Nowhere.label = "" /\ h.label # ""
    BY DEF Nowhere, CallToAssembly
  <2> QED
    BY <2>1
<1>k. comps = d.labels[h.label].comps
  OBVIOUS
<1>a. d.labels[h.label].kind = "assembly"
  BY DEF CallToAssembly
<1>6. \A j \in 1 .. n : first[j] = [label |-> comps[j].ref, trsf |-> Compose(h.trsf, comps[j].loc)]
  BY <1>3 DEF Descent
<1> HIDE DEF h, n, comps
<1>7. DOMAIN first = 1 .. n /\ Len(first) = n /\ \E W : first \in Seq(W)
  <2> DEFINE W == {first[j] : j \in 1 .. n}
  <2>1. DOMAIN first = 1 .. n /\ first = [j \in 1 .. n |-> first[j]]
    BY <1>3 DEF Descent
  <2>2. first \in [1 .. n -> W]
    BY <2>1
  <2> HIDE DEF W, first
  <2>3. n \in Nat
    BY <1>3
  <2>4. first \in Seq(W)
    BY <2>2, <2>3
  <2>5. Len(first) = n
    BY <2>1, <2>3
  <2> QED
    BY <2>1, <2>4, <2>5
<1> HIDE DEF first, M
<1>8. /\ Len(all) = n + (M - 1) /\ DOMAIN all = 1 .. n + (M - 1)
      /\ \A j \in 1 .. n : all[j] = first[j]
      /\ \A j \in 1 .. M - 1 : all[n + j] = Tail(next)[j]
  <2>1. PICK W : first \in Seq(W)
    BY <1>7
  <2> DEFINE t == Tail(next)
  <2>2. t \in Seq(U) /\ Len(t) = M - 1
    BY <1>2
  <2> HIDE DEF t
  <2>3. first \in Seq(W \cup U) /\ t \in Seq(W \cup U)
    BY <2>1, <2>2
  <2>4. /\ Len(first \o t) = Len(first) + Len(t)
        /\ DOMAIN (first \o t) = 1 .. Len(first) + Len(t)
        /\ \A j \in 1 .. Len(first) : (first \o t)[j] = first[j]
        /\ \A j \in 1 .. Len(t) : (first \o t)[Len(first) + j] = t[j]
    BY <2>3
  <2> QED
    BY <1>7, <2>2, <2>4 DEF t
<1>9. /\ \A j \in 1 .. n : nt[j] = Append(wt[1], j)
      /\ \A j \in 2 .. M : nt[n + (j - 1)] = wt[j]
  <2>1. ASSUME NEW j \in 1 .. n PROVE nt[j] = Append(wt[1], j)
    BY <1>2, <1>3
  <2>2. ASSUME NEW j \in 2 .. M PROVE nt[n + (j - 1)] = wt[j]
    <3>1. /\ n + (j - 1) \in 1 .. n + (M - 1) /\ ~(n + (j - 1) <= n)
          /\ (n + (j - 1)) - n + 1 = j
      BY <1>2, <1>3
    <3> QED
      BY <3>1
  <2> QED
    BY <2>1, <2>2
<1> HIDE DEF all, nt
<1>10. Cover(d, Len(placed), wp, n + (M - 1), nt)
  <2>1. Len(placed) \in Nat
    OBVIOUS
  <2>2. d.labels[Follow(d, wt[1]).label].kind = "assembly" /\ DOMAIN d.labels[Follow(d, wt[1]).label].comps = 1 .. n
    BY <1>3, <1>4, <1>a, <1>k
  <2>3. Cover(d, Len(placed), wp, M, wt)
    BY <1>1 DEF M
  <2> QED
    BY <1>2, <1>3, <1>9, <2>1, <2>2, <2>3, CoverOpen
<1>11. IsPath(wt[1])
  <2>1. 1 \in 1 .. M
    BY <1>2
  <2>2. \A j \in 1 .. M : IsPath(wt[j])
    BY <1>1, Zenon DEF Cover, M
  <2> QED
    BY <2>1, <2>2
<1>12. ASSUME NEW j \in DOMAIN all
       PROVE  Follow(d, nt[j]) = IF all[j].label = "" THEN Nowhere ELSE all[j]
  <2>1. CASE j \in 1 .. n
    <3> DEFINE c == comps[j]
               t == Compose(h.trsf, c.loc)
               r == [label |-> c.ref, trsf |-> t]
    <3>1. all[j] = r
      BY <1>6, <1>8, <2>1
    <3>2. Follow(d, nt[j]) = Down(d, h, j)
      <4>1. j \in Nat /\ nt[j] = Append(wt[1], j)
        BY <1>3, <1>9, <2>1
      <4>2. Follow(d, Append(wt[1], j)) = Down(d, Follow(d, wt[1]), j)
        BY <1>11, <4>1, FollowAppend
      <4> QED
        BY <1>4, <4>1, <4>2
    <3>3. Down(d, h, j) = IF c.ref = "" THEN Nowhere ELSE r
      <4>1. j \in DOMAIN d.labels[h.label].comps /\ c = d.labels[h.label].comps[j]
        BY <1>3, <1>k, <2>1
      <4>2. t = h.trsf \o LocationToTrsf(c.loc)
        BY DEF Compose
      <4> HIDE DEF c, t
      <4> QED
        BY <1>5, <1>a, <4>1, <4>2 DEF Down
    <3>4. r.label = c.ref
      OBVIOUS
    <3> HIDE DEF r, c
    <3> QED
      BY <3>1, <3>2, <3>3, <3>4
  <2>2. CASE j \notin 1 .. n
    <3> DEFINE m == j - n
    <3>0. j \in 1 .. n + (M - 1)
      BY <1>8
    <3>1. /\ m \in 1 .. M - 1 /\ j = n + m /\ m + 1 \in 2 .. M /\ n + ((m + 1) - 1) = j
      BY <1>2, <1>3, <2>2, <3>0
    <3> HIDE DEF m
    <3>2. all[j] = next[m + 1] /\ m + 1 \in DOMAIN next
      BY <1>2, <1>8, <3>1
    <3>3. nt[j] = wt[m + 1]
      BY <1>9, <3>1
    <3> QED
      BY <1>1, <3>2, <3>3 DEF CallsFollow
  <2> QED
    BY <2>1, <2>2
<1>13. CallsFollow(d, nt, all)
  BY <1>12 DEF CallsFollow
<1>14. Walked(d, placed, parts, all)
  BY <1>1, <1>8, <1>10, <1>13 DEF Walked
<1> QED
  BY <1>14 DEF all, first, comps, h

(* At the end of the walk every part of the document is placed once.        *)
LEMMA WalkEnds ==
  ASSUME NEW d, DocForm(d), NEW V, NEW placed \in Seq(V), NEW parts, Walked(d, placed, parts, <<>>)
  PROVE  PlacedOnce(OccurrencesOf(d), placed, parts)
<1>1. PICK wp, wt : Cover(d, Len(placed), wp, Len(<<>>), wt) /\ PlacedAs(d, wp, placed, parts)
  BY DEF Walked
<1>2. Len(<<>>) = 0
  OBVIOUS
<1> QED
  BY <1>1, <1>2, CoverCounts

-----------------------------------------------------------------------------
(* Which steps settle an assembly, or unsettle one. *)

(* The owners of an assembly whose import has not returned it.              *)
Unsettled == {"import", "leaked"}

(* The same assemblies, and no owner but one that has taken it over.        *)
OwnersMove(h, g) ==
  /\ SameParts(h, g)
  /\ \A a \in DOMAIN h : g[a].owner = h[a].owner \/ g[a].owner \notin Unsettled

(* A new owner of one assembly moves no part.                               *)
LEMMA OwnerMoves ==
  ASSUME NEW h, GoodHeap(h), NEW a, NEW owner \in Owners \ Unsettled
  PROVE  OwnersMove(h, [h EXCEPT ![a].owner = owner])
<1> DEFINE g == [h EXCEPT ![a].owner = owner]
<1>1. SameParts(h, g)
  BY OwnerSameParts
<1>2. OwnerChanged(h, g, a, owner)
  BY ReplacedOwner
<1> HIDE DEF g
<1>3. OwnersMove(h, g)
  BY <1>1, <1>2 DEF OwnersMove, OwnerChanged
<1> QED
  BY <1>3 DEF g

(* Deleting assemblies moves no part.                                       *)
LEMMA DeletedMoves ==
  ASSUME NEW h, GoodHeap(h), NEW S,
         NEW g, g = [a \in DOMAIN h |-> IF a \in S THEN WithOwner(h[a], "deleted") ELSE h[a]]
  PROVE  OwnersMove(h, g)
<1>1. SameParts(h, g)
  BY DeletedSameParts
<1>2. ASSUME NEW a \in DOMAIN h
      PROVE  g[a].owner = h[a].owner \/ g[a].owner \notin Unsettled
  <2>1. AssemblyForm(h[a])
    BY DEF GoodHeap, GoodAssembly
  <2>2. WithOwner(h[a], "deleted").owner = "deleted"
    BY <2>1, OwnerOwner
  <2>3. g[a] = h[a] \/ g[a] = WithOwner(h[a], "deleted")
    OBVIOUS
  <2> QED
    BY <2>2, <2>3 DEF Unsettled
<1> QED
  BY <1>1, <1>2 DEF OwnersMove

(* What a step can be to the placements.                                    *)
PlaceStep ==
  \/ UNCHANGED <<heap, import, todo, protos>>
  \/ LeaveFromSTEP /\ UNCHANGED heap /\ (phase' = "dead" \/ import = "done")
  \/ ImportLabel
  \/ \E path, map : FromSTEP(path, map)
  \/ import = "none" /\ import' = "none" /\ (\E a, rules : ApplySDMap(a, rules))
  \/ import \in {"none", "done"} /\ import' = "none" /\ OwnersMove(heap, heap')

(* Every step of a living process is one of these.                          *)
LEMMA PlaceSteps ==
  ASSUME NamesInv, OwnersInv, BuildForm, ProcessInv, phase # "dead", [Next]_vars
  PROVE  PlaceStep
<1>0. GoodHeap(heap)
  BY DEF NamesInv
<1>1. CASE UNCHANGED importVars
  BY <1>1 DEF importVars, ctxVars, PlaceStep
<1>2. CASE AppNext
  <2>1. CASE UNCHANGED importVars \/ (phase = "construct" /\ ImportLabel) \/ ImportNextAssembly
    BY <1>1, <2>1 DEF ImportNextAssembly, PlaceStep
  <2>2. CASE KeepAssembly \/ ImportFails
    BY <2>2 DEF KeepAssembly, ImportFails, Die, PlaceStep
  <2>3. CASE FinishConstruct
    <3>0. import = "none" /\ import' = "none" /\ UNCHANGED <<todo, protos>>
      BY <2>3 DEF FinishConstruct, ctxVars
    <3>1. CASE ~UNCHANGED heap
      <4> DEFINE S == {build.assemblies[i] : i \in DOMAIN build.assemblies}
      <4>1. heap' = [a \in DOMAIN heap |->
                       IF \E i \in DOMAIN build.assemblies : build.assemblies[i] = a
                       THEN [heap[a] EXCEPT !.owner = "deleted"] ELSE heap[a]]
        BY <2>3, <3>1, Zenon DEF FinishConstruct
      <4>2. heap' = [a \in DOMAIN heap |->
                      IF a \in S THEN WithOwner(heap[a], "deleted") ELSE heap[a]]
        BY <4>1, Zenon DEF WithOwner
      <4> HIDE DEF S
      <4> QED
        BY <1>0, <3>0, <4>2, DeletedMoves DEF PlaceStep
    <3> QED
      BY <3>0, <3>1 DEF PlaceStep
  <2> QED
    BY <1>2, <2>1, <2>2, <2>3 DEF AppNext, AppStep
<1>3. CASE PluginNext
  <2>0. phase = "user" => import = "none"
    BY DEF OwnersInv, PhaseOwners
  <2>1. CASE CreateStepAssembly
    <3>1. UNCHANGED importVars \/ \E map : FromSTEP(compact[1].path, map)
      BY <2>1 DEF CreateStepAssembly
    <3> QED
      BY <1>1, <3>1 DEF PlaceStep
  <2>2. CASE RegisterAssembly
    <3>1. PICK owner \in {"registry", "deleted"} : heap' = [heap EXCEPT ![Current].owner = owner]
      BY <2>2 DEF RegisterAssembly, Owned
    <3>2. owner \in Owners \ Unsettled
      BY DEF Owners, Unsettled
    <3>3. import = "done" /\ import' = "none"
      BY <2>2 DEF RegisterAssembly, LeaveFromSTEP
    <3> QED
      BY <1>0, <3>1, <3>2, <3>3, OwnerMoves DEF PlaceStep
  <2>3. CASE PluginImportFails
    BY <2>3 DEF PluginImportFails, Die, PlaceStep
  <2>4. CASE CreateStepSolid \/ (\E i \in DOMAIN tgeo : HandleSolid(i)) \/ ConstructGeo
    BY <1>1, <2>4 DEF CreateStepSolid, HandleSolid, ConstructGeo
  <2>5. CASE phase = "compact" /\ ImportLabel
    BY <2>5 DEF PlaceStep
  <2>6. ASSUME NEW name, NEW x, Apply(name, x) \/ ApplyFile(name, x)
        PROVE  PlaceStep
    <3>1. phase = "user" /\ import' = import /\ UNCHANGED <<todo, protos>>
      BY <2>6 DEF Apply, ApplyFile, UserCall, ctxVars
    <3> QED
      BY <2>0, <2>6, <3>1 DEF Apply, ApplyFile, ApplyRules, PlaceStep
  <2>7. ASSUME NEW name, Release(name)
        PROVE  PlaceStep
    <3>1. /\ phase = "user" /\ import' = import
          /\ heap' = [heap EXCEPT ![registry[name]].owner = "user"]
      BY <2>7 DEF Release, UserCall
    <3>2. "user" \in Owners \ Unsettled
      BY DEF Owners, Unsettled
    <3>3. OwnersMove(heap, heap')
      BY <1>0, <3>1, <3>2, OwnerMoves
    <3> QED
      BY <2>0, <3>1, <3>3 DEF PlaceStep
  <2>8. CASE ExitJob
    <3> DEFINE S == {registry[n] : n \in DOMAIN registry}
    <3>1. heap' = [a \in DOMAIN heap |->
                    IF a \in S THEN WithOwner(heap[a], "deleted") ELSE heap[a]]
      BY <2>8, Zenon DEF ExitJob, WithOwner
    <3>2. phase = "user" /\ import' = import
      BY <2>8 DEF ExitJob
    <3> HIDE DEF S
    <3>3. OwnersMove(heap, heap')
      BY <1>0, <3>1, DeletedMoves
    <3> QED
      BY <2>0, <3>2, <3>3 DEF PlaceStep
  <2> QED
    BY <1>3, <2>1, <2>2, <2>3, <2>4, <2>5, <2>6, <2>7, <2>8 DEF PluginNext, PluginStep
<1>4. CASE ToolNext \/ UNCHANGED vars
  BY <1>1, <1>4 DEF ToolNext, vars
<1> QED
  BY <1>2, <1>3, <1>4 DEF Next, Over

-----------------------------------------------------------------------------
(* The parts and their places. *)

(* The document an assembly is made from.                                   *)
Document(h) == Documents[h.doc]

(* A part of the memo is one of the document, recentred by its own datum. *)
ProtosRight(h, memo) ==
  \A l \in DOMAIN memo :
    /\ l # "" /\ Document(h).labels[l].kind = "simple" /\ Document(h).labels[l].shape = "solid"
    /\ h.parts[memo[l].part].label = l
    /\ memo[l].centroid = <<<<l, 1>>>>

(* The walk so far. *)
Walk(h, next, memo) == Walked(Document(h), h.placed, h.parts, next) /\ ProtosRight(h, memo)

(* All parts of the document are where they belong. *)
InPlace(h) == PlacedOnce(OccurrencesOf(Document(h)), h.placed, h.parts)

(* Only the import under way, or a dead process, has an unsettled assembly. *)
Unfinished(a) ==
  heap[a].owner \in Unsettled =>
    phase = "dead" \/ (a = Current /\ import \in {"walking", "aborted", "threw"})

(* The inductive invariant of the placements.                               *)
PlacesInv ==
  /\ \A a \in DOMAIN heap : Unfinished(a)
  /\ import = "walking" => Walk(heap[Current], todo, protos)
  /\ \A a \in DOMAIN heap : heap[a].owner \notin Unsettled => InPlace(heap[a])

(* The right placements of an assembly depend on its document, its          *)
(* placements and the labels of its parts.                                  *)
LEMMA InPlaceKept ==
  ASSUME NEW h, NEW g, InPlace(h), g.doc = h.doc, g.placed = h.placed,
         \A i \in DOMAIN h.placed :
           g.parts[h.placed[i].part].label = h.parts[h.placed[i].part].label
  PROVE  InPlace(g)
<1> DEFINE occ == OccurrencesOf(Document(h))
<1>1. /\ Len(h.placed) = Cardinality(occ)
      /\ \A o \in occ :
           Cardinality({i \in DOMAIN h.placed :
                          /\ h.parts[h.placed[i].part].label = o.end.label
                          /\ h.placed[i].trsf = o.end.trsf \o <<<<o.end.label, 1>>>>})
           = Cardinality({q \in occ : q.end = o.end})
  BY DEF InPlace, PlacedOnce
<1>2. OccurrencesOf(Document(g)) = occ
  BY DEF Document
<1> HIDE DEF occ
<1>3. ASSUME NEW o \in occ
      PROVE  {i \in DOMAIN g.placed :
                /\ g.parts[g.placed[i].part].label = o.end.label
                /\ g.placed[i].trsf = o.end.trsf \o <<<<o.end.label, 1>>>>}
             = {i \in DOMAIN h.placed :
                /\ h.parts[h.placed[i].part].label = o.end.label
                /\ h.placed[i].trsf = o.end.trsf \o <<<<o.end.label, 1>>>>}
  OBVIOUS
<1>4. PlacedOnce(occ, g.placed, g.parts)
  BY <1>1, <1>3 DEF PlacedOnce
<1> QED
  BY <1>2, <1>4 DEF InPlace

(* What the next call of ImportLabel() works on. *)
LEMMA CallAt ==
  ASSUME NamesInv, OwnersInv, HeapTypes, import = "walking"
  PROVE  /\ Current \in DOMAIN heap /\ heap[Current].owner = "import"
         /\ DocForm(Document(heap[Current]))
         /\ Labels = Document(heap[Current]).labels
         /\ \E V : heap[Current].placed \in Seq(V)
         /\ \E W : heap[Current].parts \in Seq(W)
         /\ \E U : todo \in Seq(U)
         /\ \A i \in DOMAIN heap[Current].placed : heap[Current].placed[i].part \in DOMAIN heap[Current].parts
<1>1. Current \in DOMAIN heap /\ heap[Current].owner = "import" /\ \E U : todo \in Seq(U)
  BY DEF OwnersInv, ImportOwns
<1>2. TypedAssembly(heap[Current])
  BY <1>1 DEF HeapTypes
<1>3. \E W : heap[Current].parts \in Seq(W)
  BY <1>1 DEF NamesInv, GoodHeap, GoodAssembly
<1>4. DocForm(Document(heap[Current]))
  BY <1>2, DocsAreFormed DEF TypedAssembly, Document
<1> QED
  BY <1>1, <1>2, <1>3, <1>4, Zenon DEF TypedAssembly, Labels, Document

(* A call that opens an assembly or does nothing.                           *)
LEMMA WalkGoesOn ==
  ASSUME NamesInv, OwnersInv, HeapTypes, import = "walking", Walk(heap[Current], todo, protos),
         ImportAssemblyLabel \/ SkipLabel
  PROVE  Walk(heap[Current], todo', protos)
<1> DEFINE h == heap[Current]
           d == Document(h)
<1>0. todo # <<>> /\ Here = Head(todo)
  BY DEF ImportAssemblyLabel, SkipLabel, Here
<1>1. /\ DocForm(d) /\ Labels = d.labels
      /\ Walked(d, h.placed, h.parts, todo)
  BY CallAt DEF Walk
<1>2. PICK V : h.placed \in Seq(V)
  BY CallAt
<1>3. PICK U : todo \in Seq(U)
  BY CallAt
<1>l. Here.label # "" => Here.label \in DOMAIN Labels
  BY <1>0, Calls
<1> HIDE DEF h, d
<1>4. CASE ImportAssemblyLabel
  <2>1. /\ Kind = "assembly"
        /\ todo' = Descent(Here, Label.comps) \o Tail(todo)
    BY <1>4, Zenon DEF ImportAssemblyLabel, Descent
  <2>2. /\ Here.label # "" /\ d.labels[Here.label].kind = "assembly"
        /\ Label.comps = d.labels[Here.label].comps
    BY <1>1, <2>1 DEF Kind, Label
  <2>3. CallToAssembly(d, Head(todo))
    BY <1>0, <1>1, <1>l, <2>2 DEF CallToAssembly
  <2>4. Walked(d, h.placed, h.parts, todo')
    BY <1>0, <1>1, <1>2, <1>3, <2>1, <2>2, <2>3, WalkOpens
  <2> QED
    BY <2>4 DEF Walk, h, d
<1>5. CASE SkipLabel
  <2>1. /\ todo' = Tail(todo)
        /\ Kind \in {"none", "other"} \/ (Kind = "simple" /\ Label.shape = "null")
    BY <1>5 DEF SkipLabel
  <2>2. CallToNothing(d, Head(todo))
    BY <1>0, <1>1, <2>1 DEF CallToNothing, Kind, Label
  <2>3. Walked(d, h.placed, h.parts, todo')
    BY <1>0, <1>1, <1>2, <1>3, <2>1, <2>2, WalkSkips
  <2> QED
    BY <2>3 DEF Walk, h, d
<1> QED
  BY <1>4, <1>5

(* A repeated part is placed as the memo says.                              *)
LEMMA WalkReuses ==
  ASSUME NamesInv, OwnersInv, HeapTypes, import = "walking", Walk(heap[Current], todo, protos),
         ReusePrototype
  PROVE  Walk(heap'[Current], todo', protos)
<1> DEFINE h == heap[Current]
           q == heap'[Current]
           d == Document(h)
           l == Here.label
           n == protos[l].part
           x == Placement(n, Here.trsf, protos[l].centroid)
<1>0. /\ todo # <<>> /\ Here = Head(todo) /\ l \in DOMAIN protos /\ todo' = Tail(todo)
  BY DEF ReusePrototype, Here
<1>1. q.doc = h.doc /\ q.parts = h.parts /\ q.placed = Append(h.placed, x)
  BY ReuseFields
<1>2. Walked(d, h.placed, h.parts, todo) /\ ProtosRight(h, protos)
  BY DEF Walk
<1>3. PICK V : h.placed \in Seq(V)
  BY CallAt
<1>4. PICK U : todo \in Seq(U)
  BY CallAt
<1>5. /\ l # "" /\ d.labels[l].kind = "simple" /\ d.labels[l].shape = "solid"
      /\ h.parts[n].label = l /\ protos[l].centroid = <<<<l, 1>>>>
  BY <1>0, <1>2 DEF ProtosRight
<1>6. x = Placement(n, Here.trsf, <<<<l, 1>>>>)
  BY <1>5
<1>d. Document(q) = d
  BY <1>1 DEF Document
<1>l. l = Head(todo).label /\ Here.trsf = Head(todo).trsf
  BY <1>0
<1> HIDE DEF h, q, d, l, n, x
<1>7. CallToPart(d, Head(todo))
  BY <1>5, <1>l DEF CallToPart
<1>8. \A i \in DOMAIN h.placed : h.parts[h.placed[i].part].label = h.parts[h.placed[i].part].label
  OBVIOUS
<1>9. h.parts[n].label = Head(todo).label
  BY <1>5, <1>l
<1>10. Walked(d, Append(h.placed, Placement(n, Head(todo).trsf, <<<<Head(todo).label, 1>>>>)), h.parts, Tail(todo))
  BY <1>0, <1>2, <1>3, <1>4, <1>7, <1>8, <1>9, WalkPlaces
<1>11. Walked(Document(q), q.placed, q.parts, todo')
  BY <1>0, <1>1, <1>6, <1>10, <1>d, <1>l
<1>12. ProtosRight(q, protos)
  BY <1>1, <1>2, <1>d DEF ProtosRight, d
<1> QED
  BY <1>11, <1>12 DEF Walk, q

(* A part met for the first time is built, placed and remembered.           *)
LEMMA WalkBuilds ==
  ASSUME NamesInv, OwnersInv, HeapTypes, ProtoTypes, import = "walking",
         Walk(heap[Current], todo, protos), BuildPart
  PROVE  Walk(heap'[Current], todo', protos')
<1> DEFINE h == heap[Current]
           q == heap'[Current]
           d == Document(h)
           l == Here.label
           n == Len(h.parts) + 1
           x == Placement(n, Here.trsf, Centroid(l))
           memo == [part |-> n, centroid |-> Centroid(l)]
<1>0. /\ todo # <<>> /\ Here = Head(todo) /\ todo' = Tail(todo)
      /\ Kind = "simple" /\ Label.shape = "solid"
  BY DEF BuildPart, FirstEncounter, Here
<1>1. PICK unique :
        /\ q.doc = h.doc /\ q.parts = Append(h.parts, NewPart(unique))
        /\ q.placed = Append(h.placed, x)
        /\ protos' = Put(protos, l, memo)
  BY BuildPartFields
<1>2. Walked(d, h.placed, h.parts, todo) /\ ProtosRight(h, protos)
  BY DEF Walk
<1>3. PICK V : h.placed \in Seq(V)
  BY CallAt
<1>4. PICK U : todo \in Seq(U)
  BY CallAt
<1>5. PICK W : h.parts \in Seq(W)
  BY CallAt
<1>6. /\ Labels = d.labels
      /\ \A i \in DOMAIN h.placed : h.placed[i].part \in DOMAIN h.parts
  BY CallAt
<1>7. l # "" /\ d.labels[l].kind = "simple" /\ d.labels[l].shape = "solid"
  BY <1>0, <1>6 DEF Kind, Label
<1>8. Centroid(l) = <<<<l, 1>>>>
  <2>1. Labels[l].shape # "void"
    BY <1>6, <1>7
  <2> QED
    BY <2>1 DEF Centroid
<1>p. \A m \in DOMAIN protos : protos[m].part \in DOMAIN h.parts
  BY DEF ProtoTypes
<1>9. x = Placement(n, Here.trsf, <<<<l, 1>>>>) /\ memo.part = n /\ memo.centroid = <<<<l, 1>>>>
  BY <1>8
<1>d. Document(q) = d
  BY <1>1 DEF Document
<1>l. l = Head(todo).label /\ Here.trsf = Head(todo).trsf
  BY <1>0
<1>n. NewPart(unique).label = l
  BY DEF NewPart
<1> HIDE DEF h, q, d, l, x, memo
<1>10. /\ Append(h.parts, NewPart(unique))[n] = NewPart(unique)
       /\ \A i \in DOMAIN h.parts : Append(h.parts, NewPart(unique))[i] = h.parts[i]
  <2> DEFINE e == NewPart(unique)
  <2> HIDE DEF e
  <2>1. /\ DOMAIN h.parts = 1 .. Len(h.parts)
        /\ \A i \in 1 .. Len(h.parts) : Append(h.parts, e)[i] = h.parts[i]
        /\ Append(h.parts, e)[Len(h.parts) + 1] = e
    BY <1>5, AppendValues
  <2> QED
    BY <2>1 DEF e
<1> HIDE DEF n
<1>11. /\ q.parts[n].label = l
       /\ \A i \in DOMAIN h.parts : q.parts[i] = h.parts[i]
  BY <1>1, <1>10, <1>n
<1>12. CallToPart(d, Head(todo))
  BY <1>7, <1>l DEF CallToPart
<1>13. \A i \in DOMAIN h.placed : q.parts[h.placed[i].part].label = h.parts[h.placed[i].part].label
  BY <1>6, <1>11
<1>14. q.parts[n].label = Head(todo).label
  BY <1>11, <1>l
<1>15. Walked(d, Append(h.placed, Placement(n, Head(todo).trsf, <<<<Head(todo).label, 1>>>>)), q.parts, Tail(todo))
  BY <1>0, <1>2, <1>3, <1>4, <1>12, <1>13, <1>14, WalkPlaces
<1>16. Walked(Document(q), q.placed, q.parts, todo')
  BY <1>0, <1>1, <1>9, <1>15, <1>d, <1>l
<1>17. ASSUME NEW m \in DOMAIN protos'
       PROVE  /\ m # "" /\ d.labels[m].kind = "simple" /\ d.labels[m].shape = "solid"
              /\ q.parts[protos'[m].part].label = m
              /\ protos'[m].centroid = <<<<m, 1>>>>
  <2>1. CASE m = l
    <3>1. protos'[m] = memo
      BY <1>1, <1>17, <2>1 DEF Put
    <3> QED
      BY <1>7, <1>9, <1>11, <2>1, <3>1
  <2>2. CASE m # l
    <3>1. m \in DOMAIN protos /\ protos'[m] = protos[m]
      BY <1>1, <1>17, <2>2 DEF Put
    <3>2. protos[m].part \in DOMAIN h.parts
      BY <1>p, <3>1
    <3>3. /\ m # "" /\ d.labels[m].kind = "simple" /\ d.labels[m].shape = "solid"
          /\ h.parts[protos[m].part].label = m
          /\ protos[m].centroid = <<<<m, 1>>>>
      BY <1>2, <3>1 DEF ProtosRight, d
    <3> QED
      BY <1>11, <3>1, <3>2, <3>3
  <2> QED
    BY <2>1, <2>2
<1>18. ProtosRight(q, protos')
  BY <1>17, <1>d DEF ProtosRight
<1> QED
  BY <1>16, <1>18 DEF Walk, q

(* A document is walked from its free shapes.                               *)
LEMMA WalkOfNew ==
  ASSUME NamesInv, NEW path, NEW map, BeginFromSTEP(path, map)
  PROVE  /\ DOMAIN heap' = 1 .. Len(heap) + 1 /\ DOMAIN heap = 1 .. Len(heap) /\ Len(heap) \in Nat
         /\ Current' = Len(heap) + 1 /\ import' = "walking"
         /\ \A a \in DOMAIN heap : heap'[a] = heap[a]
         /\ heap'[Current'].owner = "import"
         /\ Walk(heap'[Current'], todo', protos')
<1> DEFINE new == NewAssembly(path)
           d == Documents[path]
<1>1. PICK U : heap \in Seq(U)
  BY DEF NamesInv, GoodHeap
<1>2. /\ heap' = Append(heap, new) /\ path \in DOMAIN Documents /\ import' = "walking"
      /\ todo' = Roots(d) /\ protos' = EmptyMap
  BY Zenon DEF BeginFromSTEP, Readable, Roots
<1>3. new.doc = path /\ new.placed = <<>> /\ new.owner = "import"
  BY DEF NewAssembly
<1> HIDE DEF new
<1>4. /\ DOMAIN heap' = 1 .. Len(heap) + 1 /\ DOMAIN heap = 1 .. Len(heap) /\ Len(heap) \in Nat
      /\ Len(heap') = Len(heap) + 1
      /\ \A a \in DOMAIN heap : heap'[a] = heap[a]
      /\ heap'[Len(heap) + 1] = new
  BY <1>1, <1>2, AppendValues
<1>5. DocForm(d)
  BY <1>2, DocsAreFormed
<1>6. Document(new) = d
  BY <1>3 DEF Document
<1> HIDE DEF d
<1>7. Walked(d, <<>>, new.parts, Roots(d))
  BY <1>5, WalkBegins
<1>8. ProtosRight(new, protos')
  <2>1. DOMAIN protos' = {}
    BY <1>2 DEF EmptyMap
  <2> QED
    BY <2>1 DEF ProtosRight
<1>9. Walk(new, todo', protos')
  BY <1>2, <1>3, <1>6, <1>7, <1>8 DEF Walk
<1>10. Current' = Len(heap) + 1
  BY <1>4 DEF Current
<1> QED
  BY <1>2, <1>3, <1>4, <1>9, <1>10

(* What a call of ImportLabel() leaves of the other assemblies.             *)
LEMMA OthersInPlace ==
  ASSUME NamesInv, OwnersInv, PlacesInv, phase # "dead", import = "walking",
         Len(heap') = Len(heap), DOMAIN heap' = DOMAIN heap,
         \A a \in DOMAIN heap : a # Current => heap'[a] = heap[a]
  PROVE  /\ Current' = Current
         /\ \A a \in DOMAIN heap' : a # Current =>
              heap'[a].owner \notin Unsettled /\ InPlace(heap'[a])
<1>1. Current' = Current
  BY DEF Current
<1>2. ASSUME NEW a \in DOMAIN heap, a # Current
      PROVE  heap[a].owner \notin Unsettled /\ InPlace(heap[a])
  <2>1. heap[a].owner \notin Unsettled
    BY <1>2 DEF PlacesInv, Unfinished
  <2> QED
    BY <2>1 DEF PlacesInv
<1> QED
  BY <1>1, <1>2

(* A call of ImportLabel() keeps the invariant.                             *)
LEMMA PlacesLabel ==
  ASSUME NamesInv, OwnersInv, SessionInv, PlacesInv, phase # "dead", ImportLabel
  PROVE  PlacesInv'
<1>0. import = "walking" /\ HeapTypes /\ ProtoTypes
  BY DEF SessionInv, ImportLabel, ImportAssemblyLabel, ReusePrototype, SkipLabel, MaterialMissing, BuildPart,
         BuildPartThrows, EndWalk, FirstEncounter
<1>1. Walk(heap[Current], todo, protos)
  BY <1>0 DEF PlacesInv
<1>2. Current \in DOMAIN heap /\ heap[Current].owner = "import" /\ "import" \in Unsettled
  BY <1>0, CallAt DEF Unsettled
<1>s. /\ "walking" \in {"walking", "aborted", "threw"} /\ "aborted" \in {"walking", "aborted", "threw"}
      /\ "threw" \in {"walking", "aborted", "threw"}
  OBVIOUS
(* The last assembly goes on being imported, with its walk. *)
<1>3. ASSUME Len(heap') = Len(heap), DOMAIN heap' = DOMAIN heap,
             \A a \in DOMAIN heap : a # Current => heap'[a] = heap[a],
             heap'[Current].owner \in Unsettled,
             \/ import' = "walking" /\ Walk(heap'[Current], todo', protos')
             \/ import' \in {"aborted", "threw"}
      PROVE  PlacesInv'
  <2>1. /\ Current' = Current
        /\ \A a \in DOMAIN heap' : a # Current =>
             heap'[a].owner \notin Unsettled /\ InPlace(heap'[a])
    BY <1>0, <1>3, OthersInPlace
  <2>2. import' = "walking" => Walk(heap'[Current'], todo', protos')
    BY <1>3, <2>1
  <2>3. \A a \in DOMAIN heap' : heap'[a].owner \in Unsettled =>
          a = Current' /\ import' \in {"walking", "aborted", "threw"}
    BY <1>3, <2>1
  <2>4. \A a \in DOMAIN heap' : heap'[a].owner \notin Unsettled => InPlace(heap'[a])
    BY <1>3, <2>1
  <2> QED
    BY <2>2, <2>3, <2>4 DEF PlacesInv, Unfinished
<1>4. CASE ImportAssemblyLabel \/ SkipLabel
  <2>1. UNCHANGED <<heap, import, protos>>
    BY <1>4 DEF ImportAssemblyLabel, SkipLabel
  <2>2. Walk(heap[Current], todo', protos)
    BY <1>0, <1>1, <1>4, WalkGoesOn
  <2> QED
    BY <1>0, <1>2, <1>3, <2>1, <2>2
<1>5. CASE MaterialMissing
  BY <1>2, <1>3, <1>5 DEF MaterialMissing, AbortImport
<1>6. CASE ReusePrototype
  <2>1. import' = import /\ protos' = protos
    BY <1>6 DEF ReusePrototype
  <2>2. Walk(heap'[Current], todo', protos)
    BY <1>0, <1>1, <1>6, WalkReuses
  <2>3. /\ Len(heap') = Len(heap) /\ DOMAIN heap' = DOMAIN heap
        /\ \A a \in DOMAIN heap : a # Current => heap'[a] = heap[a]
        /\ heap'[Current].owner = heap[Current].owner
    BY <1>6, ReuseFields
  <2> QED
    BY <1>0, <1>2, <1>3, <2>1, <2>2, <2>3
<1>7. CASE BuildPart
  <2>1. import' = import
    BY <1>7 DEF BuildPart
  <2>2. Walk(heap'[Current], todo', protos')
    BY <1>0, <1>1, <1>7, WalkBuilds
  <2>3. /\ Len(heap') = Len(heap) /\ DOMAIN heap' = DOMAIN heap
        /\ \A a \in DOMAIN heap : a # Current => heap'[a] = heap[a]
        /\ heap'[Current].owner = heap[Current].owner
    BY <1>7, BuildPartFields
  <2> QED
    BY <1>0, <1>2, <1>3, <2>1, <2>2, <2>3
<1>8. CASE BuildPartThrows \/ EndWalk
  <2>1. PICK owner \in {"leaked", "caller"} :
          /\ heap' = [heap EXCEPT ![Current].owner = owner]
          /\ owner = "leaked" => import' = "threw"
          /\ owner = "caller" => import' = "done" /\ todo = <<>>
    BY <1>8 DEF BuildPartThrows, EndWalk, Owned
  <2>2. GoodHeap(heap) /\ owner \in Owners
    BY DEF NamesInv, Owners
  <2>3. OwnerChanged(heap, heap', Current, owner) /\ SameParts(heap, heap')
    BY <2>1, <2>2, ReplacedOwner, OwnerSameParts
  <2>4. /\ Len(heap') = Len(heap) /\ DOMAIN heap' = DOMAIN heap /\ heap'[Current].owner = owner
        /\ heap'[Current].doc = heap[Current].doc /\ heap'[Current].parts = heap[Current].parts
        /\ heap'[Current].placed = heap[Current].placed
    BY <1>2, <2>3 DEF OwnerChanged, SameParts
  <2>5. \A a \in DOMAIN heap : a # Current => heap'[a] = heap[a]
    <3>1. heap' = [heap EXCEPT ![Current] = WithOwner(heap[Current], owner)]
      BY <2>1 DEF WithOwner
    <3> QED
      BY <2>2, <3>1, HeapReplaced
  <2>6. CASE owner = "leaked"
    BY <1>3, <2>1, <2>4, <2>5, <2>6 DEF Unsettled
  <2>7. CASE owner = "caller"
    <3>1. InPlace(heap[Current])
      <4> DEFINE h == heap[Current]
      <4>1. PICK V : h.placed \in Seq(V)
        BY <1>0, CallAt
      <4>2. DocForm(Document(h)) /\ Walked(Document(h), h.placed, h.parts, <<>>)
        BY <1>0, <1>1, <2>1, <2>7, CallAt DEF Walk
      <4> HIDE DEF h
      <4>3. PlacedOnce(OccurrencesOf(Document(h)), h.placed, h.parts)
        BY <4>1, <4>2, WalkEnds
      <4> QED
        BY <4>3 DEF InPlace, h
    <3>2. InPlace(heap'[Current])
      BY <2>4, <3>1, InPlaceKept
    <3>3. /\ Current' = Current
          /\ \A a \in DOMAIN heap' : a # Current =>
               heap'[a].owner \notin Unsettled /\ InPlace(heap'[a])
      BY <1>0, <2>4, <2>5, OthersInPlace
    <3>4. "caller" \notin Unsettled
      BY DEF Unsettled
    <3>5. \A a \in DOMAIN heap' : heap'[a].owner \notin Unsettled /\ InPlace(heap'[a])
      BY <2>4, <2>7, <3>2, <3>3, <3>4
    <3>6. import' # "walking"
      BY <2>1, <2>7
    <3> QED
      BY <3>5, <3>6 DEF PlacesInv, Unfinished
  <2> QED
    BY <2>6, <2>7
<1> QED
  BY <1>4, <1>5, <1>6, <1>7, <1>8 DEF ImportLabel

(* So does every step.                                                      *)
LEMMA PlacesStep == NamesInv /\ OwnersInv /\ SessionInv /\ PlacesInv /\ [Next]_vars => PlacesInv'
<1> SUFFICES ASSUME NamesInv, OwnersInv, SessionInv, PlacesInv, [Next]_vars PROVE PlacesInv'
  OBVIOUS
<1>1. CASE phase = "dead"
  <2>1. UNCHANGED <<heap, import, todo, protos, phase>>
    BY <1>1, DeadStops DEF vars, importVars, ctxVars, processVars
  <2> QED
    BY <2>1 DEF PlacesInv, Unfinished, Current
<1>2. CASE phase # "dead"
  <2>0. PlaceStep
    BY <1>2, PlaceSteps DEF SessionInv
  <2>1. CASE UNCHANGED <<heap, import, todo, protos>>
    BY <1>2, <2>1 DEF PlacesInv, Unfinished, Current
  <2>c. import \in {"none", "done"} => \A a \in DOMAIN heap : heap[a].owner \notin Unsettled /\ InPlace(heap[a])
    BY <1>2 DEF PlacesInv, Unfinished
  (* Whoever has them, the assemblies are finished.                         *)
  <2>f. ASSUME import' # "walking",
               \A a \in DOMAIN heap' : heap'[a].owner \notin Unsettled /\ InPlace(heap'[a])
        PROVE  PlacesInv'
    BY <2>f DEF PlacesInv, Unfinished
  <2>2. CASE LeaveFromSTEP /\ UNCHANGED heap /\ (phase' = "dead" \/ import = "done")
    <3>1. import' = "none" /\ UNCHANGED heap
      BY <2>2 DEF LeaveFromSTEP
    <3>2. CASE phase' = "dead"
      BY <3>1, <3>2 DEF PlacesInv, Unfinished
    <3>3. CASE import = "done"
      BY <2>c, <2>f, <3>1, <3>3
    <3> QED
      BY <2>2, <3>2, <3>3
  <2>3. CASE ImportLabel
    BY <1>2, <2>3, PlacesLabel
  <2>4. ASSUME NEW path, NEW map, FromSTEP(path, map)
        PROVE  PlacesInv'
    <3>0. import = "none"
      BY <2>4 DEF FromSTEP, FromSTEPFails, BeginFromSTEP
    <3>1. CASE FromSTEPFails(path)
      <4>1. import' = "threw" /\ UNCHANGED heap
        BY <3>1 DEF FromSTEPFails
      <4> QED
        BY <2>c, <2>f, <3>0, <4>1
    <3>2. CASE BeginFromSTEP(path, map)
      <4>1. /\ DOMAIN heap' = 1 .. Len(heap) + 1 /\ DOMAIN heap = 1 .. Len(heap) /\ Len(heap) \in Nat
            /\ Current' = Len(heap) + 1 /\ import' = "walking"
            /\ \A a \in DOMAIN heap : heap'[a] = heap[a]
            /\ heap'[Current'].owner = "import"
            /\ Walk(heap'[Current'], todo', protos')
        BY <3>2, WalkOfNew
      <4>2. \A a \in DOMAIN heap' : a = Current' \/ a \in DOMAIN heap
        BY <4>1
      <4>3. "import" \in Unsettled
        BY DEF Unsettled
      <4>4. \A a \in DOMAIN heap' : a # Current' => heap'[a].owner \notin Unsettled /\ InPlace(heap'[a])
        BY <2>c, <3>0, <4>1, <4>2
      <4>5. \A a \in DOMAIN heap' : heap'[a].owner \in Unsettled => a = Current' /\ import' = "walking"
        BY <4>1, <4>4
      <4>6. \A a \in DOMAIN heap' : heap'[a].owner \notin Unsettled => InPlace(heap'[a])
        BY <4>1, <4>3, <4>4
      <4> QED
        BY <4>1, <4>5, <4>6 DEF PlacesInv, Unfinished
    <3> QED
      BY <2>4, <3>1, <3>2 DEF FromSTEP
  <2>5. ASSUME import = "none", import' = "none", NEW a, NEW rules, ApplySDMap(a, rules)
        PROVE  PlacesInv'
    <3>1. /\ DOMAIN heap' = DOMAIN heap
          /\ \A b \in DOMAIN heap :
               /\ heap'[b].doc = heap[b].doc /\ heap'[b].owner = heap[b].owner
               /\ heap'[b].placed = heap[b].placed
               /\ \A i \in DOMAIN heap[b].parts : heap'[b].parts[i].label = heap[b].parts[i].label
      BY <2>5, ApplyFields
    <3>2. ASSUME NEW b \in DOMAIN heap
          PROVE  heap'[b].owner \notin Unsettled /\ InPlace(heap'[b])
      <4>1. heap[b].owner \notin Unsettled /\ InPlace(heap[b])
        BY <2>c, <2>5
      <4>2. \A i \in DOMAIN heap[b].placed : heap[b].placed[i].part \in DOMAIN heap[b].parts
        BY DEF SessionInv, HeapTypes, TypedAssembly
      <4>3. \A i \in DOMAIN heap[b].placed :
              heap'[b].parts[heap[b].placed[i].part].label = heap[b].parts[heap[b].placed[i].part].label
        BY <3>1, <4>2
      <4> QED
        BY <3>1, <4>1, <4>3, InPlaceKept
    <3> QED
      BY <2>f, <2>5, <3>1, <3>2
  <2>6. CASE import \in {"none", "done"} /\ import' = "none" /\ OwnersMove(heap, heap')
    <3>1. /\ DOMAIN heap' = DOMAIN heap
          /\ \A b \in DOMAIN heap :
               /\ heap'[b].doc = heap[b].doc /\ heap'[b].parts = heap[b].parts
               /\ heap'[b].placed = heap[b].placed
               /\ heap'[b].owner = heap[b].owner \/ heap'[b].owner \notin Unsettled
      BY <2>6 DEF OwnersMove, SameParts
    <3>2. ASSUME NEW b \in DOMAIN heap
          PROVE  heap'[b].owner \notin Unsettled /\ InPlace(heap'[b])
      <4>1. heap[b].owner \notin Unsettled /\ InPlace(heap[b])
        BY <2>c, <2>6
      <4> QED
        BY <3>1, <4>1, InPlaceKept
    <3> QED
      BY <2>f, <2>6, <3>1, <3>2
  <2> QED
    BY <2>0, <2>1, <2>2, <2>3, <2>4, <2>5, <2>6 DEF PlaceStep
<1> QED
  BY <1>1, <1>2

(* FromSTEP() leaves every part where the file has it: for any document,    *)
(* any depth and sharing of assemblies and any locations, each occurrence   *)
(* of a part has one placement, under the product of the locations on its   *)
(* way with the recentring put back, and there is no other placement; no    *)
(* later step, of the program or of ApplySDMap(), moves one.                *)
THEOREM PartsPlaced == Spec => []PartsStayInPlace
<1> DEFINE I == NamesInv /\ OwnersInv /\ SessionInv /\ PlacesInv
<1>1. Init => I
  <2> SUFFICES ASSUME Init PROVE I
    OBVIOUS
  <2>0. heap = <<>> /\ import = "none"
    BY DEF Init, Starts, ImportInit
  <2>1. DOMAIN heap = {} /\ import = "none"
    BY <2>0
  <2>2. PlacesInv
    BY <2>1 DEF PlacesInv
  <2> QED
    BY <2>2, NamesInit, OwnersInit, SessionInvInit
<1>2. I /\ [Next]_vars => I'
  BY NamesStep, OwnersStep, SessionInvStep, PlacesStep
<1>3. ASSUME I
      PROVE  PartsStayInPlace
  <2> SUFFICES ASSUME NEW a \in DOMAIN heap, Finished(a)
               PROVE  PlacedOnce(Occurrences[heap[a].doc], heap[a].placed, heap[a].parts)
    BY DEF PartsStayInPlace, PlacedOnce
  <2>1. heap[a].owner \notin Unsettled
    BY DEF Finished, Unsettled
  <2>2. InPlace(heap[a])
    BY <1>3, <2>1 DEF PlacesInv
  <2>3. heap[a].doc \in DOMAIN Documents
    BY <1>3 DEF SessionInv, HeapTypes, TypedAssembly
  <2>4. Occurrences[heap[a].doc] = OccurrencesOf(Documents[heap[a].doc])
    BY <2>3 DEF Occurrences, OccurrencesOf
  <2> QED
    BY <2>2, <2>4 DEF InPlace, Document
<1> QED
  BY <1>1, <1>2, <1>3, PTL DEF Spec
=============================================================================
