------------------------- MODULE DetectorContentsProofs -------------------------
(***************************************************************************)
(* Theorems about DetectorSession, for any documents, files, command lines  *)
(* and compact files: which materials and detectors the parts have, why a   *)
(* process dies of a material, what the files of a run tell, and what the   *)
(* files of step2dd4hep are good for.                                       *)
(*                                                                          *)
(* What a fold computes is proved by instances of SequenceFolds, one for    *)
(* each operator that the code's loops fold.                                *)
(***************************************************************************)
EXTENDS DetectorSessionProofs

-----------------------------------------------------------------------------
(* The rules of sensitive detectors. *)

(* The rules of an assignment or of a file name a detector each. *)
RuleForm(x) == x = [pattern |-> x.pattern, sd |-> x.sd]

GoodRules(rs) ==
  /\ \E U : rs \in Seq(U)
  /\ \A i \in DOMAIN rs : RuleForm(rs[i]) /\ rs[i].sd # NoDetector

(* A list is a sequence.                                                    *)
LEMMA ListIsSeq ==
  ASSUME NEW x, IsList(x)
  PROVE  /\ Len(x) \in Nat /\ DOMAIN x = 1 .. Len(x)
         /\ \E U : x \in Seq(U)
<1> DEFINE V == {x[i] : i \in 1 .. Len(x)}
<1>1. Len(x) \in Nat /\ x = [i \in 1 .. Len(x) |-> x[i]]
  BY DEF IsList
<1>2. \A i \in 1 .. Len(x) : x[i] \in V
  OBVIOUS
<1> HIDE DEF V
<1>3. x \in [1 .. Len(x) -> V]
  BY <1>1, <1>2
<1>4. x \in Seq(V) /\ DOMAIN x = 1 .. Len(x)
  BY <1>1, <1>3
<1> QED
  BY <1>1, <1>4

(* Assignments, folded. *)
AddAssignment(rules, x) == AddRule(rules, x.pattern, x.sd)
RulesGood(ctx, i, rules) == GoodRules(rules)
Assigning == INSTANCE SequenceFolds WITH Op <- AddAssignment, Inv <- RulesGood

(* Add() keeps the rules good: it appends one or replaces a detector.       *)
LEMMA AddRuleGood ==
  ASSUME NEW rs, GoodRules(rs), NEW pattern, NEW sd, sd # NoDetector
  PROVE  GoodRules(AddRule(rs, pattern, sd))
<1> DEFINE same == {i \in DOMAIN rs : rs[i].pattern = pattern}
<1>1. PICK U : rs \in Seq(U)
  BY DEF GoodRules
<1>2. CASE same = {}
  <2> DEFINE new == [pattern |-> pattern, sd |-> sd]
  <2>1. RuleForm(new) /\ new.sd # NoDetector
    BY DEF RuleForm
  <2>2. AddRule(rs, pattern, sd) = Append(rs, new)
    BY <1>2 DEF AddRule
  <2> HIDE DEF new
  <2>3. /\ Append(rs, new) \in Seq(U \cup {new})
        /\ DOMAIN rs = 1 .. Len(rs) /\ DOMAIN Append(rs, new) = 1 .. Len(rs) + 1 /\ Len(rs) \in Nat
        /\ \A i \in 1 .. Len(rs) : Append(rs, new)[i] = rs[i]
        /\ Append(rs, new)[Len(rs) + 1] = new
    BY <1>1, AppendValues
  <2>4. \A i \in 1 .. Len(rs) + 1 : i \in 1 .. Len(rs) \/ i = Len(rs) + 1
    BY <2>3
  <2> QED
    BY <2>1, <2>2, <2>3, <2>4 DEF GoodRules
<1>3. CASE same # {}
  <2> DEFINE m == Min(same)
             new == [rs[m] EXCEPT !.sd = sd]
  <2>1. m \in same
    <3>1. same \in SUBSET Nat
      BY <1>1
    <3>2. \E n \in same : \A k \in same : n <= k
      BY <1>3, <3>1, NatLeast
    <3> HIDE DEF same
    <3> QED
      BY <3>2, Zenon DEF Min
  <2>2. AddRule(rs, pattern, sd) = [rs EXCEPT ![m] = new]
    BY <1>3 DEF AddRule
  <2>3. RuleForm(new) /\ new.sd # NoDetector
    <3> DEFINE r == rs[m]
    <3>1. r = [pattern |-> r.pattern, sd |-> r.sd]
      BY <2>1 DEF GoodRules, RuleForm
    <3> HIDE DEF r
    <3>2. [r EXCEPT !.sd = sd] = [pattern |-> r.pattern, sd |-> sd]
      BY <3>1
    <3> QED
      BY <3>2 DEF r, RuleForm
  <2> HIDE DEF m, new
  <2>4. /\ [rs EXCEPT ![m] = new] \in Seq(U \cup {new})
        /\ DOMAIN [rs EXCEPT ![m] = new] = DOMAIN rs
        /\ \A i \in DOMAIN rs : [rs EXCEPT ![m] = new][i] = IF i = m THEN new ELSE rs[i]
    BY <1>1, ReplaceValues
  <2> QED
    BY <2>2, <2>3, <2>4 DEF GoodRules
<1> QED
  BY <1>2, <1>3

LEMMA NoRules == GoodRules(<<>>)
<1>1. <<>> \in Seq({})
  OBVIOUS
<1> QED
  BY <1>1 DEF GoodRules

(* The rules that Apply() makes of its argument.                            *)
LEMMA AssignmentRulesGood ==
  ASSUME NEW x, IsList(x), \A i \in DOMAIN x : x[i].sd # NoDetector
  PROVE  GoodRules(AssignmentRules(x))
<1>1. AssignmentRules(x) = Assigning!Fold(<<>>, x)
  BY Zenon DEF AssignmentRules, AddAssignment, FoldLeft, MapThenFoldSet, Max, Assigning!Fold
<1>2. Len(x) \in Nat /\ DOMAIN x = 1 .. Len(x)
  BY ListIsSeq
<1>3. RulesGood(0, 0, <<>>)
  BY NoRules DEF RulesGood
<1>4. \A i \in 1 .. Len(x) : \A acc : RulesGood(0, i - 1, acc) => RulesGood(0, i, AddAssignment(acc, x[i]))
  BY <1>2, AddRuleGood DEF RulesGood, AddAssignment
<1> HIDE DEF AddAssignment, RulesGood
<1>5. RulesGood(0, Len(x), Assigning!Fold(<<>>, x))
  BY <1>2, <1>3, <1>4, Assigning!FoldInvariant
<1> QED
  BY <1>1, <1>5 DEF RulesGood

(* The rules of a file, folded. *)
ReadDetectorRule(acc, item) == ReadRule(Detectors, acc, item)
RulesRead(ctx, i, acc) ==
  /\ acc = [rules |-> acc.rules, fatal |-> acc.fatal] /\ GoodRules(acc.rules)
  /\ acc.fatal \notin {"MatReader009", "material"}
Reading == INSTANCE SequenceFolds WITH Op <- ReadDetectorRule, Inv <- RulesRead

(* An element of a rule file adds a good rule, or is fatal.                 *)
LEMMA ReadRuleGood ==
  ASSUME NEW acc, RulesRead(0, 0, acc), NEW item
  PROVE  RulesRead(0, 0, ReadDetectorRule(acc, item))
<1> DEFINE code == IF item.name = NoName THEN "SDReader000"
                   ELSE IF item.sensDet = NoDetector THEN "SDReader001"
                   ELSE IF item.sensDet \notin Detectors THEN "SDReader002" ELSE ""
           rs == AddRule(acc.rules, item.name, item.sensDet)
           r == ReadDetectorRule(acc, item)
<1>0. /\ acc = [rules |-> acc.rules, fatal |-> acc.fatal] /\ GoodRules(acc.rules)
      /\ acc.fatal \notin {"MatReader009", "material"} /\ code \notin {"MatReader009", "material"}
  BY DEF RulesRead
<1>1. CASE r = acc
  BY <1>1
<1>2. CASE r = [acc EXCEPT !.fatal = code]
  <2> HIDE DEF code, r
  <2>1. r = [rules |-> acc.rules, fatal |-> code]
    BY <1>0, <1>2
  <2> QED
    BY <1>0, <2>1 DEF RulesRead, r
<1>3. CASE r = [acc EXCEPT !.rules = rs] /\ item.sensDet # NoDetector
  <2>1. GoodRules(rs)
    BY <1>0, <1>3, AddRuleGood
  <2> HIDE DEF rs, r
  <2>2. r = [rules |-> rs, fatal |-> acc.fatal]
    BY <1>0, <1>3
  <2> QED
    BY <2>1, <2>2 DEF RulesRead, r
<1>4. r = acc \/ r = [acc EXCEPT !.fatal = code] \/ (r = [acc EXCEPT !.rules = rs] /\ item.sensDet # NoDetector)
  <2>1. code = "" => item.sensDet # NoDetector
    OBVIOUS
  <2> HIDE DEF code
  <2> DEFINE q1 == Fail(acc, code)
             q2 == [acc EXCEPT !.rules = rs]
  <2>2. r = IF acc.fatal # "" \/ item.tag # "volume" THEN acc
            ELSE IF code # "" THEN q1 ELSE q2
    BY DEF ReadDetectorRule, ReadRule, code
  <2>3. q1 = [acc EXCEPT !.fatal = code]
    BY DEF Fail
  <2> HIDE DEF r, q1, q2, rs
  <2>4. r = acc \/ r = q1 \/ (r = q2 /\ code = "")
    BY <2>2
  <2> QED
    BY <2>1, <2>3, <2>4 DEF q2
<1> QED
  BY <1>1, <1>2, <1>3, <1>4

(* The rules of a file name detectors, and no rule file dies with the code  *)
(* of a material.                                                           *)
LEMMA ReadRulesGood ==
  ASSUME NEW file, IsList(file.items)
  PROVE  /\ GoodRules(ReadRuleFile(file, Detectors).rules)
         /\ ReadRuleFile(file, Detectors).fatal \notin {"MatReader009", "material"}
<1> DEFINE code == PreParseFault(file, "sensitive_detector_map",
                 <<"SDReader003", "SDReader004", "SDReader005", "SDReader006", "SDReader007">>)
           start == [rules |-> <<>>, fatal |-> code]
           items == file.items
<1>0. code \notin {"MatReader009", "material"}
  BY DEF PreParseFault
<1> HIDE DEF code
<1>1. ReadRuleFile(file, Detectors) = IF code # "" THEN start ELSE Reading!Fold(start, items)
  BY Zenon DEF ReadRuleFile, ReadDetectorRule, FoldLeft, MapThenFoldSet, Max, Reading!Fold, code
<1>2. Len(items) \in Nat /\ DOMAIN items = 1 .. Len(items)
  BY ListIsSeq
<1>3. RulesRead(0, 0, start)
  BY <1>0, NoRules DEF RulesRead
<1> HIDE DEF start, items
<1>4. \A i \in 1 .. Len(items) : \A acc : RulesRead(0, i - 1, acc) => RulesRead(0, i, ReadDetectorRule(acc, items[i]))
  <2>1. \A i, j, acc : RulesRead(0, i, acc) => RulesRead(0, j, acc)
    BY DEF RulesRead
  <2> HIDE DEF RulesRead, ReadDetectorRule
  <2> QED
    BY <2>1, ReadRuleGood
<1> HIDE DEF ReadDetectorRule, RulesRead
<1>5. RulesRead(0, Len(items), Reading!Fold(start, items))
  BY <1>2, <1>3, <1>4, Reading!FoldInvariant
<1> QED
  BY <1>1, <1>3, <1>5, Zenon DEF RulesRead

-----------------------------------------------------------------------------
(* The names of the parts, and the volumes under them. *)

(* A part has the name the file gives it, or this name with a number. *)
RawOrNumbered(x) ==
  /\ \E U : x.raw \in Seq(U)
  /\ x.name = x.raw \/ \E k : x.name = Append(x.raw, k)

PartsNamed(r) ==
  /\ \A i \in DOMAIN r.parts : RawOrNumbered(r.parts[i])
  /\ \A n \in DOMAIN r.volumes :
       r.volumes[n] \in DOMAIN r.parts /\ r.parts[r.volumes[n]].name = n

HeapNamed == \A a \in DOMAIN heap : PartsNamed(heap[a])

(* The pattern of a rule matches the name itself and the numbered ones. *)
LEMMA RawMatches ==
  ASSUME NEW x, RawOrNumbered(x)
  PROVE  Matches(x.raw, x.name)
<1>1. PICK U : x.raw \in Seq(U)
  BY DEF RawOrNumbered
<1>2. CASE x.name = x.raw
  BY <1>2 DEF Matches
<1>3. ASSUME NEW k, x.name = Append(x.raw, k)
      PROVE  Matches(x.raw, x.name)
  <2> DEFINE raw == x.raw
             name == Append(raw, k)
  <2>1. /\ name \in Seq(U \cup {k}) /\ raw \in Seq(U \cup {k}) /\ Len(raw) \in Nat
        /\ Len(name) = Len(raw) + 1
        /\ \A i \in 1 .. Len(raw) : name[i] = raw[i]
    BY <1>1, AppendValues
  <2> HIDE DEF name, raw
  <2>2. /\ SubSeq(raw, 1, Len(raw)) = [i \in 1 .. Len(raw) |-> raw[i]]
        /\ SubSeq(name, 1, Len(raw)) = [i \in 1 .. Len(raw) |-> name[i]]
    BY <2>1
  <2>3. IsPrefix(raw, name)
    BY <2>1, <2>2 DEF IsPrefix
  <2> QED
    BY <1>3, <2>1, <2>3 DEF Matches, raw, name
<1> QED
  BY <1>2, <1>3 DEF RawOrNumbered

(* A name of a label, or the name given to a part without one, is a         *)
(* sequence.                                                                *)
LEMMA RawNameIsSeq ==
  ASSUME OwnersInv, FirstEncounter
  PROVE  \E U : RawName(Label) \in Seq(U)
<1>1. import = "walking" /\ todo # <<>> /\ Kind = "simple"
  BY DEF FirstEncounter
<1>2. /\ heap[Current].doc \in DOMAIN Documents
      /\ \A i \in DOMAIN todo : todo[i].label \in DOMAIN Labels \cup {""}
      /\ \E U : todo \in Seq(U)
  BY <1>1 DEF OwnersInv, ImportOwns
<1>3. 1 \in DOMAIN todo /\ Here = todo[1]
  <2>1. PICK U : todo \in Seq(U)
    BY <1>2
  <2>2. Len(todo) \in Nat /\ Len(todo) # 0 /\ DOMAIN todo = 1 .. Len(todo)
    BY <1>1, <2>1
  <2> QED
    BY <2>2 DEF Here
<1>4. Here.label \in DOMAIN Labels
  BY <1>1, <1>2, <1>3 DEF Kind
<1>5. IsList(Label.name)
  BY <1>2, <1>4, DocumentsAssumption DEF Label, Labels
<1>6. <<"Part">> \in Seq({"Part"})
  OBVIOUS
<1> QED
  BY <1>5, <1>6, ListIsSeq DEF RawName

(* The parts keep their names, and each name its volume.                    *)
LEMMA HeapNamedStep ==
  ASSUME NamesInv, OwnersInv, HeapNamed, [Next]_vars
  PROVE  HeapNamed'
<1>0. /\ GoodHeap(heap)
      /\ \A a \in DOMAIN heap : \E U : heap[a].parts \in Seq(U)
  BY DEF NamesInv, GoodHeap, GoodAssembly
<1>1. CASE SameParts(heap, heap')
  BY <1>1 DEF SameParts, HeapNamed, PartsNamed
<1>2. CASE BuildPart
  <2> DEFINE c == heap[Current]
             q == heap'[Current]
             n == Len(c.parts)
  <2>1. PICK unique \in Candidates(RawName(Label)) :
          /\ Current \in DOMAIN heap /\ DOMAIN heap' = DOMAIN heap
          /\ \A a \in DOMAIN heap : a # Current => heap'[a] = heap[a]
          /\ q.parts = Append(c.parts, NewPart(unique))
          /\ q.volumes = Put(c.volumes, unique, n + 1)
    BY <1>2, BuildPartFields
  <2> DEFINE new == NewPart(unique)
  <2>2. new.raw = RawName(Label) /\ new.name = unique
    BY DEF NewPart
  <2>3. RawOrNumbered(new)
    <3>1. \E U : RawName(Label) \in Seq(U)
      BY <1>2, RawNameIsSeq DEF BuildPart
    <3> HIDE DEF new
    <3> QED
      BY <2>1, <2>2, <3>1 DEF RawOrNumbered, Candidates
  <2> HIDE DEF new
  <2>4. PICK U : c.parts \in Seq(U)
    BY <1>0, <2>1
  <2>5. /\ DOMAIN c.parts = 1 .. n /\ n \in Nat /\ DOMAIN q.parts = 1 .. n + 1
        /\ \A i \in 1 .. n : q.parts[i] = c.parts[i]
        /\ q.parts[n + 1] = new
    <3>1. q.parts = Append(c.parts, new)
      BY <2>1 DEF new
    <3> HIDE DEF c, q
    <3> QED
      BY <2>4, <3>1, AppendValues DEF n
  <2>6. PartsNamed(c)
    BY <2>1 DEF HeapNamed
  <2>7. \A i \in DOMAIN q.parts : RawOrNumbered(q.parts[i])
    <3>1. \A i \in 1 .. n + 1 : i \in 1 .. n \/ i = n + 1
      BY <2>5
    <3> QED
      BY <2>3, <2>5, <2>6, <3>1 DEF PartsNamed
  <2>8. ASSUME NEW m \in DOMAIN q.volumes
        PROVE  q.volumes[m] \in DOMAIN q.parts /\ q.parts[q.volumes[m]].name = m
    <3>1. CASE m = unique
      <4>1. q.volumes[m] = n + 1
        BY <2>1, <3>1 DEF Put
      <4> QED
        BY <2>2, <2>5, <3>1, <4>1
    <3>2. CASE m # unique
      <4>1. m \in DOMAIN c.volumes /\ q.volumes[m] = c.volumes[m]
        BY <2>1, <3>2 DEF Put
      <4>2. c.volumes[m] \in 1 .. n /\ c.parts[c.volumes[m]].name = m
        BY <2>5, <2>6, <4>1 DEF PartsNamed
      <4> QED
        BY <2>5, <4>1, <4>2
    <3> QED
      BY <3>1, <3>2
  <2>9. PartsNamed(q)
    BY <2>7, <2>8 DEF PartsNamed
  <2> QED
    BY <2>1, <2>9 DEF HeapNamed
<1>3. CASE ReusePrototype
  BY <1>3, ReuseFields DEF HeapNamed, PartsNamed
<1>4. ASSUME NEW path, NEW map, BeginFromSTEP(path, map)
      PROVE  HeapNamed'
  <2> DEFINE new == NewAssembly(path)
  <2>1. PICK U : heap \in Seq(U)
    BY <1>0 DEF GoodHeap
  <2>2. heap' = Append(heap, new)
    BY <1>4 DEF BeginFromSTEP
  <2>3. PartsNamed(new)
    <3>1. new.parts = <<>> /\ new.volumes = <<>>
      BY DEF NewAssembly, EmptyMap
    <3>2. DOMAIN new.parts = {} /\ DOMAIN new.volumes = {}
      BY <3>1
    <3> QED
      BY <3>2 DEF PartsNamed
  <2> HIDE DEF new
  <2>4. /\ DOMAIN heap' = 1 .. Len(heap) + 1 /\ DOMAIN heap = 1 .. Len(heap) /\ Len(heap) \in Nat
        /\ \A a \in DOMAIN heap : heap'[a] = heap[a]
        /\ heap'[Len(heap) + 1] = new
    BY <2>1, <2>2, AppendValues
  <2> QED
    BY <2>3, <2>4 DEF HeapNamed
<1>5. ASSUME NEW a, NEW rules, ApplySDMap(a, rules)
      PROVE  HeapNamed'
  <2>1. ASSUME NEW b \in DOMAIN heap
        PROVE  PartsNamed(heap'[b])
    <3> DEFINE p == heap[b].parts
               v == heap[b].volumes
               p2 == heap'[b].parts
    <3>1. /\ heap'[b].volumes = v /\ DOMAIN p2 = DOMAIN p
          /\ \A i \in DOMAIN p : p2[i].name = p[i].name /\ p2[i].raw = p[i].raw
      BY <1>5, ApplyFields
    <3>2. PartsNamed(heap[b])
      BY DEF HeapNamed
    <3>3. ASSUME NEW i \in DOMAIN p2
          PROVE  RawOrNumbered(p2[i])
      <4>1. RawOrNumbered(p[i]) /\ p2[i].name = p[i].name /\ p2[i].raw = p[i].raw
        BY <3>1, <3>2 DEF PartsNamed
      <4> HIDE DEF p, p2
      <4> QED
        BY <4>1, Zenon DEF RawOrNumbered
    <3>4. \A m \in DOMAIN v : v[m] \in DOMAIN p2 /\ p2[v[m]].name = m
      BY <3>1, <3>2 DEF PartsNamed
    <3> QED
      BY <3>1, <3>3, <3>4 DEF PartsNamed
  <2> QED
    BY <1>5, <2>1, ApplyFields DEF HeapNamed
<1> QED
  BY <1>1, <1>2, <1>3, <1>4, <1>5, HeapSteps

-----------------------------------------------------------------------------
(* What ApplySDMap() has done, as ListedPartsSensitive says it. *)
Reached(parts, rules) ==
  {j \in DOMAIN parts : ResolveDetector(rules, parts[j].name) # NoDetector}

Served(parts, rules, count) ==
  /\ \A j \in DOMAIN parts : parts[j].raw \in {rules[i].pattern : i \in DOMAIN rules} =>
       parts[j].sd \in {rules[i].sd : i \in DOMAIN rules}
  /\ count = Cardinality(Reached(parts, rules))
  /\ \A j \in Reached(parts, rules) : parts[j].sd = ResolveDetector(rules, parts[j].name)

AppliedInv ==
  applied.address # 0 =>
    /\ phase \in {"user", "exit", "dead"}
    /\ applied.address \in DOMAIN heap
    /\ Served(heap[applied.address].parts, applied.rules, applied.count)

(* A rule that matches resolves to a detector of the rules. *)
LEMMA RuleResolves ==
  ASSUME NEW rules, GoodRules(rules), NEW n,
         NEW i \in DOMAIN rules, Matches(rules[i].pattern, n)
  PROVE  /\ ResolveDetector(rules, n) # NoDetector
         /\ ResolveDetector(rules, n) \in {rules[k].sd : k \in DOMAIN rules}
<1> DEFINE hits == {k \in DOMAIN rules : Matches(rules[k].pattern, n)}
<1>1. hits # {} /\ hits \subseteq Nat
  BY DEF GoodRules
<1>2. ResolveDetector(rules, n) = rules[Min(hits)].sd
  BY <1>1 DEF ResolveDetector
<1>3. Min(hits) \in hits
  <2>1. \E k \in hits : \A m \in hits : k <= m
    BY <1>1, NatLeast
  <2> HIDE DEF hits
  <2> QED
    BY <2>1, Zenon DEF Min
<1> HIDE DEF hits
<1>4. \A k \in hits : k \in DOMAIN rules
  BY DEF hits
<1> QED
  BY <1>2, <1>3, <1>4 DEF GoodRules

(* The number of volumes that get a detector is that of the parts. *)
LEMMA CountsParts ==
  ASSUME NEW a \in DOMAIN heap, NamesInv, HeapNamed, NEW rules, NEW parts,
         DOMAIN parts = DOMAIN heap[a].parts,
         \A i \in DOMAIN parts : parts[i].name = heap[a].parts[i].name
  PROVE  SDCount(a, rules) = Cardinality(Reached(parts, rules))
<1> DEFINE V == heap[a].volumes
           S == Assigned(a, rules)
           T == Reached(parts, rules)
           f == [n \in S |-> V[n]]
<1>1. /\ \A i \in DOMAIN parts : parts[i].name \in DOMAIN V /\ V[parts[i].name] = i
      /\ \A n \in DOMAIN V : V[n] \in DOMAIN parts /\ parts[V[n]].name = n
  <2>1. Reachable(heap[a]) /\ PartsNamed(heap[a])
    BY DEF NamesInv, GoodHeap, GoodAssembly, HeapNamed
  <2> QED
    BY <2>1 DEF Reachable, PartsNamed
<1>2. \A n : n \in S <=> n \in DOMAIN V /\ ResolveDetector(rules, n) # NoDetector
  BY DEF Assigned
<1>3. \A j : j \in T <=> j \in DOMAIN parts /\ ResolveDetector(rules, parts[j].name) # NoDetector
  BY DEF Reached
<1> HIDE DEF S, T, V
<1>4. f \in [S -> T]
  BY <1>1, <1>2, <1>3
<1>5. \A m, n \in S : f[m] = f[n] => m = n
  BY <1>1, <1>2
<1>6. \A j \in T : \E n \in S : f[n] = j
  BY <1>1, <1>2, <1>3
<1> HIDE DEF f
<1>7. ExistsBijection(S, T)
  BY <1>4, <1>5, <1>6, Fun_IsBij, Zenon DEF ExistsBijection
<1>8. IsFiniteSet(T)
  <2>1. PICK U : heap[a].parts \in Seq(U)
    BY DEF NamesInv, GoodHeap, GoodAssembly
  <2>2. DOMAIN parts = 1 .. Len(heap[a].parts) /\ Len(heap[a].parts) \in Nat
    BY <2>1
  <2>3. IsFiniteSet(DOMAIN parts)
    BY <2>2, FS_Interval
  <2>4. T \in SUBSET DOMAIN parts
    BY <1>3
  <2> QED
    BY <2>3, <2>4, FS_Subset
<1>9. Cardinality(S) = Cardinality(T)
  <2>1. ExistsBijection(T, S)
    BY <1>7, Fun_ExistsBijSymmetric
  <2> QED
    BY <1>8, <2>1, FS_Bijection
<1> QED
  BY <1>9 DEF SDCount, S, T

(* ApplySDMap() serves. *)
LEMMA ApplyServes ==
  ASSUME NamesInv, HeapNamed, NEW a \in DOMAIN heap, NEW rules, GoodRules(rules),
         ApplySDMap(a, rules)
  PROVE  Served(heap'[a].parts, rules, SDCount(a, rules))
<1> DEFINE p == heap[a].parts
           q == heap'[a].parts
           V == heap[a].volumes
<1>1. /\ DOMAIN q = DOMAIN p
      /\ \A i \in DOMAIN p :
           /\ q[i].name = p[i].name /\ q[i].raw = p[i].raw
           /\ q[i].sd = IF Hit(a, rules, i) THEN HitDetector(a, rules, i) ELSE p[i].sd
  BY ApplyFields
<1>2. /\ \A i \in DOMAIN p : p[i].name \in DOMAIN V /\ V[p[i].name] = i
      /\ \A n \in DOMAIN V : V[n] \in DOMAIN p /\ p[V[n]].name = n
      /\ \A i \in DOMAIN p : RawOrNumbered(p[i])
  <2>1. Reachable(heap[a]) /\ PartsNamed(heap[a])
    BY DEF NamesInv, GoodHeap, GoodAssembly, HeapNamed
  <2> QED
    BY <2>1 DEF Reachable, PartsNamed
<1>3. ASSUME NEW j \in DOMAIN p, ResolveDetector(rules, p[j].name) # NoDetector
      PROVE  q[j].sd = ResolveDetector(rules, p[j].name)
  <2>1. \A n : n \in Assigned(a, rules) /\ V[n] = j <=> n = p[j].name
    BY <1>2, <1>3 DEF Assigned
  <2>2. Hit(a, rules, j)
    BY <2>1 DEF Hit
  <2>3. (CHOOSE n \in Assigned(a, rules) : V[n] = j) = p[j].name
    BY <2>1
  <2>4. HitDetector(a, rules, j) = ResolveDetector(rules, p[j].name)
    BY <2>3 DEF HitDetector
  <2> QED
    BY <1>1, <2>2, <2>4
<1>4. SDCount(a, rules) = Cardinality(Reached(q, rules))
  BY <1>1, CountsParts
<1>5. ASSUME NEW j \in DOMAIN q, NEW i \in DOMAIN rules, q[j].raw = rules[i].pattern
      PROVE  q[j].sd \in {rules[k].sd : k \in DOMAIN rules}
  <2>1. j \in DOMAIN p /\ Matches(rules[i].pattern, p[j].name)
    BY <1>1, <1>2, <1>5, RawMatches
  <2> HIDE DEF p, q
  <2>2. /\ ResolveDetector(rules, p[j].name) # NoDetector
        /\ ResolveDetector(rules, p[j].name) \in {rules[k].sd : k \in DOMAIN rules}
    BY <2>1, RuleResolves
  <2> QED
    BY <1>3, <2>1, <2>2
<1>6. \A j \in Reached(q, rules) : q[j].sd = ResolveDetector(rules, q[j].name)
  BY <1>1, <1>3 DEF Reached
<1> QED
  BY <1>4, <1>5, <1>6 DEF Served

-----------------------------------------------------------------------------
(* The phases after the geometry has been built. *)
After == {"user", "exit", "dead"}

(* A step that cannot disturb the last assignment. *)
Keeps == UNCHANGED applied /\ (phase \in After => phase' \in After /\ SameParts(heap, heap'))

Assigns(name, rules) ==
  /\ phase' = "user" /\ name \in DOMAIN registry /\ GoodRules(rules)
  /\ ApplySDMap(registry[name], rules)
  /\ applied' = [address |-> registry[name], rules |-> rules,
                 count |-> SDCount(registry[name], rules)]

(* Nothing disturbs an assignment but the next one. *)
LEMMA AppliedSteps ==
  ASSUME NamesInv, OwnersInv, [Next]_vars
  PROVE  Keeps \/ \E name, rules : Assigns(name, rules)
<1>1. CASE UNCHANGED vars
  <2>1. SameParts(heap, heap')
    BY <1>1 DEF SameParts, vars, importVars
  <2> QED
    BY <1>1, <2>1 DEF vars, processVars, pluginVars, Keeps
<1>2. CASE AppNext
  <2>1. phase \in {"parse", "commands", "construct"}
    BY <1>2 DEF AppNext, AppStep, ParseOption, ParseFile, ParseError, EndOfArguments, QueueCommand,
       Initialize, ReadNextMaterialFile, BuildNextSolid, Quit, Command, ImportNextAssembly,
       KeepAssembly, ImportFails, FinishConstruct, SolidsBuilt, MaterialsRead, RecordCommand, BeamOn
  <2> QED
    BY <1>2, <2>1 DEF AppNext, pluginVars, After, Keeps
<1>3. CASE ToolNext
  <2>1. phase \in {"tool", "writeMap", "writeCompact", "written"}
    BY <1>3 DEF ToolNext, ToolStep, ToolOption, ToolFile, ToolHelp, ToolUsage, ToolRead, Arguments,
       WriteMaterialMap, WriteCompact, ToolWrite, FillIn, RunToolAgain, StartJob
  <2>2. UNCHANGED applied
    BY <1>3 DEF ToolNext, ToolStep, ToolOption, ToolFile, ToolHelp, ToolUsage, ToolRead, Arguments,
       WriteMaterialMap, WriteCompact, ToolWrite, FillIn, RunToolAgain, StartJob, pluginVars
  <2> QED
    BY <2>1, <2>2 DEF After, Keeps
<1>4. CASE PluginNext
  <2>1. CASE CreateStepAssembly \/ RegisterAssembly \/ PluginImportFails \/ CreateStepSolid
             \/ (\E i \in DOMAIN tgeo : HandleSolid(i)) \/ ConstructGeo
             \/ (phase = "compact" /\ ImportLabel /\ UNCHANGED <<processVars, pluginVars>>)
    BY <2>1 DEF Keeps, CreateStepAssembly, RegisterAssembly, PluginImportFails, CreateStepSolid, Building,
                HandleSolid, ConstructGeo, pluginVars, After
  <2>2. ASSUME NEW name, Release(name)
        PROVE  Keeps
    <3>1. heap' = [heap EXCEPT ![registry[name]].owner = "user"]
      BY <2>2 DEF Release
    <3>2. SameParts(heap, heap')
      BY <3>1, OwnerSameParts DEF NamesInv, Owners
    <3> QED
      BY <2>2, <3>2 DEF Release, UserCall, processVars, Keeps, After
  <2>3. CASE ExitJob
    <3> DEFINE S == {a \in DOMAIN heap : \E n \in DOMAIN registry : registry[n] = a}
    <3>1. heap' = [a \in DOMAIN heap |-> IF a \in S THEN WithOwner(heap[a], "deleted") ELSE heap[a]]
      BY <2>3 DEF ExitJob, WithOwner
    <3> HIDE DEF S
    <3>2. SameParts(heap, heap')
      BY <3>1, DeletedSameParts DEF NamesInv
    <3> QED
      BY <2>3, <3>2 DEF ExitJob, After, Keeps
  <2>4. UNCHANGED heap => SameParts(heap, heap')
    BY DEF SameParts
  <2>5. ASSUME NEW name, NEW x \in Assignments, Apply(name, x)
        PROVE  Keeps \/ Assigns(name, AssignmentRules(x))
    <3>1. (\A i \in DOMAIN x : x[i].sd # NoDetector) => GoodRules(AssignmentRules(x))
      BY AssignmentRulesGood, RulesAssumption
    <3> QED
      BY <2>4, <2>5, <3>1 DEF Apply, UserCall, ApplyRules, Die, Keeps, Assigns, After
  <2>6. ASSUME NEW name, NEW file \in DOMAIN RuleFiles, ApplyFile(name, file)
        PROVE  Keeps \/ \E rules : Assigns(name, rules)
    <3> DEFINE read == ReadRuleFile(RuleFiles[file], Detectors)
    <3>1. GoodRules(read.rules)
      BY ReadRulesGood, RulesAssumption
    <3>2. \/ read.fatal = "" /\ ApplyRules(name, read.rules) /\ UNCHANGED <<phase, fault>>
          \/ Die(read.fatal) /\ UNCHANGED <<heap, applied>>
      BY <2>6 DEF ApplyFile
    <3>3. phase = "user"
      BY <2>6 DEF ApplyFile, UserCall
    <3> HIDE DEF read
    <3>4. ApplyRules(name, read.rules) /\ read.fatal = "" /\ phase' = "user"
            => UNCHANGED <<heap, applied>> \/ Assigns(name, read.rules)
      BY <3>1 DEF ApplyRules, Assigns
    <3> QED
      BY <2>4, <3>2, <3>3, <3>4 DEF Die, Keeps, After
  <2> QED
    BY <1>4, <2>1, <2>2, <2>3, <2>5, <2>6, Zenon DEF PluginNext, PluginStep
<1> QED
  BY <1>1, <1>2, <1>3, <1>4 DEF Next, Over

(* The last assignment goes on serving until the next one.                  *)
LEMMA AppliedStep ==
  ASSUME NamesInv, OwnersInv, HeapNamed, AppliedInv, [Next]_vars
  PROVE  AppliedInv'
<1>1. CASE Keeps
  BY <1>1 DEF Keeps, AppliedInv, After, SameParts
<1>2. ASSUME NEW name, NEW rules, Assigns(name, rules)
      PROVE  AppliedInv'
  <2>0. /\ phase' = "user" /\ name \in DOMAIN registry /\ GoodRules(rules)
        /\ ApplySDMap(registry[name], rules)
        /\ applied' = [address |-> registry[name], rules |-> rules,
                       count |-> SDCount(registry[name], rules)]
    BY <1>2 DEF Assigns
  <2>1. registry[name] \in DOMAIN heap
    BY <2>0 DEF OwnersInv, RegistryOwns
  <2>2. Served(heap'[registry[name]].parts, rules, SDCount(registry[name], rules))
    BY <2>0, <2>1, ApplyServes
  <2>3. DOMAIN heap' = DOMAIN heap
    BY <2>0, ApplyFields
  <2>4. /\ applied'.address = registry[name] /\ applied'.rules = rules
        /\ applied'.count = SDCount(registry[name], rules)
    BY <2>0
  <2> QED
    BY <2>0, <2>1, <2>2, <2>3, <2>4 DEF AppliedInv
<1> QED
  BY <1>1, <1>2, AppliedSteps

(* ApplySDMap() serves every part that a rule names, copies that            *)
(* MakeUniqueName() has numbered included, for any rules, written in code   *)
(* or read from a file, and any names in the documents; it returns the      *)
(* number of volumes served, and this stays true of the assembly whatever   *)
(* happens to the registry.                                                 *)
THEOREM ListedParts == Spec => []ListedPartsSensitive
<1> DEFINE I == NamesInv /\ OwnersInv /\ HeapNamed /\ AppliedInv
<1>1. Init => I
  <2>1. Init => HeapNamed /\ AppliedInv
    <3>1. Init => DOMAIN heap = {} /\ applied.address = 0
      <4>1. ASSUME ImportInit, NEW c, PluginInit(c)
            PROVE  DOMAIN heap = {} /\ applied.address = 0
        BY <4>1 DEF ImportInit, PluginInit
      <4> QED
        BY <4>1 DEF Init, Starts
    <3> QED
      BY <3>1 DEF HeapNamed, AppliedInv
  <2> QED
    BY <2>1, NamesInit, OwnersInit
<1>2. I /\ [Next]_vars => I'
  BY NamesStep, OwnersStep, HeapNamedStep, AppliedStep
<1>3. I => ListedPartsSensitive
  BY DEF AppliedInv, Served, Reached, ListedPartsSensitive
<1> QED
  BY <1>1, <1>2, <1>3, PTL DEF Spec

-----------------------------------------------------------------------------
(* What a file declares up to its n-th element, and what it provides. *)

(* The i-th item is the last of the first n with this key. *)
LastOf(items, n, i, key) ==
  /\ i \in 1 .. n /\ Declares(items[i], key)
  /\ \A h \in 1 .. n : h > i => ~Declares(items[h], key)

FileMap(items, n, map) ==
  /\ \A key \in DOMAIN map : \E i \in 1 .. n :
       LastOf(items, n, i, key) /\ map[key] = DeclaredName(items[i])
  /\ \A i \in 1 .. n : items[i].tag = "material" => items[i].stepName \in DOMAIN map

ElementsOf(items, n) ==
  {items[i].name : i \in {h \in 1 .. n : items[h].tag \in {"isotope", "element"}}}

MaterialsOf(items, n) ==
  {DeclaredName(items[i]) : i \in {h \in 1 .. n : items[h].tag = "material"}}

Dangling(items, k, els, tab) ==
  /\ items[k].tag = "material"
  /\ ~(items[k].refs \subseteq els \cup tab \cup MaterialsOf(items, k - 1))

Read(map, tab, els, code) == [map |-> map, table |-> tab, elements |-> els, fatal |-> code]

ReadForm(acc) == acc = Read(acc.map, acc.table, acc.elements, acc.fatal)

(* The elements of a file, folded. *)
ElementsRead(ctx, n, acc) ==
  /\ ReadForm(acc)
  /\ acc.map = EmptyMap /\ acc.table = ctx.tab /\ acc.fatal = ""
  /\ ctx.els \cup ElementsOf(ctx.items, n) \subseteq acc.elements

ReadingElements == INSTANCE SequenceFolds WITH Op <- ReadElement, Inv <- ElementsRead

(* The elements of one more item.                                           *)
LEMMA ElementsGrow ==
  ASSUME NEW items, NEW n \in Nat \ {0}
  PROVE  ElementsOf(items, n) = ElementsOf(items, n - 1) \cup
           (IF items[n].tag \in {"isotope", "element"} THEN {items[n].name} ELSE {})
<1>1. \A h : h \in 1 .. n <=> h \in 1 .. n - 1 \/ h = n
  OBVIOUS
<1> QED
  BY <1>1, Zenon DEF ElementsOf

LEMMA ReadElementStep ==
  ASSUME NEW ctx, NEW n \in Nat \ {0}, NEW acc, ElementsRead(ctx, n - 1, acc)
  PROVE  ElementsRead(ctx, n, ReadElement(acc, ctx.items[n]))
<1> DEFINE item == ctx.items[n]
           r == ReadElement(acc, item)
<1>1. ElementsOf(ctx.items, n) = ElementsOf(ctx.items, n - 1) \cup
        (IF item.tag \in {"isotope", "element"} THEN {item.name} ELSE {})
  BY ElementsGrow
<1>2. CASE item.tag \in {"isotope", "element"}
  <2> DEFINE els == acc.elements \cup {item.name}
  <2>1. r = [acc EXCEPT !.elements = els]
    BY <1>2 DEF ReadElement
  <2> HIDE DEF r, els
  <2>2. r = [map |-> acc.map, table |-> acc.table, elements |-> els, fatal |-> acc.fatal]
    BY <2>1 DEF ElementsRead, ReadForm, Read
  <2>3. /\ r.map = acc.map /\ r.table = acc.table /\ r.elements = els /\ r.fatal = acc.fatal
        /\ ReadForm(r)
    BY <2>2 DEF ReadForm, Read
  <2> HIDE DEF item
  <2> QED
    BY <1>1, <1>2, <2>3 DEF ElementsRead, els, r, item
<1>3. CASE item.tag \notin {"isotope", "element"}
  <2>1. r = acc
    BY <1>3 DEF ReadElement
  <2> HIDE DEF r
  <2> QED
    BY <1>1, <1>3, <2>1 DEF ElementsRead, r, item
<1> QED
  BY <1>2, <1>3

(* Its materials, folded. *)
MaterialsReadOK(ctx, n, acc) ==
  /\ ReadForm(acc)
  /\ acc.elements = ctx.els
  /\ acc.fatal = "" => /\ FileMap(ctx.items, n, acc.map)
                       /\ ctx.tab \cup MaterialsOf(ctx.items, n) \subseteq acc.table
  /\ acc.fatal = "MatReader009" => \E k \in 1 .. n : Dangling(ctx.items, k, ctx.els, ctx.tab)

ReadingMaterials == INSTANCE SequenceFolds WITH Op <- ReadMaterial, Inv <- MaterialsReadOK

(* An element that is no material leaves the map as it is. *)
LEMMA MapSame ==
  ASSUME NEW items, NEW n \in Nat \ {0}, NEW map, FileMap(items, n - 1, map),
         items[n].tag # "material"
  PROVE  FileMap(items, n, map) /\ MaterialsOf(items, n) = MaterialsOf(items, n - 1)
<1>1. \A h : h \in 1 .. n <=> h \in 1 .. n - 1 \/ h = n
  OBVIOUS
<1>2. \A key, i : LastOf(items, n - 1, i, key) => LastOf(items, n, i, key)
  BY <1>1 DEF LastOf, Declares
<1>3. FileMap(items, n, map)
  BY <1>1, <1>2 DEF FileMap
<1>4. MaterialsOf(items, n) = MaterialsOf(items, n - 1)
  BY <1>1, Zenon DEF MaterialsOf
<1> QED
  BY <1>3, <1>4

(* A material that is declared is the last of its key. *)
LEMMA MapGrows ==
  ASSUME NEW items, NEW n \in Nat \ {0}, NEW map, FileMap(items, n - 1, map),
         items[n].tag = "material"
  PROVE  /\ FileMap(items, n, Put(map, items[n].stepName, DeclaredName(items[n])))
         /\ MaterialsOf(items, n) = MaterialsOf(items, n - 1) \cup {DeclaredName(items[n])}
<1> DEFINE new == items[n].stepName
           map2 == Put(map, new, DeclaredName(items[n]))
<1>1. \A h : h \in 1 .. n <=> h \in 1 .. n - 1 \/ h = n
  OBVIOUS
<1>2. /\ DOMAIN map2 = DOMAIN map \cup {new} /\ map2[new] = DeclaredName(items[n])
      /\ \A key \in DOMAIN map : key # new => map2[key] = map[key]
  BY DEF Put
<1> HIDE DEF map2, new
<1>3. \A key, i : key # new /\ LastOf(items, n - 1, i, key) => LastOf(items, n, i, key)
  BY <1>1 DEF LastOf, Declares, new
<1>4. LastOf(items, n, n, new)
  <2>1. \A h \in 1 .. n : ~(h > n)
    OBVIOUS
  <2> QED
    BY <1>1, <2>1 DEF LastOf, Declares, new
<1>5. \A key \in DOMAIN map2 : \E i \in 1 .. n :
        LastOf(items, n, i, key) /\ map2[key] = DeclaredName(items[i])
  <2> SUFFICES ASSUME NEW key \in DOMAIN map2
               PROVE  \E i \in 1 .. n : LastOf(items, n, i, key) /\ map2[key] = DeclaredName(items[i])
    OBVIOUS
  <2>1. CASE key = new
    BY <1>1, <1>2, <1>4, <2>1
  <2>2. CASE key # new
    BY <1>1, <1>2, <1>3, <2>2 DEF FileMap
  <2> QED
    BY <2>1, <2>2
<1>6. \A i \in 1 .. n : items[i].tag = "material" => items[i].stepName \in DOMAIN map2
  BY <1>1, <1>2 DEF FileMap, new
<1>7. MaterialsOf(items, n) = MaterialsOf(items, n - 1) \cup {DeclaredName(items[n])}
  BY <1>1, Zenon DEF MaterialsOf
<1> QED
  BY <1>5, <1>6, <1>7 DEF FileMap, map2, new

(* Records of the reader are told apart by their fields.                    *)
LEMMA FailForm ==
  ASSUME NEW acc, ReadForm(acc), NEW code
  PROVE  Fail(acc, code) = Read(acc.map, acc.table, acc.elements, code)
  BY DEF Fail, ReadForm, Read

LEMMA ReadFields ==
  ASSUME NEW map, NEW tab, NEW els, NEW code
  PROVE  /\ Read(map, tab, els, code).map = map /\ Read(map, tab, els, code).table = tab
         /\ Read(map, tab, els, code).elements = els /\ Read(map, tab, els, code).fatal = code
         /\ ReadForm(Read(map, tab, els, code))
  BY DEF Read, ReadForm

(* The three outcomes of a <material> element. *)
LEMMA MaterialOutcomes ==
  ASSUME NEW acc, ReadForm(acc), acc.fatal = "", NEW item, item.tag = "material"
  PROVE  \/ \E code \in {"MatReader006", "MatReader007", "MatReader008"} :
              ReadMaterial(acc, item) = Read(acc.map, acc.table, acc.elements, code)
         \/ /\ ReadMaterial(acc, item) = Read(acc.map, acc.table, acc.elements, "MatReader009")
            /\ ~(item.refs \subseteq acc.elements \cup acc.table)
         \/ ReadMaterial(acc, item) = Read(Put(acc.map, item.stepName, DeclaredName(item)),
                                           acc.table \cup {DeclaredName(item)}, acc.elements, "")
<1> DEFINE name == DeclaredName(item)
           F(code) == Read(acc.map, acc.table, acc.elements, code)
           T == acc.table \cup {name}
           nist == NistMaterial(acc, item)
           inline == InlineMaterial(acc, item)
           made == IF item.stepName = NoName THEN Fail(acc, "MatReader006")
                   ELSE IF item.geant4Name # "" THEN nist
                   ELSE IF item.name = "" THEN Fail(acc, "MatReader008")
                   ELSE inline
           Good(m) == m = Read(acc.map, T, acc.elements, "")
<1>1. \A code : Fail(acc, code) = F(code)
  BY FailForm
<1>2. item.geant4Name # "" => nist = F("MatReader007") \/ Good(nist)
  <2>1. CASE item.geant4Name # "" /\ item.geant4Name \in Nist
    <3>1. name = item.geant4Name
      BY <2>1 DEF DeclaredName
    <3>2. nist = [acc EXCEPT !.table = T]
      BY <2>1, <3>1 DEF NistMaterial
    <3> HIDE DEF nist, T, name
    <3> QED
      BY <3>2 DEF ReadForm, Read
  <2> QED
    BY <1>1, <2>1 DEF NistMaterial
<1>3. item.geant4Name = "" =>
        \/ inline = F("MatReader009") /\ ~(item.refs \subseteq acc.elements \cup acc.table)
        \/ Good(inline)
  <2> SUFFICES ASSUME item.geant4Name = "" PROVE
        \/ inline = F("MatReader009") /\ ~(item.refs \subseteq acc.elements \cup acc.table)
        \/ Good(inline)
    OBVIOUS
  <2>0. name = item.name
    BY DEF DeclaredName
  <2>1. CASE item.name \in acc.table
    <3>1. inline = acc /\ T = acc.table
      BY <2>0, <2>1 DEF InlineMaterial
    <3> HIDE DEF inline, T
    <3> QED
      BY <3>1 DEF ReadForm, Read
  <2>2. CASE item.name \notin acc.table /\ item.refs \subseteq acc.elements \cup acc.table
    <3>1. inline = [acc EXCEPT !.table = T]
      BY <2>0, <2>2 DEF InlineMaterial, MaterialRead
    <3> HIDE DEF inline, T
    <3> QED
      BY <3>1 DEF ReadForm, Read
  <2>3. CASE item.name \notin acc.table /\ ~(item.refs \subseteq acc.elements \cup acc.table)
    BY <1>1, <2>3 DEF InlineMaterial, MaterialRead
  <2> QED
    BY <2>1, <2>2, <2>3
<1>4. ReadMaterial(acc, item) =
        IF made.fatal # "" THEN made
        ELSE [made EXCEPT !.map = Put(made.map, item.stepName, name)]
  BY DEF ReadMaterial, AddMaterial, DeclaredName
<1> HIDE DEF nist, inline
<1>5. \/ \E code \in {"MatReader006", "MatReader007", "MatReader008"} : made = F(code)
      \/ made = F("MatReader009") /\ ~(item.refs \subseteq acc.elements \cup acc.table)
      \/ Good(made)
  <2>1. CASE item.stepName = NoName
    BY <1>1, <2>1
  <2>2. CASE item.stepName # NoName /\ item.geant4Name # ""
    <3>1. made = nist
      BY <2>2
    <3> HIDE DEF made
    <3> QED
      BY <1>2, <2>2, <3>1
  <2>3. CASE item.stepName # NoName /\ item.geant4Name = "" /\ item.name = ""
    <3>1. made = Fail(acc, "MatReader008")
      BY <2>3
    <3> HIDE DEF made
    <3> QED
      BY <1>1, <3>1
  <2>4. CASE item.stepName # NoName /\ item.geant4Name = "" /\ item.name # ""
    <3>1. made = inline
      BY <2>4
    <3> HIDE DEF made
    <3> QED
      BY <1>3, <2>4, <3>1
  <2> QED
    BY <2>1, <2>2, <2>3, <2>4
<1> HIDE DEF made, T
<1>6. ASSUME NEW code, code # "", made = F(code)
      PROVE  ReadMaterial(acc, item) = F(code)
  <2>1. F(code).fatal = code
    BY DEF Read
  <2> HIDE DEF F
  <2> QED
    BY <1>4, <1>6, <2>1
<1>7. ASSUME Good(made)
      PROVE  ReadMaterial(acc, item) = Read(Put(acc.map, item.stepName, name), T, acc.elements, "")
  <2> DEFINE map2 == Put(acc.map, item.stepName, name)
  <2>1. made.fatal = "" /\ made.map = acc.map
    <3> DEFINE q == Read(acc.map, T, acc.elements, "")
    <3>1. q.fatal = "" /\ q.map = acc.map
      BY DEF Read
    <3>2. made = q
      BY <1>7
    <3> HIDE DEF q
    <3> QED
      BY <3>1, <3>2
  <2>2. ReadMaterial(acc, item) = [made EXCEPT !.map = map2]
    BY <1>4, <2>1
  <2> HIDE DEF map2, name
  <2> QED
    BY <1>7, <2>2 DEF Read, map2
<1> QED
  BY <1>5, <1>6, <1>7 DEF T

(* The second pass keeps what has been read, or has failed for a reason.    *)
LEMMA ReadMaterialStep ==
  ASSUME NEW ctx, NEW n \in Nat \ {0}, NEW acc, MaterialsReadOK(ctx, n - 1, acc)
  PROVE  MaterialsReadOK(ctx, n, ReadMaterial(acc, ctx.items[n]))
<1> DEFINE items == ctx.items
           item == items[n]
           r == ReadMaterial(acc, item)
<1>0. \A k \in 1 .. n - 1 : k \in 1 .. n
  OBVIOUS
<1>1. CASE acc.fatal # ""
  <2>1. r = acc
    BY <1>1 DEF ReadMaterial
  <2> HIDE DEF r
  <2> QED
    BY <1>0, <1>1, <2>1 DEF MaterialsReadOK, r, items, item
<1>2. CASE acc.fatal = "" /\ item.tag # "material"
  <2>1. r = acc
    BY <1>2 DEF ReadMaterial
  <2> HIDE DEF r
  <2>2. FileMap(items, n, acc.map) /\ MaterialsOf(items, n) = MaterialsOf(items, n - 1)
    BY <1>2, MapSame DEF MaterialsReadOK
  <2> QED
    BY <1>2, <2>1, <2>2 DEF MaterialsReadOK, r, items, item
<1>3. CASE acc.fatal = "" /\ item.tag = "material"
  <2> DEFINE map2 == Put(acc.map, item.stepName, DeclaredName(item))
             tab2 == acc.table \cup {DeclaredName(item)}
  <2>0. ReadForm(acc) /\ acc.elements = ctx.els /\ FileMap(items, n - 1, acc.map)
        /\ ctx.tab \cup MaterialsOf(items, n - 1) \subseteq acc.table
    BY <1>3 DEF MaterialsReadOK
  <2>1. FileMap(items, n, map2) /\ MaterialsOf(items, n) = MaterialsOf(items, n - 1) \cup {DeclaredName(item)}
    BY <1>3, <2>0, MapGrows
  <2> HIDE DEF r, map2, tab2, item
  <2>2. ASSUME NEW code \in {"MatReader006", "MatReader007", "MatReader008"},
               r = Read(acc.map, acc.table, acc.elements, code)
        PROVE  MaterialsReadOK(ctx, n, r)
    <3>1. r.elements = acc.elements /\ r.fatal = code /\ ReadForm(r)
      BY <2>2, ReadFields
    <3>2. r.fatal # "" /\ r.fatal # "MatReader009"
      BY <3>1
    <3> QED
      BY <2>0, <3>1, <3>2 DEF MaterialsReadOK
  <2>3. ASSUME r = Read(acc.map, acc.table, acc.elements, "MatReader009"),
               ~(item.refs \subseteq acc.elements \cup acc.table)
        PROVE  MaterialsReadOK(ctx, n, r)
    <3>1. r.elements = acc.elements /\ r.fatal = "MatReader009" /\ ReadForm(r)
      BY <2>3, ReadFields
    <3>2. Dangling(items, n, ctx.els, ctx.tab)
      BY <1>3, <2>0, <2>3 DEF Dangling, item
    <3>3. n \in 1 .. n
      OBVIOUS
    <3> QED
      BY <2>0, <3>1, <3>2, <3>3 DEF MaterialsReadOK, items
  <2>4. ASSUME r = Read(map2, tab2, acc.elements, "")
        PROVE  MaterialsReadOK(ctx, n, r)
    <3>1. r.elements = acc.elements /\ r.fatal = "" /\ ReadForm(r) /\ r.map = map2 /\ r.table = tab2
      <4> DEFINE q == Read(map2, tab2, acc.elements, "")
      <4>1. q.elements = acc.elements /\ q.fatal = "" /\ ReadForm(q) /\ q.map = map2 /\ q.table = tab2
        BY DEF Read, ReadForm
      <4>2. r = q
        BY <2>4
      <4> HIDE DEF q
      <4> QED
        BY <4>1, <4>2
    <3>2. ctx.tab \cup MaterialsOf(items, n) \subseteq tab2
      BY <2>0, <2>1 DEF tab2
    <3> QED
      BY <2>0, <2>1, <3>1, <3>2 DEF MaterialsReadOK, items
  <2> QED
    BY <1>3, <2>0, <2>2, <2>3, <2>4, MaterialOutcomes, Zenon DEF map2, tab2, r, item
<1> QED
  BY <1>1, <1>2, <1>3

(* Why a file is not even parsed. *)
LEMMA ParseFaults ==
  ASSUME NEW file, NEW root
  PROVE  PreParseFault(file, root, <<"MatReader001", "MatReader002", "MatReader003", "MatReader004",
                                     "MatReader005">>) # "MatReader009"
  BY DEF PreParseFault

(* What reading a file has made. *)
LEMMA FileRead ==
  ASSUME NEW file, IsList(file.items), NEW tab, NEW els,
         NEW r, r = ReadMaterialFile(file, tab, els)
  PROVE  /\ r.fatal = "" =>
              /\ FileMap(file.items, Len(file.items), r.map)
              /\ tab \cup MaterialsOf(file.items, Len(file.items)) \subseteq r.table
              /\ els \cup ElementsOf(file.items, Len(file.items)) \subseteq r.elements
         /\ r.fatal = "MatReader009" => \E es : \E k \in 1 .. Len(file.items) :
              /\ els \cup ElementsOf(file.items, Len(file.items)) \subseteq es
              /\ Dangling(file.items, k, es, tab)
<1> DEFINE code == PreParseFault(file, "materials",
                 <<"MatReader001", "MatReader002", "MatReader003", "MatReader004", "MatReader005">>)
           start == [map |-> EmptyMap, table |-> tab, elements |-> els, fatal |-> code]
           items == file.items
           n == Len(items)
           first == ReadingElements!Fold(start, items)
           second == ReadingMaterials!Fold(first, items)
<1>1. code # "MatReader009"
  BY ParseFaults
<1> HIDE DEF code
<1>2. r = IF code # "" THEN start ELSE second
  BY Zenon DEF ReadMaterialFile, FoldLeft, MapThenFoldSet, Max, ReadingElements!Fold,
               ReadingMaterials!Fold, code
<1>3. n \in Nat /\ DOMAIN items = 1 .. n
  BY ListIsSeq
<1>4. start = Read(EmptyMap, tab, els, code)
  BY DEF Read
<1> HIDE DEF start, first, second, n
<1>5. start.map = EmptyMap /\ start.table = tab /\ start.elements = els /\ start.fatal = code /\ ReadForm(start)
  BY <1>4, ReadFields
<1>6. CASE code # ""
  BY <1>1, <1>2, <1>5, <1>6
<1>7. CASE code = ""
  <2> DEFINE c1 == [items |-> items, tab |-> tab, els |-> els]
             c2 == [items |-> items, tab |-> tab, els |-> first.elements]
  <2>1. c1.items = items /\ c1.tab = tab /\ c1.els = els
    OBVIOUS
  <2>2. c2.items = items /\ c2.tab = tab /\ c2.els = first.elements
    OBVIOUS
  <2> HIDE DEF c1, c2, items
  <2>3. ElementsRead(c1, 0, start)
    <3>1. ElementsOf(items, 0) = {}
      BY DEF ElementsOf
    <3> QED
      BY <1>5, <1>7, <2>1, <3>1 DEF ElementsRead
  <2>4. \A i \in 1 .. n : \A acc : ElementsRead(c1, i - 1, acc) => ElementsRead(c1, i, ReadElement(acc, items[i]))
    <3> SUFFICES ASSUME NEW i \in 1 .. n, NEW acc, ElementsRead(c1, i - 1, acc)
                 PROVE  ElementsRead(c1, i, ReadElement(acc, items[i]))
      OBVIOUS
    <3>1. i \in Nat \ {0}
      BY <1>3
    <3>2. ElementsRead(c1, i, ReadElement(acc, c1.items[i]))
      BY <3>1, ReadElementStep
    <3> QED
      BY <2>1, <3>2
  <2>5. ElementsRead(c1, n, first)
    <3> HIDE DEF ElementsRead
    <3> QED
      BY <1>3, <2>3, <2>4, ReadingElements!FoldInvariant DEF first
  <2>6. /\ ReadForm(first) /\ first.map = EmptyMap /\ first.table = tab /\ first.fatal = ""
        /\ els \cup ElementsOf(items, n) \subseteq first.elements
    BY <2>1, <2>5 DEF ElementsRead
  <2>7. MaterialsReadOK(c2, 0, first)
    <3>1. FileMap(items, 0, EmptyMap) /\ MaterialsOf(items, 0) = {}
      BY DEF FileMap, EmptyMap, MaterialsOf
    <3> QED
      BY <2>2, <2>6, <3>1 DEF MaterialsReadOK
  <2>8. \A i \in 1 .. n : \A acc : MaterialsReadOK(c2, i - 1, acc) => MaterialsReadOK(c2, i, ReadMaterial(acc, items[i]))
    <3> SUFFICES ASSUME NEW i \in 1 .. n, NEW acc, MaterialsReadOK(c2, i - 1, acc)
                 PROVE  MaterialsReadOK(c2, i, ReadMaterial(acc, items[i]))
      OBVIOUS
    <3>1. i \in Nat \ {0}
      BY <1>3
    <3>2. MaterialsReadOK(c2, i, ReadMaterial(acc, c2.items[i]))
      BY <3>1, ReadMaterialStep
    <3> QED
      BY <2>2, <3>2
  <2>9. MaterialsReadOK(c2, n, second)
    <3> HIDE DEF MaterialsReadOK
    <3> QED
      BY <1>3, <2>7, <2>8, ReadingMaterials!FoldInvariant DEF second
  <2>10. r = second
    BY <1>2, <1>7
  <2>11. /\ r.elements = first.elements
         /\ r.fatal = "" => /\ FileMap(items, n, r.map)
                            /\ tab \cup MaterialsOf(items, n) \subseteq r.table
         /\ r.fatal = "MatReader009" => \E k \in 1 .. n : Dangling(items, k, first.elements, tab)
    BY <2>2, <2>9, <2>10 DEF MaterialsReadOK
  <2>12. /\ r.fatal = "" => els \cup ElementsOf(items, n) \subseteq r.elements
         /\ r.fatal = "MatReader009" => \E es : \E k \in 1 .. n :
              els \cup ElementsOf(items, n) \subseteq es /\ Dangling(items, k, es, tab)
    BY <2>6, <2>11
  <2> QED
    BY <2>11, <2>12 DEF n, items
<1> QED
  BY <1>6, <1>7

-----------------------------------------------------------------------------
(* The entries of a compact file, folded. *)
EntryMap(entries, n, map) ==
  /\ \A key \in DOMAIN map : \E i \in 1 .. n :
       /\ entries[i].stepName = key /\ map[key] = entries[i].material
       /\ \A h \in 1 .. n : h > i => entries[h].stepName # key
  /\ \A i \in 1 .. n : entries[i].stepName \in DOMAIN map

Mapping(map, tab, unknown) == [map |-> map, table |-> tab, unknown |-> unknown]

EntriesMapped(entries, n, acc) ==
  \/ \E map, tab : acc = Mapping(map, tab, TRUE)
  \/ \E map, tab : acc = Mapping(map, tab, FALSE) /\ EntryMap(entries, n, map)

MappingEntries == INSTANCE SequenceFolds WITH Op <- MapEntry, Inv <- EntriesMapped

(* One more entry: the last one with a key counts.                          *)
LEMMA EntryMapGrows ==
  ASSUME NEW entries, NEW n \in Nat \ {0}, NEW map, EntryMap(entries, n - 1, map)
  PROVE  EntryMap(entries, n, Put(map, entries[n].stepName, entries[n].material))
<1> DEFINE new == entries[n].stepName
           map2 == Put(map, new, entries[n].material)
<1>1. /\ \A h : h \in 1 .. n <=> h \in 1 .. n - 1 \/ h = n
      /\ \A h \in 1 .. n : ~(h > n)
  OBVIOUS
<1>2. /\ DOMAIN map2 = DOMAIN map \cup {new} /\ map2[new] = entries[n].material
      /\ \A key \in DOMAIN map : key # new => map2[key] = map[key]
  BY DEF Put
<1> HIDE DEF map2
<1>3. ASSUME NEW key \in DOMAIN map2
      PROVE  \E i \in 1 .. n :
               /\ entries[i].stepName = key /\ map2[key] = entries[i].material
               /\ \A h \in 1 .. n : h > i => entries[h].stepName # key
  <2>1. CASE key = new
    BY <1>1, <1>2, <2>1
  <2>2. CASE key # new
    <3>1. PICK i \in 1 .. n - 1 :
            /\ entries[i].stepName = key /\ map[key] = entries[i].material
            /\ \A h \in 1 .. n - 1 : h > i => entries[h].stepName # key
      BY <1>2, <2>2 DEF EntryMap
    <3> QED
      BY <1>1, <1>2, <2>2, <3>1
  <2> QED
    BY <2>1, <2>2
<1>4. \A i \in 1 .. n : entries[i].stepName \in DOMAIN map2
  BY <1>1, <1>2 DEF EntryMap
<1> QED
  BY <1>3, <1>4 DEF EntryMap, map2

LEMMA MapEntryStep ==
  ASSUME NEW entries, NEW n \in Nat \ {0}, NEW acc, EntriesMapped(entries, n - 1, acc)
  PROVE  EntriesMapped(entries, n, MapEntry(acc, entries[n]))
<1> DEFINE e == entries[n]
<1>1. ASSUME NEW map, NEW tab, acc = Mapping(map, tab, TRUE)
      PROVE  EntriesMapped(entries, n, MapEntry(acc, e))
  <2>1. acc.unknown
    BY <1>1, Zenon DEF Mapping
  <2>2. MapEntry(acc, e) = acc
    BY <2>1, Zenon DEF MapEntry
  <2> QED
    BY <1>1, <2>2, Zenon DEF EntriesMapped
<1>2. ASSUME NEW map, NEW tab, acc = Mapping(map, tab, FALSE), EntryMap(entries, n - 1, map)
      PROVE  EntriesMapped(entries, n, MapEntry(acc, e))
  <2>1. ~acc.unknown /\ acc.map = map /\ acc.table = tab
    BY <1>2, Zenon DEF Mapping
  <2>2. CASE e.material \notin Nist \cup tab
    <3>1. MapEntry(acc, e) = [acc EXCEPT !.unknown = TRUE]
      BY <2>1, <2>2, Zenon DEF MapEntry
    <3>2. MapEntry(acc, e) = Mapping(map, tab, TRUE)
      BY <1>2, <3>1 DEF Mapping
    <3> QED
      BY <3>2, Zenon DEF EntriesMapped
  <2>3. CASE e.material \in Nist \cup tab
    <3> DEFINE map2 == Put(map, e.stepName, e.material)
               tab2 == tab \cup {e.material}
    <3>1. MapEntry(acc, e) = [acc EXCEPT !.map = AddMaterial(acc.map, e.stepName, e.material),
                                        !.table = acc.table \cup {e.material}]
      BY <2>1, <2>3, Zenon DEF MapEntry
    <3>2. AddMaterial(acc.map, e.stepName, e.material) = map2 /\ acc.table \cup {e.material} = tab2
      BY <2>1 DEF AddMaterial
    <3>3. EntryMap(entries, n, map2)
      BY <1>2, EntryMapGrows
    <3> HIDE DEF map2, tab2
    <3>4. MapEntry(acc, e) = Mapping(map2, tab2, FALSE)
      BY <1>2, <3>1, <3>2 DEF Mapping
    <3> QED
      BY <3>3, <3>4, Zenon DEF EntriesMapped
  <2> QED
    BY <2>2, <2>3
<1> QED
  BY <1>1, <1>2, Zenon DEF EntriesMapped

LEMMA MappingFields ==
  ASSUME NEW acc, NEW map, NEW tab, NEW b \in BOOLEAN, acc = Mapping(map, tab, b)
  PROVE  acc.map = map /\ (acc.unknown <=> b)
<1>1. CASE b = TRUE
  BY <1>1, Zenon DEF Mapping
<1>2. CASE b = FALSE
  BY <1>2, Zenon DEF Mapping
<1> QED
  BY <1>1, <1>2

(* A compact file whose materials are all known is mapped as it says.       *)
LEMMA EntriesAreMapped ==
  ASSUME NEW entries, IsList(entries), ~MapEntries(entries).unknown
  PROVE  EntryMap(entries, Len(entries), MapEntries(entries).map)
<1> DEFINE base == [map |-> EmptyMap, table |-> table, unknown |-> FALSE]
           n == Len(entries)
<1>1. MapEntries(entries) = MappingEntries!Fold(base, entries)
  BY Zenon DEF MapEntries, FoldLeft, MapThenFoldSet, Max, MappingEntries!Fold
<1>2. n \in Nat /\ DOMAIN entries = 1 .. n
  BY ListIsSeq
<1> HIDE DEF n
<1>3. EntriesMapped(entries, 0, base)
  <2>1. EntryMap(entries, 0, EmptyMap)
    BY DEF EntryMap, EmptyMap
  <2>2. base = Mapping(EmptyMap, table, FALSE)
    BY Zenon DEF Mapping
  <2> QED
    BY <2>1, <2>2, Zenon DEF EntriesMapped
<1>4. \A i \in 1 .. n : \A acc : EntriesMapped(entries, i - 1, acc) => EntriesMapped(entries, i, MapEntry(acc, entries[i]))
  <2> SUFFICES ASSUME NEW i \in 1 .. n, NEW acc, EntriesMapped(entries, i - 1, acc)
               PROVE  EntriesMapped(entries, i, MapEntry(acc, entries[i]))
    OBVIOUS
  <2>1. i \in Nat \ {0}
    BY <1>2
  <2> QED
    BY <2>1, MapEntryStep
<1> HIDE DEF base
<1>5. EntriesMapped(entries, n, MapEntries(entries))
  <2> HIDE DEF EntriesMapped
  <2> QED
    BY <1>1, <1>2, <1>3, <1>4, MappingEntries!FoldInvariant
<1>6. ASSUME NEW map, NEW tab, MapEntries(entries) = Mapping(map, tab, TRUE)
      PROVE  FALSE
  BY <1>6, MappingFields, Zenon
<1>7. ASSUME NEW map, NEW tab, MapEntries(entries) = Mapping(map, tab, FALSE), EntryMap(entries, n, map)
      PROVE  EntryMap(entries, Len(entries), MapEntries(entries).map)
  <2>1. MapEntries(entries).map = map
    BY <1>7, MappingFields, Zenon
  <2> QED
    BY <1>7, <2>1, Zenon DEF n
<1> QED
  BY <1>5, <1>6, <1>7, Zenon DEF EntriesMapped

-----------------------------------------------------------------------------
(* The maps of the files read. *)

(* The map is what the first n files say, and has every key they declare. *)
QueueMap(n, map) ==
  /\ \A key \in DOMAIN map : FilesSay(n, key, map[key])
  /\ \A j \in 1 .. n : \A i \in DOMAIN QueuedItems(j) :
       QueuedItems(j)[i].tag = "material" => QueuedItems(j)[i].stepName \in DOMAIN map

(* What the first n files declare is in the store of elements and the table. *)
FilesProvide(n, els, tab) ==
  \A j \in 1 .. n : \A i \in DOMAIN QueuedItems(j) :
    /\ QueuedItems(j)[i].tag \in {"isotope", "element"} => QueuedItems(j)[i].name \in els
    /\ QueuedItems(j)[i].tag = "material" => DeclaredName(QueuedItems(j)[i]) \in tab

BuildInv ==
  phase = "construct" =>
    /\ QueueMap(Len(build.materials), build.map)
    /\ FilesProvide(Len(build.materials), elements, table)

(* The items of any path are a list, also of one without a file.            *)
LEMMA ItemsAreListed ==
  ASSUME NEW path
  PROVE  IsList(MaterialFile(path).items)
<1>1. IsList(<<>>)
  BY DEF IsList
<1> QED
  BY <1>1, MaterialFilesAssumption DEF MaterialFile, NoFile

(* What is said of the files read depends on the queue only.                *)
LEMMA QueueSame ==
  ASSUME UNCHANGED queue, NEW n
  PROVE  /\ \A map : QueueMap(n, map) => QueueMap(n, map)'
         /\ \A els, tab : FilesProvide(n, els, tab) => FilesProvide(n, els, tab)'
  BY DEF QueueMap, FilesProvide, FilesSay, QueuedItems

LEMMA QueueOfNone == \A map, els, tab : DOMAIN map = {} => QueueMap(0, map) /\ FilesProvide(0, els, tab)
  BY DEF QueueMap, FilesProvide

(* One more file. *)
LEMMA QueueGrows ==
  ASSUME NEW n \in Nat, NEW map, QueueMap(n, map), NEW more, NEW k \in Nat,
         DOMAIN QueuedItems(n + 1) = 1 .. k, FileMap(QueuedItems(n + 1), k, more)
  PROVE  QueueMap(n + 1, Merge(map, more))
<1> DEFINE items == QueuedItems(n + 1)
           merged == Merge(map, more)
<1>0. DOMAIN items = 1 .. k /\ FileMap(items, k, more)
  OBVIOUS
<1>1. \A j : j \in 1 .. n + 1 <=> j \in 1 .. n \/ j = n + 1
  OBVIOUS
<1>2. /\ DOMAIN merged = DOMAIN more \cup DOMAIN map
      /\ \A key \in DOMAIN merged : merged[key] = IF key \in DOMAIN more THEN more[key] ELSE map[key]
  BY DEF Merge
<1> HIDE DEF merged
<1>3. \A j \in 1 .. n + 1 : \A i \in DOMAIN QueuedItems(j) :
        QueuedItems(j)[i].tag = "material" => QueuedItems(j)[i].stepName \in DOMAIN merged
  <2> SUFFICES ASSUME NEW j \in 1 .. n + 1, NEW i \in DOMAIN QueuedItems(j),
                      QueuedItems(j)[i].tag = "material"
               PROVE  QueuedItems(j)[i].stepName \in DOMAIN merged
    OBVIOUS
  <2>1. CASE j \in 1 .. n
    BY <1>2, <2>1 DEF QueueMap
  <2>2. CASE j = n + 1
    BY <1>0, <1>2, <2>2 DEF FileMap
  <2> QED
    BY <1>1, <2>1, <2>2
<1>4. ASSUME NEW key \in DOMAIN merged
      PROVE  FilesSay(n + 1, key, merged[key])
  <2>1. CASE key \in DOMAIN more
    <3>1. PICK i \in 1 .. k : LastOf(items, k, i, key) /\ more[key] = DeclaredName(items[i])
      BY <1>0, <2>1 DEF FileMap
    <3> DEFINE j == n + 1
    <3>2. /\ j \in 1 .. n + 1 /\ i \in DOMAIN QueuedItems(j)
          /\ Declares(QueuedItems(j)[i], key)
          /\ merged[key] = DeclaredName(QueuedItems(j)[i])
          /\ \A h \in DOMAIN QueuedItems(j) : h > i => ~Declares(QueuedItems(j)[h], key)
      BY <1>0, <1>2, <2>1, <3>1 DEF LastOf
    <3>3. \A m : m \notin j + 1 .. n + 1
      OBVIOUS
    <3> QED
      BY <3>2, <3>3, Zenon DEF FilesSay
  <2>2. CASE key \notin DOMAIN more
    <3>1. FilesSay(n, key, map[key]) /\ merged[key] = map[key]
      BY <1>2, <2>2 DEF QueueMap
    <3>2. PICK j \in 1 .. n : \E i \in DOMAIN QueuedItems(j) :
            /\ Declares(QueuedItems(j)[i], key)
            /\ map[key] = DeclaredName(QueuedItems(j)[i])
            /\ \A h \in DOMAIN QueuedItems(j) : h > i => ~Declares(QueuedItems(j)[h], key)
            /\ \A m \in j + 1 .. n : \A h \in DOMAIN QueuedItems(m) : ~Declares(QueuedItems(m)[h], key)
      BY <3>1 DEF FilesSay
    <3>3. \A h \in DOMAIN items : ~Declares(items[h], key)
      BY <1>0, <2>2 DEF FileMap, Declares
    <3>4. \A m \in j + 1 .. n + 1 : m \in j + 1 .. n \/ m = n + 1
      OBVIOUS
    <3>5. j \in 1 .. n + 1
      OBVIOUS
    <3>6. \A m \in j + 1 .. n + 1 :
            \/ m \in j + 1 .. n
            \/ \A h \in DOMAIN QueuedItems(m) : ~Declares(QueuedItems(m)[h], key)
      BY <3>3, <3>4
    <3> QED
      BY <3>1, <3>2, <3>5, <3>6, Zenon DEF FilesSay
  <2> QED
    BY <2>1, <2>2
<1> QED
  BY <1>3, <1>4 DEF QueueMap, merged

(* One more file provides its own elements and materials as well.           *)
LEMMA ProvideGrows ==
  ASSUME NEW n \in Nat, NEW k \in Nat, DOMAIN QueuedItems(n + 1) = 1 .. k,
         FilesProvide(n, elements, table), NEW els, NEW tab,
         elements \cup ElementsOf(QueuedItems(n + 1), k) \subseteq els,
         table \cup MaterialsOf(QueuedItems(n + 1), k) \subseteq tab
  PROVE  FilesProvide(n + 1, els, tab)
<1>1. \A j : j \in 1 .. n + 1 <=> j \in 1 .. n \/ j = n + 1
  OBVIOUS
<1>2. \A i \in 1 .. k :
        /\ QueuedItems(n + 1)[i].tag \in {"isotope", "element"} => QueuedItems(n + 1)[i].name \in els
        /\ QueuedItems(n + 1)[i].tag = "material" => DeclaredName(QueuedItems(n + 1)[i]) \in tab
  BY DEF ElementsOf, MaterialsOf
<1> QED
  BY <1>1, <1>2 DEF FilesProvide

(* What construction reads stays, but for the next file. *)
LEMMA BuildSteps ==
  ASSUME BuildForm, [Next]_vars, phase' = "construct"
  PROVE  \/ build' = NewBuild
         \/ phase = "construct" /\ ReadNextMaterialFile
         \/ /\ phase = "construct" /\ UNCHANGED <<queue, table, elements>>
            /\ build'.map = build.map /\ build'.materials = build.materials
<1>1. CASE UNCHANGED vars
  BY <1>1 DEF vars, processVars, appVars
<1>2. CASE PluginNext
  BY <1>2 DEF PluginNext, PluginStep, CreateStepAssembly, RegisterAssembly, PluginImportFails, CreateStepSolid,
     HandleSolid, ConstructGeo, Apply, ApplyFile, Release, ExitJob, UserCall, Building, processVars, Die
<1>3. CASE ToolNext
  BY <1>3 DEF ToolNext, ToolStep, ToolOption, ToolFile, ToolHelp, ToolUsage, ToolRead, Arguments,
     WriteMaterialMap, WriteCompact, ToolWrite, FillIn, RunToolAgain, StartJob, Die, processVars
<1>4. CASE AppNext
  <2>1. CASE ParseOption \/ ParseFile \/ ParseError \/ EndOfArguments \/ QueueCommand \/ Quit
             \/ RecordCommand \/ BeamOn
    BY <2>1 DEF ParseOption, ParseFile, ParseError, EndOfArguments, QueueCommand, Quit,
                      RecordCommand, BeamOn, Command, processVars, Die
  <2>2. CASE Initialize
    BY <2>2 DEF Initialize
  <2>3. CASE BuildNextSolid \/ KeepAssembly
    <3>1. /\ phase = "construct" /\ UNCHANGED <<queue, table, elements>>
      BY <2>3 DEF BuildNextSolid, KeepAssembly, MaterialsRead, processVars
    <3>2. \/ UNCHANGED build
          \/ \E ss, bs : build' = [build EXCEPT !.solids = ss, !.bounds = bs]
          \/ \E as, bs : build' = [build EXCEPT !.assemblies = as, !.bounds = bs]
      BY <2>3, Zenon DEF BuildNextSolid, KeepAssembly
    <3>3. ASSUME NEW ss, NEW bs, build' = [build EXCEPT !.solids = ss, !.bounds = bs]
          PROVE  build'.map = build.map /\ build'.materials = build.materials
      BY <3>3 DEF BuildForm
    <3>4. ASSUME NEW as, NEW bs, build' = [build EXCEPT !.assemblies = as, !.bounds = bs]
          PROVE  build'.map = build.map /\ build'.materials = build.materials
      BY <3>4 DEF BuildForm
    <3> QED
      BY <3>1, <3>2, <3>3, <3>4
  <2>4. CASE ImportNextAssembly \/ ImportFails \/ FinishConstruct
             \/ (phase = "construct" /\ ImportLabel /\ UNCHANGED <<processVars, appVars>>)
             \/ (phase = "commands" /\ EventLoop /\ UNCHANGED <<processVars, appVars>>)
    BY <2>4 DEF ImportNextAssembly, ImportFails, FinishConstruct, processVars, appVars, SolidsBuilt,
                MaterialsRead, Die
  <2>5. CASE ReadNextMaterialFile
    BY <2>5 DEF ReadNextMaterialFile
  <2> QED
    BY <1>4, <2>1, <2>2, <2>3, <2>4, <2>5 DEF AppNext, AppStep
<1> QED
  BY <1>1, <1>2, <1>3, <1>4 DEF Next, Over

(* The next file, read or not. *)
LEMMA NextFile ==
  ASSUME BuildForm, BuildInv, phase = "construct", ReadNextMaterialFile
  PROVE  /\ UNCHANGED queue
         /\ \/ /\ phase' = "construct" /\ UNCHANGED fault
               /\ Len(build'.materials) = Len(build.materials) + 1
               /\ QueueMap(Len(build.materials) + 1, build'.map)
               /\ FilesProvide(Len(build.materials) + 1, elements', table')
            \/ /\ phase' = "dead" /\ UNCHANGED build
               /\ fault' = "MatReader009" =>
                    \E k \in DOMAIN QueuedItems(Len(build.materials) + 1) :
                      /\ QueuedItems(Len(build.materials) + 1)[k].tag = "material"
                      /\ ~(QueuedItems(Len(build.materials) + 1)[k].refs
                             \subseteq Provided(Len(build.materials) + 1, k))
<1> DEFINE n == Len(build.materials)
           path == queue.xmls[n + 1]
           file == MaterialFile(path)
           read == ReadMaterialFile(file, table, elements)
           items == QueuedItems(n + 1)
           k == Len(items)
<1>0. n \in Nat /\ QueueMap(n, build.map) /\ FilesProvide(n, elements, table)
  BY DEF BuildForm, BuildInv
<1>1. items = file.items
  BY DEF QueuedItems
<1>2. IsList(items) /\ k \in Nat /\ DOMAIN items = 1 .. k
  BY <1>1, ItemsAreListed, ListIsSeq
<1>3. /\ read.fatal = "" => /\ FileMap(items, k, read.map)
                            /\ table \cup MaterialsOf(items, k) \subseteq read.table
                            /\ elements \cup ElementsOf(items, k) \subseteq read.elements
      /\ read.fatal = "MatReader009" => \E es : \E h \in 1 .. k :
           elements \cup ElementsOf(items, k) \subseteq es /\ Dangling(items, h, es, table)
  <2> DEFINE list == file.items
             m == Len(list)
  <2>1. /\ read.fatal = "" => /\ FileMap(list, m, read.map)
                              /\ table \cup MaterialsOf(list, m) \subseteq read.table
                              /\ elements \cup ElementsOf(list, m) \subseteq read.elements
        /\ read.fatal = "MatReader009" => \E es : \E h \in 1 .. m :
             elements \cup ElementsOf(list, m) \subseteq es /\ Dangling(list, h, es, table)
    <3>1. IsList(list)
      BY ItemsAreListed
    <3> QED
      BY <3>1, FileRead
  <2>2. items = list
    BY <1>1
  <2> HIDE DEF read, items, list
  <2> QED
    BY <2>1, <2>2
<1>4. UNCHANGED queue
  BY DEF ReadNextMaterialFile
<1>5. \/ /\ read.fatal = ""
         /\ build' = [build EXCEPT !.materials = Append(build.materials, path),
                                   !.map = Merge(build.map, read.map)]
         /\ table' = read.table /\ elements' = read.elements /\ UNCHANGED <<phase, fault>>
      \/ phase' = "dead" /\ fault' = read.fatal /\ UNCHANGED build
  BY DEF ReadNextMaterialFile, Die
<1> HIDE DEF read, items, k, file, path
<1>6. CASE /\ read.fatal = ""
           /\ build' = [build EXCEPT !.materials = Append(build.materials, path),
                                     !.map = Merge(build.map, read.map)]
           /\ table' = read.table /\ elements' = read.elements /\ UNCHANGED <<phase, fault>>
  <2>1. QueueMap(n + 1, Merge(build.map, read.map))
    BY <1>0, <1>2, <1>3, <1>6, QueueGrows DEF items
  <2>2. FilesProvide(n + 1, read.elements, read.table)
    BY <1>0, <1>2, <1>3, <1>6, ProvideGrows DEF items
  <2> DEFINE ms == Append(build.materials, path)
             mp == Merge(build.map, read.map)
  <2>3. Len(ms) = n + 1
    BY AppendValues DEF BuildForm
  <2> HIDE DEF ms, mp
  <2>4. build'.materials = ms /\ build'.map = mp
    BY <1>6 DEF BuildForm, ms, mp
  <2> QED
    BY <1>4, <1>6, <2>1, <2>2, <2>3, <2>4 DEF mp
<1>7. CASE phase' = "dead" /\ fault' = read.fatal /\ UNCHANGED build
  <2>1. ASSUME fault' = "MatReader009"
        PROVE  \E h \in DOMAIN items : items[h].tag = "material" /\ ~(items[h].refs \subseteq Provided(n + 1, h))
    <3>1. PICK es, h :
            /\ h \in 1 .. k /\ elements \cup ElementsOf(items, k) \subseteq es
            /\ Dangling(items, h, es, table)
      BY <1>3, <1>7, <2>1
    <3>2. Provided(n + 1, h) \subseteq es \cup table \cup MaterialsOf(items, h - 1)
      <4> SUFFICES ASSUME NEW j \in 1 .. n + 1, NEW i \in DOMAIN QueuedItems(j)
                   PROVE  /\ QueuedItems(j)[i].tag \in {"isotope", "element"} => QueuedItems(j)[i].name \in es
                          /\ QueuedItems(j)[i].tag = "material" /\ (j < n + 1 \/ i < h) =>
                               DeclaredName(QueuedItems(j)[i]) \in table \cup MaterialsOf(items, h - 1)
        <5> DEFINE D == es \cup table \cup MaterialsOf(items, h - 1)
        <5>1. \A x \in Provided(n + 1, h) : \E j \in 1 .. n + 1 : \E i \in DOMAIN QueuedItems(j) :
                \/ x = QueuedItems(j)[i].name /\ QueuedItems(j)[i].tag \in {"isotope", "element"}
                \/ /\ x = DeclaredName(QueuedItems(j)[i])
                   /\ QueuedItems(j)[i].tag = "material" /\ (j < n + 1 \/ i < h)
          BY DEF Provided
        <5> QED
          BY <5>1
      <4>1. CASE j \in 1 .. n
        BY <1>0, <3>1, <4>1 DEF FilesProvide
      <4>2. CASE j = n + 1
        <5>1. i \in 1 .. k /\ QueuedItems(j) = items /\ ~(j < n + 1) /\ h \in Nat
          BY <1>0, <1>2, <3>1, <4>2 DEF items
        <5>2. i < h => i \in 1 .. h - 1
          BY <1>2, <5>1
        <5>3. items[i].tag \in {"isotope", "element"} => items[i].name \in es
          BY <3>1, <5>1 DEF ElementsOf
        <5>4. items[i].tag = "material" /\ i < h => DeclaredName(items[i]) \in MaterialsOf(items, h - 1)
          BY <5>2 DEF MaterialsOf
        <5> QED
          BY <5>1, <5>3, <5>4
      <4> QED
        BY <1>0, <4>1, <4>2
    <3> QED
      BY <1>2, <3>1, <3>2 DEF Dangling
  <2> QED
    BY <1>4, <1>7, <2>1 DEF items
<1> QED
  BY <1>5, <1>6, <1>7

(* The map is that of the files read so far.                                *)
LEMMA BuildInvStep ==
  ASSUME BuildForm, BuildInv, [Next]_vars
  PROVE  BuildInv'
<1> SUFFICES ASSUME phase' = "construct"
             PROVE  /\ QueueMap(Len(build.materials), build.map)'
                    /\ FilesProvide(Len(build.materials), elements, table)'
  BY DEF BuildInv
<1>1. CASE build' = NewBuild
  <2>1. build'.map = <<>> /\ build'.materials = <<>>
    BY <1>1 DEF NewBuild, EmptyMap
  <2>2. Len(build'.materials) = 0 /\ DOMAIN build'.map = {}
    BY <2>1
  <2> QED
    BY <2>2 DEF QueueMap, FilesProvide
<1>2. CASE phase = "construct" /\ ReadNextMaterialFile
  <2>1. /\ UNCHANGED queue
        /\ Len(build'.materials) = Len(build.materials) + 1
        /\ QueueMap(Len(build.materials) + 1, build'.map)
        /\ FilesProvide(Len(build.materials) + 1, elements', table')
    BY <1>2, NextFile
  <2> QED
    BY <2>1 DEF QueueMap, FilesProvide, FilesSay, QueuedItems
<1>3. CASE /\ phase = "construct" /\ UNCHANGED <<queue, table, elements>>
           /\ build'.map = build.map /\ build'.materials = build.materials
  BY <1>3 DEF BuildInv, QueueMap, FilesProvide, FilesSay, QueuedItems
<1> QED
  BY <1>1, <1>2, <1>3, BuildSteps

-----------------------------------------------------------------------------
(* The entries of the detectors still to be built are lists. *)
CompactInv == (\E U : compact \in Seq(U)) /\ \A i \in DOMAIN compact : IsList(compact[i].entries)

(* A sequence of one.                                                       *)
LEMMA OneOf ==
  ASSUME NEW x
  PROVE  (\E U : <<x>> \in Seq(U)) /\ \A i \in DOMAIN <<x>> : <<x>>[i] = x
<1>1. <<x>> \in Seq({x})
  OBVIOUS
<1>2. DOMAIN <<x>> = {1} /\ <<x>>[1] = x
  OBVIOUS
<1>3. \E U : <<x>> \in Seq(U)
  BY <1>1
<1> QED
  BY <1>2, <1>3

(* The entries the plugin reads from a compact file of the tool. *)
ReadEntry(e) == [stepName |-> NameRead(e.text), material |-> e.material]

(* The tool writes a set of entries; a parser reads them as a list.         *)
LEMMA EntriesListed ==
  ASSUME NEW S, IsFiniteSet(S)
  PROVE  IsList([i \in DOMAIN SetToSeq(S) |-> ReadEntry(SetToSeq(S)[i])])
<1> DEFINE s == SetToSeq(S)
           n == Cardinality(S)
<1>1. n \in Nat /\ ExistsBijection(1 .. n, S)
  BY FS_CardinalityType
<1>2. \E f \in [1 .. n -> S] : IsInjective(f)
  <2>1. PICK f : f \in Bijection(1 .. n, S)
    BY <1>1 DEF ExistsBijection
  <2> QED
    BY <2>1 DEF Bijection, Injection, IsInjective
<1>3. s \in [1 .. n -> S]
  BY <1>2, Zenon DEF SetToSeq
<1> HIDE DEF s, n
<1> DEFINE t == [i \in DOMAIN s |-> ReadEntry(s[i])]
           V == {ReadEntry(s[i]) : i \in 1 .. n}
<1>4. t = [i \in 1 .. n |-> ReadEntry(s[i])] /\ \A i \in 1 .. n : ReadEntry(s[i]) \in V
  BY <1>3
<1> HIDE DEF V
<1>5. t \in [1 .. n -> V] /\ DOMAIN t = 1 .. n
  BY <1>4
<1> HIDE DEF t
<1>6. t \in Seq(V) /\ Len(t) = n
  BY <1>1, <1>5 DEF n
<1>7. t = [i \in 1 .. Len(t) |-> t[i]]
  BY <1>5, <1>6
<1>8. IsList(t)
  BY <1>1, <1>6, <1>7 DEF IsList, n
<1> QED
  BY <1>8 DEF t, s

(* Detectors leave the compact file from its head; the tool starts a job.   *)
LEMMA CompactSteps ==
  ASSUME [Next]_vars
  PROVE  UNCHANGED compact \/ (compact # <<>> /\ compact' = Tail(compact)) \/ StartJob
<1>1. CASE UNCHANGED vars \/ AppNext
  BY <1>1 DEF vars, AppNext, pluginVars
<1>2. CASE PluginNext
  BY <1>2 DEF PluginNext, PluginStep, CreateStepAssembly, RegisterAssembly, PluginImportFails,
     CreateStepSolid, HandleSolid, ConstructGeo, Apply, ApplyFile, Release, ExitJob, Building, pluginVars
<1>3. CASE ToolNext
  BY <1>3 DEF ToolNext, ToolStep, pluginVars
<1> QED
  BY <1>1, <1>2, <1>3 DEF Next, Over

LEMMA CompactInvStep == CompactInv /\ [Next]_vars => CompactInv'
<1> SUFFICES ASSUME CompactInv, [Next]_vars PROVE CompactInv'
  OBVIOUS
<1>1. CASE UNCHANGED compact
  BY <1>1 DEF CompactInv
<1>2. CASE compact # <<>> /\ compact' = Tail(compact)
  <2>1. PICK U : compact \in Seq(U)
    BY DEF CompactInv
  <2>2. /\ compact' \in Seq(U) /\ \A i \in DOMAIN compact' : i + 1 \in DOMAIN compact /\ compact'[i] = compact[i + 1]
    BY <1>2, <2>1
  <2>3. \A i \in DOMAIN compact' : IsList(compact'[i].entries)
    BY <2>2 DEF CompactInv
  <2> QED
    BY <2>2, <2>3 DEF CompactInv
<1>3. CASE StartJob
  <2> DEFINE file == files[tool.compactOut]
             es == SetToSeq(file.entries)
             list == [i \in DOMAIN es |-> ReadEntry(es[i])]
             c == [plugin |-> "assembly", name |-> "generated", path |-> file.step, entries |-> list]
  <2>1. IsFiniteSet(file.entries) /\ compact' = <<c>>
    BY <1>3, Zenon DEF StartJob, ReadEntry
  <2>2. IsList(list)
    BY <2>1, EntriesListed
  <2>3. c.entries = list
    OBVIOUS
  <2> HIDE DEF c
  <2> QED
    BY <2>1, <2>2, <2>3, OneOf DEF CompactInv
<1> QED
  BY <1>1, <1>2, <1>3, CompactSteps

LEMMA CompactInvInit == Init => CompactInv
<1> SUFFICES ASSUME Init PROVE CompactInv
  OBVIOUS
<1>1. compact = <<>> \/ \E c \in CompactFiles : compact = c
  BY DEF Init, Starts, PluginInit
<1>2. CASE compact = <<>>
  <2>1. <<>> \in Seq({}) /\ DOMAIN <<>> = {}
    OBVIOUS
  <2> QED
    BY <1>2, <2>1 DEF CompactInv
<1>3. ASSUME NEW c \in CompactFiles, compact = c PROVE CompactInv
  BY <1>3, CompactFilesAssumption, ListIsSeq DEF CompactInv
<1> QED
  BY <1>1, <1>2, <1>3

-----------------------------------------------------------------------------
(* The import, which is given the map and finds materials in it. *)

KeyOf(a, i) == MaterialKey(Documents[heap[a].doc].labels[heap[a].parts[i].label])

(* The parts are made of what their keys map to. *)
PartsMade ==
  \A i \in DOMAIN heap[Current].parts :
    /\ KeyOf(Current, i) \in DOMAIN materialMap
    /\ heap[Current].parts[i].material = materialMap[KeyOf(Current, i)]

(* A simple shape has no key, or one that the map does not have. *)
MissingKey ==
  \E l \in DOMAIN Labels :
    /\ Labels[l].kind = "simple" /\ Labels[l].shape # "null"
    /\ MaterialKey(Labels[l]) = NoName \/ MaterialKey(Labels[l]) \notin DOMAIN materialMap

(* The map of the import is that of the files, or of the entries. *)
MapGiven ==
  /\ phase = "construct" => materialMap = build.map
  /\ phase = "compact" => EntryMap(compact[1].entries, Len(compact[1].entries), materialMap)

ImportInv ==
  /\ import \in {"walking", "done", "aborted"} => MapGiven
  /\ import \in {"walking", "done"} => PartsMade
  /\ import = "aborted" => MissingKey

(* Which steps an import can see. *)
LEMMA ImportSteps ==
  ASSUME OwnersInv, BuildForm, ProcessInv, [Next]_vars
  PROVE  \/ import' \in {"none", "threw"}
         \/ UNCHANGED <<import, materialMap, heap, phase, build, compact>>
         \/ ImportLabel /\ UNCHANGED <<phase, build, compact>>
         \/ \E path : /\ phase = "construct" /\ BeginFromSTEP(path, build.map)
                      /\ UNCHANGED <<phase, build>>
         \/ \E path : /\ phase = "compact" /\ compact # <<>>
                      /\ ~MapEntries(compact[1].entries).unknown
                      /\ BeginFromSTEP(path, MapEntries(compact[1].entries).map)
                      /\ UNCHANGED <<phase, compact>>
<1>0. /\ import # "none" => phase \in {"construct", "compact"}
      /\ phase = "construct" /\ import # "none" => ~ReadNextMaterialFile /\ ~BuildNextSolid
      /\ phase = "compact" /\ import # "none" => compact # <<>> /\ compact[1].plugin = "assembly"
  BY SolidsAreBuilt DEF ProcessInv, OwnersInv, PhaseOwners
<1>1. CASE UNCHANGED vars
  BY <1>1 DEF vars, importVars, ctxVars, processVars, appVars, pluginVars
<1>2. CASE AppNext
  <2>0. UNCHANGED compact
    BY <1>2 DEF AppNext, pluginVars
  <2>1. CASE /\ \/ ParseOption \/ ParseFile \/ ParseError \/ EndOfArguments
                \/ QueueCommand \/ Initialize \/ Quit \/ RecordCommand \/ BeamOn
                \/ phase = "commands" /\ EventLoop
             /\ UNCHANGED importVars
    <3>1. phase \in {"parse", "commands"}
      BY <2>1 DEF ParseOption, ParseFile, ParseError, EndOfArguments, QueueCommand, Initialize, Quit,
                  RecordCommand, BeamOn, Command
    <3>2. import' = "none"
      BY <1>0, <2>1, <3>1 DEF importVars
    <3> QED
      BY <3>2
  <2>2. CASE (ReadNextMaterialFile \/ BuildNextSolid) /\ UNCHANGED importVars
    <3>1. phase = "construct"
      BY <2>2 DEF ReadNextMaterialFile, BuildNextSolid, MaterialsRead
    <3> QED
      BY <1>0, <2>2, <3>1 DEF importVars
  <2>3. CASE ImportNextAssembly
    <3>1. PICK path : FromSTEP(path, build.map)
      BY <2>3 DEF ImportNextAssembly
    <3>2. phase = "construct" /\ UNCHANGED <<phase, build>>
      BY <2>3 DEF ImportNextAssembly, SolidsBuilt, MaterialsRead, processVars, appVars
    <3> QED
      BY <3>1, <3>2 DEF FromSTEP, FromSTEPFails
  <2>4. CASE KeepAssembly \/ ImportFails \/ FinishConstruct
    BY <2>4 DEF KeepAssembly, ImportFails, FinishConstruct, LeaveFromSTEP
  <2>5. CASE phase = "construct" /\ ImportLabel /\ UNCHANGED <<processVars, appVars>>
    BY <2>0, <2>5 DEF processVars, appVars
  <2> QED
    BY <1>2, <2>1, <2>2, <2>3, <2>4, <2>5 DEF AppNext, AppStep
<1>3. CASE PluginNext
  <2>0. UNCHANGED build
    BY <1>3 DEF PluginNext, appVars
  <2>1. CASE CreateStepAssembly
    <3>1. phase = "compact" /\ compact # <<>> /\ import = "none" /\ UNCHANGED compact
      BY <2>1 DEF CreateStepAssembly, Building, pluginVars
    <3>2. CASE /\ ~MapEntries(compact[1].entries).unknown
               /\ FromSTEP(compact[1].path, MapEntries(compact[1].entries).map)
               /\ UNCHANGED phase
      BY <3>1, <3>2 DEF FromSTEP, FromSTEPFails
    <3>3. CASE UNCHANGED importVars
      BY <3>1, <3>3 DEF importVars
    <3> QED
      BY <2>1, <3>2, <3>3 DEF CreateStepAssembly
  <2>2. CASE RegisterAssembly \/ PluginImportFails
    BY <2>2 DEF RegisterAssembly, PluginImportFails, LeaveFromSTEP
  <2>3. CASE CreateStepSolid \/ (\E i \in DOMAIN tgeo : HandleSolid(i)) \/ ConstructGeo
    BY <1>0, <2>3 DEF CreateStepSolid, HandleSolid, ConstructGeo, Building, importVars
  <2>4. CASE phase = "compact" /\ ImportLabel /\ UNCHANGED <<processVars, pluginVars>>
    BY <2>0, <2>4 DEF processVars, pluginVars
  <2>5. ASSUME NEW name, NEW x, Apply(name, x) \/ ApplyFile(name, x) \/ Release(name) \/ ExitJob
        PROVE  import' = "none"
    BY <1>0, <2>5 DEF Apply, ApplyFile, Release, UserCall, ExitJob
  <2>6. ExitJob => import' = "none"
    BY <1>0 DEF ExitJob
  <2> QED
    BY <1>3, <2>1, <2>2, <2>3, <2>4, <2>5, <2>6 DEF PluginNext, PluginStep
<1>4. CASE ToolNext
  <2>1. UNCHANGED <<import, materialMap, heap, build>>
    BY <1>4 DEF ToolNext, importVars, ctxVars, appVars
  <2>2. phase \notin {"construct", "compact"}
    BY <1>4 DEF ToolNext, ToolStep, ToolOption, ToolFile, ToolHelp, ToolUsage, ToolRead, Arguments,
       WriteMaterialMap, WriteCompact, ToolWrite, FillIn, RunToolAgain, StartJob
  <2> QED
    BY <1>0, <2>1, <2>2
<1> QED
  BY <1>1, <1>2, <1>3, <1>4 DEF Next, Over

(* Parts and missing keys stay what they are while assemblies and map do.   *)
LEMMA MadeKept ==
  ASSUME UNCHANGED <<heap, materialMap>>
  PROVE  (PartsMade => PartsMade') /\ (MissingKey => MissingKey')
  BY DEF PartsMade, MissingKey, KeyOf, Labels, Current

(* A call of ImportLabel() makes a part of the material its key maps to, or *)
(* aborts for a key that maps to none.                                      *)
LEMMA ImportInvLabel ==
  ASSUME NamesInv, OwnersInv, ImportInv, ImportLabel, UNCHANGED <<phase, build, compact>>
  PROVE  ImportInv'
<1>0. import = "walking" /\ UNCHANGED materialMap
  BY DEF ImportLabel, ImportAssemblyLabel, ReusePrototype, SkipLabel, MaterialMissing, AbortImport,
         BuildPart, BuildPartThrows, EndWalk, FirstEncounter, ctxVars
<1>1. MapGiven' /\ PartsMade
  BY <1>0 DEF ImportInv, MapGiven
<1>2. CASE ImportAssemblyLabel \/ SkipLabel
  <2>1. UNCHANGED <<heap, import>>
    BY <1>2 DEF ImportAssemblyLabel, SkipLabel
  <2> QED
    BY <1>0, <1>1, <2>1, MadeKept DEF ImportInv
<1>3. CASE MaterialMissing
  <2>1. import' = "aborted" /\ UNCHANGED heap
    BY <1>3 DEF MaterialMissing, AbortImport
  <2>2. Here.label \in DOMAIN Labels
    BY <1>3, Calls DEF MaterialMissing, FirstEncounter, Kind
  <2>3. MissingKey
    BY <1>3, <2>2 DEF MaterialMissing, FirstEncounter, Kind, Label, MissingKey, HasMaterial
  <2> QED
    BY <1>0, <1>1, <2>1, <2>3, MadeKept DEF ImportInv
<1>4. CASE EndWalk
  <2>1. heap' = [heap EXCEPT ![Current].owner = "caller"] /\ import' = "done"
    BY <1>4 DEF EndWalk, Owned
  <2>2. SameParts(heap, heap')
    BY <2>1, OwnerSameParts DEF NamesInv, Owners
  <2>3. PartsMade'
    <3>1. Current' = Current /\ Current \in DOMAIN heap
      BY <1>0, <2>2 DEF SameParts, Current, OwnersInv, ImportOwns
    <3>2. heap'[Current].parts = heap[Current].parts /\ heap'[Current].doc = heap[Current].doc
      BY <2>2, <3>1 DEF SameParts
    <3> QED
      BY <1>0, <1>1, <3>1, <3>2 DEF PartsMade, KeyOf
  <2> QED
    BY <1>1, <2>1, <2>3 DEF ImportInv
<1>5. CASE BuildPartThrows
  BY <1>5 DEF BuildPartThrows, ImportInv
<1>6. CASE ReusePrototype
  <2>1. UNCHANGED import
    BY <1>6 DEF ReusePrototype
  <2>2. /\ Len(heap') = Len(heap)
        /\ heap'[Current].parts = heap[Current].parts /\ heap'[Current].doc = heap[Current].doc
    BY <1>6, ReuseFields
  <2>3. PartsMade'
    BY <1>0, <1>1, <2>2 DEF PartsMade, KeyOf, Current
  <2> QED
    BY <1>0, <1>1, <2>1, <2>3 DEF ImportInv
<1>7. CASE BuildPart
  <2>1. UNCHANGED import
    BY <1>7 DEF BuildPart
  <2>2. PICK unique :
          /\ Current \in DOMAIN heap /\ Len(heap') = Len(heap)
          /\ heap'[Current].doc = heap[Current].doc
          /\ heap'[Current].parts = Append(heap[Current].parts, NewPart(unique))
    BY <1>7, BuildPartFields
  <2> DEFINE ps == heap[Current].parts
             part == NewPart(unique)
  <2>3. part.label = Here.label /\ part.material = materialMap[MaterialKey(Label)]
    BY DEF NewPart
  <2>4. MaterialKey(Label) \in DOMAIN materialMap
    BY <1>7 DEF BuildPart, HasMaterial
  <2>5. PICK U : ps \in Seq(U)
    BY <2>2 DEF NamesInv, GoodHeap, GoodAssembly
  <2> HIDE DEF part, ps
  <2>6. \A i \in DOMAIN Append(ps, part) :
          \/ Append(ps, part)[i] = part
          \/ i \in DOMAIN ps /\ Append(ps, part)[i] = ps[i]
    BY <2>5, AppendValues
  <2>7. Current' = Current /\ heap'[Current].parts = Append(ps, part)
    BY <2>2 DEF Current, ps, part
  <2>8. ASSUME NEW i \in DOMAIN heap'[Current].parts
        PROVE  /\ KeyOf(Current, i)' \in DOMAIN materialMap
               /\ heap'[Current].parts[i].material = materialMap[KeyOf(Current, i)']
    <3>1. CASE heap'[Current].parts[i] = part
      BY <2>2, <2>3, <2>4, <2>7, <3>1 DEF KeyOf, Label, Labels
    <3>2. CASE i \in DOMAIN ps /\ heap'[Current].parts[i] = ps[i]
      BY <1>1, <2>2, <2>7, <3>2 DEF KeyOf, PartsMade, ps
    <3> QED
      BY <2>6, <2>7, <2>8, <3>1, <3>2
  <2>9. PartsMade'
    BY <1>0, <2>7, <2>8 DEF PartsMade, KeyOf
  <2> QED
    BY <1>0, <1>1, <2>1, <2>9 DEF ImportInv
<1> QED
  BY <1>2, <1>3, <1>4, <1>5, <1>6, <1>7 DEF ImportLabel

(* FromSTEP() begins with the map it is given, and without parts.           *)
LEMMA ImportInvBegin ==
  ASSUME NamesInv, NEW path, NEW map, BeginFromSTEP(path, map), MapGiven' \/ materialMap' # map
  PROVE  ImportInv'
<1>1. import' = "walking" /\ materialMap' = map /\ heap' = Append(heap, NewAssembly(path))
  BY DEF BeginFromSTEP
<1>2. PICK U : heap \in Seq(U)
  BY DEF NamesInv, GoodHeap
<1> DEFINE new == NewAssembly(path)
<1>3. new.parts = <<>>
  BY DEF NewAssembly
<1> HIDE DEF new
<1>4. /\ Append(heap, new) \in Seq(U \cup {new})
      /\ Append(heap, new)[Len(Append(heap, new))] = new
  BY <1>2, AppendValues
<1>5. heap'[Current'] = new
  BY <1>1, <1>4 DEF Current, new
<1>6. DOMAIN heap'[Current'].parts = {}
  BY <1>3, <1>5
<1>7. PartsMade'
  BY <1>6 DEF PartsMade
<1> QED
  BY <1>1, <1>7 DEF ImportInv

LEMMA ImportInvStep ==
  ASSUME NamesInv, OwnersInv, SessionInv, CompactInv, ImportInv, [Next]_vars
  PROVE  ImportInv'
<1>0. BuildForm /\ ProcessInv
  BY DEF SessionInv
<1>1. CASE import' \in {"none", "threw"}
  BY <1>1 DEF ImportInv
<1>2. CASE UNCHANGED <<import, materialMap, heap, phase, build, compact>>
  BY <1>2, MadeKept DEF ImportInv, MapGiven
<1>3. CASE ImportLabel /\ UNCHANGED <<phase, build, compact>>
  BY <1>3, ImportInvLabel
<1>4. ASSUME NEW path, phase = "construct", BeginFromSTEP(path, build.map), UNCHANGED <<phase, build>>
      PROVE  ImportInv'
  <2>1. materialMap' = build.map
    BY <1>4 DEF BeginFromSTEP
  <2>2. MapGiven'
    BY <1>4, <2>1 DEF MapGiven
  <2> QED
    BY <1>4, <2>2, ImportInvBegin
<1>5. ASSUME NEW path, phase = "compact", compact # <<>>, ~MapEntries(compact[1].entries).unknown,
             BeginFromSTEP(path, MapEntries(compact[1].entries).map), UNCHANGED <<phase, compact>>
      PROVE  ImportInv'
  <2> DEFINE entries == compact[1].entries
             map == MapEntries(entries).map
  <2>1. IsList(entries)
    <3>1. 1 \in DOMAIN compact
      BY <1>5 DEF CompactInv
    <3> QED
      BY <3>1 DEF CompactInv
  <2>2. EntryMap(entries, Len(entries), map)
    BY <1>5, <2>1, EntriesAreMapped
  <2>3. materialMap' = map
    BY <1>5 DEF BeginFromSTEP
  <2>4. MapGiven'
    BY <1>5, <2>2, <2>3 DEF MapGiven
  <2> QED
    BY <1>5, <2>4, ImportInvBegin
<1> QED
  BY <1>0, <1>1, <1>2, <1>3, <1>4, <1>5, ImportSteps

-----------------------------------------------------------------------------
(* How a process dies for a material. *)

BadReference(n) ==
  \E k \in DOMAIN QueuedItems(n) :
    /\ QueuedItems(n)[k].tag = "material"
    /\ ~(QueuedItems(n)[k].refs \subseteq Provided(n, k))

FaultInv == fault = "MatReader009" => BadReference(Len(build.materials) + 1)

(* Only the next material file can be fatal for a component.                *)
LEMMA FaultSteps ==
  ASSUME [Next]_vars
  PROVE  UNCHANGED fault \/ fault' # "MatReader009" \/ (phase = "construct" /\ ReadNextMaterialFile)
<1>1. CASE UNCHANGED vars
  BY <1>1 DEF vars, processVars
<1>2. CASE AppNext
  BY <1>2 DEF AppNext, AppStep, ParseOption, ParseFile, ParseError, EndOfArguments, QueueCommand, Initialize,
     Quit, RecordCommand, BeamOn, ReadNextMaterialFile, BuildNextSolid,
     ImportNextAssembly, KeepAssembly, ImportFails, FinishConstruct, Die, processVars
<1>3. CASE PluginNext
  <2>1. ASSUME NEW name, NEW file \in DOMAIN RuleFiles, ApplyFile(name, file)
        PROVE  UNCHANGED fault \/ fault' # "MatReader009"
    <3>1. ReadRuleFile(RuleFiles[file], Detectors).fatal \notin {"MatReader009", "material"}
      BY RulesAssumption, ReadRulesGood
    <3> QED
      BY <2>1, <3>1 DEF ApplyFile, Die
  <2>2. ASSUME NEW name, NEW x, Apply(name, x) \/ Release(name)
        PROVE  UNCHANGED fault \/ fault' # "MatReader009"
    BY <2>2 DEF Apply, Release, processVars, Die
  <2>3. CASE CreateStepAssembly \/ RegisterAssembly \/ PluginImportFails \/ CreateStepSolid
             \/ (\E i \in DOMAIN tgeo : HandleSolid(i)) \/ ConstructGeo \/ ExitJob
             \/ (phase = "compact" /\ ImportLabel /\ UNCHANGED <<processVars, pluginVars>>)
    BY <2>3 DEF CreateStepAssembly, RegisterAssembly, PluginImportFails, CreateStepSolid,
       HandleSolid, ConstructGeo, ExitJob, processVars, Die
  <2> QED
    BY <1>3, <2>1, <2>2, <2>3 DEF PluginNext, PluginStep
<1>4. CASE ToolNext
  BY <1>4 DEF ToolNext, ToolStep, ToolOption, ToolFile, ToolHelp, ToolUsage, ToolRead, Arguments,
     WriteMaterialMap, WriteCompact, ToolWrite, FillIn, RunToolAgain, StartJob, Die, processVars
<1> QED
  BY <1>1, <1>2, <1>3, <1>4 DEF Next, Over

(* A bad reference stays one while the queue is the same.                   *)
LEMMA BadReferenceStays ==
  ASSUME NEW n, BadReference(n), UNCHANGED queue
  PROVE  BadReference(n)'
<1>1. \A j : QueuedItems(j)' = QueuedItems(j)
  BY DEF QueuedItems
<1>2. \A k : Provided(n, k)' = Provided(n, k)
  BY <1>1 DEF Provided
<1> QED
  BY <1>1, <1>2 DEF BadReference

LEMMA FaultInvStep ==
  ASSUME BuildForm, ProcessInv, BuildInv, FaultInv, [Next]_vars
  PROVE  FaultInv'
<1> SUFFICES ASSUME fault' = "MatReader009"
             PROVE  BadReference(Len(build.materials) + 1)'
  BY DEF FaultInv
<1>0. ASSUME UNCHANGED <<build, queue>>, BadReference(Len(build.materials) + 1)
      PROVE  BadReference(Len(build.materials) + 1)'
  <2>1. PICK n : n = Len(build.materials) + 1
    OBVIOUS
  <2>2. BadReference(n) /\ n = Len(build'.materials) + 1
    BY <1>0, <2>1
  <2>3. BadReference(n)'
    BY <1>0, <2>2, BadReferenceStays
  <2> QED
    BY <2>2, <2>3
<1>1. CASE UNCHANGED fault
  <2>1. phase = "dead"
    BY <1>1 DEF ProcessInv
  <2>2. UNCHANGED <<build, queue>>
    BY <2>1, DeadStops DEF vars, appVars
  <2> QED
    BY <1>0, <1>1, <2>2 DEF FaultInv
<1>2. CASE phase = "construct" /\ ReadNextMaterialFile /\ ~UNCHANGED fault
  <2>1. UNCHANGED <<queue, build>> /\ BadReference(Len(build.materials) + 1)
    BY <1>2, NextFile DEF BadReference
  <2> QED
    BY <1>0, <2>1
<1> QED
  BY <1>1, <1>2, FaultSteps

-----------------------------------------------------------------------------
(* All that the materials of the parts rest on.                             *)
ContentsInv ==
  /\ NamesInv /\ OwnersInv /\ SessionInv
  /\ BuildInv /\ CompactInv /\ ImportInv /\ FaultInv

(* The conjunction is inductive.                                            *)
LEMMA ContentsInit == Init => ContentsInv
<1> SUFFICES ASSUME Init PROVE ContentsInv
  OBVIOUS
<1>1. phase # "construct" /\ import = "none" /\ fault = ""
  BY DEF Init, Starts, ImportInit
<1>2. BuildInv /\ ImportInv /\ FaultInv
  BY <1>1 DEF BuildInv, ImportInv, FaultInv
<1> QED
  BY <1>2, NamesInit, OwnersInit, SessionInvInit, CompactInvInit DEF ContentsInv

LEMMA ContentsStep == ContentsInv /\ [Next]_vars => ContentsInv'
<1> SUFFICES ASSUME ContentsInv, [Next]_vars PROVE ContentsInv'
  OBVIOUS
<1>1. NamesInv' /\ OwnersInv' /\ SessionInv' /\ CompactInv'
  BY NamesStep, OwnersStep, SessionInvStep, CompactInvStep DEF ContentsInv
<1>2. BuildInv' /\ ImportInv' /\ FaultInv'
  BY BuildInvStep, ImportInvStep, FaultInvStep DEF ContentsInv, SessionInv
<1> QED
  BY <1>1, <1>2 DEF ContentsInv

(* In an import the entries of the compact file are a list. *)
LEMMA EntriesFound ==
  ASSUME ContentsInv, phase = "compact", import # "none"
  PROVE  Len(compact[1].entries) \in Nat /\ DOMAIN compact[1].entries = 1 .. Len(compact[1].entries)
<1>1. compact # <<>>
  BY DEF ContentsInv, OwnersInv, PhaseOwners
<1>2. 1 \in DOMAIN compact
  BY <1>1 DEF ContentsInv, CompactInv
<1>3. IsList(compact[1].entries)
  BY <1>2 DEF ContentsInv, CompactInv
<1> QED
  BY <1>3, ListIsSeq

(* Every part that FromSTEP() makes is of the material that the last        *)
(* declaration of its key names, over any number of material files read in  *)
(* the order they were queued, or any entries of a compact file; the map an *)
(* import works with is never one of an earlier detector or of files not    *)
(* all read.                                                                *)
THEOREM MaterialsMapped == Spec => []MaterialsAsMapped
<1>1. ASSUME ContentsInv
      PROVE  MaterialsAsMapped
  <2> SUFFICES ASSUME import \in {"walking", "done"}, NEW i \in DOMAIN heap[Current].parts
               PROVE  IF phase = "construct"
                      THEN FilesSay(Len(queue.xmls), KeyOf(Current, i), heap[Current].parts[i].material)
                      ELSE EntriesSay(compact[1].entries, KeyOf(Current, i), heap[Current].parts[i].material)
    BY DEF MaterialsAsMapped, KeyOf, Labels
  <2> DEFINE key == KeyOf(Current, i)
             material == heap[Current].parts[i].material
  <2>1. key \in DOMAIN materialMap /\ material = materialMap[key] /\ MapGiven
    BY <1>1 DEF ContentsInv, ImportInv, PartsMade
  <2> HIDE DEF key, material
  <2>2. CASE phase = "construct"
    <3>1. Len(queue.xmls) = Len(build.materials)
      BY <1>1, <2>2 DEF ContentsInv, SessionInv, ProcessInv, SolidsBuilt, MaterialsRead
    <3>2. QueueMap(Len(queue.xmls), materialMap)
      BY <1>1, <2>1, <2>2, <3>1 DEF ContentsInv, BuildInv, MapGiven
    <3>3. FilesSay(Len(queue.xmls), key, material)
      BY <2>1, <3>2 DEF QueueMap
    <3> QED
      BY <2>2, <3>3 DEF key, material
  <2>3. CASE phase = "compact"
    <3>1. EntryMap(compact[1].entries, Len(compact[1].entries), materialMap)
      BY <2>1, <2>3 DEF MapGiven
    <3>2. DOMAIN compact[1].entries = 1 .. Len(compact[1].entries)
      BY <1>1, <2>3, EntriesFound
    <3>3. EntriesSay(compact[1].entries, key, material)
      BY <2>1, <3>1, <3>2 DEF EntryMap, EntriesSay
    <3> QED
      BY <2>3, <3>3 DEF key, material
  <2>4. phase \in {"construct", "compact"}
    BY <1>1 DEF ContentsInv, SessionInv, ProcessInv
  <2> QED
    BY <2>2, <2>3, <2>4
<1> QED
  BY <1>1, ContentsInit, ContentsStep, PTL DEF Spec

(* A session dies for a component of a material only when the file refers   *)
(* to something that neither a file before it, nor an element anywhere in   *)
(* it, nor a material further up declares; and an import aborts only for a  *)
(* simple shape whose key no file or entry declares.                        *)
THEOREM AbortsJustified == Spec => []AbortJustified
<1>1. ASSUME ContentsInv
      PROVE  AbortJustified
  <2>1. ASSUME fault = "MatReader009"
        PROVE  BadReference(Len(build.materials) + 1)
    BY <1>1, <2>1 DEF ContentsInv, FaultInv
  <2>2. ASSUME import = "aborted"
        PROVE  \E l \in DOMAIN Labels :
                 /\ Labels[l].kind = "simple" /\ Labels[l].shape # "null"
                 /\ MaterialKey(Labels[l]) = NoName \/ ~Declared(MaterialKey(Labels[l]))
    <3>1. MapGiven /\ MissingKey /\ phase \in {"construct", "compact"}
      BY <1>1, <2>2 DEF ContentsInv, ImportInv, SessionInv, ProcessInv
    <3>2. ASSUME NEW key, Declared(key)
          PROVE  key \in DOMAIN materialMap
      <4>1. CASE phase = "construct"
        <5>1. Len(queue.xmls) = Len(build.materials)
          BY <1>1, <2>2, <4>1 DEF ContentsInv, SessionInv, ProcessInv, SolidsBuilt, MaterialsRead
        <5>2. QueueMap(Len(queue.xmls), materialMap)
          BY <1>1, <3>1, <4>1, <5>1 DEF ContentsInv, BuildInv, MapGiven
        <5> QED
          BY <3>2, <4>1, <5>2 DEF Declared, Declares, QueueMap
      <4>2. CASE phase = "compact"
        <5>1. EntryMap(compact[1].entries, Len(compact[1].entries), materialMap)
          BY <3>1, <4>2 DEF MapGiven
        <5>2. DOMAIN compact[1].entries = 1 .. Len(compact[1].entries)
          BY <1>1, <2>2, <4>2, EntriesFound
        <5> QED
          BY <3>2, <4>2, <5>1, <5>2 DEF Declared, EntryMap
      <4> QED
        BY <3>1, <4>1, <4>2
    <3> QED
      BY <3>1, <3>2 DEF MissingKey
  <2> QED
    BY <2>1, <2>2 DEF AbortJustified, BadReference
<1> QED
  BY <1>1, ContentsInit, ContentsStep, PTL DEF Spec

-----------------------------------------------------------------------------
(* The ledger of a run. *)

(* The sum that TotalEdep() takes exists ... *)
Added(rs, id, i, before) ==
  IF rs[i].event = id THEN before + rs[i].edep ELSE before

IsSum(sum, rs, id, n) ==
  sum = [i \in 0 .. n |-> IF i = 0 THEN 0 ELSE Added(rs, id, i, sum[i - 1])]

LEMMA SumExists ==
  ASSUME NEW rs, NEW id
  PROVE  \A n \in Nat : \E sum : IsSum(sum, rs, id, n)
<1> DEFINE S == {n \in Nat : \E sum : IsSum(sum, rs, id, n)}
<1>1. 0 \in S
  <2> DEFINE g == [i \in 0 .. 0 |-> 0]
  <2>1. IsSum(g, rs, id, 0)
    BY DEF IsSum
  <2> HIDE DEF g
  <2> QED
    BY <2>1
<1>2. ASSUME NEW n \in Nat, n \in S
      PROVE  n + 1 \in S
  <2>1. PICK sum : IsSum(sum, rs, id, n)
    BY <1>2
  <2> DEFINE g == [i \in 0 .. n + 1 |-> IF i = n + 1 THEN Added(rs, id, n + 1, sum[n]) ELSE sum[i]]
  <2>2. ASSUME NEW i \in 0 .. n + 1
        PROVE  g[i] = IF i = 0 THEN 0 ELSE Added(rs, id, i, g[i - 1])
    <3>1. CASE i = n + 1
      BY <3>1
    <3>2. CASE i # n + 1
      <4>1. i \in 0 .. n /\ (i # 0 => i - 1 \in 0 .. n + 1 /\ i - 1 # n + 1)
        BY <3>2
      <4>2. sum[i] = IF i = 0 THEN 0 ELSE Added(rs, id, i, sum[i - 1])
        BY <2>1, <4>1 DEF IsSum
      <4> QED
        BY <3>2, <4>1, <4>2
    <3> QED
      BY <3>1, <3>2
  <2>3. g = [i \in 0 .. n + 1 |-> IF i = 0 THEN 0 ELSE Added(rs, id, i, g[i - 1])]
    <3> DEFINE h == [i \in 0 .. n + 1 |-> IF i = 0 THEN 0 ELSE Added(rs, id, i, g[i - 1])]
    <3>1. DOMAIN g = 0 .. n + 1 /\ DOMAIN h = 0 .. n + 1 /\ g = [i \in DOMAIN g |-> g[i]]
      OBVIOUS
    <3>2. \A i \in 0 .. n + 1 : g[i] = h[i]
      BY <2>2
    <3> HIDE DEF g
    <3> QED
      BY <3>1, <3>2
  <2> HIDE DEF g
  <2>4. IsSum(g, rs, id, n + 1)
    BY <2>3 DEF IsSum
  <2> QED
    BY <2>4
<1> HIDE DEF S
<1>3. \A n \in Nat : n \in S
  BY <1>1, <1>2, NatSetInduction
<1> QED
  BY <1>3 DEF S

(* ... and is what it is defined to be. *)
LEMMA SumRuns ==
  ASSUME NEW rs, Len(rs) \in Nat, NEW id
  PROVE  \E sum : IsSum(sum, rs, id, Len(rs)) /\ TotalEdep(rs, id) = sum[Len(rs)]
<1> DEFINE s == CHOOSE sum : IsSum(sum, rs, id, Len(rs))
<1>1. IsSum(s, rs, id, Len(rs))
  BY SumExists
<1>2. TotalEdep(rs, id) = s[Len(rs)]
  BY DEF TotalEdep, IsSum, Added
<1> QED
  BY <1>1, <1>2

(* The sum over a file with a row more. *)
LEMMA TotalAppend ==
  ASSUME NEW U, NEW rs \in Seq(U), NEW e, NEW id
  PROVE  TotalEdep(Append(rs, e), id) =
           IF e.event = id THEN TotalEdep(rs, id) + e.edep ELSE TotalEdep(rs, id)
<1> DEFINE n == Len(rs)
           more == Append(rs, e)
<1>1. /\ n \in Nat /\ Len(more) = n + 1 /\ more[n + 1] = e
      /\ \A i \in 1 .. n : more[i] = rs[i]
  BY AppendValues
<1>2. PICK old : IsSum(old, rs, id, n) /\ TotalEdep(rs, id) = old[n]
  BY <1>1, SumRuns
<1> HIDE DEF more, n
<1>3. PICK new : IsSum(new, more, id, n + 1) /\ TotalEdep(more, id) = new[n + 1]
  BY <1>1, SumRuns
<1> DEFINE S == {k \in Nat : k <= n => new[k] = old[k]}
<1>4. 0 \in S
  BY <1>1, <1>2, <1>3 DEF IsSum
<1>5. ASSUME NEW k \in Nat, k \in S
      PROVE  k + 1 \in S
  <2> SUFFICES ASSUME k + 1 <= n PROVE new[k + 1] = old[k + 1]
    OBVIOUS
  <2>1. k + 1 \in 0 .. n /\ k + 1 \in 0 .. n + 1 /\ k + 1 # 0 /\ (k + 1) - 1 = k /\ k + 1 \in 1 .. n
    BY <1>1
  <2>2. new[k] = old[k]
    BY <1>1, <1>5
  <2>3. Added(more, id, k + 1, new[k]) = Added(rs, id, k + 1, new[k])
    BY <1>1, <2>1 DEF Added
  <2>4. new[k + 1] = Added(more, id, k + 1, new[k])
    BY <1>3, <2>1 DEF IsSum
  <2>5. old[k + 1] = Added(rs, id, k + 1, old[k])
    BY <1>2, <2>1 DEF IsSum
  <2> QED
    BY <2>2, <2>3, <2>4, <2>5
<1>6. \A k \in Nat : k \in S
  <2> HIDE DEF S
  <2> QED
    BY <1>4, <1>5, NatSetInduction
<1>7. new[n] = old[n]
  BY <1>1, <1>6
<1>8. new[n + 1] = Added(more, id, n + 1, new[n])
  <2>1. n + 1 \in 0 .. n + 1 /\ n + 1 # 0 /\ (n + 1) - 1 = n
    BY <1>1
  <2> QED
    BY <1>3, <2>1 DEF IsSum
<1>9. Added(more, id, n + 1, new[n]) = IF e.event = id THEN new[n] + e.edep ELSE new[n]
  BY <1>1 DEF Added
<1> QED
  BY <1>2, <1>3, <1>7, <1>8, <1>9 DEF more, n

(* The sum over a file that has no row of the event. *)
LEMMA TotalNone ==
  ASSUME NEW U, NEW rs \in Seq(U), NEW id, \A i \in DOMAIN rs : rs[i].event # id
  PROVE  TotalEdep(rs, id) = 0
<1> DEFINE n == Len(rs)
<1>1. n \in Nat /\ DOMAIN rs = 1 .. n
  OBVIOUS
<1>2. PICK sum : IsSum(sum, rs, id, n) /\ TotalEdep(rs, id) = sum[n]
  BY <1>1, SumRuns
<1> HIDE DEF n
<1> DEFINE S == {k \in Nat : k <= n => sum[k] = 0}
<1>3. 0 \in S
  BY <1>1, <1>2 DEF IsSum
<1>4. ASSUME NEW k \in Nat, k \in S
      PROVE  k + 1 \in S
  <2> SUFFICES ASSUME k + 1 <= n PROVE sum[k + 1] = 0
    OBVIOUS
  <2>1. k + 1 \in 0 .. n /\ k + 1 # 0 /\ (k + 1) - 1 = k /\ k + 1 \in 1 .. n /\ sum[k] = 0
    BY <1>1, <1>4
  <2>2. Added(rs, id, k + 1, sum[k]) = sum[k]
    BY <1>1, <2>1 DEF Added
  <2>3. sum[k + 1] = Added(rs, id, k + 1, sum[k])
    BY <1>2, <2>1 DEF IsSum
  <2> QED
    BY <2>1, <2>2, <2>3
<1>5. \A k \in Nat : k \in S
  <2> HIDE DEF S
  <2> QED
    BY <1>3, <1>4, NatSetInduction
<1> QED
  BY <1>1, <1>2, <1>5

(* The rows of the event, and of its primaries, with a row more. *)
Primaries(rs, id) == {t \in RowsOf(rs, id) : rs[t].primary}

LEMMA RowsAppend ==
  ASSUME NEW U, NEW rs \in Seq(U), NEW e, NEW id
  PROVE  /\ Cardinality(RowsOf(rs, id)) \in Nat /\ Cardinality(Primaries(rs, id)) \in Nat
         /\ Cardinality(RowsOf(Append(rs, e), id)) =
              Cardinality(RowsOf(rs, id)) + (IF e.event = id THEN 1 ELSE 0)
         /\ Cardinality(Primaries(Append(rs, e), id)) =
              Cardinality(Primaries(rs, id)) + (IF e.event = id /\ e.primary THEN 1 ELSE 0)
<1> DEFINE n == Len(rs)
           more == Append(rs, e)
           R == RowsOf(rs, id)
           P == Primaries(rs, id)
<1>1. /\ n \in Nat /\ DOMAIN rs = 1 .. n /\ DOMAIN more = 1 .. n + 1 /\ more[n + 1] = e
      /\ \A i \in 1 .. n : more[i] = rs[i]
  BY AppendValues
<1> HIDE DEF n, more
<1>2. R \subseteq 1 .. n /\ P \subseteq R /\ n + 1 \notin R /\ n + 1 \notin P
  BY <1>1 DEF RowsOf, Primaries
<1>3. IsFiniteSet(R) /\ IsFiniteSet(P)
  <2>1. IsFiniteSet(1 .. n)
    BY <1>1, FS_Interval
  <2> HIDE DEF R, P
  <2>2. IsFiniteSet(R)
    BY <2>1, <1>2, FS_Subset
  <2> QED
    BY <2>2, <1>2, FS_Subset
<1>4. Cardinality(R) \in Nat /\ Cardinality(P) \in Nat
  BY <1>3, FS_CardinalityType
<1>5. RowsOf(more, id) = IF e.event = id THEN R \cup {n + 1} ELSE R
  BY <1>1 DEF RowsOf
<1>6. Primaries(more, id) = IF e.event = id /\ e.primary THEN P \cup {n + 1} ELSE P
  <2>1. ASSUME NEW t
        PROVE  t \in Primaries(more, id) <=>
                 t \in P \/ (t = n + 1 /\ e.event = id /\ e.primary)
    BY <1>1, <1>2, <1>5 DEF RowsOf, Primaries
  <2> QED
    BY <2>1
<1> HIDE DEF R, P
<1>7. /\ Cardinality(R \cup {n + 1}) = Cardinality(R) + 1
      /\ Cardinality(P \cup {n + 1}) = Cardinality(P) + 1
  BY <1>2, <1>3, FS_AddElement
<1> QED
  BY <1>4, <1>5, <1>6, <1>7 DEF R, P, more

(* A file without a row of the event.                                       *)
LEMMA RowsNone ==
  ASSUME NEW rs, NEW id, \A i \in DOMAIN rs : rs[i].event # id
  PROVE  Cardinality(RowsOf(rs, id)) = 0 /\ Cardinality(Primaries(rs, id)) = 0
<1>1. RowsOf(rs, id) = {} /\ Primaries(rs, id) = {}
  BY DEF RowsOf, Primaries
<1> QED
  BY <1>1, FS_EmptySet

-----------------------------------------------------------------------------
(* What the files say of an event so far. *)

InSteps(e) ==
  "steps" \in ntuples =>
    /\ TotalEdep(rows["steps"], e.id) = e.edep
    /\ Cardinality(RowsOf(rows["steps"], e.id)) = e.steps

InTracks(e, edep, primaries) ==
  "tracks" \in ntuples =>
    /\ TotalEdep(rows["tracks"], e.id) = edep
    /\ Cardinality(RowsOf(rows["tracks"], e.id)) = e.tracks
    /\ Cardinality(Primaries(rows["tracks"], e.id)) = primaries

(* The form of the counters and of the files. *)
LedgerForm ==
  /\ DOMAIN rows = Ntuples
  /\ \A f \in Ntuples : \E U : rows[f] \in Seq(U)
  /\ beam = [in |-> beam.in, left |-> beam.left, steps |-> beam.steps]
  /\ beam.in \in {"nothing", "run", "event", "track"}
  /\ beam.left \in Nat
  /\ event = [id |-> event.id, edep |-> event.edep, tracks |-> event.tracks,
              steps |-> event.steps, primaries |-> event.primaries]
  /\ event.edep \in Int /\ event.tracks \in Int /\ event.steps \in Int /\ event.primaries \in Int
  /\ trackEdep = [edep |-> trackEdep.edep, primary |-> trackEdep.primary]
  /\ trackEdep.edep \in Int /\ trackEdep.primary \in BOOLEAN

(* Rows are about the event of the loop or earlier ones, whose numbers are  *)
(* greater; the events file has only events that have ended.                *)
RowsPassed ==
  beam.in # "nothing" =>
    /\ \A f \in {"steps", "tracks"} : \A i \in DOMAIN rows[f] :
         rows[f][i].event \in Int /\ rows[f][i].event > beam.left
    /\ \A i \in DOMAIN rows["events"] :
         /\ rows["events"][i].id \in Int /\ rows["events"][i].id > beam.left
         /\ beam.in \in {"event", "track"} => rows["events"][i].id # event.id

(* The event of the loop: the track that is on its way has no row yet. *)
OpenEvent ==
  /\ beam.in \in {"event", "track"} => event.id = beam.left + 1 /\ InSteps(event)
  /\ beam.in = "event" => InTracks(event, event.edep, event.primaries)
  /\ beam.in = "track" =>
       InTracks(event, event.edep - trackEdep.edep,
                event.primaries - (IF trackEdep.primary THEN 1 ELSE 0))

ClosedEvents ==
  \A i \in DOMAIN rows["events"] :
    LET e == rows["events"][i] IN InSteps(e) /\ InTracks(e, e.edep, e.primaries)

CommandsOK ==
  /\ \E U : cmds \in Seq(U)
  /\ \A i \in DOMAIN cmds : cmds[i].cmd = "run/beamOn" => cmds[i].arg \in Nat

LedgerInv == LedgerForm /\ RowsPassed /\ OpenEvent /\ ClosedEvents

(* A file with a row more, or not. *)
LEMMA RowAdded ==
  ASSUME LedgerForm, NEW f \in Ntuples, NEW row, AddRow(f, row), UNCHANGED ntuples
  PROVE  /\ DOMAIN rows' = Ntuples
         /\ \A g \in Ntuples : \E U : rows'[g] \in Seq(U)
         /\ \A g \in Ntuples : g # f => rows'[g] = rows[g]
         /\ f \in ntuples => rows'[f] = Append(rows[f], row)
         /\ f \notin ntuples => rows'[f] = rows[f]
         /\ \A i \in DOMAIN rows'[f] :
              \/ i \in DOMAIN rows[f] /\ rows'[f][i] = rows[f][i]
              \/ f \in ntuples /\ rows'[f][i] = row
<1>1. PICK U : rows[f] \in Seq(U)
  BY DEF LedgerForm
<1> DEFINE more == Append(rows[f], row)
<1>2. /\ more \in Seq(U \cup {row})
      /\ Len(rows[f]) \in Nat /\ DOMAIN rows[f] = 1 .. Len(rows[f])
      /\ DOMAIN more = 1 .. Len(rows[f]) + 1
      /\ \A i \in 1 .. Len(rows[f]) : more[i] = rows[f][i]
      /\ more[Len(rows[f]) + 1] = row
  BY <1>1, AppendValues
<1> HIDE DEF more
<1>3. CASE f \in ntuples
  <2>1. rows' = [rows EXCEPT ![f] = more]
    BY <1>3 DEF AddRow, more
  <2>2. rows'[f] = more /\ DOMAIN rows' = Ntuples /\ \A g \in Ntuples : g # f => rows'[g] = rows[g]
    BY <2>1 DEF LedgerForm
  <2>3. \A g \in Ntuples : \E W : rows'[g] \in Seq(W)
    BY <1>2, <2>2 DEF LedgerForm
  <2>4. \A i \in DOMAIN more : (i \in DOMAIN rows[f] /\ more[i] = rows[f][i]) \/ more[i] = row
    BY <1>2
  <2> QED
    BY <1>3, <2>2, <2>3, <2>4 DEF more
<1>4. CASE f \notin ntuples
  BY <1>4 DEF AddRow, LedgerForm
<1> QED
  BY <1>3, <1>4

(* A row about one event changes nothing that is said of another. *)
LEMMA OtherEvent ==
  ASSUME LedgerForm, NEW f \in Ntuples, NEW row, AddRow(f, row), UNCHANGED ntuples,
         NEW e, NEW x, NEW y, f = "events" \/ e.id # row.event
  PROVE  (InSteps(e) => InSteps(e)') /\ (InTracks(e, x, y) => InTracks(e, x, y)')
<1>1. ASSUME NEW g \in {"steps", "tracks"}
      PROVE  /\ TotalEdep(rows'[g], e.id) = TotalEdep(rows[g], e.id)
             /\ Cardinality(RowsOf(rows'[g], e.id)) = Cardinality(RowsOf(rows[g], e.id))
             /\ Cardinality(Primaries(rows'[g], e.id)) = Cardinality(Primaries(rows[g], e.id))
  <2>0. g \in Ntuples
    BY DEF Ntuples
  <2>1. CASE rows'[g] = rows[g]
    BY <2>1
  <2>2. CASE g = f /\ rows'[f] = Append(rows[f], row)
    <3>1. PICK U : rows[f] \in Seq(U)
      BY DEF LedgerForm
    <3>2. row.event # e.id
      BY <2>2
    <3>3. TotalEdep(Append(rows[f], row), e.id) = TotalEdep(rows[f], e.id)
      BY <3>1, <3>2, TotalAppend
    <3>4. /\ Cardinality(RowsOf(Append(rows[f], row), e.id)) = Cardinality(RowsOf(rows[f], e.id))
          /\ Cardinality(Primaries(Append(rows[f], row), e.id)) = Cardinality(Primaries(rows[f], e.id))
      BY <3>1, <3>2, RowsAppend
    <3> QED
      BY <2>2, <3>3, <3>4
  <2> QED
    BY <2>0, <2>1, <2>2, RowAdded
<1> QED
  BY <1>1 DEF InSteps, InTracks

(* A row of the event itself. *)
LEMMA OwnEvent ==
  ASSUME LedgerForm, NEW f \in {"steps", "tracks"}, NEW row, AddRow(f, row), UNCHANGED ntuples,
         f \in ntuples
  PROVE  /\ TotalEdep(rows'[f], row.event) = TotalEdep(rows[f], row.event) + row.edep
         /\ Cardinality(RowsOf(rows'[f], row.event)) = Cardinality(RowsOf(rows[f], row.event)) + 1
         /\ Cardinality(Primaries(rows'[f], row.event)) =
              Cardinality(Primaries(rows[f], row.event)) + (IF row.primary THEN 1 ELSE 0)
<1>1. f \in Ntuples
  BY DEF Ntuples
<1>2. rows'[f] = Append(rows[f], row)
  BY <1>1, RowAdded
<1>3. PICK U : rows[f] \in Seq(U)
  BY <1>1 DEF LedgerForm
<1> QED
  BY <1>2, <1>3, TotalAppend, RowsAppend

(* Nothing is said of an event that has no rows. *)
LEMMA NewEventInRows ==
  ASSUME LedgerForm, NEW e, e.edep = 0, e.steps = 0, e.tracks = 0,
         \A f \in {"steps", "tracks"} : \A i \in DOMAIN rows[f] : rows[f][i].event # e.id
  PROVE  InSteps(e) /\ InTracks(e, 0, 0)
<1>1. ASSUME NEW f \in {"steps", "tracks"}
      PROVE  /\ TotalEdep(rows[f], e.id) = 0
             /\ Cardinality(RowsOf(rows[f], e.id)) = 0
             /\ Cardinality(Primaries(rows[f], e.id)) = 0
  <2>1. PICK U : rows[f] \in Seq(U)
    BY DEF LedgerForm, Ntuples
  <2> QED
    BY <2>1, TotalNone, RowsNone
<1> QED
  BY <1>1 DEF InSteps, InTracks

(* The user actions keep the ledger, one by one.                            *)
LEMMA SteppingKeepsLedger ==
  ASSUME LedgerInv, NEW edep \in Deposits, UserSteppingAction(edep)
  PROVE  LedgerInv'
<1> DEFINE row == [event |-> event.id, edep |-> edep]
<1>1. /\ beam.in = "track" /\ ntuples' = ntuples /\ edep \in Nat /\ AddRow("steps", row)
      /\ LedgerForm /\ "steps" \in Ntuples
  BY DepositsAssumption DEF UserSteppingAction, LedgerInv, Ntuples
<1>2. /\ row.event = event.id /\ row.edep = edep
  OBVIOUS
<1> HIDE DEF row
<1>3. /\ beam'.in = "track" /\ beam'.left = beam.left
      /\ beam' = [in |-> beam'.in, left |-> beam'.left, steps |-> beam'.steps]
  BY <1>1 DEF UserSteppingAction, LedgerForm
<1>4. /\ event'.id = event.id /\ event'.edep = event.edep + edep /\ event'.steps = event.steps + 1
      /\ event'.tracks = event.tracks /\ event'.primaries = event.primaries
      /\ event' = [id |-> event'.id, edep |-> event'.edep, tracks |-> event'.tracks,
                   steps |-> event'.steps, primaries |-> event'.primaries]
  BY <1>1 DEF UserSteppingAction, LedgerForm
<1>5. /\ trackEdep'.edep = trackEdep.edep + edep /\ trackEdep'.primary = trackEdep.primary
      /\ trackEdep' = [edep |-> trackEdep'.edep, primary |-> trackEdep'.primary]
  BY <1>1 DEF UserSteppingAction, LedgerForm
<1>6. /\ event.edep \in Int /\ event.steps \in Int /\ event.tracks \in Int /\ event.primaries \in Int
      /\ trackEdep.edep \in Int /\ trackEdep.primary \in BOOLEAN /\ beam.left \in Nat
  BY <1>1 DEF LedgerForm
<1>7. LedgerForm'
  <2>1. DOMAIN rows' = Ntuples /\ \A g \in Ntuples : \E U : rows'[g] \in Seq(U)
    BY <1>1, RowAdded
  <2> QED
    BY <1>1, <1>3, <1>4, <1>5, <1>6, <2>1 DEF LedgerForm
<1>8. /\ rows'["tracks"] = rows["tracks"] /\ rows'["events"] = rows["events"]
      /\ \A i \in DOMAIN rows'["steps"] :
           \/ i \in DOMAIN rows["steps"] /\ rows'["steps"][i] = rows["steps"][i]
           \/ rows'["steps"][i] = row
  BY <1>1, RowAdded DEF Ntuples
<1>9. event.id = beam.left + 1
  BY <1>1 DEF LedgerInv, OpenEvent
<1>10. RowsPassed'
  BY <1>1, <1>2, <1>3, <1>4, <1>6, <1>8, <1>9 DEF LedgerInv, RowsPassed
<1>11. InSteps(event)'
  BY <1>1, <1>2, <1>4, OwnEvent DEF LedgerInv, OpenEvent, InSteps
<1>12. InTracks(event, event.edep - trackEdep.edep,
                event.primaries - (IF trackEdep.primary THEN 1 ELSE 0))'
  <2>1. event'.edep - trackEdep'.edep = event.edep - trackEdep.edep
    <3>1. \A a, b, c \in Int : (a + c) - (b + c) = a - b
      OBVIOUS
    <3>2. edep \in Int
      BY <1>1
    <3> QED
      BY <1>4, <1>5, <1>6, <3>1, <3>2
  <2> QED
    BY <1>1, <1>4, <1>5, <1>8, <2>1 DEF LedgerInv, OpenEvent, InTracks
<1>13. OpenEvent'
  BY <1>3, <1>4, <1>9, <1>11, <1>12 DEF OpenEvent
<1>14. ClosedEvents'
  <2> SUFFICES ASSUME NEW i \in DOMAIN rows["events"], NEW e, e = rows["events"][i]
               PROVE  InSteps(e)' /\ InTracks(e, e.edep, e.primaries)'
    BY <1>8 DEF ClosedEvents
  <2>1. e.id # row.event
    BY <1>1, <1>2 DEF LedgerInv, RowsPassed
  <2>2. InSteps(e) /\ InTracks(e, e.edep, e.primaries)
    BY DEF LedgerInv, ClosedEvents
  <2> QED
    BY <1>1, <2>1, <2>2, OtherEvent
<1> QED
  BY <1>7, <1>10, <1>13, <1>14 DEF LedgerInv

LEMMA TrackEndKeepsLedger ==
  ASSUME LedgerInv, PostUserTrackingAction
  PROVE  LedgerInv'
<1> DEFINE row == [event |-> event.id, edep |-> trackEdep.edep, primary |-> trackEdep.primary]
<1>1. /\ beam.in = "track" /\ ntuples' = ntuples /\ AddRow("tracks", row) /\ trackEdep' = trackEdep
      /\ LedgerForm /\ "tracks" \in Ntuples
  BY DEF PostUserTrackingAction, LedgerInv, Ntuples
<1>2. row.event = event.id /\ row.edep = trackEdep.edep /\ row.primary = trackEdep.primary
  OBVIOUS
<1> HIDE DEF row
<1>3. /\ beam'.in = "event" /\ beam'.left = beam.left
      /\ beam' = [in |-> beam'.in, left |-> beam'.left, steps |-> beam'.steps]
  BY <1>1 DEF PostUserTrackingAction, LedgerForm
<1>4. /\ event'.id = event.id /\ event'.edep = event.edep /\ event'.steps = event.steps
      /\ event'.tracks = event.tracks + 1 /\ event'.primaries = event.primaries
      /\ event' = [id |-> event'.id, edep |-> event'.edep, tracks |-> event'.tracks,
                   steps |-> event'.steps, primaries |-> event'.primaries]
  BY <1>1 DEF PostUserTrackingAction, LedgerForm
<1>5. /\ event.edep \in Int /\ event.steps \in Int /\ event.tracks \in Int /\ event.primaries \in Int
      /\ trackEdep.edep \in Int /\ trackEdep.primary \in BOOLEAN /\ beam.left \in Nat
  BY <1>1 DEF LedgerForm
<1>6. LedgerForm'
  <2>1. DOMAIN rows' = Ntuples /\ \A g \in Ntuples : \E U : rows'[g] \in Seq(U)
    BY <1>1, RowAdded
  <2> QED
    BY <1>1, <1>3, <1>4, <1>5, <2>1 DEF LedgerForm
<1>7. /\ rows'["steps"] = rows["steps"] /\ rows'["events"] = rows["events"]
      /\ \A i \in DOMAIN rows'["tracks"] :
           \/ i \in DOMAIN rows["tracks"] /\ rows'["tracks"][i] = rows["tracks"][i]
           \/ rows'["tracks"][i] = row
  BY <1>1, RowAdded DEF Ntuples
<1>8. event.id = beam.left + 1
  BY <1>1 DEF LedgerInv, OpenEvent
<1>9. RowsPassed'
  BY <1>1, <1>2, <1>3, <1>4, <1>5, <1>7, <1>8 DEF LedgerInv, RowsPassed
<1>10. InSteps(event)'
  BY <1>1, <1>4, <1>7 DEF LedgerInv, OpenEvent, InSteps
<1>11. InTracks(event, event.edep, event.primaries)'
  <2> SUFFICES ASSUME "tracks" \in ntuples
               PROVE  InTracks(event, event.edep, event.primaries)'
    BY <1>1 DEF InTracks
  <2> DEFINE one == IF trackEdep.primary THEN 1 ELSE 0
  <2>1. /\ TotalEdep(rows["tracks"], event.id) = event.edep - trackEdep.edep
        /\ Cardinality(RowsOf(rows["tracks"], event.id)) = event.tracks
        /\ Cardinality(Primaries(rows["tracks"], event.id)) = event.primaries - one
    BY <1>1 DEF LedgerInv, OpenEvent, InTracks
  <2>2. /\ TotalEdep(rows'["tracks"], event.id) =
             TotalEdep(rows["tracks"], event.id) + trackEdep.edep
        /\ Cardinality(RowsOf(rows'["tracks"], event.id)) =
             Cardinality(RowsOf(rows["tracks"], event.id)) + 1
        /\ Cardinality(Primaries(rows'["tracks"], event.id)) =
             Cardinality(Primaries(rows["tracks"], event.id)) + one
    BY <1>1, <1>2, OwnEvent
  <2>3. one \in Int /\ \A a, b \in Int : (a - b) + b = a
    OBVIOUS
  <2> HIDE DEF one
  <2>4. /\ (event.edep - trackEdep.edep) + trackEdep.edep = event.edep
        /\ (event.primaries - one) + one = event.primaries
    BY <1>5, <2>3
  <2> QED
    BY <1>4, <2>1, <2>2, <2>4 DEF InTracks
<1>12. OpenEvent'
  BY <1>3, <1>4, <1>8, <1>10, <1>11 DEF OpenEvent
<1>13. ClosedEvents'
  <2> SUFFICES ASSUME NEW i \in DOMAIN rows["events"], NEW e, e = rows["events"][i]
               PROVE  InSteps(e)' /\ InTracks(e, e.edep, e.primaries)'
    BY <1>7 DEF ClosedEvents
  <2>1. e.id # row.event
    BY <1>1, <1>2 DEF LedgerInv, RowsPassed
  <2>2. InSteps(e) /\ InTracks(e, e.edep, e.primaries)
    BY DEF LedgerInv, ClosedEvents
  <2> QED
    BY <1>1, <2>1, <2>2, OtherEvent
<1> QED
  BY <1>6, <1>9, <1>12, <1>13 DEF LedgerInv

LEMMA EventEndKeepsLedger ==
  ASSUME LedgerInv, EndOfEventAction
  PROVE  LedgerInv'
<1>1. /\ beam.in = "event" /\ ntuples' = ntuples /\ AddRow("events", event)
      /\ event' = event /\ trackEdep' = trackEdep /\ LedgerForm /\ "events" \in Ntuples
  BY DEF EndOfEventAction, LedgerInv, Ntuples
<1>2. /\ beam'.in = "run" /\ beam'.left = beam.left
      /\ beam' = [in |-> beam'.in, left |-> beam'.left, steps |-> beam'.steps]
  BY <1>1 DEF EndOfEventAction, LedgerForm
<1>3. /\ rows'["steps"] = rows["steps"] /\ rows'["tracks"] = rows["tracks"]
      /\ \A i \in DOMAIN rows'["events"] :
           \/ i \in DOMAIN rows["events"] /\ rows'["events"][i] = rows["events"][i]
           \/ rows'["events"][i] = event
  BY <1>1, RowAdded DEF Ntuples
<1>4. LedgerForm'
  <2>1. DOMAIN rows' = Ntuples /\ \A g \in Ntuples : \E U : rows'[g] \in Seq(U)
    BY <1>1, RowAdded
  <2> QED
    BY <1>1, <1>2, <2>1 DEF LedgerForm
<1>5. event.id = beam.left + 1 /\ beam.left \in Nat
  BY <1>1 DEF LedgerInv, OpenEvent, LedgerForm
<1>6. RowsPassed'
  BY <1>1, <1>2, <1>3, <1>5 DEF LedgerInv, RowsPassed
<1>7. OpenEvent'
  BY <1>2 DEF OpenEvent
<1>8. ClosedEvents'
  <2> SUFFICES ASSUME NEW i \in DOMAIN rows'["events"], NEW e, e = rows'["events"][i]
               PROVE  InSteps(e)' /\ InTracks(e, e.edep, e.primaries)'
    BY DEF ClosedEvents
  <2>1. InSteps(e) /\ InTracks(e, e.edep, e.primaries)
    BY <1>1, <1>3 DEF LedgerInv, ClosedEvents, OpenEvent
  <2> QED
    BY <1>1, <1>3, <2>1 DEF InSteps, InTracks
<1> QED
  BY <1>4, <1>6, <1>7, <1>8 DEF LedgerInv

LEMMA EventBeginKeepsLedger ==
  ASSUME LedgerInv, BeginOfEventAction
  PROVE  LedgerInv'
<1>1. /\ beam.in = "run" /\ beam.left > 0 /\ UNCHANGED <<ntuples, trackEdep, rows>>
      /\ LedgerForm /\ beam.left \in Nat
  BY DEF BeginOfEventAction, LedgerInv, LedgerForm
<1>2. /\ beam'.in = "event" /\ beam'.left = beam.left - 1
      /\ beam' = [in |-> beam'.in, left |-> beam'.left, steps |-> beam'.steps]
  BY <1>1 DEF BeginOfEventAction, LedgerForm
<1>3. /\ event'.id = beam.left /\ event'.edep = 0 /\ event'.steps = 0
      /\ event'.tracks = 0 /\ event'.primaries = 0
      /\ event' = [id |-> event'.id, edep |-> event'.edep, tracks |-> event'.tracks,
                   steps |-> event'.steps, primaries |-> event'.primaries]
  BY DEF BeginOfEventAction, NewEvent
<1>4. LedgerForm'
  BY <1>1, <1>2, <1>3 DEF LedgerForm
<1>5. RowsPassed'
  BY <1>1, <1>2, <1>3 DEF LedgerInv, RowsPassed
<1>6. \A f \in {"steps", "tracks"} : \A i \in DOMAIN rows[f] : rows[f][i].event # event'.id
  BY <1>1, <1>3 DEF LedgerInv, RowsPassed
<1>7. InSteps(event') /\ InTracks(event', 0, 0)
  BY <1>1, <1>3, <1>6, NewEventInRows
<1>8. InSteps(event)' /\ InTracks(event, event.edep, event.primaries)'
  BY <1>1, <1>3, <1>7 DEF InSteps, InTracks
<1>9. OpenEvent'
  BY <1>1, <1>2, <1>3, <1>8 DEF OpenEvent
<1>10. ClosedEvents'
  BY <1>1 DEF LedgerInv, ClosedEvents, InSteps, InTracks
<1> QED
  BY <1>4, <1>5, <1>9, <1>10 DEF LedgerInv

LEMMA TrackBeginKeepsLedger ==
  ASSUME LedgerInv, PreUserTrackingAction
  PROVE  LedgerInv'
<1>1. /\ beam.in = "event" /\ UNCHANGED <<ntuples, rows>> /\ LedgerForm /\ beam.left \in Nat
  BY DEF PreUserTrackingAction, LedgerInv, LedgerForm
<1>2. /\ beam'.in = "track" /\ beam'.left = beam.left
      /\ beam' = [in |-> beam'.in, left |-> beam'.left, steps |-> beam'.steps]
  BY <1>1 DEF PreUserTrackingAction, LedgerForm
<1>3. /\ trackEdep'.edep = 0 /\ trackEdep'.primary = (event.tracks = 0)
      /\ trackEdep' = [edep |-> trackEdep'.edep, primary |-> trackEdep'.primary]
  BY DEF PreUserTrackingAction
<1>4. /\ event'.id = event.id /\ event'.edep = event.edep /\ event'.steps = event.steps
      /\ event'.tracks = event.tracks
      /\ event'.primaries = event.primaries + (IF event.tracks = 0 THEN 1 ELSE 0)
      /\ event' = [id |-> event'.id, edep |-> event'.edep, tracks |-> event'.tracks,
                   steps |-> event'.steps, primaries |-> event'.primaries]
  BY <1>1 DEF PreUserTrackingAction, LedgerForm
<1>5. event.edep \in Int /\ event.primaries \in Int /\ event.tracks \in Int /\ event.steps \in Int
  BY <1>1 DEF LedgerForm
<1>6. LedgerForm'
  BY <1>1, <1>2, <1>3, <1>4, <1>5 DEF LedgerForm
<1>7. RowsPassed'
  BY <1>1, <1>2, <1>4 DEF LedgerInv, RowsPassed
<1>8. /\ event'.edep - trackEdep'.edep = event.edep
      /\ event'.primaries - (IF trackEdep'.primary THEN 1 ELSE 0) = event.primaries
  <2>1. \A a, b \in Int : (a + b) - b = a /\ a - 0 = a
    OBVIOUS
  <2> DEFINE one == IF event.tracks = 0 THEN 1 ELSE 0
  <2>2. one \in Int
    OBVIOUS
  <2>3. (IF trackEdep'.primary THEN 1 ELSE 0) = one
    BY <1>3, Zenon
  <2>4. event'.primaries = event.primaries + one
    BY <1>4
  <2> HIDE DEF one
  <2>5. event'.edep - trackEdep'.edep = event.edep
    BY <1>3, <1>4, <1>5, <2>1
  <2> QED
    BY <1>5, <2>1, <2>2, <2>3, <2>4, <2>5
<1>9. OpenEvent'
  BY <1>1, <1>2, <1>4, <1>8 DEF LedgerInv, OpenEvent, InSteps, InTracks
<1>10. ClosedEvents'
  BY <1>1 DEF LedgerInv, ClosedEvents, InSteps, InTracks
<1> QED
  BY <1>6, <1>7, <1>9, <1>10 DEF LedgerInv

LEMMA RunKeepsLedger ==
  ASSUME LedgerInv, \/ EndOfRunAction
                    \/ \E events \in Nat : BeginOfRunAction(events)
                    \/ \E n, on : Record(n, on)
                    \/ UNCHANGED scoringVars
  PROVE  LedgerInv'
<1>1. CASE EndOfRunAction
  <2>1. /\ beam'.in = "nothing" /\ beam'.left = beam.left
        /\ beam' = [in |-> beam'.in, left |-> beam'.left, steps |-> beam'.steps]
    BY <1>1 DEF EndOfRunAction, LedgerInv, LedgerForm
  <2>2. LedgerForm'
    BY <1>1, <2>1 DEF EndOfRunAction, LedgerInv, LedgerForm
  <2>3. RowsPassed' /\ OpenEvent'
    BY <2>1 DEF RowsPassed, OpenEvent
  <2>4. ClosedEvents'
    BY <1>1 DEF EndOfRunAction, LedgerInv, ClosedEvents, InSteps, InTracks
  <2> QED
    BY <2>2, <2>3, <2>4 DEF LedgerInv
<1>2. ASSUME NEW events \in Nat, BeginOfRunAction(events)
      PROVE  LedgerInv'
  <2>1. beam' = [in |-> "run", left |-> events, steps |-> 0] /\ UNCHANGED <<event, trackEdep>>
    BY <1>2 DEF BeginOfRunAction
  <2>2. DOMAIN rows' = Ntuples /\ \A f \in Ntuples : rows'[f] = <<>>
    BY <1>2 DEF BeginOfRunAction, NoRows
  <2>3. \A f \in Ntuples : rows'[f] \in Seq({}) /\ DOMAIN rows'[f] = {}
    <3>1. <<>> \in Seq({}) /\ DOMAIN <<>> = {}
      OBVIOUS
    <3> QED
      BY <2>2, <3>1
  <2>4. LedgerForm'
    BY <2>1, <2>2, <2>3 DEF LedgerInv, LedgerForm
  <2>5. RowsPassed' /\ OpenEvent' /\ ClosedEvents'
    BY <2>1, <2>3 DEF RowsPassed, OpenEvent, ClosedEvents, Ntuples
  <2> QED
    BY <2>4, <2>5 DEF LedgerInv
<1>3. CASE UNCHANGED <<ntuples, beam, event, trackEdep, rows>>
  BY <1>3 DEF LedgerInv, LedgerForm, RowsPassed, OpenEvent, ClosedEvents, InSteps, InTracks
<1> QED
  BY <1>1, <1>2, <1>3 DEF Record, scoringVars

(* The commands still to come are those of the macro. *)
LEMMA CommandsStep == CommandsOK /\ [Next]_vars => CommandsOK'
<1> SUFFICES ASSUME CommandsOK, [Next]_vars PROVE CommandsOK'
  OBVIOUS
<1>1. CASE UNCHANGED cmds
  BY <1>1 DEF CommandsOK
<1>2. CASE cmds # <<>> /\ cmds' = Tail(cmds)
  <2>1. PICK U : cmds \in Seq(U)
    BY DEF CommandsOK
  <2>2. Tail(cmds) \in Seq(U)
    BY <1>2, <2>1
  <2>3. \A i \in DOMAIN Tail(cmds) : i + 1 \in DOMAIN cmds /\ Tail(cmds)[i] = cmds[i + 1]
    BY <1>2, <2>1
  <2> QED
    BY <1>2, <2>2, <2>3 DEF CommandsOK
<1>3. CASE EndOfArguments
  <2>1. CASE cli.macro \in DOMAIN Macros
    <3> DEFINE m == Macros[cli.macro]
               V == {m[i] : i \in 1 .. Len(m)}
    <3>1. /\ cmds' = m /\ Len(m) \in Nat /\ m = [i \in 1 .. Len(m) |-> m[i]]
          /\ \A i \in DOMAIN m : m[i].cmd = "run/beamOn" => m[i].arg \in Nat
      BY <1>3, <2>1, MacrosAssumption DEF EndOfArguments, IsList
    <3>2. \A i \in 1 .. Len(m) : m[i] \in V
      OBVIOUS
    <3> HIDE DEF m, V
    <3>3. m \in [1 .. Len(m) -> V]
      BY <3>1, <3>2
    <3>4. m \in Seq(V)
      BY <3>1, <3>3
    <3> QED
      BY <3>1, <3>4 DEF CommandsOK
  <2>2. CASE cli.macro \notin DOMAIN Macros
    <3>1. cmds' = <<>> /\ <<>> \in Seq({})
      BY <1>3, <2>2 DEF EndOfArguments
    <3> QED
      BY <3>1 DEF CommandsOK
  <2> QED
    BY <2>1, <2>2
<1>4. ASSUME NEW name, Command(name)
      PROVE  CommandsOK'
  BY <1>2, <1>4 DEF Command
<1>5. CASE AppNext
  <2>1. CASE UNCHANGED appVars
    BY <1>1, <2>1 DEF appVars
  <2>2. CASE ParseOption \/ ParseFile \/ ParseError \/ EndOfArguments
    BY <1>1, <1>3, <2>1, <2>2 DEF ParseOption, ParseFile, ParseError
  <2>3. CASE QueueCommand \/ Initialize \/ RecordCommand \/ BeamOn
    BY <1>4, <2>3 DEF QueueCommand, Initialize, RecordCommand, BeamOn
  <2>4. CASE ReadNextMaterialFile \/ BuildNextSolid \/ Quit
    BY <1>1, <2>1, <2>4 DEF ReadNextMaterialFile, BuildNextSolid, Quit
  <2>5. CASE ImportNextAssembly \/ KeepAssembly \/ ImportFails \/ FinishConstruct
    BY <1>1, <2>1, <2>5 DEF ImportNextAssembly, KeepAssembly, ImportFails, FinishConstruct
  <2> QED
    BY <1>5, <2>1, <2>2, <2>3, <2>4, <2>5 DEF AppNext, AppStep
<1>6. CASE PluginNext \/ ToolNext \/ UNCHANGED vars
  BY <1>1, <1>6 DEF PluginNext, ToolNext, appVars, vars
<1> QED
  BY <1>5, <1>6 DEF Next, Over

LEMMA LedgerStep == LedgerInv /\ CommandsOK /\ [Next]_vars => LedgerInv'
<1> SUFFICES ASSUME LedgerInv, CommandsOK, [Next]_vars PROVE LedgerInv'
  OBVIOUS
<1>1. CASE UNCHANGED scoringVars
  BY <1>1, RunKeepsLedger
<1>2. CASE EventLoop
  BY <1>2, EventBeginKeepsLedger, TrackBeginKeepsLedger, SteppingKeepsLedger, TrackEndKeepsLedger,
     EventEndKeepsLedger, RunKeepsLedger DEF EventLoop
<1>3. CASE RecordCommand
  BY <1>3, RunKeepsLedger DEF RecordCommand
<1>4. CASE BeamOn
  <2>1. cmds # <<>> /\ cmds[1].cmd = "run/beamOn" /\ BeginOfRunAction(cmds[1].arg)
    BY <1>4 DEF BeamOn, Command
  <2>2. 1 \in DOMAIN cmds
    BY <2>1 DEF CommandsOK
  <2>3. cmds[1].arg \in Nat
    BY <2>1, <2>2 DEF CommandsOK
  <2> QED
    BY <2>1, <2>3, RunKeepsLedger
<1>5. CASE AppNext
  BY <1>1, <1>2, <1>3, <1>4, <1>5 DEF AppNext, AppStep
<1>6. CASE PluginNext \/ ToolNext \/ UNCHANGED vars
  BY <1>1, <1>6 DEF PluginNext, ToolNext, vars
<1> QED
  BY <1>5, <1>6 DEF Next, Over

LEMMA LedgerInit == Init => LedgerInv /\ CommandsOK
<1> SUFFICES ASSUME Init PROVE LedgerInv /\ CommandsOK
  OBVIOUS
<1>1. ScoringInit /\ cmds = <<>>
  BY DEF Init, Starts, AppInit
<1>2. CommandsOK
  <2>1. cmds \in Seq({}) /\ DOMAIN cmds = {}
    BY <1>1
  <2> QED
    BY <2>1 DEF CommandsOK
<1>3. \A f \in Ntuples : rows[f] \in Seq({}) /\ DOMAIN rows[f] = {}
  <2>1. <<>> \in Seq({}) /\ DOMAIN <<>> = {}
    OBVIOUS
  <2> QED
    BY <1>1, <2>1 DEF ScoringInit, NoRows
<1>4. LedgerForm
  BY <1>1, <1>3 DEF ScoringInit, LedgerForm, NoRows, NewEvent
<1>5. RowsPassed /\ OpenEvent /\ ClosedEvents
  BY <1>1, <1>3 DEF ScoringInit, RowsPassed, OpenEvent, ClosedEvents, Ntuples
<1> QED
  BY <1>2, <1>4, <1>5 DEF LedgerInv

LEMMA ClosedBalance == LedgerInv => LedgerBalances
  BY DEF LedgerInv, ClosedEvents, LedgerBalances, InSteps, InTracks, Primaries

(* The steps, tracks and events files of a run agree on every event that    *)
(* has ended, for any number of events, tracks and steps, any deposits, and *)
(* any commands that switch the files on and off between the runs.          *)
THEOREM FilesOfARunAgree == Spec => []LedgerBalances
<1>1. LedgerInv /\ CommandsOK /\ [Next]_vars => (LedgerInv /\ CommandsOK)'
  BY LedgerStep, CommandsStep
<1> QED
  BY LedgerInit, <1>1, ClosedBalance, PTL DEF Spec

-----------------------------------------------------------------------------
(* The texts of the tool's files. *)

(* A word more.                                                             *)
LEMMA FlattenAppend ==
  ASSUME NEW D, NEW s \in Seq(Seq(D)), NEW w \in Seq(D)
  PROVE  FlattenSeq(Append(s, w)) = FlattenSeq(s) \o w
<1> DEFINE n == Len(s)
           t == Append(s, w)
<1>1. /\ n \in Nat /\ t \in Seq(Seq(D)) /\ Len(t) = n + 1 /\ t[n + 1] = w
      /\ \A i \in 1 .. n : t[i] = s[i]
  OBVIOUS
<1> HIDE DEF t
<1>2. PICK g : FlatTo(g, t, n + 1) /\ FlattenSeq(t) = g[n + 1]
  <2>1. Len(t) # 0
    BY <1>1
  <2> QED
    BY <1>1, <2>1, FlattenRuns
<1>3. \A i \in 1 .. n + 1 : g[i] = IF i = 1 THEN t[i] ELSE g[i - 1] \o t[i]
  BY <1>2 DEF FlatTo
<1>4. CASE n = 0
  <2>1. FlattenSeq(s) = <<>>
    BY <1>4 DEF FlattenSeq
  <2>2. g[1] = w
    BY <1>1, <1>3, <1>4
  <2> QED
    BY <1>2, <1>4, <2>1, <2>2 DEF t
<1>5. CASE n # 0
  <2>1. PICK f : FlatTo(f, s, n) /\ FlattenSeq(s) = f[n]
    BY <1>5, FlattenRuns
  <2>2. \A i \in 1 .. n : f[i] = IF i = 1 THEN s[i] ELSE f[i - 1] \o s[i]
    BY <2>1 DEF FlatTo
  <2> DEFINE S == {k \in Nat : k + 1 <= n => g[k + 1] = f[k + 1]}
  <2>3. 0 \in S
    BY <1>1, <1>3, <2>2
  <2>4. ASSUME NEW k \in Nat, k \in S
        PROVE  k + 1 \in S
    <3> SUFFICES ASSUME k + 1 + 1 <= n PROVE g[k + 1 + 1] = f[k + 1 + 1]
      OBVIOUS
    <3>1. k + 1 + 1 \in 1 .. n /\ k + 1 + 1 \in 1 .. n + 1 /\ k + 1 + 1 # 1
          /\ (k + 1 + 1) - 1 = k + 1 /\ k + 1 <= n
      BY <1>1
    <3>2. g[k + 1] = f[k + 1]
      BY <2>4, <3>1
    <3>3. g[k + 1 + 1] = g[k + 1] \o t[k + 1 + 1] /\ f[k + 1 + 1] = f[k + 1] \o s[k + 1 + 1]
      BY <1>3, <2>2, <3>1
    <3> QED
      BY <1>1, <3>1, <3>2, <3>3
  <2>5. n - 1 \in S /\ (n - 1) + 1 = n
    <3> HIDE DEF S
    <3>1. \A k \in Nat : k \in S
      BY <2>3, <2>4, NatSetInduction
    <3> QED
      BY <1>1, <1>5, <3>1
  <2>6. g[n] = f[n]
    BY <1>1, <2>5
  <2>7. g[n + 1] = g[n] \o t[n + 1]
    <3>1. n + 1 \in 1 .. n + 1 /\ n + 1 # 1 /\ (n + 1) - 1 = n
      BY <1>1, <1>5
    <3> QED
      BY <1>3, <3>1
  <2> QED
    BY <1>1, <1>2, <2>1, <2>6, <2>7 DEF t
<1> QED
  BY <1>4, <1>5

(* A sequence with an element at its end, as a function.                    *)
LEMMA AppendForm ==
  ASSUME NEW D, NEW s \in Seq(D), NEW x
  PROVE  /\ Len(s) \in Nat /\ Append(s, x)[Len(s) + 1] = x
         /\ Append(s, x) = [i \in 1 .. Len(s) + 1 |-> Append(s, x)[i]]
         /\ \A i \in 1 .. Len(s) : Append(s, x)[i] = s[i]
<1> DEFINE r == Append(s, x)
<1>1. s \in Seq(D \cup {x})
  OBVIOUS
<1>2. r \in Seq(D \cup {x}) /\ Len(r) = Len(s) + 1 /\ Len(s) \in Nat
  BY <1>1
<1>3. r[Len(s) + 1] = x /\ \A i \in 1 .. Len(s) : r[i] = s[i]
  BY <1>1
<1> HIDE DEF r
<1>4. r = [i \in 1 .. Len(s) + 1 |-> r[i]]
  BY <1>2
<1> QED
  BY <1>2, <1>3, <1>4 DEF r

LEMMA AppendFills ==
  ASSUME NEW D, NEW s \in Seq(D), NEW x
  PROVE  Append(s, x) # <<>>
<1>1. s \in Seq(D \cup {x})
  OBVIOUS
<1>2. Len(Append(s, x)) = Len(s) + 1 /\ Len(s) \in Nat
  BY <1>1
<1>3. Len(<<>>) = 0
  OBVIOUS
<1> QED
  BY <1>2, <1>3

(* An element more, or two, or none.                                        *)
LEMMA ConcatOne ==
  ASSUME NEW D, NEW s \in Seq(D), NEW x
  PROVE  s \o <<>> = s /\ s \o <<x>> = Append(s, x)
<1>1. s \in Seq(D \cup {x})
  OBVIOUS
<1>2. s \o <<>> = s
  BY <1>1
<1>3. s \o <<x>> = Append(s, x)
  BY <1>1
<1> QED
  BY <1>2, <1>3

LEMMA ConcatTwo ==
  ASSUME NEW D, NEW s \in Seq(D), NEW x, NEW y
  PROVE  s \o <<x, y>> = Append(Append(s, x), y)
<1>1. s \in Seq(D \cup {x, y})
  OBVIOUS
<1> QED
  BY <1>1

(* A sequence that is not empty ends in something.                          *)
LEMMA EndsIn ==
  ASSUME NEW D, NEW s \in Seq(D), Len(s) # 0
  PROVE  \E r \in Seq(D), x \in D : s = Append(r, x) /\ Len(r) = Len(s) - 1
<1> DEFINE n == Len(s)
           r == [i \in 1 .. n - 1 |-> s[i]]
<1>1. n \in Nat \ {0} /\ n \in 1 .. n /\ \A i \in 1 .. n : s[i] \in D
  OBVIOUS
<1>2. r \in Seq(D) /\ Len(r) = n - 1
  BY <1>1
<1>3. s = Append(r, s[n])
  BY <1>1, <1>2
<1> HIDE DEF r
<1> QED
  BY <1>1, <1>2, <1>3

(* The table of the entities, spelled out.                                  *)
LEMMA RawFacts ==
  /\ DOMAIN Raw = {"amp;", "quot;", "lt;", "gt;", "apos;"}
  /\ Raw["amp;"] = "&" /\ Raw["quot;"] = "\"" /\ Raw["lt;"] = "<" /\ Raw["gt;"] = ">"
  /\ Raw["apos;"] = "'"
  /\ DOMAIN Entities = 1 .. 5
<1>1. /\ DOMAIN Entities = 1 .. 5 /\ DOMAIN Characters = 1 .. 5
      /\ Entities[1] = "amp;" /\ Entities[2] = "quot;" /\ Entities[3] = "lt;"
      /\ Entities[4] = "gt;" /\ Entities[5] = "apos;"
      /\ Characters[1] = "&" /\ Characters[2] = "\"" /\ Characters[3] = "<"
      /\ Characters[4] = ">" /\ Characters[5] = "'"
  BY DEF Entities, Characters
<1>2. \A i \in 1 .. 5 : i = 1 \/ i = 2 \/ i = 3 \/ i = 4 \/ i = 5
  OBVIOUS
<1>3. Range(Entities) = {"amp;", "quot;", "lt;", "gt;", "apos;"}
  <2>1. Range(Entities) = {Entities[i] : i \in DOMAIN Entities}
    BY Zenon DEF Range
  <2>2. 1 \in 1 .. 5 /\ 2 \in 1 .. 5 /\ 3 \in 1 .. 5 /\ 4 \in 1 .. 5 /\ 5 \in 1 .. 5
    OBVIOUS
  <2>3. \A i \in 1 .. 5 : Entities[i] \in {"amp;", "quot;", "lt;", "gt;", "apos;"}
    BY <1>1, <1>2
  <2>4. \A x \in {"amp;", "quot;", "lt;", "gt;", "apos;"} : \E i \in 1 .. 5 : Entities[i] = x
    BY <1>1, <2>2
  <2> QED
    <3> DEFINE T == {"amp;", "quot;", "lt;", "gt;", "apos;"}
               f == Entities
    <3>1. /\ Range(f) = {f[i] : i \in 1 .. 5} /\ \A i \in 1 .. 5 : f[i] \in T
          /\ \A x \in T : \E i \in 1 .. 5 : f[i] = x
      BY <1>1, <2>1, <2>3, <2>4, Zenon
    <3> HIDE DEF T, f
    <3>2. Range(f) = T
      BY <3>1
    <3> QED
      BY <3>2 DEF T, f
<1>4. ASSUME NEW i \in 1 .. 5
      PROVE  (CHOOSE j \in DOMAIN Entities : Entities[j] = Entities[i]) = i
  BY <1>1, <1>2
<1>5. ASSUME NEW i \in 1 .. 5
      PROVE  Raw[Entities[i]] = Characters[i]
  <2>1. Entities[i] \in Range(Entities)
    BY <1>1, Zenon DEF Range
  <2> QED
    BY <1>4, <2>1, Zenon DEF Raw
<1>6. DOMAIN Raw = Range(Entities)
  BY Zenon DEF Raw
<1>7. /\ Raw[Entities[1]] = Characters[1] /\ Raw[Entities[2]] = Characters[2]
      /\ Raw[Entities[3]] = Characters[3] /\ Raw[Entities[4]] = Characters[4]
      /\ Raw[Entities[5]] = Characters[5]
  BY <1>5
<1> QED
  BY <1>1, <1>3, <1>6, <1>7, Zenon

(* No two entities stand for the same, and none for one, or for half of     *)
(* one.                                                                     *)
LEMMA EntitiesDiffer ==
  /\ "&" \notin DOMAIN Raw
  /\ \A e \in DOMAIN Raw : Raw[e] \notin DOMAIN Raw
  /\ \A e, f \in DOMAIN Raw : Raw[e] = Raw[f] => e = f
  BY RawFacts

(* The tokens of a text, and those its escaped form may have.               *)
Alphabet(W) == DOMAIN Raw \cup {Raw[e] : e \in DOMAIN Raw} \cup {"&"} \subseteq W

Code(S, c) == IF \E e \in S : Raw[e] = c THEN <<"&", CHOOSE e \in S : Raw[e] = c>> ELSE <<c>>

(* The text with only the entities of S escaped.                            *)
Partly(S, text) == FlattenSeq([i \in DOMAIN text |-> Code(S, text[i])])

Unescaped == {"apos;"}

Escaped == DOMAIN Raw \ Unescaped

LEMMA CodeIs ==
  ASSUME NEW S, S \subseteq DOMAIN Raw, NEW c
  PROVE  \/ (\A e \in S : Raw[e] # c) /\ Code(S, c) = <<c>>
         \/ \E e \in S : Raw[e] = c /\ Code(S, c) = <<"&", e>>
<1>1. CASE \E e \in S : Raw[e] = c
  <2> DEFINE e == CHOOSE x \in S : Raw[x] = c
  <2>1. e \in S /\ Raw[e] = c
    BY <1>1, Zenon
  <2>2. Code(S, c) = <<"&", e>>
    BY <1>1, Zenon DEF Code
  <2> HIDE DEF e
  <2> QED
    BY <2>1, <2>2
<1>2. CASE ~\E e \in S : Raw[e] = c
  <2>1. Code(S, c) = <<c>>
    BY <1>2, Zenon DEF Code
  <2> QED
    BY <1>2, <2>1
<1> QED
  BY <1>1, <1>2

LEMMA CodeIsWord ==
  ASSUME NEW W, Alphabet(W), NEW S, S \subseteq DOMAIN Raw, NEW c \in W
  PROVE  Code(S, c) \in Seq(W)
<1>1. "&" \in W /\ \A e \in S : e \in W
  BY DEF Alphabet
<1>2. \A e \in S : <<"&", e>> \in Seq(W)
  BY <1>1
<1>3. <<c>> \in Seq(W)
  OBVIOUS
<1> QED
  BY <1>2, <1>3, CodeIs

LEMMA PartlyEmpty ==
  ASSUME NEW S
  PROVE  Partly(S, <<>>) = <<>>
<1>1. [i \in DOMAIN <<>> |-> Code(S, <<>>[i])] = <<>>
  OBVIOUS
<1>2. Len(<<>>) = 0
  OBVIOUS
<1> QED
  BY <1>1, <1>2 DEF Partly, FlattenSeq

Fits(S, W) == Alphabet(W) /\ S \subseteq DOMAIN Raw

GoesOn(S, text, c, more) == Partly(S, more) = Partly(S, text) \o Code(S, c)

LEMMA PartlyAppend ==
  ASSUME NEW W, NEW S, Fits(S, W), NEW text \in Seq(W), NEW c \in W,
         NEW more, more = Append(text, c)
  PROVE  /\ Partly(S, text) \in Seq(W)
         /\ GoesOn(S, text, c, more)
<1> DEFINE n == Len(text)
           s == [i \in DOMAIN text |-> Code(S, text[i])]
           t == [i \in DOMAIN more |-> Code(S, more[i])]
<1>0. Code(S, c) \in Seq(W)
  BY CodeIsWord DEF Fits
<1>1. n \in Nat /\ DOMAIN text = 1 .. n /\ \A i \in 1 .. n : text[i] \in W
  OBVIOUS
<1>2. /\ DOMAIN more = 1 .. n + 1 /\ more[n + 1] = c
      /\ \A i \in 1 .. n : more[i] = text[i]
  BY <1>1
<1>3. \A i \in 1 .. n : Code(S, text[i]) \in Seq(W)
  BY <1>1, CodeIsWord DEF Fits
<1>4. s = [i \in 1 .. n |-> s[i]] /\ \A i \in 1 .. n : s[i] = Code(S, text[i])
  BY <1>1
<1>5. /\ t = [i \in 1 .. n + 1 |-> t[i]] /\ t[n + 1] = Code(S, c)
      /\ \A i \in 1 .. n : t[i] = Code(S, text[i])
  BY <1>1, <1>2
<1> HIDE DEF s, t
<1>6. s \in Seq(Seq(W)) /\ Len(s) = n
  BY <1>1, <1>3, <1>4
<1>7. t = Append(s, Code(S, c))
  <2> DEFINE w == Code(S, c)
             r == Append(s, w)
  <2>1. w \in Seq(W)
    BY CodeIsWord DEF Fits
  <2> HIDE DEF w
  <2>2. r = [i \in 1 .. n + 1 |-> r[i]] /\ r[n + 1] = w /\ \A i \in 1 .. n : r[i] = s[i]
    BY <1>6, <2>1, AppendForm
  <2> HIDE DEF r
  <2>3. \A i \in 1 .. n + 1 : i \in 1 .. n \/ i = n + 1
    BY <1>1
  <2>4. \A i \in 1 .. n + 1 : t[i] = r[i]
    BY <1>4, <1>5, <2>2, <2>3 DEF w
  <2> QED
    BY <1>5, <2>2, <2>4 DEF r, w
<1>8. FlattenSeq(t) = FlattenSeq(s) \o Code(S, c)
  BY <1>6, <1>7, <1>0, FlattenAppend
<1>9. FlattenSeq(s) \in Seq(W)
  BY <1>6, FlattenIsSeq
<1> QED
  BY <1>8, <1>9 DEF GoesOn, Partly, s, t

(* The pieces ReplaceEntity() puts together.                                *)
Piece(text, e, i) ==
  IF Stands(text, e, i) THEN <<Raw[e]>>
  ELSE IF Stands(text, e, i - 1) THEN <<>> ELSE <<text[i]>>

Pieces(text, e) == [i \in DOMAIN text |-> Piece(text, e, i)]

(* Where the entity stands does not depend on what follows, unless that is  *)
(* the entity's second half.                                                *)
LEMMA PieceStays ==
  ASSUME NEW W, Alphabet(W), NEW e \in DOMAIN Raw, NEW text \in Seq(W), NEW more,
         Len(more) \in Nat, Len(more) > Len(text), more[Len(text) + 1] # e,
         \A i \in 1 .. Len(text) : more[i] = text[i]
  PROVE  \A i \in 1 .. Len(text) :
           Piece(more, e, i) = Piece(text, e, i) /\ Piece(text, e, i) \in Seq(W)
<1> DEFINE n == Len(text)
<1>1. n \in Nat /\ \A i \in 1 .. n : text[i] \in W
  OBVIOUS
<1>2. Len(more) \in Nat /\ Len(more) > n
  OBVIOUS
<1>3. Raw[e] \in W
  BY DEF Alphabet
<1>4. ASSUME NEW i \in 0 .. n
      PROVE  Stands(more, e, i) <=> Stands(text, e, i)
  <2>0. n \in Int /\ i \in Int /\ 0 <= i /\ i <= n
    BY <1>1
  <2>1. CASE i \in 1 .. n - 1
    <3>1. i \in 1 .. n /\ i + 1 \in 1 .. n /\ i \in 1 .. Len(more) - 1
      BY <1>2, <2>0, <2>1
    <3>2. more[i] = text[i] /\ more[i + 1] = text[i + 1]
      BY <3>1
    <3> QED
      BY <2>1, <3>1, <3>2 DEF Stands
  <2>2. CASE i \notin 1 .. n - 1
    <3>1. i = 0 \/ i = n
      BY <2>0, <2>2
    <3>2. i = n => more[i + 1] # e
      OBVIOUS
    <3>3. ~Stands(text, e, i)
      BY <2>2 DEF Stands
    <3>4. i = 0 => ~Stands(more, e, i)
      BY DEF Stands
    <3>5. i = n => ~Stands(more, e, i)
      BY <3>2 DEF Stands
    <3> QED
      BY <3>1, <3>3, <3>4, <3>5
  <2> QED
    BY <2>1, <2>2
<1>5. ASSUME NEW i \in 1 .. n
      PROVE  Piece(more, e, i) = Piece(text, e, i) /\ Piece(text, e, i) \in Seq(W)
  <2>1. i \in 0 .. n /\ i - 1 \in 0 .. n
    BY <1>1
  <2>2. more[i] = text[i] /\ text[i] \in W
    BY <1>1
  <2>3. Piece(more, e, i) = Piece(text, e, i)
    BY <1>4, <2>1, <2>2 DEF Piece
  <2>4. Piece(text, e, i) \in Seq(W)
    BY <1>3, <2>2 DEF Piece
  <2> QED
    BY <2>3, <2>4
<1> QED
  BY <1>5

PiecesTo(text, e, n, s) == \A i \in 1 .. n : s[i] = Piece(text, e, i)

(* Of a text that goes on with one piece more.                              *)
LEMMA PiecesAppend ==
  ASSUME NEW W, Alphabet(W), NEW e \in DOMAIN Raw, NEW text \in Seq(W), NEW c \in W, NEW s,
         s \in Seq(Seq(W)), Len(s) = Len(text),
         PiecesTo(Append(text, c), e, Len(text), s),
         Piece(Append(text, c), e, Len(text) + 1) \in Seq(W)
  PROVE  /\ Pieces(Append(text, c), e) = Append(s, Piece(Append(text, c), e, Len(text) + 1))
         /\ ReplaceEntity(Append(text, c), e) =
              FlattenSeq(s) \o Piece(Append(text, c), e, Len(text) + 1)
<1> DEFINE n == Len(text)
           more == Append(text, c)
           p == Piece(more, e, n + 1)
           r == Append(s, p)
           t == Pieces(more, e)
<1>1. n \in Nat /\ DOMAIN more = 1 .. n + 1
  OBVIOUS
<1>0. \A i \in 1 .. n + 1 : i \in 1 .. n \/ i = n + 1
  BY <1>1
<1> HIDE DEF more
<1>2. t = [i \in 1 .. n + 1 |-> Piece(more, e, i)]
  BY <1>1 DEF Pieces
<1>3. r = [i \in 1 .. n + 1 |-> r[i]] /\ r[n + 1] = p /\ \A i \in 1 .. n : r[i] = s[i]
  BY AppendForm
<1> HIDE DEF r
<1>4. \A i \in 1 .. n + 1 : Piece(more, e, i) = r[i]
  BY <1>0, <1>3 DEF more, PiecesTo
<1>5. t = r
  BY <1>2, <1>3, <1>4
<1>6. ReplaceEntity(more, e) = FlattenSeq(t)
  BY Zenon DEF ReplaceEntity, Pieces, Piece
<1> HIDE DEF t, p
<1>7. FlattenSeq(r) = FlattenSeq(s) \o p
  BY FlattenAppend DEF r, p, more
<1> QED
  BY <1>5, <1>6, <1>7 DEF t, r, p, more

(* A token that is not the entity's half stays, and completes nothing.      *)
LEMMA ReplaceKeeps ==
  ASSUME NEW W, Alphabet(W), NEW e \in DOMAIN Raw, NEW text \in Seq(W), NEW c \in W, c # e
  PROVE  /\ ReplaceEntity(Append(text, c), e) = Append(ReplaceEntity(text, e), c)
         /\ Pieces(text, e) \in Seq(Seq(W)) /\ Len(Pieces(text, e)) = Len(text)
         /\ ReplaceEntity(text, e) = FlattenSeq(Pieces(text, e))
         /\ ReplaceEntity(text, e) \in Seq(W)
<1> DEFINE n == Len(text)
           more == Append(text, c)
           s == Pieces(text, e)
<1>1. /\ n \in Nat /\ DOMAIN text = 1 .. n
      /\ Len(more) = n + 1 /\ more[n + 1] = c /\ \A i \in 1 .. n : more[i] = text[i]
  OBVIOUS
<1> HIDE DEF more
<1>2. \A i \in 1 .. n : Piece(more, e, i) = Piece(text, e, i) /\ Piece(text, e, i) \in Seq(W)
  <2>1. Len(more) \in Nat /\ Len(more) > n
    BY <1>1
  <2> QED
    BY <1>1, <2>1, PieceStays
<1>3. s = [i \in 1 .. n |-> Piece(text, e, i)]
  BY <1>1 DEF Pieces
<1>4. s \in Seq(Seq(W)) /\ Len(s) = n /\ \A i \in 1 .. n : s[i] = Piece(text, e, i)
  BY <1>1, <1>2, <1>3
<1>5. Piece(more, e, n + 1) = <<c>>
  <2>1. ~Stands(more, e, n + 1)
    BY <1>1 DEF Stands
  <2>2. ~Stands(more, e, (n + 1) - 1)
    <3>1. more[n + 1] # e /\ (n + 1) - 1 = n
      BY <1>1
    <3> QED
      BY <3>1 DEF Stands
  <2> QED
    BY <1>1, <2>1, <2>2 DEF Piece
<1>6. ReplaceEntity(text, e) = FlattenSeq(s)
  BY Zenon DEF ReplaceEntity, Pieces, Piece
<1> HIDE DEF s
<1>7. FlattenSeq(s) \in Seq(W) /\ <<c>> \in Seq(W)
  BY <1>4, FlattenIsSeq
<1>8. ReplaceEntity(more, e) = FlattenSeq(s) \o <<c>>
  <2>1. PiecesTo(more, e, n, s)
    BY <1>2, <1>4 DEF PiecesTo
  <2>2. Piece(more, e, n + 1) \in Seq(W)
    BY <1>5, <1>7
  <2>3. ReplaceEntity(more, e) = FlattenSeq(s) \o Piece(more, e, n + 1)
    BY <1>4, <2>1, <2>2, PiecesAppend DEF more
  <2> QED
    BY <1>5, <2>3
<1>9. FlattenSeq(s) \o <<c>> = Append(FlattenSeq(s), c)
  BY <1>7, ConcatOne, Zenon
<1> QED
  BY <1>4, <1>6, <1>7, <1>8, <1>9 DEF more, s

(* The entity becomes what it stands for.                                   *)
LEMMA ReplaceServes ==
  ASSUME NEW W, Alphabet(W), NEW e \in DOMAIN Raw, NEW text \in Seq(W)
  PROVE  ReplaceEntity(Append(Append(text, "&"), e), e) = Append(ReplaceEntity(text, e), Raw[e])
<1> DEFINE n == Len(text)
           amp == Append(text, "&")
           both == Append(amp, e)
           s == Pieces(text, e)
           r == Append(s, <<Raw[e]>>)
<1>1. "&" \in W /\ e \in W /\ Raw[e] \in W /\ "&" # e
  BY EntitiesDiffer DEF Alphabet
<1>2. amp \in Seq(W) /\ Len(amp) = n + 1 /\ n \in Nat /\ amp[n + 1] = "&" /\ \A i \in 1 .. n : amp[i] = text[i]
  BY <1>1
<1> HIDE DEF amp
<1>3. Len(both) = n + 2 /\ both[n + 2] = e /\ both[n + 1] = "&" /\ \A i \in 1 .. n : both[i] = text[i]
  <2>1. Len(both) = n + 2 /\ both[n + 2] = e /\ \A i \in 1 .. n + 1 : both[i] = amp[i]
    BY <1>1, <1>2
  <2>2. n + 1 \in 1 .. n + 1 /\ \A i \in 1 .. n : i \in 1 .. n + 1
    BY <1>2
  <2> HIDE DEF both
  <2> QED
    BY <1>2, <2>1, <2>2
<1> HIDE DEF both
<1>4. /\ s \in Seq(Seq(W)) /\ Len(s) = n
      /\ ReplaceEntity(text, e) = FlattenSeq(s) /\ FlattenSeq(s) \in Seq(W)
  BY <1>1, ReplaceKeeps
<1>5. \A i \in 1 .. n : s[i] = Piece(both, e, i)
  <2>1. Len(both) \in Nat /\ Len(both) > n /\ both[n + 1] # e
    BY <1>1, <1>2, <1>3
  <2>2. \A i \in 1 .. n : Piece(both, e, i) = Piece(text, e, i)
    BY <1>3, <2>1, PieceStays
  <2>3. DOMAIN text = 1 .. n
    OBVIOUS
  <2> QED
    BY <2>2, <2>3 DEF Pieces
<1> HIDE DEF s
<1>6. Piece(both, e, n + 1) = <<Raw[e]>>
  <2>1. n + 1 \in 1 .. Len(both) - 1 /\ (n + 1) + 1 = n + 2
    BY <1>2, <1>3
  <2>2. Stands(both, e, n + 1)
    BY <1>3, <2>1 DEF Stands
  <2> QED
    BY <2>2 DEF Piece
<1>7. Piece(both, e, n + 2) = <<>>
  <2>1. Stands(both, e, (n + 2) - 1)
    <3>1. (n + 2) - 1 \in 1 .. Len(both) - 1 /\ (n + 2) - 1 = n + 1 /\ ((n + 2) - 1) + 1 = n + 2
      BY <1>2, <1>3
    <3> QED
      BY <1>3, <3>1 DEF Stands
  <2>2. ~Stands(both, e, n + 2)
    BY <1>2, <1>3 DEF Stands
  <2> QED
    BY <2>1, <2>2 DEF Piece
<1>8. /\ r \in Seq(Seq(W)) /\ Len(r) = n + 1 /\ r[n + 1] = <<Raw[e]>>
      /\ \A i \in 1 .. n : r[i] = s[i]
  <2>1. <<Raw[e]>> \in Seq(W)
    BY <1>1
  <2> QED
    BY <1>2, <1>4, <2>1
<1>9. FlattenSeq(r) = Append(FlattenSeq(s), Raw[e])
  <2>1. <<Raw[e]>> \in Seq(W)
    BY <1>1
  <2>2. FlattenSeq(r) = FlattenSeq(s) \o <<Raw[e]>>
    BY <1>4, <2>1, FlattenAppend
  <2> QED
    BY <1>4, <2>2, ConcatOne, Zenon
<1> HIDE DEF r
<1>10. ReplaceEntity(both, e) = FlattenSeq(r) \o <<>>
  <2>1. PiecesTo(both, e, n + 1, r)
    <3>1. \A i \in 1 .. n + 1 : i \in 1 .. n \/ i = n + 1
      BY <1>2
    <3> QED
      BY <1>5, <1>6, <1>8, <3>1 DEF PiecesTo
  <2>2. Len(amp) + 1 = n + 2 /\ <<>> \in Seq(W) /\ Len(r) = Len(amp)
    BY <1>2, <1>8
  <2>3. Piece(both, e, Len(amp) + 1) \in Seq(W) /\ PiecesTo(both, e, Len(amp), r)
    <3>1. Piece(both, e, n + 2) \in Seq(W) /\ Len(amp) = n + 1
      BY <1>2, <1>7, <2>2
    <3> QED
      BY <2>1, <2>2, <3>1
  <2>4. ReplaceEntity(both, e) = FlattenSeq(r) \o Piece(both, e, Len(amp) + 1)
    <3>1. amp \in Seq(W) /\ e \in W /\ r \in Seq(Seq(W)) /\ Len(r) = Len(amp)
      BY <1>1, <1>2, <1>8, <2>2
    <3> QED
      BY <2>3, <3>1, PiecesAppend DEF both
  <2> QED
    BY <1>7, <2>2, <2>4
<1>11. FlattenSeq(r) \o <<>> = FlattenSeq(r)
  <2>1. Append(FlattenSeq(s), Raw[e]) \in Seq(W)
    BY <1>1, <1>4
  <2> QED
    BY <1>9, <2>1
<1> QED
  BY <1>4, <1>9, <1>10, <1>11 DEF both, amp

LEMMA CodeIn ==
  ASSUME NEW S, S \subseteq DOMAIN Raw, NEW e \in S
  PROVE  Code(S, Raw[e]) = <<"&", e>>
<1>1. PICK f \in S : Raw[f] = Raw[e] /\ Code(S, Raw[e]) = <<"&", f>>
  BY CodeIs
<1>2. f = e
  BY <1>1, EntitiesDiffer
<1> QED
  BY <1>1, <1>2

(* Unescaping one of the entities that are escaped leaves the others.       *)
LEMMA ReplacePartly ==
  ASSUME NEW W, Alphabet(W), NEW S, S \subseteq DOMAIN Raw, NEW e \in DOMAIN Raw,
         NEW text \in Seq(W), \A i \in DOMAIN text : text[i] \notin DOMAIN Raw
  PROVE  ReplaceEntity(Partly(S, text), e) = Partly(S \ {e}, text)
<1> DEFINE R == S \ {e}
           Turns(t) == ReplaceEntity(Partly(S, t), e) = Partly(R, t)
           Plainly(t) == \A i \in DOMAIN t : t[i] \notin DOMAIN Raw
           N == {n \in Nat : \A t \in Seq(W) : Len(t) = n /\ Plainly(t) => Turns(t)}
<1>1. 0 \in N
  <2>1. \A t \in Seq(W) : Len(t) = 0 => t = <<>>
    OBVIOUS
  <2>2. ReplaceEntity(<<>>, e) = <<>>
    <3>1. Pieces(<<>>, e) = <<>> /\ Len(<<>>) = 0
      BY DEF Pieces
    <3>2. ReplaceEntity(<<>>, e) = FlattenSeq(Pieces(<<>>, e))
      BY Zenon DEF ReplaceEntity, Pieces, Piece
    <3> QED
      BY <3>1, <3>2 DEF FlattenSeq
  <2>3. Turns(<<>>)
    BY <2>2, PartlyEmpty
  <2> HIDE DEF Turns
  <2> QED
    BY <2>1, <2>3
<1> HIDE DEF N, Turns, Plainly
<1>2. ASSUME NEW n \in Nat, n \in N
      PROVE  n + 1 \in N
  <2> SUFFICES ASSUME NEW t \in Seq(W), Len(t) = n + 1, Plainly(t)
               PROVE  Turns(t)
    BY DEF N
  <2>1. PICK u \in Seq(W), c \in W : t = Append(u, c) /\ Len(u) = Len(t) - 1
    <3>1. Len(t) # 0
      OBVIOUS
    <3> QED
      BY <3>1, EndsIn
  <2>2. Len(u) = n /\ Plainly(u) /\ c \notin DOMAIN Raw
    <3>1. /\ DOMAIN u = 1 .. Len(u) /\ DOMAIN t = 1 .. Len(u) + 1 /\ Len(u) \in Nat
          /\ t[Len(u) + 1] = c /\ \A i \in 1 .. Len(u) : t[i] = u[i]
      BY <2>1, AppendValues
    <3>2. Len(u) + 1 \in DOMAIN t /\ \A i \in DOMAIN u : i \in DOMAIN t
      BY <3>1
    <3> QED
      BY <2>1, <3>1, <3>2 DEF Plainly
  <2> DEFINE a == Partly(S, u)
             b == Partly(R, u)
  <2>3. ReplaceEntity(a, e) = b
    <3>1. Turns(u)
      BY <1>2, <2>2 DEF N
    <3> QED
      BY <3>1 DEF Turns
  <2>4. /\ a \in Seq(W) /\ Partly(S, t) = a \o Code(S, c)
        /\ b \in Seq(W) /\ Partly(R, t) = b \o Code(R, c)
    <3>1. Fits(S, W) /\ Fits(R, W)
      BY DEF Fits
    <3> HIDE DEF R
    <3>2. a \in Seq(W) /\ Partly(S, t) = a \o Code(S, c)
      <4>1. Partly(S, u) \in Seq(W) /\ GoesOn(S, u, c, t)
        BY <2>1, <3>1, PartlyAppend
      <4> QED
        BY <4>1, Zenon DEF GoesOn
    <3>3. b \in Seq(W) /\ Partly(R, t) = b \o Code(R, c)
      <4>1. Partly(R, u) \in Seq(W) /\ GoesOn(R, u, c, t)
        BY <2>1, <3>1, PartlyAppend
      <4> QED
        BY <4>1, Zenon DEF GoesOn
    <3> QED
      BY <3>2, <3>3
  <2>5. c # e /\ "&" # e /\ "&" \in W
    BY <2>2, EntitiesDiffer DEF Alphabet
  <2> HIDE DEF a, b
  <2>6. CASE (\A f \in S : Raw[f] # c) /\ Code(S, c) = <<c>>
    <3>1. Code(R, c) = <<c>>
      BY <2>6, CodeIs
    <3>2. Partly(S, t) = Append(a, c) /\ Partly(R, t) = Append(b, c)
      <4>1. a \o <<c>> = Append(a, c) /\ b \o <<c>> = Append(b, c)
        BY <2>4, ConcatOne
      <4> QED
        BY <2>4, <2>6, <3>1, <4>1
    <3>3. ReplaceEntity(Append(a, c), e) = Append(b, c)
      BY <2>3, <2>4, <2>5, ReplaceKeeps
    <3> QED
      BY <3>2, <3>3 DEF Turns
  <2>7. ASSUME NEW f \in S, Raw[f] = c, Code(S, c) = <<"&", f>>
        PROVE  Turns(t)
    <3>0. Partly(S, t) = Append(Append(a, "&"), f) /\ f \in W
      <4>1. a \o <<"&", f>> = Append(Append(a, "&"), f)
        <5> DEFINE amp == "&"
        <5> HIDE DEF amp
        <5>1. a \o <<amp, f>> = Append(Append(a, amp), f)
          BY <2>4, ConcatTwo
        <5> QED
          BY <5>1 DEF amp
      <4> QED
        BY <2>4, <2>7, <4>1 DEF Alphabet
    <3>1. CASE f = e
      <4>1. \A g \in R : Raw[g] # c
        BY <2>7, <3>1, EntitiesDiffer
      <4>2. Code(R, c) = <<c>>
        BY <4>1, CodeIs
      <4>3. Partly(R, t) = Append(b, c)
        <5>1. b \o <<c>> = Append(b, c)
          BY <2>4, ConcatOne
        <5> QED
          BY <2>4, <4>2, <5>1
      <4>4. ReplaceEntity(Append(Append(a, "&"), e), e) = Append(b, Raw[e])
        BY <2>3, <2>4, ReplaceServes
      <4> QED
        BY <2>7, <3>0, <3>1, <4>3, <4>4 DEF Turns
    <3>2. CASE f # e
      <4>1. f \in R /\ \A g \in R : Raw[g] = c => g = f
        BY <2>7, <3>2, EntitiesDiffer
      <4>2. Code(R, c) = <<"&", f>>
        BY <2>7, <4>1, CodeIn
      <4>3. Partly(R, t) = Append(Append(b, "&"), f)
        <5>1. b \o <<"&", f>> = Append(Append(b, "&"), f)
          <6> DEFINE amp == "&"
          <6> HIDE DEF amp
          <6>1. b \o <<amp, f>> = Append(Append(b, amp), f)
            BY <2>4, ConcatTwo
          <6> QED
            BY <6>1 DEF amp
        <5> QED
          BY <2>4, <4>2, <5>1
      <4>4. ReplaceEntity(Append(a, "&"), e) = Append(b, "&") /\ Append(a, "&") \in Seq(W)
        BY <2>3, <2>4, <2>5, ReplaceKeeps
      <4>5. ReplaceEntity(Append(Append(a, "&"), f), e) = Append(Append(b, "&"), f)
        <5> DEFINE x == Append(a, "&")
                   y == Append(b, "&")
        <5>1. x \in Seq(W) /\ ReplaceEntity(x, e) = y /\ f \in W /\ f # e
          BY <3>0, <3>2, <4>4
        <5> HIDE DEF x, y
        <5>2. ReplaceEntity(Append(x, f), e) = Append(y, f)
          BY <5>1, ReplaceKeeps
        <5> QED
          BY <5>2 DEF x, y
      <4> QED
        BY <3>0, <4>3, <4>5 DEF Turns
    <3> QED
      BY <3>1, <3>2
  <2> QED
    BY <2>6, <2>7, CodeIs
<1>3. Len(text) \in N /\ Len(text) \in Nat
  <2>1. \A n \in Nat : n \in N
    BY <1>1, <1>2, NatSetInduction
  <2> QED
    BY <2>1
<1> QED
  BY <1>3 DEF N, Turns, Plainly

(* Entities[1], .. Entities[n] *)
UpTo(n) == {Entities[i] : i \in 1 .. n}

UnescapedTo(text, n, t) == t = Partly(Escaped \ UpTo(n), text)

Unescaping == INSTANCE SequenceFolds WITH Op <- ReplaceEntity, Inv <- UnescapedTo

(* XmlAttr() escapes all but one of the entities, which no text needs.      *)
LEMMA XmlAttrIs ==
  ASSUME NEW text
  PROVE  XmlAttr(text) = Partly(Escaped, text)
<1>1. ASSUME NEW c
      PROVE  Escape(c) = Code(Escaped, c)
  <2> DEFINE es == {e \in DOMAIN Raw \ {"apos;"} : Raw[e] = c}
  <2>1. es = {e \in Escaped : Raw[e] = c}
    BY DEF Escaped, Unescaped
  <2>2. CASE es = {}
    <3>1. Escape(c) = <<c>>
      BY <2>2, Zenon DEF Escape
    <3>2. ~\E e \in Escaped : Raw[e] = c
      BY <2>1, <2>2
    <3>3. Code(Escaped, c) = <<c>>
      BY <3>2, Zenon DEF Code
    <3> QED
      BY <3>1, <3>3
  <2>3. CASE es # {}
    <3>1. PICK e \in es : TRUE
      BY <2>3
    <3>2. \A f \in es : f = e
      BY <2>1, <3>1, EntitiesDiffer DEF Escaped
    <3>3. (CHOOSE f \in es : TRUE) = e
      BY <3>1, <3>2
    <3>4. Escape(c) = <<"&", e>>
      BY <2>3, <3>3, Zenon DEF Escape
    <3>5. e \in Escaped /\ Raw[e] = c
      BY <2>1, <3>1
    <3>6. Code(Escaped, c) = <<"&", e>>
      <4>1. Escaped \subseteq DOMAIN Raw
        BY DEF Escaped
      <4> QED
        BY <3>5, <4>1, CodeIn
    <3> QED
      BY <3>4, <3>6
  <2> QED
    BY <2>2, <2>3
<1>2. [i \in DOMAIN text |-> Escape(text[i])] = [i \in DOMAIN text |-> Code(Escaped, text[i])]
  BY <1>1
<1> QED
  BY <1>2, Zenon DEF XmlAttr, Partly

(* A text without entities comes back.                                      *)
LEMMA RoundTrip ==
  ASSUME NEW W, Alphabet(W), NEW text \in Seq(W), Range(text) \cap Range(Entities) = {}
  PROVE  XmlUnescape(XmlAttr(text)) = text
<1> DEFINE base == XmlAttr(text)
<1>0. DOMAIN Entities = 1 .. 5 /\ \A i \in 1 .. 5 : Entities[i] \in DOMAIN Raw
  <2>1. DOMAIN Entities = 1 .. 5
    BY RawFacts
  <2>2. \A i \in DOMAIN Entities : Entities[i] \in Range(Entities)
    BY Zenon DEF Range
  <2>3. DOMAIN Raw = Range(Entities)
    BY Zenon DEF Raw
  <2> QED
    BY <2>1, <2>2, <2>3
<1>1. XmlUnescape(base) = Unescaping!Fold(base, Entities)
  BY Zenon DEF XmlUnescape, FoldLeft, MapThenFoldSet, Max, Unescaping!Fold
<1>2. UnescapedTo(text, 0, base)
  <2>1. Escaped \ UpTo(0) = Escaped
    BY DEF UpTo
  <2> QED
    BY <2>1, XmlAttrIs, Zenon DEF UnescapedTo
<1>3. ASSUME NEW i \in 1 .. 5, NEW t, UnescapedTo(text, i - 1, t)
      PROVE  UnescapedTo(text, i, ReplaceEntity(t, Entities[i]))
  <2> DEFINE S == Escaped \ UpTo(i - 1)
  <2>1. \A j \in DOMAIN text : text[j] \notin DOMAIN Raw
    <3>1. \A j \in DOMAIN text : text[j] \in Range(text)
      BY Zenon DEF Range
    <3>2. DOMAIN Raw = Range(Entities)
      BY Zenon DEF Raw
    <3> QED
      BY <3>1, <3>2
  <2>2. S \subseteq DOMAIN Raw /\ Entities[i] \in DOMAIN Raw
    BY <1>0 DEF Escaped
  <2>3. Escaped \ UpTo(i) = S \ {Entities[i]}
    <3>1. \A j : j \in 1 .. i <=> j \in 1 .. i - 1 \/ j = i
      OBVIOUS
    <3> QED
      BY <3>1 DEF UpTo
  <2> HIDE DEF S
  <2>4. ReplaceEntity(Partly(S, text), Entities[i]) = Partly(S \ {Entities[i]}, text)
    BY <2>1, <2>2, ReplacePartly
  <2>5. t = Partly(S, text)
    BY <1>3 DEF UnescapedTo, S
  <2> QED
    BY <2>3, <2>4, <2>5 DEF UnescapedTo
<1>4. \A i \in 1 .. 5 : \A t : UnescapedTo(text, i - 1, t) => UnescapedTo(text, i, ReplaceEntity(t, Entities[i]))
  BY <1>3
<1> HIDE DEF base
<1>5. UnescapedTo(text, 5, XmlUnescape(base))
  <2>1. 5 \in Nat
    OBVIOUS
  <2> HIDE DEF UnescapedTo
  <2> QED
    BY <1>0, <1>1, <1>2, <1>4, <2>1, Unescaping!FoldInvariant
<1>6. Escaped \ UpTo(5) = {}
  <2>1. DOMAIN Raw = {Entities[i] : i \in DOMAIN Entities}
    BY Zenon DEF Raw, Range
  <2> QED
    BY <1>0, <2>1 DEF Escaped, UpTo
<1>7. Partly({}, text) = text
  <2> DEFINE E == {}
             N == {n \in Nat : \A t \in Seq(W) : Len(t) = n => Partly(E, t) = t}
  <2>0. Fits(E, W) /\ \A c : Code(E, c) = <<c>>
    BY CodeIs DEF Fits
  <2> HIDE DEF E
  <2>1. 0 \in N
    <3>1. \A t \in Seq(W) : Len(t) = 0 => t = <<>>
      OBVIOUS
    <3> QED
      BY <3>1, PartlyEmpty
  <2>2. ASSUME NEW n \in Nat, n \in N
        PROVE  n + 1 \in N
    <3> SUFFICES ASSUME NEW t \in Seq(W), Len(t) = n + 1
                 PROVE  Partly(E, t) = t
      OBVIOUS
    <3>1. PICK u \in Seq(W), c \in W : t = Append(u, c) /\ Len(u) = Len(t) - 1
      <4>1. Len(t) # 0
        OBVIOUS
      <4> QED
        BY <4>1, EndsIn
    <3>2. Partly(E, u) = u
      <4>1. Len(u) = n
        BY <3>1
      <4> QED
        BY <2>2, <4>1
    <3>3. Partly(E, t) = u \o Code(E, c)
      <4>1. GoesOn(E, u, c, t)
        BY <2>0, <3>1, PartlyAppend
      <4> QED
        BY <3>2, <4>1, Zenon DEF GoesOn
    <3> QED
      BY <2>0, <3>1, <3>3, ConcatOne
  <2> HIDE DEF N
  <2>3. \A n \in Nat : n \in N
    BY <2>1, <2>2, NatSetInduction
  <2>4. Len(text) \in N
    BY <2>3
  <2> QED
    BY <2>4 DEF N, E
<1> QED
  BY <1>5, <1>6, <1>7 DEF UnescapedTo, base

(* How the escaped form of a text ends.                                     *)
EndsPlain(text, u, c) ==
  /\ \A e \in Escaped : Raw[e] # c
  /\ Partly(Escaped, text) = Append(Partly(Escaped, u), c)

EndsEscaped(text, u, c, e) ==
  /\ Raw[e] = c
  /\ Partly(Escaped, text) = Append(Append(Partly(Escaped, u), "&"), e)

Shorter(W, text, u, c) ==
  /\ text = Append(u, c) /\ Len(u) = Len(text) - 1
  /\ Partly(Escaped, u) \in Seq(W)
  /\ EndsPlain(text, u, c) \/ \E e \in Escaped : EndsEscaped(text, u, c, e)

LEMMA EscapedEnds ==
  ASSUME NEW W, Alphabet(W), NEW text \in Seq(W), Len(text) # 0
  PROVE  \E u \in Seq(W), c \in W : Shorter(W, text, u, c)
<1>1. PICK u \in Seq(W), c \in W : text = Append(u, c) /\ Len(u) = Len(text) - 1
  BY EndsIn
<1>2. Fits(Escaped, W) /\ Escaped \subseteq DOMAIN Raw
  BY DEF Fits, Escaped
<1>3. Partly(Escaped, u) \in Seq(W) /\ GoesOn(Escaped, u, c, text)
  BY <1>1, <1>2, PartlyAppend
<1> DEFINE p == Partly(Escaped, u)
<1>4. Partly(Escaped, text) = p \o Code(Escaped, c)
  BY <1>3, Zenon DEF GoesOn
<1>5. p \in Seq(W)
  BY <1>3
<1>6. CASE (\A e \in Escaped : Raw[e] # c) /\ Code(Escaped, c) = <<c>>
  <2> HIDE DEF p
  <2>1. p \o <<c>> = Append(p, c)
    BY <1>5, ConcatOne
  <2>2. EndsPlain(text, u, c)
    BY <1>4, <1>6, <2>1, Zenon DEF EndsPlain, p
  <2>3. Shorter(W, text, u, c)
    BY <1>1, <1>3, <2>2, Zenon DEF Shorter
  <2> QED
    BY <2>3
<1>7. ASSUME NEW e \in Escaped, Raw[e] = c, Code(Escaped, c) = <<"&", e>>
      PROVE  \E v \in Seq(W), d \in W : Shorter(W, text, v, d)
  <2> DEFINE amp == "&"
  <2> HIDE DEF p, amp
  <2>1. p \o <<amp, e>> = Append(Append(p, amp), e)
    BY <1>5, ConcatTwo
  <2>2. EndsEscaped(text, u, c, e)
    BY <1>4, <1>7, <2>1, Zenon DEF EndsEscaped, p, amp
  <2>3. Shorter(W, text, u, c)
    BY <1>1, <1>3, <1>7, <2>2, Zenon DEF Shorter
  <2> QED
    BY <2>3
<1> QED
  BY <1>2, <1>6, <1>7, CodeIs

LEMMA AppendsEqual ==
  ASSUME NEW W, NEW s \in Seq(W), NEW t \in Seq(W), NEW x, NEW y, Append(s, x) = Append(t, y)
  PROVE  s = t /\ x = y
<1> DEFINE r == Append(s, x)
<1>1. /\ Len(s) \in Nat /\ r = [i \in 1 .. Len(s) + 1 |-> r[i]] /\ r[Len(s) + 1] = x
      /\ \A i \in 1 .. Len(s) : r[i] = s[i]
  BY AppendForm
<1>2. /\ Len(t) \in Nat /\ r = [i \in 1 .. Len(t) + 1 |-> r[i]] /\ r[Len(t) + 1] = y
      /\ \A i \in 1 .. Len(t) : r[i] = t[i]
  BY AppendForm
<1> HIDE DEF r
<1>3. Len(s) = Len(t)
  BY <1>1, <1>2
<1>4. s = t
  BY <1>1, <1>2, <1>3
<1> QED
  BY <1>1, <1>2, <1>3, <1>4

LastIs(z, s, x) == z = Append(s, x)

LEMMA LastsEqual ==
  ASSUME NEW W, NEW s \in Seq(W), NEW t \in Seq(W), NEW x, NEW y, NEW z, LastIs(z, s, x), LastIs(z, t, y)
  PROVE  s = t /\ x = y
<1>1. Append(s, x) = Append(t, y)
  BY DEF LastIs
<1> QED
  BY <1>1, AppendsEqual

LEMMA AmpersandEscaped ==
  \E e \in Escaped : Raw[e] = "&"
  BY RawFacts DEF Escaped, Unescaped

(* An escaped text does not end in "&".                                     *)
LEMMA NeverOpen ==
  ASSUME NEW W, Alphabet(W), NEW text \in Seq(W), NEW q \in Seq(W)
  PROVE  Partly(Escaped, text) # Append(q, "&")
<1> SUFFICES ASSUME Partly(Escaped, text) = Append(q, "&")
             PROVE  FALSE
  OBVIOUS
<1>1. CASE Len(text) = 0
  <2>1. text = <<>>
    BY <1>1
  <2>2. Append(q, "&") # <<>>
    OBVIOUS
  <2> QED
    BY <2>1, <2>2, PartlyEmpty
<1>2. CASE Len(text) # 0
  <2>1. PICK u \in Seq(W), c \in W : Shorter(W, text, u, c)
    BY <1>2, EscapedEnds
  <2> DEFINE p == Partly(Escaped, u)
             amp == "&"
  <2>2. p \in Seq(W) /\ amp \in W
    BY <2>1 DEF Shorter, Alphabet
  <2>3. EndsPlain(text, u, c) \/ \E e \in Escaped : EndsEscaped(text, u, c, e)
    BY <2>1, Zenon DEF Shorter
  <2>4. ASSUME EndsPlain(text, u, c)
        PROVE  FALSE
    <3>1. Append(p, c) = Append(q, amp) /\ \A e \in Escaped : Raw[e] # c
      BY <2>4 DEF EndsPlain
    <3> HIDE DEF p, amp
    <3>2. c = amp
      BY <2>2, <3>1, AppendsEqual
    <3> QED
      BY <3>1, <3>2, AmpersandEscaped DEF amp
  <2>5. ASSUME NEW e \in Escaped, EndsEscaped(text, u, c, e)
        PROVE  FALSE
    <3> DEFINE r == Append(p, amp)
    <3>1. Append(r, e) = Append(q, amp)
      BY <2>5 DEF EndsEscaped
    <3>2. r \in Seq(W)
      <4> HIDE DEF p, amp
      <4> QED
        BY <2>2
    <3> HIDE DEF p, amp, r
    <3>3. e = amp
      BY <3>1, <3>2, AppendsEqual
    <3> QED
      BY <3>3, EntitiesDiffer DEF amp, Escaped
  <2> QED
    BY <2>3, <2>4, <2>5
<1> QED
  BY <1>1, <1>2

(* Two texts with one escaped form are one.                                 *)
LEMMA EscapeOnce ==
  ASSUME NEW W, Alphabet(W), NEW text \in Seq(W), NEW other \in Seq(W), XmlAttr(text) = XmlAttr(other)
  PROVE  text = other
<1> DEFINE Once(t, u) == Partly(Escaped, t) = Partly(Escaped, u) => t = u
           N == {n \in Nat : \A t, u \in Seq(W) : Len(t) = n => Once(t, u)}
<1>0. "&" \in W
  BY DEF Alphabet
<1>1. ASSUME NEW t \in Seq(W), NEW v \in Seq(W), NEW d \in W, NEW u, Shorter(W, u, v, d), t = <<>>
      PROVE  Partly(Escaped, t) # Partly(Escaped, u)
  <2> DEFINE q == Partly(Escaped, v)
             amp == "&"
  <2>1. q \in Seq(W) /\ amp \in W /\ Partly(Escaped, t) = <<>>
    BY <1>0, <1>1, PartlyEmpty DEF Shorter
  <2>2. Partly(Escaped, u) = Append(q, d) \/ \E e \in Escaped : Partly(Escaped, u) = Append(Append(q, amp), e)
    BY <1>1, Zenon DEF Shorter, EndsPlain, EndsEscaped
  <2> HIDE DEF q, amp
  <2>3. Append(q, amp) \in Seq(W)
    BY <2>1
  <2>5. \A e : Append(q, e) # <<>>
    BY <2>1, AppendFills
  <2>4. \A e : Append(Append(q, amp), e) # <<>>
    <3> DEFINE r == Append(q, amp)
    <3>1. r \in Seq(W)
      BY <2>3
    <3> HIDE DEF r
    <3>2. \A e : Append(r, e) # <<>>
      BY <3>1, AppendFills
    <3> QED
      BY <3>2 DEF r
  <2> QED
    BY <2>1, <2>2, <2>4, <2>5, Zenon
<1>2. \A t \in Seq(W) : Len(t) = 0 => t = <<>>
  OBVIOUS
<1>3. 0 \in N
  <2> SUFFICES ASSUME NEW t \in Seq(W), NEW u \in Seq(W), Len(t) = 0, Partly(Escaped, t) = Partly(Escaped, u)
               PROVE  t = u
    OBVIOUS
  <2>1. CASE Len(u) = 0
    BY <1>2, <2>1
  <2>2. CASE Len(u) # 0
    BY <1>1, <1>2, <2>2, EscapedEnds
  <2> QED
    BY <2>1, <2>2
<1> HIDE DEF N, Once
<1>4. ASSUME NEW n \in Nat, n \in N
      PROVE  n + 1 \in N
  <2>1. SUFFICES ASSUME NEW t \in Seq(W), NEW u \in Seq(W), Len(t) = n + 1,
                        Partly(Escaped, t) = Partly(Escaped, u)
                 PROVE  t = u
    BY DEF N, Once
  <2>2. Len(u) # 0
    <3>1. Len(t) # 0
      BY <2>1
    <3>2. PICK v \in Seq(W), d \in W : Shorter(W, t, v, d)
      BY <3>1, EscapedEnds
    <3>3. Len(u) = 0 => u = <<>>
      BY <1>2
    <3> QED
      BY <1>1, <2>1, <3>2, <3>3
  <2>3. PICK r \in Seq(W), c \in W : Shorter(W, t, r, c)
    <3>1. Len(t) # 0
      BY <2>1
    <3> QED
      BY <3>1, EscapedEnds
  <2>4. PICK s \in Seq(W), d \in W : Shorter(W, u, s, d)
    BY <2>2, EscapedEnds
  <2> DEFINE p == Partly(Escaped, r)
             q == Partly(Escaped, s)
             amp == "&"
  <2>5. p \in Seq(W) /\ q \in Seq(W) /\ Append(p, amp) \in Seq(W) /\ Append(q, amp) \in Seq(W)
    <3>1. p \in Seq(W) /\ q \in Seq(W) /\ amp \in W
      BY <1>0, <2>3, <2>4 DEF Shorter
    <3> HIDE DEF p, q, amp
    <3> QED
      BY <3>1
  <2>6. \A x, y \in Seq(W) : \A a, b : Append(x, a) = Append(y, b) => x = y /\ a = b
    BY AppendsEqual
  <2>7. p # Append(q, amp) /\ q # Append(p, amp)
    BY <2>5, NeverOpen
  <2>8. p = q => r = s
    <3>1. Len(r) = n
      BY <2>1, <2>3 DEF Shorter
    <3> QED
      BY <1>4, <3>1 DEF N, Once
  <2>9. p = q /\ c = d
    <3>1. /\ Partly(Escaped, t) = Append(p, c) \/ \E e \in Escaped : Raw[e] = c /\ Partly(Escaped, t) = Append(Append(p, amp), e)
          /\ Partly(Escaped, u) = Append(q, d) \/ \E e \in Escaped : Raw[e] = d /\ Partly(Escaped, u) = Append(Append(q, amp), e)
      BY <2>3, <2>4, Zenon DEF Shorter, EndsPlain, EndsEscaped
    <3> HIDE DEF p, q, amp
    <3>2. CASE Partly(Escaped, t) = Append(p, c) /\ Partly(Escaped, u) = Append(q, d)
      <4>1. LastIs(Partly(Escaped, t), p, c) /\ LastIs(Partly(Escaped, t), q, d)
        BY <2>1, <3>2, Zenon DEF LastIs
      <4> QED
        BY <2>5, <4>1, LastsEqual, Zenon
    <3>3. ASSUME NEW e, Partly(Escaped, t) = Append(p, c), Partly(Escaped, u) = Append(Append(q, amp), e)
          PROVE  FALSE
      BY <2>1, <2>5, <2>6, <2>7, <3>3, Zenon
    <3>4. ASSUME NEW e, Partly(Escaped, u) = Append(q, d), Partly(Escaped, t) = Append(Append(p, amp), e)
          PROVE  FALSE
      BY <2>1, <2>5, <2>6, <2>7, <3>4, Zenon
    <3>5. ASSUME NEW e, NEW f, Raw[e] = c, Raw[f] = d,
                 Partly(Escaped, t) = Append(Append(p, amp), e), Partly(Escaped, u) = Append(Append(q, amp), f)
          PROVE  p = q /\ c = d
      <4> DEFINE x == Append(p, amp)
                 y == Append(q, amp)
      <4>3. /\ LastIs(Partly(Escaped, t), x, e) /\ LastIs(Partly(Escaped, t), y, f)
            /\ x \in Seq(W) /\ y \in Seq(W)
        BY <2>1, <2>5, <3>5, Zenon DEF LastIs
      <4> HIDE DEF x, y
      <4>4. x = y /\ e = f
        BY <4>3, LastsEqual, Zenon
      <4>1. Append(p, amp) = Append(q, amp) /\ e = f
        BY <4>4, Zenon DEF x, y
      <4>5. LastIs(Append(p, amp), p, amp) /\ LastIs(Append(p, amp), q, amp)
        BY <4>1, Zenon DEF LastIs
      <4>2. p = q
        BY <2>5, <4>5, LastsEqual, Zenon
      <4> QED
        BY <3>5, <4>1, <4>2
    <3> QED
      BY <3>1, <3>2, <3>3, <3>4, <3>5, Zenon
  <2> QED
    BY <2>3, <2>4, <2>8, <2>9 DEF Shorter
<1>5. Len(text) \in N
  <2>1. \A n \in Nat : n \in N
    BY <1>3, <1>4, NatSetInduction
  <2> QED
    BY <2>1
<1>6. Partly(Escaped, text) = Partly(Escaped, other)
  BY XmlAttrIs, Zenon
<1> QED
  BY <1>5, <1>6 DEF N, Once

(* What is true of sequences over an alphabet is true of lists.             *)
LEMMA ListsIn ==
  ASSUME NEW t, NEW u, IsList(t), IsList(u)
  PROVE  \E W : Alphabet(W) /\ t \in Seq(W) /\ u \in Seq(W)
<1>1. PICK X : t \in Seq(X)
  BY ListIsSeq
<1>2. PICK Y : u \in Seq(Y)
  BY ListIsSeq
<1> DEFINE A == DOMAIN Raw \cup {Raw[e] : e \in DOMAIN Raw} \cup {"&"}
           W == A \cup X \cup Y
<1>3. Alphabet(W)
  BY Zenon DEF Alphabet
<1> HIDE DEF A
<1>4. t \in Seq(W) /\ u \in Seq(W)
  BY <1>1, <1>2
<1> QED
  BY <1>3, <1>4

LEMMA ListsEscapeOnce ==
  ASSUME NEW t, NEW u, IsList(t), IsList(u), XmlAttr(t) = XmlAttr(u)
  PROVE  t = u
BY ListsIn, EscapeOnce

LEMMA ListsComeBack ==
  ASSUME NEW t, IsList(t), Range(t) \cap Range(Entities) = {}
  PROVE  XmlUnescape(XmlAttr(t)) = t
BY ListsIn, RoundTrip

(* The names of the job's parser are those the tool has written.            *)
LEMMA NameReadBack ==
  ASSUME NEW n \in DOMAIN Spelling
  PROVE  NameRead(XmlAttr(Spelling[n])) = n
<1> DEFINE text == XmlAttr(Spelling[n])
           names == {m \in DOMAIN Spelling : XmlAttr(Spelling[m]) = text}
<1>1. \A m \in names : m = n
  BY SpellingAssumption, ListsEscapeOnce
<1>2. n \in names
  OBVIOUS
<1>3. NameRead(text) = IF names = {} THEN <<"?">> ELSE CHOOSE m \in names : TRUE
  BY Zenon DEF NameRead
<1> HIDE DEF names
<1> QED
  BY <1>1, <1>2, <1>3

(* A name that is only cut to ASCII is a list, and one of ASCII is itself.  *)
LEMMA LabelNames ==
  ASSUME NEW n \in DOMAIN Spelling
  PROVE  /\ IsList(Spelling[n]) /\ IsList(LabelName(n))
         /\ Range(Spelling[n]) \cap NonAscii = {} => LabelName(n) = Spelling[n]
<1> DEFINE s == Spelling[n]
           char(i) == IF s[i] \in NonAscii THEN "?" ELSE s[i]
           k == Len(s)
           t == [i \in DOMAIN s |-> char(i)]
<1>1. IsList(s)
  BY SpellingAssumption
<1>2. LabelName(n) = t
  BY Zenon DEF LabelName
<1>3. k \in Nat /\ s = [i \in 1 .. k |-> s[i]] /\ DOMAIN s = 1 .. k
  BY <1>1, ListIsSeq DEF IsList
<1>4. ASSUME Range(s) \cap NonAscii = {}
      PROVE  t = s
  <2>1. \A i \in DOMAIN s : s[i] \in Range(s)
    BY Zenon DEF Range
  <2>2. \A i \in DOMAIN s : char(i) = s[i]
    BY <1>4, <2>1
  <2> QED
    BY <1>3, <2>2
<1>5. IsList(t)
  <2> DEFINE V == {char(i) : i \in 1 .. k}
  <2>1. \A i \in 1 .. k : char(i) \in V
    OBVIOUS
  <2> HIDE DEF V, char, s
  <2>2. t = [i \in 1 .. k |-> char(i)]
    BY <1>3
  <2>3. t \in Seq(V) /\ Len(t) = k
    BY <1>3, <2>1, <2>2
  <2> QED
    BY <1>3, <2>2, <2>3 DEF IsList
<1> QED
  BY <1>1, <1>2, <1>4, <1>5

(* The labels the tool visits, and the keys it collects there.              *)
LEMMA VisitsGoOn ==
  ASSUME NEW d, DocForm(d)
  PROVE  /\ Visited(d) \subseteq DOMAIN d.labels
         /\ \A i \in DOMAIN d.free : d.free[i] \in Visited(d)
         /\ \A l \in Visited(d) : d.labels[l].kind = "assembly" =>
              \A i \in DOMAIN d.labels[l].comps : d.labels[l].comps[i].ref \in Visited(d) \cup {""}
<1>1. \A i \in DOMAIN d.free : d.free[i] \in DOMAIN d.labels
  <2> DEFINE L == DOMAIN d.labels
             free == d.free
  <2>1. free \in Seq(L)
    BY DEF DocForm
  <2> HIDE DEF L, free
  <2>2. \A i \in DOMAIN free : free[i] \in L
    BY <2>1
  <2> QED
    BY <2>2 DEF L, free
<1>2. \A l \in DOMAIN d.labels : \A i \in DOMAIN d.labels[l].comps :
        d.labels[l].comps[i].ref \in DOMAIN d.labels \cup {""}
  BY DEF DocForm
<1> QED
  BY <1>1, <1>2 DEF Visited, Closed

(* Every collected text is a list.                                          *)
LEMMA KeyTexts ==
  ASSUME NEW material \in DOMAIN Spelling \cup {NoName}, NEW name \in DOMAIN Spelling \cup {NoName}
  PROVE  \A t \in KeyText(material, name) : IsList(t)
BY LabelNames DEF KeyText

LEMMA CollectedTexts ==
  ASSUME NEW path \in DOMAIN Documents, NEW t \in CollectMaterials(Documents[path])
  PROVE  IsList(t)
<1> DEFINE d == Documents[path]
<1>1. PICK l \in Visited(d) : t \in LabelKeys(d.labels[l])
  BY DEF CollectMaterials
<1>2. l \in DOMAIN d.labels
  BY <1>1 DEF Visited
<1> DEFINE label == d.labels[l]
<1>3. /\ label.name \in DOMAIN Spelling \cup {NoName} /\ label.material \in DOMAIN Spelling \cup {NoName}
      /\ \A i \in DOMAIN label.comps :
           label.comps[i].ref = "" =>
             {label.comps[i].name, label.comps[i].material} \subseteq DOMAIN Spelling \cup {NoName}
  BY <1>2, SpellingAssumption
<1> HIDE DEF label, d
<1>4. CASE label.kind = "assembly"
  <2>1. PICK i \in DOMAIN label.comps :
          label.comps[i].ref = "" /\ t \in KeyText(label.comps[i].material, label.comps[i].name)
    BY <1>1, <1>4 DEF LabelKeys, Unreferred, label
  <2>2. /\ label.comps[i].name \in DOMAIN Spelling \cup {NoName}
        /\ label.comps[i].material \in DOMAIN Spelling \cup {NoName}
    BY <1>3, <2>1
  <2> QED
    BY <2>1, <2>2, KeyTexts
<1>5. CASE label.kind # "assembly"
  <2>1. t \in KeyText(label.material, label.name)
    BY <1>1, <1>5 DEF LabelKeys, label
  <2> QED
    BY <1>3, <2>1, KeyTexts
<1> QED
  BY <1>4, <1>5

(* The key of a simple shape is collected as it is spelled.                 *)
LEMMA KeyCollected ==
  ASSUME NEW path \in DOMAIN Documents, Plain(Documents[path]), NEW l \in Visited(Documents[path]),
         Documents[path].labels[l].kind = "simple"
  PROVE  LET key == MaterialKey(Documents[path].labels[l])
         IN  /\ key # NoName /\ key \in DOMAIN Spelling
             /\ Spelling[key] \in CollectMaterials(Documents[path])
<1> DEFINE d == Documents[path]
           label == d.labels[l]
           key == MaterialKey(label)
<1>1. l \in DOMAIN d.labels
  BY DEF Visited
<1>2. label.name \in DOMAIN Spelling \cup {NoName} /\ label.material \in DOMAIN Spelling \cup {NoName}
  BY <1>1, SpellingAssumption
<1>3. /\ label.name # NoName => Range(Spelling[label.name]) \cap NonAscii = {}
      /\ label.name # NoName \/ label.material # NoName
  BY <1>1 DEF Plain
<1>4. key # NoName /\ key \in DOMAIN Spelling
  BY <1>2, <1>3 DEF MaterialKey
<1>5. Spelling[key] \in LabelKeys(label)
  <2>1. LabelKeys(label) = KeyText(label.material, label.name)
    BY DEF LabelKeys
  <2> HIDE DEF label
  <2>2. CASE label.material # NoName
    BY <2>1, <2>2 DEF KeyText, MaterialKey
  <2>3. CASE label.material = NoName
    <3>1. label.name # NoName /\ label.name \in DOMAIN Spelling /\ key = label.name
      BY <1>2, <1>3, <2>3 DEF MaterialKey
    <3>2. LabelName(label.name) = Spelling[label.name]
      BY <1>3, <3>1, LabelNames
    <3> QED
      BY <2>1, <2>3, <3>1, <3>2 DEF KeyText
  <2> QED
    BY <2>2, <2>3
<1>6. Spelling[key] \in CollectMaterials(d)
  BY <1>5 DEF CollectMaterials
<1> QED
  BY <1>4, <1>6

-----------------------------------------------------------------------------
(* The files of the tool. *)

(* What the tool writes has an entry for each key it has collected.         *)
EntryForm(x) == x = [text |-> x.text, material |-> x.material] /\ x.material # ""

FileForm(f) ==
  /\ f = [step |-> f.step, entries |-> f.entries]
  /\ f.step \in DOMAIN Documents
  /\ \A x \in f.entries : EntryForm(x)
  /\ \A x, y \in f.entries : x.text = y.text => x = y
  /\ \A t \in CollectMaterials(Documents[f.step]) : \E x \in f.entries : x.text = XmlAttr(t)

FilesInv ==
  /\ files = [p \in DOMAIN files |-> files[p]]
  /\ \A p \in DOMAIN files : p # "" /\ FileForm(files[p])

(* The locals of main() once the STEP file is read.                         *)
HasRead ==
  /\ tool.step \in DOMAIN Documents
  /\ tool.compactOut # "" /\ tool.materialOut # ""
  /\ tool.names = CollectMaterials(Documents[tool.step])
  /\ \A t \in DOMAIN tool.known : tool.known[t] \notin {"", TODO}

EntryOf(t, m) == [text |-> XmlAttr(t), material |-> m]

(* What the tool knows is what its existing map has filled in.              *)
KnowsFilled ==
  \A t \in tool.names : Unmistaken(t) =>
    /\ \A x \in tool.given : FilledFor(t, x) /\ NoEntity(t) =>
         t \in DOMAIN tool.known /\ x = EntryOf(t, tool.known[t])
    /\ t \in DOMAIN tool.known => EntryOf(t, tool.known[t]) \in tool.given

HoldsKnown(entries) ==
  \A t \in tool.names : t \in DOMAIN tool.known => EntryOf(t, tool.known[t]) \in entries

(* The files already written have what the tool knows.                      *)
FilesKept ==
  /\ phase = "writeCompact" =>
       tool.materialOut \in DOMAIN files /\ files[tool.materialOut].entries = Entries
  /\ phase = "written" =>
       \A out \in {tool.materialOut, tool.compactOut} :
         out \in DOMAIN files /\ HoldsKnown(files[out].entries)

Locals(t) ==
  t = [args |-> t.args, step |-> t.step, compactOut |-> t.compactOut, materialOut |-> t.materialOut,
       existing |-> t.existing, names |-> t.names, known |-> t.known, given |-> t.given,
       run |-> t.run]

ToolForm == Locals(tool) /\ tool.run \in Nat /\ (phase \in ToolPhases => tool.run > 0)

ToolInv ==
  /\ ToolForm
  /\ phase \in {"writeMap", "writeCompact", "written"} => HasRead /\ KnowsFilled
  /\ FilesKept

(* Who else sees the tool's phases.                                         *)
LEMMA ToolAlone ==
  ASSUME [Next]_vars
  PROVE  \/ UNCHANGED toolVars /\ (UNCHANGED phase \/ phase' \notin ToolPhases)
         \/ ToolNext
<1> USE DEF ToolPhases
<1>1. CASE UNCHANGED vars
  BY <1>1 DEF vars, toolVars, processVars
<1>2. CASE AppNext
  <2>1. UNCHANGED toolVars
    BY <1>2 DEF AppNext
  <2>2. UNCHANGED phase \/ phase' \in {"dead", "exit", "construct", "commands"}
    BY <1>2 DEF AppNext, AppStep, ParseOption, ParseFile, ParseError, EndOfArguments, QueueCommand, Initialize,
       Quit, RecordCommand, BeamOn, Command, EventLoop, ReadNextMaterialFile, BuildNextSolid, MaterialsRead,
       ImportNextAssembly, SolidsBuilt, KeepAssembly, ImportFails, FinishConstruct, Die, processVars
  <2> QED
    BY <2>1, <2>2
<1>3. CASE PluginNext
  <2>1. UNCHANGED toolVars
    BY <1>3 DEF PluginNext
  <2>2. UNCHANGED phase \/ phase' \in {"dead", "exit", "user"}
    BY <1>3 DEF PluginNext, PluginStep, CreateStepAssembly, RegisterAssembly, PluginImportFails, CreateStepSolid,
       HandleSolid, ConstructGeo, Building, Apply, ApplyFile, Release, UserCall, ExitJob, Die, processVars
  <2> QED
    BY <2>1, <2>2
<1> QED
  BY <1>1, <1>2, <1>3 DEF Next, Over

(* The assignments of main().                                               *)
SetArgs(t, x) == [t EXCEPT !.args = x]

SetStep(t, x) == [t EXCEPT !.step = x]

SetPaths(t, x, y, z) == [t EXCEPT !.compactOut = x, !.materialOut = y, !.existing = z]

SetRead(t, w, x, g, y, z) ==
  [t EXCEPT !.names = w, !.known = x, !.given = g, !.compactOut = y, !.materialOut = z]

LEMMA ArgsSet ==
  ASSUME NEW t, Locals(t), NEW x
  PROVE  /\ Locals(SetArgs(t, x)) /\ SetArgs(t, x).run = t.run
         /\ Locals(SetStep(t, x)) /\ SetStep(t, x).run = t.run
<1>1. t = [args |-> t.args, step |-> t.step, compactOut |-> t.compactOut, materialOut |-> t.materialOut,
           existing |-> t.existing, names |-> t.names, known |-> t.known, given |-> t.given, run |-> t.run]
  BY DEF Locals
<1>2. Locals(SetArgs(t, x)) /\ SetArgs(t, x).run = t.run
  BY <1>1 DEF Locals, SetArgs
<1>3. Locals(SetStep(t, x)) /\ SetStep(t, x).run = t.run
  BY <1>1 DEF Locals, SetStep
<1> QED
  BY <1>2, <1>3

LEMMA PathsSet ==
  ASSUME NEW t, Locals(t), NEW x, NEW y, NEW z
  PROVE  Locals(SetPaths(t, x, y, z)) /\ SetPaths(t, x, y, z).run = t.run
<1> DEFINE q1 == [t EXCEPT !.compactOut = x]
           q2 == [q1 EXCEPT !.materialOut = y]
           q  == SetPaths(t, x, y, z)
<1>1. t = [args |-> t.args, step |-> t.step, compactOut |-> t.compactOut, materialOut |-> t.materialOut,
           existing |-> t.existing, names |-> t.names, known |-> t.known, given |-> t.given, run |-> t.run]
  BY DEF Locals
<1>2. q = [q2 EXCEPT !.existing = z]
  BY <1>1 DEF SetPaths
<1>3. q1 = [args |-> t.args, step |-> t.step, compactOut |-> x, materialOut |-> t.materialOut,
            existing |-> t.existing, names |-> t.names, known |-> t.known, given |-> t.given, run |-> t.run]
  BY <1>1
<1> HIDE DEF q1
<1>4. q2 = [args |-> t.args, step |-> t.step, compactOut |-> x, materialOut |-> y,
            existing |-> t.existing, names |-> t.names, known |-> t.known, given |-> t.given, run |-> t.run]
  BY <1>3
<1> HIDE DEF q2, q
<1>5. q = [args |-> t.args, step |-> t.step, compactOut |-> x, materialOut |-> y,
           existing |-> z, names |-> t.names, known |-> t.known, given |-> t.given, run |-> t.run]
  BY <1>2, <1>4
<1>6. Locals(q) /\ q.run = t.run
  BY <1>5 DEF Locals
<1> QED
  BY <1>6 DEF q

LEMMA ReadSet ==
  ASSUME NEW t, Locals(t), NEW w, NEW x, NEW g, NEW y, NEW z
  PROVE  LET q == SetRead(t, w, x, g, y, z)
         IN  /\ Locals(q) /\ q.step = t.step /\ q.existing = t.existing /\ q.run = t.run
             /\ q.names = w /\ q.known = x /\ q.given = g /\ q.compactOut = y /\ q.materialOut = z
<1> DEFINE q1 == [t EXCEPT !.names = w]
           q2 == [q1 EXCEPT !.known = x]
           q3 == [q2 EXCEPT !.given = g]
           q4 == [q3 EXCEPT !.compactOut = y]
           q  == SetRead(t, w, x, g, y, z)
<1>1. t = [args |-> t.args, step |-> t.step, compactOut |-> t.compactOut, materialOut |-> t.materialOut,
           existing |-> t.existing, names |-> t.names, known |-> t.known, given |-> t.given, run |-> t.run]
  BY DEF Locals
<1>2. q = [q4 EXCEPT !.materialOut = z]
  BY <1>1 DEF SetRead
<1>3. q1 = [args |-> t.args, step |-> t.step, compactOut |-> t.compactOut, materialOut |-> t.materialOut,
            existing |-> t.existing, names |-> w, known |-> t.known, given |-> t.given, run |-> t.run]
  BY <1>1
<1> HIDE DEF q1
<1>4. q2 = [args |-> t.args, step |-> t.step, compactOut |-> t.compactOut, materialOut |-> t.materialOut,
            existing |-> t.existing, names |-> w, known |-> x, given |-> t.given, run |-> t.run]
  BY <1>3
<1> HIDE DEF q2
<1>5. q3 = [args |-> t.args, step |-> t.step, compactOut |-> t.compactOut, materialOut |-> t.materialOut,
            existing |-> t.existing, names |-> w, known |-> x, given |-> g, run |-> t.run]
  BY <1>4
<1> HIDE DEF q3
<1>6. q4 = [args |-> t.args, step |-> t.step, compactOut |-> y, materialOut |-> t.materialOut,
            existing |-> t.existing, names |-> w, known |-> x, given |-> g, run |-> t.run]
  BY <1>5
<1> HIDE DEF q4, q
<1>7. q = [args |-> t.args, step |-> t.step, compactOut |-> y, materialOut |-> z,
           existing |-> t.existing, names |-> w, known |-> x, given |-> g, run |-> t.run]
  BY <1>2, <1>6
<1>8. /\ Locals(q) /\ q.step = t.step /\ q.existing = t.existing /\ q.run = t.run
      /\ q.names = w /\ q.known = x /\ q.given = g /\ q.compactOut = y /\ q.materialOut = z
  BY <1>7 DEF Locals
<1> QED
  BY <1>8 DEF q

(* The reading of the command line leaves the rest as it is.                *)
LEMMA Taken ==
  ASSUME ToolForm, ToolOption \/ ToolFile
  PROVE  ToolForm' /\ phase = "tool" /\ UNCHANGED phase /\ UNCHANGED files /\ tool'.run = tool.run
<1>1. Locals(tool) /\ tool.run \in Nat /\ (phase = "tool" => tool.run > 0)
  BY DEF ToolForm, ToolPhases
<1>2. CASE ToolOption
  <2> DEFINE given(name, old) == IF tool.args[1] = name THEN tool.args[2] ELSE old
             c == given("-o", tool.compactOut)
             m == given("-m", tool.materialOut)
             e == given("--existing-map", tool.existing)
             with == SetPaths(tool, c, m, e)
             tail == SubSeq(with.args, 2 + 1, Len(with.args))
  <2>1. tool' = SetArgs(with, tail)
    BY <1>2, Zenon DEF ToolOption, Takes, SetArgs, SetPaths
  <2> HIDE DEF c, m, e
  <2>2. Locals(with) /\ with.run = tool.run
    BY <1>1, PathsSet
  <2> HIDE DEF with, tail
  <2>3. Locals(tool') /\ tool'.run = tool.run
    BY <2>1, <2>2, ArgsSet
  <2>4. phase = "tool" /\ UNCHANGED phase /\ UNCHANGED files
    BY <1>2 DEF ToolOption, Arguments
  <2> QED
    BY <1>1, <2>3, <2>4 DEF ToolForm, Locals
<1>3. CASE ToolFile
  <2> DEFINE with == SetStep(tool, tool.args[1])
             tail == SubSeq(with.args, 1 + 1, Len(with.args))
  <2>1. tool' = SetArgs(with, tail)
    BY <1>3, Zenon DEF ToolFile, Takes, SetArgs, SetStep
  <2>2. Locals(with) /\ with.run = tool.run
    BY <1>1, ArgsSet
  <2> HIDE DEF with, tail
  <2>3. Locals(tool') /\ tool'.run = tool.run
    BY <2>1, <2>2, ArgsSet
  <2>4. phase = "tool" /\ UNCHANGED phase /\ UNCHANGED files
    BY <1>3 DEF ToolFile, Arguments
  <2> QED
    BY <1>1, <2>3, <2>4 DEF ToolForm, Locals
<1> QED
  BY <1>2, <1>3

(* What the tool knows of an existing map.                                  *)
LEMMA ExistingMap ==
  ASSUME NEW path, NEW known \in ReadExistingMap(path)
  PROVE  /\ \A t \in DOMAIN known :
              /\ path \in DOMAIN files
              /\ \E x \in FilledEntries(path) : XmlUnescape(x.text) = t /\ x.material = known[t]
         /\ path \in DOMAIN files =>
              \A x \in FilledEntries(path) : XmlUnescape(x.text) \in DOMAIN known
<1> DEFINE filled == FilledEntries(path)
           texts == {XmlUnescape(x.text) : x \in filled}
           materials == {x.material : x \in filled}
<1>1. CASE path \notin DOMAIN files
  <2>1. known = EmptyMap
    BY <1>1, Zenon DEF ReadExistingMap
  <2>2. DOMAIN known = {}
    BY <2>1 DEF EmptyMap
  <2> QED
    BY <1>1, <2>2
<1>2. CASE path \in DOMAIN files
  <2>1. /\ known \in [texts -> materials]
        /\ \A t \in DOMAIN known : \E x \in filled : XmlUnescape(x.text) = t /\ x.material = known[t]
    BY <1>2, Zenon DEF ReadExistingMap
  <2>2. DOMAIN known = texts
    BY <2>1
  <2>3. \A x \in filled : XmlUnescape(x.text) \in texts
    OBVIOUS
  <2> QED
    BY <1>2, <2>1, <2>2, <2>3, Zenon
<1> QED
  BY <1>1, <1>2

(* An entry with the text of a key.                                         *)
LEMMA EntryIs ==
  ASSUME NEW x, EntryForm(x), NEW t, x.text = XmlAttr(t), NEW m, x.material = m
  PROVE  x = EntryOf(t, m)
BY DEF EntryForm, EntryOf

(* For a key that is not mistaken, known and filled in are the same.        *)
LEMMA KnownIsFilled ==
  ASSUME FilesInv, NEW path, NEW known \in ReadExistingMap(path),
         NEW given, given = IF path \in DOMAIN files THEN files[path].entries ELSE {},
         NEW t, IsList(t), \A x \in given : XmlUnescape(x.text) = t => x.text = XmlAttr(t)
  PROVE  /\ \A x \in given : x.text = XmlAttr(t) /\ x.material # TODO /\ NoEntity(t) =>
              t \in DOMAIN known /\ x = EntryOf(t, known[t])
         /\ t \in DOMAIN known => EntryOf(t, known[t]) \in given
<1>1. path \in DOMAIN files => /\ \A x \in given : EntryForm(x)
                               /\ \A x, y \in given : x.text = y.text => x = y
                               /\ FilledEntries(path) \subseteq given
  BY DEF FilesInv, FileForm, FilledEntries
<1>2. ASSUME t \in DOMAIN known
      PROVE  \E y \in given : y = EntryOf(t, known[t]) /\ y.text = XmlAttr(t)
  <2>1. path \in DOMAIN files
    BY <1>2, ExistingMap
  <2>2. PICK y \in FilledEntries(path) : XmlUnescape(y.text) = t /\ y.material = known[t]
    BY <1>2, ExistingMap
  <2>3. y \in given /\ EntryForm(y)
    BY <1>1, <2>1, <2>2
  <2>4. y.text = XmlAttr(t)
    BY <2>2, <2>3
  <2> QED
    BY <2>2, <2>3, <2>4, EntryIs
<1>3. ASSUME NEW x \in given, x.text = XmlAttr(t), x.material # TODO, NoEntity(t)
      PROVE  t \in DOMAIN known /\ x = EntryOf(t, known[t])
  <2>1. path \in DOMAIN files /\ x \in files[path].entries
    BY <1>3
  <2>2. x.material # ""
    BY <1>1, <2>1 DEF EntryForm
  <2>3. x \in FilledEntries(path)
    BY <1>3, <2>1, <2>2 DEF FilledEntries
  <2>4. XmlUnescape(x.text) = t
    BY <1>3, ListsComeBack DEF NoEntity
  <2>5. t \in DOMAIN known
    BY <2>1, <2>3, <2>4, ExistingMap
  <2>6. PICK y \in given : y = EntryOf(t, known[t]) /\ y.text = XmlAttr(t)
    BY <1>2, <2>5
  <2>7. y = x
    BY <1>1, <1>3, <2>1, <2>6
  <2> QED
    BY <2>5, <2>6, <2>7
<1> QED
  BY <1>2, <1>3

(* The tool has read the STEP file, and the existing map if there is one.   *)
LEMMA ReadGives ==
  ASSUME ToolForm, ToolRead, FilesInv
  PROVE  /\ phase = "tool" /\ UNCHANGED files /\ tool'.run = tool.run
         /\ \/ phase' = "writeMap" /\ ToolForm' /\ HasRead' /\ KnowsFilled'
            \/ phase' = "dead" /\ ToolForm'
<1>0. phase = "tool" /\ UNCHANGED files
  BY DEF ToolRead, Arguments
<1> DEFINE opens == tool.step \in DOMAIN Documents /\ Documents[tool.step].opens = "ok"
           c == IF tool.compactOut = "" THEN Defaults[tool.step].compact ELSE tool.compactOut
           m == IF tool.materialOut = "" THEN Defaults[tool.step].map ELSE tool.materialOut
           ns == CollectMaterials(Documents[tool.step])
           g == GivenEntries
<1>1. ASSUME NEW k \in ReadExistingMap(tool.existing), opens, phase' = "writeMap",
             tool' = SetRead(tool, ns, k, g, c, m)
      PROVE  phase' = "writeMap" /\ ToolForm' /\ HasRead' /\ KnowsFilled' /\ tool'.run = tool.run
  <2>1. c # "" /\ m # "" /\ tool.step \in DOMAIN Documents
    BY <1>1, OutputAssumption
  <2>2. ASSUME NEW t \in DOMAIN k
        PROVE  k[t] \notin {"", TODO}
    <3>0. k \in ReadExistingMap(tool.existing) /\ t \in DOMAIN k
      BY <1>1, <2>2
    <3>1. PICK x \in FilledEntries(tool.existing) : XmlUnescape(x.text) = t /\ x.material = k[t]
      BY <3>0, ExistingMap, Zenon
    <3>2. x.material \notin {"", TODO}
      BY DEF FilledEntries
    <3> QED
      BY <3>1, <3>2, Zenon
  <2>3. ASSUME NEW t \in ns, \A x \in g : XmlUnescape(x.text) = t => x.text = XmlAttr(t)
        PROVE  /\ \A x \in g : x.text = XmlAttr(t) /\ x.material # TODO /\ NoEntity(t) =>
                    t \in DOMAIN k /\ x = EntryOf(t, k[t])
               /\ t \in DOMAIN k => EntryOf(t, k[t]) \in g
    <3>1. IsList(t)
      BY <2>1, <2>3, CollectedTexts
    <3>2. g = IF tool.existing \in DOMAIN files THEN files[tool.existing].entries ELSE {}
      BY DEF GivenEntries
    <3> QED
      BY <2>3, <3>1, <3>2, KnownIsFilled
  <2> HIDE DEF c, m, ns, g
  <2>5. /\ Locals(tool') /\ tool'.step = tool.step /\ tool'.compactOut = c /\ tool'.materialOut = m
        /\ tool'.existing = tool.existing /\ tool'.names = ns /\ tool'.known = k /\ tool'.given = g
        /\ tool'.run = tool.run
    BY <1>1, ReadSet DEF ToolForm
  <2>6. ToolForm'
    BY <1>0, <2>5 DEF ToolForm, ToolPhases, Locals
  <2>7. HasRead'
    BY <2>1, <2>2, <2>5 DEF HasRead, ns
  <2>8. KnowsFilled'
    BY <2>3, <2>5 DEF KnowsFilled, Unmistaken, FilledFor, EntryOf, NoEntity
  <2> QED
    BY <1>1, <2>5, <2>6, <2>7, <2>8
<1>2. CASE Die("step") /\ UNCHANGED tool
  BY <1>0, <1>2 DEF Die, ToolForm, ToolPhases
<1>3. \/ /\ opens /\ phase' = "writeMap"
         /\ \E k \in ReadExistingMap(tool.existing) : tool' = SetRead(tool, ns, k, g, c, m)
      \/ Die("step") /\ UNCHANGED tool
  BY Zenon DEF ToolRead, SetRead
<1> HIDE DEF opens, c, m, ns, g
<1> QED
  BY <1>0, <1>1, <1>2, <1>3

(* A file written under a path that is not empty.                           *)
LEMMA PutFile ==
  ASSUME FilesInv, NEW path, path # "", NEW f, FileForm(f), files' = Put(files, path, f)
  PROVE  /\ FilesInv' /\ path \in DOMAIN files' /\ files'[path] = f
         /\ \A p \in DOMAIN files : p \in DOMAIN files' /\ (p # path => files'[p] = files[p])
<1>1. files' = [p \in DOMAIN files \cup {path} |-> IF p = path THEN f ELSE files[p]]
  BY DEF Put
<1>2. files' = [p \in DOMAIN files' |-> files'[p]] /\ DOMAIN files' = DOMAIN files \cup {path}
  BY <1>1
<1>3. \A p \in DOMAIN files' : p # "" /\ FileForm(files'[p])
  BY <1>1, <1>2 DEF FilesInv
<1>4. \A p \in DOMAIN files' : p # "" /\ FileForm(files[p])'
  BY <1>3 DEF FileForm, EntryForm
<1>5. FilesInv'
  BY <1>2, <1>4 DEF FilesInv
<1>6. path \in DOMAIN files' /\ files'[path] = f
  BY <1>1, <1>2
<1>7. \A p \in DOMAIN files : p \in DOMAIN files' /\ (p # path => files'[p] = files[p])
  BY <1>1, <1>2
<1> QED
  BY <1>5, <1>6, <1>7

(* The entries have a material, a placeholder perhaps, for each key.        *)
LEMMA EntriesForm ==
  ASSUME HasRead
  PROVE  FileForm([step |-> tool.step, entries |-> Entries])
<1> DEFINE f == [step |-> tool.step, entries |-> Entries]
           entry(t) == [text |-> XmlAttr(t), material |-> Mapped(t)]
<1>1. f = [step |-> f.step, entries |-> f.entries] /\ f.step = tool.step /\ f.entries = Entries
  OBVIOUS
<1>2. \A t : Mapped(t) # ""
  BY DEF HasRead, Mapped, TODO
<1>3. \A t : EntryForm(entry(t)) /\ entry(t).text = XmlAttr(t)
  BY <1>2 DEF EntryForm
<1>4. Entries = {entry(t) : t \in tool.names}
  BY DEF Entries
<1>7. \A t \in tool.names : IsList(t)
  BY CollectedTexts DEF HasRead
<1> HIDE DEF entry, f
<1>5. \A x \in Entries : EntryForm(x)
  BY <1>3, <1>4
<1>6. \A t \in tool.names : \E x \in Entries : x.text = XmlAttr(t)
  BY <1>3, <1>4
<1>8. ASSUME NEW x \in Entries, NEW y \in Entries, x.text = y.text
      PROVE  x = y
  <2>1. PICK t \in tool.names : x = entry(t)
    BY <1>4
  <2>2. PICK u \in tool.names : y = entry(u)
    BY <1>4
  <2>3. XmlAttr(t) = XmlAttr(u)
    BY <1>3, <1>8, <2>1, <2>2
  <2>4. t = u
    BY <1>7, <2>3, ListsEscapeOnce
  <2> QED
    BY <2>1, <2>2, <2>4
<1> QED
  BY <1>1, <1>5, <1>6, <1>8 DEF FileForm, HasRead, f

(* They hold what the tool knows, and nothing else that is filled in.       *)
LEMMA EntriesHold ==
  ASSUME HasRead
  PROVE  /\ HoldsKnown(Entries)
         /\ \A t \in tool.names : \A x \in Entries :
              x.text = XmlAttr(t) /\ x.material # TODO =>
                t \in DOMAIN tool.known /\ x = EntryOf(t, tool.known[t])
<1>1. \A t \in tool.names : IsList(t)
  BY CollectedTexts DEF HasRead
<1>2. Entries = {EntryOf(t, Mapped(t)) : t \in tool.names}
  BY DEF Entries, EntryOf
<1>3. HoldsKnown(Entries)
  BY <1>2 DEF HoldsKnown, Mapped
<1>4. ASSUME NEW t \in tool.names, NEW x \in Entries, x.text = XmlAttr(t), x.material # TODO
      PROVE  t \in DOMAIN tool.known /\ x = EntryOf(t, tool.known[t])
  <2>1. PICK u \in tool.names : x = EntryOf(u, Mapped(u))
    BY <1>2
  <2>2. XmlAttr(u) = XmlAttr(t) /\ x.material = Mapped(u)
    BY <1>4, <2>1 DEF EntryOf
  <2>3. u = t
    BY <1>1, <2>2, ListsEscapeOnce
  <2> QED
    BY <1>4, <2>1, <2>2, <2>3 DEF Mapped
<1> QED
  BY <1>3, <1>4

(* A write that succeeds.                                                   *)
LEMMA WriteGives ==
  ASSUME FilesInv, HasRead, NEW now, NEW path, NEW next, path # "", ToolWrite(now, path, next)
  PROVE  /\ phase = now /\ UNCHANGED tool /\ FilesInv'
         /\ \/ /\ phase' = next /\ path \in DOMAIN files' /\ files'[path].entries = Entries
               /\ \A p \in DOMAIN files : p \in DOMAIN files' /\ (p # path => files'[p] = files[p])
            \/ phase' = "dead" /\ UNCHANGED files
<1> DEFINE f == [step |-> tool.step, entries |-> Entries]
<1>1. phase = now /\ UNCHANGED tool
  BY DEF ToolWrite
<1>2. CASE phase' = next /\ files' = Put(files, path, f)
  <2>1. FileForm(f) /\ f.entries = Entries
    BY EntriesForm
  <2> HIDE DEF f
  <2> QED
    BY <1>1, <1>2, <2>1, PutFile
<1>3. CASE Die("write") /\ UNCHANGED files
  BY <1>1, <1>3 DEF Die, FilesInv, FileForm, EntryForm
<1> QED
  BY <1>1, <1>2, <1>3 DEF ToolWrite

(* A placeholder that is filled in.                                         *)
Filled(x, m) == [x EXCEPT !.material = m]

LEMMA MaterialSet ==
  ASSUME NEW x, NEW t, NEW o, NEW m, x = [text |-> t, material |-> o]
  PROVE  Filled(x, m) = [text |-> t, material |-> m]
<1>1. [x EXCEPT !.material = m] = [text |-> t, material |-> m]
  OBVIOUS
<1> QED
  BY <1>1, Zenon DEF Filled

LEMMA EntryFilled ==
  ASSUME NEW x, EntryForm(x), NEW m, m # ""
  PROVE  EntryForm(Filled(x, m)) /\ Filled(x, m).text = x.text
<1>1. PICK t, o : x = [text |-> t, material |-> o]
  BY DEF EntryForm
<1> DEFINE q == Filled(x, m)
<1>3. q = [text |-> t, material |-> m]
  BY <1>1, MaterialSet, Zenon
<1> HIDE DEF q
<1>4. q.text = t /\ q.material = m /\ x.text = t
  BY <1>1, <1>3
<1>5. EntryForm(q)
  BY <1>3, <1>4, Zenon DEF EntryForm
<1> QED
  BY <1>4, <1>5, Zenon DEF q

LEMMA FillGives ==
  ASSUME FilesInv, NEW path \in DOMAIN files, NEW x \in Todos(path), NEW m \in Nist, FillIn(path, x, m)
  PROVE  /\ FilesInv' /\ DOMAIN files' = DOMAIN files
         /\ \A p \in DOMAIN files : \A y \in files[p].entries :
              y.material # TODO => y \in files'[p].entries
<1> DEFINE f == files[path]
           z == Filled(x, m)
           es == (f.entries \ {x}) \cup {z}
           g == [f EXCEPT !.entries = es]
<1>1. files' = [files EXCEPT ![path] = g]
  BY Zenon DEF FillIn, Filled
<1>2. m # ""
  BY OutputAssumption
<1>3. FileForm(f)
  BY DEF FilesInv
<1>4. x \in f.entries /\ x.material = TODO
  BY DEF Todos
<1>5. EntryForm(z) /\ z.text = x.text /\ \A y \in f.entries : EntryForm(y)
  BY <1>2, <1>3, <1>4, EntryFilled DEF FileForm
<1>k. \A y, v \in f.entries : y.text = v.text => y = v
  BY <1>3 DEF FileForm
<1> HIDE DEF f, z
<1>6. \A y \in es : EntryForm(y)
  BY <1>5
<1>7. \A y \in f.entries : \E v \in es : v.text = y.text
  BY <1>5
<1>n. \A y, v \in es : y.text = v.text => y = v
  BY <1>4, <1>5, <1>k
<1>o. \A y \in f.entries : y.material # TODO => y \in es
  BY <1>4
<1> HIDE DEF es
<1>8. g = [step |-> f.step, entries |-> es]
  BY <1>3 DEF FileForm
<1>9. g = [step |-> g.step, entries |-> g.entries] /\ g.step = f.step /\ g.entries = es
  BY <1>8
<1> HIDE DEF g
<1>10. FileForm(g)
  BY <1>3, <1>6, <1>7, <1>9, <1>n DEF FileForm
<1>11. files' = [p \in DOMAIN files |-> IF p = path THEN g ELSE files[p]]
  BY <1>1 DEF FilesInv
<1>12. DOMAIN files' = DOMAIN files /\ files' = [p \in DOMAIN files' |-> files'[p]]
  BY <1>11
<1>13. \A p \in DOMAIN files' : p # "" /\ FileForm(files'[p])
  BY <1>10, <1>11, <1>12 DEF FilesInv
<1>14. \A p \in DOMAIN files : \A y \in files[p].entries : y.material # TODO => y \in files'[p].entries
  BY <1>9, <1>11, <1>o DEF f
<1> QED
  BY <1>12, <1>13, <1>14 DEF FilesInv, FileForm, EntryForm

(* What the steps of the tool and its user leave.                           *)
LEMMA ToolInvInit == Init => ToolInv /\ FilesInv
<1> SUFFICES ASSUME Init PROVE ToolInv /\ FilesInv
  OBVIOUS
<1>1. PICK line, run : /\ tool = NewTool(line, run) /\ files = EmptyMap /\ run \in {0, 1}
                       /\ phase \in {"parse", "compact", "tool"} /\ (phase = "tool" => run = 1)
  BY DEF Init, Starts, ToolInit
<1>2. Locals(tool) /\ tool.run = run
  BY <1>1 DEF NewTool, Locals
<1>3. FilesInv
  BY <1>1 DEF FilesInv, EmptyMap
<1> HIDE DEF Init
<1> QED
  BY <1>1, <1>2, <1>3 DEF ToolInv, ToolForm, ToolPhases, FilesKept

LEMMA KnownAsBefore ==
  ASSUME UNCHANGED tool
  PROVE  /\ (HasRead' <=> HasRead) /\ (KnowsFilled' <=> KnowsFilled)
         /\ UNCHANGED <<files, phase>> => (FilesKept' <=> FilesKept)
         /\ Entries' = Entries /\ \A es : HoldsKnown(es)' <=> HoldsKnown(es)
<1>1. HasRead' <=> HasRead
  BY DEF HasRead
<1>2. KnowsFilled' <=> KnowsFilled
  BY DEF KnowsFilled, Unmistaken, FilledFor
<1>3. Entries' = Entries
  BY DEF Entries, Mapped
<1>4. \A es : HoldsKnown(es)' <=> HoldsKnown(es)
  BY DEF HoldsKnown
<1>5. UNCHANGED <<files, phase>> => (FilesKept' <=> FilesKept)
  BY <1>3 DEF FilesKept, HoldsKnown
<1> QED
  BY <1>1, <1>2, <1>3, <1>4, <1>5

(* All of it again, once for each operation.                                *)
LEMMA ToolInvStep ==
  ASSUME ToolInv, FilesInv, [Next]_vars
  PROVE  /\ ToolInv' /\ FilesInv'
         /\ UNCHANGED tool \/ tool'.run = tool.run \/ (phase = "written" /\ tool'.run > 0)
<1>1. CASE UNCHANGED toolVars /\ (UNCHANGED phase \/ phase' \notin ToolPhases)
  <2>1. UNCHANGED <<tool, files>>
    BY <1>1 DEF toolVars
  <2>2. FilesInv'
    BY <2>1 DEF FilesInv, FileForm, EntryForm
  <2>3. ToolForm'
    BY <1>1, <2>1 DEF ToolInv, ToolForm, Locals
  <2>4. CASE UNCHANGED phase
    <3>1. (HasRead' <=> HasRead) /\ (KnowsFilled' <=> KnowsFilled) /\ (FilesKept' <=> FilesKept)
      BY <2>1, <2>4, KnownAsBefore
    <3> QED
      BY <2>1, <2>2, <2>3, <2>4, <3>1 DEF ToolInv
  <2>5. CASE phase' \notin ToolPhases
    BY <2>1, <2>2, <2>3, <2>5 DEF ToolInv, ToolPhases, FilesKept
  <2> QED
    BY <1>1, <2>4, <2>5
<1>2. CASE ToolNext
  <2>0. ToolForm /\ Locals(tool) /\ tool.run \in Nat /\ (phase \in ToolPhases => tool.run > 0)
    BY DEF ToolInv, ToolForm
  <2>1. CASE ToolOption \/ ToolFile
    <3>1. ToolForm' /\ phase = "tool" /\ UNCHANGED <<phase, files>> /\ tool'.run = tool.run
      BY <2>0, <2>1, Taken
    <3>2. FilesInv'
      BY <3>1 DEF FilesInv, FileForm, EntryForm
    <3> QED
      BY <3>1, <3>2 DEF ToolInv, FilesKept
  <2>2. CASE ToolHelp \/ ToolUsage
    <3>1. UNCHANGED <<tool, files>> /\ phase' \in {"exit", "dead"}
      BY <2>2 DEF ToolHelp, ToolUsage, Arguments, Die
    <3>2. FilesInv'
      BY <3>1 DEF FilesInv, FileForm, EntryForm
    <3>3. ToolForm'
      BY <2>0, <3>1 DEF ToolForm, Locals, ToolPhases
    <3> QED
      BY <3>1, <3>2, <3>3 DEF ToolInv, FilesKept
  <2>3. CASE ToolRead
    <3>1. /\ UNCHANGED files /\ tool'.run = tool.run
          /\ \/ phase' = "writeMap" /\ ToolForm' /\ HasRead' /\ KnowsFilled'
             \/ phase' = "dead" /\ ToolForm'
      BY <2>0, <2>3, ReadGives
    <3>2. FilesInv'
      BY <3>1 DEF FilesInv, FileForm, EntryForm
    <3> QED
      BY <3>1, <3>2 DEF ToolInv, FilesKept
  <2>4. CASE WriteMaterialMap
    <3>0. phase = "writeMap" /\ ToolWrite("writeMap", tool.materialOut, "writeCompact")
      BY <2>4 DEF WriteMaterialMap, ToolWrite
    <3>1. HasRead /\ KnowsFilled /\ tool.materialOut # ""
      BY <3>0 DEF ToolInv, HasRead
    <3>2. /\ UNCHANGED tool /\ FilesInv'
          /\ \/ /\ phase' = "writeCompact"
                /\ tool.materialOut \in DOMAIN files' /\ files'[tool.materialOut].entries = Entries
             \/ phase' = "dead"
      BY <3>0, <3>1, WriteGives
    <3>3. HasRead' /\ KnowsFilled' /\ Entries' = Entries
      BY <3>1, <3>2, KnownAsBefore
    <3>4. ToolForm'
      BY <2>0, <3>0, <3>2 DEF ToolForm, Locals, ToolPhases
    <3>5. FilesKept'
      BY <3>2, <3>3 DEF FilesKept
    <3> QED
      BY <3>2, <3>3, <3>4, <3>5 DEF ToolInv
  <2>5. CASE WriteCompact
    <3>0. phase = "writeCompact" /\ ToolWrite("writeCompact", tool.compactOut, "written")
      BY <2>5 DEF WriteCompact, ToolWrite
    <3>1. HasRead /\ KnowsFilled /\ FilesKept /\ tool.compactOut # ""
      BY <3>0 DEF ToolInv, HasRead
    <3>2. /\ UNCHANGED tool /\ FilesInv'
          /\ \/ /\ phase' = "written"
                /\ tool.compactOut \in DOMAIN files' /\ files'[tool.compactOut].entries = Entries
                /\ \A p \in DOMAIN files : /\ p \in DOMAIN files'
                                           /\ p # tool.compactOut => files'[p] = files[p]
             \/ phase' = "dead"
      <4> DEFINE path == tool.compactOut
      <4>1. FilesInv /\ HasRead /\ path # "" /\ ToolWrite("writeCompact", path, "written")
        BY <3>0, <3>1
      <4> HIDE DEF path
      <4>2. /\ UNCHANGED tool /\ FilesInv'
            /\ \/ /\ phase' = "written" /\ path \in DOMAIN files' /\ files'[path].entries = Entries
                  /\ \A p \in DOMAIN files : p \in DOMAIN files' /\ (p # path => files'[p] = files[p])
               \/ phase' = "dead"
        BY <4>1, WriteGives
      <4> QED
        BY <4>2 DEF path
    <3>3. HasRead' /\ KnowsFilled' /\ \A es : HoldsKnown(es)' <=> HoldsKnown(es)
      BY <3>1, <3>2, KnownAsBefore
    <3>4. ToolForm'
      BY <2>0, <3>0, <3>2 DEF ToolForm, Locals, ToolPhases
    <3>5. tool.materialOut \in DOMAIN files /\ files[tool.materialOut].entries = Entries
      BY <3>0, <3>1 DEF FilesKept
    <3>6. HoldsKnown(Entries)
      BY <3>1, EntriesHold
    <3>7. phase' = "written" =>
            \A out \in {tool.materialOut, tool.compactOut} :
              out \in DOMAIN files' /\ files'[out].entries = Entries
      BY <3>2, <3>5
    <3>8. FilesKept'
      BY <3>2, <3>6, <3>7 DEF FilesKept, HoldsKnown
    <3> QED
      BY <3>2, <3>3, <3>4, <3>8 DEF ToolInv
  <2>6. ASSUME NEW path \in DOMAIN files, NEW x \in Todos(path), NEW material \in Nist,
               FillIn(path, x, material)
        PROVE  /\ ToolInv' /\ FilesInv' /\ UNCHANGED tool
    <3>1. UNCHANGED <<tool, phase>> /\ phase = "written"
      BY <2>6 DEF FillIn, processVars
    <3>2. /\ FilesInv' /\ DOMAIN files' = DOMAIN files
          /\ \A p \in DOMAIN files : \A y \in files[p].entries :
               y.material # TODO => y \in files'[p].entries
      BY <2>6, FillGives
    <3>3. HasRead /\ KnowsFilled /\ FilesKept /\ HasRead' /\ KnowsFilled'
      BY <3>1, KnownAsBefore DEF ToolInv
    <3>4. ToolForm'
      BY <2>0, <3>1 DEF ToolForm, Locals
    <3>5. ASSUME NEW out \in DOMAIN files, HoldsKnown(files[out].entries)
          PROVE  HoldsKnown(files'[out].entries)
      <4>1. ASSUME NEW t \in tool.names, t \in DOMAIN tool.known
            PROVE  EntryOf(t, tool.known[t]) \in files'[out].entries
        <5>1. EntryOf(t, tool.known[t]) \in files[out].entries
          BY <3>5, <4>1 DEF HoldsKnown
        <5>2. EntryOf(t, tool.known[t]).material # TODO
          BY <3>3, <4>1 DEF EntryOf, HasRead
        <5> QED
          BY <3>2, <5>1, <5>2
      <4> QED
        BY <4>1 DEF HoldsKnown
    <3>6. FilesKept'
      <4>1. \A out \in {tool.materialOut, tool.compactOut} :
              out \in DOMAIN files /\ HoldsKnown(files[out].entries)
        BY <3>1, <3>3 DEF FilesKept
      <4>2. \A out \in {tool.materialOut, tool.compactOut} :
              out \in DOMAIN files' /\ HoldsKnown(files'[out].entries)
        BY <3>2, <3>5, <4>1
      <4> QED
        BY <3>1, <4>2 DEF FilesKept, HoldsKnown
    <3> QED
      BY <3>1, <3>2, <3>3, <3>4, <3>6 DEF ToolInv
  <2>7. ASSUME NEW line \in ToolLines, RunToolAgain(line)
        PROVE  ToolInv' /\ FilesInv' /\ phase = "written" /\ tool'.run > 0
    <3>1. tool' = NewTool(line, tool.run + 1) /\ phase' = "tool" /\ UNCHANGED files /\ phase = "written"
      BY <2>7 DEF RunToolAgain
    <3>2. Locals(tool') /\ tool'.run = tool.run + 1
      BY <3>1 DEF NewTool, Locals
    <3>3. tool.run + 1 \in Nat /\ tool.run + 1 > 0
      BY <2>0
    <3>4. FilesInv'
      BY <3>1 DEF FilesInv, FileForm, EntryForm
    <3>5. ToolForm'
      BY <3>2, <3>3 DEF ToolForm, Locals
    <3> QED
      BY <3>1, <3>2, <3>3, <3>4, <3>5 DEF ToolInv, FilesKept
  <2>8. CASE StartJob
    <3>1. UNCHANGED <<tool, files>> /\ phase' = "compact"
      BY <2>8 DEF StartJob, toolVars
    <3>2. FilesInv'
      BY <3>1 DEF FilesInv, FileForm, EntryForm
    <3>3. ToolForm'
      BY <2>0, <3>1 DEF ToolForm, Locals, ToolPhases
    <3> QED
      BY <3>1, <3>2, <3>3 DEF ToolInv, FilesKept
  <2>9. \/ ToolOption \/ ToolFile \/ ToolHelp \/ ToolUsage \/ ToolRead
        \/ WriteMaterialMap \/ WriteCompact
        \/ \E path \in DOMAIN files : \E x \in Todos(path), material \in Nist :
             FillIn(path, x, material)
        \/ \E line \in ToolLines : RunToolAgain(line)
        \/ StartJob
    BY <1>2, Zenon DEF ToolNext, ToolStep
  <2> QED
    BY <2>1, <2>2, <2>3, <2>4, <2>5, <2>6, <2>7, <2>8, <2>9
<1> QED
  BY <1>1, <1>2, ToolAlone

-----------------------------------------------------------------------------
(* The job that starts from a file of the tool. *)

(* The detector has an entry for each key of its document.                  *)
GivesAll(c) ==
  /\ c.path \in DOMAIN Documents
  /\ \A t \in CollectMaterials(Documents[c.path]) :
       \E i \in DOMAIN c.entries : c.entries[i].stepName = NameRead(XmlAttr(t))

(* The import calls ImportLabel() for labels that the tool has visited.     *)
WalksVisited ==
  import = "walking" =>
    /\ heap[Current].doc = compact[1].path
    /\ \A i \in DOMAIN todo : todo[i].label \in Visited(Documents[heap[Current].doc]) \cup {""}

(* Only a document with other names ends for a material.                    *)
StopsForNames ==
  import = "aborted" \/ (phase = "dead" /\ fault = "material") => ~Plain(Documents[compact[1].path])

JobInv ==
  tool.run > 0 =>
    /\ phase \notin AppPhases
    /\ \A i \in DOMAIN compact : GivesAll(compact[i])
    /\ WalksVisited /\ StopsForNames

(* Every element of a finite set is in its list.                            *)
LEMMA EveryEntryListed ==
  ASSUME NEW S, IsFiniteSet(S), NEW x \in S
  PROVE  \E i \in DOMAIN SetToSeq(S) : SetToSeq(S)[i] = x
<1> DEFINE s == SetToSeq(S)
           n == Cardinality(S)
<1>1. n \in Nat /\ ExistsBijection(1 .. n, S)
  BY FS_CardinalityType
<1>2. \E f \in [1 .. n -> S] : IsInjective(f)
  <2>1. PICK f : f \in Bijection(1 .. n, S)
    BY <1>1 DEF ExistsBijection
  <2> QED
    BY <2>1 DEF Bijection, Injection, IsInjective
<1>3. s \in [1 .. n -> S] /\ IsInjective(s)
  BY <1>2, Zenon DEF SetToSeq
<1>4. s \in Injection(1 .. n, S)
  BY <1>3, Zenon DEF Injection
<1>5. IsFiniteSet(1 .. n) /\ Cardinality(1 .. n) = n
  BY <1>1, FS_Interval
<1>6. s \in Surjection(1 .. n, S)
  <2>0. \A T, U : \A f \in Injection(T, U) :
          IsFiniteSet(U) /\ Cardinality(T) = Cardinality(U) => f \in Surjection(T, U)
    BY FS_Injection
  <2>1. Cardinality(1 .. n) = Cardinality(S)
    BY <1>5
  <2> QED
    BY <1>4, <2>0, <2>1, Zenon
<1>7. \E i \in 1 .. n : s[i] = x
  BY <1>6 DEF Surjection
<1>8. DOMAIN s = 1 .. n
  BY <1>3
<1> QED
  BY <1>7, <1>8, Zenon DEF s

(* What StartJob reads is complete.                                         *)
LEMMA JobGiven ==
  ASSUME NEW f, FileForm(f), IsFiniteSet(f.entries)
  PROVE  LET es == SetToSeq(f.entries)
         IN  GivesAll([plugin |-> "assembly", name |-> "generated", path |-> f.step,
                       entries |-> [i \in DOMAIN es |-> ReadEntry(es[i])]])
<1> DEFINE es == SetToSeq(f.entries)
           list == [i \in DOMAIN es |-> ReadEntry(es[i])]
           c == [plugin |-> "assembly", name |-> "generated", path |-> f.step, entries |-> list]
<1>1. c.path = f.step /\ c.entries = list
  OBVIOUS
<1>2. \A e : ReadEntry(e).stepName = NameRead(e.text)
  BY DEF ReadEntry
<1>3. ASSUME NEW t \in CollectMaterials(Documents[f.step])
      PROVE  \E i \in DOMAIN list : list[i].stepName = NameRead(XmlAttr(t))
  <2>1. PICK x \in f.entries : x.text = XmlAttr(t)
    BY DEF FileForm
  <2>2. PICK i \in DOMAIN es : es[i] = x
    BY EveryEntryListed
  <2>3. list[i] = ReadEntry(x) /\ i \in DOMAIN list
    BY <2>2
  <2> HIDE DEF list, es
  <2> QED
    BY <1>2, <2>1, <2>3
<1>4. f.step \in DOMAIN Documents
  BY DEF FileForm
<1>5. GivesAll(c)
  <2> HIDE DEF c, list, es
  <2> QED
    BY <1>1, <1>3, <1>4 DEF GivesAll
<1> QED
  BY <1>5 DEF c, list, es

(* The tool leaves the job alone until it starts.                           *)
LEMMA ToolKeepsJob ==
  ASSUME ContentsInv, ToolInv, FilesInv, JobInv, tool.run > 0, ToolNext
  PROVE  JobInv'
<1>1. phase \in ToolPhases /\ import = "none" /\ UNCHANGED import
  BY DEF ToolNext, ToolStep, ToolOption, ToolFile, ToolHelp, ToolUsage, ToolRead, Arguments,
     WriteMaterialMap, WriteCompact, ToolWrite, FillIn, RunToolAgain, StartJob, ToolPhases,
     ContentsInv, OwnersInv, PhaseOwners, importVars
<1>2. CASE StartJob
  <2> DEFINE f == files[tool.compactOut]
             es == SetToSeq(f.entries)
             c == [plugin |-> "assembly", name |-> "generated", path |-> f.step,
                   entries |-> [i \in DOMAIN es |-> ReadEntry(es[i])]]
  <2>1. IsFiniteSet(f.entries) /\ compact' = <<c>> /\ phase = "written" /\ phase' = "compact"
    BY <1>2, Zenon DEF StartJob, ReadEntry
  <2>2. FileForm(f)
    BY <2>1 DEF ToolInv, FilesKept, FilesInv
  <2>3. GivesAll(c)
    BY <2>1, <2>2, JobGiven
  <2> HIDE DEF c
  <2>4. \A i \in DOMAIN compact' : compact'[i] = c
    BY <2>1, OneOf
  <2>5. \A i \in DOMAIN compact' : GivesAll(compact'[i])
    BY <2>3, <2>4, Zenon
  <2>6. WalksVisited' /\ StopsForNames'
    BY <1>1, <2>1 DEF WalksVisited, StopsForNames
  <2>7. \A x : GivesAll(x)' <=> GivesAll(x)
    BY DEF GivesAll
  <2> QED
    BY <2>1, <2>5, <2>6 DEF JobInv, GivesAll, AppPhases
<1>3. CASE ~StartJob
  <2>1. UNCHANGED compact
    BY <1>3 DEF ToolNext, ToolStep, pluginVars
  <2>2. \/ phase' \in ToolPhases \cup {"exit"}
        \/ phase' = "dead" /\ fault' # "material"
    <3>1. CASE ToolOption \/ ToolFile \/ ToolHelp \/ ToolUsage \/ ToolRead
      BY <3>1 DEF ToolOption, ToolFile, ToolHelp, ToolUsage, ToolRead, Arguments, Die, ToolPhases
    <3>2. CASE WriteMaterialMap \/ WriteCompact
      BY <3>2 DEF WriteMaterialMap, WriteCompact, ToolWrite, Die, ToolPhases
    <3>3. ASSUME NEW path, NEW x, NEW m, FillIn(path, x, m)
          PROVE  UNCHANGED phase
      BY <3>3 DEF FillIn, processVars
    <3>4. ASSUME NEW line, RunToolAgain(line)
          PROVE  phase' = "tool"
      BY <3>4 DEF RunToolAgain
    <3> QED
      BY <1>1, <1>3, <3>1, <3>2, <3>3, <3>4 DEF ToolNext, ToolStep, ToolPhases
  <2>3. WalksVisited' /\ StopsForNames'
    BY <1>1, <2>2 DEF WalksVisited, StopsForNames, ToolPhases
  <2>4. phase' \notin AppPhases
    BY <2>2 DEF ToolPhases, AppPhases
  <2> QED
    BY <2>1, <2>3, <2>4 DEF JobInv, GivesAll
<1> QED
  BY <1>2, <1>3

(* Which steps of a job it can see.                                         *)
LEMMA JobSteps ==
  ASSUME ContentsInv, PluginNext
  PROVE  \/ /\ import' \notin {"walking", "aborted"}
            /\ UNCHANGED compact \/ (compact # <<>> /\ compact' = Tail(compact))
            /\ phase' \in {phase, "user", "exit"} \/ (phase' = "dead" /\ fault' # "material")
         \/ import = "aborted" /\ import' = "none" /\ phase' = "dead" /\ UNCHANGED compact
         \/ \E map : BeginFromSTEP(compact[1].path, map) /\ UNCHANGED <<phase, compact>>
         \/ phase = "compact" /\ ImportLabel /\ UNCHANGED <<phase, compact>>
<1>0. /\ import # "none" => phase \in {"construct", "compact"}
      /\ phase = "compact" /\ import # "none" => compact # <<>> /\ compact[1].plugin = "assembly"
  BY DEF ContentsInv, SessionInv, ProcessInv, OwnersInv, PhaseOwners
<1>1. CASE CreateStepAssembly
  <2>1. UNCHANGED compact /\ import = "none"
    BY <1>1 DEF CreateStepAssembly, pluginVars
  <2>2. CASE FromSTEP(compact[1].path, MapEntries(compact[1].entries).map) /\ UNCHANGED phase
    BY <2>1, <2>2 DEF FromSTEP, FromSTEPFails
  <2>3. CASE Die("unmapped") /\ UNCHANGED importVars
    BY <2>1, <2>3 DEF Die, importVars
  <2> QED
    BY <1>1, <2>2, <2>3 DEF CreateStepAssembly
<1>2. CASE RegisterAssembly
  BY <1>2 DEF RegisterAssembly, LeaveFromSTEP, Building, Die
<1>3. CASE PluginImportFails
  BY <1>3 DEF PluginImportFails, LeaveFromSTEP, Die, pluginVars
<1>4. CASE CreateStepSolid \/ (\E i \in DOMAIN tgeo : HandleSolid(i)) \/ ConstructGeo
  BY <1>0, <1>4 DEF CreateStepSolid, HandleSolid, ConstructGeo, Building, importVars, processVars, pluginVars, Die
<1>5. CASE phase = "compact" /\ ImportLabel /\ UNCHANGED <<processVars, pluginVars>>
  BY <1>5 DEF processVars, pluginVars
<1>6. ASSUME NEW name, NEW file \in DOMAIN RuleFiles, ApplyFile(name, file)
      PROVE  /\ import' = "none" /\ UNCHANGED compact
             /\ UNCHANGED phase \/ (phase' = "dead" /\ fault' # "material")
  <2>1. ReadRuleFile(RuleFiles[file], Detectors).fatal \notin {"MatReader009", "material"}
    BY RulesAssumption, ReadRulesGood
  <2> QED
    BY <1>0, <1>6, <2>1 DEF ApplyFile, UserCall, Die
<1>7. ASSUME NEW name, NEW x, Apply(name, x) \/ Release(name)
      PROVE  /\ import' = "none" /\ UNCHANGED compact
             /\ UNCHANGED phase \/ (phase' = "dead" /\ fault' # "material")
  BY <1>0, <1>7 DEF Apply, Release, UserCall, Die, processVars
<1>8. CASE ExitJob
  BY <1>0, <1>8 DEF ExitJob
<1> QED
  BY <1>1, <1>2, <1>3, <1>4, <1>5, <1>6, <1>7, <1>8 DEF PluginNext, PluginStep

(* Who is left in the queue still gives all.                                *)
LEMMA StillGiven ==
  ASSUME CompactInv, \A i \in DOMAIN compact : GivesAll(compact[i]),
         UNCHANGED compact \/ (compact # <<>> /\ compact' = Tail(compact))
  PROVE  (\A i \in DOMAIN compact : GivesAll(compact[i]))'
<1>1. CASE UNCHANGED compact
  BY <1>1 DEF GivesAll
<1>2. CASE compact # <<>> /\ compact' = Tail(compact)
  <2>1. PICK U : compact \in Seq(U)
    BY DEF CompactInv
  <2>2. \A i \in DOMAIN compact' : i + 1 \in DOMAIN compact /\ compact'[i] = compact[i + 1]
    BY <1>2, <2>1
  <2>3. \A i \in DOMAIN compact' : GivesAll(compact'[i])
    BY <2>2
  <2> QED
    BY <2>3 DEF GivesAll
<1> QED
  BY <1>1, <1>2

(* FromSTEP() begins with the free shapes.                                  *)
LEMMA BeginsVisited ==
  ASSUME NamesInv, NEW path, NEW map, BeginFromSTEP(path, map), path = compact[1].path, UNCHANGED compact
  PROVE  WalksVisited'
<1>1. /\ heap' = Append(heap, NewAssembly(path)) /\ path \in DOMAIN Documents
      /\ todo' = [i \in DOMAIN Documents[path].free |->
                    [label |-> Documents[path].free[i], trsf |-> Identity]]
  BY DEF BeginFromSTEP, Readable
<1>2. PICK U : heap \in Seq(U)
  BY DEF NamesInv, GoodHeap
<1> DEFINE new == NewAssembly(path)
<1>3. new.doc = path
  BY DEF NewAssembly
<1> HIDE DEF new
<1>4. heap'[Current'] = new
  BY <1>1, <1>2, AppendValues DEF Current, new
<1>5. \A i \in DOMAIN todo' : todo'[i].label \in Visited(Documents[path])
  BY <1>1, VisitsGoOn, DocsAreFormed
<1> QED
  BY <1>3, <1>4, <1>5 DEF WalksVisited

(* The calls of ImportLabel() follow the tool.                              *)
LEMMA CallsVisited ==
  ASSUME OwnersInv, WalksVisited, import = "walking", todo # <<>>
  PROVE  LET d == Documents[heap[Current].doc]
         IN  /\ heap[Current].doc \in DOMAIN Documents /\ heap[Current].doc = compact[1].path
             /\ Here.label \in Visited(d) \cup {""}
             /\ \A i \in DOMAIN Tail(todo) : Tail(todo)[i].label \in Visited(d) \cup {""}
<1>0. heap[Current].doc \in DOMAIN Documents
  BY DEF OwnersInv, ImportOwns
<1>1. PICK U : todo \in Seq(U)
  BY DEF OwnersInv, ImportOwns
<1> DEFINE d == Documents[heap[Current].doc]
           V == Visited(d) \cup {""}
<1>2. \A i \in DOMAIN todo : todo[i].label \in V
  BY DEF WalksVisited
<1> HIDE DEF V
<1>3. 1 \in DOMAIN todo /\ Head(todo) = todo[1]
  BY <1>1
<1>4. \A i \in DOMAIN Tail(todo) : i + 1 \in DOMAIN todo /\ Tail(todo)[i] = todo[i + 1]
  BY <1>1
<1>5. Here.label \in V /\ \A i \in DOMAIN Tail(todo) : Tail(todo)[i].label \in V
  BY <1>2, <1>3, <1>4 DEF Here
<1> QED
  BY <1>0, <1>5 DEF V, WalksVisited

(* An element of a concatenation is one of either sequence.                 *)
LEMMA OneOfTwo ==
  ASSUME NEW U, NEW s \in Seq(U), NEW t \in Seq(U), NEW i \in DOMAIN (s \o t)
  PROVE  (\E j \in DOMAIN s : (s \o t)[i] = s[j]) \/ (\E j \in DOMAIN t : (s \o t)[i] = t[j])
<1>1. i \in 1 .. Len(s) + Len(t) /\ DOMAIN s = 1 .. Len(s) /\ DOMAIN t = 1 .. Len(t)
  OBVIOUS
<1>2. CASE i \in DOMAIN s
  <2>1. (s \o t)[i] = s[i]
    BY <1>1, <1>2
  <2> QED
    BY <1>2, <2>1
<1>3. CASE i \notin DOMAIN s
  <2>1. (s \o t)[i] = t[i - Len(s)] /\ i - Len(s) \in DOMAIN t
    BY <1>1, <1>3
  <2> QED
    BY <2>1
<1> QED
  BY <1>2, <1>3

(* The components of a visited assembly are visited.                        *)
LEMMA ComponentsVisited ==
  ASSUME OwnersInv, WalksVisited, ImportAssemblyLabel, UNCHANGED compact
  PROVE  WalksVisited'
<1> DEFINE d == Documents[heap[Current].doc]
           V == Visited(d) \cup {""}
           comps == Label.comps
           call(i) == [label |-> comps[i].ref, trsf |-> Compose(Here.trsf, comps[i].loc)]
           deeper == [i \in DOMAIN comps |-> call(i)]
           t == Tail(todo)
<1>1. /\ import = "walking" /\ todo # <<>> /\ Here.label # "" /\ Label.kind = "assembly"
      /\ todo' = deeper \o t /\ UNCHANGED <<heap, import>>
  BY DEF ImportAssemblyLabel, Kind
<1>2. /\ heap[Current].doc \in DOMAIN Documents /\ Here.label \in Visited(d)
      /\ \A i \in DOMAIN t : t[i].label \in V
  BY <1>1, CallsVisited
<1>3. DocForm(d) /\ Label = d.labels[Here.label]
  BY <1>2, DocsAreFormed DEF Label, Labels
<1>4. Here.label \in DOMAIN d.labels /\ \A i \in DOMAIN comps : comps[i].ref \in V
  BY <1>1, <1>2, <1>3, VisitsGoOn
<1>5. Len(comps) \in Nat /\ DOMAIN comps = 1 .. Len(comps)
  BY <1>3, <1>4, FormComps
<1>6. PICK U : t \in Seq(U)
  BY <1>1, Calls
<1> DEFINE W == {call(i) : i \in DOMAIN comps}
<1>7. deeper \in Seq(W) /\ \A i \in DOMAIN deeper : deeper[i].label \in V
  <2>1. \A i \in DOMAIN comps : call(i) \in W /\ call(i).label \in V
    BY <1>4
  <2>2. deeper = [i \in 1 .. Len(comps) |-> call(i)]
    BY <1>5
  <2> HIDE DEF W, V, call, comps, deeper
  <2>3. deeper \in [1 .. Len(comps) -> W] /\ \A i \in DOMAIN deeper : deeper[i].label \in V
    BY <1>5, <2>1, <2>2
  <2> QED
    BY <1>5, <2>3
<1> HIDE DEF V, W, deeper, t
<1>8. ASSUME NEW i \in DOMAIN todo'
      PROVE  todo'[i].label \in V
  <2> DEFINE X == W \cup U
             all == deeper \o t
  <2>1. deeper \in Seq(X) /\ t \in Seq(X)
    BY <1>6, <1>7
  <2>2. todo' = all
    BY <1>1
  <2>3. i \in DOMAIN all
    BY <1>8, <2>2, Zenon
  <2> HIDE DEF X
  <2>4. (\E j \in DOMAIN deeper : all[i] = deeper[j]) \/ (\E j \in DOMAIN t : all[i] = t[j])
    BY <2>1, <2>3, OneOfTwo
  <2> HIDE DEF all
  <2> QED
    BY <1>2, <1>7, <2>2, <2>4
<1>9. Current' = Current
  BY <1>1 DEF Current
<1> QED
  BY <1>1, <1>8, <1>9 DEF WalksVisited, V

(* A part of a visited label has a material, if the names are plain.        *)
LEMMA MissingForNames ==
  ASSUME ContentsInv, WalksVisited, phase = "compact", \A i \in DOMAIN compact : GivesAll(compact[i]),
         MaterialMissing
  PROVE  ~Plain(Documents[compact[1].path])
<1> DEFINE path == compact[1].path
           d == Documents[path]
           entries == compact[1].entries
           key == MaterialKey(Label)
<1>1. /\ import = "walking" /\ todo # <<>> /\ Here.label # "" /\ Label.kind = "simple"
      /\ key = NoName \/ key \notin DOMAIN materialMap
  BY DEF MaterialMissing, FirstEncounter, Kind, HasMaterial
<1>2. /\ heap[Current].doc = path /\ Here.label \in Visited(d)
  BY <1>1, CallsVisited DEF ContentsInv
<1>3. Label = d.labels[Here.label]
  BY <1>2 DEF Label, Labels
<1>4. EntryMap(entries, Len(entries), materialMap)
  BY <1>1 DEF ContentsInv, ImportInv, MapGiven
<1>5. DOMAIN entries = 1 .. Len(entries)
  BY <1>1, EntriesFound
<1>6. GivesAll(compact[1])
  <2>1. compact # <<>>
    BY <1>1 DEF ContentsInv, OwnersInv, PhaseOwners
  <2>2. 1 \in DOMAIN compact
    BY <2>1 DEF ContentsInv, CompactInv
  <2> QED
    BY <2>2
<1> SUFFICES ASSUME Plain(d) PROVE FALSE
  OBVIOUS
<1>7. /\ key # NoName /\ key \in DOMAIN Spelling
      /\ Spelling[key] \in CollectMaterials(d)
  <2>1. path \in DOMAIN Documents
    BY <1>6 DEF GivesAll
  <2> QED
    BY <1>1, <1>2, <1>3, <2>1, KeyCollected
<1>8. PICK i \in DOMAIN entries : entries[i].stepName = NameRead(XmlAttr(Spelling[key]))
  BY <1>6, <1>7 DEF GivesAll
<1>9. entries[i].stepName = key
  BY <1>7, <1>8, NameReadBack
<1>10. key \in DOMAIN materialMap
  BY <1>4, <1>5, <1>9 DEF EntryMap
<1> QED
  BY <1>1, <1>7, <1>10

(* A call of ImportLabel() in the job.                                      *)
LEMMA LabelKeepsJob ==
  ASSUME ContentsInv, WalksVisited, StopsForNames, phase = "compact",
         \A i \in DOMAIN compact : GivesAll(compact[i]), ImportLabel, UNCHANGED <<phase, compact>>
  PROVE  WalksVisited' /\ StopsForNames'
<1>0. import = "walking" /\ phase' = "compact" /\ NamesInv /\ OwnersInv
  BY DEF ImportLabel, ImportAssemblyLabel, ReusePrototype, SkipLabel, MaterialMissing, AbortImport,
         BuildPart, BuildPartThrows, EndWalk, FirstEncounter, ContentsInv
<1>1. CASE ImportAssemblyLabel
  BY <1>0, <1>1, ComponentsVisited DEF ImportAssemblyLabel, StopsForNames
<1>2. ASSUME todo # <<>>, todo' = Tail(todo), UNCHANGED import,
             Len(heap') = Len(heap), heap'[Current].doc = heap[Current].doc
      PROVE  WalksVisited' /\ StopsForNames'
  <2>1. Current' = Current
    BY <1>2 DEF Current
  <2> QED
    BY <1>0, <1>2, <2>1, CallsVisited DEF WalksVisited, StopsForNames
<1>3. CASE SkipLabel
  BY <1>2, <1>3 DEF SkipLabel
<1>4. CASE ReusePrototype
  BY <1>0, <1>2, <1>4, ReuseFields DEF ReusePrototype
<1>5. CASE BuildPart
  <2>1. Len(heap') = Len(heap) /\ heap'[Current].doc = heap[Current].doc
    BY <1>0, <1>5, BuildPartFields
  <2> QED
    BY <1>2, <1>5, <2>1 DEF BuildPart, FirstEncounter
<1>6. CASE MaterialMissing
  <2>1. ~Plain(Documents[compact[1].path])
    BY <1>6, MissingForNames
  <2>2. import' = "aborted"
    BY <1>6 DEF MaterialMissing, AbortImport
  <2>3. Plain(Documents[compact[1].path])' <=> Plain(Documents[compact[1].path])
    BY DEF Plain
  <2> QED
    BY <2>1, <2>2, <2>3 DEF WalksVisited, StopsForNames
<1>7. CASE EndWalk \/ BuildPartThrows
  BY <1>0, <1>7 DEF EndWalk, BuildPartThrows, WalksVisited, StopsForNames
<1> QED
  BY <1>1, <1>3, <1>4, <1>5, <1>6, <1>7 DEF ImportLabel

(* A step of the job.                                                       *)
LEMMA PluginKeepsJob ==
  ASSUME ContentsInv, ToolInv, JobInv, tool.run > 0, PluginNext
  PROVE  JobInv'
<1>0. /\ phase \notin AppPhases /\ WalksVisited /\ StopsForNames
      /\ \A i \in DOMAIN compact : GivesAll(compact[i])
      /\ NamesInv /\ CompactInv
  BY DEF JobInv, ContentsInv
<1>1. CASE /\ import' \notin {"walking", "aborted"}
           /\ UNCHANGED compact \/ (compact # <<>> /\ compact' = Tail(compact))
           /\ phase' \in {phase, "user", "exit"} \/ (phase' = "dead" /\ fault' # "material")
  <2>1. phase # "dead"
    BY DEF PluginNext, PluginStep, CreateStepAssembly, RegisterAssembly, PluginImportFails, CreateStepSolid,
       HandleSolid, ConstructGeo, Building, Apply, ApplyFile, Release, UserCall, ExitJob
  <2>2. phase' \notin AppPhases
    BY <1>0, <1>1 DEF AppPhases
  <2>3. WalksVisited' /\ StopsForNames'
    BY <1>1, <2>1 DEF WalksVisited, StopsForNames
  <2>4. (\A i \in DOMAIN compact : GivesAll(compact[i]))'
    BY <1>0, <1>1, StillGiven
  <2> QED
    BY <2>2, <2>3, <2>4 DEF JobInv
<1>2. CASE import = "aborted" /\ import' = "none" /\ phase' = "dead" /\ UNCHANGED compact
  <2>1. ~Plain(Documents[compact[1].path])
    BY <1>0, <1>2 DEF StopsForNames
  <2>2. Plain(Documents[compact[1].path])' <=> Plain(Documents[compact[1].path])
    BY <1>2 DEF Plain
  <2>3. WalksVisited' /\ StopsForNames' /\ phase' \notin AppPhases
    BY <1>2, <2>1, <2>2 DEF WalksVisited, StopsForNames, AppPhases
  <2>4. (\A i \in DOMAIN compact : GivesAll(compact[i]))'
    BY <1>0, <1>2, StillGiven
  <2> QED
    BY <2>3, <2>4 DEF JobInv
<1>3. ASSUME NEW map, BeginFromSTEP(compact[1].path, map), UNCHANGED <<phase, compact>>
      PROVE  JobInv'
  <2>1. WalksVisited'
    BY <1>0, <1>3, BeginsVisited
  <2>2. phase # "dead" /\ import' = "walking"
    BY <1>3 DEF BeginFromSTEP, PluginNext, PluginStep, CreateStepAssembly, RegisterAssembly, PluginImportFails,
       CreateStepSolid, HandleSolid, ConstructGeo, Building, Apply, ApplyFile, Release, UserCall, ExitJob
  <2>3. StopsForNames'
    BY <1>3, <2>2 DEF StopsForNames
  <2>4. (\A i \in DOMAIN compact : GivesAll(compact[i]))'
    BY <1>0, <1>3, StillGiven
  <2> QED
    BY <1>0, <1>3, <2>1, <2>3, <2>4 DEF JobInv
<1>4. CASE phase = "compact" /\ ImportLabel /\ UNCHANGED <<phase, compact>>
  <2>1. WalksVisited' /\ StopsForNames'
    BY <1>0, <1>4, LabelKeepsJob
  <2>2. (\A i \in DOMAIN compact : GivesAll(compact[i]))'
    BY <1>0, <1>4, StillGiven
  <2> QED
    BY <1>0, <1>4, <2>1, <2>2 DEF JobInv
<1> QED
  BY <1>1, <1>2, <1>3, <1>4, JobSteps

-----------------------------------------------------------------------------
(* All that the files of the tool rest on.                                  *)
ServesInv == ContentsInv /\ ToolInv /\ FilesInv /\ JobInv

(* The tool starts without a job.                                           *)
LEMMA ServesInit == Init => ServesInv
<1> SUFFICES ASSUME Init PROVE ServesInv
  OBVIOUS
<1>1. ContentsInv /\ ToolInv /\ FilesInv
  BY ContentsInit, ToolInvInit
<1>2. import = "none" /\ fault = ""
  BY DEF Init, Starts, ImportInit
<1>3. tool.run = 0 \/ (phase = "tool" /\ compact = <<>>)
  <2>1. PICK line, run : tool = NewTool(line, run) /\ (run = 0 \/ (phase = "tool" /\ compact = <<>>))
    BY DEF Init, Starts, ToolInit, PluginInit
  <2>2. tool.run = run
    BY <2>1 DEF NewTool
  <2> QED
    BY <2>1, <2>2
<1>4. WalksVisited /\ StopsForNames
  BY <1>2 DEF WalksVisited, StopsForNames
<1>5. JobInv
  BY <1>3, <1>4 DEF JobInv, AppPhases
<1> QED
  BY <1>1, <1>5 DEF ServesInv

(* Tool, user and job keep it so.                                           *)
LEMMA ServesStep == ServesInv /\ [Next]_vars => ServesInv'
<1> SUFFICES ASSUME ServesInv, [Next]_vars PROVE ServesInv'
  OBVIOUS
<1>0. ContentsInv /\ ToolInv /\ FilesInv /\ JobInv
  BY DEF ServesInv
<1>1. /\ ContentsInv' /\ ToolInv' /\ FilesInv'
      /\ UNCHANGED tool \/ tool'.run = tool.run \/ (phase = "written" /\ tool'.run > 0)
  BY <1>0, ContentsStep, ToolInvStep
<1>2. ASSUME tool'.run > 0
      PROVE  JobInv'
  <2>1. tool.run > 0
    BY <1>0, <1>1, <1>2 DEF ToolInv, ToolForm, ToolPhases
  <2>2. CASE UNCHANGED vars
    <3>1. UNCHANGED <<tool, phase, fault, import, heap, todo, compact>>
      BY <2>2 DEF vars, importVars, ctxVars, processVars, pluginVars, toolVars
    <3> QED
      BY <1>0, <3>1 DEF JobInv, GivesAll, WalksVisited, StopsForNames, Plain, Current
  <2>3. ~AppNext
    BY <1>0, <2>1 DEF JobInv, AppPhases, AppNext, AppStep, ParseOption, ParseFile, ParseError, EndOfArguments,
       QueueCommand, Initialize, Quit, RecordCommand, BeamOn, Command, ReadNextMaterialFile, BuildNextSolid,
       MaterialsRead, ImportNextAssembly, SolidsBuilt, KeepAssembly, ImportFails, FinishConstruct
  <2> QED
    BY <1>0, <2>1, <2>2, <2>3, PluginKeepsJob, ToolKeepsJob DEF Next, Over
<1>3. JobInv'
  BY <1>2 DEF JobInv
<1> QED
  BY <1>1, <1>3 DEF ServesInv

(* What the user of the tool fills in for a key stands, with the same       *)
(* material, in both files of a later run that is given the filled map, and *)
(* that run fills in nothing else: for every document, any spelling that    *)
(* tells names apart, any number of runs and any order of filling in,       *)
(* overwriting and reading, except for the names that contain an entity and *)
(* those they are mistaken for.                                             *)
THEOREM FilledInIsKept == Spec => []FilledInSurvives
<1>1. ASSUME ServesInv
      PROVE  FilledInSurvives
  <2>0. ToolInv
    BY <1>1 DEF ServesInv
  <2>1. ASSUME phase = "written", NEW t \in tool.names, NEW x \in tool.given,
               FilledFor(t, x), NoEntity(t), Unmistaken(t),
               NEW out \in {tool.materialOut, tool.compactOut}
        PROVE  x \in files[out].entries
    <3>1. KnowsFilled /\ FilesKept
      BY <2>0, <2>1 DEF ToolInv
    <3>2. t \in DOMAIN tool.known /\ x = EntryOf(t, tool.known[t])
      BY <2>1, <3>1 DEF KnowsFilled
    <3>3. HoldsKnown(files[out].entries)
      BY <2>1, <3>1 DEF FilesKept
    <3> QED
      BY <3>2, <3>3 DEF HoldsKnown
  <2>2. ASSUME phase = "writeCompact", NEW t \in tool.names, NEW x \in files[tool.materialOut].entries,
               x.text = XmlAttr(t), x.material # TODO, Unmistaken(t)
        PROVE  x \in tool.given
    <3>1. HasRead /\ KnowsFilled /\ x \in Entries
      BY <2>0, <2>2 DEF ToolInv, FilesKept
    <3>2. t \in DOMAIN tool.known /\ x = EntryOf(t, tool.known[t])
      BY <2>2, <3>1, EntriesHold
    <3> QED
      BY <2>2, <3>1, <3>2 DEF KnowsFilled
  <2> QED
    BY <2>1, <2>2 DEF FilledInSurvives
<1> QED
  BY <1>1, ServesInit, ServesStep, PTL DEF Spec

(* A job that starts from the tool's compact file dies for a material only  *)
(* when the document has names that LabelName() cannot write, or a simple   *)
(* shape without any: for every document, any spelling that tells names     *)
(* apart, and any number of runs of the tool before.                        *)
THEOREM GeneratedServes == Spec => []GeneratedCompactServes
<1>1. ASSUME ServesInv
      PROVE  GeneratedCompactServes
  BY <1>1 DEF ServesInv, JobInv, StopsForNames, GeneratedCompactServes
<1> QED
  BY <1>1, ServesInit, ServesStep, PTL DEF Spec
=================================================================================
