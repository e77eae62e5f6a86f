-------------------------- MODULE EventStore_proofs --------------------------
(***************************************************************************)
(* Theorems about the guest's database, for any columns, records and       *)
(* numbers of writes, whatever version made the tables and whichever       *)
(* statements fail.                                                        *)
(***************************************************************************)
EXTENDS EventStore, WellFoundedInduction, TLAPS

-----------------------------------------------------------------------------
(* Induction over a range of numbers, for a set of them: it is what the    *)
(* theorems on well-founded orders give without an operator parameter.     *)
Below == OpToRel(<, Nat)

LEMMA BelowIs ==
  ASSUME NEW x \in Nat, NEW y \in Nat PROVE <<y, x>> \in Below <=> y < x
  BY DEF Below, OpToRel

(* Any set of numbers has a least one.                                     *)
LEMMA LeastNumber ==
  ASSUME NEW T \in SUBSET Nat, T # {}
  PROVE  \E x \in T : \A y \in T : x <= y
<1>1. IsWellFoundedOn(Below, Nat)
  BY NatLessThanWellFounded DEF Below
<1>2. PICK x \in T : \A y \in T : ~(<<y, x>> \in Below)
  BY <1>1, WFMin, Zenon
<1>3. x \in Nat /\ \A y \in T : y \in Nat
  OBVIOUS
<1>4. \A y \in T : ~(y < x)
  BY <1>2, <1>3, BelowIs
<1> QED
  BY <1>3, <1>4

LEMMA FromTo ==
  ASSUME NEW k \in Nat, NEW n \in Nat, NEW S, k \in S,
         \A i \in k..(n - 1) : i \in S => i + 1 \in S
  PROVE  k..n \subseteq S
<1> SUFFICES ASSUME NEW T, T = (k..n) \ S, T # {} PROVE FALSE
  OBVIOUS
<1>1. PICK x \in T : \A y \in T : x <= y
  BY LeastNumber
<1> QED
  BY <1>1

-----------------------------------------------------------------------------
(* The copies one after the other (_enrichSigmaFields).  EnsureAll defines *)
(* a function by recursion: that there is one has to be proved before its  *)
(* equation may be used.                                                   *)
Filling(n, top, nested, copies, g) ==
  g = [i \in 0..n |-> IF i = 0 THEN top ELSE EnsureCopy(g[i - 1], nested, copies[i])]

LEMMA FillingExists ==
  ASSUME NEW n \in Nat, NEW top, NEW nested, NEW copies
  PROVE  \E g : Filling(n, top, nested, copies, g)
<1> DEFINE Next(t, i) == EnsureCopy(t, nested, copies[i])
           F(m, g) == g = [i \in 0..m |-> IF i = 0 THEN top ELSE Next(g[i - 1], i)]
           S == {m \in 0..n : \E g : F(m, g)}
<1> HIDE DEF Next
<1>1. 0 \in S
  <2> DEFINE g == [i \in 0..0 |-> top]
  <2>1. \A i \in 0..0 : g[i] = IF i = 0 THEN top ELSE Next(g[i - 1], i)
    OBVIOUS
  <2>2. g = [i \in 0..0 |-> g[i]]
    OBVIOUS
  <2> HIDE DEF g
  <2>3. F(0, g)
    BY <2>1, <2>2
  <2> QED
    BY <2>3
<1>2. \A m \in 0..(n - 1) : m \in S => m + 1 \in S
  <2> SUFFICES ASSUME NEW m \in 0..(n - 1), NEW g, F(m, g)
               PROVE  \E h : F(m + 1, h)
    OBVIOUS
  <2> DEFINE h == [i \in 0..(m + 1) |-> IF i = m + 1 THEN Next(g[m], m + 1) ELSE g[i]]
  <2>1. \A i \in 0..m : h[i] = g[i] /\ g[i] = IF i = 0 THEN top ELSE Next(g[i - 1], i)
    OBVIOUS
  <2>2. h[m + 1] = Next(h[m], m + 1)
    OBVIOUS
  <2> HIDE DEF F
  <2>3. \A i \in 0..(m + 1) : h[i] = IF i = 0 THEN top ELSE Next(h[i - 1], i)
    <3> SUFFICES ASSUME NEW i \in 0..(m + 1)
                 PROVE  h[i] = IF i = 0 THEN top ELSE Next(h[i - 1], i)
      OBVIOUS
    <3>1. CASE i = m + 1
      BY <3>1, <2>2
    <3>2. CASE i \in 0..m
      <4>1. i # 0 => i - 1 \in 0..m
        BY <3>2
      <4> QED
        BY <3>2, <4>1, <2>1
    <3> QED
      BY <3>1, <3>2
  <2>4. h = [i \in 0..(m + 1) |-> h[i]]
    OBVIOUS
  <2>5. F(m + 1, h)
    BY <2>3, <2>4 DEF F
  <2> QED
    BY <2>5
<1>3. n \in S
  <2> HIDE DEF S
  <2>1. 0..n \subseteq S
    BY <1>1, <1>2, FromTo
  <2> QED
    BY <2>1
<1> QED
  BY <1>3 DEF Filling, Next

(* g is what each copy has made of the record.                             *)
LEMMA EnsureAllIs ==
  ASSUME NEW top, NEW nested, NEW copies, Len(copies) \in Nat
  PROVE  \E g : /\ Filling(Len(copies), top, nested, copies, g)
                /\ EnsureAll(top, nested, copies) = g[Len(copies)]
<1> DEFINE filled[i \in 0..Len(copies)] ==
             IF i = 0 THEN top ELSE EnsureCopy(filled[i - 1], nested, copies[i])
<1>1. EnsureAll(top, nested, copies) = filled[Len(copies)]
  BY DEF EnsureAll
<1>2. PICK g : Filling(Len(copies), top, nested, copies, g)
  BY FillingExists
<1>3. Filling(Len(copies), top, nested, copies, filled)
  BY <1>2 DEF Filling
<1> QED
  BY <1>1, <1>3

-----------------------------------------------------------------------------
(* Which fields a copy adds.                                               *)

Sources(copy) == {copy.names[i] : i \in DOMAIN copy.names}

LEMMA CopiedFields ==
  ASSUME NEW dst, NEW names, NEW src
  PROVE  DOMAIN Copied(dst, names, src) =
           IF \E i \in DOMAIN names : names[i] \in DOMAIN src THEN {dst} ELSE {}
<1> DEFINE there == {i \in DOMAIN names : Has(src, names[i])}
           first == names[CHOOSE i \in there : \A j \in there : i <= j]
<1>1. Copied(dst, names, src) = IF there = {} THEN NoFields ELSE Field(dst, src[first])
  BY DEF Copied
<1>2. DOMAIN NoFields = {} /\ DOMAIN Field(dst, src[first]) = {dst}
  BY DEF NoFields, Field
<1>3. there = {} <=> ~ \E i \in DOMAIN names : names[i] \in DOMAIN src
  BY DEF Has
<1> HIDE DEF there, first
<1> QED
  BY <1>1, <1>2, <1>3

LEMMA JoinedFields == ASSUME NEW f, NEW g PROVE DOMAIN (f ++ g) = DOMAIN f \cup DOMAIN g
  BY DEF ++

Available(top, nested) == DOMAIN top \cup DOMAIN nested

LEMMA EnsureCopyFields ==
  ASSUME NEW top, NEW nested, NEW copy
  PROVE  DOMAIN EnsureCopy(top, nested, copy) =
           DOMAIN top \cup
             (IF Sources(copy) \cap Available(top, nested) # {} THEN {copy.to} ELSE {})
<1> DEFINE found == Copied(copy.to, copy.names, top ++ nested)
<1>1. EnsureCopy(top, nested, copy) = IF copy.to \in DOMAIN top THEN top ELSE top ++ found
  BY DEF EnsureCopy, Has
<1>2. DOMAIN (top ++ nested) = Available(top, nested)
  BY JoinedFields DEF Available
<1>3. DOMAIN found = IF Sources(copy) \cap Available(top, nested) # {} THEN {copy.to} ELSE {}
  BY CopiedFields, <1>2 DEF Sources
<1> HIDE DEF found
<1>4. DOMAIN (top ++ found) = DOMAIN top \cup DOMAIN found
  BY JoinedFields
<1> QED
  BY <1>1, <1>3, <1>4

LEMMA FillingStep ==
  ASSUME NEW n \in Nat, NEW top, NEW nested, NEW copies, NEW g,
         Filling(n, top, nested, copies, g), NEW i \in 1..n
  PROVE  g[i] = EnsureCopy(g[i - 1], nested, copies[i])
  BY DEF Filling

(* What no later copy fills stays as it is.                                *)
LEMMA LaterCopies ==
  ASSUME NEW top, NEW nested, NEW copies, Len(copies) \in Nat, NEW g,
         Filling(Len(copies), top, nested, copies, g),
         NEW k \in 0..Len(copies), NEW a,
         \A m \in (k + 1)..Len(copies) : copies[m].to # a
  PROVE  a \in DOMAIN g[Len(copies)] <=> a \in DOMAIN g[k]
<1> DEFINE n == Len(copies)
           S == {i \in k..n : a \in DOMAIN g[i] <=> a \in DOMAIN g[k]}
<1>1. n \in Nat /\ k \in Nat
  OBVIOUS
<1>2. ASSUME NEW i \in k..(n - 1), i \in S PROVE i + 1 \in S
  <2>1. i + 1 \in 1..n /\ i + 1 \in (k + 1)..n /\ (i + 1) - 1 = i
    BY <1>1
  <2>2. g[i + 1] = EnsureCopy(g[i], nested, copies[i + 1])
    BY <1>1, <2>1, FillingStep
  <2>3. copies[i + 1].to # a
    BY <2>1
  <2> DEFINE c == copies[i + 1]
  <2>4. DOMAIN EnsureCopy(g[i], nested, c) \in {DOMAIN g[i], DOMAIN g[i] \cup {c.to}}
    BY EnsureCopyFields
  <2>5. a \in DOMAIN g[i + 1] <=> a \in DOMAIN g[i]
    BY <2>2, <2>3, <2>4
  <2> QED
    BY <1>2, <2>1, <2>5
<1>3. k \in S
  OBVIOUS
<1> HIDE DEF S
<1>4. k..n \subseteq S
  BY <1>1, <1>2, <1>3, FromTo
<1> QED
  BY <1>1, <1>4 DEF S

(* f says nothing else of what g says.                                     *)
Extends(f, g) == DOMAIN g \subseteq DOMAIN f /\ \A n \in DOMAIN g : f[n] = g[n]

LEMMA JoinedExtends == ASSUME NEW f, NEW g PROVE Extends(f ++ g, f)
  BY DEF Extends, ++

LEMMA EnsureAllExtends ==
  ASSUME NEW top, NEW nested, NEW copies, Len(copies) \in Nat
  PROVE  Extends(EnsureAll(top, nested, copies), top)
<1> DEFINE n == Len(copies)
<1>1. PICK g : Filling(n, top, nested, copies, g) /\ EnsureAll(top, nested, copies) = g[n]
  BY EnsureAllIs
<1> DEFINE S == {i \in 0..n : Extends(g[i], top)}
<1>2. 0 \in S
  BY <1>1 DEF Filling, Extends
<1>3. ASSUME NEW i \in 0..(n - 1), i \in S PROVE i + 1 \in S
  <2>1. i + 1 \in 1..n /\ (i + 1) - 1 = i
    OBVIOUS
  <2>2. g[i + 1] = EnsureCopy(g[i], nested, copies[i + 1])
    BY <1>1, <2>1, FillingStep
  <2>3. Extends(EnsureCopy(g[i], nested, copies[i + 1]), g[i])
    BY JoinedExtends DEF EnsureCopy, Extends
  <2>4. Extends(g[i + 1], top)
    BY <1>3, <2>2, <2>3 DEF Extends
  <2> QED
    BY <2>1, <2>4
<1> HIDE DEF S
<1>4. 0..n \subseteq S
  BY <1>2, <1>3, FromTo
<1> QED
  BY <1>1, <1>4 DEF S

(* A field that no copy fills is there when it was there before.           *)
LEMMA NotCopied ==
  ASSUME NEW top, NEW nested, NEW copies, Len(copies) \in Nat, NEW a,
         \A m \in 1..Len(copies) : copies[m].to # a
  PROVE  a \in DOMAIN EnsureAll(top, nested, copies) <=> a \in DOMAIN top
<1>1. Len(copies) \in Nat
  OBVIOUS
<1>2. PICK g : /\ Filling(Len(copies), top, nested, copies, g)
               /\ EnsureAll(top, nested, copies) = g[Len(copies)]
  BY <1>1, EnsureAllIs
<1>3. g[0] = top
  BY <1>1, <1>2 DEF Filling
<1>4. 0 \in 0..Len(copies) /\ \A m \in (0 + 1)..Len(copies) : copies[m].to # a
  BY <1>1
<1>5. a \in DOMAIN g[Len(copies)] <=> a \in DOMAIN g[0]
  BY <1>2, <1>4, LaterCopies
<1> QED
  BY <1>2, <1>3, <1>5

(* Two spellings, each the source of the other, copied one after the other *)
PairAt(copies, k, a, b) ==
  /\ k \in 1..(Len(copies) - 1) /\ a # b
  /\ copies[k].to = a /\ copies[k + 1].to = b
  /\ {a, b} \subseteq Sources(copies[k + 1])
  /\ Sources(copies[k + 1]) \subseteq Sources(copies[k])
  /\ \A m \in (k + 2)..Len(copies) : copies[m].to \notin {a, b}

LEMMA PairFilled ==
  ASSUME NEW top, NEW nested, NEW copies, Len(copies) \in Nat,
         NEW k, NEW a, NEW b, PairAt(copies, k, a, b)
  PROVE  LET D == Available(EnsureAll(top, nested, copies), nested)
         IN  a \in D <=> b \in D
<1> DEFINE n == Len(copies)
<1>1. n \in Nat /\ k \in 1..n /\ k + 1 \in 1..n /\ (k + 1) - 1 = k /\ (k + 1) + 1 = k + 2
  BY DEF PairAt
<1>2. PICK g : Filling(n, top, nested, copies, g) /\ EnsureAll(top, nested, copies) = g[n]
  BY <1>1, EnsureAllIs
<1>3. /\ g[k] = EnsureCopy(g[k - 1], nested, copies[k])
      /\ g[k + 1] = EnsureCopy(g[k], nested, copies[k + 1])
  BY <1>1, <1>2, FillingStep
<1> DEFINE D == Available(g[k - 1], nested)
           E == Available(g[k], nested)
           F == Available(g[k + 1], nested)
<1>4. /\ DOMAIN EnsureCopy(g[k - 1], nested, copies[k]) =
           DOMAIN g[k - 1] \cup (IF Sources(copies[k]) \cap D # {} THEN {copies[k].to} ELSE {})
      /\ DOMAIN EnsureCopy(g[k], nested, copies[k + 1]) =
           DOMAIN g[k] \cup
             (IF Sources(copies[k + 1]) \cap E # {} THEN {copies[k + 1].to} ELSE {})
  BY EnsureCopyFields
<1>5. E = D \cup (IF Sources(copies[k]) \cap D # {} THEN {a} ELSE {})
  <2>1. DOMAIN g[k] = DOMAIN g[k - 1] \cup (IF Sources(copies[k]) \cap D # {} THEN {a} ELSE {})
    BY <1>3, <1>4 DEF PairAt
  <2> QED
    BY <2>1 DEF Available
<1>6. F = E \cup (IF Sources(copies[k + 1]) \cap E # {} THEN {b} ELSE {})
  <2>1. DOMAIN g[k + 1] =
          DOMAIN g[k] \cup (IF Sources(copies[k + 1]) \cap E # {} THEN {b} ELSE {})
    BY <1>3, <1>4 DEF PairAt
  <2> QED
    BY <2>1 DEF Available
<1>7. a \in F <=> b \in F
  <2> HIDE DEF D, E, F
  <2> QED
    BY <1>5, <1>6 DEF PairAt
<1>8. k + 1 \in 0..n /\ \A m \in (k + 2)..n : copies[m].to # a /\ copies[m].to # b
  BY <1>1 DEF PairAt
<1>9. /\ a \in DOMAIN g[n] <=> a \in DOMAIN g[k + 1]
      /\ b \in DOMAIN g[n] <=> b \in DOMAIN g[k + 1]
  BY <1>1, <1>2, <1>8, LaterCopies
<1> QED
  BY <1>2, <1>7, <1>9 DEF Available

-----------------------------------------------------------------------------
(* The five pairs, each in its place among the copies.                     *)

LEMMA CopyTo == ASSUME NEW a, NEW s PROVE Copy(a, s).to = a
  BY DEF Copy
LEMMA CommandPair ==
  /\ Len(ProcessFields) \in Nat
  /\ PairAt(ProcessFields, 12, "CommandLine", "Commandline")
<1> DEFINE first == Copy("CommandLine", <<"Commandline">> \o Commands)
           second == Copy("Commandline", <<"CommandLine">> \o Commands)
           others == Sources(Copy("x", Commands)) \ {"x"}
<1>1. Len(ProcessFields) = 20 /\ ProcessFields[12] = first /\ ProcessFields[13] = second
  BY DEF ProcessFields
<1>2. /\ Sources(first) = {"CommandLine", "Commandline"} \cup others
      /\ Sources(second) = {"CommandLine", "Commandline"} \cup others
  BY DEF Copy, Sources, Commands
<1>3. \A m \in 14..20 : ProcessFields[m].to \notin {"CommandLine", "Commandline"}
  BY CopyTo DEF ProcessFields
<1>4. first.to = "CommandLine" /\ second.to = "Commandline"
  BY CopyTo
<1> HIDE DEF first, second, others
<1> QED
  BY <1>1, <1>2, <1>3, <1>4 DEF PairAt

LEMMA ObjectPairs ==
  /\ Len(ObjectFields) \in Nat
  /\ PairAt(ObjectFields, 5, "LocalPort", "localport")
  /\ PairAt(ObjectFields, 7, "ObjectName", "object_name")
  /\ PairAt(ObjectFields, 19, "State", "STATE")
  /\ PairAt(ObjectFields, 21, "ObjectClass", "ObjectClas")
<1>1. Len(ObjectFields) = 22
  BY DEF ObjectFields
<1>2. PairAt(ObjectFields, 5, "LocalPort", "localport")
  <2> DEFINE first == Copy("LocalPort", <<"localport">> \o SourcePorts)
             second == Copy("localport", <<"LocalPort">> \o SourcePorts)
  <2>1. ObjectFields[5] = first /\ ObjectFields[6] = second
    BY DEF ObjectFields
  <2>2. /\ Sources(first) = {"LocalPort", "localport", "lport", "SourcePort", "SrcPort"}
        /\ Sources(second) = {"LocalPort", "localport", "lport", "SourcePort", "SrcPort"}
    BY DEF Copy, Sources, SourcePorts
  <2>3. \A m \in 7..22 : ObjectFields[m].to \notin {"LocalPort", "localport"}
    BY CopyTo DEF ObjectFields
  <2>4. first.to = "LocalPort" /\ second.to = "localport"
    BY CopyTo
  <2> HIDE DEF first, second
  <2> QED
    BY <1>1, <2>1, <2>2, <2>3, <2>4 DEF PairAt
<1>3. PairAt(ObjectFields, 7, "ObjectName", "object_name")
  <2> DEFINE first == Copy("ObjectName", <<"object_name", "path", "FileName", "FilePath",
                        "TargetFilename", "TargetFileName", "TargetObject">>)
             second == Copy("object_name", <<"ObjectName", "path", "FileName", "FilePath">>)
  <2>1. ObjectFields[7] = first /\ ObjectFields[8] = second
    BY DEF ObjectFields
  <2>2. /\ Sources(first) = {"ObjectName", "object_name", "path", "FileName", "FilePath",
                             "TargetFilename", "TargetFileName", "TargetObject"}
        /\ Sources(second) = {"ObjectName", "object_name", "path", "FileName", "FilePath"}
    BY DEF Copy, Sources
  <2>3. \A m \in 9..22 : ObjectFields[m].to \notin {"ObjectName", "object_name"}
    BY CopyTo DEF ObjectFields
  <2>4. first.to = "ObjectName" /\ second.to = "object_name"
    BY CopyTo
  <2> HIDE DEF first, second
  <2> QED
    BY <1>1, <2>1, <2>2, <2>3, <2>4 DEF PairAt
<1>4. PairAt(ObjectFields, 19, "State", "STATE")
  <2>1. /\ ObjectFields[19] = Copy("State", <<"STATE">>)
        /\ ObjectFields[20] = Copy("STATE", <<"State">>)
    BY DEF ObjectFields
  <2>2. /\ Sources(Copy("State", <<"STATE">>)) = {"State", "STATE"}
        /\ Sources(Copy("STATE", <<"State">>)) = {"State", "STATE"}
    BY DEF Copy, Sources
  <2>3. \A m \in 21..22 : ObjectFields[m].to \notin {"State", "STATE"}
    BY CopyTo DEF ObjectFields
  <2> QED
    BY <1>1, <2>1, <2>2, <2>3, CopyTo DEF PairAt
<1>5. PairAt(ObjectFields, 21, "ObjectClass", "ObjectClas")
  <2>1. /\ ObjectFields[21] = Copy("ObjectClass", <<"ObjectClas">>)
        /\ ObjectFields[22] = Copy("ObjectClas", <<"ObjectClass">>)
    BY DEF ObjectFields
  <2>2. /\ Sources(Copy("ObjectClass", <<"ObjectClas">>)) = {"ObjectClass", "ObjectClas"}
        /\ Sources(Copy("ObjectClas", <<"ObjectClass">>)) = {"ObjectClass", "ObjectClas"}
    BY DEF Copy, Sources
  <2> QED
    BY <1>1, <2>1, <2>2, CopyTo DEF PairAt
<1> QED
  BY <1>1, <1>2, <1>3, <1>4, <1>5

(* An event has both spellings of a field or neither: nothing but the      *)
(* copies adds one, neither a parent that is asked nor a label.            *)
LEMMA PairInEvent ==
  ASSUME NEW r \in Records, NEW p \in SpellingPairs
  PROVE  p[1] \in Normal[r].all <=> p[2] \in Normal[r].all
<1> DEFINE nested == Nested(r)
           process == EnsureAll(r.top, nested, ProcessFields)
           seen == ParentSeen(r, process, nested)
           object == EnsureAll(seen, nested, ObjectFields)
<1>1. Normal[r].all = DOMAIN Labelled(r) \cup DOMAIN nested
  BY JoinedFields DEF Normal
<1>2. DOMAIN Enriched(r) = DOMAIN object \cup {"Payload"}
  <2>1. Enriched(r) = object ++ Field("Payload", "value")
    BY DEF Enriched
  <2>2. DOMAIN Field("Payload", "value") = {"Payload"}
    BY DEF Field
  <2> QED
    BY <2>1, <2>2, JoinedFields
<1>3. DOMAIN Labelled(r) \in {DOMAIN Enriched(r), AttackColumns \cup DOMAIN Enriched(r)}
  BY JoinedFields DEF Labelled
<1>4. {p[1], p[2]} \cap (AttackColumns \cup {"Payload"}) = {}
  BY PairAssumption DEF SpellingPairs
<1>5. \A a \in {p[1], p[2]} : a \in Normal[r].all <=> a \in Available(object, nested)
  BY <1>1, <1>2, <1>3, <1>4 DEF Available
<1>6. \A a \in {p[1], p[2]} : a \in DOMAIN seen <=> a \in DOMAIN process
  <2>1. {p[1], p[2]} \cap DOMAIN r.parent = {}
    BY StoreAssumption DEF SpellingPairs
  <2>2. seen \in {process, process ++ r.parent}
    BY DEF ParentSeen
  <2> HIDE DEF seen
  <2> QED
    BY <2>1, <2>2, JoinedFields
<1>7. CASE p = <<"CommandLine", "Commandline">>
  <2>1. \A m \in 1..Len(ObjectFields) : ObjectFields[m].to \notin {"CommandLine", "Commandline"}
    BY CopyTo DEF ObjectFields
  <2>2. \A a \in {"CommandLine", "Commandline"} : a \in DOMAIN object <=> a \in DOMAIN seen
    BY <2>1, ObjectPairs, NotCopied
  <2>3. LET D == Available(process, nested) IN "CommandLine" \in D <=> "Commandline" \in D
    BY CommandPair, PairFilled
  <2> HIDE DEF object, seen, process, nested
  <2> QED
    BY <1>5, <1>6, <1>7, <2>2, <2>3 DEF Available
<1>8. CASE p # <<"CommandLine", "Commandline">>
  <2>1. \E k : PairAt(ObjectFields, k, p[1], p[2])
    BY <1>8, ObjectPairs DEF SpellingPairs
  <2>2. p[1] \in Available(object, nested) <=> p[2] \in Available(object, nested)
    BY <2>1, ObjectPairs, PairFilled
  <2> QED
    BY <1>5, <2>2
<1> QED
  BY <1>7, <1>8

(* Normalising a record only adds to it: what it says of itself at its top *)
(* level is what is stored, whatever its payload and its parent say        *)
(* (EventWriter, _enrichSigmaFields).                                      *)
THEOREM OwnFieldsKept ==
  \A r \in Records : \A n \in DOMAIN r.top :
    n \in DOMAIN Enriched(r) /\ Enriched(r)[n] = r.top[n]
<1> SUFFICES ASSUME NEW r \in Records PROVE Extends(Enriched(r), r.top)
  BY DEF Extends
<1> DEFINE nested == Nested(r)
           process == EnsureAll(r.top, nested, ProcessFields)
           seen == ParentSeen(r, process, nested)
           object == EnsureAll(seen, nested, ObjectFields)
<1>1. Extends(process, r.top)
  BY CommandPair, EnsureAllExtends
<1>2. Extends(seen, process)
  BY JoinedExtends DEF ParentSeen, Extends
<1>3. Extends(object, seen)
  BY ObjectPairs, EnsureAllExtends
<1>4. Extends(Enriched(r), object)
  BY JoinedExtends DEF Enriched
<1> HIDE DEF process, seen, object
<1> QED
  BY <1>1, <1>2, <1>3, <1>4 DEF Extends

(* What an event has under one spelling fills the columns of both.         *)
LEMMA PairInRow ==
  ASSUME NEW r \in Records, NEW p \in SpellingPairs, NEW cols,
         {p[1], p[2]} \cap Normal[r].all # {}
  PROVE  {p[1], p[2]} \cap cols \subseteq Row(r, cols)
<1>1. p[1] \in Normal[r].all /\ p[2] \in Normal[r].all
  BY PairInEvent
<1>2. p[1] \notin DOMAIN HeaderKeys /\ p[2] \notin DOMAIN HeaderKeys
  BY DEF SpellingPairs, HeaderKeys
<1>3. Filled(r, p[1]) /\ Filled(r, p[2])
  BY <1>1, <1>2 DEF Filled, Has
<1> QED
  BY <1>3 DEF Row

-----------------------------------------------------------------------------
(* A table Findings has a type, whichever version made it: what migration  *)
(* adds to it are the columns of the newest.                               *)
FindingsNamed == tables.findings # {} => "Type" \in tables.findings

(* A row has what its event can fill of the columns it was made for.       *)
RowsFilled == \A row \in stored : row.filled = Row(row.of, row.given)

StoreInv ==
  /\ StoreTypeOK /\ FindingsNamed /\ RowsFilled
  /\ InsertFits /\ Migrated /\ FindingKept

-----------------------------------------------------------------------------
(* What one statement does to a pair of tables.                            *)

Tables(t) ==
  /\ t \in [events : SUBSET EventColumns, findings : SUBSET FindingColumns]
  /\ t.findings # {} => "Type" \in t.findings

(* t is what became of s: no column is lost.                               *)
Grows(s, t) == s.events \subseteq t.events /\ s.findings \subseteq t.findings

(* s_ensureFindingsSchema makes a whole table or leaves what there is.     *)
LEMMA FindingsTableGrows ==
  ASSUME NEW s, Tables(s), NEW ok
  PROVE  LET t == FindingsTable(s, ok)
         IN  /\ Tables(t) /\ Grows(s, t) /\ t.events = s.events
             /\ "findings" \in ok => t.findings # {}
  BY SMT DEF Tables, Grows, FindingsTable, FindingColumns

(* TABLES_CREATE, however far it gets.                                     *)
LEMMA TablesCreateGrows ==
  ASSUME NEW s, Tables(s), NEW ok
  PROVE  LET t == TablesCreate(s, ok)
         IN  /\ Tables(t) /\ Grows(s, t)
             /\ "events" \in ok => t.events # {}
<1> DEFINE e == IF s.events = {} /\ "events" \in ok
                THEN [s EXCEPT !.events = EventColumns] ELSE s
<1>1. Tables(e) /\ Grows(s, e) /\ ("events" \in ok => e.events # {})
  BY StoreAssumption DEF Tables, Grows, EventColumns
<1>2. LET t == FindingsTable(e, ok)
      IN  Tables(t) /\ Grows(e, t) /\ t.events = e.events
  BY <1>1, FindingsTableGrows
<1>3. TablesCreate(s, ok) \in {e, FindingsTable(e, ok)}
  BY DEF TablesCreate
<1> QED
  BY <1>1, <1>2, <1>3 DEF Grows

(* _ensureEventsColumns                                                    *)
LEMMA AddCoreGrows ==
  ASSUME NEW s, Tables(s), NEW ok
  PROVE  LET t == AddCore(s, ok)
         IN  /\ Tables(t) /\ Grows(s, t) /\ t.findings = s.findings
             /\ "core" \in ok /\ s.events # {} => CoreColumns \subseteq t.events
  BY SMT DEF Tables, Grows, AddCore, AddColumns, EventColumns

(* s_ensureAttackColumns                                                   *)
LEMMA AddAttackGrows ==
  ASSUME NEW s, Tables(s), NEW ok
  PROVE  LET t == AddAttack(s, ok)
         IN  /\ Tables(t) /\ Grows(s, t)
             /\ "attack" \in ok /\ s.events # {} => AttackColumns \subseteq t.events
             /\ "attack" \in ok /\ s.findings # {} => t.findings = FindingColumns
  BY SMT DEF Tables, Grows, AddAttack, AddColumns, EventColumns, FindingColumns

(* _initSqliteSchema loses no column, and brings both tables up to date    *)
(* when none of its statements fails.                                      *)
LEMMA MigrateGrows ==
  ASSUME NEW s, Tables(s), NEW ok
  PROVE  LET t == Migrate(s, ok)
         IN  /\ Tables(t) /\ Grows(s, t)
             /\ ok = Statements =>
                  /\ CoreColumns \cup AttackColumns \subseteq t.events
                  /\ t.findings = FindingColumns
<1> DEFINE a == TablesCreate(s, ok)
           b == AddCore(a, ok)
           c == FindingsTable(b, ok)
<1>1. Tables(a) /\ Grows(s, a) /\ ("events" \in ok => a.events # {})
  BY TablesCreateGrows
<1> HIDE DEF a
<1>2. /\ Tables(b) /\ Grows(a, b)
      /\ "core" \in ok /\ a.events # {} => CoreColumns \subseteq b.events
  BY <1>1, AddCoreGrows
<1> HIDE DEF b
<1>3. /\ Tables(c) /\ Grows(b, c) /\ c.events = b.events
      /\ "findings" \in ok => c.findings # {}
  BY <1>2, FindingsTableGrows
<1> HIDE DEF c
<1> DEFINE t == AddAttack(c, ok)
<1>4. /\ Tables(t) /\ Grows(c, t)
      /\ "attack" \in ok /\ c.events # {} => AttackColumns \subseteq t.events
      /\ "attack" \in ok /\ c.findings # {} => t.findings = FindingColumns
  BY <1>3, AddAttackGrows
<1> HIDE DEF t
<1>5. Grows(s, t)
  BY <1>1, <1>2, <1>3, <1>4 DEF Grows
<1>6. ASSUME ok = Statements
      PROVE  CoreColumns \cup AttackColumns \subseteq t.events /\ t.findings = FindingColumns
  <2>1. {"events", "findings", "core", "attack"} \subseteq ok
    BY <1>6 DEF Statements
  <2>2. a.events # {} /\ b.events # {} /\ c.events # {}
    BY <1>1, <1>2, <1>3, <2>1 DEF Grows
  <2> QED
    BY <1>2, <1>3, <1>4, <2>1, <2>2 DEF Grows
<1>7. Migrate(s, ok) = t
  BY DEF Migrate, a, b, c, t
<1> QED
  BY <1>4, <1>5, <1>6, <1>7

-----------------------------------------------------------------------------
LEMMA StoreInvInit == StoreInit => StoreInv
<1> SUFFICES ASSUME StoreInit PROVE StoreInv
  OBVIOUS
<1>1. Tables(tables)
  BY SMT DEF StoreInit, Tables, EventColumns, FindingColumns
<1>2. StoreTypeOK
  <2>1. tables \in [events : SUBSET EventColumns, findings : SUBSET FindingColumns]
    BY <1>1 DEF Tables
  <2>2. {open, intact, dropped} \subseteq BOOLEAN /\ columns \subseteq EventColumns
    BY DEF StoreInit
  <2>3. writes \in 0..MaxWrites
    BY StoreAssumption DEF StoreInit
  <2>4. \A row \in stored :
          /\ row.of \in Records
          /\ row.filled \subseteq row.given /\ row.given \subseteq EventColumns
    BY DEF StoreInit
  <2> QED
    BY <2>1, <2>2, <2>3, <2>4 DEF StoreTypeOK
<1> QED
  BY <1>1, <1>2 DEF StoreInit, StoreInv, FindingsNamed, RowsFilled,
                    InsertFits, Migrated, FindingKept, Tables

LEMMA OpenPreserves ==
  ASSUME StoreInv, NEW ok, Open(ok) PROVE StoreInv'
<1>1. Tables(tables)
  BY DEF StoreInv, StoreTypeOK, FindingsNamed, Tables
<1>2. /\ Tables(tables') /\ Grows(tables, tables')
      /\ ok = Statements => /\ CoreColumns \cup AttackColumns \subseteq tables'.events
                            /\ tables'.findings = FindingColumns
  BY <1>1, MigrateGrows DEF Open
<1>3. StoreTypeOK' /\ FindingsNamed'
  BY <1>2 DEF StoreInv, StoreTypeOK, FindingsNamed, Open, Tables
<1>4. InsertFits'
  BY <1>2 DEF StoreInv, InsertFits, Open, Grows
<1>5. Migrated' /\ FindingKept' /\ RowsFilled'
  BY <1>2 DEF StoreInv, Migrated, FindingKept, RowsFilled, Open
<1> QED
  BY <1>3, <1>4, <1>5 DEF StoreInv

LEMMA WriteEventPreserves ==
  ASSUME StoreInv, NEW r \in Records, NEW done, WriteEvent(r, done) PROVE StoreInv'
<1> DEFINE row == Row(r, columns')
<1>1. columns' \subseteq tables'.events /\ columns' \subseteq EventColumns
  BY DEF StoreInv, StoreTypeOK, InsertFits, WriteEvent
<1>2. row \subseteq columns'
  BY DEF Row
<1>3. stored' \subseteq stored \cup {[of |-> r, given |-> columns', filled |-> row]}
  BY DEF WriteEvent
<1>4. writes' \in 0..MaxWrites
  BY StoreAssumption DEF StoreInv, StoreTypeOK, WriteEvent
<1>5. StoreTypeOK'
  <2>1. \A x \in stored' :
          /\ x.of \in Records
          /\ x.filled \subseteq x.given /\ x.given \subseteq EventColumns
    BY <1>1, <1>2, <1>3 DEF StoreInv, StoreTypeOK
  <2> QED
    BY <1>1, <1>4, <2>1 DEF StoreInv, StoreTypeOK, WriteEvent
<1>6. RowsFilled'
  BY <1>3 DEF StoreInv, RowsFilled
<1> QED
  BY <1>1, <1>5, <1>6 DEF StoreInv, FindingsNamed, InsertFits, Migrated, FindingKept, WriteEvent

LEMMA WriteFindingPreserves ==
  ASSUME StoreInv, NEW ok \in SUBSET Statements, WriteFinding(ok) PROVE StoreInv'
<1> DEFINE c == FindingsTable(tables, ok)
           t == IF FindingColumns \subseteq tables.findings THEN tables ELSE AddAttack(c, ok)
<1>1. Tables(tables)
  BY DEF StoreInv, StoreTypeOK, FindingsNamed, Tables
<1>2. /\ Tables(c) /\ Grows(tables, c)
      /\ "findings" \in ok => c.findings # {}
  BY <1>1, FindingsTableGrows
<1> HIDE DEF c
<1>3. /\ Tables(AddAttack(c, ok)) /\ Grows(c, AddAttack(c, ok))
      /\ "attack" \in ok /\ c.findings # {} => AddAttack(c, ok).findings = FindingColumns
  BY <1>2, AddAttackGrows
<1>4. Tables(t) /\ Grows(tables, t)
  BY <1>1, <1>2, <1>3 DEF Grows
<1>5. ok = Statements => FindingColumns \subseteq t.findings
  BY <1>2, <1>3 DEF Statements
<1>6. /\ tables' = t
      /\ dropped' = (dropped \/ (ok = Statements /\ ~(FindingColumns \subseteq t.findings)))
  BY DEF WriteFinding, c
<1> HIDE DEF t
<1>7. writes' \in 0..MaxWrites
  BY StoreAssumption DEF StoreInv, StoreTypeOK, WriteFinding
<1>8. StoreTypeOK' /\ FindingsNamed' /\ RowsFilled'
  BY <1>4, <1>6, <1>7 DEF StoreInv, StoreTypeOK, FindingsNamed, RowsFilled,
                          WriteFinding, Tables
<1>9. InsertFits' /\ FindingKept'
  BY <1>4, <1>5, <1>6 DEF StoreInv, InsertFits, FindingKept, WriteFinding, Grows
<1>10. Migrated'
  BY <1>4, <1>6 DEF StoreInv, Migrated, WriteFinding, Grows, Tables
<1> QED
  BY <1>8, <1>9, <1>10 DEF StoreInv

LEMMA ClosePreserves ==
  ASSUME StoreInv, Close PROVE StoreInv'
  BY DEF StoreInv, StoreTypeOK, FindingsNamed, RowsFilled, InsertFits,
         Migrated, FindingKept, Close

LEMMA StoreInvStep == StoreInv /\ [StoreNext]_storeVars => StoreInv'
<1> SUFFICES ASSUME StoreInv, [StoreNext]_storeVars PROVE StoreInv'
  OBVIOUS
<1>1. CASE \E ok \in SUBSET Statements : Open(ok)
  BY <1>1, OpenPreserves
<1>2. CASE \E r \in Records : \E done \in BOOLEAN : WriteEvent(r, done)
  BY <1>2, WriteEventPreserves
<1>3. CASE \E ok \in SUBSET Statements : WriteFinding(ok)
  BY <1>3, WriteFindingPreserves
<1>4. CASE Close
  BY <1>4, ClosePreserves
<1>5. CASE UNCHANGED storeVars
  BY <1>5 DEF storeVars, StoreInv, StoreTypeOK, FindingsNamed, RowsFilled,
              InsertFits, Migrated, FindingKept
<1> QED
  BY <1>1, <1>2, <1>3, <1>4, <1>5 DEF StoreNext

(* The tables, the columns remembered and the findings, whatever fails.     *)
THEOREM StoreHolds == StoreSpec => []StoreInv
  BY StoreInvInit, StoreInvStep, PTL DEF StoreSpec

(* Type correctness: what a migration adds are known columns (EventWriter, *)
(* _initSqliteSchema, _ensureEventsColumns).                               *)
THEOREM StoreTyped == StoreSpec => []StoreTypeOK
<1>1. StoreInv => StoreTypeOK
  BY DEF StoreInv
<1> QED
  BY <1>1, StoreHolds, PTL

(* A migration without a failure brings any older database up to date, and *)
(* it stays so (EventWriter, _initSqliteSchema).                           *)
THEOREM MigrationComplete == StoreSpec => []Migrated
<1>1. StoreInv => Migrated
  BY DEF StoreInv
<1> QED
  BY <1>1, StoreHolds, PTL

(* No INSERT names a column that Events lacks, through any sequence of     *)
(* handles (EventWriter, _collectColumnsAndValues).                        *)
THEOREM InsertsFit == StoreSpec => []InsertFits
<1>1. StoreInv => InsertFits
  BY DEF StoreInv
<1> QED
  BY <1>1, StoreHolds, PTL

(* writeFinding makes up for any migration that failed before.             *)
THEOREM FindingsKept == StoreSpec => []FindingKept
<1>1. StoreInv => FindingKept
  BY DEF StoreInv
<1> QED
  BY <1>1, StoreHolds, PTL

(* What an event has under either spelling of a field is in every column   *)
(* with either name, for any record, any version of the table and any      *)
(* failures of the migration (EventWriter, _enrichSigmaFields,             *)
(* _collectColumnsAndValues).                                              *)
THEOREM PairsAreKept == StoreSpec => []PairsKept
<1>1. ASSUME StoreInv, NEW row \in stored, NEW p \in SpellingPairs,
             {p[1], p[2]} \cap Normal[row.of].all # {}
      PROVE  {p[1], p[2]} \cap row.given \subseteq row.filled
  <2>1. row.of \in Records /\ row.filled = Row(row.of, row.given)
    BY <1>1 DEF StoreInv, StoreTypeOK, RowsFilled
  <2> QED
    BY <1>1, <2>1, PairInRow
<1>2. StoreInv => PairsKept
  BY <1>1 DEF PairsKept
<1> QED
  BY <1>2, StoreHolds, PTL
=============================================================================
