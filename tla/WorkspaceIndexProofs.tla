------------------------ MODULE WorkspaceIndexProofs ------------------------
(***************************************************************************)
(* Proofs about ScopeLayers and WorkspaceIndex.                            *)
(*                                                                         *)
(* The walk over the dependencies of a module ends and visits exactly the  *)
(* modules that can be reached, for every topology.  The entries of the    *)
(* scope cache that the current version would serve are fresh whenever no  *)
(* writer is at work, and a request no writer disturbs is told the names   *)
(* of the index as it is.                                                  *)
(***************************************************************************)
EXTENDS WorkspaceIndex, TLAPS, FiniteSetTheorems, SequenceTheorems, WellFoundedInduction

-----------------------------------------------------------------------------
(* Induction over the naturals, for a set instead of a predicate.           *)
LEMMA Induction ==
  ASSUME NEW S \in SUBSET Nat, 0 \in S, \A n \in S : n + 1 \in S
  PROVE  S = Nat
<1> SUFFICES ASSUME S # Nat PROVE FALSE
  OBVIOUS
<1> DEFINE T == Nat \ S
<1>1. T \subseteq Nat /\ T # {}
  OBVIOUS
<1>2. \E x \in T : \A y \in T : ~(<<y, x>> \in OpToRel(<, Nat))
  BY <1>1, NatLessThanWellFounded, WFMin
<1>3. PICK x \in T : \A y \in T : ~(y < x)
  BY <1>2 DEF OpToRel
<1>4. x - 1 \in Nat /\ x - 1 < x /\ x = (x - 1) + 1
  BY <1>3
<1>5. x - 1 \in S
  BY <1>3, <1>4
<1>6. (x - 1) + 1 \in S
  BY <1>5
<1> QED
  BY <1>4, <1>6

-----------------------------------------------------------------------------
(* The scope layers of a topology.                                          *)

Layer == [kind : {"module", "root", "entry"}, of : Module \cup DOMAIN ArchiveNames,
          root : SourceRoot \cup {NoRoot}]

IsTopology(t) ==
    /\ t.deps \in [Module -> Seq(Module)]
    /\ t.classpath \in [Module -> [Classpath -> Seq(DOMAIN ArchiveNames)]]
    /\ \A y \in Module : DOMAIN t.roots[y] \subseteq SourceRoot
    /\ t.jdk \in {NoJdk} \cup DOMAIN ArchiveNames

(* The source layers of a module are a sequence of sets of layers.          *)
LEMMA SourceLayersType ==
  ASSUME NEW t, IsTopology(t), NEW m \in Module, NEW cp, NEW preferred
  PROVE  VisibleSourceLayers(t, m, cp, preferred) \in Seq(SUBSET Layer)
<1> DEFINE roots == DOMAIN t.roots[m]
           first == roots \cap {preferred}
           matching(c) == {r \in roots \ first : t.roots[m][r] = c}
           chosen == Group(first) \o (IF cp = "test" THEN Group(matching("test")) ELSE <<>>)
                       \o Group(matching("main"))
<1>1. roots \subseteq SourceRoot
  BY DEF IsTopology
<1>2. ASSUME NEW g \in SUBSET SourceRoot PROVE Group(g) \in Seq(SUBSET SourceRoot)
  <2>1. <<>> \in Seq(SUBSET SourceRoot)
    OBVIOUS
  <2>2. <<g>> \in Seq(SUBSET SourceRoot)
    OBVIOUS
  <2> QED
    BY <2>1, <2>2 DEF Group
<1>3. chosen \in Seq(SUBSET SourceRoot)
  <2>1. /\ Group(first) \in Seq(SUBSET SourceRoot)
        /\ Group(matching("test")) \in Seq(SUBSET SourceRoot)
        /\ Group(matching("main")) \in Seq(SUBSET SourceRoot)
    BY <1>1, <1>2
  <2> HIDE DEF first, matching
  <2> QED
    BY <2>1
<1> HIDE DEF chosen
<1>4. {Own(m)} \in SUBSET Layer
  BY DEF Own, Layer
<1>5. ASSUME NEW i \in DOMAIN chosen
      PROVE  {InRoot(m, r) : r \in chosen[i]} \in SUBSET Layer
  <2>1. chosen[i] \subseteq SourceRoot
    BY <1>3
  <2> QED
    BY <2>1 DEF InRoot, Layer
<1>6. [i \in DOMAIN chosen |-> {InRoot(m, r) : r \in chosen[i]}] \in Seq(SUBSET Layer)
  <2>1. DOMAIN chosen = 1..Len(chosen) /\ Len(chosen) \in Nat
    BY <1>3
  <2> DEFINE e(i) == {InRoot(m, r) : r \in chosen[i]}
  <2>2. \A i \in DOMAIN chosen : e(i) \in SUBSET Layer
    BY <1>5
  <2> HIDE DEF e
  <2>3. [i \in DOMAIN chosen |-> e(i)] \in Seq(SUBSET Layer)
    BY <2>1, <2>2
  <2> QED
    BY <2>3 DEF e
<1>7. VisibleSourceLayers(t, m, cp, preferred) =
        IF roots = {} \/ chosen = <<>> THEN <<{Own(m)}>>
        ELSE [i \in DOMAIN chosen |-> {InRoot(m, r) : r \in chosen[i]}]
  BY DEF VisibleSourceLayers, chosen
<1>8. <<{Own(m)}>> \in Seq(SUBSET Layer)
  BY <1>4
<1> HIDE DEF roots
<1> QED
  BY <1>6, <1>7, <1>8

(* So are the layers of a classpath and the layer of the JDK.               *)
LEMMA ArchiveLayersType ==
  ASSUME NEW t, IsTopology(t), NEW m \in Module, NEW cp \in Classpath
  PROVE  /\ ClasspathLayers(t, m, cp) \in Seq(SUBSET Layer)
         /\ JdkLayer(t) \in Seq(SUBSET Layer)
<1>1. \A e \in DOMAIN ArchiveNames : {Entry(e)} \in SUBSET Layer
  BY DEF Entry, Layer
<1> DEFINE entries == t.classpath[m][cp]
<1>2. entries \in Seq(DOMAIN ArchiveNames)
  BY DEF IsTopology
<1>3. ClasspathLayers(t, m, cp) = [i \in DOMAIN entries |-> {Entry(entries[i])}]
  BY DEF ClasspathLayers
<1> HIDE DEF entries
<1> DEFINE e(i) == {Entry(entries[i])}
<1>4. \A i \in DOMAIN entries : e(i) \in SUBSET Layer
  <2>1. \A i \in DOMAIN entries : entries[i] \in DOMAIN ArchiveNames
    BY <1>2
  <2> QED
    BY <1>1, <2>1
<1>5. [i \in DOMAIN entries |-> e(i)] \in Seq(SUBSET Layer)
  <2> HIDE DEF e
  <2>1. DOMAIN entries = 1..Len(entries) /\ Len(entries) \in Nat
    BY <1>2
  <2> QED
    BY <1>4, <2>1
<1>6. JdkLayer(t) \in Seq(SUBSET Layer)
  <2>1. CASE t.jdk = NoJdk
    BY <2>1 DEF JdkLayer
  <2>2. CASE t.jdk # NoJdk
    <3>1. {Entry(t.jdk)} \in SUBSET Layer
      BY <2>2, <1>1 DEF IsTopology
    <3>2. JdkLayer(t) = <<{Entry(t.jdk)}>>
      BY <2>2 DEF JdkLayer
    <3> QED
      BY <3>1, <3>2
  <2> QED
    BY <2>1, <2>2
<1> QED
  BY <1>3, <1>5, <1>6

(* The start and a turn of the walk over the dependencies.                  *)
WalkStart(t, m) == [queue |-> t.deps[m], seen |-> {m}, layers |-> <<>>]

WalkTurn(t, w) == IF w.queue = <<>> THEN w ELSE Visit(t, w)

(* f[n] is the walk from module m after n turns.                            *)
WalkLoop(f, t, m, k) ==
    f = [n \in 0..k |-> IF n = 0 THEN WalkStart(t, m) ELSE WalkTurn(t, f[n - 1])]

(* The loop of the walk is well defined.                                    *)
LEMMA WalkLoopExists ==
  ASSUME NEW t, NEW m, NEW k \in Nat
  PROVE  \E f : WalkLoop(f, t, m, k)
<1> DEFINE S == {j \in Nat : \E f : WalkLoop(f, t, m, j)}
<1>1. 0 \in S
  <2> DEFINE f0 == [n \in 0..0 |-> WalkStart(t, m)]
  <2>1. f0 = [n \in 0..0 |-> IF n = 0 THEN WalkStart(t, m) ELSE WalkTurn(t, f0[n - 1])]
    OBVIOUS
  <2>2. WalkLoop(f0, t, m, 0)
    BY <2>1 DEF WalkLoop
  <2> QED
    BY <2>2
<1>2. ASSUME NEW j \in S PROVE j + 1 \in S
  <2>1. PICK f : WalkLoop(f, t, m, j)
    OBVIOUS
  <2> DEFINE g == [n \in 0..(j + 1) |-> IF n = j + 1 THEN WalkTurn(t, f[j]) ELSE f[n]]
  <2>2. ASSUME NEW n \in 0..(j + 1)
        PROVE  g[n] = IF n = 0 THEN WalkStart(t, m) ELSE WalkTurn(t, g[n - 1])
    <3>1. CASE n = j + 1
      BY <2>2, <3>1
    <3>2. CASE n # j + 1
      <4>1. n \in 0..j /\ g[n] = f[n]
        BY <2>2, <3>2
      <4>2. n # 0 => n - 1 \in 0..j /\ g[n - 1] = f[n - 1]
        BY <4>1
      <4> QED
        BY <2>1, <4>1, <4>2 DEF WalkLoop
    <3> QED
      BY <3>1, <3>2
  <2>3. g = [n \in 0..(j + 1) |-> IF n = 0 THEN WalkStart(t, m) ELSE WalkTurn(t, g[n - 1])]
    BY <2>2
  <2>4. WalkLoop(g, t, m, j + 1)
    BY <2>3 DEF WalkLoop
  <2> HIDE DEF g
  <2>5. \E h : WalkLoop(h, t, m, j + 1)
    BY <2>4
  <2> QED
    BY <2>5
<1>3. S = Nat
  <2> HIDE DEF S
  <2>1. S \in SUBSET Nat
    BY DEF S
  <2> QED
    BY <1>1, <1>2, <2>1, Induction
<1> QED
  BY <1>3

(* What a queue holds: its head and the rest; the parts it was joined from. *)
LEMMA RangeHeadTail ==
  ASSUME NEW S, NEW q \in Seq(S), q # <<>>
  PROVE  /\ Head(q) \in S
         /\ Tail(q) \in Seq(S)
         /\ Len(q) \in Nat \ {0}
         /\ Len(Tail(q)) = Len(q) - 1
         /\ Range(q) = {Head(q)} \cup Range(Tail(q))
<1>1. /\ Head(q) \in S /\ Tail(q) \in Seq(S) /\ Len(q) \in Nat \ {0}
      /\ Len(Tail(q)) = Len(q) - 1
  OBVIOUS
<1>2. /\ DOMAIN q = 1..Len(q) /\ DOMAIN Tail(q) = 1..(Len(q) - 1)
      /\ Head(q) = q[1] /\ \A i \in 1..(Len(q) - 1) : Tail(q)[i] = q[i + 1]
  OBVIOUS
<1>3. ASSUME NEW x \in Range(q) PROVE x \in {Head(q)} \cup Range(Tail(q))
  <2>1. PICK i \in 1..Len(q) : x = q[i]
    BY <1>2 DEF Range
  <2>2. CASE i = 1
    BY <2>1, <2>2, <1>2
  <2>3. CASE i # 1
    <3>1. i - 1 \in 1..(Len(q) - 1) /\ (i - 1) + 1 = i
      BY <2>3, <1>1
    <3>2. Tail(q)[i - 1] = x
      BY <2>1, <3>1, <1>2
    <3> QED
      BY <3>1, <3>2, <1>2 DEF Range
  <2> QED
    BY <2>2, <2>3
<1>4. ASSUME NEW x \in Range(Tail(q)) PROVE x \in Range(q)
  <2>1. PICK i \in 1..(Len(q) - 1) : x = Tail(q)[i]
    BY <1>2 DEF Range
  <2>2. i + 1 \in 1..Len(q) /\ x = q[i + 1]
    BY <2>1, <1>1, <1>2
  <2> QED
    BY <2>2, <1>2 DEF Range
<1>5. Head(q) \in Range(q)
  BY <1>1, <1>2 DEF Range
<1>6. Range(q) = {Head(q)} \cup Range(Tail(q))
  BY <1>3, <1>4, <1>5
<1> QED
  BY <1>1, <1>6

LEMMA RangeConcat ==
  ASSUME NEW S, NEW q \in Seq(S), NEW r \in Seq(S)
  PROVE  Range(q \o r) = Range(q) \cup Range(r)
<1>1. /\ Len(q) \in Nat /\ Len(r) \in Nat
      /\ DOMAIN q = 1..Len(q) /\ DOMAIN r = 1..Len(r)
      /\ q \o r \in Seq(S) /\ Len(q \o r) = Len(q) + Len(r)
      /\ DOMAIN (q \o r) = 1..(Len(q) + Len(r))
      /\ \A i \in 1..(Len(q) + Len(r)) :
           (q \o r)[i] = IF i <= Len(q) THEN q[i] ELSE r[i - Len(q)]
  <2>1. /\ q \o r \in Seq(S) /\ Len(q \o r) = Len(q) + Len(r)
        /\ \A i \in 1..(Len(q) + Len(r)) :
             (q \o r)[i] = IF i <= Len(q) THEN q[i] ELSE r[i - Len(q)]
    BY ConcatProperties
  <2>2. DOMAIN (q \o r) = 1..Len(q \o r)
    BY <2>1, LenProperties
  <2> QED
    BY <2>1, <2>2
<1>2. ASSUME NEW x \in Range(q \o r) PROVE x \in Range(q) \cup Range(r)
  <2>1. PICK i \in 1..(Len(q) + Len(r)) : x = (q \o r)[i]
    BY <1>1 DEF Range
  <2>2. CASE i <= Len(q)
    BY <1>1, <2>1, <2>2 DEF Range
  <2>3. CASE ~(i <= Len(q))
    <3>1. i - Len(q) \in DOMAIN r /\ x = r[i - Len(q)]
      BY <1>1, <2>1, <2>3
    <3> QED
      BY <3>1 DEF Range
  <2> QED
    BY <2>2, <2>3
<1>3. ASSUME NEW x \in Range(q) PROVE x \in Range(q \o r)
  <2>1. PICK i \in 1..Len(q) : x = q[i]
    BY <1>1 DEF Range
  <2>2. i \in DOMAIN (q \o r) /\ x = (q \o r)[i]
    BY <1>1, <2>1
  <2> QED
    BY <2>2 DEF Range
<1>4. ASSUME NEW x \in Range(r) PROVE x \in Range(q \o r)
  <2>1. PICK i \in 1..Len(r) : x = r[i]
    BY <1>1 DEF Range
  <2> DEFINE j == i + Len(q)
  <2>2. j \in 1..(Len(q) + Len(r)) /\ ~(j <= Len(q)) /\ j - Len(q) = i
    BY <1>1
  <2>3. j \in DOMAIN (q \o r) /\ x = (q \o r)[j]
    BY <1>1, <2>1, <2>2
  <2> QED
    BY <2>3 DEF Range
<1> QED
  BY <1>2, <1>3, <1>4

(* The dependencies of the modules of S, one pair for each.                 *)
Edges(t, S) == UNION {{x} \X DOMAIN t.deps[x] : x \in S}

LEMMA EdgesFinite ==
  ASSUME NEW t, IsTopology(t), NEW S \in SUBSET Module
  PROVE  /\ IsFiniteSet(Edges(t, S))
         /\ Cardinality(Edges(t, S)) \in Nat
         /\ Cardinality(Edges(t, S)) <= Turns(t)
<1>1. ASSUME NEW R \in SUBSET Module PROVE IsFiniteSet(Edges(t, R))
  <2> DEFINE f == [x \in R |-> {x} \X DOMAIN t.deps[x]]
             T == {f[x] : x \in R}
  <2>1. IsFiniteSet(R)
    BY ModuleAssumption, FS_Subset
  <2>2. f \in Surjection(R, T)
    BY DEF Surjection
  <2>3. IsFiniteSet(T)
    <3> HIDE DEF f, T
    <3> QED
      BY <2>1, <2>2, FS_Surjection
  <2>4. ASSUME NEW x \in R PROVE IsFiniteSet(f[x])
    <3>1. DOMAIN t.deps[x] = 1..Len(t.deps[x]) /\ Len(t.deps[x]) \in Nat
      BY DEF IsTopology
    <3>2. IsFiniteSet(DOMAIN t.deps[x])
      BY <3>1, FS_Interval
    <3>3. IsFiniteSet({x})
      BY FS_Singleton
    <3>4. IsFiniteSet({x} \X DOMAIN t.deps[x])
      BY <3>2, <3>3, FS_Product
    <3> QED
      BY <3>4
  <2>5. \A g \in T : IsFiniteSet(g)
    BY <2>4
  <2>6. IsFiniteSet(UNION T)
    <3> HIDE DEF T
    <3> QED
      BY <2>3, <2>5, FS_UNION
  <2>7. UNION T = Edges(t, R)
    BY DEF Edges
  <2> QED
    BY <2>6, <2>7
<1>2. Edges(t, S) \in SUBSET Edges(t, Module)
  BY DEF Edges
<1>3. IsFiniteSet(Edges(t, S)) /\ IsFiniteSet(Edges(t, Module))
  BY <1>1
<1>4. Cardinality(Edges(t, S)) <= Cardinality(Edges(t, Module))
  BY <1>2, <1>3, FS_Subset
<1>5. Turns(t) = Cardinality(Edges(t, Module))
  BY DEF Turns, Edges
<1> QED
  BY <1>3, <1>4, <1>5, FS_CardinalityType

LEMMA EdgesOfOneMore ==
  ASSUME NEW t, IsTopology(t), NEW S \in SUBSET Module, NEW x \in Module \ S
  PROVE  Cardinality(Edges(t, S \cup {x})) = Cardinality(Edges(t, S)) + Len(t.deps[x])
<1> DEFINE E == {x} \X DOMAIN t.deps[x]
<1>1. DOMAIN t.deps[x] = 1..Len(t.deps[x]) /\ Len(t.deps[x]) \in Nat
  BY DEF IsTopology
<1>2. IsFiniteSet(E) /\ Cardinality(E) = Len(t.deps[x])
  <2>1. IsFiniteSet(DOMAIN t.deps[x]) /\ Cardinality(DOMAIN t.deps[x]) = Len(t.deps[x])
    BY <1>1, FS_Interval
  <2>2. IsFiniteSet({x}) /\ Cardinality({x}) = 1
    BY FS_Singleton
  <2>3. IsFiniteSet(E) /\ Cardinality(E) = Cardinality({x}) * Cardinality(DOMAIN t.deps[x])
    BY <2>1, <2>2, FS_Product
  <2> QED
    <3> DEFINE a == Cardinality({x})
               b == Cardinality(DOMAIN t.deps[x])
    <3>1. a = 1 /\ b = Len(t.deps[x]) /\ Cardinality(E) = a * b
      BY <2>1, <2>2, <2>3
    <3> HIDE DEF a, b, E
    <3>2. a * b = b
      BY <3>1, <1>1
    <3> QED
      BY <2>3, <3>1, <3>2
<1>3. Edges(t, S \cup {x}) = Edges(t, S) \cup E
  BY DEF Edges
<1>4. Edges(t, S) \cap E = {}
  BY DEF Edges
<1>5. IsFiniteSet(Edges(t, S)) /\ Cardinality(Edges(t, S)) \in Nat
  BY EdgesFinite
<1>6. Cardinality(Edges(t, S) \cap E) = 0
  BY <1>4, FS_EmptySet
<1> HIDE DEF E
<1>7. Cardinality(Edges(t, S) \cup E)
        = Cardinality(Edges(t, S)) + Cardinality(E) - Cardinality(Edges(t, S) \cap E)
  BY <1>2, <1>5, FS_Union
<1>8. Cardinality(Edges(t, S) \cup E) = Cardinality(Edges(t, S)) + Len(t.deps[x]) - 0
  BY <1>2, <1>6, <1>7
<1>9. Cardinality(Edges(t, S)) + Len(t.deps[x]) - 0
        = Cardinality(Edges(t, S)) + Len(t.deps[x])
  BY <1>1, <1>5
<1> QED
  BY <1>3, <1>8, <1>9

(* A set of modules closed under the dependencies, which holds m.           *)
IsClosed(t, m, R) == m \in R /\ \A x \in R : DependsOn(t, x) \subseteq R

Walking(t, m, w, n) ==
    /\ w \in [queue : Seq(Module), seen : SUBSET Module, layers : Seq(SUBSET Layer)]
    /\ m \in w.seen
    /\ w.queue # <<>> => n + Len(w.queue) = Cardinality(Edges(t, w.seen))
    /\ \A x \in w.seen : DependsOn(t, x) \subseteq w.seen \cup Range(w.queue)
    /\ \A R \in SUBSET Module : IsClosed(t, m, R) => w.seen \cup Range(w.queue) \subseteq R

LEMMA WalkStarts ==
  ASSUME NEW t, IsTopology(t), NEW m \in Module
  PROVE  Walking(t, m, WalkStart(t, m), 0)
<1>1. t.deps[m] \in Seq(Module) /\ Len(t.deps[m]) \in Nat
  BY DEF IsTopology
<1>2. DependsOn(t, m) = Range(t.deps[m])
  BY DEF DependsOn, Range
<1>3. Cardinality(Edges(t, {m})) = Len(t.deps[m])
  <2>1. Edges(t, {}) = {}
    BY DEF Edges
  <2>2. Cardinality(Edges(t, {})) = 0
    BY <2>1, FS_EmptySet
  <2>3. Cardinality(Edges(t, {} \cup {m})) = Cardinality(Edges(t, {})) + Len(t.deps[m])
    BY EdgesOfOneMore
  <2>4. {} \cup {m} = {m}
    OBVIOUS
  <2> QED
    BY <2>2, <2>3, <2>4, <1>1
<1>4. <<>> \in Seq(SUBSET Layer)
  OBVIOUS
<1>5. \A R \in SUBSET Module : IsClosed(t, m, R) => {m} \cup Range(t.deps[m]) \subseteq R
  BY <1>2 DEF IsClosed
<1> DEFINE w == WalkStart(t, m)
<1>6. /\ w \in [queue : Seq(Module), seen : SUBSET Module, layers : Seq(SUBSET Layer)]
      /\ w.queue = t.deps[m] /\ w.seen = {m}
  BY <1>1, <1>4 DEF WalkStart
<1> HIDE DEF w
<1>7. 0 + Len(t.deps[m]) = Len(t.deps[m])
  BY <1>1
<1>8. Walking(t, m, w, 0)
  BY <1>2, <1>3, <1>5, <1>6, <1>7 DEF Walking
<1> QED
  BY <1>8 DEF w

LEMMA OneMoreTurn ==
  \A n, k, d \in Nat : /\ (n + 1) + (k - 1) = n + k
                       /\ (n + 1) + ((k - 1) + d) = (n + k) + d
OBVIOUS

LEMMA WalkGoesOn ==
  ASSUME NEW t, IsTopology(t), NEW m \in Module, NEW n \in Nat,
         NEW w, Walking(t, m, w, n)
  PROVE  Walking(t, m, WalkTurn(t, w), n + 1)
<1> DEFINE q == w.queue
           dep == Head(q)
           v == WalkTurn(t, w)
           Walk == [queue : Seq(Module), seen : SUBSET Module, layers : Seq(SUBSET Layer)]
<1>1. /\ w \in Walk /\ m \in w.seen
      /\ q \in Seq(Module) /\ w.seen \in SUBSET Module /\ w.layers \in Seq(SUBSET Layer)
  BY DEF Walking
<1>2. CASE q = <<>>
  <2>1. v = w
    BY <1>2 DEF WalkTurn
  <2> QED
    BY <1>2, <2>1 DEF Walking
<1>3. CASE q # <<>>
  <2>1. /\ dep \in Module /\ Tail(q) \in Seq(Module) /\ Len(q) \in Nat \ {0}
        /\ Len(Tail(q)) = Len(q) - 1 /\ Range(q) = {dep} \cup Range(Tail(q))
    BY <1>1, <1>3, RangeHeadTail
  <2>2. n + Len(q) = Cardinality(Edges(t, w.seen))
    BY <1>3 DEF Walking
  <2>3. v = Visit(t, w)
    BY <1>3 DEF WalkTurn
  <2>4. CASE dep \in w.seen
    <3>1. v = [w EXCEPT !.queue = Tail(@)]
      BY <2>3, <2>4 DEF Visit
    <3>2. v \in Walk /\ v.queue = Tail(q) /\ v.seen = w.seen
      BY <1>1, <2>1, <3>1
    <3> HIDE DEF v
    <3>3. (n + 1) + Len(v.queue) = Cardinality(Edges(t, v.seen))
      <4>1. Len(v.queue) = Len(q) - 1 /\ v.seen = w.seen
        BY <2>1, <3>2
      <4>2. (n + 1) + (Len(q) - 1) = n + Len(q)
        BY <2>1, OneMoreTurn
      <4> QED
        BY <2>2, <4>1, <4>2
    <3>4. v.seen \cup Range(v.queue) = w.seen \cup Range(q)
      BY <2>1, <2>4, <3>2
    <3>5. Walking(t, m, v, n + 1)
      BY <1>1, <3>2, <3>3, <3>4 DEF Walking
    <3> QED
      BY <3>5 DEF v
  <2>5. CASE dep \notin w.seen
    <3> DEFINE deps == t.deps[dep]
               more == VisibleSourceLayers(t, dep, "main", NoRoot)
                         \o ClasspathLayers(t, dep, "main")
    <3>1. deps \in Seq(Module) /\ Len(deps) \in Nat
      BY <2>1 DEF IsTopology
    <3>2. /\ v.queue = Tail(q) \o deps /\ v.seen = w.seen \cup {dep}
          /\ v = [queue |-> v.queue, seen |-> v.seen, layers |-> v.layers]
          /\ v.layers = w.layers \o VisibleSourceLayers(t, dep, "main", NoRoot)
                          \o ClasspathLayers(t, dep, "main")
      <4>1. v = [queue |-> Tail(q) \o deps, seen |-> w.seen \cup {dep},
                 layers |-> w.layers \o VisibleSourceLayers(t, dep, "main", NoRoot)
                              \o ClasspathLayers(t, dep, "main")]
        BY <2>3, <2>5 DEF Visit
      <4> HIDE DEF v, dep, deps, q
      <4> QED
        BY <4>1
    <3> HIDE DEF v
    <3>3. v.layers \in Seq(SUBSET Layer)
      <4>1. VisibleSourceLayers(t, dep, "main", NoRoot) \in Seq(SUBSET Layer)
        BY <2>1, SourceLayersType
      <4>2. ClasspathLayers(t, dep, "main") \in Seq(SUBSET Layer)
        BY <2>1, ArchiveLayersType DEF Classpath
      <4> QED
        BY <1>1, <3>2, <4>1, <4>2
    <3>4. v.queue \in Seq(Module) /\ Len(v.queue) = Len(Tail(q)) + Len(deps)
      <4>1. /\ Tail(q) \o deps \in Seq(Module)
            /\ Len(Tail(q) \o deps) = Len(Tail(q)) + Len(deps)
        BY <2>1, <3>1, ConcatProperties
      <4> QED
        BY <3>2, <4>1
    <3>5. v \in Walk /\ m \in v.seen
      BY <1>1, <2>1, <3>2, <3>3, <3>4
    <3>6. (n + 1) + Len(v.queue) = Cardinality(Edges(t, v.seen))
      <4>1. Cardinality(Edges(t, v.seen)) = Cardinality(Edges(t, w.seen)) + Len(deps)
        <5>1. w.seen \in SUBSET Module /\ dep \in Module \ w.seen
          BY <1>1, <2>1, <2>5
        <5>2. Cardinality(Edges(t, w.seen \cup {dep}))
                = Cardinality(Edges(t, w.seen)) + Len(t.deps[dep])
          BY <5>1, EdgesOfOneMore
        <5> QED
          BY <3>2, <5>2
      <4>2. Len(v.queue) = (Len(q) - 1) + Len(deps)
        BY <2>1, <3>4
      <4>3. (n + 1) + ((Len(q) - 1) + Len(deps)) = (n + Len(q)) + Len(deps)
        BY <2>1, <3>1, OneMoreTurn
      <4> QED
        BY <2>2, <4>1, <4>2, <4>3
    <3>7. Range(v.queue) = Range(Tail(q)) \cup Range(deps)
      <4>1. Range(Tail(q) \o deps) = Range(Tail(q)) \cup Range(deps)
        <5> DEFINE rest == Tail(q)
        <5>1. rest \in Seq(Module) /\ deps \in Seq(Module)
          BY <2>1, <3>1
        <5> HIDE DEF rest, deps
        <5>2. Range(rest \o deps) = Range(rest) \cup Range(deps)
          BY <5>1, RangeConcat
        <5> QED
          BY <5>2 DEF rest
      <4> QED
        BY <3>2, <4>1
    <3>8. DependsOn(t, dep) = Range(deps)
      BY DEF DependsOn, Range
    <3>9. v.seen \cup Range(v.queue) = w.seen \cup Range(q) \cup DependsOn(t, dep)
      BY <2>1, <3>2, <3>7, <3>8
    <3>10. \A x \in v.seen : DependsOn(t, x) \subseteq v.seen \cup Range(v.queue)
      BY <3>2, <3>9 DEF Walking
    <3>11. \A R \in SUBSET Module :
             IsClosed(t, m, R) => v.seen \cup Range(v.queue) \subseteq R
      <4> SUFFICES ASSUME NEW R \in SUBSET Module, IsClosed(t, m, R)
                   PROVE  v.seen \cup Range(v.queue) \subseteq R
        OBVIOUS
      <4>1. w.seen \cup Range(q) \subseteq R
        BY DEF Walking
      <4>2. dep \in R
        BY <2>1, <4>1
      <4>3. DependsOn(t, dep) \subseteq R
        BY <4>2 DEF IsClosed
      <4> QED
        BY <3>9, <4>1, <4>3
    <3>12. Walking(t, m, v, n + 1)
      BY <3>5, <3>6, <3>10, <3>11 DEF Walking
    <3> QED
      BY <3>12 DEF v
  <2> QED
    BY <2>4, <2>5
<1> QED
  BY <1>2, <1>3

LEMMA WalkEnds ==
  ASSUME NEW t, IsTopology(t), NEW m \in Module
  PROVE  /\ Walking(t, m, DependencyWalk(t, m), Turns(t))
         /\ DependencyWalk(t, m).queue = <<>>
<1>1. Turns(t) \in Nat
  <2>1. Turns(t) = Cardinality(Edges(t, Module))
    BY DEF Turns, Edges
  <2> QED
    BY <2>1, EdgesFinite
<1> DEFINE walk == CHOOSE f : WalkLoop(f, t, m, Turns(t))
<1>2. WalkLoop(walk, t, m, Turns(t))
  BY <1>1, WalkLoopExists
<1>3. DependencyWalk(t, m) = walk[Turns(t)]
  BY DEF DependencyWalk, WalkLoop, WalkStart, WalkTurn
<1> HIDE DEF walk
<1> DEFINE S == {n \in Nat : n <= Turns(t) => Walking(t, m, walk[n], n)}
<1>4. 0 \in S
  <2>1. walk[0] = WalkStart(t, m)
    BY <1>1, <1>2 DEF WalkLoop
  <2> QED
    BY <2>1, WalkStarts
<1>5. ASSUME NEW n \in S PROVE n + 1 \in S
  <2> SUFFICES ASSUME n + 1 <= Turns(t) PROVE Walking(t, m, walk[n + 1], n + 1)
    OBVIOUS
  <2>1. /\ n \in Nat /\ n + 1 \in 0..Turns(t) /\ n + 1 # 0 /\ (n + 1) - 1 = n
        /\ Walking(t, m, walk[n], n)
    BY <1>1
  <2>2. walk[n + 1] = WalkTurn(t, walk[n])
    BY <1>2, <2>1 DEF WalkLoop
  <2> QED
    BY <2>1, <2>2, WalkGoesOn
<1>6. S = Nat
  <2> HIDE DEF S
  <2>1. S \in SUBSET Nat
    BY DEF S
  <2> QED
    BY <1>4, <1>5, <2>1, Induction
<1>7. Walking(t, m, DependencyWalk(t, m), Turns(t))
  BY <1>1, <1>3, <1>6
<1> DEFINE w == DependencyWalk(t, m)
<1>8. w.queue = <<>>
  <2> SUFFICES ASSUME w.queue # <<>> PROVE FALSE
    OBVIOUS
  <2>1. w.queue \in Seq(Module) /\ w.seen \in SUBSET Module
    BY <1>7 DEF Walking
  <2>2. Len(w.queue) \in Nat \ {0}
    BY <2>1
  <2>3. Turns(t) + Len(w.queue) = Cardinality(Edges(t, w.seen))
    BY <1>7 DEF Walking
  <2>4. Cardinality(Edges(t, w.seen)) \in Nat /\ Cardinality(Edges(t, w.seen)) <= Turns(t)
    BY <2>1, EdgesFinite
  <2> QED
    BY <1>1, <2>2, <2>3, <2>4
<1> QED
  BY <1>7, <1>8

(* The walk over the dependencies of a module ends within Turns(t) turns,   *)
(* cycles and diamonds or not, and has visited exactly the modules that can *)
(* be reached from it (build_scope_layers).                                 *)
THEOREM WalkVisitsExactlyReachable ==
  ASSUME NEW t, IsTopology(t), NEW m \in Module
  PROVE  WalkVisitsReachable(t, m)
<1> DEFINE w == DependencyWalk(t, m)
<1>1. Walking(t, m, w, Turns(t)) /\ w.queue = <<>>
  BY WalkEnds
<1> HIDE DEF w
<1>2. Range(w.queue) = {}
  BY <1>1 DEF Range
<1>3. w.seen \in SUBSET Module /\ IsClosed(t, m, w.seen)
  BY <1>1, <1>2 DEF Walking, IsClosed
<1>4. \A R \in SUBSET Module : IsClosed(t, m, R) => w.seen \subseteq R
  BY <1>1 DEF Walking
<1> DEFINE Least(S) == /\ m \in S /\ \A x \in S : DependsOn(t, x) \subseteq S
                       /\ \A R \in SUBSET Module :
                            (m \in R /\ \A x \in R : DependsOn(t, x) \subseteq R) => S \subseteq R
<1>5. Least(w.seen)
  BY <1>3, <1>4 DEF IsClosed
<1>6. \A S \in SUBSET Module : Least(S) => S = w.seen
  <2> SUFFICES ASSUME NEW S \in SUBSET Module, Least(S) PROVE S = w.seen
    OBVIOUS
  <2>1. w.seen \subseteq S
    BY <1>4 DEF IsClosed
  <2>2. S \subseteq w.seen
    BY <1>3 DEF IsClosed
  <2> QED
    BY <2>1, <2>2
<1>7. Reachable(t, m) = CHOOSE S \in SUBSET Module : Least(S)
  BY DEF Reachable
<1> HIDE DEF Least
<1>8. Reachable(t, m) = w.seen
  BY <1>3, <1>5, <1>6, <1>7
<1> QED
  BY <1>1, <1>8 DEF WalkVisitsReachable, w

(* The layers of a scope are a sequence of sets of layers.                  *)
LEMMA ScopeLayersType ==
  ASSUME NEW t, IsTopology(t), NEW m \in Module, NEW cp \in Classpath, NEW root
  PROVE  BuildScopeLayers(t, m, cp, root) \in Seq(SUBSET Layer)
<1>1. VisibleSourceLayers(t, m, cp, root) \in Seq(SUBSET Layer)
  BY SourceLayersType
<1>2. ClasspathLayers(t, m, cp) \in Seq(SUBSET Layer) /\ JdkLayer(t) \in Seq(SUBSET Layer)
  BY ArchiveLayersType
<1>3. DependencyWalk(t, m).layers \in Seq(SUBSET Layer)
  BY WalkEnds DEF Walking
<1> QED
  BY <1>1, <1>2, <1>3 DEF BuildScopeLayers

-----------------------------------------------------------------------------
(* The inductive invariant.                                                 *)

IsSeq(q) == q \in Seq(Range(q))

(* A snapshot is known by where it is referred to from: the entry of a key  *)
(* in the scope cache of an index, or a request that builds or reads it.    *)
(* Each reference says for which version of which index it was made.        *)
Ref(i, k, v, s) == [index |-> i, key |-> k, version |-> v, snap |-> s]

Holding == {"store", "insert", "table", "names"}

Held(r) == Ref(reader[r].index, reader[r].key, reader[r].started, reader[r].snap)

CachedRefs ==
    UNION {{Ref(i, k, idx[i].scope_cache[k].version, idx[i].scope_cache[k].snap) :
              k \in DOMAIN idx[i].scope_cache} : i \in DOMAIN idx}

Refs == CachedRefs \cup {Held(r) : r \in {x \in Reader : reader[x].pc \in Holding}}

IndexesOK ==
    /\ IsSeq(idx) /\ current = Len(idx) /\ current # 0
    /\ active_jdk \in {NoJdk, Jdk}
    /\ \A i \in DOMAIN idx :
         /\ idx[i] = [model |-> idx[i].model, jdk |-> idx[i].jdk, buckets |-> idx[i].buckets,
                      version |-> idx[i].version, scope_cache |-> idx[i].scope_cache]
         /\ idx[i].model \in Model
         /\ idx[i].jdk \in {NoJdk, Jdk}
         /\ idx[i].version \in Nat

SnapsOK ==
    /\ IsSeq(snaps)
    /\ \A s \in DOMAIN snaps :
         /\ snaps[s] = [layers |-> snaps[s].layers, table |-> snaps[s].table]
         /\ snaps[s].layers \in Seq(SUBSET Layer)

WriterOK ==
    /\ changes \in 0..MaxChanges
    /\ writer = [pc |-> writer.pc, bucket |-> writer.bucket, batch |-> writer.batch,
                 origin |-> writer.origin]
    /\ writer.pc \in {"idle", "add", "clear", "bump"}

ReaderOK(d) ==
    /\ d = [pc |-> d.pc, index |-> d.index, key |-> d.key, started |-> d.started,
            snap |-> d.snap, todo |-> d.todo, names |-> d.names, calm |-> d.calm]
    /\ d.pc \in {"idle", "lookup", "store", "insert", "table", "names", "served"}
    /\ d.todo \in Seq(SUBSET Layer)
    /\ d.calm \in BOOLEAN
    /\ d.pc = "lookup" =>
         d.index \in DOMAIN idx /\ d.key \in Key /\ d.started \in Nat
           /\ d.started <= idx[d.index].version
    /\ d.pc \in {"lookup", "store", "insert", "table"} => d.names = {}

ReadersOK ==
    /\ reader = [r \in Reader |-> reader[r]]
    /\ \A r \in Reader : ReaderOK(reader[r])

RefsOK ==
    \A a \in Refs :
        /\ a.index \in DOMAIN idx
        /\ a.key \in Key
        /\ a.version \in Nat
        /\ a.version <= idx[a.index].version
        /\ a.snap \in DOMAIN snaps

(* A snapshot belongs to one version of one index.                          *)
RefsAgree == \A a, b \in Refs : a.snap = b.snap => a = b

(* What a reference says is up to date: it is of the version its index has, *)
(* and no writer is about to give that index another one.                   *)
UpToDate(a) ==
    /\ a.version = idx[a.index].version
    /\ a.index = current => writer.pc = "idle"

RefsFresh ==
    \A a \in Refs :
        UpToDate(a) =>
            /\ snaps[a.snap].layers = LayersOf(idx[a.index], a.key)
            /\ snaps[a.snap].table # None =>
                 snaps[a.snap].table = NamesOf(idx[a.index], snaps[a.snap].layers)

(* A name table in the making has the names of the layers already read.     *)
NamesSoFar ==
    \A r \in Reader :
        (reader[r].pc = "names" /\ UpToDate(Held(r))) =>
            reader[r].names \cup NamesOf(idx[reader[r].index], reader[r].todo)
              = NamesOf(idx[reader[r].index], snaps[reader[r].snap].layers)

(* A request that no writer disturbed works on the current version.         *)
CalmOnCurrent ==
    \A r \in Reader :
        (reader[r].calm /\ reader[r].pc # "idle") =>
            /\ writer.pc = "idle"
            /\ reader[r].pc # "served" =>
                 reader[r].index = current /\ reader[r].started = idx[current].version

IndexInv ==
    /\ IndexesOK /\ SnapsOK /\ WriterOK /\ ReadersOK
    /\ RefsOK /\ RefsAgree /\ RefsFresh
    /\ NamesSoFar /\ CalmOnCurrent /\ UndisturbedRequestsSeeIndex
-----------------------------------------------------------------------------
(* Sequences that grow and change in place.                                 *)

LEMMA SeqIsSeq ==
  ASSUME NEW S, NEW q \in Seq(S)
  PROVE  IsSeq(q) /\ DOMAIN q = 1..Len(q) /\ Len(q) \in Nat
<1>1. DOMAIN q = 1..Len(q) /\ Len(q) \in Nat /\ q \in [1..Len(q) -> S]
  OBVIOUS
<1>2. q \in [1..Len(q) -> Range(q)]
  BY <1>1 DEF Range
<1>3. q \in Seq(Range(q))
  BY <1>1, <1>2
<1> QED
  BY <1>1, <1>3 DEF IsSeq

LEMMA AppendIsSeq ==
  ASSUME NEW q, IsSeq(q), NEW e
  PROVE  /\ IsSeq(Append(q, e))
         /\ Len(q) \in Nat /\ DOMAIN q = 1..Len(q)
         /\ Len(Append(q, e)) = Len(q) + 1
         /\ DOMAIN Append(q, e) = 1..(Len(q) + 1)
         /\ Append(q, e)[Len(q) + 1] = e
         /\ \A i \in DOMAIN q : Append(q, e)[i] = q[i]
<1> DEFINE S == Range(q) \cup {e}
<1>1. q \in Seq(Range(q))
  BY DEF IsSeq
<1>2. q \in Seq(S) /\ e \in S
  BY <1>1, SeqMonotonic
<1> HIDE DEF S
<1>3. /\ Append(q, e) \in Seq(S) /\ Len(q) \in Nat /\ DOMAIN q = 1..Len(q)
      /\ Len(Append(q, e)) = Len(q) + 1 /\ Append(q, e)[Len(q) + 1] = e
      /\ \A i \in 1..Len(q) : Append(q, e)[i] = q[i]
  BY <1>2
<1> QED
  BY <1>3, SeqIsSeq

LEMMA ExceptIsSeq ==
  ASSUME NEW q, IsSeq(q), NEW i \in DOMAIN q, NEW e
  PROVE  /\ IsSeq([q EXCEPT ![i] = e])
         /\ Len([q EXCEPT ![i] = e]) = Len(q)
         /\ DOMAIN [q EXCEPT ![i] = e] = DOMAIN q
         /\ [q EXCEPT ![i] = e][i] = e
         /\ \A j \in DOMAIN q : j # i => [q EXCEPT ![i] = e][j] = q[j]
<1> DEFINE S == Range(q) \cup {e}
<1>1. q \in Seq(Range(q))
  BY DEF IsSeq
<1>2. q \in Seq(S) /\ e \in S
  BY <1>1, SeqMonotonic
<1> HIDE DEF S
<1>3. i \in 1..Len(q) /\ DOMAIN q = 1..Len(q)
  BY <1>2
<1>4. [q EXCEPT ![i] = e] \in Seq(S) /\ Len([q EXCEPT ![i] = e]) = Len(q)
  BY <1>2, <1>3, ExceptSeq
<1> QED
  BY <1>3, <1>4, SeqIsSeq

-----------------------------------------------------------------------------
(* What a scope shows depends on the model, the JDK and the buckets only.   *)

SameContents(ix, iy) == ix.model = iy.model /\ ix.jdk = iy.jdk /\ ix.buckets = iy.buckets

LEMMA SameScopes ==
  ASSUME NEW ix, NEW iy, SameContents(ix, iy)
  PROVE  /\ \A key : LayersOf(ix, key) = LayersOf(iy, key)
         /\ \A layers : NamesOf(ix, layers) = NamesOf(iy, layers)
<1>1. Topology(ix) = Topology(iy)
  BY DEF Topology, SameContents
<1>2. \A l : NamesIn(ix, l) = NamesIn(iy, l)
  BY DEF NamesIn, Bucket, SameContents
<1> QED
  BY <1>1, <1>2 DEF LayersOf, NamesOf

LEMMA LayersOfType ==
  ASSUME NEW ix, ix.model \in Model, ix.jdk \in {NoJdk, Jdk}, NEW key \in Key
  PROVE  LayersOf(ix, key) \in Seq(SUBSET Layer)
<1>1. IsTopology(Topology(ix))
  <2> DEFINE t == Topology(ix)
  <2>1. /\ t.deps = ix.model.deps /\ t.roots = ix.model.roots
        /\ t.classpath = ix.model.classpath /\ t.jdk = ix.jdk
    BY DEF Topology
  <2> HIDE DEF t
  <2>2. IsTopology(t)
    BY <2>1, ModelAssumption, JdkAssumption DEF IsTopology
  <2> QED
    BY <2>2 DEF t
<1>2. key.module \in Module /\ key.classpath \in Classpath
  BY ContextAssumption DEF Key
<1> QED
  BY <1>1, <1>2, ScopeLayersType DEF LayersOf

(* The names of a sequence of layers are those of its head and its tail.    *)
LEMMA NamesHeadTail ==
  ASSUME NEW ix, NEW layers \in Seq(SUBSET Layer)
  PROVE  /\ NamesOf(ix, <<>>) = {}
         /\ layers # <<>> =>
              NamesOf(ix, <<Head(layers)>>) \cup NamesOf(ix, Tail(layers)) = NamesOf(ix, layers)
<1>1. \A q : Flat(q) = UNION Range(q)
  BY DEF Flat, Range
<1>2. Flat(<<>>) = {}
  BY DEF Flat
<1>3. ASSUME layers # <<>>
      PROVE  Flat(<<Head(layers)>>) \cup Flat(Tail(layers)) = Flat(layers)
  <2>1. Range(layers) = {Head(layers)} \cup Range(Tail(layers))
    BY <1>3, RangeHeadTail
  <2>2. Range(<<Head(layers)>>) = {Head(layers)}
    BY DEF Range
  <2> QED
    BY <1>1, <2>1, <2>2
<1>4. \A q : NamesOf(ix, q) = UNION {NamesIn(ix, l) : l \in Flat(q)}
  BY DEF NamesOf
<1> QED
  BY <1>2, <1>3, <1>4
-----------------------------------------------------------------------------
(* References.                                                              *)

LEMMA RefFields ==
  \A i, k, v, s : /\ Ref(i, k, v, s).index = i /\ Ref(i, k, v, s).key = k
                  /\ Ref(i, k, v, s).version = v /\ Ref(i, k, v, s).snap = s
BY DEF Ref

LEMMA RefsMembers ==
  /\ \A i \in DOMAIN idx : \A k \in DOMAIN idx[i].scope_cache :
       Ref(i, k, idx[i].scope_cache[k].version, idx[i].scope_cache[k].snap) \in Refs
  /\ \A r \in Reader : reader[r].pc \in Holding => Held(r) \in Refs
BY DEF Refs, CachedRefs

(* Entries may go, and indexes be published: no reference is new.           *)
CacheShrinks ==
    \A i \in DOMAIN idx' : \A k \in DOMAIN idx'[i].scope_cache :
        /\ i \in DOMAIN idx
        /\ k \in DOMAIN idx[i].scope_cache
        /\ idx'[i].scope_cache[k] = idx[i].scope_cache[k]

LEMMA CacheOnlyShrinks ==
  ASSUME CacheShrinks
  PROVE  CachedRefs' \subseteq CachedRefs
<1> SUFFICES ASSUME NEW a \in CachedRefs' PROVE a \in CachedRefs
  OBVIOUS
<1>0. PICK i \in DOMAIN idx' : \E k \in DOMAIN idx'[i].scope_cache :
         a = Ref(i, k, idx'[i].scope_cache[k].version, idx'[i].scope_cache[k].snap)
  BY DEF CachedRefs
<1>1. PICK k \in DOMAIN idx'[i].scope_cache :
         a = Ref(i, k, idx'[i].scope_cache[k].version, idx'[i].scope_cache[k].snap)
  BY <1>0
<1>2. /\ i \in DOMAIN idx /\ k \in DOMAIN idx[i].scope_cache
      /\ a = Ref(i, k, idx[i].scope_cache[k].version, idx[i].scope_cache[k].snap)
  BY <1>1 DEF CacheShrinks
<1> QED
  BY <1>2 DEF CachedRefs

(* A step of a writer leaves the requests alone but for their calm.         *)
OnlyCalm ==
    \A r \in Reader :
        /\ reader'[r] = [reader[r] EXCEPT !.calm = reader'[r].calm]
        /\ reader'[r].calm \in BOOLEAN

(* What a step does to the published indexes, as the readers see it: an     *)
(* index that can still be up to date shows what it showed.                 *)
IndexesFollow ==
    \A i \in DOMAIN idx :
        /\ i \in DOMAIN idx'
        /\ idx[i].version <= idx'[i].version
        /\ (idx'[i].version = idx[i].version /\ (i = current' => writer'.pc = "idle")) =>
             /\ i = current => writer.pc = "idle"
             /\ SameContents(idx[i], idx'[i])

LEMMA UpToDateBefore ==
  ASSUME RefsOK, IndexesOK, IndexesOK', IndexesFollow,
         NEW a \in Refs, UpToDate(a)'
  PROVE  UpToDate(a) /\ SameContents(idx[a.index], idx'[a.index])
<1> DEFINE i == a.index
           v == a.version
<1>1. /\ i \in DOMAIN idx /\ v \in Nat /\ v <= idx[i].version /\ idx[i].version \in Nat
  BY DEF RefsOK, IndexesOK
<1>2. /\ i \in DOMAIN idx' /\ idx[i].version <= idx'[i].version
      /\ (idx'[i].version = idx[i].version /\ (i = current' => writer'.pc = "idle")) =>
             /\ i = current => writer.pc = "idle"
             /\ SameContents(idx[i], idx'[i])
  BY <1>1 DEF IndexesFollow
<1>3. idx'[i].version \in Nat
  BY <1>2 DEF IndexesOK
<1>4. v = idx'[i].version /\ (i = current' => writer'.pc = "idle")
  BY DEF UpToDate
<1> HIDE DEF i, v
<1>5. v = idx[i].version /\ idx'[i].version = idx[i].version
  BY <1>1, <1>2, <1>3, <1>4
<1> QED
  BY <1>2, <1>4, <1>5 DEF UpToDate, i, v

LEMMA HeldOnlyCalm ==
  ASSUME ReadersOK, OnlyCalm, NEW r \in Reader
  PROVE  /\ Held(r)' = Held(r)
         /\ reader'[r].pc = reader[r].pc /\ reader'[r].index = reader[r].index
         /\ reader'[r].key = reader[r].key /\ reader'[r].started = reader[r].started
         /\ reader'[r].snap = reader[r].snap /\ reader'[r].todo = reader[r].todo
         /\ reader'[r].names = reader[r].names
<1>1. reader[r] = [pc |-> reader[r].pc, index |-> reader[r].index, key |-> reader[r].key,
                   started |-> reader[r].started, snap |-> reader[r].snap,
                   todo |-> reader[r].todo, names |-> reader[r].names, calm |-> reader[r].calm]
  BY DEF ReadersOK, ReaderOK
<1>2. reader'[r] = [reader[r] EXCEPT !.calm = reader'[r].calm]
  BY DEF OnlyCalm
<1>3. /\ reader'[r].pc = reader[r].pc /\ reader'[r].index = reader[r].index
      /\ reader'[r].key = reader[r].key /\ reader'[r].started = reader[r].started
      /\ reader'[r].snap = reader[r].snap /\ reader'[r].todo = reader[r].todo
      /\ reader'[r].names = reader[r].names
  BY <1>1, <1>2
<1> QED
  BY <1>3 DEF Held

(* A step of a writer keeps what is known of snapshots and requests.        *)
LEMMA WriterKeeps ==
  ASSUME IndexInv, IndexesOK', snaps' = snaps, CacheShrinks, IndexesFollow,
         OnlyCalm, reader' = [r \in Reader |-> reader'[r]]
  PROVE  SnapsOK' /\ ReadersOK' /\ RefsOK' /\ RefsAgree' /\ RefsFresh' /\ NamesSoFar'
<1> USE DEF IndexInv
<1>1. SnapsOK'
  BY DEF SnapsOK
<1>2. \A r \in Reader : Held(r)' = Held(r) /\ reader'[r].pc = reader[r].pc
  BY HeldOnlyCalm
<1>3. Refs' \subseteq Refs
  <2>1. CachedRefs' \subseteq Refs
    BY CacheOnlyShrinks DEF Refs
  <2>2. \A r \in Reader : reader'[r].pc \in Holding => Held(r)' \in Refs
    BY <1>2, RefsMembers
  <2> QED
    BY <2>1, <2>2 DEF Refs
<1>4. ReadersOK'
  <2> SUFFICES ASSUME NEW r \in Reader PROVE ReaderOK(reader[r])'
    BY DEF ReadersOK
  <2> DEFINE d == reader[r]
             e == reader'[r]
  <2>1. ReaderOK(d)
    BY DEF ReadersOK
  <2>2. e = [d EXCEPT !.calm = e.calm] /\ e.calm \in BOOLEAN
    BY DEF OnlyCalm
  <2>3. e = [pc |-> e.pc, index |-> e.index, key |-> e.key, started |-> e.started,
             snap |-> e.snap, todo |-> e.todo, names |-> e.names, calm |-> e.calm]
    <3>1. d = [pc |-> d.pc, index |-> d.index, key |-> d.key, started |-> d.started,
               snap |-> d.snap, todo |-> d.todo, names |-> d.names, calm |-> d.calm]
      BY <2>1 DEF ReaderOK
    <3> HIDE DEF d, e
    <3> QED
      BY <3>1, <2>2
  <2>4. /\ e.pc = d.pc /\ e.index = d.index /\ e.key = d.key /\ e.started = d.started
        /\ e.snap = d.snap /\ e.todo = d.todo /\ e.names = d.names
    BY HeldOnlyCalm
  <2>5. d.pc = "lookup" =>
          d.index \in DOMAIN idx' /\ d.key \in Key /\ d.started \in Nat
            /\ d.started <= idx'[d.index].version
    <3> SUFFICES ASSUME d.pc = "lookup"
                 PROVE  d.index \in DOMAIN idx' /\ d.key \in Key /\ d.started \in Nat
                          /\ d.started <= idx'[d.index].version
      OBVIOUS
    <3>1. /\ d.index \in DOMAIN idx /\ d.key \in Key /\ d.started \in Nat
          /\ d.started <= idx[d.index].version
      BY <2>1 DEF ReaderOK
    <3>2. d.index \in DOMAIN idx' /\ idx[d.index].version <= idx'[d.index].version
      BY <3>1 DEF IndexesFollow
    <3>3. idx[d.index].version \in Nat /\ idx'[d.index].version \in Nat
      BY <3>1, <3>2 DEF IndexesOK
    <3> HIDE DEF d
    <3> QED
      BY <3>1, <3>2, <3>3
  <2>6. /\ d.pc \in {"idle", "lookup", "store", "insert", "table", "names", "served"}
        /\ d.todo \in Seq(SUBSET Layer)
        /\ d.pc \in {"lookup", "store", "insert", "table"} => d.names = {}
    BY <2>1 DEF ReaderOK
  <2> QED
    BY <2>2, <2>3, <2>4, <2>5, <2>6 DEF ReaderOK, Key, Layer
<1>5. RefsOK'
  <2> SUFFICES ASSUME NEW a \in Refs'
               PROVE  /\ a.index \in DOMAIN idx' /\ a.key \in Key /\ a.version \in Nat
                      /\ a.version <= idx'[a.index].version /\ a.snap \in DOMAIN snaps'
    BY DEF RefsOK, Key
  <2>1. /\ a.index \in DOMAIN idx /\ a.key \in Key /\ a.version \in Nat
        /\ a.version <= idx[a.index].version /\ a.snap \in DOMAIN snaps
    BY <1>3 DEF RefsOK
  <2>2. a.index \in DOMAIN idx' /\ idx[a.index].version <= idx'[a.index].version
    BY <2>1 DEF IndexesFollow
  <2>3. idx[a.index].version \in Nat /\ idx'[a.index].version \in Nat
    BY <2>1, <2>2 DEF IndexesOK
  <2>4. a.version <= idx'[a.index].version
    BY <2>1, <2>2, <2>3
  <2> QED
    BY <2>1, <2>2, <2>4
<1>6. RefsAgree'
  BY <1>3 DEF RefsAgree
<1>7. RefsFresh'
  <2> SUFFICES ASSUME NEW a \in Refs', UpToDate(a)'
               PROVE  /\ snaps'[a.snap].layers = LayersOf(idx'[a.index], a.key)
                      /\ snaps'[a.snap].table # None =>
                           snaps'[a.snap].table = NamesOf(idx'[a.index], snaps'[a.snap].layers)
    BY DEF RefsFresh
  <2>1. a \in Refs
    BY <1>3
  <2>2. UpToDate(a) /\ SameContents(idx[a.index], idx'[a.index])
    BY <2>1, UpToDateBefore
  <2>3. /\ snaps[a.snap].layers = LayersOf(idx[a.index], a.key)
        /\ snaps[a.snap].table # None =>
             snaps[a.snap].table = NamesOf(idx[a.index], snaps[a.snap].layers)
    BY <2>1, <2>2 DEF RefsFresh
  <2>4. /\ LayersOf(idx[a.index], a.key) = LayersOf(idx'[a.index], a.key)
        /\ \A layers : NamesOf(idx[a.index], layers) = NamesOf(idx'[a.index], layers)
    BY <2>2, SameScopes
  <2> QED
    BY <2>3, <2>4
<1>8. NamesSoFar'
  <2> SUFFICES ASSUME NEW r \in Reader, reader'[r].pc = "names", UpToDate(Held(r))'
               PROVE  reader'[r].names \cup NamesOf(idx'[reader'[r].index], reader'[r].todo)
                        = NamesOf(idx'[reader'[r].index], snaps'[reader'[r].snap].layers)
    BY DEF NamesSoFar
  <2> DEFINE d == reader[r]
  <2>1. /\ Held(r)' = Held(r) /\ reader'[r].index = d.index /\ reader'[r].snap = d.snap
        /\ reader'[r].todo = d.todo /\ reader'[r].names = d.names /\ d.pc = "names"
    BY HeldOnlyCalm
  <2>2. Held(r) \in Refs /\ Held(r).index = d.index
    BY <2>1, RefsMembers, RefFields DEF Holding, Held
  <2>3. \A b : b = Held(r) => UpToDate(b)'
    BY <2>1 DEF UpToDate
  <2>4. UpToDate(Held(r)) /\ SameContents(idx[d.index], idx'[d.index])
    <3> DEFINE a == Held(r)
    <3>1. a \in Refs /\ a.index = d.index
      BY <2>2
    <3>2. \A b : b = a /\ UpToDate(b)' => UpToDate(b) /\ SameContents(idx[b.index], idx'[b.index])
      BY <3>1, UpToDateBefore
    <3> QED
      BY <2>1, <2>3, <3>1, <3>2
  <2>5. d.names \cup NamesOf(idx[d.index], d.todo) = NamesOf(idx[d.index], snaps[d.snap].layers)
    BY <2>1, <2>4 DEF NamesSoFar
  <2>6. \A layers : NamesOf(idx[d.index], layers) = NamesOf(idx'[d.index], layers)
    BY <2>4, SameScopes
  <2> QED
    BY <2>1, <2>5, <2>6
<1> QED
  BY <1>1, <1>4, <1>5, <1>6, <1>7, <1>8
-----------------------------------------------------------------------------
(* The steps of writers.                                                    *)

IsIndex(ix) ==
    /\ ix = [model |-> ix.model, jdk |-> ix.jdk, buckets |-> ix.buckets,
             version |-> ix.version, scope_cache |-> ix.scope_cache]
    /\ ix.model \in Model
    /\ ix.jdk \in {NoJdk, Jdk}
    /\ ix.version \in Nat

LEMMA CurrentIndex ==
  ASSUME IndexesOK
  PROVE  current \in DOMAIN idx /\ IsIndex(idx[current])
<1>1. DOMAIN idx = 1..Len(idx) /\ Len(idx) \in Nat
  BY SeqIsSeq DEF IndexesOK, IsSeq
<1>2. current \in DOMAIN idx
  BY <1>1 DEF IndexesOK
<1> QED
  BY <1>2 DEF IndexesOK, IsIndex

LEMMA OneIndexChanges ==
  ASSUME IndexesOK, NEW e, IsIndex(e), idx' = [idx EXCEPT ![current] = e],
         current' = current, active_jdk' \in {NoJdk, Jdk}
  PROVE  /\ IndexesOK'
         /\ DOMAIN idx' = DOMAIN idx /\ idx'[current] = e
         /\ \A i \in DOMAIN idx : i # current => idx'[i] = idx[i]
<1>1. current \in DOMAIN idx /\ IsSeq(idx)
  BY CurrentIndex DEF IndexesOK
<1>2. /\ IsSeq(idx') /\ Len(idx') = Len(idx) /\ DOMAIN idx' = DOMAIN idx
      /\ idx'[current] = e /\ \A i \in DOMAIN idx : i # current => idx'[i] = idx[i]
  BY <1>1, ExceptIsSeq
<1>3. \A i \in DOMAIN idx : IsIndex(idx[i])
  BY DEF IndexesOK, IsIndex
<1>4. \A i \in DOMAIN idx' : IsIndex(idx'[i])
  BY <1>2, <1>3
<1>5. IsSeq(idx)' /\ current' = Len(idx)' /\ current' # 0 /\ active_jdk' \in {NoJdk, Jdk}
  BY <1>2 DEF IndexesOK, IsSeq, Range
<1> QED
  BY <1>2, <1>4, <1>5 DEF IndexesOK, IsIndex

(* The current index gets another content or an empty cache: as the readers *)
(* see it, it follows if a writer is at work after the step, or its content *)
(* is what it was and no writer was at work before.                         *)
LEMMA ChangeFollows ==
  ASSUME IndexesOK, NEW e, IsIndex(e), idx' = [idx EXCEPT ![current] = e],
         current' = current, active_jdk' \in {NoJdk, Jdk},
         \/ e.version = idx[current].version /\ writer'.pc # "idle"
         \/ e.version = idx[current].version + 1
         \/ /\ e.version = idx[current].version
            /\ writer.pc = "idle"
            /\ SameContents(idx[current], e)
  PROVE  IndexesFollow
<1>1. /\ DOMAIN idx' = DOMAIN idx /\ idx'[current] = e
      /\ \A i \in DOMAIN idx : i # current => idx'[i] = idx[i]
  BY OneIndexChanges
<1>2. idx[current].version \in Nat /\ e.version \in Nat
  BY CurrentIndex DEF IsIndex
<1>3. ASSUME NEW i \in DOMAIN idx
      PROVE  /\ i \in DOMAIN idx'
             /\ idx[i].version <= idx'[i].version
             /\ (idx'[i].version = idx[i].version /\ (i = current' => writer'.pc = "idle")) =>
                  /\ i = current => writer.pc = "idle"
                  /\ SameContents(idx[i], idx'[i])
  <2>1. CASE i = current
    BY <1>1, <1>2, <2>1
  <2>2. CASE i # current
    <3>1. idx'[i] = idx[i] /\ i \in DOMAIN idx' /\ idx[i].version \in Nat
      BY <1>1, <2>2 DEF IndexesOK
    <3>2. idx[i].version <= idx'[i].version
      BY <3>1
    <3> QED
      BY <2>2, <3>1, <3>2 DEF SameContents
  <2> QED
    BY <2>1, <2>2
<1> QED
  BY <1>3 DEF IndexesFollow

LEMMA CacheFollows ==
  ASSUME IndexesOK, NEW e, IsIndex(e), idx' = [idx EXCEPT ![current] = e],
         current' = current, active_jdk' \in {NoJdk, Jdk},
         e.scope_cache = idx[current].scope_cache \/ DOMAIN e.scope_cache = {}
  PROVE  CacheShrinks
<1>1. /\ DOMAIN idx' = DOMAIN idx /\ idx'[current] = e
      /\ \A i \in DOMAIN idx : i # current => idx'[i] = idx[i]
  BY OneIndexChanges
<1> QED
  BY <1>1 DEF CacheShrinks

(* A request that a change finds at work is not calm afterwards.            *)
LEMMA ChangeDisturbs ==
  ASSUME ReadersOK,
         reader' = [r \in Reader |-> [reader[r] EXCEPT !.calm = @ /\ reader[r].pc = "idle"]]
  PROVE  /\ OnlyCalm
         /\ reader' = [r \in Reader |-> reader'[r]]
         /\ \A r \in Reader : reader'[r].pc # "idle" => ~reader'[r].calm
<1> SUFFICES ASSUME NEW r \in Reader
             PROVE  /\ reader'[r] = [reader[r] EXCEPT !.calm = reader'[r].calm]
                    /\ reader'[r].calm \in BOOLEAN
                    /\ reader'[r].pc # "idle" => ~reader'[r].calm
  BY DEF OnlyCalm
<1> DEFINE d == reader[r]
           e == reader'[r]
<1>1. e = [d EXCEPT !.calm = d.calm /\ d.pc = "idle"]
  OBVIOUS
<1>2. /\ d = [pc |-> d.pc, index |-> d.index, key |-> d.key, started |-> d.started,
              snap |-> d.snap, todo |-> d.todo, names |-> d.names, calm |-> d.calm]
      /\ d.calm \in BOOLEAN
  BY DEF ReadersOK, ReaderOK
<1> HIDE DEF d, e
<1>3. e.calm = (d.calm /\ d.pc = "idle") /\ e.pc = d.pc
  BY <1>1, <1>2
<1>4. e.calm \in BOOLEAN
  BY <1>3
<1>5. e = [d EXCEPT !.calm = e.calm]
  BY <1>1, <1>3
<1> QED
  BY <1>3, <1>4, <1>5 DEF d, e

LEMMA RestlessAreRight ==
  ASSUME \A r \in Reader : reader'[r].pc # "idle" => ~reader'[r].calm
  PROVE  CalmOnCurrent' /\ UndisturbedRequestsSeeIndex'
BY DEF CalmOnCurrent, UndisturbedRequestsSeeIndex

(* While a writer is at work no request is calm.                            *)
LEMMA BusyMeansRestless ==
  ASSUME CalmOnCurrent, writer.pc # "idle", reader' = reader
  PROVE  \A r \in Reader : reader'[r].pc # "idle" => ~reader'[r].calm
BY DEF CalmOnCurrent

LEMMA UnchangedReaders ==
  ASSUME ReadersOK, reader' = reader
  PROVE  OnlyCalm /\ reader' = [r \in Reader |-> reader'[r]]
<1> SUFFICES ASSUME NEW r \in Reader
             PROVE  /\ reader[r] = [reader[r] EXCEPT !.calm = reader[r].calm]
                    /\ reader[r].calm \in BOOLEAN
  BY DEF ReadersOK, OnlyCalm
<1> DEFINE d == reader[r]
<1>1. /\ d = [pc |-> d.pc, index |-> d.index, key |-> d.key, started |-> d.started,
              snap |-> d.snap, todo |-> d.todo, names |-> d.names, calm |-> d.calm]
      /\ d.calm \in BOOLEAN
  BY DEF ReadersOK, ReaderOK
<1> HIDE DEF d
<1>2. d = [d EXCEPT !.calm = d.calm]
  BY <1>1
<1> QED
  BY <1>1, <1>2 DEF d
LEMMA BucketsFollow ==
  ASSUME IndexesOK, NEW l, NEW classes, SetBuckets(l, classes),
         current' = current, active_jdk' = active_jdk, writer'.pc # "idle"
  PROVE  IndexesOK' /\ IndexesFollow /\ CacheShrinks
<1> DEFINE ix == idx[current]
           buckets == [k \in DOMAIN ix.buckets \cup {l} |->
                         IF k = l THEN classes ELSE ix.buckets[k]]
           e == [ix EXCEPT !.buckets = buckets]
<1>1. idx' = [idx EXCEPT ![current] = e] /\ active_jdk' \in {NoJdk, Jdk}
  BY DEF SetBuckets, IndexesOK
<1>2. IsIndex(ix)
  BY CurrentIndex
<1> HIDE DEF buckets, ix
<1>3. IsIndex(e) /\ e.version = ix.version /\ e.scope_cache = ix.scope_cache
  BY <1>2 DEF IsIndex
<1> HIDE DEF e
<1>4. IndexesOK'
  BY <1>1, <1>3, OneIndexChanges
<1>5. IndexesFollow
  BY <1>1, <1>3, ChangeFollows DEF ix
<1>6. CacheShrinks
  BY <1>1, <1>3, CacheFollows DEF ix
<1> QED
  BY <1>4, <1>5, <1>6

LEMMA ChangeSound ==
  ASSUME IndexInv, NEW w, Change(w), w.pc \in {"add", "clear"},
         w = [pc |-> w.pc, bucket |-> w.bucket, batch |-> w.batch, origin |-> w.origin],
         IndexesOK', IndexesFollow, CacheShrinks, snaps' = snaps
  PROVE  IndexInv'
<1> USE DEF IndexInv
<1>1. WriterOK'
  BY BoundAssumption DEF WriterOK, Change
<1>2. /\ OnlyCalm /\ reader' = [r \in Reader |-> reader'[r]]
      /\ \A r \in Reader : reader'[r].pc # "idle" => ~reader'[r].calm
  BY ChangeDisturbs DEF Change
<1>3. SnapsOK' /\ ReadersOK' /\ RefsOK' /\ RefsAgree' /\ RefsFresh' /\ NamesSoFar'
  BY <1>2, WriterKeeps
<1> QED
  BY <1>1, <1>2, <1>3, RestlessAreRight

LEMMA UpdateSourceSound ==
  ASSUME IndexInv, NEW o \in Origin, NEW batch \in Texts[o], UpdateSource(o, batch)
  PROVE  IndexInv'
<1> DEFINE w == [pc |-> "add", bucket |-> Target(o), batch |-> batch, origin |-> o]
<1>1. /\ Change(w) /\ w.pc \in {"add", "clear"} /\ writer'.pc # "idle"
      /\ w = [pc |-> w.pc, bucket |-> w.bucket, batch |-> w.batch, origin |-> w.origin]
  BY DEF UpdateSource, Change
<1>2. IndexesOK' /\ IndexesFollow /\ CacheShrinks
  <2> DEFINE classes == Bucket(idx[current], Target(o))
                          \ FromOrigin(Bucket(idx[current], Target(o)), o)
  <2>1. SetBuckets(Target(o), classes) /\ current' = current /\ active_jdk' = active_jdk
    BY DEF UpdateSource
  <2> HIDE DEF classes
  <2> QED
    BY <1>1, <2>1, BucketsFollow DEF IndexInv
<1>3. snaps' = snaps
  BY DEF UpdateSource
<1> HIDE DEF w
<1> QED
  BY <1>1, <1>2, <1>3, ChangeSound

LEMMA RemoveSourceOriginSound ==
  ASSUME IndexInv, NEW o \in Origin, RemoveSourceOrigin(o)
  PROVE  IndexInv'
<1> DEFINE w == [Idle EXCEPT !.pc = "clear"]
<1>1. /\ Change(w) /\ w.pc \in {"add", "clear"} /\ writer'.pc # "idle"
      /\ w = [pc |-> w.pc, bucket |-> w.bucket, batch |-> w.batch, origin |-> w.origin]
  BY DEF RemoveSourceOrigin, Change, Idle
<1>2. IndexesOK' /\ IndexesFollow /\ CacheShrinks
  <2> DEFINE classes == Bucket(idx[current], Target(o))
                          \ FromOrigin(Bucket(idx[current], Target(o)), o)
  <2>1. SetBuckets(Target(o), classes) /\ current' = current /\ active_jdk' = active_jdk
    BY DEF RemoveSourceOrigin
  <2> HIDE DEF classes
  <2> QED
    BY <1>1, <2>1, BucketsFollow DEF IndexInv
<1>3. snaps' = snaps
  BY DEF RemoveSourceOrigin
<1> HIDE DEF w
<1> QED
  BY <1>1, <1>2, <1>3, ChangeSound

LEMMA SetJdkSound ==
  ASSUME IndexInv, NEW stored \in BOOLEAN, SetJdk(stored)
  PROVE  IndexInv'
<1> DEFINE w == [Idle EXCEPT !.pc = "clear"]
           ix == idx[current]
           e == [ix EXCEPT !.jdk = Jdk]
<1>1. /\ Change(w) /\ w.pc \in {"add", "clear"} /\ writer'.pc # "idle"
      /\ w = [pc |-> w.pc, bucket |-> w.bucket, batch |-> w.batch, origin |-> w.origin]
  BY DEF SetJdk, Change, Idle
<1>2. idx' = [idx EXCEPT ![current] = e] /\ current' = current /\ active_jdk' \in {NoJdk, Jdk}
  BY DEF SetJdk
<1>3. IsIndex(ix)
  BY CurrentIndex DEF IndexInv
<1> HIDE DEF ix
<1>4. IsIndex(e) /\ e.version = ix.version /\ e.scope_cache = ix.scope_cache
  BY <1>3 DEF IsIndex
<1> HIDE DEF e
<1>5. IndexesOK'
  BY <1>2, <1>4, OneIndexChanges DEF IndexInv
<1>6. IndexesFollow
  BY <1>1, <1>2, <1>4, ChangeFollows DEF ix, IndexInv
<1>7. CacheShrinks
  BY <1>2, <1>4, CacheFollows DEF ix, IndexInv
<1>8. snaps' = snaps
  BY DEF SetJdk
<1> HIDE DEF w
<1> QED
  BY <1>1, <1>5, <1>6, <1>7, <1>8, ChangeSound

(* The later steps of the writer that holds the mutex.                      *)
LEMMA WriterGoesOn ==
  ASSUME IndexInv, writer.pc # "idle", WriterOK', IndexesOK', IndexesFollow, CacheShrinks,
         snaps' = snaps, reader' = reader
  PROVE  IndexInv'
<1> USE DEF IndexInv
<1>1. \A r \in Reader : reader'[r].pc # "idle" => ~reader'[r].calm
  BY BusyMeansRestless
<1>2. OnlyCalm /\ reader' = [r \in Reader |-> reader'[r]]
  BY UnchangedReaders
<1>3. SnapsOK' /\ ReadersOK' /\ RefsOK' /\ RefsAgree' /\ RefsFresh' /\ NamesSoFar'
  BY <1>2, WriterKeeps
<1> QED
  BY <1>1, <1>3, RestlessAreRight

LEMMA AddClassesSound ==
  ASSUME IndexInv, AddClasses
  PROVE  IndexInv'
<1>1. /\ writer.pc # "idle" /\ writer' = [writer EXCEPT !.pc = "clear"]
      /\ changes' = changes /\ snaps' = snaps /\ reader' = reader
      /\ current' = current /\ active_jdk' = active_jdk
  BY DEF AddClasses
<1>2. WriterOK' /\ writer'.pc # "idle"
  BY <1>1 DEF IndexInv, WriterOK
<1>3. IndexesOK' /\ IndexesFollow /\ CacheShrinks
  <2> DEFINE classes == Overlay(Bucket(idx[current], writer.bucket), writer.batch)
  <2>1. SetBuckets(writer.bucket, classes)
    BY DEF AddClasses
  <2> HIDE DEF classes
  <2> QED
    BY <1>1, <1>2, <2>1, BucketsFollow DEF IndexInv
<1> QED
  BY <1>1, <1>2, <1>3, WriterGoesOn

LEMMA ClearScopeCacheSound ==
  ASSUME IndexInv, ClearScopeCache
  PROVE  IndexInv'
<1> DEFINE ix == idx[current]
           e == [ix EXCEPT !.scope_cache = [k \in {} |-> None]]
<1>1. /\ writer.pc # "idle" /\ writer' = [writer EXCEPT !.pc = "bump"]
      /\ changes' = changes /\ snaps' = snaps /\ reader' = reader
      /\ current' = current /\ active_jdk' \in {NoJdk, Jdk}
      /\ idx' = [idx EXCEPT ![current] = e]
  BY DEF ClearScopeCache, IndexInv, IndexesOK
<1>2. WriterOK' /\ writer'.pc # "idle"
  BY <1>1 DEF IndexInv, WriterOK
<1>3. IsIndex(ix)
  BY CurrentIndex DEF IndexInv
<1> HIDE DEF ix
<1>4. IsIndex(e) /\ e.version = ix.version /\ DOMAIN e.scope_cache = {}
  BY <1>3 DEF IsIndex
<1> HIDE DEF e
<1>5. IndexesOK'
  BY <1>1, <1>4, OneIndexChanges DEF IndexInv
<1>6. IndexesFollow
  BY <1>1, <1>2, <1>4, ChangeFollows DEF ix, IndexInv
<1>7. CacheShrinks
  BY <1>1, <1>4, CacheFollows DEF ix, IndexInv
<1> QED
  BY <1>1, <1>2, <1>5, <1>6, <1>7, WriterGoesOn

LEMMA IncrementVersionSound ==
  ASSUME IndexInv, IncrementVersion
  PROVE  IndexInv'
<1> DEFINE ix == idx[current]
           e == [ix EXCEPT !.version = ix.version + 1]
<1>1. /\ writer.pc # "idle" /\ writer' = Idle
      /\ changes' = changes /\ snaps' = snaps /\ reader' = reader
      /\ current' = current /\ active_jdk' \in {NoJdk, Jdk}
      /\ idx' = [idx EXCEPT ![current] = e]
  BY DEF IncrementVersion, IndexInv, IndexesOK
<1>2. WriterOK'
  BY <1>1 DEF IndexInv, WriterOK, Idle
<1>3. IsIndex(ix)
  BY CurrentIndex DEF IndexInv
<1> HIDE DEF ix
<1>4. IsIndex(e) /\ e.version = ix.version + 1 /\ e.scope_cache = ix.scope_cache
  BY <1>3 DEF IsIndex
<1> HIDE DEF e
<1>5. IndexesOK'
  BY <1>1, <1>4, OneIndexChanges DEF IndexInv
<1>6. IndexesFollow
  BY <1>1, <1>4, ChangeFollows DEF ix, IndexInv
<1>7. CacheShrinks
  BY <1>1, <1>4, CacheFollows DEF ix, IndexInv
<1> QED
  BY <1>1, <1>2, <1>5, <1>6, <1>7, WriterGoesOn

LEMMA ClearAnalysisCachesSound ==
  ASSUME IndexInv, ClearAnalysisCaches
  PROVE  IndexInv'
<1> USE DEF IndexInv
<1> DEFINE ix == idx[current]
           e == [ix EXCEPT !.scope_cache = [k \in {} |-> None]]
<1>1. /\ writer.pc = "idle" /\ writer' = writer
      /\ changes' = changes /\ snaps' = snaps /\ reader' = reader
      /\ current' = current /\ active_jdk' \in {NoJdk, Jdk}
      /\ idx' = [idx EXCEPT ![current] = e]
  BY DEF ClearAnalysisCaches, IndexesOK
<1>2. WriterOK'
  BY <1>1 DEF WriterOK
<1>3. IsIndex(ix)
  BY CurrentIndex
<1> HIDE DEF ix
<1>4. /\ IsIndex(e) /\ e.version = ix.version /\ DOMAIN e.scope_cache = {}
      /\ SameContents(ix, e)
  BY <1>3 DEF IsIndex, SameContents
<1> HIDE DEF e
<1>5. IndexesOK' /\ idx'[current] = e
  BY <1>1, <1>4, OneIndexChanges
<1>6. IndexesFollow
  BY <1>1, <1>4, ChangeFollows DEF ix
<1>7. CacheShrinks
  BY <1>1, <1>4, CacheFollows DEF ix
<1>8. OnlyCalm /\ reader' = [r \in Reader |-> reader'[r]]
  BY <1>1, UnchangedReaders
<1>9. SnapsOK' /\ ReadersOK' /\ RefsOK' /\ RefsAgree' /\ RefsFresh' /\ NamesSoFar'
  BY <1>1, <1>5, <1>6, <1>7, <1>8, WriterKeeps
<1>10. CalmOnCurrent'
  BY <1>1, <1>4, <1>5 DEF CalmOnCurrent, ix
<1>11. UndisturbedRequestsSeeIndex'
  <2>1. /\ \A key : LayersOf(ix, key) = LayersOf(e, key)
        /\ \A layers : NamesOf(ix, layers) = NamesOf(e, layers)
    BY <1>4, SameScopes
  <2> QED
    BY <1>1, <1>5, <2>1 DEF UndisturbedRequestsSeeIndex, ix
<1> QED
  BY <1>2, <1>5, <1>9, <1>10, <1>11

LEMMA ReplaceSound ==
  ASSUME IndexInv, NEW x \in Model, Replace(x)
  PROVE  IndexInv'
<1> USE DEF IndexInv
<1> DEFINE classes == UNION {idx[current].buckets[l] : l \in DOMAIN idx[current].buckets}
           empty == NewIndex(x, active_jdk, [l \in {} |-> {}])
           e == [empty EXCEPT !.buckets = Refiled(empty, classes)]
<1>1. /\ writer.pc = "idle" /\ writer' = writer /\ changes' = changes
      /\ snaps' = snaps /\ active_jdk' = active_jdk
      /\ idx' = Append(idx, e) /\ current' = Len(idx) + 1
      /\ reader' = [r \in Reader |-> [reader[r] EXCEPT !.calm = @ /\ reader[r].pc = "idle"]]
  BY DEF Replace
<1>2. IsIndex(e) /\ DOMAIN e.scope_cache = {}
  <2> DEFINE filed == Refiled(empty, classes)
  <2> HIDE DEF filed
  <2> QED
    BY DEF IsIndex, NewIndex, IndexesOK, filed
<1> HIDE DEF e
<1>3. /\ IsSeq(idx') /\ Len(idx) \in Nat /\ Len(idx') = Len(idx) + 1
      /\ DOMAIN idx = 1..Len(idx) /\ DOMAIN idx' = 1..(Len(idx) + 1)
      /\ idx'[Len(idx) + 1] = e
      /\ \A i \in DOMAIN idx : idx'[i] = idx[i]
  BY <1>1, AppendIsSeq DEF IndexesOK
<1>4. IndexesOK'
  <2>1. \A i \in DOMAIN idx' : IsIndex(idx'[i])
    <3>1. \A i \in DOMAIN idx : IsIndex(idx[i])
      BY DEF IndexesOK, IsIndex
    <3>2. \A i \in DOMAIN idx' : i \in DOMAIN idx \/ i = Len(idx) + 1
      BY <1>3
    <3> QED
      BY <1>2, <1>3, <3>1, <3>2
  <2>2. IsSeq(idx)' /\ current' = Len(idx)' /\ current' # 0 /\ active_jdk' \in {NoJdk, Jdk}
    BY <1>1, <1>3 DEF IndexesOK, IsSeq, Range
  <2> QED
    BY <2>1, <2>2 DEF IndexesOK, IsIndex
<1>5. IndexesFollow
  <2>1. ASSUME NEW i \in DOMAIN idx
        PROVE  i \in DOMAIN idx' /\ idx[i].version <= idx[i].version
    <3>1. i \in DOMAIN idx'
      BY <1>3
    <3>2. idx[i].version \in Nat
      BY DEF IndexesOK
    <3> QED
      BY <3>1, <3>2
  <2> QED
    BY <1>1, <1>3, <2>1 DEF IndexesFollow, SameContents
<1>6. CacheShrinks
  <2>1. \A i \in DOMAIN idx' : i \in DOMAIN idx \/ i = Len(idx) + 1
    BY <1>3
  <2> QED
    BY <1>2, <1>3, <2>1 DEF CacheShrinks
<1>7. WriterOK'
  BY <1>1 DEF WriterOK
<1>8. /\ OnlyCalm /\ reader' = [r \in Reader |-> reader'[r]]
      /\ \A r \in Reader : reader'[r].pc # "idle" => ~reader'[r].calm
  BY <1>1, ChangeDisturbs
<1>9. SnapsOK' /\ ReadersOK' /\ RefsOK' /\ RefsAgree' /\ RefsFresh' /\ NamesSoFar'
  BY <1>1, <1>4, <1>5, <1>6, <1>8, WriterKeeps
<1> QED
  BY <1>4, <1>7, <1>8, <1>9, RestlessAreRight
-----------------------------------------------------------------------------
(* The steps of readers.                                                    *)

RefOf(d) == Ref(d.index, d.key, d.started, d.snap)

LEMMA StepShape ==
  ASSUME ReadersOK, NEW r \in Reader, NEW d, Step(r, d)
  PROVE  /\ reader' = [q \in Reader |-> reader'[q]]
         /\ reader'[r] = d
         /\ \A q \in Reader : q # r => reader'[q] = reader[q]
BY DEF Step, ReadersOK

LEMMA RefsOfStep ==
  ASSUME ReadersOK, NEW r \in Reader, NEW d, Step(r, d), NEW more,
         CachedRefs' \subseteq Refs \cup more, d.pc \in Holding => RefOf(d) \in Refs \cup more
  PROVE  Refs' \subseteq Refs \cup more
<1>1. ASSUME NEW q \in Reader, reader'[q].pc \in Holding
      PROVE  Held(q)' \in Refs \cup more
  <2>1. CASE q = r
    <3>1. reader'[q] = d
      BY <2>1, StepShape
    <3>2. Held(q)' = RefOf(d)
      BY <3>1 DEF Held, RefOf
    <3> QED
      BY <1>1, <3>1, <3>2
  <2>2. CASE q # r
    <3>1. reader'[q] = reader[q]
      BY <2>2, StepShape
    <3>2. Held(q)' = Held(q)
      BY <3>1 DEF Held
    <3>3. Held(q) \in Refs
      BY <1>1, <3>1, RefsMembers
    <3> QED
      BY <3>2, <3>3
  <2> QED
    BY <2>1, <2>2
<1> QED
  BY <1>1 DEF Refs

(* A step of a reader changes neither the contents nor the version of an    *)
(* index.                                                                   *)
IndexesStay ==
    /\ DOMAIN idx' = DOMAIN idx
    /\ current' = current
    /\ writer' = writer
    /\ changes' = changes
    /\ \A i \in DOMAIN idx : idx'[i].version = idx[i].version /\ SameContents(idx[i], idx'[i])

(* What is known of a request, in the state as it is.                       *)
NamesRight(d) ==
    (d.pc = "names" /\ UpToDate(RefOf(d))) =>
        d.names \cup NamesOf(idx[d.index], d.todo) = NamesOf(idx[d.index], snaps[d.snap].layers)

CalmRight(d) ==
    (d.calm /\ d.pc # "idle") =>
        /\ writer.pc = "idle"
        /\ d.pc # "served" => d.index = current /\ d.started = idx[current].version
        /\ d.pc = "served" => d.names = NamesOf(idx[current], LayersOf(idx[current], d.key))

LEMMA RequestsRight ==
  /\ NamesSoFar <=> \A r \in Reader : NamesRight(reader[r])
  /\ CalmOnCurrent /\ UndisturbedRequestsSeeIndex <=> \A r \in Reader : CalmRight(reader[r])
<1>1. NamesSoFar <=> \A r \in Reader : NamesRight(reader[r])
  BY DEF NamesSoFar, NamesRight, Held, RefOf
<1>2. CalmOnCurrent /\ UndisturbedRequestsSeeIndex <=> \A r \in Reader : CalmRight(reader[r])
  BY DEF CalmOnCurrent, UndisturbedRequestsSeeIndex, CalmRight
<1> QED
  BY <1>1, <1>2

(* The same of the state after a step.                                      *)
LEMMA RequestsRightAfter ==
  ASSUME \A r \in Reader : NamesRight(reader[r])' /\ CalmRight(reader[r])'
  PROVE  NamesSoFar' /\ CalmOnCurrent' /\ UndisturbedRequestsSeeIndex'
<1>1. NamesSoFar'
  BY DEF NamesSoFar, NamesRight, Held, RefOf
<1>2. CalmOnCurrent' /\ UndisturbedRequestsSeeIndex'
  BY DEF CalmOnCurrent, UndisturbedRequestsSeeIndex, CalmRight
<1> QED
  BY <1>1, <1>2

(* A request that does not move stays right while the indexes stay and its  *)
(* snapshot keeps its layers.                                               *)
LEMMA OthersRight ==
  ASSUME IndexesOK, IndexesStay, NEW d, ReaderOK(d), NamesRight(d), CalmRight(d),
         d.pc \in Holding => d.index \in DOMAIN idx /\ snaps'[d.snap].layers = snaps[d.snap].layers
  PROVE  ReaderOK(d)' /\ NamesRight(d)' /\ CalmRight(d)'
<1>1. ReaderOK(d)'
  BY DEF ReaderOK, IndexesStay, Key, Layer
<1>2. ASSUME d.pc = "names", UpToDate(RefOf(d))'
      PROVE  d.names \cup NamesOf(idx'[d.index], d.todo)
               = NamesOf(idx'[d.index], snaps'[d.snap].layers)
  <2>1. d.index \in DOMAIN idx /\ snaps'[d.snap].layers = snaps[d.snap].layers
    BY <1>2 DEF Holding
  <2>2. idx'[d.index].version = idx[d.index].version /\ SameContents(idx[d.index], idx'[d.index])
    BY <2>1 DEF IndexesStay
  <2>3. UpToDate(RefOf(d))
    BY <1>2, <2>2, RefFields DEF UpToDate, RefOf, IndexesStay
  <2>4. d.names \cup NamesOf(idx[d.index], d.todo) = NamesOf(idx[d.index], snaps[d.snap].layers)
    BY <1>2, <2>3 DEF NamesRight
  <2>5. \A layers : NamesOf(idx[d.index], layers) = NamesOf(idx'[d.index], layers)
    BY <2>2, SameScopes
  <2> QED
    BY <2>1, <2>4, <2>5
<1>3. ASSUME d.calm, d.pc # "idle"
      PROVE  /\ writer'.pc = "idle"
             /\ d.pc # "served" => d.index = current' /\ d.started = idx'[current'].version
             /\ d.pc = "served" => d.names = NamesOf(idx'[current'], LayersOf(idx'[current'], d.key))
  <2>1. current \in DOMAIN idx
    BY CurrentIndex
  <2>2. /\ idx'[current].version = idx[current].version
        /\ SameContents(idx[current], idx'[current])
        /\ current' = current /\ writer' = writer
    BY <2>1 DEF IndexesStay
  <2>3. /\ \A key : LayersOf(idx[current], key) = LayersOf(idx'[current], key)
        /\ \A layers : NamesOf(idx[current], layers) = NamesOf(idx'[current], layers)
    BY <2>2, SameScopes
  <2>4. /\ writer.pc = "idle"
        /\ d.pc # "served" => d.index = current /\ d.started = idx[current].version
        /\ d.pc = "served" => d.names = NamesOf(idx[current], LayersOf(idx[current], d.key))
    BY <1>3 DEF CalmRight
  <2> QED
    BY <2>2, <2>3, <2>4
<1>4. NamesRight(d)'
  BY <1>2 DEF NamesRight
<1>5. CalmRight(d)'
  BY <1>3 DEF CalmRight
<1> QED
  BY <1>1, <1>4, <1>5

(* What a reference says of an index is true after a step of a reader that  *)
(* adds no reference and leaves the snapshots.                              *)
LEMMA RefsStay ==
  ASSUME IndexInv, IndexesStay, Refs' \subseteq Refs, snaps' = snaps
  PROVE  SnapsOK' /\ RefsOK' /\ RefsAgree' /\ RefsFresh'
<1> USE DEF IndexInv
<1>1. SnapsOK'
  BY DEF SnapsOK
<1>2. RefsAgree'
  BY DEF RefsAgree
<1>3. \A a \in Refs : /\ a.index \in DOMAIN idx /\ a.key \in Key /\ a.version \in Nat
                      /\ a.version <= idx[a.index].version /\ a.snap \in DOMAIN snaps
                      /\ idx'[a.index].version = idx[a.index].version
                      /\ SameContents(idx[a.index], idx'[a.index])
  BY DEF RefsOK, IndexesStay
<1>4. RefsOK'
  BY <1>3 DEF RefsOK, IndexesStay, Key
<1>5. RefsFresh'
  <2> SUFFICES ASSUME NEW a \in Refs', UpToDate(a)'
               PROVE  /\ snaps'[a.snap].layers = LayersOf(idx'[a.index], a.key)
                      /\ snaps'[a.snap].table # None =>
                           snaps'[a.snap].table = NamesOf(idx'[a.index], snaps'[a.snap].layers)
    BY DEF RefsFresh
  <2>1. a \in Refs
    OBVIOUS
  <2>2. UpToDate(a)
    BY <2>1, <1>3 DEF UpToDate, IndexesStay
  <2>3. /\ snaps[a.snap].layers = LayersOf(idx[a.index], a.key)
        /\ snaps[a.snap].table # None =>
             snaps[a.snap].table = NamesOf(idx[a.index], snaps[a.snap].layers)
    BY <2>1, <2>2 DEF RefsFresh
  <2>4. /\ LayersOf(idx[a.index], a.key) = LayersOf(idx'[a.index], a.key)
        /\ \A layers : NamesOf(idx[a.index], layers) = NamesOf(idx'[a.index], layers)
    BY <2>1, <1>3, SameScopes
  <2> QED
    BY <2>3, <2>4
<1> QED
  BY <1>1, <1>2, <1>4, <1>5

(* A step of a request that leaves the snapshots and adds no reference.     *)
LEMMA ReaderMoves ==
  ASSUME IndexInv, IndexesOK', IndexesStay, snaps' = snaps,
         NEW r \in Reader, NEW d, Step(r, d), ReaderOK(d)', NamesRight(d)', CalmRight(d)',
         CachedRefs' \subseteq Refs, d.pc \in Holding => RefOf(d) \in Refs
  PROVE  IndexInv'
<1> USE DEF IndexInv
<1>1. Refs' \subseteq Refs
  <2>1. CachedRefs' \subseteq Refs \cup {} /\ (d.pc \in Holding => RefOf(d) \in Refs \cup {})
    OBVIOUS
  <2>2. Refs' \subseteq Refs \cup {}
    BY <2>1, RefsOfStep
  <2> QED
    BY <2>2
<1>2. SnapsOK' /\ RefsOK' /\ RefsAgree' /\ RefsFresh'
  BY <1>1, RefsStay
<1>3. WriterOK'
  BY DEF WriterOK, IndexesStay
<1>4. ASSUME NEW q \in Reader
      PROVE  ReaderOK(reader[q])' /\ NamesRight(reader[q])' /\ CalmRight(reader[q])'
  <2>1. CASE q = r
    <3>1. reader'[q] = d
      BY <2>1, StepShape
    <3>2. /\ ReaderOK(d)' = ReaderOK(reader[q])' /\ NamesRight(d)' = NamesRight(reader[q])'
          /\ CalmRight(d)' = CalmRight(reader[q])'
      BY <3>1
    <3> QED
      BY <3>2
  <2>2. CASE q # r
    <3>1. PICK e : e = reader[q]
      OBVIOUS
    <3>2. reader'[q] = e
      BY <2>2, <3>1, StepShape
    <3>3. ReaderOK(e) /\ NamesRight(e) /\ CalmRight(e)
      BY <3>1, RequestsRight DEF ReadersOK
    <3>4. e.pc \in Holding => e.index \in DOMAIN idx
      BY <3>1, RefsMembers, RefFields DEF RefsOK, Held
    <3>5. ReaderOK(e)' /\ NamesRight(e)' /\ CalmRight(e)'
      BY <3>3, <3>4, OthersRight
    <3> QED
      BY <3>2, <3>5
  <2> QED
    BY <2>1, <2>2
<1>5. ReadersOK'
  BY <1>4, StepShape DEF ReadersOK
<1>6. NamesSoFar' /\ CalmOnCurrent' /\ UndisturbedRequestsSeeIndex'
  BY <1>4, RequestsRightAfter
<1> QED
  BY <1>2, <1>3, <1>5, <1>6
LEMMA RequestFacts ==
  ASSUME IndexInv, NEW r \in Reader
  PROVE  LET d == reader[r] IN
         /\ ReaderOK(d) /\ NamesRight(d) /\ CalmRight(d)
         /\ d.pc \in Holding =>
              /\ RefOf(d) \in Refs
              /\ d.index \in DOMAIN idx /\ d.key \in Key /\ d.started \in Nat
              /\ d.started <= idx[d.index].version
              /\ d.snap \in DOMAIN snaps
<1>1. ReaderOK(reader[r]) /\ NamesRight(reader[r]) /\ CalmRight(reader[r])
  BY RequestsRight DEF IndexInv, ReadersOK
<1>2. RefOf(reader[r]) = Held(r)
  BY DEF RefOf, Held
<1> QED
  BY <1>1, <1>2, RefsMembers, RefFields DEF IndexInv, RefsOK, RefOf

(* The step of a request that changes nothing else.                         *)
LEMMA ReaderMovesAlone ==
  ASSUME IndexInv, UNCHANGED <<idx, current, active_jdk, snaps, writer, changes>>,
         NEW r \in Reader, NEW e, Step(r, e), ReaderOK(e), NamesRight(e), CalmRight(e),
         e.pc \in Holding => RefOf(e) \in Refs
  PROVE  IndexInv'
<1>1. IndexesOK' /\ IndexesStay
  BY DEF IndexInv, IndexesOK, IndexesStay, SameContents
<1>2. CachedRefs' \subseteq Refs
  BY DEF CachedRefs, Refs
<1>3. ReaderOK(e)'
  BY DEF ReaderOK, Key, Layer
<1>4. NamesRight(e)'
  BY DEF NamesRight, UpToDate
<1>5. CalmRight(e)'
  BY DEF CalmRight
<1> QED
  BY <1>1, <1>2, <1>3, <1>4, <1>5, ReaderMoves

LEMMA LoadSound ==
  ASSUME IndexInv, NEW r \in Reader, NEW o \in Origin, Load(r, o)
  PROVE  IndexInv'
<1> DEFINE ix == idx[current]
           key == ContextOf[ix.model][o]
           calm == writer.pc = "idle"
           moved == [Fresh EXCEPT !.pc = "lookup", !.index = current, !.key = key,
                                  !.started = ix.version, !.calm = calm]
<1>0. PICK e : e = moved
  OBVIOUS
<1>1. Step(r, e) /\ UNCHANGED <<idx, current, active_jdk, snaps, writer, changes>>
  BY <1>0 DEF Load
<1>2. current \in DOMAIN idx /\ IsIndex(ix)
  BY CurrentIndex DEF IndexInv
<1>3. key \in Key
  BY <1>2 DEF Key, IsIndex
<1>4. calm \in BOOLEAN
  OBVIOUS
<1> HIDE DEF key, calm
<1>5. e = [pc |-> "lookup", index |-> current, key |-> key, started |-> ix.version, snap |-> 0,
           todo |-> <<>>, names |-> {}, calm |-> calm]
  BY <1>0, Zenon DEF Fresh
<1>6. ReaderOK(e)
  <2>1. <<>> \in Seq(SUBSET Layer)
    OBVIOUS
  <2>2. ix.version \in Nat /\ ix.version <= idx[current].version
    BY <1>2 DEF IsIndex
  <2> QED
    BY <1>2, <1>3, <1>4, <1>5, <2>1, <2>2 DEF ReaderOK
<1>7. NamesRight(e)
  BY <1>5 DEF NamesRight
<1>8. CalmRight(e)
  BY <1>5 DEF CalmRight, calm
<1>9. e.pc \notin Holding
  BY <1>5 DEF Holding
<1> QED
  BY <1>1, <1>6, <1>7, <1>8, <1>9, ReaderMovesAlone

LEMMA RecheckVersionSound ==
  ASSUME IndexInv, NEW r \in Reader, RecheckVersion(r)
  PROVE  IndexInv'
<1> DEFINE d == reader[r]
           e == [d EXCEPT !.pc = IF idx[d.index].version = d.started THEN "insert" ELSE "table"]
<1>1. /\ Step(r, e) /\ UNCHANGED <<idx, current, active_jdk, snaps, writer, changes>>
      /\ d.pc = "store"
  BY DEF RecheckVersion
<1>2. /\ ReaderOK(d) /\ NamesRight(d) /\ CalmRight(d)
      /\ RefOf(d) \in Refs
  BY <1>1, RequestFacts DEF Holding
<1>3. PICK pc \in {"insert", "table"} : e = [d EXCEPT !.pc = pc]
  OBVIOUS
<1>4. d = [pc |-> d.pc, index |-> d.index, key |-> d.key, started |-> d.started,
           snap |-> d.snap, todo |-> d.todo, names |-> d.names, calm |-> d.calm]
  BY <1>2 DEF ReaderOK
<1> HIDE DEF d, e
<1>5. e = [pc |-> pc, index |-> d.index, key |-> d.key, started |-> d.started,
           snap |-> d.snap, todo |-> d.todo, names |-> d.names, calm |-> d.calm]
  BY <1>3, <1>4
<1>6. ReaderOK(e)
  BY <1>1, <1>2, <1>5 DEF ReaderOK
<1>7. NamesRight(e) /\ RefOf(e) = RefOf(d)
  BY <1>5 DEF NamesRight, RefOf
<1>8. CalmRight(e)
  BY <1>1, <1>2, <1>5 DEF CalmRight
<1> QED
  BY <1>1, <1>2, <1>6, <1>7, <1>8, ReaderMovesAlone

LEMMA ReadLayerNamesSound ==
  ASSUME IndexInv, NEW r \in Reader, ReadLayerNames(r)
  PROVE  IndexInv'
<1> DEFINE d == reader[r]
           read == NamesOf(idx[d.index], <<Head(d.todo)>>)
           rest == Tail(d.todo)
           more == d.names \cup read
           moved == [d EXCEPT !.todo = rest, !.names = more]
<1>0. PICK e : e = moved
  OBVIOUS
<1>1. /\ Step(r, e) /\ UNCHANGED <<idx, current, active_jdk, snaps, writer, changes>>
      /\ d.pc = "names" /\ d.todo # <<>>
  BY <1>0 DEF ReadLayerNames
<1>2. /\ ReaderOK(d) /\ NamesRight(d) /\ CalmRight(d)
      /\ RefOf(d) \in Refs
  BY <1>1, RequestFacts DEF Holding
<1>3. d.todo \in Seq(SUBSET Layer)
  BY <1>2 DEF ReaderOK
<1>4. read \cup NamesOf(idx[d.index], Tail(d.todo)) = NamesOf(idx[d.index], d.todo)
  BY <1>1, <1>3, NamesHeadTail
<1>5. rest \in Seq(SUBSET Layer)
  BY <1>1, <1>3
<1>a. d = [pc |-> d.pc, index |-> d.index, key |-> d.key, started |-> d.started,
           snap |-> d.snap, todo |-> d.todo, names |-> d.names, calm |-> d.calm]
  BY <1>2 DEF ReaderOK
<1> HIDE DEF d, read, rest, more
<1>6. e = [pc |-> d.pc, index |-> d.index, key |-> d.key, started |-> d.started,
           snap |-> d.snap, todo |-> rest, names |-> more, calm |-> d.calm]
  BY <1>0, <1>a, Zenon
<1>7. ReaderOK(e)
  BY <1>1, <1>2, <1>5, <1>6 DEF ReaderOK
<1>8. RefOf(e) = RefOf(d)
  BY <1>6 DEF RefOf
<1>9. NamesRight(e)
  <2>1. ASSUME UpToDate(RefOf(e))
        PROVE  e.names \cup NamesOf(idx[e.index], e.todo) = NamesOf(idx[e.index], snaps[e.snap].layers)
    <3>1. d.names \cup NamesOf(idx[d.index], d.todo) = NamesOf(idx[d.index], snaps[d.snap].layers)
      BY <1>1, <1>2, <1>8, <2>1 DEF NamesRight
    <3>2. (d.names \cup read) \cup NamesOf(idx[d.index], Tail(d.todo))
            = d.names \cup NamesOf(idx[d.index], d.todo)
      BY <1>4
    <3> QED
      BY <1>6, <3>1, <3>2 DEF rest, more
  <2> QED
    BY <2>1 DEF NamesRight
<1>10. CalmRight(e)
  BY <1>1, <1>2, <1>6 DEF CalmRight
<1> QED
  BY <1>1, <1>2, <1>7, <1>8, <1>9, <1>10, ReaderMovesAlone

Served(d, table) ==
    [pc |-> "served", index |-> 0, key |-> d.key, started |-> 0, snap |-> 0,
     todo |-> <<>>, names |-> table, calm |-> d.calm]

(* What a calm request is handed is what the index has.                     *)
LEMMA TableRight ==
  ASSUME IndexInv, NEW r \in Reader, NEW table,
         LET d == reader[r] IN
         /\ d.pc \in {"table", "names"}
         /\ UpToDate(RefOf(d)) => table = NamesOf(idx[d.index], snaps[d.snap].layers),
         NEW e, e = Served(reader[r], table)
  PROVE  ReaderOK(e) /\ NamesRight(e) /\ CalmRight(e) /\ e.pc \notin Holding
<1> DEFINE d == reader[r]
<1>1. /\ ReaderOK(d) /\ CalmRight(d) /\ RefOf(d) \in Refs
  BY RequestFacts DEF Holding
<1> HIDE DEF d
<1>2. /\ e.pc = "served" /\ e.key = d.key /\ e.todo = <<>> /\ e.names = table
      /\ e.calm = d.calm
      /\ e = [pc |-> e.pc, index |-> e.index, key |-> e.key, started |-> e.started,
              snap |-> e.snap, todo |-> e.todo, names |-> e.names, calm |-> e.calm]
  BY DEF Served, d
<1>3. ReaderOK(e)
  <2>1. <<>> \in Seq(SUBSET Layer) /\ d.calm \in BOOLEAN
    BY <1>1 DEF ReaderOK
  <2> QED
    BY <1>2, <2>1 DEF ReaderOK
<1>4. NamesRight(e) /\ e.pc \notin Holding
  BY <1>2 DEF NamesRight, Holding
<1>5. ASSUME d.calm
      PROVE  writer.pc = "idle" /\ table = NamesOf(idx[current], LayersOf(idx[current], d.key))
  <2>1. /\ writer.pc = "idle" /\ d.index = current /\ d.started = idx[current].version
    BY <1>1, <1>5 DEF CalmRight, d
  <2>2. UpToDate(RefOf(d))
    BY <2>1, RefFields DEF UpToDate, RefOf
  <2>3. snaps[d.snap].layers = LayersOf(idx[current], d.key)
    BY <1>1, <2>1, <2>2, RefFields DEF IndexInv, RefsFresh, RefOf
  <2> QED
    BY <2>1, <2>2, <2>3 DEF d
<1>6. CalmRight(e)
  BY <1>2, <1>5 DEF CalmRight
<1> QED
  BY <1>3, <1>4, <1>6

LEMMA GetNameTableSound ==
  ASSUME IndexInv, NEW r \in Reader, GetNameTable(r)
  PROVE  IndexInv'
<1> DEFINE d == reader[r]
<1>1. /\ UNCHANGED <<idx, current, active_jdk, snaps, writer, changes>>
      /\ d.pc = "table"
  BY DEF GetNameTable
<1>2. /\ ReaderOK(d) /\ NamesRight(d) /\ CalmRight(d)
      /\ RefOf(d) \in Refs /\ d.snap \in DOMAIN snaps
  BY <1>1, RequestFacts DEF Holding
<1>3. CASE snaps[d.snap].table # None
  <2> DEFINE table == snaps[d.snap].table
             moved == [Fresh EXCEPT !.pc = "served", !.key = d.key, !.calm = d.calm,
                                    !.names = table]
  <2>4. PICK e : e = moved
    OBVIOUS
  <2>1. Step(r, e)
    BY <1>3, <2>4 DEF GetNameTable
  <2>2. UpToDate(RefOf(d)) =>
          snaps[d.snap].table = NamesOf(idx[d.index], snaps[d.snap].layers)
    BY <1>2, <1>3, RefFields DEF IndexInv, RefsFresh, RefOf
  <2> HIDE DEF table
  <2>3. e = Served(reader[r], table)
    BY <2>4, Zenon DEF Served, Fresh
  <2>5. ReaderOK(e) /\ NamesRight(e) /\ CalmRight(e) /\ e.pc \notin Holding
    BY <1>1, <2>2, <2>3, TableRight DEF table
  <2> QED
    BY <1>1, <2>1, <2>5, ReaderMovesAlone
<1>4. CASE snaps[d.snap].table = None
  <2> DEFINE layers == snaps[d.snap].layers
             moved == [d EXCEPT !.pc = "names", !.todo = layers]
  <2>8. PICK e : e = moved
    OBVIOUS
  <2>1. Step(r, e)
    BY <2>8, <1>4 DEF GetNameTable
  <2>2. layers \in Seq(SUBSET Layer)
    BY <1>2 DEF IndexInv, SnapsOK
  <2>0. d = [pc |-> d.pc, index |-> d.index, key |-> d.key, started |-> d.started,
             snap |-> d.snap, todo |-> d.todo, names |-> d.names, calm |-> d.calm]
    BY <1>2 DEF ReaderOK
  <2>3. d.names = {} /\ d.calm \in BOOLEAN
    BY <1>1, <1>2 DEF ReaderOK
  <2> HIDE DEF d, layers
  <2>4. e = [pc |-> "names", index |-> d.index, key |-> d.key, started |-> d.started,
             snap |-> d.snap, todo |-> layers, names |-> {}, calm |-> d.calm]
    <3>1. e = [pc |-> "names", index |-> d.index, key |-> d.key, started |-> d.started,
               snap |-> d.snap, todo |-> layers, names |-> d.names, calm |-> d.calm]
      BY <2>0, <2>8, Zenon
    <3> QED
      BY <2>3, <3>1
  <2>5. ReaderOK(e)
    BY <2>2, <2>3, <2>4 DEF ReaderOK
  <2>6. NamesRight(e) /\ RefOf(e) = RefOf(d)
    BY <2>4 DEF NamesRight, RefOf, layers
  <2>7. CalmRight(e)
    BY <1>1, <1>2, <2>4 DEF CalmRight
  <2> QED
    BY <1>1, <1>2, <2>1, <2>5, <2>6, <2>7, ReaderMovesAlone
<1> QED
  BY <1>3, <1>4
LEMMA LookUpScopeSound ==
  ASSUME IndexInv, NEW r \in Reader, LookUpScope(r)
  PROVE  IndexInv'
<1> DEFINE d == reader[r]
           ix == idx[d.index]
<1>1. /\ UNCHANGED <<idx, current, active_jdk, writer, changes>>
      /\ d.pc = "lookup"
  BY DEF LookUpScope
<1>2. /\ ReaderOK(d) /\ NamesRight(d) /\ CalmRight(d)
      /\ d.index \in DOMAIN idx /\ d.key \in Key /\ d.started \in Nat
      /\ d.started <= ix.version /\ d.names = {}
  BY <1>1, RequestFacts DEF ReaderOK
<1>3. d = [pc |-> d.pc, index |-> d.index, key |-> d.key, started |-> d.started,
           snap |-> d.snap, todo |-> d.todo, names |-> d.names, calm |-> d.calm]
  BY <1>2 DEF ReaderOK
<1>4. CASE /\ Cached(ix, d.key, d.started)
           /\ Step(r, [d EXCEPT !.pc = "table", !.snap = ix.scope_cache[d.key].snap])
           /\ UNCHANGED snaps
  <2> DEFINE snap == ix.scope_cache[d.key].snap
  <2>1. PICK e : e = [d EXCEPT !.pc = "table", !.snap = snap]
    OBVIOUS
  <2>2. Step(r, e)
    BY <1>4, <2>1
  <2>3. Ref(d.index, d.key, d.started, snap) \in Refs
    BY <1>2, <1>4, RefsMembers DEF Cached
  <2> HIDE DEF d, ix, snap
  <2>4. e = [pc |-> "table", index |-> d.index, key |-> d.key, started |-> d.started,
             snap |-> snap, todo |-> d.todo, names |-> d.names, calm |-> d.calm]
    BY <1>3, <2>1, Zenon
  <2>5. ReaderOK(e)
    BY <1>2, <2>4 DEF ReaderOK
  <2>6. NamesRight(e) /\ RefOf(e) = Ref(d.index, d.key, d.started, snap)
    BY <2>4 DEF NamesRight, RefOf
  <2>7. CalmRight(e)
    BY <1>1, <1>2, <2>4 DEF CalmRight
  <2> QED
    BY <1>1, <1>4, <2>2, <2>3, <2>5, <2>6, <2>7, ReaderMovesAlone
<1>5. CASE /\ ~Cached(ix, d.key, d.started)
           /\ Len(snaps) < MaxSnapshots
           /\ snaps' = Append(snaps, [layers |-> LayersOf(ix, d.key), table |-> None])
           /\ Step(r, [d EXCEPT !.pc = "store", !.snap = Len(snaps) + 1])
  <2> DEFINE s == Len(snaps) + 1
             snap == [layers |-> LayersOf(ix, d.key), table |-> None]
             new == Ref(d.index, d.key, d.started, s)
  <2>1. PICK e : e = [d EXCEPT !.pc = "store", !.snap = s]
    OBVIOUS
  <2>2. Step(r, e)
    BY <1>5, <2>1
  <2>3. /\ IsSeq(snaps') /\ DOMAIN snaps = 1..Len(snaps) /\ Len(snaps) \in Nat
        /\ DOMAIN snaps' = 1..(Len(snaps) + 1) /\ snaps'[s] = snap
        /\ \A i \in DOMAIN snaps : snaps'[i] = snaps[i]
    BY <1>5, AppendIsSeq DEF IndexInv, SnapsOK
  <2>4. s \notin DOMAIN snaps /\ s \in DOMAIN snaps' /\ DOMAIN snaps \subseteq DOMAIN snaps'
        /\ \A i \in DOMAIN snaps' : i \in DOMAIN snaps \/ i = s
    BY <2>3
  <2>5. LayersOf(ix, d.key) \in Seq(SUBSET Layer)
    <3>1. ix.model \in Model /\ ix.jdk \in {NoJdk, Jdk}
      BY <1>2 DEF IndexInv, IndexesOK
    <3> QED
      BY <1>2, <3>1, LayersOfType
  <2>6. SnapsOK'
    <3>1. \A i \in DOMAIN snaps' :
            /\ snaps'[i] = [layers |-> snaps'[i].layers, table |-> snaps'[i].table]
            /\ snaps'[i].layers \in Seq(SUBSET Layer)
      BY <2>3, <2>4, <2>5 DEF IndexInv, SnapsOK
    <3> QED
      BY <2>3, <3>1 DEF SnapsOK, IsSeq, Range, Layer
  <2>7. IndexesOK' /\ IndexesStay /\ WriterOK'
    BY <1>1 DEF IndexInv, IndexesOK, IndexesStay, SameContents, WriterOK
  <2>8. /\ snap.layers = LayersOf(ix, d.key) /\ snap.table = None
        /\ new.index = d.index /\ new.key = d.key /\ new.version = d.started /\ new.snap = s
    BY RefFields
  <2> HIDE DEF d, ix, s, snap
  <2>9. e = [pc |-> "store", index |-> d.index, key |-> d.key, started |-> d.started,
             snap |-> s, todo |-> d.todo, names |-> d.names, calm |-> d.calm]
    BY <1>3, <2>1, Zenon
  <2>10. RefOf(e) = new
    BY <2>9 DEF RefOf
  <2>11. Refs' \subseteq Refs \cup {new}
    <3>1. CachedRefs' \subseteq Refs \cup {new}
      BY <1>1 DEF CachedRefs, Refs
    <3> HIDE DEF new
    <3>2. RefOf(e) \in Refs \cup {new}
      BY <2>10
    <3> QED
      BY <2>2, <3>1, <3>2, RefsOfStep DEF IndexInv
  <2> HIDE DEF new
  <2>12. \A a \in Refs : /\ a.index \in DOMAIN idx /\ a.key \in Key /\ a.version \in Nat
                         /\ a.version <= idx[a.index].version /\ a.snap \in DOMAIN snaps
    BY DEF IndexInv, RefsOK
  <2>13. RefsOK'
    <3> SUFFICES ASSUME NEW a \in Refs'
                 PROVE  /\ a.index \in DOMAIN idx /\ a.key \in Key /\ a.version \in Nat
                        /\ a.version <= idx[a.index].version /\ a.snap \in DOMAIN snaps'
      BY <1>1 DEF RefsOK, Key
    <3>1. CASE a \in Refs
      BY <2>4, <2>12, <3>1
    <3>2. CASE a = new
      BY <1>2, <2>4, <2>8, <3>2 DEF ix
    <3> QED
      BY <2>11, <3>1, <3>2
  <2>14. RefsAgree'
    <3> SUFFICES ASSUME NEW a \in Refs', NEW b \in Refs', a.snap = b.snap
                 PROVE  a = b
      BY DEF RefsAgree
    <3>1. \A c \in Refs : c.snap # new.snap
      BY <2>4, <2>8, <2>12
    <3>2. a \in Refs /\ b \in Refs => a = b
      BY DEF IndexInv, RefsAgree
    <3> QED
      BY <2>11, <3>1, <3>2
  <2>15. RefsFresh'
    <3> SUFFICES ASSUME NEW a \in Refs', UpToDate(a)'
                 PROVE  /\ snaps'[a.snap].layers = LayersOf(idx[a.index], a.key)
                        /\ snaps'[a.snap].table # None =>
                             snaps'[a.snap].table = NamesOf(idx[a.index], snaps'[a.snap].layers)
      BY <1>1 DEF RefsFresh
    <3>1. UpToDate(a)
      BY <1>1 DEF UpToDate
    <3>2. CASE a \in Refs
      <4>1. snaps'[a.snap] = snaps[a.snap]
        BY <2>3, <2>12, <3>2
      <4> QED
        BY <3>1, <3>2, <4>1 DEF IndexInv, RefsFresh
    <3>3. CASE a = new
      BY <2>3, <2>8, <3>3 DEF ix
    <3> QED
      BY <2>11, <3>2, <3>3
  <2>16. ASSUME NEW q \in Reader
         PROVE  ReaderOK(reader[q])' /\ NamesRight(reader[q])' /\ CalmRight(reader[q])'
    <3>1. CASE q = r
      <4>1. reader'[q] = e
        BY <2>2, <3>1, StepShape DEF IndexInv
      <4>2. e.pc = "store" /\ e.calm = d.calm /\ e.index = d.index /\ e.started = d.started
        <5>1. e.pc = "store" /\ e.index = d.index /\ e.started = d.started
          BY <2>9
        <5>2. e.calm = d.calm
          BY <2>9, Zenon
        <5> QED
          BY <5>1, <5>2
      <4>3. ReaderOK(e)
        BY <1>2, <2>9 DEF ReaderOK
      <4>4. ReaderOK(e)'
        BY <1>1, <4>3 DEF ReaderOK, Key, Layer
      <4>5. NamesRight(e)'
        BY <4>2 DEF NamesRight
      <4>6. CalmRight(e)'
        BY <1>1, <1>2, <4>2 DEF CalmRight
      <4> QED
        BY <4>1, <4>4, <4>5, <4>6
    <3>2. CASE q # r
      <4>1. PICK f : f = reader[q]
        OBVIOUS
      <4>2. reader'[q] = f
        BY <2>2, <3>2, <4>1, StepShape DEF IndexInv
      <4>3. /\ ReaderOK(f) /\ NamesRight(f) /\ CalmRight(f)
            /\ f.pc \in Holding => f.index \in DOMAIN idx /\ f.snap \in DOMAIN snaps
        BY <4>1, RequestFacts
      <4>4. ReaderOK(f)' /\ NamesRight(f)' /\ CalmRight(f)'
        BY <2>3, <2>7, <4>3, OthersRight DEF IndexInv
      <4> QED
        BY <4>2, <4>4
    <3> QED
      BY <3>1, <3>2
  <2>17. ReadersOK'
    BY <2>2, <2>16, StepShape DEF ReadersOK, IndexInv
  <2>18. NamesSoFar' /\ CalmOnCurrent' /\ UndisturbedRequestsSeeIndex'
    BY <2>16, RequestsRightAfter
  <2> QED
    BY <2>6, <2>7, <2>13, <2>14, <2>15, <2>17, <2>18 DEF IndexInv
<1> QED
  BY <1>4, <1>5 DEF LookUpScope

LEMMA InsertScopeSound ==
  ASSUME IndexInv, NEW r \in Reader, InsertScope(r)
  PROVE  IndexInv'
<1> DEFINE d == reader[r]
           ix == idx[d.index]
           entry == CacheEntry(ix, d)
           cache == [k \in DOMAIN ix.scope_cache \cup {d.key} |->
                       IF k = d.key THEN entry ELSE ix.scope_cache[k]]
           iy == [ix EXCEPT !.scope_cache = cache]
<1>1. PICK e : e = [d EXCEPT !.pc = "table"]
  OBVIOUS
<1>2. /\ Step(r, e) /\ UNCHANGED <<current, active_jdk, snaps, writer, changes>>
      /\ d.pc = "insert" /\ idx' = [idx EXCEPT ![d.index] = iy]
  BY <1>1 DEF InsertScope
<1>3. /\ ReaderOK(d) /\ NamesRight(d) /\ CalmRight(d) /\ RefOf(d) \in Refs
      /\ d.index \in DOMAIN idx
  BY <1>2, RequestFacts DEF Holding
<1>4. d = [pc |-> d.pc, index |-> d.index, key |-> d.key, started |-> d.started,
           snap |-> d.snap, todo |-> d.todo, names |-> d.names, calm |-> d.calm]
  BY <1>3 DEF ReaderOK
<1>5. IsIndex(ix) /\ IsSeq(idx)
  BY <1>3 DEF IndexInv, IndexesOK, IsIndex
<1>6. entry.version = d.started /\ entry.snap = d.snap
  BY DEF CacheEntry
<1>7. /\ DOMAIN cache = DOMAIN ix.scope_cache \cup {d.key} /\ cache[d.key] = entry
      /\ \A k \in DOMAIN ix.scope_cache : k # d.key => cache[k] = ix.scope_cache[k]
  OBVIOUS
<1> HIDE DEF d, ix, cache, entry
<1>8. /\ IsIndex(iy) /\ iy.version = ix.version /\ iy.scope_cache = cache
      /\ SameContents(ix, iy)
  BY <1>5 DEF IsIndex, SameContents
<1> HIDE DEF iy
<1>9. /\ IsSeq(idx') /\ Len(idx') = Len(idx) /\ DOMAIN idx' = DOMAIN idx
      /\ idx'[d.index] = iy /\ \A i \in DOMAIN idx : i # d.index => idx'[i] = idx[i]
  <2> DEFINE i == d.index
  <2>1. i \in DOMAIN idx /\ idx' = [idx EXCEPT ![i] = iy] /\ IsSeq(idx)
    BY <1>2, <1>3, <1>5
  <2> HIDE DEF i
  <2>2. /\ IsSeq(idx') /\ Len(idx') = Len(idx) /\ DOMAIN idx' = DOMAIN idx
        /\ idx'[i] = iy /\ \A j \in DOMAIN idx : j # i => idx'[j] = idx[j]
    BY <2>1, ExceptIsSeq
  <2> QED
    BY <2>2 DEF i
<1>10. IndexesOK'
  <2>1. \A i \in DOMAIN idx' : IsIndex(idx'[i])
    <3>1. \A i \in DOMAIN idx : IsIndex(idx[i])
      BY DEF IndexInv, IndexesOK, IsIndex
    <3> QED
      BY <1>8, <1>9, <3>1
  <2>2. /\ IsSeq(idx)' /\ current' = Len(idx)' /\ current' # 0 /\ active_jdk' \in {NoJdk, Jdk}
    BY <1>2, <1>9 DEF IndexInv, IndexesOK, IsSeq, Range
  <2> QED
    BY <2>1, <2>2 DEF IndexesOK, IsIndex
<1>11. IndexesStay
  BY <1>2, <1>8, <1>9 DEF IndexesStay, SameContents, ix
<1>12. CachedRefs' \subseteq Refs
  <2> SUFFICES ASSUME NEW a \in CachedRefs' PROVE a \in Refs
    OBVIOUS
  <2>1. PICK i \in DOMAIN idx' : \E k \in DOMAIN idx'[i].scope_cache :
           a = Ref(i, k, idx'[i].scope_cache[k].version, idx'[i].scope_cache[k].snap)
    BY DEF CachedRefs
  <2>2. PICK k \in DOMAIN idx'[i].scope_cache :
           a = Ref(i, k, idx'[i].scope_cache[k].version, idx'[i].scope_cache[k].snap)
    BY <2>1
  <2>3. CASE i = d.index /\ k = d.key
    BY <1>3, <1>6, <1>7, <1>8, <1>9, <2>2, <2>3 DEF RefOf
  <2>4. CASE i # d.index
    BY <1>9, <2>2, <2>4, RefsMembers
  <2>5. CASE i = d.index /\ k # d.key
    <3>1. k \in DOMAIN ix.scope_cache /\ idx'[i].scope_cache[k] = ix.scope_cache[k]
      BY <1>7, <1>8, <1>9, <2>2, <2>5
    <3> QED
      BY <1>9, <2>2, <2>5, <3>1, RefsMembers DEF ix
  <2> QED
    BY <2>3, <2>4, <2>5
<1>13. e = [pc |-> "table", index |-> d.index, key |-> d.key, started |-> d.started,
            snap |-> d.snap, todo |-> d.todo, names |-> d.names, calm |-> d.calm]
  BY <1>1, <1>4, Zenon
<1>14. RefOf(e) = RefOf(d)
  BY <1>13 DEF RefOf
<1>15. ReaderOK(e) /\ NamesRight(e) /\ CalmRight(e)
  <2>1. ReaderOK(e)
    BY <1>2, <1>3, <1>13 DEF ReaderOK
  <2>2. NamesRight(e)
    BY <1>13 DEF NamesRight
  <2>3. CalmRight(e)
    BY <1>2, <1>3, <1>13 DEF CalmRight
  <2> QED
    BY <2>1, <2>2, <2>3
<1>16. e.pc \in Holding => e.index \in DOMAIN idx /\ snaps'[e.snap].layers = snaps[e.snap].layers
  BY <1>2, <1>3, <1>13
<1>17. ReaderOK(e)' /\ NamesRight(e)' /\ CalmRight(e)'
  BY <1>11, <1>15, <1>16, OthersRight DEF IndexInv
<1> QED
  BY <1>2, <1>3, <1>10, <1>11, <1>12, <1>14, <1>17, ReaderMoves

LEMMA FinishNameTableSound ==
  ASSUME IndexInv, NEW r \in Reader, FinishNameTable(r)
  PROVE  IndexInv'
<1> DEFINE d == reader[r]
           moved == [Fresh EXCEPT !.pc = "served", !.key = d.key, !.calm = d.calm,
                                  !.names = d.names]
           filled == [snaps[d.snap] EXCEPT !.table = d.names]
<1>1. PICK e : e = moved
  OBVIOUS
<1>2. /\ Step(r, e) /\ UNCHANGED <<idx, current, active_jdk, writer, changes>>
      /\ d.pc = "names" /\ d.todo = <<>>
      /\ snaps' = [snaps EXCEPT ![d.snap] = filled]
  BY <1>1 DEF FinishNameTable
<1>3. /\ ReaderOK(d) /\ NamesRight(d) /\ CalmRight(d) /\ RefOf(d) \in Refs
      /\ d.index \in DOMAIN idx /\ d.snap \in DOMAIN snaps
  BY <1>2, RequestFacts DEF Holding
<1>4. /\ filled = [layers |-> filled.layers, table |-> filled.table]
      /\ filled.layers = snaps[d.snap].layers /\ filled.table = d.names
  BY <1>3 DEF IndexInv, SnapsOK
<1>5. UpToDate(RefOf(d)) => d.names = NamesOf(idx[d.index], snaps[d.snap].layers)
  <2>1. NamesOf(idx[d.index], <<>>) = {}
    BY NamesHeadTail, EmptySeq
  <2> QED
    BY <1>2, <1>3, <2>1 DEF NamesRight
<1>6. ReaderOK(e) /\ NamesRight(e) /\ CalmRight(e) /\ e.pc \notin Holding
  <2>1. e = Served(reader[r], d.names)
    <3> DEFINE table == d.names
    <3>1. e = [Fresh EXCEPT !.pc = "served", !.key = d.key, !.calm = d.calm, !.names = table]
      BY <1>1
    <3> HIDE DEF table
    <3>2. e = Served(reader[r], table)
      BY <3>1, Zenon DEF Served, Fresh
    <3> QED
      BY <3>2 DEF table
  <2> QED
    BY <1>2, <1>5, <2>1, TableRight
<1> HIDE DEF moved, filled
<1>7. /\ IsSeq(snaps') /\ DOMAIN snaps' = DOMAIN snaps /\ snaps'[d.snap] = filled
      /\ \A s \in DOMAIN snaps : s # d.snap => snaps'[s] = snaps[s]
  BY <1>2, <1>3, ExceptIsSeq DEF IndexInv, SnapsOK
<1>8. \A s \in DOMAIN snaps : snaps'[s].layers = snaps[s].layers
  BY <1>4, <1>7
<1>9. SnapsOK'
  <2>1. \A s \in DOMAIN snaps' :
          /\ snaps'[s] = [layers |-> snaps'[s].layers, table |-> snaps'[s].table]
          /\ snaps'[s].layers \in Seq(SUBSET Layer)
    BY <1>4, <1>7, <1>8 DEF IndexInv, SnapsOK
  <2> QED
    BY <1>7, <2>1 DEF SnapsOK, IsSeq, Range, Layer
<1>10. IndexesOK' /\ IndexesStay /\ WriterOK'
  BY <1>2 DEF IndexInv, IndexesOK, IndexesStay, SameContents, WriterOK
<1>11. Refs' \subseteq Refs
  <2>1. CachedRefs' \subseteq Refs \cup {}
    BY <1>2 DEF CachedRefs, Refs
  <2>2. Refs' \subseteq Refs \cup {}
    BY <1>2, <1>6, <2>1, RefsOfStep DEF IndexInv
  <2> QED
    BY <2>2
<1>12. RefsOK'
  BY <1>2, <1>7, <1>11 DEF IndexInv, RefsOK, Key
<1>13. RefsAgree'
  BY <1>11 DEF IndexInv, RefsAgree
<1>14. RefsFresh'
  <2> SUFFICES ASSUME NEW a \in Refs', UpToDate(a)'
               PROVE  /\ snaps'[a.snap].layers = LayersOf(idx[a.index], a.key)
                      /\ snaps'[a.snap].table # None =>
                           snaps'[a.snap].table = NamesOf(idx[a.index], snaps'[a.snap].layers)
    BY <1>2 DEF RefsFresh
  <2>1. a \in Refs /\ UpToDate(a) /\ a.snap \in DOMAIN snaps
    BY <1>2, <1>11 DEF UpToDate, IndexInv, RefsOK
  <2>2. /\ snaps[a.snap].layers = LayersOf(idx[a.index], a.key)
        /\ snaps[a.snap].table # None =>
             snaps[a.snap].table = NamesOf(idx[a.index], snaps[a.snap].layers)
    BY <2>1 DEF IndexInv, RefsFresh
  <2>3. CASE a.snap # d.snap
    BY <1>7, <2>1, <2>2, <2>3
  <2>4. CASE a.snap = d.snap
    <3>1. a = RefOf(d) /\ a.index = d.index
      BY <1>3, <2>1, <2>4, RefFields DEF IndexInv, RefsAgree, RefOf
    <3>2. d.names = NamesOf(idx[a.index], snaps[a.snap].layers)
      BY <1>5, <2>1, <2>4, <3>1
    <3> QED
      BY <1>4, <1>7, <2>2, <2>4, <3>2
  <2> QED
    BY <2>3, <2>4
<1>15. ASSUME NEW q \in Reader
       PROVE  ReaderOK(reader[q])' /\ NamesRight(reader[q])' /\ CalmRight(reader[q])'
  <2>1. PICK f : f = reader'[q]
    OBVIOUS
  <2>2. /\ ReaderOK(f) /\ NamesRight(f) /\ CalmRight(f)
        /\ f.pc \in Holding => f.index \in DOMAIN idx /\ f.snap \in DOMAIN snaps
    <3>1. CASE q = r
      <4>1. f = e
        BY <1>2, <2>1, <3>1, StepShape DEF IndexInv
      <4> QED
        BY <1>6, <4>1
    <3>2. CASE q # r
      <4>1. f = reader[q]
        BY <1>2, <2>1, <3>2, StepShape DEF IndexInv
      <4> QED
        BY <4>1, RequestFacts
    <3> QED
      BY <3>1, <3>2
  <2>3. ReaderOK(f)' /\ NamesRight(f)' /\ CalmRight(f)'
    BY <1>8, <1>10, <2>2, OthersRight DEF IndexInv
  <2> QED
    BY <2>1, <2>3
<1>16. ReadersOK'
  BY <1>2, <1>15, StepShape DEF ReadersOK, IndexInv
<1>17. NamesSoFar' /\ CalmOnCurrent' /\ UndisturbedRequestsSeeIndex'
  BY <1>15, RequestsRightAfter
<1> QED
  BY <1>9, <1>10, <1>12, <1>13, <1>14, <1>16, <1>17 DEF IndexInv

-----------------------------------------------------------------------------
(* The theorems.                                                            *)

LEMMA InitIndexInv == Init => IndexInv
<1> SUFFICES ASSUME Init PROVE IndexInv
  OBVIOUS
<1>1. PICK x \in Model : idx = <<NewIndex(x, NoJdk, [l \in {} |-> {}])>>
  BY DEF Init
<1>2. /\ current = 1 /\ active_jdk = NoJdk /\ snaps = <<>> /\ writer = Idle
      /\ reader = [r \in Reader |-> Fresh] /\ changes = 0
  BY DEF Init
<1> DEFINE ix == NewIndex(x, NoJdk, [l \in {} |-> {}])
<1>3. IsIndex(ix) /\ DOMAIN ix.scope_cache = {}
  BY DEF IsIndex, NewIndex
<1> HIDE DEF ix
<1>4. IsSeq(idx) /\ Len(idx) = 1 /\ DOMAIN idx = {1} /\ idx[1] = ix
  <2>1. idx \in Seq({ix}) /\ Len(idx) = 1 /\ idx[1] = ix
    BY <1>1 DEF ix
  <2>2. IsSeq(idx) /\ DOMAIN idx = 1..1
    BY <2>1, SeqIsSeq
  <2> QED
    BY <2>1, <2>2
<1>5. IndexesOK
  <2>1. \A i \in DOMAIN idx : IsIndex(idx[i])
    BY <1>3, <1>4
  <2> QED
    BY <1>2, <1>4, <2>1 DEF IndexesOK, IsIndex
<1>6. SnapsOK /\ DOMAIN snaps = {}
  <2>1. <<>> \in Seq({})
    OBVIOUS
  <2>2. IsSeq(<<>>)
    BY <2>1, SeqIsSeq
  <2> QED
    BY <1>2, <2>2 DEF SnapsOK
<1>7. WriterOK
  BY <1>2, BoundAssumption DEF WriterOK, Idle
<1>8. \A r \in Reader : reader[r].pc = "idle"
  BY <1>2 DEF Fresh
<1>9. ReadersOK
  <2>1. <<>> \in Seq(SUBSET Layer)
    OBVIOUS
  <2>2. ReaderOK(Fresh)
    BY <2>1 DEF ReaderOK, Fresh
  <2> QED
    BY <1>2, <2>2 DEF ReadersOK
<1>10. Refs = {}
  BY <1>3, <1>4, <1>8 DEF Refs, CachedRefs, Holding
<1>11. RefsOK /\ RefsAgree /\ RefsFresh
  BY <1>10 DEF RefsOK, RefsAgree, RefsFresh
<1>12. NamesSoFar /\ CalmOnCurrent /\ UndisturbedRequestsSeeIndex
  BY <1>8 DEF NamesSoFar, CalmOnCurrent, UndisturbedRequestsSeeIndex
<1> QED
  BY <1>5, <1>6, <1>7, <1>9, <1>11, <1>12 DEF IndexInv

LEMMA NextIndexInv == IndexInv /\ [Next]_vars => IndexInv'
<1> SUFFICES ASSUME IndexInv, [Next]_vars PROVE IndexInv'
  OBVIOUS
<1>1. ASSUME NEW o \in Origin, NEW batch \in Texts[o], UpdateSource(o, batch) PROVE IndexInv'
  BY <1>1, UpdateSourceSound
<1>2. CASE AddClasses
  BY <1>2, AddClassesSound
<1>3. ASSUME NEW o \in Origin, RemoveSourceOrigin(o) PROVE IndexInv'
  BY <1>3, RemoveSourceOriginSound
<1>4. ASSUME NEW stored \in BOOLEAN, SetJdk(stored) PROVE IndexInv'
  BY <1>4, SetJdkSound
<1>5. CASE ClearScopeCache
  BY <1>5, ClearScopeCacheSound
<1>6. CASE IncrementVersion
  BY <1>6, IncrementVersionSound
<1>7. CASE ClearAnalysisCaches
  BY <1>7, ClearAnalysisCachesSound
<1>8. ASSUME NEW x \in Model, Replace(x) PROVE IndexInv'
  BY <1>8, ReplaceSound
<1>9. ASSUME NEW r \in Reader, ReaderNext(r) PROVE IndexInv'
  <2>1. ASSUME NEW o \in Origin, Load(r, o) PROVE IndexInv'
    BY <2>1, LoadSound
  <2>2. CASE LookUpScope(r)
    BY <2>2, LookUpScopeSound
  <2>3. CASE RecheckVersion(r)
    BY <2>3, RecheckVersionSound
  <2>4. CASE InsertScope(r)
    BY <2>4, InsertScopeSound
  <2>5. CASE GetNameTable(r)
    BY <2>5, GetNameTableSound
  <2>6. CASE ReadLayerNames(r)
    BY <2>6, ReadLayerNamesSound
  <2>7. CASE FinishNameTable(r)
    BY <2>7, FinishNameTableSound
  <2> QED
    BY <1>9, <2>1, <2>2, <2>3, <2>4, <2>5, <2>6, <2>7 DEF ReaderNext
<1>10. CASE UNCHANGED vars
  <2> USE <1>10 DEF vars, IndexInv
  <2>1. IndexesOK' /\ SnapsOK' /\ WriterOK'
    BY DEF IndexesOK, SnapsOK, WriterOK, Layer
  <2>2. ReadersOK'
    BY DEF ReadersOK, ReaderOK, Layer, Key
  <2>3. Refs' = Refs
    BY DEF Refs, CachedRefs, Held
  <2>4. RefsOK' /\ RefsAgree' /\ RefsFresh'
    BY <2>3 DEF RefsOK, RefsAgree, RefsFresh, UpToDate, Key
  <2>5. NamesSoFar' /\ CalmOnCurrent' /\ UndisturbedRequestsSeeIndex'
    BY DEF NamesSoFar, UpToDate, Held, CalmOnCurrent, UndisturbedRequestsSeeIndex
  <2> QED
    BY <2>1, <2>2, <2>4, <2>5
<1> QED
  BY <1>1, <1>2, <1>3, <1>4, <1>5, <1>6, <1>7, <1>8, <1>9, <1>10 DEF Next

(* Every reachable state of the index satisfies the invariant.              *)
THEOREM IndexInvariant == Spec => []IndexInv
BY InitIndexInv, NextIndexInv, PTL DEF Spec

(* The published index, its scope cache and the requests only point at what *)
(* exists (workspace_index.rs, handle.rs).                                  *)
THEOREM IndexTypeCorrect == Spec => []TypeOK
<1>1. IndexInv => TypeOK
  <2> SUFFICES ASSUME IndexInv PROVE TypeOK
    OBVIOUS
  <2>1. ASSUME NEW i \in DOMAIN idx, NEW k \in DOMAIN idx[i].scope_cache
        PROVE  /\ k \in Key
               /\ idx[i].scope_cache[k].snap \in DOMAIN snaps
               /\ idx[i].scope_cache[k].version <= idx[i].version
    BY RefsMembers, RefFields DEF IndexInv, RefsOK
  <2>2. ASSUME NEW r \in Reader
        PROVE  /\ reader[r].pc \in {"idle", "lookup", "store", "insert", "table", "names", "served"}
               /\ reader[r].pc \in {"store", "insert", "table", "names"} =>
                    reader[r].snap \in DOMAIN snaps
    BY RequestFacts DEF ReaderOK, Holding
  <2> QED
    BY <2>1, <2>2 DEF TypeOK, IndexInv, IndexesOK, WriterOK
<1> QED
  BY <1>1, IndexInvariant, PTL

(* While no writer is at work, what the scope cache serves at the current   *)
(* version is what a scope built now would be                               *)
(* (scope_for_analysis_context, build_name_table).                          *)
THEOREM CacheServesFreshScopes == Spec => []CurrentScopesAreFresh
<1>1. IndexInv => CurrentScopesAreFresh
  <2> SUFFICES ASSUME IndexInv, writer.pc = "idle",
                      NEW k \in DOMAIN idx[current].scope_cache,
                      idx[current].scope_cache[k].version = idx[current].version
               PROVE  LET snap == snaps[idx[current].scope_cache[k].snap] IN
                      /\ snap.layers = LayersOf(idx[current], k)
                      /\ snap.table # None => snap.table = NamesOf(idx[current], snap.layers)
    BY DEF CurrentScopesAreFresh
  <2> DEFINE a == Ref(current, k, idx[current].scope_cache[k].version,
                      idx[current].scope_cache[k].snap)
  <2>1. a \in Refs
    BY CurrentIndex, RefsMembers DEF IndexInv
  <2>2. UpToDate(a)
    BY RefFields DEF UpToDate
  <2> QED
    BY <2>1, <2>2, RefFields DEF IndexInv, RefsFresh
<1> QED
  BY <1>1, IndexInvariant, PTL

(* A request that no writer disturbs is told the names of the index as it   *)
(* is, whatever other requests put in the cache before                      *)
(* (scope_for_analysis_context, build_name_table).                          *)
THEOREM CalmRequestsSeeIndex == Spec => []UndisturbedRequestsSeeIndex
BY IndexInvariant, PTL DEF IndexInv
=============================================================================
