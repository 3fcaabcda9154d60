---------------------------- MODULE ScopeLayers -----------------------------
(***************************************************************************)
(* Which buckets a file of a module sees, and in which order: the layers   *)
(* of an analysis context (index/workspace_index.rs build_scope_layers,    *)
(* index/module_index.rs visible_source_layers, index/module_graph.rs).    *)
(*                                                                         *)
(* A topology t has the dependency lists of the modules (t.deps), the      *)
(* source roots of each module with the classpath each belongs to          *)
(* (t.roots), the classpath entries (t.classpath) and the JDK (t.jdk).     *)
(* The source roots of a module come out of a hash map in any order, so a  *)
(* scope is a sequence of sets of layers: an earlier set shadows a later.  *)
(***************************************************************************)
EXTENDS Naturals, Sequences, FiniteSets

CONSTANTS
    Module,       \* module ids
    SourceRoot,   \* source root ids
    NoRoot,       \* a file that is under no source root
    NoJdk         \* no JDK is set

ASSUME ModuleAssumption == IsFiniteSet(Module)

Classpath == {"main", "test"}

Own(m) == [kind |-> "module", of |-> m, root |-> NoRoot]
InRoot(m, r) == [kind |-> "root", of |-> m, root |-> r]
Entry(e) == [kind |-> "entry", of |-> e, root |-> NoRoot]

Group(roots) == IF roots = {} THEN <<>> ELSE <<roots>>

(* Where the classes of a file go: the bucket of its source root, or the    *)
(* module's own when the root is not registered (a resource root, a file    *)
(* under no root).                                                          *)
TargetOwnBucket(t, m, root) == Own(m)

TargetBucket(t, m, root) == IF root \in DOMAIN t.roots[m] THEN InRoot(m, root) ELSE Own(m)

(* The file's own root first, then the test roots for a test, then the main *)
(* roots; the module's own bucket only when that leaves nothing.            *)
VisibleSourceLayersAllRoots(t, m, cp, preferred) ==
    LET roots == DOMAIN t.roots[m] IN
    IF roots = {} THEN <<{Own(m)}>> ELSE <<{InRoot(m, r) : r \in roots}>>

VisibleSourceLayers(t, m, cp, preferred) ==
    LET roots == DOMAIN t.roots[m]
        first == roots \cap {preferred}
        matching(c) == {r \in roots \ first : t.roots[m][r] = c}
        chosen == Group(first) \o (IF cp = "test" THEN Group(matching("test")) ELSE <<>>)
                    \o Group(matching("main"))
    IN IF roots = {} \/ chosen = <<>> THEN <<{Own(m)}>>
       ELSE [i \in DOMAIN chosen |-> {InRoot(m, r) : r \in chosen[i]}]

ClasspathLayers(t, m, cp) == [i \in DOMAIN t.classpath[m][cp] |-> {Entry(t.classpath[m][cp][i])}]

JdkLayer(t) == IF t.jdk = NoJdk THEN <<>> ELSE <<{Entry(t.jdk)}>>

(* One turn of the walk over the dependencies: the module at the head of    *)
(* the queue is passed over when it was seen before.                        *)
VisitAgain(t, w) ==
    LET dep == Head(w.queue) IN
    [queue |-> Tail(w.queue) \o t.deps[dep], seen |-> w.seen \cup {dep},
     layers |-> w.layers \o VisibleSourceLayers(t, dep, "main", NoRoot)
                  \o ClasspathLayers(t, dep, "main")]

Visit(t, w) ==
    LET dep == Head(w.queue) IN
    IF dep \in w.seen THEN [w EXCEPT !.queue = Tail(@)]
    ELSE [queue |-> Tail(w.queue) \o t.deps[dep], seen |-> w.seen \cup {dep},
          layers |-> w.layers \o VisibleSourceLayers(t, dep, "main", NoRoot)
                       \o ClasspathLayers(t, dep, "main")]

(* A bound on the turns: every module is expanded at most once, and every   *)
(* expansion queues its dependencies.                                       *)
Turns(t) == Cardinality(UNION {{x} \X DOMAIN t.deps[x] : x \in Module})

(* walk[n] is the walk after n turns; it stands still once the queue is     *)
(* empty.                                                                   *)
DependencyWalk(t, m) ==
    LET walk[n \in 0..Turns(t)] ==
          IF n = 0 THEN [queue |-> t.deps[m], seen |-> {m}, layers |-> <<>>]
          ELSE LET w == walk[n - 1] IN IF w.queue = <<>> THEN w ELSE Visit(t, w)
    IN walk[Turns(t)]

BuildScopeLayers(t, m, cp, root) ==
    VisibleSourceLayers(t, m, cp, root) \o ClasspathLayers(t, m, cp)
      \o DependencyWalk(t, m).layers \o JdkLayer(t)

-----------------------------------------------------------------------------
(* Reference definitions and what the walk must establish, for every        *)
(* topology.                                                                *)

DependsOn(t, m) == {t.deps[m][i] : i \in DOMAIN t.deps[m]}

(* The modules reachable along dependencies, as the least closed set.       *)
Reachable(t, m) ==
    CHOOSE S \in SUBSET Module :
        /\ m \in S /\ \A x \in S : DependsOn(t, x) \subseteq S
        /\ \A R \in SUBSET Module :
             (m \in R /\ \A x \in R : DependsOn(t, x) \subseteq R) => S \subseteq R

Sources(layers) == {i \in DOMAIN layers : \E l \in layers[i] : l.kind # "entry"}
Flat(layers) == UNION {layers[i] : i \in DOMAIN layers}

(* The walk ends, and has visited exactly the modules reachable from m, in  *)
(* spite of cycles and diamonds in the dependencies.                        *)
WalkVisitsReachable(t, m) ==
    /\ DependencyWalk(t, m).queue = <<>>
    /\ DependencyWalk(t, m).seen = Reachable(t, m)

(* A source bucket is one layer of the scope only; the file's own module    *)
(* comes before its dependencies, and every visible main bucket of a        *)
(* reachable module is there, while tests are visible only in their own     *)
(* module, from a test or from the root itself.                             *)
SourcesOnceOwnFirst(t, m, cp, root) ==
    LET layers == BuildScopeLayers(t, m, cp, root)
        own == {l \in Flat(layers) : l.kind # "entry" /\ l.of = m}
    IN
    /\ \A i, j \in Sources(layers) : layers[i] \cap layers[j] # {} => i = j
    /\ \A i, j \in Sources(layers) :
         (layers[i] \cap own # {} /\ layers[j] \cap own = {}) => i < j
    /\ root \in DOMAIN t.roots[m] => layers[1] = {InRoot(m, root)}
    /\ \A x \in Reachable(t, m), r \in SourceRoot :
         InRoot(x, r) \in Flat(layers) <=>
           /\ r \in DOMAIN t.roots[x]
           /\ \/ t.roots[x][r] = "main"
              \/ x = m /\ (cp = "test" \/ r = root)

(* The classes of a file under a registered source root, or of a module     *)
(* without roots, are in the file's own scope.                              *)
OwnClassesVisible(t, m, cp, root) ==
    (root \in DOMAIN t.roots[m] \/ DOMAIN t.roots[m] = {}) =>
        TargetBucket(t, m, root) \in Flat(BuildScopeLayers(t, m, cp, root))
=============================================================================
