----------------------------- MODULE IndexView ------------------------------
(***************************************************************************)
(* What a request sees of the index (index/view.rs): the layers of its     *)
(* scope merged into one class space, the hierarchy of a class, the        *)
(* members it inherits and the nested types in scope.                      *)
(*                                                                         *)
(* A view is a sequence of layers, nearest first; a layer is a sequence of *)
(* classes with pairwise different internal names (see BucketIndex).  A    *)
(* class has its internal name (id), the last part of that (tail), its     *)
(* package (pkg), its direct name (name), its owner (owner:                *)
(* inner_class_of), its parents (the super class and the interfaces, in    *)
(* that order), its methods and fields, whether it is an annotation, and   *)
(* whether it comes from a source file (src).  A method has a name, a      *)
(* descriptor and a generic signature or None.  A reference to a class is  *)
(* the class itself: a bucket and an artifact give the same answers.  The  *)
(* caches of a view only repeat its answers.                               *)
(***************************************************************************)
EXTENDS Naturals, Sequences, FiniteSets

LOCAL INSTANCE SequencesExt

CONSTANT None

First(s) == IF s = <<>> THEN None ELSE s[1]

OriginPrecedence(class) == IF class.src THEN 2 ELSE 1

(* A later layer is preferred only when it has the source of a class that   *)
(* the earlier one has as byte code.                                        *)
ShouldReplace(current, candidate) == OriginPrecedence(candidate) > OriginPrecedence(current)

(* Keeps the best of the candidates in order.                               *)
BestOf(candidates) ==
    FoldLeft(LAMBDA best, c : IF best = None \/ ShouldReplace(best, c) THEN c ELSE best,
             None, candidates)

(* The classes of all layers with that value in a field.                    *)
Fetched(view, field, value) == SelectSeq(FlattenSeq(view), LAMBDA c : c[field] = value)

GetClassOfFirstLayer(view, id) == First(Fetched(view, "id", id))

GetClass(view, id) == BestOf(Fetched(view, "id", id))

(* A class keeps the place where its name was first met.                    *)
MergeClassRefs(classes) ==
    LET Add(merged, c) ==
          IF \A e \in ToSet(merged) : e.id # c.id THEN Append(merged, c)
          ELSE [i \in DOMAIN merged |->
                  IF merged[i].id = c.id /\ ShouldReplace(merged[i], c) THEN c ELSE merged[i]]
    IN FoldLeft(Add, <<>>, classes)

GetClassesBySimpleName(view, name) == MergeClassRefs(Fetched(view, "name", name))
ClassesInPackage(view, pkg) == MergeClassRefs(Fetched(view, "pkg", pkg))
TopLevelClassesInPackage(view, pkg) ==
    SelectSeq(ClassesInPackage(view, pkg), LAMBDA c : c.owner = None)
DirectInnerClassesOf(view, owner) == MergeClassRefs(Fetched(view, "owner", owner))
IterAllClasses(view) == MergeClassRefs(FlattenSeq(view))
AnnotationClasses(view) == MergeClassRefs(Fetched(view, "annotation", TRUE))
HasClassesInPackage(view, pkg) == \E l \in ToSet(view) : \E c \in ToSet(l) : c.pkg = pkg

OnlyElement(s) == IF Len(s) = 1 THEN s[1] ELSE None

GetUniqueClassBySimpleName(view, name) == OnlyElement(GetClassesBySimpleName(view, name))

(* An overlay of synthetic classes goes before every other layer.           *)
WithOverlayClasses(view, classes) == IF classes = <<>> THEN view ELSE <<classes>> \o view

-----------------------------------------------------------------------------
(* The hierarchy: breadth first, every name once; a name that no layer has  *)
(* is passed over.                                                          *)

HierarchyTurnDepthFirst(view, w) ==
    LET id == Head(w.queue)
        class == GetClass(view, id)
    IN IF id \in w.seen THEN [w EXCEPT !.queue = Tail(@)]
       ELSE IF class = None THEN [w EXCEPT !.queue = Tail(@), !.seen = @ \cup {id}]
       ELSE [queue |-> class.parents \o Tail(w.queue), seen |-> w.seen \cup {id},
             order |-> Append(w.order, class)]

HierarchyTurn(view, w) ==
    LET id == Head(w.queue)
        class == GetClass(view, id)
    IN IF id \in w.seen THEN [w EXCEPT !.queue = Tail(@)]
       ELSE IF class = None THEN [w EXCEPT !.queue = Tail(@), !.seen = @ \cup {id}]
       ELSE [queue |-> Tail(w.queue) \o class.parents, seen |-> w.seen \cup {id},
             order |-> Append(w.order, class)]

(* Every class queues its parents at most once, so the walk ends within     *)
(* this many turns.                                                         *)
TurnsFor(view) ==
    FoldLeft(LAMBDA n, c : n + Len(c.parents), 1, IterAllClasses(view))

HierarchyWalk(view, id) ==
    LET walk[n \in 0..TurnsFor(view)] ==
          IF n = 0 THEN [queue |-> <<id>>, seen |-> {}, order |-> <<>>]
          ELSE LET w == walk[n - 1] IN IF w.queue = <<>> THEN w ELSE HierarchyTurn(view, w)
    IN walk[TurnsFor(view)]

HierarchyOrder(view, id) == HierarchyWalk(view, id).order

(* A method hides the later ones with its name and generic signature, or    *)
(* its descriptor when it has none.                                         *)
MethodShadowName(method) == method.name

MethodShadowKey(method) ==
    <<method.name, IF method.gensig = None THEN method.desc ELSE method.gensig>>

(* The members of the classes in order, each with its owner, without the    *)
(* ones whose key came before.                                              *)
Unshadowed(order, Members(_), Key(_)) ==
    LET Owned(c) == [i \in DOMAIN Members(c) |-> [owner |-> c.id, member |-> Members(c)[i]]]
        Add(kept, e) == IF \E k \in ToSet(kept) : Key(k.member) = Key(e.member)
                        THEN kept ELSE Append(kept, e)
    IN FoldLeft(Add, <<>>, FlattenSeq([i \in DOMAIN order |-> Owned(order[i])]))

CollectInheritedMembers(view, id) ==
    LET order == HierarchyOrder(view, id) IN
    [methods |-> Unshadowed(order, LAMBDA c : c.methods, MethodShadowKey),
     fields |-> Unshadowed(order, LAMBDA c : c.fields, LAMBDA f : f.name)]

(* The classes of the hierarchy, each with the members that no earlier one  *)
(* hides.                                                                   *)
ProjectHierarchyClasses(order) ==
    LET ms == Unshadowed(order, LAMBDA c : c.methods, MethodShadowKey)
        fs == Unshadowed(order, LAMBDA c : c.fields, LAMBDA f : f.name)
        Of(all, c) == LET own == SelectSeq(all, LAMBDA e : e.owner = c.id)
                      IN [i \in DOMAIN own |-> own[i].member]
    IN [i \in DOMAIN order |->
          [order[i] EXCEPT !.methods = Of(ms, order[i]), !.fields = Of(fs, order[i])]]

Mro(view, id) == ProjectHierarchyClasses(HierarchyOrder(view, id))

(* The overloads by name: the classes are searched for that name only.      *)
LookupMethodsInHierarchyRefs(view, id, name) ==
    Unshadowed(HierarchyOrder(view, id),
               LAMBDA c : SelectSeq(c.methods, LAMBDA x : x.name = name), MethodShadowKey)

LookupMethodsInHierarchy(view, id, name) ==
    SelectSeq(CollectInheritedMembers(view, id).methods, LAMBDA e : e.member.name = name)

(* The first class in the hierarchy that has the field.                     *)
FieldOfFirst(order, name) ==
    LET Fields(c) == SelectSeq(c.fields, LAMBDA f : f.name = name)
    IN First(FlattenSeq([i \in DOMAIN order |->
                           LET fields == Fields(order[i])
                           IN [k \in DOMAIN fields |-> [owner |-> order[i].id, member |-> fields[k]]]]))

LookupFieldFromTheTop(view, id, name) == FieldOfFirst(Reverse(HierarchyOrder(view, id)), name)

LookupFieldInHierarchyRef(view, id, name) == FieldOfFirst(HierarchyOrder(view, id), name)

LookupFieldInHierarchy(view, id, name) ==
    First(SelectSeq(CollectInheritedMembers(view, id).fields, LAMBDA e : e.member.name = name))

FindDeclaringMethodOwner(view, id, name, desc) ==
    First(SelectSeq(HierarchyOrder(view, id),
                    LAMBDA c : \E x \in ToSet(c.methods) : x.name = name /\ x.desc = desc))

-----------------------------------------------------------------------------
(* Nested types.                                                            *)

ResolveDirectInnerClass(view, owner, name) ==
    BestOf(SelectSeq(Fetched(view, "owner", owner), LAMBDA c : c.name = name))

ResolveOwnerClass(view, id) ==
    LET class == GetClass(view, id) IN
    IF class = None \/ class.owner = None THEN None ELSE GetClass(view, class.owner)

FirstFound(found) == First(SelectSeq(found, LAMBDA x : x # None))

InnerOfFirst(view, order, name) ==
    FirstFound([i \in DOMAIN order |-> ResolveDirectInnerClass(view, order[i].id, name)])

ClassOf(view, ref) == IF ref = None THEN None ELSE GetClass(view, ref.id)

LookupMemberType(view, id, name) ==
    ClassOf(view, InnerOfFirst(view, HierarchyOrder(view, id), name))

(* The enclosing classes from the inside out, up to MaxDepth of them: the   *)
(* ownership recorded in the index may be cyclic.                           *)
ScopeChain(view, class, MaxDepth) ==
    LET chain[n \in 0..MaxDepth] ==
          IF n = 0 THEN <<class>>
          ELSE LET below == chain[n - 1]
                   last == Last(below)
               IN IF last = None \/ last.owner = None THEN below
                  ELSE Append(below, GetClass(view, last.owner))
        classes == chain[MaxDepth]
    IN [i \in DOMAIN classes |-> IF i = 1 THEN class.id ELSE classes[i - 1].owner]

(* The class a caller means by a name that may be wrong about nesting: its  *)
(* exact internal name (at.id), or the only class of the package (at.pkg)   *)
(* whose internal or direct name ends so (at.tail).                         *)
EnclosingClass(view, at) ==
    LET Ends(c) == c.tail = at.tail \/ c.name = at.tail IN
    IF GetClass(view, at.id) # None THEN GetClass(view, at.id)
    ELSE OnlyElement(SelectSeq(ClassesInPackage(view, at.pkg), Ends))

(* Among the classes of the package with that name, the one whose owner is  *)
(* innermost; the first such in the order of the package.                   *)
ResolveScopedInnerOutermost(view, at, name, MaxDepth) ==
    LET enclosing == EnclosingClass(view, at) IN
    IF enclosing = None THEN None
    ELSE LET chain == ScopeChain(view, enclosing, MaxDepth)
             inner == SelectSeq(ClassesInPackage(view, enclosing.pkg),
                                LAMBDA c : c.name = name /\ c.owner \in ToSet(chain))
         IN IF inner = <<>> THEN None ELSE inner[Len(inner)]

ResolveScopedInnerClass(view, at, name, MaxDepth) ==
    LET Inner(enclosing, chain) ==
          SelectSeq(ClassesInPackage(view, enclosing.pkg),
                    LAMBDA c : c.name = name /\ c.owner \in ToSet(chain))
        Innermost(inner, chain) ==
          LET Pos(c) == CHOOSE i \in DOMAIN chain :
                           chain[i] = c.owner /\ \A j \in 1..(i - 1) : chain[j] # c.owner
          IN First(SelectSeq(inner, LAMBDA c : \A e \in ToSet(inner) : Pos(c) <= Pos(e)))
        Among(enclosing, chain) == Innermost(Inner(enclosing, chain), chain)
        Inside(enclosing) ==
          IF enclosing = None THEN None ELSE Among(enclosing, ScopeChain(view, enclosing, MaxDepth))
    IN Inside(EnclosingClass(view, at))

(* The longest head that resolves and whose remaining segments are nested   *)
(* types one in the other; head[n] is what the first n segments resolve to. *)
ResolveQualifiedTypePath(view, parts, head) ==
    LET IdOf(class) == IF class = None THEN None ELSE class.id
        Nested(owner, name) == IF owner = None THEN None ELSE IdOf(ResolveDirectInnerClass(view, owner, name))
        at[split \in DOMAIN parts, n \in DOMAIN parts] ==
          IF n <= split THEN head[split] ELSE Nested(at[split, n - 1], parts[n])
        Class(id) == IF id = None THEN None ELSE GetClass(view, id)
    IN FirstFound(Reverse([split \in DOMAIN parts |-> Class(at[split, Len(parts)])]))

(* An import names a class or all classes of a package.                     *)
ResolveImports(view, imports) ==
    LET Named(i) == IF i.star THEN ClassesInPackage(view, i.name)
                    ELSE IF GetClass(view, i.name) = None THEN <<>>
                    ELSE <<GetClass(view, i.name)>>
        Add(known, c) == IF \E k \in ToSet(known) : k.id = c.id THEN known ELSE Append(known, c)
    IN FoldLeft(Add, <<>>, FlattenSeq([i \in DOMAIN imports |-> Named(imports[i])]))

-----------------------------------------------------------------------------
(* What must hold of every view.                                            *)

Ids(view) == {c.id : c \in UNION {ToSet(view[i]) : i \in DOMAIN view}}

Parents(view, S) == UNION {ToSet(GetClass(view, i).parents) : i \in S} \cap Ids(view)

(* The classes at most n steps up from a class.                             *)
Within(view, id, n) ==
    LET up[k \in 0..n] == IF k = 0 THEN {id} \cap Ids(view)
                          ELSE LET below == up[k - 1] IN below \cup Parents(view, below)
    IN up[n]

(* The hierarchy of a class is every class it inherits from, each once and  *)
(* nearer ones first, whatever cycles, diamonds and missing classes there   *)
(* are, and the walk ends.                                                  *)
HierarchyNearestFirst(view, id) ==
    LET order == HierarchyOrder(view, id)
        far == Cardinality(Ids(view))
        Distance(c) == CHOOSE n \in 0..far :
                          c.id \in Within(view, id, n) /\ \A k \in 0..(n - 1) : c.id \notin Within(view, id, k)
    IN /\ HierarchyWalk(view, id).queue = <<>>
       /\ {c.id : c \in ToSet(order)} = Within(view, id, far)
       /\ \A i \in DOMAIN order : order[i] = GetClass(view, order[i].id)
       /\ \A i, j \in DOMAIN order :
            i < j => order[i].id # order[j].id /\ Distance(order[i]) <= Distance(order[j])

(* The member list of a completion, the overloads a call is resolved        *)
(* against, the projected hierarchy and the field lookups show the same     *)
(* members of the same classes.                                             *)
MemberLookupsAgree(view, id, names) ==
    LET all == CollectInheritedMembers(view, id)
        mro == Mro(view, id)
    IN /\ \A n \in names :
            /\ LookupMethodsInHierarchyRefs(view, id, n) = LookupMethodsInHierarchy(view, id, n)
            /\ LookupFieldInHierarchyRef(view, id, n) = LookupFieldInHierarchy(view, id, n)
       /\ \A e \in ToSet(all.methods) :
            Cardinality({c \in ToSet(mro) : e.member \in ToSet(c.methods)}) = 1
       /\ \A c \in ToSet(mro) : \A x \in ToSet(c.methods) :
            [owner |-> c.id, member |-> x] \in ToSet(all.methods)

(* Go-to-definition asks for the class that declares a method by its        *)
(* descriptor, overload resolution picks it from the unshadowed methods:    *)
(* both name the same class, as long as methods with one generic signature  *)
(* have the same descriptor.                                                *)
DeclaringOwnerAgrees(view, id) ==
    LET order == HierarchyOrder(view, id)
        methods == UNION {ToSet(c.methods) : c \in ToSet(order)}
        refs == CollectInheritedMembers(view, id).methods
    IN (\A x, y \in methods : x.name = y.name /\ x.gensig = y.gensig /\ x.gensig # None
                                => x.desc = y.desc)
        => \A x \in methods :
             LET first == First(SelectSeq(refs, LAMBDA e : e.member.name = x.name
                                                            /\ e.member.desc = x.desc))
             IN first # None /\ first.owner = FindDeclaringMethodOwner(view, id, x.name, x.desc).id

(* A class reached through a listing (by package, by name, by owner, among  *)
(* all) is the one a lookup by its internal name gives, and is listed once. *)
ListingsAgree(view) ==
    LET all == UNION {ToSet(view[i]) : i \in DOMAIN view}
        Agrees(list) ==
          /\ \A i \in DOMAIN list : list[i] = GetClass(view, list[i].id)
          /\ \A i, j \in DOMAIN list : list[i].id = list[j].id => i = j
    IN /\ Agrees(IterAllClasses(view))
       /\ \A c \in all : /\ Agrees(GetClassesBySimpleName(view, c.name))
                         /\ Agrees(ClassesInPackage(view, c.pkg))
                         /\ Agrees(DirectInnerClassesOf(view, c.owner))

(* The nested type a simple name means inside a class, found by scanning    *)
(* the package, is the one of the innermost enclosing class that has one,   *)
(* found by owner, as long as no class has two nested types of one name.    *)
OneTypePerName(view) ==
    \A c, e \in UNION {ToSet(l) : l \in ToSet(view)} :
        c.owner # None /\ c.owner = e.owner /\ c.name = e.name => c.id = e.id

InnermostTypeMeant(view, at, name, MaxDepth) ==
    OneTypePerName(view) /\ EnclosingClass(view, at) # None =>
        LET chain == ScopeChain(view, EnclosingClass(view, at), MaxDepth)
            having == {i \in DOMAIN chain : ResolveDirectInnerClass(view, chain[i], name) # None}
        IN ResolveScopedInnerClass(view, at, name, MaxDepth)
             = IF having = {} THEN None
               ELSE ResolveDirectInnerClass(view, chain[CHOOSE i \in having :
                                                          \A j \in having : i <= j], name)
=============================================================================
