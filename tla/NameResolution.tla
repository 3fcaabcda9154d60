---------------------------- MODULE NameResolution ---------------------------
(***************************************************************************)
(* What a name in a Java file means: simple and qualified type names, type *)
(* expressions, names of unknown kind and members (language/java/          *)
(* type_ctx.rs, semantic/types/symbol_resolver.rs, semantic/enclosing.rs,  *)
(* language/java/super_support.rs), looked up in an index view.            *)
(*                                                                         *)
(* An internal name is <<path, nest>>: the segments between slashes of the *)
(* package, and those between dollars of the class.  A name in the source  *)
(* is the sequence of its segments.  A file context has the view, the      *)
(* package, the imports in order ([path, star]), the enclosing class, the  *)
(* last part of its internal name (tail) and the names of the classes      *)
(* around the cursor from the outside in (chain),                          *)
(* the local variables, the types flow analysis has for some of them, the  *)
(* static imports ([owner, member]) and the name after extends.            *)
(*                                                                         *)
(* A type expression is [kind, name, args, dims]; the kind is "named",     *)
(* "and" (an intersection of args), "?", "extends" or "super".  A resolved *)
(* type is the same with internal names.  The name table a context may     *)
(* have holds the names of its view, and its caches repeat its answers.    *)
(***************************************************************************)
EXTENDS IndexView

LOCAL INSTANCE SequencesExt

RECURSIVE ResolveTypeNameStrict(_, _), ResolveTypeArg(_, _)
RECURSIVE ResolveTypeNameRelaxed(_, _), ResolveTypeArgRelaxed(_, _)

ClassNamed(path, name) == <<path, <<name>> >>
Slashed(parts) == ClassNamed(Front(parts), Last(parts))
JavaLang == <<"java", "lang">>
ObjectName == ClassNamed(JavaLang, "Object")
OrElse(one, other) == IF one # None THEN one ELSE other

ClassExists(ctx, id) == GetClass(ctx.view, id) # None
IfExists(ctx, id) == IF ClassExists(ctx, id) THEN id ELSE None

-----------------------------------------------------------------------------
(* Type names.                                                              *)

(* None when two candidates are found, even when they are the same class.   *)
OnlyCandidate(found, otherwise) ==
    IF found = <<>> THEN otherwise ELSE IF Len(found) = 1 THEN found[1] ELSE None

Candidates(ctx, star, parts) ==
    LET fits == SelectSeq(ctx.imports, LAMBDA i : i.star = star /\ (star \/ IsSuffix(parts, i.path)))
        named == [i \in DOMAIN fits |-> IF star THEN ClassNamed(fits[i].path, parts[1]) ELSE Slashed(fits[i].path)]
    IN SelectSeq(named, LAMBDA id : ClassExists(ctx, id))

(* A name with a dot can only be the end of an import: no class has such a  *)
(* simple name.                                                             *)
ResolveFirstImport(ctx, parts) ==
    First(Candidates(ctx, FALSE, parts) \o Candidates(ctx, TRUE, parts))

ResolveSimpleStrict(ctx, parts) ==
    OnlyCandidate(Candidates(ctx, FALSE, parts),
                  IF Len(parts) > 1 THEN None
                  ELSE OrElse(IfExists(ctx, ClassNamed(ctx.pkg, parts[1])),
                       OrElse(IfExists(ctx, ClassNamed(JavaLang, parts[1])),
                              OnlyCandidate(Candidates(ctx, TRUE, parts), None))))

(* The first segments of a name as a class.                                 *)
ResolveOwnerName(ctx, parts) ==
    IF Len(parts) = 1 THEN ResolveSimpleStrict(ctx, parts) ELSE IfExists(ctx, Slashed(parts))

(* What is left of a dotted name when the view did not find it: an owner    *)
(* and the names nested in it, longest owner first.                         *)
ResolveByNames(ctx, parts) ==
    LET Nested(owner, rest) == IF owner = None THEN None ELSE IfExists(ctx, <<owner[1], owner[2] \o rest>>)
        Split(n) == Nested(ResolveOwnerName(ctx, SubSeq(parts, 1, n)), SubSeq(parts, n + 1, Len(parts)))
        splits == [n \in 1..(Len(parts) - 1) |-> Split(Len(parts) - n)]
    IN FirstFound(<<IfExists(ctx, Slashed(parts))>> \o splits)

IdOf(class) == IF class = None THEN None ELSE class.id

ResolveBaseInternal(ctx, parts) ==
    IF Len(parts) = 1 THEN ResolveSimpleStrict(ctx, parts)
    ELSE OrElse(IdOf(ResolveQualifiedTypePath(ctx.view, parts,
                       [n \in DOMAIN parts |-> ResolveOwnerName(ctx, SubSeq(parts, 1, n))])),
                ResolveByNames(ctx, parts))

(* All or nothing: every element is resolved.                               *)
Complete(found) == \A i \in DOMAIN found : found[i] # None

Completed(t, name, found) ==
    IF name # None /\ Complete(found) THEN [t EXCEPT !.name = name, !.args = found] ELSE None

ResolveTypeNameStrict(ctx, t) ==
    IF t.kind = "and"
    THEN Completed(t, t.name, [i \in DOMAIN t.args |-> ResolveTypeNameStrict(ctx, t.args[i])])
    ELSE Completed(t, ResolveBaseInternal(ctx, t.name), [i \in DOMAIN t.args |-> ResolveTypeArg(ctx, t.args[i])])

(* An argument is no array, no intersection and no class of the default     *)
(* package.                                                                 *)
AsArgument(t) ==
    IF t = None THEN None
    ELSE IF t.dims > 0 \/ t.kind = "and" THEN None
    ELSE IF t.name[1] = <<>> THEN None ELSE t

ResolveTypeArg(ctx, a) ==
    IF a.kind = "?" THEN a
    ELSE IF a.kind \in {"extends", "super"}
    THEN Completed(a, a.name, <<ResolveTypeArg(ctx, a.args[1])>>)
    ELSE AsArgument(ResolveTypeNameStrict(ctx, a))

(* The parts that are found, and whether that is all of them.               *)
Gather(t, name, found) ==
    LET known == SelectSeq(found, LAMBDA x : x # None)
    IN [type |-> [t EXCEPT !.name = name, !.args = [i \in DOMAIN known |-> known[i].type]],
        exact |-> Complete(found) /\ \A i \in DOMAIN known : known[i].exact]

(* An intersection of one bound is that bound.                              *)
Flattened(t) ==
    IF t.kind = "and" /\ Len(t.args) = 1
    THEN [t.args[1] EXCEPT !.dims = IF t.dims > 0 THEN t.dims ELSE @] ELSE t

FlattenedKnown(known) ==
    IF known.type.args = <<>> THEN None ELSE [known EXCEPT !.type = Flattened(@)]

GatherUnder(t, name, found) == IF name = None THEN None ELSE Gather(t, name, found)

ResolveTypeNameRelaxed(ctx, t) ==
    IF t.kind = "and"
    THEN FlattenedKnown(Gather(t, t.name, [i \in DOMAIN t.args |-> ResolveTypeNameRelaxed(ctx, t.args[i])]))
    ELSE GatherUnder(t, ResolveBaseInternal(ctx, t.name),
                     [i \in DOMAIN t.args |-> ResolveTypeArgRelaxed(ctx, t.args[i])])

(* A bound may be an intersection, a plain argument may not.                *)
NoIntersection(found) == IF found = None THEN None ELSE IF found.type.kind = "and" THEN None ELSE found

ResolveTypeArgRelaxed(ctx, a) ==
    LET Bounded(bound) == IF bound = None THEN None ELSE Gather(a, a.name, <<bound>>)
    IN IF a.kind = "?" THEN [type |-> a, exact |-> TRUE]
       ELSE IF a.kind \in {"extends", "super"}
       THEN Bounded(OrElse(ResolveTypeArgRelaxed(ctx, a.args[1]), ResolveTypeNameRelaxed(ctx, a.args[1])))
       ELSE NoIntersection(ResolveTypeNameRelaxed(ctx, a))

(* A descriptor erases: the dimensions and the class of the first bound, or *)
(* the name as it is written when it does not resolve.                      *)
ToDescriptor(ctx, t) ==
    LET first == IF t.kind = "and" THEN t.args[1] ELSE t
    IN [dims |-> t.dims, name |-> OrElse(ResolveSimpleStrict(ctx, first.name), first.name)]

-----------------------------------------------------------------------------
(* Types around the cursor.                                                 *)

(* The innermost class of the chain with that name, in the index or not.    *)
OwnerFromChain(ctx, name) ==
    LET at == {i \in DOMAIN ctx.chain : ctx.chain[i] = name}
    IN IF at = {} THEN None
       ELSE <<ctx.pkg, SubSeq(ctx.chain, 1, CHOOSE i \in at : \A j \in at : j <= i)>>

MaxNesting == 3

(* The same walk through the owners in the index.                           *)
OwnerFromIndex(ctx, name) ==
    LET Owner(c) == IF c = None \/ c.owner = None THEN None ELSE GetClass(ctx.view, c.owner)
        up[n \in 0..MaxNesting] == IF n = 0 THEN GetClass(ctx.view, ctx.enclosing) ELSE Owner(up[n - 1])
        Named(c) == IF c # None /\ c.name = name THEN c.id ELSE None
    IN IF ctx.enclosing = None THEN None ELSE FirstFound([n \in 1..(MaxNesting + 1) |-> Named(up[n - 1])])

ResolveEnclosingOwner(ctx, name) == OrElse(OwnerFromChain(ctx, name), OwnerFromIndex(ctx, name))

(* An internal name without a slash, of a class that is not nested, is      *)
(* resolved as a simple name.                                               *)
ResolveSuperName(ctx, id) ==
    IF id[1] # <<>> THEN id ELSE OrElse(ResolveSimpleStrict(ctx, id[2]), IfExists(ctx, id))

(* The name in the text, else the one in the index, else Object.            *)
ResolveDirectSuperOwner(ctx) ==
    LET Indexed(class) == IF class = None \/ class.super = None THEN None ELSE ResolveSuperName(ctx, class.super)
    IN IF ctx.enclosing = None THEN None
       ELSE FirstFound(<<IF ctx.extends = None THEN None ELSE ResolveBaseInternal(ctx, ctx.extends),
                         Indexed(GetClass(ctx.view, ctx.enclosing)),
                         IF ctx.enclosing = ObjectName THEN None ELSE ObjectName>>)

(* The enclosing classes, then the file's imports, then nested types.       *)
ResolveTypeHead(ctx, parts) ==
    LET at == [id |-> ctx.enclosing, pkg |-> ctx.pkg, tail |-> ctx.tail]
        Scoped == IF Len(parts) > 1 \/ ctx.enclosing = None THEN None
                  ELSE IdOf(ResolveScopedInnerClass(ctx.view, at, parts[1], MaxNesting))
        Around == IF Len(parts) > 1 THEN IfExists(ctx, Slashed(parts)) ELSE ResolveEnclosingOwner(ctx, parts[1])
    IN FirstFound(<<Around, ResolveSimpleStrict(ctx, parts), ResolveBaseInternal(ctx, parts), Scoped>>)

(* A name of one segment is its own head.                                   *)
ResolveTypeName(ctx, parts) ==
    LET Found(heads) == OrElse(IdOf(ResolveQualifiedTypePath(ctx.view, parts, heads)),
                               IF Len(parts) = 1 THEN heads[1] ELSE None)
    IN Found([n \in DOMAIN parts |-> ResolveTypeHead(ctx, SubSeq(parts, 1, n))])

-----------------------------------------------------------------------------
(* Names of unknown kind, of identifiers only: keywords and operators in a  *)
(* name leave it to ResolveTypeName.  The type of an expression is          *)
(* [bounds, dims].                                                          *)

TypeNamed(id) == [kind |-> "type", name |-> id]
PackageNamed(path) == [kind |-> "package", name |-> path]
Expression(type, what) == [kind |-> "expression", type |-> type, what |-> what]
FieldOf(found) ==
    [kind |-> "expression", type |-> found.member.type, what |-> "field",
     owner |-> found.owner, name |-> found.member.name]
ClassType(id) == [bounds |-> <<id>>, dims |-> 0]

(* The dimensions of an array are ignored.                                  *)
LookupFieldCandidate(ctx, type, name) ==
    FirstFound([i \in DOMAIN type.bounds |-> LookupFieldInHierarchyRef(ctx.view, type.bounds[i], name)])

IfStatic(field) == IF field = None THEN None ELSE IF field.member.static THEN field ELSE None

LookupStaticFieldCandidate(ctx, type, name) == IfStatic(LookupFieldCandidate(ctx, type, name))

(* Imports of the same field count once, of different fields not at all.    *)
LookupStaticImportField(ctx, name) ==
    LET fits == SelectSeq(ctx.statics, LAMBDA s : s.member \in {"*", name})
        Only(found) == IF Cardinality(found) = 1 THEN CHOOSE f \in found : TRUE ELSE None
    IN Only({LookupStaticFieldCandidate(ctx, ClassType(Slashed(fits[i].owner)), name) : i \in DOMAIN fits} \ {None})

HasPackage(ctx, path) == HasClassesInPackage(ctx.view, path)

TypeOrPackage(ctx, parts) ==
    LET Known(type) == IF type # None THEN TypeNamed(type)
                       ELSE IF HasPackage(ctx, parts) THEN PackageNamed(parts) ELSE None
    IN Known(ResolveTypeName(ctx, parts))

Field(found) == IF found = None THEN None ELSE FieldOf(found)
Value(id, what) == IF id = None THEN None ELSE Expression(ClassType(id), what)
Type(class) == IF class = None THEN None ELSE TypeNamed(class.id)

LocalVariable(ctx, name) ==
    LET Declared(locals) == IF locals = <<>> THEN None
                            ELSE Expression(IF name \in DOMAIN ctx.flow THEN ctx.flow[name]
                                            ELSE Last(locals).type, "local")
    IN Declared(SelectSeq(ctx.locals, LAMBDA v : v.name = name))

(* The last declared variable, a field, a static import, or a type or a     *)
(* package.                                                                 *)
ClassifySimpleName(ctx, name) ==
    IF name = "this" THEN Value(ctx.enclosing, "this")
    ELSE IF name = "super" THEN Value(ResolveDirectSuperOwner(ctx), "super")
    ELSE FirstFound(<<LocalVariable(ctx, name),
                      IF ctx.enclosing = None THEN None
                      ELSE Field(LookupFieldCandidate(ctx, ClassType(ctx.enclosing), name)),
                      Field(LookupStaticImportField(ctx, name)),
                      TypeOrPackage(ctx, <<name>>)>>)

(* A package is followed further before a class of the same name.           *)
AdvanceName(ctx, current, segment) ==
    CASE current = None -> None
      [] current.kind = "package" ->
           LET path == Append(current.name, segment)
           IN IF HasPackage(ctx, path) THEN PackageNamed(path) ELSE Type(GetClass(ctx.view, Slashed(path)))
      [] current.kind = "type" ->
           OrElse(Field(LookupStaticFieldCandidate(ctx, ClassType(current.name), segment)),
                  Type(LookupMemberType(ctx.view, current.name, segment)))
      [] current.kind = "expression" ->
           IF current.type.dims > 0 /\ segment = "length"
           THEN Value(ClassNamed(<<>>, "int"), "value")
           ELSE Field(LookupFieldCandidate(ctx, current.type, segment))

ClassifyName(ctx, parts) ==
    LET after[n \in DOMAIN parts] ==
          IF n = 1 THEN ClassifySimpleName(ctx, parts[1]) ELSE AdvanceName(ctx, after[n - 1], parts[n])
    IN OrElse(after[Len(parts)], TypeOrPackage(ctx, parts))

-----------------------------------------------------------------------------
(* Members.  Arguments are None without a call, else [best]: the descriptor *)
(* that overload selection chooses among the candidates, or None.           *)

LookupMethodCandidates(ctx, type, name) ==
    LET Add(kept, m) == IF \E k \in ToSet(kept) : k.member.desc = m.member.desc THEN kept ELSE Append(kept, m)
        OfBound(id) == FoldLeft(Add, <<>>, LookupMethodsInHierarchyRefs(ctx.view, id, name))
    IN FlattenSeq([i \in DOMAIN type.bounds |-> OfBound(type.bounds[i])])

WithDescriptor(methods, desc) == First(SelectSeq(methods, LAMBDA m : m.member.desc = desc))

ResolveMemberMethodsFirst(ctx, type, name, arguments) ==
    IF arguments # None THEN WithDescriptor(LookupMethodCandidates(ctx, type, name), arguments.best)
    ELSE OrElse(First(LookupMethodCandidates(ctx, type, name)), LookupFieldCandidate(ctx, type, name))
ResolveMember(ctx, type, name, arguments) ==
    IF arguments # None THEN WithDescriptor(LookupMethodCandidates(ctx, type, name), arguments.best)
    ELSE OrElse(LookupFieldCandidate(ctx, type, name), First(LookupMethodCandidates(ctx, type, name)))

(* The class or field a bare name stands for; for a variable its class.     *)
SymbolOf(ctx, c) ==
    CASE c = None -> None
      [] c.kind = "package" -> None
      [] c.kind = "type" -> c.name
      [] c.kind = "expression" /\ c.what # "field" ->
           LET id == c.type.bounds[1]
           IN IF id[1] # <<>> THEN id ELSE OrElse(ResolveTypeName(ctx, id[2]), id)
      [] OTHER -> LookupFieldInHierarchyRef(ctx.view, c.owner, c.name)

ResolveBareId(ctx, parts) == SymbolOf(ctx, ClassifyName(ctx, parts))

QualifierType(c) ==
    CASE c = None -> None
      [] c.kind = "package" -> None
      [] c.kind = "type" -> ClassType(c.name)
      [] c.kind = "expression" -> c.type

TypeOf(id) == IF id = None THEN None ELSE ClassType(id)

(* The type a member is looked up in: of "new T", of nothing, of a name; a  *)
(* "new T" that does not resolve is no name.                                *)
InferReceiverType(ctx, expr) ==
    IF expr.new THEN TypeOf(ResolveTypeName(ctx, expr.name))
    ELSE IF expr.name = <<>> THEN TypeOf(ctx.enclosing)
    ELSE LET Known(c) == IF c = None THEN TypeOf(IfExists(ctx, Slashed(expr.name))) ELSE QualifierType(c)
         IN Known(ClassifyName(ctx, expr.name))

(* A member of a class, and of an expression of that type: what the         *)
(* location knows of it, or InferReceiverType.                              *)
ResolveStaticAccess(ctx, owner, name, arguments) ==
    OrElse(ResolveMember(ctx, ClassType(owner), name, arguments),
           IF arguments # None THEN None ELSE IdOf(LookupMemberType(ctx.view, owner, name)))

ResolveMemberAccess(ctx, type, name, arguments) ==
    IF type = None THEN None ELSE ResolveMember(ctx, type, name, arguments)

(* The class of "new T", where T may be nested in the class of a qualifier. *)
ResolveConstructorCall(ctx, owner, parts) ==
    OrElse(IF owner = None THEN None ELSE IdOf(LookupMemberType(ctx.view, owner, Last(parts))),
           ResolveTypeName(ctx, parts))

-----------------------------------------------------------------------------
(* What must hold, for a file context.                                      *)

RECURSIVE NamesIn(_)
NamesIn(t) == (IF t.kind = "named" THEN {t.name} ELSE {}) \cup UNION {NamesIn(t.args[i]) : i \in DOMAIN t.args}

(* A view whose owners follow the internal names, as class files have them. *)
OwnersFollowNames(view) ==
    \A c \in UNION {ToSet(l) : l \in ToSet(view)} :
        /\ c.owner = IF Len(c.id[2]) = 1 THEN None ELSE <<c.id[1], Front(c.id[2])>>
        /\ c.name = Last(c.id[2])
        /\ c.owner # None => GetClass(view, c.owner) # None

(* The classes a simple name may mean: those of the first kind of           *)
(* declaration that has any, imports of one type, the package, imports on   *)
(* demand, to which java.lang belongs.                                      *)
Meanings(ctx, name) ==
    LET Existing(ids) == {id \in ids : ClassExists(ctx, id)}
        single == Existing({Slashed(i.path) : i \in {j \in ToSet(ctx.imports) : ~j.star /\ Last(j.path) = name}})
        own == Existing({ClassNamed(ctx.pkg, name)})
        demand == Existing({ClassNamed(i.path, name) : i \in {j \in ToSet(ctx.imports) : j.star}}
                            \cup {ClassNamed(JavaLang, name)})
    IN IF single # {} THEN single ELSE IF own # {} THEN own ELSE demand

(* A simple type name means what the language says: its only meaning, else  *)
(* nothing, except that java.lang goes before other imports on demand; the  *)
(* order of the imports does not count.  Imports are written once.          *)
SimpleNamesByTheBook(ctx, name) ==
    IsInjective(ctx.imports) =>
        LET meant == Meanings(ctx, name)
            lang == ClassNamed(JavaLang, name)
        IN ResolveSimpleStrict(ctx, <<name>>)
             = IF Cardinality(meant) = 1 THEN CHOOSE id \in meant : TRUE
               ELSE IF lang \in meant THEN lang ELSE None

(* Strict resolution proves what it says: every class in its answer exists. *)
(* Relaxed resolution gives the same answer wherever strict resolution has  *)
(* one, and calls it exact; an exact answer leaves nothing out, and the     *)
(* erased class is the one in descriptors unless the name has a dot.        *)
TypesProven(ctx, t) ==
    LET Proven(strict, relaxed) ==
       /\ strict # None => /\ \A id \in NamesIn(strict) : ClassExists(ctx, id)
                          /\ relaxed = [type |-> strict, exact |-> TRUE]
       /\ relaxed # None => \A id \in NamesIn(relaxed.type) : ClassExists(ctx, id)
       /\ relaxed # None => (relaxed.exact => Len(relaxed.type.args) = Len(t.args))
       /\ strict # None /\ t.kind = "named" /\ Len(t.name) = 1
            => ToDescriptor(ctx, t) = [dims |-> strict.dims, name |-> strict.name]
    IN Proven(ResolveTypeNameStrict(ctx, t), ResolveTypeNameRelaxed(ctx, t))

(* A qualified type name means the same class by the owners recorded in the *)
(* index as by the names of the classes, when the two agree.                *)
PathsByOwnerOrName(ctx, parts) ==
    OwnersFollowNames(ctx.view) /\ Len(parts) > 1 =>
        ResolveBaseInternal(ctx, parts) = ResolveByNames(ctx, parts)

(* The class of a name around the cursor is the same by the syntax tree and *)
(* by the index, when the index has the enclosing class.                    *)
EnclosingTypesAgree(ctx, name) ==
    OwnersFollowNames(ctx.view) /\ ClassExists(ctx, ctx.enclosing) /\ ctx.enclosing = <<ctx.pkg, ctx.chain>> =>
        OwnerFromChain(ctx, name) = OwnerFromIndex(ctx, name)

(* A path that is classified as a type and one that is resolved as a type   *)
(* mean the same type, as long as no package has the name of a type in its  *)
(* path.                                                                    *)
TypePathsAgree(ctx, parts) ==
    LET Agree(class, type) ==
          class # None /\ type # None => class.kind # "package" /\ (class.kind = "type" => class.name = type)
        Clash(path) == HasPackage(ctx, path) /\ ResolveTypeName(ctx, path) # None
    IN (\E n \in DOMAIN parts : Clash(SubSeq(parts, 1, n)))
       \/ Agree(ClassifyName(ctx, parts), ResolveTypeName(ctx, parts))

(* A path read as a name is the field that its last segment names as a      *)
(* member of what the rest means; a type it leads to is the one a static    *)
(* access finds, unless an instance field or a method has its name, and the *)
(* one a qualified constructor call creates.                                *)
SameByReceiver(ctx, parts, whole, front, name) ==
    whole # None =>
      /\ whole.kind = "expression" /\ whole.what = "field"
           => ResolveMemberAccess(ctx, front, name, None) = SymbolOf(ctx, whole)
      /\ whole.kind = "type" /\ front # None
           => /\ ResolveMember(ctx, front, name, None) = None
                  => ResolveStaticAccess(ctx, front.bounds[1], name, None) \in {None, whole.name}
              /\ ResolveConstructorCall(ctx, front.bounds[1], parts) = whole.name

PathsAsReceivers(ctx, parts) ==
    Len(parts) > 1 =>
        SameByReceiver(ctx, parts, ClassifyName(ctx, parts),
                       InferReceiverType(ctx, [new |-> FALSE, name |-> Front(parts)]), Last(parts))
=============================================================================
