---------------------------- MODULE MCAlgorithms -----------------------------
(***************************************************************************)
(* The pure algorithms on every small input: the one step of a behaviour   *)
(* picks an input for one of them, and the properties say what the         *)
(* algorithm makes of it.                                                  *)
(***************************************************************************)
EXTENDS Naturals, Sequences, FiniteSets

CONSTANTS None, NoRoot, NoJdk

VARIABLE input

Scope == INSTANCE ScopeLayers WITH Module <- {"m", "n", "k"}, SourceRoot <- {"r", "t"}
Tokens == INSTANCE TokenDiff
View == INSTANCE IndexView
Text == INSTANCE TextSync
Completion == INSTANCE CompletionList
Types == INSTANCE Overloads WITH Supers <- [n \in {"Object", "A", "B", "Integer", "Long"} |->
                                           {n, "Object"} \cup IF n = "B" THEN {"A"} ELSE {}]
Synthetic == INSTANCE SyntheticMembers
Names == INSTANCE NameResolution
Files == INSTANCE SourceFiles

SeqsUpTo(S, n) == UNION {[1..k -> S] : k \in 0..n}

(* The parts are initial states of their own, for TLC's workers to share.  *)
Parts == {"scopes", "views", "names", "edits", "lists", "types", "annotations", "files", "broken files"}
Init == input \in [algo : {"none"}, part : Parts]

Pick(x) == input' = x

(* Dependencies between three modules, with cycles and diamonds, and the   *)
(* source roots of two of them.                                            *)
PickTopology ==
    \E deps \in {d \in [{"m", "n", "k"} -> SeqsUpTo({"m", "n", "k"}, 2)] : Len(d["k"]) <= 1},
       rootsOfM \in UNION {[R -> {"main", "test"}] : R \in SUBSET {"r", "t"}},
       rootsOfN \in UNION {[R -> {"main", "test"}] : R \in SUBSET {"r"}} :
      Pick([algo |-> "scope",
            topology |-> [deps |-> deps,
                         roots |-> [x \in {"m", "n", "k"} |->
                                      IF x = "m" THEN rootsOfM
                                      ELSE IF x = "n" THEN rootsOfN ELSE <<>>],
                         classpath |-> [x \in {"m", "n", "k"} |->
                                          [cp \in {"main", "test"} |-> <<x, cp>>]],
                         jdk |-> "jdk"]])

PickTokens ==
    \E old, new \in SeqsUpTo({1, 2}, 4) : Pick([algo |-> "tokens", old |-> old, new |-> new])

-----------------------------------------------------------------------------
Class(id, parents, methods, fields, src) ==
    [id |-> id, tail |-> id, name |-> id, pkg |-> "p", owner |-> None, parents |-> parents,
     methods |-> methods, fields |-> fields, src |-> src, annotation |-> FALSE]
Method(name, desc, gensig) == [name |-> name, desc |-> desc, gensig |-> gensig]
Field(name) == [name |-> name]

(* Class A over B and C with any parents, "D" being in no layer; B also or *)
(* only in a second layer.                                                 *)
PickHierarchy ==
    \E a \in SeqsUpTo({"A", "B", "C"}, 2), b \in SeqsUpTo({"A", "E", "D"}, 2),
       c \in SeqsUpTo({"A", "B"}, 1), b2 \in SeqsUpTo({"C"}, 1),
       near \in {<<>>, <<TRUE>>, <<FALSE>>}, far \in {<<>>, <<TRUE>>, <<FALSE>>} :
      LET One(id, ps, src) == Class(id, ps, <<>>, <<>>, src) IN
      Pick([algo |-> "hierarchy",
            view |-> << <<One("A", a, TRUE), One("C", c, FALSE), One("E", <<"C">>, FALSE)>>
                         \o [i \in DOMAIN near |-> One("B", b, near[i])],
                       [i \in DOMAIN far |-> One("B", b2, far[i])] >>])

MethodLists ==
    { <<>>, <<Method("x", "d", None)>>, <<Method("x", "d", "g")>>,
      <<Method("x", "d", "g"), Method("x", "e", None)>>, <<Method("y", "d", None), Method("x", "e", "g")>>,
      <<Method("x", "e", "h"), Method("x", "d", None)>> }
FieldLists == { <<>>, <<Field("x")>>, <<Field("y"), Field("x")>> }

(* A chain and a diamond over three classes with methods and fields.       *)
PickMembers ==
    \E ms \in [{"A", "B", "C"} -> MethodLists], fs \in [{"A", "C"} -> FieldLists],
       up \in {<< <<"B", "C">>, <<>> >>, << <<"B">>, <<"C">> >>, << <<"C", "B">>, <<"A">> >>} :
      Pick([algo |-> "members",
            view |-> << <<Class("A", up[1], ms["A"], fs["A"], TRUE),
                         Class("B", up[2], ms["B"], <<Field("x")>>, TRUE),
                         Class("C", <<>>, ms["C"], fs["C"], FALSE)>> >>])

(* Four classes with any owners and two simple names, in two layers, one   *)
(* class in both.                                                          *)
PickNested ==
    \E owner \in [{"1", "2", "3"} -> {None, "1", "2", "3"}],
       name \in [{"2", "3", "4"} -> {"x", "y"}], owner4 \in {None, "1", "2", "3"},
       both \in {<<TRUE, FALSE>>, <<FALSE, TRUE>>, <<TRUE, TRUE>>},
       at \in {[id |-> "1", pkg |-> "p", tail |-> "1"], [id |-> "none", pkg |-> "p", tail |-> "x"]} :
      LET One(id, src) == [Class(id, <<>>, <<>>, <<>>, src)
                             EXCEPT !.owner = IF id = "4" THEN owner4 ELSE owner[id],
                                    !.name = IF id = "1" THEN "x" ELSE name[id]] IN
      Pick([algo |-> "nested",
            view |-> << <<One("1", both[1]), One("2", TRUE)>>,
                       <<One("3", FALSE), One("1", both[2]), One("4", TRUE)>> >>, at |-> at])

Edit(from, to, with) == [full |-> FALSE, from |-> from, to |-> to, text |-> with]
WholeText(with) == [full |-> TRUE, from |-> 0, to |-> 0, text |-> with]

(* One edit of a short text.                                               *)
PickEdit ==
    \E text \in SeqsUpTo({"a", "z", "nl", "cr", "ff"}, 3),
       with \in SeqsUpTo({"a", "z", "nl", "cr"}, 1) \cup {<<"nl", "z">>, <<"a", "nl">>} :
      \E from \in 0..Len(text) : \E to \in from..Len(text) :
        /\ Text!Boundary(text, from) /\ Text!Boundary(text, to)
        /\ Pick([algo |-> "edit", text |-> text, edit |-> Edit(from, to, with)])

(* Two edits in one notification.                                          *)
PickBatch ==
    \E text \in SeqsUpTo({"z", "nl"}, 2), one, two \in SeqsUpTo({"z", "nl"}, 1) :
      \E from \in 0..Len(text) : \E to \in from..Len(text) :
        LET between == Text!Splice(text, from, to, one) IN
        \E from2 \in 0..Len(between) : \E to2 \in from2..Len(between) :
        \E second \in {Edit(from2, to2, two), WholeText(two)} :
          Pick([algo |-> "batch", text |-> text, first |-> Edit(from, to, one), second |-> second])

-----------------------------------------------------------------------------
Candidate(label, source, kind, detail, import, score) ==
    [label |-> label, source |-> source, kind |-> kind, desc |-> detail, detail |-> detail,
     import |-> import, match |-> IF label = 1 THEN "exact" ELSE "contains",
     conversion |-> IF detail = "d" THEN "identity" ELSE "incompatible",
     score |-> score, visible |-> label # 3, accessor |-> label = 2]

(* Candidates of two providers, with and without an import, alike or not.  *)
PickCandidates ==
    \E cs \in SeqsUpTo({Candidate(l, 1, k, "d", i, s) :
                           l \in {1, 2}, k \in {"class", "constructor"}, i \in {None, "x"}, s \in {0, 60}}
                        \cup {Candidate(1, 2, k, d, i, 60) :
                           k \in {"class", "constructor"}, d \in {"d", "e"}, i \in {None, "x"}}, 3) :
      Pick([algo |-> "dedup", candidates |-> cs])

(* Two providers, limits of one and two, lists of one to three items.      *)
PickProviders ==
    \E found \in [1..2 -> SeqsUpTo({Candidate(1, 1, "class", "e", None, 0),
                                    Candidate(2, 1, "method", "d", None, 0),
                                    Candidate(2, 2, "method", "e", "x", 60),
                                    Candidate(3, 2, "class", "e", "x", 60)}, 2)],
       broad \in [1..2 -> BOOLEAN], pool \in {None, 1}, short \in BOOLEAN, limit, items \in 1..2 :
      Pick([algo |-> "list", limit |-> limit, items |-> items, short |-> short,
            providers |-> [i \in 1..2 |-> [found |-> found[i], broad |-> broad[i], pool |-> pool]]])

Named(pkg, name) == [pkg |-> pkg, name |-> name]
Packages == << <<>>, <<"java", "lang">>, <<"p">>, <<"q">>, <<"r">> >>

(* A class completed in a file with up to two imports.                     *)
PickImport ==
    \E class \in {Named(p, "A") : p \in {None, "java.lang", "p", "q"}}, pkg \in {None, "p", "r"},
       imports \in SeqsUpTo({Named(p, n) : p \in {"p", "q"}, n \in {"A", "B", "*"}}, 2),
       others \in SUBSET {Named(p, "A") : p \in {"java.lang", "p", "q", "r"}} :
      Pick([algo |-> "import", class |-> class, file |-> [pkg |-> pkg, imports |-> imports],
            classes |-> others \cup {class}])

PickLine == \E line \in SeqsUpTo({"a", "."}, 4) : Pick([algo |-> "line", line |-> line])

-----------------------------------------------------------------------------
Type(kind, name) == [kind |-> kind, name |-> name, simple |-> name, dims |-> 0]
ArrayOf(type) == [type EXCEPT !.dims = @ + 1]
Prims == {Type("prim", n) : n \in {"byte", "short", "char", "int", "long", "float", "double", "boolean"}}
Classes == {Type("class", n) : n \in {"Object", "A", "B", "Integer", "Long"}}
Alike == [Type("class", "q.A") EXCEPT !.simple = "A"]
NullType == Type("null", "null")

(* Three types: primitives, their wrappers, classes, null and arrays.      *)
PickTypes ==
    \E a, b, c \in Prims \cup Classes
                   \cup {Alike, NullType, Types!Unknown, Type("var", "T"), ArrayOf(Type("class", "A"))} :
      Pick([algo |-> "types", a |-> a, b |-> b, c |-> c])

Sam(type, sam) == [kind |-> type.kind, name |-> type.name, simple |-> type.simple,
                   dims |-> type.dims, sam |-> sam]
Overload(params, varargs, bindings) ==
    [name |-> "f", params |-> params, varargs |-> varargs, bindings |-> bindings, clash |-> FALSE]
ParamTypes == {Type("class", "A"), Type("class", "Object"), Type("prim", "int"),
               Type("var", "T"), ArrayOf(Type("class", "A"))}

(* Three overloads of up to two parameters, and calls of up to three       *)
(* arguments, of which the last types may be missing.                      *)
PickOverloads ==
    \E first \in {Overload(ps, v, 0) : ps \in SeqsUpTo(ParamTypes, 2), v \in BOOLEAN},
       second \in {Overload(<<p, q>>, TRUE, 0) : p \in {Type("class", "Integer"), Type("class", "Object")},
                                                q \in {ArrayOf(Type("class", "Object")), ArrayOf(Type("prim", "int"))}},
       types \in SeqsUpTo({Type("class", "A"), Type("prim", "int"), ArrayOf(Type("class", "A"))}, 2)
                   \cup {<<NullType, Alike>>}, missing \in 0..1 :
      Pick([algo |-> "overloads", types |-> types, count |-> Len(types) + missing,
            candidates |-> <<first, second, Overload(<<ArrayOf(Type("var", "T"))>>, TRUE, 1)>>])

Function(arity, ret, from) ==
    Sam(Type("class", "F"), [arity |-> arity, ret |-> ret, input |-> from])
Member(params, static, ret) == [params |-> params, varargs |-> FALSE, static |-> static, ret |-> ret]
Lambdas == {[kind |-> "lambda", arity |-> n, ret |-> t] :
              n \in {None, 0, 1}, t \in {None, Type("class", "B"), Type("prim", "long")}}
References ==
    {[kind |-> "ref", owner |-> Type("class", "A"), of_type |-> ms, of_expr |-> es] :
       ms \in {None, <<>>, <<Member(<<>>, FALSE, Type("class", "A")), Member(<<Type("class", "A")>>, TRUE, None)>>},
       es \in {None, <<Member(<<Type("class", "A")>>, FALSE, Type("class", "Integer"))>>}}
Functionals ==
    {Function(n, t, i) : n \in {0, 1}, t \in {Type("class", "A"), Type("prim", "void"), Type("prim", "int")},
                        i \in {None, Type("class", "B")}}
      \cup {Sam(Type("class", "A"), None), Sam(Type("class", "unseen"), None)}

(* A lambda or method reference passed to two overloads, one of which may  *)
(* take it as variable argument; the other may be listed twice.            *)
PickCallsite ==
    \E fun \in Lambdas \cup References, one, two \in Functionals, v, twice \in BOOLEAN, bindings \in 0..1 :
      LET first == <<Overload(<<one>>, FALSE, bindings)>>
          second == <<Overload(<<IF v THEN ArrayOf(two) ELSE two>>, v, 0)>> IN
      Pick([algo |-> "callsite",
            candidates |-> first \o second \o IF twice THEN first ELSE <<>>,
            args |-> << [type |-> Types!Unknown, fun |-> fun] >>])

-----------------------------------------------------------------------------
Anno(value) ==
    [value |-> value, access |-> value, static |-> None, lazy |-> FALSE, force |-> FALSE,
     toBuilder |-> FALSE, exclude |-> {}, of |-> None, types |-> <<>>]
Annotated(names, anno) == [n \in names |-> anno]
FieldName(word) == <<word, FALSE>>
JavaField(name, type, static, final, annos) ==
    [name |-> name, type |-> type, static |-> static, final |-> final, annos |-> annos]
Declaration(kind, owner, annos, fields, methods) ==
    [kind |-> kind, owner |-> owner, annos |-> annos, fields |-> fields, methods |-> methods,
     components |-> IF kind = "record" THEN <<JavaField(FieldName("x"), "I", FALSE, TRUE, <<>>)>> ELSE <<>>,
     constants |-> IF kind = "enum" THEN <<FieldName("x"), FieldName("k")>> ELSE <<>>,
     seen |-> [t \in {"LD;"} |-> <<Synthetic!Method(<<"get", <<"x", TRUE>>>>, <<>>, "I", "PACKAGE", TRUE),
                                   Synthetic!Method(Synthetic!Plain("run"), <<>>, "V", "PUBLIC", FALSE),
                                   Synthetic!Method(Synthetic!Plain("equals"), <<"LObject;">>, "Z", "PUBLIC", FALSE)>>]]

AnnotationKinds ==
    { Anno(None),
      [Anno("NONE") EXCEPT !.static = "of", !.exclude = {FieldName("x")}],
      [Anno("PRIVATE") EXCEPT !.of = {FieldName("x")}, !.force = TRUE, !.toBuilder = TRUE, !.lazy = TRUE] }
ClassAnnotations ==
    {"Data", "Value", "Getter", "Setter", "ToString", "EqualsAndHashCode", "NoArgsConstructor",
     "RequiredArgsConstructor", "AllArgsConstructor", "Builder", "With", "Slf4j", "Log"}
FirstFields ==
    { JavaField(FieldName("x"), "I", FALSE, FALSE, <<>>),
      JavaField(FieldName("x"), "Z", FALSE, TRUE, <<>>),
      JavaField(FieldName("x"), "I", TRUE, FALSE, Annotated({"Getter"}, Anno(None))),
      JavaField(FieldName("x"), "I", FALSE, FALSE, Annotated({"Getter", "Setter"}, Anno("NONE"))),
      JavaField(FieldName("x"), "I", FALSE, FALSE, Annotated({"Setter", "With"}, Anno("PRIVATE"))) }
SecondFields ==
    { JavaField(FieldName("y"), "I", FALSE, FALSE, Annotated({"NonNull"}, Anno(None))),
      JavaField(<<"x", TRUE>>, "I", FALSE, FALSE, <<>>),
      JavaField(FieldName("d"), "LD;", FALSE, TRUE, Annotated({"Delegate"}, Anno(None))),
      JavaField(FieldName("log"), "I", FALSE, FALSE, Annotated({"Delegate"}, [Anno(None) EXCEPT !.types = <<"LE;", "LD;">>])) }
Written ==
    { <<>>, <<Synthetic!Method(<<"get", <<"x", TRUE>>>>, <<>>, "I", "PUBLIC", FALSE)>>,
      <<Synthetic!EqualsMethod>>, <<Synthetic!HashCodeMethod>>,
      <<Synthetic!Method(Synthetic!Init_, <<"I">>, "V", "PUBLIC", FALSE)>>,
      <<Synthetic!Method(Synthetic!Plain("of"), <<>>, "LObject;", "PUBLIC", TRUE),
        Synthetic!Method(Synthetic!Plain("toString"), <<>>, "LString;", "PUBLIC", FALSE)>> }

(* A class with up to two Lombok annotations, two fields and a method.     *)
PickAnnotated ==
    \E names \in {S \in SUBSET ClassAnnotations : Cardinality(S) <= 2}, anno \in AnnotationKinds,
       first \in FirstFields, second \in SecondFields, methods \in Written :
      Pick([algo |-> "synthetic",
            decl |-> Declaration("class", "LC;", Annotated(names, anno), <<first, second>>, methods)])

(* The other kinds of types, named or not, with up to one annotation; the  *)
(* fields of a record are static.                                          *)
PickOtherTypes ==
    \E kind \in {"enum", "record", "interface"}, owner \in {None, "LC;"},
       names \in {S \in SUBSET (ClassAnnotations \cup {"Wither"}) : Cardinality(S) <= 1},
       anno \in AnnotationKinds, first \in FirstFields, methods \in Written :
      /\ kind = "record" => first.static
      /\ Pick([algo |-> "synthetic",
            decl |-> Declaration(kind, owner, Annotated(names, anno), <<first>>, methods)])

-----------------------------------------------------------------------------
PA == << <<"p">>, <<"A">> >>
QA == << <<"q">>, <<"A">> >>
JavaClass(id, tail, parents, fields, methods) ==
    [id |-> id, tail |-> tail, name |-> id[2][Len(id[2])], pkg |-> id[1],
     owner |-> IF Len(id[2]) = 1 THEN None ELSE <<id[1], SubSeq(id[2], 1, Len(id[2]) - 1)>>,
     parents |-> parents, super |-> IF parents = <<>> THEN None ELSE parents[1], fields |-> fields,
     methods |-> methods, src |-> TRUE, annotation |-> FALSE]
JavaMember(name, static, id) ==
    [name |-> name, static |-> static, type |-> [bounds |-> <<id>>, dims |-> 0]]

(* Classes called A and B in two packages, in java.lang and in the default *)
(* package, nested and inherited ones, and a package called A.             *)
Universe ==
    << JavaClass(PA, "A", <<QA>>, <<JavaMember("x", TRUE, QA)>>, <<>>),
       JavaClass(<< <<"p">>, <<"A", "B">> >>, "A$B", <<>>, <<JavaMember("D", FALSE, PA)>>, <<>>),
       JavaClass(QA, "A", <<>>, <<JavaMember("x", FALSE, PA), JavaMember("B", TRUE, QA)>>,
                 <<Method("x", "d", None)>>),
       JavaClass(<< <<"q">>, <<"A", "D">> >>, "A$D", <<PA>>, <<>>, <<>>),
       JavaClass(<< <<"java", "lang">>, <<"A">> >>, "A", <<>>, <<>>, <<>>),
       JavaClass(<< <<>>, <<"A">> >>, "A", <<>>, <<>>, <<>>),
       JavaClass(<< <<"q">>, <<"B">> >>, "B", << << <<>>, <<"A">> >> >>, <<>>, <<>>),
       JavaClass(<< <<"A">>, <<"B">> >>, "B", <<>>, <<>>, <<>>) >>
Import(path, star) == [path |-> path, star |-> star]
FileContext(classes, imports, pkg, enclosing, chain) ==
    [view |-> << SelectSeq(Universe, LAMBDA c : \E i \in classes : Universe[i] = c) >>, imports |-> imports,
     pkg |-> pkg, enclosing |-> enclosing, chain |-> chain,
     tail |-> IF Len(chain) = 2 THEN "A$B" ELSE "A", extends |-> IF Len(chain) = 1 THEN <<"B">> ELSE None,
     statics |-> << [owner |-> <<"p", "A">>, member |-> "*"], [owner |-> <<"q", "A">>, member |-> "B"] >>,
     locals |-> << [name |-> "v", type |-> [bounds |-> <<QA>>, dims |-> 0]],
                   [name |-> "v", type |-> [bounds |-> <<PA, QA>>, dims |-> 0]] >>,
     flow |-> IF chain = <<>> THEN <<>> ELSE [n \in {"v"} |-> [bounds |-> <<QA>>, dims |-> 1]]]

(* A file in a package, with up to two imports, and the cursor in a class. *)
PickNames ==
    \E classes \in {S \in SUBSET DOMAIN Universe : (2 \in S => 1 \in S) /\ (4 \in S => 3 \in S)},
       imports \in LET one == Import(<<"p", "A">>, FALSE)
                       all == Import(<<"q">>, TRUE)
                   IN {<<>>, <<one>>, <<all>>, <<one, all>>, <<one, Import(<<"q", "A">>, FALSE)>>,
                       <<all, Import(<<"p">>, TRUE)>>},
       around \in { << <<>>, None, <<>> >>, << <<"p">>, None, <<>> >>,
                    << <<"p">>, << <<"p">>, <<"A", "B">> >>, <<"A", "B">> >>, << <<"q">>, QA, <<"A">> >> } :
      Pick([algo |-> "names", ctx |-> FileContext(classes, imports, around[1], around[2], around[3])])

TypeExpr(kind, name, args, dims) == [kind |-> kind, name |-> name, args |-> args, dims |-> dims]
OfA(args) == TypeExpr("named", <<"A">>, args, 0)
OfB == TypeExpr("named", <<"B">>, <<>>, 0)
Bounded(kind, of) == TypeExpr(kind, <<>>, <<of>>, 0)
TypeExprs ==
    { OfA(<<>>), OfA(<<OfB>>), OfA(<<OfA(<<OfB>>), TypeExpr("?", <<>>, <<>>, 0)>>),
      OfA(<<Bounded("extends", OfB)>>), OfA(<<Bounded("super", TypeExpr("and", <<>>, <<OfA(<<>>), OfB>>, 0))>>),
      OfA(<<TypeExpr("named", <<"B">>, <<>>, 1), TypeExpr("named", <<"A", "B">>, <<>>, 0)>>),
      TypeExpr("named", <<"A">>, <<OfB>>, 2), TypeExpr("and", <<>>, <<OfA(<<>>), OfB>>, 0) }
Paths ==
    { <<"A">>, <<"B">>, <<"v">>, <<"x">>, <<"this">>, <<"A", "B">>, <<"A", "D">>, <<"A", "x">>, <<"p", "A">>,
      <<"q", "A", "D">>, <<"v", "x">>, <<"v", "length">>, <<"super", "x">>, <<"this", "D">>, <<"A", "B", "x">>,
      <<"p", "A", "B">>, <<"p", "A", "x", "B">> }

Next ==
    /\ input.algo = "none"
    /\ \/ input.part = "scopes" /\ PickTopology
       \/ input.part = "views" /\ (PickHierarchy \/ PickMembers \/ PickNested)
       \/ input.part = "names" /\ PickNames
       \/ input.part = "edits" /\ (PickTokens \/ PickEdit \/ PickBatch \/ PickLine)
       \/ input.part = "lists" /\ (PickCandidates \/ PickProviders \/ PickImport)
       \/ input.part = "types" /\ (PickTypes \/ PickOverloads \/ PickCallsite)
       \/ input.part = "annotations" /\ (PickAnnotated \/ PickOtherTypes)
       \/ input.part = "files" /\ \E file \in Files!Sources : Pick([algo |-> "file", file |-> file])
       \/ input.part = "broken files" /\ \E file \in Files!BrokenSources : Pick([algo |-> "file", file |-> file])

Spec == Init /\ [][Next]_input

-----------------------------------------------------------------------------
(* The dependency walk of build_scope_layers ends and visits exactly the   *)
(* reachable modules.                                                      *)
WalkVisitsReachable(x) ==
    x.algo = "scope" => Scope!WalkVisitsReachable(x.topology, "m")

(* Every source bucket is one layer, the file's own module comes first,    *)
(* and test sources are seen from where they should be.                    *)
SourcesOnceOwnFirst(x) ==
    x.algo = "scope" =>
        \A cp \in {"main", "test"}, root \in {"r", NoRoot} :
            Scope!SourcesOnceOwnFirst(x.topology, "m", cp, root)

(* What a file under a source root declares is in its own scope.           *)
OwnClassesVisible(x) ==
    x.algo = "scope" =>
        \A cp \in {"main", "test"}, root \in {"r", "t", NoRoot} :
            Scope!OwnClassesVisible(x.topology, "m", cp, root)

(* The edit of a token delta turns the old tokens into the new.            *)
DiffTransforms(x) == x.algo = "tokens" => Tokens!DiffTransforms(x.old, x.new)

(* The hierarchy walk of a view.                                           *)
HierarchyNearestFirst(x) ==
    x.algo = "hierarchy" => \A id \in {"A", "B", "D"} : View!HierarchyNearestFirst(x.view, id)

(* The member lookups of a view agree with one another.                    *)
MemberLookupsAgree(x) ==
    x.algo = "members" => View!MemberLookupsAgree(x.view, "A", {"x", "y"})

(* The declaring class of a method is that of the resolved overload.       *)
DeclaringOwnerAgrees(x) == x.algo = "members" => View!DeclaringOwnerAgrees(x.view, "A")

(* Listings of classes agree with lookups by internal name.                *)
ListingsAgree(x) == x.algo \in {"nested", "hierarchy"} => View!ListingsAgree(x.view)

(* The nested type of a simple name is the innermost one.                  *)
InnermostTypeMeant(x) ==
    x.algo = "nested" => View!InnermostTypeMeant(x.view, x.at, "x", 5)

(* After a didChange the server has the client's text.                     *)
ServerHasClientText(x) ==
    /\ x.algo = "edit" => Text!ServerHasClientText(x.text, x.edit)
    /\ x.algo = "batch" => Text!BatchFollowsClient(x.text, x.first, x.second)

(* Positions sent to the client mean the offsets they were made from.      *)
PositionsRoundTrip(x) == x.algo = "edit" => Text!PositionsRoundTrip(x.text)

(* The parser is told an edit in its own rows and columns.                 *)
EditPointsMatchParser(x) ==
    x.algo = "edit" => Text!EditPointsMatchParser(x.text, x.edit)

(* Equal completion candidates are merged into the best one.               *)
DedupKeepsBest(x) == x.algo = "dedup" => Completion!DedupKeepsBest(x.candidates)

(* A completion list that leaves candidates out says so.                   *)
CutIsReported(x) ==
    x.algo = "list" =>
        \A language \in {"java", "kotlin"} :
          Completion!CutIsReported(language, x.providers, x.short, x.limit, x.items)

(* A completion list shows the candidates that rank highest.               *)
ShowsBest(x) == x.algo = "list" => Completion!ShowsBest(x.providers, x.items)

(* An accepted completion makes the class's simple name mean the class.    *)
ImportMakesNameMean(x) ==
    x.algo = "import" => Completion!ImportMakesNameMean(x.class, x.file, x.classes)

(* And the server resolves the simple name to that class, unless it meant  *)
(* another before or an import is written twice.                           *)
ImportResolves(x) ==
    x.algo = "import" =>
        LET Id(c) == << IF c.pkg = None THEN <<>> ELSE IF c.pkg = "java.lang" THEN <<"java", "lang">> ELSE <<c.pkg>>, <<c.name>> >>
            Context(file) ==
              [view |-> << SelectSeq([i \in DOMAIN Packages |-> JavaClass(<<Packages[i], <<"A">> >>, "A", <<>>, <<>>, <<>>)],
                                     LAMBDA c : \E d \in x.classes : Id(d) = c.id) >>,
               pkg |-> IF file.pkg = None THEN <<>> ELSE <<file.pkg>>,
               imports |-> [i \in DOMAIN file.imports |->
                              IF file.imports[i].name = "*" THEN Import(<<file.imports[i].pkg>>, TRUE)
                              ELSE Import(<<file.imports[i].pkg, file.imports[i].name>>, FALSE)]]
            once == \A i, j \in DOMAIN x.file.imports :
                      x.file.imports[i] = x.file.imports[j] => i = j
        IN once /\ x.class.pkg # None /\ Names!Meanings(Context(x.file), "A") \subseteq {Id(x.class)}
             => Names!ResolveSimpleStrict(Context(Completion!WithImport(x.class, x.file)), <<"A">>)
                  = Id(x.class)

(* An accepted completion replaces the identifier before the cursor.       *)
ReplacesSegment(x) == x.algo = "line" => Completion!ReplacesSegment(x.line)

-----------------------------------------------------------------------------
(* The layers of a scope are complete: whatever the dependencies between   *)
(* modules, build_scope_layers ends, has each visible bucket once and the  *)
(* file's own module first, and shows a file its own classes.              *)
ScopesComplete(x) == WalkVisitsReachable(x) /\ SourcesOnceOwnFirst(x) /\ OwnClassesVisible(x)

(* The lookups of a view tell one story: hierarchies with cycles, diamonds *)
(* and classes of several layers are walked nearest first, member lookups, *)
(* overloads and listings agree on which declaration wins, and a nested    *)
(* simple name means the innermost type.                                   *)
ViewsCoherent(x) ==
    HierarchyNearestFirst(x) /\ MemberLookupsAgree(x) /\ DeclaringOwnerAgrees(x) /\ ListingsAgree(x)
    /\ InnermostTypeMeant(x)

(* What the index answers is complete and of one mind: the layers of a     *)
(* scope, and the lookups through them.                                    *)
IndexAnswersComplete == [][\A x \in {input'} : ScopesComplete(x) /\ ViewsCoherent(x)]_input

(* Edits arrive as they were made: the server's text is the client's, its  *)
(* positions mean the same offsets to the client and to the parser, and a  *)
(* token delta turns the old tokens into the new.                          *)
EditsFaithful ==
    [][\A x \in {input'} : /\ ServerHasClientText(x) /\ PositionsRoundTrip(x)
                          /\ EditPointsMatchParser(x) /\ DiffTransforms(x)]_input

(* A completion list is honest: it shows the best candidates, each once,   *)
(* says so when it leaves some out, and accepting one replaces the typed   *)
(* segment and makes the name mean the class.                              *)
CompletionsHonest ==
    [][\A x \in {input'} : /\ DedupKeepsBest(x) /\ CutIsReported(x) /\ ShowsBest(x)
                          /\ ImportMakesNameMean(x) /\ ImportResolves(x) /\ ReplacesSegment(x)]_input

(* Names mean one thing: simple type names what the language says, in      *)
(* strict and in relaxed resolution, paths by owner, by name and as        *)
(* receivers, and the classes around the cursor by syntax and by index.    *)
NamesMeanOneThing(x) ==
    x.algo = "names" =>
        /\ \A n \in {"A", "B"} : Names!SimpleNamesByTheBook(x.ctx, n) /\ Names!EnclosingTypesAgree(x.ctx, n)
        /\ \A t \in TypeExprs : Names!TypesProven(x.ctx, t)
        /\ \A path \in Paths : /\ Names!PathsByOwnerOrName(x.ctx, path)
                               /\ Names!TypePathsAgree(x.ctx, path)
                               /\ Names!PathsAsReceivers(x.ctx, path)

(* Operators promote to the least common type, widening is an order and    *)
(* overload scores follow the conversions.                                 *)
ConversionsConsistent(x) ==
    x.algo = "types" =>
        /\ Types!PromotionIsLeast(x.a.name, x.b.name)
        /\ Types!WideningIsAnOrder(x.a, x.b, x.c)
        /\ Types!ScoresFollowConversions(x.a, x.b, x.c)

(* The overload that is chosen applies and does not depend on the order in *)
(* which members are listed.                                               *)
OverloadsChosen(x) ==
    /\ x.algo = "overloads" => Types!ChosenApplies(x.candidates, x.count, x.types)
    /\ x.algo = "callsite" => Types!CallsiteUnordered(x.candidates, x.args)

(* Types and names are handled consistently: names mean one thing, types   *)
(* convert into one another as the language says, and so overloads are     *)
(* chosen.                                                                 *)
TypesConsistent ==
    [][\A x \in {input'} : NamesMeanOneThing(x) /\ ConversionsConsistent(x) /\ OverloadsChosen(x)]_input

(* The classes and members of a file are read as they are written, and     *)
(* found again where they stand; an error hides nothing else.              *)
FilesRead(x) ==
    x.algo = "file" =>
        \A tree \in {Files!Parse(x.file, 0)} : \A ctx \in {Files!SourceTypeCtx(tree, Files!Imported, {"T", "R", "C", "D"})} :
            Files!SourceRead(tree, ctx)

=============================================================================
