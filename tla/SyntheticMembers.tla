--------------------------- MODULE SyntheticMembers --------------------------
(***************************************************************************)
(* The members the compiler or Lombok adds to a Java type: record          *)
(* accessors, enum constants and what Lombok's annotations stand for       *)
(* (language/java/synthetic, language/java/lombok).                        *)
(*                                                                         *)
(* A declaration is [kind, owner, annos, fields, methods, components,      *)
(* constants, seen]: the kind of type, its internal name or None, its      *)
(* annotations, what its body declares, and the methods found for a type   *)
(* that a field delegates to.  Annotations are a function from the names   *)
(* of Lombok's annotations to their elements.  A member's name is a prefix *)
(* and the name of a field, a field's name a word and whether it starts    *)
(* with a capital.  A method's descriptor is its parameters' types and its *)
(* return type.  The rules read no lombok.config: they use its defaults.   *)
(*                                                                         *)
(* What is generated is a sequence of items in the order of the rules,     *)
(* each the member and its definition: member is None for a definition     *)
(* without a member, kind is "Class" for a nested class, which has no      *)
(* definition.                                                             *)
(***************************************************************************)
EXTENDS Naturals, Sequences, SequencesExt, FiniteSets

CONSTANT None

NoField == <<"", FALSE>>
Plain(prefix) == <<prefix, NoField>>
Capital(field) == <<field[1], TRUE>>
Init_ == Plain("<init>")

Method(name, params, ret, access, static) ==
    [name |-> name, params |-> params, ret |-> ret, access |-> access, static |-> static]

Desc(method) == <<method.params, method.ret>>

HasMethod(methods, method) ==
    \E i \in DOMAIN methods : methods[i].name = method.name /\ Desc(methods[i]) = Desc(method)

HasCall(methods, name, arity) ==
    \E i \in DOMAIN methods : methods[i].name = name /\ Len(methods[i].params) = arity

Origin(what, field) == [what |-> what, field |-> field]
Item(kind, name, desc, member, origin) ==
    [kind |-> kind, name |-> name, desc |-> desc, member |-> member, origin |-> origin]
Generated(method, origin) == << Item("Method", method.name, Desc(method), method, origin) >>
OfClass(what) == Origin(what, NoField)

MethodsOf(items) ==
    LET withMember == SelectSeq(items, LAMBDA x : x.kind = "Method" /\ x.member # None)
    IN [i \in DOMAIN withMember |-> withMember[i].member]

-----------------------------------------------------------------------------
(* Annotations and names.                                                   *)

FindAnnotation(annos, name) == IF name \in DOMAIN annos THEN annos[name] ELSE None

FirstOf(one, other) == IF one # None THEN one ELSE other

ParseAccessLevel(anno) == IF anno = None THEN "PUBLIC" ELSE FirstOf(anno.value, "PUBLIC")

ConstructorAccessLevel(anno) == FirstOf(anno.access, ParseAccessLevel(anno))

AccessFlags(level) ==
    IF level \in {"PUBLIC", "PROTECTED", "PRIVATE"} THEN level ELSE "PACKAGE"

IsFieldExcluded(field, anno) ==
    \/ field.name \in anno.exclude
    \/ anno.of # None /\ field.name \notin anno.of

(* An own annotation counts before that of the class, on static fields too. *)
ShouldGenerateForField(field, ofClass, ofField) ==
    IF ofField # None THEN ParseAccessLevel(ofField) # "NONE"
    ELSE /\ ~ field.static
         /\ ofClass # None
         /\ ~ IsFieldExcluded(field, ofClass)
         /\ ParseAccessLevel(ofClass) # "NONE"

GetterName(field) == <<IF field.type = "Z" THEN "is" ELSE "get", Capital(field.name)>>

IsNonNull(field) == "NonNull" \in DOMAIN field.annos

NonStatic(fields) == SelectSeq(fields, LAMBDA f : ~ f.static)

RequiredFields(fields) == SelectSeq(fields, LAMBDA f : ~ f.static /\ (f.final \/ IsNonNull(f)))

-----------------------------------------------------------------------------
(* What several rules generate.                                             *)

GenerateGetter(field, anno, methods) ==
    LET getter == Method(GetterName(field), <<>>, field.type,
                         AccessFlags(ParseAccessLevel(anno)), field.static)
    IN IF ParseAccessLevel(anno) = "NONE" \/ HasMethod(methods, getter) THEN <<>>
       ELSE Generated(getter, Origin("getter", field.name))

GenerateSetter(field, anno, methods) ==
    LET setter == Method(<<"set", Capital(field.name)>>, <<field.type>>, "V",
                         AccessFlags(ParseAccessLevel(anno)), field.static)
    IN IF ParseAccessLevel(anno) = "NONE" \/ HasMethod(methods, setter) THEN <<>>
       ELSE Generated(setter, Origin("setter", field.name))

(* ToStringRule names the return type without making it a descriptor; the  *)
(* definition always has the descriptor.                                   *)
ToStringMethod(methods, ret) ==
    IF HasCall(methods, Plain("toString"), 0) THEN <<>>
    ELSE << Item("Method", Plain("toString"), << <<>>, "LString;">>,
                 Method(Plain("toString"), <<>>, ret, "PUBLIC", FALSE), OfClass("toString")) >>

EqualsMethod == Method(Plain("equals"), <<"LObject;">>, "Z", "PUBLIC", FALSE)
HashCodeMethod == Method(Plain("hashCode"), <<>>, "I", "PUBLIC", FALSE)

EqualsHashCodeAndCanEqual ==
    Generated(EqualsMethod, OfClass("equals"))
      \o Generated(HashCodeMethod, OfClass("hashCode"))
      \o Generated(Method(Plain("canEqual"), <<"LObject;">>, "Z", "PROTECTED", FALSE), OfClass("equals"))

(* Neither of equals and hashCode is generated when one is written.        *)
EqualsForData(methods) ==
    IF HasMethod(methods, EqualsMethod) \/ HasMethod(methods, HashCodeMethod) THEN <<>>
    ELSE EqualsHashCodeAndCanEqual

(* The return type of a static factory is a placeholder.                   *)
StaticFactory(name, params, methods) ==
    IF name = None \/ HasCall(methods, Plain(name), Len(params)) THEN <<>>
    ELSE << Item("Method", Plain(name), <<params, "LObject;">>,
                 Method(Plain(name), params, "Object", "PUBLIC", TRUE), OfClass("constructor")) >>

ParamsOf(fields) == [i \in DOMAIN fields |-> fields[i].type]

(* The factory is generated only together with its constructor.            *)
ConstructorWithFactory(fields, access, static, methods) ==
    LET constructor == Method(Init_, ParamsOf(fields), "V", access, FALSE)
    IN IF HasMethod(methods, constructor) THEN <<>>
       ELSE Generated(constructor, OfClass("constructor"))
              \o StaticFactory(static, ParamsOf(fields), methods)

HasExplicitConstructor(decl) ==
    \/ {"NoArgsConstructor", "RequiredArgsConstructor", "AllArgsConstructor"} \cap DOMAIN decl.annos # {}
    \/ \E i \in DOMAIN decl.methods : decl.methods[i].name = Init_

IfAbsent(decl, anno, items) == IF anno \in DOMAIN decl.annos THEN <<>> ELSE items

-----------------------------------------------------------------------------
(* The rules.                                                               *)

RecordRule(decl) ==
    LET constructor == Method(Init_, ParamsOf(decl.components), "V", "PUBLIC", FALSE)
        Accessor(c) == Method(<<"", c.name>>, <<>>, c.type, "PUBLIC", FALSE)
        OfComponent(c) == IF HasMethod(decl.methods, Accessor(c)) THEN <<>>
                          ELSE Generated(Accessor(c), Origin("component", c.name))
    IN IF decl.kind # "record" \/ decl.components = <<>> THEN <<>>
       ELSE (IF HasMethod(decl.methods, constructor) THEN <<>>
             ELSE Generated(constructor, OfClass("canonical")))
              \o FlattenSeq([i \in DOMAIN decl.components |-> OfComponent(decl.components[i])])

EnumRule(decl) ==
    LET new == SelectSeq(decl.constants, LAMBDA c : \A i \in DOMAIN decl.fields : decl.fields[i].name # c)
    IN IF decl.kind # "enum" \/ decl.owner = None THEN <<>>
       ELSE [i \in DOMAIN new |->
               Item("Field", <<"", new[i]>>, None, [name |-> <<"", new[i]>>, type |-> decl.owner],
                    Origin("constant", new[i]))]

DataAccessorsAlways(decl) ==
    LET fields == NonStatic(decl.fields)
        OfField(f) == GenerateGetter(f, FindAnnotation(f.annos, "Getter"), decl.methods)
    IN FlattenSeq([i \in DOMAIN fields |-> OfField(fields[i])])
DataAccessors(decl) ==
    LET fields == NonStatic(decl.fields)
        OfField(f) ==
          IfAbsent(decl, "Getter", GenerateGetter(f, FindAnnotation(f.annos, "Getter"), decl.methods))
            \o IF f.final THEN <<>>
               ELSE IfAbsent(decl, "Setter", GenerateSetter(f, FindAnnotation(f.annos, "Setter"), decl.methods))
    IN FlattenSeq([i \in DOMAIN fields |-> OfField(fields[i])])

DataRule(decl) ==
    LET data == FindAnnotation(decl.annos, "Data")
    IN IF decl.kind = "interface" \/ data = None THEN <<>>
       ELSE DataAccessors(decl)
              \o IfAbsent(decl, "ToString", ToStringMethod(decl.methods, "LString;"))
              \o IfAbsent(decl, "EqualsAndHashCode", EqualsForData(decl.methods))
              \o IF HasExplicitConstructor(decl) THEN <<>>
                 ELSE ConstructorWithFactory(RequiredFields(decl.fields), "PUBLIC", data.static, decl.methods)

ValueGetters(decl) ==
    LET fields == NonStatic(decl.fields)
    IN FlattenSeq([i \in DOMAIN fields |->
         GenerateGetter(fields[i], FindAnnotation(fields[i].annos, "Getter"), decl.methods)])

ValueRule(decl) ==
    LET value == FindAnnotation(decl.annos, "Value")
    IN IF decl.kind = "interface" \/ value = None THEN <<>>
       ELSE IfAbsent(decl, "Getter", ValueGetters(decl))
              \o IfAbsent(decl, "ToString", ToStringMethod(decl.methods, "LString;"))
              \o IfAbsent(decl, "EqualsAndHashCode", EqualsForData(decl.methods))
              \o IF HasExplicitConstructor(decl) THEN <<>>
                 ELSE ConstructorWithFactory(NonStatic(decl.fields), "PUBLIC", value.static, decl.methods)

SetterForFinalToo(field, ofClass, ofField) == ShouldGenerateForField(field, ofClass, ofField)
GeneratesSetter(field, ofClass, ofField) ==
    ~ field.final /\ ShouldGenerateForField(field, ofClass, ofField)

(* A lazy getter is generated for a final field only.                      *)
GetterSetterRule(decl) ==
    LET getter == FindAnnotation(decl.annos, "Getter")
        setter == FindAnnotation(decl.annos, "Setter")
        Getter(f) ==
          LET own == FindAnnotation(f.annos, "Getter")
              anno == FirstOf(own, getter)
          IN IF ShouldGenerateForField(f, getter, own) /\ ~ (anno.lazy /\ ~ f.final)
             THEN GenerateGetter(f, anno, decl.methods) ELSE <<>>
        Setter(f) ==
          LET own == FindAnnotation(f.annos, "Setter")
          IN IF GeneratesSetter(f, setter, own)
             THEN GenerateSetter(f, FirstOf(own, setter), decl.methods) ELSE <<>>
    IN FlattenSeq([i \in DOMAIN decl.fields |-> Getter(decl.fields[i]) \o Setter(decl.fields[i])])

ToStringRule(decl) ==
    IF decl.kind = "interface" \/ "ToString" \notin DOMAIN decl.annos THEN <<>>
    ELSE ToStringMethod(decl.methods, "String")

HasEqualsOrHashCode(methods) ==
    \/ \E i \in DOMAIN methods : /\ methods[i].name = Plain("equals")
                                 /\ methods[i].params \in {<<"LObject;">>, <<"unresolved Object">>}
    \/ HasCall(methods, Plain("hashCode"), 0)

EqualsAndHashCodeRule(decl) ==
    IF \/ decl.kind = "interface"
       \/ "EqualsAndHashCode" \notin DOMAIN decl.annos
       \/ HasEqualsOrHashCode(decl.methods)
    THEN <<>> ELSE EqualsHashCodeAndCanEqual

(* A constructor without arguments is left out when it would leave a final *)
(* field without a value, unless it is forced.                             *)
NoArgsConstructor(decl, anno, access) ==
    IF ~ anno.force /\ \E i \in DOMAIN decl.fields : decl.fields[i].final /\ ~ decl.fields[i].static
    THEN <<>> ELSE ConstructorWithFactory(<<>>, access, anno.static, decl.methods)

ConstructorRule(decl) ==
    LET Access(anno) == AccessFlags(IF decl.kind = "enum" THEN "PRIVATE" ELSE ConstructorAccessLevel(anno))
        none == FindAnnotation(decl.annos, "NoArgsConstructor")
        required == FindAnnotation(decl.annos, "RequiredArgsConstructor")
        all == FindAnnotation(decl.annos, "AllArgsConstructor")
    IN IF decl.kind = "interface" THEN <<>>
       ELSE (IF none = None THEN <<>> ELSE NoArgsConstructor(decl, none, Access(none)))
              \o (IF required = None THEN <<>>
                  ELSE ConstructorWithFactory(RequiredFields(decl.fields), Access(required), required.static, decl.methods))
              \o (IF all = None THEN <<>>
                  ELSE ConstructorWithFactory(NonStatic(decl.fields), Access(all), all.static, decl.methods))

(* The nested class of a builder: a field and a setter for every field.    *)
BuilderClass(decl) ==
    LET fields == NonStatic(decl.fields)
    IN Item("Class", Plain("Builder"), None,
            [fields |-> [i \in DOMAIN fields |-> fields[i].name],
             methods |-> [i \in DOMAIN fields |->
                            Method(<<"", fields[i].name>>, <<fields[i].type>>, "LBuilder;", "PUBLIC", FALSE)]
                           \o << Method(Plain("build"), <<>>, FirstOf(decl.owner, "simple name"), "PUBLIC", FALSE),
                                 Method(Plain("toString"), <<>>, "LString;", "PUBLIC", FALSE) >>],
            None)

BuilderRule(decl) ==
    LET anno == FindAnnotation(decl.annos, "Builder")
        Entry(name, access, static) ==
          IF HasCall(decl.methods, Plain(name), 0) THEN <<>>
          ELSE Generated(Method(Plain(name), <<>>, "LBuilder;", access, static), OfClass("builder"))
    IN IF decl.kind # "class" \/ anno = None THEN <<>>
       ELSE Entry("builder", AccessFlags(ParseAccessLevel(anno)), TRUE)
              \o (IF anno.toBuilder THEN Entry("toBuilder", "PUBLIC", FALSE) ELSE <<>>)
              \o << BuilderClass(decl) >>

ShouldGenerateWithForField(field, ofClass, ofField) ==
    LET anno == FirstOf(ofField, ofClass)
    IN ~ field.static /\ anno # None /\ ParseAccessLevel(anno) # "NONE"

WithMethod(field, anno, decl) ==
    LET with == Method(<<"with", Capital(field.name)>>, <<field.type>>, FirstOf(decl.owner, "LObject;"),
                       AccessFlags(ParseAccessLevel(anno)), FALSE)
    IN IF HasMethod(decl.methods, with) THEN <<>> ELSE Generated(with, Origin("with", field.name))

WithRule(decl) ==
    LET OfAnnos(annos) == FirstOf(FindAnnotation(annos, "With"), FindAnnotation(annos, "Wither"))
        class == OfAnnos(decl.annos)
        OfField(f) == IF ShouldGenerateWithForField(f, class, OfAnnos(f.annos))
                      THEN WithMethod(f, FirstOf(OfAnnos(f.annos), class), decl) ELSE <<>>
    IN IF decl.kind = "enum" THEN <<>>
       ELSE FlattenSeq([i \in DOMAIN decl.fields |-> OfField(decl.fields[i])])

LogFrameworks ==
    <<"Slf4j", "Log", "Log4j", "Log4j2", "CommonsLog", "JBossLog", "Flogger", "XSlf4j">>
LogField == <<"log", FALSE>>

(* The first framework of the list whose annotation is present counts.     *)
LogRule(decl) ==
    LET used == SelectSeq(LogFrameworks, LAMBDA a : a \in DOMAIN decl.annos)
    IN IF \/ decl.kind = "interface" \/ used = <<>>
          \/ \E i \in DOMAIN decl.fields : decl.fields[i].name = LogField
       THEN <<>>
       ELSE << Item("Field", <<"", LogField>>, Head(used),
                    [name |-> <<"", LogField>>, type |-> Head(used)], OfClass("log")) >>

ObjectMethods ==
    {Plain(n) : n \in {"equals", "hashCode", "toString", "clone", "finalize",
                       "getClass", "notify", "notifyAll", "wait"}}

DelegateMethod(items, field, method, decl) ==
    IF HasMethod(decl.methods, method) \/ HasMethod(MethodsOf(items), method) \/ method.name \in ObjectMethods
    THEN items
    ELSE items \o Generated([method EXCEPT !.access = "PUBLIC", !.static = FALSE], Origin("delegate", field.name))

(* Types that are not found delegate nothing; the marker is always added.  *)
DelegateMethods(items, field, decl) ==
    LET anno == field.annos["Delegate"]
        targets == IF anno.types = <<>> THEN <<field.type>> ELSE anno.types
        methods == FlattenSeq([i \in DOMAIN targets |->
                                 IF targets[i] \in DOMAIN decl.seen THEN decl.seen[targets[i]] ELSE <<>>])
        delegated == FoldLeft(LAMBDA out, m : DelegateMethod(out, field, m, decl), items, methods)
    IN Append(delegated, Item("Method", <<"$delegate$", field.name>>, None, None, Origin("delegate", field.name)))

DelegateRule(items, decl) ==
    LET fields == SelectSeq(decl.fields, LAMBDA f : ~ f.static /\ "Delegate" \in DOMAIN f.annos)
    IN IF decl.kind \notin {"class", "interface"} THEN items
       ELSE FoldLeft(LAMBDA out, f : DelegateMethods(out, f, decl), items, fields)

(* The rules in their order; only the last one reads what the others made. *)
SynthesizeForType(decl) ==
    DelegateRule(RecordRule(decl) \o EnumRule(decl) \o DataRule(decl) \o ValueRule(decl)
                   \o GetterSetterRule(decl) \o ToStringRule(decl) \o EqualsAndHashCodeRule(decl)
                   \o ConstructorRule(decl) \o BuilderRule(decl) \o WithRule(decl) \o LogRule(decl),
                 decl)

-----------------------------------------------------------------------------
(* Going to the definition of a generated member.                           *)

FindFieldNode(decl, name) ==
    IF \E i \in DOMAIN decl.fields : decl.fields[i].name = name THEN <<"field", name>> ELSE None

FindComponentNode(decl, name) ==
    IF \E i \in DOMAIN decl.components : decl.components[i].name = name THEN <<"component", name>> ELSE None

FindConstantNode(decl, name) ==
    IF name \in ToSet(decl.constants) THEN <<"constant", name>> ELSE None

NodeOf(decl, origin) ==
    CASE origin.what \in {"getter", "setter", "with", "delegate"} -> FindFieldNode(decl, origin.field)
      [] origin.what = "component" -> FindComponentNode(decl, origin.field)
      [] origin.what = "constant" -> FindConstantNode(decl, origin.field)
      [] origin.what = "canonical" -> <<"parameters", NoField>>
      [] OTHER -> <<"class", NoField>>

FindDefinition(decl, items, kind, name, desc) ==
    LET found == SelectSeq(items, LAMBDA x : /\ x.kind = kind /\ x.name = name
                                             /\ desc = None \/ x.desc = desc
                                             /\ NodeOf(decl, x.origin) # None)
    IN IF found = <<>> THEN None ELSE NodeOf(decl, Head(found).origin)

ResolveSyntheticDefinition(decl, kind, name, desc) ==
    FindDefinition(decl, SynthesizeForType(decl), kind, name, desc)

-----------------------------------------------------------------------------
(* What must hold, of a declaration and what is generated for it.           *)

Members(items, kind) == {x \in ToSet(items) : x.kind = kind /\ x.member # None}

(* The definition of every generated member is found: a method's by the    *)
(* descriptor the index has for it, a field's by its name; and it is the   *)
(* declaration it was generated from, or one that generates the same       *)
(* method.  Excepted are methods whose return type is not a descriptor.    *)
MembersResolve(decl, items) ==
    /\ \A x \in {m \in Members(items, "Method") : m.member.ret \notin {"String", "Object"}} :
         LET node == FindDefinition(decl, items, "Method", x.name, Desc(x.member))
         IN IF x.origin.what \in {"getter", "setter", "with"}
            THEN node # None /\ node[1] = "field" /\ Capital(node[2]) = Capital(x.origin.field)
            ELSE node # None
    /\ \A x \in Members(items, "Field") :
         FindDefinition(decl, items, "Field", x.name, None)
           = IF x.origin.what = "log" THEN <<"class", NoField>> ELSE <<"constant", x.origin.field>>

(* Rules that generate the same members do not repeat each other: with one *)
(* of @Data and @Value, at most one constructor annotation and fields that *)
(* have no accessor annotations of their own and differ in more than the   *)
(* case of their first letter, no method is generated twice, and none that *)
(* the class declares itself, canEqual excepted.                           *)
MembersOnce(decl, methods) ==
    /\ \A m \in ToSet(methods) : HasMethod(decl.methods, m) => m.name = Plain("canEqual")
    /\ (/\ ~ {"Data", "Value"} \subseteq DOMAIN decl.annos
        /\ Cardinality({"NoArgsConstructor", "RequiredArgsConstructor", "AllArgsConstructor"}
                         \cap DOMAIN decl.annos) <= 1
        /\ \A f \in ToSet(decl.fields) : {"Getter", "Setter"} \cap DOMAIN f.annos = {}
        /\ \A i, j \in DOMAIN decl.fields :
             i # j => Capital(decl.fields[i].name) # Capital(decl.fields[j].name))
       => \A i, j \in DOMAIN methods :
            methods[i].name = methods[j].name /\ Desc(methods[i]) = Desc(methods[j]) => i = j

(* The annotation that speaks for an accessor: the field's own, else that  *)
(* of the class.                                                           *)
Speaking(decl, field, what) ==
    LET name == IF what = "getter" THEN "Getter" ELSE "Setter"
    IN FirstOf(FindAnnotation(field.annos, name), FindAnnotation(decl.annos, name))

AccessorAsAnnotated(decl, field, anno, x) ==
    /\ ParseAccessLevel(anno) # "NONE"
    /\ x.member.access = AccessFlags(ParseAccessLevel(anno))
    /\ x.member.static = field.static
    /\ anno = None => {"Data", "Value"} \cap DOMAIN decl.annos # {} /\ ~ field.static
    /\ x.origin.what = "setter" => ~ field.final /\ (anno # None \/ "Data" \in DOMAIN decl.annos)

(* Accessors are what the annotations ask for, whichever rule makes them:  *)
(* none that AccessLevel.NONE forbids, with the access of the nearest      *)
(* annotation, no setter of a final field, no setter in a @Value class     *)
(* unless asked for.                                                       *)
AccessorsAsAnnotated(decl, items) ==
    \A x \in Members(items, "Method"), f \in ToSet(decl.fields) :
        x.origin.what \in {"getter", "setter"} /\ x.origin.field = f.name
          => AccessorAsAnnotated(decl, f, Speaking(decl, f, x.origin.what), x)

(* hashCode is generated exactly when equals is, and neither when the      *)
(* class declares one of them.                                             *)
EqualsWithHashCode(decl, methods) ==
    LET Count(name) == Cardinality({i \in DOMAIN methods : methods[i].name = Plain(name)})
    IN /\ Count("equals") = Count("hashCode")
       /\ HasMethod(decl.methods, EqualsMethod) \/ HasMethod(decl.methods, HashCodeMethod)
            => Count("equals") = 0

=============================================================================
