--------------------------- MODULE CompletionList ----------------------------
(***************************************************************************)
(* From the providers' candidates to the list the client is sent           *)
(* (completion/engine.rs, post_processor.rs, scorer.rs, import_utils.rs,   *)
(* lsp/handlers/completion.rs, lsp/converters.rs).                         *)
(*                                                                         *)
(* A candidate has a label, the provider it comes from (source), a kind, a *)
(* descriptor (desc), a detail, the import it needs or None, whether its   *)
(* name looks like a getter's or setter's (accessor), how it matches the   *)
(* query (match), how its type converts to the expected one (conversion,   *)
(* or None), and the score its provider gave it.  Labels and sources are   *)
(* numbers in the order the code sorts them.  Scores are twice the code's, *)
(* which are multiples of one half.                                        *)
(***************************************************************************)
EXTENDS Integers, Sequences, FiniteSets

CONSTANT None

LOCAL INSTANCE SequencesExt
LOCAL INSTANCE FiniteSetsExt

PrefixScore(match) ==
    CASE match = "exact" -> 200 [] match = "prefix" -> 160 [] match = "initials" -> 120
      [] match = "contains" -> 80 [] match \in {"subsequence", "empty"} -> 40 [] OTHER -> 0

KindBaseScore(kind) ==
    CASE kind = "local" -> 60 [] kind = "method" -> 40 [] kind = "field" -> 36
      [] kind = "constructor" -> 30 [] kind = "static_method" -> 24 [] kind = "static_field" -> 20
      [] kind = "class" -> 16 [] kind = "package" -> 12 [] kind = "label" -> 11
      [] kind = "keyword" -> 10 [] kind = "element" -> 8 [] kind = "annotation" -> 6
      [] kind = "snippet" -> 4 [] OTHER -> 2

CompatibilityScore(conversion) ==
    CASE conversion = "identity" -> 360 [] conversion = "widening" -> 280
      [] conversion = "unboxing_widening" -> 240 [] conversion \in {"boxing", "unboxing"} -> 220
      [] conversion = "boxing_widening" -> 180 [] conversion = "reference_widening" -> 140
      [] conversion = "null" -> 100 [] conversion = "narrowing" -> -160
      [] conversion = "incompatible" -> -240 [] OTHER -> 0

Score(c) == PrefixScore(c.match) + KindBaseScore(c.kind) + CompatibilityScore(c.conversion)

Scored(candidates) ==
    [i \in DOMAIN candidates |-> [candidates[i] EXCEPT !.score = @ + Score(candidates[i])]]

(* Callables are the same when their descriptors are, classes when they are *)
(* shown and imported alike, anything else by its kind alone.               *)
SameCandidate(a, b) ==
    /\ a.label = b.label /\ a.kind = b.kind
    /\ a.kind \in {"method", "static_method", "constructor"} => a.desc = b.desc
    /\ a.kind = "class" => a.detail = b.detail /\ a.import = b.import

(* Candidates of one label, by provider, those without an import first,     *)
(* then by score.                                                           *)
BeforeByLabel(a, b) ==
    \/ a.label < b.label
    \/ a.label = b.label /\ a.source < b.source
    \/ /\ a.label = b.label /\ a.source = b.source
       /\ \/ a.import = None /\ b.import # None
          \/ (a.import = None <=> b.import = None) /\ a.score > b.score

(* Keeps the first of each group of equal candidates.                       *)
DedupUnsorted(candidates) ==
    FoldLeft(LAMBDA kept, c : IF \E k \in ToSet(kept) : SameCandidate(k, c) THEN kept
                              ELSE Append(kept, c),
             <<>>, candidates)

Dedup(candidates) ==
    FoldLeft(LAMBDA kept, c : IF \E k \in ToSet(kept) : SameCandidate(k, c) THEN kept
                              ELSE Append(kept, c),
             <<>>, SortSeq(candidates, BeforeByLabel))

BeforeByLabelOnly(a, b) == a.label < b.label

BeforeByScore(a, b) == a.score > b.score \/ (a.score = b.score /\ a.label < b.label)

Process(candidates) == SortSeq(Dedup(Scored(candidates)), BeforeByScore)

(* What a provider finds: the classes in its search pool, cut before the    *)
(* invisible ones are taken out, and then cut to the limit of a broad       *)
(* query.  Only the last cut is reported.                                   *)
FirstOf(s, n) == SubSeq(s, 1, Min({n, Len(s)}))

Provide(provider, limit) ==
    LET pool == IF provider.pool = None THEN provider.found
                ELSE FirstOf(provider.found, provider.pool)
        visible == SelectSeq(pool, LAMBDA c : c.visible)
    IN IF limit = None THEN [candidates |-> visible, is_incomplete |-> FALSE]
       ELSE [candidates |-> FirstOf(visible, limit), is_incomplete |-> Len(visible) >= limit]

(* A broad provider is limited when the query is short; a narrow one never. *)
CompleteSilently(providers, broad_query, provider_limit, final_limit) ==
    LET results == [i \in DOMAIN providers |->
                      Provide(providers[i], IF broad_query /\ providers[i].broad
                                            THEN provider_limit ELSE None)]
        all == Process(FlattenSeq([i \in DOMAIN results |-> results[i].candidates]))
    IN [candidates |-> FirstOf(all, final_limit),
        is_incomplete |-> Len(all) > final_limit]

CompletePrepared(providers, broad_query, provider_limit, final_limit) ==
    LET results == [i \in DOMAIN providers |->
                      Provide(providers[i], IF broad_query /\ providers[i].broad
                                            THEN provider_limit ELSE None)]
        all == Process(FlattenSeq([i \in DOMAIN results |-> results[i].candidates]))
    IN [candidates |-> FirstOf(all, final_limit),
        is_incomplete |-> \/ \E i \in DOMAIN results : results[i].is_incomplete
                          \/ Len(all) > final_limit]

(* What a language makes of the engine's candidates: Java passes them on,   *)
(* Kotlin lowers getters and setters (by 5, twice that here) and sorts by   *)
(* score alone (unstably: one of the orders of equal scores is taken here). *)
PostProcessCandidates(language, candidates) ==
    IF language = "kotlin"
    THEN SortSeq([i \in DOMAIN candidates |->
                    [candidates[i] EXCEPT !.score = IF candidates[i].accessor THEN @ - 10 ELSE @]],
                 LAMBDA a, b : a.score > b.score)
    ELSE candidates

(* The list of a response: the engine's output, cut again; None when there  *)
(* are no candidates.                                                       *)
BuildCompletionList(language, providers, broad_query, provider_limit, MaxItems) ==
    LET out == CompletePrepared(providers, broad_query, provider_limit, MaxItems)
        candidates == PostProcessCandidates(language, out.candidates)
    IN IF out.candidates = <<>> THEN None
       ELSE [items |-> FirstOf(candidates, MaxItems),
             is_incomplete |-> out.is_incomplete \/ Len(candidates) > MaxItems]

-----------------------------------------------------------------------------
(* Imports.  A file has a package and imports, each a class or a whole      *)
(* package; a class has a package (None is the default one) and a name.     *)

IsImportNeededAnyWildcard(class, file) ==
    /\ class.pkg # None
    /\ class.pkg # "java.lang"
    /\ [pkg |-> class.pkg, name |-> class.name] \notin ToSet(file.imports)
    /\ \A i \in ToSet(file.imports) : i.name # "*"
    /\ class.pkg # file.pkg

IsImportNeeded(class, file) ==
    /\ class.pkg # None
    /\ class.pkg # "java.lang"
    /\ [pkg |-> class.pkg, name |-> class.name] \notin ToSet(file.imports)
    /\ [pkg |-> class.pkg, name |-> "*"] \notin ToSet(file.imports)
    /\ class.pkg # file.pkg

(* The file after the completion was accepted.                              *)
WithImport(class, file) ==
    IF IsImportNeeded(class, file)
    THEN [file EXCEPT !.imports = Append(@, [pkg |-> class.pkg, name |-> class.name])]
    ELSE file

-----------------------------------------------------------------------------
(* The text an accepted completion replaces: the identifier before the      *)
(* cursor.  Characters: "a" a letter, "." a dot, "e" a letter of two bytes. *)

CharBytes(c) == IF c = "e" THEN 2 ELSE 1
LineBytes(line) == FoldLeft(LAMBDA n, c : n + CharBytes(c), 0, line)
IsIdentifierPart(c) == c # "."

(* The column is taken for a number of bytes: None when it cuts a character *)
(* (the request fails), else the start of the identifier, in bytes.         *)
EditFromLineStart(line, character) == [start |-> 0, end |-> character]

MakeMemberSegmentTextEdit(line, character) ==
    LET cuts == {i \in 0..Len(line) : LineBytes(SubSeq(line, 1, i)) = character} IN
    IF cuts = {} THEN None
    ELSE LET before == SubSeq(line, 1, CHOOSE i \in cuts : TRUE)
             ends == {0} \cup {i \in DOMAIN before : ~IsIdentifierPart(before[i])}
         IN [start |-> LineBytes(SubSeq(line, 1, Max(ends))), end |-> character]

-----------------------------------------------------------------------------
(* Of the candidates that stand for the same thing exactly one is kept; the *)
(* one of the first provider, without an import when that provider has such *)
(* a one, and else its best.                                                *)
DedupKeepsBest(candidates) ==
    LET kept == Dedup(candidates) IN
    /\ \A i, j \in DOMAIN kept : SameCandidate(kept[i], kept[j]) => i = j
    /\ \A c \in ToSet(candidates) : \E k \in ToSet(kept) :
         /\ SameCandidate(c, k)
         /\ c.source = k.source => (c.import = None => k.import = None)
         /\ c.source = k.source /\ c.import = k.import => c.score <= k.score

(* A client that is told the list is complete filters it itself when the    *)
(* user types on: every candidate is then represented in it, as long as no  *)
(* search pool was cut.  No list at all means that there are no candidates. *)
CutIsReported(language, providers, broad_query, provider_limit, MaxItems) ==
    LET list == BuildCompletionList(language, providers, broad_query, provider_limit, MaxItems)
        found == UNION {ToSet(SelectSeq(p.found, LAMBDA c : c.visible)) : p \in ToSet(providers)}
    IN (\A p \in ToSet(providers) : p.pool = None \/ Len(p.found) <= p.pool) =>
         IF list = None THEN found = {}
         ELSE \/ list.is_incomplete
              \/ \A c \in found : \E k \in ToSet(list.items) : SameCandidate(c, k)

(* What the list leaves out ranks no higher than what it shows.             *)
ShowsBest(providers, MaxItems) ==
    LET all == Process(FlattenSeq([i \in DOMAIN providers |-> providers[i].found]))
        shown == FirstOf(all, MaxItems)
    IN \A i \in DOMAIN shown, j \in DOMAIN all : i < j => all[j].score <= shown[i].score

(* After a completion is accepted the file needs no further import of the   *)
(* class, and its simple name means the class wherever nothing else visible *)
(* has that name.                                                           *)
MeantBy(name, file, classes) ==
    LET Named(i, c) == c.name = name /\ c.pkg = i.pkg /\ i.name \in {name, "*"}
        single == {c \in classes : \E i \in ToSet(file.imports) : i.name = name /\ Named(i, c)}
        own == {c \in classes : c.name = name /\ c.pkg = file.pkg}
        wild == {c \in classes : \/ \E i \in ToSet(file.imports) : i.name = "*" /\ Named(i, c)
                                 \/ c.name = name /\ c.pkg = "java.lang"}
    IN IF single # {} THEN single ELSE IF own # {} THEN own ELSE wild

ImportMakesNameMean(class, file, classes) ==
    LET after == WithImport(class, file) IN
    /\ ~IsImportNeeded(class, after)
    /\ class.pkg # None /\ MeantBy(class.name, file, classes) \subseteq {class}
         => MeantBy(class.name, after, classes) = {class}

(* The client's column of an offset counts two-byte letters once.  In a     *)
(* line of single bytes the edit replaces the identifier before the cursor. *)
SegmentStart(line, cursor) == Max({0} \cup {i \in 1..cursor : ~IsIdentifierPart(line[i])})

ReplacesSegment(line) ==
    \A cursor \in 0..Len(line) :
        MakeMemberSegmentTextEdit(line, cursor)
          = [start |-> SegmentStart(line, cursor), end |-> cursor]
=============================================================================
