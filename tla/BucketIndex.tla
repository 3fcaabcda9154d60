---------------------------- MODULE BucketIndex -----------------------------
(***************************************************************************)
(* One bucket of the workspace index (index/bucket.rs): the classes of a   *)
(* source root or an archive, in a slab whose slots are reused, found      *)
(* through a map by internal name and through maps by simple name, package,*)
(* owner class and origin, with the places of their declarations beside    *)
(* them.                                                                   *)
(*                                                                         *)
(* The bucket's lock is held for a whole add or a whole removal; a step    *)
(* here is one class inserted or detached under it.  The update of a       *)
(* source file takes the lock twice.  The writers of a published index     *)
(* are serialised by the index handle, so that one call changes a bucket   *)
(* at a time; readers come whenever the lock is free.                      *)
(*                                                                         *)
(* A Vec of class ids that indexes hold is the set of its members (an id   *)
(* is pushed when its slot is filled and trimmed when it is emptied; the   *)
(* order only orders results), and the ids of a removed origin are         *)
(* detached in any order.  The free list keeps its order, and would show   *)
(* an id freed twice.  Ids count from 1.  The member cache of the          *)
(* hierarchy walk and the modules of an archive are left out.              *)
(***************************************************************************)
EXTENDS ClassLists, FiniteSets, Functions

CONSTANTS
    Class,    \* ClassMetadata: records with the fields below
    Origin,   \* where classes come from
    Jar,      \* the origins that are archives: ClassOrigin::Jar
    Batch,    \* the class lists callers pass
    None,     \* an absent package or owner
    Vacant    \* a free slot of the slab

ASSUME BatchAssumption == Batch \subseteq Seq(Class)
ASSUME ClassAssumption ==
    /\ Vacant \notin Class
    /\ \A c \in Class :
         /\ {"internal_name", "name", "package", "inner_class_of", "origin", "members"}
              \subseteq DOMAIN c
         /\ c.origin \in Origin
         /\ c.name # None /\ c.internal_name # None
    /\ None \notin Origin

VARIABLES
    inner,    \* BucketState: the slab and the maps into it
    job       \* the call that is changing the bucket

vars == <<inner, job>>

BucketState(classes, free, by_internal, by_origin, names, packages, owners, ranges) ==
    [classes |-> classes, free_class_ids |-> free, by_internal |-> by_internal,
     by_origin |-> by_origin, simple_name_index |-> names, package_index |-> packages,
     owner_index |-> owners, ranges |-> ranges]

EmptyMap == [x \in {} |-> {}]

NoJob == [phase |-> "idle", ids |-> {}, batch |-> <<>>, declared |-> FALSE]

Live(s) == {i \in DOMAIN s.classes : s.classes[i] # Vacant}
MembersOf(c) == {"type"} \cup c.members

-----------------------------------------------------------------------------
(* Maps from a key to the ids filed under it: an entry without ids is       *)
(* dropped.                                                                 *)

File(index, key, id) ==
    IF key = None THEN index
    ELSE [k \in DOMAIN index \cup {key} |->
            IF k # key THEN index[k]
            ELSE IF k \in DOMAIN index THEN index[k] \cup {id} ELSE {id}]

TrimNothing(index, key, id) == index

TrimKeepsEmptyEntry(index, key, id) ==
    IF key \notin DOMAIN index THEN index ELSE [index EXCEPT ![key] = @ \ {id}]

TrimIdIndex(index, key, id) ==
    IF key \notin DOMAIN index THEN index
    ELSE IF index[key] \subseteq {id} THEN Restrict(index, DOMAIN index \ {key})
    ELSE [index EXCEPT ![key] = @ \ {id}]

-----------------------------------------------------------------------------
(* Changes of the locked state.                                             *)

(* A place is known for what the caller's declarations name; the places of  *)
(* a class are told apart only by the class they belong to.                 *)
InsertDeclarations(ranges, c, declared) ==
    IF ~declared THEN ranges
    ELSE [k \in DOMAIN ranges \cup ({c.internal_name} \X MembersOf(c)) |->
            IF k \in {c.internal_name} \X MembersOf(c) THEN c ELSE ranges[k]]

RemoveTypeDeclaration(ranges, c) ==
    Restrict(ranges, DOMAIN ranges \ {<<c.internal_name, "type">>})

RemoveDeclarations(ranges, c) ==
    Restrict(ranges, DOMAIN ranges \ ({c.internal_name} \X MembersOf(c)))

(* The map by internal name is cleaned only while it still points here; the *)
(* slot goes to the free list once, as an empty slot is not detached again. *)
DetachClass(s, id) ==
    IF s.classes[id] = Vacant THEN s
    ELSE LET c == s.classes[id] IN
         BucketState(
           [s.classes EXCEPT ![id] = Vacant],
           Append(s.free_class_ids, id),
           IF c.internal_name \in DOMAIN s.by_internal /\ s.by_internal[c.internal_name] = id
             THEN Restrict(s.by_internal, DOMAIN s.by_internal \ {c.internal_name})
             ELSE s.by_internal,
           s.by_origin,
           TrimIdIndex(s.simple_name_index, c.name, id),
           TrimIdIndex(s.package_index, c.package, id),
           TrimIdIndex(s.owner_index, c.inner_class_of, id),
           RemoveDeclarations(s.ranges, c))

RemoveClassByIdKeepsOrigin(s, id) == DetachClass(s, id)

RemoveClassById(s, id) ==
    LET c == s.classes[id] IN
    IF c = Vacant THEN s
    ELSE [DetachClass(s, id) EXCEPT !.by_origin = TrimIdIndex(@, c.origin, id)]

(* The last freed slot is taken again, or the slab grows.                   *)
NextIdAfterPush(s) ==
    IF s.free_class_ids # <<>> THEN s.free_class_ids[Len(s.free_class_ids)]
    ELSE Len(s.classes) + 2

NextId(s) ==
    IF s.free_class_ids # <<>> THEN s.free_class_ids[Len(s.free_class_ids)]
    ELSE Len(s.classes) + 1

PeekFree(s) == s.free_class_ids

PopFree(s) ==
    IF s.free_class_ids # <<>> THEN SubSeq(s.free_class_ids, 1, Len(s.free_class_ids) - 1)
    ELSE <<>>

InsertRecordOver(s, c, declared) ==
    LET id == NextId(s) IN
    BucketState(
         IF s.free_class_ids # <<>> THEN [s.classes EXCEPT ![id] = c]
         ELSE Append(s.classes, c),
         PopFree(s),
         [n \in DOMAIN s.by_internal \cup {c.internal_name} |->
            IF n = c.internal_name THEN id ELSE s.by_internal[n]],
         File(s.by_origin, c.origin, id),
         File(s.simple_name_index, c.name, id),
         File(s.package_index, c.package, id),
         File(s.owner_index, c.inner_class_of, id),
         InsertDeclarations(s.ranges, c, declared))

InsertRecordWithoutDisplacing(s, c, declared) == InsertRecordOver(s, c, declared)

InsertRecord(s, c, declared) ==
    IF c.internal_name \in DOMAIN s.by_internal
    THEN InsertRecordOver(RemoveClassById(s, s.by_internal[c.internal_name]), c, declared)
    ELSE InsertRecordOver(s, c, declared)

-----------------------------------------------------------------------------
(* Lookups, each under a read lock.                                         *)

GetClass(n) ==
    IF n \in DOMAIN inner.by_internal THEN inner.classes[inner.by_internal[n]] ELSE Vacant

ResolveClassIds(index, key) ==
    IF key \in DOMAIN index THEN {inner.classes[i] : i \in index[key] \cap Live(inner)} ELSE {}

GetClassesBySimpleName(s) == ResolveClassIds(inner.simple_name_index, s)
ClassesInPackage(p) == ResolveClassIds(inner.package_index, p)
DirectInnerClassesOf(n) == ResolveClassIds(inner.owner_index, n)
HasPackage(p) == p \in DOMAIN inner.package_index
IterAllClasses == {inner.classes[i] : i \in Live(inner)}

(* The stored classes of the origin are these, one for each.                *)
SameClassesForOrigin(o, batch) ==
    /\ o \in DOMAIN inner.by_origin
    /\ Cardinality(inner.by_origin[o]) = Len(batch)
    /\ ResolveClassIds(inner.by_origin, o) = Listed(batch)

(* A source file does not replace a class of an archive.                    *)
Filtered(batch) ==
    Without(batch, {n \in DOMAIN inner.by_internal : GetClass(n).origin \in Jar})

-----------------------------------------------------------------------------
(* The calls.                                                               *)

Init ==
    /\ inner = BucketState(<<>>, <<>>, EmptyMap, EmptyMap, EmptyMap, EmptyMap, EmptyMap, EmptyMap)
    /\ job = NoJob

(* add_classes_with_declarations and add_archive_classes (declared = FALSE).*)
AddClasses(batch, declared) ==
    /\ job.phase = "idle"
    /\ job' = [NoJob EXCEPT !.phase = "adding", !.batch = batch, !.declared = declared]
    /\ UNCHANGED inner

InsertNext ==
    /\ job.phase = "adding"
    /\ job.batch # <<>>
    /\ inner' = InsertRecord(inner, Head(job.batch), job.declared)
    /\ job' = [job EXCEPT !.batch = Tail(@)]

AddDone ==
    /\ job.phase = "adding"
    /\ job.batch = <<>>
    /\ job' = NoJob
    /\ UNCHANGED inner

(* The ids of the origin leave the map at once and are detached one by one; *)
(* `batch' is what the caller adds afterwards.                              *)
StartRemove(o, batch, declared) ==
    LET found == o \in DOMAIN inner.by_origin IN
    /\ inner' = [inner EXCEPT !.by_origin = Restrict(@, DOMAIN @ \ {o})]
    /\ job' = [phase |-> IF found THEN "removing" ELSE "removed",
               ids |-> IF found THEN inner.by_origin[o] ELSE {},
               batch |-> batch, declared |-> declared]

RemoveByOrigin(o) ==
    /\ job.phase = "idle"
    /\ o \in DOMAIN inner.by_origin
    /\ StartRemove(o, <<>>, FALSE)

DetachNext ==
    /\ job.phase = "removing"
    /\ \E id \in job.ids :
         /\ inner' = DetachClass(inner, id)
         /\ job' = [job EXCEPT !.ids = @ \ {id}]

RemoveDone ==
    /\ job.phase = "removing"
    /\ job.ids = {}
    /\ job' = IF job.batch = <<>> THEN NoJob ELSE [job EXCEPT !.phase = "removed"]
    /\ UNCHANGED inner

(* update_source_with_declarations: nothing happens when no class is left   *)
(* after the filter, or when the origin's classes are these already.        *)
UpdateSource(o, batch, declared) ==
    /\ job.phase = "idle"
    /\ \A i \in DOMAIN batch : batch[i].origin = o
    /\ Filtered(batch) # <<>>
    /\ ~SameClassesForOrigin(o, Filtered(batch))
    /\ StartRemove(o, Filtered(batch), declared)

(* The removal's lock is free again: the second half takes it anew.         *)
ContinueUpdate ==
    /\ job.phase = "removed"
    /\ job' = [job EXCEPT !.phase = "adding"]
    /\ UNCHANGED inner

Next ==
    \/ \E batch \in Batch, declared \in BOOLEAN : AddClasses(batch, declared)
    \/ InsertNext
    \/ AddDone
    \/ \E o \in Origin : RemoveByOrigin(o)
    \/ DetachNext
    \/ RemoveDone
    \/ \E o \in Origin, batch \in Batch, declared \in BOOLEAN : UpdateSource(o, batch, declared)
    \/ ContinueUpdate

Spec == Init /\ [][Next]_vars

-----------------------------------------------------------------------------
(* Properties.                                                              *)

Slot == DOMAIN inner.classes
IdsUnder(index, key) == IF key \in DOMAIN index THEN index[key] ELSE {}

(* The slab, the free list and the maps hold what their types say.          *)
TypeOK ==
    /\ inner.classes \in Seq(Class \cup {Vacant})
    /\ inner.free_class_ids \in Seq(Slot)
    /\ \A n \in DOMAIN inner.by_internal : inner.by_internal[n] \in Slot
    /\ job.phase \in {"idle", "adding", "removing", "removed"}
    /\ job.ids \subseteq Slot
    /\ job.batch \in Seq(Class)
    /\ job.declared \in BOOLEAN

(* Slot reuse is sound: the free list names every empty slot of the slab    *)
(* exactly once, so that a slot is never handed to two classes and never    *)
(* lost (detach_class_locked, insert_record_locked).                        *)
FreeSlotsListedOnce ==
    /\ \A i \in Slot : inner.classes[i] = Vacant
          <=> \E k \in DOMAIN inner.free_class_ids : inner.free_class_ids[k] = i
    /\ \A j, k \in DOMAIN inner.free_class_ids :
          inner.free_class_ids[j] = inner.free_class_ids[k] => j = k

(* A class is found by its internal name exactly when it is in the slab,    *)
(* and two slots never hold the same class name.                            *)
NamesMatchSlab ==
    /\ \A i \in Live(inner) : LET n == inner.classes[i].internal_name IN
          n \in DOMAIN inner.by_internal /\ inner.by_internal[n] = i
    /\ \A n \in DOMAIN inner.by_internal : LET i == inner.by_internal[n] IN
          i \in Live(inner) /\ inner.classes[i].internal_name = n

(* The maps by simple name, package and owner list exactly the classes of   *)
(* the slab that have that key, whatever was displaced, removed or put in a *)
(* reused slot before; a key without classes is gone, so that a package     *)
(* whose last class was removed no longer exists (has_package).             *)
IndexesMatchSlab ==
    /\ \A i \in Live(inner) : LET c == inner.classes[i] IN
          /\ i \in IdsUnder(inner.simple_name_index, c.name)
          /\ c.package # None => i \in IdsUnder(inner.package_index, c.package)
          /\ c.inner_class_of # None => i \in IdsUnder(inner.owner_index, c.inner_class_of)
    /\ \A k \in DOMAIN inner.simple_name_index : LET ids == inner.simple_name_index[k] IN
          ids # {} /\ \A i \in ids : i \in Live(inner) /\ inner.classes[i].name = k
    /\ \A k \in DOMAIN inner.package_index : LET ids == inner.package_index[k] IN
          ids # {} /\ \A i \in ids : i \in Live(inner) /\ inner.classes[i].package = k
    /\ \A k \in DOMAIN inner.owner_index : LET ids == inner.owner_index[k] IN
          ids # {} /\ \A i \in ids : i \in Live(inner) /\ inner.classes[i].inner_class_of = k

(* What a reader is told agrees between the lookups: the classes found by   *)
(* simple name, in a package and in an owner class are those of the whole   *)
(* list that have that key, a package exists when a class is in it, and     *)
(* each listed class is the one found by its internal name.                 *)
LookupsAgree ==
    job.phase \in {"idle", "removed"} =>
      /\ \A c \in Class :
           /\ GetClassesBySimpleName(c.name) = {e \in IterAllClasses : e.name = c.name}
           /\ c.package # None =>
                /\ ClassesInPackage(c.package) = {e \in IterAllClasses : e.package = c.package}
                /\ HasPackage(c.package) <=> ClassesInPackage(c.package) # {}
           /\ DirectInnerClassesOf(c.internal_name) =
                {e \in IterAllClasses : e.inner_class_of = c.internal_name}
      /\ \A e \in IterAllClasses : GetClass(e.internal_name) = e

(* The map by origin and the ids a removal has still to detach name every   *)
(* class of the slab once, each under the origin of the class that is in    *)
(* the slot now: removing a file cannot take away a class another file has  *)
(* put in a reused slot (remove_by_origin, remove_class_by_id_locked).      *)
OriginsMatchSlab ==
    /\ \A i \in Live(inner) : i \in job.ids
          \/ i \in IdsUnder(inner.by_origin, inner.classes[i].origin)
    /\ \A o \in DOMAIN inner.by_origin :
          /\ inner.by_origin[o] # {}
          /\ \A i \in inner.by_origin[o] :
                i \in Live(inner) \ job.ids /\ inner.classes[i].origin = o
    /\ job.ids \subseteq Live(inner)

(* A declaration's place is kept only while the class it was recorded for   *)
(* is in the bucket: goto-definition is never sent to a place in a text     *)
(* that another class of the same name has replaced.                        *)
RangesMatchClasses ==
    \A k \in DOMAIN inner.ranges :
        /\ GetClass(k[1]) = inner.ranges[k]
        /\ k[2] \in MembersOf(inner.ranges[k])

(* The slab, its free list, its five maps and its lookups say the same, in  *)
(* every state a sequence of adds, updates, removals and displacements over *)
(* reused slots leads to, also between two steps of a removal.              *)
BucketConsistent ==
    /\ FreeSlotsListedOnce
    /\ NamesMatchSlab
    /\ IndexesMatchSlab
    /\ OriginsMatchSlab
    /\ RangesMatchClasses
    /\ LookupsAgree

(* The classes readers find, with the work of the call that holds the lock  *)
(* taken as done, and what an update has still to add.                      *)
Shown ==
    LET kept == {inner.classes[i] : i \in Live(inner) \ job.ids} IN
    IF job.phase = "adding" THEN Overlay(kept, job.batch) ELSE kept

Contents == INSTANCE BucketContents WITH
    contents <- Shown,
    pending <- IF job.phase \in {"removing", "removed"} THEN job.batch ELSE <<>>

(* The slab and its maps implement the plain set of classes: every add,     *)
(* removal and update has the effect BucketContents gives it.               *)
ImplementsContents == Contents!Spec
=============================================================================
