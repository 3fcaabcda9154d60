--------------------------- MODULE BucketContents ---------------------------
(***************************************************************************)
(* What a bucket of the workspace index promises its readers, without the  *)
(* slab, the free list and the secondary indexes that implement it: a set  *)
(* of classes with distinct internal names.  An added class displaces the  *)
(* class of the same name, whatever file declared it; removing an origin   *)
(* removes the classes that were added from it and are still there; the    *)
(* update of a source file removes and adds under two locks, so that the   *)
(* classes of the file are missing in between.                             *)
(***************************************************************************)
EXTENDS ClassLists

CONSTANTS
    Class,    \* class metadata: records with internal_name, origin, ...
    Origin,   \* where classes come from: source files and archives
    Jar,      \* the origins that are archives (ClassOrigin::Jar)
    Batch     \* the class lists callers pass

VARIABLES
    contents, \* the classes that are looked up
    pending   \* what update_source has still to add, <<>> outside of it

vars == <<contents, pending>>

From(classes, o) == {c \in classes : c.origin = o}

(* The classes of the list that do not name a class of an archive.         *)
Trusted(classes, batch) ==
    Without(batch, {e.internal_name : e \in {c \in classes : c.origin \in Jar}})

(* The bucket holds exactly these classes of the origin, each listed once. *)
SameAs(classes, o, batch) ==
    /\ From(classes, o) = Listed(batch)
    /\ \A i, j \in DOMAIN batch : batch[i] = batch[j] => i = j

Init == contents = {} /\ pending = <<>>

Add(batch) ==
    /\ pending = <<>>
    /\ contents' = Overlay(contents, batch)
    /\ UNCHANGED pending

RemoveOrigin(o) ==
    /\ pending = <<>>
    /\ contents' = contents \ From(contents, o)
    /\ UNCHANGED pending

BeginUpdate(o, batch) ==
    LET filtered == Trusted(contents, batch) IN
    /\ pending = <<>>
    /\ Listed(batch) = From(Listed(batch), o)
    /\ filtered # <<>>
    /\ ~SameAs(contents, o, filtered)
    /\ contents' = contents \ From(contents, o)
    /\ pending' = filtered

FinishUpdate ==
    /\ pending # <<>>
    /\ contents' = Overlay(contents, pending)
    /\ pending' = <<>>

Next ==
    \/ \E batch \in Batch : Add(batch)
    \/ \E o \in Origin : RemoveOrigin(o)
    \/ \E o \in Origin, batch \in Batch : BeginUpdate(o, batch)
    \/ FinishUpdate

Spec == Init /\ [][Next]_vars
=============================================================================
