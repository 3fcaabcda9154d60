------------------------- MODULE BucketIndexProofs --------------------------
(***************************************************************************)
(* Proofs about BucketIndex: the slab, the free list and the maps of a     *)
(* bucket agree in every reachable state, and the bucket implements the    *)
(* plain set of classes of BucketContents.                                 *)
(*                                                                         *)
(* The operations of the bucket are functions of its locked state, so the  *)
(* argument is about such states: Sound(s, ids) says that state s agrees   *)
(* with itself when the slots `ids' have left the map by origin and wait   *)
(* to be detached.  Each operation keeps it; the actions follow.           *)
(***************************************************************************)
EXTENDS BucketIndex, TLAPS, FiniteSetTheorems, SequenceTheorems, WellFoundedInduction

-----------------------------------------------------------------------------
(* Maps from keys to ids.                                                   *)

(* The map lists exactly the slots of `live', each under its key, and has   *)
(* no entry without slots.                                                  *)
Exact(index, key, live) ==
    /\ \A i \in live : key[i] # None => key[i] \in DOMAIN index /\ i \in index[key[i]]
    /\ \A k \in DOMAIN index :
          /\ index[k] # {}
          /\ \A i \in index[k] : i \in live /\ key[i] = k

(* Filing the id of a slot that was not live under the key of its class     *)
(* keeps a map exact (insert_record_locked).                                *)
LEMMA FileExact ==
  ASSUME NEW index, NEW key, NEW live, NEW id, NEW k, NEW after,
         Exact(index, key, live), id \notin live,
         after[id] = k, \A i \in live : after[i] = key[i]
  PROVE  Exact(File(index, k, id), after, live \cup {id})
<1>1. CASE k = None
  BY <1>1 DEF Exact, File
<1>2. CASE k # None
  <2> DEFINE g == File(index, k, id)
  <2>1. /\ DOMAIN g = DOMAIN index \cup {k}
        /\ \A x \in DOMAIN index : x # k => g[x] = index[x]
        /\ k \in DOMAIN index => g[k] = index[k] \cup {id}
        /\ k \notin DOMAIN index => g[k] = {id}
    BY <1>2 DEF File
  <2> HIDE DEF g
  <2>2. ASSUME NEW i \in live \cup {id}, after[i] # None
        PROVE  after[i] \in DOMAIN g /\ i \in g[after[i]]
    BY <2>1, <2>2 DEF Exact
  <2>3. ASSUME NEW x \in DOMAIN g
        PROVE  g[x] # {} /\ \A i \in g[x] : i \in live \cup {id} /\ after[i] = x
    BY <2>1, <2>3 DEF Exact
  <2> QED
    BY <2>2, <2>3 DEF Exact, g
<1> QED
  BY <1>1, <1>2

(* Trimming the id of a live slot from the entry of its key leaves the map  *)
(* exact for the other slots; an entry it empties is gone                   *)
(* (trim_id_index_locked).                                                  *)
LEMMA TrimExact ==
  ASSUME NEW index, NEW key, NEW live, NEW id \in live, NEW after,
         Exact(index, key, live), \A i \in live \ {id} : after[i] = key[i]
  PROVE  Exact(TrimIdIndex(index, key[id], id), after, live \ {id})
<1> DEFINE k == key[id]
           g == TrimIdIndex(index, k, id)
<1>1. CASE k \notin DOMAIN index
  BY <1>1 DEF Exact, TrimIdIndex
<1>2. CASE k \in DOMAIN index
  <2>1. /\ \A x \in DOMAIN index : x # k => x \in DOMAIN g /\ g[x] = index[x]
        /\ \A x \in DOMAIN g : x \in DOMAIN index
        /\ index[k] \subseteq {id} => k \notin DOMAIN g
        /\ ~(index[k] \subseteq {id}) => k \in DOMAIN g /\ g[k] = index[k] \ {id}
    BY <1>2 DEF TrimIdIndex, Restrict
  <2> HIDE DEF g
  <2>2. ASSUME NEW i \in live \ {id}, after[i] # None
        PROVE  after[i] \in DOMAIN g /\ i \in g[after[i]]
    BY <2>1, <2>2, <1>2 DEF Exact
  <2>3. ASSUME NEW x \in DOMAIN g
        PROVE  g[x] # {} /\ \A i \in g[x] : i \in live \ {id} /\ after[i] = x
    BY <2>1, <2>3, <1>2 DEF Exact
  <2> QED
    BY <2>2, <2>3 DEF Exact, g
<1> QED
  BY <1>1, <1>2

-----------------------------------------------------------------------------
(* States of the bucket that agree with themselves.                         *)

Shaped(s) ==
    /\ s = BucketState(s.classes, s.free_class_ids, s.by_internal, s.by_origin,
                       s.simple_name_index, s.package_index, s.owner_index, s.ranges)
    /\ s.classes \in Seq(Class \cup {Vacant})
    /\ s.free_class_ids \in Seq(DOMAIN s.classes)

FreeOnce(s) ==
    /\ \A i \in DOMAIN s.classes :
          s.classes[i] = Vacant
            <=> \E k \in DOMAIN s.free_class_ids : s.free_class_ids[k] = i
    /\ \A j, k \in DOMAIN s.free_class_ids :
          s.free_class_ids[j] = s.free_class_ids[k] => j = k

NamedOnce(s) ==
    /\ \A i \in Live(s) :
          /\ s.classes[i].internal_name \in DOMAIN s.by_internal
          /\ s.by_internal[s.classes[i].internal_name] = i
    /\ \A n \in DOMAIN s.by_internal :
          /\ s.by_internal[n] \in Live(s)
          /\ s.classes[s.by_internal[n]].internal_name = n

SimpleNames(s) == [i \in Live(s) |-> s.classes[i].name]
Packages(s) == [i \in Live(s) |-> s.classes[i].package]
Owners(s) == [i \in Live(s) |-> s.classes[i].inner_class_of]
Origins(s) == [i \in Live(s) |-> s.classes[i].origin]

Filed(s) ==
    /\ Exact(s.simple_name_index, SimpleNames(s), Live(s))
    /\ Exact(s.package_index, Packages(s), Live(s))
    /\ Exact(s.owner_index, Owners(s), Live(s))

FiledByOrigin(s, ids) ==
    /\ ids \subseteq Live(s)
    /\ Exact(s.by_origin, Origins(s), Live(s) \ ids)

(* Unlike RangesMatchClasses this says that the class of a place is looked  *)
(* up successfully, and that the keys are pairs.                            *)
Placed(s) ==
    \A k \in DOMAIN s.ranges :
        /\ k = <<k[1], k[2]>>
        /\ k[1] \in DOMAIN s.by_internal
        /\ s.ranges[k] = s.classes[s.by_internal[k[1]]]
        /\ k[2] \in MembersOf(s.ranges[k])

Sound(s, ids) ==
    Shaped(s) /\ FreeOnce(s) /\ NamedOnce(s) /\ Filed(s) /\ FiledByOrigin(s, ids) /\ Placed(s)

(* The classes readers find once the slots `ids' are detached.              *)
Kept(s, ids) == {s.classes[i] : i \in Live(s) \ ids}

-----------------------------------------------------------------------------
(* Operations on states.                                                    *)

(* What detach_class_locked changes in a state that agrees with itself: one *)
(* slot is emptied, its class is no longer found by name, and no other slot *)
(* or name is touched.                                                      *)
LEMMA DetachEffect ==
  ASSUME NEW s, NEW id \in Live(s), Shaped(s), NamedOnce(s)
  PROVE  LET t == DetachClass(s, id)
             c == s.classes[id]
         IN  /\ Shaped(t)
             /\ Live(t) = Live(s) \ {id}
             /\ DOMAIN t.classes = DOMAIN s.classes
             /\ t.classes[id] = Vacant
             /\ \A i \in DOMAIN s.classes : i # id => t.classes[i] = s.classes[i]
             /\ t.free_class_ids = Append(s.free_class_ids, id)
             /\ t.by_origin = s.by_origin
             /\ t.simple_name_index = TrimIdIndex(s.simple_name_index, c.name, id)
             /\ t.package_index = TrimIdIndex(s.package_index, c.package, id)
             /\ t.owner_index = TrimIdIndex(s.owner_index, c.inner_class_of, id)
             /\ t.ranges = RemoveDeclarations(s.ranges, c)
             /\ DOMAIN t.by_internal = DOMAIN s.by_internal \ {c.internal_name}
             /\ \A n \in DOMAIN t.by_internal : t.by_internal[n] = s.by_internal[n]
<1> DEFINE t == DetachClass(s, id)
           c == s.classes[id]
<1>1. id \in DOMAIN s.classes /\ c # Vacant
  BY DEF Live
<1>2. s.by_internal[c.internal_name] = id /\ c.internal_name \in DOMAIN s.by_internal
  BY DEF NamedOnce
<1>3. t = BucketState([s.classes EXCEPT ![id] = Vacant],
                      Append(s.free_class_ids, id),
                      Restrict(s.by_internal, DOMAIN s.by_internal \ {c.internal_name}),
                      s.by_origin,
                      TrimIdIndex(s.simple_name_index, c.name, id),
                      TrimIdIndex(s.package_index, c.package, id),
                      TrimIdIndex(s.owner_index, c.inner_class_of, id),
                      RemoveDeclarations(s.ranges, c))
  BY <1>1, <1>2 DEF DetachClass
<1> HIDE DEF t
<1>4. /\ t.classes = [s.classes EXCEPT ![id] = Vacant]
      /\ t.free_class_ids = Append(s.free_class_ids, id)
      /\ t.by_internal = Restrict(s.by_internal, DOMAIN s.by_internal \ {c.internal_name})
      /\ t.by_origin = s.by_origin
      /\ t.simple_name_index = TrimIdIndex(s.simple_name_index, c.name, id)
      /\ t.package_index = TrimIdIndex(s.package_index, c.package, id)
      /\ t.owner_index = TrimIdIndex(s.owner_index, c.inner_class_of, id)
      /\ t.ranges = RemoveDeclarations(s.ranges, c)
  BY <1>3 DEF BucketState
<1>5. /\ DOMAIN t.classes = DOMAIN s.classes
      /\ t.classes[id] = Vacant
      /\ \A i \in DOMAIN s.classes : i # id => t.classes[i] = s.classes[i]
      /\ t.classes \in Seq(Class \cup {Vacant})
  BY <1>1, <1>4 DEF Shaped
<1>6. t.free_class_ids \in Seq(DOMAIN t.classes)
  BY <1>1, <1>4, <1>5 DEF Shaped
<1>7. Live(t) = Live(s) \ {id}
  BY <1>1, <1>5 DEF Live
<1>8. /\ DOMAIN t.by_internal = DOMAIN s.by_internal \ {c.internal_name}
      /\ \A n \in DOMAIN t.by_internal : t.by_internal[n] = s.by_internal[n]
  BY <1>4 DEF Restrict
<1>9. t = BucketState(t.classes, t.free_class_ids, t.by_internal, t.by_origin,
                      t.simple_name_index, t.package_index, t.owner_index, t.ranges)
  BY <1>3, <1>4
<1> QED
  BY <1>4, <1>5, <1>6, <1>7, <1>8, <1>9 DEF Shaped, t

(* Detaching a slot keeps everything but the map by origin in agreement.    *)
LEMMA DetachKeeps ==
  ASSUME NEW s, NEW ids, NEW id \in Live(s), Sound(s, ids)
  PROVE  LET t == DetachClass(s, id)
         IN  Shaped(t) /\ FreeOnce(t) /\ NamedOnce(t) /\ Filed(t) /\ Placed(t)
<1> DEFINE t == DetachClass(s, id)
           c == s.classes[id]
<1> HIDE DEF t
<1>0. Shaped(s) /\ FreeOnce(s) /\ NamedOnce(s) /\ Filed(s) /\ Placed(s)
  BY DEF Sound
<1>1. id \in DOMAIN s.classes /\ c # Vacant
  BY DEF Live
<1>2. /\ Shaped(t)
      /\ Live(t) = Live(s) \ {id}
      /\ DOMAIN t.classes = DOMAIN s.classes
      /\ t.classes[id] = Vacant
      /\ \A i \in DOMAIN s.classes : i # id => t.classes[i] = s.classes[i]
      /\ t.free_class_ids = Append(s.free_class_ids, id)
      /\ t.by_origin = s.by_origin
      /\ t.simple_name_index = TrimIdIndex(s.simple_name_index, c.name, id)
      /\ t.package_index = TrimIdIndex(s.package_index, c.package, id)
      /\ t.owner_index = TrimIdIndex(s.owner_index, c.inner_class_of, id)
      /\ t.ranges = RemoveDeclarations(s.ranges, c)
      /\ DOMAIN t.by_internal = DOMAIN s.by_internal \ {c.internal_name}
      /\ \A n \in DOMAIN t.by_internal : t.by_internal[n] = s.by_internal[n]
  BY <1>0, DetachEffect DEF t
<1>3. FreeOnce(t)
  <2> DEFINE free == s.free_class_ids
  <2>1. free \in Seq(DOMAIN s.classes) /\ \A k \in DOMAIN free : free[k] # id
    BY <1>0, <1>1 DEF Shaped, FreeOnce
  <2>2. /\ DOMAIN t.free_class_ids = DOMAIN free \cup {Len(free) + 1}
        /\ Len(free) + 1 \notin DOMAIN free
        /\ t.free_class_ids[Len(free) + 1] = id
        /\ \A k \in DOMAIN free : t.free_class_ids[k] = free[k]
    BY <1>2, <2>1, <1>1
  <2> HIDE DEF free
  <2>3. ASSUME NEW i \in DOMAIN t.classes
        PROVE  t.classes[i] = Vacant
                 <=> \E k \in DOMAIN t.free_class_ids : t.free_class_ids[k] = i
    BY <1>0, <1>2, <2>1, <2>2, <2>3 DEF FreeOnce, free
  <2>4. ASSUME NEW j \in DOMAIN t.free_class_ids, NEW k \in DOMAIN t.free_class_ids,
               t.free_class_ids[j] = t.free_class_ids[k]
        PROVE  j = k
    BY <1>0, <2>1, <2>2, <2>4 DEF FreeOnce, free
  <2> QED
    BY <2>3, <2>4 DEF FreeOnce
<1>4. NamedOnce(t)
  <2>1. ASSUME NEW i \in Live(t)
        PROVE  /\ t.classes[i].internal_name \in DOMAIN t.by_internal
               /\ t.by_internal[t.classes[i].internal_name] = i
    BY <1>0, <1>2, <2>1 DEF NamedOnce, Live
  <2>2. ASSUME NEW n \in DOMAIN t.by_internal
        PROVE  /\ t.by_internal[n] \in Live(t)
               /\ t.classes[t.by_internal[n]].internal_name = n
    BY <1>0, <1>2, <2>2 DEF NamedOnce, Live
  <2> QED
    BY <2>1, <2>2 DEF NamedOnce
<1>5. Filed(t)
  <2>1. \A i \in Live(s) \ {id} : t.classes[i] = s.classes[i]
    BY <1>2 DEF Live
  <2>2. Exact(t.simple_name_index, SimpleNames(t), Live(t))
    <3>1. \A i \in Live(s) \ {id} : SimpleNames(t)[i] = SimpleNames(s)[i]
      BY <1>2, <2>1 DEF SimpleNames
    <3>2. SimpleNames(s)[id] = c.name
      BY DEF SimpleNames
    <3>3. Exact(s.simple_name_index, SimpleNames(s), Live(s))
      BY <1>0 DEF Filed
    <3>4. Exact(TrimIdIndex(s.simple_name_index, SimpleNames(s)[id], id), SimpleNames(t), Live(s) \ {id})
      BY <3>1, <3>3, TrimExact
    <3> QED
      BY <1>2, <3>2, <3>4
  <2>3. Exact(t.package_index, Packages(t), Live(t))
    <3>1. \A i \in Live(s) \ {id} : Packages(t)[i] = Packages(s)[i]
      BY <1>2, <2>1 DEF Packages
    <3>2. Packages(s)[id] = c.package
      BY DEF Packages
    <3>3. Exact(s.package_index, Packages(s), Live(s))
      BY <1>0 DEF Filed
    <3>4. Exact(TrimIdIndex(s.package_index, Packages(s)[id], id), Packages(t), Live(s) \ {id})
      BY <3>1, <3>3, TrimExact
    <3> QED
      BY <1>2, <3>2, <3>4
  <2>4. Exact(t.owner_index, Owners(t), Live(t))
    <3>1. \A i \in Live(s) \ {id} : Owners(t)[i] = Owners(s)[i]
      BY <1>2, <2>1 DEF Owners
    <3>2. Owners(s)[id] = c.inner_class_of
      BY DEF Owners
    <3>3. Exact(s.owner_index, Owners(s), Live(s))
      BY <1>0 DEF Filed
    <3>4. Exact(TrimIdIndex(s.owner_index, Owners(s)[id], id), Owners(t), Live(s) \ {id})
      BY <3>1, <3>3, TrimExact
    <3> QED
      BY <1>2, <3>2, <3>4
  <2> QED
    BY <2>2, <2>3, <2>4 DEF Filed
<1>6. Placed(t)
  <2> SUFFICES ASSUME NEW k \in DOMAIN t.ranges
               PROVE  /\ k = <<k[1], k[2]>>
                      /\ k[1] \in DOMAIN t.by_internal
                      /\ t.ranges[k] = t.classes[t.by_internal[k[1]]]
                      /\ k[2] \in MembersOf(t.ranges[k])
    BY DEF Placed
  <2>1. /\ k \in DOMAIN s.ranges
        /\ k \notin {c.internal_name} \X MembersOf(c)
        /\ t.ranges[k] = s.ranges[k]
    BY <1>2 DEF RemoveDeclarations, Restrict
  <2>2. /\ k = <<k[1], k[2]>>
        /\ k[1] \in DOMAIN s.by_internal
        /\ s.ranges[k] = s.classes[s.by_internal[k[1]]]
        /\ k[2] \in MembersOf(s.ranges[k])
    BY <1>0, <2>1 DEF Placed
  <2>3. k[1] # c.internal_name
    <3> SUFFICES ASSUME k[1] = c.internal_name PROVE FALSE
      OBVIOUS
    <3>1. s.ranges[k] = c
      BY <1>0, <2>2 DEF NamedOnce
    <3> QED
      BY <2>1, <2>2, <3>1
  <2>4. s.by_internal[k[1]] \in Live(s) /\ s.by_internal[k[1]] # id
    BY <1>0, <2>2, <2>3 DEF NamedOnce
  <2> QED
    BY <1>2, <2>1, <2>2, <2>3, <2>4 DEF Live
<1> QED
  BY <1>2, <1>3, <1>4, <1>5, <1>6 DEF t

(* A slot that waits to be detached can be: the state stays sound, and what *)
(* readers will find does not change (remove_by_origin).                    *)
LEMMA DetachSound ==
  ASSUME NEW s, NEW ids, NEW id \in ids, Sound(s, ids)
  PROVE  /\ Sound(DetachClass(s, id), ids \ {id})
         /\ Kept(DetachClass(s, id), ids \ {id}) = Kept(s, ids)
<1> DEFINE t == DetachClass(s, id)
<1> HIDE DEF t
<1>1. id \in Live(s)
  BY DEF Sound, FiledByOrigin
<1>2. /\ Live(t) = Live(s) \ {id}
      /\ \A i \in DOMAIN s.classes : i # id => t.classes[i] = s.classes[i]
      /\ t.by_origin = s.by_origin
  BY <1>1, DetachEffect DEF Sound, t
<1>3. Live(t) \ (ids \ {id}) = Live(s) \ ids
  BY <1>1, <1>2
<1>4. FiledByOrigin(t, ids \ {id})
  <2>1. Exact(s.by_origin, Origins(s), Live(s) \ ids)
    BY DEF Sound, FiledByOrigin
  <2>2. \A i \in Live(s) \ ids : Origins(t)[i] = Origins(s)[i]
    BY <1>2 DEF Origins, Live
  <2>3. Exact(t.by_origin, Origins(t), Live(s) \ ids)
    BY <1>2, <2>1, <2>2 DEF Exact
  <2>4. ids \ {id} \subseteq Live(t)
    BY <1>2 DEF Sound, FiledByOrigin
  <2> QED
    BY <1>3, <2>3, <2>4 DEF FiledByOrigin
<1>5. Sound(t, ids \ {id})
  BY <1>1, <1>4, DetachKeeps DEF Sound, t
<1>6. Kept(t, ids \ {id}) = Kept(s, ids)
  <2>1. \A i \in Live(s) \ ids : t.classes[i] = s.classes[i]
    BY <1>2 DEF Live
  <2> QED
    BY <1>3, <2>1 DEF Kept
<1> QED
  BY <1>5, <1>6 DEF t

(* Removing a class that no removal waits for takes it out of every map and *)
(* leaves the other classes (remove_class_by_id_locked).                    *)
LEMMA RemoveSound ==
  ASSUME NEW s, NEW ids, NEW id \in Live(s) \ ids, Sound(s, ids)
  PROVE  LET t == RemoveClassById(s, id)
             c == s.classes[id]
         IN  /\ Sound(t, ids)
             /\ c.internal_name \notin DOMAIN t.by_internal
             /\ Kept(t, ids) = {e \in Kept(s, ids) : e.internal_name # c.internal_name}
<1> DEFINE d == DetachClass(s, id)
           t == RemoveClassById(s, id)
           c == s.classes[id]
<1>1. c # Vacant
  BY DEF Live
<1>2. t = [d EXCEPT !.by_origin = TrimIdIndex(d.by_origin, c.origin, id)]
  BY <1>1 DEF RemoveClassById
<1> HIDE DEF t, d
<1>3. /\ Shaped(d)
      /\ Live(d) = Live(s) \ {id}
      /\ \A i \in DOMAIN s.classes : i # id => d.classes[i] = s.classes[i]
      /\ d.by_origin = s.by_origin
      /\ DOMAIN d.by_internal = DOMAIN s.by_internal \ {c.internal_name}
  BY DetachEffect DEF Sound, d
<1>4. FreeOnce(d) /\ NamedOnce(d) /\ Filed(d) /\ Placed(d)
  BY DetachKeeps DEF d
<1>5. t = BucketState(d.classes, d.free_class_ids, d.by_internal,
                      TrimIdIndex(s.by_origin, c.origin, id),
                      d.simple_name_index, d.package_index, d.owner_index, d.ranges)
  BY <1>2, <1>3 DEF Shaped, BucketState
<1>6. /\ t.classes = d.classes /\ t.free_class_ids = d.free_class_ids
      /\ t.by_internal = d.by_internal
      /\ t.by_origin = TrimIdIndex(s.by_origin, c.origin, id)
      /\ t.simple_name_index = d.simple_name_index /\ t.package_index = d.package_index
      /\ t.owner_index = d.owner_index /\ t.ranges = d.ranges
  BY <1>5 DEF BucketState
<1>7. Live(t) = Live(d)
  BY <1>6 DEF Live
<1>8. Shaped(t)
  BY <1>3, <1>5, <1>6 DEF Shaped
<1>9. FreeOnce(t) /\ NamedOnce(t) /\ Placed(t)
  BY <1>4, <1>6, <1>7 DEF FreeOnce, NamedOnce, Placed
<1>10. Filed(t)
  BY <1>4, <1>6, <1>7 DEF Filed, SimpleNames, Packages, Owners
<1>11. FiledByOrigin(t, ids)
  <2>1. Exact(s.by_origin, Origins(s), Live(s) \ ids) /\ ids \subseteq Live(s)
    BY DEF Sound, FiledByOrigin
  <2>2. \A i \in (Live(s) \ ids) \ {id} : Origins(t)[i] = Origins(s)[i]
    BY <1>3, <1>6, <1>7 DEF Origins, Live
  <2>3. Exact(TrimIdIndex(s.by_origin, Origins(s)[id], id), Origins(t), (Live(s) \ ids) \ {id})
    BY <2>1, <2>2, TrimExact
  <2>4. Origins(s)[id] = c.origin
    BY DEF Origins
  <2>5. (Live(s) \ ids) \ {id} = Live(t) \ ids
    BY <1>3, <1>7
  <2> QED
    BY <1>3, <1>6, <1>7, <2>1, <2>3, <2>4, <2>5 DEF FiledByOrigin
<1>12. Kept(t, ids) = {e \in Kept(s, ids) : e.internal_name # c.internal_name}
  <2>1. \A i \in Live(s) : s.classes[i].internal_name = c.internal_name <=> i = id
    BY DEF Sound, NamedOnce
  <2>2. \A i \in Live(s) : i # id => t.classes[i] = s.classes[i]
    BY <1>3, <1>6 DEF Live
  <2> QED
    BY <1>3, <1>7, <2>1, <2>2 DEF Kept
<1> QED
  BY <1>3, <1>6, <1>8, <1>9, <1>10, <1>11, <1>12 DEF Sound, t

(* A list without its last member, as pop leaves it.                       *)
LEMMA PopSeq ==
  ASSUME NEW S, NEW q \in Seq(S), q # <<>>
  PROVE  SubSeq(q, 1, Len(q) - 1) \in Seq(S)
OBVIOUS

(* The slot a new class gets holds no class: it is the last of the free     *)
(* list or one past the slab.  Filling it changes no other slot.            *)
LEMMA SlotTaken ==
  ASSUME NEW s, NEW c \in Class, NEW declared, Shaped(s), FreeOnce(s)
  PROVE  LET t == InsertRecordOver(s, c, declared)
             id == NextId(s)
         IN  /\ Shaped(t) /\ FreeOnce(t)
             /\ id \notin Live(s)
             /\ Live(t) = Live(s) \cup {id}
             /\ t.classes[id] = c
             /\ \A i \in Live(s) : t.classes[i] = s.classes[i]
<1> DEFINE t == InsertRecordOver(s, c, declared)
           id == NextId(s)
           free == s.free_class_ids
<1>1. /\ t.classes = IF free # <<>> THEN [s.classes EXCEPT ![id] = c] ELSE Append(s.classes, c)
      /\ t.free_class_ids = PopFree(s)
      /\ t = BucketState(t.classes, t.free_class_ids, t.by_internal, t.by_origin,
                         t.simple_name_index, t.package_index, t.owner_index, t.ranges)
  BY DEF InsertRecordOver, BucketState
<1>2. /\ s.classes \in Seq(Class \cup {Vacant}) /\ free \in Seq(DOMAIN s.classes)
      /\ c # Vacant /\ c \in Class \cup {Vacant}
  BY ClassAssumption DEF Shaped
<1> HIDE DEF t, free
<1>3. CASE free # <<>>
  <2>1. /\ Len(free) \in Nat \ {0} /\ id = free[Len(free)] /\ id \in DOMAIN s.classes
        /\ DOMAIN free = 1..Len(free)
    BY <1>2, <1>3 DEF NextId, free
  <2>2. s.classes[id] = Vacant
    BY <2>1 DEF FreeOnce, free
  <2>3. /\ t.classes \in Seq(Class \cup {Vacant})
        /\ DOMAIN t.classes = DOMAIN s.classes
        /\ t.classes[id] = c
        /\ \A i \in DOMAIN s.classes : i # id => t.classes[i] = s.classes[i]
    BY <1>1, <1>2, <1>3, <2>1
  <2>4. t.free_class_ids = SubSeq(free, 1, Len(free) - 1)
    BY <1>1, <1>3 DEF PopFree, free
  <2>5. /\ t.free_class_ids \in Seq(DOMAIN s.classes)
        /\ DOMAIN t.free_class_ids = 1..(Len(free) - 1)
        /\ \A k \in 1..(Len(free) - 1) : t.free_class_ids[k] = free[k]
    <3>1. SubSeq(free, 1, Len(free) - 1) = [k \in 1..(Len(free) - 1) |-> free[k]]
      BY <1>2, <2>1, SubSeqRestrict DEF Restrict
    <3>2. SubSeq(free, 1, Len(free) - 1) \in Seq(DOMAIN s.classes)
      BY <1>2, <1>3, PopSeq
    <3> QED
      BY <2>4, <3>1, <3>2
  <2>6. FreeOnce(t)
    <3>1. \A k \in 1..(Len(free) - 1) : k \in DOMAIN free /\ k # Len(free) /\ free[k] # id
      BY <2>1 DEF FreeOnce, free
    <3>2. \A k \in DOMAIN free : k # Len(free) => k \in 1..(Len(free) - 1)
      BY <2>1
    <3>3. ASSUME NEW i \in DOMAIN t.classes
          PROVE  t.classes[i] = Vacant
                   <=> \E k \in DOMAIN t.free_class_ids : t.free_class_ids[k] = i
      <4>1. CASE i = id
        BY <1>2, <2>3, <2>5, <3>1, <4>1
      <4>2. CASE i # id
        <5>1. t.classes[i] = s.classes[i] /\ i \in DOMAIN s.classes
          BY <2>3, <4>2
        <5>2. s.classes[i] = Vacant <=> \E k \in DOMAIN free : free[k] = i
          BY <5>1 DEF FreeOnce, free
        <5>3. (\E k \in DOMAIN free : free[k] = i)
                <=> \E k \in 1..(Len(free) - 1) : free[k] = i
          BY <2>1, <3>1, <3>2, <4>2
        <5> QED
          BY <2>5, <5>1, <5>2, <5>3
      <4> QED
        BY <4>1, <4>2
    <3>4. ASSUME NEW j \in DOMAIN t.free_class_ids, NEW k \in DOMAIN t.free_class_ids,
                 t.free_class_ids[j] = t.free_class_ids[k]
          PROVE  j = k
      BY <2>5, <3>1, <3>4 DEF FreeOnce, free
    <3> QED
      BY <3>3, <3>4 DEF FreeOnce
  <2>7. Live(t) = Live(s) \cup {id} /\ id \notin Live(s)
    BY <1>2, <2>1, <2>2, <2>3 DEF Live
  <2> QED
    BY <1>1, <2>3, <2>5, <2>6, <2>7 DEF Shaped, t, Live
<1>4. CASE free = <<>>
  <2>1. id = Len(s.classes) + 1 /\ id \notin DOMAIN s.classes
    BY <1>2, <1>4 DEF NextId, free
  <2>2. t.free_class_ids = <<>>
    BY <1>1, <1>4 DEF PopFree, free
  <2>3. /\ t.classes \in Seq(Class \cup {Vacant})
        /\ DOMAIN t.classes = DOMAIN s.classes \cup {id}
        /\ t.classes[id] = c
        /\ \A i \in DOMAIN s.classes : t.classes[i] = s.classes[i]
    BY <1>1, <1>2, <1>4, <2>1
  <2>4. \A i \in DOMAIN s.classes : s.classes[i] # Vacant
    BY <1>4 DEF FreeOnce, free
  <2>5. FreeOnce(t)
    BY <1>2, <2>2, <2>3, <2>4 DEF FreeOnce
  <2>6. Live(t) = Live(s) \cup {id} /\ id \notin Live(s)
    BY <1>2, <2>1, <2>3 DEF Live
  <2> QED
    BY <1>1, <2>2, <2>3, <2>5, <2>6 DEF Shaped, t, Live
<1> QED
  BY <1>3, <1>4

(* A class whose name is not in the bucket is added to it, in a slot of its *)
(* own and under each of its keys; nothing else changes.                    *)
LEMMA InsertOverSound ==
  ASSUME NEW s, NEW ids, NEW c \in Class, NEW declared \in BOOLEAN,
         Sound(s, ids), c.internal_name \notin DOMAIN s.by_internal
  PROVE  LET t == InsertRecordOver(s, c, declared)
         IN  Sound(t, ids) /\ Kept(t, ids) = Kept(s, ids) \cup {c}
<1> DEFINE t == InsertRecordOver(s, c, declared)
           id == NextId(s)
           n == c.internal_name
<1>0. /\ Shaped(s) /\ FreeOnce(s) /\ NamedOnce(s) /\ Filed(s) /\ FiledByOrigin(s, ids)
      /\ Placed(s)
  BY DEF Sound
<1>1. /\ t.by_internal = [m \in DOMAIN s.by_internal \cup {n} |->
                            IF m = n THEN id ELSE s.by_internal[m]]
      /\ t.by_origin = File(s.by_origin, c.origin, id)
      /\ t.simple_name_index = File(s.simple_name_index, c.name, id)
      /\ t.package_index = File(s.package_index, c.package, id)
      /\ t.owner_index = File(s.owner_index, c.inner_class_of, id)
      /\ t.ranges = InsertDeclarations(s.ranges, c, declared)
  BY DEF InsertRecordOver, BucketState
<1> HIDE DEF t, id
<1>2. /\ Shaped(t) /\ FreeOnce(t)
      /\ id \notin Live(s)
      /\ Live(t) = Live(s) \cup {id}
      /\ t.classes[id] = c
      /\ \A i \in Live(s) : t.classes[i] = s.classes[i]
  BY <1>0, SlotTaken DEF t, id
<1>3. /\ t.by_origin = File(s.by_origin, c.origin, id)
      /\ t.simple_name_index = File(s.simple_name_index, c.name, id)
      /\ t.package_index = File(s.package_index, c.package, id)
      /\ t.owner_index = File(s.owner_index, c.inner_class_of, id)
  BY <1>1
<1>4. /\ DOMAIN t.by_internal = DOMAIN s.by_internal \cup {n}
      /\ t.by_internal[n] = id
      /\ \A m \in DOMAIN s.by_internal : t.by_internal[m] = s.by_internal[m]
  BY <1>1
<1>5. NamedOnce(t)
  <2>1. ASSUME NEW i \in Live(t)
        PROVE  /\ t.classes[i].internal_name \in DOMAIN t.by_internal
               /\ t.by_internal[t.classes[i].internal_name] = i
    BY <1>0, <1>2, <1>4, <2>1 DEF NamedOnce
  <2>2. ASSUME NEW m \in DOMAIN t.by_internal
        PROVE  /\ t.by_internal[m] \in Live(t)
               /\ t.classes[t.by_internal[m]].internal_name = m
    BY <1>0, <1>2, <1>4, <2>2 DEF NamedOnce
  <2> QED
    BY <2>1, <2>2 DEF NamedOnce
<1>6. Filed(t)
  <2>1. Exact(t.simple_name_index, SimpleNames(t), Live(t))
    <3>1. SimpleNames(t)[id] = c.name /\ \A i \in Live(s) : SimpleNames(t)[i] = SimpleNames(s)[i]
      BY <1>2 DEF SimpleNames
    <3>2. Exact(s.simple_name_index, SimpleNames(s), Live(s))
      BY <1>0 DEF Filed
    <3>3. Exact(File(s.simple_name_index, c.name, id), SimpleNames(t), Live(s) \cup {id})
      BY <1>2, <3>1, <3>2, FileExact
    <3> QED
      BY <1>2, <1>3, <3>3
  <2>2. Exact(t.package_index, Packages(t), Live(t))
    <3>1. Packages(t)[id] = c.package /\ \A i \in Live(s) : Packages(t)[i] = Packages(s)[i]
      BY <1>2 DEF Packages
    <3>2. Exact(s.package_index, Packages(s), Live(s))
      BY <1>0 DEF Filed
    <3>3. Exact(File(s.package_index, c.package, id), Packages(t), Live(s) \cup {id})
      BY <1>2, <3>1, <3>2, FileExact
    <3> QED
      BY <1>2, <1>3, <3>3
  <2>3. Exact(t.owner_index, Owners(t), Live(t))
    <3>1. Owners(t)[id] = c.inner_class_of /\ \A i \in Live(s) : Owners(t)[i] = Owners(s)[i]
      BY <1>2 DEF Owners
    <3>2. Exact(s.owner_index, Owners(s), Live(s))
      BY <1>0 DEF Filed
    <3>3. Exact(File(s.owner_index, c.inner_class_of, id), Owners(t), Live(s) \cup {id})
      BY <1>2, <3>1, <3>2, FileExact
    <3> QED
      BY <1>2, <1>3, <3>3
  <2> QED
    BY <2>1, <2>2, <2>3 DEF Filed
<1>7. FiledByOrigin(t, ids)
  <2>1. Exact(s.by_origin, Origins(s), Live(s) \ ids) /\ ids \subseteq Live(s)
    BY <1>0 DEF FiledByOrigin
  <2>2. Origins(t)[id] = c.origin /\ \A i \in Live(s) \ ids : Origins(t)[i] = Origins(s)[i]
    BY <1>2 DEF Origins
  <2>3. Exact(File(s.by_origin, c.origin, id), Origins(t), (Live(s) \ ids) \cup {id})
    BY <1>2, <2>1, <2>2, FileExact
  <2>4. (Live(s) \ ids) \cup {id} = Live(t) \ ids
    BY <1>2, <2>1
  <2> QED
    BY <1>2, <1>3, <2>1, <2>3, <2>4 DEF FiledByOrigin
<1>8. Placed(t)
  <2> SUFFICES ASSUME NEW k \in DOMAIN t.ranges
               PROVE  /\ k = <<k[1], k[2]>>
                      /\ k[1] \in DOMAIN t.by_internal
                      /\ t.ranges[k] = t.classes[t.by_internal[k[1]]]
                      /\ k[2] \in MembersOf(t.ranges[k])
    BY DEF Placed
  <2>1. \/ k \in {n} \X MembersOf(c) /\ t.ranges[k] = c
        \/ k \in DOMAIN s.ranges /\ t.ranges[k] = s.ranges[k]
    BY <1>1 DEF InsertDeclarations
  <2>2. CASE k \in {n} \X MembersOf(c) /\ t.ranges[k] = c
    <3>1. k = <<k[1], k[2]>> /\ k[1] = n /\ k[2] \in MembersOf(c)
      BY <2>2
    <3> QED
      BY <1>2, <1>4, <2>2, <3>1
  <2>3. CASE k \in DOMAIN s.ranges /\ t.ranges[k] = s.ranges[k]
    <3>1. /\ k = <<k[1], k[2]>>
          /\ k[1] \in DOMAIN s.by_internal
          /\ s.ranges[k] = s.classes[s.by_internal[k[1]]]
          /\ k[2] \in MembersOf(s.ranges[k])
      BY <1>0, <2>3 DEF Placed
    <3>2. s.by_internal[k[1]] \in Live(s)
      BY <1>0, <3>1 DEF NamedOnce
    <3> QED
      BY <1>2, <1>4, <2>3, <3>1, <3>2
  <2> QED
    BY <2>1, <2>2, <2>3
<1>9. Kept(t, ids) = Kept(s, ids) \cup {c}
  <2>1. id \notin ids
    BY <1>0, <1>2 DEF FiledByOrigin
  <2> QED
    BY <1>2, <2>1 DEF Kept
<1> QED
  BY <1>2, <1>5, <1>6, <1>7, <1>8, <1>9 DEF Sound, t

(* insert_record_locked: the class replaces the one of its name, if there   *)
(* is one, in a sound state of which nothing waits to be detached.          *)
LEMMA InsertSound ==
  ASSUME NEW s, NEW c \in Class, NEW declared \in BOOLEAN, Sound(s, {})
  PROVE  LET t == InsertRecord(s, c, declared)
         IN  /\ Sound(t, {})
             /\ Kept(t, {}) = {e \in Kept(s, {}) : e.internal_name # c.internal_name} \cup {c}
<1> DEFINE n == c.internal_name
<1>1. CASE n \in DOMAIN s.by_internal
  <2> DEFINE id == s.by_internal[n]
             d == RemoveClassById(s, id)
  <2>1. id \in Live(s) \ {} /\ s.classes[id].internal_name = n
    BY <1>1 DEF Sound, NamedOnce
  <2> HIDE DEF id, d
  <2>2. /\ Sound(d, {})
        /\ n \notin DOMAIN d.by_internal
        /\ Kept(d, {}) = {e \in Kept(s, {}) : e.internal_name # n}
    BY <2>1, RemoveSound DEF d
  <2>3. /\ Sound(InsertRecordOver(d, c, declared), {})
        /\ Kept(InsertRecordOver(d, c, declared), {}) = Kept(d, {}) \cup {c}
    BY <2>2, InsertOverSound
  <2>4. InsertRecord(s, c, declared) = InsertRecordOver(d, c, declared)
    BY <1>1 DEF InsertRecord, d, id
  <2> QED
    BY <2>2, <2>3, <2>4
<1>2. CASE n \notin DOMAIN s.by_internal
  <2>1. InsertRecord(s, c, declared) = InsertRecordOver(s, c, declared)
    BY <1>2 DEF InsertRecord
  <2>2. \A e \in Kept(s, {}) : e.internal_name # n
    BY <1>2 DEF Kept, Sound, NamedOnce
  <2>3. {e \in Kept(s, {}) : e.internal_name # n} = Kept(s, {})
    BY <2>2
  <2> QED
    BY <1>2, <2>1, <2>3, InsertOverSound
<1> QED
  BY <1>1, <1>2

-----------------------------------------------------------------------------
(* Class lists.                                                             *)

(* Induction, for a set of numbers: the form the provers can use.           *)
LEMMA Induction ==
  ASSUME NEW S \in SUBSET Nat, 0 \in S, \A n \in S : n + 1 \in S
  PROVE  S = Nat
<1> SUFFICES ASSUME S # Nat PROVE FALSE
  OBVIOUS
<1> DEFINE T == Nat \ S
<1>1. T \subseteq Nat /\ T # {}
  OBVIOUS
<1>2. \E x \in T : \A y \in T : ~(<<y, x>> \in OpToRel(<, Nat))
  BY <1>1, NatLessThanWellFounded, WFMin
<1>3. \E x \in T : \A y \in T : ~(y < x)
  BY <1>2 DEF OpToRel
<1>4. PICK x \in T : \A y \in T : ~(y < x)
  BY <1>3
<1>5. x \in Nat /\ x # 0
  OBVIOUS
<1>6. x - 1 \in Nat /\ x - 1 < x /\ x = (x - 1) + 1
  BY <1>5
<1>7. x - 1 \in S
  BY <1>4, <1>6
<1>8. (x - 1) + 1 \in S
  BY <1>7
<1> QED
  BY <1>6, <1>8

(* f[n] is what the filter of a list has kept after n of its classes.       *)
FilterLoop(f, batch, names, m) ==
    f = [n \in 0..m |-> IF n = 0 THEN <<>>
                        ELSE IF batch[n].internal_name \in names THEN f[n - 1]
                        ELSE Append(f[n - 1], batch[n])]

(* The loop that filters a list is well defined.                            *)
LEMMA WithoutLoop ==
  ASSUME NEW batch, NEW names, NEW m \in Nat
  PROVE  \E f : FilterLoop(f, batch, names, m)
<1> DEFINE Turn(n, before) == IF batch[n].internal_name \in names THEN before
                              ELSE Append(before, batch[n])
           Loop(f, k) == f = [n \in 0..k |-> IF n = 0 THEN <<>> ELSE Turn(n, f[n - 1])]
           S == {k \in Nat : \E f : Loop(f, k)}
<1> HIDE DEF Turn
<1>1. 0 \in S
  <2> DEFINE f0 == [n \in 0..0 |-> <<>>]
  <2>1. f0 = [n \in 0..0 |-> IF n = 0 THEN <<>> ELSE Turn(n, f0[n - 1])]
    OBVIOUS
  <2>2. Loop(f0, 0)
    BY <2>1
  <2> QED
    BY <2>2
<1>2. ASSUME NEW k \in S PROVE k + 1 \in S
  <2>1. PICK f : Loop(f, k)
    OBVIOUS
  <2> DEFINE g == [n \in 0..(k + 1) |-> IF n = k + 1 THEN Turn(k + 1, f[k]) ELSE f[n]]
  <2>2. ASSUME NEW n \in 0..(k + 1)
        PROVE  g[n] = IF n = 0 THEN <<>> ELSE Turn(n, g[n - 1])
    <3>1. CASE n = k + 1
      BY <2>2, <3>1
    <3>2. CASE n # k + 1
      <4>1. n \in 0..k /\ g[n] = f[n]
        BY <2>2, <3>2
      <4>2. n # 0 => n - 1 \in 0..k /\ g[n - 1] = f[n - 1]
        BY <4>1
      <4> QED
        BY <2>1, <4>1, <4>2
    <3> QED
      BY <3>1, <3>2
  <2>3. g = [n \in 0..(k + 1) |-> IF n = 0 THEN <<>> ELSE Turn(n, g[n - 1])]
    BY <2>2
  <2>4. Loop(g, k + 1)
    BY <2>3
  <2> HIDE DEF g, Loop
  <2>5. \E h : Loop(h, k + 1)
    BY <2>4
  <2>6. k + 1 \in Nat
    OBVIOUS
  <2> QED
    BY <2>5, <2>6
<1>3. S = Nat
  <2> HIDE DEF S
  <2>1. S \in SUBSET Nat
    BY DEF S
  <2> QED
    BY <1>1, <1>2, <2>1, Induction
<1>4. \E f : Loop(f, m)
  BY <1>3
<1> QED
  BY <1>4 DEF Turn, FilterLoop

(* A filtered class list is a class list.                                   *)
LEMMA WithoutType ==
  ASSUME NEW batch \in Seq(Class), NEW names
  PROVE  Without(batch, names) \in Seq(Class)
<1> DEFINE kept == CHOOSE f : FilterLoop(f, batch, names, Len(batch))
<1>1. Len(batch) \in Nat
  OBVIOUS
<1>2. FilterLoop(kept, batch, names, Len(batch))
  BY <1>1, WithoutLoop
<1>3. Without(batch, names) = kept[Len(batch)]
  BY DEF Without, FilterLoop
<1> HIDE DEF kept
<1> DEFINE S == {n \in Nat : n <= Len(batch) => kept[n] \in Seq(Class)}
<1>4. 0 \in S
  BY <1>1, <1>2 DEF FilterLoop
<1>5. ASSUME NEW n \in S PROVE n + 1 \in S
  <2> SUFFICES ASSUME n + 1 <= Len(batch) PROVE kept[n + 1] \in Seq(Class)
    OBVIOUS
  <2>1. /\ n \in Nat /\ n + 1 \in 0..Len(batch) /\ n + 1 # 0 /\ (n + 1) - 1 = n
        /\ kept[n] \in Seq(Class) /\ batch[n + 1] \in Class
    BY <1>1
  <2>2. kept[n + 1] = IF batch[n + 1].internal_name \in names THEN kept[n]
                      ELSE Append(kept[n], batch[n + 1])
    BY <1>2, <2>1 DEF FilterLoop
  <2> QED
    BY <2>1, <2>2
<1>6. S = Nat
  <2> HIDE DEF S
  <2>1. S \in SUBSET Nat
    BY DEF S
  <2> QED
    BY <1>4, <1>5, <2>1, Induction
<1> QED
  BY <1>1, <1>3, <1>6

(* Adding an empty list changes nothing.                                    *)
LEMMA OverlayEmpty ==
  ASSUME NEW classes
  PROVE  Overlay(classes, <<>>) = classes
BY DEF Overlay

(* Adding a list is adding its first class and then the others.             *)
LEMMA OverlayHead ==
  ASSUME NEW classes, NEW batch \in Seq(Class), batch # <<>>
  PROVE  LET h == Head(batch) IN
         Overlay({e \in classes : e.internal_name # h.internal_name} \cup {h}, Tail(batch))
           = Overlay(classes, batch)
<1> DEFINE h == Head(batch)
           rest == Tail(batch)
           N == Len(batch)
           first == {e \in classes : e.internal_name # h.internal_name} \cup {h}
<1>1. /\ N \in Nat \ {0} /\ DOMAIN batch = 1..N /\ DOMAIN rest = 1..(N - 1)
      /\ h = batch[1] /\ \A i \in 1..(N - 1) : rest[i] = batch[i + 1]
  OBVIOUS
<1> HIDE DEF h, rest, N
<1>2. \A i \in 1..N : i # 1 => i - 1 \in 1..(N - 1) /\ rest[i - 1] = batch[i]
  BY <1>1
<1>3. \A i \in 1..(N - 1) : i + 1 \in 1..N /\ rest[i] = batch[i + 1]
  BY <1>1
<1>4. ASSUME NEW e
      PROVE  (\A i \in 1..N : batch[i].internal_name # e.internal_name)
               <=> /\ h.internal_name # e.internal_name
                   /\ \A i \in 1..(N - 1) : rest[i].internal_name # e.internal_name
  BY <1>1, <1>2, <1>3
<1>5. ASSUME NEW j \in 1..(N - 1)
      PROVE  (\A k \in 1..N : k > j + 1 => batch[k].internal_name # batch[j + 1].internal_name)
               <=> \A k \in 1..(N - 1) : k > j => rest[k].internal_name # rest[j].internal_name
  BY <1>1, <1>2, <1>3, <1>5
<1>6. (\A k \in 1..N : k > 1 => batch[k].internal_name # batch[1].internal_name)
        <=> \A i \in 1..(N - 1) : rest[i].internal_name # h.internal_name
  BY <1>1, <1>2, <1>3
<1>7. ASSUME NEW e
      PROVE  e \in Overlay(first, rest) <=> e \in Overlay(classes, batch)
  <2>1. e \in Overlay(first, rest) <=>
          \/ /\ e \in first
             /\ \A i \in 1..(N - 1) : rest[i].internal_name # e.internal_name
          \/ \E j \in 1..(N - 1) :
                /\ e = rest[j]
                /\ \A k \in 1..(N - 1) : k > j => rest[k].internal_name # rest[j].internal_name
    BY <1>1 DEF Overlay
  <2>2. e \in Overlay(classes, batch) <=>
          \/ /\ e \in classes
             /\ \A i \in 1..N : batch[i].internal_name # e.internal_name
          \/ \E j \in 1..N :
                /\ e = batch[j]
                /\ \A k \in 1..N : k > j => batch[k].internal_name # batch[j].internal_name
    BY <1>1 DEF Overlay
  <2>3. (\E j \in 1..N :
           /\ e = batch[j]
           /\ \A k \in 1..N : k > j => batch[k].internal_name # batch[j].internal_name)
        <=> \/ /\ e = h
               /\ \A i \in 1..(N - 1) : rest[i].internal_name # h.internal_name
            \/ \E j \in 1..(N - 1) :
                 /\ e = rest[j]
                 /\ \A k \in 1..(N - 1) : k > j => rest[k].internal_name # rest[j].internal_name
    <3>1. ASSUME NEW j \in 1..N, e = batch[j],
                 \A k \in 1..N : k > j => batch[k].internal_name # batch[j].internal_name
          PROVE  \/ /\ e = h
                    /\ \A i \in 1..(N - 1) : rest[i].internal_name # h.internal_name
                 \/ \E i \in 1..(N - 1) :
                      /\ e = rest[i]
                      /\ \A k \in 1..(N - 1) :
                            k > i => rest[k].internal_name # rest[i].internal_name
      <4>1. CASE j = 1
        BY <1>1, <1>6, <3>1, <4>1
      <4>2. CASE j # 1
        <5>1. j - 1 \in 1..(N - 1) /\ (j - 1) + 1 = j /\ rest[j - 1] = batch[j]
          BY <1>1, <1>2, <4>2
        <5>2. \A k \in 1..(N - 1) :
                k > j - 1 => rest[k].internal_name # rest[j - 1].internal_name
          BY <1>5, <3>1, <5>1
        <5> QED
          BY <3>1, <5>1, <5>2
      <4> QED
        BY <4>1, <4>2
    <3>2. ASSUME e = h, \A i \in 1..(N - 1) : rest[i].internal_name # h.internal_name
          PROVE  \E j \in 1..N :
                   /\ e = batch[j]
                   /\ \A k \in 1..N : k > j => batch[k].internal_name # batch[j].internal_name
      <4>1. 1 \in 1..N
        BY <1>1
      <4> QED
        BY <1>1, <1>6, <3>2, <4>1
    <3>3. ASSUME NEW i \in 1..(N - 1), e = rest[i],
                 \A k \in 1..(N - 1) : k > i => rest[k].internal_name # rest[i].internal_name
          PROVE  \E j \in 1..N :
                   /\ e = batch[j]
                   /\ \A k \in 1..N : k > j => batch[k].internal_name # batch[j].internal_name
      <4>1. i + 1 \in 1..N /\ e = batch[i + 1]
        BY <1>3, <3>3
      <4>2. \A k \in 1..N : k > i + 1 => batch[k].internal_name # batch[i + 1].internal_name
        BY <1>5, <3>3
      <4> QED
        BY <4>1, <4>2
    <3> QED
      BY <3>1, <3>2, <3>3
  <2> QED
    BY <1>4, <2>1, <2>2, <2>3
<1> QED
  BY <1>7 DEF h, rest

-----------------------------------------------------------------------------
(* The inductive invariant.                                                 *)

(* What a call holds between its steps: slots to detach only while it       *)
(* removes, nothing when there is no call, and something to add between the *)
(* two halves of an update.                                                 *)
JobOK ==
    /\ job = [phase |-> job.phase, ids |-> job.ids, batch |-> job.batch,
              declared |-> job.declared]
    /\ job.phase \in {"idle", "adding", "removing", "removed"}
    /\ job.batch \in Seq(Class)
    /\ job.declared \in BOOLEAN
    /\ job.phase # "removing" => job.ids = {}
    /\ job.phase = "idle" => job.batch = <<>>
    /\ job.phase = "removed" => job.batch # <<>>

BucketInv == Sound(inner, job.ids) /\ JobOK

(* A new bucket is empty.                                                   *)
LEMMA InitBucketInv == Init => BucketInv
<1> SUFFICES ASSUME Init PROVE BucketInv
  OBVIOUS
<1>1. /\ inner = BucketState(<<>>, <<>>, EmptyMap, EmptyMap, EmptyMap, EmptyMap, EmptyMap,
                             EmptyMap)
      /\ job = NoJob
  BY DEF Init
<1>2. /\ inner.classes = <<>> /\ inner.free_class_ids = <<>> /\ inner.by_internal = EmptyMap
      /\ inner.by_origin = EmptyMap /\ inner.simple_name_index = EmptyMap
      /\ inner.package_index = EmptyMap /\ inner.owner_index = EmptyMap
      /\ inner.ranges = EmptyMap
  BY <1>1 DEF BucketState
<1>3. Live(inner) = {} /\ DOMAIN EmptyMap = {}
  BY <1>2 DEF Live, EmptyMap
<1>4. Shaped(inner)
  <2>1. inner = BucketState(inner.classes, inner.free_class_ids, inner.by_internal,
                            inner.by_origin, inner.simple_name_index, inner.package_index,
                            inner.owner_index, inner.ranges)
    BY <1>1, <1>2
  <2>2. inner.classes \in Seq(Class \cup {Vacant})
    BY <1>2
  <2>3. inner.free_class_ids \in Seq(DOMAIN inner.classes)
    BY <1>2
  <2> QED
    BY <2>1, <2>2, <2>3 DEF Shaped
<1>5. FreeOnce(inner) /\ NamedOnce(inner) /\ Placed(inner)
  BY <1>2, <1>3 DEF FreeOnce, NamedOnce, Placed
<1>6. Filed(inner) /\ FiledByOrigin(inner, {})
  BY <1>2, <1>3 DEF Filed, FiledByOrigin, Exact
<1>7. JobOK /\ job.ids = {}
  BY <1>1 DEF JobOK, NoJob
<1> QED
  BY <1>4, <1>5, <1>6, <1>7 DEF BucketInv, Sound

(* The first step of a removal hands the slots of an origin over from the   *)
(* map to the call, and what readers will find loses the classes of the     *)
(* origin.                                                                  *)
LEMMA StartRemoveSound ==
  ASSUME NEW o, NEW batch, NEW declared, o # None,
         Sound(inner, {}), StartRemove(o, batch, declared)
  PROVE  /\ Sound(inner', job'.ids)
         /\ Kept(inner', job'.ids) = {c \in Kept(inner, {}) : c.origin # o}
<1> DEFINE ids == job'.ids
<1>0. /\ Shaped(inner) /\ FreeOnce(inner) /\ NamedOnce(inner) /\ Filed(inner) /\ Placed(inner)
      /\ Exact(inner.by_origin, Origins(inner), Live(inner))
  <2>1. Live(inner) \ {} = Live(inner)
    OBVIOUS
  <2> QED
    BY <2>1 DEF Sound, FiledByOrigin
<1>1. /\ inner' = [inner EXCEPT !.by_origin = Restrict(inner.by_origin,
                                                       DOMAIN inner.by_origin \ {o})]
      /\ ids = IF o \in DOMAIN inner.by_origin THEN inner.by_origin[o] ELSE {}
  BY DEF StartRemove
<1> HIDE DEF ids
<1>2. inner' = BucketState(inner.classes, inner.free_class_ids, inner.by_internal,
                           Restrict(inner.by_origin, DOMAIN inner.by_origin \ {o}),
                           inner.simple_name_index, inner.package_index, inner.owner_index,
                           inner.ranges)
  BY <1>0, <1>1 DEF Shaped, BucketState
<1>3. /\ inner'.classes = inner.classes /\ inner'.free_class_ids = inner.free_class_ids
      /\ inner'.by_internal = inner.by_internal
      /\ inner'.by_origin = Restrict(inner.by_origin, DOMAIN inner.by_origin \ {o})
      /\ inner'.simple_name_index = inner.simple_name_index
      /\ inner'.package_index = inner.package_index
      /\ inner'.owner_index = inner.owner_index /\ inner'.ranges = inner.ranges
  BY <1>2 DEF BucketState
<1>4. Live(inner') = Live(inner) /\ Origins(inner') = Origins(inner)
  BY <1>3 DEF Live, Origins
<1>5. Shaped(inner') /\ FreeOnce(inner') /\ NamedOnce(inner') /\ Filed(inner') /\ Placed(inner')
  <2>1. Shaped(inner')
    BY <1>0, <1>2, <1>3 DEF Shaped
  <2>2. FreeOnce(inner') /\ NamedOnce(inner') /\ Placed(inner')
    BY <1>0, <1>3, <1>4 DEF FreeOnce, NamedOnce, Placed
  <2>3. Filed(inner')
    BY <1>0, <1>3, <1>4 DEF Filed, SimpleNames, Packages, Owners
  <2> QED
    BY <2>1, <2>2, <2>3
<1>6. \A i \in Live(inner) : i \in ids <=> inner.classes[i].origin = o
  <2> SUFFICES ASSUME NEW i \in Live(inner)
               PROVE  i \in ids <=> Origins(inner)[i] = o
    BY DEF Origins
  <2>1. CASE o \in DOMAIN inner.by_origin
    BY <1>0, <1>1, <2>1 DEF Exact
  <2>2. CASE o \notin DOMAIN inner.by_origin
    BY <1>0, <1>1, <2>2 DEF Exact
  <2> QED
    BY <2>1, <2>2
<1>7. ids \subseteq Live(inner)
  BY <1>0, <1>1 DEF Exact
<1>8. Exact(inner'.by_origin, Origins(inner'), Live(inner') \ ids)
  <2> DEFINE g == inner'.by_origin
  <2>1. /\ DOMAIN g = DOMAIN inner.by_origin \ {o}
        /\ \A k \in DOMAIN g : g[k] = inner.by_origin[k]
    BY <1>3 DEF Restrict
  <2> HIDE DEF g
  <2>2. ASSUME NEW i \in Live(inner) \ ids, Origins(inner)[i] # None
        PROVE  Origins(inner)[i] \in DOMAIN g /\ i \in g[Origins(inner)[i]]
    <3>1. Origins(inner)[i] # o
      BY <1>6 DEF Origins
    <3> QED
      BY <1>0, <2>1, <2>2, <3>1 DEF Exact
  <2>3. ASSUME NEW k \in DOMAIN g
        PROVE  /\ g[k] # {}
               /\ \A i \in g[k] : i \in Live(inner) \ ids /\ Origins(inner)[i] = k
    BY <1>0, <1>1, <2>1, <2>3 DEF Exact
  <2> QED
    BY <1>4, <2>2, <2>3 DEF Exact, g
<1>9. Sound(inner', ids)
  BY <1>4, <1>5, <1>7, <1>8 DEF Sound, FiledByOrigin
<1>10. Kept(inner', ids) = {c \in Kept(inner, {}) : c.origin # o}
  <2>1. Kept(inner', ids) = {inner.classes[i] : i \in Live(inner) \ ids}
    BY <1>3, <1>4 DEF Kept
  <2>2. Kept(inner, {}) = {inner.classes[i] : i \in Live(inner)}
    BY DEF Kept
  <2> QED
    BY <1>6, <2>1, <2>2
<1> QED
  BY <1>9, <1>10 DEF ids

(* Every step keeps the invariant.                                          *)
LEMMA NextBucketInv == BucketInv /\ [Next]_vars => BucketInv'
<1> SUFFICES ASSUME BucketInv, [Next]_vars PROVE BucketInv'
  OBVIOUS
<1> USE DEF BucketInv
<1>1. ASSUME NEW batch \in Batch, NEW declared \in BOOLEAN, AddClasses(batch, declared)
      PROVE  BucketInv'
  <2>1. JobOK'
    BY <1>1, BatchAssumption DEF AddClasses, JobOK, NoJob
  <2>2. job.ids = {} /\ job'.ids = {} /\ inner' = inner
    BY <1>1 DEF AddClasses, JobOK, NoJob
  <2> QED
    BY <2>1, <2>2
<1>2. CASE InsertNext
  <2>1. Head(job.batch) \in Class /\ Tail(job.batch) \in Seq(Class)
    BY <1>2 DEF InsertNext, JobOK
  <2>2. JobOK' /\ job.ids = {} /\ job'.ids = {}
    BY <1>2, <2>1 DEF InsertNext, JobOK
  <2>3. Sound(inner', {})
    BY <1>2, <2>1, <2>2, InsertSound DEF InsertNext, JobOK
  <2> QED
    BY <2>2, <2>3
<1>3. CASE AddDone
  <2>1. JobOK' /\ job.ids = {} /\ job'.ids = {} /\ inner' = inner
    BY <1>3 DEF AddDone, JobOK, NoJob
  <2> QED
    BY <2>1
<1>4. ASSUME NEW o \in Origin, RemoveByOrigin(o)
      PROVE  BucketInv'
  <2>1. JobOK' /\ job.ids = {}
    BY <1>4 DEF RemoveByOrigin, StartRemove, JobOK
  <2>2. o # None
    BY ClassAssumption
  <2> QED
    BY <1>4, <2>1, <2>2, StartRemoveSound DEF RemoveByOrigin
<1>5. CASE DetachNext
  <2>1. PICK id \in job.ids : /\ inner' = DetachClass(inner, id)
                              /\ job' = [job EXCEPT !.ids = @ \ {id}]
    BY <1>5 DEF DetachNext
  <2>2. JobOK' /\ job'.ids = job.ids \ {id}
    BY <1>5, <2>1 DEF DetachNext, JobOK
  <2> QED
    BY <2>1, <2>2, DetachSound
<1>6. CASE RemoveDone
  <2>1. JobOK' /\ job.ids = {} /\ job'.ids = {} /\ inner' = inner
    BY <1>6 DEF RemoveDone, JobOK, NoJob
  <2> QED
    BY <2>1
<1>7. ASSUME NEW o \in Origin, NEW batch \in Batch, NEW declared \in BOOLEAN,
             UpdateSource(o, batch, declared)
      PROVE  BucketInv'
  <2>1. Filtered(batch) \in Seq(Class) /\ Filtered(batch) # <<>>
    BY <1>7, BatchAssumption, WithoutType DEF Filtered, UpdateSource
  <2>2. JobOK' /\ job.ids = {}
    BY <1>7, <2>1 DEF UpdateSource, StartRemove, JobOK
  <2>3. o # None
    BY ClassAssumption
  <2> QED
    BY <1>7, <2>2, <2>3, StartRemoveSound DEF UpdateSource
<1>8. CASE ContinueUpdate
  <2>1. JobOK' /\ job'.ids = job.ids /\ inner' = inner
    BY <1>8 DEF ContinueUpdate, JobOK
  <2> QED
    BY <2>1
<1>9. CASE UNCHANGED vars
  <2>1. inner' = inner /\ job' = job
    BY <1>9 DEF vars
  <2> QED
    BY <2>1 DEF JobOK
<1> QED
  BY <1>1, <1>2, <1>3, <1>4, <1>5, <1>6, <1>7, <1>8, <1>9 DEF Next

-----------------------------------------------------------------------------
(* What follows from the invariant.                                         *)

(* The slab, the free list and the maps hold what their types say.          *)
THEOREM BucketTypeCorrect == Spec => []TypeOK
<1>1. BucketInv => TypeOK
  <2> SUFFICES ASSUME BucketInv PROVE TypeOK
    OBVIOUS
  <2>1. Shaped(inner) /\ NamedOnce(inner) /\ job.ids \subseteq Live(inner) /\ JobOK
    BY DEF BucketInv, Sound, FiledByOrigin
  <2>2. \A n \in DOMAIN inner.by_internal : inner.by_internal[n] \in Slot
    BY <2>1 DEF NamedOnce, Live, Slot
  <2>3. job.ids \subseteq Slot
    BY <2>1 DEF Live, Slot
  <2> QED
    BY <2>1, <2>2, <2>3 DEF TypeOK, Shaped, JobOK, Slot
<1> QED
  BY <1>1, InitBucketInv, NextBucketInv, PTL DEF Spec

(* An exact map answers with the classes that have the key.                 *)
LEMMA ResolveExact ==
  ASSUME NEW index, NEW key, NEW k, k # None, Exact(index, key, Live(inner))
  PROVE  /\ ResolveClassIds(index, k) = {inner.classes[i] : i \in {j \in Live(inner) : key[j] = k}}
         /\ k \in DOMAIN index <=> ResolveClassIds(index, k) # {}
<1>1. CASE k \in DOMAIN index
  <2>1. index[k] \cap Live(inner) = {j \in Live(inner) : key[j] = k} /\ index[k] \cap Live(inner) # {}
    BY <1>1 DEF Exact
  <2> QED
    BY <1>1, <2>1 DEF ResolveClassIds
<1>2. CASE k \notin DOMAIN index
  <2>1. {j \in Live(inner) : key[j] = k} = {}
    BY <1>2 DEF Exact
  <2> QED
    BY <1>2, <2>1 DEF ResolveClassIds
<1> QED
  BY <1>1, <1>2

(* The lookups of a reader agree with each other.                           *)
LEMMA LookupsFollow == BucketInv => LookupsAgree
<1> SUFFICES ASSUME BucketInv PROVE LookupsAgree
  OBVIOUS
<1>1. NamedOnce(inner) /\ Filed(inner)
  BY DEF BucketInv, Sound
<1>2. ASSUME NEW c \in Class
      PROVE  GetClassesBySimpleName(c.name) = {e \in IterAllClasses : e.name = c.name}
  <2>1. c.name # None
    BY ClassAssumption
  <2>2. GetClassesBySimpleName(c.name)
          = {inner.classes[i] : i \in {j \in Live(inner) : SimpleNames(inner)[j] = c.name}}
    BY <1>1, <2>1, ResolveExact DEF Filed, GetClassesBySimpleName
  <2> QED
    BY <2>2 DEF SimpleNames, IterAllClasses
<1>3. ASSUME NEW c \in Class, c.package # None
      PROVE  /\ ClassesInPackage(c.package) = {e \in IterAllClasses : e.package = c.package}
             /\ HasPackage(c.package) <=> ClassesInPackage(c.package) # {}
  <2>1. /\ ClassesInPackage(c.package)
             = {inner.classes[i] : i \in {j \in Live(inner) : Packages(inner)[j] = c.package}}
        /\ HasPackage(c.package) <=> ClassesInPackage(c.package) # {}
    BY <1>1, <1>3, ResolveExact DEF Filed, ClassesInPackage, HasPackage
  <2> QED
    BY <2>1 DEF Packages, IterAllClasses
<1>4. ASSUME NEW c \in Class
      PROVE  DirectInnerClassesOf(c.internal_name)
               = {e \in IterAllClasses : e.inner_class_of = c.internal_name}
  <2>1. c.internal_name # None
    BY ClassAssumption
  <2>2. DirectInnerClassesOf(c.internal_name)
          = {inner.classes[i] : i \in {j \in Live(inner) : Owners(inner)[j] = c.internal_name}}
    BY <1>1, <2>1, ResolveExact DEF Filed, DirectInnerClassesOf
  <2> QED
    BY <2>2 DEF Owners, IterAllClasses
<1>5. \A e \in IterAllClasses : GetClass(e.internal_name) = e
  BY <1>1 DEF IterAllClasses, GetClass, NamedOnce
<1> QED
  BY <1>2, <1>3, <1>4, <1>5 DEF LookupsAgree

(* The slab, its free list, its five maps and its lookups say the same in   *)
(* every state the calls of a bucket lead to, for all classes and batches.  *)
THEOREM BucketAgrees == Spec => []BucketConsistent
<1>1. BucketInv => BucketConsistent
  <2> SUFFICES ASSUME BucketInv PROVE BucketConsistent
    OBVIOUS
  <2>1. /\ Shaped(inner) /\ FreeOnce(inner) /\ NamedOnce(inner) /\ Filed(inner)
        /\ FiledByOrigin(inner, job.ids) /\ Placed(inner)
    BY DEF BucketInv, Sound
  <2>2. \A i \in Live(inner) : inner.classes[i] \in Class
    BY <2>1 DEF Shaped, Live
  <2>3. FreeSlotsListedOnce
    BY <2>1 DEF FreeOnce, FreeSlotsListedOnce, Slot
  <2>4. NamesMatchSlab
    BY <2>1 DEF NamedOnce, NamesMatchSlab
  <2>5. IndexesMatchSlab
    <3>1. \A i \in Live(inner) : inner.classes[i].name # None
      BY <2>2, ClassAssumption
    <3>2. ASSUME NEW i \in Live(inner)
          PROVE  LET c == inner.classes[i] IN
                 /\ i \in IdsUnder(inner.simple_name_index, c.name)
                 /\ c.package # None => i \in IdsUnder(inner.package_index, c.package)
                 /\ c.inner_class_of # None
                      => i \in IdsUnder(inner.owner_index, c.inner_class_of)
      BY <2>1, <3>1 DEF Filed, Exact, SimpleNames, Packages, Owners, IdsUnder
    <3>3. ASSUME NEW k \in DOMAIN inner.simple_name_index
          PROVE  /\ inner.simple_name_index[k] # {}
                 /\ \A i \in inner.simple_name_index[k] :
                      i \in Live(inner) /\ inner.classes[i].name = k
      BY <2>1 DEF Filed, Exact, SimpleNames
    <3>4. ASSUME NEW k \in DOMAIN inner.package_index
          PROVE  /\ inner.package_index[k] # {}
                 /\ \A i \in inner.package_index[k] :
                      i \in Live(inner) /\ inner.classes[i].package = k
      BY <2>1 DEF Filed, Exact, Packages
    <3>5. ASSUME NEW k \in DOMAIN inner.owner_index
          PROVE  /\ inner.owner_index[k] # {}
                 /\ \A i \in inner.owner_index[k] :
                      i \in Live(inner) /\ inner.classes[i].inner_class_of = k
      BY <2>1 DEF Filed, Exact, Owners
    <3> QED
      BY <3>2, <3>3, <3>4, <3>5 DEF IndexesMatchSlab
  <2>6. OriginsMatchSlab
    <3>1. \A i \in Live(inner) : inner.classes[i].origin # None
      BY <2>2, ClassAssumption
    <3> QED
      BY <2>1, <3>1 DEF FiledByOrigin, Exact, Origins, IdsUnder, OriginsMatchSlab
  <2>7. RangesMatchClasses
    BY <2>1 DEF Placed, RangesMatchClasses, GetClass
  <2> QED
    BY <2>3, <2>4, <2>5, <2>6, <2>7, LookupsFollow DEF BucketConsistent
<1> QED
  BY <1>1, InitBucketInv, NextBucketInv, PTL DEF Spec

-----------------------------------------------------------------------------
(* The bucket implements the plain set of classes.                          *)

Pending == IF job.phase \in {"removing", "removed"} THEN job.batch ELSE <<>>

(* The two modules read class lists alike.                                  *)
LEMMA ListOperators ==
  /\ \A batch : Contents!Listed(batch) = Listed(batch)
  /\ \A batch, names : Contents!Without(batch, names) = Without(batch, names)
  /\ \A classes, batch : Contents!Overlay(classes, batch) = Overlay(classes, batch)
BY DEF Contents!Listed, Listed, Contents!Without, Without, Contents!Overlay, Overlay

(* When the origin's classes are those of the list, each listed once, the   *)
(* test by number and members of same_classes_for_origin says so.           *)
LEMMA SameClassesFound ==
  ASSUME BucketInv, job.phase = "idle", NEW o \in Origin,
         NEW batch \in Seq(Class), batch # <<>>,
         {c \in Kept(inner, {}) : c.origin = o} = Listed(batch),
         \A i, j \in DOMAIN batch : batch[i] = batch[j] => i = j
  PROVE  SameClassesForOrigin(o, batch)
<1> DEFINE N == Len(batch)
           ids == inner.by_origin[o]
           at == [k \in 1..N |-> inner.by_internal[batch[k].internal_name]]
<1>1. /\ NamedOnce(inner) /\ Exact(inner.by_origin, Origins(inner), Live(inner)) /\ o # None
  <2>1. job.ids = {} /\ Live(inner) \ {} = Live(inner)
    BY DEF BucketInv, JobOK
  <2> QED
    BY <2>1, ClassAssumption DEF BucketInv, Sound, FiledByOrigin
<1>2. N \in Nat /\ DOMAIN batch = 1..N /\ 1 \in 1..N
  OBVIOUS
<1>3. Kept(inner, {}) = {inner.classes[i] : i \in Live(inner)}
  BY DEF Kept
<1>4. ResolveClassIds(inner.by_origin, o) = Listed(batch)
  <2>1. ResolveClassIds(inner.by_origin, o)
          = {inner.classes[i] : i \in {j \in Live(inner) : Origins(inner)[j] = o}}
    BY <1>1, ResolveExact
  <2>2. ResolveClassIds(inner.by_origin, o) = {c \in Kept(inner, {}) : c.origin = o}
    BY <1>3, <2>1 DEF Origins
  <2> QED
    BY <2>2
<1>5. o \in DOMAIN inner.by_origin
  <2>1. batch[1] \in Listed(batch)
    BY <1>2 DEF Listed
  <2> QED
    BY <1>4, <2>1 DEF ResolveClassIds
<1>6. \A i : i \in ids <=> i \in Live(inner) /\ inner.classes[i].origin = o
  BY <1>1, <1>5 DEF Exact, Origins
<1>7. \A k \in 1..N : /\ at[k] \in ids
                      /\ inner.classes[at[k]] = batch[k]
  <2> SUFFICES ASSUME NEW k \in 1..N
               PROVE  at[k] \in ids /\ inner.classes[at[k]] = batch[k]
    OBVIOUS
  <2>1. batch[k] \in Listed(batch)
    BY <1>2 DEF Listed
  <2>2. PICK i \in Live(inner) : inner.classes[i] = batch[k] /\ inner.classes[i].origin = o
    BY <1>3, <2>1
  <2>3. at[k] = i
    BY <1>1, <2>2 DEF NamedOnce
  <2> QED
    BY <1>6, <2>2, <2>3
<1>8. \A i \in ids : \E k \in 1..N : at[k] = i
  <2> SUFFICES ASSUME NEW i \in ids PROVE \E k \in 1..N : at[k] = i
    OBVIOUS
  <2>1. i \in Live(inner) /\ inner.classes[i] \in Listed(batch)
    BY <1>3, <1>6
  <2>2. PICK k \in 1..N : batch[k] = inner.classes[i]
    BY <1>2, <2>1 DEF Listed
  <2>3. at[k] = i
    BY <1>1, <2>1, <2>2 DEF NamedOnce
  <2> QED
    BY <2>3
<1>9. \A j, k \in 1..N : at[j] = at[k] => j = k
  BY <1>2, <1>7
<1>10. at \in Bijection(1..N, ids)
  <2>1. at \in [1..N -> ids]
    BY <1>7
  <2> QED
    BY <1>8, <1>9, <2>1 DEF Bijection, Injection, Surjection, IsInjective
<1>11. Cardinality(ids) = N
  <2>1. ExistsBijection(1..N, ids)
    BY <1>10 DEF ExistsBijection
  <2> QED
    BY <1>2, <2>1, FS_CountingElements
<1> QED
  BY <1>4, <1>5, <1>11 DEF SameClassesForOrigin

(* The names of archive classes the filter of an update consults are those  *)
(* of the classes readers find.                                             *)
LEMMA FilterAgrees ==
  ASSUME BucketInv, job.phase = "idle", NEW batch
  PROVE  Filtered(batch) = Contents!Trusted(Kept(inner, {}), batch)
<1>1. NamedOnce(inner)
  BY DEF BucketInv, Sound
<1>2. {n \in DOMAIN inner.by_internal : GetClass(n).origin \in Jar}
        = {e.internal_name : e \in {c \in Kept(inner, {}) : c.origin \in Jar}}
  <2> DEFINE L == {n \in DOMAIN inner.by_internal : GetClass(n).origin \in Jar}
             R == {e.internal_name : e \in {c \in Kept(inner, {}) : c.origin \in Jar}}
  <2>1. ASSUME NEW n \in L PROVE n \in R
    <3>1. /\ inner.by_internal[n] \in Live(inner)
          /\ inner.classes[inner.by_internal[n]].internal_name = n
          /\ inner.classes[inner.by_internal[n]].origin \in Jar
      BY <1>1 DEF NamedOnce, GetClass
    <3>2. inner.classes[inner.by_internal[n]] \in Kept(inner, {})
      BY <3>1 DEF Kept
    <3> QED
      BY <3>1, <3>2
  <2>2. ASSUME NEW n \in R PROVE n \in L
    <3>1. PICK i \in Live(inner) :
            inner.classes[i].origin \in Jar /\ inner.classes[i].internal_name = n
      BY DEF Kept
    <3> QED
      BY <1>1, <3>1 DEF NamedOnce, GetClass
  <2> QED
    BY <2>1, <2>2
<1> QED
  BY <1>2, ListOperators DEF Filtered, Contents!Trusted

(* What is shown, before and after a step, in terms of the kept classes.    *)
LEMMA ShownKept ==
  /\ Shown = IF job.phase = "adding" THEN Overlay(Kept(inner, job.ids), job.batch)
             ELSE Kept(inner, job.ids)
  /\ Shown' = IF job'.phase = "adding" THEN Overlay(Kept(inner', job'.ids), job'.batch)
              ELSE Kept(inner', job'.ids)
BY DEF Shown, Kept, Live, Overlay

(* Every step of a call is a step of the plain set of classes: the step     *)
(* that starts an add, a removal or an update has its whole effect, the     *)
(* second half of an update adds, and the others change nothing that is     *)
(* shown.                                                                   *)
LEMMA StepContents ==
  ASSUME BucketInv, BucketInv', [Next]_vars
  PROVE  \/ Contents!Next
         \/ Shown' = Shown /\ Pending' = Pending
<1> DEFINE kept == Kept(inner, job.ids)
<1>1. ASSUME NEW batch \in Batch, NEW declared \in BOOLEAN, AddClasses(batch, declared)
      PROVE  Contents!Next
  <2>1. /\ job.phase = "idle" /\ job'.phase = "adding" /\ job'.batch = batch
        /\ job.ids = {} /\ job'.ids = {} /\ inner' = inner
    BY <1>1 DEF AddClasses, NoJob, BucketInv, JobOK
  <2>2. Shown = kept /\ Shown' = Overlay(kept, batch)
    <3>1. Kept(inner, job.ids)' = kept
      BY <2>1
    <3> QED
      BY <2>1, <3>1, ShownKept
  <2>3. Pending = <<>> /\ Pending' = <<>>
    BY <2>1 DEF Pending
  <2>4. Contents!Add(batch)
    BY <2>2, <2>3, ListOperators DEF Contents!Add, Pending
  <2> QED
    BY <2>4 DEF Contents!Next
<1>2. CASE InsertNext
  <2>1. /\ job.phase = "adding" /\ job.batch # <<>> /\ job.batch \in Seq(Class)
        /\ job'.phase = "adding" /\ job'.batch = Tail(job.batch) /\ job.ids = {} /\ job'.ids = {}
        /\ job.declared \in BOOLEAN
        /\ inner' = InsertRecord(inner, Head(job.batch), job.declared)
    BY <1>2 DEF InsertNext, BucketInv, JobOK
  <2>2. Head(job.batch) \in Class
    BY <2>1
  <2>3. Kept(inner', {})
          = {e \in Kept(inner, {}) : e.internal_name # Head(job.batch).internal_name}
              \cup {Head(job.batch)}
    BY <2>1, <2>2, InsertSound DEF BucketInv
  <2>4. Overlay(Kept(inner', {}), Tail(job.batch)) = Overlay(Kept(inner, {}), job.batch)
    BY <2>1, <2>3, OverlayHead
  <2>5. Shown = Overlay(Kept(inner, {}), job.batch)
    BY <2>1, ShownKept
  <2>6. Shown' = Overlay(Kept(inner', {}), Tail(job.batch))
    BY <2>1, ShownKept
  <2>7. Pending = <<>> /\ Pending' = <<>>
    BY <2>1 DEF Pending
  <2> QED
    BY <2>4, <2>5, <2>6, <2>7
<1>3. CASE AddDone
  <2>1. /\ job.phase = "adding" /\ job.batch = <<>> /\ job'.phase = "idle"
        /\ job.ids = {} /\ job'.ids = {} /\ inner' = inner
    BY <1>3 DEF AddDone, NoJob, BucketInv, JobOK
  <2>2. Shown = kept
    BY <2>1, ShownKept, OverlayEmpty
  <2>3. Shown' = kept
    BY <2>1, ShownKept
  <2>4. Pending = <<>> /\ Pending' = <<>>
    BY <2>1 DEF Pending
  <2> QED
    BY <2>2, <2>3, <2>4
<1>4. ASSUME NEW o \in Origin, RemoveByOrigin(o)
      PROVE  Contents!Next
  <2>1. /\ job.phase = "idle" /\ job'.phase = "removing" /\ job'.batch = <<>>
        /\ job.ids = {} /\ StartRemove(o, <<>>, FALSE)
    BY <1>4 DEF RemoveByOrigin, StartRemove, BucketInv, JobOK
  <2>2. Kept(inner', job'.ids) = {c \in Kept(inner, {}) : c.origin # o}
    BY <2>1, ClassAssumption, StartRemoveSound DEF BucketInv
  <2>3. Shown = Kept(inner, {}) /\ Shown' = Kept(inner', job'.ids)
    BY <2>1, ShownKept
  <2>4. Pending = <<>> /\ Pending' = <<>>
    BY <2>1 DEF Pending
  <2>5. Shown' = Shown \ Contents!From(Shown, o)
    BY <2>2, <2>3 DEF Contents!From
  <2>6. Contents!RemoveOrigin(o)
    BY <2>4, <2>5 DEF Contents!RemoveOrigin, Pending
  <2> QED
    BY <2>6 DEF Contents!Next
<1>5. CASE DetachNext
  <2>1. PICK id \in job.ids : /\ inner' = DetachClass(inner, id)
                              /\ job' = [job EXCEPT !.ids = @ \ {id}]
    BY <1>5 DEF DetachNext
  <2>2. /\ job.phase = "removing" /\ job'.phase = "removing" /\ job'.batch = job.batch
        /\ job'.ids = job.ids \ {id}
    BY <1>5, <2>1 DEF DetachNext, BucketInv, JobOK
  <2>3. Kept(inner', job'.ids) = kept
    BY <2>1, <2>2, DetachSound DEF BucketInv
  <2>4. Shown = kept /\ Shown' = Kept(inner', job'.ids)
    BY <2>2, ShownKept
  <2>5. Pending' = Pending
    BY <2>2 DEF Pending
  <2> QED
    BY <2>3, <2>4, <2>5
<1>6. CASE RemoveDone
  <2>1. /\ job.phase = "removing" /\ job.ids = {} /\ job'.ids = {} /\ inner' = inner
        /\ job'.phase = IF job.batch = <<>> THEN "idle" ELSE "removed"
        /\ job'.batch = job.batch
    BY <1>6 DEF RemoveDone, NoJob, BucketInv, JobOK
  <2>2. Shown = kept /\ Shown' = kept
    BY <2>1, ShownKept
  <2>3. Pending' = Pending
    BY <2>1 DEF Pending
  <2> QED
    BY <2>2, <2>3
<1>7. ASSUME NEW o \in Origin, NEW batch \in Batch, NEW declared \in BOOLEAN,
             UpdateSource(o, batch, declared)
      PROVE  Contents!Next
  <2> DEFINE filtered == Filtered(batch)
  <2>1. /\ job.phase = "idle" /\ job.ids = {} /\ filtered # <<>>
        /\ \A i \in DOMAIN batch : batch[i].origin = o
        /\ ~SameClassesForOrigin(o, filtered)
        /\ StartRemove(o, filtered, declared)
        /\ job'.phase \in {"removing", "removed"} /\ job'.batch = filtered
    BY <1>7 DEF UpdateSource, StartRemove, BucketInv, JobOK
  <2>2. filtered \in Seq(Class)
    BY BatchAssumption, WithoutType DEF Filtered
  <2> HIDE DEF filtered
  <2>3. Kept(inner', job'.ids) = {c \in Kept(inner, {}) : c.origin # o}
    BY <2>1, ClassAssumption, StartRemoveSound DEF BucketInv
  <2>4. Shown = Kept(inner, {}) /\ Shown' = Kept(inner', job'.ids)
    BY <2>1, ShownKept
  <2>5. Pending = <<>> /\ Pending' = filtered
    BY <2>1 DEF Pending
  <2>6. Shown' = Shown \ Contents!From(Shown, o)
    BY <2>3, <2>4 DEF Contents!From
  <2>7. filtered = Contents!Trusted(Shown, batch)
    BY <2>1, <2>4, FilterAgrees DEF filtered
  <2>8. Contents!Listed(batch) = Contents!From(Contents!Listed(batch), o)
    BY <2>1, ListOperators DEF Contents!From, Listed
  <2>9. ~Contents!SameAs(Shown, o, filtered)
    <3> SUFFICES ASSUME Contents!SameAs(Shown, o, filtered) PROVE FALSE
      OBVIOUS
    <3>1. {c \in Kept(inner, {}) : c.origin = o} = Listed(filtered)
      BY <2>4, ListOperators DEF Contents!SameAs, Contents!From
    <3>2. \A i, j \in DOMAIN filtered : filtered[i] = filtered[j] => i = j
      BY DEF Contents!SameAs
    <3> QED
      BY <2>1, <2>2, <3>1, <3>2, SameClassesFound
  <2>10. Contents!BeginUpdate(o, batch)
    BY <2>1, <2>5, <2>6, <2>7, <2>8, <2>9 DEF Contents!BeginUpdate, Pending
  <2> QED
    BY <2>10 DEF Contents!Next
<1>8. CASE ContinueUpdate
  <2>1. /\ job.phase = "removed" /\ job'.phase = "adding" /\ job'.batch = job.batch
        /\ job.batch # <<>> /\ job'.ids = job.ids /\ inner' = inner
    BY <1>8 DEF ContinueUpdate, BucketInv, JobOK
  <2>2. Shown = kept /\ Shown' = Overlay(kept, job.batch)
    BY <2>1, ShownKept
  <2>3. Pending = job.batch /\ Pending' = <<>>
    BY <2>1 DEF Pending
  <2>4. Contents!FinishUpdate
    BY <2>1, <2>2, <2>3, ListOperators DEF Contents!FinishUpdate, Pending
  <2> QED
    BY <2>4 DEF Contents!Next
<1>9. CASE UNCHANGED vars
  BY <1>9 DEF vars, Shown, Pending, Live
<1> QED
  BY <1>1, <1>2, <1>3, <1>4, <1>5, <1>6, <1>7, <1>8, <1>9 DEF Next

(* The slab and its maps implement the plain set of classes BucketContents  *)
(* describes, for all classes, origins and lists: no sequence of adds,      *)
(* updates and removals shows a reader a class the plain set would not.     *)
THEOREM BucketImplementsContents == Spec => ImplementsContents
<1>1. Init => Contents!Init
  <2> SUFFICES ASSUME Init PROVE Contents!Init
    OBVIOUS
  <2>1. job.phase = "idle" /\ inner.classes = <<>>
    BY DEF Init, NoJob, BucketState
  <2>2. Shown = {}
    BY <2>1 DEF Shown, Live
  <2> QED
    BY <2>1, <2>2 DEF Contents!Init
<1>2. BucketInv /\ BucketInv' /\ [Next]_vars => [Contents!Next]_(Contents!vars)
  BY StepContents DEF Contents!vars, Pending
<1> QED
  BY <1>1, <1>2, InitBucketInv, NextBucketInv, PTL DEF Spec, ImplementsContents, Contents!Spec
=============================================================================
