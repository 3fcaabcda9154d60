----------------------------- MODULE ClassLists -----------------------------
(* Class lists as the bucket of the workspace index receives them: sequences *)
(* of class metadata in which a name may occur more than once.               *)
EXTENDS Naturals, Sequences

Listed(batch) == {batch[i] : i \in DOMAIN batch}

(* The list without the classes of these names, in the order of the list.    *)
Without(batch, names) ==
    LET kept[n \in 0..Len(batch)] ==
          IF n = 0 THEN <<>>
          ELSE IF batch[n].internal_name \in names THEN kept[n - 1]
          ELSE Append(kept[n - 1], batch[n])
    IN kept[Len(batch)]

(* What adding the classes of a list one after the other leaves: the last    *)
(* class of a name stays, and displaces the class of that name in `classes'. *)
Overlay(classes, batch) ==
    {c \in classes : \A i \in DOMAIN batch : batch[i].internal_name # c.internal_name}
      \cup {batch[i] : i \in {j \in DOMAIN batch : \A k \in DOMAIN batch :
                                 k > j => batch[k].internal_name # batch[j].internal_name}}
=============================================================================
