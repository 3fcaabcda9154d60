---------------------------- MODULE MCSourceWatch ----------------------------
(* Instances of SourceWatch: files f and g; model m has only f under its     *)
(* source roots, the fallback index has both.                                *)
EXTENDS SourceWatch, TLC

CONSTANTS f, g, m, root, main

MCCovers == m :> {f}
MCContextOf == [x \in {m, NoModel} |-> [u \in Uri |->
                  IF x = m /\ u = f THEN main ELSE root]]
=============================================================================
