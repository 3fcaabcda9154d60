------------------------ MODULE MCRequestCancellation ------------------------
(***************************************************************************)
(* Three requests compete for one key and two of them may decompile, so    *)
(* that a request can be superseded by one that is itself superseded, and  *)
(* a late drop or finish can meet a newer registration.  No step relates   *)
(* two keys, so a second key would only multiply the interleavings.        *)
(***************************************************************************)
EXTENDS RequestCancellation

CONSTANTS r1, r2, r3, k1

MCRequest == {r1, r2, r3}
MCKey == {k1}
MCKeyOf == [r \in MCRequest |-> k1]
MCDecompiles == {r1, r2}
=============================================================================
