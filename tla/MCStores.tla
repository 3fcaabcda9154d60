------------------------------ MODULE MCStores ------------------------------
(* Where results are kept: a bucket of the index, the artifact store and the *)
(* files of decompiled sources.  They share nothing, so each is explored     *)
(* while the others are untouched.                                           *)
(*                                                                           *)
(* The bucket has class A of package p and its member B, declared by the     *)
(* files f and g and by the archive j; f also has A with another member      *)
(* list, and a class of the default package.                                 *)
EXTENDS BucketIndex, TLC

CONSTANTS f, g, j, a, ab, x, p,
          Process, Schema, OldSchema, Path, Content, MaxRewrites, MaxCrashes, MaxJars,
          Bytes, Request, Absent, Partial, MaxRebuilds, MaxRequests, MaxFaults

ASSUME SchemaAssumption == DOMAIN Schema = Process /\ None \notin Range(Schema)
ASSUME StoreAssumption == None \notin Nat /\ None \notin [content : Content, torn : BOOLEAN]
ASSUME SourceAssumption == Absent \notin Bytes /\ Partial \notin Bytes /\ Absent # Partial

VARIABLES disk, dbs, live, proc, rewrites, crashes, jars,
          jar, files, request, rebuilds, requests, faults

storeVars == <<disk, dbs, live, proc, rewrites, crashes, jars>>
decompilerVars == <<jar, files, request, rebuilds, requests, faults>>

ClassRec(n, simple, pkg, owner, o, members) ==
    [internal_name |-> n, name |-> simple, package |-> pkg, inner_class_of |-> owner,
     origin |-> o, members |-> members]

Af1 == ClassRec(a, "A", p, None, f, {"m"})
Af2 == ClassRec(a, "A", p, None, f, {"n"})
ABf == ClassRec(ab, "B", p, a, f, {})
Xf  == ClassRec(x, "B", None, None, f, {})
Ag  == ClassRec(a, "A", p, None, g, {})
ABj == ClassRec(ab, "A", p, None, j, {"m"})

MCClass == {Af1, Af2, ABf, Xf, Ag, ABj}
MCBatch == {<<>>, <<Af1>>, <<Af2, ABf>>, <<Xf, ABf>>, <<Af1, Af2>>, <<Ag>>, <<ABj>>}

MCSchema == [y \in Process |-> 2]

A == INSTANCE ArtifactStore
D == INSTANCE DecompilerCache

Sym == Permutations(Path) \cup Permutations(Content) \cup Permutations(Process)
           \cup Permutations(Request)

BucketUntouched == job = NoJob /\ inner.classes = <<>>
StoreUntouched == rewrites = 0 /\ \A y \in Process : proc[y] = A!Off
DecompilerUntouched == rebuilds = 0 /\ requests = 0 /\ faults = 0

StoresInit == Init /\ A!Init /\ D!Init

StoresSpec ==
    /\ StoresInit
    /\ [][\/ /\ StoreUntouched /\ DecompilerUntouched
             /\ Next /\ UNCHANGED <<storeVars, decompilerVars>>
          \/ /\ BucketUntouched /\ DecompilerUntouched
             /\ A!Next /\ UNCHANGED <<vars, decompilerVars>>
          \/ /\ BucketUntouched /\ StoreUntouched
             /\ D!Next /\ UNCHANGED <<vars, storeVars>>]_<<vars, storeVars, decompilerVars>>

\* The type invariants of the three stores.
StoresTypeOK == TypeOK /\ A!TypeOK /\ D!TypeOK

\* RowsAgree and EntriesLoadTheirJar of ArtifactStore, whatever servers and threads save at a
\* time and whichever of them dies: the tables of a store agree and no id is given out twice; an
\* id of a server's jar_cache loads from the store the server has open, and gives the classes
\* of the content the jar had; so does a cached reader.
ArtifactsSound == A!RowsAgree /\ A!EntriesLoadTheirJar

\* DecompiledSourceShown of DecompilerCache: a request shows the source of the bytes it took,
\* and without faults a lone request shows all of it.
DecompiledSourceShown == D!DecompiledSourceShown
=============================================================================
