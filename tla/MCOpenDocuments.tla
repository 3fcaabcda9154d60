--------------------------- MODULE MCOpenDocuments ---------------------------
(* Two documents: d, whose file is on disk, and n, which was never saved.    *)
(* Model m puts them in a bucket of their own.                               *)
EXTENDS OpenDocuments, TLC

CONSTANTS d, n, m, root, main, disk

MCUri == {d, n}
MCDisk == [u \in Uri |-> IF u = d THEN disk ELSE Absent]
MCContextOf == [b \in {m, NoModel} |-> [u \in Uri |-> IF b = m THEN main ELSE root]]

Touched(u) ==
    \/ Open(u)
    \/ \E h \in Handle : content[u][h] # Absent
    \/ \E w \in Writer : writer[w].pc # "off" /\ writer[w].uri = u
\* The client works at one of the documents only.
OneDocument == Cardinality({u \in Uri : Touched(u)}) <= 1

\* The debounced tasks are alike.
Tasks == Permutations(Task)

Busy == saves > 0 \/ jobs > 0 \/ requests > 0
TwoTasks == Cardinality({t \in Task : writer[t].pc # "off"}) > 1

\* A full reindex, two debounced tasks, the unsaved document, and saves,
\* watcher jobs and requests: mostly one of these at a time; the unsaved
\* document is not closed while there is a full reindex.
FewAtOnce ==
    /\ saves + closes + jobs + requests <= 2
    /\ Busy => rebuilds = 0 /\ ~Touched(n)
    /\ TwoTasks => rebuilds = 0 /\ ~Touched(n) /\ ~Busy
    /\ Touched(n) /\ rebuilds > 0 => closes = 0

Smaller == OneDocument /\ FewAtOnce
=============================================================================
