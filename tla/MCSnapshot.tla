----------------------------- MODULE MCSnapshot -----------------------------
(***************************************************************************)
(* A superproject, two submodule trees and every way they may contain each *)
(* other at two paths, cycles included; the trees in order or with one     *)
(* thing wrong, the submodules kept in the store, embedded, missing or     *)
(* without the commit.                                                     *)
(***************************************************************************)
EXTENDS Snapshot

CONSTANTS outer, full, stale, t0, t1, t2, c0, c1, c2, file, manifest, x, y,
          mx, my, escaping

Sound(p) == [path |-> p, kind |-> "file", commit |-> None]
Link(p, c) == [path |-> p, kind |-> "gitlink", commit |-> c]
Odd == [path |-> file, kind |-> "other", commit |-> None]

Files == {Sound(file), Sound(manifest)}

LinkSets ==
    {{Link(p, l[p]) : p \in {q \in {x, y} : l[q] # None}} :
        l \in [{x, y} -> Commit \cup {None}]}

LeafLinkSets == {{}} \cup {{Link(x, c)} : c \in Commit}

Graphs ==
    {[t \in Tree |-> Files \cup
         (IF t = t0 THEN l0 ELSE IF t = t1 THEN l1 ELSE l2)] :
        l0 \in LinkSets, l1 \in LinkSets, l2 \in LeafLinkSets}

Named == [p \in Path |-> IF p = y THEN my ELSE mx]

AllNamed == [t \in Tree |-> Named]

Misnamed ==
    {[AllNamed EXCEPT ![t] = broken] : t \in {t0, t1},
        broken \in {None, [Named EXCEPT ![x] = None],
                    [Named EXCEPT ![x] = escaping]}}

Kept == {None, full, stale}

InEvery(where) == [r \in Repository |-> where]

Stores == {InEvery([m \in Module |-> IF m = my THEN b ELSE a]) :
              a \in Kept, b \in Kept}

Embeddings == {InEvery([p \in Path |-> IF p = y THEN b ELSE a]) :
                  a \in Kept, b \in Kept}

AllFull == InEvery([m \in Module |-> full])
NoneEmbedded == InEvery([p \in Path |-> None])

InPlace ==
    /\ treeOf = [c \in Commit |-> IF c = c0 THEN t0 ELSE IF c = c1 THEN t1
                                  ELSE t2]
    /\ holds = [r \in Repository |-> IF r = stale THEN {t1, c1, c2}
                                     ELSE Tree \cup Commit]
    /\ root = [repository |-> outer, tree |-> t0]

PlainWorld ==
    /\ InPlace
    /\ records = [t \in Tree |-> Files]
    /\ gitmodules = AllNamed
    /\ store = AllFull
    /\ embedded = NoneEmbedded

Worlds ==
    /\ InPlace
    /\ \E graph \in Graphs :
           \/ /\ records = graph
              /\ gitmodules = AllNamed
              /\ store \in Stores
              /\ embedded \in Embeddings
           \/ /\ records = graph
              /\ gitmodules \in Misnamed
              /\ store = AllFull
              /\ embedded \in {NoneEmbedded, InEvery([p \in Path |-> full])}
           \/ /\ \E t \in {t0, t1} :
                     records = [graph EXCEPT ![t] =
                                    (@ \ {Sound(file)}) \cup {Odd}]
              /\ gitmodules = AllNamed
              /\ store = AllFull
              /\ embedded = NoneEmbedded
=============================================================================
