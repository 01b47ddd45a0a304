------------------------------ MODULE Snapshot ------------------------------
(***************************************************************************)
(* crates/tydence/src/snapshot.rs: the entries of a manifest are the files *)
(* of a tree and, under the path of each gitlink, those of the submodule's *)
(* tree, down to any depth.  A submodule's repository is the one kept in   *)
(* the module store under the name .gitmodules gives it, or else the one   *)
(* embedded in the working tree.  What cannot be resolved is an error.     *)
(*                                                                         *)
(* Trees, repositories and the places where they are kept are arbitrary    *)
(* and fixed for a behaviour.  Objects are named by their content, so a    *)
(* tree is the same in every repository that has it.                       *)
(***************************************************************************)
EXTENDS Naturals, Sequences, FiniteSets, SequencesExt

CONSTANTS
    Repository,  \* repositories
    Tree,        \* trees
    Commit,      \* commits that gitlinks name
    Path,        \* paths within one tree
    Artifacts,   \* the manifest and the tokens among them
    Module,      \* submodule names
    Safe,        \* those that stay inside the module store
    None         \* nothing there

\* Object stores are finite.
ASSUME SnapshotAssumption ==
    /\ IsFiniteSet(Tree) /\ IsFiniteSet(Path)
    /\ Safe \subseteq Module
    /\ None \notin Module

\* A tracked path: a file of a mode the manifest can spell, a gitlink, or
\* any other mode.
Record == [path : Path, kind : {"file", "other"}, commit : {None}]
          \cup [path : Path, kind : {"gitlink"}, commit : Commit]

\* A tree with the place it has in the snapshot and the trees of its chain.
RepositoryTree == [repository : Repository, tree : Tree,
                   prefix : Seq(Path), ancestors : Seq(Tree)]

\* The content of an entry is what its tree has at its path.
Entry == [location : Seq(Path), tree : Tree, path : Path]

VARIABLES
    records,     \* what each tree tracks
    treeOf,      \* the tree of each commit
    gitmodules,  \* per tree, the name of each gitlink; None: no such file
    holds,       \* the trees and commits each repository has
    store,       \* repositories in the module store of each, by name
    embedded,    \* repositories in the working tree of each, by path
    root,        \* the repository and the tree to enumerate
    pending,     \* trees to enumerate
    entries,
    outcome      \* "walking", "done" or "failed"

world == <<records, treeOf, gitmodules, holds, store, embedded, root>>
snapshotVars == <<world, pending, entries, outcome>>

SnapshotTypeOK ==
    /\ records \in [Tree -> SUBSET Record]
    /\ treeOf \in [Commit -> Tree]
    /\ gitmodules \in [Tree -> [Path -> Module \cup {None}] \cup {None}]
    /\ holds \in [Repository -> SUBSET (Tree \cup Commit)]
    /\ store \in [Repository -> [Module -> Repository \cup {None}]]
    /\ embedded \in [Repository -> [Path -> Repository \cup {None}]]
    /\ root \in [repository : Repository, tree : Tree]
    /\ pending \in Seq(RepositoryTree)
    /\ entries \in Seq(Entry)
    /\ outcome \in {"walking", "done", "failed"}

\* External: git tracks a path once in a tree.
OnePerPath ==
    \A t \in Tree : \A r, s \in records[t] : r.path = s.path => r = s

-----------------------------------------------------------------------------
\* Broken on purpose: a submodule's stamps are left out as well.
IsExcludedAnywhere(node, record) == record.path \in Artifacts

\* is_excluded_from_root, at the snapshot root only.
IsExcluded(node, record) ==
    node.prefix = <<>> /\ record.path \in Artifacts

Covered(node) == {r \in records[node.tree] : ~IsExcluded(node, r)}

Gitlinks(node) == {r \in Covered(node) : r.kind = "gitlink"}

\* is_safe_module_name: no name that walks out of the module store.
IsSafe(name) == name \in Safe

InStore(node, name) ==
    IF IsSafe(name) THEN store[node.repository][name] ELSE None

\* parse_gitmodules: the .gitmodules of the tree, whatever is checked out.
Modules(node) == gitmodules[node.tree]

\* Broken on purpose: the working tree comes before the module store.
OpenedEmbeddedFirst(node, link) ==
    LET name == Modules(node)[link.path]
    IN  IF embedded[node.repository][link.path] # None
        THEN embedded[node.repository][link.path]
        ELSE InStore(node, name)

\* The repository of a gitlink, or None.
Opened(node, link) ==
    LET name == Modules(node)[link.path]
    IN  IF InStore(node, name) # None
        THEN InStore(node, name)
        ELSE embedded[node.repository][link.path]

\* Broken on purpose: only the tree above is compared.
ReentersParent(node, tree) == tree = node.tree

\* The tree is on the chain of gitlinks that leads here.
Reenters(node, tree) == \E i \in DOMAIN node.ancestors :
                            node.ancestors[i] = tree

Resolves(node, link) ==
    /\ Modules(node) # None
    /\ Modules(node)[link.path] # None
    /\ Opened(node, link) # None
    /\ link.commit \in holds[Opened(node, link)]
    /\ ~Reenters(node, treeOf[link.commit])

\* resolve_gitlink, where it succeeds.
Resolved(node, link) ==
    [repository |-> Opened(node, link),
     tree |-> treeOf[link.commit],
     prefix |-> Append(node.prefix, link.path),
     ancestors |-> Append(node.ancestors, treeOf[link.commit])]

\* Whether traverse_repository_tree has no error to return.
Traversable(node) ==
    /\ node.tree \in holds[node.repository]
    /\ \A r \in Covered(node) : r.kind # "other"
    /\ \A link \in Gitlinks(node) : Resolves(node, link)

\* read_entry.
EntryOf(node, record) ==
    [location |-> Append(node.prefix, record.path),
     tree |-> node.tree, path |-> record.path]

-----------------------------------------------------------------------------
SnapshotStart ==
    /\ pending = <<[repository |-> root.repository, tree |-> root.tree,
                    prefix |-> <<>>, ancestors |-> <<root.tree>>]>>
    /\ entries = <<>>
    /\ outcome = "walking"

\* The records of a tree come in an order of no consequence.
Enumerate ==
    /\ outcome = "walking"
    /\ pending # <<>>
    /\ LET node == Head(pending)
           files == Covered(node) \ Gitlinks(node)
       IN  /\ Traversable(node)
           /\ entries' = entries \o
                  SetToSeq({EntryOf(node, r) : r \in files})
           /\ pending' = Tail(pending) \o
                  SetToSeq({Resolved(node, link) : link \in Gitlinks(node)})
    /\ UNCHANGED <<world, outcome>>

RefuseTree ==
    /\ outcome = "walking"
    /\ pending # <<>>
    /\ ~Traversable(Head(pending))
    /\ outcome' = "failed"
    /\ UNCHANGED <<world, pending, entries>>

FinishSnapshot ==
    /\ outcome = "walking"
    /\ pending = <<>>
    /\ outcome' = "done"
    /\ UNCHANGED <<world, pending, entries>>

SnapshotNext == Enumerate \/ RefuseTree \/ FinishSnapshot

SnapshotSpec ==
    /\ SnapshotTypeOK /\ OnePerPath /\ SnapshotStart
    /\ [][SnapshotNext]_snapshotVars

-----------------------------------------------------------------------------
(***************************************************************************)
(* The files of a snapshot as stamping.md 4.2 names them, from the trees   *)
(* alone: a walk is a sequence of gitlinks, each tracked by the tree the   *)
(* one before it leads to, and every path its last tree tracks is a file   *)
(* of the snapshot unless it is a gitlink or an artifact of the root.      *)
(***************************************************************************)
Links == UNION {{r \in records[t] : r.kind = "gitlink"} : t \in Tree}

Target(walk, n) == IF n = 0 THEN root.tree ELSE treeOf[walk[n].commit]

Walks(length) ==
    {w \in [1..length -> Links] :
        /\ \A n \in 1..length : w[n] \in records[Target(w, n - 1)]
        /\ length > 0 => w[1].path \notin Artifacts}

Prefix(walk) == [n \in DOMAIN walk |-> walk[n].path]

TrackedFiles(walk) ==
    LET tree == Target(walk, Len(walk))
    IN  {[location |-> Append(Prefix(walk), r.path), tree |-> tree,
          path |-> r.path] :
             r \in {r \in records[tree] :
                       /\ r.kind # "gitlink"
                       /\ walk = <<>> => r.path \notin Artifacts}}

\* No walk of a snapshot that succeeds passes a tree twice.
SnapshotFiles ==
    UNION {UNION {TrackedFiles(w) : w \in Walks(n)} :
           n \in 0..Cardinality(Tree)}

(***************************************************************************)
(* A manifest covers its snapshot: the entries are the tracked files, each *)
(* once, however often one submodule is used and wherever its repository   *)
(* was found; where a mode or a gitlink is not understood there is no      *)
(* snapshot at all.                                                        *)
(***************************************************************************)
CoversTheSnapshot ==
    outcome = "done" =>
        /\ Range(entries) = SnapshotFiles
        /\ Len(entries) = Cardinality({e.location : e \in Range(entries)})

(***************************************************************************)
(* History stays readable, as the comment on the module store promises: if *)
(* the trees are in order and every submodule is in the module store, a    *)
(* snapshot succeeds whatever became of the repositories embedded in the   *)
(* working tree.                                                           *)
(***************************************************************************)
InOrder(t) ==
    /\ \A r \in records[t] : r.kind # "other"
    /\ \A link \in records[t] \cap Links :
           /\ gitmodules[t] # None
           /\ gitmodules[t][link.path] \in Safe

Stored ==
    \A repo \in Repository, name \in Safe :
        /\ store[repo][name] # None
        /\ Tree \cup Commit \subseteq holds[store[repo][name]]

Acyclic == Walks(Cardinality(Tree)) = {}

HistoryStaysReadable ==
    outcome = "failed" =>
        ~ (/\ root.tree \in holds[root.repository]
           /\ \A t \in Tree : InOrder(t)
           /\ Stored
           /\ Acyclic)

(***************************************************************************)
(* The walk is bounded even if gitlinks could lead back to a tree above:   *)
(* nesting stays below the number of trees there are, and a tree has       *)
(* finitely many gitlinks, so every snapshot ends.                         *)
(***************************************************************************)
WalkIsBounded ==
    \A i \in DOMAIN pending : Len(pending[i].prefix) < Cardinality(Tree)
=============================================================================
