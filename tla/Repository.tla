----------------------------- MODULE Repository -----------------------------
(***************************************************************************)
(* The git repository a tydence command works on, as the code in           *)
(* crates/tydence/src sees it: an append-only store of commits, one        *)
(* checked-out branch, the index and the working tree.  The module holds   *)
(* the data model and the reading operators the stamping and the checkout  *)
(* operations share; it takes no step of its own.                          *)
(*                                                                         *)
(* Hashes are injective here: a double hash is modelled by the value it    *)
(* hashes, and a manifest by its position in a table of distinct           *)
(* manifests, so equal bytes and equal hashes coincide.                    *)
(***************************************************************************)
EXTENDS Naturals, Sequences, FiniteSets

CONSTANTS
    Proc,      \* concurrent invocations of the tydence command
    Site,      \* configured (TSA, imprint algorithm) pairs
    Issuer,    \* names that issue TSA certificates and CRLs
    IssuerOf,  \* the issuer of each site's signer certificate
    Content,   \* what the files outside .tydence/ hold, as a whole
    Faults,    \* the steps at which an invocation may fail or be killed
    None       \* an absent file

(***************************************************************************)
(* A chain record is the certificate chain a site's token embeds; gen      *)
(* counts the site's signer certificates.  A CRL is its thisUpdate.        *)
(***************************************************************************)
Chain == [site : Site, gen : Nat]
Crl   == Nat
Token == [site : Site, gen : Nat, imprint : Nat, genTime : Nat,
          genuine : BOOLEAN]

ManifestFile == Nat \cup {None}
TokenFiles   == [Site -> Token \cup {None}]
ChainFiles   == [Issuer -> Chain \cup {None}]
CrlFiles     == [Issuer -> Crl \cup {None}]

\* The files of a tree, of the index or of the working tree.
Files == [content : Content, manifest : ManifestFile, tokens : TokenFiles,
          chains : ChainFiles, crls : CrlFiles]

ASSUME RepositoryAssumption ==
    /\ IssuerOf \in [Site -> Issuer]
    /\ IsFiniteSet(Site)
    /\ None \notin Nat
    /\ None \notin Chain
    /\ None \notin Token
    /\ None \notin Files

\* What a manifest enumerates: everything but the stamp's own artifacts.
Snapshot == [content : Content, chains : ChainFiles, crls : CrlFiles]

\* One bound stamp: its position annotation and its artifacts' hashes.
Group == [commit : Nat, manifest : ManifestFile, tokens : TokenFiles]

Manifest == [parents : SUBSET Nat, groups : SUBSET Group,
             entries : Snapshot]

\* sealed is history: TRUE of the commits the sealing flow wrote.
Commit == [parents : SUBSET Nat, tree : Files, sealed : BOOLEAN]

VARIABLES
    commits,    \* the object store: every commit ever written
    manifests,  \* the table of manifests, by which hashes are compared
    head,       \* the tip of the branch HEAD points at
    index,      \* the git index
    work,       \* the files of the working tree
    pc,         \* the step each invocation is at
    result      \* the commit it just sealed, while the checkout converges

repoVars == <<commits, manifests, head, index, work>>

RepositoryTypeOK ==
    /\ commits \in Seq(Commit)
    /\ manifests \in Seq(Manifest)
    /\ head \in Nat
    /\ index \in Files
    /\ work \in Files

-----------------------------------------------------------------------------
NoTokens == [s \in Site |-> None]
NoChains == [i \in Issuer |-> None]
NoCrls   == [i \in Issuer |-> None]

TreeOf(c) == commits[c].tree

\* is_excluded_from_root: the snapshot leaves out manifest and tokens/.
SnapshotOf(files) ==
    [content |-> files.content, chains |-> files.chains,
     crls |-> files.crls]

\* The stamp artifacts of a set of files: is_stamp_artifact.
HasArtifacts(files) ==
    files.manifest # None \/ files.tokens # NoTokens

\* Broken on purpose: all of .tydence/ goes.
WithoutTydence(files) ==
    [files EXCEPT !.manifest = None, !.tokens = NoTokens,
                  !.chains = NoChains, !.crls = NoCrls]

\* What drop_artifacts leaves: everything else, the LTV records included.
WithoutArtifacts(files) ==
    [files EXCEPT !.manifest = None, !.tokens = NoTokens]

\* A commit claims to be stamped by carrying .tydence/manifest.
Claims(c) == TreeOf(c).manifest # None

\* Broken on purpose: only one line of history is followed.
ClosedUnderOneParent(visited) ==
    \A c \in visited :
        \/ Claims(c)
        \/ commits[c].parents = {}
        \/ (CHOOSE q \in commits[c].parents : TRUE) \in visited

(***************************************************************************)
(* nearest_claiming_commits: every line of history behind the starting     *)
(* commits, followed to its nearest claim.  What the walk visits is the    *)
(* least set that holds the starting commits and the parents of every      *)
(* commit in it that does not claim; module ClaimWalk has the walk itself, *)
(* step by step.                                                           *)
(***************************************************************************)
ClosedUnderWalk(visited) ==
    \A c \in visited : Claims(c) \/ commits[c].parents \subseteq visited

Walked(starts) ==
    {c \in DOMAIN commits :
        \A visited \in SUBSET (DOMAIN commits) :
            starts \subseteq visited /\ ClosedUnderWalk(visited)
                => c \in visited}

NearestClaims(starts) == {c \in Walked(starts) : Claims(c)}

\* A bound stamp's hashes, read off its tree.
BoundStamp(c) ==
    [commit |-> c, manifest |-> TreeOf(c).manifest,
     tokens |-> TreeOf(c).tokens]

(***************************************************************************)
(* Claims whose manifests are the same bytes collapse into one group.      *)
(* The code keeps the smallest commit hex, an order unrelated to age; the  *)
(* model fixes it as the oldest of them.                                   *)
(***************************************************************************)
BoundGroups(parents) ==
    LET claiming == NearestClaims(parents)
    IN  {BoundStamp(c) : c \in
            {c \in claiming : \A d \in claiming :
                TreeOf(d).manifest = TreeOf(c).manifest => c <= d}}

(***************************************************************************)
(* Writing a tree out over a checkout, file by file: what the tree has is  *)
(* laid over the current files, and what the index tracks and the tree     *)
(* lacks is removed.  A file nobody tracks stays.                          *)
(***************************************************************************)
Lay(ofTree, current) == IF ofTree # None THEN ofTree ELSE current

Overlay(ofTree, current) ==
    [i \in DOMAIN ofTree |-> Lay(ofTree[i], current[i])]

LeaveStale(ofTree, tracked, current) ==
    IF ofTree = None /\ tracked # None THEN None ELSE current

FileAfter(ofTree, tracked, current) ==
    LeaveStale(ofTree, tracked, Lay(ofTree, current))

DirectoryAfter(ofTree, tracked, current) ==
    [i \in DOMAIN ofTree |-> FileAfter(ofTree[i], tracked[i], current[i])]

CheckOut(tree, tracked, current) ==
    [content  |-> tree.content,
     manifest |-> FileAfter(tree.manifest, tracked.manifest,
                            current.manifest),
     tokens   |-> DirectoryAfter(tree.tokens, tracked.tokens, current.tokens),
     chains   |-> DirectoryAfter(tree.chains, tracked.chains, current.chains),
     crls     |-> DirectoryAfter(tree.crls, tracked.crls, current.crls)]

\* Every invocation is a process that goes from step to step.
Step(p, from, to) ==
    /\ pc[p] = from
    /\ pc' = [pc EXCEPT ![p] = to]

\* The commits reachable from c, c included.
History(c) ==
    LET past[d \in DOMAIN commits] ==
            {d} \cup UNION {past[q] : q \in commits[d].parents}
    IN  past[c]
=============================================================================
