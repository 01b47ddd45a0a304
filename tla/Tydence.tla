------------------------------ MODULE Tydence -------------------------------
(***************************************************************************)
(* A repository under tydence: invocations of `tydence stamp` (Stamping,   *)
(* then the convergence of Checkout) and `tydence drop` (Checkout) run as  *)
(* processes against one repository, next to the authorities of Stamping   *)
(* and to the user's own git commands.  `tydence precommit` is the guard   *)
(* of the commits git makes; `tydence verify` reads and never writes, and  *)
(* is the operator AuditPasses.                                            *)
(***************************************************************************)
EXTENDS Stamping, Checkout

CONSTANTS
    Exclusive,  \* whether one command at a time touches the repository
    Steady,     \* whether no CRL is overdue, nor falls due during a stamp
    UserDoes    \* what the user does besides stamping: a subset of Habits

VARIABLE
    hook        \* the HEAD a git commit found, once its hook passed; or 0

Habits == {"edit", "add", "commit", "commit unguarded", "reset", "restore",
           "amend", "drop"}

ASSUME TydenceAssumption ==
    /\ Exclusive \in BOOLEAN
    /\ Steady \in BOOLEAN
    /\ UserDoes \subseteq Habits
    /\ Faults \subseteq StampSteps \cup CheckoutSteps

vars == <<repoVars, pc, result, stampingVars, checkoutVars, hook>>

TypeOK ==
    /\ RepositoryTypeOK
    /\ StampingTypeOK
    /\ CheckoutTypeOK
    /\ pc \in [Proc -> {"idle"} \cup StampSteps \cup CheckoutSteps]
    /\ result \in [Proc -> Nat]
    /\ hook \in Nat

-----------------------------------------------------------------------------
Quiet == hook = 0 /\ \A p \in Proc : pc[p] = "idle"
MayAct == Exclusive => Quiet

\* The repository tydence is adopted in: one commit, checked out.
Init ==
    /\ \E c \in Content :
           LET files == [content |-> c, manifest |-> None,
                         tokens |-> NoTokens, chains |-> NoChains,
                         crls |-> NoCrls]
           IN  /\ commits = <<[parents |-> {}, tree |-> files,
                               sealed |-> FALSE]>>
               /\ index = files
               /\ work = files
    /\ manifests = <<>>
    /\ head = 1
    /\ pc = [p \in Proc |-> "idle"]
    /\ result = [p \in Proc |-> 0]
    /\ StampingInit
    /\ CheckoutInit
    /\ hook = 0

-----------------------------------------------------------------------------
\* The user's own git commands.
UserUnchanged ==
    UNCHANGED <<manifests, pc, result, stampingVars, checkoutVars>>

\* Files outside .tydence/ are edited and added.
Edit(c) ==
    /\ index.content # c
    /\ work' = [work EXCEPT !.content = c]
    /\ index' = [index EXCEPT !.content = c]
    /\ UserUnchanged /\ UNCHANGED <<commits, head, hook>>

\* git add --all: the index becomes what the working tree holds.
AddAll ==
    /\ index # work
    /\ index' = work
    /\ UserUnchanged /\ UNCHANGED <<commits, head, work, hook>>

\* Broken on purpose: the guard lets everything pass.
HookAlwaysPasses == hook \in Nat

\* staged_artifacts is empty.
HookPasses == ~HasArtifacts(index)

\* git commit: `tydence precommit` finds no staged artifact...
CommitBegin ==
    /\ hook = 0
    /\ HookPasses
    /\ index # TreeOf(head)
    /\ Len(commits) < MaxCommits
    /\ hook' = head
    /\ UserUnchanged /\ UNCHANGED <<commits, head, index, work>>

Committed(others) ==
    /\ commits' = Append(commits, [parents |-> {head} \cup others,
                                   tree    |-> index,
                                   sealed  |-> FALSE])
    /\ head' = Len(commits')

(***************************************************************************)
(* ...and git writes a commit of the index as it is by now, concluding a   *)
(* merge perhaps, and moves the branch unless somebody else did.           *)
(***************************************************************************)
CommitEnd ==
    /\ hook # 0
    /\ hook' = 0
    /\ IF head = hook
       THEN \E others \in {{}} \cup
                {{q} : q \in (DOMAIN commits) \ History(head)} :
                Committed(others)
       ELSE UNCHANGED <<commits, head>>
    /\ UserUnchanged /\ UNCHANGED <<index, work>>

\* git commit --no-verify.
CommitUnguarded ==
    /\ hook = 0
    /\ index # TreeOf(head)
    /\ Len(commits) < MaxCommits
    /\ Committed({})
    /\ UserUnchanged /\ UNCHANGED <<index, work, hook>>

\* git reset --hard: the branch, the index and the tracked files follow.
ResetHard(c) ==
    /\ c # head
    /\ head' = c
    /\ index' = TreeOf(c)
    /\ work' = CheckOut(TreeOf(c), index, work)
    /\ UserUnchanged /\ UNCHANGED <<commits, hook>>

\* The recovery the command line prints when the convergence fails:
\* git restore --source=HEAD --staged --worktree -- .tydence
Restore ==
    /\ index' = [TreeOf(head) EXCEPT !.content = index.content]
    /\ work' = [CheckOut(TreeOf(head), index, work) EXCEPT
                   !.content = work.content]
    /\ UserUnchanged /\ UNCHANGED <<commits, head, hook>>

UserStep ==
    \/ CommitEnd
    \/ /\ MayAct
       /\ \/ "edit" \in UserDoes /\ \E c \in Content : Edit(c)
          \/ "add" \in UserDoes /\ AddAll
          \/ "commit" \in UserDoes /\ CommitBegin
          \/ "commit unguarded" \in UserDoes /\ CommitUnguarded
          \/ "reset" \in UserDoes /\ \E c \in DOMAIN commits : ResetHard(c)
          \/ "restore" \in UserDoes /\ Restore

-----------------------------------------------------------------------------
\* An invocation of `tydence stamp` or `tydence drop` starts...
Begin(p) ==
    /\ MayAct
    /\ \/ \E amending \in IF "amend" \in UserDoes THEN BOOLEAN ELSE {FALSE} :
              StampBegin(p, amending) /\ UNCHANGED <<checkoutVars, hook>>
       \/ /\ "drop" \in UserDoes
          /\ DropOpen(p) /\ UNCHANGED <<stampingVars, hook>>

\* ...goes on...
Proceed(p) ==
    \/ StampStep(p) /\ UNCHANGED <<checkoutVars, hook>>
    \/ (SyncStep(p) \/ DropStep(p)) /\ UNCHANGED <<stampingVars, hook>>

\* ...and may be cut short.
Fail(p) ==
    \/ StampFails(p) /\ UNCHANGED <<checkoutVars, hook>>
    \/ CheckoutFails(p) /\ UNCHANGED <<stampingVars, hook>>

\* Time passes; in a steady world between invocations, and only while
\* every issuer's CRL stays current.
TimePasses ==
    /\ Steady => /\ Quiet
                 /\ \A i \in Issuer : Decides(crl[i], now + 1)
    /\ Tick

World ==
    /\ \/ TimePasses
       \/ \E i \in Issuer : Publish(i)
       \/ \E s \in Site : Rotate(s)
    /\ UNCHANGED <<checkoutVars, hook>>

Next ==
    \/ \E p \in Proc : Begin(p) \/ Proceed(p) \/ Fail(p)
    \/ UserStep
    \/ World

(***************************************************************************)
(* A process that can take its next step takes it: no step waits for       *)
(* another process, file and object accesses return, and every HTTP        *)
(* exchange is bounded by a timeout (transport.rs).  Nothing is assumed of *)
(* the user, the authorities or the faults.                                *)
(***************************************************************************)
Spec == Init /\ [][Next]_vars /\ \A p \in Proc : WF_vars(Proceed(p))

-----------------------------------------------------------------------------
(***************************************************************************)
(* `tydence verify --commit start`: the nearest claims behind the commit   *)
(* are judged with the CRLs of its tree, of the claims' trees and of the   *)
(* working tree.  A claim holds if its manifest describes its tree, every  *)
(* group's hashes are those of the commit it names, and a token verifies.  *)
(***************************************************************************)
Material(start, files) ==
    LET sources == {TreeOf(c) : c \in {start} \cup NearestClaims({start})}
    IN  [i \in Issuer |-> {tree.crls[i] : tree \in sources \cup {files}}
                              \ {None}]

Linked(group) ==
    /\ Claims(group.commit)
    /\ TreeOf(group.commit).manifest = group.manifest
    /\ \A s \in Site :
           group.tokens[s] \in {None, TreeOf(group.commit).tokens[s]}

Judged(c, material) ==
    LET tree == TreeOf(c)
    IN  /\ manifests[tree.manifest].entries = SnapshotOf(tree)
        /\ \A group \in manifests[tree.manifest].groups : Linked(group)
        /\ \E s \in Site :
               /\ tree.tokens[s] # None
               /\ TokenVerifies(tree.tokens[s], tree.manifest,
                                material[IssuerOf[s]])

AuditPasses(start, files) ==
    /\ NearestClaims({start}) # {}
    /\ \A c \in NearestClaims({start}) : Judged(c, Material(start, files))

-----------------------------------------------------------------------------
(***************************************************************************)
(* A sealed commit never claims more than was done, whatever happened to   *)
(* the repository while the flow ran: its tokens are those of TSAs over    *)
(* its own manifest, at least one; the manifest describes its tree and     *)
(* names its parents; and what it binds is what the bound commits hold.    *)
(***************************************************************************)
SealedStampsHold ==
    \A c \in DOMAIN commits : commits[c].sealed =>
        LET tree     == TreeOf(c)
            manifest == manifests[tree.manifest]
            tokens   == {tree.tokens[s] : s \in Site} \ {None}
        IN  /\ tokens # {}
            /\ \A t \in tokens : t.genuine /\ t.imprint = tree.manifest
            /\ manifest.parents = commits[c].parents
            /\ manifest.entries = SnapshotOf(tree)
            /\ \A group \in manifest.groups : Linked(group)

(***************************************************************************)
(* No line of evidence is left dangling: the renewal chain, followed from  *)
(* a stamp's manifest through the manifests it binds, reaches the manifest *)
(* of every claim in its history, over merges, amended tips and commits    *)
(* that inherited a manifest.                                              *)
(***************************************************************************)
RenewalChain(m) ==
    LET chain[k \in DOMAIN manifests] ==
            {k} \cup UNION {chain[g.manifest] : g \in manifests[k].groups}
    IN  chain[m]

RenewalChainCoversHistory ==
    \A c \in DOMAIN commits : commits[c].sealed =>
        \A d \in History(c) : Claims(d) =>
            TreeOf(d).manifest \in RenewalChain(TreeOf(c).manifest)

(***************************************************************************)
(* Only the sealing flow makes a commit claim, when nobody bypasses the    *)
(* pre-commit guard and one command runs at a time: an ordinary commit     *)
(* carries no artifact, whatever was interrupted, reset or restored.       *)
(***************************************************************************)
OnlySealsClaim ==
    \A c \in DOMAIN commits : HasArtifacts(TreeOf(c)) => commits[c].sealed

(***************************************************************************)
(* Every chain record, in the working tree, the index or a commit, is the  *)
(* chain of a token that verified: material of a rejected token is never   *)
(* settled.                                                                *)
(***************************************************************************)
OnlyVerifiedMaterialSettles ==
    \A files \in {index, work} \cup {TreeOf(c) : c \in DOMAIN commits} :
        \A i \in Issuer : files.chains[i] \in learned \cup {None}

(***************************************************************************)
(* No stamp is lost to a race: as long as the user neither amends nor      *)
(* resets, every commit ever sealed is behind the branch, whoever else     *)
(* stamped or committed at the same time.                                  *)
(***************************************************************************)
NoStampIsLost ==
    \A c \in DOMAIN commits : commits[c].sealed => c \in History(head)

(***************************************************************************)
(* LTV records are permanent: a commit on one parent, stamped or not, has  *)
(* a record at every path its parent has one.                              *)
(***************************************************************************)
RecordsArePermanent ==
    \A c \in DOMAIN commits : \A q \in commits[c].parents :
        Cardinality(commits[c].parents) = 1 =>
            \A i \in Issuer :
                /\ TreeOf(q).chains[i] # None => TreeOf(c).chains[i] # None
                /\ TreeOf(q).crls[i] # None => TreeOf(c).crls[i] # None

(***************************************************************************)
(* Recovery: the command the error message names leaves the checkout as a  *)
(* finished convergence does, artifact for artifact.                       *)
(***************************************************************************)
RestoreConverges ==
    [][Restore =>
          \A files \in {index', work'} :
              /\ files.manifest = TreeOf(head).manifest
              /\ files.tokens = TreeOf(head).tokens]_vars

-----------------------------------------------------------------------------
Finishes(p) == StageNothing(p) \/ StageIndex(p)

(***************************************************************************)
(* A fresh stamp reads clean, artifacts in place: when the command is done *)
(* and nobody interfered, the index and the working tree agree with the    *)
(* sealed commit on every path it has under .tydence, neither holds an     *)
(* artifact it has not, and every record of the working tree is queued.    *)
(***************************************************************************)
FreshStampReadsClean ==
    [][\A p \in Proc : Finishes(p) =>
          LET tree == TreeOf(result[p])
          IN  /\ head = result[p]
              /\ \A files \in {index', work'} :
                     /\ files.manifest = tree.manifest
                     /\ files.tokens = tree.tokens
                     /\ files.chains = Overlay(tree.chains, files.chains)
                     /\ files.crls = Overlay(tree.crls, files.crls)
              /\ index'.chains = Overlay(work'.chains, index'.chains)
              /\ index'.crls = Overlay(work'.crls, index'.crls)]_vars

(***************************************************************************)
(* A stamp that was just made passes the audit from its own commit, with   *)
(* the working tree the command leaves behind.                             *)
(***************************************************************************)
FreshStampPasses ==
    [][\A p \in Proc : Finishes(p) => AuditPasses(result[p], work')]_vars

(***************************************************************************)
(* Evidence does not decay: when a stamp is done, it and every stamp       *)
(* behind it pass the audit with the records of its tree and the working    *)
(* tree, as long as the authorities are steady.                            *)
(***************************************************************************)
EvidenceStays ==
    [][\A p \in Proc : Finishes(p) =>
          \A c \in History(result[p]) :
              commits[c].sealed =>
                  Judged(c, Material(result[p], work'))]_vars

(***************************************************************************)
(* From its second use on, a site's stamps are self-contained: a sealed    *)
(* tree with the chain of one of its tokens also has a CRL that decides    *)
(* that token.                                                             *)
(***************************************************************************)
SecondUseIsSelfContained ==
    \A c \in DOMAIN commits : commits[c].sealed =>
        \A s \in Site :
            LET tree   == TreeOf(c)
                token  == tree.tokens[s]
                issuer == IssuerOf[s]
            IN  /\ token # None
                /\ tree.chains[issuer] = [site |-> s, gen |-> token.gen]
                => /\ tree.crls[issuer] # None
                   /\ Decides(tree.crls[issuer], token.genTime)

(***************************************************************************)
(* The working tree holds the latest data per issuer: when the command is  *)
(* done, the chain record of each issuer is the chain of one of the tokens *)
(* it just sealed, for the following stamp to seal.                        *)
(***************************************************************************)
LearnedChainsAreKept ==
    [][\A p \in Proc : Finishes(p) =>
          LET tokens == TreeOf(result[p]).tokens
              used   == {s \in Site : tokens[s] # None}
          IN  \A i \in {IssuerOf[s] : s \in used} :
                  work'.chains[i] \in
                      {[site |-> s, gen |-> tokens[s].gen] : s \in used}]_vars

-----------------------------------------------------------------------------
(***************************************************************************)
(* Every stamp takes effect in one step, as module StampedBranch has it,   *)
(* however its invocation overlaps with others, with git and with the      *)
(* user, and wherever it dies: from the tip at the moment the branch moves *)
(* to a stamp of that very tip that binds its nearest stamps.  And no      *)
(* shuffling of manifests and tokens between checkout, index and commits   *)
(* by anybody makes a claim, or backs one, that a stamp did not make.      *)
(***************************************************************************)
RecordsOf(files) ==
    {<<"chain", i>> : i \in {i \in Issuer : files.chains[i] # None}}
    \cup {<<"crl", i>> : i \in {i \in Issuer : files.crls[i] # None}}

ClaimOf(manifest) ==
    [parents |-> manifest.parents,
     content |-> manifest.entries.content,
     records |-> RecordsOf(manifest.entries),
     binds   |-> {group.commit : group \in manifest.groups}]

Vouching(files) ==
    {s \in Site : /\ files.tokens[s] # None
                  /\ files.tokens[s].genuine
                  /\ files.tokens[s].imprint = files.manifest}

Chapter(c) ==
    [parents |-> commits[c].parents,
     content |-> TreeOf(c).content,
     records |-> RecordsOf(TreeOf(c)),
     claims  |-> IF Claims(c) THEN {ClaimOf(manifests[TreeOf(c).manifest])}
                 ELSE {},
     vouched |-> Vouching(TreeOf(c))]

Story == [c \in DOMAIN commits |-> Chapter(c)]

Abstract == INSTANCE StampedBranch WITH
    Record <- {"chain", "crl"} \X Issuer,
    story  <- Story,
    tip    <- head

StampIsOneStep == Abstract!Branch

(***************************************************************************)
(* Every invocation ends, sealed or refused, whatever other invocations,   *)
(* the user and the authorities do in the meantime.                        *)
(***************************************************************************)
InvocationsEnd ==
    \A p \in Proc : pc[p] # "idle" ~> pc[p] = "idle"
=============================================================================
