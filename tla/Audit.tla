------------------------------- MODULE Audit --------------------------------
(***************************************************************************)
(* `tydence verify`: the audit of crates/tydence/src/audit.rs with the     *)
(* verdict of verify/stamp.rs, run against a repository whose history is   *)
(* edited, tampered with, pruned and cut shallow by anyone with git.       *)
(*                                                                         *)
(* From a starting commit the audit walks to the nearest claim on every    *)
(* line of history (module ClaimWalk has the walk itself), gathers the     *)
(* LTV records, and judges claim by claim.  Commits may vanish from the    *)
(* object store between any two of its steps.                              *)
(*                                                                         *)
(* A token is its site, the manifest it covers and whether an authority    *)
(* made it; module TokenVerdict has the verification of one token.  An LTV *)
(* record of a site decides that its chain stands, or disqualifies it, or  *)
(* is foreign: not laid out, or not framed, as a record; or it is framed   *)
(* and garbled: no CRL is in it, which only a token's verification finds.  *)
(***************************************************************************)
EXTENDS Naturals, Sequences, FiniteSets, Functions

CONSTANTS
    Site,
    Disturbed,     \* the sites whose deposits others than tydence change
    Content,       \* what the files outside .tydence/ hold, as a whole
    Unsupported,   \* a content no snapshot enumerates
    None,          \* an absent file
    MaxCommits,    \* bound on the commits ever written
    MaxTampered    \* bound on those that were tampered with

CommitId == 1..MaxCommits

Record  == {"decides", "disqualifies", "garbled", "foreign"}
Records == [Site -> Record \cup {None}]

\* Tokens carry their bytes' meaning; a group carries hashes of them.
TokenFile  == [imprint : CommitId, genuine : BOOLEAN]
TokenFiles == [Site -> TokenFile \cup {None}]

ASSUME AuditAssumption ==
    /\ Disturbed \subseteq Site
    /\ Unsupported \notin Content
    /\ MaxCommits \in Nat \ {0}
    /\ MaxTampered \in Nat
    /\ None \notin CommitId \cup TokenFile \cup {0, 1, 2}

\* Manifests are numbered: equal numbers are equal bytes and equal hashes.
\* laidOut says that the stamp artifacts are files where they should be.
Tree == [content : Content \cup {Unsupported},
         manifest : CommitId \cup {None}, tokens : TokenFiles,
         records : Records, laidOut : BOOLEAN]

Snapshot == [content : Content \cup {Unsupported}, records : Records]

\* predecessor says that the bound stamp is of another repository.
Group == [commit : CommitId, manifest : CommitId, tokens : TokenFiles,
          predecessor : BOOLEAN]

ManifestText == [parses : BOOLEAN, entries : Snapshot, groups : SUBSET Group]

VARIABLES
    commits,    \* every commit ever written
    manifests,  \* every manifest text ever written
    stored,     \* the commits the object store has
    head,       \* the branch
    work,       \* the LTV records of the working tree
    issued,     \* history: what authorities stamped, and of which tree
    phase,      \* the audit: "idle", "walk", "gather", "deposits", "judge"
                \* or "done"
    start,      \* the commit it starts from
    nearest,    \* the claims it found
    material,   \* the records at hand, by site
    unsealed,   \* the sites whose deposit the starting tree lacks
    verdicts,   \* whether each claim judged so far passes
    exit        \* the exit code

repository == <<commits, manifests, stored, head, work, issued>>
auditVars == <<phase, start, nearest, material, unsealed, verdicts, exit>>
vars == <<repository, auditVars>>

AuditTypeOK ==
    /\ commits \in Seq([parents : Seq(CommitId), tree : Tree,
                        by : {"root", "stamp", "replay", "user", "tamper"}])
    /\ manifests \in Seq(ManifestText)
    /\ stored \subseteq DOMAIN commits
    /\ head \in DOMAIN commits
    /\ work \in Records
    /\ issued \subseteq [site : Site, manifest : CommitId, tree : Snapshot]
    /\ phase \in {"idle", "walk", "gather", "deposits", "judge", "done"}
    /\ start \in DOMAIN commits
    /\ nearest \subseteq DOMAIN commits
    /\ material \in [Site -> SUBSET Record]
    /\ unsealed \subseteq Site
    /\ DOMAIN verdicts \subseteq nearest
    /\ exit \in {None, 0, 1, 2}

-----------------------------------------------------------------------------
TreeOf(c) == commits[c].tree
SnapshotOf(tree) == [content |-> tree.content, records |-> tree.records]
Claims(c) == TreeOf(c).manifest # None

NoTokens == [s \in Site |-> None]
NoRecords == [s \in Site |-> None]

WithoutArtifacts(tree) ==
    [tree EXCEPT !.manifest = None, !.tokens = NoTokens, !.laidOut = TRUE]

\* Where steps to parents lead from a commit, past those in passable.
Reached(c, passable) ==
    LET reached[n \in 0..MaxCommits] ==
            IF n = 0 THEN {c}
            ELSE UNION {{d} \cup (IF d \in passable
                                  THEN Range(commits[d].parents) ELSE {}) :
                            d \in reached[n - 1]}
    IN  reached[MaxCommits]

\* The commits nearest_claiming_commits looks at, and the claims among them.
Lines(c) == Reached(c, {d \in DOMAIN commits : ~Claims(d)})
NearestClaims(c) == {d \in Lines(c) : Claims(d)}

Behind(c) == Reached(c, DOMAIN commits)

\* tree_records: the records of the trees a commit's audit reads.
RecordsOf(ids, s) == {TreeOf(c).records[s] : c \in ids} \ {None}

Foreign(ids) == \E s \in Site : "foreign" \in RecordsOf(ids, s)

-----------------------------------------------------------------------------
(***************************************************************************)
(* The verdict on one claim: judge_claim and verify_stamp.  Any object it  *)
(* needs may be missing by now, which fails the claim and nothing else.    *)
(***************************************************************************)
\* read_claim_artifacts.
ArtifactsRead(c) == c \in stored /\ Claims(c) /\ TreeOf(c).laidOut

\* A group is resolved by its --commit annotation, in this repository.
Resolvable(group) == ~group.predecessor /\ ArtifactsRead(group.commit)

\* Broken on purpose: the bound stamp has the named tokens and no other.
LinkedExactly(group) ==
    /\ TreeOf(group.commit).manifest = group.manifest
    /\ TreeOf(group.commit).tokens = group.tokens
    /\ \A s \in Site : group.tokens[s] # None

\* verify_binding_linkage: check 4.
Linked(group) ==
    /\ TreeOf(group.commit).manifest = group.manifest
    /\ \A s \in Site :
           group.tokens[s] \in {None, TreeOf(group.commit).tokens[s]}

\* parse_certificate_list and parse_crl_list: all that was gathered is parsed
\* for each token, whatever site the token is of.
MaterialParses(records) == \A s \in Site : "garbled" \notin records[s]

\* Check 3 of one token.
Accepted(token, manifest, records) ==
    /\ token.genuine
    /\ token.imprint = manifest
    /\ "decides" \in records
    /\ "disqualifies" \notin records

\* Broken on purpose: a file the manifest lists may have changed with the
\* records around it.
AgreesInContent(entries, tree) == entries.content = tree.content

\* Check 2, in both directions.
Agrees(entries, tree) == entries = SnapshotOf(tree)

Passes(c, records) ==
    LET tree == TreeOf(c)
        text == manifests[tree.manifest]
    IN  /\ ArtifactsRead(c)
        /\ tree.content # Unsupported
        /\ text.parses
        /\ \A group \in text.groups : Resolvable(group)
        /\ Agrees(text.entries, tree)
        /\ \A group \in text.groups : Linked(group)
        /\ MaterialParses(records)
        /\ \E s \in Site :
               /\ tree.tokens[s] # None
               /\ Accepted(tree.tokens[s], tree.manifest, records[s])

-----------------------------------------------------------------------------
\* What happens to the history.  Nobody writes it while it is audited.
Write(parents, tree, by) ==
    /\ phase = "idle"
    /\ Len(commits) < MaxCommits
    /\ commits' = Append(commits,
                         [parents |-> parents, tree |-> tree, by |-> by])
    /\ stored' = stored \cup {Len(commits) + 1}
    /\ head' = Len(commits) + 1
    /\ UNCHANGED auditVars

\* One group per bound manifest, each with the tokens of its stamp.
BoundGroups(claiming) ==
    {[commit |-> c, manifest |-> TreeOf(c).manifest,
      tokens |-> TreeOf(c).tokens, predecessor |-> FALSE] :
        c \in {c \in claiming : \A d \in claiming :
                   TreeOf(d).manifest = TreeOf(c).manifest => c <= d}}

\* `tydence stamp`, as modules Stamping and Tydence have it in detail: the
\* working tree's records are sealed, their CRLs fetched anew, the nearest
\* claims are bound, and a site's first chain leaves its record in the
\* working tree.
Stamp(content, sites) ==
    LET old      == TreeOf(head)
        sealing  == [s \in Site |-> CASE work[s] = None -> old.records[s]
                                      [] work[s] = "garbled" -> "decides"
                                      [] OTHER -> work[s]]
        number   == Len(manifests) + 1
        claiming == NearestClaims(head)
        entries  == [content |-> content, records |-> sealing]
    IN  /\ Lines(head) \subseteq stored
        /\ \A c \in claiming : ArtifactsRead(c)
        /\ \A s \in Site : sealing[s] # "foreign"
        /\ Write(<<head>>,
                 [content |-> content, manifest |-> number,
                  tokens |-> [s \in Site |-> IF s \in sites
                      THEN [imprint |-> number, genuine |-> TRUE] ELSE None],
                  records |-> sealing, laidOut |-> TRUE], "stamp")
        /\ manifests' = Append(manifests,
               [parses |-> TRUE, entries |-> entries,
                groups |-> BoundGroups(claiming)])
        /\ issued' = issued \cup
               {[site |-> s, manifest |-> number, tree |-> entries] :
                   s \in sites}
        /\ work' = [s \in Site |-> IF s \in sites /\ sealing[s] = None
                                   THEN "decides" ELSE sealing[s]]

\* A commit past the pre-commit guard inherits the artifacts, one that
\* obeys it has dropped them; either may seal the deposits.
CommitChanges(content, dropping, sealing) ==
    LET changed == [TreeOf(head) EXCEPT
                       !.content = content,
                       !.records = IF sealing
                                   THEN [s \in Site |-> IF work[s] # None
                                           THEN work[s] ELSE @[s]]
                                   ELSE @]
    IN  /\ Write(<<head>>,
                 IF dropping THEN WithoutArtifacts(changed) ELSE changed,
                 "user")
        /\ UNCHANGED <<manifests, work, issued>>

Merge(c) ==
    /\ c \in stored \ {head}
    /\ Write(<<head, c>>, WithoutArtifacts(TreeOf(head)), "user")
    /\ UNCHANGED <<manifests, work, issued>>

\* Rebasing writes a commit again on other parents, with the tree it had.
Replay(c) ==
    /\ c \in stored \ {head}
    /\ Write(<<head>>, TreeOf(c),
             IF commits[c].by = "stamp" THEN "replay" ELSE commits[c].by)
    /\ UNCHANGED <<manifests, work, issued>>

MayTamper ==
    Cardinality({c \in DOMAIN commits : commits[c].by = "tamper"})
        < MaxTampered

\* Artifacts of different stamps put together, or moved out of place.
Recombine(manifest, tokens, laidOut) ==
    /\ MayTamper
    /\ Write(<<head>>, [TreeOf(head) EXCEPT !.manifest = manifest,
                            !.tokens = tokens, !.laidOut = laidOut],
             "tamper")
    /\ UNCHANGED <<manifests, work, issued>>

\* A manifest written by hand, stamped or not: of this tree or of another,
\* unreadable, or bound to a stamp that it cannot know.
Forge(text, genuine) ==
    LET number == Len(manifests) + 1
    IN  /\ MayTamper
        /\ Write(<<head>>, [TreeOf(head) EXCEPT
                     !.manifest = number,
                     !.tokens = [s \in Site |-> [imprint |-> number,
                                                 genuine |-> genuine]]],
                 "tamper")
        /\ manifests' = Append(manifests, text)
        /\ issued' = IF genuine
                     THEN issued \cup {[site |-> s, manifest |-> number,
                                        tree |-> text.entries] : s \in Site}
                     ELSE issued
        /\ UNCHANGED work

ForgedTexts ==
    [parses : BOOLEAN,
     entries : {SnapshotOf(TreeOf(head))},
     groups : {{}} \cup
         {{[commit |-> c, manifest |-> m, tokens |-> TreeOf(c).tokens,
            predecessor |-> p]} :
             c \in DOMAIN commits, m \in DOMAIN manifests, p \in BOOLEAN}]

\* The branch moves; what it leaves behind stays stored until it is pruned.
Reset(c) ==
    /\ phase = "idle"
    /\ c \in stored \ {head}
    /\ head' = c
    /\ UNCHANGED <<commits, manifests, stored, work, issued, auditVars>>

\* Garbage collection, and cutting the history shallow, at any time.
Lose ==
    /\ phase # "done"
    /\ stored' \in {stored \cap Behind(head), {head}}
    /\ UNCHANGED <<commits, manifests, head, work, issued, auditVars>>

\* Something changes a record of the working tree.  The audit reads them
\* once, so it need not be during the audit.
Deposit(s, record) ==
    /\ phase = "idle"
    /\ work' = [work EXCEPT ![s] = record]
    /\ UNCHANGED <<commits, manifests, stored, head, issued, auditVars>>

-----------------------------------------------------------------------------
\* The audit, step by step.  Reset makes any commit the one to start from.
Begin ==
    /\ phase = "idle"
    /\ phase' = "walk"
    /\ start' = head
    /\ UNCHANGED <<repository, nearest, material, unsealed, verdicts, exit>>

\* The audit cannot be assembled: no verdict is given at all.
GiveUp ==
    /\ phase' = "done"
    /\ exit' = 2
    /\ UNCHANGED <<repository, start, nearest, material, unsealed, verdicts>>

WalkFails ==
    /\ phase = "walk"
    /\ ~(Lines(start) \subseteq stored)
    /\ GiveUp

WalkToClaims ==
    /\ phase = "walk"
    /\ Lines(start) \subseteq stored
    /\ nearest' = NearestClaims(start)
    /\ phase' = "gather"
    /\ UNCHANGED <<repository, start, material, unsealed, verdicts, exit>>

Sources == {start} \cup nearest

GatherFails ==
    /\ phase = "gather"
    /\ ~(Sources \subseteq stored) \/ Foreign(Sources)
    /\ GiveUp

Gather ==
    /\ phase = "gather"
    /\ Sources \subseteq stored
    /\ ~Foreign(Sources)
    /\ material' = [s \in Site |-> RecordsOf(Sources, s)]
    /\ phase' = "deposits"
    /\ UNCHANGED <<repository, start, nearest, unsealed, verdicts, exit>>

\* A bare repository has no working tree.
PassDeposits ==
    /\ phase = "deposits"
    /\ phase' = "judge"
    /\ UNCHANGED <<repository, start, nearest, material, unsealed, verdicts,
                   exit>>

\* deposits::enumerate: one file that is no record fails it.
OnlyRecordsDeposited == \A s \in Site : work[s] # "foreign"

DepositsFail ==
    /\ phase = "deposits"
    /\ \/ ~OnlyRecordsDeposited
       \/ work # NoRecords /\ start \notin stored
    /\ GiveUp

\* Broken on purpose: a record at the path counts as sealed.
MissingDeposits ==
    {s \in Site : work[s] # None /\ TreeOf(start).records[s] = None}

\* What the starting tree does not carry, byte for byte.
UnsealedDeposits ==
    {s \in Site : work[s] \notin {None, TreeOf(start).records[s]}}

GatherDeposits ==
    /\ phase = "deposits"
    /\ OnlyRecordsDeposited
    /\ work = NoRecords \/ start \in stored
    /\ material' = [s \in Site |-> material[s] \cup ({work[s]} \ {None})]
    /\ unsealed' = UnsealedDeposits
    /\ phase' = "judge"
    /\ UNCHANGED <<repository, start, nearest, verdicts, exit>>

WithVerdictOn(c) ==
    [d \in DOMAIN verdicts \cup {c} |->
        IF d = c THEN Passes(c, material) ELSE verdicts[d]]

\* Broken on purpose: a claim whose commit is gone is not judged.
JudgeStored(c) ==
    /\ phase = "judge"
    /\ c \in (nearest \cap stored) \ DOMAIN verdicts
    /\ verdicts' = WithVerdictOn(c)
    /\ UNCHANGED <<repository, phase, start, nearest, material, unsealed,
                   exit>>

JudgeClaim(c) ==
    /\ phase = "judge"
    /\ c \in nearest \ DOMAIN verdicts
    /\ verdicts' = WithVerdictOn(c)
    /\ UNCHANGED <<repository, phase, start, nearest, material, unsealed,
                   exit>>

\* Broken on purpose: the first failure ends the report.
ReportEarly ==
    /\ phase = "judge"
    /\ DOMAIN verdicts = nearest \/ \E c \in DOMAIN verdicts : ~verdicts[c]
    /\ exit' = IF nearest # {} /\ \A c \in DOMAIN verdicts : verdicts[c]
               THEN 0 ELSE 1
    /\ phase' = "done"
    /\ UNCHANGED <<repository, start, nearest, material, unsealed, verdicts>>

\* No claim proves nothing; one failing claim fails the audit.
Report ==
    /\ phase = "judge"
    /\ DOMAIN verdicts = nearest
    /\ exit' = IF nearest # {} /\ \A c \in nearest : verdicts[c] THEN 0 ELSE 1
    /\ phase' = "done"
    /\ UNCHANGED <<repository, start, nearest, material, unsealed, verdicts>>

AuditStep ==
    \/ WalkFails \/ WalkToClaims
    \/ GatherFails \/ Gather
    \/ PassDeposits \/ DepositsFail \/ GatherDeposits
    \/ \E c \in CommitId : JudgeClaim(c)
    \/ Report

-----------------------------------------------------------------------------
Edit ==
    \/ \E content \in Content, sites \in (SUBSET Site) \ {{}} :
           Stamp(content, sites)
    \/ \E content \in Content \cup {Unsupported}, dropping, sealing \in BOOLEAN :
           CommitChanges(content, dropping, sealing)
    \/ \E c \in DOMAIN commits : Merge(c) \/ Replay(c) \/ Reset(c)
    \/ \E m \in DOMAIN manifests, c \in DOMAIN commits, laidOut \in BOOLEAN :
           Recombine(m, TreeOf(c).tokens, laidOut)
    \/ \E text \in ForgedTexts, genuine \in BOOLEAN : Forge(text, genuine)

World ==
    \/ Lose
    \/ \E s \in Disturbed, record \in Record \cup {None} : Deposit(s, record)

AuditInit ==
    /\ commits = <<[parents |-> <<>>, by |-> "root",
                     tree |-> [content |-> Unsupported, manifest |-> None,
                               tokens |-> NoTokens, records |-> NoRecords,
                               laidOut |-> TRUE]]>>
    /\ manifests = <<>> /\ stored = {1} /\ head = 1 /\ work = NoRecords
    /\ issued = {}
    /\ phase = "idle" /\ start = 1 /\ nearest = {}
    /\ material = [s \in Site |-> {}] /\ unsealed = {} /\ verdicts = <<>>
    /\ exit = None

AuditNext ==
    \/ Edit
    \/ World
    \/ Begin
    \/ AuditStep

\* Every step of the audit returns; nothing is assumed of anyone else.
AuditSpec == AuditInit /\ [][AuditNext]_vars /\ WF_vars(AuditStep)

-----------------------------------------------------------------------------
(***************************************************************************)
(* Only what an authority stamped passes: the snapshot of a claim that     *)
(* passed is the one its manifest described when a token over it was       *)
(* issued, whoever drifted, recombined, forged, merged or replayed the     *)
(* commits in between.                                                     *)
(***************************************************************************)
PassMeansStamped ==
    \A c \in DOMAIN verdicts : verdicts[c] =>
        \E v \in issued :
            /\ v.manifest = TreeOf(c).manifest
            /\ v.tree = SnapshotOf(TreeOf(c))
            /\ TreeOf(c).tokens[v.site] # None

(***************************************************************************)
(* The list of unsealed deposits can be relied on: when the audit reports  *)
(* none, a fresh clone, which has the sealed records alone, gives every    *)
(* claim the same verdict.                                                 *)
(***************************************************************************)
SealedMaterial == [s \in Site |-> RecordsOf(Sources, s)]

FreshCloneAgrees ==
    phase = "judge" /\ unsealed = {} =>
        \A c \in nearest : Passes(c, material) = Passes(c, SealedMaterial)

(***************************************************************************)
(* No failure hides another's verdict: an audit that reports has judged    *)
(* the nearest claim on every line of history, whichever of them cannot be *)
(* read any more, and succeeds only if there are claims and all pass.      *)
(***************************************************************************)
Walk == INSTANCE ClaimWalk WITH
    parents  <- [c \in CommitId |-> IF c \in DOMAIN commits
                                    THEN commits[c].parents ELSE <<>>],
    claims   <- {c \in DOMAIN commits : Claims(c)},
    starts   <- <<start>>,
    visited  <- {}, frontier <- <<>>, claiming <- <<>>, walk <- "walking"

EveryClaimIsJudged ==
    exit \in {0, 1} =>
        /\ DOMAIN verdicts = {c \in Walk!OnTheLines : Claims(c)}
        /\ exit = 0 <=> TRUE \in Range(verdicts) /\ FALSE \notin Range(verdicts)

(***************************************************************************)
(* Nothing genuine is refused: a commit of the sealing flow, or one        *)
(* rewritten with its tree, passes wherever it lies, as long as the bound  *)
(* commits it names are in the store and its chains stand.                 *)
(***************************************************************************)
Standing == [s \in Site |-> {"decides"}]

Genuine(c) == commits[c].by \in {"stamp", "replay"}

StampsStand ==
    \A c \in stored :
        /\ Genuine(c)
        /\ \A group \in manifests[TreeOf(c).manifest].groups :
               group.commit \in stored
        => Passes(c, Standing)

(***************************************************************************)
(* stamping.md 6: a stamped commit's evidence survives history editing as  *)
(* long as its tree is preserved, the binding does not depend on git.      *)
(* Here even the trees of the bound stamps are preserved, in the complete  *)
(* history behind the commit.                                              *)
(***************************************************************************)
EvidenceSurvivesEditing ==
    \A c \in stored :
        /\ Genuine(c)
        /\ Behind(c) \subseteq stored
        /\ \A group \in manifests[TreeOf(c).manifest].groups :
               \E d \in Behind(c) : /\ Genuine(d)
                                    /\ TreeOf(d).manifest = group.manifest
                                    /\ TreeOf(d).tokens = group.tokens
        => Passes(c, Standing)

(***************************************************************************)
(* An audit ends with an exit code, even if commits vanish under it.       *)
(***************************************************************************)
AuditEnds == phase = "walk" ~> phase = "done"
=============================================================================
