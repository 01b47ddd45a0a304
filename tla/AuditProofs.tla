----------------------------- MODULE AuditProofs -----------------------------
(***************************************************************************)
(* What a verdict of `tydence verify` is worth, for any sites, contents,   *)
(* length of the history and number of forged commits in it: only what an  *)
(* authority stamped passes, what the sealing flow made does, and a fresh  *)
(* clone agrees unless the audit says what it lacks.                       *)
(***************************************************************************)
EXTENDS Audit, TLAPS, WellFoundedInduction

Origin  == {"root", "stamp", "replay", "user", "tamper"}
Commit  == [parents : Seq(CommitId), tree : Tree, by : Origin]
Voucher == [site : Site, manifest : CommitId, tree : Snapshot]

-----------------------------------------------------------------------------
(***************************************************************************)
(* The inductive invariant.  Genuine tokens are vouched for by what was    *)
(* issued, and what was issued describes the entries of its manifest for   *)
(* good: nothing that is written can separate a token from its snapshot.   *)
(***************************************************************************)
Bounds ==
    /\ Len(commits) \in 1..MaxCommits
    /\ Len(manifests) < Len(commits)

Vouches(tokens, vouchers) ==
    \A s \in Site : tokens[s] # None /\ tokens[s].genuine =>
        \E v \in vouchers : v.site = s /\ v.manifest = tokens[s].imprint

Describes(v, texts) ==
    v.manifest \in DOMAIN texts /\ v.tree = texts[v.manifest].entries

Vouched ==
    /\ \A c \in DOMAIN commits : Vouches(commits[c].tree.tokens, issued)
    /\ \A v \in issued : Describes(v, manifests)

(***************************************************************************)
(* A tree of the sealing flow is sound wherever it lies: it fits its       *)
(* manifest, whose groups name stamps that were there to be bound.         *)
(***************************************************************************)
Binds(group, history) ==
    /\ ~group.predecessor
    /\ group.commit \in DOMAIN history
    /\ LET bound == history[group.commit].tree
       IN  /\ bound.manifest # None /\ bound.manifest = group.manifest
           /\ bound.laidOut
           /\ \A s \in Site : group.tokens[s] \in {None, bound.tokens[s]}

Sound(tree, history, texts) ==
    /\ tree.manifest \in DOMAIN texts
    /\ tree.laidOut
    /\ tree.content # Unsupported
    /\ texts[tree.manifest].parses
    /\ texts[tree.manifest].entries = SnapshotOf(tree)
    /\ \A group \in texts[tree.manifest].groups : Binds(group, history)
    /\ \E s \in Site : /\ tree.tokens[s] # None
                       /\ tree.tokens[s].genuine
                       /\ tree.tokens[s].imprint = tree.manifest

GenuineIsSound ==
    \A c \in DOMAIN commits :
        Genuine(c) => Sound(commits[c].tree, commits, manifests)

\* Nothing is judged before all is gathered; and with nothing unsealed, the
\* deposits added nothing to the sealed records.
Gathered ==
    /\ phase \notin {"judge", "done"} => DOMAIN verdicts = {}
    /\ phase = "deposits" \/ (phase = "judge" /\ unsealed = {})
           => material = SealedMaterial

AuditInv ==
    /\ AuditTypeOK
    /\ Bounds
    /\ Vouched
    /\ GenuineIsSound
    /\ Gathered
    /\ PassMeansStamped

-----------------------------------------------------------------------------
LEMMA TreeTyping ==
    ASSUME AuditTypeOK, NEW c \in DOMAIN commits
    PROVE  /\ TreeOf(c) \in Tree
           /\ commits[c].by \in Origin
<1>1. commits \in Seq(Commit)
    BY DEF AuditTypeOK, Commit, Origin
<1>2. commits[c] \in Commit
    BY <1>1
<1> QED
    BY <1>2 DEF Commit, TreeOf

LEMMA IdsTyping ==
    ASSUME AuditTypeOK, Bounds
    PROVE  /\ DOMAIN commits \subseteq CommitId
           /\ DOMAIN manifests \subseteq CommitId
           /\ Len(commits) < MaxCommits => Len(manifests) + 1 \in CommitId
    BY AuditAssumption DEF AuditTypeOK, Bounds, CommitId

LEMMA AppendGrows ==
    ASSUME NEW S, NEW list \in Seq(S), NEW x \in S
    PROVE  /\ Append(list, x) \in Seq(S)
           /\ Len(Append(list, x)) = Len(list) + 1
           /\ DOMAIN Append(list, x) = DOMAIN list \cup {Len(list) + 1}
           /\ Len(list) + 1 \notin DOMAIN list
           /\ Append(list, x)[Len(list) + 1] = x
           /\ \A i \in DOMAIN list : Append(list, x)[i] = list[i]
    OBVIOUS

LEMMA InitAuditInv == AuditInit => AuditInv
<1> SUFFICES ASSUME AuditInit
             PROVE  AuditInv
    OBVIOUS
<1> DEFINE tree == [content |-> Unsupported, manifest |-> None,
                    tokens |-> NoTokens, records |-> NoRecords,
                    laidOut |-> TRUE]
           first == [parents |-> <<>>, by |-> "root", tree |-> tree]
<1>1. commits = <<first>>
    BY DEF AuditInit
<1>2. tree \in Tree /\ NoRecords \in Records
    BY DEF Tree, TokenFiles, Records, NoTokens, NoRecords
<1>3. first \in Commit
    BY <1>2 DEF Commit, Origin
<1>4. Vouches(first.tree.tokens, issued)
    BY DEF Vouches, NoTokens
<1>5. first.by = "root"
    OBVIOUS
<1> HIDE DEF tree, first
<1>6. DOMAIN commits = {1} /\ commits[1] = first /\ Len(commits) = 1
    BY <1>1
<1>7. AuditTypeOK
    <2>1. commits \in Seq(Commit)
        BY <1>1, <1>3
    <2>3. manifests \in Seq(ManifestText)
        BY DEF AuditInit
    <2>2. material \in [Site -> SUBSET Record]
        BY DEF AuditInit
    <2> QED
        BY <2>1, <2>2, <2>3, <1>2, <1>6 DEF AuditInit, AuditTypeOK, Commit, Origin
<1>8. Bounds
    BY <1>6, AuditAssumption DEF AuditInit, Bounds
<1>9. Vouched /\ GenuineIsSound
    BY <1>4, <1>5, <1>6 DEF AuditInit, Vouched, GenuineIsSound, Genuine
<1> QED
    BY <1>7, <1>8, <1>9
    DEF AuditInit, AuditInv, Gathered, PassMeansStamped

-----------------------------------------------------------------------------
(***************************************************************************)
(* Writing a commit.  Commits, manifests and what was issued only grow, so *)
(* what is owed is owed for the new commit alone.                          *)
(***************************************************************************)
LEMMA WriteKeeps ==
    ASSUME AuditInv,
           NEW ps \in Seq(CommitId), NEW tree \in Tree, NEW by \in Origin,
           Write(ps, tree, by),
           \/ manifests' = manifests
           \/ \E text \in ManifestText : manifests' = Append(manifests, text),
           work' \in Records,
           issued \subseteq issued', issued' \subseteq Voucher,
           \A v \in issued' \ issued : Describes(v, manifests'),
           Vouches(tree.tokens, issued'),
           by \in {"stamp", "replay"} => Sound(tree, commits, manifests')
    PROVE  AuditInv'
<1> DEFINE new == [parents |-> ps, tree |-> tree, by |-> by]
<1>1. new \in Commit /\ new.tree = tree /\ new.by = by
    BY DEF Commit
<1>2. /\ commits' = Append(commits, new)
      /\ stored' = stored \cup {Len(commits) + 1}
      /\ head' = Len(commits) + 1
      /\ Len(commits) < MaxCommits
      /\ phase = "idle"
      /\ UNCHANGED auditVars
    BY DEF Write
<1> HIDE DEF new
<1>3. commits \in Seq(Commit) /\ manifests \in Seq(ManifestText)
    BY DEF AuditInv, AuditTypeOK, Commit, Origin
<1>4. /\ commits' \in Seq(Commit)
      /\ Len(commits') = Len(commits) + 1
      /\ DOMAIN commits' = DOMAIN commits \cup {Len(commits) + 1}
      /\ Len(commits) + 1 \notin DOMAIN commits
      /\ commits'[Len(commits) + 1] = new
      /\ \A c \in DOMAIN commits : commits'[c] = commits[c]
    BY <1>1, <1>2, <1>3, AppendGrows
<1> DEFINE Kept(texts) ==
               /\ texts \in Seq(ManifestText)
               /\ Len(texts) <= Len(manifests) + 1
               /\ DOMAIN manifests \subseteq DOMAIN texts
               /\ \A m \in DOMAIN manifests : texts[m] = manifests[m]
<1>5. Kept(manifests')
    <2>1. CASE manifests' = manifests
        BY <2>1, <1>3
    <2>2. ASSUME NEW text \in ManifestText,
                 manifests' = Append(manifests, text)
          PROVE  Kept(manifests')
        BY <2>2, <1>3, AppendGrows
    <2> QED
        BY <2>1, <2>2
<1>6. AuditTypeOK'
    BY <1>2, <1>4, <1>5
    DEF AuditInv, AuditTypeOK, auditVars, Commit, Origin, Voucher
<1>7. Bounds'
    BY <1>2, <1>3, <1>4, <1>5, AuditAssumption DEF AuditInv, Bounds
<1>8. Vouched'
    <2>1. ASSUME NEW v \in issued'
          PROVE  Describes(v, manifests')
        BY <1>5 DEF AuditInv, Vouched, Describes
    <2>2. ASSUME NEW c \in DOMAIN commits'
          PROVE  Vouches(commits'[c].tree.tokens, issued')
        <3>1. CASE c \in DOMAIN commits
            BY <3>1, <1>4 DEF AuditInv, Vouched, Vouches
        <3>2. CASE c = Len(commits) + 1
            BY <3>2, <1>1, <1>4
        <3> QED
            BY <1>4, <3>1, <3>2
    <2> QED
        BY <2>1, <2>2 DEF Vouched
<1>9. GenuineIsSound'
    <2>1. ASSUME NEW old, Sound(old, commits, manifests')
          PROVE  Sound(old, commits', manifests')
        BY <2>1, <1>4 DEF Sound, Binds
    <2>2. ASSUME NEW old, Sound(old, commits, manifests)
          PROVE  Sound(old, commits, manifests')
        BY <2>2, <1>5 DEF Sound
    <2>3. ASSUME NEW c \in DOMAIN commits', commits'[c].by \in {"stamp", "replay"}
          PROVE  Sound(commits'[c].tree, commits', manifests')
        <3>1. CASE c \in DOMAIN commits
            <4>1. commits'[c] = commits[c]
                BY <3>1, <1>4
            <4>2. Sound(commits[c].tree, commits, manifests)
                BY <2>3, <3>1, <4>1 DEF AuditInv, GenuineIsSound, Genuine
            <4> QED
                BY <4>1, <4>2, <2>1, <2>2
        <3>2. CASE c = Len(commits) + 1
            <4>1. commits'[c].tree = tree /\ commits'[c].by = by
                BY <3>2, <1>1, <1>4
            <4>2. Sound(tree, commits, manifests')
                BY <2>3, <4>1
            <4> QED
                BY <4>1, <4>2, <2>1
        <3> QED
            BY <1>4, <3>1, <3>2
    <2> QED
        BY <2>3 DEF GenuineIsSound, Genuine
<1>10. Gathered'
    BY <1>2 DEF AuditInv, Gathered, auditVars
<1>11. PassMeansStamped'
    <2>1. \A c \in DOMAIN verdicts : c \in DOMAIN commits
        BY DEF AuditInv, AuditTypeOK
    <2> QED
        BY <2>1, <1>2, <1>4
        DEF AuditInv, PassMeansStamped, TreeOf, SnapshotOf, auditVars
<1> QED
    BY <1>6, <1>7, <1>8, <1>9, <1>10, <1>11 DEF AuditInv

\* What leaves manifests, records and vouchers alone owes little.
LEMMA PlainWriteKeeps ==
    ASSUME AuditInv,
           NEW ps \in Seq(CommitId), NEW tree \in Tree, NEW by \in Origin,
           Write(ps, tree, by),
           UNCHANGED <<manifests, work, issued>>,
           Vouches(tree.tokens, issued),
           by \in {"stamp", "replay"} => Sound(tree, commits, manifests)
    PROVE  AuditInv'
<1>1. work \in Records /\ issued \subseteq Voucher
    BY DEF AuditInv, AuditTypeOK, Voucher
<1> QED
    BY <1>1, WriteKeeps

LEMMA HeadIsACommit ==
    ASSUME AuditInv
    PROVE  /\ head \in DOMAIN commits
           /\ TreeOf(head) \in Tree
           /\ Vouches(TreeOf(head).tokens, issued)
           /\ <<head>> \in Seq(CommitId)
           /\ \A c \in DOMAIN commits : <<head, c>> \in Seq(CommitId)
<1>1. head \in DOMAIN commits
    BY DEF AuditInv, AuditTypeOK
<1>2. DOMAIN commits \subseteq CommitId
    BY IdsTyping DEF AuditInv
<1> QED
    BY <1>1, <1>2, TreeTyping DEF AuditInv, Vouched, TreeOf

LEMMA CommitKeeps ==
    ASSUME AuditInv, NEW content \in Content \cup {Unsupported},
           NEW dropping \in BOOLEAN, NEW sealing \in BOOLEAN,
           CommitChanges(content, dropping, sealing)
    PROVE  AuditInv'
<1> DEFINE records == IF sealing
                      THEN [s \in Site |-> IF work[s] # None
                              THEN work[s] ELSE TreeOf(head).records[s]]
                      ELSE TreeOf(head).records
           changed == [TreeOf(head) EXCEPT !.content = content,
                                           !.records = records]
           tree == IF dropping THEN WithoutArtifacts(changed) ELSE changed
<1>1. records \in Records
    BY HeadIsACommit DEF AuditInv, AuditTypeOK, Records, Tree
<1>2. changed \in Tree /\ changed.tokens = TreeOf(head).tokens
    BY <1>1, HeadIsACommit DEF Tree
<1>3. Write(<<head>>, tree, "user") /\ UNCHANGED <<manifests, work, issued>>
    BY DEF CommitChanges
<1> HIDE DEF records, changed
<1>4. tree \in Tree /\ tree.tokens \in {TreeOf(head).tokens, NoTokens}
    BY <1>2 DEF WithoutArtifacts, Tree, NoTokens, TokenFiles
<1>5. Vouches(tree.tokens, issued)
    BY <1>4, HeadIsACommit DEF Vouches, NoTokens
<1> HIDE DEF tree
<1> QED
    BY <1>3, <1>4, <1>5, HeadIsACommit, PlainWriteKeeps DEF Origin

LEMMA MergeKeeps ==
    ASSUME AuditInv, NEW c \in DOMAIN commits, Merge(c)
    PROVE  AuditInv'
<1> DEFINE tree == WithoutArtifacts(TreeOf(head))
<1>1. tree \in Tree /\ tree.tokens = NoTokens
    BY HeadIsACommit DEF WithoutArtifacts, Tree, NoTokens, TokenFiles
<1>2. Write(<<head, c>>, tree, "user")
      /\ UNCHANGED <<manifests, work, issued>>
    BY DEF Merge
<1>3. Vouches(tree.tokens, issued)
    BY <1>1 DEF Vouches, NoTokens
<1> HIDE DEF tree
<1> QED
    BY <1>1, <1>2, <1>3, HeadIsACommit, PlainWriteKeeps DEF Origin

LEMMA ReplayKeeps ==
    ASSUME AuditInv, NEW c \in DOMAIN commits, Replay(c)
    PROVE  AuditInv'
<1> DEFINE by == IF commits[c].by = "stamp" THEN "replay" ELSE commits[c].by
<1>1. by \in Origin /\ TreeOf(c) \in Tree
    BY TreeTyping DEF AuditInv, Origin
<1>2. Vouches(TreeOf(c).tokens, issued)
    BY DEF AuditInv, Vouched, TreeOf
<1>3. by \in {"stamp", "replay"} => Sound(TreeOf(c), commits, manifests)
    BY DEF AuditInv, GenuineIsSound, Genuine, TreeOf
<1>4. Write(<<head>>, TreeOf(c), by) /\ UNCHANGED <<manifests, work, issued>>
    BY DEF Replay
<1> HIDE DEF by
<1> QED
    BY <1>1, <1>2, <1>3, <1>4, HeadIsACommit, PlainWriteKeeps

LEMMA RecombineKeeps ==
    ASSUME AuditInv, NEW m \in DOMAIN manifests, NEW c \in DOMAIN commits,
           NEW laidOut \in BOOLEAN,
           Recombine(m, TreeOf(c).tokens, laidOut)
    PROVE  AuditInv'
<1> DEFINE tree == [TreeOf(head) EXCEPT !.manifest = m,
                        !.tokens = TreeOf(c).tokens, !.laidOut = laidOut]
<1>1. m \in CommitId
    BY IdsTyping DEF AuditInv
<1>2. TreeOf(c) \in Tree
    BY TreeTyping DEF AuditInv
<1>3. tree \in Tree /\ tree.tokens = TreeOf(c).tokens
    BY <1>1, <1>2, HeadIsACommit DEF Tree
<1>4. Vouches(tree.tokens, issued)
    BY <1>3 DEF AuditInv, Vouched, TreeOf
<1>5. Write(<<head>>, tree, "tamper") /\ UNCHANGED <<manifests, work, issued>>
    BY DEF Recombine
<1> HIDE DEF tree
<1> QED
    BY <1>3, <1>4, <1>5, HeadIsACommit, PlainWriteKeeps DEF Origin

\* Whoever forges a manifest gets nothing stamped but what it says.
LEMMA NextNumber ==
    ASSUME AuditInv, Len(commits) < MaxCommits, NEW text \in ManifestText,
           manifests' = Append(manifests, text)
    PROVE  LET number == Len(manifests) + 1
           IN  /\ number \in CommitId
               /\ number \in DOMAIN manifests'
               /\ manifests'[number] = text
<1>1. manifests \in Seq(ManifestText)
    BY DEF AuditInv, AuditTypeOK
<1> QED
    BY <1>1, AppendGrows, IdsTyping DEF AuditInv

LEMMA ForgeKeeps ==
    ASSUME AuditInv, NEW text \in ForgedTexts, NEW genuine \in BOOLEAN,
           Forge(text, genuine)
    PROVE  AuditInv'
<1> DEFINE number == Len(manifests) + 1
           tokens == [s \in Site |-> [imprint |-> number,
                                      genuine |-> genuine]]
           tree == [TreeOf(head) EXCEPT !.manifest = number,
                                        !.tokens = tokens]
           vouchers == {[site |-> s, manifest |-> number,
                         tree |-> text.entries] : s \in Site}
<1>1. /\ Write(<<head>>, tree, "tamper")
      /\ manifests' = Append(manifests, text)
      /\ issued' = IF genuine THEN issued \cup vouchers ELSE issued
      /\ work' = work
      /\ Len(commits) < MaxCommits
    BY DEF Forge, Write
<1>2. text \in ManifestText /\ text.entries \in Snapshot
    <2>1. SnapshotOf(TreeOf(head)) \in Snapshot
        BY HeadIsACommit DEF SnapshotOf, Snapshot, Tree
    <2>2. ASSUME NEW c \in DOMAIN commits, NEW m \in DOMAIN manifests,
                 NEW p \in BOOLEAN
          PROVE  [commit |-> c, manifest |-> m, tokens |-> TreeOf(c).tokens,
                  predecessor |-> p] \in Group
        BY TreeTyping, IdsTyping DEF AuditInv, Group, Tree
    <2>3. text.groups \subseteq Group
        BY <2>2 DEF ForgedTexts
    <2> QED
        BY <2>1, <2>3 DEF ForgedTexts, ManifestText
<1>3. /\ number \in CommitId
      /\ number \in DOMAIN manifests'
      /\ manifests'[number] = text
    BY <1>1, <1>2, NextNumber
<1> HIDE DEF number
<1>4. tokens \in TokenFiles
    BY <1>3 DEF TokenFiles, TokenFile
<1>5. tree \in Tree /\ tree.tokens = tokens
    BY <1>3, <1>4, HeadIsACommit DEF Tree
<1>6. /\ issued \subseteq issued' /\ issued' \subseteq Voucher
      /\ \A v \in issued' \ issued : Describes(v, manifests')
    <2>1. issued \subseteq Voucher
        BY DEF AuditInv, AuditTypeOK, Voucher
    <2>2. vouchers \subseteq Voucher
        BY <1>2, <1>3 DEF Voucher
    <2>3. \A v \in vouchers : Describes(v, manifests')
        BY <1>3 DEF Describes
    <2> HIDE DEF vouchers
    <2> QED
        BY <1>1, <2>1, <2>2, <2>3
<1>7. Vouches(tokens, issued')
    <2>1. CASE genuine
        <3>1. ASSUME NEW s \in Site
              PROVE  \E v \in vouchers :
                         v.site = s /\ v.manifest = tokens[s].imprint
            <4> DEFINE voucher == [site |-> s, manifest |-> number,
                                   tree |-> text.entries]
            <4>1. voucher \in vouchers
                OBVIOUS
            <4>2. voucher.site = s /\ voucher.manifest = tokens[s].imprint
                OBVIOUS
            <4> QED
                BY <4>1, <4>2
        <3>2. vouchers \subseteq issued'
            BY <1>1, <2>1
        <3> HIDE DEF vouchers, tokens
        <3> QED
            BY <3>1, <3>2 DEF Vouches
    <2>2. CASE ~genuine
        BY <2>2 DEF Vouches
    <2> QED
        BY <2>1, <2>2
<1>8. work' \in Records
    BY <1>1 DEF AuditInv, AuditTypeOK
<1>9. Vouches(tree.tokens, issued')
    BY <1>5, <1>7
<1> HIDE DEF tree, tokens, vouchers
<1> QED
    BY <1>1, <1>2, <1>5, <1>6, <1>8, <1>9, HeadIsACommit, WriteKeeps
    DEF Origin

\* What `tydence stamp` binds was there to be read when it was bound.
LEMMA BoundGroupsBind ==
    ASSUME AuditInv, NEW claiming \in SUBSET DOMAIN commits,
           \A c \in claiming : ArtifactsRead(c),
           NEW group \in BoundGroups(claiming)
    PROVE  group \in Group /\ Binds(group, commits)
<1>1. PICK c \in claiming :
          group = [commit |-> c, manifest |-> TreeOf(c).manifest,
                   tokens |-> TreeOf(c).tokens, predecessor |-> FALSE]
    BY DEF BoundGroups
<1>2. TreeOf(c) \in Tree /\ c \in CommitId
    BY TreeTyping, IdsTyping DEF AuditInv
<1>3. TreeOf(c).manifest # None /\ TreeOf(c).laidOut
    BY DEF ArtifactsRead, Claims
<1>4. group \in Group
    BY <1>1, <1>2, <1>3 DEF Group, Tree
<1>5. Binds(group, commits)
    BY <1>1, <1>3 DEF Binds, TreeOf
<1> QED
    BY <1>4, <1>5

LEMMA StampKeeps ==
    ASSUME AuditInv, NEW content \in Content, NEW sites \in SUBSET Site,
           sites # {}, Stamp(content, sites)
    PROVE  AuditInv'
<1> DEFINE old == TreeOf(head)
           sealing == [s \in Site |-> CASE work[s] = None -> old.records[s]
                                        [] work[s] = "garbled" -> "decides"
                                        [] OTHER -> work[s]]
           number == Len(manifests) + 1
           claiming == NearestClaims(head)
           entries == [content |-> content, records |-> sealing]
           tokens == [s \in Site |-> IF s \in sites
                         THEN [imprint |-> number, genuine |-> TRUE]
                         ELSE None]
           tree == [content |-> content, manifest |-> number,
                    tokens |-> tokens, records |-> sealing, laidOut |-> TRUE]
           text == [parses |-> TRUE, entries |-> entries,
                    groups |-> BoundGroups(claiming)]
           vouchers == {[site |-> s, manifest |-> number, tree |-> entries] :
                            s \in sites}
<1>1. /\ Lines(head) \subseteq stored
      /\ \A c \in claiming : ArtifactsRead(c)
      /\ Write(<<head>>, tree, "stamp")
      /\ manifests' = Append(manifests, text)
      /\ issued' = issued \cup vouchers
      /\ work' = [s \in Site |-> IF s \in sites /\ sealing[s] = None
                                 THEN "decides" ELSE sealing[s]]
    BY DEF Stamp
<1>2. Len(commits) < MaxCommits
    BY <1>1 DEF Write
<1>3. sealing \in Records
    <2>1. old.records \in Records /\ work \in Records
        BY HeadIsACommit DEF AuditInv, AuditTypeOK, Tree
    <2> HIDE DEF old
    <2>2. ASSUME NEW s \in Site
          PROVE  sealing[s] \in Record \cup {None}
        BY <2>1 DEF Records, Record
    <2> QED
        BY <2>2 DEF Records
<1>4. claiming \subseteq DOMAIN commits
    BY <1>1 DEF NearestClaims, AuditInv, AuditTypeOK
<1> HIDE DEF old, claiming, sealing
<1>5. \A group \in BoundGroups(claiming) :
          group \in Group /\ Binds(group, commits)
    BY <1>1, <1>4, BoundGroupsBind
<1>6. entries \in Snapshot /\ text \in ManifestText
    BY <1>3, <1>5 DEF Snapshot, ManifestText
<1>7. /\ number \in CommitId
      /\ number \in DOMAIN manifests'
      /\ manifests'[number] = text
    BY <1>1, <1>2, <1>6, NextNumber
<1> HIDE DEF number
<1>8. tree \in Tree
    BY <1>3, <1>7 DEF Tree, TokenFiles, TokenFile
<1>9. work' \in Records
    BY <1>1, <1>3 DEF Records, Record
<1>10. /\ issued \subseteq issued' /\ issued' \subseteq Voucher
       /\ \A v \in issued' \ issued : Describes(v, manifests')
    <2>1. issued \subseteq Voucher
        BY DEF AuditInv, AuditTypeOK, Voucher
    <2>2. vouchers \subseteq Voucher
        BY <1>6, <1>7 DEF Voucher
    <2>3. \A v \in vouchers : Describes(v, manifests')
        BY <1>7 DEF Describes
    <2> HIDE DEF vouchers
    <2> QED
        BY <1>1, <2>1, <2>2, <2>3
<1>11. Vouches(tree.tokens, issued')
    <2>1. ASSUME NEW s \in sites
          PROVE  \E v \in vouchers :
                     v.site = s /\ v.manifest = tokens[s].imprint
        <3> DEFINE voucher == [site |-> s, manifest |-> number,
                               tree |-> entries]
        <3>1. voucher \in vouchers
            OBVIOUS
        <3>2. voucher.site = s /\ voucher.manifest = tokens[s].imprint
            OBVIOUS
        <3> QED
            BY <3>1, <3>2
    <2>2. \A s \in Site : tokens[s] # None => s \in sites
        OBVIOUS
    <2>3. vouchers \subseteq issued' /\ tree.tokens = tokens
        BY <1>1
    <2> HIDE DEF vouchers, tokens, tree
    <2> QED
        BY <2>1, <2>2, <2>3 DEF Vouches
<1>12. Sound(tree, commits, manifests')
    <2>1. PICK s \in sites : TRUE
        OBVIOUS
    <2>2. /\ tokens[s] # None /\ tokens[s].genuine
          /\ tokens[s].imprint = tree.manifest
        <3> DEFINE token == [imprint |-> number, genuine |-> TRUE]
        <3>1. tokens[s] = token /\ tree.manifest = number
            BY <2>1
        <3>2. token \in TokenFile
            BY <1>7 DEF TokenFile
        <3>3. token.genuine /\ token.imprint = number
            OBVIOUS
        <3> HIDE DEF token
        <3> QED
            BY <3>1, <3>2, <3>3, AuditAssumption
    <2>3. tree.content # Unsupported
        BY AuditAssumption
    <2>4. text.entries = SnapshotOf(tree) /\ text.parses
        BY DEF SnapshotOf
    <2>5. \A group \in text.groups : Binds(group, commits)
        BY <1>5
    <2> QED
        BY <1>7, <2>1, <2>2, <2>3, <2>4, <2>5 DEF Sound
<1> HIDE DEF tree, text, vouchers
<1> QED
    BY <1>1, <1>6, <1>8, <1>9, <1>10, <1>11, <1>12, HeadIsACommit, WriteKeeps
    DEF Origin

-----------------------------------------------------------------------------
\* Everything else writes no history.
History == <<commits, manifests, issued>>

LEMMA HistoryKeeps ==
    ASSUME AuditInv, UNCHANGED History
    PROVE  /\ Bounds' /\ Vouched' /\ GenuineIsSound'
           /\ UNCHANGED verdicts => PassMeansStamped'
    BY DEF History, AuditInv, Bounds, Vouched, GenuineIsSound, Genuine,
           PassMeansStamped, TreeOf, SnapshotOf

LEMMA ResetKeeps == ASSUME AuditInv, NEW c \in DOMAIN commits, Reset(c)
                   PROVE  AuditInv'
<1>1. /\ phase = "idle" /\ head' = c
      /\ UNCHANGED <<commits, manifests, stored, work, issued, auditVars>>
    BY DEF Reset
<1>2. AuditTypeOK' /\ Gathered'
    BY <1>1 DEF AuditInv, AuditTypeOK, Gathered, auditVars
<1> QED
    BY <1>1, <1>2, HistoryKeeps DEF AuditInv, History, auditVars

LEMMA EditKeeps == ASSUME AuditInv, Edit PROVE AuditInv'
<1>1. CASE \E content \in Content, sites \in (SUBSET Site) \ {{}} :
               Stamp(content, sites)
    <2>1. PICK content \in Content, sites \in (SUBSET Site) \ {{}} :
              Stamp(content, sites)
        BY <1>1
    <2>2. sites \in SUBSET Site /\ sites # {}
        OBVIOUS
    <2> QED
        BY <2>1, <2>2, StampKeeps
<1>2. CASE \E content \in Content \cup {Unsupported},
              dropping, sealing \in BOOLEAN :
               CommitChanges(content, dropping, sealing)
    BY <1>2, CommitKeeps
<1>3. CASE \E c \in DOMAIN commits : Merge(c) \/ Replay(c) \/ Reset(c)
    BY <1>3, MergeKeeps, ReplayKeeps, ResetKeeps
<1>4. CASE \E m \in DOMAIN manifests, c \in DOMAIN commits,
              laidOut \in BOOLEAN :
               Recombine(m, TreeOf(c).tokens, laidOut)
    <2>1. PICK m \in DOMAIN manifests, c \in DOMAIN commits,
               laidOut \in BOOLEAN :
              Recombine(m, TreeOf(c).tokens, laidOut)
        BY <1>4
    <2> QED
        BY <2>1, RecombineKeeps
<1>5. CASE \E text \in ForgedTexts, genuine \in BOOLEAN :
               Forge(text, genuine)
    BY <1>5, ForgeKeeps
<1> QED
    BY <1>1, <1>2, <1>3, <1>4, <1>5 DEF Edit

LEMMA WorldKeeps == ASSUME AuditInv, World PROVE AuditInv'
<1> USE DEF auditVars
<1>1. CASE Lose
    <2>1. UNCHANGED <<commits, manifests, head, work, issued, auditVars>>
        BY <1>1 DEF Lose
    <2>2. stored' \subseteq DOMAIN commits
        BY <1>1 DEF Lose, AuditInv, AuditTypeOK
    <2>3. AuditTypeOK' /\ Gathered'
        BY <2>1, <2>2 DEF AuditInv, AuditTypeOK, Gathered, SealedMaterial,
                          RecordsOf, TreeOf, Sources
    <2> QED
        BY <2>1, <2>3, HistoryKeeps DEF AuditInv, History
<1>2. ASSUME NEW s \in Disturbed, NEW record \in Record \cup {None},
             Deposit(s, record)
      PROVE  AuditInv'
    <2>1. /\ phase = "idle"
          /\ work' = [work EXCEPT ![s] = record]
          /\ UNCHANGED <<commits, manifests, stored, head, issued, auditVars>>
        BY <1>2 DEF Deposit
    <2>2. work' \in Records
        BY <2>1, AuditAssumption DEF AuditInv, AuditTypeOK, Records
    <2>3. AuditTypeOK' /\ Gathered'
        BY <2>1, <2>2 DEF AuditInv, AuditTypeOK, Gathered
    <2> QED
        BY <2>1, <2>3, HistoryKeeps DEF AuditInv, History
<1> QED
    BY <1>1, <1>2 DEF World

\* A claim that passes now is vouched for: its token's voucher describes the
\* entries of the manifest, which the check of the tree found in it.
LEMMA PassIsVouched ==
    ASSUME AuditInv, NEW c, NEW records, Passes(c, records)
    PROVE  \E v \in issued :
               /\ v.manifest = TreeOf(c).manifest
               /\ v.tree = SnapshotOf(TreeOf(c))
               /\ TreeOf(c).tokens[v.site] # None
<1>1. c \in DOMAIN commits
    BY DEF Passes, ArtifactsRead, AuditInv, AuditTypeOK
<1>2. PICK s \in Site :
          /\ TreeOf(c).tokens[s] # None
          /\ TreeOf(c).tokens[s].genuine
          /\ TreeOf(c).tokens[s].imprint = TreeOf(c).manifest
    BY DEF Passes, Accepted
<1>3. PICK v \in issued : v.site = s /\ v.manifest = TreeOf(c).manifest
    BY <1>1, <1>2 DEF AuditInv, Vouched, Vouches, TreeOf
<1>4. v.tree = manifests[TreeOf(c).manifest].entries
    BY <1>3 DEF AuditInv, Vouched, Describes
<1>5. v.tree = SnapshotOf(TreeOf(c))
    BY <1>4 DEF Passes, Agrees
<1> QED
    BY <1>2, <1>3, <1>5

LEMMA JudgeKeeps ==
    ASSUME AuditInv, NEW c \in CommitId, JudgeClaim(c)
    PROVE  AuditInv'
<1>1. /\ UNCHANGED <<repository, phase, start, nearest, material, unsealed,
                     exit>>
      /\ verdicts' = WithVerdictOn(c)
      /\ c \in nearest /\ phase = "judge"
    BY DEF JudgeClaim
<1>2. /\ DOMAIN verdicts' = DOMAIN verdicts \cup {c}
      /\ \A d \in DOMAIN verdicts' :
             verdicts'[d] = IF d = c THEN Passes(c, material) ELSE verdicts[d]
    BY <1>1 DEF WithVerdictOn
<1>3. AuditTypeOK' /\ Gathered'
    BY <1>1, <1>2 DEF repository, AuditInv, AuditTypeOK, Gathered,
                      SealedMaterial, RecordsOf, TreeOf, Sources
<1>4. PassMeansStamped'
    <2>1. ASSUME NEW d \in DOMAIN verdicts', verdicts'[d]
          PROVE  \E v \in issued :
                     /\ v.manifest = TreeOf(d).manifest
                     /\ v.tree = SnapshotOf(TreeOf(d))
                     /\ TreeOf(d).tokens[v.site] # None
        <3>1. CASE d = c
            BY <2>1, <3>1, <1>2, PassIsVouched
        <3>2. CASE d # c
            BY <2>1, <3>2, <1>2 DEF AuditInv, PassMeansStamped
        <3> QED
            BY <3>1, <3>2
    <2> QED
        BY <2>1, <1>1 DEF PassMeansStamped, repository, TreeOf, SnapshotOf
<1> QED
    BY <1>1, <1>3, <1>4, HistoryKeeps DEF AuditInv, History, repository

LEMMA GatherKeeps ==
    ASSUME AuditInv, WalkToClaims \/ Gather \/ PassDeposits \/ GatherDeposits
    PROVE  AuditInv'
<1>1. UNCHANGED <<repository, start, verdicts, exit>>
    BY DEF WalkToClaims, Gather, PassDeposits, GatherDeposits
<1>2. UNCHANGED History /\ UNCHANGED verdicts
    BY <1>1 DEF History, repository
<1>3. Sources \subseteq DOMAIN commits
    BY DEF Sources, AuditInv, AuditTypeOK
<1>4. ASSUME NEW s \in Site
      PROVE  RecordsOf(Sources, s) \subseteq Record
    BY <1>3, TreeTyping DEF RecordsOf, AuditInv, Tree, Records
<1>5. CASE WalkToClaims
    <2>1. nearest' \subseteq DOMAIN commits
        BY <1>5 DEF WalkToClaims, NearestClaims, AuditInv, AuditTypeOK
    <2>2. phase' = "gather" /\ UNCHANGED <<material, unsealed>>
        BY <1>5 DEF WalkToClaims
    <2>3. DOMAIN verdicts = {}
        BY <1>5 DEF WalkToClaims, AuditInv, Gathered
    <2>4. AuditTypeOK' /\ Gathered'
        BY <1>1, <2>1, <2>2, <2>3
        DEF repository, AuditInv, AuditTypeOK, Gathered
    <2> QED
        BY <1>2, <2>4, HistoryKeeps DEF AuditInv
<1>6. CASE Gather
    <2>1. /\ material' = [s \in Site |-> RecordsOf(Sources, s)]
          /\ phase = "gather" /\ phase' = "deposits"
          /\ UNCHANGED <<nearest, unsealed>>
        BY <1>6 DEF Gather
    <2>2. material' = SealedMaterial'
        BY <1>1, <2>1
        DEF SealedMaterial, RecordsOf, Sources, TreeOf, repository
    <2>3. material' \in [Site -> SUBSET Record]
        BY <2>1, <1>4
    <2>4. AuditTypeOK' /\ Gathered'
        BY <1>1, <2>1, <2>2, <2>3
        DEF repository, AuditInv, AuditTypeOK, Gathered
    <2> QED
        BY <1>2, <2>4, HistoryKeeps DEF AuditInv
<1>7. CASE PassDeposits
    <2>1. /\ phase = "deposits" /\ phase' = "judge"
          /\ UNCHANGED <<nearest, material, unsealed>>
        BY <1>7 DEF PassDeposits
    <2>2. UNCHANGED SealedMaterial
        BY <1>1, <2>1
        DEF SealedMaterial, RecordsOf, Sources, TreeOf, repository
    <2>3. AuditTypeOK' /\ Gathered'
        BY <1>1, <2>1, <2>2
        DEF repository, AuditInv, AuditTypeOK, Gathered
    <2> QED
        BY <1>2, <2>3, HistoryKeeps DEF AuditInv
<1>8. CASE GatherDeposits
    <2>1. /\ material' = [s \in Site |-> material[s] \cup ({work[s]} \ {None})]
          /\ unsealed' = UnsealedDeposits
          /\ phase = "deposits" /\ phase' = "judge"
          /\ UNCHANGED nearest
        BY <1>8 DEF GatherDeposits
    <2>2. UNCHANGED SealedMaterial
        BY <1>1, <2>1
        DEF SealedMaterial, RecordsOf, Sources, TreeOf, repository
    <2>3. material = SealedMaterial
        BY <2>1 DEF AuditInv, Gathered
    <2>4. ASSUME unsealed' = {}
          PROVE  material' = SealedMaterial
        <3>1. ASSUME NEW s \in Site
              PROVE  {work[s]} \ {None} \subseteq RecordsOf(Sources, s)
            <4>1. work[s] \in {None, TreeOf(start).records[s]}
                BY <2>1, <2>4 DEF UnsealedDeposits
            <4> QED
                BY <4>1 DEF RecordsOf, Sources
        <3>2. \A s \in Site : material[s] = RecordsOf(Sources, s)
            BY <2>3 DEF SealedMaterial
        <3> QED
            BY <2>1, <3>1, <3>2 DEF SealedMaterial
    <2>5. material' \in [Site -> SUBSET Record]
        BY <2>1 DEF AuditInv, AuditTypeOK, Records
    <2>6. unsealed' \subseteq Site
        BY <2>1 DEF UnsealedDeposits
    <2>7. AuditTypeOK' /\ Gathered'
        BY <1>1, <2>1, <2>2, <2>4, <2>5, <2>6
        DEF repository, AuditInv, AuditTypeOK, Gathered
    <2> QED
        BY <1>2, <2>7, HistoryKeeps DEF AuditInv
<1> QED
    BY <1>5, <1>6, <1>7, <1>8

LEMMA StepAuditInv == AuditInv /\ [AuditNext]_vars => AuditInv'
<1> SUFFICES ASSUME AuditInv, [AuditNext]_vars
             PROVE  AuditInv'
    OBVIOUS
<1>1. CASE Begin
    <2>1. /\ phase = "idle" /\ phase' = "walk" /\ start' = head
          /\ UNCHANGED <<repository, nearest, material, unsealed, verdicts,
                         exit>>
        BY <1>1 DEF Begin
    <2>2. AuditTypeOK' /\ Gathered'
        BY <2>1 DEF repository, AuditInv, AuditTypeOK, Gathered
    <2> QED
        BY <2>1, <2>2, HistoryKeeps DEF AuditInv, History, repository
<1>2. CASE GiveUp \/ Report
    <2>1. /\ phase' = "done" /\ exit' \in {0, 1, 2}
          /\ UNCHANGED <<repository, start, nearest, material, unsealed,
                         verdicts>>
        BY <1>2 DEF GiveUp, Report
    <2>2. AuditTypeOK' /\ Gathered'
        BY <2>1 DEF repository, AuditInv, AuditTypeOK, Gathered
    <2> QED
        BY <2>1, <2>2, HistoryKeeps DEF AuditInv, History, repository
<1>3. CASE UNCHANGED vars
    <2>1. AuditTypeOK' /\ Gathered'
        BY <1>3 DEF vars, repository, auditVars, AuditInv, AuditTypeOK,
                    Gathered, SealedMaterial, RecordsOf, Sources, TreeOf
    <2> QED
        BY <1>3, <2>1, HistoryKeeps
        DEF AuditInv, History, vars, repository, auditVars
<1> QED
    BY <1>1, <1>2, <1>3, EditKeeps, WorldKeeps, GatherKeeps, JudgeKeeps
    DEF AuditNext, AuditStep, WalkFails, GatherFails, DepositsFail

LEMMA AuditInvAlways == AuditSpec => []AuditInv
    BY InitAuditInv, StepAuditInv, PTL DEF AuditSpec

-----------------------------------------------------------------------------
(***************************************************************************)
(* What the audit follows.  Reached iterates as often as there may be      *)
(* commits; as parents are older than their children, that is enough to    *)
(* close the set, which is therefore the least closed one: what module     *)
(* ClaimWalk says the walk is to find.                                     *)
(***************************************************************************)
Ordered ==
    \A c \in DOMAIN commits : \A q \in Range(commits[c].parents) :
        q \in DOMAIN commits /\ q < c

Passable == {d \in DOMAIN commits : ~Claims(d)}

Grown(set) ==
    UNION {{d} \cup (IF d \in Passable THEN Range(commits[d].parents) ELSE {}) :
               d \in set}

Iterates(f, c, k) ==
    f = [n \in 0..k |-> IF n = 0 THEN {c} ELSE Grown(f[n - 1])]

LEMMA SmallestNumber ==
    ASSUME NEW S \in SUBSET Nat, S # {}
    PROVE  \E k \in S : \A j \in S : k <= j
<1> DEFINE less == OpToRel(<, Nat)
<1>1. PICK k \in S : \A j \in S : <<j, k>> \notin less
    <2>1. IsWellFoundedOn(less, Nat)
        BY NatLessThanWellFounded
    <2> HIDE DEF less
    <2> QED
        BY <2>1, WFMin, Zenon
<1>2. less = {ss \in Nat \X Nat : ss[1] < ss[2]}
    BY Zenon DEF OpToRel
<1> HIDE DEF less
<1>3. ASSUME NEW j \in S
      PROVE  k <= j
    <2>1. <<j, k>> \in Nat \X Nat /\ <<j, k>> \notin less
        BY <1>1
    <2> QED
        BY <1>2, <2>1
<1> QED
    BY <1>3

LEMMA IterationUnfolds ==
    ASSUME NEW c, NEW k \in Nat, NEW f, Iterates(f, c, k)
    PROVE  /\ f[0] = {c}
           /\ \A n \in 0..k : n # 0 => f[n] = Grown(f[n - 1])
<1> DEFINE next == [n \in 0..k |-> IF n = 0 THEN {c} ELSE Grown(f[n - 1])]
<1>1. \A n \in 0..k : next[n] = IF n = 0 THEN {c} ELSE Grown(f[n - 1])
    OBVIOUS
<1>2. f = next
    BY DEF Iterates
<1> HIDE DEF next
<1> QED
    BY <1>1, <1>2

\* An iteration of every length exists: one that is too short by one goes on.
LEMMA IterationExists ==
    ASSUME NEW c, NEW k \in Nat
    PROVE  \E f : Iterates(f, c, k)
<1> DEFINE missing == {n \in Nat : ~ \E f : Iterates(f, c, n)}
<1> SUFFICES ASSUME missing # {}
             PROVE  FALSE
    OBVIOUS
<1>1. PICK m \in missing : \A j \in missing : m <= j
    <2>1. missing \in SUBSET Nat
        OBVIOUS
    <2> HIDE DEF missing
    <2> QED
        BY <2>1, SmallestNumber
<1>2. CASE m = 0
    <2> DEFINE f == [n \in 0..0 |-> {c}]
    <2>1. Iterates(f, c, 0)
        BY DEF Iterates
    <2> HIDE DEF f
    <2> QED
        BY <1>1, <1>2, <2>1
<1>3. CASE m # 0
    <2>1. m \in Nat /\ m - 1 \in Nat /\ m - 1 \notin missing
        BY <1>1, <1>3
    <2>2. PICK f : Iterates(f, c, m - 1)
        BY <2>1
    <2>3. f[0] = {c} /\ \A n \in 0..(m - 1) : n # 0 => f[n] = Grown(f[n - 1])
        BY <2>1, <2>2, IterationUnfolds
    <2> DEFINE g == [n \in 0..m |-> IF n = 0 THEN {c} ELSE Grown(f[n - 1])]
    <2>8. \A n \in 0..m : g[n] = IF n = 0 THEN {c} ELSE Grown(f[n - 1])
        OBVIOUS
    <2>6. g = [n \in 0..m |-> g[n]]
        OBVIOUS
    <2> HIDE DEF g
    <2>4. \A n \in 0..(m - 1) : n \in 0..m /\ g[n] = f[n]
        <3>1. \A n \in 0..(m - 1) : n \in 0..m
            BY <2>1
        <3>2. 0 \in 0..m
            BY <2>1
        <3> QED
            BY <2>3, <2>8, <3>1, <3>2
    <2>5. \A n \in 0..m :
              g[n] = IF n = 0 THEN {c} ELSE Grown(g[n - 1])
        <3>1. ASSUME NEW n \in 0..m, n # 0
              PROVE  n - 1 \in 0..(m - 1)
            BY <3>1
        <3> QED
            BY <2>4, <2>8, <3>1
    <2>7. Iterates(g, c, m)
        BY <2>5, <2>6 DEF Iterates
    <2> QED
        BY <1>1, <2>7
<1> QED
    BY <1>2, <1>3

\* Lines is what MaxCommits rounds of an iteration grow to.
Rounds(f, c) ==
    /\ f[0] = {c}
    /\ \A k \in 0..MaxCommits : k # 0 => f[k] = Grown(f[k - 1])

LEMMA LinesIterate ==
    ASSUME NEW c
    PROVE  \E f : Rounds(f, c) /\ Lines(c) = f[MaxCommits]
<1> DEFINE Fits(f) ==
        f = [n \in 0..MaxCommits |->
                IF n = 0 THEN {c}
                ELSE UNION {{d} \cup (IF d \in Passable
                                      THEN Range(commits[d].parents) ELSE {}) :
                                d \in f[n - 1]}]
           reached == CHOOSE f : Fits(f)
<1>1. \A f : Fits(f) <=> Iterates(f, c, MaxCommits)
    BY DEF Iterates, Grown
<1>2. Lines(c) = reached[MaxCommits]
    BY DEF Lines, Reached, Passable
<1> HIDE DEF Fits
<1>3. \E f : Fits(f)
    BY <1>1, IterationExists, AuditAssumption
<1>4. Iterates(reached, c, MaxCommits)
    BY <1>1, <1>3
<1> HIDE DEF reached
<1>5. Rounds(reached, c)
    BY <1>4, IterationUnfolds, AuditAssumption DEF Rounds
<1> QED
    BY <1>2, <1>5

\* After n rounds whatever lacks a parent is older than the n youngest.
LEMMA RoundsClose ==
    ASSUME Ordered, DOMAIN commits \subseteq CommitId,
           NEW c \in DOMAIN commits, NEW f, Rounds(f, c),
           NEW n \in 0..MaxCommits
    PROVE  /\ c \in f[n] /\ f[n] \subseteq DOMAIN commits
           /\ \A d \in f[n] : \/ d <= MaxCommits - n
                              \/ d \notin Passable
                              \/ Range(commits[d].parents) \subseteq f[n]
<1>1. MaxCommits \in Nat /\ CommitId = 1..MaxCommits
    BY AuditAssumption DEF CommitId
<1>2. /\ f[0] = {c}
      /\ \A k \in 0..MaxCommits : k # 0 => f[k] = Grown(f[k - 1])
    BY DEF Rounds
<1> DEFINE Good(k) ==
        /\ c \in f[k] /\ f[k] \subseteq DOMAIN commits
        /\ \A d \in f[k] : \/ d <= MaxCommits - k
                           \/ d \notin Passable
                           \/ Range(commits[d].parents) \subseteq f[k]
           bad == {k \in 0..MaxCommits : ~Good(k)}
<1>3. Good(0)
    BY <1>1, <1>2
<1>4. ASSUME NEW k \in 0..MaxCommits, k # 0, Good(k - 1)
      PROVE  Good(k)
    <2>1. f[k] = Grown(f[k - 1])
        BY <1>2, <1>4
    <2>2. c \in f[k] /\ f[k] \subseteq DOMAIN commits
        BY <1>4, <2>1 DEF Ordered, Grown, Passable
    <2>3. \A d \in f[k - 1] : d \in Passable =>
              Range(commits[d].parents) \subseteq f[k]
        BY <2>1 DEF Grown
    <2>4. ASSUME NEW d \in f[k]
          PROVE  \/ d <= MaxCommits - k
                 \/ d \notin Passable
                 \/ Range(commits[d].parents) \subseteq f[k]
        <3>1. CASE d \in f[k - 1]
            BY <2>3, <3>1
        <3>2. CASE d \notin f[k - 1]
            <4>1. PICK e \in f[k - 1] :
                      e \in Passable /\ d \in Range(commits[e].parents)
                BY <2>1, <3>2 DEF Grown
            <4>2. e <= MaxCommits - (k - 1)
                BY <1>4, <3>2, <4>1
            <4>3. e \in DOMAIN commits /\ d \in DOMAIN commits /\ d < e
                BY <1>4, <4>1 DEF Ordered
            <4>4. e \in Nat /\ d \in Nat /\ d <= MaxCommits - k
                BY <1>1, <4>2, <4>3
            <4> QED
                BY <4>4
        <3> QED
            BY <3>1, <3>2
    <2> QED
        BY <2>2, <2>4
<1> SUFFICES ASSUME bad # {}
             PROVE  FALSE
    OBVIOUS
<1>5. PICK k \in bad : \A j \in bad : k <= j
    <2>1. bad \in SUBSET Nat
        BY <1>1
    <2> HIDE DEF bad
    <2> QED
        BY <2>1, SmallestNumber
<1> HIDE DEF Good
<1>6. k \in 0..MaxCommits /\ k # 0 /\ k - 1 \in 0..MaxCommits /\ k - 1 \notin bad
    BY <1>1, <1>3, <1>5
<1> QED
    BY <1>4, <1>5, <1>6

\* A round adds nothing that a closed set lacks.
LEMMA RoundsStayWithin ==
    ASSUME NEW c, NEW f, Rounds(f, c), NEW set, c \in set,
           \A d \in set : d \in Passable => Range(commits[d].parents) \subseteq set,
           NEW n \in 0..MaxCommits
    PROVE  f[n] \subseteq set
<1> DEFINE bad == {k \in 0..MaxCommits : ~(f[k] \subseteq set)}
<1>1. MaxCommits \in Nat
    BY AuditAssumption
<1>2. /\ f[0] = {c}
      /\ \A k \in 0..MaxCommits : k # 0 => f[k] = Grown(f[k - 1])
    BY DEF Rounds
<1> SUFFICES ASSUME bad # {}
             PROVE  FALSE
    OBVIOUS
<1>3. PICK k \in bad : \A j \in bad : k <= j
    <2>1. bad \in SUBSET Nat
        BY <1>1
    <2> HIDE DEF bad
    <2> QED
        BY <2>1, SmallestNumber
<1>4. k # 0 /\ k - 1 \in 0..MaxCommits /\ k - 1 \notin bad
    BY <1>1, <1>2, <1>3
<1>5. f[k - 1] \subseteq set
    BY <1>4
<1>6. f[k] \subseteq set
    BY <1>2, <1>3, <1>4, <1>5 DEF Grown
<1> QED
    BY <1>3, <1>6

LEMMA LinesAreTheWalk ==
    ASSUME AuditInv, Ordered
    PROVE  Lines(start) = Walk!OnTheLines
<1>1. /\ start \in DOMAIN commits /\ DOMAIN commits \subseteq CommitId
      /\ MaxCommits \in 0..MaxCommits
    BY IdsTyping, AuditAssumption DEF AuditInv, AuditTypeOK
<1>2. PICK f : Rounds(f, start) /\ Lines(start) = f[MaxCommits]
    BY LinesIterate
<1>3. /\ start \in Lines(start) /\ Lines(start) \subseteq DOMAIN commits
      /\ \A d \in Lines(start) :
             d \in Passable => Range(commits[d].parents) \subseteq Lines(start)
    <2>1. /\ start \in f[MaxCommits] /\ f[MaxCommits] \subseteq DOMAIN commits
          /\ \A d \in f[MaxCommits] :
                 \/ d <= MaxCommits - MaxCommits
                 \/ d \notin Passable
                 \/ Range(commits[d].parents) \subseteq f[MaxCommits]
        BY <1>1, <1>2, RoundsClose
    <2>2. \A d \in DOMAIN commits : ~(d <= MaxCommits - MaxCommits)
        BY <1>1, AuditAssumption DEF CommitId
    <2> QED
        BY <1>2, <2>1, <2>2
<1>4. Range(<<start>>) = {start}
    BY DEF Range
<1>5. \A d \in DOMAIN commits :
          [c \in CommitId |-> IF c \in DOMAIN commits
                              THEN commits[c].parents ELSE <<>>][d]
              = commits[d].parents
    BY <1>1
<1>6. Lines(start) \subseteq Walk!OnTheLines
    <2> SUFFICES ASSUME NEW set \in SUBSET CommitId, start \in set,
                        Walk!Closed(set)
                 PROVE  Lines(start) \subseteq set
        BY <1>1, <1>3, <1>4 DEF Walk!OnTheLines, Walk!LinesBehind, Walk!Range, Range
    <2>1. \A d \in set : d \in Passable =>
              Range(commits[d].parents) \subseteq set
        BY <1>5 DEF Walk!Closed, Walk!Range, Range, Passable
    <2> QED
        BY <1>1, <1>2, <2>1, RoundsStayWithin
<1>7. Walk!OnTheLines \subseteq Lines(start)
    <2>1. Lines(start) \in SUBSET CommitId /\ Walk!Closed(Lines(start))
        BY <1>1, <1>3, <1>5 DEF Walk!Closed, Walk!Range, Range, Passable
    <2> QED
        BY <1>3, <1>4, <2>1 DEF Walk!OnTheLines, Walk!LinesBehind, Walk!Range, Range
<1> QED
    BY <1>6, <1>7

\* Whoever writes a commit names stored commits as its parents.
LEMMA ParentsAreThere ==
    ASSUME AuditInv, NEW ps, NEW tree, NEW by, Write(ps, tree, by),
           \/ ps = <<head>>
           \/ \E c \in stored : ps = <<head, c>>
    PROVE  /\ phase = "idle" /\ UNCHANGED auditVars
           /\ \E new : /\ commits' = Append(commits, new)
                       /\ Range(new.parents) \subseteq DOMAIN commits
<1>1. head \in DOMAIN commits /\ stored \subseteq DOMAIN commits
    BY DEF AuditInv, AuditTypeOK
<1>2. Range(ps) \subseteq DOMAIN commits
    BY <1>1 DEF Range
<1> DEFINE new == [parents |-> ps, tree |-> tree, by |-> by]
<1>3. commits' = Append(commits, new) /\ new.parents = ps
    BY DEF Write
<1> HIDE DEF new
<1> QED
    BY <1>2, <1>3 DEF Write

LEMMA EditAppends ==
    ASSUME AuditInv, Edit
    PROVE  /\ phase = "idle" /\ UNCHANGED auditVars
           /\ \/ commits' = commits
              \/ \E new : /\ commits' = Append(commits, new)
                          /\ Range(new.parents) \subseteq DOMAIN commits
<1>1. \/ \E tree, by : Write(<<head>>, tree, by)
      \/ \E c \in stored : \E tree, by : Write(<<head, c>>, tree, by)
      \/ \E c \in DOMAIN commits : Reset(c)
    <2>1. ASSUME NEW content, NEW sites, Stamp(content, sites)
          PROVE  \E tree, by : Write(<<head>>, tree, by)
        BY <2>1 DEF Stamp
    <2>2. ASSUME NEW content, NEW dropping, NEW sealing,
                 CommitChanges(content, dropping, sealing)
          PROVE  \E tree, by : Write(<<head>>, tree, by)
        BY <2>2 DEF CommitChanges
    <2>3. ASSUME NEW c \in DOMAIN commits, Merge(c)
          PROVE  \E d \in stored : \E tree, by : Write(<<head, d>>, tree, by)
        BY <2>3 DEF Merge
    <2>4. ASSUME NEW c \in DOMAIN commits, Replay(c)
          PROVE  \E tree, by : Write(<<head>>, tree, by)
        BY <2>4 DEF Replay
    <2>5. ASSUME NEW manifest, NEW tokens, NEW laidOut,
                 Recombine(manifest, tokens, laidOut)
          PROVE  \E tree, by : Write(<<head>>, tree, by)
        BY <2>5 DEF Recombine
    <2>6. ASSUME NEW text, NEW genuine, Forge(text, genuine)
          PROVE  \E tree, by : Write(<<head>>, tree, by)
        BY <2>6 DEF Forge
    <2> QED
        BY <2>1, <2>2, <2>3, <2>4, <2>5, <2>6 DEF Edit
<1>2. ASSUME NEW c \in DOMAIN commits, Reset(c)
      PROVE  phase = "idle" /\ UNCHANGED <<auditVars, commits>>
    BY <1>2 DEF Reset
<1> QED
    BY <1>1, <1>2, ParentsAreThere

LEMMA OrderedNext ==
    ASSUME AuditInv, Ordered, [AuditNext]_vars
    PROVE  Ordered'
<1>1. CASE commits' = commits
    BY <1>1 DEF Ordered
<1>2. ASSUME NEW new, commits' = Append(commits, new),
             Range(new.parents) \subseteq DOMAIN commits
      PROVE  Ordered'
    <2>1. commits \in Seq(Commit)
        BY DEF AuditInv, AuditTypeOK, Commit, Origin
    <2>2. /\ DOMAIN commits = 1..Len(commits) /\ Len(commits) \in Nat
          /\ DOMAIN commits' = 1..(Len(commits) + 1)
          /\ commits'[Len(commits) + 1] = new
          /\ \A c \in DOMAIN commits : commits'[c] = commits[c]
        BY <1>2, <2>1
    <2>3. ASSUME NEW c \in DOMAIN commits', NEW q \in Range(commits'[c].parents)
          PROVE  q \in DOMAIN commits' /\ q < c
        <3>1. CASE c \in DOMAIN commits
            BY <2>2, <2>3, <3>1 DEF Ordered
        <3>2. CASE c \notin DOMAIN commits
            <4>1. c = Len(commits) + 1
                BY <2>2, <2>3, <3>2
            <4>2. q \in DOMAIN commits
                BY <1>2, <2>2, <2>3, <4>1
            <4> QED
                BY <2>2, <4>1, <4>2
        <3> QED
            BY <3>1, <3>2
    <2> QED
        BY <2>3 DEF Ordered
<1>3. ~Edit => commits' = commits
    BY DEF AuditNext, World, Lose, Deposit, Begin, AuditStep, WalkFails,
           WalkToClaims, GatherFails, Gather, PassDeposits, DepositsFail,
           GatherDeposits, JudgeClaim, Report, GiveUp, repository, vars
<1> QED
    BY <1>1, <1>2, <1>3, EditAppends

(***************************************************************************)
(* From the walk on the audit owes a verdict on the claims it found, for   *)
(* nobody writes history while it runs, and it reports when it has given   *)
(* them all.                                                               *)
(***************************************************************************)
Owed == {c \in Walk!OnTheLines : Claims(c)}

Accounted ==
    /\ phase \in {"gather", "deposits", "judge"} => nearest = Owed
    /\ phase # "done" => exit = None
    /\ \A c \in DOMAIN verdicts : verdicts[c] \in BOOLEAN
    /\ exit \in {0, 1} =>
           /\ phase = "done" /\ nearest = Owed /\ DOMAIN verdicts = nearest
           /\ exit = 0 <=> nearest # {} /\ \A c \in nearest : verdicts[c]

LEMMA AccountedNext ==
    ASSUME AuditInv, Ordered, Accounted, [AuditNext]_vars
    PROVE  Accounted'
<1>1. None \notin {0, 1, 2}
    BY AuditAssumption
<1>2. UNCHANGED <<commits, start>> => Owed' = Owed
    BY DEF Owed, Claims, TreeOf, Walk!OnTheLines, Walk!LinesBehind,
           Walk!Closed, Walk!Range
<1>3. CASE Edit \/ Begin
    <2>1. /\ phase = "idle" /\ phase' \in {"idle", "walk"}
          /\ UNCHANGED <<verdicts, exit>>
        BY <1>3, EditAppends DEF Begin, auditVars
    <2> QED
        BY <1>1, <2>1 DEF Accounted
<1>4. ASSUME UNCHANGED <<commits, phase, start, nearest, verdicts, exit>>
      PROVE  Accounted'
    BY <1>2, <1>4 DEF Accounted
<1>5. CASE World \/ UNCHANGED vars
    BY <1>4, <1>5 DEF World, Lose, Deposit, vars, repository, auditVars
<1>6. CASE GiveUp
    <2>1. /\ phase' = "done" /\ exit' = 2 /\ UNCHANGED verdicts
        BY <1>6 DEF GiveUp
    <2> QED
        BY <2>1 DEF Accounted
<1>7. CASE WalkToClaims
    <2>1. /\ phase = "walk" /\ phase' = "gather"
          /\ nearest' = NearestClaims(start)
          /\ UNCHANGED <<commits, start, verdicts, exit>>
        BY <1>7 DEF WalkToClaims, repository
    <2>2. NearestClaims(start) = Owed
        BY LinesAreTheWalk DEF NearestClaims, Owed
    <2> QED
        BY <1>1, <1>2, <2>1, <2>2 DEF Accounted
<1>8. CASE Gather \/ PassDeposits \/ GatherDeposits
    <2>1. /\ phase \in {"gather", "deposits"} /\ phase' \in {"deposits", "judge"}
          /\ UNCHANGED <<commits, start, nearest, verdicts, exit>>
        BY <1>8 DEF Gather, PassDeposits, GatherDeposits, repository
    <2> QED
        BY <1>1, <1>2, <2>1 DEF Accounted
<1>9. ASSUME NEW c \in CommitId, JudgeClaim(c)
      PROVE  Accounted'
    <2>1. /\ phase = "judge" /\ verdicts' = WithVerdictOn(c)
          /\ UNCHANGED <<commits, phase, start, nearest, exit>>
        BY <1>9 DEF JudgeClaim, repository
    <2>2. Passes(c, material) \in BOOLEAN
        BY DEF Passes
    <2>3. \A d \in DOMAIN verdicts' : verdicts'[d] \in BOOLEAN
        <3> DEFINE passed == Passes(c, material)
        <3>1. /\ DOMAIN verdicts' = DOMAIN verdicts \cup {c}
              /\ \A d \in DOMAIN verdicts' :
                     verdicts'[d] = IF d = c THEN passed ELSE verdicts[d]
            BY <2>1 DEF WithVerdictOn
        <3>2. passed \in BOOLEAN
            BY <2>2
        <3> HIDE DEF passed
        <3> QED
            BY <3>1, <3>2 DEF Accounted
    <2> QED
        BY <1>1, <1>2, <2>1, <2>3 DEF Accounted
<1>10. CASE Report
    <2>1. /\ phase = "judge" /\ phase' = "done"
          /\ DOMAIN verdicts = nearest
          /\ exit' = IF nearest # {} /\ \A c \in nearest : verdicts[c]
                     THEN 0 ELSE 1
          /\ UNCHANGED <<commits, start, nearest, verdicts>>
        BY <1>10 DEF Report, repository
    <2> QED
        BY <1>1, <1>2, <2>1 DEF Accounted
<1> QED
    BY <1>3, <1>5, <1>6, <1>7, <1>8, <1>9, <1>10
    DEF AuditNext, AuditStep, WalkFails, GatherFails, DepositsFail

-----------------------------------------------------------------------------
(***************************************************************************)
(* Only what an authority stamped passes the audit: whatever is committed, *)
(* merged, replayed, recombined or forged, in any number, a verdict of     *)
(* "pass" means that a token was issued over a manifest that describes     *)
(* exactly this snapshot.                                                  *)
(***************************************************************************)
THEOREM AuditPassesWhatWasStamped == AuditSpec => []PassMeansStamped
    BY AuditInvAlways, PTL DEF AuditInv

(***************************************************************************)
(* A fresh clone agrees: if the audit reports no unsealed deposit, the     *)
(* records sealed in the trees it read give every claim the verdict that   *)
(* the working tree's records gave it.                                     *)
(***************************************************************************)
THEOREM AuditNeedsNoDeposits == AuditSpec => []FreshCloneAgrees
<1>1. AuditInv => FreshCloneAgrees
    BY DEF AuditInv, Gathered, FreshCloneAgrees
<1> QED
    BY <1>1, AuditInvAlways, PTL

(***************************************************************************)
(* Nothing genuine is refused: what the sealing flow wrote, and what       *)
(* replays its tree, passes verify_stamp wherever it lies, as long as the  *)
(* commits its groups name can be read and its chains stand.               *)
(***************************************************************************)
THEOREM GenuineStampsPass == AuditSpec => []StampsStand
<1>1. ASSUME AuditInv, NEW c \in stored, Genuine(c),
             \A group \in manifests[TreeOf(c).manifest].groups :
                 group.commit \in stored
      PROVE  Passes(c, Standing)
    <2>1. c \in DOMAIN commits
        BY <1>1 DEF AuditInv, AuditTypeOK
    <2>2. Sound(TreeOf(c), commits, manifests)
        BY <1>1, <2>1 DEF AuditInv, GenuineIsSound, TreeOf
    <2>3. TreeOf(c).manifest # None
        BY <1>1, <2>2, IdsTyping, AuditAssumption DEF AuditInv, Sound
    <2>4. ASSUME NEW group \in manifests[TreeOf(c).manifest].groups
          PROVE  Resolvable(group) /\ Linked(group)
        BY <1>1, <2>2
        DEF Sound, Binds, Resolvable, ArtifactsRead, Linked, Claims, TreeOf
    <2>5. MaterialParses(Standing)
        BY DEF MaterialParses, Standing
    <2>6. PICK s \in Site :
              /\ TreeOf(c).tokens[s] # None
              /\ TreeOf(c).tokens[s].genuine
              /\ TreeOf(c).tokens[s].imprint = TreeOf(c).manifest
        BY <2>2 DEF Sound
    <2>7. Accepted(TreeOf(c).tokens[s], TreeOf(c).manifest, Standing[s])
        BY <2>6 DEF Accepted, Standing
    <2>8. ArtifactsRead(c)
        BY <2>2, <2>3 DEF Sound, ArtifactsRead, Claims
    <2> QED
        BY <2>2, <2>4, <2>5, <2>6, <2>7, <2>8 DEF Passes, Sound, Agrees
<1>2. AuditInv => StampsStand
    BY <1>1 DEF StampsStand
<1> QED
    BY <1>2, AuditInvAlways, PTL

(***************************************************************************)
(* Every claim is judged: an audit that reports has a verdict on exactly   *)
(* the nearest claim of every line of history, as the walk of claims.rs is *)
(* to find them, and succeeds only if there is a claim and all pass.       *)
(***************************************************************************)
THEOREM AuditJudgesEveryClaim == AuditSpec => []EveryClaimIsJudged
<1>1. AuditInit => Ordered /\ Accounted
    <2> SUFFICES ASSUME AuditInit
                 PROVE  Ordered /\ Accounted
        OBVIOUS
    <2>1. DOMAIN commits = {1} /\ commits[1].parents = <<>>
        BY DEF AuditInit
    <2>2. Range(commits[1].parents) = {}
        BY <2>1 DEF Range
    <2>3. Ordered
        BY <2>1, <2>2 DEF Ordered
    <2> QED
        BY <2>3, AuditAssumption DEF AuditInit, Accounted
<1>2. AuditInv /\ Ordered /\ Accounted /\ [AuditNext]_vars
          => Ordered' /\ Accounted'
    BY OrderedNext, AccountedNext
<1>3. Accounted => EveryClaimIsJudged
    <2> SUFFICES ASSUME Accounted, exit \in {0, 1}
                 PROVE  /\ DOMAIN verdicts = Owed
                        /\ exit = 0 <=> /\ TRUE \in Range(verdicts)
                                        /\ FALSE \notin Range(verdicts)
        BY DEF EveryClaimIsJudged, Owed
    <2>1. /\ DOMAIN verdicts = Owed
          /\ exit = 0 <=> /\ DOMAIN verdicts # {}
                          /\ \A c \in DOMAIN verdicts : verdicts[c]
        BY DEF Accounted
    <2>2. \A c \in DOMAIN verdicts : verdicts[c] = TRUE \/ verdicts[c] = FALSE
        BY DEF Accounted
    <2>3. (/\ DOMAIN verdicts # {}
           /\ \A c \in DOMAIN verdicts : verdicts[c])
          <=> TRUE \in Range(verdicts) /\ FALSE \notin Range(verdicts)
        BY <2>2 DEF Range
    <2> QED
        BY <2>1, <2>3
<1> QED
    BY <1>1, <1>2, <1>3, AuditInvAlways, PTL DEF AuditSpec
=============================================================================
