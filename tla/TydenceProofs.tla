--------------------------- MODULE TydenceProofs ----------------------------
(***************************************************************************)
(* Safety of Tydence for any number of processes, sites and issuers, any   *)
(* faults and any habits of the user: the types are kept, only verified    *)
(* material is ever settled, and a sealed stamp never claims more than was *)
(* done.                                                                   *)
(*                                                                         *)
(* TypeOK alone is not inductive: an action that reads a tree needs the    *)
(* commit it reads it from to exist, and one that writes the index back    *)
(* needs the copy it took.  Positions says where in the flow each of these *)
(* is in place.  The other two theorems follow from inductive invariants   *)
(* over every place the data passes through, on top of Consistent.         *)
(***************************************************************************)
EXTENDS Tydence, TLAPS

SyncSteps == {"syncArtifacts", "syncRecords", "syncStale", "syncIndex"}
HoldsIndex == SyncSteps \cup {"stageIndex", "dropIndex"}

Positions ==
    /\ head \in DOMAIN commits
    /\ \A p \in Proc :
           /\ pc[p] \in StampSteps => base[p] \in DOMAIN commits
           /\ pc[p] \in SyncSteps => seen[p] \in DOMAIN commits
           /\ pc[p] \in HoldsIndex => idx[p] \in Files
           /\ pc[p] = "verify" => sites[p] # <<>> /\ reply[p] # None
           /\ pc[p] = "recordCrl" => settled[p] < Len(acquired[p])

Consistent == TypeOK /\ Positions

Steps == {"idle"} \cup StampSteps \cup CheckoutSteps

-----------------------------------------------------------------------------
\* The commits of the store and their trees.
LEMMA StoreTyping ==
    ASSUME RepositoryTypeOK
    PROVE  /\ Len(commits) \in Nat
           /\ DOMAIN commits = 1..Len(commits)
           /\ \A c \in DOMAIN commits :
                  /\ commits[c] \in Commit
                  /\ TreeOf(c) \in Files
                  /\ commits[c].parents \in SUBSET Nat
<1>1. commits \in Seq(Commit)
    BY DEF RepositoryTypeOK
<1>2. \A c \in DOMAIN commits : commits[c] \in Commit
    BY <1>1
<1>3. \A c \in Commit : c.tree \in Files /\ c.parents \in SUBSET Nat
    BY DEF Commit
<1> QED
    BY <1>1, <1>2, <1>3 DEF TreeOf

LEMMA FilesTyping ==
    ASSUME NEW f \in Files
    PROVE  /\ f.content \in Content
           /\ f.manifest \in ManifestFile
           /\ f.tokens \in TokenFiles
           /\ f.chains \in ChainFiles
           /\ f.crls \in CrlFiles
           /\ f = [content |-> f.content, manifest |-> f.manifest,
                   tokens |-> f.tokens, chains |-> f.chains,
                   crls |-> f.crls]
    BY DEF Files

\* Laying one directory over another keeps its type.
LEMMA OverlayTyping ==
    ASSUME NEW S, NEW T, NEW a \in [S -> T], NEW b \in [S -> T]
    PROVE  Overlay(a, b) \in [S -> T]
    BY DEF Overlay, Lay

LEMMA DirectoryTyping ==
    ASSUME NEW S, NEW T, None \in T, NEW a \in [S -> T], NEW b,
           NEW c \in [S -> T]
    PROVE  DirectoryAfter(a, b, c) \in [S -> T]
    BY DEF DirectoryAfter, FileAfter, LeaveStale, Lay

LEMMA CheckOutTyping ==
    ASSUME NEW tree \in Files, NEW tracked \in Files, NEW current \in Files
    PROVE  CheckOut(tree, tracked, current) \in Files
<1>1. \A f \in {tree, current} :
          /\ f.content \in Content
          /\ f.manifest \in Nat \cup {None}
          /\ f.tokens \in [Site -> Token \cup {None}]
          /\ f.chains \in [Issuer -> Chain \cup {None}]
          /\ f.crls \in [Issuer -> Crl \cup {None}]
    BY FilesTyping DEF ManifestFile, TokenFiles, ChainFiles, CrlFiles
<1>2. FileAfter(tree.manifest, tracked.manifest, current.manifest)
        \in Nat \cup {None}
    BY <1>1 DEF FileAfter, LeaveStale, Lay
<1>3. DirectoryAfter(tree.tokens, tracked.tokens, current.tokens)
        \in [Site -> Token \cup {None}]
    BY <1>1, DirectoryTyping, Zenon
<1>4. DirectoryAfter(tree.chains, tracked.chains, current.chains)
        \in [Issuer -> Chain \cup {None}]
    BY <1>1, DirectoryTyping, Zenon
<1>5. DirectoryAfter(tree.crls, tracked.crls, current.crls)
        \in [Issuer -> Crl \cup {None}]
    BY <1>1, DirectoryTyping, Zenon
<1> QED
    BY <1>1, <1>2, <1>3, <1>4, <1>5
    DEF CheckOut, Files, ManifestFile, TokenFiles, ChainFiles, CrlFiles

\* Absent files and empty directories.
LEMMA NothingTyping ==
    /\ NoTokens \in TokenFiles
    /\ NoChains \in ChainFiles
    /\ NoCrls \in CrlFiles
    /\ NoRecords \in Records
    BY DEF NoTokens, NoChains, NoCrls, NoRecords, Records, TokenFiles,
           ChainFiles, CrlFiles

-----------------------------------------------------------------------------
\* What one step of an invocation does to the program counters.
LEMMA StepTyping ==
    ASSUME pc \in [Proc -> Steps], NEW p \in Proc,
           NEW from \in Steps, NEW to \in Steps, Step(p, from, to)
    PROVE  /\ pc[p] = from
           /\ pc' \in [Proc -> Steps]
           /\ pc'[p] = to
           /\ \A q \in Proc : q # p => pc'[q] = pc[q]
    BY DEF Step

LEMMA ContentTreeTyping ==
    ASSUME TypeOK, NEW p \in Proc, base[p] \in DOMAIN commits
    PROVE  ContentTree(p) \in Files
<1>1. TreeOf(base[p]) \in Files
    BY StoreTyping DEF TypeOK
<1>2. /\ records[p].chains \in [Issuer -> Chain \cup {None}]
      /\ records[p].crls \in [Issuer -> Crl \cup {None}]
    BY DEF TypeOK, StampingTypeOK, Records, ChainFiles, CrlFiles
<1>3. /\ TreeOf(base[p]).chains \in [Issuer -> Chain \cup {None}]
      /\ TreeOf(base[p]).crls \in [Issuer -> Crl \cup {None}]
    BY <1>1, FilesTyping DEF ChainFiles, CrlFiles
<1>4. Overlay(records[p].chains, TreeOf(base[p]).chains) \in ChainFiles
    BY <1>2, <1>3, OverlayTyping, Zenon DEF ChainFiles
<1>5. Overlay(records[p].crls, TreeOf(base[p]).crls) \in CrlFiles
    BY <1>2, <1>3, OverlayTyping, Zenon DEF CrlFiles
<1> QED
    BY <1>1, <1>4, <1>5 DEF ContentTree, Files

\* The tokens an invocation holds.
LEMMA AcquiredTyping ==
    ASSUME TypeOK, NEW p \in Proc
    PROVE  /\ Len(acquired[p]) \in Nat
           /\ \A k \in DOMAIN acquired[p] :
                  /\ acquired[p][k].token \in Token
                  /\ acquired[p][k].crl \in Crl
<1>1. acquired[p] \in Seq(Acquired)
    BY DEF TypeOK, StampingTypeOK
<1>2. \A k \in DOMAIN acquired[p] : acquired[p][k] \in Acquired
    BY <1>1
<1>3. \A a \in Acquired : a.token \in Token /\ a.crl \in Crl
    BY DEF Acquired
<1> QED
    BY <1>1, <1>2, <1>3

LEMMA StampTreeTyping ==
    ASSUME TypeOK, NEW p \in Proc, base[p] \in DOMAIN commits
    PROVE  StampTree(p) \in Files
<1>1. ContentTree(p) \in Files
    BY ContentTreeTyping
<1>2. fixed[p] \in ManifestFile
    BY DEF TypeOK, StampingTypeOK, ManifestFile
<1>3. \A k \in DOMAIN acquired[p] : acquired[p][k].token \in Token
    BY AcquiredTyping
<1>4. ASSUME NEW s \in Site,
             \E k \in DOMAIN acquired[p] : acquired[p][k].token.site = s
      PROVE  (CHOOSE k \in DOMAIN acquired[p] :
                  acquired[p][k].token.site = s) \in DOMAIN acquired[p]
    BY <1>4
<1>5. StampTree(p).tokens \in TokenFiles
    BY <1>1, <1>3, <1>4 DEF StampTree, TokenFiles, Files
<1> QED
    BY <1>1, <1>2, <1>5 DEF StampTree, Files

\* What FixManifest enters in the table.
LEMMA ManifestTyping ==
    ASSUME TypeOK, NEW p \in Proc, base[p] \in DOMAIN commits
    PROVE  [parents |-> StampParents(p),
            groups  |-> BoundGroups(StampParents(p)),
            entries |-> SnapshotOf(ContentTree(p))] \in Manifest
<1>1. StampParents(p) \in SUBSET Nat
    BY StoreTyping DEF StampParents, TypeOK, StampingTypeOK
<1>2. ASSUME NEW c \in DOMAIN commits
      PROVE  BoundStamp(c) \in Group
    BY StoreTyping, FilesTyping DEF BoundStamp, Group, TypeOK
<1>3. BoundGroups(StampParents(p)) \in SUBSET Group
    BY <1>2 DEF BoundGroups, NearestClaims, Walked
<1>4. SnapshotOf(ContentTree(p)) \in Snapshot
    BY ContentTreeTyping, FilesTyping DEF SnapshotOf, Snapshot
<1> QED
    BY <1>1, <1>3, <1>4 DEF Manifest

-----------------------------------------------------------------------------
(***************************************************************************)
(* Every action keeps Consistent.  In each proof the files, trees and      *)
(* tokens the action writes are typed first; with these, the rest of its   *)
(* frame settles Consistent'.                                              *)
(***************************************************************************)
USE DEF repoVars, worldVars, checkoutVars, Consistent, Positions, TypeOK,
        RepositoryTypeOK, StampingTypeOK, CheckoutTypeOK

StampFrame == UNCHANGED <<checkoutVars, hook>>
DropFrame  == UNCHANGED <<stampingVars, hook>>

LEMMA StampBeginKeeps ==
    ASSUME Consistent, NEW p \in Proc, NEW amending \in BOOLEAN,
           StampBegin(p, amending), StampFrame
    PROVE  Consistent'
<1>1. PICK profile \in Profiles : sites' = [sites EXCEPT ![p] = profile]
    BY DEF StampBegin
<1>2. sites' \in [Proc -> Seq(Site)]
    BY <1>1, StampingAssumption
<1>3. \A q \in Proc : q # p => sites'[q] = sites[q]
    BY <1>1
<1>4. /\ Step(p, "idle", "list")
      /\ base' = [base EXCEPT ![p] = head]
      /\ amend' = [amend EXCEPT ![p] = amending]
      /\ UNCHANGED <<repoVars, worldVars, learned, listed, records, fixed,
                     reply, acquired, settled, result>>
    BY DEF StampBegin
<1> QED
    BY <1>2, <1>3, <1>4
    DEF StampFrame, Step, StampSteps, CheckoutSteps, SyncSteps, HoldsIndex

LEMMA RefreshListKeeps ==
    ASSUME Consistent, NEW p \in Proc, RefreshList(p), StampFrame
    PROVE  Consistent'
    BY DEF StampFrame, RefreshList, Step, StampSteps, CheckoutSteps,
           SyncSteps, HoldsIndex

LEMMA RefreshFetchKeeps ==
    ASSUME Consistent, NEW p \in Proc, NEW i \in Issuer, RefreshFetch(p, i),
           StampFrame
    PROVE  Consistent'
<1>1. /\ work.chains[i] \in Chain \cup {None}
      /\ crl[i] \in Crl
    BY FilesTyping DEF ChainFiles
<1> DEFINE refreshed == [records[p] EXCEPT !.chains[i] = work.chains[i],
                                          !.crls[i] = crl[i]]
<1>2. records' \in [Proc -> Records]
  <2>1. refreshed \in Records
    <3>1. records[p] \in Records
        BY DEF Records
    <3>2. /\ [records[p].chains EXCEPT ![i] = work.chains[i]] \in ChainFiles
          /\ [records[p].crls EXCEPT ![i] = crl[i]] \in CrlFiles
        BY <1>1, <3>1 DEF Records, ChainFiles, CrlFiles
    <3> QED
        BY <3>1, <3>2 DEF Records
  <2>2. records' = [records EXCEPT ![p] = refreshed]
      BY DEF RefreshFetch
  <2> QED
      BY <2>1, <2>2
<1>3. /\ Step(p, "refresh", "refreshCrl")
      /\ UNCHANGED <<repoVars, worldVars, learned, base, amend, sites, listed,
                     fixed, reply, acquired, settled, result>>
    BY DEF RefreshFetch
<1> QED
    BY <1>2, <1>3
    DEF StampFrame, Step, StampSteps, CheckoutSteps, SyncSteps, HoldsIndex

LEMMA RefreshWriteKeeps ==
    ASSUME Consistent, NEW p \in Proc, NEW i \in Issuer, RefreshWrite(p, i),
           StampFrame
    PROVE  Consistent'
<1>1. records[p].crls[i] \in Crl \cup {None}
    BY DEF Records, CrlFiles
<1>2. work' \in Files
    BY <1>1 DEF RefreshWrite, Files, CrlFiles
<1>3. /\ Step(p, "refreshCrl", "refresh")
      /\ listed' = [listed EXCEPT ![p] = @ \ {i}]
      /\ UNCHANGED <<commits, manifests, head, index, worldVars, learned,
                     base, amend, sites, records, fixed, reply, acquired,
                     settled, result>>
    BY DEF RefreshWrite
<1> QED
    BY <1>2, <1>3
    DEF StampFrame, Step, StampSteps, CheckoutSteps, SyncSteps, HoldsIndex

LEMMA FixManifestKeeps ==
    ASSUME Consistent, NEW p \in Proc, FixManifest(p), StampFrame
    PROVE  Consistent'
<1> DEFINE manifest == [parents |-> StampParents(p),
                        groups  |-> BoundGroups(StampParents(p)),
                        entries |-> SnapshotOf(ContentTree(p))]
           known == \E k \in DOMAIN manifests : manifests[k] = manifest
           table == IF known THEN manifests ELSE Append(manifests, manifest)
<1>1. base[p] \in DOMAIN commits
    BY DEF FixManifest, Step, StampSteps
<1>2. manifest \in Manifest
    BY <1>1, ManifestTyping
<1>3. table \in Seq(Manifest) /\ \E k \in DOMAIN table : table[k] = manifest
  <2> HIDE DEF manifest
  <2>1. CASE known
      BY <2>1
  <2>2. CASE ~known
    <3>1. table = Append(manifests, manifest)
        BY <2>2
    <3>2. /\ Append(manifests, manifest) \in Seq(Manifest)
          /\ Len(manifests) + 1 \in DOMAIN Append(manifests, manifest)
          /\ Append(manifests, manifest)[Len(manifests) + 1] = manifest
        BY <1>2
    <3> QED
        BY <3>1, <3>2
  <2> QED
      BY <2>1, <2>2
<1>4. (CHOOSE k \in DOMAIN table : table[k] = manifest) \in Nat
  <2> HIDE DEF table, manifest
  <2>1. DOMAIN table \subseteq Nat
      BY <1>3
  <2> QED
      BY <1>3, <2>1
<1>5. manifests' = table
      /\ fixed' = [fixed EXCEPT ![p] =
             CHOOSE k \in DOMAIN table : table[k] = manifest]
    BY DEF FixManifest
<1>6. manifests' \in Seq(Manifest) /\ fixed' \in [Proc -> Nat]
  <2> HIDE DEF table, manifest
  <2> QED
      BY <1>3, <1>4, <1>5
<1>7. /\ Step(p, "refresh", "acquire")
      /\ UNCHANGED <<commits, head, index, work, worldVars, learned, base,
                     amend, sites, listed, records, reply, acquired,
                     settled, result>>
    BY DEF FixManifest
<1> QED
    BY <1>6, <1>7
    DEF StampFrame, Step, StampSteps, CheckoutSteps, SyncSteps, HoldsIndex

LEMMA TsaReplyKeeps ==
    ASSUME Consistent, NEW p \in Proc, TsaReply(p), StampFrame
    PROVE  Consistent'
<1>1. sites[p] # <<>> /\ sites[p] \in Seq(Site)
    BY DEF TsaReply
<1>2. Head(sites[p]) \in Site
    BY <1>1
<1> DEFINE token(genuine) ==
        [site |-> Head(sites[p]), gen |-> gen[Head(sites[p])],
         imprint |-> fixed[p], genTime |-> now, genuine |-> genuine]
<1>3. PICK genuine \in BOOLEAN :
          reply' = [reply EXCEPT ![p] = token(genuine)]
    BY DEF TsaReply
<1>4. token(genuine) \in Token
    BY <1>2 DEF Token
<1>5. /\ reply' \in [Proc -> Token \cup {None}]
      /\ reply'[p] # None
      /\ \A q \in Proc : q # p => reply'[q] = reply[q]
    BY <1>3, <1>4, RepositoryAssumption
<1>6. /\ Step(p, "acquire", "verify")
      /\ UNCHANGED <<repoVars, worldVars, learned, base, amend, sites, listed,
                     records, fixed, acquired, settled, result>>
    BY DEF TsaReply
<1> QED
    BY <1>1, <1>5, <1>6
    DEF StampFrame, Step, StampSteps, CheckoutSteps, SyncSteps, HoldsIndex

LEMMA SiteYieldsKeeps ==
    ASSUME Consistent, NEW p \in Proc, SiteYields(p), StampFrame
    PROVE  Consistent'
<1>1. reply[p] \in Token /\ sites[p] \in Seq(Site) /\ sites[p] # <<>>
    BY DEF SiteYields, Step
<1>2. reply[p].site \in Site /\ reply[p].gen \in Nat
    BY <1>1 DEF Token
<1> DEFINE issuer == IssuerOf[reply[p].site]
           yield == [token |-> reply[p], crl |-> crl[issuer]]
<1>3. yield \in Acquired
    BY <1>1, <1>2, RepositoryAssumption DEF Acquired
<1>4. acquired' = [acquired EXCEPT ![p] = Append(@, yield)]
    BY DEF SiteYields
<1>5. acquired' \in [Proc -> Seq(Acquired)]
  <2> HIDE DEF yield
  <2>1. Append(acquired[p], yield) \in Seq(Acquired)
      BY <1>3
  <2> QED
      BY <1>4, <2>1
<1>6. learned' \subseteq Chain
  <2> DEFINE chain == [site |-> reply[p].site, gen |-> reply[p].gen]
  <2>1. chain \in Chain
      BY <1>2 DEF Chain
  <2>2. learned' = learned \cup {chain}
      BY DEF SiteYields
  <2> HIDE DEF chain
  <2> QED
      BY <2>1, <2>2
<1>7. sites' \in [Proc -> Seq(Site)]
    BY <1>1 DEF SiteYields
<1>8. reply' \in [Proc -> Token \cup {None}]
    BY DEF SiteYields
<1>9. \A q \in Proc : q # p => /\ acquired'[q] = acquired[q]
                               /\ sites'[q] = sites[q]
                               /\ reply'[q] = reply[q]
    BY DEF SiteYields
<1>10. /\ Step(p, "verify", "acquire")
       /\ UNCHANGED <<repoVars, worldVars, base, amend, listed, records,
                      fixed, settled, result>>
    BY DEF SiteYields
<1> QED
    BY <1>5, <1>6, <1>7, <1>8, <1>9, <1>10
    DEF StampFrame, Step, StampSteps, CheckoutSteps, SyncSteps, HoldsIndex

LEMMA SiteToleratedKeeps ==
    ASSUME Consistent, NEW p \in Proc, SiteTolerated(p), StampFrame
    PROVE  Consistent'
<1>1. sites' \in [Proc -> Seq(Site)] /\ reply' \in [Proc -> Token \cup {None}]
    BY DEF SiteTolerated
<1>2. \A q \in Proc : q # p => /\ sites'[q] = sites[q]
                               /\ reply'[q] = reply[q]
    BY DEF SiteTolerated
<1>3. /\ pc[p] \in {"acquire", "verify"}
      /\ pc' = [pc EXCEPT ![p] = "acquire"]
      /\ UNCHANGED <<repoVars, worldVars, learned, base, amend, listed,
                     records, fixed, acquired, settled, result>>
    BY DEF SiteTolerated
<1> QED
    BY <1>1, <1>2, <1>3
    DEF StampFrame, StampSteps, CheckoutSteps, SyncSteps, HoldsIndex

LEMMA AcquireDoneKeeps ==
    ASSUME Consistent, NEW p \in Proc, AcquireDone(p), StampFrame
    PROVE  Consistent'
    BY DEF AcquireDone, stampingVars, jobVars, StampFrame, Step, StampSteps,
           CheckoutSteps, SyncSteps, HoldsIndex

LEMMA RecordChainKeeps ==
    ASSUME Consistent, NEW p \in Proc, RecordChain(p), StampFrame
    PROVE  Consistent'
<1> DEFINE token == acquired[p][settled[p] + 1].token
           chain == [site |-> token.site, gen |-> token.gen]
<1>1. settled[p] < Len(acquired[p]) /\ settled[p] \in Nat
    BY DEF RecordChain
<1>2. settled[p] + 1 \in DOMAIN acquired[p]
    BY <1>1, AcquiredTyping
<1>3. token.site \in Site /\ token.gen \in Nat
    BY <1>2, AcquiredTyping DEF Token
<1>4. IssuerOf[token.site] \in Issuer /\ chain \in Chain
    BY <1>3, RepositoryAssumption DEF Chain
<1>5. work' = [work EXCEPT !.chains[IssuerOf[token.site]] = chain]
    BY DEF RecordChain
<1>6. work' \in Files
  <2> HIDE DEF chain, token
  <2> QED
      BY <1>4, <1>5, FilesTyping DEF Files, ChainFiles
<1>7. /\ Step(p, "record", "recordCrl")
      /\ UNCHANGED <<commits, manifests, head, index, result, stampingVars>>
    BY DEF RecordChain
<1> QED
    BY <1>1, <1>6, <1>7
    DEF stampingVars, jobVars, StampFrame, Step, StampSteps, CheckoutSteps,
        SyncSteps, HoldsIndex

LEMMA RecordCrlKeeps ==
    ASSUME Consistent, NEW p \in Proc, RecordCrl(p), StampFrame
    PROVE  Consistent'
<1> DEFINE next == acquired[p][settled[p] + 1]
<1>1. settled[p] + 1 \in DOMAIN acquired[p]
  <2>1. settled[p] < Len(acquired[p]) /\ settled[p] \in Nat
      BY DEF RecordCrl, Step
  <2> QED
      BY <2>1, AcquiredTyping
<1>2. /\ next.crl \in Crl
      /\ IssuerOf[next.token.site] \in Issuer
    BY <1>1, AcquiredTyping, RepositoryAssumption DEF Token
<1>3. work' \in Files
  <2>1. work' = [work EXCEPT !.crls[IssuerOf[next.token.site]] = next.crl]
      BY DEF RecordCrl
  <2> HIDE DEF next
  <2> QED
      BY <1>2, <2>1, FilesTyping DEF Files, CrlFiles
<1>4. settled' \in [Proc -> Nat]
      /\ \A q \in Proc : q # p => settled'[q] = settled[q]
  <2>1. settled[p] + 1 \in Nat
      OBVIOUS
  <2>2. settled' = [settled EXCEPT ![p] = settled[p] + 1]
      BY DEF RecordCrl
  <2> QED
      BY <2>1, <2>2
<1>5. /\ Step(p, "recordCrl", "record")
      /\ UNCHANGED <<commits, manifests, head, index, worldVars, learned,
                     base, amend, sites, listed, records, fixed, reply,
                     acquired, result>>
    BY DEF RecordCrl
<1> QED
    BY <1>3, <1>4, <1>5
    DEF StampFrame, Step, StampSteps, CheckoutSteps, SyncSteps, HoldsIndex

\* A commit more in the store, and the branch on it.
LEMMA GrowthTyping ==
    ASSUME RepositoryTypeOK, NEW commit \in Commit,
           commits' = Append(commits, commit), head' = Len(commits')
    PROVE  /\ commits' \in Seq(Commit)
           /\ head' \in DOMAIN commits'
           /\ head' \in Nat
           /\ DOMAIN commits \subseteq DOMAIN commits'
<1>1. /\ Append(commits, commit) \in Seq(Commit)
      /\ Len(Append(commits, commit)) = Len(commits) + 1
      /\ Len(commits) \in Nat
      /\ DOMAIN commits = 1..Len(commits)
      /\ DOMAIN Append(commits, commit) = 1..(Len(commits) + 1)
    OBVIOUS
<1> QED
    BY <1>1

\* The variables of a finished invocation.
LEMMA ResetTyping ==
    ASSUME StampingTypeOK, NEW p \in Proc, ResetJob(p),
           UNCHANGED <<worldVars, learned>>
    PROVE  /\ StampingTypeOK'
           /\ \A q \in Proc : q # p => /\ base'[q] = base[q]
                                      /\ sites'[q] = sites[q]
                                      /\ reply'[q] = reply[q]
                                      /\ acquired'[q] = acquired[q]
                                      /\ settled'[q] = settled[q]
<1>1. NoRecords \in Records
    BY NothingTyping
<1>2. /\ base' \in [Proc -> Nat]
      /\ amend' \in [Proc -> BOOLEAN]
      /\ listed' \in [Proc -> SUBSET Issuer]
      /\ records' \in [Proc -> Records]
      /\ fixed' \in [Proc -> Nat]
      /\ reply' \in [Proc -> Token \cup {None}]
      /\ settled' \in [Proc -> Nat]
    BY <1>1 DEF ResetJob
<1>3. /\ sites' \in [Proc -> Seq(Site)]
      /\ acquired' \in [Proc -> Seq(Acquired)]
    BY DEF ResetJob
<1> QED
    BY <1>2, <1>3 DEF ResetJob

LEMMA SealKeeps ==
    ASSUME Consistent, NEW p \in Proc, Seal(p), StampFrame
    PROVE  Consistent'
<1> DEFINE commit == [parents |-> StampParents(p), tree |-> StampTree(p),
                      sealed |-> TRUE]
<1>1. base[p] \in DOMAIN commits
    BY DEF Seal, Step, StampSteps
<1>2. StampParents(p) \in SUBSET Nat
    BY <1>1, StoreTyping DEF StampParents
<1>3. commit \in Commit
    BY <1>1, <1>2, StampTreeTyping DEF Commit
<1>4. commits' = Append(commits, commit) /\ head' = Len(commits')
    BY DEF Seal
<1>5. /\ commits' \in Seq(Commit)
      /\ head' \in DOMAIN commits'
      /\ head' \in Nat
      /\ DOMAIN commits \subseteq DOMAIN commits'
  <2> HIDE DEF commit
  <2> QED
      BY <1>3, <1>4, GrowthTyping
<1>6. /\ StampingTypeOK'
      /\ \A q \in Proc : q # p => /\ base'[q] = base[q]
                                 /\ sites'[q] = sites[q]
                                 /\ reply'[q] = reply[q]
                                 /\ acquired'[q] = acquired[q]
                                 /\ settled'[q] = settled[q]
    BY ResetTyping DEF Seal
<1>7. /\ Step(p, "record", "sync")
      /\ result' = [result EXCEPT ![p] = head']
      /\ UNCHANGED <<manifests, index, work>>
    BY DEF Seal
<1> QED
    BY <1>5, <1>6, <1>7
    DEF StampFrame, Step, StampSteps, CheckoutSteps, SyncSteps, HoldsIndex

LEMMA StopKeeps ==
    ASSUME Consistent, NEW p \in Proc, Stop(p), StampFrame
    PROVE  Consistent'
<1>1. /\ StampingTypeOK'
      /\ \A q \in Proc : q # p => /\ base'[q] = base[q]
                                 /\ sites'[q] = sites[q]
                                 /\ reply'[q] = reply[q]
                                 /\ acquired'[q] = acquired[q]
                                 /\ settled'[q] = settled[q]
    BY ResetTyping DEF Stop
<1>2. /\ pc' = [pc EXCEPT ![p] = "idle"]
      /\ result' = [result EXCEPT ![p] = 0]
      /\ UNCHANGED repoVars
    BY DEF Stop
<1> QED
    BY <1>1, <1>2
    DEF StampFrame, StampSteps, CheckoutSteps, SyncSteps, HoldsIndex

-----------------------------------------------------------------------------
\* What the checkout writes to the working tree and the index.
LEMMA SealedTyping ==
    ASSUME TypeOK, NEW p \in Proc, seen[p] \in DOMAIN commits
    PROVE  Sealed(p) \in Files
    BY StoreTyping DEF Sealed

LEMMA SyncedIndexTyping ==
    ASSUME TypeOK, NEW p \in Proc, seen[p] \in DOMAIN commits,
           idx[p] \in Files
    PROVE  SyncedIndex(p) \in Files
<1>1. Sealed(p) \in Files
    BY SealedTyping
<1>2. Overlay(Sealed(p).chains, idx[p].chains) \in ChainFiles
    BY <1>1, FilesTyping, OverlayTyping, Zenon DEF ChainFiles
<1>3. Overlay(Sealed(p).crls, idx[p].crls) \in CrlFiles
    BY <1>1, FilesTyping, OverlayTyping, Zenon DEF CrlFiles
<1> QED
    BY <1>1, <1>2, <1>3, FilesTyping DEF SyncedIndex, Files

LEMMA StagedIndexTyping ==
    ASSUME RepositoryTypeOK
    PROVE  StagedIndex \in Files
<1>1. Overlay(work.chains, index.chains) \in ChainFiles
    BY FilesTyping, OverlayTyping, Zenon DEF ChainFiles
<1>2. Overlay(work.crls, index.crls) \in CrlFiles
    BY FilesTyping, OverlayTyping, Zenon DEF CrlFiles
<1> QED
    BY <1>1, <1>2 DEF StagedIndex, Files

LEMMA WithoutArtifactsTyping ==
    ASSUME NEW f \in Files
    PROVE  WithoutArtifacts(f) \in Files
    BY NothingTyping DEF WithoutArtifacts, Files, ManifestFile

LEMMA SyncOpenKeeps ==
    ASSUME Consistent, NEW p \in Proc, SyncOpen(p), DropFrame
    PROVE  Consistent'
    BY DEF SyncOpen, DropFrame, stampingVars, jobVars, Step, StampSteps,
           CheckoutSteps, SyncSteps, HoldsIndex

LEMMA SyncArtifactsKeeps ==
    ASSUME Consistent, NEW p \in Proc, SyncArtifacts(p), DropFrame
    PROVE  Consistent'
<1>1. Sealed(p) \in Files
    BY SealedTyping DEF SyncArtifacts, Step, SyncSteps
<1>2. Lay(Sealed(p).manifest, work.manifest) \in ManifestFile
    BY <1>1, FilesTyping DEF Lay
<1>3. Overlay(Sealed(p).tokens, work.tokens) \in TokenFiles
    BY <1>1, FilesTyping, OverlayTyping, Zenon DEF TokenFiles
<1>4. work' \in Files
    BY <1>2, <1>3 DEF SyncArtifacts, Files
<1>5. /\ Step(p, "syncArtifacts", "syncRecords")
      /\ UNCHANGED <<commits, manifests, head, index, result, checkoutVars>>
    BY DEF SyncArtifacts
<1> QED
    BY <1>4, <1>5
    DEF DropFrame, stampingVars, jobVars, Step, StampSteps, CheckoutSteps,
        SyncSteps, HoldsIndex

LEMMA SyncRecordsKeeps ==
    ASSUME Consistent, NEW p \in Proc, SyncRecords(p), DropFrame
    PROVE  Consistent'
<1>1. Sealed(p) \in Files
    BY SealedTyping DEF SyncRecords, Step, SyncSteps
<1>2. Overlay(Sealed(p).chains, work.chains) \in ChainFiles
    BY <1>1, FilesTyping, OverlayTyping, Zenon DEF ChainFiles
<1>3. Overlay(Sealed(p).crls, work.crls) \in CrlFiles
    BY <1>1, FilesTyping, OverlayTyping, Zenon DEF CrlFiles
<1>4. work' \in Files
    BY <1>2, <1>3 DEF SyncRecords, Files
<1>5. /\ Step(p, "syncRecords", "syncStale")
      /\ UNCHANGED <<commits, manifests, head, index, result, checkoutVars>>
    BY DEF SyncRecords
<1> QED
    BY <1>4, <1>5
    DEF DropFrame, stampingVars, jobVars, Step, StampSteps, CheckoutSteps,
        SyncSteps, HoldsIndex

LEMMA SyncStaleKeeps ==
    ASSUME Consistent, NEW p \in Proc, SyncStale(p), DropFrame
    PROVE  Consistent'
<1>1. Sealed(p) \in Files /\ idx[p] \in Files
    BY SealedTyping DEF SyncStale, Step, SyncSteps, HoldsIndex
<1>2. LeaveStale(Sealed(p).manifest, idx[p].manifest, work.manifest)
        \in ManifestFile
    BY <1>1, FilesTyping DEF LeaveStale, ManifestFile
<1>3. [s \in Site |-> LeaveStale(Sealed(p).tokens[s], idx[p].tokens[s],
                                 work.tokens[s])] \in TokenFiles
    BY <1>1, FilesTyping DEF LeaveStale, TokenFiles
<1>4. work' \in Files
    BY <1>2, <1>3 DEF SyncStale, Files
<1>5. /\ Step(p, "syncStale", "syncIndex")
      /\ UNCHANGED <<commits, manifests, head, index, result, checkoutVars>>
    BY DEF SyncStale
<1> QED
    BY <1>4, <1>5
    DEF DropFrame, stampingVars, jobVars, Step, StampSteps, CheckoutSteps,
        SyncSteps, HoldsIndex

LEMMA SyncIndexKeeps ==
    ASSUME Consistent, NEW p \in Proc, SyncIndex(p), DropFrame
    PROVE  Consistent'
<1>1. SyncedIndex(p) \in Files
    BY SyncedIndexTyping DEF SyncIndex, Step, SyncSteps, HoldsIndex
<1>2. index' \in Files
    BY <1>1 DEF SyncIndex
<1>3. /\ Step(p, "syncIndex", "stage")
      /\ Forget(p)
      /\ UNCHANGED <<commits, manifests, head, work, result>>
    BY DEF SyncIndex
<1> QED
    BY <1>2, <1>3
    DEF Forget, DropFrame, stampingVars, jobVars, Step, StampSteps,
        CheckoutSteps, SyncSteps, HoldsIndex

LEMMA StageKeeps ==
    ASSUME Consistent, NEW p \in Proc,
           StageNothing(p) \/ StageOpen(p) \/ StageIndex(p), DropFrame
    PROVE  Consistent'
<1>1. StagedIndex \in Files
    BY StagedIndexTyping
<1>2. CASE StageNothing(p)
    BY <1>2
    DEF StageNothing, DropFrame, stampingVars, jobVars, Step, StampSteps,
        CheckoutSteps, SyncSteps, HoldsIndex
<1>3. CASE StageOpen(p)
    BY <1>1, <1>3
    DEF StageOpen, DropFrame, stampingVars, jobVars, Step, StampSteps,
        CheckoutSteps, SyncSteps, HoldsIndex
<1>4. CASE StageIndex(p)
    BY <1>4
    DEF StageIndex, Forget, DropFrame, stampingVars, jobVars, Step,
        StampSteps, CheckoutSteps, SyncSteps, HoldsIndex
<1> QED
    BY <1>2, <1>3, <1>4

LEMMA DropOpenKeeps ==
    ASSUME Consistent, NEW p \in Proc, DropOpen(p), DropFrame
    PROVE  Consistent'
<1>1. WithoutArtifacts(index) \in Files
    BY WithoutArtifactsTyping
<1>2. CASE HasArtifacts(index)
    BY <1>1, <1>2
    DEF DropOpen, DropFrame, stampingVars, jobVars, Step, StampSteps,
        CheckoutSteps, SyncSteps, HoldsIndex
<1>3. CASE ~HasArtifacts(index)
    BY <1>3
    DEF DropOpen, DropFrame, stampingVars, jobVars, Step, StampSteps,
        CheckoutSteps, SyncSteps, HoldsIndex
<1> QED
    BY <1>2, <1>3

LEMMA DropStepKeeps ==
    ASSUME Consistent, NEW p \in Proc, DropStep(p), DropFrame
    PROVE  Consistent'
<1>1. CASE DropIndex(p)
    BY <1>1
    DEF DropIndex, Forget, DropFrame, stampingVars, jobVars, Step,
        StampSteps, CheckoutSteps, SyncSteps, HoldsIndex
<1>2. CASE DropManifest(p)
  <2>1. work' \in Files
      BY <1>2, NothingTyping DEF DropManifest, Files, ManifestFile
  <2> QED
      BY <1>2, <2>1
      DEF DropManifest, DropFrame, stampingVars, jobVars, Step,
          StampSteps, CheckoutSteps, SyncSteps, HoldsIndex
<1>3. CASE DropTokens(p)
  <2>1. work' \in Files
      BY <1>3, NothingTyping DEF DropTokens, Files
  <2> QED
      BY <1>3, <2>1
      DEF DropTokens, DropFrame, stampingVars, jobVars, Step,
          StampSteps, CheckoutSteps, SyncSteps, HoldsIndex
<1> QED
    BY <1>1, <1>2, <1>3 DEF DropStep

LEMMA CheckoutFailsKeeps ==
    ASSUME Consistent, NEW p \in Proc, CheckoutFails(p), DropFrame
    PROVE  Consistent'
    BY DEF CheckoutFails, Forget, DropFrame, stampingVars, jobVars,
           StampSteps, CheckoutSteps, SyncSteps, HoldsIndex

-----------------------------------------------------------------------------
\* The user's commands leave every invocation where it is.
LEMMA UserKeeps ==
    ASSUME Consistent, UserUnchanged,
           commits' \in Seq(Commit), DOMAIN commits \subseteq DOMAIN commits',
           head' \in DOMAIN commits', head' \in Nat,
           index' \in Files, work' \in Files, hook' \in Nat
    PROVE  Consistent'
    BY DEF UserUnchanged, stampingVars, jobVars

LEMMA FilesEditTyping ==
    ASSUME NEW f \in Files, NEW c \in Content
    PROVE  [f EXCEPT !.content = c] \in Files
    BY DEF Files

LEMMA CommittedTyping ==
    ASSUME Consistent, NEW others \in SUBSET (DOMAIN commits),
           Committed(others)
    PROVE  /\ commits' \in Seq(Commit)
           /\ head' \in DOMAIN commits'
           /\ head' \in Nat
           /\ DOMAIN commits \subseteq DOMAIN commits'
<1> DEFINE commit == [parents |-> {head} \cup others, tree |-> index,
                      sealed |-> FALSE]
<1>1. commit \in Commit
    BY StoreTyping DEF Commit
<1>2. commits' = Append(commits, commit) /\ head' = Len(commits')
    BY DEF Committed
<1> HIDE DEF commit
<1> QED
    BY <1>1, <1>2, GrowthTyping

LEMMA UserStepKeeps ==
    ASSUME Consistent, UserStep
    PROVE  Consistent'
<1>1. ASSUME CommitEnd
      PROVE  Consistent'
  <2>1. CASE head = hook
    <3>1. PICK others \in {{}} \cup
                  {{q} : q \in (DOMAIN commits) \ History(head)} :
              Committed(others)
        BY <1>1, <2>1 DEF CommitEnd
    <3>2. others \in SUBSET (DOMAIN commits)
        OBVIOUS
    <3>3. /\ commits' \in Seq(Commit)
          /\ head' \in DOMAIN commits'
          /\ head' \in Nat
          /\ DOMAIN commits \subseteq DOMAIN commits'
        BY <3>1, <3>2, CommittedTyping
    <3> QED
        BY <1>1, <3>3, UserKeeps DEF CommitEnd
  <2>2. CASE head # hook
      BY <1>1, <2>2, UserKeeps DEF CommitEnd
  <2> QED
      BY <2>1, <2>2
<1>2. ASSUME NEW c \in Content, Edit(c)
      PROVE  Consistent'
    BY <1>2, FilesEditTyping, UserKeeps DEF Edit
<1>3. ASSUME AddAll
      PROVE  Consistent'
    BY <1>3, UserKeeps DEF AddAll
<1>4. ASSUME CommitBegin
      PROVE  Consistent'
    BY <1>4, UserKeeps DEF CommitBegin
<1>5. ASSUME CommitUnguarded
      PROVE  Consistent'
  <2>1. /\ commits' \in Seq(Commit)
        /\ head' \in DOMAIN commits'
        /\ head' \in Nat
        /\ DOMAIN commits \subseteq DOMAIN commits'
      BY <1>5, CommittedTyping DEF CommitUnguarded
  <2> QED
      BY <1>5, <2>1, UserKeeps DEF CommitUnguarded
<1>6. ASSUME NEW c \in DOMAIN commits, ResetHard(c)
      PROVE  Consistent'
  <2>1. TreeOf(c) \in Files /\ c \in Nat
      BY StoreTyping
  <2>2. CheckOut(TreeOf(c), index, work) \in Files
      BY <2>1, CheckOutTyping
  <2> QED
      BY <1>6, <2>1, <2>2, UserKeeps DEF ResetHard
<1>7. ASSUME Restore
      PROVE  Consistent'
  <2>1. TreeOf(head) \in Files
      BY StoreTyping
  <2>2. CheckOut(TreeOf(head), index, work) \in Files
      BY <2>1, CheckOutTyping
  <2>3. index' \in Files /\ work' \in Files
      BY <1>7, <2>1, <2>2, FilesTyping, FilesEditTyping DEF Restore
  <2> QED
      BY <1>7, <2>3, UserKeeps DEF Restore
<1> QED
    BY <1>1, <1>2, <1>3, <1>4, <1>5, <1>6, <1>7 DEF UserStep

LEMMA WorldKeeps ==
    ASSUME Consistent, World
    PROVE  Consistent'
<1>1. UNCHANGED <<repoVars, pc, result, jobVars, learned, checkoutVars, hook>>
    BY DEF World, TimePasses, Tick, Publish, Rotate
<1>2. now' \in Nat /\ crl' \in [Issuer -> Crl] /\ gen' \in [Site -> Nat]
  <2>1. CASE TimePasses
      BY <2>1 DEF TimePasses, Tick
  <2>2. ASSUME NEW i \in Issuer, Publish(i)
        PROVE  now' \in Nat /\ crl' \in [Issuer -> Crl]
                 /\ gen' \in [Site -> Nat]
      BY <2>2 DEF Publish, Crl
  <2>3. ASSUME NEW s \in Site, Rotate(s)
        PROVE  now' \in Nat /\ crl' \in [Issuer -> Crl]
                 /\ gen' \in [Site -> Nat]
    <3>1. gen[s] + 1 \in Nat
        OBVIOUS
    <3> QED
        BY <2>3, <3>1 DEF Rotate
  <2> QED
      BY <2>1, <2>2, <2>3 DEF World
<1> QED
    BY <1>1, <1>2 DEF jobVars

-----------------------------------------------------------------------------
LEMMA ConsistentInitially == Init => Consistent
<1> SUFFICES ASSUME Init
             PROVE  Consistent
    OBVIOUS
<1> DEFINE files(c) == [content |-> c, manifest |-> None,
                        tokens |-> NoTokens, chains |-> NoChains,
                        crls |-> NoCrls]
<1>1. PICK c \in Content :
          /\ commits = <<[parents |-> {}, tree |-> files(c),
                          sealed |-> FALSE]>>
          /\ index = files(c)
          /\ work = files(c)
    BY DEF Init
<1>2. files(c) \in Files
    BY NothingTyping DEF Files, ManifestFile
<1>3. [parents |-> {}, tree |-> files(c), sealed |-> FALSE] \in Commit
    BY <1>2 DEF Commit
<1>4. commits \in Seq(Commit) /\ 1 \in DOMAIN commits
  <2> HIDE DEF files
  <2> QED
      BY <1>1, <1>3
<1>5. RepositoryTypeOK /\ head \in DOMAIN commits
    BY <1>1, <1>2, <1>4 DEF Init
<1>6. StampingTypeOK
    BY NothingTyping DEF Init, StampingInit, Crl
<1>7. CheckoutTypeOK
    BY DEF Init, CheckoutInit
<1> QED
    BY <1>5, <1>6, <1>7
    DEF Init, StampSteps, CheckoutSteps, SyncSteps, HoldsIndex

LEMMA ConsistentNext ==
    ASSUME Consistent, [Next]_vars
    PROVE  Consistent'
<1>1. ASSUME NEW p \in Proc, Begin(p)
      PROVE  Consistent'
    BY <1>1, StampBeginKeeps, DropOpenKeeps
    DEF Begin, StampFrame, DropFrame
<1>2. ASSUME NEW p \in Proc, StampStep(p), StampFrame
      PROVE  Consistent'
    BY <1>2, RefreshListKeeps, RefreshFetchKeeps, RefreshWriteKeeps,
       FixManifestKeeps, TsaReplyKeeps, SiteYieldsKeeps, SiteToleratedKeeps,
       AcquireDoneKeeps, RecordChainKeeps, RecordCrlKeeps, SealKeeps,
       StopKeeps
    DEF StampStep, Refuse
<1>3. ASSUME NEW p \in Proc, SyncStep(p) \/ DropStep(p), DropFrame
      PROVE  Consistent'
    BY <1>3, SyncOpenKeeps, SyncArtifactsKeeps, SyncRecordsKeeps,
       SyncStaleKeeps, SyncIndexKeeps, StageKeeps, DropStepKeeps
    DEF SyncStep
<1>4. ASSUME NEW p \in Proc, Fail(p)
      PROVE  Consistent'
    BY <1>4, StopKeeps, CheckoutFailsKeeps
    DEF Fail, StampFails, StampFrame, DropFrame
<1>5. CASE UserStep
    BY <1>5, UserStepKeeps
<1>6. CASE World
    BY <1>6, WorldKeeps
<1>7. CASE UNCHANGED vars
    BY <1>7 DEF vars, stampingVars, jobVars
<1>8. ASSUME NEW p \in Proc, Proceed(p)
      PROVE  Consistent'
    BY <1>2, <1>3, <1>8 DEF Proceed, StampFrame, DropFrame
<1> QED
    BY <1>1, <1>4, <1>5, <1>6, <1>7, <1>8 DEF Next

\* Consistent is an inductive invariant.
LEMMA ConsistentAlways == Spec => []Consistent
<1>1. Init => Consistent
    BY ConsistentInitially
<1>2. Consistent /\ [Next]_vars => Consistent'
    BY ConsistentNext
<1> QED
    BY <1>1, <1>2, PTL DEF Spec

\* Every reachable state is well typed.
THEOREM Typing == Spec => []TypeOK
<1>1. Consistent => TypeOK
    OBVIOUS
<1> QED
    BY <1>1, ConsistentAlways, PTL

-----------------------------------------------------------------------------
(***************************************************************************)
(* Where what is recorded and what is sealed comes from.                   *)
(***************************************************************************)
USE DEF StampFrame, DropFrame

\* The store is append-only.
LEMMA StoreGrows ==
    ASSUME NEW S, NEW s \in Seq(S), NEW x \in S
    PROVE  /\ DOMAIN s \subseteq DOMAIN Append(s, x)
           /\ DOMAIN Append(s, x) = DOMAIN s \cup {Len(Append(s, x))}
           /\ \A k \in DOMAIN s : Append(s, x)[k] = s[k]
           /\ Append(s, x)[Len(Append(s, x))] = x
           /\ Len(Append(s, x)) \notin DOMAIN s
<1>1. /\ Len(s) \in Nat
      /\ DOMAIN s = 1..Len(s)
      /\ Len(Append(s, x)) = Len(s) + 1
      /\ DOMAIN Append(s, x) = 1..(Len(s) + 1)
      /\ \A k \in 1..Len(s) : Append(s, x)[k] = s[k]
      /\ Append(s, x)[Len(s) + 1] = x
    OBVIOUS
<1> QED
    BY <1>1

-----------------------------------------------------------------------------
(***************************************************************************)
(* Where chains come from: every chain that is in the index, the working   *)
(* tree, a commit, the records an invocation read, the index it holds or   *)
(* the tokens it acquired is the chain of a token that verified.           *)
(***************************************************************************)
Settled(files) ==
    \A i \in Issuer : files.chains[i] \in learned \cup {None}

Held(p) ==
    /\ \A i \in Issuer : records[p].chains[i] \in learned \cup {None}
    /\ pc[p] \in HoldsIndex => Settled(idx[p])
    /\ \A k \in DOMAIN acquired[p] :
           [site |-> acquired[p][k].token.site,
            gen |-> acquired[p][k].token.gen] \in learned

Provenance ==
    /\ Settled(index)
    /\ Settled(work)
    /\ \A c \in DOMAIN commits : Settled(TreeOf(c))
    /\ \A p \in Proc : Held(p)

LEMMA OverlaySettles ==
    ASSUME NEW a \in ChainFiles, NEW b, NEW S,
           \A i \in Issuer : a[i] \in S /\ b[i] \in S
    PROVE  \A i \in Issuer : Overlay(a, b)[i] \in S
    BY DEF Overlay, Lay, ChainFiles

LEMMA ContentTreeSettled ==
    ASSUME Consistent, Provenance, NEW p \in Proc, base[p] \in DOMAIN commits
    PROVE  Settled(StampTree(p))
<1>1. records[p].chains \in ChainFiles
    BY DEF Records
<1>2. \A i \in Issuer : /\ records[p].chains[i] \in learned \cup {None}
                        /\ TreeOf(base[p]).chains[i] \in learned \cup {None}
    BY DEF Provenance, Held, Settled
<1>3. \A i \in Issuer : Overlay(records[p].chains, TreeOf(base[p]).chains)[i]
                            \in learned \cup {None}
    BY <1>1, <1>2, OverlaySettles
<1>4. TreeOf(base[p]) \in Files /\ ContentTree(p) \in Files
    BY StoreTyping, ContentTreeTyping
<1>5. StampTree(p).chains
        = Overlay(records[p].chains, TreeOf(base[p]).chains)
    BY <1>4 DEF StampTree, ContentTree, Files
<1> QED
    BY <1>3, <1>5 DEF Settled

\* A step that leaves what invocations hold, and learns nothing.
LEMMA FilesKeepProvenance ==
    ASSUME Provenance, UNCHANGED <<pc, records, acquired, idx, learned>>,
           Settled(index)', Settled(work)',
           \A c \in DOMAIN commits' : Settled(TreeOf(c))'
    PROVE  Provenance'
    BY DEF Provenance, Held, Settled

\* A step that leaves the files, and all invocations but one.
LEMMA HeldKeepsProvenance ==
    ASSUME Provenance, NEW p \in Proc,
           UNCHANGED <<commits, index, work>>, learned \subseteq learned',
           \A q \in Proc : q # p => /\ records'[q] = records[q]
                                    /\ acquired'[q] = acquired[q]
                                    /\ idx'[q] = idx[q]
                                    /\ pc'[q] = pc[q],
           Held(p)'
    PROVE  Provenance'
    BY DEF Provenance, Held, Settled, TreeOf

LEMMA AcquireKeepsProvenance ==
    ASSUME Consistent, Provenance, NEW p \in Proc, SiteYields(p), StampFrame
    PROVE  Provenance'
<1> DEFINE issuer == IssuerOf[reply[p].site]
           yield == [token |-> reply[p], crl |-> crl[issuer]]
           chain == [site |-> reply[p].site, gen |-> reply[p].gen]
<1>1. acquired' = [acquired EXCEPT ![p] = Append(@, yield)]
    BY DEF SiteYields
<1>2. learned' = learned \cup {chain}
    BY DEF SiteYields
<1>3. acquired[p] \in Seq(Acquired) /\ acquired'[p] \in Seq(Acquired)
  <2>1. TypeOK'
      BY SiteYieldsKeeps
  <2> QED
      BY <2>1
<1>4. \A k \in DOMAIN acquired'[p] :
          acquired'[p][k] = yield \/ \E j \in DOMAIN acquired[p] :
                                         acquired'[p][k] = acquired[p][j]
  <2> HIDE DEF yield
  <2>1. acquired'[p] = Append(acquired[p], yield)
      BY <1>1
  <2> QED
      BY <1>3, <2>1
<1>5. \A k \in DOMAIN acquired'[p] :
          [site |-> acquired'[p][k].token.site,
           gen |-> acquired'[p][k].token.gen] \in learned'
  <2> TAKE k \in DOMAIN acquired'[p]
  <2>1. CASE acquired'[p][k] = yield
      BY <1>2, <2>1
  <2>2. CASE \E j \in DOMAIN acquired[p] : acquired'[p][k] = acquired[p][j]
      BY <1>2, <2>2 DEF Provenance, Held
  <2> QED
      BY <1>4, <2>1, <2>2
<1>6. /\ Step(p, "verify", "acquire")
      /\ UNCHANGED <<repoVars, records, idx>>
    BY DEF SiteYields
<1>7. Held(p)'
    BY <1>2, <1>5, <1>6
    DEF Held, Provenance, Step, HoldsIndex, SyncSteps
<1> QED
    BY <1>1, <1>2, <1>6, <1>7, HeldKeepsProvenance DEF Step

LEMMA FetchKeepsProvenance ==
    ASSUME Consistent, Provenance, NEW p \in Proc, NEW i \in Issuer,
           RefreshFetch(p, i), StampFrame
    PROVE  Provenance'
<1>1. /\ \A j \in Issuer : \/ records'[p].chains[j] = records[p].chains[j]
                           \/ records'[p].chains[j] = work.chains[j]
      /\ \A q \in Proc : q # p => records'[q] = records[q]
  <2>1. records' = [records EXCEPT
            ![p] = [records[p] EXCEPT !.chains[i] = work.chains[i],
                                      !.crls[i] = crl[i]]]
      BY DEF RefreshFetch
  <2>2. records[p] \in Records
      OBVIOUS
  <2>3. records'[p].chains = [records[p].chains EXCEPT ![i] = work.chains[i]]
      BY <2>1, <2>2 DEF Records
  <2> QED
      BY <2>1, <2>2, <2>3 DEF Records, ChainFiles
<1>2. /\ Step(p, "refresh", "refreshCrl")
      /\ UNCHANGED <<repoVars, learned, acquired, idx>>
    BY DEF RefreshFetch
<1>3. Held(p)'
    BY <1>1, <1>2
    DEF Held, Settled, Provenance, Step, HoldsIndex, SyncSteps
<1> QED
    BY <1>1, <1>2, <1>3, HeldKeepsProvenance DEF Step

\* The other steps that leave the files teach nothing and pick nothing up.
LEMMA QuietKeepsProvenance ==
    ASSUME Consistent, Provenance, NEW p \in Proc,
           UNCHANGED <<commits, index, work, learned, records, acquired, idx>>,
           pc'[p] \notin HoldsIndex \/ pc[p] \in HoldsIndex,
           \A q \in Proc : q # p => pc'[q] = pc[q]
    PROVE  Provenance'
<1>1. Held(p)'
    BY DEF Held, Settled, Provenance
<1> QED
    BY <1>1, HeldKeepsProvenance

\* A reset invocation holds nothing.
LEMMA ResetHolds ==
    ASSUME Consistent, Provenance, NEW p \in Proc, ResetJob(p),
           UNCHANGED <<learned, idx>>, pc'[p] \notin HoldsIndex
    PROVE  /\ Held(p)'
           /\ \A q \in Proc : q # p => /\ records'[q] = records[q]
                                       /\ acquired'[q] = acquired[q]
<1>1. /\ records' = [records EXCEPT ![p] = NoRecords]
      /\ acquired' = [acquired EXCEPT ![p] = <<>>]
    BY DEF ResetJob
<1>2. records'[p] = NoRecords /\ acquired'[p] = <<>>
    BY <1>1
<1>3. \A i \in Issuer : NoRecords.chains[i] = None
    BY DEF NoRecords, NoChains
<1> QED
    BY <1>1, <1>2, <1>3 DEF Held

LEMMA StopKeepsProvenance ==
    ASSUME Consistent, Provenance, NEW p \in Proc, Stop(p), StampFrame
    PROVE  Provenance'
<1>1. /\ pc' = [pc EXCEPT ![p] = "idle"]
      /\ ResetJob(p)
      /\ UNCHANGED <<repoVars, learned>>
    BY DEF Stop
<1>2. pc'[p] \notin HoldsIndex
    BY <1>1 DEF HoldsIndex, SyncSteps
<1> QED
    BY <1>1, <1>2, ResetHolds, HeldKeepsProvenance

LEMMA SealedCommitTyping ==
    ASSUME Consistent, NEW p \in Proc, base[p] \in DOMAIN commits
    PROVE  [parents |-> StampParents(p), tree |-> StampTree(p),
            sealed |-> TRUE] \in Commit
<1>1. StampTree(p) \in Files
    BY StampTreeTyping DEF Consistent
<1>2. StampParents(p) \in SUBSET Nat
  <2>1. commits[base[p]].parents \in SUBSET Nat
      BY StoreTyping DEF Consistent, TypeOK
  <2>2. base[p] \in Nat
      BY DEF Consistent, TypeOK, StampingTypeOK
  <2> QED
      BY <2>1, <2>2 DEF StampParents
<1> QED
    BY <1>1, <1>2 DEF Commit

LEMMA SealKeepsProvenance ==
    ASSUME Consistent, Provenance, NEW p \in Proc, Seal(p), StampFrame
    PROVE  Provenance'
<1> DEFINE commit == [parents |-> StampParents(p), tree |-> StampTree(p),
                      sealed |-> TRUE]
<1>1. /\ Step(p, "record", "sync")
      /\ ResetJob(p)
      /\ commits' = Append(commits, commit)
      /\ UNCHANGED <<index, work, learned>>
    BY DEF Seal
<1>2. base[p] \in DOMAIN commits
    BY <1>1 DEF Step, StampSteps
<1>3. commit \in Commit
    BY <1>2, SealedCommitTyping
<1>4. Settled(StampTree(p))
    BY <1>2, ContentTreeSettled
<1>5. \A c \in DOMAIN commits' : Settled(TreeOf(c))'
  <2>1. commit.tree = StampTree(p)
      OBVIOUS
  <2> HIDE DEF commit
  <2>2. /\ DOMAIN commits' = DOMAIN commits \cup {Len(commits')}
        /\ \A c \in DOMAIN commits : commits'[c] = commits[c]
        /\ commits'[Len(commits')] = commit
      BY <1>1, <1>3, StoreGrows
  <2> QED
      BY <1>1, <1>4, <2>1, <2>2 DEF Provenance, Settled, TreeOf
<1>6. pc'[p] \notin HoldsIndex
    BY <1>1 DEF Step, HoldsIndex, SyncSteps
<1>7. ASSUME NEW q \in Proc
      PROVE  Held(q)'
  <2>1. UNCHANGED <<learned, idx>>
      BY <1>1
  <2>2. /\ Held(p)'
        /\ q # p => records'[q] = records[q] /\ acquired'[q] = acquired[q]
      BY <1>1, <1>6, <2>1, ResetHolds
  <2>3. q # p => pc'[q] = pc[q]
      BY <1>1 DEF Step
  <2>4. Held(q)
      BY DEF Provenance
  <2> QED
      BY <2>1, <2>2, <2>3, <2>4 DEF Held, Settled
<1>8. Settled(index)' /\ Settled(work)'
    BY <1>1 DEF Provenance, Settled
<1> QED
    BY <1>5, <1>7, <1>8 DEF Provenance

LEMMA RecordChainKeepsProvenance ==
    ASSUME Consistent, Provenance, NEW p \in Proc, RecordChain(p), StampFrame
    PROVE  Provenance'
<1> DEFINE token == acquired[p][settled[p] + 1].token
           chain == [site |-> token.site, gen |-> token.gen]
<1>1. settled[p] + 1 \in DOMAIN acquired[p]
  <2>1. settled[p] < Len(acquired[p]) /\ settled[p] \in Nat
      BY DEF RecordChain
  <2> QED
      BY <2>1, AcquiredTyping
<1>2. chain \in learned
    BY <1>1 DEF Provenance, Held
<1>3. work' = [work EXCEPT !.chains[IssuerOf[token.site]] = chain]
    BY DEF RecordChain
<1>4. Settled(work)'
  <2>1. UNCHANGED learned
      BY DEF RecordChain, stampingVars
  <2> HIDE DEF chain, token
  <2>2. work'.chains = [work.chains EXCEPT ![IssuerOf[token.site]] = chain]
      BY <1>3 DEF Files
  <2>3. work.chains \in ChainFiles
      BY FilesTyping
  <2> QED
      BY <1>2, <2>1, <2>2, <2>3 DEF Provenance, Settled, ChainFiles
<1>5. /\ Step(p, "record", "recordCrl")
      /\ UNCHANGED <<commits, index, learned, records, acquired, idx>>
    BY DEF RecordChain, stampingVars, jobVars
<1> QED
    BY <1>4, <1>5
    DEF Provenance, Held, Settled, TreeOf, Step, HoldsIndex, SyncSteps

\* Steps that change the working tree's files, but no chain record.
LEMMA WorkKeepsProvenance ==
    ASSUME Consistent, Provenance, NEW p \in Proc,
           UNCHANGED <<commits, index, learned, records, acquired, idx>>,
           work'.chains = work.chains,
           pc'[p] \notin HoldsIndex \/ pc[p] \in HoldsIndex,
           \A q \in Proc : q # p => pc'[q] = pc[q]
    PROVE  Provenance'
    BY DEF Provenance, Held, Settled, TreeOf

LEMMA StampStepKeepsProvenance ==
    ASSUME Consistent, Provenance, NEW p \in Proc, StampStep(p), StampFrame
    PROVE  Provenance'
<1>1. CASE RefreshList(p)
    BY <1>1, QuietKeepsProvenance
    DEF RefreshList, Step, HoldsIndex, SyncSteps
<1>2. ASSUME NEW i \in Issuer, RefreshWrite(p, i)
      PROVE  Provenance'
    BY <1>2, WorkKeepsProvenance
    DEF RefreshWrite, Step, HoldsIndex, SyncSteps, Files
<1>3. CASE FixManifest(p)
    BY <1>3, QuietKeepsProvenance
    DEF FixManifest, Step, HoldsIndex, SyncSteps
<1>4. CASE TsaReply(p)
    BY <1>4, QuietKeepsProvenance
    DEF TsaReply, Step, HoldsIndex, SyncSteps
<1>5. CASE SiteTolerated(p)
    BY <1>5, QuietKeepsProvenance
    DEF SiteTolerated, HoldsIndex, SyncSteps
<1>6. CASE AcquireDone(p)
    BY <1>6, QuietKeepsProvenance
    DEF AcquireDone, stampingVars, jobVars, Step, HoldsIndex, SyncSteps
<1>7. CASE RecordCrl(p)
    BY <1>7, WorkKeepsProvenance
    DEF RecordCrl, Step, HoldsIndex, SyncSteps, Files
<1> QED
    BY <1>1, <1>2, <1>3, <1>4, <1>5, <1>6, <1>7, FetchKeepsProvenance,
       AcquireKeepsProvenance, RecordChainKeepsProvenance,
       SealKeepsProvenance, StopKeepsProvenance
    DEF StampStep, Refuse

LEMMA CheckoutKeepsProvenance ==
    ASSUME Consistent, Provenance, NEW p \in Proc,
           SyncStep(p) \/ DropStep(p) \/ DropOpen(p), DropFrame
    PROVE  Provenance'
<1>1. UNCHANGED <<commits, learned, records, acquired>>
    BY DEF DropFrame, stampingVars, jobVars, SyncStep, DropStep, SyncOpen,
           SyncArtifacts, SyncRecords, SyncStale, SyncIndex, StageNothing,
           StageOpen, StageIndex, DropOpen, DropIndex, DropManifest,
           DropTokens
<1>2. CASE SyncOpen(p)
    BY <1>1, <1>2 DEF SyncOpen, Step, Provenance, Held, Settled, TreeOf
<1>3. CASE SyncArtifacts(p)
    BY <1>1, <1>3, WorkKeepsProvenance
    DEF SyncArtifacts, Step, HoldsIndex, SyncSteps, Files
<1>4. CASE SyncStale(p)
    BY <1>1, <1>4, WorkKeepsProvenance
    DEF SyncStale, Step, HoldsIndex, SyncSteps, Files
<1>5. CASE DropManifest(p) \/ DropTokens(p)
    BY <1>1, <1>5, WorkKeepsProvenance
    DEF DropManifest, DropTokens, Step, HoldsIndex, SyncSteps, Files
<1>6. CASE StageNothing(p)
    BY <1>1, <1>6, QuietKeepsProvenance
    DEF StageNothing, Step, HoldsIndex, SyncSteps
<1>7. CASE SyncRecords(p)
  <2>1. seen[p] \in DOMAIN commits
      BY <1>7 DEF SyncRecords, Step, SyncSteps
  <2>2. Sealed(p).chains \in ChainFiles
      BY <2>1, SealedTyping, FilesTyping
  <2>3. \A i \in Issuer : /\ Sealed(p).chains[i] \in learned \cup {None}
                          /\ work.chains[i] \in learned \cup {None}
      BY <2>1 DEF Sealed, Provenance, Settled
  <2>4. \A i \in Issuer : Overlay(Sealed(p).chains, work.chains)[i]
                              \in learned \cup {None}
      BY <2>2, <2>3, OverlaySettles
  <2>5. work'.chains = Overlay(Sealed(p).chains, work.chains)
      BY <1>7 DEF SyncRecords, Files
  <2>6. /\ Step(p, "syncRecords", "syncStale")
        /\ UNCHANGED <<index, idx>>
      BY <1>7 DEF SyncRecords
  <2> QED
      BY <1>1, <2>4, <2>5, <2>6
      DEF Step, HoldsIndex, SyncSteps, Provenance, Held, Settled, TreeOf
<1>8. CASE SyncIndex(p)
  <2>1. seen[p] \in DOMAIN commits /\ idx[p] \in Files /\ Settled(idx[p])
      BY <1>8
      DEF SyncIndex, Step, SyncSteps, HoldsIndex, Provenance, Held
  <2>2. Sealed(p).chains \in ChainFiles
      BY <2>1, SealedTyping, FilesTyping
  <2>3. \A i \in Issuer : /\ Sealed(p).chains[i] \in learned \cup {None}
                          /\ idx[p].chains[i] \in learned \cup {None}
      BY <2>1 DEF Sealed, Provenance, Settled
  <2>4. \A i \in Issuer : Overlay(Sealed(p).chains, idx[p].chains)[i]
                              \in learned \cup {None}
      BY <2>2, <2>3, OverlaySettles
  <2>5. SyncedIndex(p).chains = Overlay(Sealed(p).chains, idx[p].chains)
      BY <2>1 DEF SyncedIndex, Files
  <2>6. index' \in {index, SyncedIndex(p)}
      BY <1>8 DEF SyncIndex
  <2>7. Settled(index)'
      BY <1>1, <2>4, <2>5, <2>6 DEF Settled, Provenance
  <2>8. Step(p, "syncIndex", "stage") /\ Forget(p) /\ UNCHANGED work
      BY <1>8 DEF SyncIndex
  <2> QED
      BY <1>1, <2>7, <2>8
      DEF Forget, Step, HoldsIndex, SyncSteps, Provenance, Held, Settled,
          TreeOf
<1>9. CASE StageOpen(p)
  <2>1. \A i \in Issuer : Overlay(work.chains, index.chains)[i]
                              \in learned \cup {None}
      BY OverlaySettles, FilesTyping DEF Provenance, Settled
  <2>2. Settled(StagedIndex)
      BY <2>1 DEF StagedIndex, Settled, Files
  <2>3. /\ Step(p, "stage", "stageIndex")
        /\ idx' = [idx EXCEPT ![p] = StagedIndex]
        /\ UNCHANGED <<index, work>>
      BY <1>9 DEF StageOpen
  <2> QED
      BY <1>1, <2>2, <2>3
      DEF Step, HoldsIndex, SyncSteps, Provenance, Held, Settled, TreeOf
<1>10. CASE StageIndex(p)
    BY <1>1, <1>10
    DEF StageIndex, Forget, Step, HoldsIndex, SyncSteps, Provenance, Held,
        Settled, TreeOf
<1>11. CASE DropIndex(p)
    BY <1>1, <1>11
    DEF DropIndex, Forget, Step, HoldsIndex, SyncSteps, Provenance, Held,
        Settled, TreeOf
<1>12. CASE DropOpen(p)
  <2>1. Settled(WithoutArtifacts(index))
      BY DEF WithoutArtifacts, Provenance, Settled, Files
  <2> QED
      BY <1>1, <1>12, <2>1
      DEF DropOpen, Step, HoldsIndex, SyncSteps, Provenance, Held, Settled,
          TreeOf
<1> QED
    BY <1>2, <1>3, <1>4, <1>5, <1>6, <1>7, <1>8, <1>9, <1>10, <1>11, <1>12
    DEF SyncStep, DropStep

LEMMA UserStepKeepsProvenance ==
    ASSUME Consistent, Provenance, UserStep
    PROVE  Provenance'
<1>1. UNCHANGED <<pc, records, acquired, idx, learned>>
    BY DEF UserStep, CommitEnd, Edit, AddAll, CommitBegin, CommitUnguarded,
           ResetHard, Restore, UserUnchanged, stampingVars, jobVars
<1>2. ASSUME NEW others, Committed(others)
      PROVE  \A c \in DOMAIN commits' : Settled(TreeOf(c))'
  <2> DEFINE commit == [parents |-> {head} \cup others, tree |-> index,
                        sealed |-> FALSE]
  <2>1. commits' = Append(commits, commit)
      BY <1>2 DEF Committed
  <2>2. commit.tree = index
      OBVIOUS
  <2> HIDE DEF commit
  <2>3. \A c \in DOMAIN commits' : commits'[c] = commit \/
            (c \in DOMAIN commits /\ commits'[c] = commits[c])
      BY <2>1
  <2> QED
      BY <1>1, <2>2, <2>3 DEF Provenance, Settled, TreeOf
<1>3. UNCHANGED commits => \A c \in DOMAIN commits' : Settled(TreeOf(c))'
    BY <1>1 DEF Provenance, Settled, TreeOf
<1>4. ASSUME NEW tree \in Files, Settled(tree)
      PROVE  \A i \in Issuer : CheckOut(tree, index, work).chains[i]
                                   \in learned \cup {None}
  <2>1. tree.chains \in ChainFiles
      BY FilesTyping
  <2> QED
      BY <1>4, <2>1
      DEF CheckOut, DirectoryAfter, FileAfter, LeaveStale, Lay, Provenance,
          Settled, ChainFiles
<1>5. CASE CommitEnd
  <2>1. \A c \in DOMAIN commits' : Settled(TreeOf(c))'
      BY <1>2, <1>3, <1>5 DEF CommitEnd
  <2> QED
      BY <1>1, <1>5, <2>1, FilesKeepProvenance
      DEF CommitEnd, Provenance, Settled
<1>6. ASSUME NEW c \in Content, Edit(c)
      PROVE  Provenance'
  <2>1. index'.chains = index.chains /\ work'.chains = work.chains
      BY <1>6 DEF Edit, Files
  <2> QED
      BY <1>1, <1>3, <1>6, <2>1, FilesKeepProvenance
      DEF Edit, Provenance, Settled
<1>7. CASE AddAll
    BY <1>1, <1>3, <1>7, FilesKeepProvenance DEF AddAll, Provenance, Settled
<1>8. CASE CommitBegin
    BY <1>1, <1>3, <1>8, FilesKeepProvenance
    DEF CommitBegin, Provenance, Settled
<1>9. CASE CommitUnguarded
    BY <1>1, <1>2, <1>9, FilesKeepProvenance
    DEF CommitUnguarded, Provenance, Settled
<1>10. ASSUME NEW c \in DOMAIN commits, ResetHard(c)
       PROVE  Provenance'
  <2>1. TreeOf(c) \in Files /\ Settled(TreeOf(c))
      BY StoreTyping DEF Provenance
  <2> QED
      BY <1>1, <1>3, <1>4, <1>10, <2>1, FilesKeepProvenance
      DEF ResetHard, Settled
<1>11. CASE Restore
  <2>1. TreeOf(head) \in Files /\ Settled(TreeOf(head))
      BY StoreTyping DEF Provenance
  <2>2. CheckOut(TreeOf(head), index, work) \in Files
      BY <2>1, CheckOutTyping
  <2>3. /\ index'.chains = TreeOf(head).chains
        /\ work'.chains = CheckOut(TreeOf(head), index, work).chains
      BY <1>11, <2>1, <2>2 DEF Restore, Files
  <2>4. UNCHANGED commits
      BY <1>11 DEF Restore
  <2> QED
      BY <1>1, <1>3, <1>4, <2>1, <2>3, <2>4, FilesKeepProvenance DEF Settled
<1> QED
    BY <1>5, <1>6, <1>7, <1>8, <1>9, <1>10, <1>11 DEF UserStep

\* Provenance is inductive.
LEMMA ProvenanceAlways == Spec => [](Consistent /\ Provenance)
<1>1. Init => Provenance
  <2> SUFFICES ASSUME Init
               PROVE  Provenance
      OBVIOUS
  <2>1. \A i \in Issuer : NoChains[i] = None /\ NoRecords.chains[i] = None
      BY DEF NoChains, NoRecords
  <2>2. Settled(index) /\ Settled(work)
        /\ \A c \in DOMAIN commits : Settled(TreeOf(c))
      BY <2>1 DEF Init, Settled, TreeOf
  <2>3. \A p \in Proc : Held(p)
      BY <2>1 DEF Init, StampingInit, Held, HoldsIndex, SyncSteps
  <2> QED
      BY <2>2, <2>3 DEF Provenance
<1>2. Consistent /\ Provenance /\ [Next]_vars => Provenance'
  <2> SUFFICES ASSUME Consistent, Provenance, [Next]_vars
               PROVE  Provenance'
      OBVIOUS
  <2>1. ASSUME NEW p \in Proc, NEW amending \in BOOLEAN,
               StampBegin(p, amending), StampFrame
        PROVE  Provenance'
      BY <2>1, QuietKeepsProvenance
      DEF StampBegin, Step, HoldsIndex, SyncSteps
  <2>2. ASSUME NEW p \in Proc, Begin(p)
        PROVE  Provenance'
      BY <2>1, <2>2, CheckoutKeepsProvenance DEF Begin
  <2>3. ASSUME NEW p \in Proc, Proceed(p)
        PROVE  Provenance'
      BY <2>3, StampStepKeepsProvenance, CheckoutKeepsProvenance DEF Proceed
  <2>4. ASSUME NEW p \in Proc, Fail(p)
        PROVE  Provenance'
    <3>1. CASE StampFails(p) /\ StampFrame
        BY <3>1, StopKeepsProvenance DEF StampFails
    <3>2. CASE CheckoutFails(p) /\ DropFrame
        BY <3>2
        DEF CheckoutFails, Forget, stampingVars, jobVars, HoldsIndex,
            SyncSteps, Provenance, Held, Settled, TreeOf
    <3> QED
        BY <2>4, <3>1, <3>2 DEF Fail
  <2>5. CASE World
      BY <2>5
      DEF World, TimePasses, Tick, Publish, Rotate, jobVars, Provenance, Held,
          Settled, TreeOf
  <2>6. CASE UNCHANGED vars
      BY <2>6
      DEF vars, stampingVars, jobVars, Provenance, Held, Settled, TreeOf
  <2> QED
      BY <2>2, <2>3, <2>4, <2>5, <2>6, UserStepKeepsProvenance DEF Next
<1> QED
    BY <1>1, <1>2, ConsistentInitially, ConsistentNext, PTL DEF Spec

\* Every chain record anywhere in the repository is the chain of a token
\* that verified: nothing a rejected TSA sent is ever settled.
THEOREM OnlyVerifiedMaterial == Spec => []OnlyVerifiedMaterialSettles
<1>1. Provenance => OnlyVerifiedMaterialSettles
    BY DEF Provenance, Settled, OnlyVerifiedMaterialSettles
<1> QED
    BY <1>1, ProvenanceAlways, PTL

-----------------------------------------------------------------------------
(***************************************************************************)
(* What a seal rests on, from the fixing of the manifest on: the manifest  *)
(* is in the table and describes the tree about to be sealed, and every    *)
(* token acquired is a TSA's over it.  Nothing another process does to the *)
(* index, the working tree or the branch disturbs any of it, since it      *)
(* lives in immutable objects and in what the invocation read once.        *)
(***************************************************************************)
Fixed == {"acquire", "verify", "record", "recordCrl"}

Promise(p) ==
    /\ pc[p] \in Fixed =>
           /\ fixed[p] \in DOMAIN manifests
           /\ manifests[fixed[p]].parents = StampParents(p)
           /\ manifests[fixed[p]].entries = SnapshotOf(ContentTree(p))
    /\ pc[p] \notin Fixed => acquired[p] = <<>>
    /\ pc[p] \in {"record", "recordCrl"} => acquired[p] # <<>>
    /\ \A k \in DOMAIN acquired[p] :
           /\ acquired[p][k].token.genuine
           /\ acquired[p][k].token.imprint = fixed[p]

\* What a sealed commit shows of a tree, its parents and a table.
Holds(tree, parents, manifest) ==
    LET tokens == {tree.tokens[s] : s \in Site} \ {None}
    IN  /\ tokens # {}
        /\ \A t \in tokens : t.genuine /\ t.imprint = tree.manifest
        /\ manifest.parents = parents
        /\ manifest.entries = SnapshotOf(tree)

Evidence ==
    /\ \A m \in DOMAIN manifests : \A g \in manifests[m].groups :
           g.commit \in DOMAIN commits /\ Linked(g)
    /\ \A c \in DOMAIN commits : commits[c].sealed =>
           /\ TreeOf(c).manifest \in DOMAIN manifests
           /\ Holds(TreeOf(c), commits[c].parents,
                    manifests[TreeOf(c).manifest])
    /\ \A p \in Proc : Promise(p)

\* The table and the store may only grow.
Grows ==
    /\ DOMAIN commits \subseteq DOMAIN commits'
    /\ \A c \in DOMAIN commits : commits'[c] = commits[c]
    /\ DOMAIN manifests \subseteq DOMAIN manifests'
    /\ \A m \in DOMAIN manifests : manifests'[m] = manifests[m]

\* An invocation that keeps its position and what it read keeps its promise.
LEMMA PromiseKept ==
    ASSUME Consistent, NEW p \in Proc, Promise(p), Grows,
           pc'[p] \in Fixed => pc[p] \in Fixed,
           pc[p] \in Fixed => pc'[p] \in Fixed,
           pc'[p] \in {"record", "recordCrl"} => acquired[p] # <<>>,
           pc[p] \in Fixed => base'[p] = base[p] /\ amend'[p] = amend[p]
                                /\ records'[p] = records[p],
           fixed'[p] = fixed[p], acquired'[p] = acquired[p]
    PROVE  Promise(p)'
<1>1. CASE pc'[p] \notin Fixed
    BY <1>1 DEF Promise, Fixed
<1>2. CASE pc'[p] \in Fixed
  <2>1. base[p] \in DOMAIN commits
      BY <1>2 DEF Fixed, StampSteps
  <2>2. StampParents(p)' = StampParents(p)
      BY <1>2, <2>1 DEF StampParents, Grows
  <2>3. ContentTree(p)' = ContentTree(p)
      BY <1>2, <2>1 DEF ContentTree, TreeOf, Grows
  <2>4. SnapshotOf(ContentTree(p))' = SnapshotOf(ContentTree(p))
      BY <2>3 DEF SnapshotOf
  <2> QED
      BY <1>2, <2>2, <2>4 DEF Promise, Grows
<1> QED
    BY <1>1, <1>2

LEMMA LinkedKept ==
    ASSUME Grows, NEW g, g.commit \in DOMAIN commits, Linked(g)
    PROVE  g.commit \in DOMAIN commits' /\ Linked(g)'
    BY DEF Grows, Linked, Claims, TreeOf

\* A step that neither fixes a manifest nor seals.
LEMMA TablesKept ==
    ASSUME Consistent, Evidence, UNCHANGED manifests, Grows,
           \A c \in DOMAIN commits' \ DOMAIN commits : ~commits'[c].sealed,
           \A p \in Proc : Promise(p)'
    PROVE  Evidence'
<1>1. \A m \in DOMAIN manifests' : \A g \in manifests'[m].groups :
          (g.commit \in DOMAIN commits /\ Linked(g))'
    BY LinkedKept DEF Evidence
<1>2. ASSUME NEW c \in DOMAIN commits', commits'[c].sealed
      PROVE  /\ c \in DOMAIN commits
             /\ commits[c].sealed
             /\ commits'[c] = commits[c]
             /\ TreeOf(c)' = TreeOf(c)
    BY <1>2 DEF Grows, TreeOf
<1>3. ASSUME NEW c \in DOMAIN commits', commits'[c].sealed
      PROVE  (/\ TreeOf(c).manifest \in DOMAIN manifests
              /\ Holds(TreeOf(c), commits[c].parents,
                       manifests[TreeOf(c).manifest]))'
  <2>1. /\ TreeOf(c).manifest \in DOMAIN manifests
        /\ Holds(TreeOf(c), commits[c].parents, manifests[TreeOf(c).manifest])
      BY <1>2, <1>3 DEF Evidence
  <2>2. UNCHANGED <<TreeOf(c), commits[c].parents,
                    manifests[TreeOf(c).manifest]>>
      BY <1>2, <1>3
  <2> QED
      BY <2>1, <2>2
<1> QED
    BY <1>1, <1>3 DEF Evidence

\* A step of one invocation that writes no commit and no manifest.
LEMMA JobKeepsEvidence ==
    ASSUME Consistent, Evidence, NEW p \in Proc,
           UNCHANGED <<commits, manifests>>, Promise(p)',
           \A q \in Proc : q # p =>
               /\ pc'[q] = pc[q]             /\ base'[q] = base[q]
               /\ amend'[q] = amend[q]       /\ records'[q] = records[q]
               /\ fixed'[q] = fixed[q]       /\ acquired'[q] = acquired[q]
    PROVE  Evidence'
<1>1. Grows
    BY DEF Grows
<1>2. ASSUME NEW q \in Proc, q # p
      PROVE  Promise(q)'
  <2>1. Promise(q) /\ (pc[q] \in {"record", "recordCrl"} => acquired[q] # <<>>)
      BY DEF Evidence, Promise
  <2> QED
      BY <1>1, <1>2, <2>1, PromiseKept
<1>3. \A q \in Proc : Promise(q)'
    BY <1>2
<1> QED
    BY <1>1, <1>3, TablesKept

\* A step of one invocation that neither fixes, nor acquires, nor ends.
LEMMA FlowKeepsEvidence ==
    ASSUME Consistent, Evidence, NEW p \in Proc,
           UNCHANGED <<commits, manifests, fixed, acquired>>,
           \A q \in Proc : q # p =>
               /\ pc'[q] = pc[q]       /\ base'[q] = base[q]
               /\ amend'[q] = amend[q] /\ records'[q] = records[q],
           pc'[p] \in Fixed <=> pc[p] \in Fixed,
           pc[p] \in Fixed => base'[p] = base[p] /\ amend'[p] = amend[p]
                                /\ records'[p] = records[p],
           pc'[p] \in {"record", "recordCrl"} => acquired[p] # <<>>
    PROVE  Evidence'
<1>1. Grows
    BY DEF Grows
<1>2. Promise(p)
    BY DEF Evidence
<1>3. Promise(p)'
    BY <1>1, <1>2, PromiseKept
<1> QED
    BY <1>3, JobKeepsEvidence

\* An invocation that ends promises nothing.
LEMMA ResetPromises ==
    ASSUME Consistent, Evidence, NEW p \in Proc, ResetJob(p),
           pc'[p] \notin Fixed
    PROVE  /\ Promise(p)'
           /\ \A q \in Proc : q # p =>
                  /\ base'[q] = base[q]   /\ amend'[q] = amend[q]
                  /\ fixed'[q] = fixed[q] /\ acquired'[q] = acquired[q]
                  /\ records'[q] = records[q]
<1>1. acquired'[p] = <<>>
    BY DEF ResetJob
<1> QED
    BY <1>1 DEF ResetJob, Promise, Fixed

LEMMA StopKeepsEvidence ==
    ASSUME Consistent, Evidence, NEW p \in Proc, Stop(p)
    PROVE  Evidence'
<1>1. /\ pc' = [pc EXCEPT ![p] = "idle"]
      /\ ResetJob(p)
      /\ UNCHANGED <<commits, manifests>>
    BY DEF Stop
<1>2. pc'[p] \notin Fixed
    BY <1>1 DEF Fixed
<1>3. /\ Promise(p)'
      /\ \A q \in Proc : q # p =>
             /\ base'[q] = base[q]   /\ amend'[q] = amend[q]
             /\ fixed'[q] = fixed[q] /\ acquired'[q] = acquired[q]
             /\ records'[q] = records[q]
    BY <1>1, <1>2, ResetPromises
<1>4. \A q \in Proc : q # p => pc'[q] = pc[q]
    BY <1>1
<1> QED
    BY <1>1, <1>3, <1>4, JobKeepsEvidence

LEMMA YieldKeepsEvidence ==
    ASSUME Consistent, Evidence, NEW p \in Proc, SiteYields(p), StampFrame
    PROVE  Evidence'
<1> DEFINE issuer == IssuerOf[reply[p].site]
           yield == [token |-> reply[p], crl |-> crl[issuer]]
<1>1. acquired' = [acquired EXCEPT ![p] = Append(@, yield)]
    BY DEF SiteYields
<1>2. /\ Step(p, "verify", "acquire")
      /\ UNCHANGED <<commits, manifests, base, amend, records, fixed>>
    BY DEF SiteYields
<1>3. reply[p].genuine /\ reply[p].imprint = fixed[p]
    BY DEF SiteYields, TokenVerifies
<1>4. acquired'[p] \in Seq(Acquired) /\ acquired[p] \in Seq(Acquired)
  <2>1. TypeOK'
      BY SiteYieldsKeeps
  <2> QED
      BY <2>1
<1>5. \A k \in DOMAIN acquired'[p] :
          acquired'[p][k] = yield \/ \E j \in DOMAIN acquired[p] :
                                         acquired'[p][k] = acquired[p][j]
  <2> HIDE DEF yield
  <2>1. acquired'[p] = Append(acquired[p], yield)
      BY <1>1
  <2> QED
      BY <1>4, <2>1
<1>6. Promise(p)
    BY DEF Evidence
<1>7. pc[p] \in Fixed /\ pc'[p] = "acquire"
    BY <1>2 DEF Step, Fixed
<1>8. ASSUME NEW k \in DOMAIN acquired'[p]
      PROVE  /\ acquired'[p][k].token.genuine
             /\ acquired'[p][k].token.imprint = fixed'[p]
  <2>1. CASE acquired'[p][k] = yield
      BY <1>2, <1>3, <2>1
  <2>2. CASE \E j \in DOMAIN acquired[p] : acquired'[p][k] = acquired[p][j]
      BY <1>2, <1>6, <2>2 DEF Promise
  <2> QED
      BY <1>5, <2>1, <2>2
<1>9. Promise(p)'
  <2>1. /\ fixed'[p] \in DOMAIN manifests'
        /\ manifests'[fixed'[p]].parents = StampParents(p)'
        /\ manifests'[fixed'[p]].entries = SnapshotOf(ContentTree(p))'
      BY <1>2, <1>6, <1>7
      DEF Promise, StampParents, SnapshotOf, ContentTree, TreeOf
  <2>2. pc'[p] \in Fixed /\ pc'[p] \notin {"record", "recordCrl"}
      BY <1>7 DEF Fixed
  <2> QED
      BY <1>8, <2>1, <2>2 DEF Promise
<1> QED
    BY <1>1, <1>2, <1>9, JobKeepsEvidence DEF Step

\* A group of the binding set names a commit that holds its hashes.
LEMMA BoundGroupsLinked ==
    ASSUME NEW parents
    PROVE  \A g \in BoundGroups(parents) :
               g.commit \in DOMAIN commits /\ Linked(g)
<1>1. ASSUME NEW c \in NearestClaims(parents)
      PROVE  BoundStamp(c).commit \in DOMAIN commits /\ Linked(BoundStamp(c))
    BY DEF NearestClaims, Walked, BoundStamp, Linked
<1> QED
    BY <1>1 DEF BoundGroups

LEMMA FixKeepsEvidence ==
    ASSUME Consistent, Evidence, NEW p \in Proc, FixManifest(p)
    PROVE  Evidence'
<1> DEFINE manifest == [parents |-> StampParents(p),
                        groups  |-> BoundGroups(StampParents(p)),
                        entries |-> SnapshotOf(ContentTree(p))]
           known == \E k \in DOMAIN manifests : manifests[k] = manifest
           table == IF known THEN manifests ELSE Append(manifests, manifest)
<1>1. /\ Step(p, "refresh", "acquire")
      /\ manifests' = table
      /\ fixed' = [fixed EXCEPT ![p] =
             CHOOSE k \in DOMAIN table : table[k] = manifest]
      /\ UNCHANGED <<commits, base, amend, records, acquired>>
    BY DEF FixManifest
<1>2. base[p] \in DOMAIN commits
    BY <1>1 DEF Step, StampSteps
<1>3. manifest \in Manifest
    BY <1>2, ManifestTyping
<1>4. /\ DOMAIN manifests \subseteq DOMAIN table
      /\ \A m \in DOMAIN manifests : table[m] = manifests[m]
      /\ \A m \in DOMAIN table :
             m \in DOMAIN manifests \/ table[m] = manifest
      /\ \E k \in DOMAIN table : table[k] = manifest
  <2> HIDE DEF manifest
  <2>1. CASE known
      BY <2>1
  <2>2. CASE ~known
    <3>1. table = Append(manifests, manifest)
        BY <2>2
    <3>2. DOMAIN table = DOMAIN manifests \cup {Len(table)}
        BY <1>3, <3>1, StoreGrows
    <3>3. /\ DOMAIN manifests \subseteq DOMAIN table
          /\ \A m \in DOMAIN manifests : table[m] = manifests[m]
          /\ table[Len(table)] = manifest
        BY <1>3, <3>1, StoreGrows
    <3> HIDE DEF table
    <3> QED
        BY <3>2, <3>3
  <2> QED
      BY <2>1, <2>2
<1> HIDE DEF table
<1>5. fixed'[p] \in DOMAIN manifests' /\ manifests'[fixed'[p]] = manifest
  <2> HIDE DEF manifest
  <2>1. fixed'[p] = CHOOSE k \in DOMAIN table : table[k] = manifest
      BY <1>1
  <2> QED
      BY <1>1, <1>4, <2>1
<1>6. Grows
    BY <1>1, <1>4 DEF Grows
<1>7. Promise(p)'
  <2>1. acquired[p] = <<>>
      BY <1>1 DEF Evidence, Promise, Step, Fixed
  <2>2. /\ manifests'[fixed'[p]].parents = StampParents(p)'
        /\ manifests'[fixed'[p]].entries = SnapshotOf(ContentTree(p))'
      BY <1>1, <1>5 DEF StampParents, SnapshotOf, ContentTree, TreeOf
  <2>3. pc'[p] = "acquire"
      BY <1>1 DEF Step
  <2> QED
      BY <1>1, <1>5, <2>1, <2>2, <2>3 DEF Promise, Fixed
<1>8. ASSUME NEW q \in Proc
      PROVE  Promise(q)'
  <2>1. Promise(q) /\ (pc[q] \in {"record", "recordCrl"} => acquired[q] # <<>>)
      BY DEF Evidence, Promise
  <2>2. CASE q # p
    <3>1. /\ pc'[q] = pc[q]         /\ base'[q] = base[q]
          /\ amend'[q] = amend[q]   /\ records'[q] = records[q]
          /\ fixed'[q] = fixed[q]   /\ acquired'[q] = acquired[q]
        BY <1>1, <2>2 DEF Step
    <3> QED
        BY <1>6, <2>1, <3>1, PromiseKept
  <2> QED
      BY <1>7, <2>2
<1>9. ASSUME NEW m \in DOMAIN manifests', NEW g \in manifests'[m].groups
      PROVE  (g.commit \in DOMAIN commits /\ Linked(g))'
  <2>1. g.commit \in DOMAIN commits /\ Linked(g)
    <3>1. CASE m \in DOMAIN manifests
        BY <1>1, <1>4, <1>9, <3>1 DEF Evidence
    <3>2. CASE manifests'[m] = manifest
        BY <1>9, <3>2, BoundGroupsLinked
    <3> QED
        BY <1>1, <1>4, <3>1, <3>2
  <2> QED
      BY <1>6, <2>1, LinkedKept
<1>10. ASSUME NEW c \in DOMAIN commits', commits'[c].sealed
       PROVE  (/\ TreeOf(c).manifest \in DOMAIN manifests
               /\ Holds(TreeOf(c), commits[c].parents,
                        manifests[TreeOf(c).manifest]))'
  <2>1. /\ TreeOf(c).manifest \in DOMAIN manifests
        /\ Holds(TreeOf(c), commits[c].parents, manifests[TreeOf(c).manifest])
      BY <1>1, <1>10 DEF Evidence
  <2>2. UNCHANGED <<TreeOf(c), commits[c].parents,
                    manifests[TreeOf(c).manifest]>>
      BY <1>1, <1>6, <2>1 DEF Grows, TreeOf
  <2> QED
      BY <1>6, <2>1, <2>2 DEF Grows
<1> QED
    BY <1>8, <1>9, <1>10 DEF Evidence

LEMMA SealKeepsEvidence ==
    ASSUME Consistent, Evidence, NEW p \in Proc, Seal(p)
    PROVE  Evidence'
<1> DEFINE commit == [parents |-> StampParents(p), tree |-> StampTree(p),
                      sealed |-> TRUE]
<1>1. /\ Step(p, "record", "sync")
      /\ ResetJob(p)
      /\ commits' = Append(commits, commit)
      /\ UNCHANGED manifests
    BY DEF Seal
<1>2. base[p] \in DOMAIN commits
    BY <1>1 DEF Step, StampSteps
<1>3. commit \in Commit
    BY <1>2, SealedCommitTyping
<1>4. /\ DOMAIN commits \subseteq DOMAIN commits'
      /\ DOMAIN commits' = DOMAIN commits \cup {Len(commits')}
      /\ \A c \in DOMAIN commits : commits'[c] = commits[c]
      /\ commits'[Len(commits')] = commit
  <2> HIDE DEF commit
  <2> QED
      BY <1>1, <1>3, StoreGrows
<1>5. Grows
    BY <1>1, <1>4 DEF Grows
<1>6. /\ fixed[p] \in DOMAIN manifests
      /\ manifests[fixed[p]].parents = StampParents(p)
      /\ manifests[fixed[p]].entries = SnapshotOf(ContentTree(p))
      /\ acquired[p] # <<>>
      /\ \A k \in DOMAIN acquired[p] :
             /\ acquired[p][k].token.genuine
             /\ acquired[p][k].token.imprint = fixed[p]
    BY <1>1 DEF Step, Evidence, Promise, Fixed
<1>7. /\ StampTree(p).manifest = fixed[p]
      /\ SnapshotOf(StampTree(p)) = SnapshotOf(ContentTree(p))
  <2>1. ContentTree(p) \in Files
      BY <1>2, ContentTreeTyping
  <2> QED
      BY <2>1 DEF StampTree, SnapshotOf, Files
<1> DEFINE Has(s) ==
        \E k \in DOMAIN acquired[p] : acquired[p][k].token.site = s
<1>8. ASSUME NEW s \in Site
      PROVE  /\ Has(s) => \E k \in DOMAIN acquired[p] :
                     StampTree(p).tokens[s] = acquired[p][k].token
             /\ ~Has(s) => StampTree(p).tokens[s] = None
  <2>1. ContentTree(p) \in Files
      BY <1>2, ContentTreeTyping
  <2>2. StampTree(p).tokens[s] =
            IF Has(s)
            THEN LET k == CHOOSE k \in DOMAIN acquired[p] :
                              acquired[p][k].token.site = s
                 IN  acquired[p][k].token
            ELSE None
      BY <2>1 DEF StampTree, Files
  <2> QED
      BY <2>2
<1>9. Holds(StampTree(p), StampParents(p), manifests[fixed[p]])
  <2> DEFINE tokens == {StampTree(p).tokens[s] : s \in Site} \ {None}
  <2>1. ASSUME NEW t \in tokens
        PROVE  t.genuine /\ t.imprint = fixed[p]
    <3>1. PICK s \in Site : t = StampTree(p).tokens[s] /\ t # None
        OBVIOUS
    <3>2. PICK k \in DOMAIN acquired[p] : t = acquired[p][k].token
        BY <1>8, <3>1
    <3> QED
        BY <1>6, <3>2
  <2>2. 1 \in DOMAIN acquired[p]
      BY <1>6
  <2>3. acquired[p][1].token.site \in Site
      BY <2>2, AcquiredTyping DEF Token
  <2>4. StampTree(p).tokens[acquired[p][1].token.site] # None
    <3>1. Has(acquired[p][1].token.site)
        BY <2>2
    <3>2. PICK k \in DOMAIN acquired[p] :
              StampTree(p).tokens[acquired[p][1].token.site]
                  = acquired[p][k].token
        BY <1>8, <2>3, <3>1
    <3>3. acquired[p][k].token \in Token
        BY <3>2, AcquiredTyping
    <3> QED
        BY <3>2, <3>3, RepositoryAssumption
  <2>5. tokens # {}
      BY <2>3, <2>4
  <2> QED
      BY <1>6, <1>7, <2>1, <2>5 DEF Holds
<1>10. pc'[p] \notin Fixed
    BY <1>1 DEF Step, Fixed
<1>11. ASSUME NEW q \in Proc
       PROVE  Promise(q)'
  <2>1. Promise(q) /\ (pc[q] \in {"record", "recordCrl"} => acquired[q] # <<>>)
      BY DEF Evidence, Promise
  <2>2. CASE q # p
    <3>1. /\ pc'[q] = pc[q]         /\ base'[q] = base[q]
          /\ amend'[q] = amend[q]   /\ records'[q] = records[q]
          /\ fixed'[q] = fixed[q]   /\ acquired'[q] = acquired[q]
        BY <1>1, <1>10, <2>2, ResetPromises DEF Step
    <3> QED
        BY <1>5, <2>1, <3>1, PromiseKept
  <2> QED
      BY <1>1, <1>10, <2>2, ResetPromises
<1>12. \A m \in DOMAIN manifests' : \A g \in manifests'[m].groups :
          (g.commit \in DOMAIN commits /\ Linked(g))'
    BY <1>1, <1>5, LinkedKept DEF Evidence
<1>13. ASSUME NEW c \in DOMAIN commits', commits'[c].sealed
       PROVE  (/\ TreeOf(c).manifest \in DOMAIN manifests
               /\ Holds(TreeOf(c), commits[c].parents,
                        manifests[TreeOf(c).manifest]))'
  <2>1. CASE c \in DOMAIN commits
    <3>1. commits'[c] = commits[c]
        BY <1>4, <2>1
    <3>2. /\ TreeOf(c).manifest \in DOMAIN manifests
          /\ Holds(TreeOf(c), commits[c].parents,
                   manifests[TreeOf(c).manifest])
        BY <1>13, <2>1, <3>1 DEF Evidence
    <3>3. UNCHANGED <<TreeOf(c), commits[c].parents,
                      manifests[TreeOf(c).manifest]>>
        BY <1>1, <3>1 DEF TreeOf
    <3> QED
        BY <1>1, <3>2, <3>3
  <2>2. CASE commits'[c] = commit
    <3>1. TreeOf(c)' = StampTree(p) /\ commits'[c].parents = StampParents(p)
        BY <2>2 DEF TreeOf
    <3> QED
        BY <1>1, <1>6, <1>7, <1>9, <3>1
  <2> QED
      BY <1>4, <2>1, <2>2
<1> QED
    BY <1>11, <1>12, <1>13 DEF Evidence

LEMMA StampStepKeepsEvidence ==
    ASSUME Consistent, Evidence, NEW p \in Proc, StampStep(p), StampFrame
    PROVE  Evidence'
<1>1. CASE RefreshList(p)
    BY <1>1, FlowKeepsEvidence DEF RefreshList, Step, Fixed
<1>2. ASSUME NEW i \in Issuer, RefreshFetch(p, i)
      PROVE  Evidence'
    BY <1>2, FlowKeepsEvidence DEF RefreshFetch, Step, Fixed
<1>3. ASSUME NEW i \in Issuer, RefreshWrite(p, i)
      PROVE  Evidence'
    BY <1>3, FlowKeepsEvidence DEF RefreshWrite, Step, Fixed
<1>4. CASE TsaReply(p)
    BY <1>4, FlowKeepsEvidence DEF TsaReply, Step, Fixed
<1>5. CASE SiteTolerated(p)
    BY <1>5, FlowKeepsEvidence DEF SiteTolerated, Fixed
<1>6. CASE AcquireDone(p)
    BY <1>6, FlowKeepsEvidence
    DEF AcquireDone, stampingVars, jobVars, Step, Fixed
<1>7. CASE RecordChain(p)
  <2>1. acquired[p] # <<>>
      BY <1>7 DEF RecordChain, Step, Evidence, Promise
  <2> QED
      BY <1>7, <2>1, FlowKeepsEvidence
      DEF RecordChain, stampingVars, jobVars, Step, Fixed
<1>8. CASE RecordCrl(p)
  <2>1. acquired[p] # <<>>
      BY <1>8 DEF RecordCrl, Step, Evidence, Promise
  <2> QED
      BY <1>8, <2>1, FlowKeepsEvidence DEF RecordCrl, Step, Fixed
<1> QED
    BY <1>1, <1>2, <1>3, <1>4, <1>5, <1>6, <1>7, <1>8, FixKeepsEvidence,
       YieldKeepsEvidence, SealKeepsEvidence, StopKeepsEvidence
    DEF StampStep, Refuse

\* The checkout's own steps are outside the stamping flow.
LEMMA CheckoutKeepsEvidence ==
    ASSUME Consistent, Evidence, NEW p \in Proc,
           SyncStep(p) \/ DropStep(p) \/ DropOpen(p) \/ CheckoutFails(p),
           DropFrame
    PROVE  Evidence'
<1>1. UNCHANGED <<commits, manifests, base, amend, records, fixed, acquired>>
    BY DEF DropFrame, stampingVars, jobVars, SyncStep, DropStep, SyncOpen,
           SyncArtifacts, SyncRecords, SyncStale, SyncIndex, StageNothing,
           StageOpen, StageIndex, DropOpen, DropIndex, DropManifest,
           DropTokens, CheckoutFails
<1>2. /\ pc[p] \notin Fixed /\ pc'[p] \notin Fixed
      /\ \A q \in Proc : q # p => pc'[q] = pc[q]
  <2>1. CASE SyncStep(p)
      BY <2>1
      DEF SyncStep, SyncOpen, SyncArtifacts, SyncRecords, SyncStale,
          SyncIndex, StageNothing, StageOpen, StageIndex, Step, Fixed
  <2>2. CASE DropStep(p) \/ DropOpen(p)
      BY <2>2
      DEF DropStep, DropOpen, DropIndex, DropManifest, DropTokens, Step,
          Fixed
  <2>3. CASE CheckoutFails(p)
      BY <2>3 DEF CheckoutFails, CheckoutSteps, Fixed
  <2> QED
      BY <2>1, <2>2, <2>3
<1>3. pc'[p] \notin {"record", "recordCrl"}
    BY <1>2 DEF Fixed
<1> QED
    BY <1>1, <1>2, <1>3, FlowKeepsEvidence

LEMMA UserStepKeepsEvidence ==
    ASSUME Consistent, Evidence, UserStep
    PROVE  Evidence'
<1>1. UNCHANGED <<manifests, pc, base, amend, records, fixed, acquired>>
    BY DEF UserStep, CommitEnd, Edit, AddAll, CommitBegin, CommitUnguarded,
           ResetHard, Restore, UserUnchanged, stampingVars, jobVars
<1>2. Grows /\ \A c \in DOMAIN commits' \ DOMAIN commits :
                   ~commits'[c].sealed
  <2>1. ASSUME NEW others, Committed(others)
        PROVE  Grows /\ \A c \in DOMAIN commits' \ DOMAIN commits :
                             ~commits'[c].sealed
    <3> DEFINE commit == [parents |-> {head} \cup others, tree |-> index,
                          sealed |-> FALSE]
    <3>1. commits' = Append(commits, commit)
        BY <2>1 DEF Committed
    <3>2. ~commit.sealed
        OBVIOUS
    <3> HIDE DEF commit
    <3>3. commits \in Seq(Commit)
        OBVIOUS
    <3>4. /\ DOMAIN commits \subseteq DOMAIN commits'
          /\ \A c \in DOMAIN commits : commits'[c] = commits[c]
          /\ \A c \in DOMAIN commits' \ DOMAIN commits :
                 commits'[c] = commit
        BY <3>1, <3>3
    <3> QED
        BY <1>1, <3>2, <3>4 DEF Grows
  <2>2. UNCHANGED commits \/ \E others : Committed(others)
      BY DEF UserStep, CommitEnd, Edit, AddAll, CommitBegin, CommitUnguarded,
             ResetHard, Restore
  <2> QED
      BY <1>1, <2>1, <2>2 DEF Grows
<1>3. ASSUME NEW q \in Proc
      PROVE  Promise(q)'
  <2>1. Promise(q) /\ (pc[q] \in {"record", "recordCrl"} => acquired[q] # <<>>)
      BY DEF Evidence, Promise
  <2> QED
      BY <1>1, <1>2, <2>1, PromiseKept
<1> QED
    BY <1>1, <1>2, <1>3, TablesKept

\* Evidence is inductive.
LEMMA EvidenceAlways == Spec => [](Consistent /\ Evidence)
<1>1. Init => Evidence
  <2> SUFFICES ASSUME Init
               PROVE  Evidence
      OBVIOUS
  <2>1. DOMAIN manifests = {}
      BY DEF Init
  <2>2. \A c \in DOMAIN commits : ~commits[c].sealed
      BY DEF Init
  <2>3. \A p \in Proc : Promise(p)
      BY DEF Init, StampingInit, Promise, Fixed
  <2> QED
      BY <2>1, <2>2, <2>3 DEF Evidence
<1>2. Consistent /\ Evidence /\ [Next]_vars => Evidence'
  <2> SUFFICES ASSUME Consistent, Evidence, [Next]_vars
               PROVE  Evidence'
      OBVIOUS
  <2>1. ASSUME NEW p \in Proc, NEW amending \in BOOLEAN,
               StampBegin(p, amending)
        PROVE  Evidence'
      BY <2>1, FlowKeepsEvidence DEF StampBegin, Step, Fixed
  <2>2. ASSUME NEW p \in Proc, Begin(p)
        PROVE  Evidence'
      BY <2>1, <2>2, CheckoutKeepsEvidence DEF Begin
  <2>3. ASSUME NEW p \in Proc, Proceed(p)
        PROVE  Evidence'
      BY <2>3, StampStepKeepsEvidence, CheckoutKeepsEvidence DEF Proceed
  <2>4. ASSUME NEW p \in Proc, Fail(p)
        PROVE  Evidence'
      BY <2>4, StopKeepsEvidence, CheckoutKeepsEvidence
      DEF Fail, StampFails
  <2>5. ASSUME UNCHANGED <<commits, manifests, pc, base, amend, records,
                           fixed, acquired>>
        PROVE  Evidence'
    <3>1. Grows
        BY <2>5 DEF Grows
    <3>2. ASSUME NEW q \in Proc
          PROVE  Promise(q)'
      <4>1. /\ Promise(q)
            /\ pc[q] \in {"record", "recordCrl"} => acquired[q] # <<>>
          BY DEF Evidence, Promise
      <4> QED
          BY <2>5, <3>1, <4>1, PromiseKept
    <3> QED
        BY <2>5, <3>1, <3>2, TablesKept
  <2>6. CASE World
      BY <2>5, <2>6 DEF World, TimePasses, Tick, Publish, Rotate, jobVars
  <2>7. CASE UNCHANGED vars
      BY <2>5, <2>7 DEF vars, stampingVars, jobVars
  <2> QED
      BY <2>2, <2>3, <2>4, <2>6, <2>7, UserStepKeepsEvidence DEF Next
<1> QED
    BY <1>1, <1>2, ConsistentInitially, ConsistentNext, PTL DEF Spec

\* A sealed commit never claims more than was done: at least one token of a
\* TSA over its own manifest, which describes its tree, names its parents and
\* binds only what the bound commits hold; whoever interferes, and wherever
\* an invocation dies.
THEOREM SealedStamps == Spec => []SealedStampsHold
<1>1. Evidence => SealedStampsHold
    BY DEF Evidence, Holds, SealedStampsHold
<1> QED
    BY <1>1, EvidenceAlways, PTL
=============================================================================
