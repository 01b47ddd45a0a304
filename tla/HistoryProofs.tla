---------------------------- MODULE HistoryProofs ----------------------------
(***************************************************************************)
(* What Tydence keeps over whole histories, for any number of processes,   *)
(* sites and issuers.  History and RenewalChain are recursive functions;   *)
(* the first section shows that they are what can be reached along the     *)
(* parents of a commit and the groups of a manifest, and from there on     *)
(* the proofs speak of closed sets.                                        *)
(***************************************************************************)
EXTENDS TydenceProofs, FiniteSetTheorems, SequenceTheorems,
        WellFoundedInduction

(***************************************************************************)
(* Reachability along the links of a finite sequence of things, each       *)
(* linked only to older ones.                                              *)
(***************************************************************************)
Older(links) == \A c \in DOMAIN links : links[c] \subseteq 1..(c - 1)

Closed(links, set) == \A c \in set : links[c] \subseteq set

Reach(links, c) ==
    {d \in DOMAIN links :
        \A set \in SUBSET (DOMAIN links) :
            c \in set /\ Closed(links, set) => d \in set}

LEMMA LeastNumber ==
    ASSUME NEW S \in SUBSET Nat, S # {}
    PROVE  \E k \in S : \A j \in S : k <= j
<1> DEFINE less == OpToRel(<, Nat)
<1>1. PICK k \in S : \A j \in S : <<j, k>> \notin less
  <2>1. IsWellFoundedOn(less, Nat)
      BY NatLessThanWellFounded
  <2> HIDE DEF less
  <2> QED
      BY <2>1, WFMin, Zenon
<1>2. less = {ss \in Nat \X Nat : ss[1] < ss[2]}
    BY Zenon DEF OpToRel
<1> HIDE DEF less
<1>3. ASSUME NEW j \in S
      PROVE  k <= j
  <2>1. <<j, k>> \in Nat \X Nat /\ <<j, k>> \notin less
      BY <1>1
  <2> QED
      BY <1>2, <2>1
<1> QED
    BY <1>1, <1>3

LEMMA ReachSelf ==
    ASSUME NEW links, NEW c \in DOMAIN links
    PROVE  c \in Reach(links, c)
    BY DEF Reach

LEMMA ReachWithin ==
    ASSUME NEW links, NEW c, NEW set \in SUBSET (DOMAIN links),
           c \in set, Closed(links, set)
    PROVE  Reach(links, c) \subseteq set
    BY DEF Reach

LEMMA ReachClosed ==
    ASSUME NEW links, NEW c, \A d \in DOMAIN links : links[d] \subseteq DOMAIN links
    PROVE  Closed(links, Reach(links, c))
<1> SUFFICES ASSUME NEW d \in Reach(links, c), NEW q \in links[d],
                    NEW set \in SUBSET (DOMAIN links),
                    c \in set, Closed(links, set)
             PROVE  q \in set
    BY DEF Closed, Reach
<1> QED
    BY DEF Closed, Reach

LEMMA ReachTransitive ==
    ASSUME NEW links, NEW c, NEW d \in Reach(links, c),
           \A e \in DOMAIN links : links[e] \subseteq DOMAIN links
    PROVE  Reach(links, d) \subseteq Reach(links, c)
<1>1. Reach(links, c) \in SUBSET (DOMAIN links)
    BY DEF Reach
<1> QED
    BY <1>1, ReachClosed, ReachWithin

LEMMA ReachUnfolds ==
    ASSUME NEW links, NEW c \in DOMAIN links,
           \A d \in DOMAIN links : links[d] \subseteq DOMAIN links
    PROVE  Reach(links, c) = {c} \cup UNION {Reach(links, q) : q \in links[c]}
<1> DEFINE behind == {c} \cup UNION {Reach(links, q) : q \in links[c]}
<1>1. behind \in SUBSET (DOMAIN links)
    BY DEF Reach
<1>2. Closed(links, behind)
  <2> SUFFICES ASSUME NEW d \in behind, NEW r \in links[d]
               PROVE  r \in behind
      BY DEF Closed
  <2>1. CASE d = c
      BY <2>1, ReachSelf
  <2>2. CASE \E q \in links[c] : d \in Reach(links, q)
    <3>1. PICK q \in links[c] : d \in Reach(links, q)
        BY <2>2
    <3>2. Closed(links, Reach(links, q))
        BY ReachClosed
    <3> QED
        BY <3>1, <3>2 DEF Closed
  <2> QED
      BY <2>1, <2>2
<1>3. Reach(links, c) \subseteq behind
    BY <1>1, <1>2, ReachWithin
<1>4. ASSUME NEW q \in links[c]
      PROVE  Reach(links, q) \subseteq Reach(links, c)
  <2>1. c \in Reach(links, c) /\ Closed(links, Reach(links, c))
      BY ReachSelf, ReachClosed
  <2>2. q \in Reach(links, c)
      BY <2>1 DEF Closed
  <2> QED
      BY <2>2, ReachTransitive
<1>5. behind \subseteq Reach(links, c)
    BY <1>4, ReachSelf
<1> QED
    BY <1>3, <1>5

\* What is reached from something old stays as links are added.
LEMMA ReachStays ==
    ASSUME NEW links, NEW more,
           \A d \in DOMAIN links : links[d] \subseteq DOMAIN links,
           DOMAIN links \subseteq DOMAIN more,
           \A d \in DOMAIN links : more[d] = links[d],
           NEW c \in DOMAIN links
    PROVE  Reach(more, c) = Reach(links, c)
<1>1. ASSUME NEW d \in Reach(links, c)
      PROVE  d \in Reach(more, c)
  <2> SUFFICES ASSUME NEW set \in SUBSET (DOMAIN more),
                      c \in set, Closed(more, set)
               PROVE  d \in set
      BY DEF Reach
  <2>1. /\ set \cap DOMAIN links \in SUBSET (DOMAIN links)
        /\ c \in set \cap DOMAIN links
        /\ Closed(links, set \cap DOMAIN links)
      BY DEF Closed
  <2>2. Reach(links, c) \subseteq set \cap DOMAIN links
      BY <2>1, ReachWithin
  <2> QED
      BY <2>2
<1>2. Reach(more, c) \subseteq Reach(links, c)
  <2>1. /\ Reach(links, c) \in SUBSET (DOMAIN links)
        /\ c \in Reach(links, c)
        /\ Closed(links, Reach(links, c))
      BY ReachSelf, ReachClosed DEF Reach
  <2>2. Closed(more, Reach(links, c))
      BY <2>1 DEF Closed
  <2>3. Reach(links, c) \in SUBSET (DOMAIN more)
      BY <2>1
  <2> QED
      BY <2>1, <2>2, <2>3, ReachWithin
<1> QED
    BY <1>1, <1>2

(***************************************************************************)
(* The function that collects what is behind each thing is Reach: there is *)
(* one, and there is only one, because a smallest place where two differ   *)
(* would have a smaller one among its links.                               *)
(***************************************************************************)
Collects(past, links) ==
    past = [d \in DOMAIN links |->
               {d} \cup UNION {past[q] : q \in links[d]}]

LEMMA ReachCollects ==
    ASSUME NEW links, \A d \in DOMAIN links : links[d] \subseteq DOMAIN links
    PROVE  Collects([d \in DOMAIN links |-> Reach(links, d)], links)
<1> DEFINE past == [d \in DOMAIN links |-> Reach(links, d)]
<1>1. ASSUME NEW d \in DOMAIN links
      PROVE  Reach(links, d) = {d} \cup UNION {past[q] : q \in links[d]}
  <2>1. Reach(links, d) = {d} \cup UNION {Reach(links, q) : q \in links[d]}
      BY ReachUnfolds
  <2>2. {Reach(links, q) : q \in links[d]} = {past[q] : q \in links[d]}
      OBVIOUS
  <2> QED
      BY <2>1, <2>2
<1> QED
    BY <1>1 DEF Collects

LEMMA CollectedIsReach ==
    ASSUME NEW n \in Nat, NEW links, DOMAIN links = 1..n, Older(links),
           NEW past, Collects(past, links)
    PROVE  \A c \in DOMAIN links : past[c] = Reach(links, c)
<1> DEFINE odd == {c \in 1..n : past[c] # Reach(links, c)}
<1> SUFFICES ASSUME odd # {}
             PROVE  FALSE
    OBVIOUS
<1>1. PICK c \in odd : \A j \in odd : c <= j
  <2>1. odd \in SUBSET Nat
      OBVIOUS
  <2> HIDE DEF odd
  <2> QED
      BY <2>1, LeastNumber
<1>2. \A d \in DOMAIN links : links[d] \subseteq DOMAIN links
    BY DEF Older
<1>3. \A q \in links[c] : past[q] = Reach(links, q)
    BY <1>1 DEF Older
<1>4. {past[q] : q \in links[c]} = {Reach(links, q) : q \in links[c]}
    BY <1>3
<1>5. past[c] = {c} \cup UNION {past[q] : q \in links[c]}
    BY DEF Collects
<1>6. past[c] = Reach(links, c)
    BY <1>2, <1>4, <1>5, ReachUnfolds
<1> QED
    BY <1>6

-----------------------------------------------------------------------------
USE DEF repoVars, worldVars, checkoutVars, Consistent, Positions, TypeOK,
        RepositoryTypeOK, StampingTypeOK, CheckoutTypeOK, StampFrame, DropFrame

(***************************************************************************)
(* Commits name older commits as their parents.                            *)
(***************************************************************************)
Parents == [c \in DOMAIN commits |-> commits[c].parents]

Lineage == Older(Parents)

\* The ways a step can change the store or the branch.
LEMMA StoreSteps ==
    ASSUME Consistent, [Next]_vars
    PROVE  \/ UNCHANGED <<commits, head>>
           \/ \E p \in Proc : Seal(p) /\ StampFrame
           \/ \E others \in SUBSET (DOMAIN commits) :
                  /\ Committed(others)
                  /\ UserUnchanged
                  /\ UNCHANGED <<index, work>>
           \/ /\ "reset" \in UserDoes
              /\ \E c \in DOMAIN commits : ResetHard(c)
<1>1. CASE UserStep
  <2>1. CASE CommitEnd
      BY <2>1 DEF CommitEnd
  <2>2. CASE CommitUnguarded
      BY <2>2 DEF CommitUnguarded
  <2> QED
      BY <1>1, <2>1, <2>2
      DEF UserStep, Edit, AddAll, CommitBegin, Restore
<1>2. ASSUME NEW p \in Proc, Begin(p) \/ Proceed(p) \/ Fail(p)
      PROVE  UNCHANGED <<commits, head>> \/ (Seal(p) /\ StampFrame)
    BY <1>2
    DEF Begin, Proceed, Fail, StampBegin, StampStep, RefreshList,
        RefreshFetch, RefreshWrite, FixManifest, TsaReply, SiteYields,
        SiteTolerated, AcquireDone, RecordChain, RecordCrl, Refuse, Stop,
        StampFails, SyncStep, SyncOpen, SyncArtifacts, SyncRecords, SyncStale,
        SyncIndex, StageNothing, StageOpen, StageIndex, DropOpen, DropStep,
        DropIndex, DropManifest, DropTokens, CheckoutFails
<1>3. CASE World
    BY <1>3 DEF World, TimePasses, Tick, Publish, Rotate
<1>4. CASE UNCHANGED vars
    BY <1>4 DEF vars
<1> QED
    BY <1>1, <1>2, <1>3, <1>4 DEF Next

\* The commits a sealing or a committing step leaves behind.
LEMMA SealAppends ==
    ASSUME Consistent, NEW p \in Proc, Seal(p)
    PROVE  /\ DOMAIN commits' = DOMAIN commits \cup {Len(commits) + 1}
           /\ \A c \in DOMAIN commits : commits'[c] = commits[c]
           /\ commits'[Len(commits) + 1].parents = StampParents(p)
           /\ commits'[Len(commits) + 1].tree = StampTree(p)
           /\ commits'[Len(commits) + 1].sealed
           /\ head' = Len(commits) + 1
           /\ result'[p] = Len(commits) + 1
           /\ base[p] \in DOMAIN commits
           /\ base[p] = head
<1> DEFINE commit == [parents |-> StampParents(p), tree |-> StampTree(p),
                      sealed |-> TRUE]
<1>1. /\ Step(p, "record", "sync")
      /\ commits' = Append(commits, commit)
      /\ head' = Len(commits')
      /\ result' = [result EXCEPT ![p] = Len(commits')]
      /\ head = base[p]
    BY DEF Seal
<1>2. base[p] \in DOMAIN commits
    BY <1>1 DEF Step, StampSteps
<1>3. commit \in Commit
    BY <1>2, SealedCommitTyping
<1> HIDE DEF commit
<1>4. Len(commits') = Len(commits) + 1
    BY <1>1, <1>3
<1>5. /\ DOMAIN commits' = DOMAIN commits \cup {Len(commits')}
      /\ \A c \in DOMAIN commits : commits'[c] = commits[c]
      /\ commits'[Len(commits')] = commit
    BY <1>1, <1>3, StoreGrows
<1> QED
    BY <1>1, <1>2, <1>4, <1>5 DEF commit

LEMMA CommittedAppends ==
    ASSUME Consistent, NEW others \in SUBSET (DOMAIN commits),
           Committed(others)
    PROVE  /\ DOMAIN commits' = DOMAIN commits \cup {Len(commits) + 1}
           /\ \A c \in DOMAIN commits : commits'[c] = commits[c]
           /\ commits'[Len(commits) + 1].parents = {head} \cup others
           /\ commits'[Len(commits) + 1].tree = index
           /\ ~commits'[Len(commits) + 1].sealed
           /\ head' = Len(commits) + 1
<1> DEFINE commit == [parents |-> {head} \cup others, tree |-> index,
                      sealed |-> FALSE]
<1>1. commits' = Append(commits, commit) /\ head' = Len(commits')
    BY DEF Committed
<1>2. commit \in Commit
    BY StoreTyping DEF Commit
<1> HIDE DEF commit
<1>3. Len(commits') = Len(commits) + 1
    BY <1>1, <1>2
<1>4. /\ DOMAIN commits' = DOMAIN commits \cup {Len(commits')}
      /\ \A c \in DOMAIN commits : commits'[c] = commits[c]
      /\ commits'[Len(commits')] = commit
    BY <1>1, <1>2, StoreGrows
<1> QED
    BY <1>1, <1>3, <1>4 DEF commit

\* One commit more, with parents in the store.
LEMMA LineageGrows ==
    ASSUME Consistent, Lineage,
           DOMAIN commits' = DOMAIN commits \cup {Len(commits) + 1},
           \A c \in DOMAIN commits : commits'[c] = commits[c],
           commits'[Len(commits) + 1].parents \subseteq DOMAIN commits
    PROVE  Lineage'
<1>1. DOMAIN commits = 1..Len(commits) /\ Len(commits) \in Nat
    BY StoreTyping
<1>2. \A c \in DOMAIN commits : commits[c].parents \subseteq 1..(c - 1)
    BY DEF Lineage, Older, Parents
<1>3. ASSUME NEW c \in DOMAIN commits'
      PROVE  commits'[c].parents \subseteq 1..(c - 1)
  <2>1. CASE c \in DOMAIN commits
      BY <1>2, <2>1
  <2>2. CASE c = Len(commits) + 1
      BY <1>1, <2>2
  <2> QED
      BY <1>3, <2>1, <2>2
<1> QED
    BY <1>3 DEF Lineage, Older, Parents

LEMMA ParentsAreThere ==
    ASSUME Consistent, Lineage
    PROVE  /\ DOMAIN commits = 1..Len(commits)
           /\ Len(commits) \in Nat
           /\ DOMAIN Parents = DOMAIN commits
           /\ \A c \in DOMAIN commits :
                  /\ Parents[c] = commits[c].parents
                  /\ Parents[c] \subseteq DOMAIN Parents
                  /\ commits[c].parents \subseteq DOMAIN commits
           /\ \A p \in Proc : base[p] \in DOMAIN commits =>
                  StampParents(p) \subseteq DOMAIN commits
<1>1. DOMAIN commits = 1..Len(commits) /\ Len(commits) \in Nat
    BY StoreTyping
<1> QED
    BY <1>1 DEF Lineage, Older, Parents, StampParents

LEMMA LineageNext ==
    ASSUME Consistent, Lineage, [Next]_vars
    PROVE  Lineage'
<1>1. CASE UNCHANGED commits
    BY <1>1 DEF Lineage, Older, Parents
<1>2. ASSUME NEW p \in Proc, Seal(p)
      PROVE  Lineage'
  <2>1. base[p] \in DOMAIN commits
        /\ DOMAIN commits' = DOMAIN commits \cup {Len(commits) + 1}
        /\ \A c \in DOMAIN commits : commits'[c] = commits[c]
        /\ commits'[Len(commits) + 1].parents = StampParents(p)
      BY <1>2, SealAppends
  <2>2. StampParents(p) \subseteq DOMAIN commits
      BY <2>1, ParentsAreThere
  <2> QED
      BY <2>1, <2>2, LineageGrows
<1>3. ASSUME NEW others \in SUBSET (DOMAIN commits), Committed(others)
      PROVE  Lineage'
  <2>1. /\ DOMAIN commits' = DOMAIN commits \cup {Len(commits) + 1}
        /\ \A c \in DOMAIN commits : commits'[c] = commits[c]
        /\ commits'[Len(commits) + 1].parents = {head} \cup others
      BY <1>3, CommittedAppends
  <2> QED
      BY <2>1, LineageGrows
<1> QED
    BY <1>1, <1>2, <1>3, StoreSteps DEF ResetHard

LEMMA LineageInitially == Init => Lineage
<1> SUFFICES ASSUME Init
             PROVE  Lineage
    OBVIOUS
<1>1. DOMAIN commits = 1..1 /\ commits[1].parents = {}
    BY DEF Init
<1> QED
    BY <1>1 DEF Lineage, Older, Parents

\* Lineage is inductive.
LEMMA LineageAlways == Spec => [](Consistent /\ Lineage)
    BY LineageInitially, LineageNext, ConsistentInitially, ConsistentNext,
       PTL DEF Spec

\* The recursive function of History is reachability.
LEMMA HistoryIsReach ==
    ASSUME Consistent, Lineage, NEW c \in DOMAIN commits
    PROVE  History(c) = Reach(Parents, c)
<1> DEFINE Fits(f) == f = [d \in DOMAIN commits |->
                              {d} \cup UNION {f[q] : q \in commits[d].parents}]
           past == CHOOSE f : Fits(f)
<1>1. \A f : Fits(f) <=> Collects(f, Parents)
    BY DEF Collects, Parents
<1>2. \E f : Fits(f)
  <2> DEFINE reached == [d \in DOMAIN Parents |-> Reach(Parents, d)]
  <2>1. Collects(reached, Parents)
      BY ReachCollects, ParentsAreThere
  <2> HIDE DEF Fits, reached
  <2>2. Fits(reached)
      BY <1>1, <2>1
  <2> QED
      BY <2>2
<1>3. Fits(past)
  <2> HIDE DEF Fits
  <2> QED
      BY <1>2
<1>4. History(c) = past[c]
    BY DEF History
<1> HIDE DEF past, Fits
<1>5. Collects(past, Parents)
    BY <1>1, <1>3
<1> QED
    BY <1>4, <1>5, CollectedIsReach, ParentsAreThere DEF Lineage

\* What the histories of the store are, in this state and in the next.
HistoriesUnfold ==
    \A c \in DOMAIN commits :
        /\ History(c) = Reach(Parents, c)
        /\ History(c) \subseteq DOMAIN commits
        /\ c \in History(c)
        /\ History(c) = {c} \cup UNION {History(q) : q \in commits[c].parents}
        /\ \A d \in History(c) : History(d) \subseteq History(c)

LEMMA HistoryUnfolds == Consistent /\ Lineage => HistoriesUnfold
<1> SUFFICES ASSUME Consistent, Lineage, NEW c \in DOMAIN commits
             PROVE  /\ History(c) = Reach(Parents, c)
                    /\ History(c) \subseteq DOMAIN commits
                    /\ c \in History(c)
                    /\ History(c) = {c} \cup UNION {History(q) :
                                          q \in commits[c].parents}
                    /\ \A d \in History(c) : History(d) \subseteq History(c)
    BY DEF HistoriesUnfold
<1>1. /\ DOMAIN Parents = DOMAIN commits
      /\ \A d \in DOMAIN Parents : Parents[d] \subseteq DOMAIN Parents
      /\ Parents[c] = commits[c].parents
    BY ParentsAreThere
<1>2. \A d \in DOMAIN commits : History(d) = Reach(Parents, d)
    BY HistoryIsReach
<1>3. Reach(Parents, c) =
          {c} \cup UNION {Reach(Parents, q) : q \in Parents[c]}
    BY <1>1, ReachUnfolds
<1>4. {Reach(Parents, q) : q \in Parents[c]} =
          {History(q) : q \in commits[c].parents}
    BY <1>1, <1>2
<1>5. Reach(Parents, c) \subseteq DOMAIN commits
    BY <1>1 DEF Reach
<1>6. \A d \in Reach(Parents, c) : Reach(Parents, d) \subseteq Reach(Parents, c)
    BY <1>1, ReachTransitive
<1> QED
  <2>1. History(c) = Reach(Parents, c)
      BY <1>2
  <2>2. \A d \in Reach(Parents, c) : History(d) = Reach(Parents, d)
      BY <1>2, <1>5
  <2>3. c \in Reach(Parents, c)
      BY <1>3
  <2>4. History(c) = {c} \cup UNION {History(q) : q \in commits[c].parents}
      BY <1>1, <1>3, <1>4, <2>1
  <2>5. \A d \in History(c) : History(d) \subseteq History(c)
      BY <1>6, <2>1, <2>2
  <2> QED
      BY <1>5, <2>1, <2>3, <2>4, <2>5

LEMMA HistoryUnfoldsNext ==
    Consistent' /\ Lineage' => HistoriesUnfold'
    BY HistoryUnfolds, PTL

\* The history of a commit never changes.
CommitsStay ==
    /\ DOMAIN commits \subseteq DOMAIN commits'
    /\ \A c \in DOMAIN commits : commits'[c] = commits[c]

LEMMA HistoryStays ==
    ASSUME Consistent, Lineage, Consistent', Lineage', CommitsStay,
           NEW c \in DOMAIN commits
    PROVE  History(c)' = History(c)
<1>1. History(c) = Reach(Parents, c)
    BY HistoryIsReach
<1>2. History(c)' = Reach(Parents', c)
    BY HistoryUnfoldsNext DEF HistoriesUnfold, CommitsStay
<1>3. Reach(Parents', c) = Reach(Parents, c)
  <2>1. /\ \A d \in DOMAIN Parents : Parents[d] \subseteq DOMAIN Parents
        /\ c \in DOMAIN Parents
      BY ParentsAreThere
  <2>2. /\ DOMAIN Parents \subseteq DOMAIN (Parents')
        /\ \A d \in DOMAIN Parents : Parents'[d] = Parents[d]
      BY DEF CommitsStay, Parents
  <2> QED
      BY <2>1, <2>2, ReachStays
<1> QED
    BY <1>1, <1>2, <1>3

-----------------------------------------------------------------------------
\* Nobody amends unless the user does.
Amendless == \A p \in Proc : ~amend[p]

LEMMA AmendlessNext ==
    ASSUME "amend" \notin UserDoes, Consistent, Amendless, [Next]_vars
    PROVE  Amendless'
<1>0. amend \in [Proc -> BOOLEAN]
    OBVIOUS
<1> HIDE DEF Consistent
<1>1. ASSUME NEW p \in Proc, Begin(p)
      PROVE  Amendless'
  <2>1. ASSUME NEW amending, StampBegin(p, amending),
               amending => "amend" \in UserDoes
        PROVE  Amendless'
    <3>1. amend' = [amend EXCEPT ![p] = amending]
        BY <2>1 DEF StampBegin
    <3> QED
        BY <1>0, <2>1, <3>1 DEF Amendless
  <2>2. CASE DropOpen(p) /\ UNCHANGED stampingVars
      BY <2>2 DEF stampingVars, jobVars, Amendless
  <2> QED
      BY <1>1, <2>1, <2>2 DEF Begin
<1>2. ASSUME NEW p \in Proc, Proceed(p) \/ Fail(p)
      PROVE  Amendless'
  <2>1. UNCHANGED amend \/ amend' = [amend EXCEPT ![p] = FALSE]
    <3>1. CASE StampStep(p)
      <4>1. CASE Seal(p) \/ Refuse(p)
          BY <4>1 DEF Seal, Refuse, Stop, ResetJob
      <4>2. CASE RecordChain(p) \/ RecordCrl(p)
          BY <4>2 DEF RecordChain, RecordCrl, stampingVars, jobVars
      <4> QED
          BY <3>1, <4>1, <4>2
          DEF StampStep, RefreshList, RefreshFetch, RefreshWrite, FixManifest,
              TsaReply, SiteYields, SiteTolerated, AcquireDone, stampingVars,
              jobVars
    <3>2. CASE UNCHANGED stampingVars
        BY <3>2 DEF stampingVars, jobVars
    <3>3. CASE StampFails(p)
        BY <3>3 DEF StampFails, Stop, ResetJob
    <3> QED
        BY <1>2, <3>1, <3>2, <3>3 DEF Proceed, Fail
  <2> QED
      BY <1>0, <2>1 DEF Amendless
<1>3. CASE UserStep
    BY <1>3
    DEF UserStep, CommitEnd, Edit, AddAll, CommitBegin, CommitUnguarded,
        ResetHard, Restore, UserUnchanged, stampingVars, jobVars, Amendless
<1>4. CASE World \/ UNCHANGED vars
    BY <1>4
    DEF World, TimePasses, Tick, Publish, Rotate, vars, stampingVars, jobVars,
        Amendless
<1> QED
    BY <1>1, <1>2, <1>3, <1>4 DEF Next

\* A new tip whose parents hold the old one keeps all that was behind it.
LEMMA TipMovesOn ==
    ASSUME Consistent, Lineage, Consistent', Lineage', NoStampIsLost,
           DOMAIN commits' = DOMAIN commits \cup {head'},
           \A c \in DOMAIN commits : commits'[c] = commits[c],
           head \in commits'[head'].parents
    PROVE  NoStampIsLost'
<1>1. \A c \in DOMAIN commits : History(c)' = History(c)
    BY HistoryStays DEF CommitsStay
<1>2. History(head)' = {head'} \cup UNION {History(q)' :
                                           q \in commits'[head'].parents}
  <2>1. HistoriesUnfold'
      BY HistoryUnfoldsNext
  <2>2. \A c \in DOMAIN commits' :
            History(c)' = {c} \cup UNION {History(q)' :
                                          q \in commits'[c].parents}
      BY <2>1 DEF HistoriesUnfold
  <2> QED
      BY <2>2
<1> QED
    BY <1>1, <1>2 DEF NoStampIsLost

\* A stamp that was sealed stays behind the branch, unless the user amends or
\* resets: the compare-and-swap of seal and git's own lock let nobody move
\* the branch to a tip that does not have the old one among its parents,
\* however many stamps and commits run at the same time and fail where.
THEOREM StampsAreNeverLost ==
    ASSUME "amend" \notin UserDoes, "reset" \notin UserDoes
    PROVE  Spec => []NoStampIsLost
<1>1. Init => Amendless /\ NoStampIsLost
    BY DEF Init, StampingInit, Amendless, NoStampIsLost
<1>2. /\ Consistent /\ Lineage /\ Amendless /\ NoStampIsLost /\ [Next]_vars
      /\ Consistent' /\ Lineage'
      => Amendless' /\ NoStampIsLost'
  <2> SUFFICES ASSUME Consistent, Lineage, Amendless, NoStampIsLost,
                      [Next]_vars, Consistent', Lineage'
               PROVE  NoStampIsLost'
      BY AmendlessNext
  <2>1. CASE UNCHANGED <<commits, head>>
    <3>1. \A c \in DOMAIN commits : History(c)' = History(c)
        BY <2>1, HistoryStays DEF CommitsStay
    <3> QED
        BY <2>1, <3>1 DEF NoStampIsLost
  <2>2. ASSUME NEW p \in Proc, Seal(p)
        PROVE  NoStampIsLost'
    <3>1. StampParents(p) = {base[p]}
        BY DEF StampParents, Amendless
    <3> HIDE DEF Consistent
    <3>2. head \in StampParents(p)
        BY <2>2, <3>1, SealAppends
    <3>3. /\ DOMAIN commits' = DOMAIN commits \cup {head'}
          /\ \A c \in DOMAIN commits : commits'[c] = commits[c]
          /\ head \in commits'[head'].parents
        BY <2>2, <3>2, SealAppends
    <3> QED
        BY <3>3, TipMovesOn
  <2>3. ASSUME NEW others \in SUBSET (DOMAIN commits), Committed(others)
        PROVE  NoStampIsLost'
      BY <2>3, CommittedAppends, TipMovesOn
  <2> QED
      BY <2>1, <2>2, <2>3, StoreSteps
<1>3. Init => Consistent /\ Lineage
    BY ConsistentInitially, LineageInitially
<1>4. Consistent /\ Lineage /\ [Next]_vars => Consistent' /\ Lineage'
    BY ConsistentNext, LineageNext
<1> QED
    BY <1>1, <1>2, <1>3, <1>4, PTL DEF Spec

-----------------------------------------------------------------------------
(***************************************************************************)
(* One command at a time.  Where the repository is used by one command     *)
(* after the other, at most one invocation is under way, none while git    *)
(* commits, and what it read is still what is there: the tip it stamps,    *)
(* the commit it just sealed, the index it is about to write back.         *)
(***************************************************************************)
Converging == SyncSteps \cup {"sync", "stage", "stageIndex"}

Lone ==
    /\ \A p, q \in Proc : pc[p] # "idle" /\ pc[q] # "idle" => p = q
    /\ hook # 0 => \A p \in Proc : pc[p] = "idle"

Undisturbed(p) ==
    /\ pc[p] \in StampSteps => base[p] = head
    /\ pc[p] \in Converging => result[p] = head /\ commits[head].sealed
    /\ pc[p] \in SyncSteps => seen[p] = head /\ idx[p] = index
    /\ pc[p] = "stageIndex" => idx[p] = StagedIndex
    /\ pc[p] = "dropIndex" => idx[p] = WithoutArtifacts(index)
    /\ pc[p] \in {"dropManifest", "dropTokens"} => ~HasArtifacts(index)

InPeace == Lone /\ \A p \in Proc : Undisturbed(p)

Acting(p) ==
    /\ hook = 0
    /\ \A q \in Proc : q # p => pc[q] = "idle"

AllIdle == \A p \in Proc : pc[p] = "idle"

\* Who acts alone, in a step of such a repository.
StampBegins(p) ==
    /\ Acting(p) /\ AllIdle
    /\ \E amending \in BOOLEAN : StampBegin(p, amending)
    /\ StampFrame

DropBegins(p) == Acting(p) /\ AllIdle /\ DropOpen(p) /\ DropFrame

StampProceeds(p) == Acting(p) /\ StampStep(p) /\ StampFrame

CheckoutProceeds(p) ==
    Acting(p) /\ (SyncStep(p) \/ DropStep(p)) /\ DropFrame

StampDies(p) == Acting(p) /\ StampFails(p) /\ StampFrame

CheckoutDies(p) == Acting(p) /\ CheckoutFails(p) /\ DropFrame

UserActs ==
    /\ AllIdle
    /\ UserStep
    /\ CommitEnd \/ Quiet

LEMMA StepNotIdle ==
    ASSUME NEW p \in Proc, StampStep(p) \/ SyncStep(p) \/ DropStep(p)
                               \/ StampFails(p) \/ CheckoutFails(p)
    PROVE  pc[p] # "idle"
<1>1. CASE StampStep(p)
  <2>1. CASE Refuse(p)
      BY <2>1
      DEF Refuse, Refuses, RecordIsGone, TokenIsRefused, NothingAcquired,
          BranchMoved
  <2> QED
      BY <1>1, <2>1
      DEF StampStep, RefreshList, RefreshFetch, RefreshWrite, FixManifest,
          TsaReply, SiteYields, SiteTolerated, AcquireDone, RecordChain,
          RecordCrl, Seal, Step
<1>2. CASE SyncStep(p) \/ DropStep(p)
    BY <1>2
    DEF SyncStep, SyncOpen, SyncArtifacts, SyncRecords, SyncStale, SyncIndex,
        StageNothing, StageOpen, StageIndex, DropStep, DropIndex,
        DropManifest, DropTokens, Step
<1>3. CASE StampFails(p) \/ CheckoutFails(p)
    BY <1>3 DEF StampFails, CheckoutFails, StampSteps, CheckoutSteps
<1> QED
    BY <1>1, <1>2, <1>3

LEMMA StepsAlone ==
    ASSUME Exclusive, Lone, [Next]_vars
    PROVE  \/ \E p \in Proc :
                  \/ StampBegins(p)   \/ DropBegins(p)
                  \/ StampProceeds(p) \/ CheckoutProceeds(p)
                  \/ StampDies(p)     \/ CheckoutDies(p)
           \/ UserActs
           \/ World
           \/ UNCHANGED vars
<1>1. ASSUME NEW p \in Proc, pc[p] # "idle"
      PROVE  Acting(p)
    BY <1>1 DEF Lone, Acting
<1>2. ASSUME NEW p \in Proc, Begin(p)
      PROVE  StampBegins(p) \/ DropBegins(p)
    BY <1>2
    DEF Begin, MayAct, Quiet, StampBegins, DropBegins, Acting, AllIdle
<1>3. ASSUME NEW p \in Proc, Proceed(p)
      PROVE  StampProceeds(p) \/ CheckoutProceeds(p)
  <2>1. pc[p] # "idle"
      BY <1>3, StepNotIdle DEF Proceed
  <2> QED
      BY <1>1, <1>3, <2>1 DEF Proceed, StampProceeds, CheckoutProceeds
<1>4. ASSUME NEW p \in Proc, Fail(p)
      PROVE  StampDies(p) \/ CheckoutDies(p)
  <2>1. pc[p] # "idle"
      BY <1>4, StepNotIdle DEF Fail
  <2> QED
      BY <1>1, <1>4, <2>1 DEF Fail, StampDies, CheckoutDies
<1>5. CASE UserStep
  <2>1. CASE CommitEnd
      BY <1>5, <2>1 DEF CommitEnd, UserActs, Lone, AllIdle
  <2>2. CASE MayAct
      BY <1>5, <2>2 DEF MayAct, Quiet, UserActs, AllIdle
  <2> QED
      BY <1>5, <2>1, <2>2 DEF UserStep
<1> QED
    BY <1>2, <1>3, <1>4, <1>5 DEF Next

\* One step of one invocation, by itself.
LEMMA PeaceKept ==
    ASSUME NEW p \in Proc, Acting(p),
           \A q \in Proc : q # p => pc'[q] = pc[q],
           hook' = hook, Undisturbed(p)'
    PROVE  InPeace'
<1>1. \A q \in Proc : q # p => pc'[q] = "idle"
    BY DEF Acting
<1>2. \A q \in Proc : pc'[q] = "idle" => Undisturbed(q)'
    BY DEF Undisturbed, StampSteps, Converging, SyncSteps
<1> QED
    BY <1>1, <1>2 DEF InPeace, Lone, Acting

LEMMA StampStepGoesOn ==
    ASSUME Consistent, NEW p \in Proc, StampStep(p), ~Seal(p), ~Refuse(p)
    PROVE  /\ pc[p] \in StampSteps /\ pc'[p] \in StampSteps
           /\ UNCHANGED <<commits, head, base, index>>
           /\ \A q \in Proc : q # p => pc'[q] = pc[q]
<1>1. pc \in [Proc -> Steps]
    BY DEF Steps
<1> HIDE DEF Consistent
<1>2. UNCHANGED <<commits, head, base, index>>
  <2>1. CASE RecordChain(p)
      BY <2>1 DEF RecordChain, stampingVars, jobVars
  <2>2. CASE RecordCrl(p)
      BY <2>2 DEF RecordCrl
  <2>3. CASE TsaReply(p) \/ SiteYields(p)
      BY <2>3 DEF TsaReply, SiteYields
  <2>4. CASE SiteTolerated(p) \/ AcquireDone(p)
      BY <2>4 DEF SiteTolerated, AcquireDone, stampingVars, jobVars
  <2>5. CASE FixManifest(p)
      BY <2>5 DEF FixManifest
  <2>6. CASE RefreshList(p) \/ \E i \in Issuer : RefreshFetch(p, i)
                                             \/ RefreshWrite(p, i)
      BY <2>6 DEF RefreshList, RefreshFetch, RefreshWrite, stampingVars, jobVars
  <2> QED
      BY <2>1, <2>2, <2>3, <2>4, <2>5, <2>6 DEF StampStep
<1>3. \E from \in StampSteps, to \in StampSteps : Step(p, from, to)
  <2>1. CASE RecordChain(p) \/ RecordCrl(p)
      BY <2>1 DEF RecordChain, RecordCrl, StampSteps
  <2>2. CASE TsaReply(p) \/ SiteYields(p)
      BY <2>2 DEF TsaReply, SiteYields, StampSteps
  <2>3. CASE AcquireDone(p) \/ FixManifest(p)
      BY <2>3 DEF AcquireDone, FixManifest, StampSteps
  <2>4. CASE SiteTolerated(p)
      BY <2>4 DEF SiteTolerated, Step, StampSteps
  <2>5. CASE RefreshList(p) \/ \E i \in Issuer : RefreshFetch(p, i)
                                             \/ RefreshWrite(p, i)
      BY <2>5 DEF RefreshList, RefreshFetch, RefreshWrite, StampSteps
  <2> QED
      BY <2>1, <2>2, <2>3, <2>4, <2>5 DEF StampStep
<1> QED
    BY <1>1, <1>2, <1>3 DEF Step

\* A label set is the one of its invocation only.
LEMMA LabelSet ==
    ASSUME Consistent, NEW p \in Proc, NEW to, pc' = [pc EXCEPT ![p] = to]
    PROVE  pc'[p] = to /\ \A q \in Proc : q # p => pc'[q] = pc[q]
    OBVIOUS

LEMMA StepSetsLabel ==
    ASSUME Consistent, NEW p \in Proc, NEW from, NEW to, Step(p, from, to)
    PROVE  /\ pc[p] = from /\ pc'[p] = to
           /\ \A q \in Proc : q # p => pc'[q] = pc[q]
<1>1. pc[p] = from /\ pc' = [pc EXCEPT ![p] = to]
    BY DEF Step
<1> HIDE DEF Consistent
<1> QED
    BY <1>1, LabelSet

\* A stamp's first step, and its death.
LEMMA BeginsOrDies ==
    ASSUME Consistent, NEW p \in Proc, StampBegins(p) \/ StampDies(p)
    PROVE  /\ Acting(p)
           /\ pc[p] \in {"idle"} \cup StampSteps
           /\ pc'[p] \in {"idle"} \cup StampSteps
           /\ UNCHANGED <<commits, manifests, head, index, work>>
           /\ \A q \in Proc : q # p => pc'[q] = pc[q]
<1>1. CASE StampBegins(p)
  <2>1. PICK amending \in BOOLEAN : StampBegin(p, amending)
      BY <1>1 DEF StampBegins
  <2>2. /\ Acting(p) /\ Step(p, "idle", "list")
        /\ UNCHANGED <<commits, manifests, head, index, work>>
      BY <1>1, <2>1 DEF StampBegins, StampBegin
  <2> QED
      BY <2>2, StepSetsLabel DEF StampSteps
<1>2. CASE StampDies(p)
  <2>1. /\ Acting(p) /\ pc[p] \in StampSteps
        /\ pc' = [pc EXCEPT ![p] = "idle"]
        /\ UNCHANGED <<commits, manifests, head, index, work>>
      BY <1>2 DEF StampDies, StampFails, Stop
  <2> QED
      BY <2>1, LabelSet
<1> QED
    BY <1>1, <1>2

LEMMA StampStepKeepsPeace ==
    ASSUME Consistent, InPeace, NEW p \in Proc, StampProceeds(p)
    PROVE  InPeace'
<1>1. Acting(p) /\ StampStep(p) /\ StampFrame
    BY DEF StampProceeds
<1>2. base[p] = head
  <2>1. pc[p] \in StampSteps
    <3>1. CASE Refuse(p)
        BY <3>1
        DEF Refuse, Refuses, RecordIsGone, TokenIsRefused, NothingAcquired,
            BranchMoved, StampSteps
    <3> QED
        BY <1>1, <3>1
        DEF StampStep, RefreshList, RefreshFetch, RefreshWrite, FixManifest,
            TsaReply, SiteYields, SiteTolerated, AcquireDone, RecordChain,
            RecordCrl, Seal, Step, StampSteps
  <2> QED
      BY <2>1 DEF InPeace, Undisturbed
<1>3. ASSUME pc'[p] \in StampSteps, UNCHANGED <<head, base>>
      PROVE  Undisturbed(p)'
    BY <1>2, <1>3 DEF Undisturbed, StampSteps, Converging, SyncSteps
<1>4. CASE Seal(p)
  <2>1. /\ head' = Len(commits) + 1
        /\ result'[p] = head'
        /\ commits'[Len(commits) + 1].sealed
      BY <1>4, SealAppends
  <2>2. Step(p, "record", "sync")
      BY <1>4 DEF Seal
  <2>3. Undisturbed(p)'
      BY <2>1, <2>2 DEF Undisturbed, Step, StampSteps, Converging, SyncSteps
  <2> QED
      BY <1>1, <2>2, <2>3, PeaceKept DEF Step
<1>5. CASE Refuse(p)
  <2>1. pc' = [pc EXCEPT ![p] = "idle"]
      BY <1>5 DEF Refuse, Stop
  <2>2. Undisturbed(p)'
      BY <2>1 DEF Undisturbed, StampSteps, Converging, SyncSteps
  <2> QED
      BY <1>1, <2>1, <2>2, PeaceKept
<1>6. CASE ~Seal(p) /\ ~Refuse(p)
  <2>1. /\ pc'[p] \in StampSteps
        /\ UNCHANGED <<head, base>>
        /\ \A q \in Proc : q # p => pc'[q] = pc[q]
      BY <1>1, <1>6, StampStepGoesOn
  <2> QED
      BY <1>1, <1>3, <2>1, PeaceKept
<1> QED
    BY <1>4, <1>5, <1>6

LEMMA CheckoutStepKeepsPeace ==
    ASSUME Consistent, InPeace, NEW p \in Proc, CheckoutProceeds(p)
    PROVE  InPeace'
<1>1. Acting(p) /\ (SyncStep(p) \/ DropStep(p)) /\ DropFrame
    BY DEF CheckoutProceeds
<1>2. UNCHANGED <<commits, head, hook, base>>
    BY <1>1
    DEF SyncStep, SyncOpen, SyncArtifacts, SyncRecords, SyncStale, SyncIndex,
        StageNothing, StageOpen, StageIndex, DropStep, DropIndex,
        DropManifest, DropTokens, stampingVars, jobVars
<1>3. \A q \in Proc : q # p => pc'[q] = pc[q]
    BY <1>1
    DEF SyncStep, SyncOpen, SyncArtifacts, SyncRecords, SyncStale, SyncIndex,
        StageNothing, StageOpen, StageIndex, DropStep, DropIndex,
        DropManifest, DropTokens, Step
<1>4. Undisturbed(p)
    BY DEF InPeace
<1>5. Undisturbed(p)'
  <2>1. CASE SyncOpen(p)
      BY <1>2, <1>4, <2>1
      DEF Undisturbed, SyncOpen, Step, StampSteps, Converging, SyncSteps
  <2>2. CASE SyncArtifacts(p) \/ SyncRecords(p) \/ SyncStale(p)
      BY <1>2, <1>4, <2>2
      DEF Undisturbed, SyncArtifacts, SyncRecords, SyncStale, Step, StampSteps,
          Converging, SyncSteps
  <2>3. CASE SyncIndex(p)
      BY <1>2, <1>4, <2>3
      DEF Undisturbed, SyncIndex, Step, StampSteps, Converging, SyncSteps
  <2>4. CASE StageOpen(p)
    <3>1. /\ Step(p, "stage", "stageIndex")
          /\ idx'[p] = StagedIndex
          /\ UNCHANGED <<index, work, result>>
        BY <2>4 DEF StageOpen
    <3>2. StagedIndex' = StagedIndex
        BY <3>1 DEF StagedIndex
    <3> QED
        BY <1>2, <1>4, <3>1, <3>2
        DEF Undisturbed, Step, StampSteps, Converging, SyncSteps
  <2>5. CASE StageNothing(p) \/ StageIndex(p) \/ DropTokens(p)
      BY <2>5
      DEF Undisturbed, StageNothing, StageIndex, DropTokens, Step, StampSteps,
          Converging, SyncSteps
  <2>6. CASE DropIndex(p)
    <3>1. /\ Step(p, "dropIndex", "dropManifest")
          /\ index' = WithoutArtifacts(index)
        BY <1>4, <2>6 DEF DropIndex, Undisturbed, Step
    <3>2. ~HasArtifacts(index)'
        BY <3>1 DEF WithoutArtifacts, HasArtifacts, Files
    <3> QED
        BY <3>1, <3>2
        DEF Undisturbed, Step, StampSteps, Converging, SyncSteps
  <2>7. CASE DropManifest(p)
    <3>1. /\ Step(p, "dropManifest", "dropTokens")
          /\ index' = index
          /\ ~HasArtifacts(index)
        BY <1>4, <2>7 DEF DropManifest, Undisturbed, Step
    <3>2. ~HasArtifacts(index)'
        BY <3>1 DEF HasArtifacts
    <3> QED
        BY <3>1, <3>2
        DEF Undisturbed, Step, StampSteps, Converging, SyncSteps
  <2> QED
      BY <1>1, <2>1, <2>2, <2>3, <2>4, <2>5, <2>6, <2>7
      DEF SyncStep, DropStep
<1> QED
    BY <1>1, <1>2, <1>3, <1>5, PeaceKept

LEMMA PeaceNext ==
    ASSUME Exclusive, Consistent, InPeace, [Next]_vars
    PROVE  InPeace'
<1>1. ASSUME NEW p \in Proc, StampBegins(p)
      PROVE  InPeace'
  <2>1. /\ Acting(p) /\ StampFrame
        /\ Step(p, "idle", "list")
        /\ base'[p] = head
        /\ UNCHANGED head
      BY <1>1 DEF StampBegins, StampBegin
  <2>2. Undisturbed(p)'
      BY <2>1 DEF Undisturbed, Step, StampSteps, Converging, SyncSteps
  <2> QED
      BY <2>1, <2>2, PeaceKept DEF Step
<1>2. ASSUME NEW p \in Proc, DropBegins(p)
      PROVE  InPeace'
  <2>1. /\ Acting(p) /\ DropFrame
        /\ Step(p, "idle", IF HasArtifacts(index) THEN "dropIndex"
                           ELSE "dropManifest")
        /\ HasArtifacts(index) => idx'[p] = WithoutArtifacts(index)
        /\ UNCHANGED index
      BY <1>2 DEF DropBegins, DropOpen
  <2>2. HasArtifacts(index)' = HasArtifacts(index)
        /\ WithoutArtifacts(index)' = WithoutArtifacts(index)
      BY <2>1 DEF HasArtifacts, WithoutArtifacts
  <2>3. Undisturbed(p)'
      BY <2>1, <2>2
      DEF Undisturbed, Step, StampSteps, Converging, SyncSteps
  <2>4. \A q \in Proc : q # p => pc'[q] = pc[q]
      BY <2>1 DEF Step
  <2> QED
      BY <2>1, <2>3, <2>4, PeaceKept
<1>3. ASSUME NEW p \in Proc, StampDies(p) \/ CheckoutDies(p)
      PROVE  InPeace'
  <2>1. Acting(p) /\ hook' = hook /\ pc' = [pc EXCEPT ![p] = "idle"]
      BY <1>3
      DEF StampDies, StampFails, Stop, CheckoutDies, CheckoutFails
  <2>2. Undisturbed(p)'
      BY <2>1 DEF Undisturbed, StampSteps, Converging, SyncSteps
  <2> QED
      BY <2>1, <2>2, PeaceKept
<1>4. CASE UserActs
  <2>1. \A p \in Proc : pc'[p] = "idle"
      BY <1>4
      DEF UserActs, AllIdle, UserStep, CommitEnd, Edit, AddAll, CommitBegin,
          CommitUnguarded, ResetHard, Restore, UserUnchanged
  <2> QED
      BY <2>1
      DEF InPeace, Lone, Undisturbed, StampSteps, Converging, SyncSteps
<1>5. CASE World \/ UNCHANGED vars
  <2>1. UNCHANGED <<pc, head, commits, base, index, work, result, seen, idx,
                    hook>>
      BY <1>5
      DEF World, TimePasses, Tick, Publish, Rotate, jobVars, vars,
          stampingVars
  <2> QED
      BY <2>1
      DEF InPeace, Lone, Undisturbed, StagedIndex, WithoutArtifacts,
          HasArtifacts
<1> QED
    BY <1>1, <1>2, <1>3, <1>4, <1>5, StampStepKeepsPeace,
       CheckoutStepKeepsPeace, StepsAlone DEF InPeace

LEMMA PeaceInitially == Init => InPeace
    BY DEF Init, InPeace, Lone, Undisturbed, StampSteps, Converging, SyncSteps

\* InPeace is inductive.
LEMMA PeaceAlways ==
    ASSUME Exclusive
    PROVE  Spec => [](Consistent /\ InPeace)
    BY PeaceInitially, PeaceNext, ConsistentInitially, ConsistentNext,
       PTL DEF Spec

-----------------------------------------------------------------------------
(***************************************************************************)
(* The pre-commit guard.  Between the hook and the commit nothing stages   *)
(* an artifact, so a guarded commit carries none.                          *)
(***************************************************************************)
HookGuards == hook # 0 => ~HasArtifacts(index)

LEMMA HookNext ==
    ASSUME Exclusive, Consistent, InPeace, HookGuards, [Next]_vars
    PROVE  HookGuards'
<1>1. ASSUME NEW p \in Proc,
             \/ StampBegins(p)   \/ DropBegins(p)
             \/ StampProceeds(p) \/ CheckoutProceeds(p)
             \/ StampDies(p)     \/ CheckoutDies(p)
      PROVE  HookGuards'
  <2>1. hook' = 0
      BY <1>1
      DEF StampBegins, DropBegins, StampProceeds, CheckoutProceeds, StampDies,
          CheckoutDies, Acting
  <2> QED
      BY <2>1 DEF HookGuards
<1>2. CASE UserActs
  <2>1. CASE CommitEnd
      BY <2>1 DEF CommitEnd, HookGuards
  <2>2. CASE CommitBegin
      BY <2>2 DEF CommitBegin, HookPasses, HookGuards, HasArtifacts
  <2>3. CASE hook = 0 /\ hook' = hook
      BY <2>3 DEF HookGuards
  <2> QED
      BY <1>2, <2>1, <2>2, <2>3
      DEF UserActs, UserStep, Quiet, Edit, AddAll, CommitUnguarded, ResetHard,
          Restore
<1>3. CASE World \/ UNCHANGED vars
  <2>1. UNCHANGED <<hook, index>>
      BY <1>3 DEF World, TimePasses, Tick, Publish, Rotate, vars
  <2> QED
      BY <2>1 DEF HookGuards, HasArtifacts
<1> QED
    BY <1>1, <1>2, <1>3, StepsAlone DEF InPeace

LEMMA HookInitially == Init => HookGuards
    BY DEF Init, HookGuards

\* What becomes a commit: a seal, the index as the hook passed it, or the
\* index of somebody who bypasses the hook.
LEMMA NewCommits ==
    ASSUME Exclusive, Consistent, InPeace, HookGuards, [Next]_vars
    PROVE  \/ UNCHANGED <<commits, head>>
           \/ \E p \in Proc : Seal(p) /\ StampProceeds(p)
           \/ \E others \in SUBSET (DOMAIN commits) :
                  /\ Committed(others) /\ UserActs
                  /\ UserUnchanged /\ UNCHANGED <<index, work>>
                  /\ \/ ~HasArtifacts(index)
                     \/ "commit unguarded" \in UserDoes /\ others = {} /\ Quiet
           \/ /\ "reset" \in UserDoes /\ UserActs /\ Quiet
              /\ \E c \in DOMAIN commits : ResetHard(c)
<1>1. ASSUME NEW p \in Proc, StampBegins(p) \/ DropBegins(p)
      PROVE  UNCHANGED <<commits, head>>
    BY <1>1 DEF StampBegins, DropBegins, StampBegin, DropOpen
<1>2. ASSUME NEW p \in Proc, StampProceeds(p), ~Seal(p)
      PROVE  UNCHANGED <<commits, head>>
    BY <1>2
    DEF StampProceeds, StampStep, RefreshList, RefreshFetch, RefreshWrite,
        FixManifest, TsaReply, SiteYields, SiteTolerated, AcquireDone,
        RecordChain, RecordCrl, Refuse, Stop
<1>3. ASSUME NEW p \in Proc, CheckoutProceeds(p)
      PROVE  UNCHANGED <<commits, head>>
    BY <1>3
    DEF CheckoutProceeds, SyncStep, SyncOpen, SyncArtifacts, SyncRecords,
        SyncStale, SyncIndex, StageNothing, StageOpen, StageIndex, DropStep,
        DropIndex, DropManifest, DropTokens
<1>4. ASSUME NEW p \in Proc, StampDies(p) \/ CheckoutDies(p)
      PROVE  UNCHANGED <<commits, head>>
    BY <1>4 DEF StampDies, CheckoutDies, StampFails, Stop, CheckoutFails
<1>5. CASE World \/ UNCHANGED vars
    BY <1>5 DEF World, TimePasses, Tick, Publish, Rotate, vars
<1>6. CASE UserActs
  <2>1. CASE CommitEnd
    <3>1. hook # 0 /\ ~HasArtifacts(index)
        BY <2>1 DEF CommitEnd, HookGuards
    <3>2. UserUnchanged /\ UNCHANGED <<index, work>>
        BY <2>1 DEF CommitEnd
    <3>3. CASE head # hook
        BY <2>1, <3>3 DEF CommitEnd
    <3>4. CASE head = hook
      <4>1. PICK others \in {{}} \cup
                    {{q} : q \in (DOMAIN commits) \ History(head)} :
                Committed(others)
          BY <2>1, <3>4 DEF CommitEnd
      <4>2. others \in SUBSET (DOMAIN commits)
          OBVIOUS
      <4> QED
          BY <1>6, <3>1, <3>2, <4>1, <4>2
    <3> QED
        BY <3>3, <3>4
  <2>2. CASE "commit unguarded" \in UserDoes /\ CommitUnguarded
    <3>1. Committed({}) /\ UserUnchanged /\ UNCHANGED <<index, work>>
        BY <2>2 DEF CommitUnguarded
    <3>2. Quiet \/ CommitEnd
        BY <1>6 DEF UserActs
    <3>3. CASE Quiet
        BY <1>6, <2>2, <3>1, <3>3
    <3> QED
        BY <2>1, <3>2, <3>3
  <2>3. CASE Quiet /\ "reset" \in UserDoes
                 /\ \E c \in DOMAIN commits : ResetHard(c)
      BY <1>6, <2>3
  <2> QED
      BY <1>6, <2>1, <2>2, <2>3
      DEF UserActs, UserStep, Edit, AddAll, CommitBegin, Restore
<1> QED
    BY <1>1, <1>2, <1>3, <1>4, <1>5, <1>6, StepsAlone DEF InPeace

\* A store of one commit.
LEMMA FirstCommit ==
    ASSUME NEW commit
    PROVE  DOMAIN <<commit>> = {1} /\ <<commit>>[1] = commit
    OBVIOUS

\* The repository tydence is adopted in.
LEMMA FirstTree ==
    ASSUME Init
    PROVE  /\ DOMAIN commits = {1}
           /\ commits[1].parents = {} /\ ~commits[1].sealed
           /\ TreeOf(1) = index /\ work = index
           /\ index.manifest = None /\ index.tokens = NoTokens
           /\ index.chains = NoChains /\ index.crls = NoCrls
<1> DEFINE files(x) == [content |-> x, manifest |-> None,
                        tokens |-> NoTokens, chains |-> NoChains,
                        crls |-> NoCrls]
           first(x) == [parents |-> {}, tree |-> files(x), sealed |-> FALSE]
<1>1. PICK x \in Content :
          commits = <<first(x)>> /\ index = files(x) /\ work = files(x)
    BY DEF Init
<1>2. /\ first(x).parents = {} /\ ~first(x).sealed
      /\ first(x).tree = files(x)
    OBVIOUS
<1>3. /\ files(x).manifest = None /\ files(x).tokens = NoTokens
      /\ files(x).chains = NoChains /\ files(x).crls = NoCrls
    OBVIOUS
<1> HIDE DEF first, files
<1>4. DOMAIN commits = {1} /\ commits[1] = first(x)
    BY <1>1, FirstCommit
<1> QED
    BY <1>1, <1>2, <1>3, <1>4 DEF TreeOf

\* Nothing but a seal makes a commit claim: where one command runs at a time
\* and nobody bypasses the hook, an ordinary commit carries no artifact,
\* whatever was interrupted, reset or restored before.
THEOREM OrdinaryCommitsDoNotClaim ==
    ASSUME Exclusive, "commit unguarded" \notin UserDoes
    PROVE  Spec => []OnlySealsClaim
<1>1. Init => OnlySealsClaim
  <2> SUFFICES ASSUME Init, NEW c \in DOMAIN commits
               PROVE  ~HasArtifacts(TreeOf(c))
      BY DEF OnlySealsClaim
  <2> QED
      BY FirstTree DEF HasArtifacts
<1>2. Consistent /\ InPeace /\ HookGuards /\ OnlySealsClaim /\ [Next]_vars
          => OnlySealsClaim'
  <2> SUFFICES ASSUME Consistent, InPeace, HookGuards, OnlySealsClaim,
                      [Next]_vars
               PROVE  OnlySealsClaim'
      OBVIOUS
  <2>1. CASE UNCHANGED commits
      BY <2>1 DEF OnlySealsClaim, HasArtifacts, TreeOf
  <2>2. ASSUME NEW p \in Proc, Seal(p)
        PROVE  OnlySealsClaim'
    <3>1. /\ DOMAIN commits' = DOMAIN commits \cup {Len(commits) + 1}
          /\ \A c \in DOMAIN commits : commits'[c] = commits[c]
          /\ commits'[Len(commits) + 1].sealed
        BY <2>2, SealAppends
    <3> QED
        BY <3>1 DEF OnlySealsClaim, HasArtifacts, TreeOf
  <2>3. ASSUME NEW others \in SUBSET (DOMAIN commits), Committed(others),
               ~HasArtifacts(index)
        PROVE  OnlySealsClaim'
    <3>1. /\ DOMAIN commits' = DOMAIN commits \cup {Len(commits) + 1}
          /\ \A c \in DOMAIN commits : commits'[c] = commits[c]
          /\ commits'[Len(commits) + 1].tree = index
        BY <2>3, CommittedAppends
    <3> QED
        BY <2>3, <3>1 DEF OnlySealsClaim, HasArtifacts, TreeOf
  <2> QED
      BY <2>1, <2>2, <2>3, NewCommits DEF ResetHard
<1> QED
    BY <1>1, <1>2, PeaceInitially, PeaceNext, HookInitially, HookNext,
       ConsistentInitially, ConsistentNext, PTL DEF Spec

-----------------------------------------------------------------------------
(***************************************************************************)
(* Manifests bind older manifests, because they are entered after those of *)
(* the commits they bind; so RenewalChain, too, is reachability.           *)
(***************************************************************************)
Bound == [k \in DOMAIN manifests |->
              {g.manifest : g \in manifests[k].groups}]

Entered ==
    /\ Older(Bound)
    /\ index.manifest \in DOMAIN manifests \cup {None}
    /\ work.manifest \in DOMAIN manifests \cup {None}
    /\ \A c \in DOMAIN commits :
           TreeOf(c).manifest \in DOMAIN manifests \cup {None}

LEMMA TableTyping ==
    ASSUME Consistent
    PROVE  DOMAIN manifests = 1..Len(manifests) /\ Len(manifests) \in Nat
    OBVIOUS

LEMMA BoundIsThere ==
    ASSUME Consistent, Entered
    PROVE  /\ DOMAIN Bound = DOMAIN manifests
           /\ \A k \in DOMAIN Bound : Bound[k] \subseteq DOMAIN Bound
<1>1. DOMAIN manifests = 1..Len(manifests) /\ Len(manifests) \in Nat
    BY TableTyping
<1>2. DOMAIN Bound = DOMAIN manifests
    BY DEF Bound
<1>3. \A k \in DOMAIN Bound : Bound[k] \subseteq 1..(k - 1)
    BY DEF Entered, Older
<1> QED
    BY <1>1, <1>2, <1>3

\* The recursive function of RenewalChain is reachability.
LEMMA ChainIsReach ==
    ASSUME Consistent, Entered, NEW m \in DOMAIN manifests
    PROVE  RenewalChain(m) = Reach(Bound, m)
<1> DEFINE Fits(f) == f = [k \in DOMAIN manifests |->
                              {k} \cup UNION {f[g.manifest] :
                                              g \in manifests[k].groups}]
           chain == CHOOSE f : Fits(f)
<1>1. \A f : Fits(f) <=> Collects(f, Bound)
  <2> SUFFICES ASSUME NEW f
               PROVE  Fits(f) <=> Collects(f, Bound)
      OBVIOUS
  <2>1. \A k \in DOMAIN manifests :
            {f[g.manifest] : g \in manifests[k].groups}
                = {f[q] : q \in Bound[k]}
      BY DEF Bound
  <2>2. DOMAIN Bound = DOMAIN manifests
      BY DEF Bound
  <2>3. [k \in DOMAIN manifests |->
            {k} \cup UNION {f[g.manifest] : g \in manifests[k].groups}]
        = [k \in DOMAIN Bound |-> {k} \cup UNION {f[q] : q \in Bound[k]}]
      BY <2>1, <2>2
  <2> QED
      BY <2>3 DEF Collects
<1>2. \E f : Fits(f)
  <2> DEFINE reached == [k \in DOMAIN Bound |-> Reach(Bound, k)]
  <2>1. Collects(reached, Bound)
      BY ReachCollects, BoundIsThere
  <2> HIDE DEF Fits, reached
  <2>2. Fits(reached)
      BY <1>1, <2>1
  <2> QED
      BY <2>2
<1>3. Fits(chain)
  <2> HIDE DEF Fits
  <2> QED
      BY <1>2
<1>4. RenewalChain(m) = chain[m]
    BY DEF RenewalChain
<1> HIDE DEF chain, Fits
<1>5. Collects(chain, Bound)
    BY <1>1, <1>3
<1>6. /\ Len(manifests) \in Nat /\ DOMAIN manifests = 1..Len(manifests)
      /\ DOMAIN Bound = DOMAIN manifests
    BY BoundIsThere, TableTyping
<1>7. Older(Bound)
    BY DEF Entered
<1>8. \A k \in DOMAIN Bound : chain[k] = Reach(Bound, k)
    BY <1>5, <1>6, <1>7, CollectedIsReach
<1> QED
    BY <1>4, <1>6, <1>8

ChainsUnfold == \A m \in DOMAIN manifests : RenewalChain(m) = Reach(Bound, m)

LEMMA ChainUnfolds == Consistent /\ Entered => ChainsUnfold
    BY ChainIsReach DEF ChainsUnfold

LEMMA ChainUnfoldsNext == Consistent' /\ Entered' => ChainsUnfold'
    BY ChainUnfolds, PTL

LEMMA BoundIsThereNext ==
    Consistent' /\ Entered' =>
        (/\ DOMAIN Bound = DOMAIN manifests
         /\ \A k \in DOMAIN Bound : Bound[k] \subseteq DOMAIN Bound)'
<1>1. Consistent /\ Entered =>
          /\ DOMAIN Bound = DOMAIN manifests
          /\ \A k \in DOMAIN Bound : Bound[k] \subseteq DOMAIN Bound
    BY BoundIsThere
<1> QED
    BY <1>1, PTL

\* What a manifest binds never changes.
LEMMA ChainStays ==
    ASSUME Consistent, Entered, Consistent', Entered', Grows,
           NEW m \in DOMAIN manifests
    PROVE  RenewalChain(m)' = RenewalChain(m)
<1>1. RenewalChain(m) = Reach(Bound, m)
    BY ChainIsReach
<1>2. RenewalChain(m)' = Reach(Bound', m)
    BY ChainUnfoldsNext DEF ChainsUnfold, Grows
<1>3. Reach(Bound', m) = Reach(Bound, m)
  <2>1. /\ \A k \in DOMAIN Bound : Bound[k] \subseteq DOMAIN Bound
        /\ m \in DOMAIN Bound
      BY BoundIsThere
  <2>2. /\ DOMAIN Bound \subseteq DOMAIN (Bound')
        /\ \A k \in DOMAIN Bound : Bound'[k] = Bound[k]
      BY DEF Grows, Bound
  <2> QED
      BY <2>1, <2>2, ReachStays
<1> QED
    BY <1>1, <1>2, <1>3

-----------------------------------------------------------------------------
\* The manifests a step can enter, and where.
LEMMA TableSteps ==
    ASSUME [Next]_vars
    PROVE  \/ UNCHANGED manifests
           \/ \E p \in Proc : FixManifest(p) /\ StampFrame
<1>1. ASSUME NEW p \in Proc, Begin(p) \/ Proceed(p) \/ Fail(p)
      PROVE  UNCHANGED manifests \/ (FixManifest(p) /\ StampFrame)
    BY <1>1
    DEF Begin, Proceed, Fail, StampBegin, StampStep, RefreshList,
        RefreshFetch, RefreshWrite, TsaReply, SiteYields, SiteTolerated,
        AcquireDone, RecordChain, RecordCrl, Seal, Refuse, Stop, StampFails,
        SyncStep, SyncOpen, SyncArtifacts, SyncRecords, SyncStale, SyncIndex,
        StageNothing, StageOpen, StageIndex, DropOpen, DropStep, DropIndex,
        DropManifest, DropTokens, CheckoutFails
<1>2. CASE UserStep
    BY <1>2
    DEF UserStep, CommitEnd, Edit, AddAll, CommitBegin, CommitUnguarded,
        ResetHard, Restore, UserUnchanged
<1>3. CASE World
    BY <1>3 DEF World, TimePasses, Tick, Publish, Rotate
<1>4. CASE UNCHANGED vars
    BY <1>4 DEF vars
<1> QED
    BY <1>1, <1>2, <1>3, <1>4 DEF Next

LEMMA FixEnters ==
    ASSUME Consistent, NEW p \in Proc, FixManifest(p)
    PROVE  /\ DOMAIN manifests \subseteq DOMAIN manifests'
           /\ \A m \in DOMAIN manifests : manifests'[m] = manifests[m]
           /\ \A m \in DOMAIN manifests' \ DOMAIN manifests :
                  m = Len(manifests) + 1 /\ m = fixed'[p]
           /\ fixed'[p] \in DOMAIN manifests'
           /\ manifests'[fixed'[p]].groups = BoundGroups(StampParents(p))
           /\ \A q \in Proc : q # p => fixed'[q] = fixed[q]
<1> DEFINE manifest == [parents |-> StampParents(p),
                        groups  |-> BoundGroups(StampParents(p)),
                        entries |-> SnapshotOf(ContentTree(p))]
           known == \E k \in DOMAIN manifests : manifests[k] = manifest
           table == IF known THEN manifests ELSE Append(manifests, manifest)
           place == CHOOSE k \in DOMAIN table : table[k] = manifest
<1>1. /\ Step(p, "refresh", "acquire")
      /\ manifests' = table
      /\ fixed' = [fixed EXCEPT ![p] = place]
    BY DEF FixManifest
<1>2. manifest \in Manifest
    BY <1>1, ManifestTyping DEF Step, StampSteps
<1>3. manifest.groups = BoundGroups(StampParents(p))
    OBVIOUS
<1> HIDE DEF manifest
<1>4. CASE known
  <2>1. manifests' = manifests
      BY <1>1, <1>4
  <2>2. place \in DOMAIN manifests' /\ manifests'[place] = manifest
      BY <1>1, <1>4
  <2> QED
      BY <1>1, <1>3, <2>1, <2>2
<1>5. CASE ~known
  <2>1. table = Append(manifests, manifest)
      BY <1>5
  <2>2. /\ DOMAIN table = DOMAIN manifests \cup {Len(table)}
        /\ \A m \in DOMAIN manifests : table[m] = manifests[m]
        /\ table[Len(table)] = manifest
      BY <1>2, <2>1, StoreGrows
  <2>3. Len(table) = Len(manifests) + 1
      BY <1>2, <2>1
  <2> HIDE DEF table
  <2>4. place \in DOMAIN table /\ table[place] = manifest
      BY <2>2
  <2>5. place = Len(table)
      BY <1>5, <2>2, <2>4
  <2> QED
      BY <1>1, <1>3, <2>2, <2>3, <2>5
<1> QED
    BY <1>4, <1>5

LEMMA StoreAndTableGrow ==
    ASSUME Consistent, [Next]_vars
    PROVE  Grows
<1>1. /\ DOMAIN commits \subseteq DOMAIN commits'
      /\ \A c \in DOMAIN commits : commits'[c] = commits[c]
  <2>1. ASSUME NEW p \in Proc, Seal(p)
        PROVE  /\ DOMAIN commits \subseteq DOMAIN commits'
               /\ \A c \in DOMAIN commits : commits'[c] = commits[c]
      BY <2>1, SealAppends
  <2>2. ASSUME NEW others \in SUBSET (DOMAIN commits), Committed(others)
        PROVE  /\ DOMAIN commits \subseteq DOMAIN commits'
               /\ \A c \in DOMAIN commits : commits'[c] = commits[c]
      BY <2>2, CommittedAppends
  <2> QED
      BY <2>1, <2>2, StoreSteps DEF ResetHard
<1>2. /\ DOMAIN manifests \subseteq DOMAIN manifests'
      /\ \A m \in DOMAIN manifests : manifests'[m] = manifests[m]
    BY TableSteps, FixEnters
<1> QED
    BY <1>1, <1>2 DEF Grows

-----------------------------------------------------------------------------
\* The flow writes LTV records, never an artifact.
LEMMA FlowLeavesArtifacts ==
    ASSUME Consistent, NEW p \in Proc,
           StampBegins(p) \/ StampProceeds(p) \/ StampDies(p)
    PROVE  /\ index' = index
           /\ work'.content = work.content
           /\ work'.manifest = work.manifest
           /\ work'.tokens = work.tokens
<1>1. work \in Files
    OBVIOUS
<1>2. CASE StampBegins(p)
    BY <1>2 DEF StampBegins, StampBegin
<1>3. CASE StampDies(p)
    BY <1>3 DEF StampDies, StampFails, Stop
<1>4. ASSUME NEW i \in Issuer, RefreshWrite(p, i)
      PROVE  /\ index' = index
             /\ work'.content = work.content
             /\ work'.manifest = work.manifest
             /\ work'.tokens = work.tokens
    BY <1>1, <1>4 DEF RefreshWrite, Files
<1>5. CASE RecordChain(p) \/ RecordCrl(p)
    BY <1>1, <1>5 DEF RecordChain, RecordCrl, Files
<1>6. CASE /\ StampStep(p)
           /\ \A i \in Issuer : ~RefreshWrite(p, i)
           /\ ~RecordChain(p) /\ ~RecordCrl(p)
    BY <1>6
    DEF StampStep, RefreshList, RefreshFetch, FixManifest, TsaReply,
        SiteYields, SiteTolerated, AcquireDone, Seal, Refuse, Stop
<1> QED
    BY <1>2, <1>3, <1>4, <1>5, <1>6 DEF StampProceeds

\* What git leaves of a file, one at a time.
LEMMA CheckedOutFile ==
    ASSUME NEW ofTree, NEW tracked, NEW current
    PROVE  FileAfter(ofTree, tracked, current)
               = IF ofTree # None THEN ofTree
                 ELSE IF tracked # None THEN None ELSE current
    BY DEF FileAfter, LeaveStale, Lay

\* Where the manifest of the index and of the working tree comes from.
Sources ==
    {None, index.manifest, work.manifest}
        \cup {TreeOf(c).manifest : c \in DOMAIN commits}

LEMMA ManifestsComeFrom ==
    ASSUME Exclusive, Consistent, InPeace, [Next]_vars
    PROVE  index'.manifest \in Sources /\ work'.manifest \in Sources
<1>1. ASSUME NEW p \in Proc,
             StampBegins(p) \/ StampProceeds(p) \/ StampDies(p)
      PROVE  index'.manifest \in Sources /\ work'.manifest \in Sources
    BY <1>1, FlowLeavesArtifacts DEF Sources
<1>2. ASSUME NEW p \in Proc, DropBegins(p) \/ CheckoutDies(p)
      PROVE  index'.manifest \in Sources /\ work'.manifest \in Sources
    BY <1>2 DEF DropBegins, DropOpen, CheckoutDies, CheckoutFails, Sources
<1>3. ASSUME NEW p \in Proc, CheckoutProceeds(p)
      PROVE  index'.manifest \in Sources /\ work'.manifest \in Sources
  <2>1. index \in Files /\ work \in Files
      OBVIOUS
  <2>2. pc[p] \in SyncSteps => /\ seen[p] \in DOMAIN commits
                               /\ idx[p] = index
      BY DEF InPeace, Undisturbed
  <2>3. CASE SyncOpen(p) \/ SyncRecords(p) \/ StageNothing(p) \/ StageOpen(p)
      BY <2>1, <2>3
      DEF SyncOpen, SyncRecords, StageNothing, StageOpen, Files, Sources
  <2>4. CASE SyncArtifacts(p)
    <3>1. seen[p] \in DOMAIN commits
        BY <2>2, <2>4 DEF SyncArtifacts, Step, SyncSteps
    <3> QED
        BY <2>1, <2>4, <3>1 DEF SyncArtifacts, Sealed, Lay, Files, Sources
  <2>5. CASE SyncStale(p)
      BY <2>1, <2>5 DEF SyncStale, LeaveStale, Files, Sources
  <2>6. CASE SyncIndex(p)
    <3>1. seen[p] \in DOMAIN commits /\ idx[p] = index
        BY <2>2, <2>6 DEF SyncIndex, Step, SyncSteps
    <3>2. SyncedIndex(p).manifest = TreeOf(seen[p]).manifest
        BY <2>1, <3>1 DEF SyncedIndex, Sealed, Files
    <3> QED
        BY <2>6, <3>1, <3>2 DEF SyncIndex, Sources
  <2>7. CASE StageIndex(p)
    <3>1. index' = StagedIndex /\ work' = work
        BY <2>7 DEF StageIndex, Step, InPeace, Undisturbed
    <3>2. StagedIndex.manifest = index.manifest
        BY <2>1 DEF StagedIndex, Files
    <3> QED
        BY <3>1, <3>2 DEF Sources
  <2>8. CASE DropIndex(p)
    <3>1. index' = WithoutArtifacts(index) /\ work' = work
        BY <2>8 DEF DropIndex, Step, InPeace, Undisturbed
    <3>2. WithoutArtifacts(index).manifest = None
        BY <2>1 DEF WithoutArtifacts, Files
    <3> QED
        BY <3>1, <3>2 DEF Sources
  <2>9. CASE DropManifest(p) \/ DropTokens(p)
      BY <2>1, <2>9 DEF DropManifest, DropTokens, Files, Sources
  <2> QED
      BY <1>3, <2>3, <2>4, <2>5, <2>6, <2>7, <2>8, <2>9
      DEF CheckoutProceeds, SyncStep, DropStep
<1>4. CASE UserActs
  <2>1. index \in Files /\ work \in Files
      OBVIOUS
  <2>2. ASSUME NEW c \in DOMAIN commits, ResetHard(c)
        PROVE  index'.manifest \in Sources /\ work'.manifest \in Sources
      BY <2>2, CheckedOutFile DEF ResetHard, CheckOut, Sources
  <2>3. CASE Restore
    <3>1. TreeOf(head) \in Files
        BY StoreTyping
    <3>2. index'.manifest = TreeOf(head).manifest
        BY <2>3, <3>1 DEF Restore, Files
    <3>3. work'.manifest = FileAfter(TreeOf(head).manifest, index.manifest,
                                     work.manifest)
        BY <2>3 DEF Restore, CheckOut
    <3> QED
        BY <3>2, <3>3, CheckedOutFile DEF Sources
  <2>4. ASSUME NEW c \in Content, Edit(c)
        PROVE  index'.manifest \in Sources /\ work'.manifest \in Sources
      BY <2>1, <2>4 DEF Edit, Files, Sources
  <2>5. CASE AddAll \/ CommitBegin \/ CommitEnd \/ CommitUnguarded
      BY <2>5 DEF AddAll, CommitBegin, CommitEnd, CommitUnguarded, Sources
  <2> QED
      BY <1>4, <2>2, <2>3, <2>4, <2>5 DEF UserActs, UserStep
<1>5. CASE World \/ UNCHANGED vars
    BY <1>5 DEF World, TimePasses, Tick, Publish, Rotate, vars, Sources
<1> QED
    BY <1>1, <1>2, <1>3, <1>4, <1>5, StepsAlone DEF InPeace

LEMMA EnteredNext ==
    ASSUME Exclusive, Consistent, Evidence, InPeace, Entered, [Next]_vars
    PROVE  Entered'
<1>1. Grows
    BY StoreAndTableGrow
<1>2. Sources \subseteq DOMAIN manifests \cup {None}
    BY DEF Sources, Entered
<1>3. /\ index'.manifest \in DOMAIN manifests' \cup {None}
      /\ work'.manifest \in DOMAIN manifests' \cup {None}
    BY <1>1, <1>2, ManifestsComeFrom DEF Grows
<1>4. ASSUME NEW c \in DOMAIN commits'
      PROVE  TreeOf(c)'.manifest \in DOMAIN manifests' \cup {None}
  <2>1. CASE c \in DOMAIN commits
      BY <1>1, <2>1 DEF Grows, Entered, TreeOf
  <2>2. ASSUME NEW p \in Proc, Seal(p), c \notin DOMAIN commits
        PROVE  TreeOf(c)'.manifest \in DOMAIN manifests'
    <3>1. /\ DOMAIN commits' = DOMAIN commits \cup {Len(commits) + 1}
          /\ commits'[Len(commits) + 1].tree = StampTree(p)
          /\ base[p] \in DOMAIN commits
        BY <2>2, SealAppends
    <3>2. fixed[p] \in DOMAIN manifests
        BY <2>2 DEF Seal, Step, Evidence, Promise, Fixed
    <3>3. StampTree(p).manifest = fixed[p]
        BY <3>1, ContentTreeTyping DEF StampTree, Files
    <3>4. TreeOf(c)' = StampTree(p)
        BY <1>4, <2>2, <3>1 DEF TreeOf
    <3> QED
        BY <1>1, <3>2, <3>3, <3>4 DEF Grows
  <2>3. ASSUME NEW others \in SUBSET (DOMAIN commits), Committed(others)
        PROVE  TreeOf(c)'.manifest \in DOMAIN manifests' \cup {None}
    <3>1. /\ DOMAIN commits' = DOMAIN commits \cup {Len(commits) + 1}
          /\ commits'[Len(commits) + 1].tree = index
        BY <2>3, CommittedAppends
    <3> QED
        BY <1>1, <2>1, <3>1 DEF Grows, Entered, TreeOf
  <2> QED
      BY <2>1, <2>2, <2>3, StoreSteps DEF ResetHard
<1>5. Older(Bound)'
  <2>1. \A k \in DOMAIN manifests : Bound[k] \subseteq 1..(k - 1)
      BY DEF Entered, Older, Bound
  <2>2. DOMAIN manifests = 1..Len(manifests) /\ Len(manifests) \in Nat
      BY TableTyping
  <2>3. ASSUME NEW k \in DOMAIN manifests'
        PROVE  {g.manifest : g \in manifests'[k].groups} \subseteq 1..(k - 1)
    <3>1. CASE k \in DOMAIN manifests
        BY <1>1, <2>1, <3>1 DEF Grows, Bound
    <3>2. CASE k \notin DOMAIN manifests
      <4>1. PICK p \in Proc : FixManifest(p)
          BY <2>3, <3>2, TableSteps
      <4>2. k = Len(manifests) + 1 /\ k = fixed'[p]
          BY <2>3, <3>2, <4>1, FixEnters
      <4>3. manifests'[k].groups = BoundGroups(StampParents(p))
          BY <4>1, <4>2, FixEnters
      <4>4. ASSUME NEW g \in BoundGroups(StampParents(p))
            PROVE  g.manifest \in DOMAIN manifests
          BY <4>4
          DEF BoundGroups, BoundStamp, NearestClaims, Walked, Claims, Entered
      <4> QED
          BY <2>2, <4>2, <4>3, <4>4
    <3> QED
        BY <3>1, <3>2
  <2> QED
      BY <2>3 DEF Older, Bound
<1> QED
    BY <1>3, <1>4, <1>5 DEF Entered

LEMMA EnteredInitially == Init => Entered
<1> SUFFICES ASSUME Init
             PROVE  Entered
    OBVIOUS
<1>1. /\ index.manifest = None /\ work.manifest = None
      /\ \A c \in DOMAIN commits : TreeOf(c).manifest = None
    BY FirstTree
<1>2. DOMAIN manifests = {}
    BY DEF Init
<1> QED
    BY <1>1, <1>2 DEF Entered, Older, Bound

\* What the proofs about a repository used by one command at a time rest on.
Basis ==
    Consistent /\ Lineage /\ Evidence /\ InPeace /\ HookGuards /\ Entered

LEMMA BasisAlways ==
    ASSUME Exclusive
    PROVE  Spec => []Basis
<1>1. Init => InPeace /\ HookGuards /\ Entered
    BY PeaceInitially, HookInitially, EnteredInitially
<1>2. /\ Consistent /\ Evidence /\ InPeace /\ HookGuards /\ Entered
      /\ [Next]_vars
      => InPeace' /\ HookGuards' /\ Entered'
    BY PeaceNext, HookNext, EnteredNext
<1> QED
    BY <1>1, <1>2, EvidenceAlways, LineageAlways, PTL DEF Spec, Basis

USE DEF Basis

-----------------------------------------------------------------------------
\* The lines of history behind a set of commits: the walk, the claims it
\* finds, and everything that claims behind them.
LEMMA WalkedSteps ==
    ASSUME Basis, NEW starts \in SUBSET (DOMAIN commits)
    PROVE  /\ starts \subseteq Walked(starts)
           /\ Walked(starts) \subseteq DOMAIN commits
           /\ \A c \in Walked(starts) :
                  ~Claims(c) => commits[c].parents \subseteq Walked(starts)
<1>1. \A c \in DOMAIN commits : commits[c].parents \subseteq DOMAIN commits
    BY ParentsAreThere
<1> QED
    BY <1>1 DEF Walked, ClosedUnderWalk

LEMMA ClaimsLieBehindTheNearest ==
    ASSUME Basis, NEW starts \in SUBSET (DOMAIN commits),
           NEW q \in starts, NEW d \in History(q), Claims(d)
    PROVE  \E e \in NearestClaims(starts) : d \in History(e)
<1> DEFINE open   == {c \in Walked(starts) : ~Claims(c)}
           behind == UNION {History(e) : e \in NearestClaims(starts)}
<1>1. HistoriesUnfold
    BY HistoryUnfolds
<1>2. NearestClaims(starts) \subseteq DOMAIN commits
    BY WalkedSteps DEF NearestClaims
<1>3. behind \subseteq DOMAIN commits
    BY <1>1, <1>2 DEF HistoriesUnfold
<1>4. Walked(starts) \subseteq open \cup behind
    BY <1>1, <1>2 DEF NearestClaims, HistoriesUnfold
<1>5. ASSUME NEW c \in open \cup behind
      PROVE  Parents[c] \subseteq open \cup behind
  <2>1. CASE c \in open
    <3>1. Parents[c] \subseteq Walked(starts)
        BY <2>1, WalkedSteps, ParentsAreThere
    <3> QED
        BY <1>4, <3>1
  <2>2. CASE c \in behind
    <3>1. PICK e \in NearestClaims(starts) : c \in History(e)
        BY <2>2
    <3>2. History(e) = Reach(Parents, e)
        BY <1>1, <1>2 DEF HistoriesUnfold
    <3>3. Parents[c] \subseteq History(e)
      <4>1. Closed(Parents, Reach(Parents, e))
          BY ReachClosed, ParentsAreThere
      <4>2. Closed(Parents, History(e))
          BY <3>2, <4>1
      <4> QED
          BY <3>1, <4>2 DEF Closed
    <3> QED
        BY <3>3
  <2> QED
      BY <1>5, <2>1, <2>2
<1>6. History(q) = Reach(Parents, q)
    BY <1>1 DEF HistoriesUnfold
<1>7. open \cup behind \in SUBSET (DOMAIN Parents)
    BY <1>3, WalkedSteps, ParentsAreThere
<1>8. q \in open \cup behind
    BY <1>4, WalkedSteps
<1>9. Reach(Parents, q) \subseteq open \cup behind
  <2>1. Closed(Parents, open \cup behind)
      BY <1>5 DEF Closed
  <2> HIDE DEF open, behind
  <2> QED
      BY <1>7, <1>8, <2>1, ReachWithin
<1> QED
    BY <1>6, <1>9

\* Every claim found is bound, by itself or by an older one with its manifest.
LEMMA EveryClaimIsBound ==
    ASSUME Basis, NEW starts, NEW e \in NearestClaims(starts)
    PROVE  \E g \in BoundGroups(starts) : g.manifest = TreeOf(e).manifest
<1> DEFINE same == {c \in NearestClaims(starts) :
                        TreeOf(c).manifest = TreeOf(e).manifest}
<1>1. same \in SUBSET Nat
    BY StoreTyping DEF NearestClaims, Walked
<1>2. same # {}
    OBVIOUS
<1>3. PICK c \in same : \A d \in same : c <= d
  <2> HIDE DEF same
  <2> QED
      BY <1>1, <1>2, LeastNumber
<1>4. BoundStamp(c) \in BoundGroups(starts)
    BY <1>3 DEF BoundGroups
<1>5. BoundStamp(c).manifest = TreeOf(e).manifest
    BY <1>3 DEF BoundStamp
<1> QED
    BY <1>4, <1>5

-----------------------------------------------------------------------------
(***************************************************************************)
(* The renewal chain.  RenewalChainCoversHistory is about sealed commits;  *)
(* what a seal keeps is said of every commit that claims, by inheritance   *)
(* too, and of the manifest an invocation has fixed.  Where the user may   *)
(* bypass the hook, the index may become a commit at any time, so its      *)
(* manifest must cover the history of the branch as well (Staged).         *)
(***************************************************************************)
Covers(m, c) ==
    \A d \in History(c) :
        Claims(d) => TreeOf(d).manifest \in RenewalChain(m)

Chained ==
    /\ \A c \in DOMAIN commits : Claims(c) => Covers(TreeOf(c).manifest, c)
    /\ \A p \in Proc : pc[p] \in Fixed =>
           \A q \in StampParents(p) : Covers(fixed[p], q)

Dropping == {"dropIndex", "dropManifest", "dropTokens"}

Staged ==
    /\ (\A p \in Proc : pc[p] \notin {"sync"} \cup SyncSteps \cup Dropping) =>
           /\ work.manifest = index.manifest
           /\ index.manifest # None => Covers(index.manifest, head)
    /\ \A p \in Proc :
           /\ pc[p] \in SyncSteps \ {"syncArtifacts"} =>
                  work.manifest = TreeOf(head).manifest
           /\ pc[p] = "dropTokens" => work.manifest = None

LEMMA CoversStays ==
    ASSUME Basis, Basis', Grows, NEW m \in DOMAIN manifests,
           NEW c \in DOMAIN commits, Covers(m, c)
    PROVE  Covers(m, c)'
<1>1. History(c)' = History(c)
    BY HistoryStays DEF Grows, CommitsStay
<1>2. RenewalChain(m)' = RenewalChain(m)
    BY ChainStays
<1>3. History(c) \subseteq DOMAIN commits
    BY HistoryUnfolds DEF HistoriesUnfold
<1>4. \A d \in History(c) : TreeOf(d)' = TreeOf(d)
    BY <1>3 DEF Grows, TreeOf
<1> QED
    BY <1>1, <1>2, <1>4 DEF Covers, Claims

LEMMA ChainsNest ==
    ASSUME Basis, NEW m \in DOMAIN manifests
    PROVE  /\ m \in RenewalChain(m)
           /\ \A g \in manifests[m].groups :
                  RenewalChain(g.manifest) \subseteq RenewalChain(m)
<1>1. /\ DOMAIN Bound = DOMAIN manifests
      /\ \A k \in DOMAIN Bound : Bound[k] \subseteq DOMAIN Bound
    BY BoundIsThere
<1>2. Reach(Bound, m) = {m} \cup UNION {Reach(Bound, q) : q \in Bound[m]}
    BY <1>1, ReachUnfolds
<1>3. \A g \in manifests[m].groups : g.manifest \in Bound[m]
    BY DEF Bound
<1>4. \A k \in DOMAIN manifests : RenewalChain(k) = Reach(Bound, k)
    BY ChainIsReach
<1> QED
    BY <1>1, <1>2, <1>3, <1>4

LEMMA ChainsNestNext ==
    Basis' => (\A m \in DOMAIN manifests :
                   /\ m \in RenewalChain(m)
                   /\ \A g \in manifests[m].groups :
                          RenewalChain(g.manifest) \subseteq RenewalChain(m))'
<1>1. Basis => \A m \in DOMAIN manifests :
                   /\ m \in RenewalChain(m)
                   /\ \A g \in manifests[m].groups :
                          RenewalChain(g.manifest) \subseteq RenewalChain(m)
    BY ChainsNest
<1> QED
    BY <1>1, PTL

\* The manifest just fixed covers the histories of the parents it binds.
LEMMA FixedCovers ==
    ASSUME Basis, Basis', Chained, NEW p \in Proc, FixManifest(p), Grows
    PROVE  \A q \in StampParents(p) : Covers(fixed[p], q)'
<1>1. StampParents(p) \in SUBSET (DOMAIN commits)
  <2>1. base[p] \in DOMAIN commits
      BY DEF FixManifest, Step, StampSteps
  <2> QED
      BY <2>1, ParentsAreThere
<1>2. UNCHANGED commits
    BY DEF FixManifest
<1> SUFFICES ASSUME NEW q \in StampParents(p),
                    NEW d \in History(q)', Claims(d)'
             PROVE  TreeOf(d)'.manifest \in RenewalChain(fixed[p])'
    BY DEF Covers
<1>3. d \in History(q) /\ Claims(d) /\ TreeOf(d)' = TreeOf(d)
    BY <1>1, <1>2, HistoryStays DEF Grows, CommitsStay, Claims, TreeOf
<1>4. PICK e \in NearestClaims(StampParents(p)) : d \in History(e)
    BY <1>1, <1>3, ClaimsLieBehindTheNearest
<1>5. e \in DOMAIN commits /\ Claims(e)
    BY DEF NearestClaims, Walked
<1>6. TreeOf(d).manifest \in RenewalChain(TreeOf(e).manifest)
    BY <1>3, <1>4, <1>5 DEF Chained, Covers
<1>7. TreeOf(e).manifest \in DOMAIN manifests
    BY <1>5 DEF Entered, Claims
<1>8. PICK g \in BoundGroups(StampParents(p)) :
          g.manifest = TreeOf(e).manifest
    BY EveryClaimIsBound
<1>9. RenewalChain(g.manifest)' \subseteq RenewalChain(fixed[p])'
    BY <1>8, ChainsNestNext, FixEnters
<1>10. RenewalChain(g.manifest)' = RenewalChain(g.manifest)
    BY <1>7, <1>8, ChainStays
<1>11. TreeOf(d).manifest \in RenewalChain(g.manifest)'
    BY <1>6, <1>8, <1>10
<1> QED
    BY <1>3, <1>9, <1>11

\* A commit that carries a manifest which covers its parents' histories.
LEMMA NewCovers ==
    ASSUME Basis, Basis', Grows, NEW c \in DOMAIN commits',
           NEW m \in DOMAIN manifests, TreeOf(c)'.manifest = m,
           commits'[c].parents \subseteq DOMAIN commits,
           \A q \in commits'[c].parents : Covers(m, q)
    PROVE  Covers(m, c)'
<1>1. \A q \in commits'[c].parents : Covers(m, q)'
    BY CoversStays
<1>2. History(c)' = {c} \cup UNION {History(q)' : q \in commits'[c].parents}
  <2>1. HistoriesUnfold'
      BY HistoryUnfoldsNext
  <2>2. \A d \in DOMAIN commits' :
            History(d)' = {d} \cup UNION {History(q)' :
                                          q \in commits'[d].parents}
      BY <2>1 DEF HistoriesUnfold
  <2> QED
      BY <2>2
<1>3. m \in RenewalChain(m)'
    BY ChainsNestNext DEF Grows
<1> SUFFICES ASSUME NEW d \in History(c)', Claims(d)'
             PROVE  TreeOf(d)'.manifest \in RenewalChain(m)'
    BY DEF Covers
<1>4. CASE d = c
    BY <1>3, <1>4
<1>5. CASE \E q \in commits'[c].parents : d \in History(q)'
    BY <1>1, <1>5 DEF Covers
<1> QED
    BY <1>2, <1>4, <1>5

\* A step of a convergence, or of a drop.
LEMMA CheckoutMoves ==
    ASSUME NEW p \in Proc, SyncStep(p) \/ DropStep(p)
    PROVE  /\ UNCHANGED <<commits, manifests, head>>
           /\ \/ \E from \in Converging, to \in Converging \cup {"idle"} :
                      Step(p, from, to)
              \/ \E from \in Dropping, to \in Dropping \cup {"idle"} :
                      Step(p, from, to)
<1>1. CASE SyncOpen(p) \/ SyncArtifacts(p) \/ SyncRecords(p) \/ SyncStale(p)
    BY <1>1 DEF SyncOpen, SyncArtifacts, SyncRecords, SyncStale, Converging,
                SyncSteps
<1>2. CASE SyncIndex(p) \/ StageNothing(p) \/ StageOpen(p) \/ StageIndex(p)
    BY <1>2 DEF SyncIndex, StageNothing, StageOpen, StageIndex, Converging,
                SyncSteps
<1>3. CASE DropStep(p)
    BY <1>3 DEF DropStep, DropIndex, DropManifest, DropTokens, Dropping
<1> QED
    BY <1>1, <1>2, <1>3 DEF SyncStep

\* An invocation that has a manifest fixed it just now or had it before.
LEMMA FixedJobs ==
    ASSUME Consistent, [Next]_vars, NEW p \in Proc, pc'[p] \in Fixed
    PROVE  \/ FixManifest(p)
           \/ /\ pc[p] \in Fixed
              /\ UNCHANGED <<fixed[p], base[p], amend[p]>>
<1>1. /\ pc \in [Proc -> Steps] /\ fixed \in [Proc -> Nat]
      /\ base \in [Proc -> Nat] /\ amend \in [Proc -> BOOLEAN]
    BY DEF Steps
<1>2. ASSUME NEW q \in Proc, NEW from, NEW to, Step(q, from, to),
             UNCHANGED <<fixed, base, amend>>, to \in Fixed => from \in Fixed
      PROVE  pc[p] \in Fixed /\ UNCHANGED <<fixed[p], base[p], amend[p]>>
  <2>1. /\ pc[q] = from /\ pc'[q] = to
        /\ q # p => pc'[p] = pc[p]
      BY <1>2, StepSetsLabel
  <2> HIDE DEF Consistent
  <2> QED
      BY <1>2, <2>1
<1> HIDE DEF Consistent
<1>3. ASSUME NEW q \in Proc, pc' = [pc EXCEPT ![q] = "idle"],
             ResetJob(q) \/ UNCHANGED <<fixed, base, amend>>
      PROVE  pc[p] \in Fixed /\ UNCHANGED <<fixed[p], base[p], amend[p]>>
  <2>1. q # p /\ pc'[p] = pc[p]
      BY <1>1, <1>3 DEF Fixed
  <2> QED
      BY <1>1, <1>3, <2>1 DEF ResetJob
<1>4. ASSUME NEW q \in Proc, Begin(q)
      PROVE  pc[p] \in Fixed /\ UNCHANGED <<fixed[p], base[p], amend[p]>>
  <2>1. ASSUME NEW amending, StampBegin(q, amending)
        PROVE  pc[p] \in Fixed /\ UNCHANGED <<fixed[p], base[p], amend[p]>>
    <3>1. /\ Step(q, "idle", "list") /\ fixed' = fixed
          /\ base' = [base EXCEPT ![q] = head]
          /\ amend' = [amend EXCEPT ![q] = amending]
        BY <2>1 DEF StampBegin
    <3>2. q # p /\ pc'[p] = pc[p]
        BY <3>1, StepSetsLabel DEF Fixed
    <3> QED
        BY <1>1, <3>1, <3>2
  <2>2. CASE DropOpen(q) /\ UNCHANGED stampingVars
    <3>1. \E to \in {"dropIndex", "dropManifest"} : Step(q, "idle", to)
        BY <2>2 DEF DropOpen
    <3>2. UNCHANGED <<fixed, base, amend>>
        BY <2>2 DEF stampingVars, jobVars
    <3> QED
        BY <1>2, <3>1, <3>2 DEF Fixed
  <2> QED
      BY <1>4, <2>1, <2>2 DEF Begin
<1>5. ASSUME NEW q \in Proc, StampStep(q)
      PROVE  \/ FixManifest(p)
             \/ /\ pc[p] \in Fixed
                /\ UNCHANGED <<fixed[p], base[p], amend[p]>>
  <2>1. CASE FixManifest(q) /\ q # p
    <3>1. Step(q, "refresh", "acquire") /\ UNCHANGED <<base, amend>>
        BY <2>1 DEF FixManifest
    <3>2. pc'[p] = pc[p]
        BY <2>1, <3>1, StepSetsLabel
    <3> QED
        BY <2>1, <3>1, <3>2, FixEnters
  <2>2. CASE Seal(q)
    <3>1. Step(q, "record", "sync") /\ ResetJob(q)
        BY <2>2 DEF Seal
    <3>2. q # p /\ pc'[p] = pc[p]
        BY <3>1, StepSetsLabel DEF Fixed
    <3> QED
        BY <1>1, <3>1, <3>2 DEF ResetJob
  <2>3. CASE Refuse(q)
      BY <1>3, <2>3 DEF Refuse, Stop
  <2>4. CASE RefreshList(q) \/ \E i \in Issuer : RefreshFetch(q, i)
                                             \/ RefreshWrite(q, i)
    <3>1. UNCHANGED <<fixed, base, amend>>
        BY <2>4 DEF RefreshList, RefreshFetch, RefreshWrite, stampingVars,
                    jobVars
    <3>2. \E from \in StampSteps, to \in StampSteps \ Fixed : Step(q, from, to)
        BY <2>4 DEF RefreshList, RefreshFetch, RefreshWrite, StampSteps, Fixed
    <3> QED
        BY <1>2, <3>1, <3>2
  <2>5. CASE TsaReply(q) \/ SiteYields(q) \/ AcquireDone(q)
    <3>1. UNCHANGED <<fixed, base, amend>>
        BY <2>5 DEF TsaReply, SiteYields, AcquireDone, stampingVars, jobVars
    <3>2. \E from \in Fixed, to \in Fixed : Step(q, from, to)
        BY <2>5 DEF TsaReply, SiteYields, AcquireDone, Fixed
    <3> QED
        BY <1>2, <3>1, <3>2
  <2>6. CASE SiteTolerated(q)
    <3>1. UNCHANGED <<fixed, base, amend>>
        BY <2>6 DEF SiteTolerated
    <3>2. Step(q, pc[q], "acquire") /\ pc[q] \in Fixed
        BY <2>6 DEF SiteTolerated, Step, Fixed
    <3> QED
        BY <1>2, <3>1, <3>2
  <2>7. CASE RecordChain(q) \/ RecordCrl(q)
    <3>1. UNCHANGED <<fixed, base, amend>>
        BY <2>7 DEF RecordChain, RecordCrl, stampingVars, jobVars
    <3>2. \E from \in Fixed, to \in Fixed : Step(q, from, to)
        BY <2>7 DEF RecordChain, RecordCrl, Fixed
    <3> QED
        BY <1>2, <3>1, <3>2
  <2> QED
      BY <1>5, <2>1, <2>2, <2>3, <2>4, <2>5, <2>6, <2>7 DEF StampStep
<1>6. ASSUME NEW q \in Proc, (SyncStep(q) \/ DropStep(q)) /\ UNCHANGED stampingVars
      PROVE  pc[p] \in Fixed /\ UNCHANGED <<fixed[p], base[p], amend[p]>>
  <2>1. UNCHANGED <<fixed, base, amend>>
      BY <1>6 DEF stampingVars, jobVars
  <2>2. PICK from, to : Step(q, from, to) /\ to \notin Fixed
      BY <1>6, CheckoutMoves DEF Converging, Dropping, SyncSteps, Fixed
  <2> QED
      BY <1>2, <2>1, <2>2
<1>7. ASSUME NEW q \in Proc, Fail(q)
      PROVE  pc[p] \in Fixed /\ UNCHANGED <<fixed[p], base[p], amend[p]>>
  <2>1. /\ pc' = [pc EXCEPT ![q] = "idle"]
        /\ ResetJob(q) \/ UNCHANGED <<fixed, base, amend>>
      BY <1>7 DEF Fail, StampFails, Stop, CheckoutFails, stampingVars, jobVars
  <2> QED
      BY <1>3, <2>1
<1>8. CASE UserStep \/ World \/ UNCHANGED vars
    BY <1>8
    DEF UserStep, CommitEnd, Edit, AddAll, CommitBegin, CommitUnguarded,
        ResetHard, Restore, UserUnchanged, World, TimePasses, Tick, Publish,
        Rotate, vars, stampingVars, jobVars
<1> QED
    BY <1>4, <1>5, <1>6, <1>7, <1>8 DEF Next, Proceed

LEMMA ChainedNext ==
    ASSUME Exclusive, Basis, Basis', Chained, [Next]_vars,
           "commit unguarded" \in UserDoes => Staged
    PROVE  Chained'
<1>1. Grows
    BY StoreAndTableGrow
<1>2. ASSUME NEW c \in DOMAIN commits, Claims(c)'
      PROVE  Covers(TreeOf(c).manifest, c)'
  <2>1. TreeOf(c)' = TreeOf(c) /\ Claims(c)
      BY <1>1, <1>2 DEF Grows, TreeOf, Claims
  <2>2. TreeOf(c).manifest \in DOMAIN manifests
      BY <2>1 DEF Entered, Claims
  <2>3. Covers(TreeOf(c).manifest, c)
      BY <2>1 DEF Chained
  <2> DEFINE m == TreeOf(c).manifest
  <2>4. ASSUME NEW k \in DOMAIN manifests, Covers(k, c)
        PROVE  Covers(k, c)'
      BY <1>1, <2>4, CoversStays
  <2>5. ASSUME NEW k, k = TreeOf(c).manifest
        PROVE  Covers(k, c)'
      BY <2>2, <2>3, <2>4, <2>5
  <2> QED
      BY <2>1, <2>5 DEF Covers
<1>3. ASSUME NEW p \in Proc, pc'[p] \in Fixed, NEW q \in StampParents(p)'
      PROVE  Covers(fixed[p], q)'
  <2>1. CASE FixManifest(p)
    <3>1. StampParents(p)' = StampParents(p)
        BY <2>1 DEF FixManifest, StampParents
    <3> QED
        BY <1>1, <1>3, <2>1, <3>1, FixedCovers
  <2>2. CASE /\ pc[p] \in Fixed
             /\ UNCHANGED <<fixed[p], base[p], amend[p]>>
    <3>1. base[p] \in DOMAIN commits
        BY <2>2 DEF Fixed, StampSteps
    <3>2. StampParents(p)' = StampParents(p)
        BY <1>1, <2>2, <3>1 DEF StampParents, Grows
    <3>3. q \in DOMAIN commits
        BY <1>3, <3>1, <3>2, ParentsAreThere
    <3>4. fixed[p] \in DOMAIN manifests
        BY <2>2 DEF Evidence, Promise
    <3>5. Covers(fixed[p], q)
        BY <1>3, <2>2, <3>2 DEF Chained
    <3>6. ASSUME NEW k, k = fixed[p]
          PROVE  Covers(k, q)'
        BY <1>1, <3>3, <3>4, <3>5, <3>6, CoversStays
    <3> QED
        BY <2>2, <3>6 DEF Covers
  <2> QED
      BY <1>3, <2>1, <2>2, FixedJobs
<1>4. ASSUME NEW c \in DOMAIN commits', c \notin DOMAIN commits, Claims(c)'
      PROVE  Covers(TreeOf(c).manifest, c)'
  <2>1. PICK m \in DOMAIN manifests :
            /\ TreeOf(c)'.manifest = m
            /\ commits'[c].parents \subseteq DOMAIN commits
            /\ \A q \in commits'[c].parents : Covers(m, q)
    <3>1. ASSUME NEW p \in Proc, Seal(p)
          PROVE  \E m \in DOMAIN manifests :
                     /\ TreeOf(c)'.manifest = m
                     /\ commits'[c].parents \subseteq DOMAIN commits
                     /\ \A q \in commits'[c].parents : Covers(m, q)
      <4>1. /\ DOMAIN commits' = DOMAIN commits \cup {Len(commits) + 1}
            /\ commits'[Len(commits) + 1].tree = StampTree(p)
            /\ commits'[Len(commits) + 1].parents = StampParents(p)
            /\ base[p] \in DOMAIN commits
          BY <3>1, SealAppends
      <4>2. TreeOf(c)' = StampTree(p) /\ commits'[c].parents = StampParents(p)
          BY <1>4, <4>1 DEF TreeOf
      <4>3. fixed[p] \in DOMAIN manifests /\ pc[p] \in Fixed
          BY <3>1 DEF Seal, Step, Evidence, Promise, Fixed
      <4>4. StampTree(p).manifest = fixed[p]
          BY <4>1, ContentTreeTyping DEF StampTree, Files
      <4>5. StampParents(p) \subseteq DOMAIN commits
          BY <4>1, ParentsAreThere
      <4>6. \A q \in commits'[c].parents : Covers(fixed[p], q)
          BY <4>2, <4>3 DEF Chained
      <4>7. /\ fixed[p] \in DOMAIN manifests
            /\ TreeOf(c)'.manifest = fixed[p]
            /\ commits'[c].parents \subseteq DOMAIN commits
          BY <4>2, <4>3, <4>4, <4>5
      <4> QED
          BY <4>6, <4>7
    <3>2. ASSUME NEW others \in SUBSET (DOMAIN commits), Committed(others),
                 \/ ~HasArtifacts(index)
                 \/ "commit unguarded" \in UserDoes /\ others = {} /\ Quiet
          PROVE  \E m \in DOMAIN manifests :
                     /\ TreeOf(c)'.manifest = m
                     /\ commits'[c].parents \subseteq DOMAIN commits
                     /\ \A q \in commits'[c].parents : Covers(m, q)
      <4>1. /\ DOMAIN commits' = DOMAIN commits \cup {Len(commits) + 1}
            /\ commits'[Len(commits) + 1].tree = index
            /\ commits'[Len(commits) + 1].parents = {head} \cup others
          BY <3>2, CommittedAppends
      <4>2. TreeOf(c)' = index /\ commits'[c].parents = {head} \cup others
          BY <1>4, <4>1 DEF TreeOf
      <4>3. index.manifest # None
          BY <1>4, <4>2 DEF Claims
      <4>4. "commit unguarded" \in UserDoes /\ others = {} /\ Quiet
          BY <3>2, <4>3 DEF HasArtifacts
      <4>5. Covers(index.manifest, head)
          BY <4>3, <4>4
          DEF Staged, Quiet, SyncSteps, Dropping
      <4>6. index.manifest \in DOMAIN manifests
          BY <4>3 DEF Entered
      <4>7. \A q \in commits'[c].parents : Covers(index.manifest, q)
          BY <4>2, <4>4, <4>5
      <4>8. commits'[c].parents \subseteq DOMAIN commits
          BY <4>2, <4>4
      <4>9. TreeOf(c)'.manifest = index.manifest
          BY <4>2
      <4> QED
          BY <4>6, <4>7, <4>8, <4>9
    <3> QED
        BY <1>4, <3>1, <3>2, NewCommits DEF ResetHard
  <2>2. Covers(m, c)'
      BY <1>1, <1>4, <2>1, NewCovers
  <2> QED
      BY <2>1, <2>2 DEF Covers
<1> QED
    BY <1>2, <1>3, <1>4 DEF Chained

\* The sealed commit that is being checked out has a manifest.
LEMMA SealedManifest ==
    ASSUME Basis, NEW c \in DOMAIN commits, commits[c].sealed
    PROVE  TreeOf(c).manifest \in DOMAIN manifests /\ TreeOf(c).manifest # None
<1>1. TreeOf(c).manifest \in DOMAIN manifests
    BY DEF Evidence
<1> QED
    BY <1>1, TableTyping, RepositoryAssumption

\* One step of one invocation, by itself.
LEMMA StagedKept ==
    ASSUME NEW p \in Proc, Acting(p), \A q \in Proc : q # p => pc'[q] = pc[q],
           pc'[p] \notin {"sync"} \cup SyncSteps \cup Dropping =>
               /\ work'.manifest = index'.manifest
               /\ index'.manifest # None => Covers(index.manifest, head)',
           pc'[p] \in SyncSteps \ {"syncArtifacts"} =>
               work'.manifest = TreeOf(head)'.manifest,
           pc'[p] = "dropTokens" => work'.manifest = None
    PROVE  Staged'
<1>1. \A q \in Proc : q # p => pc'[q] = "idle"
    BY DEF Acting
<1> QED
    BY <1>1 DEF Staged, SyncSteps, Dropping

LEMMA CoversMoves ==
    ASSUME Basis, Basis', Grows, NEW m \in DOMAIN manifests,
           NEW c \in DOMAIN commits, Covers(m, c),
           index'.manifest = m, head' = c
    PROVE  Covers(index.manifest, head)'
<1>1. Covers(m, c)'
    BY CoversStays
<1> QED
    BY <1>1 DEF Covers

LEMMA FlowKeepsStaged ==
    ASSUME Basis, Basis', Staged, Grows, NEW p \in Proc,
           StampBegins(p) \/ StampProceeds(p) \/ StampDies(p)
    PROVE  Staged'
<1>1. Acting(p) /\ pc[p] \in {"idle"} \cup StampSteps
  <2>1. CASE StampProceeds(p)
    <3>1. CASE Refuse(p)
        BY <2>1, <3>1
        DEF StampProceeds, Refuse, Refuses, RecordIsGone, TokenIsRefused,
            NothingAcquired, BranchMoved, StampSteps
    <3> QED
        BY <2>1, <3>1
        DEF StampProceeds, StampStep, RefreshList, RefreshFetch, RefreshWrite,
            FixManifest, TsaReply, SiteYields, SiteTolerated, AcquireDone,
            RecordChain, RecordCrl, Seal, Step, StampSteps
  <2> QED
      BY <2>1, BeginsOrDies
<1>2. /\ work.manifest = index.manifest
      /\ index.manifest # None => Covers(index.manifest, head)
    BY <1>1
    DEF Staged, Acting, StampSteps, SyncSteps, Dropping
<1>3. /\ \A q \in Proc : q # p => pc'[q] = pc[q]
      /\ \/ Seal(p)
         \/ head' = head /\ pc'[p] \in {"idle"} \cup StampSteps
  <2>1. CASE StampBegins(p) \/ StampDies(p)
      BY <2>1, BeginsOrDies
  <2>2. CASE Seal(p)
      BY <2>2 DEF Seal, Step
  <2>4. CASE Refuse(p)
      BY <2>4 DEF Refuse, Stop
  <2>3. CASE StampStep(p) /\ ~Seal(p) /\ ~Refuse(p)
      BY <2>3, StampStepGoesOn
  <2> QED
      BY <2>1, <2>2, <2>3, <2>4 DEF StampProceeds
<1>4. index' = index /\ work'.manifest = work.manifest
    BY FlowLeavesArtifacts
<1>5. CASE Seal(p)
  <2>1. pc'[p] = "sync"
      BY <1>5 DEF Seal, Step
  <2> QED
      BY <1>1, <1>3, <2>1, StagedKept DEF SyncSteps, Dropping
<1>6. CASE head' = head /\ pc'[p] \in {"idle"} \cup StampSteps
  <2>1. pc'[p] \notin SyncSteps /\ pc'[p] # "dropTokens"
      BY <1>6 DEF StampSteps, SyncSteps
  <2>2. index'.manifest # None => Covers(index.manifest, head)'
    <3>1. SUFFICES ASSUME index.manifest # None
                   PROVE  Covers(index.manifest, head)'
        BY <1>4
    <3>2. index.manifest \in DOMAIN manifests
        BY <3>1 DEF Entered
    <3> QED
        BY <1>2, <1>4, <1>6, <3>1, <3>2, CoversMoves
  <2> QED
      BY <1>1, <1>2, <1>3, <1>4, <2>1, <2>2, StagedKept
<1> QED
    BY <1>3, <1>5, <1>6

LEMMA CheckoutKeepsStaged ==
    ASSUME Basis, Basis', Chained, Staged, Grows, NEW p \in Proc,
           CheckoutProceeds(p) \/ DropBegins(p)
    PROVE  Staged'
<1>1. Acting(p) /\ index \in Files /\ work \in Files
    BY DEF CheckoutProceeds, DropBegins
<1>2. /\ \A q \in Proc : q # p => pc'[q] = pc[q]
      /\ UNCHANGED <<head, commits>>
  <2>1. CASE CheckoutProceeds(p)
      BY <2>1, CheckoutMoves, StepSetsLabel DEF CheckoutProceeds
  <2>2. CASE DropBegins(p)
      BY <2>2, StepSetsLabel DEF DropBegins, DropOpen
  <2> QED
      BY <2>1, <2>2
<1>3. TreeOf(head)' = TreeOf(head)
    BY <1>2 DEF TreeOf
<1>4. pc[p] \in Converging =>
          /\ TreeOf(head).manifest \in DOMAIN manifests
          /\ TreeOf(head).manifest # None
    BY SealedManifest DEF InPeace, Undisturbed
<1>5. pc[p] \in SyncSteps => Sealed(p) = TreeOf(head) /\ idx[p] = index
    BY DEF InPeace, Undisturbed, Sealed
<1>6. ASSUME index'.manifest = index.manifest,
             work'.manifest = work.manifest,
             pc[p] \in {"stage", "stageIndex"}
      PROVE  /\ work'.manifest = index'.manifest
             /\ index'.manifest # None => Covers(index.manifest, head)'
  <2>1. /\ work.manifest = index.manifest
        /\ index.manifest # None => Covers(index.manifest, head)
      BY <1>1, <1>6 DEF Staged, Acting, SyncSteps, Dropping
  <2>2. ASSUME index.manifest # None
        PROVE  Covers(index.manifest, head)'
    <3>1. index.manifest \in DOMAIN manifests
        BY <2>2 DEF Entered
    <3> QED
        BY <1>2, <1>6, <2>1, <2>2, <3>1, CoversMoves
  <2> QED
      BY <1>6, <2>1, <2>2
<1>7. CASE SyncOpen(p)
  <2>1. pc'[p] = "syncArtifacts"
      BY <1>7 DEF SyncOpen, Step
  <2> QED
      BY <1>1, <1>2, <2>1, StagedKept DEF SyncSteps
<1>8. CASE SyncArtifacts(p)
  <2>1. pc[p] = "syncArtifacts" /\ pc'[p] = "syncRecords"
      BY <1>8 DEF SyncArtifacts, Step
  <2>2. work'.manifest = Lay(TreeOf(head).manifest, work.manifest)
      BY <1>1, <1>5, <1>8, <2>1 DEF SyncArtifacts, SyncSteps, Files
  <2>3. work'.manifest = TreeOf(head).manifest
      BY <1>4, <2>1, <2>2 DEF Lay, Converging, SyncSteps
  <2> QED
      BY <1>1, <1>2, <1>3, <2>1, <2>3, StagedKept DEF SyncSteps
<1>9. CASE SyncRecords(p)
  <2>1. pc[p] = "syncRecords" /\ pc'[p] = "syncStale"
      BY <1>9 DEF SyncRecords, Step
  <2>2. work'.manifest = work.manifest
      BY <1>1, <1>9 DEF SyncRecords, Files
  <2>3. work.manifest = TreeOf(head).manifest
      BY <2>1 DEF Staged, SyncSteps
  <2> QED
      BY <1>1, <1>2, <1>3, <2>1, <2>2, <2>3, StagedKept DEF SyncSteps
<1>10. CASE SyncStale(p)
  <2>1. pc[p] = "syncStale" /\ pc'[p] = "syncIndex"
      BY <1>10 DEF SyncStale, Step
  <2>2. work'.manifest = LeaveStale(TreeOf(head).manifest, index.manifest,
                                    work.manifest)
      BY <1>1, <1>5, <1>10, <2>1 DEF SyncStale, SyncSteps, Files
  <2>3. work.manifest = TreeOf(head).manifest
      BY <2>1 DEF Staged, SyncSteps
  <2>4. work'.manifest = TreeOf(head).manifest
      BY <1>4, <2>1, <2>2, <2>3 DEF LeaveStale, Converging, SyncSteps
  <2> QED
      BY <1>1, <1>2, <1>3, <2>1, <2>4, StagedKept DEF SyncSteps
<1>11. CASE SyncIndex(p)
  <2>1. pc[p] = "syncIndex" /\ pc'[p] = "stage"
      BY <1>11 DEF SyncIndex, Step
  <2>2. index' = SyncedIndex(p) /\ work' = work
      BY <1>5, <1>11, <2>1 DEF SyncIndex, SyncSteps
  <2>3. index'.manifest = TreeOf(head).manifest
      BY <1>1, <1>5, <2>1, <2>2 DEF SyncedIndex, SyncSteps, Files
  <2>4. work.manifest = TreeOf(head).manifest
      BY <2>1 DEF Staged, SyncSteps
  <2>5. Covers(TreeOf(head).manifest, head)
      BY <1>4, <2>1 DEF Chained, Claims, Converging, SyncSteps
  <2>6. Covers(index.manifest, head)'
      BY <1>2, <1>4, <2>1, <2>3, <2>5, CoversMoves
      DEF Converging, SyncSteps
  <2> QED
      BY <1>1, <1>2, <2>1, <2>2, <2>3, <2>4, <2>6, StagedKept
      DEF SyncSteps
<1>12. CASE StageNothing(p) \/ StageOpen(p) \/ StageIndex(p)
  <2>1. pc[p] \in {"stage", "stageIndex"}
        /\ pc'[p] \in {"idle", "stageIndex"}
    <3>1. \E from \in {"stage", "stageIndex"}, to \in {"idle", "stageIndex"} :
              Step(p, from, to)
        BY <1>12 DEF StageNothing, StageOpen, StageIndex
    <3> QED
        BY <3>1, StepSetsLabel
  <2>2. work' = work /\ (index' = index \/ index' = StagedIndex)
      BY <1>12
      DEF StageNothing, StageOpen, StageIndex, Step, InPeace, Undisturbed
  <2>3. StagedIndex.manifest = index.manifest
      BY <1>1 DEF StagedIndex, Files
  <2>4. /\ work'.manifest = index'.manifest
        /\ index'.manifest # None => Covers(index.manifest, head)'
      BY <1>6, <2>1, <2>2, <2>3
  <2> QED
      BY <1>1, <1>2, <2>1, <2>4, StagedKept DEF SyncSteps
<1>13. CASE DropOpen(p) \/ DropIndex(p)
  <2>1. pc'[p] \in {"dropIndex", "dropManifest"}
      BY <1>13 DEF DropOpen, DropIndex, Step
  <2> QED
      BY <1>1, <1>2, <2>1, StagedKept DEF SyncSteps, Dropping
<1>14. CASE DropManifest(p)
  <2>1. pc'[p] = "dropTokens" /\ work'.manifest = None
      BY <1>1, <1>14 DEF DropManifest, Step, Files
  <2> QED
      BY <1>1, <1>2, <2>1, StagedKept DEF SyncSteps, Dropping
<1>15. CASE DropTokens(p)
  <2>1. pc[p] = "dropTokens" /\ pc'[p] = "idle"
      BY <1>15 DEF DropTokens, Step
  <2>2. work'.manifest = work.manifest /\ index' = index
      BY <1>1, <1>15 DEF DropTokens, Files
  <2>3. work.manifest = None /\ index.manifest = None
      BY <2>1 DEF Staged, InPeace, Undisturbed, HasArtifacts
  <2> QED
      BY <1>1, <1>2, <2>1, <2>2, <2>3, StagedKept DEF SyncSteps
<1> QED
    BY <1>7, <1>8, <1>9, <1>10, <1>11, <1>12, <1>13, <1>14, <1>15
    DEF CheckoutProceeds, DropBegins, SyncStep, DropStep

LEMMA UserKeepsStaged ==
    ASSUME Basis, Basis', Chained, Chained', Staged, Grows, UserActs
    PROVE  Staged'
<1>1. /\ \A p \in Proc : pc'[p] = "idle"
      /\ work.manifest = index.manifest
      /\ index.manifest # None => Covers(index.manifest, head)
    BY DEF UserActs, AllIdle, Staged, UserStep, CommitEnd, Edit, AddAll,
           CommitBegin, CommitUnguarded, ResetHard, Restore, UserUnchanged,
           SyncSteps, Dropping
<1> SUFFICES /\ work'.manifest = index'.manifest
             /\ index'.manifest # None => Covers(index.manifest, head)'
    BY <1>1 DEF Staged, SyncSteps
<1>2. index \in Files /\ work \in Files /\ TreeOf(head) \in Files
    BY StoreTyping
<1>3. ASSUME head' = head, index'.manifest = index.manifest,
             work'.manifest = work.manifest
      PROVE  /\ work'.manifest = index'.manifest
             /\ index'.manifest # None => Covers(index.manifest, head)'
  <2>1. ASSUME index.manifest # None
        PROVE  Covers(index.manifest, head)'
    <3>1. index.manifest \in DOMAIN manifests
        BY <2>1 DEF Entered
    <3> QED
        BY <1>1, <1>3, <2>1, <3>1, CoversMoves
  <2> QED
      BY <1>1, <1>3, <2>1
<1>4. ASSUME NEW c \in DOMAIN commits', head' = c,
             TreeOf(c)'.manifest = index'.manifest
      PROVE  index'.manifest # None => Covers(index.manifest, head)'
  <2>1. Claims(c)' => Covers(TreeOf(c).manifest, c)'
      BY DEF Chained
  <2> QED
      BY <1>4, <2>1 DEF Claims, Covers
<1>5. ASSUME NEW tree \in Files,
             work'.manifest = FileAfter(tree.manifest, index.manifest,
                                        work.manifest),
             index'.manifest = tree.manifest
      PROVE  work'.manifest = index'.manifest
    BY <1>1, <1>5, CheckedOutFile
<1>6. CASE \E c \in Content : Edit(c)
    BY <1>2, <1>3, <1>6 DEF Edit, Files
<1>7. CASE AddAll
    BY <1>1, <1>3, <1>7 DEF AddAll
<1>8. CASE CommitBegin
    BY <1>3, <1>8 DEF CommitBegin
<1>9. ASSUME NEW others \in SUBSET (DOMAIN commits), Committed(others),
             UNCHANGED <<index, work>>
      PROVE  /\ work'.manifest = index'.manifest
             /\ index'.manifest # None => Covers(index.manifest, head)'
  <2>1. /\ DOMAIN commits' = DOMAIN commits \cup {Len(commits) + 1}
        /\ commits'[Len(commits) + 1].tree = index
        /\ head' = Len(commits) + 1
      BY <1>9, CommittedAppends
  <2>2. head' \in DOMAIN commits' /\ TreeOf(head)'.manifest = index'.manifest
      BY <1>9, <2>1 DEF TreeOf
  <2>3. \E c \in DOMAIN commits' :
            head' = c /\ TreeOf(c)'.manifest = index'.manifest
      BY <1>9, <2>1 DEF TreeOf
  <2> QED
      BY <1>1, <1>4, <1>9, <2>3
<1>10. CASE CommitEnd \/ CommitUnguarded
  <2>1. \/ UNCHANGED <<head, index, work>>
        \/ /\ \E others \in SUBSET (DOMAIN commits) : Committed(others)
           /\ UNCHANGED <<index, work>>
      BY <1>10 DEF CommitEnd, CommitUnguarded
  <2> QED
      BY <1>3, <1>9, <2>1
<1>11. ASSUME NEW c \in DOMAIN commits, ResetHard(c)
       PROVE  /\ work'.manifest = index'.manifest
              /\ index'.manifest # None => Covers(index.manifest, head)'
  <2>1. /\ head' = c /\ commits' = commits
        /\ index' = TreeOf(c)
        /\ work'.manifest = FileAfter(TreeOf(c).manifest, index.manifest,
                                      work.manifest)
      BY <1>11 DEF ResetHard, CheckOut
  <2>2. TreeOf(c) \in Files
      BY StoreTyping
  <2>3. c \in DOMAIN commits' /\ TreeOf(c)' = TreeOf(c)
      BY <2>1 DEF TreeOf
  <2> QED
      BY <1>4, <1>5, <2>1, <2>2, <2>3
<1>12. CASE Restore
  <2>1. /\ head' = head /\ commits' = commits
        /\ index'.manifest = TreeOf(head).manifest
        /\ work'.manifest = FileAfter(TreeOf(head).manifest, index.manifest,
                                      work.manifest)
      BY <1>2, <1>12 DEF Restore, CheckOut, Files
  <2>2. \E c \in DOMAIN commits' :
            head' = c /\ TreeOf(c)'.manifest = index'.manifest
      BY <2>1 DEF TreeOf
  <2> QED
      BY <1>2, <1>4, <1>5, <2>1, <2>2
<1> QED
    BY <1>6, <1>7, <1>8, <1>10, <1>11, <1>12 DEF UserActs, UserStep

LEMMA StagedNext ==
    ASSUME Exclusive, Faults \cap CheckoutSteps = {}, Basis, Basis', Chained,
           Chained', Staged, [Next]_vars
    PROVE  Staged'
<1>1. Grows
    BY StoreAndTableGrow
<1>2. ASSUME NEW p \in Proc
      PROVE  ~CheckoutDies(p)
    BY DEF CheckoutDies, CheckoutFails
<1>3. CASE World \/ UNCHANGED vars
  <2>1. UNCHANGED <<index, work, head, commits, pc>>
      BY <1>3 DEF World, TimePasses, Tick, Publish, Rotate, vars
  <2>2. index.manifest # None /\ Covers(index.manifest, head)
            => Covers(index.manifest, head)'
    <3> SUFFICES ASSUME index.manifest # None, Covers(index.manifest, head)
                 PROVE  Covers(index.manifest, head)'
        OBVIOUS
    <3>1. index.manifest \in DOMAIN manifests
        BY DEF Entered
    <3> QED
        BY <1>1, <2>1, <3>1, CoversMoves
  <2>3. TreeOf(head)' = TreeOf(head)
      BY <2>1 DEF TreeOf
  <2> QED
      BY <2>1, <2>2, <2>3 DEF Staged
<1> QED
    BY <1>1, <1>2, <1>3, FlowKeepsStaged, CheckoutKeepsStaged,
       UserKeepsStaged, StepsAlone DEF InPeace

LEMMA ChainedInitially == Init => Chained /\ Staged
<1> SUFFICES ASSUME Init
             PROVE  Chained /\ Staged
    OBVIOUS
<1>1. /\ index.manifest = None /\ work.manifest = None
      /\ \A c \in DOMAIN commits : TreeOf(c).manifest = None
    BY FirstTree
<1>2. \A p \in Proc : pc[p] = "idle"
    BY DEF Init
<1> QED
    BY <1>1, <1>2 DEF Chained, Staged, Claims, Fixed, SyncSteps

\* No line of evidence is left dangling: the renewal chain of a sealed stamp
\* reaches every claim in its history, over any merges, resets and amends.
\* Where the user commits behind the back of the hook, an index that a failed
\* convergence left behind could break it: either the hook is in use or the
\* convergence and drop do not fail half-way.
THEOREM RenewalChains ==
    ASSUME Exclusive,
           "commit unguarded" \notin UserDoes
               \/ Faults \cap CheckoutSteps = {}
    PROVE  Spec => []RenewalChainCoversHistory
<1> DEFINE Stages == Faults \cap CheckoutSteps = {} => Staged
<1>1. Init => Chained /\ Stages
    BY ChainedInitially
<1>2. Basis /\ Basis' /\ Chained /\ Stages /\ [Next]_vars
          => Chained' /\ Stages'
    BY ChainedNext, StagedNext
<1>3. Basis /\ Chained => RenewalChainCoversHistory
  <2> SUFFICES ASSUME Basis, Chained, NEW c \in DOMAIN commits,
                      commits[c].sealed
               PROVE  Covers(TreeOf(c).manifest, c)
      BY DEF RenewalChainCoversHistory, Covers
  <2> QED
      BY SealedManifest DEF Chained, Claims
<1> HIDE DEF Stages
<1> QED
    BY <1>1, <1>2, <1>3, BasisAlways, PTL DEF Spec

-----------------------------------------------------------------------------
(***************************************************************************)
(* LTV records.  Whatever the index or the branch records, the working     *)
(* tree records too, for any faults: a record once there is replaced but   *)
(* not removed, except where git checks out a tree without it, which       *)
(* takes it out of the index as well.  What an invocation remembers of the *)
(* records it refreshed is in the working tree when it seals.              *)
(***************************************************************************)
Within(some, others) ==
    \A i \in Issuer :
        /\ some.chains[i] # None => others.chains[i] # None
        /\ some.crls[i] # None => others.crls[i] # None

Remembered(p) ==
    /\ pc[p] \notin {"refresh", "refreshCrl"} => listed[p] = {}
    /\ pc[p] \notin StampSteps \ {"list"} => records[p] = NoRecords
    /\ \A i \in Issuer :
           /\ records[p].chains[i] # None =>
                  work.chains[i] # None /\ records[p].crls[i] # None
           /\ i \notin listed[p] /\ records[p].crls[i] # None =>
                  work.crls[i] # None
           /\ /\ pc[p] \in StampSteps \ {"list"}
              /\ TreeOf(head).chains[i] # None
              => i \in listed[p] \/ records[p].chains[i] # None

Kept ==
    /\ Within(index, work)
    /\ Within(TreeOf(head), work)
    /\ \A p \in Proc : Remembered(p)

LEMMA NothingRecorded ==
    \A i \in Issuer : NoRecords.chains[i] = None /\ NoRecords.crls[i] = None
    BY DEF NoRecords, NoChains, NoCrls

LEMMA OverlaidFile ==
    ASSUME NEW S, NEW ofTree, DOMAIN ofTree = S, NEW current, NEW i \in S
    PROVE  Overlay(ofTree, current)[i]
               = IF ofTree[i] # None THEN ofTree[i] ELSE current[i]
    BY DEF Overlay, Lay

LEMMA CheckedOutDirectory ==
    ASSUME NEW S, NEW ofTree, DOMAIN ofTree = S, NEW tracked, NEW current,
           NEW i \in S
    PROVE  DirectoryAfter(ofTree, tracked, current)[i]
               = IF ofTree[i] # None THEN ofTree[i]
                 ELSE IF tracked[i] # None THEN None ELSE current[i]
    BY CheckedOutFile DEF DirectoryAfter

\* The records of the tree a stamp seals.
LEMMA StampTreeRecords ==
    ASSUME Consistent, NEW p \in Proc, base[p] \in DOMAIN commits
    PROVE  /\ StampTree(p) \in Files
           /\ StampTree(p).chains =
                  Overlay(records[p].chains, TreeOf(base[p]).chains)
           /\ StampTree(p).crls =
                  Overlay(records[p].crls, TreeOf(base[p]).crls)
           /\ DOMAIN records[p].chains = Issuer
           /\ DOMAIN records[p].crls = Issuer
<1>1. TreeOf(base[p]) \in Files
    BY StoreTyping
<1>2. records[p] \in Records
    OBVIOUS
<1>3. DOMAIN records[p].chains = Issuer /\ DOMAIN records[p].crls = Issuer
    BY <1>2 DEF Records, ChainFiles, CrlFiles
<1>4. /\ ContentTree(p).chains =
             Overlay(records[p].chains, TreeOf(base[p]).chains)
      /\ ContentTree(p).crls =
             Overlay(records[p].crls, TreeOf(base[p]).crls)
    BY <1>1 DEF ContentTree, Files
<1>5. ContentTree(p) \in Files
    BY ContentTreeTyping
<1>6. /\ StampTree(p).chains = ContentTree(p).chains
      /\ StampTree(p).crls = ContentTree(p).crls
    BY <1>5 DEF StampTree, Files
<1> QED
    BY <1>3, <1>4, <1>6, StampTreeTyping

\* Record by record: what the stamp acquired, else what its base holds.
LEMMA StampTreeFile ==
    ASSUME Consistent, NEW p \in Proc, base[p] \in DOMAIN commits,
           NEW i \in Issuer
    PROVE  /\ StampTree(p).chains[i] =
                  IF records[p].chains[i] # None THEN records[p].chains[i]
                  ELSE TreeOf(base[p]).chains[i]
           /\ StampTree(p).crls[i] =
                  IF records[p].crls[i] # None THEN records[p].crls[i]
                  ELSE TreeOf(base[p]).crls[i]
<1> DEFINE chains == records[p].chains
           crls == records[p].crls
           under == TreeOf(base[p])
<1>1. /\ DOMAIN chains = Issuer /\ DOMAIN crls = Issuer
      /\ StampTree(p).chains = Overlay(chains, under.chains)
      /\ StampTree(p).crls = Overlay(crls, under.crls)
    BY StampTreeRecords
<1> HIDE DEF chains, crls, under
<1>2. Overlay(chains, under.chains)[i] =
          IF chains[i] # None THEN chains[i] ELSE under.chains[i]
    BY <1>1, OverlaidFile
<1>3. Overlay(crls, under.crls)[i] =
          IF crls[i] # None THEN crls[i] ELSE under.crls[i]
    BY <1>1, OverlaidFile
<1> QED
    BY <1>1, <1>2, <1>3, Zenon DEF chains, crls, under

\* One step of one invocation, by itself.
LEMMA KeptAlone ==
    ASSUME Kept, NEW p \in Proc, Acting(p),
           \A q \in Proc : q # p => /\ pc'[q] = pc[q]
                                    /\ listed'[q] = listed[q]
                                    /\ records'[q] = records[q],
           Within(index, work)', Within(TreeOf(head), work)', Remembered(p)'
    PROVE  Kept'
<1>1. ASSUME NEW q \in Proc, q # p
      PROVE  Remembered(q)'
  <2>1. pc'[q] = "idle" /\ listed'[q] = {} /\ records'[q] = NoRecords
      BY <1>1 DEF Acting, Kept, Remembered, StampSteps
  <2>2. \A i \in Issuer : /\ records'[q].chains[i] = None
                          /\ records'[q].crls[i] = None
      BY <2>1, NothingRecorded
  <2> QED
      BY <2>1, <2>2 DEF Remembered, StampSteps
<1> QED
    BY <1>1 DEF Kept

LEMMA SealKeepsRecords ==
    ASSUME Basis, Kept, NEW p \in Proc, Acting(p), Seal(p)
    PROVE  Kept'
<1>1. /\ Step(p, "record", "sync") /\ ResetJob(p)
      /\ UNCHANGED <<index, work>>
    BY DEF Seal
<1>2. /\ base[p] \in DOMAIN commits /\ base[p] = head
      /\ TreeOf(head)' = StampTree(p)
    BY SealAppends DEF TreeOf
<1>3. pc[p] = "record" /\ listed[p] = {}
    BY <1>1 DEF Step, Kept, Remembered
<1>4. ASSUME NEW i \in Issuer
      PROVE  /\ StampTree(p).chains[i] # None => work.chains[i] # None
             /\ StampTree(p).crls[i] # None => work.crls[i] # None
  <2>1. /\ StampTree(p).chains[i] =
               IF records[p].chains[i] # None THEN records[p].chains[i]
               ELSE TreeOf(head).chains[i]
        /\ StampTree(p).crls[i] =
               IF records[p].crls[i] # None THEN records[p].crls[i]
               ELSE TreeOf(head).crls[i]
      BY <1>2, StampTreeFile
  <2> QED
      BY <1>3, <2>1 DEF Kept, Remembered, Within
<1>5. Within(TreeOf(head), work)' /\ Within(index, work)'
    BY <1>1, <1>2, <1>4 DEF Within, Kept
<1>6. pc'[p] = "sync" /\ listed'[p] = {} /\ records'[p] = NoRecords
    BY <1>1 DEF Step, ResetJob
<1>7. Remembered(p)'
    BY <1>6, NothingRecorded DEF Remembered, StampSteps
<1>8. \A q \in Proc : q # p => /\ pc'[q] = pc[q]
                               /\ listed'[q] = listed[q]
                               /\ records'[q] = records[q]
    BY <1>1 DEF Step, ResetJob
<1> QED
    BY <1>5, <1>7, <1>8, KeptAlone

\* An invocation that stops keeps what it wrote.
LEMMA StopKeepsRecords ==
    ASSUME Basis, Kept, NEW p \in Proc, Acting(p), Stop(p)
    PROVE  Kept'
<1>1. /\ pc' = [pc EXCEPT ![p] = "idle"] /\ ResetJob(p)
      /\ UNCHANGED <<commits, head, index, work>>
    BY DEF Stop
<1>2. pc'[p] = "idle" /\ listed'[p] = {} /\ records'[p] = NoRecords
    BY <1>1 DEF ResetJob
<1>3. Remembered(p)'
    BY <1>2, NothingRecorded DEF Remembered, StampSteps
<1>4. Within(TreeOf(head), work)' /\ Within(index, work)'
    BY <1>1 DEF Within, Kept, TreeOf
<1>5. \A q \in Proc : q # p => /\ pc'[q] = pc[q]
                               /\ listed'[q] = listed[q]
                               /\ records'[q] = records[q]
    BY <1>1 DEF ResetJob
<1> QED
    BY <1>3, <1>4, <1>5, KeptAlone

\* Records are written and none is removed.
LEMMA GrowthKeepsRecords ==
    ASSUME Basis, Kept, NEW p \in Proc, Acting(p),
           UNCHANGED <<commits, head, index>>, Within(work, work'),
           \A q \in Proc : q # p => /\ pc'[q] = pc[q]
                                    /\ listed'[q] = listed[q]
                                    /\ records'[q] = records[q],
           Remembered(p)'
    PROVE  Kept'
<1>1. Within(TreeOf(head), work)' /\ Within(index, work)'
    BY DEF Within, Kept, TreeOf
<1> QED
    BY <1>1, KeptAlone

LEMMA RefreshKeepsRecords ==
    ASSUME Basis, Kept, NEW p \in Proc, Acting(p), NEW i \in Issuer,
           RefreshFetch(p, i) \/ RefreshWrite(p, i)
    PROVE  Kept'
<1>1. work \in Files /\ records[p] \in Records /\ crl[i] \in Crl
    OBVIOUS
<1>2. /\ work.chains \in [Issuer -> Chain \cup {None}]
      /\ work.crls \in [Issuer -> Crl \cup {None}]
      /\ records[p].chains \in [Issuer -> Chain \cup {None}]
      /\ records[p].crls \in [Issuer -> Crl \cup {None}]
    BY <1>1 DEF Files, Records, ChainFiles, CrlFiles
<1>3. Remembered(p)
    BY DEF Kept
<1>4. CASE RefreshFetch(p, i)
  <2>1. /\ pc[p] = "refresh" /\ pc' = [pc EXCEPT ![p] = "refreshCrl"]
        /\ i \in listed[p] /\ work.chains[i] # None
        /\ records' = [records EXCEPT ![p].chains[i] = work.chains[i],
                                      ![p].crls[i] = crl[i]]
        /\ UNCHANGED <<commits, head, index, work, listed>>
      BY <1>4 DEF RefreshFetch, Step
  <2>2. /\ records'[p].chains = [records[p].chains EXCEPT ![i] = work.chains[i]]
        /\ records'[p].crls = [records[p].crls EXCEPT ![i] = crl[i]]
      BY <1>1, <2>1 DEF Records
  <2>3. /\ records'[p].chains[i] = work.chains[i] /\ records'[p].crls[i] = crl[i]
        /\ \A j \in Issuer : j # i =>
               /\ records'[p].chains[j] = records[p].chains[j]
               /\ records'[p].crls[j] = records[p].crls[j]
      BY <1>2, <2>2
  <2>4. crl[i] # None
      BY <1>1, RepositoryAssumption DEF Crl
  <2>5. pc'[p] = "refreshCrl" /\ TreeOf(head)' = TreeOf(head)
      BY <2>1 DEF TreeOf
  <2>6. Remembered(p)'
    <3>1. ASSUME NEW j \in Issuer
          PROVE  /\ records'[p].chains[j] # None =>
                        work'.chains[j] # None /\ records'[p].crls[j] # None
                 /\ j \notin listed'[p] /\ records'[p].crls[j] # None =>
                        work'.crls[j] # None
                 /\ TreeOf(head)'.chains[j] # None =>
                        j \in listed'[p] \/ records'[p].chains[j] # None
      <4>1. CASE j = i
          BY <2>1, <2>3, <2>4, <4>1
      <4>2. CASE j # i
          BY <1>3, <2>1, <2>3, <2>5, <4>2 DEF Remembered, StampSteps
      <4> QED
          BY <4>1, <4>2
    <3> QED
        BY <2>5, <3>1 DEF Remembered, StampSteps
  <2>7. Within(work, work')
      BY <2>1 DEF Within
  <2>8. \A q \in Proc : q # p => /\ pc'[q] = pc[q]
                                 /\ listed'[q] = listed[q]
                                 /\ records'[q] = records[q]
      BY <2>1
  <2> QED
      BY <2>1, <2>6, <2>7, <2>8, GrowthKeepsRecords
<1>5. CASE RefreshWrite(p, i)
  <2>1. /\ pc[p] = "refreshCrl" /\ pc' = [pc EXCEPT ![p] = "refresh"]
        /\ i \in listed[p] /\ records[p].chains[i] # None
        /\ work' = [work EXCEPT !.crls[i] = records[p].crls[i]]
        /\ listed' = [listed EXCEPT ![p] = @ \ {i}]
        /\ UNCHANGED <<commits, head, index, records>>
      BY <1>5 DEF RefreshWrite, Step
  <2>2. /\ work'.chains = work.chains
        /\ work'.crls = [work.crls EXCEPT ![i] = records[p].crls[i]]
      BY <1>1, <2>1 DEF Files
  <2>3. /\ work'.crls[i] = records[p].crls[i]
        /\ \A j \in Issuer : j # i => work'.crls[j] = work.crls[j]
      BY <1>2, <2>2
  <2>4. records[p].crls[i] # None
      BY <1>3, <2>1 DEF Remembered
  <2>5. pc'[p] = "refresh" /\ TreeOf(head)' = TreeOf(head)
        /\ listed'[p] = listed[p] \ {i}
      BY <2>1 DEF TreeOf
  <2>6. Remembered(p)'
    <3>1. ASSUME NEW j \in Issuer
          PROVE  /\ records'[p].chains[j] # None =>
                        work'.chains[j] # None /\ records'[p].crls[j] # None
                 /\ j \notin listed'[p] /\ records'[p].crls[j] # None =>
                        work'.crls[j] # None
                 /\ TreeOf(head)'.chains[j] # None =>
                        j \in listed'[p] \/ records'[p].chains[j] # None
      <4>1. CASE j = i
          BY <1>3, <2>1, <2>2, <2>3, <2>4, <4>1 DEF Remembered
      <4>2. CASE j # i
          BY <1>3, <2>1, <2>2, <2>3, <2>5, <4>2 DEF Remembered, StampSteps
      <4> QED
          BY <4>1, <4>2
    <3> QED
        BY <2>5, <3>1 DEF Remembered, StampSteps
  <2>7. Within(work, work')
      BY <2>2, <2>3, <2>4 DEF Within
  <2>8. \A q \in Proc : q # p => /\ pc'[q] = pc[q]
                                 /\ listed'[q] = listed[q]
                                 /\ records'[q] = records[q]
      BY <2>1
  <2> QED
      BY <2>1, <2>6, <2>7, <2>8, GrowthKeepsRecords
<1> QED
    BY <1>4, <1>5

LEMMA ListKeepsRecords ==
    ASSUME Basis, Kept, NEW p \in Proc, Acting(p),
           RefreshList(p) \/ \E amending \in BOOLEAN : StampBegin(p, amending)
    PROVE  Kept'
<1>1. Remembered(p) /\ Within(TreeOf(head), work)
    BY DEF Kept
<1>2. /\ UNCHANGED <<commits, head, index, work, records>>
      /\ \/ /\ pc[p] = "list" /\ pc' = [pc EXCEPT ![p] = "refresh"]
            /\ listed' = [listed EXCEPT ![p] =
                             {i \in Issuer : work.chains[i] # None}]
         \/ /\ pc[p] = "idle" /\ pc' = [pc EXCEPT ![p] = "list"]
            /\ listed' = listed
    BY DEF RefreshList, StampBegin, Step
<1>3. TreeOf(head)' = TreeOf(head)
    BY <1>2 DEF TreeOf
<1>4. records[p] = NoRecords
    BY <1>1, <1>2 DEF Remembered, StampSteps
<1>5. Remembered(p)'
  <2>1. pc'[p] \in {"list", "refresh"}
        /\ (pc'[p] = "refresh" =>
                listed'[p] = {i \in Issuer : work.chains[i] # None})
        /\ (pc'[p] = "list" => listed'[p] = {})
      BY <1>1, <1>2 DEF Remembered
  <2>2. \A i \in Issuer : /\ records[p].chains[i] = None
                          /\ records[p].crls[i] = None
      BY <1>4, NothingRecorded
  <2> QED
      BY <1>1, <1>2, <1>3, <1>4, <2>1, <2>2
      DEF Remembered, StampSteps, Within
<1>6. Within(work, work')
    BY <1>2 DEF Within
<1>7. \A q \in Proc : q # p => /\ pc'[q] = pc[q]
                               /\ listed'[q] = listed[q]
                               /\ records'[q] = records[q]
    BY <1>2
<1> QED
    BY <1>2, <1>5, <1>6, <1>7, GrowthKeepsRecords

\* From the fixing of the manifest to the seal nothing is listed any more.
LEMMA AcquisitionKeepsRecords ==
    ASSUME Basis, Kept, NEW p \in Proc, Acting(p), StampStep(p),
           ~RefreshList(p),
           \A i \in Issuer : ~RefreshFetch(p, i) /\ ~RefreshWrite(p, i),
           ~Seal(p), ~Refuse(p)
    PROVE  Kept'
<1>1. Remembered(p)
    BY DEF Kept
<1>2. /\ UNCHANGED <<commits, head, index, records, listed>>
      /\ listed[p] = {}
      /\ pc[p] \in Fixed \cup {"refresh"} /\ pc'[p] \in Fixed
      /\ \A q \in Proc : q # p => pc'[q] = pc[q]
  <2>1. CASE FixManifest(p)
      BY <2>1 DEF FixManifest, Step, Fixed
  <2>2. ASSUME pc[p] \in Fixed
        PROVE  listed[p] = {}
      BY <1>1, <2>2 DEF Remembered, Fixed
  <2>3. CASE TsaReply(p) \/ SiteYields(p) \/ SiteTolerated(p)
      BY <2>2, <2>3 DEF TsaReply, SiteYields, SiteTolerated, Step, Fixed
  <2>4. CASE AcquireDone(p) \/ RecordChain(p) \/ RecordCrl(p)
      BY <2>2, <2>4
      DEF AcquireDone, RecordChain, RecordCrl, Step, Fixed, stampingVars,
          jobVars
  <2> QED
      BY <2>1, <2>3, <2>4 DEF StampStep
<1>3. work \in Files
    OBVIOUS
<1>4. /\ work.chains \in [Issuer -> Chain \cup {None}]
      /\ work.crls \in [Issuer -> Crl \cup {None}]
    BY <1>3 DEF Files, ChainFiles, CrlFiles
<1>5. Within(work, work')
  <2>1. CASE RecordChain(p)
    <3>1. settled[p] < Len(acquired[p])
        BY <2>1 DEF RecordChain
    <3>2. settled[p] + 1 \in DOMAIN acquired[p]
        BY <3>1
    <3> DEFINE token == acquired[p][settled[p] + 1].token
    <3>3. token \in Token
        BY <3>2, AcquiredTyping
    <3>4. [site |-> token.site, gen |-> token.gen] \in Chain
        BY <3>3 DEF Token, Chain
    <3>5. [site |-> token.site, gen |-> token.gen] # None
        BY <3>4, RepositoryAssumption
    <3>6. work' = [work EXCEPT !.chains[IssuerOf[token.site]] =
                      [site |-> token.site, gen |-> token.gen]]
        BY <2>1 DEF RecordChain
    <3> HIDE DEF token
    <3>7. /\ work'.chains = [work.chains EXCEPT ![IssuerOf[token.site]] =
                                [site |-> token.site, gen |-> token.gen]]
          /\ work'.crls = work.crls
        BY <1>3, <3>6 DEF Files
    <3> QED
        BY <1>4, <3>5, <3>7 DEF Within
  <2>2. CASE RecordCrl(p)
    <3>1. settled[p] < Len(acquired[p])
        BY <2>2 DEF RecordCrl, Step
    <3>2. settled[p] + 1 \in DOMAIN acquired[p]
        BY <3>1
    <3> DEFINE next == acquired[p][settled[p] + 1]
    <3>3. next.crl # None
      <4>1. next.crl \in Crl
          BY <3>2, AcquiredTyping
      <4> HIDE DEF next
      <4> QED
          BY <4>1, RepositoryAssumption DEF Crl
    <3>4. work' = [work EXCEPT !.crls[IssuerOf[next.token.site]] = next.crl]
        BY <2>2 DEF RecordCrl
    <3> HIDE DEF next
    <3>5. /\ work'.crls = [work.crls EXCEPT ![IssuerOf[next.token.site]] =
                              next.crl]
          /\ work'.chains = work.chains
        BY <1>3, <3>4 DEF Files
    <3> QED
        BY <1>4, <3>3, <3>5 DEF Within
  <2>3. CASE ~RecordChain(p) /\ ~RecordCrl(p)
    <3>1. work' = work
        BY <2>3
        DEF StampStep, FixManifest, TsaReply, SiteYields, SiteTolerated,
            AcquireDone
    <3> QED
        BY <3>1 DEF Within
  <2> QED
      BY <2>1, <2>2, <2>3
<1>6. Remembered(p)'
  <2>1. TreeOf(head)' = TreeOf(head)
      BY <1>2 DEF TreeOf
  <2>2. pc[p] \in StampSteps \ {"list"} /\ pc'[p] \in StampSteps \ {"list"}
        /\ pc'[p] \notin {"refresh", "refreshCrl"}
      BY <1>2 DEF Fixed, StampSteps
  <2> QED
      BY <1>1, <1>2, <1>5, <2>1, <2>2 DEF Remembered, Within
<1> QED
    BY <1>2, <1>5, <1>6, GrowthKeepsRecords

LEMMA OverlaidRecords ==
    ASSUME NEW tree \in Files, NEW files \in Files, NEW new,
           new.chains = Overlay(tree.chains, files.chains),
           new.crls = Overlay(tree.crls, files.crls)
    PROVE  \A i \in Issuer :
               /\ new.chains[i] = IF tree.chains[i] # None THEN tree.chains[i]
                                  ELSE files.chains[i]
               /\ new.crls[i] = IF tree.crls[i] # None THEN tree.crls[i]
                                ELSE files.crls[i]
<1>1. DOMAIN tree.chains = Issuer /\ DOMAIN tree.crls = Issuer
    BY DEF Files, ChainFiles, CrlFiles
<1> QED
    BY <1>1, OverlaidFile

LEMMA CheckedOutRecords ==
    ASSUME NEW tree \in Files, NEW tracked, NEW files, NEW new,
           new.chains = CheckOut(tree, tracked, files).chains,
           new.crls = CheckOut(tree, tracked, files).crls
    PROVE  \A i \in Issuer :
               /\ new.chains[i] =
                      IF tree.chains[i] # None THEN tree.chains[i]
                      ELSE IF tracked.chains[i] # None THEN None
                      ELSE files.chains[i]
               /\ new.crls[i] =
                      IF tree.crls[i] # None THEN tree.crls[i]
                      ELSE IF tracked.crls[i] # None THEN None
                      ELSE files.crls[i]
<1>1. DOMAIN tree.chains = Issuer /\ DOMAIN tree.crls = Issuer
    BY DEF Files, ChainFiles, CrlFiles
<1>2. /\ new.chains = DirectoryAfter(tree.chains, tracked.chains, files.chains)
      /\ new.crls = DirectoryAfter(tree.crls, tracked.crls, files.crls)
    BY DEF CheckOut
<1> QED
    BY <1>1, <1>2, CheckedOutDirectory

LEMMA OverlayWithin ==
    ASSUME NEW tree \in Files, NEW files \in Files, NEW new,
           new.chains = Overlay(tree.chains, files.chains),
           new.crls = Overlay(tree.crls, files.crls)
    PROVE  /\ Within(tree, new) /\ Within(files, new)
           /\ \A more : Within(tree, more) /\ Within(files, more)
                            => Within(new, more)
<1>1. \A i \in Issuer :
          /\ new.chains[i] = IF tree.chains[i] # None THEN tree.chains[i]
                             ELSE files.chains[i]
          /\ new.crls[i] = IF tree.crls[i] # None THEN tree.crls[i]
                           ELSE files.crls[i]
    BY OverlaidRecords
<1> QED
    BY <1>1 DEF Within

LEMMA CheckOutWithin ==
    ASSUME NEW tree \in Files, NEW tracked, NEW files, NEW new,
           new.chains = CheckOut(tree, tracked, files).chains,
           new.crls = CheckOut(tree, tracked, files).crls
    PROVE  Within(tree, new)
<1>1. \A i \in Issuer :
          /\ tree.chains[i] # None => new.chains[i] = tree.chains[i]
          /\ tree.crls[i] # None => new.crls[i] = tree.crls[i]
  <2> DEFINE checked == CheckOut(tree, tracked, files)
  <2> SUFFICES ASSUME NEW i \in Issuer
               PROVE  /\ tree.chains[i] # None =>
                             checked.chains[i] = tree.chains[i]
                      /\ tree.crls[i] # None =>
                             checked.crls[i] = tree.crls[i]
      OBVIOUS
  <2> HIDE DEF checked
  <2> QED
      BY CheckedOutRecords DEF checked
<1> QED
    BY <1>1 DEF Within

LEMMA CheckoutStepKeepsRecords ==
    ASSUME Basis, Kept, NEW p \in Proc,
           CheckoutProceeds(p) \/ DropBegins(p) \/ CheckoutDies(p)
    PROVE  Kept'
<1>1. Acting(p) /\ UNCHANGED <<commits, head, listed, records>>
    BY DEF CheckoutProceeds, DropBegins, CheckoutDies, SyncStep, SyncOpen,
           SyncArtifacts, SyncRecords, SyncStale, SyncIndex, StageNothing,
           StageOpen, StageIndex, DropOpen, DropStep, DropIndex, DropManifest,
           DropTokens, CheckoutFails, stampingVars, jobVars
<1>2. /\ \A q \in Proc : q # p => pc'[q] = pc[q]
      /\ pc[p] \notin StampSteps /\ pc'[p] \notin StampSteps
  <2>1. CASE DropBegins(p)
      BY <2>1 DEF DropBegins, DropOpen, Step, StampSteps
  <2>2. CASE CheckoutDies(p)
      BY <2>2 DEF CheckoutDies, CheckoutFails, StampSteps, CheckoutSteps
  <2>3. CASE CheckoutProceeds(p)
    <3>1. PICK from, to : /\ Step(p, from, to)
                          /\ from \notin StampSteps /\ to \notin StampSteps
      <4>1. (Converging \cup Dropping \cup {"idle"}) \cap StampSteps = {}
          BY DEF Converging, SyncSteps, Dropping, StampSteps
      <4>2. PICK from \in Converging \cup Dropping,
                 to \in Converging \cup Dropping \cup {"idle"} :
                     Step(p, from, to)
          BY <2>3, CheckoutMoves DEF CheckoutProceeds
      <4> HIDE DEF Basis
      <4> QED
          BY <4>1, <4>2
    <3>2. /\ pc[p] = from /\ pc'[p] = to
          /\ \A q \in Proc : q # p => pc'[q] = pc[q]
        BY <3>1, StepSetsLabel
    <3> HIDE DEF Basis
    <3> QED
        BY <3>1, <3>2
  <2> QED
      BY <2>1, <2>2, <2>3
<1>3. Remembered(p)'
  <2>1. records[p] = NoRecords /\ listed[p] = {}
      BY <1>2 DEF Kept, Remembered, StampSteps
  <2>2. records'[p] = NoRecords /\ listed'[p] = {}
      BY <1>1, <2>1
  <2> QED
      BY <1>2, <2>2, NothingRecorded DEF Remembered, StampSteps
<1>4. /\ index \in Files /\ work \in Files /\ TreeOf(head) \in Files
      /\ TreeOf(head)' = TreeOf(head)
      /\ Within(index, work) /\ Within(TreeOf(head), work)
    BY <1>1, StoreTyping DEF TreeOf, Kept
<1>5. Within(TreeOf(head), work)' /\ Within(index, work)'
  <2>1. CASE SyncRecords(p)
    <3>1. /\ work' = [work EXCEPT
                         !.chains = Overlay(TreeOf(head).chains, @),
                         !.crls = Overlay(TreeOf(head).crls, @)]
          /\ index' = index
        BY <2>1
        DEF SyncRecords, Step, InPeace, Undisturbed, SyncSteps, Sealed
    <3>2. /\ work'.chains = Overlay(TreeOf(head).chains, work.chains)
          /\ work'.crls = Overlay(TreeOf(head).crls, work.crls)
        BY <1>4, <3>1 DEF Files
    <3>3. Within(work, work')
        BY <1>4, <3>2, OverlayWithin
    <3> QED
        BY <1>4, <3>1, <3>3 DEF Within
  <2>2. CASE SyncIndex(p)
    <3>1. idx[p] = index /\ Sealed(p) = TreeOf(head)
        BY <2>2 DEF SyncIndex, Step, InPeace, Undisturbed, SyncSteps, Sealed
    <3>2. index' = SyncedIndex(p) /\ work' = work
        BY <2>2, <3>1 DEF SyncIndex
    <3>3. /\ index'.chains = Overlay(TreeOf(head).chains, index.chains)
          /\ index'.crls = Overlay(TreeOf(head).crls, index.crls)
        BY <1>4, <3>1, <3>2 DEF SyncedIndex, Files
    <3> QED
      <4>1. /\ Within(index', work)
            /\ UNCHANGED <<work, TreeOf(head)>>
          BY <1>4, <3>2, <3>3, OverlayWithin
      <4> QED
          BY <1>4, <4>1 DEF Within
  <2>3. CASE StageIndex(p)
    <3>1. index' = StagedIndex /\ work' = work
        BY <2>3 DEF StageIndex, Step, InPeace, Undisturbed
    <3>2. /\ index'.chains = Overlay(work.chains, index.chains)
          /\ index'.crls = Overlay(work.crls, index.crls)
        BY <1>4, <3>1 DEF StagedIndex, Files
    <3> QED
      <4>1. Within(work, work)
          BY DEF Within
      <4>2. Within(index', work) /\ UNCHANGED <<work, TreeOf(head)>>
          BY <1>4, <3>1, <3>2, <4>1, OverlayWithin
      <4> QED
          BY <1>4, <4>2 DEF Within
  <2>4. CASE DropIndex(p)
    <3>1. index' = WithoutArtifacts(index) /\ work' = work
        BY <2>4 DEF DropIndex, Step, InPeace, Undisturbed
    <3>2. index'.chains = index.chains /\ index'.crls = index.crls
        BY <1>4, <3>1 DEF WithoutArtifacts, Files
    <3> QED
        BY <1>4, <3>1, <3>2 DEF Within
  <2>5. CASE SyncArtifacts(p) \/ SyncStale(p) \/ DropManifest(p) \/ DropTokens(p)
    <3>1. index' = index /\ work'.chains = work.chains /\ work'.crls = work.crls
        BY <1>4, <2>5
        DEF SyncArtifacts, SyncStale, DropManifest, DropTokens, Files
    <3> QED
        BY <1>4, <3>1 DEF Within
  <2>6. CASE SyncOpen(p) \/ StageNothing(p) \/ StageOpen(p) \/ DropOpen(p)
             \/ CheckoutFails(p)
    <3>1. index' = index /\ work' = work
        BY <2>6 DEF SyncOpen, StageNothing, StageOpen, DropOpen, CheckoutFails
    <3> QED
        BY <1>4, <3>1 DEF Within
  <2> QED
      BY <2>1, <2>2, <2>3, <2>4, <2>5, <2>6
      DEF CheckoutProceeds, DropBegins, CheckoutDies, SyncStep, DropStep
<1> QED
    BY <1>1, <1>2, <1>3, <1>5, KeptAlone

LEMMA UserKeepsRecords ==
    ASSUME Basis, Kept, UserActs
    PROVE  Kept'
<1>1. \A p \in Proc : /\ pc'[p] = "idle" /\ listed'[p] = {}
                      /\ records'[p] = NoRecords
  <2>1. UNCHANGED <<pc, listed, records>>
      BY DEF UserActs, UserStep, CommitEnd, Edit, AddAll, CommitBegin,
             CommitUnguarded, ResetHard, Restore, UserUnchanged, stampingVars,
             jobVars
  <2> QED
      BY <2>1 DEF UserActs, AllIdle, Kept, Remembered, StampSteps
<1>2. \A p \in Proc : Remembered(p)'
    BY <1>1, NothingRecorded DEF Remembered, StampSteps
<1>3. /\ index \in Files /\ work \in Files /\ TreeOf(head) \in Files
      /\ Within(index, work) /\ Within(TreeOf(head), work)
    BY StoreTyping DEF Kept
<1>4. Within(TreeOf(head), work)' /\ Within(index, work)'
  <2>1. ASSUME NEW c \in Content, Edit(c)
        PROVE  Within(TreeOf(head), work)' /\ Within(index, work)'
    <3>1. /\ index'.chains = index.chains /\ index'.crls = index.crls
          /\ work'.chains = work.chains /\ work'.crls = work.crls
          /\ TreeOf(head)' = TreeOf(head)
        BY <1>3, <2>1 DEF Edit, Files, TreeOf
    <3> QED
        BY <1>3, <3>1 DEF Within
  <2>2. CASE AddAll \/ CommitBegin
    <3>1. /\ index' = work \/ index' = index
          /\ work' = work /\ TreeOf(head)' = TreeOf(head)
        BY <2>2 DEF AddAll, CommitBegin, TreeOf
    <3> QED
        BY <1>3, <3>1 DEF Within
  <2>3. ASSUME NEW others \in SUBSET (DOMAIN commits), Committed(others),
               UNCHANGED <<index, work>>
        PROVE  Within(TreeOf(head), work)' /\ Within(index, work)'
    <3>1. TreeOf(head)' = index
        BY <2>3, CommittedAppends DEF TreeOf
    <3> QED
        BY <1>3, <2>3, <3>1 DEF Within
  <2>4. CASE CommitEnd \/ CommitUnguarded
    <3>1. \/ UNCHANGED <<commits, head, index, work>>
          \/ /\ \E others \in SUBSET (DOMAIN commits) : Committed(others)
             /\ UNCHANGED <<index, work>>
        BY <2>4 DEF CommitEnd, CommitUnguarded
    <3>2. CASE UNCHANGED <<commits, head, index, work>>
        BY <1>3, <3>2 DEF Within, TreeOf
    <3> QED
        BY <2>3, <3>1, <3>2
  <2>5. ASSUME NEW c \in DOMAIN commits, ResetHard(c)
        PROVE  Within(TreeOf(head), work)' /\ Within(index, work)'
    <3>1. /\ TreeOf(head)' = TreeOf(c) /\ index' = TreeOf(c)
          /\ work' = CheckOut(TreeOf(c), index, work)
        BY <2>5 DEF ResetHard, TreeOf
    <3>2. TreeOf(c) \in Files
        BY StoreTyping
    <3>3. Within(TreeOf(c), work')
        BY <3>1, <3>2, CheckOutWithin
    <3> QED
        BY <3>1, <3>3 DEF Within
  <2>6. CASE Restore
    <3>1. /\ TreeOf(head)' = TreeOf(head)
          /\ index'.chains = TreeOf(head).chains
          /\ index'.crls = TreeOf(head).crls
        BY <1>3, <2>6 DEF Restore, TreeOf, Files
    <3>2. /\ work'.chains = CheckOut(TreeOf(head), index, work).chains
          /\ work'.crls = CheckOut(TreeOf(head), index, work).crls
        BY <2>6 DEF Restore, CheckOut
    <3>3. Within(TreeOf(head), work')
        BY <1>3, <3>2, CheckOutWithin
    <3> QED
        BY <3>1, <3>3 DEF Within
  <2> QED
      BY <2>1, <2>2, <2>4, <2>5, <2>6 DEF UserActs, UserStep
<1> QED
    BY <1>2, <1>4 DEF Kept

LEMMA KeptNext ==
    ASSUME Exclusive, Basis, Kept, [Next]_vars
    PROVE  Kept'
<1>1. ASSUME NEW p \in Proc, StampProceeds(p)
      PROVE  Kept'
  <2>1. Acting(p) /\ StampStep(p)
      BY <1>1 DEF StampProceeds
  <2>2. CASE Refuse(p)
      BY <2>1, <2>2, StopKeepsRecords DEF Refuse
  <2> QED
      BY <2>1, <2>2, SealKeepsRecords, RefreshKeepsRecords, ListKeepsRecords,
         AcquisitionKeepsRecords
<1>2. ASSUME NEW p \in Proc, StampBegins(p) \/ StampDies(p)
      PROVE  Kept'
    BY <1>2, ListKeepsRecords, StopKeepsRecords
    DEF StampBegins, StampDies, StampFails
<1>3. CASE World \/ UNCHANGED vars
  <2>1. UNCHANGED <<commits, head, index, work, pc, listed, records>>
      BY <1>3
      DEF World, TimePasses, Tick, Publish, Rotate, vars, stampingVars, jobVars
  <2> QED
      BY <2>1 DEF Kept, Within, Remembered, TreeOf
<1> QED
    BY <1>1, <1>2, <1>3, CheckoutStepKeepsRecords, UserKeepsRecords,
       StepsAlone DEF InPeace

LEMMA KeptInitially == Init => Kept
<1> SUFFICES ASSUME Init
             PROVE  Kept
    OBVIOUS
<1>1. \A p \in Proc : /\ pc[p] = "idle" /\ listed[p] = {}
                      /\ records[p] = NoRecords
    BY DEF Init, StampingInit
<1>2. \A p \in Proc : Remembered(p)
    BY <1>1, NothingRecorded DEF Remembered, StampSteps
<1>3. work = index /\ TreeOf(head) = index
    BY FirstTree DEF Init
<1> QED
    BY <1>2, <1>3 DEF Kept, Within

LEMMA KeptAlways ==
    ASSUME Exclusive
    PROVE  Spec => [](Basis /\ Kept)
<1>1. Basis /\ Kept /\ [Next]_vars => Kept'
    BY KeptNext
<1> QED
    BY <1>1, KeptInitially, BasisAlways, PTL DEF Spec

-----------------------------------------------------------------------------
(***************************************************************************)
(* Records on a branch.  Unless a convergence is cut short, the index has  *)
(* a record wherever HEAD has one, so that an ordinary commit keeps them.  *)
(***************************************************************************)
Permanent ==
    (\A p \in Proc : pc[p] \notin {"sync"} \cup SyncSteps) =>
        Within(TreeOf(head), index)

LEMMA CheckoutKeepsPermanent ==
    ASSUME Basis, Permanent, NEW p \in Proc,
           CheckoutProceeds(p) \/ DropBegins(p)
    PROVE  Permanent'
<1>1. Acting(p) /\ UNCHANGED <<commits, head>>
    BY DEF CheckoutProceeds, DropBegins, SyncStep, SyncOpen, SyncArtifacts,
           SyncRecords, SyncStale, SyncIndex, StageNothing, StageOpen,
           StageIndex, DropOpen, DropStep, DropIndex, DropManifest, DropTokens
<1>2. /\ index \in Files /\ work \in Files /\ TreeOf(head) \in Files
      /\ TreeOf(head)' = TreeOf(head)
    BY <1>1, StoreTyping DEF TreeOf
<1>3. CASE SyncOpen(p) \/ SyncArtifacts(p) \/ SyncRecords(p) \/ SyncStale(p)
  <2>1. pc'[p] \in SyncSteps
      BY <1>3
      DEF SyncOpen, SyncArtifacts, SyncRecords, SyncStale, Step, SyncSteps
  <2> QED
      BY <2>1 DEF Permanent
<1>4. CASE SyncIndex(p)
  <2>1. idx[p] = index /\ Sealed(p) = TreeOf(head)
      BY <1>4 DEF SyncIndex, Step, InPeace, Undisturbed, SyncSteps, Sealed
  <2>2. index' = SyncedIndex(p)
      BY <1>4, <2>1 DEF SyncIndex
  <2>3. /\ index'.chains = Overlay(TreeOf(head).chains, index.chains)
        /\ index'.crls = Overlay(TreeOf(head).crls, index.crls)
      BY <1>2, <2>1, <2>2 DEF SyncedIndex, Files
  <2>4. Within(TreeOf(head), index')
      BY <1>2, <2>3, OverlayWithin
  <2> QED
      BY <1>2, <2>4 DEF Permanent, Within
<1>5. ASSUME Within(index, index'), pc[p] \notin {"sync"} \cup SyncSteps
      PROVE  Permanent'
  <2>1. Within(TreeOf(head), index)
      BY <1>1, <1>5 DEF Permanent, Acting, SyncSteps
  <2> QED
      BY <1>2, <1>5, <2>1 DEF Permanent, Within
<1>6. CASE StageIndex(p)
  <2>1. index' = StagedIndex
      BY <1>6 DEF StageIndex, Step, InPeace, Undisturbed
  <2>2. /\ index'.chains = Overlay(work.chains, index.chains)
        /\ index'.crls = Overlay(work.crls, index.crls)
      BY <1>2, <2>1 DEF StagedIndex, Files
  <2>3. Within(index, index')
      BY <1>2, <2>2, OverlayWithin
  <2> QED
      BY <1>5, <1>6, <2>3 DEF StageIndex, Step, SyncSteps
<1>7. CASE DropIndex(p)
  <2>1. index' = WithoutArtifacts(index)
      BY <1>7 DEF DropIndex, Step, InPeace, Undisturbed
  <2>2. index'.chains = index.chains /\ index'.crls = index.crls
      BY <1>2, <2>1 DEF WithoutArtifacts, Files
  <2>3. Within(index, index')
      BY <2>2 DEF Within
  <2> QED
      BY <1>5, <1>7, <2>3 DEF DropIndex, Step, SyncSteps
<1>8. CASE StageNothing(p) \/ StageOpen(p) \/ DropOpen(p) \/ DropManifest(p)
           \/ DropTokens(p)
  <2>1. index' = index /\ pc[p] \notin {"sync"} \cup SyncSteps
      BY <1>8
      DEF StageNothing, StageOpen, DropOpen, DropManifest, DropTokens, Step,
          SyncSteps
  <2>2. Within(index, index')
      BY <2>1 DEF Within
  <2> QED
      BY <1>5, <2>1, <2>2
<1> QED
    BY <1>3, <1>4, <1>6, <1>7, <1>8
    DEF CheckoutProceeds, DropBegins, SyncStep, DropStep

LEMMA FlowKeepsPermanent ==
    ASSUME Basis, Permanent, NEW p \in Proc,
           StampBegins(p) \/ StampProceeds(p) \/ StampDies(p)
    PROVE  Permanent'
<1>1. Acting(p)
    BY DEF StampBegins, StampProceeds, StampDies
<1>2. CASE Seal(p)
    BY <1>2 DEF Seal, Step, Permanent
<1>3. CASE ~Seal(p)
  <2>1. pc[p] \in {"idle"} \cup StampSteps
        /\ UNCHANGED <<commits, head, index>>
    <3>1. CASE StampBegins(p) \/ StampDies(p)
        BY <3>1
        DEF StampBegins, StampBegin, StampDies, StampFails, Stop, Step,
            StampSteps
    <3>2. CASE Refuse(p)
        BY <3>2
        DEF Refuse, Refuses, RecordIsGone, TokenIsRefused, NothingAcquired,
            BranchMoved, Stop, StampSteps
    <3>3. CASE StampStep(p) /\ ~Refuse(p)
        BY <1>3, <3>3, StampStepGoesOn
    <3> QED
        BY <3>1, <3>2, <3>3 DEF StampProceeds
  <2>2. Within(TreeOf(head), index)
      BY <1>1, <2>1 DEF Permanent, Acting, StampSteps, SyncSteps
  <2> QED
      BY <2>1, <2>2 DEF Permanent, Within, TreeOf
<1> QED
    BY <1>2, <1>3

LEMMA UserKeepsPermanent ==
    ASSUME Basis, Kept, Permanent, UserActs
    PROVE  Permanent'
<1>1. /\ index \in Files /\ work \in Files /\ TreeOf(head) \in Files
      /\ Within(TreeOf(head), index) /\ Within(TreeOf(head), work)
    BY StoreTyping DEF UserActs, AllIdle, Permanent, Kept, SyncSteps
<1> SUFFICES Within(TreeOf(head), index)'
    BY DEF Permanent
<1>2. ASSUME NEW c \in Content, Edit(c)
      PROVE  Within(TreeOf(head), index)'
  <2>1. /\ index'.chains = index.chains /\ index'.crls = index.crls
        /\ TreeOf(head)' = TreeOf(head)
      BY <1>1, <1>2 DEF Edit, Files, TreeOf
  <2> QED
      BY <1>1, <2>1 DEF Within
<1>3. CASE AddAll \/ CommitBegin
  <2>1. (index' = work \/ index' = index) /\ TreeOf(head)' = TreeOf(head)
      BY <1>3 DEF AddAll, CommitBegin, TreeOf
  <2> QED
      BY <1>1, <2>1 DEF Within
<1>4. ASSUME NEW others \in SUBSET (DOMAIN commits), Committed(others),
             UNCHANGED index
      PROVE  Within(TreeOf(head), index)'
  <2>1. TreeOf(head)' = index'
      BY <1>4, CommittedAppends DEF TreeOf
  <2> QED
      BY <2>1 DEF Within
<1>5. CASE CommitEnd \/ CommitUnguarded
  <2>1. \/ UNCHANGED <<commits, head, index>>
        \/ /\ \E others \in SUBSET (DOMAIN commits) : Committed(others)
           /\ UNCHANGED index
      BY <1>5 DEF CommitEnd, CommitUnguarded
  <2>2. CASE UNCHANGED <<commits, head, index>>
      BY <1>1, <2>2 DEF Within, TreeOf
  <2> QED
      BY <1>4, <2>1, <2>2
<1>6. ASSUME NEW c \in DOMAIN commits, ResetHard(c)
      PROVE  Within(TreeOf(head), index)'
  <2>1. TreeOf(head)' = index'
      BY <1>6 DEF ResetHard, TreeOf
  <2> QED
      BY <2>1 DEF Within
<1>7. CASE Restore
  <2>1. /\ TreeOf(head)' = TreeOf(head)
        /\ index'.chains = TreeOf(head).chains
        /\ index'.crls = TreeOf(head).crls
      BY <1>1, <1>7 DEF Restore, TreeOf, Files
  <2> QED
      BY <2>1 DEF Within
<1> QED
    BY <1>2, <1>3, <1>5, <1>6, <1>7 DEF UserActs, UserStep

LEMMA PermanentNext ==
    ASSUME Exclusive, Faults \cap ({"sync"} \cup SyncSteps) = {}, Basis, Kept,
           Permanent, [Next]_vars
    PROVE  Permanent'
<1>1. ASSUME NEW p \in Proc, CheckoutDies(p)
      PROVE  Permanent'
  <2>1. Acting(p) /\ pc[p] \notin {"sync"} \cup SyncSteps
        /\ UNCHANGED <<commits, head, index>>
      BY <1>1 DEF CheckoutDies, CheckoutFails
  <2>2. Within(TreeOf(head), index)
      BY <2>1 DEF Permanent, Acting, SyncSteps
  <2> QED
      BY <2>1, <2>2 DEF Permanent, Within, TreeOf
<1>2. CASE World \/ UNCHANGED vars
  <2>1. UNCHANGED <<commits, head, index, pc>>
      BY <1>2 DEF World, TimePasses, Tick, Publish, Rotate, vars
  <2> QED
      BY <2>1 DEF Permanent, Within, TreeOf
<1> QED
    BY <1>1, <1>2, FlowKeepsPermanent, CheckoutKeepsPermanent,
       UserKeepsPermanent, StepsAlone DEF InPeace

\* A commit on one parent, written where HEAD was.
LEMMA OneParent ==
    ASSUME Consistent, NEW others \in SUBSET (DOMAIN commits),
           Cardinality({head} \cup others) = 1, NEW q \in {head} \cup others
    PROVE  q = head
<1>1. IsFiniteSet({head} \cup others)
  <2>1. IsFiniteSet(1..Len(commits)) /\ DOMAIN commits = 1..Len(commits)
      BY StoreTyping, FS_Interval
  <2>2. {head} \cup others \subseteq 1..Len(commits)
      BY <2>1
  <2> QED
      BY <2>1, <2>2, FS_Subset
<1>2. PICK x : {head} \cup others = {x}
    BY <1>1, FS_Singleton
<1>3. head \in {x} /\ q \in {x}
    BY <1>2
<1> QED
    BY <1>3

\* LTV records are permanent along a branch: a commit on one parent, sealed,
\* ordinary or amended, has a record wherever its parent has one, as long as
\* no convergence is cut short between the seal and the writing of the index.
THEOREM RecordsStay ==
    ASSUME Exclusive, Faults \cap ({"sync"} \cup SyncSteps) = {}
    PROVE  Spec => []RecordsArePermanent
<1> DEFINE Ones == \A c \in DOMAIN commits : \A q \in commits[c].parents :
                       Cardinality(commits[c].parents) = 1 =>
                           Within(TreeOf(q), TreeOf(c))
<1>1. Ones => RecordsArePermanent
    BY DEF RecordsArePermanent, Within
<1>2. Init => Permanent /\ Ones
  <2> SUFFICES ASSUME Init
               PROVE  Permanent /\ Ones
      OBVIOUS
  <2>1. TreeOf(head) = index /\ \A c \in DOMAIN commits : commits[c].parents = {}
      BY FirstTree DEF Init
  <2> QED
      BY <2>1 DEF Permanent, Within
<1>3. Basis /\ Kept /\ Permanent /\ Ones /\ [Next]_vars => Permanent' /\ Ones'
  <2> SUFFICES ASSUME Basis, Kept, Permanent, Ones, [Next]_vars
               PROVE  Ones'
      BY PermanentNext
  <2>1. Grows
      BY StoreAndTableGrow
  <2>2. ASSUME NEW c \in DOMAIN commits', NEW q \in commits'[c].parents,
               Cardinality(commits'[c].parents) = 1
        PROVE  Within(TreeOf(q), TreeOf(c))'
    <3>1. CASE c \in DOMAIN commits
      <4>1. commits'[c] = commits[c] /\ q \in DOMAIN commits
          BY <2>1, <2>2, <3>1, ParentsAreThere DEF Grows
      <4>2. TreeOf(q)' = TreeOf(q) /\ TreeOf(c)' = TreeOf(c)
          BY <2>1, <3>1, <4>1 DEF Grows, TreeOf
      <4>3. Within(TreeOf(q), TreeOf(c))
          BY <2>2, <3>1, <4>1
      <4> QED
          BY <4>2, <4>3 DEF Within
    <3>2. ASSUME NEW p \in Proc, Seal(p), c \notin DOMAIN commits
          PROVE  Within(TreeOf(q), TreeOf(c))'
      <4>1. /\ DOMAIN commits' = DOMAIN commits \cup {Len(commits) + 1}
            /\ commits'[Len(commits) + 1].tree = StampTree(p)
            /\ commits'[Len(commits) + 1].parents = StampParents(p)
            /\ base[p] \in DOMAIN commits
          BY <3>2, SealAppends
      <4>2. TreeOf(c)' = StampTree(p) /\ commits'[c].parents = StampParents(p)
          BY <3>2, <4>1 DEF TreeOf
      <4>3. Within(TreeOf(base[p]), StampTree(p))
        <5>1. /\ TreeOf(base[p]) \in Files
              /\ records[p] \in Records
            BY <4>1, StoreTyping
        <5>2. \A i \in Issuer :
                  /\ StampTree(p).chains[i] =
                         IF records[p].chains[i] # None
                         THEN records[p].chains[i]
                         ELSE TreeOf(base[p]).chains[i]
                  /\ StampTree(p).crls[i] =
                         IF records[p].crls[i] # None THEN records[p].crls[i]
                         ELSE TreeOf(base[p]).crls[i]
            BY <4>1, StampTreeFile
        <5> QED
            BY <5>2 DEF Within
      <4>4. q \in DOMAIN commits /\ TreeOf(q)' = TreeOf(q)
          BY <2>1, <2>2, <4>1, <4>2, ParentsAreThere DEF Grows, TreeOf
      <4>5. CASE amend[p]
        <5>1. StampParents(p) = commits[base[p]].parents
            BY <4>5 DEF StampParents
        <5>2. Within(TreeOf(q), TreeOf(base[p]))
            BY <2>2, <4>1, <4>2, <5>1
        <5> QED
            BY <4>2, <4>3, <4>4, <5>2 DEF Within
      <4>6. CASE ~amend[p]
        <5>1. q = base[p]
            BY <2>2, <4>2, <4>6 DEF StampParents
        <5> QED
            BY <4>2, <4>3, <4>4, <5>1 DEF Within
      <4> QED
          BY <4>5, <4>6
    <3>3. ASSUME NEW others \in SUBSET (DOMAIN commits), Committed(others),
                 UserActs, c \notin DOMAIN commits
          PROVE  Within(TreeOf(q), TreeOf(c))'
      <4>1. /\ DOMAIN commits' = DOMAIN commits \cup {Len(commits) + 1}
            /\ commits'[Len(commits) + 1].tree = index
            /\ commits'[Len(commits) + 1].parents = {head} \cup others
          BY <3>3, CommittedAppends
      <4>2. TreeOf(c)' = index /\ commits'[c].parents = {head} \cup others
          BY <3>3, <4>1 DEF TreeOf
      <4>3. q = head
          BY <2>2, <4>2, OneParent
      <4>4. TreeOf(q)' = TreeOf(head)
          BY <2>1, <4>3 DEF Grows, TreeOf
      <4>5. Within(TreeOf(head), index)
          BY <3>3 DEF UserActs, AllIdle, Permanent, SyncSteps
      <4> QED
          BY <4>2, <4>4, <4>5 DEF Within
    <3> QED
        BY <2>2, <3>1, <3>2, <3>3, NewCommits DEF ResetHard
  <2> QED
      BY <2>2
<1> HIDE DEF Ones
<1> QED
    BY <1>1, <1>2, <1>3, KeptAlways, PTL DEF Spec

-----------------------------------------------------------------------------
(***************************************************************************)
(* A steady world.  The clock only moves between invocations, and only     *)
(* while every published CRL stays current; so whatever an invocation has  *)
(* fetched, received or acquired is as of now.                             *)
(***************************************************************************)
Timely(p) ==
    /\ pc[p] # "verify" => reply[p] = None
    /\ reply[p] # None => reply[p].genTime = now
    /\ \A i \in Issuer : records[p].crls[i] # None =>
           Decides(records[p].crls[i], now)
    /\ \A k \in DOMAIN acquired[p] :
           /\ acquired[p][k].token.genTime = now
           /\ Decides(acquired[p][k].crl, now)

Fresh ==
    /\ \A i \in Issuer : Decides(crl[i], now)
    /\ \A p \in Proc : Timely(p)

\* A step of one invocation, at one moment.
LEMMA FreshAlone ==
    ASSUME Fresh, NEW p \in Proc, UNCHANGED worldVars, Timely(p)',
           \A q \in Proc : q # p => /\ pc'[q] = pc[q]
                                    /\ reply'[q] = reply[q]
                                    /\ records'[q] = records[q]
                                    /\ acquired'[q] = acquired[q]
    PROVE  Fresh'
<1>1. ASSUME NEW q \in Proc, q # p
      PROVE  Timely(q)'
    BY <1>1 DEF Fresh, Timely, Decides
<1>2. \A i \in Issuer : Decides(crl[i], now)'
    BY DEF Fresh, Decides
<1> QED
    BY <1>1, <1>2 DEF Fresh

LEMMA StopKeepsFresh ==
    ASSUME Basis, Fresh, NEW p \in Proc, ResetJob(p),
           pc'[p] # "verify", UNCHANGED worldVars,
           \A q \in Proc : q # p => pc'[q] = pc[q]
    PROVE  Fresh'
<1>1. reply'[p] = None /\ records'[p] = NoRecords /\ acquired'[p] = <<>>
    BY DEF ResetJob
<1>2. Timely(p)'
    BY <1>1, NothingRecorded DEF Timely
<1>3. \A q \in Proc : q # p => /\ reply'[q] = reply[q]
                               /\ records'[q] = records[q]
                               /\ acquired'[q] = acquired[q]
    BY DEF ResetJob
<1> QED
    BY <1>2, <1>3, FreshAlone

LEMMA FlowKeepsFresh ==
    ASSUME Basis, Fresh, NEW p \in Proc, StampStep(p), ~Seal(p), ~Refuse(p)
    PROVE  Fresh'
<1>1. Timely(p) /\ \A i \in Issuer : Decides(crl[i], now)
    BY DEF Fresh
<1>2. ASSUME NEW i \in Issuer, RefreshFetch(p, i)
      PROVE  Fresh'
  <2>1. records[p] \in Records /\ crl[i] \in Crl
      OBVIOUS
  <2>2. /\ pc[p] = "refresh" /\ pc' = [pc EXCEPT ![p] = "refreshCrl"]
        /\ records' = [records EXCEPT ![p].chains[i] = work.chains[i],
                                      ![p].crls[i] = crl[i]]
        /\ UNCHANGED <<worldVars, reply, acquired>>
      BY <1>2 DEF RefreshFetch, Step
  <2>3. records'[p].crls = [records[p].crls EXCEPT ![i] = crl[i]]
      BY <2>1, <2>2 DEF Records
  <2>4. \A j \in Issuer : records'[p].crls[j] \in {records[p].crls[j], crl[i]}
      BY <2>1, <2>3 DEF Records, CrlFiles
  <2>5. Timely(p)'
      BY <1>1, <2>2, <2>4 DEF Timely, Decides
  <2>6. \A q \in Proc : q # p => pc'[q] = pc[q] /\ records'[q] = records[q]
      BY <2>2
  <2> QED
      BY <2>2, <2>5, <2>6, FreshAlone
<1>3. CASE TsaReply(p)
  <2>1. PICK genuine \in BOOLEAN :
            reply' = [reply EXCEPT ![p] =
                [site |-> Head(sites[p]), gen |-> gen[Head(sites[p])],
                 imprint |-> fixed[p], genTime |-> now,
                 genuine |-> genuine]]
      BY <1>3 DEF TsaReply
  <2>2. reply'[p].genTime = now
      BY <2>1
  <2>3. /\ pc' = [pc EXCEPT ![p] = "verify"]
        /\ UNCHANGED <<worldVars, records, acquired>>
        /\ \A q \in Proc : q # p => pc'[q] = pc[q] /\ reply'[q] = reply[q]
      BY <1>3 DEF TsaReply, Step
  <2>4. Timely(p)'
      BY <1>1, <2>2, <2>3 DEF Timely, Decides
  <2> QED
      BY <2>3, <2>4, FreshAlone
<1>4. CASE SiteYields(p)
  <2> DEFINE issuer == IssuerOf[reply[p].site]
             yield == [token |-> reply[p], crl |-> crl[issuer]]
  <2>1. acquired' = [acquired EXCEPT ![p] = Append(@, yield)]
      BY <1>4 DEF SiteYields
  <2>2. /\ reply[p] \in Token /\ reply[p].site \in Site
        /\ issuer \in Issuer /\ reply[p] # None
    <3>1. reply[p] \in Token /\ reply[p] # None
        BY <1>4 DEF SiteYields, Step
    <3> QED
        BY <3>1, RepositoryAssumption DEF Token
  <2>3. yield \in Acquired
      BY <2>2 DEF Acquired
  <2>4. \A k \in DOMAIN acquired'[p] :
            acquired'[p][k] = yield \/ \E j \in DOMAIN acquired[p] :
                                           acquired'[p][k] = acquired[p][j]
    <3> HIDE DEF yield
    <3>1. acquired'[p] = Append(acquired[p], yield)
        BY <2>1
    <3>2. acquired[p] \in Seq(Acquired)
        OBVIOUS
    <3> QED
        BY <2>3, <3>1, <3>2
  <2>5. yield.token.genTime = now /\ Decides(yield.crl, now)
      BY <1>1, <2>2 DEF Timely
  <2>6. /\ pc' = [pc EXCEPT ![p] = "acquire"]
        /\ reply' = [reply EXCEPT ![p] = None]
        /\ UNCHANGED <<worldVars, records>>
      BY <1>4 DEF SiteYields, Step
  <2> HIDE DEF yield
  <2>7. ASSUME NEW k \in DOMAIN acquired'[p]
        PROVE  /\ acquired'[p][k].token.genTime = now
               /\ Decides(acquired'[p][k].crl, now)
      BY <1>1, <2>4, <2>5 DEF Timely
  <2>8. reply'[p] = None /\ pc'[p] = "acquire"
      BY <2>6
  <2>9. Timely(p)'
      BY <1>1, <2>6, <2>7, <2>8 DEF Timely, Decides
  <2>10. \A q \in Proc : q # p => /\ pc'[q] = pc[q]
                                  /\ reply'[q] = reply[q]
                                  /\ acquired'[q] = acquired[q]
      BY <2>1, <2>6
  <2> QED
      BY <2>6, <2>9, <2>10, FreshAlone
<1>5. CASE SiteTolerated(p)
  <2>1. /\ pc' = [pc EXCEPT ![p] = "acquire"]
        /\ reply' = [reply EXCEPT ![p] = None]
        /\ UNCHANGED <<worldVars, records, acquired>>
      BY <1>5 DEF SiteTolerated
  <2>2. reply'[p] = None
      BY <2>1
  <2>3. Timely(p)'
      BY <1>1, <2>1, <2>2 DEF Timely, Decides
  <2>4. \A q \in Proc : q # p => pc'[q] = pc[q] /\ reply'[q] = reply[q]
      BY <2>1
  <2> QED
      BY <2>1, <2>3, <2>4, FreshAlone
<1>6. ASSUME UNCHANGED <<worldVars, reply, records, acquired>>,
             pc[p] # "verify", \A q \in Proc : q # p => pc'[q] = pc[q]
      PROVE  Fresh'
  <2>1. Timely(p)'
      BY <1>1, <1>6 DEF Timely, Decides
  <2> QED
      BY <1>6, <2>1, FreshAlone
<1>7. CASE RefreshList(p) \/ FixManifest(p) \/ AcquireDone(p)
           \/ RecordChain(p) \/ RecordCrl(p)
    BY <1>6, <1>7
    DEF RefreshList, FixManifest, AcquireDone, RecordChain, RecordCrl, Step,
        stampingVars, jobVars
<1>8. ASSUME NEW i \in Issuer, RefreshWrite(p, i)
      PROVE  Fresh'
    BY <1>6, <1>8 DEF RefreshWrite, Step
<1> QED
    BY <1>2, <1>3, <1>4, <1>5, <1>7, <1>8 DEF StampStep

\* Between invocations nothing is remembered that could grow old.
LEMMA TimeKeepsFresh ==
    ASSUME Steady, Basis, Kept, Fresh, TimePasses
    PROVE  Fresh'
<1>1. /\ \A p \in Proc : pc[p] = "idle"
      /\ \A i \in Issuer : Decides(crl[i], now + 1)
      /\ now' = now + 1
      /\ UNCHANGED <<pc, reply, records, acquired, crl>>
    BY DEF TimePasses, Tick, Quiet, jobVars
<1>2. \A i \in Issuer : Decides(crl[i], now)'
    BY <1>1 DEF Decides
<1>3. ASSUME NEW p \in Proc
      PROVE  Timely(p)'
  <2>1. records[p] = NoRecords
      BY <1>1 DEF Kept, Remembered, StampSteps
  <2>2. acquired[p] = <<>>
      BY <1>1 DEF Evidence, Promise, Fixed
  <2>3. reply[p] = None
      BY <1>1 DEF Fresh, Timely
  <2> QED
      BY <1>1, <2>1, <2>2, <2>3, NothingRecorded DEF Timely
<1> QED
    BY <1>2, <1>3 DEF Fresh

LEMMA FreshNext ==
    ASSUME Exclusive, Steady, Basis, Kept, Fresh, [Next]_vars
    PROVE  Fresh'
<1>1. ASSUME NEW p \in Proc, StampProceeds(p)
      PROVE  Fresh'
  <2>1. CASE Seal(p) \/ Refuse(p)
      BY <2>1, StopKeepsFresh DEF Seal, Refuse, Stop, Step
  <2> QED
      BY <1>1, <2>1, FlowKeepsFresh DEF StampProceeds
<1>2. ASSUME NEW p \in Proc, StampDies(p)
      PROVE  Fresh'
    BY <1>2, StopKeepsFresh DEF StampDies, StampFails, Stop
<1>3. ASSUME UNCHANGED <<worldVars, reply, records, acquired>>,
             \A p \in Proc : pc[p] = "verify" => pc'[p] = "verify"
      PROVE  Fresh'
    BY <1>3 DEF Fresh, Timely, Decides
<1>4. ASSUME NEW p \in Proc,
             StampBegins(p) \/ DropBegins(p) \/ CheckoutProceeds(p)
                 \/ CheckoutDies(p)
      PROVE  Fresh'
  <2>1. UNCHANGED <<worldVars, reply, records, acquired>>
      BY <1>4
      DEF StampBegins, StampBegin, DropBegins, CheckoutProceeds, CheckoutDies,
          DropFrame, stampingVars, jobVars
  <2>2. CASE StampBegins(p) \/ DropBegins(p)
      BY <1>3, <2>1, <2>2
      DEF StampBegins, StampBegin, DropBegins, DropOpen, AllIdle
  <2>3. CASE CheckoutDies(p)
      BY <1>3, <2>1, <2>3 DEF CheckoutDies, CheckoutFails, CheckoutSteps
  <2>4. CASE CheckoutProceeds(p)
    <3>1. pc[p] # "verify" /\ \A q \in Proc : q # p => pc'[q] = pc[q]
        BY <2>4
        DEF CheckoutProceeds, SyncStep, SyncOpen, SyncArtifacts, SyncRecords,
            SyncStale, SyncIndex, StageNothing, StageOpen, StageIndex,
            DropStep, DropIndex, DropManifest, DropTokens, Step
    <3> QED
        BY <1>3, <2>1, <3>1
  <2> QED
      BY <1>4, <2>2, <2>3, <2>4
<1>5. CASE UserActs
  <2>1. UNCHANGED <<worldVars, reply, records, acquired, pc>>
      BY <1>5
      DEF UserActs, UserStep, CommitEnd, Edit, AddAll, CommitBegin,
          CommitUnguarded, ResetHard, Restore, UserUnchanged, stampingVars,
          jobVars
  <2> QED
      BY <1>3, <2>1
<1>6. ASSUME NEW i \in Issuer, Publish(i)
      PROVE  Fresh'
  <2>1. /\ crl' = [crl EXCEPT ![i] = now]
        /\ UNCHANGED <<now, pc, reply, records, acquired>>
      BY <1>6 DEF Publish, jobVars
  <2>2. Decides(now, now)
      BY StampingAssumption DEF Decides
  <2> QED
      BY <2>1, <2>2 DEF Fresh, Timely, Decides
<1>7. ASSUME NEW s \in Site, Rotate(s)
      PROVE  Fresh'
    BY <1>7 DEF Rotate, Fresh, Timely, Decides, jobVars
<1>8. CASE UNCHANGED vars
    BY <1>3, <1>8 DEF vars, stampingVars, jobVars
<1> QED
    BY <1>1, <1>2, <1>4, <1>5, <1>6, <1>7, <1>8, TimeKeepsFresh, StepsAlone
    DEF InPeace, World

LEMMA FreshInitially == Init => Fresh
<1> SUFFICES ASSUME Init
             PROVE  Fresh
    OBVIOUS
<1>1. \A p \in Proc : /\ reply[p] = None /\ records[p] = NoRecords
                      /\ acquired[p] = <<>>
    BY DEF Init, StampingInit
<1>2. \A p \in Proc : Timely(p)
    BY <1>1, NothingRecorded DEF Timely
<1>3. \A i \in Issuer : Decides(crl[i], now)
    BY StampingAssumption DEF Init, StampingInit, Decides
<1> QED
    BY <1>2, <1>3 DEF Fresh

LEMMA FreshAlways ==
    ASSUME Exclusive, Steady
    PROVE  Spec => [](Basis /\ Kept /\ Fresh)
<1>1. Basis /\ Kept /\ Fresh /\ [Next]_vars => Fresh'
    BY FreshNext
<1> QED
    BY <1>1, FreshInitially, KeptAlways, PTL DEF Spec

\* A token of the tree a stamp seals is one the invocation acquired there.
LEMMA StampTreeTokens ==
    ASSUME Consistent, NEW p \in Proc, base[p] \in DOMAIN commits,
           NEW s \in Site, StampTree(p).tokens[s] # None
    PROVE  \E k \in DOMAIN acquired[p] :
               /\ StampTree(p).tokens[s] = acquired[p][k].token
               /\ acquired[p][k].token.site = s
<1> DEFINE Has == \E k \in DOMAIN acquired[p] : acquired[p][k].token.site = s
<1>1. ContentTree(p) \in Files
    BY ContentTreeTyping
<1>2. StampTree(p).tokens[s] =
          IF Has
          THEN LET k == CHOOSE k \in DOMAIN acquired[p] :
                            acquired[p][k].token.site = s
               IN  acquired[p][k].token
          ELSE None
    BY <1>1 DEF StampTree, Files
<1>3. Has
    BY <1>2
<1> DEFINE k == CHOOSE k \in DOMAIN acquired[p] :
                    acquired[p][k].token.site = s
<1>4. k \in DOMAIN acquired[p] /\ acquired[p][k].token.site = s
    BY <1>3
<1>5. StampTree(p).tokens[s] = acquired[p][k].token
    BY <1>2, <1>3
<1> HIDE DEF k
<1> QED
    BY <1>4, <1>5

\* A chain in the tree a stamp seals comes with the CRL the refresh fetched.
LEMMA SealedChainsHaveCrls ==
    ASSUME Basis, Kept, Fresh, NEW p \in Proc, Acting(p), Seal(p),
           NEW i \in Issuer, StampTree(p).chains[i] # None
    PROVE  /\ StampTree(p).crls[i] # None
           /\ Decides(StampTree(p).crls[i], now)
<1>1. base[p] \in DOMAIN commits /\ base[p] = head /\ pc[p] = "record"
    BY SealAppends DEF Seal, Step
<1>2. listed[p] = {}
    BY <1>1 DEF Kept, Remembered
<1>3. /\ StampTree(p).chains[i] =
             IF records[p].chains[i] # None THEN records[p].chains[i]
             ELSE TreeOf(head).chains[i]
      /\ StampTree(p).crls[i] =
             IF records[p].crls[i] # None THEN records[p].crls[i]
             ELSE TreeOf(head).crls[i]
    BY <1>1, StampTreeFile
<1>4. records[p].chains[i] # None
    BY <1>1, <1>2, <1>3 DEF Kept, Remembered, StampSteps
<1>5. records[p].crls[i] # None
    BY <1>4 DEF Kept, Remembered
<1> QED
    BY <1>3, <1>5 DEF Fresh, Timely

\* From its second use on a site's stamps are self-contained: a sealed tree
\* with the chain of one of its tokens holds a CRL that decides that token, in
\* a steady world used by one command at a time; whatever faults occur.
THEOREM SecondUse ==
    ASSUME Exclusive, Steady
    PROVE  Spec => []SecondUseIsSelfContained
<1> DEFINE SelfContained(files) ==
        \A s \in Site :
            /\ files.tokens[s] # None
            /\ files.chains[IssuerOf[s]] # None
            => /\ files.crls[IssuerOf[s]] # None
               /\ Decides(files.crls[IssuerOf[s]], files.tokens[s].genTime)
           All == \A c \in DOMAIN commits :
                      commits[c].sealed => SelfContained(TreeOf(c))
<1>1. Basis /\ All => SecondUseIsSelfContained
  <2> SUFFICES ASSUME Basis, All, NEW c \in DOMAIN commits,
                      commits[c].sealed, NEW s \in Site,
                      TreeOf(c).tokens[s] # None,
                      TreeOf(c).chains[IssuerOf[s]] =
                          [site |-> s, gen |-> TreeOf(c).tokens[s].gen]
               PROVE  /\ TreeOf(c).crls[IssuerOf[s]] # None
                      /\ Decides(TreeOf(c).crls[IssuerOf[s]],
                                 TreeOf(c).tokens[s].genTime)
      BY DEF SecondUseIsSelfContained
  <2>1. TreeOf(c).tokens[s] \in Token
    <3>1. TreeOf(c) \in Files
        BY StoreTyping
    <3> QED
        BY <3>1 DEF Files, TokenFiles
  <2>2. [site |-> s, gen |-> TreeOf(c).tokens[s].gen] \in Chain
      BY <2>1 DEF Token, Chain
  <2>3. TreeOf(c).chains[IssuerOf[s]] # None
      BY <2>2, RepositoryAssumption
  <2> QED
      BY <2>3
<1>2. Init => All
    BY DEF Init
<1>3. Basis /\ Kept /\ Fresh /\ All /\ [Next]_vars => All'
  <2> SUFFICES ASSUME Basis, Kept, Fresh, All, [Next]_vars,
                      NEW c \in DOMAIN commits', commits'[c].sealed
               PROVE  SelfContained(TreeOf(c))'
      OBVIOUS
  <2>1. ASSUME c \in DOMAIN commits
        PROVE  SelfContained(TreeOf(c))'
    <3>1. commits'[c] = commits[c]
        BY <2>1, StoreAndTableGrow DEF Grows
    <3>2. SelfContained(TreeOf(c)) /\ TreeOf(c)' = TreeOf(c)
        BY <2>1, <3>1 DEF TreeOf
    <3> QED
        BY <3>2 DEF Decides
  <2>2. ASSUME NEW p \in Proc, Acting(p), Seal(p), c \notin DOMAIN commits
        PROVE  SelfContained(TreeOf(c))'
    <3>1. TreeOf(c)' = StampTree(p) /\ base[p] \in DOMAIN commits
      <4>1. /\ DOMAIN commits' = DOMAIN commits \cup {Len(commits) + 1}
            /\ commits'[Len(commits) + 1].tree = StampTree(p)
            /\ base[p] \in DOMAIN commits
          BY <2>2, SealAppends
      <4>2. c = Len(commits) + 1
          BY <2>2, <4>1
      <4> QED
          BY <4>1, <4>2 DEF TreeOf
    <3>2. ASSUME NEW s \in Site, StampTree(p).tokens[s] # None,
                 StampTree(p).chains[IssuerOf[s]] # None
          PROVE  /\ StampTree(p).crls[IssuerOf[s]] # None
                 /\ Decides(StampTree(p).crls[IssuerOf[s]],
                            StampTree(p).tokens[s].genTime)
      <4>1. StampTree(p).tokens[s].genTime = now
        <5> HIDE DEF Basis
        <5>1. PICK k \in DOMAIN acquired[p] :
                  StampTree(p).tokens[s] = acquired[p][k].token
          <6>1. Consistent
              BY <2>2 DEF Basis
          <6> HIDE DEF Consistent
          <6> QED
              BY <3>1, <3>2, <6>1, StampTreeTokens
        <5> QED
            BY <5>1 DEF Fresh, Timely
      <4>2. IssuerOf[s] \in Issuer
          BY RepositoryAssumption
      <4> QED
          BY <2>2, <3>2, <4>1, <4>2, SealedChainsHaveCrls
    <3> QED
        BY <3>1, <3>2 DEF Decides
  <2>3. ASSUME NEW others \in SUBSET (DOMAIN commits), Committed(others),
               c \notin DOMAIN commits
        PROVE  FALSE
      BY <2>3, CommittedAppends
  <2> QED
    <3>1. CASE UNCHANGED commits
        BY <2>1, <3>1
    <3>2. CASE \E p \in Proc : Seal(p) /\ StampProceeds(p)
        BY <2>1, <2>2, <3>2 DEF StampProceeds
    <3> HIDE DEF SelfContained
    <3> QED
        BY <2>1, <2>3, <3>1, <3>2, NewCommits DEF ResetHard
<1> HIDE DEF All
<1> QED
    BY <1>1, <1>2, <1>3, FreshAlways, PTL DEF Spec

-----------------------------------------------------------------------------
(***************************************************************************)
(* The artifacts a checkout shows.  Outside a convergence or a drop the    *)
(* index tracks every artifact the working tree holds, which is what lets  *)
(* git and sync_artifacts remove the ones HEAD lacks.  A convergence cut   *)
(* short after it wrote the artifacts, or a drop after it wrote the index, *)
(* leaves artifacts nobody tracks: CleanFaults leaves those faults out.    *)
(***************************************************************************)
CleanFaults ==
    Faults \cap {"syncRecords", "syncStale", "syncIndex", "dropManifest",
                 "dropTokens"} = {}

Tracks(files, others) ==
    /\ files.manifest = None => others.manifest = None
    /\ \A s \in Site : files.tokens[s] = None => others.tokens[s] = None

Bears(files, tree) ==
    /\ files.manifest = tree.manifest
    /\ \A s \in Site : files.tokens[s] = tree.tokens[s]

\* The artifacts of a tree are written, those it lacks not yet removed.
Laid(files, tree, tracked) ==
    /\ IF tree.manifest # None THEN files.manifest = tree.manifest
       ELSE tracked.manifest = None => files.manifest = None
    /\ \A s \in Site :
           IF tree.tokens[s] # None THEN files.tokens[s] = tree.tokens[s]
           ELSE tracked.tokens[s] = None => files.tokens[s] = None

Carries(files, tree) ==
    \A i \in Issuer :
        /\ tree.chains[i] # None => files.chains[i] = tree.chains[i]
        /\ tree.crls[i] # None => files.crls[i] = tree.crls[i]

Placed(p) ==
    /\ pc[p] \notin SyncSteps \cup Dropping => Tracks(index, work)
    /\ pc[p] \in {"syncArtifacts", "dropIndex"} => Tracks(index, work)
    /\ pc[p] \in {"syncRecords", "syncStale"} =>
           Laid(work, TreeOf(head), index)
    /\ pc[p] \in {"syncIndex", "stage", "stageIndex"} =>
           Bears(work, TreeOf(head))
    /\ pc[p] \in {"syncStale", "syncIndex", "stage", "stageIndex"} =>
           Carries(work, TreeOf(head))
    /\ pc[p] \in {"stage", "stageIndex"} =>
           Bears(index, TreeOf(head)) /\ Carries(index, TreeOf(head))
    /\ pc[p] = "dropTokens" => work.manifest = None

Tidy ==
    /\ AllIdle => Tracks(index, work)
    /\ \A p \in Proc : pc[p] # "idle" => Placed(p)

LEMMA FlowIsPlaced ==
    ASSUME Tidy, NEW p \in Proc, Acting(p),
           pc[p] \notin SyncSteps \cup Dropping
    PROVE  Tracks(index, work)
<1>1. CASE pc[p] = "idle"
    BY <1>1 DEF Tidy, AllIdle, Acting
<1>2. CASE pc[p] # "idle"
    BY <1>2 DEF Tidy, Placed
<1> QED
    BY <1>1, <1>2

\* One step of one invocation, by itself.
LEMMA TidyAlone ==
    ASSUME NEW p \in Proc, Acting(p), Placed(p)',
           \A q \in Proc : q # p => pc'[q] = pc[q]
    PROVE  Tidy'
<1>1. \A q \in Proc : q # p => pc'[q] = "idle"
    BY DEF Acting
<1>2. AllIdle' => Tracks(index, work)'
    BY DEF AllIdle, Placed, SyncSteps, Dropping
<1> QED
    BY <1>1, <1>2 DEF Tidy

LEMMA LaidTracks ==
    ASSUME NEW tree, NEW files, NEW others, Bears(files, tree),
           Bears(others, tree)
    PROVE  Tracks(files, others)
    BY DEF Bears, Tracks

\* The stamping flow leaves the artifacts alone.
LEMMA FlowKeepsTidy ==
    ASSUME Basis, Tidy, NEW p \in Proc,
           StampBegins(p) \/ StampProceeds(p) \/ StampDies(p)
    PROVE  Tidy'
<1>1. Acting(p) /\ pc[p] \in {"idle"} \cup StampSteps
  <2>1. CASE StampProceeds(p)
    <3>1. CASE Refuse(p)
        BY <2>1, <3>1
        DEF StampProceeds, Refuse, Refuses, RecordIsGone, TokenIsRefused,
            NothingAcquired, BranchMoved, StampSteps
    <3> QED
        BY <2>1, <3>1
        DEF StampProceeds, StampStep, RefreshList, RefreshFetch, RefreshWrite,
            FixManifest, TsaReply, SiteYields, SiteTolerated, AcquireDone,
            RecordChain, RecordCrl, Seal, Step, StampSteps
  <2> QED
      BY <2>1, BeginsOrDies
<1>2. /\ \A q \in Proc : q # p => pc'[q] = pc[q]
      /\ pc'[p] \in {"idle", "sync"} \cup StampSteps
  <2>1. CASE StampBegins(p) \/ StampDies(p)
      BY <2>1, BeginsOrDies
  <2>2. CASE Seal(p) \/ Refuse(p)
      BY <2>2 DEF Seal, Step, Refuse, Stop
  <2>3. CASE StampStep(p) /\ ~Seal(p) /\ ~Refuse(p)
      BY <2>3, StampStepGoesOn
  <2> QED
      BY <2>1, <2>2, <2>3 DEF StampProceeds
<1>3. index' = index /\ work'.manifest = work.manifest
      /\ work'.tokens = work.tokens
    BY FlowLeavesArtifacts
<1>4. Tracks(index, work)
    BY <1>1, FlowIsPlaced DEF StampSteps, SyncSteps, Dropping
<1>5. Tracks(index, work)'
    BY <1>3, <1>4 DEF Tracks
<1>6. Placed(p)'
    BY <1>2, <1>5 DEF Placed, StampSteps, SyncSteps, Dropping
<1> QED
    BY <1>1, <1>2, <1>6, TidyAlone

\* What each step of a convergence or a drop leaves of the artifacts.
LEMMA CheckoutKeepsTidy ==
    ASSUME Basis, Tidy, NEW p \in Proc, CheckoutProceeds(p) \/ DropBegins(p)
    PROVE  Tidy'
<1>1. /\ Acting(p) /\ UNCHANGED <<commits, head>>
      /\ \A q \in Proc : q # p => pc'[q] = pc[q]
    BY DEF CheckoutProceeds, DropBegins, SyncStep, SyncOpen, SyncArtifacts,
           SyncRecords, SyncStale, SyncIndex, StageNothing, StageOpen,
           StageIndex, DropOpen, DropStep, DropIndex, DropManifest,
           DropTokens, Step
<1> DEFINE tree == TreeOf(head)
<1>2. /\ index \in Files /\ work \in Files /\ tree \in Files
      /\ TreeOf(head)' = tree
    BY <1>1, StoreTyping DEF TreeOf
<1>3. /\ tree.tokens \in TokenFiles /\ index.tokens \in TokenFiles
      /\ work.tokens \in TokenFiles
    BY <1>2, FilesTyping
<1>4. pc[p] # "idle" => Placed(p)
    BY DEF Tidy
<1>5. pc[p] \in SyncSteps => Sealed(p) = tree /\ idx[p] = index
    BY DEF InPeace, Undisturbed, Sealed
<1> SUFFICES Placed(p)'
    BY <1>1, TidyAlone
<1> HIDE DEF tree
<1>6. CASE SyncOpen(p)
  <2>1. pc[p] = "sync" /\ pc'[p] = "syncArtifacts" /\ UNCHANGED <<index, work>>
      BY <1>6 DEF SyncOpen, Step
  <2>2. Tracks(index, work)
      BY <1>4, <2>1 DEF Placed, SyncSteps, Dropping
  <2> QED
      BY <2>1, <2>2 DEF Placed, SyncSteps, Tracks
<1>7. CASE SyncArtifacts(p)
  <2>1. /\ pc[p] = "syncArtifacts" /\ pc'[p] = "syncRecords"
        /\ index' = index
      BY <1>7 DEF SyncArtifacts, Step
  <2>2. /\ work'.manifest = Lay(tree.manifest, work.manifest)
        /\ work'.tokens = Overlay(tree.tokens, work.tokens)
      BY <1>2, <1>5, <1>7, <2>1 DEF SyncArtifacts, SyncSteps, Files
  <2>3. \A s \in Site : work'.tokens[s] =
            IF tree.tokens[s] # None THEN tree.tokens[s] ELSE work.tokens[s]
      BY <1>3, <2>2, OverlaidFile DEF TokenFiles
  <2>4. Tracks(index, work)
      BY <1>4, <2>1 DEF Placed
  <2>5. Laid(work', tree, index)
      BY <2>2, <2>3, <2>4 DEF Laid, Tracks, Lay
  <2>6. Laid(work, TreeOf(head), index)'
      BY <1>2, <2>1, <2>5 DEF Laid
  <2> QED
      BY <2>1, <2>6 DEF Placed, SyncSteps
<1>8. CASE SyncRecords(p)
  <2>1. /\ pc[p] = "syncRecords" /\ pc'[p] = "syncStale" /\ index' = index
        /\ work'.manifest = work.manifest /\ work'.tokens = work.tokens
      BY <1>2, <1>8 DEF SyncRecords, Step, Files
  <2>2. /\ work'.chains = Overlay(tree.chains, work.chains)
        /\ work'.crls = Overlay(tree.crls, work.crls)
      BY <1>2, <1>5, <1>8, <2>1 DEF SyncRecords, SyncSteps, Files
  <2>3. Carries(work', tree)
      BY <1>2, <2>2, OverlaidRecords DEF Carries
  <2>4. Laid(work, tree, index)
      BY <1>4, <2>1 DEF Placed, tree
  <2>5. Laid(work, TreeOf(head), index)' /\ Carries(work, TreeOf(head))'
      BY <1>2, <2>1, <2>3, <2>4 DEF Laid, Carries
  <2> QED
      BY <2>1, <2>5 DEF Placed, SyncSteps
<1>9. CASE SyncStale(p)
  <2>1. /\ pc[p] = "syncStale" /\ pc'[p] = "syncIndex" /\ index' = index
        /\ work'.chains = work.chains /\ work'.crls = work.crls
      BY <1>2, <1>9 DEF SyncStale, Step, Files
  <2>2. /\ work'.manifest = LeaveStale(tree.manifest, index.manifest,
                                       work.manifest)
        /\ work'.tokens = [s \in Site |->
               LeaveStale(tree.tokens[s], index.tokens[s], work.tokens[s])]
      BY <1>2, <1>5, <1>9, <2>1 DEF SyncStale, SyncSteps, Files
  <2>3. \A s \in Site : work'.tokens[s] =
            LeaveStale(tree.tokens[s], index.tokens[s], work.tokens[s])
      BY <2>2
  <2>4. Laid(work, tree, index) /\ Carries(work, tree)
      BY <1>4, <2>1 DEF Placed, tree
  <2>5. Bears(work', tree)
      BY <2>2, <2>3, <2>4 DEF Laid, Bears, LeaveStale
  <2>6. Bears(work, TreeOf(head))' /\ Carries(work, TreeOf(head))'
      BY <1>2, <2>1, <2>4, <2>5 DEF Bears, Carries
  <2> QED
      BY <2>1, <2>6 DEF Placed, SyncSteps
<1>10. CASE SyncIndex(p)
  <2>1. pc[p] = "syncIndex" /\ pc'[p] = "stage" /\ work' = work
      BY <1>10 DEF SyncIndex, Step
  <2>2. index' = SyncedIndex(p)
      BY <1>5, <1>10, <2>1 DEF SyncIndex, SyncSteps
  <2>3. /\ index'.manifest = tree.manifest
        /\ index'.tokens = tree.tokens
        /\ index'.chains = Overlay(tree.chains, index.chains)
        /\ index'.crls = Overlay(tree.crls, index.crls)
      BY <1>2, <1>5, <2>1, <2>2 DEF SyncedIndex, SyncSteps, Files
  <2>4. Carries(index', tree)
      BY <1>2, <2>3, OverlaidRecords DEF Carries
  <2>5. Bears(work, tree) /\ Carries(work, tree)
      BY <1>4, <2>1 DEF Placed, tree
  <2>6. /\ Bears(work, TreeOf(head))' /\ Carries(work, TreeOf(head))'
        /\ Bears(index, TreeOf(head))' /\ Carries(index, TreeOf(head))'
      BY <1>2, <2>1, <2>3, <2>4, <2>5 DEF Bears, Carries
  <2>7. Tracks(index, work)'
      BY <2>6, LaidTracks
  <2> QED
      BY <2>1, <2>6, <2>7 DEF Placed, SyncSteps
<1>11. CASE StageNothing(p) \/ StageOpen(p) \/ StageIndex(p)
  <2>1. /\ pc[p] \in {"stage", "stageIndex"}
        /\ pc'[p] \in {"idle", "stageIndex"}
        /\ work' = work
      BY <1>11 DEF StageNothing, StageOpen, StageIndex, Step
  <2>2. /\ Bears(work, tree) /\ Carries(work, tree)
        /\ Bears(index, tree) /\ Carries(index, tree)
      BY <1>4, <2>1 DEF Placed, tree
  <2>3. index' = index \/ index' = StagedIndex
      BY <1>11
      DEF StageNothing, StageOpen, StageIndex, Step, InPeace, Undisturbed
  <2>4. Bears(index', tree) /\ Carries(index', tree)
    <3>1. CASE index' = index
        BY <2>2, <3>1
    <3>2. CASE index' = StagedIndex
      <4>1. /\ index'.manifest = index.manifest
            /\ index'.tokens = index.tokens
            /\ index'.chains = Overlay(work.chains, index.chains)
            /\ index'.crls = Overlay(work.crls, index.crls)
          BY <1>2, <3>2 DEF StagedIndex, Files
      <4>2. Bears(index', tree)
          BY <2>2, <4>1 DEF Bears
      <4>3. Carries(index', tree)
          BY <1>2, <2>2, <4>1, OverlaidRecords DEF Carries
      <4> QED
          BY <4>2, <4>3
    <3> QED
        BY <2>3, <3>1, <3>2
  <2>5. /\ Bears(work, TreeOf(head))' /\ Carries(work, TreeOf(head))'
        /\ Bears(index, TreeOf(head))' /\ Carries(index, TreeOf(head))'
      BY <1>2, <2>1, <2>2, <2>4 DEF Bears, Carries
  <2>6. Tracks(index, work)'
      BY <2>5, LaidTracks
  <2> QED
      BY <2>1, <2>5, <2>6 DEF Placed, SyncSteps
<1>12. CASE DropOpen(p)
  <2>1. pc[p] = "idle" /\ pc'[p] \in {"dropIndex", "dropManifest"}
        /\ UNCHANGED <<index, work>>
      BY <1>12 DEF DropOpen, Step
  <2>2. Tracks(index, work)
      BY <1>1, <2>1, FlowIsPlaced DEF SyncSteps, Dropping
  <2> QED
      BY <2>1, <2>2 DEF Placed, Tracks, Dropping
<1>13. CASE DropIndex(p)
  <2>1. pc'[p] = "dropManifest"
      BY <1>13 DEF DropIndex, Step
  <2> QED
      BY <2>1 DEF Placed, Dropping
<1>14. CASE DropManifest(p)
  <2>1. pc'[p] = "dropTokens" /\ work'.manifest = None
      BY <1>2, <1>14 DEF DropManifest, Step, Files
  <2> QED
      BY <2>1 DEF Placed, Dropping
<1>15. CASE DropTokens(p)
  <2>1. /\ pc[p] = "dropTokens" /\ pc'[p] = "idle"
        /\ work'.manifest = work.manifest /\ work'.tokens = NoTokens
      BY <1>2, <1>15 DEF DropTokens, Step, Files
  <2>2. work.manifest = None
      BY <1>4, <2>1 DEF Placed
  <2>3. Tracks(index, work)'
      BY <2>1, <2>2 DEF Tracks, NoTokens
  <2> QED
      BY <2>1, <2>3 DEF Placed
<1> QED
    BY <1>6, <1>7, <1>8, <1>9, <1>10, <1>11, <1>12, <1>13, <1>14, <1>15
    DEF CheckoutProceeds, DropBegins, SyncStep, DropStep

LEMMA CheckoutDiesTidy ==
    ASSUME CleanFaults, Basis, Tidy, NEW p \in Proc, CheckoutDies(p)
    PROVE  Tidy'
<1>1. /\ Acting(p) /\ pc[p] \in Faults \cap CheckoutSteps
      /\ pc' = [pc EXCEPT ![p] = "idle"]
      /\ UNCHANGED <<index, work>>
    BY DEF CheckoutDies, CheckoutFails
<1>2. pc[p] # "idle" /\ pc'[p] = "idle"
    BY <1>1 DEF CheckoutSteps
<1>3. pc[p] \in {"sync", "syncArtifacts", "stage", "stageIndex", "dropIndex"}
    BY <1>1 DEF CheckoutSteps, CleanFaults
<1>4. Placed(p)
    BY <1>2 DEF Tidy
<1>5. CASE pc[p] \in {"stage", "stageIndex"}
  <2>1. Tracks(index, work)
      BY <1>4, <1>5, LaidTracks DEF Placed
  <2> QED
      BY <1>1, <1>2, <2>1, TidyAlone DEF Placed, Tracks
<1>6. CASE pc[p] \in {"sync", "syncArtifacts", "dropIndex"}
  <2>1. Tracks(index, work)
      BY <1>4, <1>6 DEF Placed, SyncSteps, Dropping
  <2> QED
      BY <1>1, <1>2, <2>1, TidyAlone DEF Placed, Tracks
<1> QED
    BY <1>3, <1>5, <1>6

\* What git writes over a checkout whose index tracks every artifact.
LEMMA CheckedOutBears ==
    ASSUME NEW tree \in Files, NEW tracked, NEW files, Tracks(tracked, files),
           NEW new, new.manifest = CheckOut(tree, tracked, files).manifest,
           new.tokens = CheckOut(tree, tracked, files).tokens
    PROVE  Bears(new, tree)
<1>1. DOMAIN tree.tokens = Site
    BY DEF Files, TokenFiles
<1>2. /\ new.manifest = FileAfter(tree.manifest, tracked.manifest,
                                  files.manifest)
      /\ new.tokens = DirectoryAfter(tree.tokens, tracked.tokens, files.tokens)
    BY DEF CheckOut
<1>3. new.manifest = tree.manifest
    BY <1>2, CheckedOutFile DEF Tracks
<1>4. \A s \in Site : new.tokens[s] =
          IF tree.tokens[s] # None THEN tree.tokens[s]
          ELSE IF tracked.tokens[s] # None THEN None ELSE files.tokens[s]
    BY <1>1, <1>2, CheckedOutDirectory
<1>5. \A s \in Site : new.tokens[s] = tree.tokens[s]
    BY <1>4 DEF Tracks
<1> QED
    BY <1>3, <1>5 DEF Bears

LEMMA RestoreBears ==
    ASSUME Basis, Tracks(index, work), Restore
    PROVE  Bears(index', TreeOf(head)) /\ Bears(work', TreeOf(head))
<1>1. TreeOf(head) \in Files
    BY StoreTyping
<1>2. /\ index'.manifest = TreeOf(head).manifest
      /\ index'.tokens = TreeOf(head).tokens
    BY <1>1 DEF Restore, Files
<1>3. /\ work'.manifest = CheckOut(TreeOf(head), index, work).manifest
      /\ work'.tokens = CheckOut(TreeOf(head), index, work).tokens
    BY DEF Restore, CheckOut
<1>4. Bears(work', TreeOf(head))
    BY <1>1, <1>3, CheckedOutBears
<1> QED
    BY <1>2, <1>4 DEF Bears

LEMMA UserKeepsTidy ==
    ASSUME Basis, Tidy, UserActs
    PROVE  Tidy'
<1>1. AllIdle' /\ \A p \in Proc : pc'[p] = "idle"
  <2>1. UNCHANGED pc
      BY DEF UserActs, UserStep, CommitEnd, Edit, AddAll, CommitBegin,
             CommitUnguarded, ResetHard, Restore, UserUnchanged
  <2> QED
      BY <2>1 DEF UserActs, AllIdle
<1>2. Tracks(index, work)
    BY DEF UserActs, Tidy
<1> SUFFICES Tracks(index, work)'
    BY <1>1 DEF Tidy
<1>3. index \in Files /\ work \in Files
    OBVIOUS
<1>4. ASSUME NEW c \in Content, Edit(c)
      PROVE  Tracks(index, work)'
  <2>1. /\ index'.manifest = index.manifest /\ index'.tokens = index.tokens
        /\ work'.manifest = work.manifest /\ work'.tokens = work.tokens
      BY <1>3, <1>4 DEF Edit, Files
  <2> QED
      BY <1>2, <2>1 DEF Tracks
<1>5. CASE AddAll
    BY <1>5 DEF AddAll, Tracks
<1>6. CASE CommitBegin \/ CommitEnd \/ CommitUnguarded
    BY <1>2, <1>6 DEF CommitBegin, CommitEnd, CommitUnguarded, Tracks
<1>7. ASSUME NEW c \in DOMAIN commits, ResetHard(c)
      PROVE  Tracks(index, work)'
  <2>1. index' = TreeOf(c) /\ work' = CheckOut(TreeOf(c), index, work)
      BY <1>7 DEF ResetHard
  <2>2. TreeOf(c) \in Files
      BY StoreTyping
  <2>3. Bears(work', TreeOf(c))
      BY <1>2, <2>1, <2>2, CheckedOutBears
  <2> QED
      BY <2>1, <2>3 DEF Bears, Tracks
<1>8. CASE Restore
  <2>1. Bears(index', TreeOf(head)) /\ Bears(work', TreeOf(head))
      BY <1>2, <1>8, RestoreBears
  <2> QED
      BY <2>1, LaidTracks DEF Tracks
<1> QED
    BY <1>4, <1>5, <1>6, <1>7, <1>8 DEF UserActs, UserStep

LEMMA TidyNext ==
    ASSUME Exclusive, CleanFaults, Basis, Tidy, [Next]_vars
    PROVE  Tidy'
<1>1. CASE World \/ UNCHANGED vars
  <2>1. UNCHANGED <<commits, head, index, work, pc>>
      BY <1>1 DEF World, TimePasses, Tick, Publish, Rotate, vars
  <2>2. TreeOf(head)' = TreeOf(head)
      BY <2>1 DEF TreeOf
  <2>3. \A p \in Proc : Placed(p) => Placed(p)'
      BY <2>1, <2>2 DEF Placed, Tracks, Laid, Bears, Carries
  <2> QED
      BY <2>1, <2>3 DEF Tidy, AllIdle, Tracks
<1> QED
    BY <1>1, FlowKeepsTidy, CheckoutKeepsTidy, CheckoutDiesTidy,
       UserKeepsTidy, StepsAlone DEF InPeace

LEMMA TidyAlways ==
    ASSUME Exclusive, CleanFaults
    PROVE  Spec => [](Basis /\ Tidy)
<1>1. Init => Tidy
  <2> SUFFICES ASSUME Init
               PROVE  Tidy
      OBVIOUS
  <2>1. index = work /\ \A p \in Proc : pc[p] = "idle"
      BY DEF Init
  <2> QED
      BY <2>1 DEF Tidy, Tracks
<1>2. Basis /\ Tidy /\ [Next]_vars => Tidy'
    BY TidyNext
<1> QED
    BY <1>1, <1>2, BasisAlways, PTL DEF Spec

\* Recovery: wherever an invocation was cut short, but for the faults that
\* leave artifacts nobody tracks, the command the error message names leaves
\* the artifacts of HEAD, and no other, in the index and the working tree.
THEOREM RestoreRecovers ==
    ASSUME Exclusive, CleanFaults
    PROVE  Spec => RestoreConverges
<1> DEFINE Converges ==
        \A files \in {index', work'} :
            /\ files.manifest = TreeOf(head).manifest
            /\ files.tokens = TreeOf(head).tokens
<1>1. ASSUME Basis, Tidy, Basis', [Next]_vars, Restore
      PROVE  Converges \/ UNCHANGED vars
  <2>1. UNCHANGED <<pc, stampingVars, checkoutVars, hook>>
      BY <1>1 DEF Restore, UserUnchanged
  <2>2. Tracks(index, work) \/ UNCHANGED vars
    <3>1. ASSUME NEW p \in Proc,
                 StampBegins(p) \/ StampProceeds(p) \/ StampDies(p)
          PROVE  Tracks(index, work)
      <4>1. Acting(p) /\ pc[p] \in {"idle"} \cup StampSteps
        <5>1. CASE StampProceeds(p)
          <6>1. CASE Refuse(p)
              BY <5>1, <6>1
              DEF StampProceeds, Refuse, Refuses, RecordIsGone,
                  TokenIsRefused, NothingAcquired, BranchMoved, StampSteps
          <6> QED
              BY <5>1, <6>1
              DEF StampProceeds, StampStep, RefreshList, RefreshFetch,
                  RefreshWrite, FixManifest, TsaReply, SiteYields,
                  SiteTolerated, AcquireDone, RecordChain, RecordCrl, Seal,
                  Step, StampSteps
        <5> QED
            BY <3>1, <5>1
            DEF StampBegins, StampBegin, StampDies, StampFails, Step,
                StampSteps
      <4> QED
          BY <1>1, <4>1, FlowIsPlaced DEF StampSteps, SyncSteps, Dropping
    <3>2. ASSUME NEW p \in Proc,
                 DropBegins(p) \/ CheckoutProceeds(p) \/ CheckoutDies(p)
          PROVE  FALSE
      <4>1. pc'[p] # pc[p]
        <5>1. CASE CheckoutDies(p)
            BY <1>1, <5>1 DEF CheckoutDies, CheckoutFails, CheckoutSteps
        <5>2. CASE DropBegins(p)
            BY <1>1, <5>2 DEF DropBegins, DropOpen, Step
        <5>3. CASE CheckoutProceeds(p)
            BY <1>1, <5>3
            DEF CheckoutProceeds, SyncStep, SyncOpen, SyncArtifacts,
                SyncRecords, SyncStale, SyncIndex, StageNothing, StageOpen,
                StageIndex, DropStep, DropIndex, DropManifest, DropTokens,
                Step
        <5> QED
            BY <3>2, <5>1, <5>2, <5>3
      <4> QED
          BY <2>1, <4>1
    <3>3. CASE UserActs
        BY <1>1, <3>3 DEF UserActs, Tidy
    <3>4. CASE World
      <4>1. UNCHANGED <<now, crl, gen>>
          BY <2>1 DEF stampingVars
      <4>2. now \in Nat /\ gen \in [Site -> Nat] /\ crl \in [Issuer -> Nat]
          BY <1>1 DEF Crl
      <4>3. ~Tick
          BY <4>1, <4>2 DEF Tick
      <4>4. ASSUME NEW i \in Issuer, Publish(i)
            PROVE  FALSE
        <5>1. crl'[i] = now /\ crl[i] < now
            BY <4>2, <4>4 DEF Publish
        <5> QED
            BY <4>1, <4>2, <5>1
      <4>5. ASSUME NEW s \in Site, Rotate(s)
            PROVE  FALSE
        <5>1. gen'[s] = gen[s] + 1
            BY <4>2, <4>5 DEF Rotate
        <5> QED
            BY <4>1, <4>2, <5>1
      <4> QED
          BY <3>4, <4>3, <4>4, <4>5 DEF World, TimePasses
    <3> QED
        BY <1>1, <3>1, <3>2, <3>3, <3>4, StepsAlone DEF InPeace
  <2>3. ASSUME Tracks(index, work)
        PROVE  Converges
    <3>1. Bears(index', TreeOf(head)) /\ Bears(work', TreeOf(head))
        BY <1>1, <2>3, RestoreBears
    <3>2. TreeOf(head) \in Files /\ index' \in Files /\ work' \in Files
        BY <1>1, StoreTyping
    <3>3. /\ TreeOf(head).tokens \in [Site -> Token \cup {None}]
          /\ index'.tokens \in [Site -> Token \cup {None}]
          /\ work'.tokens \in [Site -> Token \cup {None}]
        BY <3>2, FilesTyping DEF TokenFiles
    <3>4. /\ index'.tokens = TreeOf(head).tokens
          /\ work'.tokens = TreeOf(head).tokens
        BY <3>1, <3>3 DEF Bears
    <3> QED
        BY <3>1, <3>4 DEF Bears
  <2> QED
      BY <2>2, <2>3
<1>2. Basis /\ Tidy /\ Basis' /\ [Next]_vars => [Restore => Converges]_vars
    BY <1>1
<1>3. Spec => [][Restore => Converges]_vars
    BY <1>2, TidyAlways, PTL DEF Spec
<1> QED
    BY <1>3 DEF RestoreConverges

\* A directory that carries another is unchanged by laying it over.
LEMMA CarriedOverlay ==
    ASSUME NEW tree \in Files, NEW files \in Files, Carries(files, tree)
    PROVE  /\ files.chains = Overlay(tree.chains, files.chains)
           /\ files.crls = Overlay(tree.crls, files.crls)
<1>1. /\ tree.chains \in [Issuer -> Chain \cup {None}]
      /\ files.chains \in [Issuer -> Chain \cup {None}]
      /\ tree.crls \in [Issuer -> Crl \cup {None}]
      /\ files.crls \in [Issuer -> Crl \cup {None}]
    BY FilesTyping DEF ChainFiles, CrlFiles
<1>2. files.chains = Overlay(tree.chains, files.chains)
    BY <1>1 DEF Carries, Overlay, Lay
<1>3. files.crls = Overlay(tree.crls, files.crls)
    BY <1>1 DEF Carries, Overlay, Lay
<1> QED
    BY <1>2, <1>3

LEMMA BornTokens ==
    ASSUME NEW tree \in Files, NEW files \in Files, Bears(files, tree)
    PROVE  files.manifest = tree.manifest /\ files.tokens = tree.tokens
<1>1. /\ tree.tokens \in [Site -> Token \cup {None}]
      /\ files.tokens \in [Site -> Token \cup {None}]
    BY FilesTyping DEF TokenFiles
<1> QED
    BY <1>1 DEF Bears

\* A fresh stamp reads clean: when the command is done, the index and the
\* working tree hold the artifacts of the commit it sealed, and no other, its
\* records, and every record of the working tree is queued.
THEOREM FreshStampIsClean ==
    ASSUME Exclusive, CleanFaults
    PROVE  Spec => FreshStampReadsClean
<1> DEFINE Clean(p) ==
        LET tree == TreeOf(result[p])
        IN  /\ head = result[p]
            /\ \A files \in {index', work'} :
                   /\ files.manifest = tree.manifest
                   /\ files.tokens = tree.tokens
                   /\ files.chains = Overlay(tree.chains, files.chains)
                   /\ files.crls = Overlay(tree.crls, files.crls)
            /\ index'.chains = Overlay(work'.chains, index'.chains)
            /\ index'.crls = Overlay(work'.crls, index'.crls)
<1>1. ASSUME Basis, Tidy, Basis', NEW p \in Proc, Finishes(p)
      PROVE  Clean(p)
  <2>1. /\ pc[p] \in {"stage", "stageIndex"}
        /\ work' = work
        /\ index' = StagedIndex
      BY <1>1
      DEF Finishes, StageNothing, StageIndex, Step, InPeace, Undisturbed
  <2>2. result[p] = head
      BY <1>1, <2>1 DEF InPeace, Undisturbed, Converging
  <2>3. /\ Bears(work, TreeOf(head)) /\ Carries(work, TreeOf(head))
        /\ Bears(index, TreeOf(head)) /\ Carries(index, TreeOf(head))
    <3>1. Placed(p)
        BY <1>1, <2>1 DEF Tidy
    <3> QED
        BY <2>1, <3>1 DEF Placed
  <2>4. /\ TreeOf(head) \in Files /\ index \in Files /\ work \in Files
        /\ index' \in Files
      BY <1>1, StoreTyping
  <2>5. /\ index'.manifest = index.manifest /\ index'.tokens = index.tokens
        /\ index'.chains = Overlay(work.chains, index.chains)
        /\ index'.crls = Overlay(work.crls, index.crls)
      BY <2>1, <2>4 DEF StagedIndex, Files
  <2>6. Carries(index', work)
      BY <2>4, <2>5, OverlaidRecords DEF Carries
  <2>7. Carries(index', TreeOf(head))
      BY <2>3, <2>4, <2>5, OverlaidRecords DEF Carries
  <2>8. Bears(index', TreeOf(head))
      BY <2>3, <2>5 DEF Bears
  <2>9. /\ index'.manifest = TreeOf(head).manifest
        /\ index'.tokens = TreeOf(head).tokens
        /\ work'.manifest = TreeOf(head).manifest
        /\ work'.tokens = TreeOf(head).tokens
      BY <2>1, <2>3, <2>4, <2>8, BornTokens
  <2>10. /\ index'.chains = Overlay(TreeOf(head).chains, index'.chains)
         /\ index'.crls = Overlay(TreeOf(head).crls, index'.crls)
      BY <2>4, <2>7, CarriedOverlay
  <2>11. /\ work'.chains = Overlay(TreeOf(head).chains, work'.chains)
         /\ work'.crls = Overlay(TreeOf(head).crls, work'.crls)
      BY <2>1, <2>3, <2>4, CarriedOverlay
  <2>12. /\ index'.chains = Overlay(work'.chains, index'.chains)
         /\ index'.crls = Overlay(work'.crls, index'.crls)
      BY <2>1, <2>4, <2>6, CarriedOverlay
  <2> QED
      BY <2>2, <2>9, <2>10, <2>11, <2>12
<1>2. Basis /\ Tidy /\ Basis' =>
          [\A p \in Proc : Finishes(p) => Clean(p)]_vars
    BY <1>1
<1> HIDE DEF Clean
<1>3. Spec => [][\A p \in Proc : Finishes(p) => Clean(p)]_vars
    BY <1>2, TidyAlways, PTL DEF Spec
<1> USE DEF Clean
<1> QED
    BY <1>3 DEF FreshStampReadsClean

-----------------------------------------------------------------------------
(***************************************************************************)
(* Chains and CRLs come in pairs.  The flow writes a chain record and then *)
(* the CRL beside it; unless an invocation dies between the two, the       *)
(* index, the working tree and every commit have both or neither, and so   *)
(* a chain is refreshed whenever there is a CRL to replace.                *)
(***************************************************************************)
Paired(files) ==
    \A i \in Issuer : files.chains[i] = None <=> files.crls[i] = None

PairedButFor(files, j) ==
    /\ files.chains[j] # None
    /\ \A i \in Issuer : i # j =>
           (files.chains[i] = None <=> files.crls[i] = None)

\* The issuer whose chain was just written.
Settling(p) == IssuerOf[acquired[p][settled[p] + 1].token.site]

Pairs ==
    /\ Paired(index)
    /\ \A c \in DOMAIN commits : Paired(TreeOf(c))
    /\ \A p \in Proc :
           /\ Paired(records[p])
           /\ pc[p] = "recordCrl" => PairedButFor(work, Settling(p))
    /\ (\A p \in Proc : pc[p] # "recordCrl") => Paired(work)

LEMMA NothingIsPaired == Paired(NoRecords)
    BY NothingRecorded DEF Paired

\* One step of one invocation, by itself, that writes no commit.
LEMMA PairsAlone ==
    ASSUME Pairs, NEW p \in Proc, Acting(p), UNCHANGED commits,
           \A q \in Proc : q # p => pc'[q] = pc[q] /\ records'[q] = records[q],
           Paired(index)', Paired(records[p])',
           pc'[p] = "recordCrl" => PairedButFor(work, Settling(p))',
           pc'[p] # "recordCrl" => Paired(work)'
    PROVE  Pairs'
<1>1. \A q \in Proc : q # p => pc'[q] = "idle"
    BY DEF Acting
<1>2. \A c \in DOMAIN commits' : Paired(TreeOf(c))'
    BY DEF Pairs, Paired, TreeOf
<1>3. \A q \in Proc : Paired(records[q])'
  <2>1. ASSUME NEW q \in Proc, q # p
        PROVE  Paired(records[q])'
    <3>1. records'[q] = records[q] /\ Paired(records[q])
        BY <2>1 DEF Pairs
    <3> QED
        BY <3>1 DEF Paired
  <2> QED
      BY <2>1
<1> QED
    BY <1>1, <1>2, <1>3 DEF Pairs

\* Laying paired records over paired records, and taking tracked ones away.
LEMMA OverlaidPaired ==
    ASSUME NEW tree \in Files, NEW files \in Files, Paired(tree),
           Paired(files), NEW new,
           new.chains = Overlay(tree.chains, files.chains),
           new.crls = Overlay(tree.crls, files.crls)
    PROVE  Paired(new)
<1>1. \A i \in Issuer :
          /\ new.chains[i] = IF tree.chains[i] # None THEN tree.chains[i]
                             ELSE files.chains[i]
          /\ new.crls[i] = IF tree.crls[i] # None THEN tree.crls[i]
                           ELSE files.crls[i]
    BY OverlaidRecords
<1> QED
    BY <1>1 DEF Paired

LEMMA CheckedOutPaired ==
    ASSUME NEW tree \in Files, NEW tracked, NEW files, Paired(tree),
           Paired(tracked), Paired(files), NEW new,
           new.chains = CheckOut(tree, tracked, files).chains,
           new.crls = CheckOut(tree, tracked, files).crls
    PROVE  Paired(new)
<1>1. \A i \in Issuer :
          /\ new.chains[i] =
                 IF tree.chains[i] # None THEN tree.chains[i]
                 ELSE IF tracked.chains[i] # None THEN None
                 ELSE files.chains[i]
          /\ new.crls[i] =
                 IF tree.crls[i] # None THEN tree.crls[i]
                 ELSE IF tracked.crls[i] # None THEN None
                 ELSE files.crls[i]
  <2> DEFINE checked == CheckOut(tree, tracked, files)
  <2> SUFFICES ASSUME NEW i \in Issuer
               PROVE  /\ checked.chains[i] =
                             IF tree.chains[i] # None THEN tree.chains[i]
                             ELSE IF tracked.chains[i] # None THEN None
                             ELSE files.chains[i]
                      /\ checked.crls[i] =
                             IF tree.crls[i] # None THEN tree.crls[i]
                             ELSE IF tracked.crls[i] # None THEN None
                             ELSE files.crls[i]
      OBVIOUS
  <2> HIDE DEF checked
  <2> QED
      BY CheckedOutRecords DEF checked
<1> QED
    BY <1>1 DEF Paired

LEMMA StampTreePaired ==
    ASSUME Consistent, Pairs, NEW p \in Proc, base[p] \in DOMAIN commits
    PROVE  Paired(StampTree(p))
<1>1. ASSUME NEW i \in Issuer
      PROVE  /\ StampTree(p).chains[i] =
                    IF records[p].chains[i] # None THEN records[p].chains[i]
                    ELSE TreeOf(base[p]).chains[i]
             /\ StampTree(p).crls[i] =
                    IF records[p].crls[i] # None THEN records[p].crls[i]
                    ELSE TreeOf(base[p]).crls[i]
    BY StampTreeFile
<1>2. Paired(records[p]) /\ Paired(TreeOf(base[p]))
    BY DEF Pairs
<1>3. ASSUME NEW i \in Issuer
      PROVE  StampTree(p).chains[i] = None <=> StampTree(p).crls[i] = None
    BY <1>1, <1>2 DEF Paired
<1> QED
    BY <1>3 DEF Paired

LEMMA RefreshKeepsPairs ==
    ASSUME Basis, Kept, Pairs, NEW p \in Proc, Acting(p), NEW i \in Issuer,
           RefreshFetch(p, i) \/ RefreshWrite(p, i)
    PROVE  Pairs'
<1>1. work \in Files /\ records[p] \in Records /\ crl[i] \in Crl
    OBVIOUS
<1>2. /\ records[p].chains \in [Issuer -> Chain \cup {None}]
      /\ records[p].crls \in [Issuer -> Crl \cup {None}]
      /\ work.crls \in [Issuer -> Crl \cup {None}]
    BY <1>1 DEF Files, Records, ChainFiles, CrlFiles
<1>3. pc[p] # "recordCrl" /\ pc'[p] # "recordCrl"
      /\ \A q \in Proc : q # p => pc'[q] = pc[q]
    BY DEF RefreshFetch, RefreshWrite, Step
<1>4. Paired(work) /\ Paired(records[p]) /\ Paired(index)
    BY <1>3 DEF Pairs, Acting
<1>5. CASE RefreshFetch(p, i)
  <2>1. /\ work.chains[i] # None
        /\ records' = [records EXCEPT ![p].chains[i] = work.chains[i],
                                      ![p].crls[i] = crl[i]]
        /\ UNCHANGED <<commits, index, work>>
      BY <1>5 DEF RefreshFetch
  <2>2. /\ records'[p].chains = [records[p].chains EXCEPT ![i] = work.chains[i]]
        /\ records'[p].crls = [records[p].crls EXCEPT ![i] = crl[i]]
      BY <1>1, <2>1 DEF Records
  <2>3. /\ records'[p].chains[i] # None /\ records'[p].crls[i] = crl[i]
        /\ \A j \in Issuer : j # i =>
               /\ records'[p].chains[j] = records[p].chains[j]
               /\ records'[p].crls[j] = records[p].crls[j]
      BY <1>2, <2>1, <2>2
  <2>4. crl[i] # None
      BY <1>1, RepositoryAssumption DEF Crl
  <2>5. Paired(records[p])' /\ Paired(work)' /\ Paired(index)'
      BY <1>4, <2>1, <2>3, <2>4 DEF Paired
  <2>6. \A q \in Proc : q # p => records'[q] = records[q]
      BY <2>1
  <2> QED
      BY <1>3, <2>1, <2>5, <2>6, PairsAlone
<1>6. CASE RefreshWrite(p, i)
  <2>1. /\ records[p].chains[i] # None
        /\ work' = [work EXCEPT !.crls[i] = records[p].crls[i]]
        /\ UNCHANGED <<commits, index, records>>
      BY <1>6 DEF RefreshWrite
  <2>2. /\ work'.chains = work.chains
        /\ work'.crls = [work.crls EXCEPT ![i] = records[p].crls[i]]
      BY <1>1, <2>1 DEF Files
  <2>3. /\ work'.crls[i] = records[p].crls[i]
        /\ \A j \in Issuer : j # i => work'.crls[j] = work.crls[j]
      BY <1>2, <2>2
  <2>4. work.chains[i] # None /\ records[p].crls[i] # None
      BY <2>1 DEF Kept, Remembered
  <2>5. Paired(work)' /\ Paired(records[p])' /\ Paired(index)'
      BY <1>4, <2>1, <2>2, <2>3, <2>4 DEF Paired
  <2> QED
      BY <1>3, <2>1, <2>5, PairsAlone
<1> QED
    BY <1>5, <1>6

\* The two files of a record, written one after the other.
LEMMA RecordKeepsPairs ==
    ASSUME Basis, Pairs, NEW p \in Proc, Acting(p),
           RecordChain(p) \/ RecordCrl(p)
    PROVE  Pairs'
<1> DEFINE j == Settling(p)
           next == acquired[p][settled[p] + 1]
<1>1. /\ settled[p] + 1 \in DOMAIN acquired[p]
      /\ UNCHANGED <<commits, index, records, acquired>>
      /\ \A q \in Proc : q # p => pc'[q] = pc[q]
  <2>1. settled[p] < Len(acquired[p]) /\ settled[p] \in Nat
      BY DEF RecordChain, RecordCrl, Step
  <2>2. settled[p] + 1 \in DOMAIN acquired[p]
      BY <2>1, AcquiredTyping
  <2> QED
      BY <2>2 DEF RecordChain, RecordCrl, Step, stampingVars, jobVars
<1>2. next.token \in Token /\ next.crl \in Crl /\ j \in Issuer
  <2>1. next.token \in Token /\ next.crl \in Crl
      BY <1>1, AcquiredTyping
  <2> QED
      BY <2>1, RepositoryAssumption DEF Token, Settling
<1>3. /\ work \in Files /\ work.chains \in [Issuer -> Chain \cup {None}]
      /\ work.crls \in [Issuer -> Crl \cup {None}]
  <2>1. work \in Files
      OBVIOUS
  <2> QED
      BY <2>1 DEF Files, ChainFiles, CrlFiles
<1>4. Paired(index)' /\ Paired(records[p])'
    BY <1>1 DEF Pairs, Paired
<1> HIDE DEF next
<1>5. CASE RecordChain(p)
  <2> DEFINE chain == [site |-> next.token.site, gen |-> next.token.gen]
  <2>1. /\ pc[p] = "record" /\ pc'[p] = "recordCrl"
        /\ work' = [work EXCEPT !.chains[j] = chain]
        /\ settled' = settled
      BY <1>5 DEF RecordChain, Step, stampingVars, jobVars, next, Settling
  <2>2. chain \in Chain /\ chain # None
    <3>1. chain \in Chain
        BY <1>2 DEF Token, Chain
    <3> QED
        BY <3>1, RepositoryAssumption
  <2> HIDE DEF chain, j
  <2>3. /\ work'.chains[j] = chain /\ work'.crls = work.crls
        /\ \A i \in Issuer : i # j => work'.chains[i] = work.chains[i]
    <3>1. work'.chains = [work.chains EXCEPT ![j] = chain]
          /\ work'.crls = work.crls
        BY <1>3, <2>1 DEF Files
    <3> QED
        BY <1>2, <1>3, <3>1
  <2>4. Paired(work)
      BY <2>1 DEF Pairs, Acting
  <2>5. PairedButFor(work', j)
      BY <2>2, <2>3, <2>4 DEF Paired, PairedButFor
  <2>6. Settling(p)' = j
      BY <1>1, <2>1 DEF Settling, j
  <2>7. PairedButFor(work, Settling(p))'
      BY <2>5, <2>6 DEF PairedButFor
  <2> QED
      BY <1>1, <1>4, <2>1, <2>7, PairsAlone
<1>6. CASE RecordCrl(p)
  <2>1. /\ pc[p] = "recordCrl" /\ pc'[p] = "record"
        /\ work' = [work EXCEPT !.crls[j] = next.crl]
      BY <1>6 DEF RecordCrl, Step, next, Settling
  <2>2. next.crl # None
      BY <1>2, RepositoryAssumption DEF Crl
  <2>3. PairedButFor(work, j)
      BY <2>1 DEF Pairs
  <2> HIDE DEF j
  <2>4. /\ work'.crls[j] = next.crl /\ work'.chains = work.chains
        /\ \A i \in Issuer : i # j => work'.crls[i] = work.crls[i]
    <3>1. work'.crls = [work.crls EXCEPT ![j] = next.crl]
          /\ work'.chains = work.chains
        BY <1>3, <2>1 DEF Files
    <3> QED
        BY <1>2, <1>3, <3>1
  <2>5. Paired(work)'
      BY <2>2, <2>3, <2>4 DEF Paired, PairedButFor
  <2> QED
      BY <1>1, <1>4, <2>1, <2>5, PairsAlone
<1> QED
    BY <1>5, <1>6

LEMMA SealKeepsPairs ==
    ASSUME Basis, Pairs, NEW p \in Proc, Acting(p), Seal(p)
    PROVE  Pairs'
<1>1. /\ DOMAIN commits' = DOMAIN commits \cup {Len(commits) + 1}
      /\ \A c \in DOMAIN commits : commits'[c] = commits[c]
      /\ commits'[Len(commits) + 1].tree = StampTree(p)
      /\ base[p] \in DOMAIN commits
    BY SealAppends
<1>2. /\ pc[p] = "record" /\ pc' = [pc EXCEPT ![p] = "sync"]
      /\ ResetJob(p) /\ UNCHANGED <<index, work>>
    BY DEF Seal, Step
<1>3. Paired(work) /\ Paired(index)
    BY <1>2 DEF Pairs, Acting
<1>4. Paired(StampTree(p))
    BY <1>1, StampTreePaired
<1>5. ASSUME NEW c \in DOMAIN commits'
      PROVE  Paired(TreeOf(c))'
  <2>1. CASE c \in DOMAIN commits
    <3>1. TreeOf(c)' = TreeOf(c) /\ Paired(TreeOf(c))
        BY <1>1, <2>1 DEF Pairs, TreeOf
    <3> QED
        BY <3>1 DEF Paired
  <2>2. CASE c = Len(commits) + 1
    <3>1. TreeOf(c)' = StampTree(p)
        BY <1>1, <2>2 DEF TreeOf
    <3> QED
        BY <1>4, <3>1 DEF Paired
  <2> QED
      BY <1>1, <2>1, <2>2
<1>6. ASSUME NEW q \in Proc
      PROVE  Paired(records[q])'
  <2>1. records'[q] = records[q] \/ records'[q] = NoRecords
      BY <1>2 DEF ResetJob
  <2> QED
    <3>1. CASE records'[q] = records[q]
        BY <3>1 DEF Pairs, Paired
    <3>2. CASE records'[q] = NoRecords
        BY <3>2, NothingRecorded DEF Paired
    <3> QED
        BY <2>1, <3>1, <3>2
<1>7. \A q \in Proc : pc'[q] # "recordCrl"
    BY <1>2 DEF Acting
<1>8. Paired(work)' /\ Paired(index)'
    BY <1>2, <1>3 DEF Paired
<1> QED
    BY <1>5, <1>6, <1>7, <1>8 DEF Pairs

LEMMA StopKeepsPairs ==
    ASSUME Basis, Pairs, NEW p \in Proc, Acting(p), Stop(p),
           pc[p] # "recordCrl"
    PROVE  Pairs'
<1>1. /\ pc' = [pc EXCEPT ![p] = "idle"] /\ ResetJob(p)
      /\ UNCHANGED <<commits, index, work>>
    BY DEF Stop
<1>2. records'[p] = NoRecords
      /\ \A q \in Proc : q # p => pc'[q] = pc[q] /\ records'[q] = records[q]
    BY <1>1 DEF ResetJob
<1>3. Paired(records[p])'
    BY <1>2, NothingRecorded DEF Paired
<1>4. Paired(work) /\ Paired(index)
    BY DEF Pairs, Acting
<1>5. Paired(work)' /\ Paired(index)' /\ pc'[p] # "recordCrl"
    BY <1>1, <1>4 DEF Paired
<1> QED
    BY <1>1, <1>2, <1>3, <1>5, PairsAlone

LEMMA CheckoutKeepsPairs ==
    ASSUME Basis, Pairs, NEW p \in Proc,
           CheckoutProceeds(p) \/ DropBegins(p) \/ CheckoutDies(p)
    PROVE  Pairs'
<1>1. /\ Acting(p) /\ UNCHANGED <<commits, head, records>>
    BY DEF CheckoutProceeds, DropBegins, CheckoutDies, SyncStep, SyncOpen,
           SyncArtifacts, SyncRecords, SyncStale, SyncIndex, StageNothing,
           StageOpen, StageIndex, DropOpen, DropStep, DropIndex, DropManifest,
           DropTokens, CheckoutFails, stampingVars, jobVars
<1>2. /\ \A q \in Proc : q # p => pc'[q] = pc[q]
      /\ pc[p] # "recordCrl" /\ pc'[p] # "recordCrl"
  <2>1. CASE DropBegins(p)
      BY <2>1 DEF DropBegins, DropOpen, Step
  <2>2. CASE CheckoutDies(p)
      BY <2>2 DEF CheckoutDies, CheckoutFails, CheckoutSteps
  <2>3. CASE CheckoutProceeds(p)
      BY <2>3
      DEF CheckoutProceeds, SyncStep, SyncOpen, SyncArtifacts, SyncRecords,
          SyncStale, SyncIndex, StageNothing, StageOpen, StageIndex, DropStep,
          DropIndex, DropManifest, DropTokens, Step
  <2> QED
      BY <2>1, <2>2, <2>3
<1>3. /\ index \in Files /\ work \in Files /\ TreeOf(head) \in Files
      /\ Paired(index) /\ Paired(work) /\ Paired(TreeOf(head))
    BY <1>1, <1>2, StoreTyping DEF Pairs, Acting
<1>4. pc[p] \in SyncSteps => Sealed(p) = TreeOf(head) /\ idx[p] = index
    BY DEF InPeace, Undisturbed, Sealed
<1>5. Paired(index') /\ Paired(work')
  <2>1. CASE SyncRecords(p)
    <3>1. /\ work'.chains = Overlay(TreeOf(head).chains, work.chains)
          /\ work'.crls = Overlay(TreeOf(head).crls, work.crls)
          /\ index' = index
        BY <1>3, <1>4, <2>1 DEF SyncRecords, Step, SyncSteps, Files
    <3> QED
        BY <1>3, <3>1, OverlaidPaired
  <2>2. CASE SyncIndex(p)
    <3>1. pc[p] \in SyncSteps
        BY <2>2 DEF SyncIndex, Step, SyncSteps
    <3>2. index' = SyncedIndex(p) /\ work' = work
        BY <1>4, <2>2, <3>1 DEF SyncIndex
    <3>3. /\ index'.chains = Overlay(TreeOf(head).chains, index.chains)
          /\ index'.crls = Overlay(TreeOf(head).crls, index.crls)
        BY <1>3, <1>4, <3>1, <3>2 DEF SyncedIndex, Files
    <3> QED
        BY <1>3, <3>2, <3>3, OverlaidPaired
  <2>3. CASE StageIndex(p)
    <3>1. index' = StagedIndex /\ work' = work
        BY <2>3 DEF StageIndex, Step, InPeace, Undisturbed
    <3>2. /\ index'.chains = Overlay(work.chains, index.chains)
          /\ index'.crls = Overlay(work.crls, index.crls)
        BY <1>3, <3>1 DEF StagedIndex, Files
    <3> QED
        BY <1>3, <3>1, <3>2, OverlaidPaired
  <2>4. CASE DropIndex(p)
    <3>1. index' = WithoutArtifacts(index) /\ work' = work
        BY <2>4 DEF DropIndex, Step, InPeace, Undisturbed
    <3>2. index'.chains = index.chains /\ index'.crls = index.crls
        BY <1>3, <3>1 DEF WithoutArtifacts, Files
    <3> QED
        BY <1>3, <3>1, <3>2 DEF Paired
  <2>5. CASE SyncArtifacts(p) \/ SyncStale(p) \/ DropManifest(p)
             \/ DropTokens(p)
    <3>1. /\ index' = index
          /\ work'.chains = work.chains /\ work'.crls = work.crls
        BY <1>3, <2>5
        DEF SyncArtifacts, SyncStale, DropManifest, DropTokens, Files
    <3> QED
        BY <1>3, <3>1 DEF Paired
  <2>6. CASE SyncOpen(p) \/ StageNothing(p) \/ StageOpen(p) \/ DropOpen(p)
             \/ CheckoutFails(p)
      BY <1>3, <2>6 DEF SyncOpen, StageNothing, StageOpen, DropOpen,
                        CheckoutFails
  <2> QED
      BY <2>1, <2>2, <2>3, <2>4, <2>5, <2>6
      DEF CheckoutProceeds, DropBegins, CheckoutDies, SyncStep, DropStep
<1>6. Paired(index)' /\ Paired(work)' /\ Paired(records[p])'
    BY <1>1, <1>5 DEF Paired, Pairs
<1> QED
    BY <1>1, <1>2, <1>6, PairsAlone

LEMMA UserKeepsPairs ==
    ASSUME Basis, Pairs, UserActs
    PROVE  Pairs'
<1>1. UNCHANGED <<pc, records>>
    BY DEF UserActs, UserStep, CommitEnd, Edit, AddAll, CommitBegin,
           CommitUnguarded, ResetHard, Restore, UserUnchanged, stampingVars,
           jobVars
<1>2. \A p \in Proc : pc[p] = "idle"
    BY DEF UserActs, AllIdle
<1>3. /\ index \in Files /\ work \in Files /\ TreeOf(head) \in Files
      /\ Paired(index) /\ Paired(work) /\ Paired(TreeOf(head))
    BY <1>2, StoreTyping DEF Pairs
<1>4. ASSUME UNCHANGED commits, Paired(index'), Paired(work')
      PROVE  Pairs'
  <2>1. Paired(index)' /\ Paired(work)'
      BY <1>4 DEF Paired
  <2> QED
      BY <1>1, <1>2, <1>4, <2>1 DEF Pairs, Paired, TreeOf
<1>5. ASSUME NEW c \in Content, Edit(c)
      PROVE  Pairs'
  <2>1. /\ index'.chains = index.chains /\ index'.crls = index.crls
        /\ work'.chains = work.chains /\ work'.crls = work.crls
        /\ commits' = commits
      BY <1>3, <1>5 DEF Edit, Files
  <2>2. Paired(index') /\ Paired(work')
      BY <1>3, <2>1 DEF Paired
  <2> QED
      BY <1>4, <2>1, <2>2
<1>6. CASE AddAll \/ CommitBegin
    BY <1>3, <1>4, <1>6 DEF AddAll, CommitBegin
<1>7. ASSUME NEW others \in SUBSET (DOMAIN commits), Committed(others),
             UNCHANGED <<index, work>>
      PROVE  Pairs'
  <2>1. ASSUME NEW c \in DOMAIN commits'
        PROVE  Paired(TreeOf(c))'
    <3>1. \/ TreeOf(c)' = index
          \/ c \in DOMAIN commits /\ TreeOf(c)' = TreeOf(c)
      <4>1. /\ DOMAIN commits' = DOMAIN commits \cup {Len(commits) + 1}
            /\ \A d \in DOMAIN commits : commits'[d] = commits[d]
            /\ commits'[Len(commits) + 1].tree = index
          BY <1>7, CommittedAppends
      <4> QED
          BY <4>1 DEF TreeOf
    <3>2. CASE TreeOf(c)' = index
        BY <1>3, <3>2 DEF Paired
    <3>3. CASE c \in DOMAIN commits /\ TreeOf(c)' = TreeOf(c)
        BY <3>3 DEF Pairs, Paired
    <3> QED
        BY <3>1, <3>2, <3>3
  <2>2. Paired(index)' /\ Paired(work)'
      BY <1>3, <1>7 DEF Paired
  <2> QED
      BY <1>1, <1>2, <2>1, <2>2 DEF Pairs, Paired
<1>8. CASE CommitEnd \/ CommitUnguarded
  <2>1. \/ UNCHANGED <<commits, index, work>>
        \/ /\ \E others \in SUBSET (DOMAIN commits) : Committed(others)
           /\ UNCHANGED <<index, work>>
      BY <1>8 DEF CommitEnd, CommitUnguarded
  <2>2. CASE UNCHANGED <<commits, index, work>>
      BY <1>3, <1>4, <2>2
  <2> QED
      BY <1>7, <2>1, <2>2
<1>9. ASSUME NEW c \in DOMAIN commits, ResetHard(c)
      PROVE  Pairs'
  <2>1. /\ commits' = commits /\ index' = TreeOf(c)
        /\ work' = CheckOut(TreeOf(c), index, work)
      BY <1>9 DEF ResetHard
  <2>2. TreeOf(c) \in Files /\ Paired(TreeOf(c))
      BY StoreTyping DEF Pairs
  <2>3. Paired(work')
      BY <1>3, <2>1, <2>2, CheckedOutPaired
  <2> QED
      BY <1>4, <2>1, <2>2, <2>3
<1>10. CASE Restore
  <2>1. /\ commits' = commits
        /\ index'.chains = TreeOf(head).chains
        /\ index'.crls = TreeOf(head).crls
      BY <1>3, <1>10 DEF Restore, Files
  <2>2. /\ work'.chains = CheckOut(TreeOf(head), index, work).chains
        /\ work'.crls = CheckOut(TreeOf(head), index, work).crls
      BY <1>10 DEF Restore, CheckOut
  <2>3. Paired(work')
      BY <1>3, <2>2, CheckedOutPaired
  <2>4. Paired(index')
      BY <1>3, <2>1 DEF Paired
  <2> QED
      BY <1>4, <2>1, <2>3, <2>4
<1> QED
    BY <1>5, <1>6, <1>8, <1>9, <1>10 DEF UserActs, UserStep

LEMMA PairsNext ==
    ASSUME Exclusive, "recordCrl" \notin Faults, Basis, Kept, Pairs,
           [Next]_vars
    PROVE  Pairs'
<1>1. ASSUME NEW p \in Proc, Acting(p), pc[p] # "recordCrl",
             pc'[p] # "recordCrl", UNCHANGED <<commits, index, work, records>>,
             \A q \in Proc : q # p => pc'[q] = pc[q]
      PROVE  Pairs'
  <2>1. Paired(index)' /\ Paired(records[p])' /\ Paired(work)'
    <3>1. Paired(index) /\ Paired(records[p]) /\ Paired(work)
        BY <1>1 DEF Pairs, Acting
    <3> QED
        BY <1>1, <3>1 DEF Paired
  <2> QED
      BY <1>1, <2>1, PairsAlone
<1>2. ASSUME NEW p \in Proc, StampProceeds(p)
      PROVE  Pairs'
  <2>1. Acting(p) /\ StampStep(p)
      BY <1>2 DEF StampProceeds
  <2>2. CASE Refuse(p)
    <3>1. pc[p] # "recordCrl"
        BY <2>2
        DEF Refuse, Refuses, RecordIsGone, TokenIsRefused, NothingAcquired,
            BranchMoved
    <3> QED
        BY <2>1, <2>2, <3>1, StopKeepsPairs DEF Refuse
  <2>3. CASE RefreshList(p) \/ FixManifest(p) \/ TsaReply(p) \/ SiteYields(p)
             \/ SiteTolerated(p) \/ AcquireDone(p)
      BY <1>1, <2>1, <2>3
      DEF RefreshList, FixManifest, TsaReply, SiteYields, SiteTolerated,
          AcquireDone, Step, stampingVars, jobVars
  <2> QED
      BY <2>1, <2>2, <2>3, SealKeepsPairs, RefreshKeepsPairs,
         RecordKeepsPairs DEF StampStep
<1>3. ASSUME NEW p \in Proc, StampBegins(p)
      PROVE  Pairs'
    BY <1>1, <1>3 DEF StampBegins, StampBegin, Step
<1>4. ASSUME NEW p \in Proc, StampDies(p)
      PROVE  Pairs'
  <2>1. Acting(p) /\ Stop(p) /\ pc[p] # "recordCrl"
      BY <1>4 DEF StampDies, StampFails
  <2> QED
      BY <2>1, StopKeepsPairs
<1>5. CASE World \/ UNCHANGED vars
  <2>1. UNCHANGED <<commits, index, work, pc, records, acquired, settled>>
      BY <1>5
      DEF World, TimePasses, Tick, Publish, Rotate, vars, stampingVars, jobVars
  <2>2. \A p \in Proc : Settling(p)' = Settling(p)
      BY <2>1 DEF Settling
  <2>3. /\ \A p \in Proc : Paired(records[p])' = Paired(records[p])
        /\ \A c \in DOMAIN commits : Paired(TreeOf(c))' = Paired(TreeOf(c))
        /\ Paired(index)' = Paired(index) /\ Paired(work)' = Paired(work)
      BY <2>1 DEF Paired, TreeOf
  <2>4. ASSUME NEW p \in Proc, pc[p] = "recordCrl"
        PROVE  PairedButFor(work, Settling(p))'
      BY <2>1, <2>2, <2>4 DEF Pairs, PairedButFor
  <2> QED
      BY <2>1, <2>3, <2>4 DEF Pairs
<1> QED
    BY <1>2, <1>3, <1>4, <1>5, CheckoutKeepsPairs, UserKeepsPairs, StepsAlone
    DEF InPeace

LEMMA PairsInitially == Init => Pairs
<1> SUFFICES ASSUME Init
             PROVE  Pairs
    OBVIOUS
<1>1. /\ index.chains = NoChains /\ index.crls = NoCrls /\ work = index
      /\ \A p \in Proc : pc[p] = "idle" /\ records[p] = NoRecords
    BY DEF Init, StampingInit
<1>2. \A c \in DOMAIN commits : TreeOf(c) = index
    BY DEF Init, TreeOf
<1>3. Paired(index)
    BY <1>1 DEF Paired, NoChains, NoCrls
<1> QED
    BY <1>1, <1>2, <1>3, NothingIsPaired DEF Pairs

-----------------------------------------------------------------------------
(***************************************************************************)
(* The CRLs of a fresh stamp.  Once a token is recorded, the working tree  *)
(* has a CRL of its issuer that decides it; and so it is for every token   *)
(* of the commit that is being checked out, which lays no older CRL over   *)
(* it.                                                                     *)
(***************************************************************************)
RecordedBy(p) ==
    /\ pc[p] \notin {"record", "recordCrl"} => settled[p] = 0
    /\ \A k \in DOMAIN acquired[p] : k <= settled[p] =>
           LET issuer == IssuerOf[acquired[p][k].token.site]
           IN  /\ work.crls[issuer] # None
               /\ Decides(work.crls[issuer], now)

\* A CRL of the working tree and one of a tree decide a token, the latter
\* if there is one.
BothDecide(held, tree, s) ==
    /\ held # None /\ Decides(held, tree.tokens[s].genTime)
    /\ tree.crls[IssuerOf[s]] # None =>
           Decides(tree.crls[IssuerOf[s]], tree.tokens[s].genTime)

DecidedBy(p) ==
    pc[p] \in Converging =>
        \A s \in Site : TreeOf(head).tokens[s] # None =>
            BothDecide(work.crls[IssuerOf[s]], TreeOf(head), s)

Recorded == \A p \in Proc : RecordedBy(p) /\ DecidedBy(p)

\* With nothing settled there is nothing to record.
LEMMA NothingSettled ==
    ASSUME NEW p \in Proc, acquired[p] \in Seq(Acquired), settled[p] = 0
    PROVE  RecordedBy(p)
<1>1. \A k \in DOMAIN acquired[p] : ~(k <= settled[p])
    OBVIOUS
<1> QED
    BY <1>1 DEF RecordedBy

LEMMA NothingSettledNext ==
    ASSUME NEW p \in Proc, acquired'[p] \in Seq(Acquired), settled'[p] = 0
    PROVE  RecordedBy(p)'
<1>1. \A k \in DOMAIN acquired'[p] : ~(k <= settled'[p])
    OBVIOUS
<1> QED
    BY <1>1 DEF RecordedBy

\* One step of one invocation, by itself.
LEMMA RecordedAlone ==
    ASSUME Recorded, Basis', NEW p \in Proc, Acting(p),
           \A q \in Proc : q # p => pc'[q] = pc[q] /\ settled'[q] = settled[q],
           RecordedBy(p)', DecidedBy(p)'
    PROVE  Recorded'
<1>1. ASSUME NEW q \in Proc, q # p
      PROVE  RecordedBy(q)' /\ DecidedBy(q)'
  <2>1. pc[q] = "idle" /\ pc'[q] = "idle"
      BY <1>1 DEF Acting
  <2>2. settled'[q] = 0
      BY <1>1, <2>1 DEF Recorded, RecordedBy
  <2>3. acquired'[q] \in Seq(Acquired)
      OBVIOUS
  <2>4. RecordedBy(q)'
      BY <2>2, <2>3, NothingSettledNext
  <2> QED
      BY <2>1, <2>4 DEF DecidedBy, Converging, SyncSteps
<1> QED
    BY <1>1 DEF Recorded

\* A step outside the recording and the convergence.
LEMMA OtherwiseRecorded ==
    ASSUME Recorded, Basis', NEW p \in Proc, Acting(p),
           \A q \in Proc : q # p => pc'[q] = pc[q] /\ settled'[q] = settled[q],
           settled'[p] = 0, pc'[p] \notin Converging
    PROVE  Recorded'
<1>1. acquired'[p] \in Seq(Acquired)
    OBVIOUS
<1>2. RecordedBy(p)'
    BY <1>1, NothingSettledNext
<1>3. DecidedBy(p)'
    BY DEF DecidedBy
<1> QED
    BY <1>2, <1>3, RecordedAlone

\* The next of a sequence, and those before it.
LEMMA NextInSequence ==
    ASSUME NEW S, NEW q \in Seq(S), NEW n \in Nat, n < Len(q)
    PROVE  /\ n + 1 \in DOMAIN q
           /\ \A k \in DOMAIN q : k <= n + 1 /\ k # n + 1 => k <= n
    OBVIOUS

LEMMA RecordKeepsRecorded ==
    ASSUME Basis, Basis', Fresh, Recorded, NEW p \in Proc, Acting(p),
           RecordChain(p) \/ RecordCrl(p)
    PROVE  Recorded'
<1> DEFINE next == acquired[p][settled[p] + 1]
           issuer(k) == IssuerOf[acquired[p][k].token.site]
<1>1. work \in Files /\ acquired[p] \in Seq(Acquired) /\ settled[p] \in Nat
    OBVIOUS
<1>2. /\ pc[p] \in {"record", "recordCrl"} /\ pc'[p] \in {"record", "recordCrl"}
      /\ UNCHANGED <<now, acquired>>
      /\ \A q \in Proc : q # p => pc'[q] = pc[q]
  <2>1. UNCHANGED <<now, acquired>>
      BY DEF RecordChain, RecordCrl, stampingVars, jobVars
  <2>2. \E from, to \in {"record", "recordCrl"} : Step(p, from, to)
      BY DEF RecordChain, RecordCrl
  <2> QED
      BY <2>1, <2>2, StepSetsLabel
<1>3. DecidedBy(p)'
    BY <1>2 DEF DecidedBy, Converging, SyncSteps
<1>4. \A k \in DOMAIN acquired[p] : k <= settled[p] =>
          work.crls[issuer(k)] # None /\ Decides(work.crls[issuer(k)], now)
    BY DEF Recorded, RecordedBy
<1>5. CASE RecordChain(p)
  <2>1. work'.crls = work.crls /\ settled' = settled
      BY <1>1, <1>5 DEF RecordChain, Files, stampingVars, jobVars
  <2>2. RecordedBy(p)'
      BY <1>2, <1>4, <2>1 DEF RecordedBy, Decides
  <2> QED
      BY <1>2, <1>3, <2>1, <2>2, RecordedAlone
<1>6. CASE RecordCrl(p)
  <2>1. /\ settled[p] + 1 \in DOMAIN acquired[p]
        /\ \A k \in DOMAIN acquired[p] :
               k <= settled[p] + 1 /\ k # settled[p] + 1 => k <= settled[p]
    <3>1. settled[p] < Len(acquired[p])
        BY <1>6 DEF RecordCrl, Step
    <3> QED
        BY <1>1, <3>1, NextInSequence
  <2>2. /\ next.crl \in Crl /\ next.token.site \in Site
        /\ issuer(settled[p] + 1) \in Issuer
        /\ Decides(next.crl, now)
    <3>1. next.crl \in Crl /\ next.token \in Token
        BY <2>1, AcquiredTyping
    <3>2. Decides(next.crl, now)
        BY <2>1 DEF Fresh, Timely
    <3> QED
        BY <3>1, <3>2, RepositoryAssumption DEF Token
  <2>3. work' = [work EXCEPT !.crls[issuer(settled[p] + 1)] = next.crl]
      BY <1>6 DEF RecordCrl
  <2>4. settled' = [settled EXCEPT ![p] = @ + 1]
      BY <1>6 DEF RecordCrl
  <2>5. next.crl # None
      BY <2>2, RepositoryAssumption DEF Crl
  <2> HIDE DEF next
  <2>6. \A i \in Issuer :
            work'.crls[i] = IF i = issuer(settled[p] + 1) THEN next.crl
                            ELSE work.crls[i]
    <3> HIDE DEF issuer
    <3>1. work'.crls = [work.crls EXCEPT ![issuer(settled[p] + 1)] = next.crl]
        BY <1>1, <2>3 DEF Files
    <3> QED
        BY <1>1, <2>2, <3>1 DEF Files, CrlFiles
  <2>7. ASSUME NEW k \in DOMAIN acquired[p], k <= settled[p] + 1
        PROVE  work'.crls[issuer(k)] # None /\ Decides(work'.crls[issuer(k)], now)
    <3>1. issuer(k) \in Issuer
        BY AcquiredTyping, RepositoryAssumption DEF Token
    <3>2. CASE issuer(k) = issuer(settled[p] + 1)
        BY <2>2, <2>5, <2>6, <3>1, <3>2
    <3>3. CASE issuer(k) # issuer(settled[p] + 1)
      <4>1. k # settled[p] + 1
          BY <3>3
      <4>2. k <= settled[p]
          BY <2>1, <2>7, <4>1
      <4>3. work'.crls[issuer(k)] = work.crls[issuer(k)]
          BY <2>6, <3>1, <3>3
      <4>4. work.crls[issuer(k)] # None /\ Decides(work.crls[issuer(k)], now)
          BY <1>4, <4>2
      <4> QED
          BY <4>3, <4>4
    <3> QED
        BY <3>2, <3>3
  <2>8. settled'[p] = settled[p] + 1
      BY <1>1, <2>4
  <2>9. RecordedBy(p)'
      BY <1>2, <2>7, <2>8 DEF RecordedBy, Decides
  <2>10. \A q \in Proc : q # p => settled'[q] = settled[q]
      BY <2>4
  <2> QED
      BY <1>2, <1>3, <2>9, <2>10, RecordedAlone
<1> QED
    BY <1>5, <1>6

\* At the seal every token is recorded, and its issuer's CRL is fresh.
LEMMA SealKeepsRecorded ==
    ASSUME Basis, Basis', Kept, Fresh, Pairs, Recorded, NEW p \in Proc,
           Acting(p), Seal(p)
    PROVE  Recorded'
<1>1. /\ base[p] \in DOMAIN commits /\ TreeOf(head)' = StampTree(p)
    BY SealAppends DEF TreeOf
<1>2. /\ pc' = [pc EXCEPT ![p] = "sync"] /\ settled[p] = Len(acquired[p])
      /\ ResetJob(p) /\ work' = work
    BY DEF Seal, Step
<1>3. /\ settled'[p] = 0 /\ pc'[p] = "sync"
      /\ \A q \in Proc : q # p => pc'[q] = pc[q] /\ settled'[q] = settled[q]
    BY <1>2 DEF ResetJob
<1>4. acquired'[p] \in Seq(Acquired)
    OBVIOUS
<1>5. RecordedBy(p)'
    BY <1>3, <1>4, NothingSettledNext
<1>6. ASSUME NEW s \in Site, StampTree(p).tokens[s] # None
      PROVE  BothDecide(work.crls[IssuerOf[s]], StampTree(p), s)
  <2>1. PICK k \in DOMAIN acquired[p] :
            /\ StampTree(p).tokens[s] = acquired[p][k].token
            /\ acquired[p][k].token.site = s
      BY <1>1, <1>6, StampTreeTokens
  <2>2. StampTree(p).tokens[s].genTime = now
      BY <2>1 DEF Fresh, Timely
  <2>3. k <= settled[p]
    <3>1. acquired[p] \in Seq(Acquired)
        OBVIOUS
    <3> QED
        BY <1>2, <3>1
  <2>4. /\ work.crls[IssuerOf[s]] # None
        /\ Decides(work.crls[IssuerOf[s]], now)
    <3>1. RecordedBy(p)
        BY DEF Recorded
    <3> QED
        BY <2>1, <2>3, <3>1 DEF RecordedBy
  <2>5. IssuerOf[s] \in Issuer
      BY RepositoryAssumption
  <2>6. ASSUME StampTree(p).crls[IssuerOf[s]] # None
        PROVE  Decides(StampTree(p).crls[IssuerOf[s]], now)
    <3>1. StampTree(p).chains[IssuerOf[s]] # None
        BY <1>1, <2>5, <2>6, StampTreePaired DEF Paired
    <3> QED
        BY <2>5, <3>1, SealedChainsHaveCrls
  <2> QED
      BY <2>2, <2>4, <2>6 DEF BothDecide
<1>7. DecidedBy(p)'
    BY <1>1, <1>2, <1>6 DEF DecidedBy, BothDecide, Decides
<1> QED
    BY <1>3, <1>5, <1>7, RecordedAlone

LEMMA CheckoutKeepsRecorded ==
    ASSUME Basis, Basis', Recorded, NEW p \in Proc,
           CheckoutProceeds(p) \/ DropBegins(p) \/ CheckoutDies(p)
    PROVE  Recorded'
<1>1. /\ Acting(p)
      /\ UNCHANGED <<commits, head, settled>>
  <2>1. CASE CheckoutProceeds(p)
      BY <2>1, CheckoutMoves DEF CheckoutProceeds, stampingVars, jobVars
  <2>2. CASE DropBegins(p)
      BY <2>2 DEF DropBegins, DropOpen, stampingVars, jobVars
  <2>3. CASE CheckoutDies(p)
      BY <2>3 DEF CheckoutDies, CheckoutFails, stampingVars, jobVars
  <2> QED
      BY <2>1, <2>2, <2>3
<1>2. /\ \A q \in Proc : q # p => pc'[q] = pc[q]
      /\ pc[p] \notin {"record", "recordCrl"}
      /\ pc[p] \in Converging \/ pc'[p] \notin Converging
  <2>1. CASE DropBegins(p)
    <3>1. PICK to \in Dropping : Step(p, "idle", to)
        BY <2>1 DEF DropBegins, DropOpen, Dropping
    <3> QED
        BY <3>1, StepSetsLabel DEF Converging, SyncSteps, Dropping
  <2>2. CASE CheckoutDies(p)
    <3>1. pc[p] \in CheckoutSteps /\ pc' = [pc EXCEPT ![p] = "idle"]
        BY <2>2 DEF CheckoutDies, CheckoutFails
    <3>2. pc'[p] = "idle" /\ \A q \in Proc : q # p => pc'[q] = pc[q]
        BY <3>1, LabelSet
    <3> QED
        BY <3>1, <3>2 DEF CheckoutSteps, Converging, SyncSteps
  <2>3. CASE CheckoutProceeds(p)
    <3>1. \/ \E from \in Converging, to \in Converging \cup {"idle"} :
                 Step(p, from, to)
          \/ \E from \in Dropping, to \in Dropping \cup {"idle"} :
                 Step(p, from, to)
        BY <2>3, CheckoutMoves DEF CheckoutProceeds
    <3>2. /\ \/ pc[p] \in Converging
             \/ pc[p] \in Dropping /\ pc'[p] \in Dropping \cup {"idle"}
          /\ \A q \in Proc : q # p => pc'[q] = pc[q]
      <4>1. PICK from, to : /\ Step(p, from, to)
                            /\ \/ from \in Converging
                               \/ /\ from \in Dropping
                                  /\ to \in Dropping \cup {"idle"}
          BY <3>1
      <4>2. /\ pc[p] = from /\ pc'[p] = to
            /\ \A q \in Proc : q # p => pc'[q] = pc[q]
          BY <4>1, StepSetsLabel
      <4> QED
          BY <4>1, <4>2
    <3> QED
        BY <3>2 DEF Converging, SyncSteps, Dropping
  <2> QED
      BY <2>1, <2>2, <2>3
<1>3. settled'[p] = 0
    BY <1>1, <1>2 DEF Recorded, RecordedBy
<1>4. acquired'[p] \in Seq(Acquired)
    OBVIOUS
<1>5. RecordedBy(p)'
    BY <1>3, <1>4, NothingSettledNext
<1>6. /\ work \in Files /\ TreeOf(head) \in Files
      /\ TreeOf(head)' = TreeOf(head)
    BY <1>1, StoreTyping DEF TreeOf
<1>7. DecidedBy(p)
    BY DEF Recorded
<1>8. CASE SyncRecords(p)
  <2>1. pc[p] \in SyncSteps
      BY <1>8 DEF SyncRecords, Step, SyncSteps
  <2>2. Sealed(p) = TreeOf(head)
      BY <2>1 DEF InPeace, Undisturbed, Sealed
  <2>3. /\ work'.chains = Overlay(TreeOf(head).chains, work.chains)
        /\ work'.crls = Overlay(TreeOf(head).crls, work.crls)
      BY <1>6, <1>8, <2>2 DEF SyncRecords, Files
  <2>4. \A i \in Issuer :
            work'.crls[i] = IF TreeOf(head).crls[i] # None
                            THEN TreeOf(head).crls[i] ELSE work.crls[i]
    <3> DEFINE tree == TreeOf(head)
    <3>1. tree \in Files /\ work'.chains = Overlay(tree.chains, work.chains)
          /\ work'.crls = Overlay(tree.crls, work.crls)
        BY <1>6, <2>3
    <3> HIDE DEF tree
    <3>2. \A i \in Issuer :
              work'.crls[i] = IF tree.crls[i] # None THEN tree.crls[i]
                              ELSE work.crls[i]
      <4>1. DOMAIN tree.crls = Issuer
          BY <3>1 DEF Files, CrlFiles
      <4> DEFINE crls == work'.crls
      <4>2. crls = Overlay(tree.crls, work.crls)
          BY <3>1
      <4> HIDE DEF crls
      <4>3. \A i \in Issuer :
                crls[i] = IF tree.crls[i] # None THEN tree.crls[i]
                          ELSE work.crls[i]
          BY <4>1, <4>2 DEF Overlay, Lay
      <4> QED
          BY <4>3 DEF crls
    <3> QED
        BY <3>2 DEF tree
  <2>5. ASSUME NEW s \in Site, TreeOf(head).tokens[s] # None
        PROVE  BothDecide(work'.crls[IssuerOf[s]], TreeOf(head), s)
    <3>1. BothDecide(work.crls[IssuerOf[s]], TreeOf(head), s)
        BY <1>7, <2>1, <2>5 DEF DecidedBy, Converging
    <3>2. IssuerOf[s] \in Issuer
        BY RepositoryAssumption
    <3>3. work'.crls[IssuerOf[s]] =
              IF TreeOf(head).crls[IssuerOf[s]] # None
              THEN TreeOf(head).crls[IssuerOf[s]]
              ELSE work.crls[IssuerOf[s]]
        BY <2>4, <3>2
    <3> QED
        BY <3>1, <3>3 DEF BothDecide
  <2>6. DecidedBy(p)'
      BY <1>6, <2>5 DEF DecidedBy, BothDecide, Decides
  <2> QED
      BY <1>1, <1>2, <1>5, <2>6, RecordedAlone
<1>9. CASE ~SyncRecords(p)
  <2>1. work'.crls = work.crls
      BY <1>6, <1>9
      DEF CheckoutProceeds, DropBegins, CheckoutDies, SyncStep, SyncOpen,
          SyncArtifacts, SyncStale, SyncIndex, StageNothing, StageOpen,
          StageIndex, DropOpen, DropStep, DropIndex, DropManifest, DropTokens,
          CheckoutFails, Files
  <2>2. DecidedBy(p)'
      BY <1>2, <1>6, <1>7, <2>1 DEF DecidedBy, BothDecide, Decides
  <2> QED
      BY <1>1, <1>2, <1>5, <2>2, RecordedAlone
<1> QED
    BY <1>8, <1>9

LEMMA RecordedNext ==
    ASSUME Exclusive, Steady, Basis, Basis', Kept, Fresh, Pairs, Recorded,
           [Next]_vars
    PROVE  Recorded'
<1>1. \A p \in Proc : pc[p] \notin {"record", "recordCrl"} => settled[p] = 0
    BY DEF Recorded, RecordedBy
<1>2. ASSUME NEW p \in Proc, Acting(p), Stop(p)
      PROVE  Recorded'
  <2>1. /\ pc' = [pc EXCEPT ![p] = "idle"]
        /\ settled' = [settled EXCEPT ![p] = 0]
      BY <1>2 DEF Stop, ResetJob
  <2>2. /\ settled'[p] = 0 /\ pc'[p] = "idle"
        /\ \A q \in Proc : q # p => pc'[q] = pc[q] /\ settled'[q] = settled[q]
      BY <2>1
  <2>3. pc'[p] \notin Converging
      BY <2>2 DEF Converging, SyncSteps
  <2> QED
      BY <1>2, <2>2, <2>3, OtherwiseRecorded
<1>3. ASSUME NEW p \in Proc, StampProceeds(p)
      PROVE  Recorded'
  <2>1. Acting(p) /\ StampStep(p)
      BY <1>3 DEF StampProceeds
  <2>2. ASSUME pc[p] \notin {"record", "recordCrl"}, pc'[p] \in StampSteps,
               settled' = settled, \A q \in Proc : q # p => pc'[q] = pc[q]
        PROVE  Recorded'
    <3>1. settled'[p] = 0
        BY <1>1, <2>2
    <3>2. pc'[p] \notin Converging
        BY <2>2 DEF StampSteps, Converging, SyncSteps
    <3> QED
        BY <2>1, <2>2, <3>1, <3>2, OtherwiseRecorded
  <2>3. CASE RefreshList(p) \/ FixManifest(p) \/ TsaReply(p) \/ SiteYields(p)
             \/ SiteTolerated(p) \/ AcquireDone(p)
    <3>1. settled' = settled
        BY <2>3
        DEF RefreshList, FixManifest, TsaReply, SiteYields, SiteTolerated,
            AcquireDone, stampingVars, jobVars
    <3>2. PICK to \in StampSteps : Step(p, pc[p], to)
                                   /\ pc[p] \notin {"record", "recordCrl"}
        BY <2>3
        DEF RefreshList, FixManifest, TsaReply, SiteYields, SiteTolerated,
            AcquireDone, Step, StampSteps
    <3>3. pc'[p] = to /\ \A q \in Proc : q # p => pc'[q] = pc[q]
        BY <3>2 DEF Step
    <3> QED
        BY <2>2, <3>1, <3>2, <3>3
  <2>4. ASSUME NEW i \in Issuer, RefreshFetch(p, i) \/ RefreshWrite(p, i)
        PROVE  Recorded'
      BY <2>2, <2>4 DEF RefreshFetch, RefreshWrite, Step, StampSteps
  <2> QED
      BY <1>2, <2>1, <2>3, <2>4, SealKeepsRecorded, RecordKeepsRecorded
      DEF StampStep, Refuse
<1>4. ASSUME NEW p \in Proc, StampBegins(p)
      PROVE  Recorded'
  <2>1. Acting(p) /\ pc[p] = "idle" /\ pc' = [pc EXCEPT ![p] = "list"]
        /\ settled' = settled
      BY <1>4 DEF StampBegins, StampBegin, Step
  <2> QED
      BY <1>1, <2>1, OtherwiseRecorded DEF Converging, SyncSteps
<1>5. ASSUME NEW p \in Proc, StampDies(p)
      PROVE  Recorded'
    BY <1>2, <1>5 DEF StampDies, StampFails
<1>6. ASSUME AllIdle, UNCHANGED <<pc, settled>>
      PROVE  Recorded'
  <2>1. ASSUME NEW p \in Proc
        PROVE  RecordedBy(p)' /\ DecidedBy(p)'
    <3>1. pc'[p] = "idle" /\ settled'[p] = 0 /\ acquired'[p] \in Seq(Acquired)
        BY <1>1, <1>6 DEF AllIdle
    <3>2. RecordedBy(p)'
        BY <3>1, NothingSettledNext
    <3> QED
        BY <3>1, <3>2 DEF DecidedBy, Converging, SyncSteps
  <2> QED
      BY <2>1 DEF Recorded
<1>7. CASE UserActs
  <2>1. AllIdle /\ UNCHANGED <<pc, settled>>
      BY <1>7
      DEF UserActs, UserStep, CommitEnd, Edit, AddAll, CommitBegin,
          CommitUnguarded, ResetHard, Restore, UserUnchanged, stampingVars,
          jobVars
  <2> QED
      BY <1>6, <2>1
<1>8. CASE TimePasses
    BY <1>6, <1>8 DEF TimePasses, Tick, Quiet, AllIdle, jobVars
<1>9. ASSUME UNCHANGED <<commits, head, work, pc, now, acquired, settled>>
      PROVE  Recorded'
  <2>1. ASSUME NEW p \in Proc
        PROVE  RecordedBy(p)' /\ DecidedBy(p)'
    <3>1. RecordedBy(p) /\ DecidedBy(p)
        BY DEF Recorded
    <3>2. RecordedBy(p)'
        BY <1>9, <3>1 DEF RecordedBy, Decides
    <3>3. DecidedBy(p)'
        BY <1>9, <3>1 DEF DecidedBy, BothDecide, Decides, TreeOf
    <3> QED
        BY <3>2, <3>3
  <2> QED
      BY <2>1 DEF Recorded
<1>10. CASE World /\ ~TimePasses
    BY <1>9, <1>10 DEF World, Publish, Rotate, jobVars
<1>11. CASE UNCHANGED vars
    BY <1>9, <1>11 DEF vars, stampingVars, jobVars
<1> QED
    BY <1>3, <1>4, <1>5, <1>7, <1>8, <1>10, <1>11, CheckoutKeepsRecorded,
       StepsAlone DEF InPeace

LEMMA RecordedInitially == Init => Recorded
<1> SUFFICES ASSUME Init
             PROVE  Recorded
    OBVIOUS
<1>1. \A p \in Proc : pc[p] = "idle" /\ settled[p] = 0 /\ acquired[p] = <<>>
    BY DEF Init, StampingInit
<1> QED
    BY <1>1 DEF Recorded, RecordedBy, DecidedBy, Converging, SyncSteps

LEMMA RecordedAlways ==
    ASSUME Exclusive, Steady, "recordCrl" \notin Faults
    PROVE  Spec => [](Basis /\ Kept /\ Fresh /\ Pairs /\ Recorded)
<1>1. Basis /\ Kept /\ Pairs /\ [Next]_vars => Pairs'
    BY PairsNext
<1>2. Spec => [](Basis /\ Kept /\ Fresh /\ Pairs)
    BY <1>1, PairsInitially, FreshAlways, PTL DEF Spec
<1>3. Basis /\ Basis' /\ Kept /\ Fresh /\ Pairs /\ Recorded /\ [Next]_vars
          => Recorded'
    BY RecordedNext
<1> QED
    BY <1>2, <1>3, RecordedInitially, PTL DEF Spec

\* The walk stops at once at a commit that claims.
LEMMA ClaimIsNearest ==
    ASSUME NEW c \in DOMAIN commits, Claims(c)
    PROVE  NearestClaims({c}) = {c}
<1>1. {c} \in SUBSET (DOMAIN commits) /\ ClosedUnderWalk({c})
    BY DEF ClosedUnderWalk
<1>2. Walked({c}) \subseteq {c}
    BY <1>1 DEF Walked
<1>3. c \in Walked({c})
    BY DEF Walked
<1> QED
    BY <1>2, <1>3 DEF NearestClaims

\* A sealed commit is judged well with material that decides its tokens.
LEMMA SealedIsJudged ==
    ASSUME Basis, NEW c \in DOMAIN commits, commits[c].sealed, NEW material,
           \A s \in Site : TreeOf(c).tokens[s] # None =>
               \E m \in material[IssuerOf[s]] :
                   Decides(m, TreeOf(c).tokens[s].genTime)
    PROVE  Judged(c, material)
<1> DEFINE tree == TreeOf(c)
<1>1. /\ tree.manifest \in DOMAIN manifests
      /\ Holds(tree, commits[c].parents, manifests[tree.manifest])
    BY DEF Evidence
<1>2. \A group \in manifests[tree.manifest].groups : Linked(group)
    BY <1>1 DEF Evidence
<1>3. manifests[tree.manifest].entries = SnapshotOf(tree)
    BY <1>1 DEF Holds
<1>4. PICK s \in Site : tree.tokens[s] # None
    BY <1>1 DEF Holds
<1>5. tree.tokens[s].genuine /\ tree.tokens[s].imprint = tree.manifest
    BY <1>1, <1>4 DEF Holds
<1>6. TokenVerifies(tree.tokens[s], tree.manifest, material[IssuerOf[s]])
    BY <1>4, <1>5 DEF TokenVerifies
<1> HIDE DEF tree
<1>7. tree = TreeOf(c)
    BY DEF tree
<1> QED
    BY <1>2, <1>3, <1>4, <1>6, <1>7 DEF Judged

\* A fresh stamp verifies: when the command is done, the audit of the commit
\* it sealed, with the working tree it leaves, passes.
THEOREM FreshStampVerifies ==
    ASSUME Exclusive, Steady, "recordCrl" \notin Faults
    PROVE  Spec => FreshStampPasses
<1> DEFINE Passes(p) == AuditPasses(result[p], work')
<1>1. ASSUME Basis, Recorded, NEW p \in Proc, Finishes(p)
      PROVE  Passes(p)
  <2>1. pc[p] \in {"stage", "stageIndex"} /\ work' = work
      BY <1>1 DEF Finishes, StageNothing, StageIndex, Step
  <2>2. result[p] = head /\ commits[head].sealed /\ head \in DOMAIN commits
      BY <1>1, <2>1 DEF InPeace, Undisturbed, Converging
  <2>3. Claims(head)
      BY <1>1, <2>2, SealedManifest DEF Claims
  <2>4. NearestClaims({head}) = {head}
      BY <2>2, <2>3, ClaimIsNearest
  <2>5. ASSUME NEW s \in Site, TreeOf(head).tokens[s] # None
        PROVE  \E m \in Material(head, work)[IssuerOf[s]] :
                   Decides(m, TreeOf(head).tokens[s].genTime)
    <3>1. IssuerOf[s] \in Issuer
        BY RepositoryAssumption
    <3>2. BothDecide(work.crls[IssuerOf[s]], TreeOf(head), s)
        BY <1>1, <2>1, <2>5 DEF Recorded, DecidedBy, Converging
    <3>3. work.crls[IssuerOf[s]] \in Material(head, work)[IssuerOf[s]]
        BY <3>1, <3>2 DEF Material, BothDecide
    <3> QED
        BY <3>2, <3>3 DEF BothDecide
  <2>6. Judged(head, Material(head, work))
      BY <1>1, <2>2, <2>5, SealedIsJudged
  <2> QED
      BY <2>1, <2>2, <2>4, <2>6 DEF AuditPasses
<1>2. Basis /\ Recorded => [\A p \in Proc : Finishes(p) => Passes(p)]_vars
    BY <1>1
<1> HIDE DEF Passes
<1>3. Spec => [][\A p \in Proc : Finishes(p) => Passes(p)]_vars
    BY <1>2, RecordedAlways, PTL DEF Spec
<1> USE DEF Passes
<1> QED
    BY <1>3 DEF FreshStampPasses

-----------------------------------------------------------------------------
(***************************************************************************)
(* Evidence of older stamps.  A sealed token is never from the future, and *)
(* those of the commit that is being checked out are from now; so the CRL  *)
(* that decides the newest stamp decides every older one of its issuer.    *)
(***************************************************************************)
Dated(tree, by) ==
    \A s \in Site : tree.tokens[s] # None => tree.tokens[s].genTime <= by

DatedNow(tree) ==
    \A s \in Site : tree.tokens[s] # None => tree.tokens[s].genTime = now

Aged ==
    /\ \A c \in DOMAIN commits : commits[c].sealed => Dated(TreeOf(c), now)
    /\ \A p \in Proc : pc[p] \in Converging => DatedNow(TreeOf(head))

\* What an invocation acquired bears the time it is sealed at.
LEMMA SealIsDatedNow ==
    ASSUME Basis, Fresh, NEW p \in Proc, base[p] \in DOMAIN commits
    PROVE  DatedNow(StampTree(p))
<1> SUFFICES ASSUME NEW s \in Site, StampTree(p).tokens[s] # None
             PROVE  StampTree(p).tokens[s].genTime = now
    BY DEF DatedNow
<1>1. PICK k \in DOMAIN acquired[p] :
          StampTree(p).tokens[s] = acquired[p][k].token
    BY StampTreeTokens
<1> QED
    BY <1>1 DEF Fresh, Timely

\* The clock moves only between invocations, and never back.
LEMMA ClockStands ==
    ASSUME Exclusive, Steady, Basis, [Next]_vars
    PROVE  \/ now' = now
           \/ AllIdle /\ now' = now + 1 /\ UNCHANGED <<pc, commits, head>>
<1>1. ASSUME NEW p \in Proc, StampBegins(p) \/ DropBegins(p)
      PROVE  now' = now
    BY <1>1 DEF StampBegins, StampBegin, DropBegins, stampingVars
<1>2. ASSUME NEW p \in Proc, StampProceeds(p)
      PROVE  now' = now
    BY <1>2
    DEF StampProceeds, StampStep, RefreshList, RefreshFetch, RefreshWrite,
        FixManifest, TsaReply, SiteYields, SiteTolerated, AcquireDone,
        RecordChain, RecordCrl, Refuse, Seal, Stop, stampingVars, jobVars
<1>3. ASSUME NEW p \in Proc,
             CheckoutProceeds(p) \/ CheckoutDies(p) \/ StampDies(p)
      PROVE  now' = now
    BY <1>3
    DEF CheckoutProceeds, CheckoutDies, StampDies, StampFails, Stop,
        stampingVars
<1>4. CASE UserActs
    BY <1>4
    DEF UserActs, UserStep, CommitEnd, Edit, AddAll, CommitBegin,
        CommitUnguarded, ResetHard, Restore, UserUnchanged, stampingVars
<1>5. CASE World
    BY <1>5
    DEF World, TimePasses, Tick, Quiet, AllIdle, Publish, Rotate
<1>6. CASE UNCHANGED vars
    BY <1>6 DEF vars, stampingVars
<1> QED
    BY <1>1, <1>2, <1>3, <1>4, <1>5, <1>6, StepsAlone DEF InPeace

\* An invocation converges once it has sealed, until it is done.
LEMMA ConvergesOn ==
    ASSUME Exclusive, Basis, [Next]_vars, NEW p \in Proc,
           pc'[p] \in Converging
    PROVE  \/ Seal(p)
           \/ pc[p] \in Converging /\ UNCHANGED <<commits, head>>
<1>1. pc'[p] \notin {"idle"} \cup StampSteps \cup Dropping
    BY DEF Converging, SyncSteps, StampSteps, Dropping
<1>2. ASSUME NEW q \in Proc, StampProceeds(q), ~Seal(q)
      PROVE  FALSE
  <2>1. Acting(q) /\ StampStep(q)
      BY <1>2 DEF StampProceeds
  <2>2. CASE Refuse(q)
      BY <1>1, <2>1, <2>2, LabelSet DEF Refuse, Stop, Acting
  <2>3. CASE ~Refuse(q)
      BY <1>1, <1>2, <2>1, <2>3, StampStepGoesOn DEF Acting
  <2> QED
      BY <2>2, <2>3
<1>3. ASSUME NEW q \in Proc, StampProceeds(q), Seal(q)
      PROVE  Seal(p)
  <2>1. pc' = [pc EXCEPT ![q] = "sync"] /\ Acting(q)
      BY <1>3 DEF StampProceeds, Seal, Step
  <2> QED
      BY <1>1, <1>3, <2>1 DEF Acting
<1>4. ASSUME NEW q \in Proc, StampBegins(q) \/ StampDies(q)
      PROVE  FALSE
    BY <1>1, <1>4, BeginsOrDies DEF Acting
<1>5. ASSUME NEW q \in Proc, DropBegins(q)
      PROVE  FALSE
  <2>1. PICK to \in Dropping : Step(q, "idle", to)
      BY <1>5 DEF DropBegins, DropOpen, Dropping
  <2>2. pc'[q] = to /\ \A r \in Proc : r # q => pc'[r] = pc[r]
      BY <2>1, StepSetsLabel
  <2> QED
      BY <1>1, <1>5, <2>2 DEF DropBegins, Acting
<1>6. ASSUME NEW q \in Proc, CheckoutDies(q)
      PROVE  FALSE
  <2>1. pc' = [pc EXCEPT ![q] = "idle"] /\ Acting(q)
      BY <1>6 DEF CheckoutDies, CheckoutFails
  <2> QED
      BY <1>1, <2>1 DEF Acting
<1>7. ASSUME NEW q \in Proc, CheckoutProceeds(q)
      PROVE  pc[p] \in Converging /\ UNCHANGED <<commits, head>>
  <2>1. Acting(q) /\ (SyncStep(q) \/ DropStep(q))
      BY <1>7 DEF CheckoutProceeds
  <2>2. UNCHANGED <<commits, head>>
      BY <2>1, CheckoutMoves
  <2>3. CASE \E from \in Converging, to \in Converging \cup {"idle"} :
                 Step(q, from, to)
    <3>1. pc[q] \in Converging /\ \A r \in Proc : r # q => pc'[r] = pc[r]
        BY <2>3, StepSetsLabel DEF Step
    <3> QED
        BY <1>1, <2>1, <2>2, <3>1 DEF Acting
  <2>4. CASE \E from \in Dropping, to \in Dropping \cup {"idle"} :
                 Step(q, from, to)
    <3>1. PICK from \in Dropping, to \in Dropping \cup {"idle"} :
              Step(q, from, to)
        BY <2>4
    <3>2. pc'[q] = to /\ \A r \in Proc : r # q => pc'[r] = pc[r]
        BY <3>1, StepSetsLabel
    <3> QED
        BY <1>1, <2>1, <3>1, <3>2 DEF Acting
  <2> QED
      BY <2>1, <2>3, <2>4, CheckoutMoves
<1>8. CASE UserActs
  <2>1. pc' = pc
      BY <1>8
      DEF UserActs, UserStep, CommitEnd, Edit, AddAll, CommitBegin,
          CommitUnguarded, ResetHard, Restore, UserUnchanged, stampingVars
  <2> QED
      BY <1>1, <1>8, <2>1 DEF UserActs, AllIdle
<1>9. CASE World \/ UNCHANGED vars
    BY <1>9 DEF World, TimePasses, Tick, Publish, Rotate, vars, stampingVars
<1> QED
    BY <1>2, <1>3, <1>4, <1>5, <1>6, <1>7, <1>8, <1>9, StepsAlone DEF InPeace

LEMMA AgedNext ==
    ASSUME Exclusive, Steady, Basis, Basis', Fresh, Aged, [Next]_vars
    PROVE  Aged'
<1>1. now \in Nat /\ now' \in Nat /\ now <= now'
  <2>1. now \in Nat
      OBVIOUS
  <2>2. now' = now \/ now' = now + 1
      BY ClockStands
  <2> HIDE DEF Basis
  <2> QED
      BY <2>1, <2>2
<1>2. ASSUME NEW p \in Proc, Seal(p)
      PROVE  /\ TreeOf(head)' = StampTree(p)
             /\ DatedNow(StampTree(p)) /\ Dated(StampTree(p), now)
             /\ now' = now
  <2>1. base[p] \in DOMAIN commits /\ TreeOf(head)' = StampTree(p)
      BY <1>2, SealAppends DEF TreeOf
  <2>2. DatedNow(StampTree(p))
      BY <2>1, SealIsDatedNow
  <2>3. Dated(StampTree(p), now)
    <3> HIDE DEF Basis
    <3> QED
        BY <1>1, <2>2 DEF Dated, DatedNow
  <2>4. now' = now
      BY <1>2 DEF Seal
  <2> QED
      BY <2>1, <2>2, <2>3, <2>4
<1>3. ASSUME NEW c \in DOMAIN commits', commits'[c].sealed
      PROVE  \/ c \in DOMAIN commits /\ commits'[c] = commits[c]
             \/ \E p \in Proc : Seal(p) /\ c = head'
  <2>1. CASE UNCHANGED <<commits, head>>
      BY <1>3, <2>1
  <2>2. ASSUME NEW p \in Proc, Seal(p)
        PROVE  \/ c \in DOMAIN commits /\ commits'[c] = commits[c]
               \/ c = head'
    <3>1. /\ DOMAIN commits' = DOMAIN commits \cup {head'}
          /\ \A d \in DOMAIN commits : commits'[d] = commits[d]
        BY <2>2, SealAppends
    <3> QED
        BY <1>3, <3>1
  <2>3. ASSUME NEW others \in SUBSET (DOMAIN commits), Committed(others)
        PROVE  c \in DOMAIN commits /\ commits'[c] = commits[c]
      BY <1>3, <2>3, CommittedAppends
  <2>4. ASSUME NEW d \in DOMAIN commits, ResetHard(d)
        PROVE  c \in DOMAIN commits /\ commits'[c] = commits[c]
      BY <1>3, <2>4 DEF ResetHard
  <2> QED
      BY <2>1, <2>2, <2>3, <2>4, NewCommits
<1>4. ASSUME NEW c \in DOMAIN commits', commits'[c].sealed
      PROVE  Dated(TreeOf(c), now)'
  <2>1. CASE c \in DOMAIN commits /\ commits'[c] = commits[c]
    <3>1. Dated(TreeOf(c), now) /\ TreeOf(c)' = TreeOf(c)
        BY <1>4, <2>1 DEF Aged, TreeOf
    <3>2. \A s \in Site : TreeOf(c).tokens[s] # None =>
              TreeOf(c).tokens[s].genTime \in Nat
      <4>1. TreeOf(c).tokens \in TokenFiles
          BY <2>1, StoreTyping DEF Files
      <4> QED
          BY <4>1 DEF TokenFiles, Token
    <3> QED
      <4> DEFINE tokens == TreeOf(c).tokens
      <4>1. \A s \in Site : tokens[s] # None =>
                tokens[s].genTime \in Nat /\ tokens[s].genTime <= now
          BY <3>1, <3>2 DEF Dated
      <4> HIDE DEF Basis, tokens
      <4>2. \A s \in Site : tokens[s] # None => tokens[s].genTime <= now'
          BY <1>1, <4>1
      <4>3. TreeOf(c)'.tokens = tokens
          BY <3>1 DEF tokens
      <4> QED
          BY <4>2, <4>3 DEF Dated
  <2>2. ASSUME NEW p \in Proc, Seal(p), c = head'
        PROVE  Dated(TreeOf(c), now)'
      BY <1>2, <2>2 DEF Dated
  <2> QED
      BY <1>3, <1>4, <2>1, <2>2
<1>5. ASSUME NEW p \in Proc, pc'[p] \in Converging
      PROVE  DatedNow(TreeOf(head))'
  <2>1. CASE Seal(p)
      BY <1>2, <2>1 DEF DatedNow
  <2>2. CASE pc[p] \in Converging /\ UNCHANGED <<commits, head>>
    <3>1. ~AllIdle
        BY <2>2 DEF AllIdle, Converging, SyncSteps
    <3>2. now' = now
        BY <3>1, ClockStands
    <3>3. DatedNow(TreeOf(head)) /\ TreeOf(head)' = TreeOf(head)
        BY <2>2 DEF Aged, TreeOf
    <3> QED
        BY <3>2, <3>3 DEF DatedNow
  <2> QED
      BY <1>5, <2>1, <2>2, ConvergesOn
<1> QED
    BY <1>4, <1>5 DEF Aged

LEMMA AgedInitially == Init => Aged
<1> SUFFICES ASSUME Init
             PROVE  Aged
    OBVIOUS
<1>1. /\ \A p \in Proc : pc[p] = "idle"
      /\ \A c \in DOMAIN commits : ~commits[c].sealed
    BY DEF Init, StampingInit
<1> QED
    BY <1>1 DEF Aged, Converging, SyncSteps

LEMMA AgedAlways ==
    ASSUME Exclusive, Steady, "recordCrl" \notin Faults
    PROVE  Spec => [](Basis /\ Recorded /\ Aged)
<1>1. Basis /\ Basis' /\ Fresh /\ Aged /\ [Next]_vars => Aged'
    BY AgedNext
<1> QED
    BY <1>1, AgedInitially, RecordedAlways, PTL DEF Spec

\* Evidence does not decay: when a stamp is done, every stamp behind it is
\* judged well with the records of the new one and of the working tree.  With
\* one issuer; with several, a reset drops the CRL of an issuer the new stamp
\* has no token of.
THEOREM EvidenceDoesNotDecay ==
    ASSUME Exclusive, Steady, "recordCrl" \notin Faults,
           \A s, t \in Site : IssuerOf[s] = IssuerOf[t]
    PROVE  Spec => EvidenceStays
<1> DEFINE Stays(p) ==
        \A c \in History(result[p]) : commits[c].sealed =>
            Judged(c, Material(result[p], work'))
<1>1. ASSUME Basis, Recorded, Aged, NEW p \in Proc, Finishes(p)
      PROVE  Stays(p)
  <2>1. pc[p] \in {"stage", "stageIndex"} /\ work' = work
      BY <1>1 DEF Finishes, StageNothing, StageIndex, Step
  <2>2. result[p] = head /\ commits[head].sealed /\ head \in DOMAIN commits
      BY <1>1, <2>1 DEF InPeace, Undisturbed, Converging
  <2>3. PICK newest \in Site : TreeOf(head).tokens[newest] # None
    <3>1. Holds(TreeOf(head), commits[head].parents,
                manifests[TreeOf(head).manifest])
        BY <1>1, <2>2 DEF Evidence
    <3> QED
        BY <3>1 DEF Holds
  <2>4. BothDecide(work.crls[IssuerOf[newest]], TreeOf(head), newest)
      BY <1>1, <2>1, <2>3 DEF Recorded, DecidedBy, Converging
  <2>5. TreeOf(head).tokens[newest].genTime = now
      BY <1>1, <2>1, <2>3 DEF Aged, DatedNow, Converging
  <2>6. /\ work.crls[IssuerOf[newest]] # None
        /\ Decides(work.crls[IssuerOf[newest]], now)
      BY <2>4, <2>5 DEF BothDecide
  <2>7. ASSUME NEW c \in History(head), commits[c].sealed
        PROVE  Judged(c, Material(head, work))
    <3>1. c \in DOMAIN commits
        BY <1>1, <2>2, <2>7, HistoryUnfolds DEF HistoriesUnfold
    <3>2. ASSUME NEW s \in Site, TreeOf(c).tokens[s] # None
          PROVE  \E m \in Material(head, work)[IssuerOf[s]] :
                     Decides(m, TreeOf(c).tokens[s].genTime)
      <4> DEFINE held == work.crls[IssuerOf[s]]
      <4>1. IssuerOf[s] \in Issuer /\ IssuerOf[s] = IssuerOf[newest]
          BY RepositoryAssumption
      <4>2. held # None /\ Decides(held, now)
          BY <2>6, <4>1
      <4>3. held \in Material(head, work)[IssuerOf[s]]
          BY <4>1, <4>2 DEF Material
      <4>4. held \in Nat /\ now \in Nat
        <5>1. work \in Files
            BY <1>1
        <5>2. work.crls[IssuerOf[s]] \in Crl \cup {None}
            BY <4>1, <5>1 DEF Files, CrlFiles
        <5> QED
            BY <1>1, <4>2, <5>2 DEF Crl
      <4>5. TreeOf(c).tokens[s].genTime \in Nat
        <5>1. TreeOf(c).tokens \in TokenFiles
            BY <1>1, <3>1, StoreTyping DEF Files
        <5> QED
            BY <3>2, <5>1 DEF TokenFiles, Token
      <4>6. TreeOf(c).tokens[s].genTime <= now
          BY <1>1, <2>7, <3>1, <3>2 DEF Aged, Dated
      <4> HIDE DEF held
      <4>7. Decides(held, TreeOf(c).tokens[s].genTime)
          BY <4>2, <4>4, <4>5, <4>6, StampingAssumption DEF Decides
      <4> QED
          BY <4>3, <4>7
    <3> QED
        BY <1>1, <2>7, <3>1, <3>2, SealedIsJudged
  <2> QED
      BY <2>1, <2>2, <2>7
<1>2. Basis /\ Recorded /\ Aged => [\A p \in Proc : Finishes(p) => Stays(p)]_vars
    BY <1>1
<1> HIDE DEF Stays
<1>3. Spec => [][\A p \in Proc : Finishes(p) => Stays(p)]_vars
    BY <1>2, AgedAlways, PTL DEF Spec
<1> USE DEF Stays
<1> QED
    BY <1>3 DEF EvidenceStays

-----------------------------------------------------------------------------
(***************************************************************************)
(* A stamp as one step.  What an invocation fixed keeps its groups, since  *)
(* what is behind a commit never changes (Binds), and every manifest and   *)
(* every token in a commit, the index, the working tree or the copy of the *)
(* index an invocation holds was sealed in some commit (Traces).  Nothing  *)
(* here assumes Exclusive.                                                 *)
(***************************************************************************)
Stamps == {c \in DOMAIN commits : commits[c].sealed}

SealedManifests == {None} \cup {TreeOf(c).manifest : c \in Stamps}
SealedTokens(s) == {None} \cup {TreeOf(c).tokens[s] : c \in Stamps}

Traced(files) ==
    /\ files.manifest \in SealedManifests
    /\ \A s \in Site : files.tokens[s] \in SealedTokens(s)

Traces ==
    /\ Traced(index)
    /\ Traced(work)
    /\ \A c \in DOMAIN commits : Traced(TreeOf(c))
    /\ \A p \in Proc : pc[p] \in HoldsIndex => Traced(idx[p])

\* One directory laid over another.
LEMMA OverlaidTokens ==
    ASSUME NEW a \in TokenFiles, NEW b,
           NEW s \in Site, a[s] \in SealedTokens(s), b[s] \in SealedTokens(s)
    PROVE  Overlay(a, b)[s] \in SealedTokens(s)
    BY DEF Overlay, Lay, TokenFiles

LEMMA CheckedOutTraced ==
    ASSUME NEW tree \in Files, Traced(tree), Traces
    PROVE  Traced(CheckOut(tree, index, work))
<1> DEFINE after == CheckOut(tree, index, work)
<1>1. /\ after.manifest = FileAfter(tree.manifest, index.manifest,
                                    work.manifest)
      /\ after.tokens = DirectoryAfter(tree.tokens, index.tokens, work.tokens)
    BY DEF CheckOut
<1>2. tree.tokens \in TokenFiles
    BY FilesTyping
<1>3. ASSUME NEW s \in Site
      PROVE  after.tokens[s] = FileAfter(tree.tokens[s], index.tokens[s],
                                         work.tokens[s])
    BY <1>1, <1>2 DEF DirectoryAfter, TokenFiles
<1> HIDE DEF after
<1>4. after.manifest \in SealedManifests
    BY <1>1, CheckedOutFile DEF Traces, Traced, SealedManifests
<1>5. ASSUME NEW s \in Site
      PROVE  after.tokens[s] \in SealedTokens(s)
    BY <1>3, <1>5, CheckedOutFile DEF Traces, Traced, SealedTokens
<1> QED
    BY <1>4, <1>5 DEF Traced, after

LEMMA NothingTraced ==
    ASSUME NEW files \in Files
    PROVE  /\ WithoutArtifacts(files).manifest = None
           /\ \A s \in Site : WithoutArtifacts(files).tokens[s] = None
           /\ Traced(WithoutArtifacts(files))
    BY DEF WithoutArtifacts, NoTokens, Files, Traced, SealedManifests,
           SealedTokens

\* The steps of a stamp leave the artifacts of the checkout alone.
LEMMA FlowKeepsArtifacts ==
    ASSUME Consistent, NEW p \in Proc,
           StampStep(p) \/ StampFails(p)
               \/ \E amending \in BOOLEAN : StampBegin(p, amending)
    PROVE  /\ index' = index
           /\ work'.manifest = work.manifest
           /\ work'.tokens = work.tokens
           /\ \A q \in Proc : pc'[q] \in HoldsIndex => pc[q] \in HoldsIndex
<1>1. work \in Files /\ pc \in [Proc -> Steps]
    BY DEF Steps
<1>2. CASE \E amending \in BOOLEAN : StampBegin(p, amending)
    BY <1>1, <1>2 DEF StampBegin, Step, HoldsIndex, SyncSteps, Steps
<1>3. CASE StampFails(p) \/ Refuse(p)
    BY <1>1, <1>3 DEF StampFails, Refuse, Stop, HoldsIndex, SyncSteps
<1>4. ASSUME NEW i \in Issuer, RefreshWrite(p, i)
      PROVE  /\ index' = index
             /\ work'.manifest = work.manifest
             /\ work'.tokens = work.tokens
             /\ \A q \in Proc : pc'[q] \in HoldsIndex => pc[q] \in HoldsIndex
    BY <1>1, <1>4 DEF RefreshWrite, Files, Step, HoldsIndex, SyncSteps
<1>5. CASE RecordChain(p) \/ RecordCrl(p)
    BY <1>1, <1>5 DEF RecordChain, RecordCrl, Files, Step, HoldsIndex, SyncSteps
<1>6. CASE RefreshList(p) \/ \E i \in Issuer : RefreshFetch(p, i)
    BY <1>1, <1>6 DEF RefreshList, RefreshFetch, Step, HoldsIndex, SyncSteps
<1>7. CASE FixManifest(p) \/ Seal(p) \/ AcquireDone(p)
    BY <1>1, <1>7
    DEF FixManifest, Seal, AcquireDone, Step, HoldsIndex, SyncSteps
<1>8. CASE TsaReply(p) \/ SiteYields(p) \/ SiteTolerated(p)
    BY <1>1, <1>8
    DEF TsaReply, SiteYields, SiteTolerated, Step, HoldsIndex, SyncSteps
<1> QED
    BY <1>2, <1>3, <1>4, <1>5, <1>6, <1>7, <1>8 DEF StampStep

LEMMA CheckoutKeepsTraced ==
    ASSUME Consistent, Traces, NEW p \in Proc,
           SyncStep(p) \/ DropStep(p) \/ DropOpen(p) \/ CheckoutFails(p)
    PROVE  /\ Traced(index')
           /\ Traced(work')
           /\ \A q \in Proc : pc'[q] \in HoldsIndex => Traced(idx'[q])
<1>1. /\ work \in Files /\ index \in Files
      /\ pc \in [Proc -> Steps] /\ idx \in [Proc -> Files \cup {None}]
    BY DEF Steps
<1>2. /\ Traced(index) /\ Traced(work)
      /\ \A q \in Proc : pc[q] \in HoldsIndex => Traced(idx[q])
    BY DEF Traces
<1>3. \A q \in Proc : pc[q] \in HoldsIndex => idx[q] \in Files
    BY DEF Positions
<1>4. pc[p] \in SyncSteps =>
          /\ Sealed(p) \in Files
          /\ Traced(Sealed(p))
    BY SealedTyping DEF Sealed, Traces
<1> HIDE DEF Consistent
<1>5. CASE SyncOpen(p)
    BY <1>1, <1>2, <1>5 DEF SyncOpen, Step, HoldsIndex, SyncSteps
<1>6. CASE SyncArtifacts(p)
  <2>1. /\ Sealed(p) \in Files /\ Traced(Sealed(p))
        /\ Step(p, "syncArtifacts", "syncRecords")
        /\ UNCHANGED <<index, idx>>
      BY <1>4, <1>6 DEF SyncArtifacts, Step, SyncSteps
  <2>2. /\ work'.manifest = Lay(Sealed(p).manifest, work.manifest)
        /\ work'.tokens = Overlay(Sealed(p).tokens, work.tokens)
      BY <1>1, <1>6 DEF SyncArtifacts, Files
  <2>3. Sealed(p).tokens \in TokenFiles
      BY <2>1, FilesTyping
  <2>4. work'.manifest \in SealedManifests
      BY <1>2, <2>1, <2>2 DEF Lay, Traced
  <2>5. ASSUME NEW s \in Site
        PROVE  work'.tokens[s] \in SealedTokens(s)
      BY <1>2, <2>1, <2>2, <2>3, OverlaidTokens DEF Traced
  <2> QED
      BY <1>1, <1>2, <2>1, <2>4, <2>5 DEF Step, HoldsIndex, SyncSteps, Traced
<1>7. CASE SyncRecords(p)
  <2>1. work'.manifest = work.manifest /\ work'.tokens = work.tokens
      BY <1>1, <1>7 DEF SyncRecords, Files
  <2> QED
      BY <1>1, <1>2, <1>7, <2>1
      DEF SyncRecords, Step, HoldsIndex, SyncSteps, Traced
<1>8. CASE SyncStale(p)
  <2>1. /\ work'.manifest = LeaveStale(Sealed(p).manifest, idx[p].manifest,
                                       work.manifest)
        /\ \A s \in Site : work'.tokens[s] =
               LeaveStale(Sealed(p).tokens[s], idx[p].tokens[s],
                          work.tokens[s])
      BY <1>1, <1>8 DEF SyncStale, Files
  <2>2. Traced(work')
      BY <1>2, <2>1 DEF LeaveStale, Traced, SealedManifests, SealedTokens
  <2> QED
      BY <1>1, <1>2, <1>8, <2>2 DEF SyncStale, Step, HoldsIndex, SyncSteps
<1>9. CASE SyncIndex(p)
  <2>1. /\ Sealed(p) \in Files /\ Traced(Sealed(p)) /\ idx[p] \in Files
        /\ Step(p, "syncIndex", "stage") /\ Forget(p)
        /\ UNCHANGED work
        /\ index' \in {index, SyncedIndex(p)}
      BY <1>3, <1>4, <1>9 DEF SyncIndex, Step, SyncSteps, HoldsIndex
  <2>2. /\ SyncedIndex(p).manifest = Sealed(p).manifest
        /\ SyncedIndex(p).tokens = Sealed(p).tokens
      BY <2>1 DEF SyncedIndex, Files
  <2>3. Traced(SyncedIndex(p))
      BY <2>1, <2>2 DEF Traced
  <2> QED
      BY <1>1, <1>2, <2>1, <2>3 DEF Forget, Step, HoldsIndex, SyncSteps
<1>10. CASE StageNothing(p)
    BY <1>1, <1>2, <1>10 DEF StageNothing, Step, HoldsIndex, SyncSteps
<1>11. CASE StageOpen(p)
  <2>1. /\ StagedIndex.manifest = index.manifest
        /\ StagedIndex.tokens = index.tokens
      BY <1>1 DEF StagedIndex, Files
  <2>2. Traced(StagedIndex)
      BY <1>2, <2>1 DEF Traced
  <2> QED
      BY <1>1, <1>2, <1>11, <2>2 DEF StageOpen, Step, HoldsIndex, SyncSteps
<1>12. CASE StageIndex(p) \/ DropIndex(p)
    BY <1>1, <1>2, <1>12
    DEF StageIndex, DropIndex, Forget, Step, HoldsIndex, SyncSteps
<1>13. CASE DropOpen(p)
  <2>1. Traced(WithoutArtifacts(index))
      BY <1>1, NothingTraced
  <2> QED
      BY <1>1, <1>2, <1>13, <2>1 DEF DropOpen, Step, HoldsIndex, SyncSteps
<1>14. CASE DropManifest(p) \/ DropTokens(p)
  <2>1. /\ work'.manifest \in {None, work.manifest}
        /\ work'.tokens \in {NoTokens, work.tokens}
      BY <1>1, <1>14 DEF DropManifest, DropTokens, Files
  <2>2. Traced(work')
      BY <1>2, <2>1 DEF NoTokens, Traced, SealedManifests, SealedTokens
  <2> QED
      BY <1>1, <1>2, <1>14, <2>2
      DEF DropManifest, DropTokens, Step, HoldsIndex, SyncSteps
<1>15. CASE CheckoutFails(p)
    BY <1>1, <1>2, <1>15 DEF CheckoutFails, Forget, HoldsIndex, SyncSteps
<1> QED
    BY <1>5, <1>6, <1>7, <1>8, <1>9, <1>10, <1>11, <1>12, <1>13, <1>14, <1>15
    DEF SyncStep, DropStep

LEMMA UserKeepsTraced ==
    ASSUME Consistent, Traces, UserStep
    PROVE  /\ Traced(index')
           /\ Traced(work')
           /\ UNCHANGED <<pc, idx>>
<1>1. index \in Files /\ work \in Files
    OBVIOUS
<1>2. Traced(index) /\ Traced(work)
    BY DEF Traces
<1>3. UNCHANGED <<pc, idx>>
    BY DEF UserStep, CommitEnd, Edit, AddAll, CommitBegin, CommitUnguarded,
           ResetHard, Restore, UserUnchanged
<1>4. \A c \in DOMAIN commits : TreeOf(c) \in Files /\ Traced(TreeOf(c))
    BY StoreTyping DEF Traces
<1>5. ASSUME NEW c \in Content, Edit(c)
      PROVE  Traced(index') /\ Traced(work')
  <2>1. /\ index'.manifest = index.manifest /\ index'.tokens = index.tokens
        /\ work'.manifest = work.manifest /\ work'.tokens = work.tokens
      BY <1>1, <1>5 DEF Edit, Files
  <2> QED
      BY <1>2, <2>1 DEF Traced
<1>6. ASSUME NEW c \in DOMAIN commits, ResetHard(c)
      PROVE  Traced(index') /\ Traced(work')
    BY <1>4, <1>6, CheckedOutTraced DEF ResetHard
<1>7. CASE Restore
  <2> DEFINE tree == TreeOf(head)
             after == CheckOut(tree, index, work)
  <2>1. tree \in Files /\ Traced(tree)
      BY <1>4
  <2>2. after \in Files /\ Traced(after)
      BY <1>1, <2>1, CheckOutTyping, CheckedOutTraced
  <2>3. /\ index' = [tree EXCEPT !.content = index.content]
        /\ work' = [after EXCEPT !.content = work.content]
      BY <1>7 DEF Restore
  <2> HIDE DEF tree, after
  <2>4. /\ index'.manifest = tree.manifest /\ index'.tokens = tree.tokens
        /\ work'.manifest = after.manifest /\ work'.tokens = after.tokens
      BY <2>1, <2>2, <2>3 DEF Files
  <2>5. /\ index'.manifest \in SealedManifests
        /\ work'.manifest \in SealedManifests
      BY <2>1, <2>2, <2>4 DEF Traced
  <2>6. \A s \in Site : /\ index'.tokens[s] \in SealedTokens(s)
                        /\ work'.tokens[s] \in SealedTokens(s)
      BY <2>1, <2>2, <2>4 DEF Traced
  <2> QED
      BY <1>3, <2>5, <2>6 DEF Traced
<1>8. CASE AddAll \/ CommitBegin \/ CommitEnd \/ CommitUnguarded
  <2>1. index' \in {index, work} /\ work' = work
      BY <1>8 DEF AddAll, CommitBegin, CommitEnd, CommitUnguarded
  <2> QED
      BY <1>2, <1>3, <2>1
<1> QED
    BY <1>3, <1>5, <1>6, <1>7, <1>8 DEF UserStep

LEMMA TracedNext ==
    ASSUME Consistent, Traces, [Next]_vars
    PROVE  /\ Traced(index')
           /\ Traced(work')
           /\ \A q \in Proc : pc'[q] \in HoldsIndex => Traced(idx'[q])
<1>1. /\ Traced(index) /\ Traced(work)
      /\ \A q \in Proc : pc[q] \in HoldsIndex => Traced(idx[q])
    BY DEF Traces
<1>2. ASSUME NEW p \in Proc, idx' = idx,
             \/ StampStep(p) \/ StampFails(p)
             \/ \E amending \in BOOLEAN : StampBegin(p, amending)
      PROVE  /\ Traced(index')
             /\ Traced(work')
             /\ \A q \in Proc : pc'[q] \in HoldsIndex => Traced(idx'[q])
  <2>1. /\ index' = index
        /\ work'.manifest = work.manifest
        /\ work'.tokens = work.tokens
        /\ \A q \in Proc : pc'[q] \in HoldsIndex => pc[q] \in HoldsIndex
      BY <1>2, FlowKeepsArtifacts
  <2> QED
      BY <1>1, <1>2, <2>1 DEF Traced
<1>3. ASSUME NEW p \in Proc, Begin(p) \/ Proceed(p) \/ Fail(p)
      PROVE  /\ Traced(index')
             /\ Traced(work')
             /\ \A q \in Proc : pc'[q] \in HoldsIndex => Traced(idx'[q])
  <2>1. \/ SyncStep(p) \/ DropStep(p) \/ DropOpen(p) \/ CheckoutFails(p)
        \/ /\ idx' = idx
           /\ \/ StampStep(p) \/ StampFails(p)
              \/ \E amending \in BOOLEAN : StampBegin(p, amending)
      BY <1>3 DEF Begin, Proceed, Fail
  <2> QED
      BY <1>2, <2>1, CheckoutKeepsTraced
<1>4. CASE World \/ UNCHANGED vars
  <2>1. UNCHANGED <<index, work, pc, idx>>
      BY <1>4 DEF World, TimePasses, Tick, Publish, Rotate, vars
  <2> QED
      BY <1>1, <2>1
<1> QED
    BY <1>1, <1>3, <1>4, UserKeepsTraced DEF Next

\* A stamp that is there stays there.
LEMMA SealedStay ==
    ASSUME CommitsStay
    PROVE  /\ SealedManifests \subseteq SealedManifests'
           /\ \A s \in Site : SealedTokens(s) \subseteq SealedTokens(s)'
<1>1. \A c \in Stamps : c \in Stamps' /\ TreeOf(c)' = TreeOf(c)
    BY DEF CommitsStay, Stamps, TreeOf
<1> QED
    BY <1>1 DEF SealedManifests, SealedTokens

LEMMA TracesNext ==
    ASSUME Consistent, Traces, [Next]_vars
    PROVE  Traces'
<1>1. CommitsStay
    BY StoreAndTableGrow DEF Grows, CommitsStay
<1>2. ASSUME NEW files, Traced(files)
      PROVE  /\ files.manifest \in SealedManifests'
             /\ \A s \in Site : files.tokens[s] \in SealedTokens(s)'
    BY <1>1, <1>2, SealedStay DEF Traced
<1>3. /\ Traced(index)' /\ Traced(work)'
      /\ \A p \in Proc : (pc[p] \in HoldsIndex => Traced(idx[p]))'
    BY <1>2, TracedNext DEF Traced
<1>4. ASSUME NEW c \in DOMAIN commits'
      PROVE  Traced(TreeOf(c))'
  <2>1. CASE c \in DOMAIN commits
    <3>1. TreeOf(c)' = TreeOf(c) /\ Traced(TreeOf(c))
        BY <1>1, <2>1 DEF CommitsStay, TreeOf, Traces
    <3> QED
        BY <1>2, <3>1 DEF Traced
  <2>2. ASSUME NEW p \in Proc, Seal(p), c \notin DOMAIN commits
        PROVE  Traced(TreeOf(c))'
    <3>1. c \in Stamps'
        BY <1>4, <2>2, SealAppends DEF Stamps
    <3> QED
        BY <3>1 DEF Traced, SealedManifests, SealedTokens
  <2>3. ASSUME NEW others \in SUBSET (DOMAIN commits), Committed(others),
               c \notin DOMAIN commits
        PROVE  Traced(TreeOf(c))'
    <3>1. c = Len(commits) + 1
        BY <1>4, <2>3, CommittedAppends
    <3>2. TreeOf(c)' = index /\ Traced(index)
        BY <2>3, <3>1, CommittedAppends DEF TreeOf, Traces
    <3> QED
        BY <1>2, <3>2 DEF Traced
  <2> QED
      BY <1>4, <2>1, <2>2, <2>3, StoreSteps DEF ResetHard
<1> QED
    BY <1>3, <1>4 DEF Traces

LEMMA TracesInitially == Init => Traces
<1> SUFFICES ASSUME Init
             PROVE  Traces
    OBVIOUS
<1>1. /\ index.manifest = None /\ work.manifest = None
      /\ index.tokens = NoTokens /\ work.tokens = NoTokens
      /\ \A c \in DOMAIN commits : /\ TreeOf(c).manifest = None
                                   /\ TreeOf(c).tokens = NoTokens
      /\ \A p \in Proc : pc[p] = "idle"
    BY DEF Init, TreeOf
<1>2. "idle" \notin HoldsIndex
    BY DEF HoldsIndex, SyncSteps
<1>3. \A s \in Site : NoTokens[s] = None
    BY DEF NoTokens
<1> QED
    BY <1>1, <1>2, <1>3 DEF Traces, Traced, SealedManifests, SealedTokens

-----------------------------------------------------------------------------
(***************************************************************************)
(* The walk of the nearest claims is reachability along the links that     *)
(* stop at a claim, and so are the nearest claims of the abstract branch.  *)
(***************************************************************************)
Links ==
    [c \in DOMAIN commits |-> IF Claims(c) THEN {} ELSE commits[c].parents]

WalksReach ==
    \A starts \in SUBSET (DOMAIN commits) :
        Walked(starts) = UNION {Reach(Links, c) : c \in starts}

LEMMA LinksAreThere ==
    ASSUME Consistent, Lineage
    PROVE  /\ DOMAIN Links = DOMAIN commits
           /\ DOMAIN commits = 1..Len(commits) /\ Len(commits) \in Nat
           /\ Older(Links)
           /\ \A c \in DOMAIN Links : Links[c] \subseteq DOMAIN Links
<1>1. /\ DOMAIN commits = 1..Len(commits) /\ Len(commits) \in Nat
      /\ \A c \in DOMAIN commits : commits[c].parents \subseteq DOMAIN commits
      /\ \A c \in DOMAIN commits : commits[c].parents \subseteq 1..(c - 1)
    BY ParentsAreThere DEF Lineage, Older, Parents
<1> HIDE DEF Consistent
<1> QED
    BY <1>1 DEF Links, Older

LEMMA WalkIsReach == Consistent /\ Lineage => WalksReach
<1> SUFFICES ASSUME Consistent, Lineage,
                    NEW starts \in SUBSET (DOMAIN commits)
             PROVE  Walked(starts) = UNION {Reach(Links, c) : c \in starts}
    BY DEF WalksReach
<1> HIDE DEF Consistent
<1> DEFINE visited == UNION {Reach(Links, c) : c \in starts}
<1>1. /\ DOMAIN Links = DOMAIN commits
      /\ \A c \in DOMAIN Links : Links[c] \subseteq DOMAIN Links
    BY LinksAreThere
<1>2. visited \in SUBSET (DOMAIN commits)
    BY <1>1 DEF Reach
<1>3. starts \subseteq visited
    BY <1>1, ReachSelf
<1>4. ClosedUnderWalk(visited)
  <2> SUFFICES ASSUME NEW c \in starts, NEW d \in Reach(Links, c), ~Claims(d)
               PROVE  commits[d].parents \subseteq Reach(Links, c)
      BY DEF ClosedUnderWalk
  <2>1. Links[d] = commits[d].parents
      BY <1>1 DEF Links, Reach
  <2>2. Closed(Links, Reach(Links, c))
      BY <1>1, ReachClosed
  <2> QED
      BY <2>1, <2>2 DEF Closed
<1>5. Walked(starts) \subseteq visited
    BY <1>2, <1>3, <1>4 DEF Walked
<1>6. ASSUME NEW c \in starts, NEW d \in Reach(Links, c)
      PROVE  d \in Walked(starts)
  <2> SUFFICES ASSUME NEW set \in SUBSET (DOMAIN commits),
                      starts \subseteq set, ClosedUnderWalk(set)
               PROVE  d \in set
      BY <1>1 DEF Walked, Reach
  <2>1. Closed(Links, set)
      BY DEF Closed, ClosedUnderWalk, Links
  <2>2. set \in SUBSET (DOMAIN Links) /\ c \in set
      BY <1>1
  <2> QED
      BY <2>1, <2>2, ReachWithin
<1> QED
    BY <1>5, <1>6

LEMMA WalkIsReachNext == Consistent' /\ Lineage' => WalksReach'
    BY WalkIsReach, PTL

\* What is behind a commit never changes, so neither do the claims a stamp of
\* it binds.
LEMMA BoundStays ==
    ASSUME Consistent, Lineage, Consistent', Lineage', CommitsStay,
           NEW starts \in SUBSET (DOMAIN commits)
    PROVE  BoundGroups(starts)' = BoundGroups(starts)
<1> HIDE DEF Consistent
<1>1. /\ DOMAIN Links = DOMAIN commits
      /\ \A c \in DOMAIN Links : Links[c] \subseteq DOMAIN Links
    BY LinksAreThere
<1>2. Walked(starts) = UNION {Reach(Links, c) : c \in starts}
    BY WalkIsReach DEF WalksReach
<1>3. Walked(starts)' = UNION {Reach(Links', c) : c \in starts}
    BY WalkIsReachNext DEF WalksReach, CommitsStay
<1>4. \A c \in DOMAIN commits : TreeOf(c)' = TreeOf(c)
    BY DEF TreeOf, CommitsStay
<1>5. /\ DOMAIN Links \subseteq DOMAIN (Links')
      /\ \A c \in DOMAIN Links : Links'[c] = Links[c]
    BY <1>1, <1>4 DEF Links, CommitsStay, Claims
<1>6. ASSUME NEW c \in starts
      PROVE  Reach(Links', c) = Reach(Links, c)
    BY <1>1, <1>5, ReachStays
<1>7. Walked(starts)' = Walked(starts)
    BY <1>2, <1>3, <1>6
<1>8. Walked(starts) \subseteq DOMAIN commits
    BY DEF Walked
<1>9. NearestClaims(starts)' = NearestClaims(starts)
    BY <1>4, <1>7, <1>8 DEF NearestClaims, Claims
<1>10. NearestClaims(starts) \subseteq DOMAIN commits
    BY <1>8 DEF NearestClaims
<1>11. \A c \in NearestClaims(starts) : BoundStamp(c)' = BoundStamp(c)
    BY <1>4, <1>10 DEF BoundStamp
<1>12. {c \in NearestClaims(starts) : \A d \in NearestClaims(starts) :
           TreeOf(d).manifest = TreeOf(c).manifest => c <= d}'
       = {c \in NearestClaims(starts) : \A d \in NearestClaims(starts) :
           TreeOf(d).manifest = TreeOf(c).manifest => c <= d}
    BY <1>4, <1>9, <1>10
<1> QED
    BY <1>9, <1>11, <1>12 DEF BoundGroups

-----------------------------------------------------------------------------
\* What an invocation fixed binds the nearest claims behind what it stamps.
Binds ==
    \A p \in Proc : pc[p] \in Fixed =>
        manifests[fixed[p]].groups = BoundGroups(StampParents(p))

HeldOn(p) ==
    /\ pc[p] \in Fixed
    /\ base'[p] = base[p] /\ amend'[p] = amend[p] /\ fixed'[p] = fixed[p]

\* The position of an invocation past the fixing changes with its own steps.
LEMMA HoldsOn ==
    ASSUME Consistent, [Next]_vars, NEW p \in Proc, pc'[p] \in Fixed
    PROVE  FixManifest(p) \/ HeldOn(p)
<1>1. pc \in [Proc -> Steps] /\ base \in [Proc -> Nat]
      /\ amend \in [Proc -> BOOLEAN] /\ fixed \in [Proc -> Nat]
    BY DEF Steps
<1> HIDE DEF Consistent
<1>2. ASSUME UNCHANGED <<base, amend, fixed>>, pc'[p] = pc[p]
      PROVE  HeldOn(p)
    BY <1>2 DEF HeldOn
<1>3. ASSUME NEW q \in Proc, \E amending \in BOOLEAN : StampBegin(q, amending)
      PROVE  HeldOn(p)
    BY <1>1, <1>3 DEF StampBegin, Step, Fixed, HeldOn
<1>4. ASSUME NEW q \in Proc, Stop(q)
      PROVE  HeldOn(p)
    BY <1>1, <1>4 DEF Stop, ResetJob, Fixed, HeldOn
<1>5. ASSUME NEW q \in Proc,
             \/ RefreshList(q)
             \/ \E i \in Issuer : RefreshFetch(q, i) \/ RefreshWrite(q, i)
      PROVE  HeldOn(p)
    BY <1>1, <1>5
    DEF RefreshList, RefreshFetch, RefreshWrite, Step, Fixed, HeldOn
<1>6. ASSUME NEW q \in Proc, FixManifest(q)
      PROVE  FixManifest(p) \/ HeldOn(p)
    BY <1>1, <1>6 DEF FixManifest, Step, Fixed, HeldOn
<1>7. ASSUME NEW q \in Proc, TsaReply(q) \/ SiteYields(q) \/ SiteTolerated(q)
      PROVE  HeldOn(p)
    BY <1>1, <1>7
    DEF TsaReply, SiteYields, SiteTolerated, Step, Fixed, HeldOn
<1>8. ASSUME NEW q \in Proc, AcquireDone(q) \/ RecordChain(q) \/ RecordCrl(q)
      PROVE  HeldOn(p)
    BY <1>1, <1>8
    DEF AcquireDone, RecordChain, RecordCrl, Step, Fixed, HeldOn,
        stampingVars, jobVars
<1>9. ASSUME NEW q \in Proc, Seal(q)
      PROVE  HeldOn(p)
    BY <1>1, <1>9 DEF Seal, ResetJob, Step, Fixed, HeldOn
<1>10. ASSUME NEW q \in Proc, StampStep(q)
       PROVE  FixManifest(p) \/ HeldOn(p)
    BY <1>4, <1>5, <1>6, <1>7, <1>8, <1>9, <1>10 DEF StampStep, Refuse
<1>11. ASSUME NEW q \in Proc,
              SyncStep(q) \/ DropStep(q) \/ DropOpen(q) \/ CheckoutFails(q),
              UNCHANGED stampingVars
       PROVE  HeldOn(p)
  <2>1. UNCHANGED <<base, amend, fixed>>
      BY <1>11 DEF stampingVars, jobVars
  <2>2. \E to \in Steps \ Fixed : pc' = [pc EXCEPT ![q] = to]
    <3>1. CASE SyncStep(q)
        BY <3>1
        DEF SyncStep, SyncOpen, SyncArtifacts, SyncRecords, SyncStale,
            SyncIndex, StageNothing, StageOpen, StageIndex, Step, Fixed,
            Steps, CheckoutSteps
    <3>2. CASE DropStep(q) \/ DropOpen(q)
        BY <3>2
        DEF DropStep, DropOpen, DropIndex, DropManifest, DropTokens, Step,
            Fixed, Steps, CheckoutSteps
    <3>3. CASE CheckoutFails(q)
        BY <3>3 DEF CheckoutFails, Fixed, Steps
    <3> QED
        BY <1>11, <3>1, <3>2, <3>3
  <2> QED
      BY <1>1, <1>2, <2>1, <2>2
<1>12. ASSUME NEW q \in Proc, Begin(q) \/ Proceed(q) \/ Fail(q)
       PROVE  FixManifest(p) \/ HeldOn(p)
    BY <1>3, <1>4, <1>10, <1>11, <1>12 DEF Begin, Proceed, Fail, StampFails
<1>13. CASE UserStep
  <2>1. UNCHANGED <<base, amend, fixed, pc>>
      BY <1>13
      DEF UserStep, CommitEnd, Edit, AddAll, CommitBegin, CommitUnguarded,
          ResetHard, Restore, UserUnchanged, stampingVars, jobVars
  <2> QED
      BY <1>2, <2>1
<1>14. CASE World
  <2>1. UNCHANGED <<base, amend, fixed, pc>>
      BY <1>14 DEF World, TimePasses, Tick, Publish, Rotate, jobVars
  <2> QED
      BY <1>2, <2>1
<1>15. CASE UNCHANGED vars
    BY <1>2, <1>15 DEF vars, stampingVars, jobVars
<1> QED
    BY <1>12, <1>13, <1>14, <1>15 DEF Next

LEMMA BindsNext ==
    ASSUME Consistent, Lineage, Evidence, Consistent', Lineage', Binds,
           [Next]_vars
    PROVE  Binds'
<1> SUFFICES ASSUME NEW p \in Proc, pc'[p] \in Fixed
             PROVE  manifests'[fixed'[p]].groups = BoundGroups(StampParents(p))'
    BY DEF Binds
<1>1. Grows /\ CommitsStay
    BY StoreAndTableGrow DEF Grows, CommitsStay
<1>2. pc[p] \in StampSteps => /\ base[p] \in DOMAIN commits
                              /\ StampParents(p) \subseteq DOMAIN commits
    BY ParentsAreThere
<1>3. pc[p] \in StampSteps /\ base'[p] = base[p] /\ amend'[p] = amend[p]
          => StampParents(p)' = StampParents(p)
    BY <1>1 DEF StampParents, CommitsStay
<1>4. ASSUME pc[p] \in StampSteps, base'[p] = base[p], amend'[p] = amend[p]
      PROVE  BoundGroups(StampParents(p))' = BoundGroups(StampParents(p))
  <2>1. PICK starts \in SUBSET (DOMAIN commits) : starts = StampParents(p)
      BY <1>2, <1>4
  <2>2. BoundGroups(starts)' = BoundGroups(starts)
      BY <1>1, BoundStays
  <2> QED
      BY <1>3, <1>4, <2>1, <2>2
<1>5. CASE FixManifest(p)
  <2>1. /\ pc[p] \in StampSteps
        /\ base'[p] = base[p] /\ amend'[p] = amend[p]
      BY <1>5 DEF FixManifest, Step, StampSteps
  <2> QED
      BY <1>4, <1>5, <2>1, FixEnters
<1>6. CASE HeldOn(p)
  <2>1. /\ pc[p] \in StampSteps
        /\ base'[p] = base[p] /\ amend'[p] = amend[p]
        /\ fixed'[p] = fixed[p] /\ pc[p] \in Fixed
      BY <1>6 DEF HeldOn, Fixed, StampSteps
  <2>2. fixed[p] \in DOMAIN manifests
      BY <2>1 DEF Evidence, Promise
  <2>3. manifests'[fixed[p]] = manifests[fixed[p]]
      BY <1>1, <2>2 DEF Grows
  <2> QED
      BY <1>4, <2>1, <2>3 DEF Binds
<1> QED
    BY <1>5, <1>6, HoldsOn

-----------------------------------------------------------------------------
(***************************************************************************)
(* The story the abstract branch tells of the store.                       *)
(***************************************************************************)
LEMMA StoryOf ==
    ASSUME Consistent
    PROVE  /\ DOMAIN Story = DOMAIN commits
           /\ DOMAIN Story = 1..Len(commits) /\ Len(commits) \in Nat
           /\ Story = [c \in DOMAIN commits |-> Story[c]]
           /\ \A c \in DOMAIN commits :
                  /\ Story[c].parents = commits[c].parents
                  /\ Story[c].content = TreeOf(c).content
                  /\ Story[c].records = RecordsOf(TreeOf(c))
                  /\ Claims(c) => Story[c].claims =
                                  {ClaimOf(manifests[TreeOf(c).manifest])}
                  /\ ~Claims(c) => Story[c].claims = {}
                  /\ Story[c].vouched = Vouching(TreeOf(c))
                  /\ Abstract!Claimed(c) <=> Claims(c)
<1>1. DOMAIN commits = 1..Len(commits) /\ Len(commits) \in Nat
    BY StoreTyping
<1> HIDE DEF Consistent
<1>2. DOMAIN Story = DOMAIN commits
    BY DEF Story
<1>3. Story = [c \in DOMAIN commits |-> Story[c]]
    BY DEF Story
<1>4. ASSUME NEW c \in DOMAIN commits
      PROVE  /\ Story[c].parents = commits[c].parents
             /\ Story[c].content = TreeOf(c).content
             /\ Story[c].records = RecordsOf(TreeOf(c))
             /\ Claims(c) => Story[c].claims =
                             {ClaimOf(manifests[TreeOf(c).manifest])}
             /\ ~Claims(c) => Story[c].claims = {}
             /\ Story[c].vouched = Vouching(TreeOf(c))
    BY DEF Story, Chapter
<1>5. \A c \in DOMAIN commits : Abstract!Claimed(c) <=> Claims(c)
    BY <1>4 DEF Abstract!Claimed
<1> QED
    BY <1>1, <1>2, <1>3, <1>4, <1>5

StoryTold ==
    /\ DOMAIN Story = DOMAIN commits
    /\ Story = [c \in DOMAIN commits |-> Story[c]]
    /\ \A c \in DOMAIN commits :
           /\ Story[c].parents = commits[c].parents
           /\ Story[c].content = TreeOf(c).content
           /\ Story[c].records = RecordsOf(TreeOf(c))
           /\ Claims(c) => Story[c].claims =
                           {ClaimOf(manifests[TreeOf(c).manifest])}
           /\ ~Claims(c) => Story[c].claims = {}
           /\ Story[c].vouched = Vouching(TreeOf(c))

LEMMA StoryIsTold == Consistent => StoryTold
    BY StoryOf DEF StoryTold

LEMMA StoryIsToldNext == Consistent' => StoryTold'
    BY StoryIsTold, PTL

(***************************************************************************)
(* Its nearest claims are those of the walk: the function that gathers     *)
(* them exists and is unique, as that of the histories is.                 *)
(***************************************************************************)
Near(c) == {d \in Reach(Links, c) : Claims(d)}

Gathers(f) ==
    f = [c \in DOMAIN commits |->
            IF Claims(c) THEN {c} ELSE UNION {f[q] : q \in commits[c].parents}]

LEMMA NearUnfolds ==
    ASSUME Consistent, Lineage, NEW c \in DOMAIN commits
    PROVE  Near(c) = IF Claims(c) THEN {c}
                     ELSE UNION {Near(q) : q \in commits[c].parents}
<1>1. Reach(Links, c) = {c} \cup UNION {Reach(Links, q) : q \in Links[c]}
    BY LinksAreThere, ReachUnfolds
<1>2. Links[c] = IF Claims(c) THEN {} ELSE commits[c].parents
    BY DEF Links
<1> HIDE DEF Consistent
<1>3. CASE Claims(c)
    BY <1>1, <1>2, <1>3 DEF Near
<1>4. CASE ~Claims(c)
    BY <1>1, <1>2, <1>4 DEF Near
<1> QED
    BY <1>3, <1>4

LEMMA NearGathers ==
    ASSUME Consistent, Lineage
    PROVE  Gathers([c \in DOMAIN commits |-> Near(c)])
<1> DEFINE near == [c \in DOMAIN commits |-> Near(c)]
<1>1. ASSUME NEW c \in DOMAIN commits
      PROVE  Near(c) = IF Claims(c) THEN {c}
                       ELSE UNION {near[q] : q \in commits[c].parents}
  <2>1. commits[c].parents \subseteq DOMAIN commits
      BY ParentsAreThere
  <2> HIDE DEF Consistent
  <2>2. {Near(q) : q \in commits[c].parents}
        = {near[q] : q \in commits[c].parents}
      BY <2>1
  <2> QED
      BY <2>2, NearUnfolds
<1> HIDE DEF Consistent
<1> QED
    BY <1>1 DEF Gathers

LEMMA GatheredIsNear ==
    ASSUME Consistent, Lineage, NEW near, Gathers(near)
    PROVE  \A c \in DOMAIN commits : near[c] = Near(c)
<1> DEFINE odd == {c \in DOMAIN commits : near[c] # Near(c)}
<1> SUFFICES ASSUME odd # {}
             PROVE  FALSE
    OBVIOUS
<1>1. /\ DOMAIN commits = 1..Len(commits) /\ Len(commits) \in Nat
      /\ \A c \in DOMAIN commits : commits[c].parents \subseteq 1..(c - 1)
    BY ParentsAreThere DEF Lineage, Older, Parents
<1> HIDE DEF Consistent
<1>2. PICK c \in odd : \A j \in odd : c <= j
  <2>1. odd \in SUBSET Nat
      BY <1>1
  <2> HIDE DEF odd
  <2> QED
      BY <2>1, LeastNumber
<1>3. \A q \in commits[c].parents : near[q] = Near(q)
    BY <1>1, <1>2
<1>4. {near[q] : q \in commits[c].parents}
      = {Near(q) : q \in commits[c].parents}
    BY <1>3
<1>5. near[c] = IF Claims(c) THEN {c}
                ELSE UNION {near[q] : q \in commits[c].parents}
    BY DEF Gathers
<1>6. near[c] = Near(c)
    BY <1>4, <1>5, NearUnfolds
<1> QED
    BY <1>6

LEMMA NearestAreNearest ==
    ASSUME Consistent, Lineage, NEW starts \in SUBSET (DOMAIN commits)
    PROVE  Abstract!Nearest(starts) = NearestClaims(starts)
<1> DEFINE Fits(f) == f = [c \in DOMAIN Story |->
                              IF Abstract!Claimed(c) THEN {c}
                              ELSE UNION {f[q] : q \in Story[c].parents}]
           near == CHOOSE f : Fits(f)
<1>1. Abstract!Nearest(starts) = UNION {near[c] : c \in starts}
    BY DEF Abstract!Nearest
<1>2. \A f : Fits(f) <=> Gathers(f)
    BY StoryOf DEF Gathers
<1>3. Fits(near)
  <2>1. Fits([c \in DOMAIN commits |-> Near(c)])
    <3> HIDE DEF Fits
    <3> QED
        BY <1>2, NearGathers
  <2> HIDE DEF Fits
  <2> QED
      BY <2>1
<1> HIDE DEF near, Fits
<1>4. \A c \in DOMAIN commits : near[c] = Near(c)
    BY <1>2, <1>3, GatheredIsNear
<1>5. Walked(starts) = UNION {Reach(Links, c) : c \in starts}
    BY WalkIsReach DEF WalksReach
<1> HIDE DEF Consistent
<1>6. {near[c] : c \in starts} = {Near(c) : c \in starts}
    BY <1>4
<1>7. NearestClaims(starts) = UNION {Near(c) : c \in starts}
    BY <1>5 DEF NearestClaims, Near
<1> QED
    BY <1>1, <1>6, <1>7

-----------------------------------------------------------------------------
\* A commit that claims claims by a manifest some stamp sealed.
LEMMA ClaimsWereSealed ==
    ASSUME Consistent, Evidence, Traces, NEW files, Traced(files)
    PROVE  /\ files.manifest # None =>
                  /\ files.manifest \in DOMAIN manifests
                  /\ \E c \in DOMAIN commits :
                         Claims(c) /\ TreeOf(c).manifest = files.manifest
           /\ \A s \in Site : files.tokens[s] # None =>
                  \E c \in DOMAIN commits :
                      /\ Claims(c)
                      /\ TreeOf(c).tokens[s] = files.tokens[s]
                      /\ files.tokens[s].imprint = TreeOf(c).manifest
<1>1. DOMAIN manifests = 1..Len(manifests) /\ None \notin Nat
    BY TableTyping, RepositoryAssumption
<1> HIDE DEF Consistent
<1>2. ASSUME NEW c \in Stamps
      PROVE  /\ c \in DOMAIN commits /\ Claims(c)
             /\ TreeOf(c).manifest \in DOMAIN manifests
             /\ \A s \in Site : TreeOf(c).tokens[s] # None =>
                    TreeOf(c).tokens[s].imprint = TreeOf(c).manifest
    BY <1>1, <1>2 DEF Stamps, Evidence, Holds, Claims
<1>3. ASSUME files.manifest # None
      PROVE  \E c \in Stamps : files.manifest = TreeOf(c).manifest
    BY <1>3 DEF Traced, SealedManifests
<1>4. ASSUME NEW s \in Site, files.tokens[s] # None
      PROVE  \E c \in Stamps : files.tokens[s] = TreeOf(c).tokens[s]
    BY <1>4 DEF Traced, SealedTokens
<1> QED
    BY <1>2, <1>3, <1>4

\* What was told is not told otherwise later.
LEMMA StoryStays ==
    ASSUME Consistent, Evidence, Traces, Consistent', Grows
    PROVE  \A c \in DOMAIN commits : Story'[c] = Story[c]
<1>1. StoryTold
    BY StoryIsTold
<1>2. StoryTold'
    BY StoryIsToldNext
<1>3. ASSUME NEW c \in DOMAIN commits
      PROVE  /\ c \in DOMAIN commits'
             /\ TreeOf(c)' = TreeOf(c)
             /\ commits'[c].parents = commits[c].parents
             /\ Claims(c)' <=> Claims(c)
             /\ Claims(c) => manifests'[TreeOf(c).manifest]
                             = manifests[TreeOf(c).manifest]
  <2>1. Claims(c) => TreeOf(c).manifest \in DOMAIN manifests
      BY ClaimsWereSealed DEF Traces, Claims
  <2> HIDE DEF Consistent
  <2> QED
      BY <2>1 DEF Grows, TreeOf, Claims
<1> HIDE DEF Consistent
<1>4. ASSUME NEW c \in DOMAIN commits
      PROVE  Story'[c] = Story[c]
  <2>1. /\ RecordsOf(TreeOf(c))' = RecordsOf(TreeOf(c))
        /\ Vouching(TreeOf(c))' = Vouching(TreeOf(c))
      BY <1>3 DEF RecordsOf, Vouching
  <2>2. Claims(c) => ClaimOf(manifests[TreeOf(c).manifest])'
                     = ClaimOf(manifests[TreeOf(c).manifest])
      BY <1>3
  <2>3. Chapter(c)' = Chapter(c)
      BY <1>3, <2>1, <2>2 DEF Chapter
  <2> QED
      BY <1>3, <2>3 DEF Story
<1> QED
    BY <1>4

LEMMA Appended ==
    ASSUME NEW n \in Nat, NEW s, NEW t,
           s = [k \in 1..n |-> s[k]], t = [k \in 1..(n + 1) |-> t[k]],
           \A k \in 1..n : t[k] = s[k]
    PROVE  Len(s) = n /\ t = Append(s, t[n + 1])
<1> DEFINE S == {t[k] : k \in 1..(n + 1)}
<1>1. s \in [1..n -> S] /\ t \in [1..(n + 1) -> S]
  <2>1. \A k \in 1..n : s[k] \in S
      OBVIOUS
  <2>2. \A k \in 1..(n + 1) : t[k] \in S
      OBVIOUS
  <2> HIDE DEF S
  <2> QED
      BY <2>1, <2>2
<1>2. t[n + 1] \in S
    OBVIOUS
<1> HIDE DEF S
<1>3. s \in Seq(S) /\ Len(s) = n
    BY <1>1
<1>4. t \in Seq(S) /\ Len(t) = n + 1
    BY <1>1
<1>5. /\ Append(s, t[n + 1]) \in Seq(S)
      /\ Len(Append(s, t[n + 1])) = n + 1
      /\ \A k \in 1..n : Append(s, t[n + 1])[k] = s[k]
      /\ Append(s, t[n + 1])[n + 1] = t[n + 1]
    BY <1>2, <1>3
<1>6. ASSUME NEW k \in 1..(n + 1)
      PROVE  t[k] = Append(s, t[n + 1])[k]
  <2>1. k \in 1..n \/ k = n + 1
      OBVIOUS
  <2> QED
      BY <1>5, <2>1
<1> QED
    BY <1>3, <1>4, <1>5, <1>6, SeqEqual

\* A commit more is a chapter more.
LEMMA StoryGrows ==
    ASSUME Consistent, Evidence, Traces, Consistent', Grows,
           DOMAIN commits' = DOMAIN commits \cup {Len(commits) + 1},
           head' = Len(commits) + 1
    PROVE  Abstract!Grow(Abstract!Newest)
<1>1. /\ DOMAIN commits = 1..Len(commits) /\ Len(commits) \in Nat
      /\ Story = [c \in DOMAIN commits |-> Story[c]]
    BY StoryOf
<1>2. Story' = [c \in DOMAIN commits' |-> Story'[c]]
    BY StoryIsToldNext DEF StoryTold
<1>3. \A c \in DOMAIN commits : Story'[c] = Story[c]
    BY StoryStays
<1> HIDE DEF Consistent
<1>4. DOMAIN commits' = 1..(Len(commits) + 1)
    BY <1>1
<1>5. /\ Len(Story) = Len(commits)
      /\ Story' = Append(Story, Story'[Len(commits) + 1])
    BY <1>1, <1>2, <1>3, <1>4, Appended
<1> QED
    BY <1>5 DEF Abstract!Grow, Abstract!Newest

-----------------------------------------------------------------------------
\* A seal is a stamp of the tip the invocation began at.
LEMMA SealTells ==
    ASSUME Consistent, Evidence, Consistent', Evidence',
           NEW p \in Proc, Seal(p), NEW new, new = Len(commits) + 1
    PROVE  /\ Abstract!Newest.parents = StampParents(p)
           /\ Abstract!Newest.content = TreeOf(head).content
           /\ Abstract!Newest.records = RecordsOf(StampTree(p))
           /\ Abstract!Newest.claims = {ClaimOf(manifests[fixed[p]])}
           /\ Abstract!Newest.vouched = Vouching(StampTree(p))
           /\ manifests[fixed[p]].parents = StampParents(p)
           /\ manifests[fixed[p]].entries = SnapshotOf(StampTree(p))
           /\ StampTree(p).content = TreeOf(head).content
           /\ Vouching(StampTree(p)) # {}
<1>1. /\ new \in DOMAIN commits'
      /\ commits'[new].parents = StampParents(p)
      /\ commits'[new].tree = StampTree(p)
      /\ commits'[new].sealed
      /\ head' = new
      /\ base[p] \in DOMAIN commits /\ base[p] = head
    BY SealAppends
<1>2. manifests' = manifests
    BY DEF Seal
<1>3. /\ StampTree(p).manifest = fixed[p]
      /\ StampTree(p).content = TreeOf(head).content
  <2>1. TreeOf(base[p]) \in Files /\ ContentTree(p) \in Files
      BY <1>1, StoreTyping, ContentTreeTyping
  <2>2. ContentTree(p).content = TreeOf(base[p]).content
      BY <2>1 DEF ContentTree, Files
  <2> QED
      BY <1>1, <2>1, <2>2 DEF StampTree, Files
<1>4. None \notin Nat /\ fixed[p] \in Nat
    BY RepositoryAssumption
<1>5. StoryTold'
    BY StoryIsToldNext
<1> HIDE DEF Consistent
<1>6. TreeOf(new)' = StampTree(p)
    BY <1>1 DEF TreeOf
<1>7. Claims(new)'
    BY <1>3, <1>4, <1>6 DEF Claims
<1>8. /\ Abstract!Newest = Story'[new]
      /\ Story'[new].parents = commits'[new].parents
      /\ Story'[new].content = TreeOf(new)'.content
      /\ Story'[new].records = RecordsOf(TreeOf(new))'
      /\ Story'[new].claims = {ClaimOf(manifests[TreeOf(new).manifest])}'
      /\ Story'[new].vouched = Vouching(TreeOf(new))'
    BY <1>1, <1>5, <1>7 DEF StoryTold, Abstract!Newest
<1>9. /\ RecordsOf(TreeOf(new))' = RecordsOf(StampTree(p))
      /\ ClaimOf(manifests[TreeOf(new).manifest])'
         = ClaimOf(manifests[fixed[p]])
      /\ Vouching(TreeOf(new))' = Vouching(StampTree(p))
    BY <1>2, <1>3, <1>6
<1>10. Holds(StampTree(p), StampParents(p), manifests[fixed[p]])
  <2>1. Holds(TreeOf(new), commits[new].parents,
              manifests[TreeOf(new).manifest])'
      BY <1>1 DEF Evidence
  <2> QED
      BY <1>1, <1>2, <1>3, <1>6, <2>1
<1>11. Vouching(StampTree(p)) # {}
    BY <1>10 DEF Holds, Vouching
<1>12. /\ manifests[fixed[p]].parents = StampParents(p)
       /\ manifests[fixed[p]].entries = SnapshotOf(StampTree(p))
    BY <1>10 DEF Holds
<1>13. /\ Abstract!Newest.parents = StampParents(p)
       /\ Abstract!Newest.content = TreeOf(head).content
    BY <1>1, <1>3, <1>6, <1>8
<1> QED
    BY <1>3, <1>8, <1>9, <1>11, <1>12, <1>13

\* What is bound is what was claimed next behind the stamp.
LEMMA StampBinds ==
    ASSUME Consistent, Evidence, Lineage, Traces,
           NEW starts \in SUBSET (DOMAIN commits)
    PROVE  {group.commit : group \in BoundGroups(starts)}
               \in Abstract!Bindings(starts)
<1> DEFINE oldest == {c \in NearestClaims(starts) :
                         \A d \in NearestClaims(starts) :
                             TreeOf(d).manifest = TreeOf(c).manifest => c <= d}
<1>1. {group.commit : group \in BoundGroups(starts)} = oldest
  <2>1. BoundGroups(starts) = {BoundStamp(c) : c \in oldest}
      BY DEF BoundGroups
  <2>2. \A c \in oldest : BoundStamp(c).commit = c
      BY DEF BoundStamp
  <2> HIDE DEF oldest, Consistent
  <2>3. \A c \in oldest : \E group \in BoundGroups(starts) : group.commit = c
      BY <2>1, <2>2
  <2>4. \A group \in BoundGroups(starts) : group.commit \in oldest
      BY <2>1, <2>2
  <2> QED
      BY <2>3, <2>4
<1>2. Abstract!Nearest(starts) = NearestClaims(starts)
    BY NearestAreNearest
<1>3. NearestClaims(starts) \in SUBSET Nat
    BY StoryOf DEF NearestClaims, Walked
<1>4. \A c \in NearestClaims(starts) :
          Story[c].claims = {ClaimOf(manifests[TreeOf(c).manifest])}
    BY StoryOf DEF NearestClaims, Walked
<1> HIDE DEF Consistent
<1>5. ASSUME NEW c \in NearestClaims(starts)
      PROVE  \E d \in oldest : Story[d].claims = Story[c].claims
  <2> DEFINE same == {d \in NearestClaims(starts) :
                          TreeOf(d).manifest = TreeOf(c).manifest}
  <2>1. same \in SUBSET Nat /\ same # {}
      BY <1>3
  <2>2. PICK d \in same : \A e \in same : d <= e
    <3> HIDE DEF same
    <3> QED
        BY <2>1, LeastNumber
  <2>3. d \in oldest
      BY <2>2
  <2>4. Story[d].claims = Story[c].claims
      BY <1>4, <2>2
  <2> QED
      BY <2>3, <2>4
<1> QED
    BY <1>1, <1>2, <1>5 DEF Abstract!Bindings

LEMMA StampIsTold ==
    ASSUME Consistent, Evidence, Lineage, Traces, Binds,
           Consistent', Evidence', Lineage', Grows, NEW p \in Proc, Seal(p)
    PROVE  Abstract!Stamp
<1>1. PICK new : new = Len(commits) + 1
    OBVIOUS
<1>2. /\ Abstract!Newest.parents = StampParents(p)
      /\ Abstract!Newest.content = TreeOf(head).content
      /\ Abstract!Newest.records = RecordsOf(StampTree(p))
      /\ Abstract!Newest.claims = {ClaimOf(manifests[fixed[p]])}
      /\ Abstract!Newest.vouched = Vouching(StampTree(p))
      /\ manifests[fixed[p]].parents = StampParents(p)
      /\ manifests[fixed[p]].entries = SnapshotOf(StampTree(p))
      /\ StampTree(p).content = TreeOf(head).content
      /\ Vouching(StampTree(p)) # {}
    BY <1>1, SealTells
<1>3. /\ DOMAIN commits' = DOMAIN commits \cup {Len(commits) + 1}
      /\ head' = Len(commits) + 1
      /\ base[p] \in DOMAIN commits /\ base[p] = head
    BY SealAppends
<1>4. Abstract!Grow(Abstract!Newest)
    BY <1>3, StoryGrows
<1>5. StampParents(p) \in SUBSET (DOMAIN commits)
    BY <1>3, ParentsAreThere
<1>6. /\ Story[head].parents = commits[head].parents
      /\ Story[head].content = TreeOf(head).content
      /\ Story[head].records = RecordsOf(TreeOf(head))
    BY <1>3, StoryOf
<1>7. StampParents(p) \in {{head}, Story[head].parents}
    BY <1>3, <1>6 DEF StampParents
<1>8. Story[head].records \subseteq RecordsOf(StampTree(p))
  <2>1. ASSUME NEW i \in Issuer
        PROVE  /\ TreeOf(head).chains[i] # None =>
                      StampTree(p).chains[i] # None
               /\ TreeOf(head).crls[i] # None => StampTree(p).crls[i] # None
      BY <1>3, StampTreeFile
  <2> HIDE DEF Consistent
  <2> QED
      BY <1>6, <2>1 DEF RecordsOf
<1>9. manifests[fixed[p]].groups = BoundGroups(StampParents(p))
    BY DEF Binds, Seal, Step, Fixed
<1>10. {group.commit : group \in manifests[fixed[p]].groups}
           \in Abstract!Bindings(StampParents(p))
    BY <1>5, <1>9, StampBinds
<1> HIDE DEF Consistent
<1>11. ClaimOf(manifests[fixed[p]])
       = [parents |-> StampParents(p),
          content |-> TreeOf(head).content,
          records |-> RecordsOf(StampTree(p)),
          binds   |-> {group.commit : group \in manifests[fixed[p]].groups}]
  <2>1. /\ SnapshotOf(StampTree(p)).content = StampTree(p).content
        /\ RecordsOf(SnapshotOf(StampTree(p))) = RecordsOf(StampTree(p))
      BY DEF SnapshotOf, RecordsOf
  <2> QED
      BY <1>2, <2>1 DEF ClaimOf
<1>12. /\ RecordsOf(StampTree(p)) \in SUBSET ({"chain", "crl"} \X Issuer)
       /\ Vouching(StampTree(p)) \in (SUBSET Site) \ {{}}
    BY <1>2 DEF RecordsOf, Vouching
<1> QED
    BY <1>2, <1>4, <1>6, <1>7, <1>8, <1>10, <1>11, <1>12 DEF Abstract!Stamp

\* An ordinary commit repeats a claim at most, with tokens over it.
LEMMA CommitIsTold ==
    ASSUME Consistent, Evidence, Traces, Consistent', Grows,
           NEW others \in SUBSET (DOMAIN commits), Committed(others),
           UserUnchanged
    PROVE  Abstract!Commit
<1>1. PICK new : new = Len(commits) + 1
    OBVIOUS
<1>2. /\ DOMAIN commits' = DOMAIN commits \cup {Len(commits) + 1}
      /\ commits'[new].parents = {head} \cup others
      /\ commits'[new].tree = index
      /\ head' = new
    BY <1>1, CommittedAppends
<1>3. Abstract!Grow(Abstract!Newest)
    BY <1>1, <1>2, StoryGrows
<1>4. /\ StoryTold /\ StoryTold' /\ DOMAIN Story = DOMAIN commits
      /\ head \in DOMAIN commits /\ index \in Files /\ manifests' = manifests
    BY StoryIsTold, StoryIsToldNext DEF StoryTold, UserUnchanged
<1>5. /\ index.manifest # None =>
             \E c \in DOMAIN commits :
                 Claims(c) /\ TreeOf(c).manifest = index.manifest
      /\ \A s \in Site : index.tokens[s] # None =>
             \E c \in DOMAIN commits :
                 /\ Claims(c)
                 /\ TreeOf(c).tokens[s] = index.tokens[s]
                 /\ index.tokens[s].imprint = TreeOf(c).manifest
    BY ClaimsWereSealed DEF Traces
<1> HIDE DEF Consistent
<1>6. TreeOf(new)' = index
    BY <1>2 DEF TreeOf
<1>7. Claims(new)' <=> index.manifest # None
    BY <1>6 DEF Claims
<1>8. /\ Abstract!Newest = Story'[new]
      /\ Story'[new].parents = commits'[new].parents
      /\ Story'[new].content = TreeOf(new)'.content
      /\ Story'[new].records = RecordsOf(TreeOf(new))'
      /\ Claims(new)' => Story'[new].claims =
                         {ClaimOf(manifests[TreeOf(new).manifest])}'
      /\ ~Claims(new)' => Story'[new].claims = {}
      /\ Story'[new].vouched = Vouching(TreeOf(new))'
    BY <1>1, <1>2, <1>4 DEF StoryTold, Abstract!Newest
<1>9. /\ Abstract!Newest.parents = {head} \cup others
      /\ Abstract!Newest.content = index.content
      /\ Abstract!Newest.records = RecordsOf(index)
      /\ Abstract!Newest.vouched = Vouching(index)
      /\ Abstract!Newest.claims =
             IF index.manifest # None
             THEN {ClaimOf(manifests[index.manifest])} ELSE {}
  <2>1. /\ RecordsOf(TreeOf(new))' = RecordsOf(index)
        /\ ClaimOf(manifests[TreeOf(new).manifest])'
           = ClaimOf(manifests[index.manifest])
        /\ Vouching(TreeOf(new))' = Vouching(index)
      BY <1>4, <1>6
  <2> QED
      BY <1>2, <1>6, <1>7, <1>8, <2>1
<1>10. \A c \in DOMAIN commits : Claims(c) =>
           Story[c].claims = {ClaimOf(manifests[TreeOf(c).manifest])}
    BY <1>4 DEF StoryTold
<1>11. Abstract!Newest.claims # {} =>
           \E c \in DOMAIN Story : Story[c].claims = Abstract!Newest.claims
    BY <1>4, <1>5, <1>9, <1>10
<1>12. ASSUME NEW s \in Abstract!Newest.vouched
       PROVE  \E c \in DOMAIN Story :
                  /\ Abstract!Claimed(c)
                  /\ Story[c].claims = Abstract!Newest.claims
                  /\ s \in Story[c].vouched
  <2>1. /\ s \in Site /\ index.tokens[s] # None
        /\ index.tokens[s].genuine
        /\ index.tokens[s].imprint = index.manifest
      BY <1>9 DEF Vouching
  <2>2. PICK c \in DOMAIN commits :
            /\ Claims(c)
            /\ TreeOf(c).tokens[s] = index.tokens[s]
            /\ index.tokens[s].imprint = TreeOf(c).manifest
      BY <1>5, <2>1
  <2>3. /\ TreeOf(c).manifest = index.manifest
        /\ index.manifest # None
      BY <2>1, <2>2 DEF Claims
  <2>4. Story[c].claims = Abstract!Newest.claims
      BY <1>9, <1>10, <2>2, <2>3
  <2>5. s \in Vouching(TreeOf(c))
      BY <2>1, <2>2, <2>3 DEF Vouching
  <2>6. s \in Story[c].vouched
      BY <1>4, <2>5 DEF StoryTold
  <2>7. Abstract!Claimed(c)
      BY <1>10, <2>2 DEF Abstract!Claimed
  <2> QED
      BY <1>4, <2>4, <2>6, <2>7
<1>13. /\ Abstract!Newest.records \in SUBSET ({"chain", "crl"} \X Issuer)
       /\ Abstract!Newest.content \in Content
       /\ head \in Abstract!Newest.parents
       /\ Abstract!Newest.parents \subseteq DOMAIN Story
    BY <1>4, <1>9 DEF RecordsOf, Files
<1> QED
    BY <1>3, <1>11, <1>12, <1>13 DEF Abstract!Commit

\* Every step is a step of the abstract branch or leaves it where it is.
LEMMA StepIsTold ==
    ASSUME Consistent, Evidence, Lineage, Traces, Binds,
           Consistent', Evidence', Lineage', [Next]_vars
    PROVE  [Abstract!BranchNext]_(Abstract!branchVars)
<1>1. Grows
    BY StoreAndTableGrow
<1>2. CASE UNCHANGED <<commits, head>>
  <2>1. \A c \in DOMAIN commits : Story'[c] = Story[c]
      BY <1>1, StoryStays
  <2>2. /\ Story = [c \in DOMAIN commits |-> Story[c]]
        /\ Story' = [c \in DOMAIN commits' |-> Story'[c]]
      BY StoryIsTold, StoryIsToldNext DEF StoryTold
  <2> HIDE DEF Consistent
  <2>3. Story' = Story
      BY <1>2, <2>1, <2>2
  <2> QED
      BY <1>2, <2>3 DEF Abstract!branchVars
<1>3. ASSUME NEW p \in Proc, Seal(p)
      PROVE  Abstract!Stamp
    BY <1>1, <1>3, StampIsTold
<1>4. ASSUME NEW others \in SUBSET (DOMAIN commits), Committed(others),
             UserUnchanged
      PROVE  Abstract!Commit
    BY <1>1, <1>4, CommitIsTold
<1>5. ASSUME NEW c \in DOMAIN commits, ResetHard(c)
      PROVE  c \in DOMAIN Story /\ Abstract!Move(c)
  <2>1. /\ head' = c /\ commits' = commits /\ manifests' = manifests
      BY <1>5 DEF ResetHard, UserUnchanged
  <2>2. DOMAIN Story = DOMAIN commits
      BY StoryOf
  <2> HIDE DEF Consistent
  <2>3. Story' = Story
      BY <2>1
      DEF Story, Chapter, TreeOf, Claims, ClaimOf, RecordsOf, Vouching
  <2> QED
      BY <2>1, <2>2, <2>3 DEF Abstract!Move
<1>6. \/ UNCHANGED <<commits, head>>
      \/ \E p \in Proc : Seal(p)
      \/ \E others \in SUBSET (DOMAIN commits) :
             Committed(others) /\ UserUnchanged
      \/ \E c \in DOMAIN commits : ResetHard(c)
    BY StoreSteps
<1> HIDE DEF Consistent
<1> QED
    BY <1>2, <1>3, <1>4, <1>5, <1>6 DEF Abstract!BranchNext

LEMMA StoryBegins == Init => Abstract!BranchInit
<1> SUFFICES ASSUME Init
             PROVE  Abstract!BranchInit
    OBVIOUS
<1>1. /\ DOMAIN commits = {1} /\ commits[1].parents = {}
      /\ TreeOf(1) = index
      /\ index.manifest = None /\ index.tokens = NoTokens
      /\ index.chains = NoChains /\ index.crls = NoCrls
    BY FirstTree
<1>2. head = 1 /\ \E x \in Content : index.content = x
    BY DEF Init
<1>3. PICK x \in Content : index.content = x
    BY <1>2
<1>4. RecordsOf(index) = {} /\ Vouching(index) = {} /\ ~Claims(1)
    BY <1>1 DEF RecordsOf, Vouching, Claims, NoChains, NoCrls, NoTokens
<1>5. Chapter(1) = [parents |-> {}, content |-> x, records |-> {},
                    claims |-> {}, vouched |-> {}]
    BY <1>1, <1>3, <1>4 DEF Chapter
<1>6. Story = <<Chapter(1)>>
    BY <1>1 DEF Story
<1> QED
    BY <1>2, <1>5, <1>6 DEF Abstract!BranchInit

(***************************************************************************)
(* However many invocations run at once, whatever the user does between    *)
(* their steps and wherever they die, who reads the history sees whole     *)
(* stamps: each appeared in one step on the tip it claims to descend from, *)
(* with all it claims.                                                     *)
(***************************************************************************)
THEOREM StampsAreOneStep == Spec => StampIsOneStep
<1>1. Init => Consistent /\ Lineage /\ Traces /\ Binds
  <2>1. Init => Binds
      BY DEF Init, Binds, Fixed
  <2> QED
      BY <2>1, ConsistentInitially, LineageInitially, TracesInitially
<1>2. /\ Consistent /\ Lineage /\ Evidence /\ Traces /\ Binds
      /\ Consistent' /\ Lineage' /\ Evidence' /\ [Next]_vars
      => Traces' /\ Binds'
    BY TracesNext, BindsNext
<1>3. /\ Consistent /\ Lineage /\ Evidence /\ Traces /\ Binds
      /\ Consistent' /\ Lineage' /\ Evidence' /\ [Next]_vars
      => [Abstract!BranchNext]_(Abstract!branchVars)
    BY StepIsTold
<1> QED
    BY <1>1, <1>2, <1>3, StoryBegins, LineageAlways, EvidenceAlways, PTL
    DEF Spec, StampIsOneStep, Abstract!Branch
=============================================================================
