------------------------------ MODULE Stamping ------------------------------
(***************************************************************************)
(* The stamping flow of crates/tydence/src/stamp: what `tydence stamp`     *)
(* does from reading HEAD to moving the branch.  One invocation refreshes  *)
(* the CRLs of every recorded chain, mirrors the records into the tree     *)
(* being stamped, fixes the manifest, asks each site of the profile for a  *)
(* token and verifies it, records what the verified tokens taught it, and  *)
(* seals.  Each step that reads or writes something another process can    *)
(* touch is an action of its own; object writes are invisible until the    *)
(* branch moves and are part of the sealing step.                          *)
(*                                                                         *)
(* The authorities are here too, as the code meets them: a clock, a CRL    *)
(* per issuer with a bounded validity, and a signer certificate per site   *)
(* that may be replaced.                                                   *)
(***************************************************************************)
EXTENDS Repository

CONSTANTS
    Profiles,     \* the profiles of the configuration: sequences of sites
    Tolerated,    \* the sites selected with ContinueOnError
    CrlValidity,  \* nextUpdate - thisUpdate of every CRL
    MaxCommits,   \* bound: no commit is begun once there are as many
    MaxTime,      \* bound: the clock
    MaxGen        \* bound: replacements of a site's signer certificate

ASSUME StampingAssumption ==
    /\ Profiles \subseteq Seq(Site)
    /\ Tolerated \subseteq Site
    /\ CrlValidity \in Nat
    /\ MaxCommits \in Nat
    /\ MaxTime \in Nat
    /\ MaxGen \in Nat

\* What ltv::refresh reports of the working tree's records.
Records  == [chains : ChainFiles, crls : CrlFiles]
\* A verified token with the CRL its harvest fetched.
Acquired == [token : Token, crl : Crl]

VARIABLES
    base,     \* the tip each invocation stamps, read once at its start
    amend,    \* whether it replaces that tip
    sites,    \* the selections still to be asked, in profile order
    listed,   \* the chain records the refresh has not visited yet
    records,  \* the records it found and refreshed
    fixed,    \* the manifest it fixed
    reply,    \* the token received but not verified yet
    acquired, \* the verified tokens, in selection order
    settled,  \* how many of them are recorded in the working tree
    now,      \* the clock TSAs and CRL issuers share
    crl,      \* the CRL each issuer currently publishes
    gen,      \* the signer certificate each site's TSA currently uses
    learned   \* history: the chains of the tokens that verified

jobVars   == <<base, amend, sites, listed, records, fixed, reply, acquired,
               settled>>
worldVars == <<now, crl, gen>>
stampingVars == <<jobVars, worldVars, learned>>

StampSteps == {"list", "refresh", "refreshCrl", "acquire", "verify",
               "record", "recordCrl"}

StampingTypeOK ==
    /\ base \in [Proc -> Nat]
    /\ amend \in [Proc -> BOOLEAN]
    /\ sites \in [Proc -> Seq(Site)]
    /\ listed \in [Proc -> SUBSET Issuer]
    /\ records \in [Proc -> Records]
    /\ fixed \in [Proc -> Nat]
    /\ reply \in [Proc -> Token \cup {None}]
    /\ acquired \in [Proc -> Seq(Acquired)]
    /\ settled \in [Proc -> Nat]
    /\ now \in Nat
    /\ crl \in [Issuer -> Crl]
    /\ gen \in [Site -> Nat]
    /\ learned \subseteq Chain

-----------------------------------------------------------------------------
NoRecords == [chains |-> NoChains, crls |-> NoCrls]

StampParents(p) ==
    IF amend[p] THEN commits[base[p]].parents ELSE {base[p]}

\* Broken on purpose: the records are read off the disk when they are needed.
ContentTreeOffDisk(p) ==
    [TreeOf(base[p]) EXCEPT !.chains = Overlay(work.chains, @),
                            !.crls   = Overlay(work.crls, @)]

(***************************************************************************)
(* apply_ltv_records: the working tree's chains as the refresh read them   *)
(* and the CRLs it fetched, upserted into the tree being stamped.          *)
(***************************************************************************)
ContentTree(p) ==
    [TreeOf(base[p]) EXCEPT
        !.chains = Overlay(records[p].chains, @),
        !.crls   = Overlay(records[p].crls, @)]

\* decides_at_gen_time, for a certificate that has not expired.
Decides(thisUpdate, genTime) == genTime <= thisUpdate + CrlValidity

(***************************************************************************)
(* verify_token: the imprint is the manifest's, the signature, chain and   *)
(* profile checks hold (genuine), and a CRL of the signer's issuer         *)
(* decides the revocation status at genTime.                               *)
(***************************************************************************)
TokenVerifies(token, manifest, crls) ==
    /\ token.imprint = manifest
    /\ token.genuine
    /\ \E c \in crls : Decides(c, token.genTime)

\* The CRLs the refresh holds for one issuer.
RefreshedCrls(p, i) == {records[p].crls[i]} \ {None}

\* The tree stamp_tree_id writes: tokens/ is dropped and rebuilt.
StampTree(p) ==
    [ContentTree(p) EXCEPT
        !.manifest = fixed[p],
        !.tokens = [s \in Site |->
            IF \E k \in DOMAIN acquired[p] : acquired[p][k].token.site = s
            THEN LET k == CHOOSE k \in DOMAIN acquired[p] :
                              acquired[p][k].token.site = s
                 IN  acquired[p][k].token
            ELSE None]]

-----------------------------------------------------------------------------
ResetJob(p) ==
    /\ base' = [base EXCEPT ![p] = 0]
    /\ amend' = [amend EXCEPT ![p] = FALSE]
    /\ sites' = [sites EXCEPT ![p] = <<>>]
    /\ listed' = [listed EXCEPT ![p] = {}]
    /\ records' = [records EXCEPT ![p] = NoRecords]
    /\ fixed' = [fixed EXCEPT ![p] = 0]
    /\ reply' = [reply EXCEPT ![p] = None]
    /\ acquired' = [acquired EXCEPT ![p] = <<>>]
    /\ settled' = [settled EXCEPT ![p] = 0]

\* The command line reads HEAD, its tree and its parents.
StampBegin(p, amending) ==
    /\ Step(p, "idle", "list")
    /\ Len(commits) < MaxCommits
    /\ base' = [base EXCEPT ![p] = head]
    /\ amend' = [amend EXCEPT ![p] = amending]
    /\ \E profile \in Profiles : sites' = [sites EXCEPT ![p] = profile]
    /\ UNCHANGED <<repoVars, worldVars, learned, listed, records, fixed,
                   reply, acquired, settled, result>>

\* refresh: the directory of chain records is listed.
RefreshList(p) ==
    /\ Step(p, "list", "refresh")
    /\ listed' = [listed EXCEPT ![p] =
           {i \in Issuer : work.chains[i] # None}]
    /\ UNCHANGED <<repoVars, worldVars, learned, base, amend, sites, records,
                   fixed, reply, acquired, settled, result>>

\* Broken on purpose: the snapshot on disk stands in for a fresh CRL.
RefreshFromDisk(p, i) ==
    /\ Step(p, "refresh", "refreshCrl")
    /\ i \in listed[p]
    /\ work.chains[i] # None
    /\ records' = [records EXCEPT
           ![p].chains[i] = work.chains[i],
           ![p].crls[i] = IF work.crls[i] # None THEN work.crls[i]
                          ELSE crl[i]]
    /\ UNCHANGED <<repoVars, worldVars, learned, base, amend, sites, listed,
                   fixed, reply, acquired, settled, result>>

(***************************************************************************)
(* refresh: one chain file is read and the CRL its certificates advertise  *)
(* is fetched...                                                           *)
(***************************************************************************)
RefreshFetch(p, i) ==
    /\ Step(p, "refresh", "refreshCrl")
    /\ i \in listed[p]
    /\ work.chains[i] # None
    /\ records' = [records EXCEPT ![p].chains[i] = work.chains[i],
                                  ![p].crls[i] = crl[i]]
    /\ UNCHANGED <<repoVars, worldVars, learned, base, amend, sites, listed,
                   fixed, reply, acquired, settled, result>>

\* ...and written over the snapshot in the working tree.
RefreshWrite(p, i) ==
    /\ Step(p, "refreshCrl", "refresh")
    /\ i \in listed[p]
    /\ records[p].chains[i] # None
    /\ work' = [work EXCEPT !.crls[i] = records[p].crls[i]]
    /\ listed' = [listed EXCEPT ![p] = @ \ {i}]
    /\ UNCHANGED <<commits, manifests, head, index, worldVars, learned, base,
                   amend, sites, records, fixed, reply, acquired, settled,
                   result>>

(***************************************************************************)
(* With every record refreshed, the manifest is fixed over the content     *)
(* tree and the binding set, both read from immutable objects; writing it  *)
(* out enters it in the table.                                             *)
(***************************************************************************)
FixManifest(p) ==
    LET manifest == [parents |-> StampParents(p),
                     groups  |-> BoundGroups(StampParents(p)),
                     entries |-> SnapshotOf(ContentTree(p))]
        table == IF \E k \in DOMAIN manifests : manifests[k] = manifest
                 THEN manifests ELSE Append(manifests, manifest)
    IN  /\ Step(p, "refresh", "acquire")
        /\ listed[p] = {}
        /\ manifests' = table
        /\ fixed' = [fixed EXCEPT ![p] =
               CHOOSE k \in DOMAIN table : table[k] = manifest]
        /\ UNCHANGED <<commits, head, index, work, worldVars, learned, base,
                       amend, sites, listed, records, reply, acquired,
                       settled, result>>

\* acquire_token: the TSA answers, with a token that may not verify.
TsaReply(p) ==
    /\ Step(p, "acquire", "verify")
    /\ sites[p] # <<>>
    /\ \E genuine \in BOOLEAN :
           reply' = [reply EXCEPT ![p] =
               [site |-> Head(sites[p]), gen |-> gen[Head(sites[p])],
                imprint |-> fixed[p], genTime |-> now,
                genuine |-> genuine]]
    /\ UNCHANGED <<repoVars, worldVars, learned, base, amend, sites, listed,
                   records, fixed, acquired, settled, result>>

\* The harvest fetches the chain's CRL and the token verifies with it.
SiteYields(p) ==
    LET issuer == IssuerOf[reply[p].site]
    IN  /\ Step(p, "verify", "acquire")
        /\ TokenVerifies(reply[p], fixed[p],
                         RefreshedCrls(p, issuer) \cup {crl[issuer]})
        /\ acquired' = [acquired EXCEPT ![p] =
               Append(@, [token |-> reply[p], crl |-> crl[issuer]])]
        /\ learned' = learned \cup
               {[site |-> reply[p].site, gen |-> reply[p].gen]}
        /\ reply' = [reply EXCEPT ![p] = None]
        /\ sites' = [sites EXCEPT ![p] = Tail(@)]
        /\ UNCHANGED <<repoVars, worldVars, base, amend, listed, records,
                       fixed, settled, result>>

\* Broken on purpose: what a failed site sent is kept all the same.
SiteToleratedAndKept(p) ==
    /\ Step(p, "verify", "acquire")
    /\ Head(sites[p]) \in Tolerated
    /\ acquired' = [acquired EXCEPT ![p] =
           Append(@, [token |-> reply[p], crl |-> 0])]
    /\ reply' = [reply EXCEPT ![p] = None]
    /\ sites' = [sites EXCEPT ![p] = Tail(@)]
    /\ UNCHANGED <<repoVars, worldVars, learned, base, amend, listed, records,
                   fixed, settled, result>>

(***************************************************************************)
(* A site fails: its TSA does not answer, its CRL cannot be fetched or its *)
(* token does not verify.  Only a ContinueOnError selection is tolerated;  *)
(* any other failure ends the stamp.                                       *)
(***************************************************************************)
SiteTolerated(p) ==
    /\ pc[p] \in {"acquire", "verify"}
    /\ sites[p] # <<>>
    /\ Head(sites[p]) \in Tolerated
    /\ pc' = [pc EXCEPT ![p] = "acquire"]
    /\ reply' = [reply EXCEPT ![p] = None]
    /\ sites' = [sites EXCEPT ![p] = Tail(@)]
    /\ UNCHANGED <<repoVars, worldVars, learned, base, amend, listed, records,
                   fixed, acquired, settled, result>>

\* Every selection was asked; zero tokens never seal.
AcquireDone(p) ==
    /\ Step(p, "acquire", "record")
    /\ sites[p] = <<>>
    /\ acquired[p] # <<>>
    /\ UNCHANGED <<repoVars, result, stampingVars>>

\* record: the chain file of the next verified token...
RecordChain(p) ==
    /\ Step(p, "record", "recordCrl")
    /\ settled[p] < Len(acquired[p])
    /\ LET token == acquired[p][settled[p] + 1].token
       IN  work' = [work EXCEPT !.chains[IssuerOf[token.site]] =
                       [site |-> token.site, gen |-> token.gen]]
    /\ UNCHANGED <<commits, manifests, head, index, result, stampingVars>>

\* Broken on purpose: the CRL is used and forgotten.
RecordNoCrl(p) ==
    /\ Step(p, "recordCrl", "record")
    /\ settled' = [settled EXCEPT ![p] = @ + 1]
    /\ UNCHANGED <<repoVars, worldVars, learned, base, amend, sites, listed,
                   records, fixed, reply, acquired, result>>

\* ...and then the CRL its harvest fetched.
RecordCrl(p) ==
    /\ Step(p, "recordCrl", "record")
    /\ LET next == acquired[p][settled[p] + 1]
       IN  work' = [work EXCEPT !.crls[IssuerOf[next.token.site]] = next.crl]
    /\ settled' = [settled EXCEPT ![p] = @ + 1]
    /\ UNCHANGED <<commits, manifests, head, index, worldVars, learned, base,
                   amend, sites, listed, records, fixed, reply, acquired,
                   result>>

\* Broken on purpose: the branch is moved wherever it is.
SealUnconditionally(p) ==
    /\ Step(p, "record", "sync")
    /\ settled[p] = Len(acquired[p])
    /\ commits' = Append(commits, [parents |-> StampParents(p),
                                   tree    |-> StampTree(p),
                                   sealed  |-> TRUE])
    /\ head' = Len(commits')
    /\ ResetJob(p)
    /\ result' = [result EXCEPT ![p] = Len(commits')]
    /\ UNCHANGED <<manifests, index, work, worldVars, learned>>

(***************************************************************************)
(* seal: with every verified token recorded, the commit is written and the *)
(* branch moves to it, provided it still is where the invocation found it. *)
(* Otherwise the invocation fails (Refuse); the commit it wrote stays      *)
(* unreferenced, and the model does not enter it in the store.             *)
(***************************************************************************)
Seal(p) ==
    /\ Step(p, "record", "sync")
    /\ settled[p] = Len(acquired[p])
    /\ head = base[p]
    /\ commits' = Append(commits, [parents |-> StampParents(p),
                                   tree    |-> StampTree(p),
                                   sealed  |-> TRUE])
    /\ head' = Len(commits')
    /\ ResetJob(p)
    /\ result' = [result EXCEPT ![p] = Len(commits')]
    /\ UNCHANGED <<manifests, index, work, worldVars, learned>>

(***************************************************************************)
(* What makes the flow itself give up: a listed chain record that is gone, *)
(* a token of a selection without ContinueOnError that does not verify, no *)
(* token at all, a branch that moved.                                      *)
(***************************************************************************)
RecordIsGone(p) ==
    /\ pc[p] = "refresh"
    /\ \E i \in listed[p] : work.chains[i] = None

TokenIsRefused(p) ==
    /\ pc[p] = "verify"
    /\ Head(sites[p]) \notin Tolerated
    /\ LET issuer == IssuerOf[reply[p].site]
       IN  ~TokenVerifies(reply[p], fixed[p],
                RefreshedCrls(p, issuer) \cup {crl[issuer]})

NothingAcquired(p) ==
    /\ pc[p] = "acquire"
    /\ sites[p] = <<>>
    /\ acquired[p] = <<>>

\* Broken on purpose: a branch that moved is not noticed.
BranchNeverMoves(p) == p # p

BranchMoved(p) ==
    /\ pc[p] = "record"
    /\ settled[p] = Len(acquired[p])
    /\ head # base[p]

Refuses(p) ==
    \/ RecordIsGone(p)    \/ TokenIsRefused(p)
    \/ NothingAcquired(p) \/ BranchMoved(p)

\* The command ends with exit status 2; what it wrote by then stays.
Stop(p) ==
    /\ pc' = [pc EXCEPT ![p] = "idle"]
    /\ ResetJob(p)
    /\ result' = [result EXCEPT ![p] = 0]
    /\ UNCHANGED <<repoVars, worldVars, learned>>

Refuse(p) == Refuses(p) /\ Stop(p)

(***************************************************************************)
(* Any step may also fail for a reason outside the model (an unreachable   *)
(* authority, a full disk), and the process may be killed.                 *)
(***************************************************************************)
StampFails(p) ==
    /\ pc[p] \in Faults \cap StampSteps
    /\ Stop(p)

StampStep(p) ==
    \/ RefreshList(p)
    \/ \E i \in Issuer : RefreshFetch(p, i) \/ RefreshWrite(p, i)
    \/ FixManifest(p)
    \/ TsaReply(p)
    \/ SiteYields(p)
    \/ SiteTolerated(p)
    \/ AcquireDone(p)
    \/ RecordChain(p)
    \/ RecordCrl(p)
    \/ Seal(p)
    \/ Refuse(p)

-----------------------------------------------------------------------------
\* The authorities.
Tick ==
    /\ now < MaxTime
    /\ now' = now + 1
    /\ UNCHANGED <<repoVars, pc, result, jobVars, crl, gen, learned>>

Publish(i) ==
    /\ crl[i] < now
    /\ crl' = [crl EXCEPT ![i] = now]
    /\ UNCHANGED <<repoVars, pc, result, jobVars, now, gen, learned>>

Rotate(s) ==
    /\ gen[s] < MaxGen
    /\ gen' = [gen EXCEPT ![s] = @ + 1]
    /\ UNCHANGED <<repoVars, pc, result, jobVars, now, crl, learned>>

StampingInit ==
    /\ base = [p \in Proc |-> 0]
    /\ amend = [p \in Proc |-> FALSE]
    /\ sites = [p \in Proc |-> <<>>]
    /\ listed = [p \in Proc |-> {}]
    /\ records = [p \in Proc |-> NoRecords]
    /\ fixed = [p \in Proc |-> 0]
    /\ reply = [p \in Proc |-> None]
    /\ acquired = [p \in Proc |-> <<>>]
    /\ settled = [p \in Proc |-> 0]
    /\ now = 0
    /\ crl = [i \in Issuer |-> 0]
    /\ gen = [s \in Site |-> 0]
    /\ learned = {}
=============================================================================
