-------------------------------- MODULE Ltv --------------------------------
(***************************************************************************)
(* stamp/ltv.rs: how one stamp after the other collects the CRLs that the  *)
(* certificates of its chains advertise.  Each stamp first refreshes the   *)
(* CRLs of every chain record of the working tree and mirrors the records  *)
(* into the tree it seals; then it harvests the chain of each token, and   *)
(* records what came with the tokens that verified.  Module Stamping has   *)
(* the flow around this, with one certificate and one CRL to a chain; here *)
(* a chain has several, that share issuers and distribution points.        *)
(*                                                                         *)
(* A CRL is its issuer and the number of its edition.  PEM and DER spell   *)
(* the same certificates and CRLs; what spells none is malformed.          *)
(***************************************************************************)
EXTENDS Naturals, FiniteSets, SequencesExt

CONSTANTS
    Name,        \* the names that issue certificates and CRLs
    Uri,         \* what a distribution point may name
    Publishes,   \* the issuer of the CRLs each URI serves
    Sendable,    \* the tokens that the authorities may send
    Deposited,   \* the chain records a working tree may start with
    MaxEdition,  \* bound: editions of a CRL
    MaxStamps,   \* bound: stamps
    NoFile       \* an absent file

(***************************************************************************)
(* A certificate has no CRL distribution points, or an extension that does *)
(* not parse, or points: URIs, and other forms that are passed over.       *)
(***************************************************************************)
Certificate == [extension : {"absent", "malformed", "points"},
                points : Seq(Uri \cup {"other"})]

\* A token, keyed by the issuer its signer is identified by.  The shapes but
\* plain are what token_chain refuses.
Shapes == {"plain", "MalformedToken", "NotSignedData", "WrongSignerCount",
           "UnkeyableSigner", "ForeignCertificateForm"}

TokenSent == [shape : Shapes, signer : Name, chain : Seq(Certificate)]

Crl == [issuer : Name, edition : Nat]

\* The records: a chain file without certificates does not parse.
Chains == [Name -> Seq(Certificate) \cup {NoFile}]
Crls   == [Name -> Crl \cup {NoFile}]

ASSUME LtvAssumption ==
    /\ Publishes \in [Uri -> Name]
    /\ Sendable \subseteq TokenSent
    /\ Deposited \subseteq Chains
    /\ NoFile \notin Seq(Certificate) \cup Crl

VARIABLES
    disk,      \* the records of the working tree
    stray,     \* whether ltv/certs/ holds a file that is no record
    tree,      \* the records of the tree being sealed
    stage,     \* what the stamp is at
    pending,   \* the chain records the refresh has not come to
    source,    \* the record or the token whose chain is being collected
    left,      \* its certificates still to be looked at
    uris,      \* the places of the URIs the first of them has left to try
    fetched,   \* the CRLs fetched for this chain, one per issuer
    reported,  \* the records the refresh reports, CRLs in order
    harvests,  \* what came with the tokens that verified
    edition,   \* the CRL each issuer currently publishes
    served,    \* history: the CRLs this stamp was served
    settled,   \* history: the chains this stamp recorded
    count      \* how many stamps there were

ltvVars == <<disk, stray, tree, stage, pending, source, left, uris, fetched,
             reported, harvests, edition, served, settled, count>>

collecting == <<source, left, uris, fetched>>
ltvHistory    == <<served, settled, count>>

-----------------------------------------------------------------------------
Unset == [signer |-> NoFile, chain |-> <<>>]

NoReport == [chains |-> {}, crls |-> <<>>]

\* Broken on purpose: what yields no URI is read as advertising nothing.
NothingToFetch(c) ==
    c.extension # "malformed" /\ \A p \in Range(c.points) : p = "other"

\* fetch_crl: no extension, no CRL to fetch.
AdvertisesNothing(c) == c.extension = "absent"

\* distribution_uris: the places of the URIs among the points.
DistributionUris(c) == {k \in DOMAIN c.points : c.points[k] \in Uri}

\* The chain collected now is a record's, not a token's.
Refreshing == source.signer \in pending

\* RecordedCrl: the CRLs reported last for their issuers.
Upserted(crls, recorded) ==
    [i \in Name |->
        IF \E k \in DOMAIN recorded : recorded[k].issuer = i
        THEN LET k == Max({k \in DOMAIN recorded : recorded[k].issuer = i})
             IN  recorded[k]
        ELSE crls[i]]

Forget ==
    /\ source' = Unset
    /\ left' = <<>>
    /\ uris' = {}
    /\ fetched' = <<>>

\* The stamp ends with an error; the records written by then stay.
GiveUpStamp ==
    /\ stage' = "idle"
    /\ pending' = {}
    /\ reported' = NoReport
    /\ harvests' = <<>>
    /\ Forget
    /\ UNCHANGED <<disk, stray, tree, edition, ltvHistory>>

-----------------------------------------------------------------------------
LtvStart ==
    /\ disk \in [chains : Deposited, crls : {[i \in Name |-> NoFile]}]
    /\ stray \in BOOLEAN
    /\ tree = [chains |-> [i \in Name |-> NoFile],
               crls |-> [i \in Name |-> NoFile]]
    /\ stage = "idle"
    /\ pending = {}
    /\ source = Unset
    /\ left = <<>> /\ uris = {} /\ fetched = <<>>
    /\ reported = NoReport
    /\ harvests = <<>>
    /\ edition = [i \in Name |-> 1]
    /\ served = {} /\ settled = {}
    /\ count = 0

\* refresh: ltv/certs/ is listed; it need not be there.
BeginRefresh ==
    /\ stage = "idle"
    /\ count < MaxStamps
    /\ stage' = "records"
    /\ pending' = {i \in Name : disk.chains[i] # NoFile}
    /\ served' = {} /\ settled' = {}
    /\ count' = count + 1
    /\ UNCHANGED <<disk, stray, tree, collecting, reported, harvests, edition>>

\* The directory is read in any order.
ReadRecord ==
    /\ stage = "records"
    /\ \E i \in pending :
           /\ disk.chains[i] # <<>>
           /\ source' = [signer |-> i, chain |-> disk.chains[i]]
           /\ left' = disk.chains[i]
    /\ stage' = "certificates"
    /\ UNCHANGED <<disk, stray, tree, pending, uris, fetched, reported,
                   harvests, edition, ltvHistory>>

\* A file without the suffix of a record, or one without certificates.
RefuseRecords ==
    /\ stage = "records"
    /\ stray \/ \E i \in pending : disk.chains[i] = <<>>
    /\ GiveUpStamp

-----------------------------------------------------------------------------
(***************************************************************************)
(* fetch_chain_crls: certificate by certificate, and for each the URIs it  *)
(* advertises until one answers.                                           *)
(***************************************************************************)
PassOver ==
    /\ stage = "certificates"
    /\ left # <<>>
    /\ AdvertisesNothing(Head(left))
    /\ left' = Tail(left)
    /\ UNCHANGED <<disk, stray, tree, stage, pending, source, uris, fetched,
                   reported, harvests, edition, ltvHistory>>

TurnToUris ==
    /\ stage = "certificates"
    /\ left # <<>>
    /\ ~ AdvertisesNothing(Head(left))
    /\ Head(left).extension = "points"
    /\ DistributionUris(Head(left)) # {}
    /\ uris' = DistributionUris(Head(left))
    /\ stage' = "uris"
    /\ UNCHANGED <<disk, stray, tree, pending, source, left, fetched, reported,
                   harvests, edition, ltvHistory>>

TryNext ==
    /\ stage = "uris"
    /\ uris' = uris \ {Min(uris)}
    /\ uris' # {}
    /\ UNCHANGED <<disk, stray, tree, stage, pending, source, left, fetched,
                   reported, harvests, edition, ltvHistory>>

\* transport::fetch: what the URI serves now.
Fetch(uri) == [issuer |-> Publishes[uri], edition |-> edition[Publishes[uri]]]

\* One CRL per issuer: a second one of the chain is not kept.
Kept(crl) ==
    IF \E held \in Range(fetched) : held.issuer = crl.issuer
    THEN fetched ELSE Append(fetched, crl)

FetchCrl ==
    LET crl == Fetch(Head(left).points[Min(uris)])
    IN  /\ stage = "uris"
        /\ fetched' = Kept(crl)
        /\ served' = served \cup {crl}
        /\ left' = Tail(left)
        /\ uris' = {}
        /\ stage' = "certificates"
        /\ UNCHANGED <<disk, stray, tree, pending, source, reported, harvests,
                       edition, settled, count>>

\* A site that fails is tolerated, or ends the stamp.
SiteFails ==
    \/ GiveUpStamp
    \/ /\ stage' = "sites"
       /\ Forget
       /\ UNCHANGED <<disk, stray, tree, pending, reported, harvests, edition,
                      ltvHistory>>

\* Points that do not parse or yield no URI; no URI answers; what one serves
\* is no CRL.
CollectingFails ==
    /\ \/ /\ stage = "certificates"
          /\ left # <<>>
          /\ ~ AdvertisesNothing(Head(left))
          /\ \/ Head(left).extension = "malformed"
             \/ DistributionUris(Head(left)) = {}
       \/ stage = "uris"
    /\ IF Refreshing THEN GiveUpStamp ELSE SiteFails

-----------------------------------------------------------------------------
\* record_chain_crls, file by file.
WriteCrl ==
    /\ stage = "certificates"
    /\ left = <<>> /\ fetched # <<>>
    /\ Refreshing
    /\ disk' = [disk EXCEPT !.crls[Head(fetched).issuer] = Head(fetched)]
    /\ reported' = [reported EXCEPT !.crls = Append(@, Head(fetched))]
    /\ fetched' = Tail(fetched)
    /\ UNCHANGED <<stray, tree, stage, pending, source, left, uris, harvests,
                   edition, ltvHistory>>

ReportChain ==
    /\ stage = "certificates"
    /\ left = <<>> /\ fetched = <<>>
    /\ Refreshing
    /\ reported' = [reported EXCEPT !.chains = @ \cup {source}]
    /\ pending' = pending \ {source.signer}
    /\ stage' = "records"
    /\ Forget
    /\ UNCHANGED <<disk, stray, tree, harvests, edition, ltvHistory>>

\* apply_ltv_records: what the refresh reports is upserted, in its order.
MirroredTree ==
    [chains |-> [i \in Name |->
         IF \E r \in reported.chains : r.signer = i
         THEN (CHOOSE r \in reported.chains : r.signer = i).chain
         ELSE tree.chains[i]],
     crls |-> Upserted(tree.crls, reported.crls)]

Mirror ==
    /\ stage = "records"
    /\ pending = {} /\ ~stray
    /\ tree' = MirroredTree
    /\ stage' = "sites"
    /\ UNCHANGED <<disk, stray, pending, collecting, reported, harvests,
                   edition, ltvHistory>>

-----------------------------------------------------------------------------
\* harvest: the certificates a token embeds are its chain.
Harvest(token) ==
    /\ stage = "sites"
    /\ token.shape = "plain" /\ token.chain # <<>>
    /\ source' = [signer |-> token.signer, chain |-> token.chain]
    /\ left' = token.chain
    /\ stage' = "certificates"
    /\ UNCHANGED <<disk, stray, tree, pending, uris, fetched, reported,
                   harvests, edition, ltvHistory>>

\* token_chain: no signed data, not one signer, a signer without an issuer's
\* name, no certificates or others than plain ones.
RefuseShape(token) ==
    /\ stage = "sites"
    /\ token.shape # "plain" \/ token.chain = <<>>
    /\ SiteFails

\* Held in memory until the token verifies.
Harvested ==
    [signer |-> source.signer, chain |-> source.chain, crls |-> fetched]

\* The token verifies with these CRLs, or its site fails.
KeepHarvest ==
    /\ stage = "certificates"
    /\ left = <<>> /\ ~Refreshing
    /\ harvests' = Append(harvests, Harvested)
    /\ stage' = "sites"
    /\ Forget
    /\ UNCHANGED <<disk, stray, tree, pending, reported, edition, ltvHistory>>

DropHarvest ==
    /\ stage = "certificates"
    /\ left = <<>> /\ ~Refreshing
    /\ SiteFails

AllAsked ==
    /\ stage = "sites"
    /\ harvests # <<>>
    /\ stage' = "settle"
    /\ UNCHANGED <<disk, stray, tree, pending, collecting, reported, harvests,
                   edition, ltvHistory>>

\* record: the chain of the next verified token, and then its CRLs.
SettleChain ==
    LET harvest == Head(harvests)
    IN  /\ stage = "settle"
        /\ harvests # <<>>
        /\ disk' = [disk EXCEPT !.chains[harvest.signer] = harvest.chain]
        /\ settled' = settled \cup {harvest.signer}
        /\ fetched' = harvest.crls
        /\ harvests' = Tail(harvests)
        /\ stage' = "settleCrls"
        /\ UNCHANGED <<stray, tree, pending, source, left, uris, reported,
                       edition, served, count>>

SettleCrl ==
    /\ stage = "settleCrls"
    /\ fetched # <<>>
    /\ disk' = [disk EXCEPT !.crls[Head(fetched).issuer] = Head(fetched)]
    /\ fetched' = Tail(fetched)
    /\ UNCHANGED <<stray, tree, stage, pending, source, left, uris, reported,
                   harvests, edition, ltvHistory>>

Settled ==
    /\ stage = "settleCrls"
    /\ fetched = <<>>
    /\ stage' = IF harvests = <<>> THEN "sealed" ELSE "settle"
    /\ UNCHANGED <<disk, stray, tree, pending, collecting, reported, harvests,
                   edition, ltvHistory>>

\* The stamp is done, or fails wherever it is: a disk that is full, a seal
\* that meets a moved branch.
EndStamp ==
    /\ stage # "idle"
    /\ GiveUpStamp

\* The authorities publish the next edition.
PublishCrl(i) ==
    /\ edition[i] < MaxEdition
    /\ edition' = [edition EXCEPT ![i] = @ + 1]
    /\ UNCHANGED <<disk, stray, tree, stage, pending, collecting, reported,
                   harvests, ltvHistory>>

LtvNext ==
    \/ BeginRefresh \/ ReadRecord \/ RefuseRecords
    \/ PassOver \/ TurnToUris \/ TryNext \/ FetchCrl \/ CollectingFails
    \/ WriteCrl \/ ReportChain \/ Mirror
    \/ \E token \in Sendable : Harvest(token) \/ RefuseShape(token)
    \/ KeepHarvest \/ DropHarvest \/ AllAsked
    \/ SettleChain \/ SettleCrl \/ Settled \/ EndStamp
    \/ \E i \in Name : PublishCrl(i)

LtvSpec == LtvStart /\ [][LtvNext]_ltvVars

-----------------------------------------------------------------------------
\* Each certificate of the chain that advertises a CRL has one on record that
\* was served during this stamp.
Collected(records, i) ==
    \A c \in Range(records.chains[i]) :
        c.extension # "absent" =>
            \E u \in Range(c.points) \cap Uri :
                records.crls[Publishes[u]] \in served

(***************************************************************************)
(* stamping.md 5: a stamp seals revocation data of the moment of its       *)
(* tokens.  Whatever chains share issuers and distribution points, and     *)
(* whatever fails on the way: once the records are mirrored, the tree has  *)
(* for every certificate of every chain on record a CRL fetched by this    *)
(* stamp, the same that the working tree has; when a stamp is done, so has *)
(* the working tree for the chains that it recorded, and no CRL of it is   *)
(* older than the one just sealed.                                         *)
(***************************************************************************)
CrlsFollowChains ==
    /\ stage = "sites" =>
           /\ \A r \in reported.chains : Collected(tree, r.signer)
           /\ \A crl \in Range(reported.crls) :
                  tree.crls[crl.issuer] = disk.crls[crl.issuer]
    /\ stage = "sealed" =>
           /\ \A i \in settled : Collected(disk, i)
           /\ \A crl \in Range(reported.crls) :
                  disk.crls[crl.issuer].edition
                      >= tree.crls[crl.issuer].edition
=============================================================================
