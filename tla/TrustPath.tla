----------------------------- MODULE TrustPath ------------------------------
(***************************************************************************)
(* validate_chain of crates/tydence/src/verify/path.rs, with the judgement *)
(* of revocation.rs: the walk from a token's signer certificate to a trust *)
(* anchor, entirely at the token's genTime.  The walk climbs to the first  *)
(* issuer it finds and never turns back.  Its candidates are the caller's  *)
(* anchors, the certificates the token embeds and the chains sealed in the *)
(* repository, in this order (verify_token in token.rs).                   *)
(*                                                                         *)
(* The pool is arbitrary and fixed for a behaviour.  Whether a certificate *)
(* signed another and a CRL is an issuer's are relations, since names,     *)
(* keys and signatures decide them.                                        *)
(***************************************************************************)
EXTENDS Naturals, Sequences, Functions

CONSTANTS
    Cert,            \* certificates
    GenTime,         \* the moment the token asserts
    MaxChainLength,  \* passes of the walk; 8 in the code
    None             \* no limit, no nextUpdate

\* What a certificate says of itself: its validity window; whether it can be
\* re-encoded, is of version 3 and has no critical extension beyond those the
\* walk evaluates; whether its constraints and key usage are readable and
\* allow it to sign certificates, CRLs; and its path length limit.
Certificate == [from : Nat, to : Nat, screened : BOOLEAN,
                authority : BOOLEAN, limit : Nat \cup {None},
                signsCrls : BOOLEAN]

\* Entries are grouped by what judge_entry makes of their reason; one that
\* gives no reason disqualifies, one with a critical or malformed extension
\* is opaque.  An issuer gives each serial number once.
Entry == [certificate : Cert, date : Nat,
          reason : {"tolerated", "disqualifying", "opaque"}]

\* issuers are the certificates whose name and key made the CRL.
Crl == [issuers : SUBSET Cert, thisUpdate : Nat,
        nextUpdate : Nat \cup {None}, entries : SUBSET Entry]

ASSUME TrustAssumption ==
    /\ GenTime \in Nat
    /\ MaxChainLength \in Nat \ {0}
    /\ None \notin Nat

VARIABLES
    certificate,  \* what each certificate says
    signs,        \* pairs <<issuer, subject>>
    crls,         \* the CRL snapshots at hand
    anchors,      \* the trust anchors
    embedded,     \* the certificates the token embeds
    sealed,       \* the certificates of the chain records
    signer,       \* the token's signer certificate
    current,      \* the certificate whose issuer is sought
    below,        \* the intermediates climbed so far
    path,         \* history: the certificates from signer to the last issuer
    verdict       \* "walking", "trusted" or "refused"

trustPool == <<certificate, signs, crls, anchors, embedded, sealed, signer>>
trustVars == <<trustPool, current, below, path, verdict>>

TrustTypeOK ==
    /\ certificate \in [Cert -> Certificate]
    /\ signs \subseteq Cert \X Cert
    /\ crls \subseteq Crl
    /\ anchors \in Seq(Cert)
    /\ embedded \in Seq(Cert)
    /\ sealed \in Seq(Cert)
    /\ signer \in Cert
    /\ current \in Cert
    /\ below \in Nat
    /\ path \in Seq(Cert)
    /\ verdict \in {"walking", "trusted", "refused"}

-----------------------------------------------------------------------------
\* covers_moment, at genTime.
Covers(c) == certificate[c].from <= GenTime /\ GenTime <= certificate[c].to

IsAnchor(c) == c \in Range(anchors)

\* Broken on purpose: the sealed chains come before the token's own.
SealedFirst == anchors \o sealed \o embedded

Candidates == anchors \o embedded \o sealed

\* is_signing_issuer: the candidate's name is the issuer's and its key made
\* the signature.
IsSigningIssuer(c, candidate) == <<candidate, c>> \in signs

\* Broken on purpose: an issuer's own validity is left to the next pass.
EverSigning(pool, c) ==
    {k \in DOMAIN pool : pool[k] # c /\ IsSigningIssuer(c, pool[k])}

\* Where a pool has an issuer of c that is valid at genTime.
Signing(pool, c) ==
    {k \in DOMAIN pool :
        pool[k] # c /\ Covers(pool[k]) /\ IsSigningIssuer(c, pool[k])}

\* The first of them is the issuer, whatever becomes of it.
IsFirst(pool, c, issuer) ==
    \E k \in Signing(pool, c) :
        /\ \A j \in Signing(pool, c) : k <= j
        /\ issuer = pool[k]

\* Broken on purpose: the limit excludes its own value.
FitBelowLimit(issuer, intermediates) ==
    /\ certificate[issuer].authority
    /\ certificate[issuer].limit # None =>
           intermediates < certificate[issuer].limit

\* ensure_issuer_fitness.
Fit(issuer, intermediates) ==
    /\ certificate[issuer].authority
    /\ certificate[issuer].limit # None =>
           intermediates <= certificate[issuer].limit

\* judge_entry.
Tolerable(entry) == entry.date > GenTime /\ entry.reason = "tolerated"

\* decides_at_gen_time.
Decides(crl, c) ==
    /\ crl.nextUpdate # None
    /\ GenTime <= crl.nextUpdate
    /\ crl.thisUpdate <= certificate[c].to

\* ensure_unrevoked: entries count on every CRL of the issuer, the deciding
\* ones or not.
Unrevoked(c, issuer) ==
    LET admissible == {crl \in crls : issuer \in crl.issuers}
    IN  /\ certificate[issuer].signsCrls
        /\ \A crl \in admissible : \A e \in crl.entries :
               e.certificate = c => Tolerable(e)
        /\ \E crl \in admissible : Decides(crl, c)

-----------------------------------------------------------------------------
TrustStart ==
    /\ current = signer
    /\ below = 0
    /\ path = <<signer>>
    /\ verdict = "walking"

\* A pass is under way.
Passing == verdict = "walking" /\ below < MaxChainLength

Refuse ==
    /\ verdict' = "refused"
    /\ UNCHANGED <<trustPool, current, below, path>>

\* What a pass asks of the certificate itself, before it seeks an issuer.
RefuseCertificate ==
    /\ Passing
    /\ \/ ~Covers(current)
       \/ /\ ~IsAnchor(current)
          /\ ~certificate[current].screened
    /\ Refuse

\* The signer is an anchor itself.
TrustAnchor ==
    /\ Passing
    /\ Covers(current)
    /\ IsAnchor(current)
    /\ verdict' = "trusted"
    /\ UNCHANGED <<trustPool, current, below, path>>

SeeksIssuer ==
    Passing /\ Covers(current) /\ ~IsAnchor(current)
            /\ certificate[current].screened

FindNoIssuer ==
    /\ SeeksIssuer
    /\ Signing(Candidates, current) = {}
    /\ Refuse

\* The issuer found is unfit, or the status of what it issued is bad or
\* undecidable.  No other candidate is tried.
RefuseIssuer(issuer) ==
    /\ SeeksIssuer
    /\ IsFirst(Candidates, current, issuer)
    /\ \/ ~IsAnchor(issuer) /\ ~Fit(issuer, below)
       \/ ~Unrevoked(current, issuer)
    /\ Refuse

ReachAnchor(issuer) ==
    /\ SeeksIssuer
    /\ IsFirst(Candidates, current, issuer)
    /\ IsAnchor(issuer)
    /\ Unrevoked(current, issuer)
    /\ path' = Append(path, issuer)
    /\ verdict' = "trusted"
    /\ UNCHANGED <<trustPool, current, below>>

Climb(issuer) ==
    /\ SeeksIssuer
    /\ IsFirst(Candidates, current, issuer)
    /\ ~IsAnchor(issuer)
    /\ Fit(issuer, below)
    /\ Unrevoked(current, issuer)
    /\ path' = Append(path, issuer)
    /\ current' = issuer
    /\ below' = below + 1
    /\ UNCHANGED <<trustPool, verdict>>

\* Broken on purpose: one pass too many is awaited.
GiveUpLate ==
    /\ verdict = "walking"
    /\ below > MaxChainLength
    /\ Refuse

\* ChainTooLong.
GiveUp ==
    /\ verdict = "walking"
    /\ below = MaxChainLength
    /\ Refuse

TrustNext ==
    \/ RefuseCertificate
    \/ TrustAnchor
    \/ FindNoIssuer
    \/ \E issuer \in Cert :
           RefuseIssuer(issuer) \/ ReachAnchor(issuer) \/ Climb(issuer)
    \/ GiveUp

TrustSpec ==
    /\ TrustTypeOK /\ TrustStart
    /\ [][TrustNext]_trustVars
    /\ WF_trustVars(TrustNext)

-----------------------------------------------------------------------------
(***************************************************************************)
(* A certification path, as stamping.md 7 check 3 and RFC 5280 put it: it  *)
(* leads from the signer to an anchor; everything on it is valid at        *)
(* genTime; what is below an anchor is readable, signed by the next        *)
(* certificate and known to be unrevoked at genTime, with no revocation    *)
(* later that casts doubt on its key; every intermediate is an authority   *)
(* whose path length limit allows what is below it.                        *)
(***************************************************************************)
KnownUnrevoked(c, issuer) ==
    /\ certificate[issuer].signsCrls
    /\ \E crl \in crls :
           /\ issuer \in crl.issuers
           /\ crl.nextUpdate \in Nat
           /\ GenTime <= crl.nextUpdate
           /\ crl.thisUpdate <= certificate[c].to
    /\ ~ \E crl \in crls : \E e \in crl.entries :
           /\ issuer \in crl.issuers
           /\ e.certificate = c
           /\ e.date <= GenTime \/ e.reason # "tolerated"

CertificationPath(p) ==
    /\ p[1] = signer
    /\ p[Len(p)] \in Range(anchors)
    /\ \A k \in 1..Len(p) :
           GenTime \in certificate[p[k]].from..certificate[p[k]].to
    /\ \A k \in 1..(Len(p) - 1) :
           /\ certificate[p[k]].screened
           /\ <<p[k + 1], p[k]>> \in signs
           /\ KnownUnrevoked(p[k], p[k + 1])
    /\ \A k \in 2..(Len(p) - 1) :
           /\ certificate[p[k]].authority
           /\ certificate[p[k]].limit # None =>
                  k <= certificate[p[k]].limit + 2

(***************************************************************************)
(* Trust is earned: a token is trusted only with a whole certification     *)
(* path in hand, no longer than the walk may be.                           *)
(***************************************************************************)
TrustIsEarned ==
    verdict = "trusted" =>
        /\ path \in Seq(Cert)
        /\ Len(path) \in 1..(MaxChainLength + 1)
        /\ CertificationPath(path)

(***************************************************************************)
(* Never turning back costs nothing where there is nothing to choose: if   *)
(* no certificate has two candidates for its issuer, a token is refused    *)
(* only if no certification path of the allowed length exists.             *)
(***************************************************************************)
NothingToChoose ==
    \A c \in Cert : \A j, k \in Signing(Candidates, c) :
        Candidates[j] = Candidates[k]

OnPaths ==
    UNION {{p \in {<<signer>> \o q : q \in [1..n -> Range(Candidates)]} :
                \A k \in 1..n : p[k + 1] # p[k]} : n \in 0..MaxChainLength}

RefusedOnlyWithoutPath ==
    verdict = "refused" /\ NothingToChoose =>
        ~ \E p \in OnPaths : CertificationPath(p)

(***************************************************************************)
(* Sealed chains never hurt: a token that is trusted with the anchors and  *)
(* the certificates it embeds is trusted whatever chain records are there, *)
(* those of other stamps and other authorities included.                   *)
(***************************************************************************)
TrustedWith(pool) ==
    LET trusts[passes \in 0..MaxChainLength] ==
            [c \in Cert |->
                /\ passes > 0
                /\ Covers(c)
                /\ \/ IsAnchor(c)
                   \/ /\ certificate[c].screened
                      /\ \E issuer \in Cert :
                             /\ IsFirst(pool, c, issuer)
                             /\ Unrevoked(c, issuer)
                             /\ \/ IsAnchor(issuer)
                                \/ /\ Fit(issuer, MaxChainLength - passes)
                                   /\ trusts[passes - 1][issuer]]
    IN  trusts[MaxChainLength][signer]

SealedChainsNeverHurt ==
    verdict = "refused" => ~TrustedWith(anchors \o embedded)
=============================================================================
