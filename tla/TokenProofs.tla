---------------------------- MODULE TokenProofs ------------------------------
(***************************************************************************)
(* The walk of module TrustPath trusts nothing without a certification     *)
(* path, for every pool of certificates, every set of CRLs and every       *)
(* limit on its length; and what verify_token accepts was stated as a time *)
(* stamp under the signer certificate it found, over this manifest, and    *)
(* that certificate has such a path, for every token and trust input.  In  *)
(* the other direction, no path is missed where there is nothing to        *)
(* choose, sealed chains never cost a token its trust, and a token as the  *)
(* RFCs have it written is refused for its chain or the trust input alone. *)
(***************************************************************************)
EXTENDS TokenVerdict, TLAPS, WellFoundedInduction

\* What the k-th certificate of p owes to the next.
Leg(p, k) ==
    /\ Covers(p[k])
    /\ certificate[p[k]].screened
    /\ <<p[k + 1], p[k]>> \in signs
    /\ KnownUnrevoked(p[k], p[k + 1])

\* The k-th certificate of p may issue what is below it.
FitAt(p, k) ==
    /\ certificate[p[k]].authority
    /\ certificate[p[k]].limit # None => k <= certificate[p[k]].limit + 2

(***************************************************************************)
(* The inductive invariant.  While the walk goes on, path ends in the      *)
(* certificate whose issuer is sought, with one certificate more than the  *)
(* passes made; whether that one is valid is not known before the next     *)
(* pass unless it was found as an issuer.                                  *)
(***************************************************************************)
Shape ==
    /\ Len(path) \in 1..(MaxChainLength + 1)
    /\ path[1] = signer
    /\ \A k \in 1..(Len(path) - 1) : Leg(path, k)
    /\ \A k \in 2..(Len(path) - 1) : FitAt(path, k)

Underway ==
    verdict = "walking" =>
        /\ Len(path) = below + 1
        /\ path[Len(path)] = current
        /\ Len(path) > 1 => FitAt(path, Len(path))

Arrived ==
    verdict = "trusted" =>
        /\ IsAnchor(path[Len(path)])
        /\ Covers(path[Len(path)])

TrustInv == TrustTypeOK /\ Shape /\ Underway /\ Arrived

-----------------------------------------------------------------------------
\* What the status check accepts is known to be unrevoked.
LEMMA UnrevokedIsKnown ==
    ASSUME TrustTypeOK, NEW c \in Cert, NEW issuer \in Cert,
           Unrevoked(c, issuer)
    PROVE  KnownUnrevoked(c, issuer)
<1> DEFINE admissible == {crl \in crls : issuer \in crl.issuers}
<1>1. /\ certificate[issuer].signsCrls
      /\ \A crl \in admissible : \A e \in crl.entries :
             e.certificate = c => Tolerable(e)
      /\ \E crl \in admissible : Decides(crl, c)
    BY DEF Unrevoked
<1>2. \A crl \in crls : /\ crl.nextUpdate \in Nat \cup {None}
                        /\ \A e \in crl.entries : e.date \in Nat
    BY DEF TrustTypeOK, Crl, Entry
<1>3. \E crl \in crls : /\ issuer \in crl.issuers
                        /\ crl.nextUpdate \in Nat
                        /\ GenTime <= crl.nextUpdate
                        /\ crl.thisUpdate <= certificate[c].to
    BY <1>1, <1>2 DEF Decides
<1>4. ASSUME NEW crl \in crls, NEW e \in crl.entries,
             issuer \in crl.issuers, e.certificate = c
      PROVE  ~(e.date <= GenTime \/ e.reason # "tolerated")
    <2>1. Tolerable(e)
        BY <1>1, <1>4
    <2> QED
        BY <2>1, <1>2, TrustAssumption DEF Tolerable
<1> QED
    BY <1>1, <1>3, <1>4 DEF KnownUnrevoked

\* An issuer the walk finds signed the subject and is valid at genTime.
LEMMA FoundIssuer ==
    ASSUME NEW issuer, IsFirst(Candidates, current, issuer)
    PROVE  Covers(issuer) /\ <<issuer, current>> \in signs
    BY DEF IsFirst, Signing, IsSigningIssuer

\* A leg is added to the path by an issuer that is found and whose CRLs
\* accept the subject.
LEMMA PathGrows ==
    ASSUME TrustInv, SeeksIssuer, NEW issuer \in Cert,
           IsFirst(Candidates, current, issuer), Unrevoked(current, issuer)
    PROVE  LET longer == Append(path, issuer)
           IN  /\ longer \in Seq(Cert)
               /\ Len(longer) = below + 2
               /\ Len(longer) \in 2..(MaxChainLength + 1)
               /\ longer[1] = signer
               /\ longer[Len(longer)] = issuer
               /\ Covers(issuer)
               /\ \A k \in 1..(Len(longer) - 1) : Leg(longer, k)
               /\ \A k \in 2..(Len(longer) - 1) : FitAt(longer, k)
<1> DEFINE longer == Append(path, issuer)
           n == Len(path)
<1>1. /\ path \in Seq(Cert) /\ current \in Cert /\ below \in Nat
      /\ MaxChainLength \in Nat /\ verdict = "walking"
      /\ below < MaxChainLength
      /\ n \in 1..(MaxChainLength + 1)
      /\ n = below + 1 /\ path[n] = current /\ path[1] = signer
    BY TrustAssumption
    DEF TrustInv, TrustTypeOK, Shape, Underway, SeeksIssuer, Passing
<1>2. /\ longer \in Seq(Cert) /\ Len(longer) = n + 1
      /\ longer[n + 1] = issuer
      /\ \A k \in 1..n : longer[k] = path[k]
    BY <1>1
<1>3. Covers(issuer) /\ <<issuer, current>> \in signs
    BY FoundIssuer
<1>4. Leg(longer, n)
    <2>1. longer[n] = current /\ longer[n + 1] = issuer
        BY <1>1, <1>2
    <2>2. Covers(current) /\ certificate[current].screened
        BY DEF SeeksIssuer
    <2>3. KnownUnrevoked(current, issuer)
        BY UnrevokedIsKnown, <1>1 DEF TrustInv
    <2> QED
        BY <2>1, <2>2, <2>3, <1>3 DEF Leg
<1>5. \A k \in 1..n : Leg(longer, k)
    <2> SUFFICES ASSUME NEW k \in 1..(n - 1)
                 PROVE  Leg(longer, k)
        BY <1>1, <1>4
    <2>1. Leg(path, k)
        BY DEF TrustInv, Shape
    <2>2. longer[k] = path[k] /\ longer[k + 1] = path[k + 1]
        BY <1>1, <1>2
    <2> QED
        BY <2>1, <2>2 DEF Leg
<1>6. \A k \in 2..n : FitAt(longer, k)
    <2> SUFFICES ASSUME NEW k \in 2..n
                 PROVE  FitAt(longer, k)
        OBVIOUS
    <2>1. FitAt(path, k)
        <3>1. CASE k = n
            BY <3>1, <1>1 DEF TrustInv, Underway
        <3>2. CASE k # n
            BY <3>2, <1>1 DEF TrustInv, Shape
        <3> QED
            BY <3>1, <3>2
    <2> QED
        BY <2>1, <1>1, <1>2 DEF FitAt
<1> QED
    BY <1>1, <1>2, <1>3, <1>5, <1>6

-----------------------------------------------------------------------------
LEMMA StartInv == TrustTypeOK /\ TrustStart => TrustInv
    BY TrustAssumption
    DEF TrustInv, TrustTypeOK, TrustStart, Shape, Underway, Arrived, Leg,
        FitAt

LEMMA StepInv == TrustInv /\ [TrustNext]_trustVars => TrustInv'
<1> SUFFICES ASSUME TrustInv, [TrustNext]_trustVars
             PROVE  TrustInv'
    OBVIOUS
\* The pool is fixed, so what the operators say of it does not change.
<1> USE DEF trustPool
<1>1. CASE Refuse
    BY <1>1 DEF Refuse, TrustInv, TrustTypeOK, Shape, Underway, Arrived, Leg,
                FitAt, Covers, KnownUnrevoked
<1>2. CASE TrustAnchor
    <2>1. path[Len(path)] = current
        BY <1>2 DEF TrustAnchor, Passing, TrustInv, Underway
    <2> QED
        BY <1>2, <2>1
        DEF TrustAnchor, TrustInv, TrustTypeOK, Shape, Underway, Arrived,
            Leg, FitAt, Covers, KnownUnrevoked, IsAnchor
<1>3. ASSUME NEW issuer \in Cert, ReachAnchor(issuer)
      PROVE  TrustInv'
    <2>1. PICK longer \in Seq(Cert) :
          /\ longer = Append(path, issuer)
          /\ Len(longer) \in 2..(MaxChainLength + 1)
          /\ longer[1] = signer
          /\ longer[Len(longer)] = issuer
          /\ Covers(issuer)
          /\ \A k \in 1..(Len(longer) - 1) : Leg(longer, k)
          /\ \A k \in 2..(Len(longer) - 1) : FitAt(longer, k)
        BY <1>3, PathGrows DEF ReachAnchor
    <2>2. path' = longer /\ verdict' = "trusted" /\ IsAnchor(issuer)
        BY <1>3, <2>1 DEF ReachAnchor
    <2>3. UNCHANGED <<trustPool, current, below>>
        BY <1>3 DEF ReachAnchor
    <2>4. TrustTypeOK'
        BY <2>1, <2>2, <2>3 DEF TrustInv, TrustTypeOK
    <2>5. Shape'
        <3>1. \A k \in 1..(Len(longer) - 1) : Leg(longer, k)'
            BY <2>1, <2>2, <2>3 DEF Leg, Covers, KnownUnrevoked
        <3>2. \A k \in 2..(Len(longer) - 1) : FitAt(longer, k)'
            BY <2>1, <2>2, <2>3 DEF FitAt
        <3> QED
            BY <2>1, <2>2, <2>3, <3>1, <3>2 DEF Shape
    <2>6. Underway' /\ Arrived'
        BY <2>1, <2>2, <2>3 DEF Underway, Arrived, IsAnchor, Covers
    <2> QED
        BY <2>4, <2>5, <2>6 DEF TrustInv
<1>4. ASSUME NEW issuer \in Cert, Climb(issuer)
      PROVE  TrustInv'
    <2>1. PICK longer \in Seq(Cert) :
          /\ longer = Append(path, issuer)
          /\ Len(longer) = below + 2
          /\ Len(longer) \in 2..(MaxChainLength + 1)
          /\ longer[1] = signer
          /\ longer[Len(longer)] = issuer
          /\ \A k \in 1..(Len(longer) - 1) : Leg(longer, k)
          /\ \A k \in 2..(Len(longer) - 1) : FitAt(longer, k)
        BY <1>4, PathGrows DEF Climb
    <2>2. /\ path' = longer /\ current' = issuer /\ below' = below + 1
          /\ verdict' = verdict /\ verdict = "walking"
          /\ Fit(issuer, below)
        BY <1>4, <2>1 DEF Climb, SeeksIssuer, Passing
    <2>3. UNCHANGED trustPool
        BY <1>4 DEF Climb
    <2>4. TrustTypeOK'
        BY <2>1, <2>2, <2>3 DEF TrustInv, TrustTypeOK
    <2>5. Shape'
        <3>1. \A k \in 1..(Len(longer) - 1) : Leg(longer, k)'
            BY <2>1, <2>2, <2>3 DEF Leg, Covers, KnownUnrevoked
        <3>2. \A k \in 2..(Len(longer) - 1) : FitAt(longer, k)'
            BY <2>1, <2>2, <2>3 DEF FitAt
        <3> QED
            BY <2>1, <2>2, <2>3, <3>1, <3>2 DEF Shape
    <2>6. FitAt(longer, Len(longer))
        <3>1. certificate[issuer].limit \in Nat \cup {None} /\ below \in Nat
            BY DEF TrustInv, TrustTypeOK, Certificate
        <3> QED
            BY <2>1, <2>2, <3>1 DEF Fit, FitAt
    <2>7. Underway' /\ Arrived'
        <3>1. below \in Nat
            BY DEF TrustInv, TrustTypeOK
        <3> QED
            BY <2>1, <2>2, <2>3, <2>6, <3>1 DEF Underway, Arrived, FitAt
    <2> QED
        BY <2>4, <2>5, <2>7 DEF TrustInv
<1>5. CASE UNCHANGED trustVars
    BY <1>5 DEF trustVars, TrustInv, TrustTypeOK, Shape, Underway, Arrived,
                Leg, FitAt, Covers, KnownUnrevoked, IsAnchor
<1> QED
    BY <1>1, <1>2, <1>3, <1>4, <1>5
    DEF TrustNext, RefuseCertificate, FindNoIssuer, RefuseIssuer, GiveUp

LEMMA InvEarns == TrustInv => TrustIsEarned
<1> SUFFICES ASSUME TrustInv, verdict = "trusted"
             PROVE  /\ path \in Seq(Cert)
                    /\ Len(path) \in 1..(MaxChainLength + 1)
                    /\ CertificationPath(path)
    BY DEF TrustIsEarned
<1>1. /\ path \in Seq(Cert) /\ Len(path) \in 1..(MaxChainLength + 1)
      /\ path[1] = signer /\ path[Len(path)] \in Range(anchors)
    BY DEF TrustInv, TrustTypeOK, Shape, Arrived, IsAnchor
<1>2. \A k \in 1..Len(path) :
          GenTime \in certificate[path[k]].from..certificate[path[k]].to
    <2> SUFFICES ASSUME NEW k \in 1..Len(path)
                 PROVE  GenTime \in certificate[path[k]].from
                                        ..certificate[path[k]].to
        OBVIOUS
    <2>1. Covers(path[k])
        <3>1. CASE k = Len(path)
            BY <3>1 DEF TrustInv, Arrived
        <3>2. CASE k # Len(path)
            <4>1. k \in 1..(Len(path) - 1)
                BY <3>2, <1>1
            <4> QED
                BY <4>1 DEF TrustInv, Shape, Leg
        <3> QED
            BY <3>1, <3>2
    <2>2. certificate[path[k]] \in Certificate
        BY <1>1 DEF TrustInv, TrustTypeOK
    <2> QED
        BY <2>1, <2>2, TrustAssumption DEF Covers, Certificate
<1>3. \A k \in 1..(Len(path) - 1) :
          /\ certificate[path[k]].screened
          /\ <<path[k + 1], path[k]>> \in signs
          /\ KnownUnrevoked(path[k], path[k + 1])
    BY DEF TrustInv, Shape, Leg
<1>4. \A k \in 2..(Len(path) - 1) :
          /\ certificate[path[k]].authority
          /\ certificate[path[k]].limit # None =>
                 k <= certificate[path[k]].limit + 2
    BY DEF TrustInv, Shape, FitAt
<1> QED
    BY <1>1, <1>2, <1>3, <1>4 DEF CertificationPath

(***************************************************************************)
(* Trust is earned: whatever validate_chain trusts has a whole             *)
(* certification path, for every pool, genTime and length limit.           *)
(***************************************************************************)
THEOREM TrustSafety == TrustSpec => []TrustIsEarned
<1>1. TrustTypeOK /\ TrustStart => TrustInv
    BY StartInv
<1>2. TrustInv /\ [TrustNext]_trustVars => TrustInv'
    BY StepInv
<1>3. TrustInv => TrustIsEarned
    BY InvEarns
<1> QED
    BY <1>1, <1>2, <1>3, PTL DEF TrustSpec

-----------------------------------------------------------------------------
(***************************************************************************)
(* Nothing to choose: where no certificate has two candidates for its      *)
(* issuer, the walk cannot leave a certification path, and every reason to *)
(* refuse would be a flaw of that path.                                    *)
(***************************************************************************)
Alongside ==
    /\ verdict = "walking" /\ below # 0 => ~IsAnchor(current)
    /\ NothingToChoose =>
           \A p \in OnPaths : CertificationPath(p) =>
               /\ verdict # "refused"
               /\ verdict = "walking" =>
                      /\ below < Len(p)
                      /\ current = p[below + 1]

\* What is known to be unrevoked the status check accepts.
LEMMA KnownIsUnrevoked ==
    ASSUME TrustTypeOK, NEW c \in Cert, NEW issuer \in Cert,
           KnownUnrevoked(c, issuer)
    PROVE  Unrevoked(c, issuer)
<1>1. \A crl \in crls : \A e \in crl.entries :
          /\ e.date \in Nat
          /\ e.reason \in {"tolerated", "disqualifying", "opaque"}
    BY DEF TrustTypeOK, Crl, Entry
<1>2. ASSUME NEW crl \in crls, issuer \in crl.issuers, NEW e \in crl.entries,
             e.certificate = c
      PROVE  Tolerable(e)
    <2>1. ~(e.date <= GenTime) /\ e.reason = "tolerated"
        BY <1>2 DEF KnownUnrevoked
    <2> QED
        BY <1>1, <2>1, TrustAssumption DEF Tolerable
<1>3. \E crl \in {crl \in crls : issuer \in crl.issuers} : Decides(crl, c)
    BY TrustAssumption DEF KnownUnrevoked, Decides
<1> QED
    BY <1>2, <1>3 DEF Unrevoked, KnownUnrevoked

\* A path leads from the signer over candidates, each other than the last.
LEMMA PathShape ==
    ASSUME TrustTypeOK, NEW p \in OnPaths
    PROVE  /\ p \in Seq(Cert) /\ Len(p) \in 1..(MaxChainLength + 1)
           /\ p[1] = signer
           /\ \A k \in 1..(Len(p) - 1) : /\ p[k + 1] \in Range(Candidates)
                                         /\ p[k + 1] # p[k]
<1>1. Candidates \in Seq(Cert) /\ signer \in Cert /\ MaxChainLength \in Nat
    BY TrustAssumption DEF TrustTypeOK, Candidates
<1>2. Range(Candidates) \subseteq Cert
    BY <1>1 DEF Range
<1>6. PICK n \in 0..MaxChainLength :
          \E q \in [1..n -> Range(Candidates)] :
              p = <<signer>> \o q /\ \A k \in 1..n : p[k + 1] # p[k]
    BY DEF OnPaths
<1>3. PICK q \in [1..n -> Range(Candidates)] :
          p = <<signer>> \o q /\ \A k \in 1..n : p[k + 1] # p[k]
    BY <1>6
<1>4. n \in Nat /\ q \in Seq(Cert) /\ Len(q) = n
    BY <1>1, <1>2, <1>3
<1>5. /\ p \in Seq(Cert) /\ Len(p) = n + 1 /\ p[1] = signer
      /\ \A k \in 1..n : p[k + 1] = q[k]
    BY <1>1, <1>3, <1>4
<1> QED
    BY <1>1, <1>3, <1>4, <1>5

\* Before its end a path names the issuer the walk finds, if one is enough.
LEMMA PathGoesOn ==
    ASSUME TrustTypeOK, NEW p \in OnPaths, CertificationPath(p),
           NEW k \in 1..(Len(p) - 1)
    PROVE  /\ \E j \in Signing(Candidates, p[k]) : Candidates[j] = p[k + 1]
           /\ NothingToChoose => \A issuer :
                  IsFirst(Candidates, p[k], issuer) => issuer = p[k + 1]
<1>1. p \in Seq(Cert) /\ p[k + 1] \in Range(Candidates) /\ p[k + 1] # p[k]
    BY PathShape
<1>2. PICK j \in DOMAIN Candidates : Candidates[j] = p[k + 1]
    BY <1>1 DEF Range
<1>3. k \in 1..Len(p) /\ k + 1 \in 1..Len(p) /\ p[k] \in Cert
    BY <1>1
<1>4. certificate[p[k + 1]].from \in Nat /\ certificate[p[k + 1]].to \in Nat
    <2>1. p[k + 1] \in Cert /\ certificate \in [Cert -> Certificate]
        BY <1>1, <1>3 DEF TrustTypeOK
    <2>2. certificate[p[k + 1]] \in Certificate
        BY <2>1
    <2> QED
        BY <2>2 DEF Certificate
<1>5. Covers(p[k + 1])
    <2>1. GenTime \in certificate[p[k + 1]].from..certificate[p[k + 1]].to
        BY <1>3 DEF CertificationPath
    <2> QED
        BY <1>4, <2>1, TrustAssumption DEF Covers
<1>6. <<p[k + 1], p[k]>> \in signs
    BY DEF CertificationPath
<1>7. j \in Signing(Candidates, p[k])
    BY <1>1, <1>2, <1>5, <1>6 DEF Signing, IsSigningIssuer
<1> QED
    BY <1>2, <1>3, <1>7 DEF NothingToChoose, IsFirst

\* The certificate under the walk is no reason to refuse, nor is the issuer.
LEMMA AlongsideIsSound ==
    ASSUME TrustInv, Alongside, NothingToChoose, verdict = "walking",
           NEW p \in OnPaths, CertificationPath(p)
    PROVE  /\ below # MaxChainLength \/ IsAnchor(current)
           /\ Covers(current)
           /\ ~IsAnchor(current) =>
                  /\ certificate[current].screened
                  /\ below + 1 < Len(p)
                  /\ Signing(Candidates, current) # {}
                  /\ \A issuer : IsFirst(Candidates, current, issuer) =>
                         /\ issuer = p[below + 2]
                         /\ IsAnchor(issuer) \/ Fit(issuer, below)
                         /\ Unrevoked(current, issuer)
<1>1. below < Len(p) /\ current = p[below + 1]
    BY DEF Alongside
<1>2. /\ TrustTypeOK /\ below \in Nat
      /\ p \in Seq(Cert) /\ Len(p) \in 1..(MaxChainLength + 1)
      /\ MaxChainLength \in Nat
    BY PathShape, TrustAssumption DEF TrustInv, TrustTypeOK
<1>3. below + 1 \in 1..Len(p) /\ current \in Cert
    BY <1>1, <1>2
<1>4. IsAnchor(p[Len(p)])
    BY DEF CertificationPath, IsAnchor
<1>5. Covers(current)
    <2>1. certificate[current].from \in Nat /\ certificate[current].to \in Nat
        BY <1>2, <1>3 DEF TrustTypeOK, Certificate
    <2> QED
        BY <1>1, <1>3, <2>1, TrustAssumption DEF CertificationPath, Covers
<1>6. below = MaxChainLength => IsAnchor(current)
    <2>1. below = MaxChainLength => below + 1 = Len(p)
        BY <1>1, <1>2
    <2> QED
        BY <1>1, <1>4, <2>1
<1>7. ASSUME ~IsAnchor(current)
      PROVE  /\ certificate[current].screened
             /\ below + 1 < Len(p)
             /\ Signing(Candidates, current) # {}
             /\ \A issuer : IsFirst(Candidates, current, issuer) =>
                    /\ issuer = p[below + 2]
                    /\ IsAnchor(issuer) \/ Fit(issuer, below)
                    /\ Unrevoked(current, issuer)
    <2>1. below + 1 # Len(p)
        BY <1>1, <1>4, <1>7
    <2>2. below + 1 \in 1..(Len(p) - 1) /\ below + 1 + 1 = below + 2
        BY <1>1, <1>2, <2>1
    <2>3. /\ certificate[current].screened
          /\ KnownUnrevoked(current, p[below + 2])
        <3>1. \A k \in 1..(Len(p) - 1) : /\ certificate[p[k]].screened
                                          /\ KnownUnrevoked(p[k], p[k + 1])
            BY DEF CertificationPath
        <3>2. /\ certificate[p[below + 1]].screened
              /\ KnownUnrevoked(p[below + 1], p[below + 1 + 1])
            BY <2>2, <3>1
        <3> QED
            BY <1>1, <2>2, <3>2
    <2>4. /\ \E j \in Signing(Candidates, current) :
                 Candidates[j] = p[below + 2]
          /\ \A issuer : IsFirst(Candidates, current, issuer) =>
                 issuer = p[below + 2]
        <3>1. PICK k \in 1..(Len(p) - 1) :
                  k = below + 1 /\ k + 1 = below + 2
            BY <1>2, <2>2
        <3>2. /\ \E j \in Signing(Candidates, p[k]) : Candidates[j] = p[k + 1]
              /\ \A issuer : IsFirst(Candidates, p[k], issuer) =>
                     issuer = p[k + 1]
            BY <1>2, PathGoesOn
        <3> QED
            BY <1>1, <3>1, <3>2
    <2>5. p[below + 2] \in Cert
        BY <1>2, <2>2
    <2>6. Unrevoked(current, p[below + 2])
        BY <1>2, <1>3, <2>3, <2>5, KnownIsUnrevoked
    <2>7. ASSUME ~IsAnchor(p[below + 2])
          PROVE  Fit(p[below + 2], below)
        <3>1. below + 2 # Len(p)
            BY <1>4, <2>7
        <3>2. below + 2 \in 2..(Len(p) - 1)
            BY <1>2, <2>2, <3>1
        <3>3. /\ certificate[p[below + 2]].authority
              /\ certificate[p[below + 2]].limit # None =>
                     below + 2 <= certificate[p[below + 2]].limit + 2
            BY <3>2 DEF CertificationPath
        <3>4. certificate[p[below + 2]].limit \in Nat \cup {None}
            BY <1>2, <2>5 DEF TrustTypeOK, Certificate
        <3> QED
            BY <1>2, <3>3, <3>4 DEF Fit
    <2> QED
        BY <1>2, <2>2, <2>3, <2>4, <2>6, <2>7
<1> QED
    BY <1>5, <1>6, <1>7

\* Nothing that is said of the pool changes while the walk goes on.
LEMMA PoolIsFixed ==
    ASSUME UNCHANGED trustPool
    PROVE  /\ NothingToChoose' <=> NothingToChoose
           /\ OnPaths' = OnPaths
           /\ \A p : CertificationPath(p)' <=> CertificationPath(p)
           /\ \A c : IsAnchor(c)' <=> IsAnchor(c)
<1> USE DEF trustPool
<1>1. Candidates' = Candidates
    BY DEF Candidates
<1>2. NothingToChoose' <=> NothingToChoose
    BY <1>1 DEF NothingToChoose, Signing, Covers, IsSigningIssuer
<1>3. OnPaths' = OnPaths
    BY <1>1 DEF OnPaths
<1>4. \A p : CertificationPath(p)' <=> CertificationPath(p)
    BY DEF CertificationPath, KnownUnrevoked
<1> QED
    BY <1>2, <1>3, <1>4 DEF IsAnchor

LEMMA StartAlongside == TrustTypeOK /\ TrustStart => Alongside
<1> SUFFICES ASSUME TrustTypeOK, TrustStart
             PROVE  Alongside
    OBVIOUS
<1>1. \A p \in OnPaths : 0 < Len(p) /\ signer = p[0 + 1]
    BY PathShape, TrustAssumption
<1> QED
    BY <1>1 DEF Alongside, TrustStart

LEMMA StepAlongside ==
    ASSUME TrustInv, Alongside, [TrustNext]_trustVars
    PROVE  Alongside'
<1>1. UNCHANGED trustPool
    BY DEF TrustNext, RefuseCertificate, TrustAnchor, FindNoIssuer,
           RefuseIssuer, ReachAnchor, Climb, GiveUp, Refuse, trustVars
<1>2. CASE verdict' = "trusted"
    BY <1>2 DEF Alongside
<1>3. CASE UNCHANGED <<current, below, verdict>>
    BY <1>1, <1>3, PoolIsFixed DEF Alongside
<1>4. CASE RefuseCertificate \/ FindNoIssuer \/ GiveUp
           \/ \E issuer \in Cert : RefuseIssuer(issuer)
    <2>1. verdict = "walking" /\ verdict' = "refused"
        BY <1>4
        DEF RefuseCertificate, FindNoIssuer, RefuseIssuer, GiveUp, Refuse,
            SeeksIssuer, Passing
    <2>2. ASSUME NothingToChoose, NEW p \in OnPaths, CertificationPath(p)
          PROVE  FALSE
        <3>1. /\ below # MaxChainLength \/ IsAnchor(current)
              /\ Covers(current)
              /\ ~IsAnchor(current) =>
                     /\ certificate[current].screened
                     /\ Signing(Candidates, current) # {}
                     /\ \A issuer : IsFirst(Candidates, current, issuer) =>
                            /\ IsAnchor(issuer) \/ Fit(issuer, below)
                            /\ Unrevoked(current, issuer)
            BY <2>1, <2>2, AlongsideIsSound
        <3>2. CASE GiveUp
            <4>1. below # 0 /\ below = MaxChainLength
                BY <3>2, TrustAssumption DEF GiveUp
            <4> QED
                BY <2>1, <3>1, <4>1 DEF Alongside
        <3> QED
            BY <1>4, <3>1, <3>2
            DEF RefuseCertificate, FindNoIssuer, RefuseIssuer, SeeksIssuer
    <2> QED
        BY <1>1, <2>1, <2>2, PoolIsFixed DEF Alongside
<1>5. ASSUME NEW issuer \in Cert, Climb(issuer)
      PROVE  Alongside'
    <2>1. /\ verdict = "walking" /\ ~IsAnchor(current)
          /\ IsFirst(Candidates, current, issuer) /\ ~IsAnchor(issuer)
          /\ current' = issuer /\ below' = below + 1 /\ verdict' = verdict
          /\ below \in Nat
        BY <1>5
        DEF Climb, SeeksIssuer, Passing, TrustInv, TrustTypeOK
    <2>2. ASSUME NothingToChoose, NEW p \in OnPaths, CertificationPath(p)
          PROVE  below' < Len(p) /\ current' = p[below' + 1]
        <3>1. below + 1 < Len(p) /\ issuer = p[below + 2]
            BY <2>1, <2>2, AlongsideIsSound
        <3>2. below' + 1 = below + 2
            BY <2>1
        <3> QED
            BY <2>1, <3>1, <3>2
    <2> QED
        BY <1>1, <2>1, <2>2, PoolIsFixed DEF Alongside
<1> QED
    BY <1>2, <1>3, <1>4, <1>5
    DEF TrustNext, TrustAnchor, ReachAnchor, trustVars

LEMMA AlongsideEnds == Alongside => RefusedOnlyWithoutPath
    BY DEF Alongside, RefusedOnlyWithoutPath

(***************************************************************************)
(* Never turning back costs nothing where there is nothing to choose: a    *)
(* signer is refused only if it has no certification path of the allowed   *)
(* length.                                                                 *)
(***************************************************************************)
THEOREM NoPathIsMissed == TrustSpec => []RefusedOnlyWithoutPath
<1>1. TrustTypeOK /\ TrustStart => TrustInv /\ Alongside
    BY StartInv, StartAlongside
<1>2. TrustInv /\ Alongside /\ [TrustNext]_trustVars => TrustInv' /\ Alongside'
    BY StepInv, StepAlongside
<1> QED
    BY <1>1, <1>2, AlongsideEnds, PTL DEF TrustSpec

-----------------------------------------------------------------------------
(***************************************************************************)
(* Sealed chains never hurt: they come last among the candidates, so that  *)
(* a walk that is trusted without them finds the same issuers with them.   *)
(* TrustedWith is a recursive function of the passes left; Stage is what   *)
(* it says of one number of passes, given what it says of one fewer.       *)
(***************************************************************************)
Stage(pool, passes, prior) ==
    [c \in Cert |->
        /\ passes > 0
        /\ Covers(c)
        /\ \/ IsAnchor(c)
           \/ /\ certificate[c].screened
              /\ \E issuer \in Cert :
                     /\ IsFirst(pool, c, issuer)
                     /\ Unrevoked(c, issuer)
                     /\ \/ IsAnchor(issuer)
                        \/ /\ Fit(issuer, MaxChainLength - passes)
                           /\ prior[issuer]]

Stages(f, pool, k) == f = [n \in 0..k |-> Stage(pool, n, f[n - 1])]

Trusts(f, pool) ==
    \A n \in 0..MaxChainLength : f[n] = Stage(pool, n, f[n - 1])

LEMMA SmallestNumber ==
    ASSUME NEW S \in SUBSET Nat, S # {}
    PROVE  \E k \in S : \A j \in S : k <= j
<1> DEFINE less == OpToRel(<, Nat)
<1>1. PICK k \in S : \A j \in S : <<j, k>> \notin less
    <2>1. IsWellFoundedOn(less, Nat)
        BY NatLessThanWellFounded
    <2> HIDE DEF less
    <2> QED
        BY <2>1, WFMin, Zenon
<1>2. less = {ss \in Nat \X Nat : ss[1] < ss[2]}
    BY Zenon DEF OpToRel
<1> HIDE DEF less
<1>3. ASSUME NEW j \in S
      PROVE  k <= j
    <2>1. <<j, k>> \in Nat \X Nat /\ <<j, k>> \notin less
        BY <1>1
    <2> QED
        BY <1>2, <2>1
<1> QED
    BY <1>3

\* With no passes left nothing is trusted, whatever is said of fewer.
LEMMA NoPassesLeft ==
    ASSUME NEW pool, NEW x, NEW y
    PROVE  Stage(pool, 0, x) = Stage(pool, 0, y)
<1>1. ~(0 > 0)
    OBVIOUS
<1> QED
    BY <1>1 DEF Stage

LEMMA StagesUnfold ==
    ASSUME NEW pool, NEW k \in Nat, NEW f, Stages(f, pool, k)
    PROVE  \A n \in 0..k : f[n] = Stage(pool, n, f[n - 1])
<1> DEFINE next == [n \in 0..k |-> Stage(pool, n, f[n - 1])]
<1>1. \A n \in 0..k : next[n] = Stage(pool, n, f[n - 1])
    OBVIOUS
<1>2. f = next
    BY DEF Stages
<1> HIDE DEF next
<1> QED
    BY <1>1, <1>2

LEMMA StagesExist ==
    ASSUME NEW pool, NEW k \in Nat
    PROVE  \E f : Stages(f, pool, k)
<1> DEFINE missing == {n \in Nat : ~ \E f : Stages(f, pool, n)}
<1> SUFFICES ASSUME missing # {}
             PROVE  FALSE
    OBVIOUS
<1>1. PICK m \in missing : \A j \in missing : m <= j
    <2>1. missing \in SUBSET Nat
        OBVIOUS
    <2> HIDE DEF missing
    <2> QED
        BY <2>1, SmallestNumber
<1>2. \E f : \A n \in 0..(m - 1) : f[n] = Stage(pool, n, f[n - 1])
    <2>1. CASE m = 0
        BY <2>1
    <2>2. CASE m # 0
        <3>1. m - 1 \in Nat /\ m - 1 \notin missing
            BY <1>1, <2>2
        <3>2. PICK f : Stages(f, pool, m - 1)
            BY <3>1
        <3> HIDE DEF missing
        <3>3. \A n \in 0..(m - 1) : f[n] = Stage(pool, n, f[n - 1])
            BY <3>1, <3>2, StagesUnfold
        <3> QED
            BY <3>3
    <2> QED
        BY <2>1, <2>2
<1>3. PICK f : \A n \in 0..(m - 1) : f[n] = Stage(pool, n, f[n - 1])
    BY <1>2
<1> DEFINE g == [n \in 0..m |-> Stage(pool, n, f[n - 1])]
<1>4. m \in Nat
    BY <1>1
<1>5. \A n \in 0..m : g[n] = Stage(pool, n, f[n - 1])
    OBVIOUS
<1>6. g = [n \in 0..m |-> g[n]]
    OBVIOUS
<1> HIDE DEF g
<1>7. ASSUME NEW n \in 0..m
      PROVE  Stage(pool, n, f[n - 1]) = Stage(pool, n, g[n - 1])
    <2>1. CASE n = 0
        BY <2>1, NoPassesLeft
    <2>2. CASE n # 0
        <3>1. n - 1 \in 0..(m - 1) /\ n - 1 \in 0..m
            BY <1>4, <2>2
        <3>2. g[n - 1] = f[n - 1]
            BY <1>3, <1>5, <3>1
        <3> QED
            BY <3>2
    <2> QED
        BY <2>1, <2>2
<1>8. Stages(g, pool, m)
    BY <1>5, <1>6, <1>7 DEF Stages
<1> QED
    BY <1>1, <1>8

LEMMA TrustedByStages ==
    ASSUME NEW pool, TrustedWith(pool)
    PROVE  \E f : Trusts(f, pool) /\ f[MaxChainLength][signer]
<1> DEFINE Fits(f) ==
        f = [passes \in 0..MaxChainLength |->
                [c \in Cert |->
                    /\ passes > 0
                    /\ Covers(c)
                    /\ \/ IsAnchor(c)
                       \/ /\ certificate[c].screened
                          /\ \E issuer \in Cert :
                                 /\ IsFirst(pool, c, issuer)
                                 /\ Unrevoked(c, issuer)
                                 /\ \/ IsAnchor(issuer)
                                    \/ /\ Fit(issuer, MaxChainLength - passes)
                                       /\ f[passes - 1][issuer]]]
           trusts == CHOOSE f : Fits(f)
<1>1. \A f : Fits(f) <=> Stages(f, pool, MaxChainLength)
    BY DEF Stages, Stage
<1>2. trusts[MaxChainLength][signer]
    BY DEF TrustedWith
<1> HIDE DEF Fits
<1>3. \E f : Fits(f)
    BY <1>1, StagesExist, TrustAssumption
<1>4. Stages(trusts, pool, MaxChainLength)
    BY <1>1, <1>3
<1> HIDE DEF trusts
<1>5. Trusts(trusts, pool)
    BY <1>4, StagesUnfold, TrustAssumption DEF Trusts
<1> QED
    BY <1>2, <1>5

\* The walk is at a certificate that is trusted within the passes left.
Supported ==
    \A f : Trusts(f, anchors \o embedded) /\ f[MaxChainLength][signer] =>
        /\ verdict # "refused"
        /\ verdict = "walking" =>
               /\ below <= MaxChainLength
               /\ f[MaxChainLength - below][current]

\* An issuer among the anchors and embedded certificates comes before any
\* sealed one.
LEMMA OwnComesFirst ==
    ASSUME TrustTypeOK, NEW c, NEW issuer,
           IsFirst(anchors \o embedded, c, issuer)
    PROVE  /\ Signing(Candidates, c) # {}
           /\ \A other : IsFirst(Candidates, c, other) => other = issuer
<1> DEFINE own == anchors \o embedded
<1>1. own \in Seq(Cert) /\ sealed \in Seq(Cert) /\ Candidates = own \o sealed
    BY DEF TrustTypeOK, Candidates
<1>2. PICK k \in Signing(own, c) :
          (\A j \in Signing(own, c) : k <= j) /\ issuer = own[k]
    BY DEF IsFirst
<1> HIDE DEF own
<1>3. /\ DOMAIN own = 1..Len(own) /\ Len(own) \in Nat
      /\ DOMAIN Candidates = 1..(Len(own) + Len(sealed)) /\ Len(sealed) \in Nat
      /\ \A j \in 1..Len(own) : Candidates[j] = own[j]
    BY <1>1
<1>4. \A j \in 1..Len(own) :
          j \in Signing(Candidates, c) <=> j \in Signing(own, c)
    BY <1>3 DEF Signing
<1>5. k \in 1..Len(own) /\ k \in Signing(Candidates, c)
    BY <1>2, <1>3, <1>4 DEF Signing
<1>6. \A j \in Signing(Candidates, c) : j \in Nat /\ k <= j
    BY <1>2, <1>3, <1>4, <1>5 DEF Signing
<1>7. ASSUME NEW other, IsFirst(Candidates, c, other)
      PROVE  other = issuer
    <2>1. PICK j \in Signing(Candidates, c) :
              (\A i \in Signing(Candidates, c) : j <= i)
                  /\ other = Candidates[j]
        BY <1>7 DEF IsFirst
    <2>2. j = k
        BY <1>5, <1>6, <2>1
    <2> QED
        BY <1>2, <1>3, <1>5, <2>1, <2>2
<1> QED
    BY <1>5, <1>7

\* Such a certificate is no reason to refuse, nor is its issuer.
LEMMA SupportedIsSound ==
    ASSUME TrustTypeOK, below <= MaxChainLength, NEW f,
           Trusts(f, anchors \o embedded), f[MaxChainLength - below][current]
    PROVE  /\ below < MaxChainLength
           /\ Covers(current)
           /\ ~IsAnchor(current) =>
                  /\ certificate[current].screened
                  /\ Signing(Candidates, current) # {}
                  /\ \A issuer : IsFirst(Candidates, current, issuer) =>
                         /\ Unrevoked(current, issuer)
                         /\ \/ IsAnchor(issuer)
                            \/ /\ Fit(issuer, below)
                               /\ f[MaxChainLength - (below + 1)][issuer]
<1> DEFINE own == anchors \o embedded
           n == MaxChainLength - below
<1>1. /\ n \in 0..MaxChainLength /\ MaxChainLength - n = below
      /\ n - 1 = MaxChainLength - (below + 1) /\ current \in Cert
      /\ n > 0 => below < MaxChainLength
    BY TrustAssumption DEF TrustTypeOK
<1>2. f[n][current]
    OBVIOUS
<1>8. f[n] = Stage(own, n, f[n - 1])
    BY <1>1 DEF Trusts
<1> HIDE DEF own, n
<1>3. Stage(own, n, f[n - 1])[current]
    BY <1>2, <1>8
<1>4. /\ n > 0
      /\ Covers(current)
      /\ \/ IsAnchor(current)
         \/ /\ certificate[current].screened
            /\ \E issuer \in Cert :
                   /\ IsFirst(own, current, issuer)
                   /\ Unrevoked(current, issuer)
                   /\ \/ IsAnchor(issuer)
                      \/ /\ Fit(issuer, MaxChainLength - n)
                         /\ f[n - 1][issuer]
    BY <1>1, <1>3 DEF Stage
<1>5. ASSUME ~IsAnchor(current)
      PROVE  /\ certificate[current].screened
             /\ Signing(Candidates, current) # {}
             /\ \A issuer : IsFirst(Candidates, current, issuer) =>
                    /\ Unrevoked(current, issuer)
                    /\ \/ IsAnchor(issuer)
                       \/ Fit(issuer, below) /\ f[n - 1][issuer]
    <2>1. PICK first \in Cert :
              /\ IsFirst(own, current, first)
              /\ Unrevoked(current, first)
              /\ \/ IsAnchor(first)
                 \/ Fit(first, below) /\ f[n - 1][first]
        BY <1>1, <1>4, <1>5
    <2>2. /\ Signing(Candidates, current) # {}
          /\ \A issuer : IsFirst(Candidates, current, issuer) =>
                 issuer = first
        BY <2>1, OwnComesFirst DEF own
    <2> QED
        BY <1>4, <1>5, <2>1, <2>2
<1> QED
    BY <1>1, <1>4, <1>5

LEMMA TrustsIsFixed ==
    ASSUME UNCHANGED trustPool
    PROVE  \A f : Trusts(f, anchors \o embedded)'
                      <=> Trusts(f, anchors \o embedded)
<1> USE DEF trustPool
<1>1. \A c, issuer :
          /\ Covers(c)' <=> Covers(c)
          /\ IsAnchor(c)' <=> IsAnchor(c)
          /\ Unrevoked(c, issuer)' <=> Unrevoked(c, issuer)
          /\ IsFirst(anchors \o embedded, c, issuer)'
                 <=> IsFirst(anchors \o embedded, c, issuer)
    BY DEF Covers, IsAnchor, Unrevoked, Decides, IsFirst, Signing,
           IsSigningIssuer
<1>2. \A issuer, n : Fit(issuer, n)' <=> Fit(issuer, n)
    BY DEF Fit
<1>3. \A n, x : Stage(anchors \o embedded, n, x)'
                    = Stage(anchors \o embedded, n, x)
    BY <1>1, <1>2 DEF Stage
<1> QED
    BY <1>3 DEF Trusts

LEMMA StartSupported == TrustTypeOK /\ TrustStart => Supported
<1>1. MaxChainLength \in Nat /\ MaxChainLength - 0 = MaxChainLength
    BY TrustAssumption
<1> QED
    BY <1>1 DEF TrustStart, Supported

LEMMA StepSupported ==
    ASSUME TrustInv, Supported, [TrustNext]_trustVars
    PROVE  Supported'
<1>1. UNCHANGED trustPool
    BY DEF TrustNext, RefuseCertificate, TrustAnchor, FindNoIssuer,
           RefuseIssuer, ReachAnchor, Climb, GiveUp, Refuse, trustVars
<1>2. TrustTypeOK
    BY DEF TrustInv
<1> SUFFICES ASSUME NEW f, Trusts(f, anchors \o embedded)',
                    f[MaxChainLength][signer]
             PROVE  /\ verdict' # "refused"
                    /\ verdict' = "walking" =>
                           /\ below' <= MaxChainLength
                           /\ f[MaxChainLength - below'][current']
    BY <1>1 DEF Supported, trustPool
<1>3. Trusts(f, anchors \o embedded)
    BY <1>1, TrustsIsFixed
<1>4. /\ verdict # "refused"
      /\ verdict = "walking" => /\ below <= MaxChainLength
                                /\ f[MaxChainLength - below][current]
    BY <1>3 DEF Supported
<1>5. verdict = "walking" =>
          /\ below < MaxChainLength
          /\ Covers(current)
          /\ ~IsAnchor(current) =>
                 /\ certificate[current].screened
                 /\ Signing(Candidates, current) # {}
                 /\ \A issuer : IsFirst(Candidates, current, issuer) =>
                        /\ Unrevoked(current, issuer)
                        /\ \/ IsAnchor(issuer)
                           \/ /\ Fit(issuer, below)
                              /\ f[MaxChainLength - (below + 1)][issuer]
    BY <1>2, <1>3, <1>4, SupportedIsSound
<1>6. CASE verdict' = "trusted"
    BY <1>6
<1>7. CASE UNCHANGED <<current, below, verdict>>
    BY <1>4, <1>7
<1>8. CASE RefuseCertificate \/ FindNoIssuer \/ GiveUp
           \/ \E issuer \in Cert : RefuseIssuer(issuer)
    <2>1. below \in Nat /\ MaxChainLength \in Nat
        BY <1>2, TrustAssumption DEF TrustTypeOK
    <2> QED
        BY <1>5, <1>8, <2>1
        DEF RefuseCertificate, FindNoIssuer, RefuseIssuer, GiveUp,
            SeeksIssuer, Passing
<1>9. ASSUME NEW issuer \in Cert, Climb(issuer)
      PROVE  /\ verdict' # "refused"
             /\ below' <= MaxChainLength
             /\ f[MaxChainLength - below'][current']
    <2>1. /\ verdict = "walking" /\ ~IsAnchor(current)
          /\ IsFirst(Candidates, current, issuer) /\ ~IsAnchor(issuer)
          /\ current' = issuer /\ below' = below + 1 /\ verdict' = verdict
          /\ below \in Nat /\ MaxChainLength \in Nat
        BY <1>2, <1>9, TrustAssumption
        DEF Climb, SeeksIssuer, Passing, TrustTypeOK
    <2>2. f[MaxChainLength - (below + 1)][issuer] /\ below < MaxChainLength
        BY <1>5, <2>1
    <2> QED
        BY <2>1, <2>2
<1> QED
    BY <1>6, <1>7, <1>8, <1>9
    DEF TrustNext, TrustAnchor, ReachAnchor, trustVars

LEMMA SupportedEnds == Supported => SealedChainsNeverHurt
    BY TrustedByStages DEF Supported, SealedChainsNeverHurt

(***************************************************************************)
(* Sealed chains never hurt: what is trusted with the anchors and its own  *)
(* embedded certificates is trusted whatever the chain records hold.       *)
(***************************************************************************)
THEOREM SealedChainsDoNoHarm == TrustSpec => []SealedChainsNeverHurt
<1>1. TrustTypeOK /\ TrustStart => TrustInv /\ Supported
    BY StartInv, StartSupported
<1>2. TrustInv /\ Supported /\ [TrustNext]_trustVars => TrustInv' /\ Supported'
    BY StepInv, StepSupported
<1> QED
    BY <1>1, <1>2, SupportedEnds, PTL DEF TrustSpec

-----------------------------------------------------------------------------
\* What the assembled parts amount to when nothing is wrong with them.
Sound ==
    /\ Faults = {}
    /\ signer = SignerCertificate

\* What does not change in a behaviour.
Given ==
    /\ token \in Token
    /\ profile \in [Cert -> Profile]
    /\ statements \subseteq Statement
    /\ Unforged
    /\ \A s \in statements : Truthful(s)

(***************************************************************************)
(* The inductive invariant: from the moment the signer is found nothing is *)
(* wrong with the token, and it is accepted only when the walk trusts it.  *)
(***************************************************************************)
Course ==
    /\ phase \in {"content", "chain", "done"}
    /\ phase # "done" => outcome = "judging"
    /\ phase = "content" => verdict = "walking" /\ below = 0
    /\ phase = "chain" => Sound
    /\ outcome = "accepted" =>
           Sound /\ verdict = "trusted" /\ profile[signer].dedicated

TokenInv == TrustInv /\ Given /\ Course

-----------------------------------------------------------------------------
\* A token without faults lacks each of them.
LEMMA NoFault ==
    ASSUME Faults = {}
    PROVE  /\ ~Has("UnsupportedImprintAlgorithm") /\ ~Has("ImprintMismatch")
           /\ ~Has("SignerCertificateNotFound")
           /\ ~Has("MissingSignedAttributes")
           /\ ~Has("MalformedContentType") /\ ~Has("ContentTypeMismatch")
           /\ ~Has("MalformedMessageDigest") /\ ~Has("MessageDigestMismatch")
           /\ ~Has("MalformedEss") /\ ~Has("EssMismatch")
           /\ ~Has("MalformedEssV2") /\ ~Has("EssV2Mismatch")
           /\ ~Has("MissingSigningCertificateAttribute")
           /\ ~Has("InvalidSignature")
<1>1. \A k \in DOMAIN Order : ~Has(Order[k])
    BY DEF Faults
<1>2. /\ {4, 5, 10, 12} \subseteq DOMAIN Order
      /\ Order[4] = "UnsupportedImprintAlgorithm"
      /\ Order[5] = "ImprintMismatch"
      /\ Order[10] = "SignerCertificateNotFound"
      /\ Order[12] = "MissingSignedAttributes"
    BY DEF Order
<1>3. /\ {14, 15, 16, 17, 18} \subseteq DOMAIN Order
      /\ Order[14] = "MalformedContentType"
      /\ Order[15] = "ContentTypeMismatch"
      /\ Order[16] = "MalformedMessageDigest"
      /\ Order[17] = "MessageDigestMismatch"
      /\ Order[18] = "MalformedEss"
    BY DEF Order
<1>4. /\ {19, 20, 22, 23, 25} \subseteq DOMAIN Order
      /\ Order[19] = "EssMismatch"
      /\ Order[20] = "MalformedEssV2"
      /\ Order[22] = "EssV2Mismatch"
      /\ Order[23] = "MissingSigningCertificateAttribute"
      /\ Order[25] = "InvalidSignature"
    BY DEF Order
<1> QED
    BY <1>1, <1>2, <1>3, <1>4

LEMMA SignerIsEmbedded ==
    ASSUME TrustTypeOK, Faults = {}
    PROVE  Matches # {} /\ SignerCertificate \in Cert
<1>1. Matches # {}
    BY NoFault DEF Has, Outside
<1>2. (CHOOSE k \in Matches : TRUE) \in DOMAIN embedded
    BY <1>1 DEF Matches
<1> QED
    BY <1>1, <1>2 DEF SignerCertificate, TrustTypeOK

\* The fields of a token without faults agree with each other, with the
\* manifest and with the certificate.
LEMMA PartsAgree ==
    ASSUME Faults = {}, TrustTypeOK
    PROVE  LET said == token.attributes
           IN  /\ token.content.imprint[1] \in Family
               /\ token.content.imprint[2] = Ours
               /\ said # None
               /\ Single(said.contentType)
               /\ TheValue(said.contentType) = "TSTInfo"
               /\ Single(said.messageDigest)
               /\ TheValue(said.messageDigest)
                      = Digest(token.digest, token.content)
               /\ \/ /\ Decodes(said.ess)
                     /\ TheValue(said.ess)[1].hash
                            = Digest(Legacy, SignerCertificate)
                  \/ /\ Decodes(said.essV2)
                     /\ TheValue(said.essV2)[1].hash
                            = Digest(Algorithm(TheValue(said.essV2)[1]),
                                     SignerCertificate)
               /\ token.signature.over = said
<1> DEFINE said == token.attributes
<1>1. token.content.imprint[1] \in Family /\ token.content.imprint[2] = Ours
    BY NoFault DEF Has, Outside
<1>2. said # None /\ Matches # {}
    BY NoFault, SignerIsEmbedded DEF Has, Outside
<1>3. Single(said.contentType) /\ TheValue(said.contentType) = "TSTInfo"
    BY <1>2, NoFault DEF Has, Inside
<1>4. /\ Single(said.messageDigest)
      /\ TheValue(said.messageDigest) = Digest(token.digest, token.content)
    BY <1>2, NoFault DEF Has, Inside
<1>5. /\ ~EssMalformed(said.ess) /\ ~EssMismatched(said.ess)
      /\ ~EssMalformed(said.essV2) /\ ~EssV2Mismatched(said.essV2)
      /\ said.ess # <<>> \/ said.essV2 # <<>>
    BY <1>2, NoFault DEF Has, Inside, EssMissing
<1>6. CASE said.ess # <<>>
    <2>1. Decodes(said.ess)
        BY <1>5, <1>6 DEF EssMalformed
    <2>2. TheValue(said.ess)[1].hash = Digest(Legacy, SignerCertificate)
        BY <1>5, <2>1 DEF EssMismatched, IdentifiesSigner
    <2>3. token.signature.over = said
        BY <1>2, NoFault DEF Has, Inside, SignatureVerifies
    <2> QED
        BY <1>1, <1>2, <1>3, <1>4, <2>1, <2>2, <2>3
<1>7. CASE said.essV2 # <<>>
    <2>1. Decodes(said.essV2)
        BY <1>5, <1>7 DEF EssMalformed
    <2>2. TheValue(said.essV2)[1].hash
              = Digest(Algorithm(TheValue(said.essV2)[1]), SignerCertificate)
        BY <1>5, <2>1 DEF EssV2Mismatched, IdentifiesSigner
    <2>3. token.signature.over = said
        BY <1>2, NoFault DEF Has, Inside, SignatureVerifies
    <2> QED
        BY <1>1, <1>2, <1>3, <1>4, <2>1, <2>2, <2>3
<1> QED
    BY <1>5, <1>6, <1>7

\* Hence one statement stands behind them.
LEMMA SoundIsStated ==
    ASSUME TokenInv, Sound
    PROVE  \E s \in statements : Stated(s, signer)
<1> DEFINE said == token.attributes
<1>1. TrustTypeOK /\ Faults = {} /\ signer = SignerCertificate
    BY DEF TokenInv, TrustInv, Sound
<1>2. PICK s \in statements : token.signature.over = s.attributes
    BY DEF TokenInv, Given, Unforged
<1>3. s.attributes = said
    BY <1>1, <1>2, PartsAgree
<1>4. Truthful(s)
    BY DEF TokenInv, Given
<1>5. s.kind = "TSTInfo"
    BY <1>1, <1>3, <1>4, PartsAgree DEF Truthful
<1>6. s.content = token.content
    BY <1>1, <1>3, <1>4, PartsAgree DEF Truthful, Digest
<1>7. s.certificate = signer
    BY <1>1, <1>3, <1>4, PartsAgree DEF Truthful, SpeaksOf, Digest
<1>8. \E f \in Family : s.content.imprint = Digest(f, Ours)
    <2>1. s.content.imprint \in Digests
        BY <1>2 DEF TokenInv, Given, Statement, Content
    <2>2. s.content.imprint
              = <<s.content.imprint[1], s.content.imprint[2]>>
        BY <2>1 DEF Digests
    <2> QED
        BY <1>1, <1>6, <2>2, PartsAgree DEF Digest
<1> QED
    BY <1>3, <1>5, <1>6, <1>7, <1>8 DEF Stated

-----------------------------------------------------------------------------
LEMMA TokenStartInv ==
    ASSUME TokenTypeOK, TokenStart, Unforged,
           \A s \in statements : Truthful(s)
    PROVE  TokenInv
<1>1. TrustInv
    BY StartInv DEF TokenTypeOK, TokenStart
<1>2. Given
    BY DEF Given, TokenTypeOK
<1>3. Course
    BY DEF Course, TokenStart, TrustStart
<1> QED
    BY <1>1, <1>2, <1>3 DEF TokenInv

\* Nothing that is given changes in any step.
LEMMA InputIsFixed ==
    ASSUME [TokenNext]_tokenVars
    PROVE  UNCHANGED <<tokenInput, certificate, signs, crls, anchors,
                       embedded, sealed>>
<1>1. CASE RefuseContent
    BY <1>1 DEF RefuseContent, trustVars, trustPool
<1>2. CASE FindSigner
    BY <1>2 DEF FindSigner
<1>3. CASE WalkOn
    BY <1>3
    DEF WalkOn, TrustNext, RefuseCertificate, TrustAnchor, FindNoIssuer,
        RefuseIssuer, ReachAnchor, Climb, GiveUp, Refuse, trustPool
<1>4. CASE RefuseChain
    BY <1>4 DEF RefuseChain, Finish, trustVars, trustPool
<1>5. CASE JudgeUsage
    BY <1>5 DEF JudgeUsage, Finish, trustVars, trustPool
<1>6. CASE UNCHANGED tokenVars
    BY <1>6 DEF tokenVars, trustVars, trustPool
<1> QED
    BY <1>1, <1>2, <1>3, <1>4, <1>5, <1>6 DEF TokenNext

LEMMA JudgementIsFixed ==
    ASSUME UNCHANGED <<tokenInput, certificate, signs, crls, anchors,
                       embedded, sealed>>
    PROVE  /\ SignerCertificate' = SignerCertificate
           /\ Faults' = Faults
           /\ Given => Given'
<1>1. /\ token' = token /\ profile' = profile /\ embedded' = embedded
      /\ statements' = statements /\ readable' = readable
      /\ anchors' = anchors
    BY DEF tokenInput
<1>2. Matches' = Matches /\ SignerCertificate' = SignerCertificate
    BY <1>1 DEF Matches, Identifies, SignerCertificate
<1>3. ASSUME NEW fault
      PROVE  Has(fault)' <=> Has(fault)
    <2>1. Outside(fault)' <=> Outside(fault)
        BY <1>1, <1>2 DEF Outside, Unidentifiable
    <2>2. Inside(fault)' <=> Inside(fault)
        BY <1>1, <1>2
        DEF Inside, EssMissing, EssMismatched, EssV2Mismatched,
            IdentifiesSigner, SignatureSupported, SignatureVerifies
    <2> QED
        BY <1>1, <1>2, <2>1, <2>2 DEF Has
<1>4. Faults' = Faults
    BY <1>3 DEF Faults
<1>5. Given => Given'
    BY <1>1 DEF Given, Unforged
<1> QED
    BY <1>2, <1>4, <1>5

LEMMA TokenStepInv == TokenInv /\ [TokenNext]_tokenVars => TokenInv'
<1> SUFFICES ASSUME TokenInv, [TokenNext]_tokenVars
             PROVE  TokenInv'
    OBVIOUS
<1>1. /\ SignerCertificate' = SignerCertificate /\ Faults' = Faults
      /\ Given' /\ profile' = profile
    BY InputIsFixed, JudgementIsFixed DEF TokenInv, tokenInput
<1>2. CASE RefuseContent
    <2>1. outcome' # "accepted" /\ phase' = "done"
        <3>1. PICK first \in DOMAIN Order : outcome' = Order[first]
            BY <1>2 DEF RefuseContent, Faults
        <3>2. \A k \in DOMAIN Order : Order[k] # "accepted"
            BY DEF Order
        <3> QED
            BY <1>2, <3>1, <3>2 DEF RefuseContent
    <2>2. TrustInv'
        BY <1>2, StepInv DEF RefuseContent, TokenInv
    <2> QED
        BY <1>1, <2>1, <2>2 DEF TokenInv, Course
<1>3. CASE FindSigner
    <2>1. Faults = {} /\ SignerCertificate \in Cert
        BY <1>3, SignerIsEmbedded DEF FindSigner, TokenInv, TrustInv
    <2>2. verdict = "walking" /\ below = 0
        BY <1>3 DEF FindSigner, TokenInv, Course
    <2>3. TrustTypeOK'
        BY <1>3, <2>1 DEF FindSigner, TokenInv, TrustInv, TrustTypeOK
    <2>4. TrustStart'
        BY <1>3, <2>2 DEF FindSigner, TrustStart
    <2>5. TrustInv'
        BY <2>3, <2>4, StartInv, PTL
    <2>6. Course'
        BY <1>1, <1>3, <2>1 DEF FindSigner, Course, Sound, TokenInv
    <2> QED
        BY <1>1, <2>5, <2>6 DEF TokenInv
<1>4. CASE WalkOn
    <2>1. TrustInv'
        BY <1>4, StepInv DEF WalkOn, TokenInv
    <2>2. signer' = signer /\ phase = "chain" /\ phase' = phase
          /\ outcome' = outcome
        BY <1>4
        DEF WalkOn, TrustNext, RefuseCertificate, TrustAnchor, FindNoIssuer,
            RefuseIssuer, ReachAnchor, Climb, GiveUp, Refuse, trustPool
    <2> QED
        BY <1>1, <2>1, <2>2 DEF TokenInv, Course, Sound
<1>5. CASE RefuseChain
    <2>1. TrustInv'
        BY <1>5, StepInv DEF RefuseChain, Finish, TokenInv
    <2> QED
        BY <1>1, <1>5, <2>1 DEF RefuseChain, Finish, TokenInv, Course
<1>6. CASE JudgeUsage
    <2>1. TrustInv'
        BY <1>6, StepInv DEF JudgeUsage, Finish, TokenInv
    <2>2. signer' = signer /\ verdict' = verdict /\ Sound
        BY <1>6
        DEF JudgeUsage, Finish, trustVars, trustPool, TokenInv, Course
    <2>3. outcome' = "accepted" =>
              verdict = "trusted" /\ profile[signer].dedicated
        BY <1>6 DEF JudgeUsage, Finish
    <2>4. phase' = "done"
        BY <1>6 DEF JudgeUsage, Finish
    <2> QED
        BY <1>1, <2>1, <2>2, <2>3, <2>4 DEF TokenInv, Course, Sound
<1>7. CASE UNCHANGED tokenVars
    <2>1. TrustInv'
        BY <1>7, StepInv DEF tokenVars, TokenInv
    <2> QED
        BY <1>1, <1>7, <2>1
        DEF tokenVars, trustVars, trustPool, TokenInv, Course, Sound
<1> QED
    BY <1>2, <1>3, <1>4, <1>5, <1>6, <1>7 DEF TokenNext

LEMMA InvAccepts == TokenInv => AcceptedWasStated
<1> SUFFICES ASSUME TokenInv, outcome = "accepted"
             PROVE  /\ \E s \in statements : Stated(s, signer)
                    /\ CertificationPath(path)
                    /\ profile[signer].dedicated
    BY DEF AcceptedWasStated
<1>1. Sound /\ verdict = "trusted" /\ profile[signer].dedicated
    BY DEF TokenInv, Course
<1>2. CertificationPath(path)
    BY <1>1, InvEarns DEF TokenInv, TrustIsEarned
<1> QED
    BY <1>1, <1>2, SoundIsStated

(***************************************************************************)
(* An accepted token is its signer's own statement about this manifest,    *)
(* and its signer is trusted on a whole certification path.                *)
(***************************************************************************)
THEOREM VerdictSafety == TokenSpec => [](AcceptedWasStated /\ TrustIsEarned)
<1>1. TokenTypeOK /\ TokenStart /\ Unforged
          /\ (\A s \in statements : Truthful(s)) => TokenInv
    BY TokenStartInv
<1>2. TokenInv /\ [TokenNext]_tokenVars => TokenInv'
    BY TokenStepInv
<1>3. TokenInv => AcceptedWasStated /\ TrustIsEarned
    BY InvAccepts, InvEarns DEF TokenInv
<1> QED
    BY <1>1, <1>2, <1>3, PTL DEF TokenSpec

-----------------------------------------------------------------------------
(***************************************************************************)
(* Every verdict has its grounds: a fault the token has, the chain, or the *)
(* usage of the key its signer certificate holds.                          *)
(***************************************************************************)
Grounds ==
    \/ outcome \in {"judging", "accepted", "UntrustedChain"}
    \/ \E k \in Faults : outcome = Order[k]
    \/ /\ outcome \in {"UnfitExtendedKeyUsage", "ForbiddenKeyUsage"}
       /\ Sound
       /\ ~(profile[signer].dedicated /\ profile[signer].mayStamp)

LEMMA StepGrounds ==
    ASSUME TokenInv, Grounds, [TokenNext]_tokenVars
    PROVE  Grounds'
<1>1. /\ SignerCertificate' = SignerCertificate /\ Faults' = Faults
      /\ profile' = profile
    BY InputIsFixed, JudgementIsFixed DEF TokenInv, tokenInput
<1>2. CASE RefuseContent
    BY <1>1, <1>2 DEF RefuseContent, Grounds
<1>3. CASE FindSigner \/ WalkOn
    BY <1>3 DEF FindSigner, WalkOn, TokenInv, Course, Grounds
<1>4. CASE RefuseChain
    BY <1>4 DEF RefuseChain, Finish, Grounds
<1>5. CASE JudgeUsage
    <2>1. Sound /\ signer' = signer
        BY <1>5
        DEF JudgeUsage, Finish, trustVars, trustPool, TokenInv, Course
    <2>2. \/ outcome' = "accepted"
          \/ /\ outcome' \in {"UnfitExtendedKeyUsage", "ForbiddenKeyUsage"}
             /\ ~(profile[signer].dedicated /\ profile[signer].mayStamp)
        BY <1>5 DEF JudgeUsage, Finish
    <2> QED
        BY <1>1, <2>1, <2>2 DEF Grounds, Sound
<1>6. CASE UNCHANGED tokenVars
    BY <1>1, <1>6 DEF tokenVars, trustVars, trustPool, Grounds, Sound
<1> QED
    BY <1>2, <1>3, <1>4, <1>5, <1>6 DEF TokenNext

\* One certificate in one value of one instance.
LEMMA OneIdentification ==
    ASSUME NEW id \in Identification
    PROVE  LET instances == <<<<<<id>>>>>>
           IN  /\ instances # <<>>
               /\ Decodes(instances)
               /\ TheValue(instances)[1] = id
<1> DEFINE instances == <<<<<<id>>>>>>
<1>1. /\ Len(instances) = 1 /\ instances[1] = <<<<id>>>>
      /\ Len(instances[1]) = 1 /\ instances[1][1] = <<id>>
      /\ <<id>> \in Seq(Identification) /\ Len(<<id>>) = 1
      /\ instances[1][1][1] = id
    OBVIOUS
<1>2. instances # <<>> /\ <<id>> # <<>>
    BY <1>1
<1> HIDE DEF instances
<1>3. <<id>> # Foreign
    BY <1>1, EncodingAssumption
<1> QED
    BY <1>1, <1>2, <1>3 DEF Decodes, Single, TheValue, instances

\* An attribute of either generation as an authority writes it names the
\* signer.
LEMMA EssIsInOrder ==
    ASSUME Given, NEW c \in Cert, SignerCertificate = c,
           NEW instances \in EssOf(c)
    PROVE  ~EssMalformed(instances) /\ ~EssMismatched(instances)
<1>1. CASE instances = <<>>
    <2>1. ~Decodes(instances)
        BY <1>1 DEF Decodes, Single
    <2> QED
        BY <1>1, <2>1 DEF EssMalformed, EssMismatched
<1>2. CASE instances # <<>>
    <2>1. PICK n \in {None, profile[c].name} :
              instances = <<<<<<[algorithm |-> Legacy,
                                 hash |-> Digest(Legacy, c),
                                 name |-> n]>>>>>>
        BY <1>2 DEF EssOf
    <2> DEFINE id == [algorithm |-> Legacy, hash |-> Digest(Legacy, c),
                      name |-> n]
    <2>2. id \in Identification
        BY DEF Given, Profile, Identification, Digests, Digest
    <2>3. Decodes(instances) /\ TheValue(instances)[1] = id
        BY <2>1, <2>2, OneIdentification
    <2> QED
        BY <2>3 DEF EssMalformed, EssMismatched, IdentifiesSigner
<1> QED
    BY <1>1, <1>2

LEMMA EssV2IsInOrder ==
    ASSUME Given, NEW c \in Cert, SignerCertificate = c,
           NEW instances \in EssV2Of(c)
    PROVE  /\ ~EssMalformed(instances) /\ ~EssV2Mismatched(instances)
           /\ ~EssUnsupported(instances)
<1>1. CASE instances = <<>>
    <2>1. ~Decodes(instances)
        BY <1>1 DEF Decodes, Single
    <2> QED
        BY <1>1, <2>1 DEF EssMalformed, EssV2Mismatched, EssUnsupported
<1>2. CASE instances # <<>>
    <2>1. PICK a \in Family \cup {Legacy, None},
               n \in {None, profile[c].name} :
              instances = <<<<<<[algorithm |-> a,
                                 hash |-> Digest(IF a = None THEN Default
                                                             ELSE a, c),
                                 name |-> n]>>>>>>
        <3>1. CASE \E f \in Family \cup {Legacy} :
                   \E n \in {None, profile[c].name} :
                       instances = <<<<<<[algorithm |-> f,
                                          hash |-> Digest(f, c),
                                          name |-> n]>>>>>>
            BY <3>1, TokenAssumption
        <3>2. CASE \E n \in {None, profile[c].name} :
                       instances = <<<<<<[algorithm |-> None,
                                          hash |-> Digest(Default, c),
                                          name |-> n]>>>>>>
            BY <3>2
        <3> QED
            BY <1>2, <3>1, <3>2 DEF EssV2Of
    <2> DEFINE id == [algorithm |-> a,
                      hash |-> Digest(IF a = None THEN Default ELSE a, c),
                      name |-> n]
    <2>2. id \in Identification
        BY TokenAssumption DEF Given, Profile, Identification, Digests, Digest
    <2>3. Decodes(instances) /\ TheValue(instances)[1] = id
        BY <2>1, <2>2, OneIdentification
    <2>4. /\ Algorithm(id) = IF a = None THEN Default ELSE a
          /\ Algorithm(id) \in Family \cup {Legacy}
        BY TokenAssumption DEF Algorithm
    <2> QED
        BY <2>3, <2>4
        DEF EssMalformed, EssV2Mismatched, EssUnsupported, IdentifiesSigner
<1> QED
    BY <1>1, <1>2

\* What a conformant token is, with its statement s put in.
Conforms(s) ==
    LET c == s.certificate
    IN  /\ Stated(s, c)
        /\ s.content.version = 1 /\ ~s.content.extended
        /\ s.attributes \in
               [contentType : {<<<<"TSTInfo">>>>},
                messageDigest : {<<<<Digest(s.digest, s.content)>>>>},
                ess : EssOf(c), essV2 : EssV2Of(c)]
        /\ s.attributes.ess # <<>> \/ s.attributes.essV2 # <<>>
        /\ profile[c].dedicated /\ profile[c].mayStamp
        /\ token.shape = "token" /\ token.signers = 1
        /\ token.signature = [key |-> profile[c].key, over |-> s.attributes]
        /\ token.digest = s.digest
        /\ token.scheme.form = "bare" /\ token.scheme.clean
        /\ token.version = IF token.sid.form = "serial" THEN 1 ELSE 3
        /\ \E k \in DOMAIN embedded : embedded[k] = c /\ Matches = {k}
        /\ ~Unidentifiable

LEMMA ConformantNamesSigner ==
    ASSUME NEW s, Conforms(s)
    PROVE  SignerCertificate = s.certificate
<1>1. PICK k \in DOMAIN embedded :
          embedded[k] = s.certificate /\ Matches = {k}
    BY DEF Conforms
<1> QED
    BY <1>1 DEF SignerCertificate

LEMMA NothingOutside ==
    ASSUME TrustTypeOK, NEW s \in statements, s \in Statement, Conforms(s),
           NEW fault, Outside(fault)
    PROVE  fault \in {"NoTrustAnchors", "MalformedTrustInput"}
<1>1. /\ token.content = s.content /\ token.attributes = s.attributes
      /\ token.content.version = 1 /\ ~token.content.extended
      /\ token.shape = "token" /\ token.signers = 1
      /\ token.version = IF token.sid.form = "serial" THEN 1 ELSE 3
      /\ ~Unidentifiable
    BY DEF Conforms, Stated
<1>2. /\ token.content.imprint[1] \in Family
      /\ token.content.imprint[2] = Ours
    BY DEF Conforms, Stated, Digest
<1>3. token.digest \in Family /\ token.attributes # None
    BY <1>1, EncodingAssumption DEF Conforms, Statement
<1>4. embedded # <<>> /\ Matches # {} /\ ~ \E j, k \in Matches : j # k
    BY DEF Conforms, Matches, TrustTypeOK
<1> QED
    BY <1>1, <1>2, <1>3, <1>4 DEF Outside

LEMMA NothingInside ==
    ASSUME Given, NEW s \in statements, Conforms(s), NEW fault
    PROVE  ~Inside(fault)
<1> DEFINE said == token.attributes
           c == s.certificate
<1>1. s \in Statement /\ c \in Cert /\ SignerCertificate = c
    BY ConformantNamesSigner DEF Given, Statement
<1>2. /\ token.content = s.content /\ said = s.attributes
      /\ token.digest = s.digest
      /\ said.contentType = <<<<"TSTInfo">>>>
      /\ said.messageDigest = <<<<Digest(token.digest, token.content)>>>>
      /\ said.ess \in EssOf(c) /\ said.essV2 \in EssV2Of(c)
      /\ said.ess # <<>> \/ said.essV2 # <<>>
    BY DEF Conforms, Stated
<1>3. /\ Single(said.contentType)
      /\ TheValue(said.contentType) = "TSTInfo"
      /\ Single(said.messageDigest)
      /\ TheValue(said.messageDigest) = Digest(token.digest, token.content)
    BY <1>2 DEF Single, TheValue
<1>4. /\ ~EssMalformed(said.ess) /\ ~EssMismatched(said.ess)
    BY <1>1, <1>2, EssIsInOrder
<1>5. /\ ~EssMalformed(said.essV2) /\ ~EssV2Mismatched(said.essV2)
      /\ ~EssUnsupported(said.essV2)
    BY <1>1, <1>2, EssV2IsInOrder
<1>6. ~EssMissing(said) /\ SignatureSupported /\ SignatureVerifies
    BY <1>1, <1>2
    DEF EssMissing, SignatureSupported, SignatureVerifies, Conforms
<1> QED
    BY <1>3, <1>4, <1>5, <1>6 DEF Inside

LEMMA GroundsSpareTheConformant ==
    ASSUME TokenInv, Grounds
    PROVE  ConformantIsRefusedForTrustOnly
<1> SUFFICES ASSUME outcome \notin {"judging", "accepted", "UntrustedChain",
                                    "NoTrustAnchors", "MalformedTrustInput"},
                    NEW s \in statements, Conforms(s)
             PROVE  FALSE
    BY DEF ConformantIsRefusedForTrustOnly, Conformant, Conforms
<1>1. TrustTypeOK /\ Given /\ s \in Statement
    BY DEF TokenInv, TrustInv, Given
<1>2. ASSUME NEW k \in Faults, outcome = Order[k]
      PROVE  FALSE
    <2>1. Has(Order[k])
        BY <1>2 DEF Faults
    <2> QED
        BY <1>1, <1>2, <2>1, NothingOutside, NothingInside DEF Has
<1>3. SignerCertificate = s.certificate
    BY ConformantNamesSigner
<1>4. profile[s.certificate].dedicated /\ profile[s.certificate].mayStamp
    BY DEF Conforms
<1> QED
    BY <1>2, <1>3, <1>4 DEF Grounds, Sound

(***************************************************************************)
(* A conformant token over this manifest is refused for its chain or for   *)
(* the trust input alone: none of the other checks turns down what RFC     *)
(* 3161 and RFC 5816 let an authority write.                               *)
(***************************************************************************)
THEOREM ConformantTokensPass ==
    TokenSpec => []ConformantIsRefusedForTrustOnly
<1>1. TokenTypeOK /\ TokenStart /\ Unforged
          /\ (\A s \in statements : Truthful(s)) => TokenInv /\ Grounds
    BY TokenStartInv DEF TokenStart, Grounds
<1>2. TokenInv /\ Grounds /\ [TokenNext]_tokenVars => TokenInv' /\ Grounds'
    BY TokenStepInv, StepGrounds
<1> QED
    BY <1>1, <1>2, GroundsSpareTheConformant, PTL DEF TokenSpec

(***************************************************************************)
(* The walk within a verdict is the walk of TrustPath, begun anew once the *)
(* signer is found; so neither never turning back nor sealed chains cost a *)
(* token its acceptance.                                                   *)
(***************************************************************************)
LEMMA WalksOrStarts ==
    ASSUME TokenInv, [TokenNext]_tokenVars
    PROVE  [TrustNext]_trustVars \/ (TrustTypeOK' /\ TrustStart')
<1>1. CASE FindSigner
    <2>1. SignerCertificate \in Cert /\ verdict = "walking" /\ below = 0
        BY <1>1, SignerIsEmbedded DEF FindSigner, TokenInv, TrustInv, Course
    <2> QED
        BY <1>1, <2>1
        DEF FindSigner, TrustStart, TokenInv, TrustInv, TrustTypeOK
<1> QED
    BY <1>1
    DEF TokenNext, RefuseContent, WalkOn, RefuseChain, JudgeUsage, Finish,
        tokenVars

\* What is proved of the walk alone holds inside every verify_token as well: a
\* chain is refused there only without a path, and never for sealed chains.
THEOREM WalksWithinVerdicts ==
    TokenSpec => [](RefusedOnlyWithoutPath /\ SealedChainsNeverHurt)
<1>1. TokenTypeOK /\ TokenStart /\ Unforged
          /\ (\A s \in statements : Truthful(s))
          => TokenInv /\ Alongside /\ Supported
    BY TokenStartInv, StartAlongside, StartSupported
    DEF TokenTypeOK, TokenStart
<1>2. TokenInv /\ Alongside /\ Supported /\ [TokenNext]_tokenVars
          => TokenInv' /\ Alongside' /\ Supported'
    <2>1. TokenInv /\ [TokenNext]_tokenVars => TokenInv'
        BY TokenStepInv
    <2>2. TokenInv => TrustInv
        BY DEF TokenInv
    <2>3. TrustInv /\ Alongside /\ [TrustNext]_trustVars => Alongside'
        BY StepAlongside
    <2>4. TrustInv /\ Supported /\ [TrustNext]_trustVars => Supported'
        BY StepSupported
    <2>5. TrustTypeOK' /\ TrustStart' => Alongside' /\ Supported'
        BY StartAlongside, StartSupported, PTL
    <2> QED
        BY <2>1, <2>2, <2>3, <2>4, <2>5, WalksOrStarts
<1> QED
    BY <1>1, <1>2, AlongsideEnds, SupportedEnds, PTL DEF TokenSpec
=============================================================================
