---------------------------- MODULE TokenVerdict -----------------------------
(***************************************************************************)
(* verify_token of crates/tydence/src/verify/token.rs: what a token says   *)
(* is checked first, in a fixed order and up to the first fault; then the  *)
(* signer certificate found in it goes through the walk of TrustPath, and  *)
(* at last its key's dedication to timestamping is judged.                 *)
(*                                                                         *)
(* Hashes and signatures are symbolic: a digest is the pair of its         *)
(* algorithm and its payload, and a signature is the key that made it      *)
(* together with the attributes it covers.  The token itself may be put    *)
(* together from anything: a content, the attributes of another, the       *)
(* signature over a third, certificates that do or do not fit.             *)
(***************************************************************************)
EXTENDS TrustPath

CONSTANTS
    Manifest,  \* manifest texts
    Ours,      \* the one the token has to cover
    Family,    \* digest families the verifier supports: SHA-2
    Default,   \* the one an absent ESSCertIDv2 algorithm stands for: SHA-256
    Legacy,    \* SHA-1, which ESS may still identify a certificate by
    Foreign    \* an algorithm, identifier or type outside the known ones

ASSUME TokenAssumption ==
    /\ Ours \in Manifest
    /\ Default \in Family
    /\ Legacy \notin Family
    /\ Foreign \notin Family \cup {Legacy}
    /\ None \notin Family \cup {Legacy, Foreign}
    /\ None \notin Cert

Digest(algorithm, payload) == <<algorithm, payload>>

VARIABLES
    token,       \* the token under verification
    profile,     \* what each certificate says beside TrustPath's fields
    statements,  \* history: what keys have signed, for whom, over what
    readable,    \* whether anchors, companions and CRLs all decode
    phase,       \* "content", "chain" or "done"
    outcome      \* "judging", "accepted" or the fault that refuses

tokenInput == <<token, profile, statements, readable>>
tokenVars == <<trustVars, tokenInput, phase, outcome>>

(***************************************************************************)
(* shape is "token" when the bytes decode as a SignedData with a TSTInfo   *)
(* in it.  An attribute is the sequence of its instances, an instance the  *)
(* sequence of its values; what does not decode is Foreign.  An ESS value  *)
(* is the sequence of certificates it identifies, the signer first.        *)
(*                                                                         *)
(* A profile's name stands for issuer and serial number, keyId for the     *)
(* subject key identifier; dedicated says the extended key usage is        *)
(* critical and timestamping alone, mayStamp that the key usage, if any,   *)
(* grants signing.                                                         *)
(***************************************************************************)
Digests == (Family \cup {Legacy, Foreign}) \X (Manifest \cup Cert)

Content == [version : {1, 2}, extended : BOOLEAN, imprint : Digests,
            serial : Nat]

Identification == [algorithm : Family \cup {None, Legacy, Foreign},
                   hash : Digests, name : Cert \cup {None, Foreign}]

EssAttribute == Seq(Seq(Seq(Identification) \cup {Foreign}))

Attributes ==
    [contentType : Seq(Seq({"TSTInfo", "other"})),
     messageDigest : Seq(Seq((Family \cup {Foreign}) \X Content)),
     ess : EssAttribute, essV2 : EssAttribute]

Profile == [name : Cert, keyId : Cert \cup {None, Foreign}, key : Cert,
            dedicated : BOOLEAN, mayStamp : BOOLEAN]

Statement == [certificate : Cert, kind : {"TSTInfo", "other"},
              content : Content, digest : Family, attributes : Attributes]

\* What does not decode is no value, and what is absent is none.
ASSUME EncodingAssumption ==
    /\ Foreign \notin Seq(Identification)
    /\ None \notin Attributes

Token ==
    [shape : {"token", "other"},
     content : Content,
     signers : Nat,
     version : {1, 3},
     sid : [form : {"serial", "keyId"}, id : Cert],
     attributes : Attributes \cup {None},
     digest : Family \cup {Legacy, Foreign},
     scheme : [form : {"bare", "folded", "foreign"}, folds : Family,
               clean : BOOLEAN],
     signature : [key : Cert, over : Attributes]]

-----------------------------------------------------------------------------
\* unique_attribute_value: the single value of the single instance.
Single(instances) == Len(instances) = 1 /\ Len(instances[1]) = 1
TheValue(instances) == instances[1][1]

\* matches_signer_identifier; the name of a certificate is nobody else's,
\* a key identifier may be shared.
Identifies(sid, c) ==
    \/ sid.form = "serial" /\ profile[c].name = sid.id
    \/ sid.form = "keyId" /\ profile[c].keyId = sid.id

Matches == {k \in DOMAIN embedded : Identifies(token.sid, embedded[k])}

SignerCertificate == embedded[CHOOSE k \in Matches : TRUE]

\* A subject key identifier that does not decode leaves the match undecided.
Unidentifiable ==
    token.sid.form = "keyId"
        /\ \E k \in DOMAIN embedded : profile[embedded[k]].keyId = Foreign

\* Broken on purpose: the name alone is compared.
NamesSigner(id, algorithm, c) == id.name \in {None, profile[c].name}

\* ensure_identifies_signer: the hash, and the issuer and serial number if
\* they are given.
IdentifiesSigner(id, algorithm, c) ==
    /\ id.hash = Digest(algorithm, c)
    /\ id.name \in {None, profile[c].name}

\* An ESS attribute of either generation, absent or naming the signer.
\* The first generation hashes with SHA-1, the second with what it says.
Decodes(instances) ==
    Single(instances) /\ TheValue(instances) \notin {Foreign, <<>>}

EssMalformed(instances) == instances # <<>> /\ ~Decodes(instances)

\* Broken on purpose: an absent algorithm stands for SHA-1.
LegacyByDefault(id) == IF id.algorithm = None THEN Legacy ELSE id.algorithm

Algorithm(id) == IF id.algorithm = None THEN Default ELSE id.algorithm

EssUnsupported(instances) ==
    Decodes(instances)
        /\ Algorithm(TheValue(instances)[1]) \notin Family \cup {Legacy}

EssMismatched(instances) ==
    Decodes(instances)
        /\ LET id == TheValue(instances)[1]
           IN  ~IdentifiesSigner(id, Legacy, SignerCertificate)

EssV2Mismatched(instances) ==
    Decodes(instances)
        /\ LET id == TheValue(instances)[1]
           IN  ~IdentifiesSigner(id, Algorithm(id), SignerCertificate)

EssMissing(said) == said.ess = <<>> /\ said.essV2 = <<>>

\* normalize_cms_signature_algorithm: the bare key type takes the declared
\* digest in, a folded identifier has to agree with it.
SignatureSupported ==
    /\ token.scheme.clean
    /\ \/ token.scheme.form = "bare"
       \/ token.scheme.form = "folded" /\ token.scheme.folds = token.digest

SignatureVerifies ==
    /\ token.signature.key = profile[SignerCertificate].key
    /\ token.signature.over = token.attributes

-----------------------------------------------------------------------------
\* The faults a token can have before its chain is walked, in the order the
\* code looks for them; Ess stands for SigningCertificate.
Order == <<
    "Malformed", "UnsupportedTstVersion", "UnexpectedExtensions",
    "UnsupportedImprintAlgorithm", "ImprintMismatch", "WrongSignerCount",
    "MissingCertificates", "InconsistentSignerVersion",
    "UnidentifiableSigner", "SignerCertificateNotFound",
    "AmbiguousSignerCertificate", "MissingSignedAttributes",
    "UnsupportedDigestAlgorithm", "MalformedContentType",
    "ContentTypeMismatch", "MalformedMessageDigest",
    "MessageDigestMismatch", "MalformedEss", "EssMismatch",
    "MalformedEssV2", "UnsupportedCertificateHash", "EssV2Mismatch",
    "MissingSigningCertificateAttribute", "UnsupportedSignature",
    "InvalidSignature", "NoTrustAnchors", "MalformedTrustInput">>

TokenTypeOK ==
    /\ TrustTypeOK
    /\ token \in Token
    /\ profile \in [Cert -> Profile]
    /\ statements \subseteq Statement
    /\ readable \in BOOLEAN
    /\ phase \in {"content", "chain", "done"}
    /\ outcome \in {"judging", "accepted", "UntrustedChain",
                   "UnfitExtendedKeyUsage", "ForbiddenKeyUsage"}
                      \cup Range(Order)

\* Of the token and of the trust input.
Outside(fault) ==
    LET content == token.content
    IN  CASE fault = "Malformed" -> token.shape # "token"
          [] fault = "UnsupportedTstVersion" -> content.version # 1
          [] fault = "UnexpectedExtensions" -> content.extended
          [] fault = "UnsupportedImprintAlgorithm" ->
                 content.imprint[1] \notin Family
          [] fault = "ImprintMismatch" -> content.imprint[2] # Ours
          [] fault = "WrongSignerCount" -> token.signers # 1
          [] fault = "MissingCertificates" -> embedded = <<>>
          [] fault = "InconsistentSignerVersion" ->
                 token.version # (IF token.sid.form = "serial" THEN 1 ELSE 3)
          [] fault = "UnidentifiableSigner" -> Unidentifiable
          [] fault = "SignerCertificateNotFound" -> Matches = {}
          [] fault = "AmbiguousSignerCertificate" ->
                 \E j, k \in Matches : j # k
          [] fault = "MissingSignedAttributes" -> token.attributes = None
          [] fault = "UnsupportedDigestAlgorithm" -> token.digest \notin Family
          [] fault = "NoTrustAnchors" -> anchors = <<>>
          [] fault = "MalformedTrustInput" -> ~readable
          [] OTHER -> FALSE

\* Of the signed attributes and their signature, once both are found.
Inside(fault) ==
    LET said == token.attributes
    IN  CASE fault = "MalformedContentType" -> ~Single(said.contentType)
          [] fault = "ContentTypeMismatch" ->
                 Single(said.contentType)
                     /\ TheValue(said.contentType) # "TSTInfo"
          [] fault = "MalformedMessageDigest" -> ~Single(said.messageDigest)
          [] fault = "MessageDigestMismatch" ->
                 Single(said.messageDigest)
                     /\ TheValue(said.messageDigest)
                            # Digest(token.digest, token.content)
          [] fault = "MalformedEss" -> EssMalformed(said.ess)
          [] fault = "EssMismatch" -> EssMismatched(said.ess)
          [] fault = "MalformedEssV2" -> EssMalformed(said.essV2)
          [] fault = "UnsupportedCertificateHash" -> EssUnsupported(said.essV2)
          [] fault = "EssV2Mismatch" -> EssV2Mismatched(said.essV2)
          [] fault = "MissingSigningCertificateAttribute" -> EssMissing(said)
          [] fault = "UnsupportedSignature" -> ~SignatureSupported
          [] fault = "InvalidSignature" -> ~SignatureVerifies
          [] OTHER -> FALSE

Has(fault) ==
    \/ Outside(fault)
    \/ Matches # {} /\ token.attributes # None /\ Inside(fault)

\* The places in Order of what is wrong with the token.
Faults == {k \in DOMAIN Order : Has(Order[k])}

-----------------------------------------------------------------------------
\* The walk's own variables before any certificate is found.
TokenStart ==
    /\ TrustStart
    /\ phase = "content"
    /\ outcome = "judging"

\* The first fault is the one reported, and ends the verification.
RefuseContent ==
    /\ phase = "content"
    /\ \E first \in Faults :
           /\ \A k \in Faults : first <= k
           /\ outcome' = Order[first]
    /\ phase' = "done"
    /\ UNCHANGED <<trustVars, tokenInput>>

\* Everything the token says agrees; the walk starts at its signer.
FindSigner ==
    /\ phase = "content"
    /\ Faults = {}
    /\ phase' = "chain"
    /\ signer' = SignerCertificate
    /\ current' = SignerCertificate
    /\ path' = <<SignerCertificate>>
    /\ UNCHANGED <<certificate, signs, crls, anchors, embedded, sealed,
                   below, verdict, tokenInput, outcome>>

WalkOn ==
    /\ phase = "chain"
    /\ TrustNext
    /\ UNCHANGED <<tokenInput, phase, outcome>>

Finish(result) ==
    /\ phase' = "done"
    /\ outcome' = result
    /\ UNCHANGED <<trustVars, tokenInput>>

RefuseChain ==
    /\ phase = "chain"
    /\ verdict = "refused"
    /\ Finish("UntrustedChain")

\* ensure_time_stamping_usage, once the chain stands.
JudgeUsage ==
    /\ phase = "chain"
    /\ verdict = "trusted"
    /\ \/ ~profile[signer].dedicated /\ Finish("UnfitExtendedKeyUsage")
       \/ /\ profile[signer].dedicated /\ ~profile[signer].mayStamp
          /\ Finish("ForbiddenKeyUsage")
       \/ /\ profile[signer].dedicated /\ profile[signer].mayStamp
          /\ Finish("accepted")

TokenNext ==
    \/ RefuseContent
    \/ FindSigner
    \/ WalkOn
    \/ RefuseChain
    \/ JudgeUsage

(***************************************************************************)
(* What is known of statements: signatures cannot be made without the key, *)
(* and an authority that signs attributes that decode says the truth in    *)
(* them: the type and the digest of what it stamps, and the certificate it *)
(* does so under.                                                          *)
(***************************************************************************)
Unforged ==
    \E s \in statements :
        token.signature = [key |-> profile[s.certificate].key,
                           over |-> s.attributes]

SpeaksOf(instances, c) ==
    Decodes(instances) => TheValue(instances)[1].hash[2] = c

Truthful(s) ==
    LET said == s.attributes
    IN  /\ Single(said.contentType) => TheValue(said.contentType) = s.kind
        /\ Single(said.messageDigest) =>
               TheValue(said.messageDigest)[2] = s.content
        /\ SpeaksOf(said.ess, s.certificate)
        /\ SpeaksOf(said.essV2, s.certificate)

TokenSpec ==
    /\ TokenTypeOK /\ TokenStart
    /\ Unforged /\ \A s \in statements : Truthful(s)
    /\ [][TokenNext]_tokenVars
    /\ WF_tokenVars(TokenNext)

-----------------------------------------------------------------------------
(***************************************************************************)
(* Nobody else's word: an accepted token carries what the authority of its *)
(* signer certificate itself stated, as a time stamp, under that very      *)
(* certificate, over a digest of this manifest; and that certificate has   *)
(* a certification path and a key kept for time stamping.  No token put    *)
(* together from parts of several statements is accepted as another one.   *)
(***************************************************************************)
Stated(s, c) ==
    /\ s.kind = "TSTInfo"
    /\ s.certificate = c
    /\ s.content = token.content
    /\ s.attributes = token.attributes
    /\ \E f \in Family : s.content.imprint = Digest(f, Ours)

AcceptedWasStated ==
    outcome = "accepted" =>
        /\ \E s \in statements : Stated(s, signer)
        /\ CertificationPath(path)
        /\ profile[signer].dedicated

(***************************************************************************)
(* A token as RFC 3161 and RFC 5816 have an authority issue it under the   *)
(* certificate c: with either ESS generation or both, the certificate      *)
(* named in them or only hashed, any supported digest, and the signer      *)
(* referred to in either way that tells c from the rest of the token.      *)
(***************************************************************************)
EssOf(c) == {<<>>} \cup
    {<<<<<<[algorithm |-> Legacy, hash |-> Digest(Legacy, c), name |-> n]>>>>>> :
        n \in {None, profile[c].name}}

EssV2Of(c) == {<<>>} \cup
    {<<<<<<[algorithm |-> f, hash |-> Digest(f, c), name |-> n]>>>>>> :
        f \in Family \cup {Legacy}, n \in {None, profile[c].name}} \cup
    {<<<<<<[algorithm |-> None, hash |-> Digest(Default, c), name |-> n]>>>>>> :
        n \in {None, profile[c].name}}

Conformant ==
    \E s \in statements :
        LET c == s.certificate
        IN  /\ Stated(s, c)
            /\ s.content.version = 1 /\ ~s.content.extended
            /\ s.attributes \in
                   [contentType : {<<<<"TSTInfo">>>>},
                    messageDigest : {<<<<Digest(s.digest, s.content)>>>>},
                    ess : EssOf(c), essV2 : EssV2Of(c)]
            /\ s.attributes.ess # <<>> \/ s.attributes.essV2 # <<>>
            /\ profile[c].dedicated /\ profile[c].mayStamp
            /\ token.shape = "token" /\ token.signers = 1
            /\ token.signature = [key |-> profile[c].key, over |-> s.attributes]
            /\ token.digest = s.digest
            /\ token.scheme.form = "bare" /\ token.scheme.clean
            /\ token.version = IF token.sid.form = "serial" THEN 1 ELSE 3
            /\ \E k \in DOMAIN embedded :
                   embedded[k] = c /\ Matches = {k}
            /\ ~Unidentifiable

(***************************************************************************)
(* A conformant token over this manifest is refused for its chain or for   *)
(* the trust input alone.                                                  *)
(***************************************************************************)
ConformantIsRefusedForTrustOnly ==
    outcome \notin {"judging", "accepted", "UntrustedChain",
                    "NoTrustAnchors", "MalformedTrustInput"} => ~Conformant

(***************************************************************************)
(* Every token gets its verdict, whatever it is made of and however the    *)
(* certificates of the pool sign each other.                               *)
(***************************************************************************)
VerdictComes == <>(outcome # "judging")
=============================================================================
