--------------------------- MODULE MCTokenVerdict ---------------------------
(***************************************************************************)
(* Two sides of a verdict.  Either a sound token meets every chain of      *)
(* MCTrustPath: every relation of who signed whom, embedded, sealed or     *)
(* absent intermediates, flaws of certificates and CRLs.  Or the chain is  *)
(* sound and short, and the token is put together from the statements of   *)
(* two authorities that share a key, one of them sloppy.                   *)
(***************************************************************************)
EXTENDS TokenVerdict, MCTrustPath

CONSTANTS ours, theirs, sha256, sha512, sha1, foreign

\* ca2 is the leaf's twin: another certificate for the same key, with a key
\* identifier of its own, or one that is shared, or unreadable.
Profiles ==
    LET plain == [c \in Cert |-> [name |-> c, keyId |-> c, key |-> c,
                                 dedicated |-> TRUE, mayStamp |-> TRUE]]
        twins == [plain EXCEPT ![ca2].key = leaf]
    IN  [plain |-> plain,
         twins |-> {twins, [twins EXCEPT ![ca2].keyId = leaf]},
         unfit |-> {[twins EXCEPT ![ca2].keyId = Foreign],
                    [twins EXCEPT ![leaf].dedicated = FALSE],
                    [twins EXCEPT ![leaf].mayStamp = FALSE]}]

Stamp(manifest, serial) ==
    [version |-> 1, extended |-> FALSE, serial |-> serial,
     imprint |-> Digest(sha256, manifest)]

Identify(c, algorithm, name) ==
    <<<<<<[algorithm |-> algorithm, name |-> name,
           hash |-> Digest(IF algorithm = None THEN Default ELSE algorithm,
                           c)]>>>>>>

Say(content, digest, ess, essV2) ==
    [contentType |-> <<<<"TSTInfo">>>>,
     messageDigest |-> <<<<Digest(digest, content)>>>>,
     ess |-> ess, essV2 |-> essV2]

State(c, content, attributes) ==
    [certificate |-> c, kind |-> "TSTInfo", content |-> content,
     digest |-> sha256, attributes |-> attributes]

Plain(c, content) ==
    State(c, content, Say(content, sha256, <<>>, Identify(c, None, c)))

Usual == Plain(leaf, Stamp(ours, 1))

\* What a sloppy authority signs beside the usual.
Odd ==
    LET said == Usual.attributes
        content == Usual.content
    IN  {Say(content, sha256, Identify(leaf, sha1, None), <<>>),
         Say(content, sha256, Identify(leaf, sha1, leaf),
             Identify(leaf, sha512, None)),
         Say(content, sha256, Identify(leaf, sha1, leaf),
             Identify(ca2, sha256, None)),
         Say(content, sha256, Identify(ca2, sha1, ca2), Identify(leaf, None, leaf)),
         Say(content, sha256, Identify(leaf, sha1, ca2), <<>>),
         Say(content, sha256, <<>>, Identify(leaf, sha1, None)),
         Say(content, sha256, <<>>, Identify(leaf, foreign, None)),
         Say(content, sha256, <<>>, Identify(leaf, sha256, foreign)),
         Say(content, sha256, <<>>, <<>>),
         [said EXCEPT !.contentType = <<>>],
         [said EXCEPT !.contentType = <<<<"TSTInfo">>, <<"TSTInfo">>>>],
         [said EXCEPT !.contentType = <<<<"TSTInfo", "other">>>>],
         [said EXCEPT !.messageDigest = <<>>],
         [said EXCEPT !.messageDigest =
              <<<<Digest(sha256, content), Digest(sha512, content)>>>>],
         [said EXCEPT !.ess = <<<<>>>>],
         [said EXCEPT !.ess = <<<<foreign>>>>],
         [said EXCEPT !.essV2 = <<<<<<>>>>>>],
         [said EXCEPT !.essV2 = said.essV2 \o said.essV2]}

Statements ==
    {Usual, Plain(leaf, Stamp(ours, 2)), Plain(leaf, Stamp(theirs, 1)),
     Plain(ca2, Stamp(ours, 1)),
     Plain(leaf, [Usual.content EXCEPT !.version = 2]),
     Plain(leaf, [Usual.content EXCEPT !.extended = TRUE]),
     Plain(leaf, [Usual.content EXCEPT !.imprint = Digest(sha1, ours)]),
     [Usual EXCEPT !.kind = "other",
                   !.attributes.contentType = <<<<"other">>>>]}
        \cup {State(leaf, Usual.content, attributes) : attributes \in Odd}

AsIssued(s) ==
    [shape |-> "token", content |-> s.content, signers |-> 1, version |-> 1,
     sid |-> [form |-> "serial", id |-> s.certificate],
     attributes |-> s.attributes, digest |-> s.digest,
     scheme |-> [form |-> "bare", folds |-> s.digest, clean |-> TRUE],
     signature |-> [key |-> leaf, over |-> s.attributes]]

\* The parts of a token taken from several statements.
Assembled ==
    {[AsIssued(s) EXCEPT !.content = other.content,
                         !.attributes = said,
                         !.sid = sid,
                         !.version = IF sid.form = "serial" THEN 1 ELSE 3,
                         !.digest = digest,
                         !.scheme = [form |-> form, folds |-> sha256,
                                     clean |-> TRUE]] :
        s \in Statements,
        other \in {Usual, Plain(leaf, Stamp(ours, 2)),
                   Plain(leaf, Stamp(theirs, 1))},
        said \in {Usual.attributes, Plain(ca2, Stamp(ours, 1)).attributes},
        sid \in [form : {"serial", "keyId"}, id : {leaf, ca2}],
        digest \in {sha256, sha512, foreign},
        form \in {"bare", "folded", "foreign"}}

Reused ==
    {[AsIssued(s) EXCEPT !.sid = sid, !.version = version] :
        s \in Statements,
        sid \in [form : {"serial", "keyId"}, id : {leaf, ca2}],
        version \in {1, 3}}

Odds ==
    LET sound == AsIssued(Usual)
    IN  {[sound EXCEPT !.shape = "other"], [sound EXCEPT !.signers = 0],
         [sound EXCEPT !.signers = 2], [sound EXCEPT !.attributes = None],
         [sound EXCEPT !.scheme.clean = FALSE],
         [sound EXCEPT !.signature.key = ca1]}

SoundChain ==
    /\ certificate = Limited(None, None)
    /\ signs = {<<ca1, leaf>>, <<ca1, ca2>>, <<root, ca1>>}
    /\ crls = AllCurrent
    /\ sealed = <<ca1>>
    /\ signer = leaf

AnyToken ==
    /\ SoundChain
    /\ statements = Statements
    /\ \/ /\ token \in Assembled
          /\ profile \in Profiles.twins
          /\ embedded = <<leaf, ca2>> /\ anchors = <<root>>
          /\ readable = TRUE
       \/ /\ token \in Reused \cup Odds
          /\ profile \in Profiles.twins \cup Profiles.unfit
          /\ embedded \in {<<leaf, ca2>>, <<leaf>>, <<ca2>>, <<>>, <<leaf, leaf>>}
          /\ anchors \in {<<root>>, <<>>}
          /\ readable \in BOOLEAN

AnyChain ==
    /\ AnyPool
    /\ profile = Profiles.plain
    /\ statements = {Usual}
    /\ token = AsIssued(Usual)
    /\ readable = TRUE

MCTokenInit == (AnyToken \/ AnyChain) /\ TokenStart

MCTokenSpec ==
    MCTokenInit /\ [][TokenNext]_tokenVars /\ WF_tokenVars(TokenNext)
=============================================================================
