---------------------------- MODULE MCTrustPath -----------------------------
(***************************************************************************)
(* A signer, two intermediates and a root: every relation of who signed    *)
(* whom below the root, every way the intermediates are embedded, sealed   *)
(* or absent, one of them or the signer itself an anchor or not, path      *)
(* length limits, and at most one thing wrong with a certificate or a CRL. *)
(***************************************************************************)
EXTENDS TrustPath

CONSTANTS leaf, ca1, ca2, root

Sound == [from |-> 0, to |-> 2, screened |-> TRUE, authority |-> TRUE,
          limit |-> None, signsCrls |-> TRUE]

\* What may be wrong with one certificate.
Flawed ==
    {[Sound EXCEPT !.from = 2], [Sound EXCEPT !.to = 0],
     [Sound EXCEPT !.screened = FALSE], [Sound EXCEPT !.authority = FALSE],
     [Sound EXCEPT !.signsCrls = FALSE]}

Limited(limit1, limit2) ==
    [c \in Cert |-> [Sound EXCEPT !.limit =
        IF c = ca1 THEN limit1 ELSE IF c = ca2 THEN limit2 ELSE None]]

Certificates ==
    {Limited(l1, l2) : l1, l2 \in {None, 0, 1}}
        \cup {[Limited(None, None) EXCEPT ![c] = flawed] :
                  c \in Cert, flawed \in Flawed}

Current(issuer) ==
    [issuers |-> {issuer}, thisUpdate |-> 1, nextUpdate |-> 1,
     entries |-> {}]

Issuers == {ca1, ca2, root}
AllCurrent == {Current(i) : i \in Issuers}

\* One issuer's CRL is missing, overdue, without nextUpdate, late or later
\* than the certificates last; or it has an entry.
Snapshots ==
    {AllCurrent} \cup
    UNION {LET others == {Current(j) : j \in Issuers \ {i}}
           IN  {others} \cup
               {others \cup {[Current(i) EXCEPT !.nextUpdate = next,
                                                !.thisUpdate = this]} :
                   <<next, this>> \in {<<None, 0>>, <<0, 0>>, <<2, 2>>, <<2, 3>>}}
                   \cup
               {others \cup {[Current(i) EXCEPT !.entries =
                   {[certificate |-> c, date |-> said[1], reason |-> said[2]]}]} :
                   c \in {leaf, ca1, ca2} \ {i},
                   said \in {<<1, "tolerated">>, <<2, "tolerated">>,
                             <<2, "disqualifying">>, <<2, "opaque">>}} :
           i \in Issuers}

Embeddings ==
    {<<e, s>> \in {<<>>, <<ca1>>, <<ca1, ca2>>, <<ca2, ca1>>}
                  \X {<<>>, <<ca1>>, <<ca2>>} :
        Range(e) \cap Range(s) = {}}

Signatures == {<<i, c>> \in Issuers \X {leaf, ca1, ca2} : i # c}

AnyPool ==
    /\ \/ signs \in SUBSET Signatures /\ anchors \in {<<root>>, <<root, ca2>>}
       \/ signs = Signatures /\ anchors = <<root, leaf>>
    /\ \E p \in Embeddings : embedded = <<leaf>> \o p[1] /\ sealed = p[2]
    /\ signer = leaf
    /\ \/ certificate \in Certificates /\ crls = AllCurrent
       \/ certificate = Limited(None, None) /\ crls \in Snapshots
          /\ anchors = <<root>>
=============================================================================
