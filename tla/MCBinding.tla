----------------------------- MODULE MCBinding ------------------------------
(***************************************************************************)
(* What a stamp gathers before it asks for tokens and with them: the       *)
(* groups it binds, and the CRLs of the chains on record.  Neither touches *)
(* the other, so that a behaviour is about one of them.                    *)
(*                                                                         *)
(* Every history of four commits, walked from its last commit, from that   *)
(* commit's parents and from its last two: any of the commits may be       *)
(* stamps, inherit a manifest, or amend one another; payloads sort in any  *)
(* order; one commit may be unreadable or carry artifacts that do not      *)
(* parse.  Next to them, every relation among four groups or fewer, cycles *)
(* and invalid edges included, for the loop that orders them.              *)
(*                                                                         *)
(* For the CRLs, two issuers, one with a second server, two stamps and two *)
(* editions, and chains that share issuers or cannot be followed.          *)
(***************************************************************************)
EXTENDS Binding, Ltv

VARIABLE subject   \* "groups" or "crls"

Commits  == 1..4
Payloads == 1..4

Older(c) == 1..(c - 1)

ParentLists(c) ==
    {<<>>} \cup {<<q>> : q \in Older(c)}
           \cup {<<q, r>> : q \in Older(c), r \in Older(c)}

Ancestors(lists) ==
    LET past[c \in Commits] ==
            {c} \cup UNION {past[q] : q \in Range(lists[c])}
    IN  past

\* What git merges: commits neither of which is behind the other.
Merges(lists, list) ==
    Len(list) = 2 =>
        /\ list[1] \notin Ancestors(lists)[list[2]]
        /\ list[2] \notin Ancestors(lists)[list[1]]

Histories ==
    {h \in {<<a, b, c, d>> : a \in ParentLists(1), b \in ParentLists(2),
                             c \in ParentLists(3), d \in ParentLists(4)} :
        \A c \in Commits : Merges(h, h[c])}

\* The stamp whose manifest each commit carries; 0 for none.
Origins ==
    {o \in [Commits -> 0..4] : \A c \in Commits :
        \/ o[c] \in {0, c}
        \/ /\ o[c] < c /\ o[o[c]] = o[c]
           /\ \/ \E q \in Range(parents[c]) : o[q] = o[c]
              \/ parents[c] = parents[o[c]]}

\* The stamps' payloads: every order of as many as there are.
Renamings(o) ==
    {f \in [0..4 -> Payloads] :
        LET used == Range(o) \ {0}
        IN  /\ IsInjective(Restrict(f, used))
            /\ \A k \in used : f[k] <= Cardinality(used)
            /\ \A k \in (0..4) \ used : f[k] = 1}

HistoryInit ==
    /\ parents \in Histories
    /\ \E o \in Origins :
           /\ claims = {c \in Commits : o[c] # 0}
           /\ sealers = {c \in claims : o[c] = c \/ parents[c] = parents[o[c]]}
           /\ \E f \in Renamings(o) : manifestOf = [c \in Commits |-> f[o[c]]]
    /\ binds = UNION {{<<manifestOf[c], manifestOf[d]>> :
                          d \in LinesBehind(parents[c]) \cap claims} :
                      c \in sealers}
    /\ \E lost \in {0, 1} :
           \/ stored = Commits \ {lost} /\ unparsable = {}
           \/ stored = Commits /\ unparsable = {lost} \cap claims
    /\ starts \in {s \in {<<4>>, <<3, 4>>, parents[4]} : Merges(parents, s)}
    /\ BindingInit

\* A few invalid relations next to all those of distinct groups.
Relations ==
    SUBSET {e \in Payloads \X Payloads : e[1] # e[2]}
        \cup {{<<1, 1>>}, {<<1, 2>>, <<2, 2>>}}

NoHistory ==
    /\ parents = [c \in Commits |-> <<>>]
    /\ claims = {} /\ sealers = {} /\ unparsable = {} /\ binds = {}
    /\ manifestOf = [c \in Commits |-> 1]
    /\ stored = Commits
    /\ starts = <<>> /\ frontier = <<>> /\ claiming = <<>>
    /\ visited = {}
    /\ walk = "found"

OrderInit ==
    /\ NoHistory
    /\ groups \in SUBSET Payloads
    /\ edges \in {r \in Relations : r \subseteq groups \X groups
                                    \/ Cardinality(r) = 1}
    /\ OrderStart

\* No groups, in order already.
CrlsInit ==
    /\ NoHistory
    /\ groups = {} /\ edges = {} /\ slots = {}
    /\ ordered = <<>>
    /\ outcome = "ordered"

-----------------------------------------------------------------------------
MCPublishes == [uri \in {"a", "mirror", "b"} |-> IF uri = "b" THEN "B" ELSE "A"]

Points(points) == [extension |-> "points", points |-> points]

OfA == Points(<<"a", "mirror">>)
OfB == Points(<<"other", "b">>)
Elsewhere == Points(<<"other">>)
Root == [extension |-> "absent", points |-> <<>>]
Garbled == [extension |-> "malformed", points |-> <<>>]

Sent(shape, signer, chain) ==
    [shape |-> shape, signer |-> signer, chain |-> chain]

MCSendable ==
    {Sent("plain", "A", <<OfA, Root>>), Sent("plain", "B", <<OfB, OfA>>),
     Sent("plain", "A", <<OfA, Elsewhere>>),
     Sent("NotSignedData", "A", <<>>)}

Records(a, b) == [i \in {"A", "B"} |-> IF i = "A" THEN a ELSE b]

MCDeposited ==
    {Records(NoFile, NoFile), Records(<<>>, NoFile),
     Records(<<OfA>>, <<Points(<<"mirror">>), Garbled>>),
     Records(<<OfA, Points(<<"mirror">>)>>, <<OfB, OfA>>)}

-----------------------------------------------------------------------------
NothingDeposited ==
    LtvStart /\ disk.chains = Records(NoFile, NoFile) /\ ~stray

AboutGroups == subject = "groups" /\ BindingNext /\ UNCHANGED ltvVars

\* Two tokens of one stamp.
AboutCrls ==
    /\ subject = "crls"
    /\ LtvNext
    /\ Len(harvests') <= 2
    /\ UNCHANGED bindingVars

MCVars == <<subject, bindingVars, ltvVars>>

MCNext == (AboutGroups \/ AboutCrls) /\ UNCHANGED subject

MCHistorySpec ==
    /\ HistoryInit /\ NothingDeposited /\ subject = "groups"
    /\ [][MCNext]_MCVars
    /\ WF_MCVars(AboutGroups /\ UNCHANGED subject)

MCSpec ==
    /\ \/ HistoryInit /\ NothingDeposited /\ subject = "groups"
       \/ OrderInit /\ NothingDeposited /\ subject = "groups"
       \/ CrlsInit /\ LtvStart /\ subject = "crls"
    /\ [][MCNext]_MCVars
    /\ WF_MCVars(AboutGroups /\ UNCHANGED subject)
=============================================================================
