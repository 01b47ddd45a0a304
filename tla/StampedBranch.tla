--------------------------- MODULE StampedBranch ----------------------------
(***************************************************************************)
(* What `tydence stamp` promises whoever reads the repository afterwards:  *)
(* a stamp is one step, from the tip the branch is at to a commit on top   *)
(* of it, or in its place, that has the tip's content, loses none of its   *)
(* records, and claims what it holds, whom it descends from and which      *)
(* stamps it binds; and nothing but that step makes evidence.  An          *)
(* ordinary commit at most repeats a claim that was made, with tokens that *)
(* came with it.  How a stamp is made, by how many invocations at once and *)
(* how many of them die on the way, is not said here.                      *)
(***************************************************************************)
EXTENDS Naturals, Sequences

CONSTANTS
    Content,  \* what the files outside .tydence/ hold
    Record,   \* the paths of the LTV records
    Site      \* who can vouch for a claim

VARIABLES
    story,    \* the commits, in the order they were written; claims is
              \* empty, or holds the one claim a commit makes
    tip       \* the commit the branch is at

branchVars == <<story, tip>>

-----------------------------------------------------------------------------
Claimed(c) == story[c].claims # {}

\* The claim on each line of history that is next to the starting commits.
Nearest(starts) ==
    LET nearest[c \in DOMAIN story] ==
            IF Claimed(c) THEN {c}
            ELSE UNION {nearest[q] : q \in story[c].parents}
    IN  UNION {nearest[c] : c \in starts}

\* What a stamp may bind: a nearest claim for each claim that is made there.
Bindings(starts) ==
    {binds \in SUBSET Nearest(starts) :
        \A c \in Nearest(starts) :
            \E d \in binds : story[d].claims = story[c].claims}

-----------------------------------------------------------------------------
BranchInit ==
    /\ \E content \in Content :
           story = <<[parents |-> {}, content |-> content, records |-> {},
                      claims |-> {}, vouched |-> {}]>>
    /\ tip = 1

\* The branch moves to a commit that has just been written.
Grow(commit) ==
    /\ tip' = Len(story) + 1
    /\ story' = Append(story, commit)

Newest == story'[tip']

\* A stamp of the tip, or one in its place if it amends.
Stamp ==
    /\ Grow(Newest)
    /\ Newest.parents \in {{tip}, story[tip].parents}
    /\ Newest.content = story[tip].content
    /\ Newest.records \in SUBSET Record
    /\ story[tip].records \subseteq Newest.records
    /\ \E binds \in Bindings(Newest.parents) :
           Newest.claims = {[parents |-> Newest.parents,
                             content |-> Newest.content,
                             records |-> Newest.records,
                             binds   |-> binds]}
    /\ Newest.vouched \in (SUBSET Site) \ {{}}

\* An ordinary commit, a merge perhaps, of whatever the checkout held.
Commit ==
    /\ Grow(Newest)
    /\ tip \in Newest.parents
    /\ Newest.parents \subseteq DOMAIN story
    /\ Newest.content \in Content
    /\ Newest.records \in SUBSET Record
    /\ Newest.claims # {} =>
           \E c \in DOMAIN story : story[c].claims = Newest.claims
    /\ \A s \in Newest.vouched : \E c \in DOMAIN story :
           /\ Claimed(c)
           /\ story[c].claims = Newest.claims
           /\ s \in story[c].vouched

\* The branch is set back, or forth, to a commit that is there.
Move(c) ==
    /\ tip' = c
    /\ UNCHANGED story

BranchNext == Stamp \/ Commit \/ \E c \in DOMAIN story : Move(c)

Branch == BranchInit /\ [][BranchNext]_branchVars
=============================================================================
