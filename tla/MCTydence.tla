----------------------------- MODULE MCTydence ------------------------------
(***************************************************************************)
(* Small instances of Tydence for TLC.  The number and the kind of sites,  *)
(* the bounds and the user's habits are set per configuration.             *)
(***************************************************************************)
EXTENDS Tydence, TLC

CONSTANTS p1, p2, siteA, siteB, issuerX, ours, theirs

OneIssuer == [s \in Site |-> issuerX]

\* Profiles: one site, the other, both.
OnlyA    == {<<siteA>>}
EachSite == {<<siteA>>, <<siteB>>, <<siteA, siteB>>}

NoFaults == {}
SyncFault == {"sync"}
AnyFault == StampSteps \cup CheckoutSteps

Guarded  == Habits \ {"commit unguarded"}
Branches == {"commit", "commit unguarded", "drop", "reset"}
Beside   == {"commit", "restore", "drop"}
Alone    == {}

(***************************************************************************)
(* Histories are long or the world changes, not both: five commits while   *)
(* no time passes and no certificate is replaced, three otherwise.         *)
(***************************************************************************)
LongOrChanging ==
    Len(commits) <= 3 \/ (now = 0 /\ \A s \in Site : gen[s] = 0)

Contents  == Permutations(Content)
Processes == Permutations(Proc)
=============================================================================
