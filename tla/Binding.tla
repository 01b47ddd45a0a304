------------------------------ MODULE Binding -------------------------------
(***************************************************************************)
(* bind::run of crates/tydence/src/stamp/bind.rs: the binding set of a new *)
(* stamp.  The nearest claims behind its parents are collected (ClaimWalk),*)
(* claims with the same manifest become one group, the bound manifests     *)
(* tell which group binds which (derive_binding_edges), and the groups are *)
(* put in canonical order (BindingOrder).                                  *)
(*                                                                         *)
(* A manifest is its past-manifest payload.                                *)
(***************************************************************************)
EXTENDS ClaimWalk, BindingOrder, Relation

VARIABLES
    sealers,     \* the commits of the history that are stamps themselves
    manifestOf,  \* the manifest in the tree of each claiming commit
    unparsable,  \* the claims whose artifacts do not read or parse
    binds        \* pairs of manifests: whose binding groups hold whose

stamps == <<sealers, manifestOf, unparsable, binds>>
bindingVars == <<walkVars, orderVars, stamps>>

-----------------------------------------------------------------------------
(***************************************************************************)
(* The histories the sealing flow and git leave behind.  A stamp binds the *)
(* nearest claims behind its parents.  A claiming commit that is no stamp  *)
(* inherited the manifest of a parent.  Two stamps have one manifest only  *)
(* if they amend each other: same parents, and the same content.           *)
(***************************************************************************)
HistoryOfStamps ==
    /\ sealers \subseteq claims
    /\ unparsable \subseteq claims
    /\ \A c \in claims \ sealers :
           \E q \in Range(parents[c]) \cap claims :
               manifestOf[c] = manifestOf[q]
    /\ \A c, d \in sealers :
           manifestOf[c] = manifestOf[d] => parents[c] = parents[d]
    /\ binds = UNION {{<<manifestOf[c], manifestOf[d]>> :
                          d \in LinesBehind(parents[c]) \cap claims} :
                      c \in sealers}

BindingInit ==
    /\ HistoryOfStamps
    /\ WalkStart
    /\ groups = {}
    /\ edges = {}
    /\ slots = {}
    /\ ordered = <<>>
    /\ outcome = "waiting"

\* Broken on purpose: groups outside the binding set count.
EdgesOutOfTheSet(set) == {e \in binds : e[1] \in set}

\* One edge for every group whose manifest carries another group's hashes.
DeriveBindingEdges(set) ==
    {e \in binds : e[1] \in set /\ e[2] \in set /\ e[1] # e[2]}

\* deduplicate_stamps: one group per manifest, whatever claims carry it.
Deduplicated(commits) == {manifestOf[c] : c \in commits}

ReadStamps ==
    /\ walk = "found"
    /\ outcome = "waiting"
    /\ Range(claiming) \cap unparsable = {}
    /\ groups' = Deduplicated(Range(claiming))
    /\ edges' = DeriveBindingEdges(groups')
    /\ slots' = groups'
    /\ ordered' = <<>>
    /\ outcome' = IF EdgesAreValid' THEN "ordering" ELSE "invalid"
    /\ UNCHANGED <<walkVars, stamps>>

\* One claim that cannot be read or parsed fails the whole set.
RefuseUnreadable ==
    /\ walk = "found"
    /\ outcome = "waiting"
    /\ Range(claiming) \cap unparsable # {}
    /\ outcome' = "unreadable"
    /\ UNCHANGED <<walkVars, input, slots, ordered, stamps>>

BindingNext ==
    \/ WalkNext /\ UNCHANGED <<orderVars, stamps>>
    \/ ReadStamps
    \/ RefuseUnreadable
    \/ OrderNext /\ UNCHANGED <<walkVars, stamps>>

BindingSpec ==
    BindingInit /\ [][BindingNext]_bindingVars /\ WF_bindingVars(BindingNext)

-----------------------------------------------------------------------------
(***************************************************************************)
(* A history made by the flow never defeats its own ordering: whatever was *)
(* merged, inherited or amended, the edges derived from the bound          *)
(* manifests are valid and have no cycle, and each of these manifests is   *)
(* bound exactly once.                                                     *)
(***************************************************************************)
HistoriesAreOrderable ==
    claiming # <<>> =>
        /\ outcome \notin {"invalid", "cycle"}
        /\ outcome = "ordered" =>
               /\ IsInjective(ordered)
               /\ Range(ordered) = {manifestOf[c] : c \in Range(claiming)}

(***************************************************************************)
(* The binding set gets an answer on every history, however often its      *)
(* lines meet again.                                                       *)
(***************************************************************************)
BindingEnds ==
    <>(walk = "failed"
       \/ outcome \in {"ordered", "cycle", "invalid", "unreadable"})

BindsTransitively ==
    TransitiveClosure([e \in Payload \X Payload |-> e \in binds], Payload)

(***************************************************************************)
(* stamping.md 4.1: "every group precedes the groups whose stamps its own  *)
(* manifest transitively binds".                                           *)
(***************************************************************************)
FollowsTransitiveBinding ==
    outcome = "ordered" =>
        \A i, j \in DOMAIN ordered :
            BindsTransitively[ordered[i], ordered[j]] => i < j
=============================================================================
