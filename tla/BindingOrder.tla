---------------------------- MODULE BindingOrder ----------------------------
(***************************************************************************)
(* order_binding_groups of crates/tydence/src/manifest/order.rs: the loop  *)
(* that writes the binding groups of a manifest in canonical order.  A     *)
(* group is its past-manifest payload, a number here, because payloads are *)
(* compared and distinct (deduplicate_stamps sees to that).                *)
(***************************************************************************)
EXTENDS Naturals, Sequences, FiniteSets, Functions

CONSTANT Payload    \* sha256 payloads, in byte order

ASSUME PayloadAssumption == Payload \subseteq Nat

VARIABLES
    groups,   \* the groups to order
    edges,    \* pairs <<binder, bound>>
    slots,    \* the groups not emitted yet
    ordered,  \* the groups emitted, in order
    outcome   \* "ordering", "ordered", "cycle" or "invalid"

input == <<groups, edges>>
orderVars == <<input, slots, ordered, outcome>>

OrderTypeOK ==
    /\ groups \in SUBSET Payload /\ IsFiniteSet(groups)
    /\ edges \subseteq Payload \X Payload
    /\ slots \subseteq groups
    /\ ordered \in Seq(groups)
    /\ outcome \in {"ordering", "ordered", "cycle", "invalid"}

-----------------------------------------------------------------------------
\* names_two_distinct_groups, for every edge.
EdgesAreValid ==
    \A e \in edges : e[1] \in groups /\ e[2] \in groups /\ e[1] # e[2]

\* Edges that name a missing group, or one group twice, are refused.
OrderStart ==
    /\ slots = groups
    /\ ordered = <<>>
    /\ outcome = IF EdgesAreValid THEN "ordering" ELSE "invalid"

\* No group left binds it.
Emittable(g) ==
    /\ g \in slots
    /\ \A e \in edges : e[2] = g => e[1] \notin slots

\* Broken on purpose: any emittable group goes next.
EmitAny(g) ==
    /\ outcome = "ordering"
    /\ Emittable(g)
    /\ ordered' = Append(ordered, g)
    /\ slots' = slots \ {g}
    /\ UNCHANGED <<input, outcome>>

\* The smallest payload among the emittable groups goes next.
Emit(g) ==
    /\ outcome = "ordering"
    /\ Emittable(g)
    /\ \A h \in slots : Emittable(h) => g <= h
    /\ ordered' = Append(ordered, g)
    /\ slots' = slots \ {g}
    /\ UNCHANGED <<input, outcome>>

FindCycle ==
    /\ outcome = "ordering"
    /\ slots # {}
    /\ \A g \in slots : ~Emittable(g)
    /\ outcome' = "cycle"
    /\ UNCHANGED <<input, slots, ordered>>

Complete ==
    /\ outcome = "ordering"
    /\ slots = {}
    /\ outcome' = "ordered"
    /\ UNCHANGED <<input, slots, ordered>>

OrderNext == FindCycle \/ Complete \/ \E g \in slots : Emit(g)

OrderSpec == OrderTypeOK /\ OrderStart /\ [][OrderNext]_orderVars

-----------------------------------------------------------------------------
(***************************************************************************)
(* The declarative order of stamping.md 4.1: of all orderings in which     *)
(* every group precedes the groups it binds, the lexicographically         *)
(* smallest.                                                               *)
(***************************************************************************)
Orderings ==
    {t \in [1..Cardinality(groups) -> groups] :
        /\ \A g \in groups : \E i \in DOMAIN t : t[i] = g
        /\ \A i, j \in DOMAIN t : t[i] = t[j] => i = j
        /\ \A i, j \in DOMAIN t : <<t[i], t[j]>> \in edges => i < j}

\* Where s first differs from t, s is smaller.
NotAfter(s, t) ==
    \A k \in DOMAIN s \cap DOMAIN t :
        (\A i \in 1..(k - 1) : s[i] = t[i]) => s[k] <= t[k]

(***************************************************************************)
(* The greedy loop yields the declared minimum: its result is one of the   *)
(* orderings, none of them comes before it, and it reports a cycle only    *)
(* where no ordering exists at all.                                        *)
(***************************************************************************)
GreedyIsCanonical ==
    /\ outcome = "ordered" =>
           /\ ordered \in Orderings
           /\ \A t \in Orderings : NotAfter(ordered, t)
    /\ outcome = "cycle" => Orderings = {}
=============================================================================
