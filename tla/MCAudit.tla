------------------------------ MODULE MCAudit -------------------------------
(***************************************************************************)
(* Small instances of Audit for TLC.                                       *)
(***************************************************************************)
EXTENDS Audit

CONSTANTS s1, s2, ours

(***************************************************************************)
(* Histories are tampered with or long: three commits under everything     *)
(* that can be done to them, four when two stamps come first, on one line  *)
(* or on two, and are then merged or rewritten, pruned and audited.        *)
(***************************************************************************)
LongOrTampered ==
    Len(commits) <= 3 \/
        /\ \A c \in {2, 3} : commits[c].by = "stamp"
        /\ commits[4].by = "replay" \/ Len(commits[4].parents) = 2
        /\ \A s \in Site : work[s] \in {None, "decides"}
=============================================================================
