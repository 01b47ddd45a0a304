---------------------------- MODULE UnicodeRanges ----------------------------
(***************************************************************************)
(* crates/tydence-ucd: the table of the code points that a path field has  *)
(* to escape, made at build time from the lines of a Unicode data file     *)
(* (parse.rs, select.rs) and searched at run time (manifest/path.rs).      *)
(***************************************************************************)
EXTENDS Naturals, Sequences, SequencesExt

CONSTANTS
    DataLine,   \* lines of a data file
    Selected,   \* the categories that match the pattern
    LastPoint,  \* the last code point there is
    MaxData     \* bound on the number of lines

ASSUME UnicodeAssumption ==
    /\ \A line \in DataLine : line.first \in Nat /\ line.last \in Nat
    /\ LastPoint \in Nat

VARIABLES
    data,       \* the lines parsed so far
    order,      \* those lines in the order of the code points, as verified
    taken,      \* how many of them the selection has looked at
    table,      \* the merged ranges
    build       \* "parsing", "verifying", "selecting", "built" or "failed"

unicodeVars == <<data, order, taken, table, build>>

-----------------------------------------------------------------------------
\* binary_search_by over the table: the range it ends at is the answer.
Member(ranges, point) ==
    LET Ends[size \in 1..Len(ranges)] ==
            LET half == size \div 2
            IN  [base \in 1..(Len(ranges) + 1 - size) |->
                    IF size = 1 THEN base
                    ELSE IF point < ranges[base + half][1]
                    THEN Ends[size - half][base]
                    ELSE Ends[size - half][base + half]]
        found == ranges[Ends[Len(ranges)][1]]
    IN  ranges # <<>> /\ found[1] <= point /\ point <= found[2]

Ordered(k) == data[order[k]]

\* verify_partition's expected_first.
Expected == IF order = <<>> THEN 0 ELSE Ordered(Len(order)).last + 1

\* Broken on purpose: what lies between two selected ranges is not looked at.
MergedOver(merged, range) ==
    IF merged # <<>> /\ Last(merged)[2] < range.first
    THEN Append(Front(merged), <<Last(merged)[1], range.last>>)
    ELSE Append(merged, <<range.first, range.last>>)

Merged(merged, range) ==
    IF merged # <<>> /\ Last(merged)[2] + 1 = range.first
    THEN Append(Front(merged), <<Last(merged)[1], range.last>>)
    ELSE Append(merged, <<range.first, range.last>>)

-----------------------------------------------------------------------------
UnicodeStart ==
    /\ data = <<>> /\ order = <<>> /\ table = <<>>
    /\ taken = 0
    /\ build = "parsing"

ParseLine(line) ==
    /\ build = "parsing"
    /\ Len(data) < MaxData
    /\ line.category # "malformed"
    /\ data' = Append(data, line)
    /\ UNCHANGED <<order, taken, table, build>>

\* A line that is not understood fails the build.
RefuseData(line) ==
    /\ build = "parsing"
    /\ line.category = "malformed"
    /\ build' = "failed"
    /\ UNCHANGED <<data, order, taken, table>>

SortData ==
    /\ build = "parsing"
    /\ build' = "verifying"
    /\ UNCHANGED <<data, order, taken, table>>

\* The lines that come next in the order of the code points: the sort leaves
\* those of the same first code point in any order.
Least ==
    LET rest == DOMAIN data \ Range(order)
    IN  {i \in rest : \A j \in rest : data[i].first <= data[j].first}

\* verify_partition, one range at a time.
VerifyRange(i) ==
    /\ build = "verifying"
    /\ IF data[i].first = Expected /\ data[i].first <= data[i].last
       THEN order' = Append(order, i) /\ build' = build
       ELSE order' = order /\ build' = "failed"
    /\ UNCHANGED <<data, taken, table>>

PartitionEnds ==
    /\ build = "verifying"
    /\ Range(order) = DOMAIN data
    /\ build' = IF Expected = LastPoint + 1 THEN "selecting" ELSE "failed"
    /\ UNCHANGED <<data, order, taken, table>>

\* select::run, one range at a time.
SelectRange ==
    /\ build = "selecting"
    /\ taken < Len(order)
    /\ taken' = taken + 1
    /\ table' = IF Ordered(taken').category \in Selected
                THEN Merged(table, Ordered(taken')) ELSE table
    /\ UNCHANGED <<data, order, build>>

FinishTable ==
    /\ build = "selecting"
    /\ taken = Len(order)
    /\ build' = IF table = <<>> THEN "failed" ELSE "built"
    /\ UNCHANGED <<data, order, taken, table>>

UnicodeNext ==
    \/ \E line \in DataLine : ParseLine(line) \/ RefuseData(line)
    \/ SortData
    \/ \E i \in Least : VerifyRange(i)
    \/ PartitionEnds \/ SelectRange \/ FinishTable

UnicodeSpec == UnicodeStart /\ [][UnicodeNext]_unicodeVars

-----------------------------------------------------------------------------
(***************************************************************************)
(* A table that was built answers for every code point what the one line   *)
(* of the data file says that covers it, in whatever order the file has    *)
(* its lines: the canonical spelling of a path is pinned to that file, and *)
(* a lost line, a gap or an overlap must not make another table of it.     *)
(***************************************************************************)
Covering(point) ==
    {i \in DOMAIN data : data[i].first <= point /\ point <= data[i].last}

TableIsTheDataFile ==
    build = "built" =>
        \A point \in 0..LastPoint :
            \E i \in DOMAIN data :
                /\ Covering(point) = {i}
                /\ Member(table, point) <=> data[i].category \in Selected
=============================================================================
