---------------------------- MODULE BindingProofs ----------------------------
(***************************************************************************)
(* The binding set, for every input: the walk of module ClaimWalk finds    *)
(* the nearest claims of every history, the greedy loop of module          *)
(* BindingOrder computes the declared order for every finite set of groups *)
(* and every relation among them, and what histories make of stamps always *)
(* has an order.                                                           *)
(***************************************************************************)
EXTENDS Binding, FiniteSetTheorems, WellFoundedInduction, TLAPS

\* The last element of a sequence and what is below it make up the sequence.
LEMMA PopElements ==
    ASSUME NEW S, NEW s \in Seq(S), s # <<>>
    PROVE  /\ SubSeq(s, 1, Len(s) - 1) \in Seq(S)
           /\ s[Len(s)] \in S
           /\ Range(s) =
                  Range(SubSeq(s, 1, Len(s) - 1)) \cup {s[Len(s)]}
<1> DEFINE t == SubSeq(s, 1, Len(s) - 1)
<1>1. Len(s) \in Nat /\ Len(s) > 0 /\ DOMAIN s = 1..Len(s)
    OBVIOUS
<1>2. /\ t \in Seq(S)
      /\ Len(t) = Len(s) - 1
      /\ \A i \in 1..(Len(s) - 1) : t[i] = s[i]
    BY <1>1
<1>3. DOMAIN t = 1..(Len(s) - 1)
    BY <1>2
<1>4. s[Len(s)] \in S
    BY <1>1
<1>5. Range(s) \subseteq Range(t) \cup {s[Len(s)]}
  <2>1. \A i \in DOMAIN s : i = Len(s) \/ i \in 1..(Len(s) - 1)
      BY <1>1
  <2> HIDE DEF t
  <2> QED
      BY <1>2, <1>3, <2>1 DEF Range
<1>6. Range(t) \cup {s[Len(s)]} \subseteq Range(s)
    BY <1>1, <1>2, <1>3 DEF Range
<1> QED
    BY <1>2, <1>4, <1>5, <1>6

\* A concatenation holds what its parts hold.
LEMMA ConcatElements ==
    ASSUME NEW S, NEW s \in Seq(S), NEW t \in Seq(S)
    PROVE  /\ s \o t \in Seq(S)
           /\ Range(s \o t) = Range(s) \cup Range(t)
<1>1. /\ s \o t \in Seq(S)
      /\ Len(s) \in Nat /\ Len(t) \in Nat
      /\ DOMAIN s = 1..Len(s)
      /\ DOMAIN t = 1..Len(t)
      /\ DOMAIN (s \o t) = 1..(Len(s) + Len(t))
    OBVIOUS
<1>2. \A i \in 1..Len(s) : (s \o t)[i] = s[i]
    BY <1>1
<1>3. \A i \in 1..Len(t) : (s \o t)[Len(s) + i] = t[i]
    BY <1>1
<1>4. Range(s) \subseteq Range(s \o t)
    BY <1>1, <1>2 DEF Range
<1>5. Range(t) \subseteq Range(s \o t)
  <2> SUFFICES ASSUME NEW i \in 1..Len(t)
               PROVE  t[i] \in Range(s \o t)
      BY <1>1 DEF Range
  <2>1. Len(s) + i \in DOMAIN (s \o t)
      BY <1>1
  <2> QED
      BY <1>3, <2>1 DEF Range
<1>6. Range(s \o t) \subseteq Range(s) \cup Range(t)
  <2> SUFFICES ASSUME NEW i \in 1..(Len(s) + Len(t))
               PROVE  (s \o t)[i] \in Range(s) \cup Range(t)
      BY <1>1 DEF Range
  <2>1. CASE i \in 1..Len(s)
      BY <1>1, <1>2, <2>1 DEF Range
  <2>2. CASE i \notin 1..Len(s)
    <3>1. i - Len(s) \in 1..Len(t) /\ Len(s) + (i - Len(s)) = i
        BY <1>1, <2>2
    <3>2. (s \o t)[i] = t[i - Len(s)]
        BY <1>3, <3>1
    <3> QED
        BY <1>1, <3>1, <3>2 DEF Range
  <2> QED
      BY <2>1, <2>2
<1> QED
    BY <1>1, <1>4, <1>5, <1>6

\* Appending adds one element, and keeps the others apart from it.
LEMMA AppendElements ==
    ASSUME NEW S, NEW s \in Seq(S), NEW e \in S
    PROVE  /\ Append(s, e) \in Seq(S)
           /\ Range(Append(s, e)) = Range(s) \cup {e}
           /\ (e \notin Range(s)
               /\ \A i, j \in DOMAIN s : s[i] = s[j] => i = j)
              => \A i, j \in DOMAIN Append(s, e) :
                     Append(s, e)[i] = Append(s, e)[j] => i = j
<1>1. /\ Append(s, e) \in Seq(S)
      /\ Len(s) \in Nat
      /\ DOMAIN s = 1..Len(s)
      /\ DOMAIN Append(s, e) = 1..(Len(s) + 1)
      /\ \A i \in 1..Len(s) : Append(s, e)[i] = s[i]
      /\ Append(s, e)[Len(s) + 1] = e
    OBVIOUS
<1>2. Range(Append(s, e)) = Range(s) \cup {e}
  <2>1. Range(s) \cup {e} \subseteq Range(Append(s, e))
    <3>1. Len(s) + 1 \in DOMAIN Append(s, e)
        BY <1>1
    <3>2. \A i \in DOMAIN s : i \in DOMAIN Append(s, e)
        BY <1>1
    <3> QED
        BY <1>1, <3>1, <3>2 DEF Range
  <2>2. Range(Append(s, e)) \subseteq Range(s) \cup {e}
    <3>1. \A i \in DOMAIN Append(s, e) : i \in DOMAIN s \/ i = Len(s) + 1
        BY <1>1
    <3> QED
        BY <1>1, <3>1 DEF Range
  <2> QED
      BY <2>1, <2>2
<1>3. ASSUME e \notin Range(s),
             \A i, j \in DOMAIN s : s[i] = s[j] => i = j,
             NEW i \in DOMAIN Append(s, e), NEW j \in DOMAIN Append(s, e),
             Append(s, e)[i] = Append(s, e)[j]
      PROVE  i = j
  <2>1. \A k \in DOMAIN s : s[k] # e
      BY <1>3 DEF Range
  <2>2. i \in DOMAIN s \/ i = Len(s) + 1
      BY <1>1
  <2>3. j \in DOMAIN s \/ j = Len(s) + 1
      BY <1>1
  <2> QED
      BY <1>1, <1>3, <2>1, <2>2, <2>3
<1> QED
    BY <1>1, <1>2, <1>3

-----------------------------------------------------------------------------
\* The lines behind the starts follow the parents of every commit on them
\* that does not claim.
LEMMA LinesFollowParents ==
    ASSUME WalkTypeOK, NEW c \in OnTheLines, c \notin claims
    PROVE  Range(parents[c]) \subseteq OnTheLines
<1>1. c \in CommitId
    BY DEF OnTheLines, LinesBehind
<1>2. parents[c] \in Seq(CommitId)
    BY <1>1 DEF WalkTypeOK
<1>3. Range(parents[c]) \subseteq CommitId
    BY <1>2 DEF Range
<1>4. ASSUME NEW set \in SUBSET CommitId,
             Range(starts) \subseteq set, Closed(set)
      PROVE  Range(parents[c]) \subseteq set
  <2>1. c \in set
      BY <1>4 DEF OnTheLines, LinesBehind
  <2> QED
      BY <1>4, <2>1 DEF Closed
<1> QED
    BY <1>3, <1>4 DEF OnTheLines, LinesBehind

\* The starts are on the lines behind them.
LEMMA StartsAreOnTheLines ==
    ASSUME WalkTypeOK
    PROVE  Range(starts) \subseteq OnTheLines
<1>1. Range(starts) \subseteq CommitId
    BY DEF WalkTypeOK, Range
<1> QED
    BY <1>1 DEF OnTheLines, LinesBehind

-----------------------------------------------------------------------------
(***************************************************************************)
(* The inductive invariant: nothing off the lines is ever looked at, what  *)
(* was looked at has its parents seen or on the stack, and the claims      *)
(* found are those looked at.                                              *)
(***************************************************************************)
Seen == visited \cup Range(frontier)

Progress ==
    /\ Range(starts) \subseteq Seen
    /\ \A c \in visited : c \in claims \/ Range(parents[c]) \subseteq Seen
    /\ visited \subseteq stored
    /\ Range(claiming) = visited \cap claims

WalkInv ==
    /\ WalkTypeOK
    /\ Seen \subseteq OnTheLines
    /\ \A i, j \in DOMAIN claiming : claiming[i] = claiming[j] => i = j
    /\ walk # "failed" => Progress
    /\ walk = "found" => frontier = <<>>
    /\ walk = "failed" => ~ (OnTheLines \subseteq stored)

LEMMA WalkInitInv == WalkTypeOK /\ WalkStart => WalkInv
<1> SUFFICES ASSUME WalkTypeOK, WalkStart
             PROVE  WalkInv
    OBVIOUS
<1>1. Seen = Range(starts)
    BY DEF WalkStart, Seen
<1>2. Seen \subseteq OnTheLines
    BY <1>1, StartsAreOnTheLines
<1>3. Range(claiming) = {} /\ DOMAIN claiming = {}
    BY DEF WalkStart, Range
<1>4. Progress
    BY <1>1, <1>3 DEF Progress, WalkStart
<1> QED
    BY <1>2, <1>3, <1>4 DEF WalkInv, WalkStart

\* What a step that takes the top off the stack may rely on.
LEMMA PopFacts ==
    ASSUME WalkInv, frontier # <<>>
    PROVE  /\ Popped \in Seq(CommitId)
           /\ Top \in CommitId
           /\ Top \in OnTheLines
           /\ Range(frontier) = Range(Popped) \cup {Top}
<1>1. frontier \in Seq(CommitId)
    BY DEF WalkInv, WalkTypeOK
<1>2. /\ Popped \in Seq(CommitId)
      /\ Top \in CommitId
      /\ Range(frontier) = Range(Popped) \cup {Top}
    BY <1>1, PopElements DEF Popped, Top
<1> QED
    BY <1>2 DEF WalkInv, Seen

LEMMA WalkNextInv == WalkInv /\ [WalkNext]_walkVars => WalkInv'
<1> SUFFICES ASSUME WalkInv, [WalkNext]_walkVars
             PROVE  WalkInv'
    OBVIOUS
<1> USE DEF WalkInv
<1>1. CASE SkipVisited
  <2>1. /\ Popped \in Seq(CommitId)
        /\ Range(frontier) = Range(Popped) \cup {Top}
      BY <1>1, PopFacts DEF SkipVisited
  <2>2. WalkTypeOK'
      BY <1>1, <2>1 DEF SkipVisited, WalkTypeOK, history
  <2>3. Seen' = Seen
      BY <1>1, <2>1 DEF SkipVisited, Seen, Range
  <2>4. OnTheLines' = OnTheLines
      BY <1>1 DEF SkipVisited, OnTheLines, LinesBehind, Closed, history, Range
  <2>5. Progress'
      BY <1>1, <2>3 DEF SkipVisited, Progress, history, Range
  <2> QED
      BY <1>1, <2>2, <2>3, <2>4, <2>5 DEF SkipVisited, history
<1>2. CASE TakeClaim
  <2>1. /\ Popped \in Seq(CommitId)
        /\ Top \in CommitId
        /\ Range(frontier) = Range(Popped) \cup {Top}
      BY <1>2, PopFacts DEF TakeClaim
  <2>2. Progress /\ claiming \in Seq(CommitId)
      BY <1>2 DEF TakeClaim, WalkTypeOK
  <2>3. Top \notin Range(claiming)
      BY <1>2, <2>2 DEF TakeClaim, Progress
  <2>4. /\ claiming' \in Seq(CommitId)
        /\ Range(claiming') = Range(claiming) \cup {Top}
        /\ \A i, j \in DOMAIN claiming' : claiming'[i] = claiming'[j] => i = j
      BY <1>2, <2>1, <2>2, <2>3, AppendElements DEF TakeClaim
  <2>5. WalkTypeOK'
      BY <1>2, <2>1, <2>4 DEF TakeClaim, WalkTypeOK, history
  <2>6. Seen' = Seen
      BY <1>2, <2>1 DEF TakeClaim, Seen, Range
  <2>7. OnTheLines' = OnTheLines
      BY <1>2 DEF TakeClaim, OnTheLines, LinesBehind, Closed, history, Range
  <2>8. Range(claiming)' = (visited \cap claims)'
      BY <1>2, <2>2, <2>4 DEF TakeClaim, Progress, history, Range
  <2>9. Progress'
      BY <1>2, <2>2, <2>6, <2>8 DEF TakeClaim, Progress, history, Range
  <2> QED
      BY <1>2, <2>4, <2>5, <2>6, <2>7, <2>9 DEF TakeClaim, history
<1>3. CASE FollowParents
  <2>1. /\ Popped \in Seq(CommitId)
        /\ Top \in CommitId
        /\ Top \in OnTheLines
        /\ Range(frontier) = Range(Popped) \cup {Top}
      BY <1>3, PopFacts DEF FollowParents
  <2>2. parents[Top] \in Seq(CommitId)
      BY <2>1 DEF WalkTypeOK
  <2>3. /\ frontier' \in Seq(CommitId)
        /\ Range(frontier') = Range(Popped) \cup Range(parents[Top])
      BY <1>3, <2>1, <2>2, ConcatElements DEF FollowParents
  <2>4. WalkTypeOK'
      BY <1>3, <2>1, <2>3 DEF FollowParents, WalkTypeOK, history
  <2>5. Seen' = Seen \cup Range(parents[Top])
      BY <1>3, <2>1, <2>3 DEF FollowParents, Seen, Range
  <2>6. OnTheLines' = OnTheLines
      BY <1>3 DEF FollowParents, OnTheLines, LinesBehind, Closed, history,
                      Range
  <2>7. Range(parents[Top]) \subseteq OnTheLines
      BY <1>3, <2>1, LinesFollowParents DEF FollowParents
  <2>8. Progress
      BY <1>3 DEF FollowParents
  <2>9. Range(claiming)' = (visited \cap claims)'
      BY <1>3, <2>8 DEF FollowParents, Progress, history, Range
  <2>10. \A c \in visited' : c \in claims \/ Range(parents[c]) \subseteq Seen'
      BY <1>3, <2>5, <2>8 DEF FollowParents, Progress
  <2>11. Progress'
      BY <1>3, <2>5, <2>8, <2>9, <2>10
      DEF FollowParents, Progress, history, Range
  <2> QED
      BY <1>3, <2>4, <2>5, <2>6, <2>7, <2>11 DEF FollowParents, history
<1>4. CASE FailUnreadable
  <2>1. /\ Popped \in Seq(CommitId)
        /\ Top \in CommitId
        /\ Top \in OnTheLines
        /\ Range(frontier) = Range(Popped) \cup {Top}
      BY <1>4, PopFacts DEF FailUnreadable
  <2>2. WalkTypeOK'
      BY <1>4, <2>1 DEF FailUnreadable, WalkTypeOK, history
  <2>3. Seen' = Seen
      BY <1>4, <2>1 DEF FailUnreadable, Seen, Range
  <2>4. OnTheLines' = OnTheLines
      BY <1>4 DEF FailUnreadable, OnTheLines, LinesBehind, Closed, history,
                      Range
  <2>5. ~ (OnTheLines \subseteq stored)
      BY <1>4, <2>1 DEF FailUnreadable
  <2> QED
      BY <1>4, <2>2, <2>3, <2>4, <2>5 DEF FailUnreadable, history
<1>5. CASE Answer
  <2>1. WalkTypeOK'
      BY <1>5 DEF Answer, WalkTypeOK, history
  <2>2. Seen' = Seen /\ OnTheLines' = OnTheLines
      BY <1>5 DEF Answer, Seen, OnTheLines, LinesBehind, Closed, history, Range
  <2>3. Progress'
      BY <1>5, <2>2 DEF Answer, Progress, history, Range
  <2> QED
      BY <1>5, <2>1, <2>2, <2>3 DEF Answer, history
<1>6. CASE UNCHANGED walkVars
  <2>1. WalkTypeOK'
      BY <1>6 DEF walkVars, WalkTypeOK, history
  <2>2. Seen' = Seen /\ OnTheLines' = OnTheLines
      BY <1>6 DEF walkVars, Seen, OnTheLines, LinesBehind, Closed,
                      history, Range
  <2>3. Progress' <=> Progress
      BY <1>6, <2>2 DEF walkVars, Progress, history, Range
  <2> QED
      BY <1>6, <2>1, <2>2, <2>3 DEF walkVars, history
<1> QED
    BY <1>1, <1>2, <1>3, <1>4, <1>5, <1>6 DEF WalkNext

\* With nothing left on the stack the commits looked at are a closed set
\* that holds the starts, so every commit on the lines is among them.
LEMMA InvImplies == WalkInv => FindsNearestClaims
<1> SUFFICES ASSUME WalkInv
             PROVE  FindsNearestClaims
    OBVIOUS
<1> USE DEF WalkInv
<1>1. CASE walk = "found"
  <2>1. Progress /\ Seen = visited
      BY <1>1 DEF Seen, Range
  <2>2. visited \in SUBSET CommitId /\ Closed(visited)
      BY <2>1 DEF Progress, Closed, WalkTypeOK
  <2>3. OnTheLines \subseteq visited
      BY <2>1, <2>2 DEF OnTheLines, LinesBehind, Progress
  <2>4. OnTheLines = visited
      BY <2>1, <2>3
  <2> QED
      BY <1>1, <2>1, <2>4 DEF FindsNearestClaims, Progress
<1>2. CASE walk # "found"
    BY <1>2 DEF FindsNearestClaims, Progress
<1> QED
    BY <1>1, <1>2

(***************************************************************************)
(* On every history the walk answers with exactly the nearest claims of    *)
(* every line behind the starts, and fails exactly if a commit on those    *)
(* lines cannot be read.                                                   *)
(***************************************************************************)
THEOREM WalkIsCorrect == WalkSpec => []FindsNearestClaims
<1>1. WalkTypeOK /\ WalkStart => WalkInv
    BY WalkInitInv
<1>2. WalkInv /\ [WalkNext]_walkVars => WalkInv'
    BY WalkNextInv
<1>3. WalkInv => FindsNearestClaims
    BY InvImplies
<1> QED
    BY <1>1, <1>2, <1>3, PTL DEF WalkSpec

-----------------------------------------------------------------------------
(***************************************************************************)
(* The inductive invariant.  The emitted groups are those without a slot,  *)
(* each emitted once; a binder was emitted before whatever it binds; and   *)
(* at its first difference from any ordering the loop chose the smaller    *)
(* group.                                                                  *)
(***************************************************************************)
Emitted ==
    /\ Range(ordered) = groups \ slots
    /\ \A i, j \in DOMAIN ordered : ordered[i] = ordered[j] => i = j
    /\ Len(ordered) + Cardinality(slots) = Cardinality(groups)

Respectful ==
    \A j \in DOMAIN ordered : \A e \in edges :
        e[2] = ordered[j] =>
            \E i \in DOMAIN ordered : i < j /\ ordered[i] = e[1]

Smallest == \A t \in Orderings : NotAfter(ordered, t)

OrderInv ==
    /\ OrderTypeOK
    /\ outcome # "invalid" => /\ EdgesAreValid
                             /\ Emitted
                             /\ Respectful
                             /\ Smallest
    /\ outcome = "ordered" => slots = {}
    /\ outcome = "cycle" => slots # {} /\ \A g \in slots : ~Emittable(g)

\* Appending to a sequence keeps what it has and adds one place.
LEMMA AppendFacts ==
    ASSUME NEW S, NEW s \in Seq(S), NEW e \in S
    PROVE  /\ Append(s, e) \in Seq(S)
           /\ Len(s) \in Nat
           /\ Len(Append(s, e)) = Len(s) + 1
           /\ DOMAIN s = 1..Len(s)
           /\ DOMAIN Append(s, e) = 1..(Len(s) + 1)
           /\ \A i \in DOMAIN s :
                  i \in DOMAIN Append(s, e) /\ Append(s, e)[i] = s[i]
           /\ Len(s) + 1 \in DOMAIN Append(s, e)
           /\ Append(s, e)[Len(s) + 1] = e
           /\ \A i \in DOMAIN Append(s, e) : i \in DOMAIN s \/ i = Len(s) + 1
    OBVIOUS

LEMMA SlotsAreFinite ==
    ASSUME OrderTypeOK
    PROVE  /\ IsFiniteSet(groups) /\ Cardinality(groups) \in Nat
           /\ IsFiniteSet(slots) /\ Cardinality(slots) \in Nat
    BY FS_Subset, FS_CardinalityType DEF OrderTypeOK

LEMMA OrderInitInv == OrderTypeOK /\ OrderStart => OrderInv
<1> SUFFICES ASSUME OrderTypeOK, OrderStart
             PROVE  OrderInv
    OBVIOUS
<1>1. ordered = <<>> /\ DOMAIN ordered = {} /\ Len(ordered) = 0
    BY DEF OrderStart
<1>2. outcome # "invalid" => EdgesAreValid
    BY DEF OrderStart
<1>3. Emitted
    BY <1>1, SlotsAreFinite DEF OrderStart, Emitted, Range
<1>4. Respectful /\ Smallest
    BY <1>1 DEF Respectful, Smallest, NotAfter
<1>5. outcome \notin {"ordered", "cycle"}
    BY DEF OrderStart
<1> QED
    BY <1>2, <1>3, <1>4, <1>5 DEF OrderInv

\* In an ordering that agrees with the groups emitted so far, the next group
\* is one the loop could emit.
LEMMA NextOfAnOrderingIsEmittable ==
    ASSUME OrderInv, outcome # "invalid", NEW t \in Orderings,
           Len(ordered) + 1 \in DOMAIN t,
           \A i \in 1..Len(ordered) : ordered[i] = t[i]
    PROVE  Emittable(t[Len(ordered) + 1])
<1> DEFINE k == Len(ordered) + 1
<1> DEFINE h == t[k]
<1>1. /\ t \in [1..Cardinality(groups) -> groups]
      /\ \A g \in groups : \E i \in DOMAIN t : t[i] = g
      /\ \A i, j \in DOMAIN t : t[i] = t[j] => i = j
      /\ \A i, j \in DOMAIN t : <<t[i], t[j]>> \in edges => i < j
    BY DEF Orderings
<1>2. ordered \in Seq(groups) /\ Len(ordered) \in Nat
      /\ DOMAIN ordered = 1..Len(ordered)
    BY DEF OrderInv, OrderTypeOK
<1>3. Cardinality(groups) \in Nat /\ DOMAIN t = 1..Cardinality(groups)
    BY <1>1, SlotsAreFinite DEF OrderInv
<1>4. h \in groups
    BY <1>1
<1>5. h \notin Range(ordered)
  <2> SUFFICES ASSUME NEW i \in 1..Len(ordered), ordered[i] = h
               PROVE  FALSE
      BY <1>2 DEF Range
  <2>1. i \in DOMAIN t /\ i # k
      BY <1>2, <1>3
  <2> QED
      BY <1>1, <2>1
<1>6. h \in slots
    BY <1>4, <1>5 DEF OrderInv, Emitted
<1>7. ASSUME NEW e \in edges, e[2] = h
      PROVE  e[1] \notin slots
  <2>1. e[1] \in groups /\ e = <<e[1], e[2]>>
      BY <1>7 DEF OrderInv, EdgesAreValid, OrderTypeOK
  <2>2. PICK i \in DOMAIN t : t[i] = e[1]
      BY <1>1, <2>1
  <2>3. i < k
      BY <1>1, <1>7, <2>1, <2>2
  <2>4. i \in 1..Len(ordered)
      BY <1>2, <1>3, <2>3
  <2>5. ordered[i] = e[1]
      BY <2>2, <2>4
  <2> QED
      BY <1>2, <2>4, <2>5 DEF OrderInv, Emitted, Range
<1> QED
    BY <1>6, <1>7 DEF Emittable

LEMMA EmitInv ==
    ASSUME OrderInv, NEW g \in slots, Emit(g)
    PROVE  OrderInv'
<1> DEFINE n == Len(ordered)
<1>1. /\ OrderTypeOK /\ EdgesAreValid /\ Emitted /\ Respectful /\ Smallest
      /\ outcome = "ordering"
    BY DEF OrderInv, Emit
<1>2. g \in groups /\ ordered \in Seq(groups)
    BY <1>1 DEF OrderTypeOK
<1>3. ordered' = Append(ordered, g) /\ slots' = slots \ {g}
      /\ UNCHANGED <<groups, edges, outcome>>
    BY DEF Emit, input
<1>4. /\ ordered' \in Seq(groups)
      /\ n \in Nat
      /\ Len(ordered') = n + 1
      /\ DOMAIN ordered = 1..n
      /\ DOMAIN ordered' = 1..(n + 1)
      /\ \A i \in DOMAIN ordered :
             i \in DOMAIN ordered' /\ ordered'[i] = ordered[i]
      /\ n + 1 \in DOMAIN ordered'
      /\ ordered'[n + 1] = g
      /\ \A i \in DOMAIN ordered' : i \in DOMAIN ordered \/ i = n + 1
    BY <1>2, <1>3, AppendFacts
<1> HIDE DEF n
<1>5. OrderTypeOK'
    BY <1>1, <1>3, <1>4 DEF OrderTypeOK
<1>6. Range(ordered)' = Range(ordered) \cup {g}
    BY <1>4 DEF Range
<1>7. g \notin Range(ordered)
    BY <1>1 DEF Emitted
<1>8. Emitted'
  <2>1. Range(ordered)' = (groups \ slots)'
      BY <1>1, <1>2, <1>3, <1>6 DEF Emitted
  <2>2. \A i, j \in DOMAIN ordered' : ordered'[i] = ordered'[j] => i = j
      BY <1>1, <1>4, <1>7 DEF Emitted, Range
  <2>3. Cardinality(slots') = Cardinality(slots) - 1
      BY <1>1, <1>3, SlotsAreFinite, FS_RemoveElement
  <2>4. (Len(ordered) + Cardinality(slots) = Cardinality(groups))'
      BY <1>1, <1>3, <1>4, <2>3, SlotsAreFinite DEF Emitted, n
  <2> QED
      BY <2>1, <2>2, <2>4 DEF Emitted
<1>9. Respectful'
  <2> SUFFICES ASSUME NEW j \in DOMAIN ordered', NEW e \in edges,
                      e[2] = ordered'[j]
               PROVE  \E i \in DOMAIN ordered' : i < j /\ ordered'[i] = e[1]
      BY <1>3 DEF Respectful
  <2>1. CASE j \in DOMAIN ordered
      BY <1>1, <1>4, <2>1 DEF Respectful
  <2>2. CASE j = n + 1
    <3>1. e[1] \in groups \ slots
        BY <1>1, <1>4, <2>2 DEF Emit, Emittable, EdgesAreValid
    <3>2. PICK i \in DOMAIN ordered : ordered[i] = e[1]
        BY <1>1, <3>1 DEF Emitted, Range
    <3>3. i < j
        BY <1>4, <2>2
    <3> QED
        BY <1>4, <3>2, <3>3
  <2> QED
      BY <1>4, <2>1, <2>2
<1>10. Smallest'
  <2>1. Orderings' = Orderings
      BY <1>3 DEF Orderings
  <2> SUFFICES ASSUME NEW t \in Orderings, NEW k \in DOMAIN ordered',
                      k \in DOMAIN t,
                      \A i \in 1..(k - 1) : ordered'[i] = t[i]
               PROVE  ordered'[k] <= t[k]
      BY <2>1 DEF Smallest, NotAfter
  <2>2. CASE k \in DOMAIN ordered
    <3>1. \A i \in 1..(k - 1) : i \in DOMAIN ordered
        BY <1>4, <2>2
    <3>2. \A i \in 1..(k - 1) : ordered[i] = t[i]
        BY <1>4, <3>1
    <3> QED
        BY <1>1, <1>4, <2>2, <3>2 DEF Smallest, NotAfter
  <2>3. CASE k = n + 1
    <3>1. \A i \in 1..n : ordered[i] = t[i]
        BY <1>4, <2>3
    <3>2. Emittable(t[n + 1])
        BY <1>1, <2>3, <3>1, NextOfAnOrderingIsEmittable DEF n
    <3>3. t[n + 1] \in slots
        BY <3>2 DEF Emittable
    <3>4. g <= t[n + 1]
        BY <3>2, <3>3 DEF Emit
    <3> QED
        BY <1>4, <2>3, <3>4
  <2> QED
      BY <1>4, <2>2, <2>3
<1>11. EdgesAreValid'
    BY <1>1, <1>3 DEF EdgesAreValid
<1> QED
    BY <1>1, <1>3, <1>5, <1>8, <1>9, <1>10, <1>11 DEF OrderInv

LEMMA OrderNextInv == OrderInv /\ [OrderNext]_orderVars => OrderInv'
<1> SUFFICES ASSUME OrderInv, [OrderNext]_orderVars
             PROVE  OrderInv'
    OBVIOUS
<1>1. CASE \E g \in slots : Emit(g)
    BY <1>1, EmitInv
<1>2. ASSUME UNCHANGED <<input, slots, ordered>>,
             outcome' \in {"ordering", "ordered", "cycle", "invalid"},
             outcome' # "invalid" => outcome # "invalid",
             outcome' = "ordered" => slots = {},
             outcome' = "cycle" => slots # {} /\ \A g \in slots : ~Emittable(g)
      PROVE  OrderInv'
  <2> USE <1>2 DEF input
  <2>1. OrderTypeOK'
      BY DEF OrderInv, OrderTypeOK
  <2>2. /\ EdgesAreValid' <=> EdgesAreValid
        /\ Emitted' <=> Emitted
        /\ Respectful' <=> Respectful
        /\ \A g : Emittable(g)' <=> Emittable(g)
      BY DEF EdgesAreValid, Emitted, Respectful, Emittable, Range
  <2>3. Smallest' <=> Smallest
      BY DEF Smallest, NotAfter, Orderings
  <2> QED
      BY <2>1, <2>2, <2>3 DEF OrderInv
<1>3. CASE FindCycle
    BY <1>2, <1>3 DEF FindCycle
<1>4. CASE Complete
    BY <1>2, <1>4 DEF Complete
<1>5. CASE UNCHANGED orderVars
  <2>1. UNCHANGED <<input, slots, ordered>> /\ outcome' = outcome
      BY <1>5 DEF orderVars
  <2> QED
      BY <1>2, <2>1 DEF OrderInv, OrderTypeOK
<1> QED
    BY <1>1, <1>3, <1>4, <1>5 DEF OrderNext

LEMMA InvGreedy ==
    ASSUME OrderInv, outcome = "ordered"
    PROVE  /\ ordered \in Orderings
           /\ \A t \in Orderings : NotAfter(ordered, t)
<1>1. OrderTypeOK /\ Emitted /\ Respectful /\ Smallest /\ slots = {}
    BY DEF OrderInv
<1>2. Cardinality(slots) = 0
    BY <1>1, FS_EmptySet
<1>3. /\ ordered \in Seq(groups)
      /\ Len(ordered) = Cardinality(groups)
    BY <1>1, <1>2, SlotsAreFinite DEF Emitted, OrderTypeOK
<1>4. /\ ordered \in [1..Cardinality(groups) -> groups]
      /\ DOMAIN ordered = 1..Len(ordered)
    BY <1>3
<1>5. \A g \in groups : \E i \in DOMAIN ordered : ordered[i] = g
    BY <1>1 DEF Emitted, Range
<1>6. ASSUME NEW i \in DOMAIN ordered, NEW j \in DOMAIN ordered,
             <<ordered[i], ordered[j]>> \in edges
      PROVE  i < j
  <2>1. PICK e \in edges : e = <<ordered[i], ordered[j]>>
      BY <1>6
  <2>2. PICK k \in DOMAIN ordered : k < j /\ ordered[k] = e[1]
      BY <1>1, <2>1 DEF Respectful
  <2>3. k = i
      BY <1>1, <2>1, <2>2 DEF Emitted
  <2> QED
      BY <2>2, <2>3
<1>7. ordered \in Orderings
    BY <1>1, <1>4, <1>5, <1>6 DEF Orderings, Emitted
<1> QED
    BY <1>1, <1>7 DEF Smallest

\* In any ordering, the first group that still has its slot is emittable.
LEMMA InvCycle ==
    ASSUME OrderInv, outcome = "cycle"
    PROVE  Orderings = {}
<1> SUFFICES ASSUME NEW t \in Orderings
             PROVE  FALSE
    OBVIOUS
<1>1. /\ OrderTypeOK /\ EdgesAreValid /\ slots # {}
      /\ \A g \in slots : ~Emittable(g)
    BY DEF OrderInv
<1>2. /\ t \in [1..Cardinality(groups) -> groups]
      /\ \A g \in groups : \E i \in DOMAIN t : t[i] = g
      /\ \A i, j \in DOMAIN t : <<t[i], t[j]>> \in edges => i < j
    BY DEF Orderings
<1>3. DOMAIN t \subseteq Nat
    BY <1>1, <1>2, SlotsAreFinite
<1> DEFINE left == {i \in DOMAIN t : t[i] \in slots}
<1>4. left # {} /\ left \in SUBSET Nat
    BY <1>1, <1>2, <1>3 DEF OrderTypeOK
<1>5. PICK i \in left : \A j \in left : i <= j
  <2> DEFINE less == OpToRel(<, Nat)
  <2>1. PICK i \in left : \A j \in left : <<j, i>> \notin less
      BY <1>4, NatLessThanWellFounded, WFMin
  <2>2. less = {ss \in Nat \X Nat : ss[1] < ss[2]}
      BY Zenon DEF OpToRel
  <2> HIDE DEF less
  <2>3. ASSUME NEW j \in left
        PROVE  i <= j
    <3>1. <<j, i>> \in Nat \X Nat /\ <<j, i>> \notin less
        BY <1>4, <2>1
    <3>2. ~ (j < i)
        BY <2>2, <3>1
    <3> QED
        BY <3>1, <3>2
  <2> QED
      BY <2>3
<1>6. ASSUME NEW e \in edges, e[2] = t[i], e[1] \in slots
      PROVE  FALSE
  <2>1. e[1] \in groups /\ e = <<e[1], e[2]>>
      BY <1>1, <1>6 DEF OrderTypeOK
  <2>2. PICK j \in DOMAIN t : t[j] = e[1]
      BY <1>2, <2>1
  <2>3. j \in left /\ j < i
      BY <1>2, <1>5, <1>6, <2>1, <2>2
  <2> QED
      BY <1>3, <1>5, <2>3
<1> QED
    BY <1>1, <1>5, <1>6 DEF Emittable

(***************************************************************************)
(* For every set of groups and every binding relation, what the loop       *)
(* returns is the smallest ordering in which every binder precedes what it *)
(* binds, and it reports a cycle only where there is no such ordering.     *)
(***************************************************************************)
THEOREM OrderIsCanonical == OrderSpec => []GreedyIsCanonical
<1>1. OrderTypeOK /\ OrderStart => OrderInv
    BY OrderInitInv
<1>2. OrderInv /\ [OrderNext]_orderVars => OrderInv'
    BY OrderNextInv
<1>3. OrderInv => GreedyIsCanonical
    BY InvGreedy, InvCycle DEF GreedyIsCanonical
<1> QED
    BY <1>1, <1>2, <1>3, PTL DEF OrderSpec

-----------------------------------------------------------------------------
(***************************************************************************)
(* The whole binding set.  A commit names its parents by their hashes, so  *)
(* that the commits of any object store have an age.                       *)
(***************************************************************************)
Ages(age) ==
    /\ age \in [CommitId -> Nat]
    /\ \A c \in CommitId : \A q \in Range(parents[c]) : age[q] < age[c]

Stamped ==
    /\ WalkTypeOK
    /\ manifestOf \in [CommitId -> Payload]
    /\ HistoryOfStamps

\* The ages of the stamps with one manifest: it is as old as the oldest.
SealedAt(age, m) == {age[c] : c \in {d \in sealers : manifestOf[d] = m}}

Rank(age, m) == CHOOSE k \in SealedAt(age, m) :
                    \A n \in SealedAt(age, m) : k <= n

LEMMA LeastNumber ==
    ASSUME NEW numbers \in SUBSET Nat, numbers # {}
    PROVE  \E least \in numbers : \A n \in numbers : least <= n
<1> DEFINE less == OpToRel(<, Nat)
<1>1. PICK least \in numbers : \A n \in numbers : <<n, least>> \notin less
  <2>1. IsWellFoundedOn(less, Nat)
      BY NatLessThanWellFounded
  <2> HIDE DEF less
  <2> QED
      BY <2>1, WFMin, Zenon
<1>2. less = {ss \in Nat \X Nat : ss[1] < ss[2]}
    BY Zenon DEF OpToRel
<1> HIDE DEF less
<1>3. ASSUME NEW n \in numbers
      PROVE  least <= n
  <2>1. <<n, least>> \in Nat \X Nat /\ <<n, least>> \notin less
      BY <1>1
  <2> QED
      BY <1>2, <2>1
<1> QED
    BY <1>1, <1>3

\* What lies behind the parents of a commit is older than the commit.
LEMMA BehindIsOlder ==
    ASSUME Stamped, NEW age, Ages(age), NEW c \in CommitId,
           NEW d \in LinesBehind(parents[c])
    PROVE  d \in CommitId /\ age[d] < age[c]
<1> DEFINE older == {x \in CommitId : age[x] < age[c]}
<1>1. \A x \in CommitId : Range(parents[x]) \subseteq CommitId
    BY DEF Stamped, WalkTypeOK, Range
<1>2. Range(parents[c]) \subseteq older
    BY <1>1 DEF Ages
<1>3. \A x \in older : Range(parents[x]) \subseteq older
  <2> SUFFICES ASSUME NEW x \in older, NEW q \in Range(parents[x])
               PROVE  q \in older
      OBVIOUS
  <2>1. q \in CommitId /\ age[q] < age[x] /\ age[x] < age[c]
      BY <1>1 DEF Ages
  <2>2. age[q] \in Nat /\ age[x] \in Nat /\ age[c] \in Nat
      BY <2>1 DEF Ages
  <2> QED
      BY <2>1, <2>2
<1>4. older \in SUBSET CommitId /\ Closed(older)
    BY <1>3 DEF Closed
<1>5. d \in CommitId /\ d \in older
  <2> HIDE DEF older
  <2> QED
      BY <1>2, <1>4 DEF LinesBehind
<1> QED
    BY <1>5

\* A manifest that is inherited was sealed by a commit before.
LEMMA SealedBefore ==
    ASSUME Stamped, NEW age, Ages(age), NEW d \in claims
    PROVE  \E e \in sealers : manifestOf[e] = manifestOf[d] /\ age[e] <= age[d]
<1> DEFINE Origin(c) == \E e \in sealers :
                            manifestOf[e] = manifestOf[c] /\ age[e] <= age[c]
           orphans == {age[c] : c \in {x \in claims : ~Origin(x)}}
<1>1. claims \subseteq CommitId /\ sealers \subseteq claims
    BY DEF Stamped, WalkTypeOK, HistoryOfStamps
<1>2. \A c \in claims : age[c] \in Nat
    BY <1>1 DEF Ages
<1>3. orphans = {}
  <2> SUFFICES ASSUME orphans # {}
               PROVE  FALSE
      OBVIOUS
  <2>1. PICK k \in orphans : \A n \in orphans : k <= n
    <3>1. orphans \in SUBSET Nat
        BY <1>2
    <3> HIDE DEF orphans
    <3> QED
        BY <3>1, LeastNumber
  <2>2. PICK c \in claims : ~Origin(c) /\ k = age[c]
      BY <2>1
  <2>3. c \notin sealers
      BY <1>2, <2>2
  <2>4. PICK q \in Range(parents[c]) \cap claims : manifestOf[c] = manifestOf[q]
      BY <2>3 DEF Stamped, HistoryOfStamps
  <2>5. age[q] < age[c] /\ age[q] \in Nat /\ age[c] \in Nat
      BY <1>1, <1>2, <2>4 DEF Ages
  <2>6. Origin(q)
    <3>1. ~Origin(q) => age[q] \in orphans
        BY <2>4
    <3> QED
        BY <2>1, <2>2, <2>5, <3>1
  <2>7. PICK e \in sealers : manifestOf[e] = manifestOf[q] /\ age[e] <= age[q]
      BY <2>6
  <2>8. age[e] <= age[c]
      BY <1>1, <1>2, <2>5, <2>7
  <2> QED
      BY <2>2, <2>4, <2>7, <2>8
<1> QED
    BY <1>3

LEMMA RankIsLeast ==
    ASSUME Stamped, NEW age, Ages(age), NEW d \in claims
    PROVE  LET m == manifestOf[d]
           IN  /\ Rank(age, m) \in SealedAt(age, m)
               /\ \A n \in SealedAt(age, m) : Rank(age, m) <= n
               /\ SealedAt(age, m) \subseteq Nat
               /\ Rank(age, m) <= age[d]
<1> DEFINE m == manifestOf[d]
<1>1. claims \subseteq CommitId /\ sealers \subseteq claims
    BY DEF Stamped, WalkTypeOK, HistoryOfStamps
<1>2. SealedAt(age, m) \subseteq Nat
    BY <1>1 DEF SealedAt, Ages
<1>3. PICK e \in sealers : manifestOf[e] = m /\ age[e] <= age[d]
    BY SealedBefore
<1>4. age[e] \in SealedAt(age, m)
    BY <1>3 DEF SealedAt
<1>5. \E k \in SealedAt(age, m) : \A n \in SealedAt(age, m) : k <= n
    BY <1>2, <1>4, LeastNumber
<1>6. /\ Rank(age, m) \in SealedAt(age, m)
      /\ \A n \in SealedAt(age, m) : Rank(age, m) <= n
    BY <1>5 DEF Rank
<1>7. Rank(age, m) <= age[d]
  <2>1. age[d] \in Nat /\ age[e] \in Nat
      BY <1>1 DEF Ages
  <2>2. Rank(age, m) \in Nat /\ Rank(age, m) <= age[e]
      BY <1>2, <1>4, <1>6
  <2> QED
      BY <1>3, <2>1, <2>2
<1> QED
    BY <1>2, <1>6, <1>7

\* A manifest is younger than all it binds: stamps with one manifest have
\* their parents in common, and so what they bind.
LEMMA BoundIsOlder ==
    ASSUME Stamped, NEW age, Ages(age), NEW m, NEW n, <<m, n>> \in binds
    PROVE  Rank(age, n) < Rank(age, m)
<1>0. PICK c \in sealers :
          <<m, n>> \in {<<manifestOf[c], manifestOf[d]>> :
                          d \in LinesBehind(parents[c]) \cap claims}
    BY DEF Stamped, HistoryOfStamps
<1>1. PICK d \in LinesBehind(parents[c]) \cap claims :
          manifestOf[c] = m /\ manifestOf[d] = n
    BY <1>0
<1>2. claims \subseteq CommitId /\ sealers \subseteq claims
    BY DEF Stamped, WalkTypeOK, HistoryOfStamps
<1>3. PICK b \in sealers : manifestOf[b] = m /\ Rank(age, m) = age[b]
    BY <1>1, <1>2, RankIsLeast DEF SealedAt
<1>4. parents[b] = parents[c]
    BY <1>1, <1>3 DEF Stamped, HistoryOfStamps
<1>5. age[d] < age[b]
    BY <1>1, <1>2, <1>3, <1>4, BehindIsOlder
<1>6. Rank(age, n) <= age[d] /\ Rank(age, n) \in Nat
    BY <1>1, RankIsLeast
<1>7. age[d] \in Nat /\ age[b] \in Nat
    BY <1>1, <1>2 DEF Ages
<1> QED
    BY <1>3, <1>5, <1>6, <1>7

-----------------------------------------------------------------------------
(***************************************************************************)
(* The inductive invariant: until the walk has answered nothing is read,   *)
(* and from then on the order is that of the manifests of what it found.   *)
(***************************************************************************)
Bound ==
    \/ outcome = "waiting"
    \/ outcome = "unreadable"
    \/ /\ walk = "found"
       /\ OrderInv
       /\ outcome \notin {"invalid", "cycle"}
       /\ groups = Deduplicated(Range(claiming))
       /\ edges = DeriveBindingEdges(groups)

BindingInv == WalkInv /\ Stamped /\ Bound

\* The groups of the claims that were found, as what is to be ordered.
LEMMA GroupsAreReady ==
    ASSUME Stamped, NEW set, set = Deduplicated(Range(claiming))
    PROVE  /\ set \in SUBSET Payload /\ IsFiniteSet(set)
           /\ DeriveBindingEdges(set) \subseteq Payload \X Payload
<1> DEFINE named == [k \in 1..Len(claiming) |-> manifestOf[claiming[k]]]
<1>1. claiming \in Seq(CommitId) /\ Len(claiming) \in Nat
    BY DEF Stamped, WalkTypeOK
<1>2. DOMAIN claiming = 1..Len(claiming)
    BY <1>1
<1>3. Range(claiming) \subseteq CommitId
    BY <1>1 DEF Range
<1>4. set \in SUBSET Payload
    BY <1>3 DEF Deduplicated, Stamped
<1>5. IsFiniteSet(set)
  <2>1. IsFiniteSet(1..Len(claiming))
      BY <1>1, FS_Interval
  <2>2. named \in Surjection(1..Len(claiming), set)
    <3>1. \A k \in 1..Len(claiming) : manifestOf[claiming[k]] \in set
        BY <1>2 DEF Deduplicated, Range
    <3>2. named \in [1..Len(claiming) -> set]
        BY <3>1
    <3>3. \A m \in set : \E k \in 1..Len(claiming) : named[k] = m
        BY <1>2 DEF Deduplicated, Range
    <3> QED
        BY <3>2, <3>3 DEF Surjection
  <2> QED
      BY <2>1, <2>2, FS_Surjection
<1>6. DeriveBindingEdges(set) \subseteq Payload \X Payload
  <2> SUFFICES ASSUME NEW e \in DeriveBindingEdges(set)
               PROVE  e \in Payload \X Payload
      OBVIOUS
  <2>1. e \in binds /\ e[1] \in set /\ e[2] \in set
      BY DEF DeriveBindingEdges
  <2>2. \E c \in sealers, d \in claims : e = <<manifestOf[c], manifestOf[d]>>
      BY <2>1 DEF Stamped, HistoryOfStamps
  <2> QED
      BY <1>4, <2>1, <2>2
<1> QED
    BY <1>4, <1>5, <1>6

LEMMA OneMoreIsBounded ==
    ASSUME NEW f, NEW n \in Nat, \A k \in 1..(n + 1) : f[k] \in Nat,
           \E bound \in Nat : \A k \in 1..n : f[k] <= bound
    PROVE  \E bound \in Nat : \A k \in 1..(n + 1) : f[k] <= bound
<1>1. PICK b \in Nat : \A k \in 1..n : f[k] <= b
    OBVIOUS
<1>2. \A k \in 1..(n + 1) : k \in 1..n \/ k = n + 1
    OBVIOUS
<1>3. CASE f[n + 1] <= b
    BY <1>1, <1>2, <1>3
<1>4. CASE b <= f[n + 1]
  <2>1. \A k \in 1..n : f[k] <= f[n + 1]
    <3> SUFFICES ASSUME NEW k \in 1..n
                 PROVE  f[k] <= f[n + 1]
        OBVIOUS
    <3>1. f[k] \in Nat /\ f[n + 1] \in Nat /\ f[k] <= b
        BY <1>1
    <3> QED
        BY <1>4, <3>1
  <2>2. f[n + 1] \in Nat /\ f[n + 1] <= f[n + 1]
      OBVIOUS
  <2> QED
      BY <1>2, <2>1, <2>2
<1> QED
    BY <1>3, <1>4

LEMMA FiniteIsBounded ==
    ASSUME NEW n \in Nat, NEW f \in [1..n -> Nat]
    PROVE  \E bound \in Nat : \A k \in 1..n : f[k] <= bound
<1> DEFINE UpTo(k) == \E bound \in Nat : \A j \in 1..k : f[j] <= bound
           open == {k \in 0..n : ~UpTo(k)}
<1>1. UpTo(0)
  <2>1. \A j \in 1..0 : f[j] <= 0
      OBVIOUS
  <2> QED
      BY <2>1
<1>2. \A k \in 0..n : k + 1 \in 0..n /\ UpTo(k) => UpTo(k + 1)
  <2> SUFFICES ASSUME NEW k \in 0..n, k + 1 \in 0..n, UpTo(k)
               PROVE  UpTo(k + 1)
      OBVIOUS
  <2>1. k \in Nat /\ \A j \in 1..(k + 1) : f[j] \in Nat
      OBVIOUS
  <2>2. \E bound \in Nat : \A j \in 1..k : f[j] <= bound
      OBVIOUS
  <2>3. \E bound \in Nat : \A j \in 1..(k + 1) : f[j] <= bound
    <3> HIDE DEF UpTo
    <3> QED
        BY <2>1, <2>2, OneMoreIsBounded
  <2> QED
      BY <2>3
<1> HIDE DEF UpTo
<1>3. ASSUME NEW k \in open, \A j \in open : k <= j
      PROVE  FALSE
  <2>1. k \in 0..n /\ k # 0 /\ ~UpTo(k)
      BY <1>1, <1>3
  <2>2. k - 1 \in 0..n /\ (k - 1) + 1 = k /\ ~(k <= k - 1)
      BY <2>1
  <2>3. k - 1 \notin open
      BY <1>3, <2>2
  <2>4. UpTo(k - 1)
      BY <2>2, <2>3
  <2> QED
      BY <1>2, <2>1, <2>2, <2>4
<1>4. open \in SUBSET Nat
    OBVIOUS
<1>5. open = {}
  <2> HIDE DEF open
  <2> QED
      BY <1>3, <1>4, LeastNumber
<1>6. UpTo(n)
    BY <1>5
<1> QED
    BY <1>6 DEF UpTo

\* Among the manifests of a history there is always one that no other binds:
\* the youngest.
LEMMA SomethingIsEmittable ==
    ASSUME Stamped, NEW age, Ages(age), slots # {}, slots \subseteq groups,
           groups = Deduplicated(Range(claiming)),
           Range(claiming) \subseteq claims,
           edges = DeriveBindingEdges(groups)
    PROVE  \E g \in slots : Emittable(g)
<1>1. \A g \in slots : Rank(age, g) \in Nat
  <2> SUFFICES ASSUME NEW g \in slots
               PROVE  Rank(age, g) \in Nat
      OBVIOUS
  <2>1. PICK d \in claims : g = manifestOf[d]
      BY DEF Deduplicated
  <2> QED
      BY <2>1, RankIsLeast
<1>2. PICK bound \in Nat : \A g \in slots : Rank(age, g) <= bound
  <2> DEFINE aged == [k \in 1..Len(claiming) |-> age[claiming[k]]]
  <2>1. claiming \in Seq(CommitId) /\ Len(claiming) \in Nat
        /\ DOMAIN claiming = 1..Len(claiming)
      BY DEF Stamped, WalkTypeOK
  <2>2. aged \in [1..Len(claiming) -> Nat]
      BY <2>1 DEF Ages
  <2>3. PICK bound \in Nat : \A k \in 1..Len(claiming) : aged[k] <= bound
    <3> HIDE DEF aged
    <3> QED
        BY <2>1, <2>2, FiniteIsBounded
  <2>4. ASSUME NEW g \in slots
        PROVE  Rank(age, g) <= bound
    <3>1. PICK k \in DOMAIN claiming : g = manifestOf[claiming[k]]
        BY DEF Deduplicated, Range
    <3>2. claiming[k] \in claims
        BY DEF Range
    <3>3. Rank(age, g) <= age[claiming[k]]
        BY <3>1, <3>2, RankIsLeast
    <3>4. age[claiming[k]] <= bound /\ age[claiming[k]] \in Nat
        BY <2>1, <2>2, <2>3
    <3> QED
        BY <1>1, <3>3, <3>4
  <2> QED
      BY <2>4
<1> DEFINE short == {bound - Rank(age, g) : g \in slots}
<1>3. PICK n \in short : \A k \in short : n <= k
  <2>1. short \in SUBSET Nat
    <3> SUFFICES ASSUME NEW g \in slots
                 PROVE  bound - Rank(age, g) \in Nat
        OBVIOUS
    <3>1. Rank(age, g) \in Nat /\ Rank(age, g) <= bound
        BY <1>1, <1>2
    <3> QED
        BY <3>1
  <2>2. short # {}
      OBVIOUS
  <2> HIDE DEF short
  <2> QED
      BY <2>1, <2>2, LeastNumber
<1>4. PICK g \in slots : n = bound - Rank(age, g)
    BY <1>3
<1>5. ASSUME NEW e \in edges, e[2] = g, e[1] \in slots
      PROVE  FALSE
  <2>1. e \in binds
      BY DEF DeriveBindingEdges
  <2>2. e = <<e[1], e[2]>>
    <3>1. \E c \in sealers, d \in claims : e = <<manifestOf[c], manifestOf[d]>>
        BY <2>1 DEF Stamped, HistoryOfStamps
    <3> QED
        BY <3>1
  <2>3. Rank(age, g) < Rank(age, e[1])
      BY <1>5, <2>1, <2>2, BoundIsOlder
  <2>4. bound - Rank(age, e[1]) \in short
      BY <1>5
  <2>5. n <= bound - Rank(age, e[1])
      BY <1>3, <2>4
  <2>6. Rank(age, g) \in Nat /\ Rank(age, e[1]) \in Nat
      BY <1>1, <1>5
  <2> QED
      BY <1>4, <2>3, <2>5, <2>6
<1>6. Emittable(g)
    BY <1>5 DEF Emittable
<1> QED
    BY <1>6

\* The history is as it was.
LEMMA StampedStays ==
    ASSUME Stamped, WalkTypeOK', UNCHANGED <<history, stamps>>
    PROVE  Stamped' /\ \A age : Ages(age) => Ages(age)'
    BY DEF Stamped, HistoryOfStamps, Ages, LinesBehind, Closed, history, stamps

LEMMA ReadingBinds ==
    ASSUME BindingInv, ReadStamps
    PROVE  Bound'
<1>1. /\ groups' = Deduplicated(Range(claiming))
      /\ edges' = DeriveBindingEdges(groups')
      /\ slots' = groups' /\ ordered' = <<>>
      /\ outcome' = IF EdgesAreValid' THEN "ordering" ELSE "invalid"
      /\ UNCHANGED <<claiming, walk, binds, manifestOf>> /\ walk = "found"
    BY DEF ReadStamps, walkVars, stamps
<1>2. /\ groups' \in SUBSET Payload /\ IsFiniteSet(groups')
      /\ edges' \subseteq Payload \X Payload
    BY <1>1, GroupsAreReady DEF BindingInv
<1>3. EdgesAreValid'
    BY <1>1 DEF EdgesAreValid, DeriveBindingEdges
<1>4. OrderTypeOK' /\ OrderStart'
    BY <1>1, <1>2, <1>3 DEF OrderTypeOK, OrderStart
<1>5. OrderInv'
    BY <1>4, OrderInitInv, PTL
<1> QED
    BY <1>1, <1>3, <1>5 DEF Bound, Deduplicated, DeriveBindingEdges

LEMMA OrderingBinds ==
    ASSUME BindingInv, NEW age, Ages(age), OrderNext,
           UNCHANGED <<walkVars, stamps>>
    PROVE  Bound'
<1>1. outcome = "ordering"
    BY DEF OrderNext, FindCycle, Complete, Emit
<1>2. /\ walk = "found" /\ OrderInv
      /\ groups = Deduplicated(Range(claiming))
      /\ edges = DeriveBindingEdges(groups)
    BY <1>1 DEF BindingInv, Bound
<1>3. OrderInv'
    BY <1>2, OrderNextInv
<1>4. UNCHANGED <<groups, edges, walk, claiming, manifestOf, binds>>
    BY DEF OrderNext, FindCycle, Complete, Emit, input, walkVars, stamps
<1>5. ~FindCycle
  <2>1. Range(claiming) \subseteq claims
      BY <1>2 DEF BindingInv, WalkInv, Progress
  <2>2. slots \subseteq groups
      BY <1>2 DEF OrderInv, OrderTypeOK
  <2> QED
      BY <1>2, <2>1, <2>2, SomethingIsEmittable DEF BindingInv, FindCycle
<1>6. outcome' \in {"ordering", "ordered"}
    BY <1>1, <1>5 DEF OrderNext, Complete, Emit
<1> QED
    BY <1>2, <1>3, <1>4, <1>6 DEF Bound, Deduplicated, DeriveBindingEdges

LEMMA BindingNextInv ==
    ASSUME BindingInv, NEW age, Ages(age), [BindingNext]_bindingVars
    PROVE  BindingInv' /\ Ages(age)'
<1>1. UNCHANGED <<history, stamps>> /\ [WalkNext]_walkVars
    BY DEF BindingNext, WalkNext, SkipVisited, TakeClaim, FollowParents,
           FailUnreadable, Answer, ReadStamps, RefuseUnreadable, bindingVars,
           walkVars
<1>2. WalkInv'
    BY <1>1, WalkNextInv DEF BindingInv
<1>3. Stamped' /\ Ages(age)'
    BY <1>1, <1>2, StampedStays DEF BindingInv, WalkInv
<1>4. Bound'
  <2>1. CASE WalkNext /\ UNCHANGED <<orderVars, stamps>>
    <3>1. walk = "walking" /\ outcome' = outcome
        BY <2>1
        DEF WalkNext, SkipVisited, TakeClaim, FollowParents, FailUnreadable,
            Answer, orderVars
    <3> QED
        BY <3>1 DEF BindingInv, Bound
  <2>2. CASE ReadStamps
      BY <2>2, ReadingBinds
  <2>3. CASE RefuseUnreadable
      BY <2>3 DEF RefuseUnreadable, Bound
  <2>4. CASE OrderNext /\ UNCHANGED <<walkVars, stamps>>
      BY <2>4, OrderingBinds
  <2>5. CASE UNCHANGED bindingVars
    <3>1. UNCHANGED <<walk, claiming, manifestOf, binds, groups, edges, outcome>>
        BY <2>5 DEF bindingVars, walkVars, orderVars, input, stamps
    <3>2. OrderInv => OrderInv'
        BY <2>5, OrderNextInv DEF bindingVars
    <3> QED
        BY <3>1, <3>2 DEF BindingInv, Bound, Deduplicated, DeriveBindingEdges
  <2> QED
      BY <2>1, <2>2, <2>3, <2>4, <2>5 DEF BindingNext
<1> QED
    BY <1>2, <1>3, <1>4 DEF BindingInv

\* A history made by the flow never defeats its own ordering: whatever was
\* merged, inherited or amended, what derive_binding_edges finds has no cycle
\* and the canonical order binds each manifest of the nearest claims once.
THEOREM HistoriesHaveAnOrder ==
    ASSUME NEW age
    PROVE  WalkTypeOK /\ manifestOf \in [CommitId -> Payload] /\ Ages(age)
               /\ BindingSpec
           => []HistoriesAreOrderable
<1>1. /\ WalkTypeOK /\ manifestOf \in [CommitId -> Payload] /\ Ages(age)
      /\ BindingInit
      => BindingInv /\ Ages(age)
    BY WalkInitInv DEF BindingInit, BindingInv, Stamped, Bound
<1>2. BindingInv /\ Ages(age) /\ [BindingNext]_bindingVars
      => BindingInv' /\ Ages(age)'
    BY BindingNextInv
<1>3. BindingInv => HistoriesAreOrderable
  <2> SUFFICES ASSUME BindingInv
               PROVE  /\ outcome \notin {"invalid", "cycle"}
                      /\ outcome = "ordered" =>
                             /\ IsInjective(ordered)
                             /\ Range(ordered) = {manifestOf[c] :
                                                  c \in Range(claiming)}
      BY DEF HistoriesAreOrderable
  <2>1. outcome \notin {"invalid", "cycle"}
      BY DEF BindingInv, Bound
  <2>2. ASSUME outcome = "ordered"
        PROVE  /\ IsInjective(ordered)
               /\ Range(ordered) = {manifestOf[c] : c \in Range(claiming)}
    <3>1. OrderInv /\ groups = Deduplicated(Range(claiming))
        BY <2>2 DEF BindingInv, Bound
    <3>2. Emitted /\ slots = {}
        BY <2>2, <3>1 DEF OrderInv
    <3> QED
        BY <3>1, <3>2 DEF Emitted, Deduplicated, IsInjective
  <2> QED
      BY <2>1, <2>2
<1> QED
    BY <1>1, <1>2, <1>3, PTL DEF BindingSpec
=============================================================================
