----------------------------- MODULE ClaimWalk ------------------------------
(***************************************************************************)
(* nearest_claiming_commits of crates/tydence/src/claims.rs: the walk that *)
(* finds, behind some starting commits, the nearest claim on every line of *)
(* history.  A new stamp binds what it finds behind its parents, and the   *)
(* audit judges what it finds behind its starting commit.                  *)
(*                                                                         *)
(* The history is arbitrary and fixed for a behaviour; a shallow or pruned *)
(* store may lack commits that others name as parents.                     *)
(***************************************************************************)
EXTENDS Naturals, Sequences, FiniteSets, Functions

CONSTANT
    CommitId   \* commit ids

VARIABLES
    parents,   \* the parents of each commit, in the order git records them
    claims,    \* the commits whose tree has .tydence/manifest
    stored,    \* the commits the object store can read
    starts,    \* the commits the walk starts from
    visited,   \* HashSet of commits taken off the frontier
    frontier,  \* the stack of commits to look at
    claiming,  \* the claims found, in the order they were found
    walk       \* "walking", "found" or "failed"

history == <<parents, claims, stored, starts>>
walkVars == <<history, visited, frontier, claiming, walk>>

WalkTypeOK ==
    /\ parents \in [CommitId -> Seq(CommitId)]
    /\ claims \subseteq CommitId
    /\ stored \subseteq CommitId
    /\ starts \in Seq(CommitId)
    /\ visited \subseteq CommitId
    /\ frontier \in Seq(CommitId)
    /\ claiming \in Seq(CommitId)
    /\ walk \in {"walking", "found", "failed"}

-----------------------------------------------------------------------------
WalkStart ==
    /\ visited = {}
    /\ frontier = starts
    /\ claiming = <<>>
    /\ walk = "walking"

Top == frontier[Len(frontier)]
Popped == SubSeq(frontier, 1, Len(frontier) - 1)

\* Broken on purpose: the visited commit stays on the frontier.
KeepVisited ==
    /\ walk = "walking"
    /\ frontier # <<>>
    /\ Top \in visited
    /\ UNCHANGED <<history, visited, frontier, claiming, walk>>

\* A commit reached before, over another line, is not looked at again.
SkipVisited ==
    /\ walk = "walking"
    /\ frontier # <<>>
    /\ Top \in visited
    /\ frontier' = Popped
    /\ UNCHANGED <<history, visited, claiming, walk>>

\* Broken on purpose: the walk goes on behind a claim.
TakeClaimAndGoOn ==
    /\ walk = "walking"
    /\ frontier # <<>>
    /\ Top \in (stored \cap claims) \ visited
    /\ visited' = visited \cup {Top}
    /\ claiming' = Append(claiming, Top)
    /\ frontier' = Popped \o parents[Top]
    /\ UNCHANGED <<history, walk>>

\* A claim ends its line.
TakeClaim ==
    /\ walk = "walking"
    /\ frontier # <<>>
    /\ Top \in (stored \cap claims) \ visited
    /\ visited' = visited \cup {Top}
    /\ claiming' = Append(claiming, Top)
    /\ frontier' = Popped
    /\ UNCHANGED <<history, walk>>

\* Any other commit is replaced by its parents.
FollowParents ==
    /\ walk = "walking"
    /\ frontier # <<>>
    /\ Top \in stored \ (claims \cup visited)
    /\ visited' = visited \cup {Top}
    /\ frontier' = Popped \o parents[Top]
    /\ UNCHANGED <<history, claiming, walk>>

\* An unreadable commit fails the whole walk: no partial answer.
FailUnreadable ==
    /\ walk = "walking"
    /\ frontier # <<>>
    /\ Top \notin stored \cup visited
    /\ visited' = visited \cup {Top}
    /\ frontier' = Popped
    /\ walk' = "failed"
    /\ UNCHANGED <<history, claiming>>

Answer ==
    /\ walk = "walking"
    /\ frontier = <<>>
    /\ walk' = "found"
    /\ UNCHANGED <<history, visited, frontier, claiming>>

WalkNext ==
    SkipVisited \/ TakeClaim \/ FollowParents \/ FailUnreadable \/ Answer

WalkSpec == WalkTypeOK /\ WalkStart /\ [][WalkNext]_walkVars

-----------------------------------------------------------------------------
(***************************************************************************)
(* What the walk is to find.  A set of commits is closed if it has the     *)
(* parents of all its commits that do not claim; the commits on the lines  *)
(* behind the starts are those in every closed set that holds the starts.  *)
(***************************************************************************)
Closed(set) ==
    \A c \in set : c \in claims \/ Range(parents[c]) \subseteq set

LinesBehind(from) ==
    {c \in CommitId : \A set \in SUBSET CommitId :
        Range(from) \subseteq set /\ Closed(set) => c \in set}

OnTheLines == LinesBehind(starts)

(***************************************************************************)
(* When the walk answers, it has found the nearest claim on every line of  *)
(* history and nothing else, each once, whatever the shape of the history: *)
(* diamonds, claims reachable past other claims, repeated starts.  It      *)
(* answers exactly when every commit on the lines it follows can be read:  *)
(* it fails closed, and only if it has to.                                 *)
(***************************************************************************)
FindsNearestClaims ==
    /\ walk = "found" =>
           /\ OnTheLines \subseteq stored
           /\ Range(claiming) = OnTheLines \cap claims
           /\ \A i, j \in DOMAIN claiming : claiming[i] = claiming[j] => i = j
    /\ walk = "failed" => ~ (OnTheLines \subseteq stored)
=============================================================================
