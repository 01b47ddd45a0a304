------------------------------ MODULE Checkout ------------------------------
(***************************************************************************)
(* The bookkeeping of crates/tydence/src/staging.rs, as the command line   *)
(* drives it: after a seal, `tydence stamp` converges the index and the    *)
(* working tree to HEAD (sync_artifacts) and queues the LTV records HEAD   *)
(* does not cover (stage_deposits); `tydence drop` leaves the stamped      *)
(* state (drop_artifacts).                                                 *)
(*                                                                         *)
(* None of them locks anything between reading the index and writing it    *)
(* back: the copy an invocation read is a variable, and what others do to  *)
(* the index in between is overwritten.                                    *)
(***************************************************************************)
EXTENDS Repository

VARIABLES
    seen,     \* the HEAD commit whose sealed files are being written
    idx       \* the index as an invocation read or changed it in memory

checkoutVars == <<seen, idx>>

CheckoutSteps == {"sync", "syncArtifacts", "syncRecords", "syncStale",
                  "syncIndex", "stage", "stageIndex",
                  "dropIndex", "dropManifest", "dropTokens"}

CheckoutTypeOK ==
    /\ seen \in [Proc -> Nat]
    /\ idx \in [Proc -> Files \cup {None}]

-----------------------------------------------------------------------------
Sealed(p) == TreeOf(seen[p])

\* Broken on purpose: entries of artifacts HEAD lacks are left in place.
SyncedIndexBeside(p) ==
    [idx[p] EXCEPT
        !.manifest = Sealed(p).manifest,
        !.tokens   = Overlay(Sealed(p).tokens, @),
        !.chains   = Overlay(Sealed(p).chains, @),
        !.crls     = Overlay(Sealed(p).crls, @)]

\* The index entries sync_artifacts leaves: HEAD's artifacts and no other
\* artifact, HEAD's records laid over the index's, the rest as it was read.
SyncedIndex(p) ==
    [idx[p] EXCEPT
        !.manifest = Sealed(p).manifest,
        !.tokens   = Sealed(p).tokens,
        !.chains   = Overlay(Sealed(p).chains, @),
        !.crls     = Overlay(Sealed(p).crls, @)]

\* The index entries stage_deposits leaves: every record of the working
\* tree queued, no entry removed.
StagedIndex ==
    [index EXCEPT !.chains = Overlay(work.chains, @),
                  !.crls   = Overlay(work.crls, @)]

Forget(p) ==
    /\ seen' = [seen EXCEPT ![p] = 0]
    /\ idx' = [idx EXCEPT ![p] = None]

-----------------------------------------------------------------------------
\* sync_artifacts lists the sealed files of HEAD and opens the index.
SyncOpen(p) ==
    /\ Step(p, "sync", "syncArtifacts")
    /\ seen' = [seen EXCEPT ![p] = head]
    /\ idx' = [idx EXCEPT ![p] = index]
    /\ UNCHANGED <<repoVars, result>>

\* The manifest and the tokens are written out...
SyncArtifacts(p) ==
    /\ Step(p, "syncArtifacts", "syncRecords")
    /\ work' = [work EXCEPT
           !.manifest = Lay(Sealed(p).manifest, @),
           !.tokens   = Overlay(Sealed(p).tokens, @)]
    /\ UNCHANGED <<commits, manifests, head, index, result, checkoutVars>>

\* ...then the LTV records the seal covers, whatever the files hold...
SyncRecords(p) ==
    /\ Step(p, "syncRecords", "syncStale")
    /\ work' = [work EXCEPT !.chains = Overlay(Sealed(p).chains, @),
                            !.crls   = Overlay(Sealed(p).crls, @)]
    /\ UNCHANGED <<commits, manifests, head, index, result, checkoutVars>>

\* Broken on purpose: stale artifacts leave the index alone.
SyncStaleNothing(p) ==
    /\ Step(p, "syncStale", "syncIndex")
    /\ UNCHANGED <<repoVars, result, checkoutVars>>

\* ...and the artifacts the index tracks and HEAD lacks are removed.
SyncStale(p) ==
    /\ Step(p, "syncStale", "syncIndex")
    /\ work' = [work EXCEPT
           !.manifest = LeaveStale(Sealed(p).manifest, idx[p].manifest, @),
           !.tokens = [s \in Site |->
               LeaveStale(Sealed(p).tokens[s], idx[p].tokens[s], @[s])]]
    /\ UNCHANGED <<commits, manifests, head, index, result, checkoutVars>>

\* The index is written back if an entry changed.
SyncIndex(p) ==
    /\ Step(p, "syncIndex", "stage")
    /\ index' = IF SyncedIndex(p) = idx[p] THEN index ELSE SyncedIndex(p)
    /\ Forget(p)
    /\ UNCHANGED <<commits, manifests, head, work, result>>

(***************************************************************************)
(* stage_deposits enumerates the working tree's records and opens the      *)
(* index; with everything queued already the invocation is done.           *)
(***************************************************************************)
StageNothing(p) ==
    /\ Step(p, "stage", "idle")
    /\ StagedIndex = index
    /\ result' = [result EXCEPT ![p] = 0]
    /\ UNCHANGED <<repoVars, seen, idx>>

StageOpen(p) ==
    /\ Step(p, "stage", "stageIndex")
    /\ StagedIndex # index
    /\ idx' = [idx EXCEPT ![p] = StagedIndex]
    /\ UNCHANGED <<repoVars, seen, result>>

StageIndex(p) ==
    /\ Step(p, "stageIndex", "idle")
    /\ index' = idx[p]
    /\ Forget(p)
    /\ result' = [result EXCEPT ![p] = 0]
    /\ UNCHANGED <<commits, manifests, head, work>>

-----------------------------------------------------------------------------
\* drop_artifacts reads the index, and rewrites it only if it has to.
DropOpen(p) ==
    /\ Step(p, "idle",
            IF HasArtifacts(index) THEN "dropIndex" ELSE "dropManifest")
    /\ idx' = [idx EXCEPT ![p] =
           IF HasArtifacts(index) THEN WithoutArtifacts(index) ELSE None]
    /\ UNCHANGED <<repoVars, seen, result>>

DropIndex(p) ==
    /\ Step(p, "dropIndex", "dropManifest")
    /\ index' = idx[p]
    /\ Forget(p)
    /\ UNCHANGED <<commits, manifests, head, work, result>>

DropManifest(p) ==
    /\ Step(p, "dropManifest", "dropTokens")
    /\ work' = [work EXCEPT !.manifest = None]
    /\ UNCHANGED <<commits, manifests, head, index, result, checkoutVars>>

DropTokens(p) ==
    /\ Step(p, "dropTokens", "idle")
    /\ work' = [work EXCEPT !.tokens = NoTokens]
    /\ UNCHANGED <<commits, manifests, head, index, result, checkoutVars>>

\* A checkout step fails, or the process is killed before it.
CheckoutFails(p) ==
    /\ pc[p] \in Faults \cap CheckoutSteps
    /\ pc' = [pc EXCEPT ![p] = "idle"]
    /\ Forget(p)
    /\ result' = [result EXCEPT ![p] = 0]
    /\ UNCHANGED repoVars

SyncStep(p) ==
    \/ SyncOpen(p)  \/ SyncArtifacts(p) \/ SyncRecords(p)
    \/ SyncStale(p) \/ SyncIndex(p)     \/ StageNothing(p)
    \/ StageOpen(p) \/ StageIndex(p)

DropStep(p) ==
    DropIndex(p) \/ DropManifest(p) \/ DropTokens(p)

CheckoutInit ==
    /\ seen = [p \in Proc |-> 0]
    /\ idx = [p \in Proc |-> None]
=============================================================================
