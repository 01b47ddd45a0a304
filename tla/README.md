# tydence, modelled in TLA+

tydence timestamps git commits: a *stamp* is a commit whose tree carries a
manifest of its own content (`.tydence/manifest`), RFC 3161 tokens over that
manifest (`.tydence/tokens/`), and the certificates and CRLs that keep the
tokens verifiable (`.tydence/ltv/`). Stamps bind the stamps before them, so
that renewing the newest renews the evidence for all. This directory models
the program that makes and judges such commits, `crates/tydence`,
`crates/tydence-cli` and `crates/tydence-ucd`, checks the models with TLC and
proves the central properties with TLAPS.

Paths below are relative to `crates/tydence/src` unless they say otherwise.

## 1. The system

| component | source | state | operations |
|---|---|---|---|
| stamping flow | `stamp/{create,bind,acquire,seal}.rs` | the tip read at the start, refreshed records, fixed manifest, tokens so far; the branch | refresh, fix, acquire per site, record, seal by compare-and-swap |
| LTV records | `stamp/ltv.rs`, `deposits.rs` | one chain and one CRL file per issuer in the working tree | refresh, harvest, record, enumerate |
| checkout bookkeeping | `staging.rs` | the git index and the stamp-managed files of the working tree | `sync_artifacts`, `stage_deposits`, `drop_artifacts`, `staged_artifacts` |
| command line | `tydence-cli/src/main.rs` | none; sequences the above | stamp, verify, precommit, drop |
| claim walk | `claims.rs` | visited set, frontier | `nearest_claiming_commits` |
| binding set | `stamp/bind.rs`, `manifest/order.rs`, `verify/binding.rs` | groups, edges, emitted order | deduplicate, derive edges, order |
| audit | `audit.rs`, `verify/{stamp,tree,binding}.rs` | the material gathered, the verdicts so far | gather material, judge each claim, report |
| token verification | `verify/{token,path,revocation,x509}.rs`, `trust.rs`, `ess.rs` | the pass of the chain walk | `verify_token`, `validate_chain`, `ensure_unrevoked` |
| manifest format | `manifest/{model,parse,path,hash}.rs` | the section read last, groups and entries so far | serialize, parse, encode and decode paths |
| snapshot | `snapshot.rs` | trees still to enumerate, entries so far | enumerate a tree with its submodules |
| TSA exchange | `tsp.rs`, `transport.rs` | nonce, clock, retries | request, accept a reply, fetch |
| configuration | `config.rs` | the open block, sites, profiles, references | parse sites and profiles |
| Unicode table | `tydence-ucd/src/*.rs` | ranges parsed so far | parse, check the partition, select and merge |

How they interact. `tydence stamp` reads HEAD once and calls `create::run`,
which runs the flow in one thread: `ltv::refresh` on the working tree,
`apply_ltv_records` onto HEAD's tree, `snapshot` and `bind::run` for the
manifest, one `acquire` per site of the profile (each harvests the token's
chain, fetches its CRLs and verifies the token), `ltv::record` for each
verified token, and `seal::run`, which moves the branch only if it is still
where the command found it. The command line then converges the checkout:
`sync_artifacts` and `stage_deposits`. `tydence drop` removes the artifacts,
`tydence precommit` refuses to let git commit them, `tydence verify` judges
the nearest claims behind a commit. Nothing locks anything between two
commands: they share the branch, the index, the working tree and the object
store, with each other and with the user's git.

What is hard:

- **Overlap.** A stamp lasts as long as its network exchanges. Other stamps,
  commits, restores and drops run in between; the compare-and-swap is the only
  defence, and the index is read, changed in memory and written back whole.
- **Crashes.** The flow writes CRLs, records, the branch, files and the index
  one after the other, and each prefix is a state the next command starts from.
- **Partial failure.** A site may be tolerated or not, and what it sent must
  not leave a trace; a refresh may fail on its third record; a claim under
  audit may have lost its objects.
- **Histories.** Merges, amended tips, commits that inherit a manifest, resets,
  rebases, recombined artifacts, pruned and shallow stores decide what is
  bound and what is judged.
- **The network.** A request is repeated, late or lost, an answer may be
  somebody else's; the nonce, the imprint and the clock have to sort it out.
- **Composite evidence.** A token is content, attributes, a signature and
  certificates; each may be genuine and all of them from different tokens.
- **Choice.** The chain walk takes the first issuer it finds and never turns
  back, and the pool it chooses from holds what other stamps left behind.
- **Time.** CRLs fall due, signer certificates are replaced, records are
  overwritten in place; old evidence must stay decidable.
- **Canonical text.** Two texts that mean the same, or two paths with one
  spelling, would make a signature ambiguous; the readers check neighbours as
  they go and the whole once at the end.

The properties that make each part correct are listed with the runs in
section 4; the `hazards` of `PROJECT.json` name the lines where each of these
bites.

## 2. The modules

```
Repository ── Stamping ──┐
          └── Checkout ──┴─ Tydence ── MCTydence      (4 runs + 1 counterexample)
StampedBranch ◁────────────────┴── TydenceProofs ── HistoryProofs
ClaimWalk ───◁ Audit ── MCAudit                       (1 run + 1 counterexample)
          │         └── AuditProofs
          └──┐
BindingOrder ┴─ Binding ──┬─ MCBinding                (1 run + 1 counterexample)
Ltv ──────────────────────┘
TrustPath ─── TokenVerdict ─── TokenProofs
  └── MCTrustPath ── MCTokenVerdict                   (1 run)
Acquisition ◁─ Exchange ── MCExchange                 (1 run)
Snapshot ── MCSnapshot ──────┐
Config ──────────────────────┤
ManifestText ────────────────┤
UnicodeRanges ── PathCode ───┴─ MCFormats             (1 run)

Exchange, Ltv ───────────── ExchangeProofs            what is fetched
Config, Snapshot, PathCode ─ FormatProofs             what is read
ManifestText ────────────── ManifestProofs            the text of a manifest
Binding ─────────────────── BindingProofs             what is bound
```

`◁` is instantiation: Tydence instantiates StampedBranch and implements it,
Exchange does the same with Acquisition, and Audit instantiates ClaimWalk to
say which claims an audit owes a verdict.

**Repository** is the data: commits with a tree, the index, the working tree,
the branch, and the reading operators the other modules share. A set of
`Files` is the content outside `.tydence/` as one value, the manifest, a token
per site, a chain and a CRL per issuer. A manifest is the record of what it
says; the variable `manifests` numbers the distinct ones, so a number plays
the double hash, and equal numbers mean equal bytes. `BoundGroups` is
`bind::run` as a set: what the walk visits is the least set closed under "the
parents of a commit that does not claim". The code keeps the smallest commit
hex among claims with one manifest; the model keeps the oldest, because the
hex order is unrelated to anything else and the annotation is no evidence.

**Stamping** is the flow and the authorities it talks to. Each step that reads
or writes shared state is one action:

| action | code |
|---|---|
| `StampBegin` | `main.rs` `stamp`: HEAD, its tree and parents, read once |
| `RefreshList`, `RefreshFetch`, `RefreshWrite` | `ltv::refresh`: list, then per record read and fetch, then write |
| `FixManifest` | `apply_ltv_records`, `snapshot`, `bind::run`, `serialize` |
| `TsaReply` | `acquire_token`: any reply, genuine or not |
| `SiteYields`, `SiteTolerated`, `TokenIsRefused` | `harvest` and `verify_token` in `acquire::run` |
| `AcquireDone`, `NothingAcquired` | the end of `acquire::run` |
| `RecordChain`, `RecordCrl` | `ltv::record`, per verified token |
| `Seal`, `BranchMoved` | `seal::run` and its expected reference value |
| `StampFails` | any `Err`, or the process killed |

A stamp that cannot go on (`Refuses`) stops; what it wrote by then stays.
Objects that no reference names are not entered in the store, as nobody can
see them.

**Checkout** is `staging.rs` step by step. `idx` is the index an invocation
read or changed in memory; between reading and writing it back anything may
happen to the index on disk. The file writes of one directory group are one
action.

**Tydence** composes both with the user's git commands (external: edit and
add, commit with its hook, commit without it, merges, reset, restore) and
states the properties. `git commit` is two actions, the hook's look at the
index and the commit of the index as it is by then. `AuditPasses` is the
verdict of `tydence verify` on what the flow makes.

**StampedBranch** is what whoever reads the repository may rely on, without
invocations, index or working tree: commits that make at most one claim each,
and the tip. `Stamp` is one step from the tip to a commit on top of it, or in
its place if it amends, with the tip's content and none of its records lost,
whose claim states its parents, its content, its records and a nearest claim
behind it for every claim that is made there. `Commit` writes an ordinary
commit, which may repeat a claim that was made before, with tokens that came
with it, and makes none of its own. `Move` is a reset. The mapping reads
`story` off the commits and their manifests (`Chapter`) and `tip` off `head`;
`StampIsOneStep` of Tydence is `Abstract!Branch` under it. Everything else the
flow and the checkout do is a stutter.

**Ltv** is `stamp/ltv.rs` on its own and in the detail that Stamping leaves
out: a chain has several certificates, each with an extension of distribution
points that may be absent, malformed or without a URI; the URIs are tried one
after the other; the CRLs of a chain are kept one per issuer; records are
mirrored into the tree, harvested from tokens of several shapes and settled
file by file, while the authorities publish new editions. Any step may be the
last.

**ClaimWalk** is `nearest_claiming_commits` action by action on an arbitrary
history whose store may lack commits. **BindingOrder** is the greedy loop of
`order_binding_groups`. Both have a declarative specification next to the
steps (`FindsNearestClaims`, `GreedyIsCanonical`). **Binding** composes them
into `bind::run`: walk, read, deduplicate, derive edges, order. The walk of
`Repository` is the closed form that the walk of `ClaimWalk` is proved to
compute.

**Audit** is `tydence verify` against histories that somebody edits: the
actions of `Edit` and `World` write commits in every way git allows (stamp,
commit past the guard or with it, merge, replay as a rebase does, recombine
the artifacts of other commits, forge a manifest), move the branch, prune the
object store or cut it shallow, and change the deposits of the working tree.
The audit is `Begin`, `WalkToClaims`, `Gather`, `GatherDeposits`, one
`JudgeClaim` per nearest claim and `Report`, with `WalkFails`, `GatherFails`
and `DepositsFail` for the errors that end it with exit code 2. `Lose` may
happen between any two of them. `Passes` is `judge_claim` with `verify_stamp`:
the artifacts are read, each group is resolved by its `--commit` annotation
(`Resolvable`), then check 2 (`Agrees`), check 4 (`Linked`) and check 3
(`Accepted`, once `MaterialParses`). `issued` is the history of what an
authority was asked to stamp, which the code never sees; `PassMeansStamped`
compares with it. The steps of a stamp are one action here: Tydence has them.

**TrustPath** is `validate_chain`, pass by pass, with `ensure_issuer_fitness`
and `ensure_unrevoked`, on an arbitrary pool of certificates and CRLs. It has
no fixed hierarchy: who signed whom is a relation, rings included. The
declarative counterpart is `CertificationPath`. The walk never turns back, so
it is not complete: with two candidates for one issuer (a cross-signed
authority of which one certificate leads nowhere) it may refuse a token that
has a path. `RefusedOnlyWithoutPath` therefore says `NothingToChoose`, and
`SealedChainsNeverHurt` says that the order of the candidates confines the
choice: chain records cannot make a token fail that its own certificates
support. The walk makes `MAX_CHAIN_LENGTH` passes and may reach an anchor in
the last one, so a trusted path has up to one certificate more than the
number in the message of `ChainTooLong`.

**TokenVerdict** puts `verify_token` around the walk. `Order` lists the faults
in the order the code looks for them, `Outside` and `Inside` say when a token
has each; `RefuseContent` reports the first, `FindSigner` starts the walk at
the certificate the token identifies, `JudgeUsage` judges the key's dedication
to time stamping afterwards. Signatures are symbolic: `statements` is the
history of what keys have signed, and a token may be assembled from the parts
of several statements.

**Exchange** is `acquire_token` over `HttpsTransport::exchange`. A call is
`BuildRequest`, then attempts (`SendRequest`, `Interrupted`), then `Answered`
or `ExchangeFails`, then `Accept` or `Refuse`. What reached the authority stays
in `sent` and what it made in `issued`, both across calls, so an answer may be
the one to an earlier attempt or an earlier call over the same payload. The
nonce is a sequence of bytes, since its encoding is where the code can go
wrong; the rest of a message is an imprint, a time and whether it is well
formed. **Acquisition** is what a caller may rely on: at most one token per
call, over this call's payload, made since the call began, and plausible. This
is also what `TsaReply` of Stamping assumes of a genuine reply; what the
screening does not look at (signature, chain, profile) is `genuine` there.

**Snapshot** is `snapshot::run`: a queue of trees, each enumerated in one
action (`Enumerate`) or refused (`RefuseTree`). The trees, the names in
`.gitmodules` and the places where repositories are kept are fixed and
arbitrary. Files are paths with a kind; a file's hash and size are its tree and
path, as they are functions of the tree.

**Config** is the reader of `.tydence/config`, line by line: what a line must
pass is the sequence `Checks(line)`, in the order of the code, each with its
error; a `Site` or `Profile` line closes the block above it, the end of the
text closes the last one and looks up every selection. `FollowsTheManual` says
what the whole text has to be without a reader, block by block: the lines
between an opening line and the next are the two of a site (`DeclaresSite`) or
selections of sites declared anywhere (`DeclaresProfile`). **ManifestText** is
the reader of a manifest, record by record, with the section it is in, the
announced predecessor and the checks among neighbours, and at the end the
comparison with the text it would write (`Serialized`), whose tokens and
entries are put in order by any sorting (`Sorting`, a choice and not a
recursion). `Framing` is what may be wrong around the records. `IsCanonical`
says what the specification wants of the lines themselves, `SaysGroup` and
`SaysEntry` what they mean. **PathCode** encodes a path byte
by byte, with UTF-8 as `str::from_utf8` takes it, and decodes it again;
**UnicodeRanges** is the build of the table it consults, with the lines sorted
by their first code point, then verified and selected one after the other, and
its binary search.

Operators commented *Broken on purpose* are mutated forms of the definition
that follows them: a dropped guard, a wrong source, a missing reset. Each
property of a passing run is violated when its mutant takes the place of the
original, so none of them holds by the shape of the model. They are used by no
specification.

## 3. Assumptions

- Hashes and signatures are perfect: distinct manifests have distinct numbers,
  a digest is the pair of its algorithm and its payload, and a signature is its
  key and what it covers. `Unforged` says that a token's signature is one that
  its key made, `Truthful` that an authority which signs attributes says the
  truth in them. Outside TokenVerdict, `genuine` is whether a token's
  signature, chain and profile check.
- In the flow a CRL is its `thisUpdate` and is valid for `CrlValidity`;
  certificates do not expire within a run, and a chain advertises one CRL
  point, its issuer's. Ltv and TrustPath drop these three.
- In `Steady` configurations no CRL is overdue and time does not pass during
  an invocation. An audit of what was just sealed is meaningless if the
  authorities publish only overdue CRLs; the flow itself then fails closed.
- `Exclusive` says whether one command at a time touches the repository. The
  pre-commit guard is a check before an act, so `OnlySealsClaim` is checked
  with it and everything about seals also without it.
- Nobody writes history *while* it is audited, since a commit is immutable and
  an audit names its start once; objects may vanish during it. Deposits change
  between audits, as an audit reads each once.
- Nonces are 64 random bits and never drawn twice (`spent`). The local clock is
  right; the authority's may be off by anything in `Drifts`. Time passes
  between calls and while an attempt waits, at most `Timeout` per attempt, not
  while an answer is screened. An authority dates a token by its clock when it
  makes it.
- In `Snapshot` a repository has or lacks whole trees and commits; a tree it
  has is there with its files and its `.gitmodules`. Lacking a blob is the same
  error as lacking the tree.
- In `Config` and `ManifestText` a line is its tokens or its fields. Which
  characters make a token a name, a URL or a family, and how hashes, sizes and
  modes are spelled, is a set or a flag; what decides canonicity (order,
  duplicates, position, the spelling of a path) is modelled. A blank line of a
  configuration is treated as a comment is, and left out of the run's lines.

**Fairness.** `Tydence` has `WF_vars(Proceed(p))` for each process: no step of
the program waits for another process, file and object accesses return, and
every HTTP exchange is bounded by a global timeout of 30 s (`transport.rs`
`EXCHANGE_TIMEOUT`). Nothing is assumed of the user, the authorities or the
faults. `Proceed` of a process at `verify` is always enabled, since a token
verifies, is tolerated or ends the stamp. `Binding`, `TrustPath` and
`TokenVerdict` have weak fairness of their single thread; `Audit` has it of
`AuditStep` and of nothing that edits or prunes the repository. `Exchange` has
`WF(Proceed)`: an attempt that nobody answers runs into the timeout
(`ExchangeFails`), and one that is interrupted is retried or given up; nothing
is assumed of the authority, the network or the clock. The other modules
state no liveness and no fairness.

## 4. The runs

| run | instance | what it shows |
|---|---|---|
| `one_by_one` | 1 process, 2 sites of one issuer, one of them `ContinueOnError`, 2 contents, 3 commits, crash between seal and convergence, all habits but `--no-verify` | `OnlySealsClaim`: nothing but a seal carries a manifest; `RestoreConverges`: the printed recovery does what a convergence does; `FreshStampReadsClean`: after a stamp git sees no change; `FreshStampPasses` its audit |
| `history` | 1 process; 5 commits on branches, merged, with and without the guard, while the world stands still; 3 commits over 2 ticks, CRLs valid for 1, one rotation | `RenewalChainCoversHistory`: every claim is reachable through the groups of the newest; `RecordsArePermanent`; `SecondUseIsSelfContained`: from an issuer's second use on the sealed tree alone decides; `EvidenceStays` decidable |
| `concurrent` | 2 processes, not exclusive, a fault at any step, commits, restores and drops, 3 commits | `SealedStampsHold`: tokens of a seal are over its own manifest, which describes its tree and parents and binds what the bound commits hold; `OnlyVerifiedMaterialSettles`; `NoStampIsLost`; `StampIsOneStep`: with any overlap and any fault, every stamp takes effect in one step of StampedBranch |
| `terminates` | the same with 2 commits, no symmetry | `InvocationsEnd` |
| `binding` | all histories of 4 commits (merges, inherited and amended manifests, one lost or unparsable), every payload order; all relations on 4 groups or fewer; 2 stamps over 2 issuers, 3 URIs and 2 editions of each CRL | `FindsNearestClaims`, and no answer if a commit on the way is missing; `GreedyIsCanonical`, and a reported cycle means no ordering; `HistoriesAreOrderable`; `CrlsFollowChains`: what is sealed and what is settled has a CRL of this stamp for every certificate that advertises one; `BindingEnds` |
| `trust` | a signer, two intermediates, a root: every relation of who signed whom, intermediates embedded, sealed or absent, one of them or the signer itself an anchor or not, path length limits, one certificate or CRL at fault; 3 passes. Beside them a sound chain under tokens put together from 26 statements of two authorities sharing a key | `TrustIsEarned`, `RefusedOnlyWithoutPath`, `SealedChainsNeverHurt`; `AcceptedWasStated`: what is accepted is one statement of the very authority, over this manifest; `ConformantIsRefusedForTrustOnly`; `VerdictComes` |
| `exchange` | 2 calls, 2 payloads, 3 nonces of 2 bytes with 4 values, 1 retry, timeout 1, tolerance 2, drifts -1, 1 and 3, 3 ticks, 2 tokens | `KeepsThePromise`: Exchange implements Acquisition; `NonceIsFaithful`, `GoodAnswersPass`, `ExchangeEnds` |
| `audit` | 2 sites, deposits of one disturbed; 3 commits under every edit with one tampering; 4 commits when two stamps come first and the last merges or replays | `PassMeansStamped`: a claim passes only with the snapshot an authority stamped; `FreshCloneAgrees`: if no deposit is reported unsealed, a clone gives the same verdicts; `EveryClaimIsJudged`; `StampsStand`: genuine stamps pass wherever they were moved; `AuditEnds` |
| `formats` | configurations of up to 8 lines from 17; manifests of up to 6 records from 18; paths of up to 4 bytes from 10; data files of up to 5 lines over 5 code points; a superproject and two submodule trees, 2 gitlink paths, every way they contain each other, complete, incomplete or missing in the store and in the working tree, one tree misnamed or with a foreign mode | `ReadsTheManual`: a configuration is accepted exactly when the whole text follows the manual, with that meaning; `ReadsTheCanonicalText`: a manifest is accepted exactly when it is canonical, with that meaning; `PathsSurvive`; `TableIsTheDataFile`; `CoversTheSnapshot`: the entries are the files the specification names, each once; `HistoryStaysReadable`; `WalkIsBounded` |
| `transitive_order` | the histories of `binding` | violated: see section 6 |
| `clobbered_chain` | 1 process, 1 site, one rotation, 4 commits | violated: see section 6 |
| `edited_history` | 1 site, 5 commits, no tampering | violated: see section 6 |

A run of several instances (`binding`, `trust`, `formats`) starts in any of
them and stays there; the parts share no state.

Why the bounds are enough.

- *Flow.* Three commits are an adopted repository, a stamp and something on
  top of it (a stamp on a stamp, an amended stamp, an ordinary commit that
  inherits artifacts or records); the hazards of the flow and the checkout need
  no more. Five commits are two lines with a stamp each, their merge and a
  stamp on top, which is where a walk could miss a line. Two sites of one
  issuer share one record file, the case in which records collide, and give
  every mixture of tolerated and fatal failure. Two processes are what a lost
  update or a stale read needs. Two ticks with validity 1 let a CRL fall due
  and be replaced between two stamps. `MaxCommits`, `MaxTime` and `MaxGen` are
  guards of `StampBegin` and the commits, of `Tick` and of `Rotate`: the
  program has none of them, and at the bound these actions just stop. Two
  stamps begun at the bound may still exceed it by one each.
  `LongOrChanging` keeps long histories and a changing world apart.
- *Binding.* Four commits hold the diamond, the criss-cross of a claim behind
  another claim, and an inherited manifest on each side of a merge; four groups
  hold every cycle, chain and diamond of the ordering. `MaxStamps` and
  `MaxEdition` of 2 let a CRL be republished between, or in the middle of, two
  stamps; the chains share issuers and distribution points, and one of them is
  advertised at two places.
- *Trust.* A signer, two intermediates and a root hold the ring, the
  cross-signed intermediate, the dead end and the longest chain; with 3 passes
  each bound of `MaxChainLength` is met exactly and exceeded. Two certificates
  for one key are what tells binding to a certificate from binding to a key.
- *Exchange.* Two calls over one payload are what confuses a late answer with
  a fresh one, one retry gives a repeated request, and the nonces are a zero,
  one with a leading zero and a high bit, and one with neither. Tolerance is
  twice the timeout, as in the code (60 s and 30 s); the drifts are within the
  margin of a good answer, on both sides, and beyond the tolerance. `MaxTime`,
  `MaxTokens` and the limit of two calls bound counters that the program does
  not have.
- *Audit.* With three commits a root, a stamp and anything that can be done to
  it or put on top of it are there, together with every disturbance of the
  deposits; a fourth one is for two stamps on one line or on two and their
  merge or rewriting, where a walk has several claims. `LongOrTampered` keeps
  these apart, `MaxCommits` and `MaxTampered` bound what anybody writes.
- *Formats.* A text ends at its first refused line, which keeps eight lines
  within reach: two sites and a profile, before or after them, or a site and a
  profile that selects it twice, or a block left unfinished by the last line.
  Six records hold two groups with tokens and a predecessor. Four bytes hold
  each length of a UTF-8 sequence, cut short at each place. Five code points
  hold two selected ranges that touch, two that do not, and a gap. Three trees
  and two paths hold a submodule used twice, nested, at two depths and in a
  cycle. `MaxLines`, `MaxRecords`, `MaxBytes` and `MaxData` are the lengths.

Symmetry: contents in `one_by_one` and processes in `concurrent` are
interchangeable in every definition and property of these runs; `terminates`
checks a liveness property and uses none. `binding`, `trust`, `audit` and
`formats` end, and `exchange` stops after its two calls, so TLC is told not
to report their end as a deadlock; every run of `Tydence` checks for deadlock.
In `clobbered_chain` nobody but the stamp acts, so that the instance stops at
`MaxCommits`: four commits put that stop after a third stamp, well behind the
second one, which shows the violation.

## 5. The proofs

All theorems hold for every value of the constants that satisfies the named
assumptions: `RepositoryAssumption`, `StampingAssumption`, `TydenceAssumption`
(types; a finite set of sites; `None` is none of the values it stands beside),
`PayloadAssumption`, `TrustAssumption`, `TokenAssumption`,
`EncodingAssumption`, `ExchangeAssumption`, `LtvAssumption`,
`ConfigAssumption`, `ManifestAssumption`, `SnapshotAssumption`,
`PathAssumption`, `UnicodeAssumption` and `AuditAssumption`. In particular they
hold for any number of processes, any faults, any habits of the user and any
bounds. Some of the assumptions say more than types: a snapshot has finitely
many trees and paths, a byte is a number up to 255 and the table of escaped
characters holds the controls and the space (`PathAssumption`), a nonce has at
least one byte, no directive, name, URL or family of a configuration starts
with the `#` of a comment (`ConfigAssumption`), and a line of a manifest is the
record of its fields, no predecessor that waits for its group being the value
that says that none does (`ManifestAssumption`). A theorem
about the flow that needs one command at a time, a steady world or a hook in
use states it as its hypothesis, in the words of the constants `Exclusive`,
`Steady`, `UserDoes` and `Faults`; each is met by the constants of a run.

Recursion is proved about without an induction theorem. Where the model has a
recursive function, or takes one from the library (`FlattenSeq`), a proof first shows that the values up to `k` exist for
every `k`, by looking at the least `k` for which they do not (`LeastNumber`,
`SmallestNumber`), and from then on uses the equation alone. What a search or a
sorting finds is shown in the same way, by the least case in which it is not
so. Where a property
speaks of an ancestry, the ancestry is shown to be the least closed set
(`HistoriesUnfold`, `ChainsUnfold`, `Iterates`), and the proofs about steps
speak of closed sets.

### The flow and the checkout

- `TydenceProofs!Typing`: `Spec => []TypeOK`. `TypeOK` is not inductive: an
  action that reads `TreeOf(base[p])`, `acquired[p][settled[p] + 1]` or
  `reply[p].site` keeps the types only if these exist. `Consistent == TypeOK /\
  Positions` adds what each step knows: `head` is a commit, and so is `base`
  while a stamp runs and `seen` while a convergence does; an invocation about
  to write the index holds one; at `verify` there is a reply and a site, at
  `recordCrl` a token left to record. One lemma per
  action, one step per variable it changes.
- `TydenceProofs!OnlyVerifiedMaterial`: `Spec => []OnlyVerifiedMaterialSettles`.
  The invariant `Provenance` says of *every* place a chain record can be that
  it is `learned` or absent: the working tree, the index, every commit, and
  what each invocation holds in memory (`records`, `idx`, `acquired`). The
  property alone is not inductive, since a chain read by a refresh reaches a
  commit many steps later.
- `TydenceProofs!SealedStamps`: `Spec => []SealedStampsHold`. The invariant
  `Evidence` has two further parts: every group of every manifest is linked to
  the commit it names, which stays true because commits and manifests are only
  ever appended; and `Promise(p)`, what an invocation has secured so far: the
  fixed manifest describes `ContentTree(p)` and `StampParents(p)`, which read
  only immutable objects and the invocation's own memory, and each acquired
  token verifies against it. That no other process can break `Promise(p)` is
  the reason the flow is sound without a lock. The mutant that reads the
  records off the disk at sealing time breaks exactly this part.
- `HistoryProofs!StampsAreNeverLost`: `Spec => []NoStampIsLost` for users who
  neither amend nor reset, with any number of commands at a time and any
  faults. A step that moves the branch gives the new tip the old one among its
  parents (`TipMovesOn`), and nobody amends (`Amendless`).
- `HistoryProofs!StampsAreOneStep`: `Spec => StampIsOneStep`, a refinement,
  for any number of commands at a time, any faults and any habits of the user.
  A seal maps to `Stamp`, an ordinary commit to `Commit`, a reset to `Move`,
  and each other action leaves the story and the tip alone. Two invariants
  carry it on top of `Evidence` and `Consistent`. `Traces` says that every
  manifest and token in a commit, the index, the working tree or a copy of the
  index in memory was sealed in some commit: hence an ordinary commit, whatever
  the checkout held by then, only repeats. `Binds` says that what an invocation
  fixed binds the nearest claims behind what it stamps (`Lineage` relates the
  least closed set of the model to the recursion of the abstract module). The
  compare-and-swap of `seal` is what makes it a step *from the tip*: with a
  seal that moves the branch wherever it is, TLC finds the refinement violated.
- The theorems of `HistoryProofs` that follow assume `Exclusive`. What that gives is
  an invariant of its own, `InPeace`: at most one invocation is under way,
  none while git commits, and what it read is still what is there. With it the
  steps are those of one process at a time, and these hold:
  - `OrdinaryCommitsDoNotClaim`: `Spec => []OnlySealsClaim`, with the hook in
    use. `HookGuards`: between the hook and the commit the index has no
    artifact.
  - `RenewalChains`: `Spec => []RenewalChainCoversHistory`, if the hook is in
    use or no convergence fails half-way. `Chained` says that the manifest of
    every claim, and the one that is being stamped, covers the claims behind
    it; `Staged` the same of the index, which a user who bypasses the hook may
    commit at any time. Neither alternative can be dropped: after a failed
    convergence the index may hold an older manifest than the branch.
  - `RecordsStay`: `Spec => []RecordsArePermanent`, if no convergence is cut
    short before it wrote the index. `Kept` says that the working tree records
    what index and branch do, for any faults, and what an invocation remembers
    of its refresh; `Permanent` that the index has the records of HEAD.
  - `SecondUse`: `Spec => []SecondUseIsSelfContained`, in a steady world, for
    any faults. `Fresh` says that what an invocation holds is as of now.
  - `RestoreRecovers`: `Spec => RestoreConverges`, and `FreshStampIsClean`:
    `Spec => FreshStampReadsClean`, both with `CleanFaults`. `Tidy` says that
    the index tracks every artifact of the working tree outside a convergence
    or a drop, and what each step of these has achieved (`Placed`). The
    faults that `CleanFaults` leaves out are those after which an artifact
    lies in the working tree that no index tracks; no reset removes it, and
    TLC finds `RestoreConverges` violated when they are let in.
  - `FreshStampVerifies`: `Spec => FreshStampPasses`, in a steady world in
    which no invocation dies between a chain record and its CRL. `Pairs` says
    that chains and CRLs come in pairs everywhere, `Recorded` that what has
    been recorded decides the tokens it was recorded for. With the fault left
    in the theorem is false: see the orphaned CRL in section 6.
  - `EvidenceDoesNotDecay`: `Spec => EvidenceStays`, of every stamp behind a
    fresh one, under the same hypotheses and with one issuer for all sites.
    `Aged` says that no sealed token is from the future and that those of the
    commit being checked out are from now, so that the CRL that decides the
    newest stamp decides every older one of its issuer. With several issuers a
    reset takes away the CRL of an issuer the newest stamp has no token of.

### The histories

- `BindingProofs!WalkIsCorrect`: `WalkSpec => []FindsNearestClaims` for all
  histories, finite or not, with any commits missing. The invariant says that
  visited and frontier commits are on the lines behind the starts, that the
  visited non-claims have all their parents visited or on the frontier, and
  that `claiming` lists the visited claims once each. When the frontier is
  empty the visited set is closed, hence contains the least closed set.
- `BindingProofs!OrderIsCanonical`: `OrderSpec => []GreedyIsCanonical`
  for any finite set of groups and any relation. The
  emitted groups are a prefix of which every alternative ordering that agrees
  so far can only continue with an emittable group, hence not with a smaller
  one; and a set of slots in which each has a binder in the set has no
  ordering.
- `BindingProofs!HistoriesHaveAnOrder`: `BindingSpec =>
  []HistoriesAreOrderable` for all histories in which every commit is older than
  its children (`Ages`), which is so in any store, as a commit names its
  parents by their hashes. A manifest is as old as the oldest stamp
  that carries it (`Rank`); an inherited manifest was sealed before
  (`SealedBefore`), and stamps with one manifest have their parents in common,
  so that whatever a manifest binds is older than it (`BoundIsOlder`). Hence
  the youngest of any groups is bound by none of them, and the loop never gets
  stuck. `Bound` ties the groups and edges of the loop to what the walk found.
- `AuditProofs`, four theorems, three of them from one invariant. `Vouched`:
  genuine tokens anywhere in the history are over manifests an authority
  stamped, and what was stamped is what the manifest says to this day, because
  manifests are only appended; a verdict that passes ties manifest and tree together, hence
  `AuditPassesWhatWasStamped`: `AuditSpec => []PassMeansStamped`.
  `GenuineIsSound`: a tree of the sealing flow fits its manifest, whose groups
  name stamps that were there to be bound; it stays so wherever the tree is
  replayed, hence `GenuineStampsPass`: `AuditSpec => []StampsStand`.
  `Gathered`: while it is judged the material is that of the trees alone, if
  nothing was reported unsealed, hence `AuditNeedsNoDeposits`: `AuditSpec =>
  []FreshCloneAgrees`. They hold for any number of forged commits, while the
  run has one, and for histories of any length.
  The fourth, `AuditJudgesEveryClaim`: `AuditSpec => []EveryClaimIsJudged`,
  rests on `Ordered` (parents are older than their children) and `Accounted`:
  from the walk on the audit owes a verdict on what it found, and it ends with
  exit code 0 or 1 when it has given them all. That iterating as often as
  there may be commits gives the least closed set, which is what the walk of
  `ClaimWalk` is proved to find, needs the order of the commits and
  `MaxCommits`, the bound of both.

### Trust and tokens

- `TokenProofs!TrustSafety`: `TrustSpec => []TrustIsEarned`, for any pool,
  any CRLs and any `MaxChainLength`. The invariant says that what has been
  climbed is a path already: each certificate but the last is valid, screened,
  signed by the next and known to be unrevoked by it, each but the first and
  the last is fit for what is below it, and while the walk goes on the path has
  one certificate more than the passes made. `UnrevokedIsKnown` connects the
  code's judgement over all CRLs of an issuer with the declarative one.
- `TokenProofs!VerdictSafety`: `TokenSpec => [](AcceptedWasStated /\
  TrustIsEarned)`, for any token, pool, statements and digest families. The
  invariant adds to that of the walk that from the moment the signer is found
  the token has no fault, and that an accepted token has a trusted walk behind
  it. `PartsAgree` draws from the absence of faults that content, attributes,
  signature and certificate hang together, and `SoundIsStated` that the
  statement whose signature the token carries is therefore about all of them;
  the steps of the walk are those of `TrustSafety`.
- `TokenProofs!NoPathIsMissed`: `TrustSpec => []RefusedOnlyWithoutPath`.
  `Alongside` says that where there is nothing to choose the walk stands, on
  every certification path, at the certificate of its pass; every reason to
  refuse would then be a flaw of that path.
- `TokenProofs!SealedChainsDoNoHarm`: `TrustSpec => []SealedChainsNeverHurt`.
  `TrustedWith` recurs over the passes left; `Stages` are its values, and
  `Supported` says that the walk stays at a certificate that is trusted within
  the passes it has left, because a candidate among the anchors and the
  embedded certificates comes before any sealed one (`OwnComesFirst`).
- `TokenProofs!ConformantTokensPass`: `TokenSpec =>
  []ConformantIsRefusedForTrustOnly`. `Grounds` says that a verdict has the
  fault, the chain or the key usage it names; a conformant token has no fault.
  It rests on certificates and their digests determining each other.
- `TokenProofs!WalksWithinVerdicts`: the two properties of the walk hold in
  `TokenSpec` too, whose walk is that of `TrustPath` begun anew.

### What is fetched

- `ExchangeProofs!ExchangeKeepsThePromise`: `ExchangeSpec => KeepsThePromise`,
  a refinement. The reason a late or foreign answer is harmless is that every
  nonce on the wire belongs to one draw: `EncodingInjective` shows, for any
  width and any size of a byte, that `EncodeNonce` maps different draws to
  different contents. The invariant then says that every nonce on the way was
  drawn, and that a token with the nonce of the current call was made since
  the call began.
- `ExchangeProofs!GoodAnswersAreTaken`: `ExchangeSpec => GoodAnswersPass`, for
  any timeout, tolerance and number of retries. `Patient` adds to the invariant
  above that an attempt is screened no later than its own timeout, whatever the
  attempts before it took; with it the distance from making a token to
  screening it is at most `Timeout`.
- `ExchangeProofs!NonceSaysWhatWasDrawn`: `ExchangeSpec =>
  []NonceIsFaithful`, for any width. `Evaluates` is the running value of a
  sequence of bytes; leading zeros leave it at zero, and appending the rest
  gives the value of the rest. That a call carries the encoding of what it
  drew is the invariant `Carried`.
- `ExchangeProofs!RevocationFollowsChains`: `LtvSpec => []CrlsFollowChains`,
  for any certificates, distribution points and editions. The invariant
  follows a CRL from the response (`Followed`) to the report of the refresh
  (`Reported`), into the tree that is sealed (`Mirrored`), and from there
  through the harvest into the files settled later (`Settling`); `Dated` says
  that no CRL is of an edition to come, which is why a later one does not take
  the tree back.

### What is read

- `FormatProofs!ConfigResolves`: `ConfigSpec => []SelectionsResolve`, for any
  lines and texts of any length. `SelectionsResolve` speaks of the end only;
  the invariant says of the text so far that every selection of a closed
  profile and of the open one is remembered in `references`, that no profile
  holds a site twice, and that a closed site has both of its values.
  `SelectionsResolve` also follows from the next theorem and is checked by no
  run of its own.
- `FormatProofs!ParsesTheManual`: `ConfigSpec => []ReadsTheManual`, for texts
  of any length. While a text is read (`Progress`), the blocks above the open
  one declare what is held (`SitesAbove`, `ProfilesAbove`) and the open one is
  what its lines have said so far (`SiteSoFar`, `ProfileSoFar`). Each line
  either extends this, with what `WhatPasses` says of a line that passes its
  checks, or is refused, and then the text has become one that no line below
  can mend: a block whose name is taken, a line in no block, a site with a
  second URL, an unfinished block. Only a selection can still be answered
  below it, which is why the end looks up `references` (`Recollects`).
- `ManifestProofs!ParsesTheCanonicalText`: `ManifestSpec =>
  []ReadsTheCanonicalText`, for texts of any length. `TextInv` ties what was
  read to the lines: `Layout` gives each group the offset of its first line, so
  that parents, groups and entries stand one behind the other in the text,
  `Sections` ties the section to what was read, and `NoneTwice` is what the
  readers of the fields look for. `SortingSorts` shows that every order on a
  finite sequence has a sorting, `SortsNothing` that what rises already is its
  own, and `FlattenSeqIs` that the lines of the groups stand at their offsets;
  hence `ComparisonDecides`: what would be written is the text exactly if
  tokens and entries rise and each line is spelled canonically, and that is
  `IsCanonical` (`EndDecides`). A record that is refused leaves a text that is
  not canonical, whatever would follow (`RefusedIsNotCanonical`).
- `FormatProofs`, three theorems about `SnapshotSpec`, from one invariant for
  trees nested in any shape. Every tree that is pending ends a walk of
  gitlinks, with the trees on the way for ancestors, no two the same
  (`Trailed`): hence `WalkStaysBounded`, `[]WalkIsBounded`, by counting. No
  pending prefix leads to another, nor to an entry (`Apart`, `Behind`), so that
  no file is entered twice (`Once`); entries come from walks (`Sourced`), and
  of every walk the files are entered or a part of it is pending
  (`Outstanding`): hence `SnapshotIsCovered`, `[]CoversTheSnapshot`. A gitlink
  that leads back to a tree above it would be the beginning of walks of every
  length (`AroundForever`), which the hypothesis of `HistoryStaysReadable`
  excludes: hence `StoreKeepsHistoryReadable`, `[]HistoryStaysReadable`, where
  `Held` adds that what is pending is in its store. That a tree has one
  record per path (`OnePerPath`) is a conjunct of the initial states, as git
  sees to it.
- `FormatProofs!FieldsKeepPaths`: `PathSpec => []PathsSurvive`, for any bytes,
  well-formed UTF-8 or not, and any table that holds the controls and the
  space. `Spells(text, bytes, at)` says that the first `at[k]` characters stand
  for the first `k` bytes, each for itself or as an escape; spellings can be
  joined (`SpellingsJoin`), so that while it is encoded the field spells the
  bytes taken (`Written`), and while it is decoded what is unread spells the
  bytes that are missing (`ReadBack`).
- `FormatProofs!TableAnswersForTheFile`: `UnicodeSpec => []TableIsTheDataFile`,
  for lines of any number, in any order, with any ranges and categories.
  `Partitioned` says that the lines verified so far cover the code points
  below `Expected`, each by one line, `Selects` that the ranges merged so far
  hold the points of the selected lines and no other, and `Ascends` that they
  rise without overlap. `SearchEnds` follows the binary search, size by size,
  to the range it ends at, hence `MemberSearches`: the answer is whether any
  range holds the point.

### What is model-checked only

- Liveness, which the prover cannot reach: `InvocationsEnd`, `BindingEnds`,
  `VerdictComes`, `ExchangeEnds`, `AuditEnds`.
- What `EvidenceStays` says with several issuers: the theorem and the run that
  checks it have one.
- The three properties that are violated (section 6).

## 6. Where documentation and code differ

- **`transitive_order`.** `docs/stamping.md` 4.1 orders the groups of a
  manifest by what their manifests *transitively* bind. `derive_binding_edges`
  sees direct bindings between members of the set only. When a line whose
  nearest stamp binds, through a stamp that is not nearest, the nearest stamp
  of the other line, the code may order the two the wrong way round. The
  comment on the function admits the limit; no caller widens the edges.
- **`clobbered_chain`.** `docs/stamping.md` 3 says the working tree holds the
  latest data per issuer, and 5 that the following stamp seals what a stamp
  deposited. When a signer certificate was replaced, the record of the new
  chain lasts from `ltv::record` until `sync_artifacts` of the same command,
  which writes the older record of the sealed tree over it. The evidence
  itself is not lost: each token embeds its chain, and `EvidenceStays` holds
  in the same world.
- **`edited_history`.** `docs/stamping.md` 6 says that a stamped commit's
  evidence survives history editing as long as its tree is preserved, and 7
  that position annotations take no part in the verdict. `judge_claim` finds a
  bound stamp by its `--commit` annotation and by nothing else, so that a
  rebased stamp fails once the originals of the stamps it binds are pruned,
  although their rebased copies lie in the history behind it. `StampsStand`
  says what does hold: a genuine stamp passes wherever it was moved, as long
  as the commits it names are stored.

Some consequences of the design that the models make visible without a
sentence that they contradict:

- An index entry added by somebody else between `sync_artifacts` reading and
  writing the index is overwritten.
- With overlapping commands the pre-commit guard can pass before another
  command's convergence stages artifacts, which is why `OnlySealsClaim`
  assumes `Exclusive`.
- A record is refreshed by its chain. If a stamp dies after it wrote a chain
  and before its CRL, the chain is staged, the CRL fetched by a later refresh
  that dies in turn, and `git reset --hard` takes the staged chain away, its
  CRL stays behind untracked. Committed with the next `git add`, it is
  refreshed by nobody; the convergence after a later stamp lays it over the
  CRL just recorded, and the stamp that was just made does not pass its audit
  once that CRL is overdue. This is why `FreshStampVerifies` leaves one fault
  out.
- All material gathered for an audit is parsed for each token, so one CRL
  record that is framed as PEM and holds no CRL fails every token of every
  site (`MaterialParses`), until a stamp fetches it anew.
- An audit judges the nearest claims and links their groups to the bound
  stamps, but does not judge these in turn; and `verify_binding_order` is
  called by no verification, though `manifest/parse.rs` leaves the order of
  groups to it.

## 7. Not modelled

ASN.1, PEM and X.509 decoding, signature schemes and digest computation (no
control that TLC could explore: they succeed or fail); HTTP below "answers, or
does not within the timeout"; wording, exit-status formatting and argument
parsing of the command line; the characters of names, URLs, hashes and object
identifiers (`hex.rs` is there as far as paths are escaped, `oids.rs` is a
list of constants); predecessor repositories, which the code refuses so far
(`audit.rs`), beyond that refusal; file-system errors other than as
`StampFails`, `EndStamp` and `CheckoutFails`; partial writes of a single file;
the fixtures of the unit tests. The status of each component is in
`PROJECT.json`.

## 8. Plan

1. *Done*: repository, stamping flow, checkout, composition; claim walk and
   binding order; LTV collection; trust path, revocation and token verdict; the
   exchange with an authority and the abstract acquisition it implements; the
   audit on edited histories; the snapshot; the readers of configuration and
   manifest, the path code and the Unicode table; the theorems of section 5.
2. *Done*: the abstract stamp and the flow that implements it
   (`StampsAreOneStep`), what a fresh stamp does for the older ones
   (`EvidenceDoesNotDecay`), and the readers of configuration, manifest and
   Unicode data for texts of any length.
3. What is left of `EvidenceStays` with several issuers, some of which later
   stamps have no token of.
4. Any representative among claims with one manifest, and predecessor
   repositories when the code supports them.
