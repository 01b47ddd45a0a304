---------------------------- MODULE ManifestText ----------------------------
(***************************************************************************)
(* crates/tydence/src/manifest/parse.rs and model.rs: the text of a        *)
(* manifest is read record by record into what it says, and accepted only  *)
(* if that, written again, is the same text.                               *)
(*                                                                         *)
(* A record line is the record of its fields.  Paths and sites (with their *)
(* anchor specification) are numbers in the order of their bytes; a path   *)
(* field is canonical if it is what encode_path writes for its path.       *)
(***************************************************************************)
EXTENDS Naturals, Sequences, SequencesExt

CONSTANTS
    RecordLine,  \* lines a manifest may have below its header
    Absent,      \* no value
    MaxRecords   \* bound on their number

VARIABLES
    framing,     \* what the text has around its records
    lines,       \* the record lines read so far
    section,     \* what was read last
    announced,   \* the pending predecessor with its line, or Absent
    parents,
    groups,      \* binding groups
    listed,      \* entries
    reading      \* "reading", "accepted" or an error, and at which line

manifestVars ==
    <<framing, lines, section, announced, parents, groups, listed, reading>>

-----------------------------------------------------------------------------
(***************************************************************************)
(* The lines Manifest::serialize writes.                                   *)
(***************************************************************************)
ParentsLine(hashes) ==
    [kind |-> "parents", valid |-> TRUE, hashes |-> hashes]

PredecessorLine(commit, origin, canonical) ==
    [kind |-> "predecessor", valid |-> TRUE, commit |-> commit,
     origin |-> origin, canonical |-> canonical]

PastManifestLine(commit, hash) ==
    [kind |-> "past-manifest", valid |-> TRUE, commit |-> commit,
     hash |-> hash]

PastTokenLine(commit, site, hash) ==
    [kind |-> "past-token", valid |-> TRUE, commit |-> commit, site |-> site,
     hash |-> hash]

EntryLine(path, content, canonical) ==
    [kind |-> "entry", valid |-> TRUE, path |-> path, content |-> content,
     canonical |-> canonical]

\* A line that has a record's name and not its fields, or no record's name.
BadLine(kind) == [kind |-> kind, valid |-> FALSE]

IsRecordLine(line) ==
    \/ line = BadLine(line.kind)
    \/ /\ line.kind = "parents"
       /\ line = ParentsLine(line.hashes)
       /\ line.hashes # <<>>
    \/ /\ line.kind = "predecessor"
       /\ line = PredecessorLine(line.commit, line.origin, line.canonical)
       /\ line.origin # Absent /\ line.canonical \in BOOLEAN
    \/ /\ line.kind = "past-manifest"
       /\ line = PastManifestLine(line.commit, line.hash)
    \/ /\ line.kind = "past-token"
       /\ line = PastTokenLine(line.commit, line.site, line.hash)
       /\ line.site \in Nat
    \/ /\ line.kind = "entry"
       /\ line = EntryLine(line.path, line.content, line.canonical)
       /\ line.path \in Nat /\ line.content \in Nat
       /\ line.canonical \in BOOLEAN

ASSUME ManifestAssumption ==
    \A line \in RecordLine :
        /\ IsRecordLine(line)
        /\ line.kind = "predecessor" /\ line.valid =>
              Absent \notin [commit : {line.commit}, origin : {line.origin},
                             at : Nat]

\* Where the elements of a sequence of size n go when it is sorted by what
\* is below what.
Sorting(below, n) ==
    CHOOSE order \in Bijection(1..n, 1..n) :
        \A i, j \in 1..n : i < j => <<order[j], order[i]>> \notin below

Pairs(s) == (DOMAIN s) \X (DOMAIN s)

TokenLines(group) ==
    LET tokens == group.tokens
        order == Sorting({p \in Pairs(tokens) :
                              tokens[p[1]].site < tokens[p[2]].site},
                         Len(tokens))
    IN  [i \in DOMAIN tokens |->
            PastTokenLine(group.commit, tokens[order[i]].site,
                          tokens[order[i]].hash)]

GroupLines(group) ==
    (IF group.origin = Absent THEN <<>>
     ELSE <<PredecessorLine(group.commit, group.origin, TRUE)>>)
        \o <<PastManifestLine(group.commit, group.hash)>>
        \o TokenLines(group)

\* Lines compare by their path first: a blank is below any byte of a path.
EntryBelow(e, f) ==
    e.path < f.path \/ (e.path = f.path /\ e.content < f.content)

EntryLines ==
    LET order == Sorting({p \in Pairs(listed) :
                              EntryBelow(listed[p[1]], listed[p[2]])},
                         Len(listed))
    IN  [i \in DOMAIN listed |->
            EntryLine(listed[order[i]].path, listed[order[i]].content, TRUE)]

Serialized ==
    (IF parents = <<>> THEN <<>> ELSE <<ParentsLine(parents)>>)
        \o FlattenSeq([i \in DOMAIN groups |-> GroupLines(groups[i])])
        \o EntryLines

-----------------------------------------------------------------------------
\* SECTION_ARROWS: the sections a record may follow, and its own.
FollowsOn(kind) ==
    CASE kind = "parents" -> {"start"}
      [] kind = "predecessor" -> {"start", "parents", "group"}
      [] kind = "past-manifest" -> {"start", "parents", "announced", "group"}
      [] kind = "past-token" -> {"group"}
      [] kind = "entry" -> {"start", "parents", "group", "entries"}

SectionOf(kind) ==
    CASE kind = "parents" -> "parents"
      [] kind = "predecessor" -> "announced"
      [] kind \in {"past-manifest", "past-token"} -> "group"
      [] kind = "entry" -> "entries"

Known(line) == line.kind \in {"parents", "predecessor", "past-manifest",
                              "past-token", "entry"}

(***************************************************************************)
(* What read_past_manifest, read_past_token and read_entry look for.       *)
(***************************************************************************)
RepeatsBinding(line) ==
    \E i \in DOMAIN groups : groups[i].hash.sha256 = line.hash.sha256

NotAsAnnounced(line) ==
    announced # Absent /\ announced.commit # line.commit

OfAnotherGroup(line) == Last(groups).commit # line.commit

RepeatsToken(line) ==
    \E i \in DOMAIN Last(groups).tokens :
        Last(groups).tokens[i].site = line.site

\* Broken on purpose: only the comparison at the end looks for duplicates.
NeverRepeats(line) == FALSE

RepeatsPath(line) == listed # <<>> /\ Last(listed).path = line.path

FieldFault(line) ==
    CASE line.kind = "past-manifest" ->
            IF RepeatsBinding(line) THEN "DuplicateRecord"
            ELSE IF NotAsAnnounced(line) THEN "MisplacedRecord" ELSE "none"
      [] line.kind = "past-token" ->
            IF OfAnotherGroup(line) THEN "MisplacedRecord"
            ELSE IF RepeatsToken(line) THEN "DuplicateRecord" ELSE "none"
      [] line.kind = "entry" ->
            IF RepeatsPath(line) THEN "DuplicateRecord" ELSE "none"
      [] OTHER -> "none"

\* The error of a record line, in the order the reader looks for them.
RecordFault(line) ==
    IF ~Known(line) THEN "UnknownRecord"
    ELSE IF section \notin FollowsOn(line.kind) THEN "MisplacedRecord"
    ELSE IF ~line.valid THEN "MalformedRecord"
    ELSE FieldFault(line)

-----------------------------------------------------------------------------
Outcome(says, at) == [says |-> says, at |-> at]

\* What a text may have around its records: what run looks for first.
Framing == {"whole", "UnsupportedFormat", "MissingFinalNewline"}

ManifestStart ==
    /\ lines = <<>> /\ section = "start" /\ announced = Absent
    /\ parents = <<>> /\ groups = <<>> /\ listed = <<>>
    /\ reading = Outcome("reading", 0)

RefuseFraming ==
    /\ reading.says = "reading"
    /\ framing # "whole"
    /\ reading' = Outcome(framing, 0)
    /\ UNCHANGED <<framing, lines, section, announced, parents, groups,
                   listed>>

ReadsRecord(line) ==
    /\ reading.says = "reading"
    /\ framing = "whole"
    /\ Len(lines) < MaxRecords
    /\ lines' = Append(lines, line)
    /\ UNCHANGED framing

\* A line without fault: the section advances once it is accepted.
TakesRecord(line, kind) ==
    /\ ReadsRecord(line)
    /\ line.kind = kind
    /\ RecordFault(line) = "none"
    /\ section' = SectionOf(kind)
    /\ reading' = reading

ReadParents(line) ==
    /\ TakesRecord(line, "parents")
    /\ parents' = line.hashes
    /\ UNCHANGED <<announced, groups, listed>>

ReadPredecessor(line) ==
    /\ TakesRecord(line, "predecessor")
    /\ announced' = [commit |-> line.commit, origin |-> line.origin,
                     at |-> Len(lines) + 2]
    /\ UNCHANGED <<parents, groups, listed>>

ReadPastManifest(line) ==
    /\ TakesRecord(line, "past-manifest")
    /\ groups' = Append(groups,
           [commit |-> line.commit, hash |-> line.hash, tokens |-> <<>>,
            origin |-> IF announced = Absent THEN Absent ELSE announced.origin])
    /\ announced' = Absent
    /\ UNCHANGED <<parents, listed>>

ReadPastToken(line) ==
    /\ TakesRecord(line, "past-token")
    /\ groups' = [groups EXCEPT ![Len(groups)].tokens =
                     Append(@, [site |-> line.site, hash |-> line.hash])]
    /\ UNCHANGED <<announced, parents, listed>>

ReadEntry(line) ==
    /\ TakesRecord(line, "entry")
    /\ listed' = Append(listed,
                        [path |-> line.path, content |-> line.content])
    /\ UNCHANGED <<announced, parents, groups>>

RefuseRecord(line) ==
    /\ ReadsRecord(line)
    /\ RecordFault(line) # "none"
    /\ reading' = Outcome(RecordFault(line), Len(lines) + 2)
    /\ UNCHANGED <<section, announced, parents, groups, listed>>

\* The text ends: a predecessor without its group, or the comparison.
FinishManifest ==
    /\ reading.says = "reading"
    /\ framing = "whole"
    /\ reading' =
           IF announced # Absent THEN Outcome("MisplacedRecord", announced.at)
           ELSE IF Serialized = lines THEN Outcome("accepted", 0)
           ELSE Outcome("NonCanonicalSerialization", 0)
    /\ UNCHANGED <<framing, lines, section, announced, parents, groups,
                   listed>>

ManifestNext ==
    \/ RefuseFraming
    \/ \E line \in RecordLine :
          \/ ReadParents(line) \/ ReadPredecessor(line)
          \/ ReadPastManifest(line) \/ ReadPastToken(line)
          \/ ReadEntry(line) \/ RefuseRecord(line)
    \/ FinishManifest

ManifestSpec ==
    ManifestStart /\ framing \in Framing /\ [][ManifestNext]_manifestVars

-----------------------------------------------------------------------------
(***************************************************************************)
(* The manifest of stamping.md 4, as a condition on the lines themselves.  *)
(***************************************************************************)
At(i, kind) == i \in DOMAIN lines /\ lines[i].kind = kind

Positions(kind) == {i \in DOMAIN lines : lines[i].kind = kind}

\* A token line stands under the past-manifest line of its group.
StandsUnder(i, j) ==
    /\ At(j, "past-manifest")
    /\ j < i /\ \A k \in (j + 1)..i : At(k, "past-token")

IsSpelledCanonically(line) ==
    line.valid /\ (line.kind \in {"predecessor", "entry"} => line.canonical)

IsCanonical ==
    /\ \A i \in DOMAIN lines : IsSpelledCanonically(lines[i])
    /\ Positions("parents") \subseteq {1}
    /\ \A i \in Positions("predecessor") :
           /\ At(i + 1, "past-manifest")
           /\ lines[i + 1].commit = lines[i].commit
    /\ \A i, j \in Positions("past-manifest") :
           lines[i].hash.sha256 = lines[j].hash.sha256 => i = j
    /\ \A i \in Positions("past-token") :
           /\ \E j \in DOMAIN lines :
                 StandsUnder(i, j) /\ lines[i].commit = lines[j].commit
           /\ At(i + 1, "past-token") => lines[i].site < lines[i + 1].site
    /\ \A i \in Positions("entry") :
           i < Len(lines) => /\ At(i + 1, "entry")
                             /\ lines[i].path < lines[i + 1].path

Origin(i) ==
    IF At(i - 1, "predecessor") THEN lines[i - 1].origin ELSE Absent

\* The lines of a kind, as the places of a sequence of what they say.
Places(said, kind) ==
    {at \in [DOMAIN said -> Positions(kind)] :
        /\ Range(at) = Positions(kind)
        /\ \A m, n \in DOMAIN said : m < n => at[m] < at[n]}

\* The group of a past-manifest line, with the token lines that follow it.
SaysGroup(i, group) ==
    /\ group = [commit |-> lines[i].commit, hash |-> lines[i].hash,
                tokens |-> group.tokens, origin |-> Origin(i)]
    /\ \A m \in DOMAIN group.tokens :
          /\ At(i + m, "past-token")
          /\ group.tokens[m] = [site |-> lines[i + m].site,
                                hash |-> lines[i + m].hash]
    /\ ~At(i + Len(group.tokens) + 1, "past-token")

SaysEntry(i, entry) ==
    entry = [path |-> lines[i].path, content |-> lines[i].content]

(***************************************************************************)
(* A text is accepted exactly when it is the canonical one of stamping.md  *)
(* 4, and what it is read as is what its lines say, each predecessor and   *)
(* token with the group they belong to: two texts never say the same, so a *)
(* signature over one of them is a signature over what it says.  That no   *)
(* path occurs twice rests on the check of adjacent entries and on the    *)
(* comparison together.                                                    *)
(***************************************************************************)
ReadsTheCanonicalText ==
    reading.says # "reading" =>
        IF framing # "whole" \/ ~IsCanonical
        THEN reading.says # "accepted"
        ELSE /\ reading.says = "accepted"
             /\ parents = IF At(1, "parents") THEN lines[1].hashes ELSE <<>>
             /\ \E at \in Places(groups, "past-manifest") :
                   \A n \in DOMAIN groups : SaysGroup(at[n], groups[n])
             /\ \E at \in Places(listed, "entry") :
                   \A n \in DOMAIN listed : SaysEntry(at[n], listed[n])
=============================================================================
