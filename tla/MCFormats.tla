----------------------------- MODULE MCFormats -----------------------------
(***************************************************************************)
(* The texts and the tree walk that a stamp is written and judged with,    *)
(* each on its own: a behaviour is of one of them and leaves the others at *)
(* their start.                                                            *)
(***************************************************************************)
EXTENDS MCSnapshot, Config, ManifestText, PathCode

VARIABLE subject

formats == <<configVars, manifestVars, pathVars, unicodeVars, snapshotVars>>

\* Lines in order, and with every kind of thing wrong with them.
ConfigLines ==
    {<<"#", "Site">>, <<"Site", "a">>, <<"Site", "b">>,
     <<"Site", "a", "b">>, <<"Site", "-">>, <<"URL", "https">>,
     <<"URL", "http">>, <<"Imprint", "sha256">>, <<"Imprint", "md5">>,
     <<"Profile", "a">>, <<"Profile", "b">>, <<"UseSite", "a">>,
     <<"UseSite", "b">>, <<"UseSite", "a", "ContinueOnError">>,
     <<"UseSite", "a", "b">>, <<"UseSite", "b", "#">>, <<"Use", "a">>}

Hash(n, m) == [sha256 |-> n, sha3 |-> m]

RecordLines ==
    {ParentsLine(<<"p">>), BadLine("parents"), BadLine("entry"),
     BadLine("other"), PredecessorLine("c", "o", TRUE),
     PredecessorLine("c", "o", FALSE), PredecessorLine("d", "o", TRUE),
     PastManifestLine("c", Hash(1, 1)), PastManifestLine("c", Hash(1, 2)),
     PastManifestLine("d", Hash(2, 2)),
     PastTokenLine("c", 1, Hash(3, 3)), PastTokenLine("c", 2, Hash(3, 3)),
     PastTokenLine("c", 1, Hash(4, 4)), PastTokenLine("d", 1, Hash(3, 3)),
     EntryLine(1, 1, TRUE), EntryLine(1, 1, FALSE), EntryLine(1, 2, TRUE),
     EntryLine(2, 1, TRUE)}

\* %, 4, A, a blank, two continuation bytes, and the first bytes of two,
\* three and four, one of them of what would be surrogates.
Bytes == {37, 52, 65, 32, 128, 160, 194, 226, 237, 240}

\* The Unicode data that these bytes can spell characters of: controls and
\* the blank; the soft hyphen; blanks, marks and separators.
Escapes == << <<0, 32>>, <<127, 160>>, <<173, 173>>, <<8192, 8207>>,
              <<8232, 8239>>, <<8287, 8303>> >>

Data(first, last, category) ==
    [first |-> first, last |-> last, category |-> category]

DataLines ==
    {Data(0, 0, "Cc"), Data(1, 1, "Lo"), Data(2, 2, "Zs"), Data(3, 3, "Lo"),
     Data(4, 4, "Cn"), Data(0, 1, "Cc"), Data(2, 3, "Lo"), Data(3, 4, "Zs"),
     Data(1, 3, "Lo"), Data(4, 4, "malformed"), Data(4, 3, "Cc")}

FormatsInit ==
    /\ ConfigStart /\ ManifestStart /\ PathStart /\ UnicodeStart
    /\ \/ /\ subject \in {"config", "manifest", "path", "unicode"}
          /\ framing \in IF subject = "manifest" THEN Framing ELSE {"whole"}
          /\ PlainWorld
       \/ /\ subject = "snapshot"
          /\ framing = "whole"
          /\ Worlds
    /\ SnapshotStart

FormatsNext ==
    \/ /\ subject = "config"
       /\ ConfigNext
       /\ UNCHANGED <<subject, manifestVars, pathVars, unicodeVars,
                      snapshotVars>>
    \/ /\ subject = "manifest"
       /\ ManifestNext
       /\ UNCHANGED <<subject, configVars, pathVars, unicodeVars,
                      snapshotVars>>
    \/ /\ subject = "path"
       /\ PathNext
       /\ UNCHANGED <<subject, configVars, manifestVars, unicodeVars,
                      snapshotVars>>
    \/ /\ subject = "unicode"
       /\ UnicodeNext
       /\ UNCHANGED <<subject, configVars, manifestVars, pathVars,
                      snapshotVars>>
    \/ /\ subject = "snapshot"
       /\ SnapshotNext
       /\ UNCHANGED <<subject, configVars, manifestVars, pathVars,
                      unicodeVars>>

FormatsSpec == FormatsInit /\ [][FormatsNext]_<<subject, formats>>
=============================================================================
