------------------------------- MODULE Config -------------------------------
(***************************************************************************)
(* crates/tydence/src/config.rs: the reader of .tydence/config.  The text  *)
(* is read line by line.  A Site or Profile line closes the block above it *)
(* and opens its own, the end of the text closes the last one, and a       *)
(* selection may name a site that is defined further down.                 *)
(*                                                                         *)
(* A line is the sequence of its tokens: what separates them, and the      *)
(* carriage return that may end a line, is gone.                           *)
(***************************************************************************)
EXTENDS Naturals, Sequences, SequencesExt

CONSTANTS
    Line,       \* lines a text may have
    Name,       \* tokens that can name a site or a profile
    Url,        \* tokens that are https URLs
    Family,     \* tokens that name an imprint algorithm
    Hashed,     \* tokens that start with #
    Unset,       \* no token at all
    MaxLines    \* bound on the length of a text

Directive == {"Site", "URL", "Imprint", "Profile", "UseSite"}

ASSUME ConfigAssumption ==
    /\ \A line \in Line : line \in Seq(Range(line))
    /\ Unset \notin Name \cup Url \cup Family
    /\ (Directive \cup {"ContinueOnError"} \cup Name \cup Url \cup Family)
           \cap Hashed = {}

\* A selection may be of any token: only the end of the text resolves it.
Token == UNION {Range(line) : line \in Line}

Site == [url : Url, imprint : Family]
UseSite == [site : Token, continues : BOOLEAN]

\* The block being read: a site with its values so far or a profile with
\* its selections, and the line that opened it.
TopLevel == [kind |-> "top", at |-> 0]
SiteBlock(name, at) == [kind |-> "site", name |-> name, at |-> at,
                        url |-> Unset, imprint |-> Unset]
ProfileBlock(name, at) == [kind |-> "profile", name |-> name, at |-> at,
                           selections |-> <<>>]

VARIABLES
    text,        \* the lines read so far
    scope,
    sites,       \* the closed site blocks, by name
    profiles,    \* the selections of each closed profile
    references,  \* every selection with its line, until the end
    verdict      \* "reading", "accepted" or an error, and at which line

configVars == <<text, scope, sites, profiles, references, verdict>>

Blocks ==
    {TopLevel}
        \cup [kind : {"site"}, name : Name, at : Nat,
              url : Url \cup {Unset}, imprint : Family \cup {Unset}]
        \cup [kind : {"profile"}, name : Name, at : Nat,
              selections : Seq(UseSite)]

ConfigTypeOK ==
    /\ text \in Seq(Line)
    /\ scope \in Blocks
    /\ DOMAIN sites \subseteq Name
    /\ \A name \in DOMAIN sites : sites[name] \in Site
    /\ DOMAIN profiles \subseteq Name
    /\ \A name \in DOMAIN profiles : profiles[name] \in Seq(UseSite)
    /\ references \in Seq([site : Token, at : Nat])
    /\ verdict \in [says : {"reading", "accepted", "UnknownDirective",
           "MalformedDirective", "MisplacedDirective", "DuplicateDirective",
           "InvalidName", "UnknownSite", "IncompleteSite", "EmptyProfile"},
           at : Nat]

-----------------------------------------------------------------------------
\* What the characters of a token make it.
IsName(token) == token \in Name
IsHttpsUrl(token) == token \in Url
IsFamily(token) == token \in Family

Verdict(says, at) == [says |-> says, at |-> at]

\* Empty lines and comments.
Skipped(line) == line # <<>> => Head(line) \in Hashed

Argument(line) == IF Len(line) > 1 THEN line[2] ELSE Unset

\* What close_scope finds wrong with the block, and what it returns.
SiteIsIncomplete == scope.kind = "site" /\ Unset \in {scope.url, scope.imprint}

ProfileIsEmpty == scope.kind = "profile" /\ scope.selections = <<>>

Unfinished == SiteIsIncomplete \/ ProfileIsEmpty

Closing ==
    Verdict(IF SiteIsIncomplete THEN "IncompleteSite"
            ELSE IF ProfileIsEmpty THEN "EmptyProfile" ELSE "sound",
            scope.at)

SitesClosed ==
    IF scope.kind # "site" THEN sites
    ELSE [name \in DOMAIN sites \cup {scope.name} |->
             IF name = scope.name
             THEN [url |-> scope.url, imprint |-> scope.imprint]
             ELSE sites[name]]

ProfilesClosed ==
    IF scope.kind # "profile" THEN profiles
    ELSE [name \in DOMAIN profiles \cup {scope.name} |->
             IF name = scope.name THEN scope.selections
             ELSE profiles[name]]

SelectedSites == {scope.selections[i].site : i \in DOMAIN scope.selections}

-----------------------------------------------------------------------------
(***************************************************************************)
(* read_directive: the checks of each directive in the order they are      *)
(* made, each with the error of a line that fails it.                      *)
(***************************************************************************)
Check(fails, error) ==
    Verdict(IF fails THEN error ELSE "sound", Len(text) + 1)

OpenChecks(line, defined) ==
    << Check(Len(line) # 2, "MalformedDirective"),
       Check(~IsName(Argument(line)), "InvalidName"),
       Closing,
       Check(Argument(line) \in defined, "DuplicateDirective") >>

ValueChecks(line, fits, field) ==
    << Check(scope.kind # "site", "MisplacedDirective"),
       Check(Len(line) # 2 \/ ~fits, "MalformedDirective"),
       Check(scope.kind = "site" /\ field # Unset, "DuplicateDirective") >>

SelectionChecks(line) ==
    << Check(scope.kind # "profile", "MisplacedDirective"),
       Check(~ \/ Len(line) = 2
               \/ Len(line) = 3 /\ line[3] = "ContinueOnError",
             "MalformedDirective"),
       Check(scope.kind = "profile" /\ Argument(line) \in SelectedSites,
             "DuplicateDirective") >>

DirectiveChecks(line) ==
    CASE Head(line) = "Site" ->
            OpenChecks(line, DOMAIN SitesClosed)
      [] Head(line) = "Profile" ->
            OpenChecks(line, DOMAIN ProfilesClosed)
      [] Head(line) = "URL" ->
            ValueChecks(line, IsHttpsUrl(Argument(line)),
                        IF scope.kind = "site" THEN scope.url ELSE Unset)
      [] Head(line) = "Imprint" ->
            ValueChecks(line, IsFamily(Argument(line)),
                        IF scope.kind = "site" THEN scope.imprint ELSE Unset)
      [] Head(line) = "UseSite" -> SelectionChecks(line)
      [] OTHER -> << Check(TRUE, "UnknownDirective") >>

Checks(line) ==
    << Check(\E i \in 2..Len(line) : line[i] \in Hashed,
             "MalformedDirective") >> \o DirectiveChecks(line)

Passes(line) ==
    \A i \in DOMAIN Checks(line) : Checks(line)[i].says = "sound"

-----------------------------------------------------------------------------
ConfigStart ==
    /\ text = <<>>
    /\ scope = TopLevel
    /\ sites = <<>>
    /\ profiles = <<>>
    /\ references = <<>>
    /\ verdict = Verdict("reading", 0)

Reads(line) ==
    /\ verdict.says = "reading"
    /\ Len(text) < MaxLines
    /\ text' = Append(text, line)

ReadNothing(line) ==
    /\ Reads(line)
    /\ Skipped(line)
    /\ UNCHANGED <<scope, sites, profiles, references, verdict>>

\* A line that passes its checks.
Takes(line, directive) ==
    /\ Reads(line)
    /\ ~Skipped(line)
    /\ Head(line) = directive
    /\ Passes(line)
    /\ verdict' = verdict

OpenSite(line) ==
    /\ Takes(line, "Site")
    /\ sites' = SitesClosed
    /\ profiles' = ProfilesClosed
    /\ scope' = SiteBlock(line[2], Len(text) + 1)
    /\ UNCHANGED references

OpenProfile(line) ==
    /\ Takes(line, "Profile")
    /\ sites' = SitesClosed
    /\ profiles' = ProfilesClosed
    /\ scope' = ProfileBlock(line[2], Len(text) + 1)
    /\ UNCHANGED references

ReadUrl(line) ==
    /\ Takes(line, "URL")
    /\ scope' = [scope EXCEPT !.url = line[2]]
    /\ UNCHANGED <<sites, profiles, references>>

ReadImprint(line) ==
    /\ Takes(line, "Imprint")
    /\ scope' = [scope EXCEPT !.imprint = line[2]]
    /\ UNCHANGED <<sites, profiles, references>>

ReadSelection(line) ==
    /\ Takes(line, "UseSite")
    /\ scope' = [scope EXCEPT !.selections =
                    Append(@, [site |-> line[2], continues |-> Len(line) = 3])]
    /\ references' =
           Append(references, [site |-> line[2], at |-> Len(text) + 1])
    /\ UNCHANGED <<sites, profiles>>

\* The first check that the line fails decides.
RefuseLine(line) ==
    /\ Reads(line)
    /\ ~Skipped(line)
    /\ \E i \in DOMAIN Checks(line) :
           /\ Checks(line)[i].says # "sound"
           /\ \A j \in 1..(i - 1) : Checks(line)[j].says = "sound"
           /\ verdict' = Checks(line)[i]
    /\ UNCHANGED <<scope, sites, profiles, references>>

\* Broken on purpose: a selection is resolved by the blocks above the last.
DanglingAbove ==
    {i \in DOMAIN references : references[i].site \notin DOMAIN sites}

\* The references that no site block of the whole text resolves.
Dangling ==
    {i \in DOMAIN references : references[i].site \notin DOMAIN SitesClosed}

\* finish: the text ends inside a block that is not complete.
RefuseLastBlock ==
    /\ verdict.says = "reading"
    /\ Unfinished
    /\ verdict' = Closing
    /\ UNCHANGED <<text, scope, sites, profiles, references>>

\* finish: the last block closes, and every selection is looked up.
FinishConfig ==
    /\ verdict.says = "reading"
    /\ ~Unfinished
    /\ sites' = SitesClosed
    /\ profiles' = ProfilesClosed
    /\ scope' = TopLevel
    /\ verdict' = IF Dangling = {} THEN Verdict("accepted", 0)
                  ELSE Verdict("UnknownSite", references[Min(Dangling)].at)
    /\ UNCHANGED <<text, references>>

ConfigNext ==
    \/ \E line \in Line :
          \/ ReadNothing(line) \/ OpenSite(line) \/ OpenProfile(line)
          \/ ReadUrl(line) \/ ReadImprint(line) \/ ReadSelection(line)
          \/ RefuseLine(line)
    \/ RefuseLastBlock \/ FinishConfig

ConfigSpec == ConfigStart /\ [][ConfigNext]_configVars

-----------------------------------------------------------------------------
\* acquire::run looks up every selection of a profile before it asks the
\* first site, and refuses to go on with an unknown or a repeated one.
ProfileResolves(profile) ==
    LET selections == profiles[profile]
    IN  /\ \A i \in DOMAIN selections :
               selections[i].site \in DOMAIN sites
        /\ \A i, j \in DOMAIN selections :
               selections[i].site = selections[j].site => i = j

(***************************************************************************)
(* The manual's configuration (config.md 2 to 5), from the text as a whole *)
(* and with no reader walking over it.  A block is an opening line and     *)
(* what stands between it and the next one.                                *)
(***************************************************************************)
Lines == {i \in DOMAIN text : ~Skipped(text[i])}

Openers(kind) == {i \in Lines : Head(text[i]) = kind}

Opening == Openers("Site") \cup Openers("Profile")

Body(i) == {j \in Lines \ Opening :
               i < j /\ \A k \in Opening : k <= i \/ j < k}

\* A line for each of the two values, in either order.
DeclaresSite(i, site) ==
    \E j, k \in Body(i) :
        /\ Body(i) = {j, k}
        /\ text[j] = <<"URL", site.url>>
        /\ text[k] = <<"Imprint", site.imprint>>

Selection(line) ==
    [site |-> line[2], continues |-> Last(line) = "ContinueOnError"
                                     /\ Len(line) = 3]

\* A line for each selection, in the same order.
DeclaresProfile(i, profile) ==
    \E at \in [1..Len(profile) -> Body(i)] :
        /\ Range(at) = Body(i)
        /\ \A m, n \in DOMAIN at : m < n => at[m] < at[n]
        /\ profile = [n \in DOMAIN at |-> Selection(text[at[n]])]

IsSelection(line) ==
    \E i \in Openers("Site") :
        \/ line = <<"UseSite", text[i][2]>>
        \/ line = <<"UseSite", text[i][2], "ContinueOnError">>

IsProfile(i) ==
    /\ Body(i) # {}
    /\ \A j \in Body(i) : IsSelection(text[j])
    /\ \A j, k \in Body(i) : text[j][2] = text[k][2] => j = k

FollowsTheManual ==
    /\ \A i \in Opening : Len(text[i]) = 2 /\ text[i][2] \in Name
    /\ \A i, j \in Opening : text[i] = text[j] => i = j
    /\ Lines = Opening \cup UNION {Body(i) : i \in Opening}
    /\ \A i \in Openers("Site") : \E site \in Site : DeclaresSite(i, site)
    /\ \A i \in Openers("Profile") : IsProfile(i)

Declared(kind) == {text[i][2] : i \in Openers(kind)}

(***************************************************************************)
(* parse accepts a text exactly when it follows the manual, and then its   *)
(* result is what the blocks declare: the order of the blocks, what closes *)
(* a block and where a site is defined that a profile selects make no      *)
(* difference, and no block or line of an accepted text is lost.           *)
(***************************************************************************)
ReadsTheManual ==
    verdict.says # "reading" =>
        IF ~FollowsTheManual THEN verdict.says # "accepted"
        ELSE /\ verdict.says = "accepted"
             /\ DOMAIN sites = Declared("Site")
             /\ DOMAIN profiles = Declared("Profile")
             /\ \A i \in Openers("Site") :
                   DeclaresSite(i, sites[text[i][2]])
             /\ \A i \in Openers("Profile") :
                   DeclaresProfile(i, profiles[text[i][2]])

(***************************************************************************)
(* What stamping walks can be walked: acquire::run resolves every profile  *)
(* of an accepted configuration, as it counts on, and each site it then    *)
(* asks has a URL and an imprint algorithm, whichever of the two blocks    *)
(* came first and whatever else the text selects.                          *)
(***************************************************************************)
SelectionsResolve ==
    verdict.says = "accepted" =>
        \A p \in DOMAIN profiles :
            /\ ProfileResolves(p)
            /\ \A i \in DOMAIN profiles[p] :
                   sites[profiles[p][i].site] \in Site
=============================================================================
