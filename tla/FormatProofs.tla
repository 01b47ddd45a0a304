---------------------------- MODULE FormatProofs -----------------------------
(***************************************************************************)
(* Theorems about what is read: whatever text parse accepts, its profiles  *)
(* can be walked, for lines of any kind and number and in any order; a     *)
(* manifest covers the snapshot it is made from, for trees nested in any   *)
(* shape and depth; a path survives its field, whatever its bytes; and the *)
(* table of code points says what the Unicode data file says, whatever     *)
(* lines that file has and in whatever order.                              *)
(***************************************************************************)
EXTENDS Config, Snapshot, PathCode, SequenceTheorems, FiniteSetTheorems,
        WellFoundedInduction, TLAPS

Reference == [site : Token, at : Nat]

\* A selection that is remembered until the end of the text.
Remembered(selections) ==
    \A i \in DOMAIN selections :
        \E j \in DOMAIN references : references[j].site = selections[i].site

\* None selects a site twice.
Distinct(selections) ==
    \A i, j \in DOMAIN selections :
        selections[i].site = selections[j].site => i = j

(***************************************************************************)
(* The inductive invariant.  A selection leaves the block it was read in   *)
(* for profiles when the next block opens, and is resolved much later from *)
(* references: that no block ever holds one that references lacks is what  *)
(* makes the check at the end a check of all of them.                      *)
(***************************************************************************)
Shapes ==
    /\ text \in Seq(Line)
    /\ scope \in Blocks
    /\ references \in Seq(Reference)

Closed ==
    /\ \A name \in DOMAIN sites : sites[name] \in Site
    /\ \A name \in DOMAIN profiles :
           Remembered(profiles[name]) /\ Distinct(profiles[name])

Open ==
    scope.kind = "profile" =>
        Remembered(scope.selections) /\ Distinct(scope.selections)

ConfigInv == Shapes /\ Closed /\ Open /\ SelectionsResolve

-----------------------------------------------------------------------------
IsUse(line) ==
    /\ Head(line) = "UseSite"
    /\ \/ Len(line) = 2
       \/ Len(line) = 3 /\ line[3] = "ContinueOnError"

\* What a line has that passes its checks, by its directive.
Acceptable(line) ==
    \/ /\ Head(line) = "Site"
       /\ Len(line) = 2 /\ line[2] \in Name
       /\ ~Unfinished /\ line[2] \notin DOMAIN SitesClosed
    \/ /\ Head(line) = "Profile"
       /\ Len(line) = 2 /\ line[2] \in Name
       /\ ~Unfinished /\ line[2] \notin DOMAIN ProfilesClosed
    \/ /\ Head(line) = "URL"
       /\ scope.kind = "site" /\ Len(line) = 2 /\ line[2] \in Url
       /\ scope.url = Unset
    \/ /\ Head(line) = "Imprint"
       /\ scope.kind = "site" /\ Len(line) = 2 /\ line[2] \in Family
       /\ scope.imprint = Unset
    \/ /\ IsUse(line)
       /\ scope.kind = "profile" /\ line[2] \notin SelectedSites

LEMMA WhatPasses ==
    ASSUME NEW line
    PROVE  Passes(line) <=> /\ \A i \in 2..Len(line) : line[i] \notin Hashed
                            /\ Acceptable(line)
<1> DEFINE comment == Check(\E i \in 2..Len(line) : line[i] \in Hashed,
                            "MalformedDirective")
           Sound(checks) == \A i \in DOMAIN checks : checks[i].says = "sound"
<1>1. Passes(line) <=> Sound(<<comment>> \o DirectiveChecks(line))
    BY DEF Passes, Checks
<1>2. comment.says = "sound" <=> \A i \in 2..Len(line) : line[i] \notin Hashed
    BY DEF Check, Verdict
<1> HIDE DEF comment
<1>3. ASSUME NEW error \in {"MalformedDirective", "InvalidName",
                            "DuplicateDirective", "MisplacedDirective",
                            "UnknownDirective"},
             NEW fails \in BOOLEAN
      PROVE  Check(fails, error).says = "sound" <=> ~fails
    BY DEF Check, Verdict
<1>4. Closing.says = "sound" <=> ~Unfinished
    BY DEF Closing, Verdict, Unfinished
<1>5. ASSUME NEW b, NEW c, NEW d
      PROVE  Sound(<<comment>> \o <<b, c, d>>) <=>
                 /\ comment.says = "sound" /\ b.says = "sound"
                 /\ c.says = "sound" /\ d.says = "sound"
  <2> DEFINE all == <<comment>> \o <<b, c, d>>
  <2>1. /\ DOMAIN all = 1..4 /\ all[1] = comment
        /\ all[2] = b /\ all[3] = c /\ all[4] = d
      OBVIOUS
  <2> HIDE DEF all
  <2>2. Sound(all) <=> /\ all[1].says = "sound" /\ all[2].says = "sound"
                       /\ all[3].says = "sound" /\ all[4].says = "sound"
      BY <2>1
  <2> QED
      BY <2>1, <2>2 DEF all
<1>6. ASSUME NEW a, NEW b, NEW c, NEW d
      PROVE  Sound(<<comment>> \o <<a, b, c, d>>) <=>
                 /\ comment.says = "sound" /\ a.says = "sound"
                 /\ b.says = "sound" /\ c.says = "sound" /\ d.says = "sound"
  <2> DEFINE all == <<comment>> \o <<a, b, c, d>>
  <2>1. /\ DOMAIN all = 1..5 /\ all[1] = comment
        /\ all[2] = a /\ all[3] = b /\ all[4] = c /\ all[5] = d
      OBVIOUS
  <2> HIDE DEF all
  <2>2. Sound(all) <=> /\ all[1].says = "sound" /\ all[2].says = "sound"
                       /\ all[3].says = "sound" /\ all[4].says = "sound"
                       /\ all[5].says = "sound"
      BY <2>1
  <2> QED
      BY <2>1, <2>2 DEF all
<1>7. ASSUME NEW a
      PROVE  Sound(<<comment>> \o <<a>>) <=>
                 comment.says = "sound" /\ a.says = "sound"
  <2> DEFINE all == <<comment>> \o <<a>>
  <2>1. DOMAIN all = 1..2 /\ all[1] = comment /\ all[2] = a
      OBVIOUS
  <2> HIDE DEF all
  <2>2. Sound(all) <=> all[1].says = "sound" /\ all[2].says = "sound"
      BY <2>1
  <2> QED
      BY <2>1, <2>2 DEF all
<1> HIDE DEF Sound
<1>8. ASSUME NEW defined
      PROVE  Sound(<<comment>> \o OpenChecks(line, defined)) <=>
                 /\ comment.says = "sound"
                 /\ Len(line) = 2 /\ line[2] \in Name
                 /\ ~Unfinished /\ line[2] \notin defined
  <2>1. /\ Check(Len(line) # 2, "MalformedDirective").says = "sound"
               <=> Len(line) = 2
        /\ Check(~IsName(Argument(line)), "InvalidName").says = "sound"
               <=> Argument(line) \in Name
        /\ Check(Argument(line) \in defined, "DuplicateDirective").says
               = "sound" <=> Argument(line) \notin defined
      BY DEF IsName, Check, Verdict
  <2> QED
      BY <1>4, <1>6, <2>1 DEF OpenChecks, Argument
<1>9. ASSUME NEW fits \in BOOLEAN, NEW given
      PROVE  Sound(<<comment>> \o ValueChecks(line, fits, given)) <=>
                 /\ comment.says = "sound" /\ scope.kind = "site"
                 /\ Len(line) = 2 /\ fits /\ given = Unset
  <2>1. /\ Check(scope.kind # "site", "MisplacedDirective").says = "sound"
               <=> scope.kind = "site"
        /\ Check(Len(line) # 2 \/ ~fits, "MalformedDirective").says = "sound"
               <=> Len(line) = 2 /\ fits
        /\ Check(scope.kind = "site" /\ given # Unset,
                 "DuplicateDirective").says = "sound"
               <=> ~(scope.kind = "site" /\ given # Unset)
      BY <1>3
  <2> QED
      BY <1>5, <2>1 DEF ValueChecks
<1>10. ASSUME Head(line) = "UseSite"
       PROVE  Sound(<<comment>> \o SelectionChecks(line)) <=>
                 /\ comment.says = "sound" /\ IsUse(line)
                 /\ scope.kind = "profile" /\ line[2] \notin SelectedSites
  <2> DEFINE shape == \/ Len(line) = 2
                      \/ Len(line) = 3 /\ line[3] = "ContinueOnError"
  <2>1. /\ Check(scope.kind # "profile", "MisplacedDirective").says = "sound"
               <=> scope.kind = "profile"
        /\ Check(~shape, "MalformedDirective").says = "sound" <=> shape
        /\ Check(scope.kind = "profile" /\ Argument(line) \in SelectedSites,
                 "DuplicateDirective").says = "sound"
               <=> ~(scope.kind = "profile"
                     /\ Argument(line) \in SelectedSites)
      BY <1>3
  <2>2. shape => Argument(line) = line[2]
      BY DEF Argument
  <2>3. IsUse(line) <=> shape
      BY <1>10 DEF IsUse
  <2>4. SelectionChecks(line) =
            << Check(scope.kind # "profile", "MisplacedDirective"),
               Check(~shape, "MalformedDirective"),
               Check(scope.kind = "profile" /\ Argument(line) \in SelectedSites,
                     "DuplicateDirective") >>
      BY DEF SelectionChecks
  <2> HIDE DEF shape
  <2> QED
      BY <1>5, <2>1, <2>2, <2>3, <2>4
<1>11. Sound(<<comment>> \o DirectiveChecks(line)) <=>
           comment.says = "sound" /\ Acceptable(line)
  <2>1. CASE Head(line) = "Site"
      BY <1>8, <2>1 DEF DirectiveChecks, Acceptable, IsUse
  <2>2. CASE Head(line) = "Profile"
      BY <1>8, <2>2 DEF DirectiveChecks, Acceptable, IsUse
  <2>3. CASE Head(line) = "URL"
    <3>1. DirectiveChecks(line) =
              ValueChecks(line, IsHttpsUrl(Argument(line)),
                          IF scope.kind = "site" THEN scope.url ELSE Unset)
        BY <2>3 DEF DirectiveChecks
    <3>2. IsHttpsUrl(Argument(line)) \in BOOLEAN
        BY DEF IsHttpsUrl
    <3>3. Sound(<<comment>> \o DirectiveChecks(line)) <=>
              /\ comment.says = "sound" /\ scope.kind = "site"
              /\ Len(line) = 2 /\ IsHttpsUrl(Argument(line))
              /\ (IF scope.kind = "site" THEN scope.url ELSE Unset) = Unset
        BY <1>9, <3>1, <3>2
    <3> QED
      <4>1. Acceptable(line) <=>
                scope.kind = "site" /\ Len(line) = 2 /\ line[2] \in Url
                /\ scope.url = Unset
          BY <2>3 DEF Acceptable, IsUse
      <4>2. Len(line) = 2 => (IsHttpsUrl(Argument(line)) <=> line[2] \in Url)
          BY DEF IsHttpsUrl, Argument
      <4> QED
          BY <3>3, <4>1, <4>2
  <2>4. CASE Head(line) = "Imprint"
    <3>1. DirectiveChecks(line) =
              ValueChecks(line, IsFamily(Argument(line)),
                          IF scope.kind = "site" THEN scope.imprint ELSE Unset)
        BY <2>4 DEF DirectiveChecks
    <3>2. IsFamily(Argument(line)) \in BOOLEAN
        BY DEF IsFamily
    <3>3. Sound(<<comment>> \o DirectiveChecks(line)) <=>
              /\ comment.says = "sound" /\ scope.kind = "site"
              /\ Len(line) = 2 /\ IsFamily(Argument(line))
              /\ (IF scope.kind = "site" THEN scope.imprint ELSE Unset) = Unset
        BY <1>9, <3>1, <3>2
    <3> QED
      <4>1. Acceptable(line) <=>
                scope.kind = "site" /\ Len(line) = 2 /\ line[2] \in Family
                /\ scope.imprint = Unset
          BY <2>4 DEF Acceptable, IsUse
      <4>2. Len(line) = 2 => (IsFamily(Argument(line)) <=> line[2] \in Family)
          BY DEF IsFamily, Argument
      <4> QED
          BY <3>3, <4>1, <4>2
  <2>5. CASE Head(line) = "UseSite"
      BY <1>10, <2>5 DEF DirectiveChecks, Acceptable
  <2>6. CASE Head(line) \notin Directive
    <3>1. DirectiveChecks(line) = <<Check(TRUE, "UnknownDirective")>>
        BY <2>6 DEF DirectiveChecks, Directive
    <3>2. Check(TRUE, "UnknownDirective").says # "sound"
        BY <1>3
    <3> QED
        BY <1>7, <2>6, <3>1, <3>2 DEF Acceptable, IsUse, Directive
  <2> QED
      BY <2>1, <2>2, <2>3, <2>4, <2>5, <2>6 DEF Directive
<1> QED
    BY <1>1, <1>2, <1>11

LEMMA Opens ==
    ASSUME NEW line, Passes(line), Head(line) \in {"Site", "Profile"}
    PROVE  Len(line) = 2 /\ line[2] \in Name /\ ~Unfinished
BY WhatPasses DEF Acceptable, IsUse

LEMMA TakesUrl ==
    ASSUME NEW line, Passes(line), Head(line) = "URL"
    PROVE  scope.kind = "site" /\ line[2] \in Url
BY WhatPasses DEF Acceptable, IsUse

LEMMA TakesImprint ==
    ASSUME NEW line, Passes(line), Head(line) = "Imprint"
    PROVE  scope.kind = "site" /\ line[2] \in Family
BY WhatPasses DEF Acceptable, IsUse

LEMMA TakesSelection ==
    ASSUME NEW line \in Line, Passes(line), Head(line) = "UseSite"
    PROVE  /\ scope.kind = "profile" /\ line[2] \in Token
           /\ line[2] \notin SelectedSites
<1>1. /\ scope.kind = "profile" /\ Len(line) \in {2, 3}
      /\ line[2] \notin SelectedSites
    BY WhatPasses DEF Acceptable, IsUse
<1>2. line \in Seq(Range(line))
    BY ConfigAssumption
<1>3. line[2] \in Range(line)
    BY <1>1, <1>2 DEF Range
<1> QED
    BY <1>1, <1>3 DEF Token

\* No check has the verdict of a whole text or leaves one to be read on.
LEMMA ChecksRefuse ==
    ASSUME NEW line, NEW i \in DOMAIN Checks(line)
    PROVE  Checks(line)[i].says \notin {"accepted", "reading"}
<1> DEFINE comment == Check(\E k \in 2..Len(line) : line[k] \in Hashed,
                            "MalformedDirective")
           Refusing(checks) ==
               \A k \in DOMAIN checks :
                   checks[k].says \notin {"accepted", "reading"}
<1>1. comment.says \notin {"accepted", "reading"}
    BY DEF Check, Verdict
<1> HIDE DEF comment
<1>2. ASSUME NEW defined
      PROVE  Refusing(<<comment>> \o OpenChecks(line, defined))
    BY <1>1 DEF OpenChecks, Check, Closing, Verdict
<1>3. ASSUME NEW values, NEW given
      PROVE  Refusing(<<comment>> \o ValueChecks(line, values, given))
    BY <1>1 DEF ValueChecks, Check, Verdict
<1>4. Refusing(<<comment>> \o SelectionChecks(line))
    BY <1>1 DEF SelectionChecks, Check, Verdict
<1>5. Refusing(<<comment>> \o <<Check(TRUE, "UnknownDirective")>>)
    BY <1>1 DEF Check, Verdict
<1>6. Checks(line) = <<comment>> \o DirectiveChecks(line)
    BY DEF Checks, comment
<1> HIDE DEF Refusing
<1>7. Refusing(Checks(line))
    BY <1>2, <1>3, <1>4, <1>5, <1>6 DEF DirectiveChecks
<1> QED
    BY <1>7 DEF Refusing

-----------------------------------------------------------------------------
\* What closes joins what is closed, and is whole.
LEMMA Closes ==
    ASSUME ConfigInv, ~Unfinished
    PROVE  /\ \A name \in DOMAIN SitesClosed : SitesClosed[name] \in Site
           /\ \A name \in DOMAIN ProfilesClosed :
                 /\ Remembered(ProfilesClosed[name])
                 /\ Distinct(ProfilesClosed[name])
<1>1. ASSUME NEW name \in DOMAIN SitesClosed
      PROVE  SitesClosed[name] \in Site
    <2>1. CASE scope.kind # "site"
        BY <2>1 DEF SitesClosed, ConfigInv, Closed
    <2>2. CASE scope.kind = "site"
        <3>1. /\ scope.url \in Url \cup {Unset}
              /\ scope.imprint \in Family \cup {Unset}
            BY <2>2 DEF ConfigInv, Shapes, Blocks, TopLevel
        <3>2. scope.url \in Url /\ scope.imprint \in Family
            BY <2>2, <3>1 DEF Unfinished, SiteIsIncomplete
        <3> QED
            BY <2>2, <3>2 DEF SitesClosed, ConfigInv, Closed, Site
    <2> QED
        BY <2>1, <2>2
<1>2. ASSUME NEW name \in DOMAIN ProfilesClosed
      PROVE  /\ Remembered(ProfilesClosed[name])
             /\ Distinct(ProfilesClosed[name])
    <2>1. CASE scope.kind # "profile"
        BY <2>1 DEF ProfilesClosed, ConfigInv, Closed
    <2>2. CASE scope.kind = "profile"
        <3>1. ProfilesClosed[name] = (IF name = scope.name
                                      THEN scope.selections
                                      ELSE profiles[name])
            BY <2>2 DEF ProfilesClosed
        <3>2. name # scope.name => name \in DOMAIN profiles
            BY <2>2 DEF ProfilesClosed
        <3> QED
            BY <2>2, <3>1, <3>2 DEF ConfigInv, Closed, Open
    <2> QED
        BY <2>1, <2>2
<1> QED
    BY <1>1, <1>2

\* A block opens: the one above closes, and the new one selects nothing.
LEMMA OpeningKeeps ==
    ASSUME ConfigInv, NEW line \in Line,
           OpenSite(line) \/ OpenProfile(line)
    PROVE  ConfigInv'
<1>1. /\ Len(line) = 2 /\ line[2] \in Name /\ ~Unfinished
      /\ text' = Append(text, line) /\ text \in Seq(Line)
      /\ references' = references
      /\ verdict' = verdict /\ verdict.says = "reading"
      /\ sites' = SitesClosed /\ profiles' = ProfilesClosed
    BY Opens DEF OpenSite, OpenProfile, Takes, Reads, ConfigInv, Shapes
<1>2. Shapes'
    <2>1. Len(text) + 1 \in Nat /\ text' \in Seq(Line)
        BY <1>1
    <2>2. CASE OpenSite(line)
        <3>1. scope' \in [kind : {"site"}, name : Name, at : Nat,
                          url : Url \cup {Unset},
                          imprint : Family \cup {Unset}]
            BY <1>1, <2>1, <2>2 DEF OpenSite, SiteBlock
        <3> QED
            BY <1>1, <2>1, <3>1 DEF ConfigInv, Shapes, Blocks
    <2>3. CASE OpenProfile(line)
        <3>1. scope' \in [kind : {"profile"}, name : Name, at : Nat,
                          selections : Seq(UseSite)]
            BY <1>1, <2>1, <2>3 DEF OpenProfile, ProfileBlock
        <3> QED
            BY <1>1, <2>1, <3>1 DEF ConfigInv, Shapes, Blocks
    <2> QED
        BY <2>2, <2>3
<1>3. Closed'
    BY <1>1, Closes DEF Closed, Remembered, Distinct
<1>4. Open'
    BY DEF Open, Remembered, Distinct, OpenSite, OpenProfile, SiteBlock,
           ProfileBlock
<1>5. SelectionsResolve'
    BY <1>1 DEF SelectionsResolve
<1> QED
    BY <1>2, <1>3, <1>4, <1>5 DEF ConfigInv

\* A line of a site block: nothing that is closed or selected changes.
LEMMA ValueKeeps ==
    ASSUME ConfigInv, NEW line \in Line, ReadUrl(line) \/ ReadImprint(line)
    PROVE  ConfigInv'
<1>1. /\ scope.kind = "site"
      /\ \/ line[2] \in Url /\ scope' = [scope EXCEPT !.url = line[2]]
         \/ line[2] \in Family /\ scope' = [scope EXCEPT !.imprint = line[2]]
      /\ text' = Append(text, line)
      /\ verdict' = verdict /\ verdict.says = "reading"
      /\ UNCHANGED <<sites, profiles, references>>
    BY TakesUrl, TakesImprint DEF ReadUrl, ReadImprint, Takes, Reads
<1>2. scope \in [kind : {"site"}, name : Name, at : Nat,
                 url : Url \cup {Unset}, imprint : Family \cup {Unset}]
    BY <1>1 DEF ConfigInv, Shapes, Blocks, TopLevel
<1>3. scope' \in [kind : {"site"}, name : Name, at : Nat,
                  url : Url \cup {Unset}, imprint : Family \cup {Unset}]
    BY <1>1, <1>2
<1>4. Shapes'
    BY <1>1, <1>3 DEF ConfigInv, Shapes, Blocks
<1>5. Closed' /\ Open' /\ SelectionsResolve'
    BY <1>1, <1>3
       DEF ConfigInv, Closed, Open, Remembered, Distinct, SelectionsResolve
<1> QED
    BY <1>4, <1>5 DEF ConfigInv

\* A selection is remembered as it is taken.
LEMMA SelectionKeeps ==
    ASSUME ConfigInv, NEW line \in Line, ReadSelection(line)
    PROVE  ConfigInv'
<1> DEFINE selection == [site |-> line[2], continues |-> Len(line) = 3]
           reference == [site |-> line[2], at |-> Len(text) + 1]
<1>1. /\ scope.kind = "profile" /\ line[2] \in Token
      /\ line[2] \notin SelectedSites
      /\ text' = Append(text, line)
      /\ verdict' = verdict /\ verdict.says = "reading"
      /\ scope' = [scope EXCEPT !.selections = Append(@, selection)]
      /\ references' = Append(references, reference)
      /\ UNCHANGED <<sites, profiles>>
    BY TakesSelection DEF ReadSelection, Takes, Reads
<1>2. scope \in [kind : {"profile"}, name : Name, at : Nat,
                 selections : Seq(UseSite)]
    BY <1>1 DEF ConfigInv, Shapes, Blocks, TopLevel
<1>3. /\ selection \in UseSite
      /\ reference \in Reference
      /\ references \in Seq(Reference) /\ text \in Seq(Line)
    BY <1>1 DEF UseSite, Reference, ConfigInv, Shapes
<1>4. /\ scope'.selections = Append(scope.selections, selection)
      /\ scope' \in [kind : {"profile"}, name : Name, at : Nat,
                     selections : Seq(UseSite)]
    <2> DEFINE selections == Append(scope.selections, selection)
    <2>1. selections \in Seq(UseSite)
        BY <1>2, <1>3
    <2>2. scope' = [scope EXCEPT !.selections = selections]
        BY <1>1
    <2> HIDE DEF selections
    <2>3. scope'.selections = selections /\ scope' \in [kind : {"profile"},
              name : Name, at : Nat, selections : Seq(UseSite)]
        BY <1>2, <2>1, <2>2
    <2> QED
        BY <2>3 DEF selections
<1>5. Shapes'
    BY <1>1, <1>3, <1>4 DEF Shapes, Blocks
<1>6. \A j \in DOMAIN references :
          j \in DOMAIN references' /\ references'[j] = references[j]
    BY <1>1, <1>3
<1>7. Closed'
    BY <1>1, <1>6 DEF ConfigInv, Closed, Remembered, Distinct
<1>8. ASSUME NEW i \in DOMAIN scope'.selections
      PROVE  \E j \in DOMAIN references' :
                 references'[j].site = scope'.selections[i].site
    <2>1. CASE i \in DOMAIN scope.selections
        <3>1. scope'.selections[i] = scope.selections[i]
            BY <1>2, <1>3, <1>4, <2>1
        <3>2. PICK j \in DOMAIN references :
                  references[j].site = scope.selections[i].site
            BY <1>1, <2>1 DEF ConfigInv, Open, Remembered
        <3> QED
            BY <1>6, <3>1, <3>2
    <2>2. CASE i = Len(scope.selections) + 1
        <3>1. scope'.selections[i] = selection
            BY <1>2, <1>3, <1>4, <2>2
        <3>2. /\ Len(references) + 1 \in DOMAIN references'
              /\ references'[Len(references) + 1] = reference
            BY <1>1, <1>3
        <3> QED
            BY <3>1, <3>2
    <2> QED
        BY <1>2, <1>3, <1>4, <2>1, <2>2
<1>9. Distinct(scope'.selections)
    <2> DEFINE new == Len(scope.selections) + 1
    <2>1. /\ DOMAIN scope'.selections = DOMAIN scope.selections \cup {new}
          /\ new \notin DOMAIN scope.selections
          /\ scope'.selections[new] = selection
          /\ \A i \in DOMAIN scope.selections :
                 scope'.selections[i] = scope.selections[i]
        BY <1>2, <1>3, <1>4
    <2>2. \A i \in DOMAIN scope.selections :
              scope'.selections[i].site # line[2]
        BY <1>1, <2>1 DEF SelectedSites
    <2>3. Distinct(scope.selections)
        BY <1>1 DEF ConfigInv, Open
    <2> HIDE DEF new
    <2> QED
        BY <2>1, <2>2, <2>3 DEF Distinct
<1>10. Open'
    BY <1>8, <1>9 DEF Open, Remembered, Distinct
<1> QED
    BY <1>1, <1>5, <1>7, <1>10 DEF ConfigInv, SelectionsResolve

\* The text ends: what no site block resolves is refused.
LEMMA FinishKeeps ==
    ASSUME ConfigInv, FinishConfig
    PROVE  ConfigInv'
<1>1. /\ ~Unfinished
      /\ sites' = SitesClosed /\ profiles' = ProfilesClosed
      /\ scope' = TopLevel
      /\ verdict' = (IF Dangling = {} THEN Verdict("accepted", 0)
                     ELSE Verdict("UnknownSite",
                                  references[Min(Dangling)].at))
      /\ UNCHANGED <<text, references>>
    BY DEF FinishConfig
<1>2. Shapes' /\ Open'
    BY <1>1 DEF ConfigInv, Shapes, Open, Blocks, TopLevel
<1>3. Closed'
    BY <1>1, Closes DEF Closed, Remembered, Distinct
<1>4. SelectionsResolve'
    <2> SUFFICES ASSUME verdict'.says = "accepted",
                        NEW p \in DOMAIN profiles',
                        NEW i \in DOMAIN profiles'[p]
                 PROVE  /\ profiles'[p][i].site \in DOMAIN sites'
                        /\ sites'[profiles'[p][i].site] \in Site
        BY <1>3 DEF SelectionsResolve, ProfileResolves, Closed, Distinct
    <2>1. Dangling = {}
        BY <1>1 DEF Verdict
    <2>2. PICK j \in DOMAIN references :
              references[j].site = profiles'[p][i].site
        BY <1>1, <1>3 DEF Closed, Remembered
    <2>3. references[j].site \in DOMAIN sites'
        BY <1>1, <2>1 DEF Dangling
    <2> QED
        BY <1>3, <2>2, <2>3 DEF Closed
<1> QED
    BY <1>2, <1>3, <1>4 DEF ConfigInv

-----------------------------------------------------------------------------
LEMMA ConfigInit == ConfigStart => ConfigInv
<1> SUFFICES ASSUME ConfigStart PROVE ConfigInv
    OBVIOUS
<1>1. Shapes
    BY DEF ConfigStart, Shapes, Blocks
<1>2. Closed
    BY DEF ConfigStart, Closed
<1>3. Open
    BY DEF ConfigStart, Open, TopLevel
<1>4. SelectionsResolve
    BY DEF ConfigStart, SelectionsResolve, Verdict
<1> QED
    BY <1>1, <1>2, <1>3, <1>4 DEF ConfigInv

LEMMA ConfigStep ==
    ASSUME ConfigInv, [ConfigNext]_configVars
    PROVE  ConfigInv'
<1>1. ASSUME NEW line \in Line, ReadNothing(line)
      PROVE  ConfigInv'
    BY <1>1 DEF ReadNothing, Reads, ConfigInv, Shapes, Closed, Open,
                Remembered, Distinct, SelectionsResolve
<1>2. ASSUME NEW line \in Line, OpenSite(line) \/ OpenProfile(line)
      PROVE  ConfigInv'
    BY <1>2, OpeningKeeps
<1>3. ASSUME NEW line \in Line, ReadUrl(line) \/ ReadImprint(line)
      PROVE  ConfigInv'
    BY <1>3, ValueKeeps
<1>4. ASSUME NEW line \in Line, ReadSelection(line)
      PROVE  ConfigInv'
    BY <1>4, SelectionKeeps
<1>5. CASE FinishConfig
    BY <1>5, FinishKeeps
<1>6. ASSUME NEW line \in Line, RefuseLine(line)
      PROVE  ConfigInv'
    <2>1. text' \in Seq(Line)
        BY <1>6 DEF RefuseLine, Reads, ConfigInv, Shapes
    <2>2. verdict'.says # "accepted"
        BY <1>6, ChecksRefuse DEF RefuseLine
    <2> QED
        BY <1>6, <2>1, <2>2
           DEF RefuseLine, ConfigInv, Shapes, Closed, Open, Remembered,
               Distinct, SelectionsResolve
<1>7. CASE RefuseLastBlock
    <2>1. verdict'.says # "accepted"
        BY <1>7 DEF RefuseLastBlock, Closing, Verdict
    <2> QED
        BY <1>7, <2>1
           DEF RefuseLastBlock, ConfigInv, Shapes, Closed, Open, Remembered,
               Distinct, SelectionsResolve
<1>8. CASE UNCHANGED configVars
    <2>1. /\ text' = text /\ scope' = scope /\ sites' = sites
          /\ profiles' = profiles /\ references' = references
          /\ verdict' = verdict
        BY <1>8 DEF configVars
    <2>2. Shapes' /\ Closed' /\ Open'
        BY <2>1 DEF ConfigInv, Shapes, Closed, Open, Remembered, Distinct
    <2>3. SelectionsResolve'
        BY <2>1 DEF ConfigInv, SelectionsResolve, ProfileResolves
    <2> QED
        BY <2>2, <2>3 DEF ConfigInv
<1> QED
    BY <1>1, <1>2, <1>3, <1>4, <1>5, <1>6, <1>7, <1>8 DEF ConfigNext

(***************************************************************************)
(* Every configuration that parse accepts can be stamped with: whatever    *)
(* the lines are, how many there are and in which order sites and profiles *)
(* stand, each selection of each profile names a site of the text that     *)
(* closed with a URL and an imprint algorithm, and no site twice.          *)
(***************************************************************************)
THEOREM ConfigResolves == ConfigSpec => []SelectionsResolve
<1>1. ConfigStart => ConfigInv
    BY ConfigInit
<1>2. ConfigInv /\ [ConfigNext]_configVars => ConfigInv'
    BY ConfigStep
<1>3. ConfigInv => SelectionsResolve
    BY DEF ConfigInv
<1> QED
    BY <1>1, <1>2, <1>3, PTL DEF ConfigSpec

-----------------------------------------------------------------------------
(***************************************************************************)
(* The text as a whole.  While it is read, the blocks above the open one   *)
(* are those that are closed, line by line, and the open one is what its   *)
(* lines have said so far; a line that does not pass its checks leaves a   *)
(* text that nothing below it can mend.                                    *)
(***************************************************************************)
\* What a block says once, or has not said.
Gives(i, directive, value) ==
    IF value = Unset THEN \A j \in Body(i) : Head(text[j]) # directive
    ELSE \E j \in Body(i) :
            /\ text[j] = <<directive, value>>
            /\ \A k \in Body(i) : Head(text[k]) = directive => k = j

UsesOnce(i) ==
    /\ \A j \in Body(i) : IsUse(text[j])
    /\ \A j, k \in Body(i) : text[j][2] = text[k][2] => j = k

Opener == IF scope.kind = "site" THEN "Site" ELSE "Profile"

Above(kind) == Openers(kind) \ {scope.at}

OpenersStand ==
    /\ \A i \in Opening : Len(text[i]) = 2 /\ text[i][2] \in Name
    /\ \A i, j \in Opening : text[i] = text[j] => i = j
    /\ Lines = Opening \cup UNION {Body(i) : i \in Opening}

ScopeIsLast ==
    IF scope.kind = "top" THEN Lines = {}
    ELSE /\ scope.at \in Openers(Opener)
         /\ text[scope.at][2] = scope.name
         /\ \A i \in Opening : i <= scope.at

SiteSoFar ==
    scope.kind = "site" =>
        /\ Gives(scope.at, "URL", scope.url)
        /\ Gives(scope.at, "Imprint", scope.imprint)
        /\ \A j \in Body(scope.at) : Head(text[j]) \in {"URL", "Imprint"}

ProfileSoFar ==
    scope.kind = "profile" =>
        DeclaresProfile(scope.at, scope.selections) /\ UsesOnce(scope.at)

SitesAbove ==
    /\ DOMAIN sites = {text[i][2] : i \in Above("Site")}
    /\ \A i \in Above("Site") : DeclaresSite(i, sites[text[i][2]])

ProfilesAbove ==
    /\ DOMAIN profiles = {text[i][2] : i \in Above("Profile")}
    /\ \A i \in Above("Profile") :
           /\ DeclaresProfile(i, profiles[text[i][2]])
           /\ UsesOnce(i)
           /\ Body(i) # {}

Recollects ==
    /\ \A r \in DOMAIN references : \E i \in Openers("Profile") :
           \E j \in Body(i) : text[j][2] = references[r].site
    /\ \A i \in Openers("Profile") : \A j \in Body(i) :
           \E r \in DOMAIN references : references[r].site = text[j][2]

Progress ==
    /\ OpenersStand /\ ScopeIsLast
    /\ SiteSoFar /\ ProfileSoFar
    /\ SitesAbove /\ ProfilesAbove
    /\ Recollects

ManualInv ==
    ConfigInv /\ (verdict.says = "reading" => Progress) /\ ReadsTheManual

\* What a text keeps when a line is appended to it.
LEMMA LineEnters ==
    ASSUME text \in Seq(Line), NEW line \in Line, text' = Append(text, line)
    PROVE  /\ Len(text) + 1 \in Nat
           /\ DOMAIN text' = DOMAIN text \cup {Len(text) + 1}
           /\ text'[Len(text) + 1] = line
           /\ \A j \in DOMAIN text :
                 j \in Nat /\ j < Len(text) + 1 /\ text'[j] = text[j]
OBVIOUS

LEMMA LinesHeld ==
    ASSUME text \in Seq(Line)
    PROVE  /\ Lines \subseteq DOMAIN text /\ Lines \subseteq Nat
           /\ Opening \subseteq Lines
           /\ \A kind : Openers(kind) \subseteq Lines
           /\ \A i : Body(i) \subseteq Lines
           /\ \A j \in Lines : text[j] \in Line
    BY DEF Lines, Opening, Openers, Body

LEMMA SkippedEnters ==
    ASSUME text \in Seq(Line), NEW line \in Line, text' = Append(text, line),
           Skipped(line)
    PROVE  /\ Lines' = Lines /\ Opening' = Opening
           /\ \A kind : Openers(kind)' = Openers(kind)
           /\ \A i : Body(i)' = Body(i)
           /\ \A j \in Lines : text'[j] = text[j]
<1>1. Lines' = Lines /\ \A j \in Lines : text'[j] = text[j]
    BY LineEnters DEF Lines
<1>2. \A kind : Openers(kind)' = Openers(kind)
    BY <1>1 DEF Openers
<1>3. Opening' = Opening
    BY <1>2 DEF Opening
<1>4. \A i : Body(i)' = Body(i)
    BY <1>1, <1>3 DEF Body
<1> QED
    BY <1>1, <1>2, <1>3, <1>4

LEMMA DirectiveEnters ==
    ASSUME text \in Seq(Line), NEW line \in Line, text' = Append(text, line),
           ~Skipped(line)
    PROVE  /\ Lines' = Lines \cup {Len(text) + 1}
           /\ \A kind : Openers(kind)' =
                  IF Head(line) = kind THEN Openers(kind) \cup {Len(text) + 1}
                  ELSE Openers(kind)
           /\ \A j \in Lines : /\ j \in Nat /\ j < Len(text) + 1
                               /\ text'[j] = text[j]
           /\ Len(text) + 1 \in Nat /\ text'[Len(text) + 1] = line
<1>1. /\ Lines' = Lines \cup {Len(text) + 1}
      /\ \A j \in Lines : /\ j \in Nat /\ j < Len(text) + 1
                          /\ text'[j] = text[j]
    BY LineEnters DEF Lines
<1>2. Len(text) + 1 \in Nat /\ text'[Len(text) + 1] = line
    BY LineEnters
<1>3. \A kind : Openers(kind)' =
          IF Head(line) = kind THEN Openers(kind) \cup {Len(text) + 1}
          ELSE Openers(kind)
    BY <1>1, <1>2 DEF Openers
<1> QED
    BY <1>1, <1>2, <1>3

\* The blocks that stand when a new one opens.
LEMMA OpenerEnters ==
    ASSUME text \in Seq(Line), NEW line \in Line, text' = Append(text, line),
           ~Skipped(line), Head(line) \in {"Site", "Profile"},
           NEW last, last = Len(text) + 1
    PROVE  /\ Opening' = Opening \cup {last}
           /\ \A i \in Opening : Body(i)' = Body(i)
           /\ Body(last)' = {}
<1>1. /\ Lines' = Lines \cup {last} /\ last \in Nat
      /\ \A j \in Lines : j \in Nat /\ j < last
    BY DirectiveEnters
<1>2. Opening' = Opening \cup {last} /\ Opening \subseteq Lines
    BY DirectiveEnters, LinesHeld DEF Opening
<1>3. ASSUME NEW i \in Opening
      PROVE  Body(i)' = Body(i)
    <2>1. Body(i)' = {j \in (Lines \cup {last}) \ (Opening \cup {last}) :
                         i < j /\ \A k \in Opening \cup {last} : k <= i \/ j < k}
        BY <1>1, <1>2 DEF Body
    <2> QED
        BY <1>1, <1>2, <2>1 DEF Body
<1>4. Body(last)' = {}
    <2>1. Body(last)' \subseteq {j \in (Lines \cup {last}) \ (Opening \cup {last}) :
                                    last < j}
        BY <1>1, <1>2 DEF Body
    <2> QED
        BY <1>1, <2>1
<1> QED
    BY <1>2, <1>3, <1>4

\* The block a line of another kind goes to.
LEMMA BodyEnters ==
    ASSUME text \in Seq(Line), NEW line \in Line, text' = Append(text, line),
           ~Skipped(line), Head(line) \notin {"Site", "Profile"}
    PROVE  /\ Opening' = Opening
           /\ \A kind \in {"Site", "Profile"} : Openers(kind)' = Openers(kind)
           /\ Len(text) + 1 \notin Lines
           /\ \A i \in Opening :
                 Body(i)' = IF \A k \in Opening : k <= i
                            THEN Body(i) \cup {Len(text) + 1} ELSE Body(i)
<1> DEFINE last == Len(text) + 1
<1>1. /\ Lines' = Lines \cup {last} /\ last \in Nat
      /\ \A j \in Lines : j \in Nat /\ j < last
    BY DirectiveEnters
<1>2. /\ Opening' = Opening /\ Opening \subseteq Lines
      /\ \A kind \in {"Site", "Profile"} : Openers(kind)' = Openers(kind)
    BY DirectiveEnters, LinesHeld DEF Opening
<1>3. last \notin Lines
    BY <1>1
<1> HIDE DEF last
<1>4. ASSUME NEW i \in Opening
      PROVE  Body(i)' = IF \A k \in Opening : k <= i
                        THEN Body(i) \cup {last} ELSE Body(i)
    <2>1. Body(i)' = {j \in (Lines \cup {last}) \ Opening :
                         i < j /\ \A k \in Opening : k <= i \/ j < k}
        BY <1>1, <1>2 DEF Body
    <2>2. /\ i < last /\ \A k \in Opening : ~(last < k)
        BY <1>1, <1>2
    <2> QED
        BY <1>1, <1>2, <1>3, <2>1, <2>2 DEF Body
<1> QED
    BY <1>2, <1>3, <1>4 DEF last

\* A block whose lines stand says what it said.
LEMMA BlockStands ==
    ASSUME NEW i, Body(i)' = Body(i), \A j \in Body(i) : text'[j] = text[j]
    PROVE  /\ \A site : DeclaresSite(i, site)' <=> DeclaresSite(i, site)
           /\ \A profile :
                 DeclaresProfile(i, profile)' <=> DeclaresProfile(i, profile)
           /\ UsesOnce(i)' <=> UsesOnce(i)
           /\ \A directive, value :
                 Gives(i, directive, value)' <=> Gives(i, directive, value)
<1>1. ASSUME NEW site
      PROVE  DeclaresSite(i, site)' <=> DeclaresSite(i, site)
    BY DEF DeclaresSite
<1>2. ASSUME NEW profile
      PROVE  DeclaresProfile(i, profile)' <=> DeclaresProfile(i, profile)
  <2>1. ASSUME NEW at \in [1..Len(profile) -> Body(i)]
        PROVE  [n \in DOMAIN at |-> Selection(text'[at[n]])] =
               [n \in DOMAIN at |-> Selection(text[at[n]])]
    <3>1. \A n \in DOMAIN at : text'[at[n]] = text[at[n]]
        OBVIOUS
    <3> QED
        BY <3>1
  <2> QED
      BY <2>1 DEF DeclaresProfile
<1>3. UsesOnce(i)' <=> UsesOnce(i)
    BY DEF UsesOnce
<1>4. ASSUME NEW directive, NEW value
      PROVE  Gives(i, directive, value)' <=> Gives(i, directive, value)
    BY DEF Gives
<1> QED
    BY <1>1, <1>2, <1>3, <1>4

LEMMA PairsEqual ==
    ASSUME NEW line \in Line, Len(line) = 2
    PROVE  line = <<line[1], line[2]>> /\ Head(line) = line[1]
BY ConfigAssumption

\* Two blocks of one kind have two names.
LEMMA NamesDiffer ==
    ASSUME text \in Seq(Line), OpenersStand, NEW kind \in {"Site", "Profile"},
           NEW i \in Openers(kind), NEW j \in Openers(kind),
           text[i][2] = text[j][2]
    PROVE  i = j
<1>1. /\ i \in Opening /\ j \in Opening
      /\ Head(text[i]) = kind /\ Head(text[j]) = kind
    BY DEF Opening, Openers
<1>2. text[i] \in Line /\ text[j] \in Line
    BY <1>1, LinesHeld
<1>3. text[i] = <<kind, text[i][2]>> /\ text[j] = <<kind, text[j][2]>>
    BY <1>1, <1>2, PairsEqual DEF OpenersStand
<1>4. text[i] = text[j]
    BY <1>3
<1> QED
    BY <1>1, <1>4 DEF OpenersStand

\* A site block that has said both of its values.
LEMMA SiteCloses ==
    ASSUME Progress, scope.kind = "site", ~SiteIsIncomplete
    PROVE  DeclaresSite(scope.at,
                        [url |-> scope.url, imprint |-> scope.imprint])
<1>1. /\ scope.url # Unset /\ scope.imprint # Unset
      /\ Gives(scope.at, "URL", scope.url)
      /\ Gives(scope.at, "Imprint", scope.imprint)
      /\ \A j \in Body(scope.at) : Head(text[j]) \in {"URL", "Imprint"}
    BY DEF Progress, SiteSoFar, SiteIsIncomplete
<1>2. PICK j \in Body(scope.at) :
          /\ text[j] = <<"URL", scope.url>>
          /\ \A k \in Body(scope.at) : Head(text[k]) = "URL" => k = j
    BY <1>1 DEF Gives
<1>3. PICK k \in Body(scope.at) :
          /\ text[k] = <<"Imprint", scope.imprint>>
          /\ \A m \in Body(scope.at) : Head(text[m]) = "Imprint" => m = k
    BY <1>1 DEF Gives
<1>4. Body(scope.at) = {j, k}
    BY <1>1, <1>2, <1>3
<1> QED
    BY <1>2, <1>3, <1>4 DEF DeclaresSite

LEMMA ProfileCloses ==
    ASSUME Shapes, Progress, scope.kind = "profile", ~ProfileIsEmpty
    PROVE  /\ DeclaresProfile(scope.at, scope.selections)
           /\ UsesOnce(scope.at) /\ Body(scope.at) # {}
<1>1. DeclaresProfile(scope.at, scope.selections) /\ UsesOnce(scope.at)
    BY DEF Progress, ProfileSoFar
<1>2. scope.selections \in Seq(UseSite) /\ scope.selections # <<>>
    BY DEF Shapes, Blocks, TopLevel, ProfileIsEmpty
<1>3. 1 \in 1..Len(scope.selections)
    BY <1>2
<1>4. Body(scope.at) # {}
    BY <1>1, <1>3 DEF DeclaresProfile
<1> QED
    BY <1>1, <1>4

\* What is closed when the open block closes is what the text declares.
LEMMA BlocksClose ==
    ASSUME Shapes, Progress, ~Unfinished
    PROVE  /\ DOMAIN SitesClosed = Declared("Site")
           /\ \A i \in Openers("Site") :
                 DeclaresSite(i, SitesClosed[text[i][2]])
           /\ DOMAIN ProfilesClosed = Declared("Profile")
           /\ \A i \in Openers("Profile") :
                 /\ DeclaresProfile(i, ProfilesClosed[text[i][2]])
                 /\ UsesOnce(i) /\ Body(i) # {}
<1>1. /\ ~SiteIsIncomplete /\ ~ProfileIsEmpty
      /\ text \in Seq(Line) /\ OpenersStand /\ ScopeIsLast
      /\ SitesAbove /\ ProfilesAbove
      /\ scope.kind \in {"top", "site", "profile"}
    BY DEF Unfinished, Progress, Shapes, Blocks, TopLevel
<1>2. scope.kind # "top" => /\ scope.at \in Openers(Opener)
                            /\ text[scope.at][2] = scope.name
    BY <1>1 DEF ScopeIsLast
<1>3. scope.kind = "top" => Openers("Site") = {} /\ Openers("Profile") = {}
    BY <1>1, LinesHeld DEF ScopeIsLast
<1>4. scope.at \in Openers("Site") => scope.kind = "site"
    BY <1>1, <1>2, <1>3 DEF Opener, Openers
<1>5. scope.at \in Openers("Profile") => scope.kind = "profile"
    BY <1>1, <1>2, <1>3 DEF Opener, Openers
<1>6. CASE scope.kind = "site"
  <2>1. SitesClosed = [name \in DOMAIN sites \cup {scope.name} |->
             IF name = scope.name
             THEN [url |-> scope.url, imprint |-> scope.imprint]
             ELSE sites[name]]
        /\ ProfilesClosed = profiles
      BY <1>6 DEF SitesClosed, ProfilesClosed
  <2>2. Openers("Site") = Above("Site") \cup {scope.at}
        /\ Openers("Profile") = Above("Profile")
      BY <1>2, <1>5, <1>6 DEF Above, Opener
  <2>3. \A i \in Above("Site") : text[i][2] # scope.name
      BY <1>1, <1>2, <1>6, NamesDiffer DEF Above, Opener
  <2>4. DOMAIN SitesClosed = Declared("Site")
      BY <1>1, <1>2, <1>6, <2>1, <2>2 DEF Declared, SitesAbove
  <2>5. \A i \in Openers("Site") : DeclaresSite(i, SitesClosed[text[i][2]])
    <3>1. \A i \in Above("Site") : SitesClosed[text[i][2]] = sites[text[i][2]]
        BY <1>1, <2>1, <2>3 DEF SitesAbove
    <3>2. SitesClosed[text[scope.at][2]] =
              [url |-> scope.url, imprint |-> scope.imprint]
        BY <1>2, <1>6, <2>1
    <3> QED
        BY <1>1, <1>6, <2>2, <3>1, <3>2, SiteCloses DEF SitesAbove
  <2> QED
      BY <1>1, <2>1, <2>2, <2>4, <2>5 DEF ProfilesAbove, Declared
<1>7. CASE scope.kind = "profile"
  <2>1. ProfilesClosed = [name \in DOMAIN profiles \cup {scope.name} |->
             IF name = scope.name THEN scope.selections
             ELSE profiles[name]]
        /\ SitesClosed = sites
      BY <1>7 DEF SitesClosed, ProfilesClosed
  <2>2. Openers("Profile") = Above("Profile") \cup {scope.at}
        /\ Openers("Site") = Above("Site")
      BY <1>2, <1>4, <1>7 DEF Above, Opener
  <2>3. \A i \in Above("Profile") : text[i][2] # scope.name
      BY <1>1, <1>2, <1>7, NamesDiffer DEF Above, Opener
  <2>4. DOMAIN ProfilesClosed = Declared("Profile")
      BY <1>1, <1>2, <1>7, <2>1, <2>2 DEF Declared, ProfilesAbove
  <2>5. \A i \in Openers("Profile") :
            /\ DeclaresProfile(i, ProfilesClosed[text[i][2]])
            /\ UsesOnce(i) /\ Body(i) # {}
    <3>1. \A i \in Above("Profile") :
              ProfilesClosed[text[i][2]] = profiles[text[i][2]]
        BY <1>1, <2>1, <2>3 DEF ProfilesAbove
    <3>2. ProfilesClosed[text[scope.at][2]] = scope.selections
        BY <1>2, <1>7, <2>1
    <3> QED
        BY <1>1, <1>7, <2>2, <3>1, <3>2, ProfileCloses DEF ProfilesAbove
  <2> QED
      BY <1>1, <2>1, <2>2, <2>4, <2>5 DEF SitesAbove, Declared
<1>8. CASE scope.kind = "top"
  <2>1. SitesClosed = sites /\ ProfilesClosed = profiles
      BY <1>8 DEF SitesClosed, ProfilesClosed
  <2>2. Above("Site") = Openers("Site") /\ Above("Profile") = Openers("Profile")
      BY <1>3, <1>8 DEF Above
  <2> QED
      BY <1>1, <2>1, <2>2 DEF SitesAbove, ProfilesAbove, Declared
<1> QED
    BY <1>1, <1>6, <1>7, <1>8

\* A block that lacks something is no block of the manual.
LEMMA UnfinishedLacks ==
    ASSUME Shapes, Progress, Unfinished
    PROVE  \/ /\ scope.kind = "site" /\ scope.at \in Openers("Site")
              /\ \A site : Unset \notin {site.url, site.imprint}
                     => ~DeclaresSite(scope.at, site)
           \/ /\ scope.kind = "profile" /\ scope.at \in Openers("Profile")
              /\ Body(scope.at) = {}
<1>1. CASE SiteIsIncomplete
  <2>1. scope.kind = "site" /\ scope.at \in Openers("Site")
      BY <1>1 DEF SiteIsIncomplete, Progress, ScopeIsLast, Opener
  <2>2. \/ \A j \in Body(scope.at) : Head(text[j]) # "URL"
        \/ \A j \in Body(scope.at) : Head(text[j]) # "Imprint"
      BY <1>1, <2>1 DEF SiteIsIncomplete, Progress, SiteSoFar, Gives
  <2>3. ASSUME NEW site, DeclaresSite(scope.at, site)
        PROVE  FALSE
      BY <2>2, <2>3 DEF DeclaresSite
  <2> QED
      BY <2>1, <2>3
<1>2. CASE ProfileIsEmpty
  <2>1. /\ scope.kind = "profile" /\ scope.at \in Openers("Profile")
        /\ scope.selections = <<>>
        /\ DeclaresProfile(scope.at, scope.selections)
      BY <1>2 DEF ProfileIsEmpty, Progress, ScopeIsLast, Opener, ProfileSoFar
  <2>2. Body(scope.at) = {}
    <3>1. PICK at \in [1..Len(scope.selections) -> Body(scope.at)] :
              Range(at) = Body(scope.at)
        BY <2>1 DEF DeclaresProfile
    <3>2. DOMAIN at = {}
        BY <2>1, <3>1
    <3> QED
        BY <3>1, <3>2 DEF Range
  <2> QED
      BY <2>1, <2>2
<1> QED
    BY <1>1, <1>2 DEF Unfinished

-----------------------------------------------------------------------------
LEMMA ProgressInitially == ConfigStart => Progress
<1> SUFFICES ASSUME ConfigStart PROVE Progress
    OBVIOUS
<1>1. /\ Lines = {} /\ Opening = {} /\ scope.kind = "top"
      /\ \A kind : Openers(kind) = {} /\ Above(kind) = {}
    BY DEF ConfigStart, Lines, Opening, Openers, Above, TopLevel
<1>2. OpenersStand /\ ScopeIsLast /\ SiteSoFar /\ ProfileSoFar
    BY <1>1 DEF OpenersStand, ScopeIsLast, SiteSoFar, ProfileSoFar
<1>3. SitesAbove /\ ProfilesAbove /\ Recollects
    BY <1>1 DEF ConfigStart, SitesAbove, ProfilesAbove, Recollects
<1> QED
    BY <1>2, <1>3 DEF Progress

LEMMA NothingKeepsProgress ==
    ASSUME Shapes, Progress, NEW line \in Line, ReadNothing(line)
    PROVE  Progress'
<1>1. /\ text \in Seq(Line) /\ text' = Append(text, line) /\ Skipped(line)
      /\ UNCHANGED <<scope, sites, profiles, references>>
    BY DEF ReadNothing, Reads, Shapes
<1>2. /\ Lines' = Lines /\ Opening' = Opening
      /\ \A kind : Openers(kind)' = Openers(kind)
      /\ \A i : Body(i)' = Body(i)
      /\ \A j \in Lines : text'[j] = text[j]
    BY <1>1, SkippedEnters
<1>3. /\ Opening \subseteq Lines
      /\ \A kind : Openers(kind) \subseteq Lines
      /\ \A i : Body(i) \subseteq Lines
    BY <1>1, LinesHeld
<1>4. ASSUME NEW i
      PROVE  /\ \A site : DeclaresSite(i, site)' <=> DeclaresSite(i, site)
             /\ \A profile : DeclaresProfile(i, profile)'
                                 <=> DeclaresProfile(i, profile)
             /\ UsesOnce(i)' <=> UsesOnce(i)
             /\ \A directive, value : Gives(i, directive, value)'
                                          <=> Gives(i, directive, value)
    BY <1>2, <1>3, BlockStands
<1>5. Opener' = Opener /\ \A kind : Above(kind)' = Above(kind)
    BY <1>1, <1>2 DEF Opener, Above
<1>6. OpenersStand' /\ ScopeIsLast'
  <2>1. UNION {Body(i)' : i \in Opening'} = UNION {Body(i) : i \in Opening}
    <3>1. \A j : (\E i \in Opening' : j \in Body(i)')
                    <=> (\E i \in Opening : j \in Body(i))
        BY <1>2
    <3> QED
        BY <3>1
  <2>2. OpenersStand'
      BY <1>2, <1>3, <2>1 DEF Progress, OpenersStand
  <2>3. ScopeIsLast'
    <3>1. scope.kind # "top" => text'[scope.at] = text[scope.at]
        BY <1>2, <1>3 DEF Progress, ScopeIsLast
    <3> QED
        BY <1>1, <1>2, <1>5, <3>1 DEF Progress, ScopeIsLast
  <2> QED
      BY <2>2, <2>3
<1>7. SiteSoFar' /\ ProfileSoFar'
    BY <1>1, <1>2, <1>3, <1>4 DEF Progress, SiteSoFar, ProfileSoFar
<1>8. SitesAbove' /\ ProfilesAbove'
  <2>1. \A kind : Above(kind) \subseteq Lines
      BY <1>3 DEF Above
  <2>2. \A kind : \A i \in Above(kind) : text'[i] = text[i]
      BY <1>2, <2>1
  <2>3. SitesAbove'
    <3>1. {text'[i][2] : i \in Above("Site")} = DOMAIN sites
        BY <2>2 DEF Progress, SitesAbove
    <3>2. ASSUME NEW i \in Above("Site")
          PROVE  DeclaresSite(i, sites[text[i][2]])'
      <4>1. DeclaresSite(i, sites[text[i][2]])
          BY DEF Progress, SitesAbove
      <4> QED
          BY <1>1, <1>4, <2>2, <4>1
    <3> QED
        BY <1>1, <1>5, <3>1, <3>2 DEF SitesAbove
  <2>4. ProfilesAbove'
    <3>1. {text'[i][2] : i \in Above("Profile")} = DOMAIN profiles
        BY <2>2 DEF Progress, ProfilesAbove
    <3>2. ASSUME NEW i \in Above("Profile")
          PROVE  /\ DeclaresProfile(i, profiles[text[i][2]])'
                 /\ UsesOnce(i)' /\ Body(i)' # {}
      <4>1. /\ DeclaresProfile(i, profiles[text[i][2]])
            /\ UsesOnce(i) /\ Body(i) # {}
          BY DEF Progress, ProfilesAbove
      <4> QED
          BY <1>1, <1>2, <1>4, <2>2, <4>1
    <3> QED
        BY <1>1, <1>5, <3>1, <3>2 DEF ProfilesAbove
  <2> QED
      BY <2>3, <2>4
<1>9. Recollects'
  <2>1. \A i : \A j \in Body(i) : text'[j] = text[j]
      BY <1>2, <1>3
  <2>2. ASSUME NEW r \in DOMAIN references
        PROVE  \E i \in Openers("Profile")' :
                   \E j \in Body(i)' : text'[j][2] = references[r].site
      BY <1>2, <2>1 DEF Progress, Recollects
  <2>3. ASSUME NEW i \in Openers("Profile")', NEW j \in Body(i)'
        PROVE  \E r \in DOMAIN references : references[r].site = text'[j][2]
      BY <1>2, <2>1, <2>3 DEF Progress, Recollects
  <2> QED
      BY <1>1, <2>2, <2>3 DEF Recollects
<1> QED
    BY <1>6, <1>7, <1>8, <1>9 DEF Progress

\* A block opens below those that are whole by now.
LEMMA OpeningKeepsProgress ==
    ASSUME Shapes, Progress, NEW line \in Line,
           OpenSite(line) \/ OpenProfile(line)
    PROVE  Progress'
<1>0. PICK last \in Nat : last = Len(text) + 1
    BY DEF Shapes
<1>1. /\ text \in Seq(Line) /\ text' = Append(text, line)
      /\ ~Skipped(line) /\ Acceptable(line)
      /\ sites' = SitesClosed /\ profiles' = ProfilesClosed
      /\ references' = references
      /\ \/ Head(line) = "Site" /\ scope' = SiteBlock(line[2], last)
         \/ Head(line) = "Profile" /\ scope' = ProfileBlock(line[2], last)
    BY <1>0, WhatPasses DEF OpenSite, OpenProfile, Takes, Reads, Shapes
<1>2. /\ Len(line) = 2 /\ line[2] \in Name /\ ~Unfinished
      /\ Head(line) = "Site" => line[2] \notin Declared("Site")
      /\ Head(line) = "Profile" => line[2] \notin Declared("Profile")
      /\ Head(line) \in {"Site", "Profile"}
  <2>1. /\ Len(line) = 2 /\ line[2] \in Name /\ ~Unfinished
        /\ Head(line) = "Site" => line[2] \notin DOMAIN SitesClosed
        /\ Head(line) = "Profile" => line[2] \notin DOMAIN ProfilesClosed
      BY <1>1 DEF Acceptable, IsUse
  <2> QED
      BY <1>1, <2>1, BlocksClose
<1>3. /\ Opening' = Opening \cup {last}
      /\ \A i \in Opening : Body(i)' = Body(i)
      /\ Body(last)' = {}
    BY <1>0, <1>1, <1>2, OpenerEnters
<1>4. /\ Lines' = Lines \cup {last}
      /\ Openers("Site")' = IF Head(line) = "Site"
                            THEN Openers("Site") \cup {last}
                            ELSE Openers("Site")
      /\ Openers("Profile")' = IF Head(line) = "Profile"
                               THEN Openers("Profile") \cup {last}
                               ELSE Openers("Profile")
      /\ \A j \in Lines : j \in Nat /\ j < last /\ text'[j] = text[j]
      /\ last \in Nat /\ text'[last] = line
    BY <1>0, <1>1, DirectiveEnters
<1>5. /\ Opening \subseteq Lines
      /\ \A kind : Openers(kind) \subseteq Lines
      /\ \A i : Body(i) \subseteq Lines
      /\ \A kind \in {"Site", "Profile"} : Openers(kind) \subseteq Opening
    BY <1>1, LinesHeld DEF Opening
<1>6. ASSUME NEW i \in Opening
      PROVE  /\ \A site : DeclaresSite(i, site)' <=> DeclaresSite(i, site)
             /\ \A profile : DeclaresProfile(i, profile)'
                                 <=> DeclaresProfile(i, profile)
             /\ UsesOnce(i)' <=> UsesOnce(i)
    BY <1>3, <1>4, <1>5, BlockStands
<1>7. OpenersStand'
  <2>1. \A i \in Opening' : Len(text'[i]) = 2 /\ text'[i][2] \in Name
      BY <1>2, <1>3, <1>4, <1>5 DEF Progress, OpenersStand
  <2>2. \A i \in Opening : text[i] # line
      BY <1>2 DEF Opening, Openers, Declared
  <2>3. \A i, j \in Opening' : text'[i] = text'[j] => i = j
      BY <1>3, <1>4, <1>5, <2>2 DEF Progress, OpenersStand
  <2>4. Lines' = Opening' \cup UNION {Body(i)' : i \in Opening'}
    <3>1. Lines = Opening \cup UNION {Body(i) : i \in Opening}
        BY DEF Progress, OpenersStand
    <3>2. UNION {Body(i)' : i \in Opening'} = UNION {Body(i) : i \in Opening}
      <4>1. \A j : (\E i \in Opening' : j \in Body(i)')
                      <=> (\E i \in Opening : j \in Body(i))
          BY <1>3
      <4> QED
          BY <4>1
    <3> QED
        BY <1>3, <1>4, <3>1, <3>2
  <2> QED
      BY <2>1, <2>3, <2>4 DEF OpenersStand
<1>8. ScopeIsLast'
  <2>1. /\ scope'.kind # "top" /\ scope'.at = last /\ scope'.name = line[2]
        /\ Opener' = Head(line)
      BY <1>1 DEF SiteBlock, ProfileBlock, Opener
  <2>2. last \in Openers(Head(line))'
      BY <1>2, <1>4 DEF Openers
  <2>3. \A i \in Opening' : i <= last
      BY <1>3, <1>4, <1>5
  <2> QED
      BY <1>4, <2>1, <2>2, <2>3 DEF ScopeIsLast, Openers
<1>9. SiteSoFar'
  <2>1. scope'.kind = "site" => scope' = SiteBlock(line[2], last)
      BY <1>1 DEF ProfileBlock
  <2>2. \A directive : Gives(last, directive, Unset)'
      BY <1>3 DEF Gives
  <2> QED
      BY <1>3, <2>1, <2>2 DEF SiteSoFar, SiteBlock
<1>10. ProfileSoFar'
  <2> SUFFICES ASSUME Head(line) = "Profile"
               PROVE  DeclaresProfile(last, <<>>)' /\ UsesOnce(last)'
    <3>1. scope'.kind = "profile" => /\ Head(line) = "Profile"
                                     /\ scope'.at = last
                                     /\ scope'.selections = <<>>
        BY <1>1 DEF SiteBlock, ProfileBlock
    <3> QED
        BY <3>1 DEF ProfileSoFar
  <2>1. UsesOnce(last)'
      BY <1>3 DEF UsesOnce
  <2>2. DeclaresProfile(last, <<>>)'
    <3> DEFINE at == [n \in 1..0 |-> n]
    <3>1. at \in [1..Len(<<>>) -> Body(last)'] /\ DOMAIN at = {}
        OBVIOUS
    <3>2. Range(at) = Body(last)'
        BY <1>3, <3>1 DEF Range
    <3>3. <<>> = [n \in DOMAIN at |-> Selection(text'[at[n]])]
        BY <3>1
    <3> HIDE DEF at
    <3> QED
        BY <3>1, <3>2, <3>3 DEF DeclaresProfile
  <2> QED
      BY <2>1, <2>2
<1>11. Above("Site")' = Openers("Site") /\ Above("Profile")' = Openers("Profile")
  <2>1. scope'.at = last
      BY <1>1 DEF SiteBlock, ProfileBlock
  <2>2. last \notin Openers("Site") /\ last \notin Openers("Profile")
      BY <1>4, <1>5
  <2> QED
      BY <1>4, <2>1, <2>2 DEF Above
<1>12. SitesAbove' /\ ProfilesAbove'
  <2>1. /\ DOMAIN sites' = Declared("Site")
        /\ DOMAIN profiles' = Declared("Profile")
        /\ \A i \in Openers("Site") : DeclaresSite(i, sites'[text[i][2]])
        /\ \A i \in Openers("Profile") :
              /\ DeclaresProfile(i, profiles'[text[i][2]])
              /\ UsesOnce(i) /\ Body(i) # {}
      BY <1>1, <1>2, BlocksClose
  <2>2. \A kind \in {"Site", "Profile"} : \A i \in Openers(kind) :
            i \in Opening /\ text'[i] = text[i]
      BY <1>4, <1>5
  <2>3. SitesAbove'
      BY <1>6, <1>11, <2>1, <2>2 DEF SitesAbove, Declared
  <2>4. ProfilesAbove'
      BY <1>3, <1>6, <1>11, <2>1, <2>2 DEF ProfilesAbove, Declared
  <2> QED
      BY <2>3, <2>4
<1>13. Recollects'
  <2>1. \A i \in Openers("Profile") : /\ i \in Openers("Profile")'
                                      /\ Body(i)' = Body(i)
                                      /\ \A j \in Body(i) : text'[j] = text[j]
      BY <1>3, <1>4, <1>5
  <2>2. ASSUME NEW r \in DOMAIN references
        PROVE  \E i \in Openers("Profile")' :
                   \E j \in Body(i)' : text'[j][2] = references[r].site
      BY <2>1 DEF Progress, Recollects
  <2>3. ASSUME NEW i \in Openers("Profile")', NEW j \in Body(i)'
        PROVE  \E r \in DOMAIN references : references[r].site = text'[j][2]
    <3>1. i \in Openers("Profile")
        BY <1>3, <1>4, <2>3
    <3> QED
        BY <2>1, <2>3, <3>1 DEF Progress, Recollects
  <2> QED
      BY <1>1, <2>2, <2>3 DEF Recollects
<1> QED
    BY <1>7, <1>8, <1>9, <1>10, <1>12, <1>13 DEF Progress

-----------------------------------------------------------------------------
\* A line of the open block: the others stand.
Joins(line, at, last) ==
    /\ at \in Opening /\ Opening' = Opening
    /\ Lines' = Lines \cup {last} /\ last \notin Lines
    /\ \A kind \in {"Site", "Profile"} :
          Openers(kind)' = Openers(kind) /\ Openers(kind) \subseteq Opening
    /\ Body(at)' = Body(at) \cup {last}
    /\ \A i \in Opening : i # at => Body(i)' = Body(i)
    /\ \A j \in Lines : j \in Nat /\ j < last /\ text'[j] = text[j]
    /\ text'[last] = line
    /\ Opening \subseteq Lines /\ \A i : Body(i) \subseteq Lines

LEMMA LineJoins ==
    ASSUME Shapes, Progress, NEW line \in Line, text' = Append(text, line),
           ~Skipped(line), Head(line) \notin {"Site", "Profile"},
           scope.kind # "top", NEW at, at = scope.at,
           NEW last \in Nat, last = Len(text) + 1
    PROVE  Joins(line, at, last)
<1>1. /\ text \in Seq(Line) /\ ScopeIsLast
      /\ scope.kind \in {"top", "site", "profile"}
    BY DEF Shapes, Progress, Blocks, TopLevel
<1>2. at \in Opening /\ \A i \in Opening : i <= at
    BY <1>1 DEF ScopeIsLast, Opener, Opening
<1>3. /\ Opening' = Opening
      /\ \A kind \in {"Site", "Profile"} : Openers(kind)' = Openers(kind)
      /\ last \notin Lines
      /\ \A i \in Opening :
            Body(i)' = IF \A k \in Opening : k <= i
                       THEN Body(i) \cup {last} ELSE Body(i)
    BY <1>1, BodyEnters
<1>4. /\ Lines' = Lines \cup {last} /\ text'[last] = line
      /\ \A j \in Lines : j \in Nat /\ j < last /\ text'[j] = text[j]
    BY <1>1, DirectiveEnters
<1>5. /\ Opening \subseteq Lines /\ \A i : Body(i) \subseteq Lines
      /\ \A kind \in {"Site", "Profile"} : Openers(kind) \subseteq Opening
    BY <1>1, LinesHeld DEF Opening
<1>6. \A i \in Opening : (\A k \in Opening : k <= i) <=> i = at
    BY <1>2, <1>4, <1>5
<1> QED
    BY <1>2, <1>3, <1>4, <1>5, <1>6 DEF Joins

\* What such a line leaves of the progress of the others.
LEMMA OthersKeep ==
    ASSUME Shapes, Progress, NEW line \in Line, text' = Append(text, line),
           ~Skipped(line), Head(line) \notin {"Site", "Profile"},
           scope.kind # "top", scope'.kind = scope.kind,
           scope'.at = scope.at, scope'.name = scope.name,
           UNCHANGED <<sites, profiles>>
    PROVE  OpenersStand' /\ ScopeIsLast' /\ SitesAbove' /\ ProfilesAbove'
<1>1. PICK last \in Nat : last = Len(text) + 1
    BY DEF Shapes
<1>0. PICK at : at = scope.at
    OBVIOUS
<1>2. /\ at \in Opening /\ Opening' = Opening
      /\ Lines' = Lines \cup {last} /\ last \notin Lines
      /\ \A kind \in {"Site", "Profile"} :
            Openers(kind)' = Openers(kind) /\ Openers(kind) \subseteq Opening
      /\ Body(at)' = Body(at) \cup {last}
      /\ \A i \in Opening : i # at => Body(i)' = Body(i)
      /\ \A j \in Lines : text'[j] = text[j]
      /\ Opening \subseteq Lines /\ \A i : Body(i) \subseteq Lines
  <2>1. Joins(line, at, last)
      BY <1>0, <1>1, LineJoins
  <2> QED
      BY <2>1 DEF Joins
<1>3. OpenersStand'
  <2>1. /\ \A i \in Opening' : Len(text'[i]) = 2 /\ text'[i][2] \in Name
        /\ \A i, j \in Opening' : text'[i] = text'[j] => i = j
    <3>1. \A i \in Opening : text'[i] = text[i]
        BY <1>2
    <3> QED
      <4>1. Opening' = Opening
          BY <1>2
      <4>2. /\ \A i \in Opening : Len(text[i]) = 2 /\ text[i][2] \in Name
            /\ \A i, j \in Opening : text[i] = text[j] => i = j
          BY DEF Progress, OpenersStand
      <4>3. /\ \A i \in Opening : Len(text'[i]) = 2 /\ text'[i][2] \in Name
            /\ \A i, j \in Opening : text'[i] = text'[j] => i = j
        <5>1. ASSUME NEW i \in Opening
              PROVE  Len(text'[i]) = 2 /\ text'[i][2] \in Name
            BY <3>1, <4>2
        <5>2. ASSUME NEW i \in Opening, NEW j \in Opening, text'[i] = text'[j]
              PROVE  i = j
            BY <3>1, <4>2, <5>2
        <5> QED
            BY <5>1, <5>2
      <4> QED
          BY <4>1, <4>3
  <2>2. \A j : (\E i \in Opening' : j \in Body(i)')
                  <=> (\E i \in Opening : j \in Body(i)) \/ j = last
      BY <1>2
  <2>3. Lines = Opening \cup UNION {Body(i) : i \in Opening}
      BY DEF Progress, OpenersStand
  <2>4. Lines' = Opening' \cup UNION {Body(i)' : i \in Opening'}
    <3>1. \A j : j \in Lines <=> j \in Opening \/ \E i \in Opening : j \in Body(i)
        BY <2>3
    <3>2. Lines' = Lines \cup {last} /\ Opening' = Opening
        BY <1>2
    <3>3. \A j : j \in Lines' <=> j \in Opening'
                                  \/ \E i \in Opening' : j \in Body(i)'
        BY <2>2, <3>1, <3>2
    <3> QED
        BY <3>3
  <2> QED
      BY <2>1, <2>4 DEF OpenersStand
<1>4. ScopeIsLast'
  <2>1. /\ at \in Openers(Opener) /\ text[at][2] = scope.name
        /\ \A i \in Opening : i <= at
      BY <1>0 DEF Progress, ScopeIsLast
  <2>2. Opener' = Opener /\ Opener \in {"Site", "Profile"}
      BY DEF Opener
  <2>3. at \in Openers(Opener)'
      BY <1>2, <2>1, <2>2
  <2>4. text'[at][2] = scope.name
      BY <1>2, <2>1
  <2> QED
      BY <1>0, <1>2, <2>1, <2>2, <2>3, <2>4 DEF ScopeIsLast
<1>5. ASSUME NEW i \in Opening, i # at
      PROVE  /\ text'[i] = text[i] /\ Body(i)' = Body(i)
             /\ \A site : DeclaresSite(i, site)' <=> DeclaresSite(i, site)
             /\ \A profile : DeclaresProfile(i, profile)'
                                 <=> DeclaresProfile(i, profile)
             /\ UsesOnce(i)' <=> UsesOnce(i)
  <2>1. Body(i)' = Body(i) /\ \A j \in Body(i) : text'[j] = text[j]
      BY <1>2, <1>5
  <2> QED
      BY <1>2, <2>1, BlockStands
<1>6. /\ \A i \in Above("Site") : i \in Opening /\ i # at
      /\ \A i \in Above("Profile") : i \in Opening /\ i # at
      /\ Above("Site")' = Above("Site") /\ Above("Profile")' = Above("Profile")
    BY <1>0, <1>2 DEF Above
<1>7. SitesAbove'
  <2>1. {text'[i][2] : i \in Above("Site")} = DOMAIN sites
    <3>1. \A i \in Above("Site") : text'[i] = text[i]
        BY <1>5, <1>6
    <3> QED
        BY <3>1 DEF Progress, SitesAbove
  <2>2. ASSUME NEW i \in Above("Site")
        PROVE  DeclaresSite(i, sites[text[i][2]])'
    <3>1. DeclaresSite(i, sites[text[i][2]])
        BY DEF Progress, SitesAbove
    <3> QED
        BY <1>5, <1>6, <3>1
  <2> QED
      BY <1>6, <2>1, <2>2 DEF SitesAbove
<1>8. ProfilesAbove'
  <2>1. {text'[i][2] : i \in Above("Profile")} = DOMAIN profiles
    <3>1. \A i \in Above("Profile") : text'[i] = text[i]
        BY <1>5, <1>6
    <3> QED
        BY <3>1 DEF Progress, ProfilesAbove
  <2>2. ASSUME NEW i \in Above("Profile")
        PROVE  /\ DeclaresProfile(i, profiles[text[i][2]])'
               /\ UsesOnce(i)' /\ Body(i)' # {}
    <3>1. /\ DeclaresProfile(i, profiles[text[i][2]])
          /\ UsesOnce(i) /\ Body(i) # {}
        BY DEF Progress, ProfilesAbove
    <3> QED
        BY <1>5, <1>6, <3>1
  <2> QED
      BY <1>6, <2>1, <2>2 DEF ProfilesAbove
<1> QED
    BY <1>3, <1>4, <1>7, <1>8

\* What a block says of one directive when a line is put to it.
LEMMA GivesStill ==
    ASSUME NEW i, NEW last, NEW line, NEW directive, NEW value,
           Gives(i, directive, value), Body(i)' = Body(i) \cup {last},
           \A j \in Body(i) : text'[j] = text[j],
           text'[last] = line, Head(line) # directive
    PROVE  Gives(i, directive, value)'
<1>1. CASE value = Unset
    BY <1>1 DEF Gives
<1>2. CASE value # Unset
  <2>1. PICK j \in Body(i) :
            /\ text[j] = <<directive, value>>
            /\ \A k \in Body(i) : Head(text[k]) = directive => k = j
      BY <1>2 DEF Gives
  <2>2. text'[j] = <<directive, value>> /\ j \in Body(i)'
      BY <2>1
  <2>3. \A k \in Body(i)' : Head(text'[k]) = directive => k = j
      BY <2>1
  <2> QED
      BY <1>2, <2>2, <2>3 DEF Gives
<1> QED
    BY <1>1, <1>2

LEMMA GivesNow ==
    ASSUME NEW i, NEW last, NEW line, NEW directive, NEW value,
           Gives(i, directive, Unset), Body(i)' = Body(i) \cup {last},
           \A j \in Body(i) : text'[j] = text[j],
           text'[last] = line, line = <<directive, value>>, value # Unset
    PROVE  Gives(i, directive, value)'
<1>1. \A j \in Body(i) : Head(text'[j]) # directive
    BY DEF Gives
<1>2. last \in Body(i)' /\ text'[last] = <<directive, value>>
    OBVIOUS
<1>3. \A k \in Body(i)' : Head(text'[k]) = directive => k = last
    BY <1>1
<1> QED
    BY <1>2, <1>3 DEF Gives

\* A value for the site that is open.
LEMMA ValueKeepsProgress ==
    ASSUME Shapes, Progress, NEW line \in Line, ReadUrl(line) \/ ReadImprint(line)
    PROVE  Progress'
<1>1. /\ text \in Seq(Line) /\ text' = Append(text, line)
      /\ ~Skipped(line) /\ Acceptable(line)
      /\ UNCHANGED <<sites, profiles, references>>
      /\ \/ /\ Head(line) = "URL"
            /\ scope' = [scope EXCEPT !.url = line[2]]
         \/ /\ Head(line) = "Imprint"
            /\ scope' = [scope EXCEPT !.imprint = line[2]]
    BY WhatPasses DEF ReadUrl, ReadImprint, Takes, Reads, Shapes
<1>2. /\ scope.kind = "site" /\ Len(line) = 2
      /\ Head(line) = "URL" => line[2] \in Url /\ scope.url = Unset
      /\ Head(line) = "Imprint" => line[2] \in Family /\ scope.imprint = Unset
      /\ line[2] # Unset
    BY <1>1, ConfigAssumption DEF Acceptable, IsUse
<1>3. scope \in [kind : {"site"}, name : Name, at : Nat,
                 url : Url \cup {Unset}, imprint : Family \cup {Unset}]
    BY <1>2 DEF Shapes, Blocks, TopLevel
<1>4. /\ scope'.kind = "site" /\ scope'.at = scope.at
      /\ scope'.name = scope.name
      /\ Head(line) = "URL" =>
            scope'.url = line[2] /\ scope'.imprint = scope.imprint
      /\ Head(line) = "Imprint" =>
            scope'.imprint = line[2] /\ scope'.url = scope.url
    BY <1>1, <1>3
<1>5. line = <<Head(line), line[2]>>
    BY <1>2, PairsEqual
<1>6. OpenersStand' /\ ScopeIsLast' /\ SitesAbove' /\ ProfilesAbove'
    BY <1>1, <1>2, <1>4, OthersKeep
<1>7. PICK last \in Nat : last = Len(text) + 1
    BY <1>1
<1>8. PICK at : at = scope.at
    OBVIOUS
<1>9. /\ at \in Openers("Site")
      /\ Openers("Profile")' = Openers("Profile")
      /\ Openers("Profile") \subseteq Opening
      /\ Body(at)' = Body(at) \cup {last}
      /\ \A i \in Opening : i # at => Body(i)' = Body(i)
      /\ \A j \in Lines : text'[j] = text[j]
      /\ text'[last] = line
      /\ \A i : Body(i) \subseteq Lines
  <2>1. at \in Openers("Site")
      BY <1>2, <1>8 DEF Progress, ScopeIsLast, Opener
  <2> QED
    <3>1. Head(line) \notin {"Site", "Profile"} /\ scope.kind # "top"
        BY <1>1, <1>2
    <3> QED
        BY <1>1, <1>7, <1>8, <2>1, <3>1, LineJoins DEF Joins
<1>10. /\ Gives(at, "URL", scope.url)
       /\ Gives(at, "Imprint", scope.imprint)
       /\ \A j \in Body(at) : Head(text[j]) \in {"URL", "Imprint"}
    BY <1>2, <1>8 DEF Progress, SiteSoFar
<1>11. \A j \in Body(at) : text'[j] = text[j]
    BY <1>9
<1>12. SiteSoFar'
  <2>1. \A j \in Body(at)' : Head(text'[j]) \in {"URL", "Imprint"}
      BY <1>1, <1>9, <1>10, <1>11
  <2>2. PICK url, imprint : url = scope'.url /\ imprint = scope'.imprint
      OBVIOUS
  <2>3. Gives(at, "URL", url)' /\ Gives(at, "Imprint", imprint)'
    <3>1. CASE Head(line) = "URL"
      <4>1. url = line[2] /\ imprint = scope.imprint /\ scope.url = Unset
          BY <1>2, <1>4, <2>2, <3>1
      <4>2. Gives(at, "URL", Unset) /\ Gives(at, "Imprint", imprint)
          BY <1>10, <4>1
      <4>3. Gives(at, "URL", url)'
          BY <1>2, <1>5, <1>9, <1>11, <3>1, <4>1, <4>2, GivesNow
      <4>4. Gives(at, "Imprint", imprint)'
          BY <1>9, <1>11, <3>1, <4>2, GivesStill
      <4> QED
          BY <4>3, <4>4
    <3>2. CASE Head(line) = "Imprint"
      <4>1. imprint = line[2] /\ url = scope.url /\ scope.imprint = Unset
          BY <1>2, <1>4, <2>2, <3>2
      <4>2. Gives(at, "Imprint", Unset) /\ Gives(at, "URL", url)
          BY <1>10, <4>1
      <4>3. Gives(at, "Imprint", imprint)'
          BY <1>2, <1>5, <1>9, <1>11, <3>2, <4>1, <4>2, GivesNow
      <4>4. Gives(at, "URL", url)'
          BY <1>9, <1>11, <3>2, <4>2, GivesStill
      <4> QED
          BY <4>3, <4>4
    <3> QED
        BY <1>1, <3>1, <3>2
  <2> QED
      BY <1>4, <1>8, <2>1, <2>2, <2>3 DEF SiteSoFar
<1>13. ProfileSoFar'
    BY <1>4 DEF ProfileSoFar
<1>14. Recollects'
  <2>1. /\ Openers("Profile")' = Openers("Profile")
        /\ \A i \in Openers("Profile") : Body(i)' = Body(i)
        /\ \A i : \A j \in Body(i) : text'[j] = text[j]
      BY <1>9 DEF Openers
  <2>2. ASSUME NEW r \in DOMAIN references
        PROVE  \E i \in Openers("Profile")' :
                   \E j \in Body(i)' : text'[j][2] = references[r].site
      BY <2>1 DEF Progress, Recollects
  <2>3. ASSUME NEW i \in Openers("Profile")', NEW j \in Body(i)'
        PROVE  \E r \in DOMAIN references : references[r].site = text'[j][2]
      BY <2>1, <2>3 DEF Progress, Recollects
  <2> QED
      BY <1>1, <2>2, <2>3 DEF Recollects
<1> QED
    BY <1>6, <1>12, <1>13, <1>14 DEF Progress

-----------------------------------------------------------------------------
\* A profile that a selection is put to.
LEMMA ProfileGrows ==
    ASSUME NEW i, NEW last \in Nat, NEW line,
           NEW profile \in Seq(UseSite), DeclaresProfile(i, profile),
           Body(i)' = Body(i) \cup {last},
           \A j \in Body(i) : j \in Nat /\ j < last /\ text'[j] = text[j],
           text'[last] = line, Selection(line) \in UseSite
    PROVE  DeclaresProfile(i, Append(profile, Selection(line)))'
<1>1. PICK at \in [1..Len(profile) -> Body(i)] :
          /\ Range(at) = Body(i)
          /\ \A m, n \in DOMAIN at : m < n => at[m] < at[n]
          /\ profile = [n \in DOMAIN at |-> Selection(text[at[n]])]
    BY DEF DeclaresProfile
<1>2. PICK size \in Nat : size = Len(profile)
    OBVIOUS
<1>0. PICK grown : grown = Append(profile, Selection(line))
    OBVIOUS
<1> DEFINE now == [n \in 1..(size + 1) |-> IF n <= size THEN at[n] ELSE last]
<1>3. /\ Len(grown) = size + 1 /\ DOMAIN grown = 1..(size + 1)
      /\ \A n \in 1..size : grown[n] = profile[n]
      /\ grown[size + 1] = Selection(line)
      /\ grown \in Seq(UseSite)
    BY <1>0, <1>2
<1>4. /\ DOMAIN now = 1..(size + 1) /\ now[size + 1] = last
      /\ \A n \in 1..size : now[n] = at[n]
    BY <1>2
<1>5. /\ DOMAIN at = 1..size /\ \A n \in 1..size : at[n] \in Body(i)
    BY <1>1, <1>2
<1> HIDE DEF now
<1>6. now \in [1..Len(grown) -> Body(i)']
  <2>1. \A n \in 1..(size + 1) : now[n] \in Body(i)'
      BY <1>4, <1>5
  <2>2. now = [n \in 1..(size + 1) |-> now[n]]
      BY DEF now
  <2> QED
      BY <1>3, <2>1, <2>2
<1>7. Range(now) = Body(i)'
  <2>1. \A j \in Body(i) : \E n \in 1..size : at[n] = j
      BY <1>1, <1>5 DEF Range
  <2>2. \A j \in Body(i)' : \E n \in DOMAIN now : now[n] = j
      BY <1>4, <2>1
  <2>3. \A n \in DOMAIN now : now[n] \in Body(i)'
      BY <1>4, <1>5
  <2> QED
      BY <2>2, <2>3 DEF Range
<1>8. \A m, n \in DOMAIN now : m < n => now[m] < now[n]
  <2>1. \A m, n \in 1..size : m < n => at[m] < at[n]
      BY <1>1, <1>5
  <2>2. \A m \in 1..size : at[m] < last
      BY <1>5
  <2> QED
      BY <1>4, <2>1, <2>2
<1>9. grown = [n \in DOMAIN now |-> Selection(text'[now[n]])]
  <2>1. \A n \in 1..size : grown[n] = Selection(text'[now[n]])
    <3>1. \A n \in 1..size : profile[n] = Selection(text[at[n]])
        BY <1>1, <1>5
    <3>2. \A n \in 1..size : text'[at[n]] = text[at[n]]
        BY <1>5
    <3> QED
        BY <1>3, <1>4, <3>1, <3>2
  <2>2. grown[size + 1] = Selection(text'[now[size + 1]])
      BY <1>3, <1>4
  <2>3. ASSUME NEW n \in 1..(size + 1)
        PROVE  grown[n] = Selection(text'[now[n]])
    <3>1. n \in 1..size \/ n = size + 1
        BY <2>3
    <3> QED
        BY <2>1, <2>2, <3>1
  <2>4. grown = [n \in 1..(size + 1) |-> Selection(text'[now[n]])]
    <3>1. grown \in [1..Len(grown) -> UseSite]
        BY <1>3, LenProperties
    <3>2. grown = [n \in 1..(size + 1) |-> grown[n]]
        BY <1>3, <3>1
    <3> QED
        BY <2>3, <3>2
  <2> QED
      BY <1>4, <2>4
<1>10. DeclaresProfile(i, grown)'
    BY <1>6, <1>7, <1>8, <1>9 DEF DeclaresProfile
<1> QED
    BY <1>0, <1>10

\* The sites a block has selected are those of its lines.
LEMMA SelectedByLine ==
    ASSUME NEW i, NEW profile, DeclaresProfile(i, profile),
           NEW j \in Body(i)
    PROVE  \E n \in DOMAIN profile : profile[n] = Selection(text[j])
<1>1. PICK at \in [1..Len(profile) -> Body(i)] :
          /\ Range(at) = Body(i)
          /\ profile = [n \in DOMAIN at |-> Selection(text[at[n]])]
    BY DEF DeclaresProfile
<1>2. PICK n \in DOMAIN at : at[n] = j
    BY <1>1 DEF Range
<1>3. n \in DOMAIN profile /\ profile[n] = Selection(text[j])
    BY <1>1, <1>2
<1> QED
    BY <1>3

LEMMA SelectionKeepsProgress ==
    ASSUME Shapes, Progress, NEW line \in Line, ReadSelection(line)
    PROVE  Progress'
<1> DEFINE selection == [site |-> line[2], continues |-> Len(line) = 3]
           reference == [site |-> line[2], at |-> Len(text) + 1]
<1>1. /\ text \in Seq(Line) /\ text' = Append(text, line)
      /\ ~Skipped(line) /\ Passes(line) /\ Head(line) = "UseSite"
      /\ UNCHANGED <<sites, profiles>>
      /\ scope' = [scope EXCEPT !.selections = Append(@, selection)]
      /\ references' = Append(references, reference)
      /\ references \in Seq(Reference)
    BY DEF ReadSelection, Takes, Reads, Shapes
<1>2. /\ scope.kind = "profile" /\ IsUse(line)
      /\ line[2] \notin SelectedSites /\ line[2] \in Token
    BY <1>1, WhatPasses, TakesSelection DEF Acceptable
<1>3. selection = Selection(line) /\ selection \in UseSite
  <2>1. (Last(line) = "ContinueOnError" /\ Len(line) = 3) <=> Len(line) = 3
    <3>1. Len(line) = 3 => Last(line) = line[3]
        BY DEF Last
    <3> QED
        BY <1>2, <3>1 DEF IsUse
  <2>2. selection = Selection(line)
      BY <2>1 DEF Selection
  <2> QED
      BY <1>2, <2>2 DEF UseSite
<1>4. scope \in [kind : {"profile"}, name : Name, at : Nat,
                 selections : Seq(UseSite)]
    BY <1>2 DEF Shapes, Blocks, TopLevel
<1> HIDE DEF selection
<1>5. /\ scope'.kind = "profile" /\ scope'.at = scope.at
      /\ scope'.name = scope.name
      /\ scope'.selections = Append(scope.selections, selection)
    BY <1>1, <1>4
<1>6. OpenersStand' /\ ScopeIsLast' /\ SitesAbove' /\ ProfilesAbove'
    BY <1>1, <1>2, <1>5, OthersKeep
<1>7. PICK last \in Nat : last = Len(text) + 1
    BY <1>1
<1>8. PICK at, chosen, grown :
          /\ at = scope.at /\ chosen = scope.selections
          /\ grown = Append(chosen, selection)
    OBVIOUS
<1>9. Joins(line, at, last) /\ at \in Openers("Profile")
  <2>1. at \in Openers("Profile")
      BY <1>2, <1>8 DEF Progress, ScopeIsLast, Opener
  <2> QED
      BY <1>1, <1>2, <1>7, <1>8, <2>1, LineJoins
<1>10. chosen \in Seq(UseSite) /\ DeclaresProfile(at, chosen) /\ UsesOnce(at)
    BY <1>2, <1>4, <1>8 DEF Progress, ProfileSoFar
<1>11. /\ Body(at)' = Body(at) \cup {last}
       /\ \A j \in Body(at) : j \in Nat /\ j < last /\ text'[j] = text[j]
       /\ text'[last] = line
    BY <1>9 DEF Joins
<1>12. ProfileSoFar'
  <2>1. DeclaresProfile(at, grown)'
    <3>1. DeclaresProfile(at, Append(chosen, Selection(line)))'
        BY <1>3, <1>10, <1>11, ProfileGrows
    <3> QED
        BY <1>3, <1>8, <3>1
  <2>2. UsesOnce(at)'
    <3>1. \A j \in Body(at) : text[j][2] \in SelectedSites
      <4>1. ASSUME NEW j \in Body(at)
            PROVE  \E n \in DOMAIN chosen : chosen[n] = Selection(text[j])
          BY <1>10, SelectedByLine
      <4>2. ASSUME NEW j \in Body(at)
            PROVE  text[j][2] \in SelectedSites
        <5>1. PICK n \in DOMAIN chosen : chosen[n] = Selection(text[j])
            BY <4>1
        <5>2. chosen[n].site = text[j][2]
            BY <5>1 DEF Selection
        <5> QED
            BY <1>8, <5>2 DEF SelectedSites
      <4> QED
          BY <4>2
    <3>2. \A j \in Body(at)' : IsUse(text'[j])
        BY <1>2, <1>10, <1>11 DEF UsesOnce
    <3>3. \A j \in Body(at) : text'[j][2] # text'[last][2]
        BY <1>2, <1>11, <3>1
    <3>4. \A j, k \in Body(at) : text'[j][2] = text'[k][2] => j = k
        BY <1>10, <1>11 DEF UsesOnce
    <3>5. \A j, k \in Body(at)' : text'[j][2] = text'[k][2] => j = k
        BY <1>11, <3>3, <3>4
    <3> QED
        BY <3>2, <3>5 DEF UsesOnce
  <2> QED
      BY <1>5, <1>8, <2>1, <2>2 DEF ProfileSoFar
<1>13. SiteSoFar'
    BY <1>5 DEF SiteSoFar
<1>14. Recollects'
  <2>1. /\ Openers("Profile")' = Openers("Profile")
        /\ Openers("Profile") \subseteq Opening
        /\ \A i \in Opening : i # at => Body(i)' = Body(i)
        /\ \A j \in Lines : text'[j] = text[j]
        /\ \A i : Body(i) \subseteq Lines
      BY <1>9 DEF Joins
  <2>2. /\ DOMAIN references' = DOMAIN references \cup {Len(references) + 1}
        /\ \A r \in DOMAIN references : references'[r] = references[r]
        /\ references'[Len(references) + 1].site = line[2]
      BY <1>1
  <2>3. \A i \in Openers("Profile") : Body(i) \subseteq Body(i)'
      BY <1>11, <2>1
  <2>4. ASSUME NEW r \in DOMAIN references'
        PROVE  \E i \in Openers("Profile")' :
                   \E j \in Body(i)' : text'[j][2] = references'[r].site
    <3>1. CASE r \in DOMAIN references
      <4>1. PICK i \in Openers("Profile") :
                \E j \in Body(i) : text[j][2] = references[r].site
          BY <3>1 DEF Progress, Recollects
      <4>2. PICK j \in Body(i) : text[j][2] = references[r].site
          BY <4>1
      <4>3. text'[j] = text[j] /\ j \in Body(i)'
          BY <2>1, <2>3
      <4> QED
          BY <2>1, <2>2, <3>1, <4>2, <4>3
    <3>2. CASE r = Len(references) + 1
        BY <1>9, <1>11, <2>1, <2>2, <3>2
    <3> QED
        BY <2>2, <3>1, <3>2
  <2>5. ASSUME NEW i \in Openers("Profile")', NEW j \in Body(i)'
        PROVE  \E r \in DOMAIN references' :
                   references'[r].site = text'[j][2]
    <3>1. CASE j \in Body(i)
      <4>1. PICK r \in DOMAIN references : references[r].site = text[j][2]
          BY <2>1, <2>5, <3>1 DEF Progress, Recollects
      <4>2. text'[j] = text[j]
          BY <2>1, <3>1
      <4> QED
          BY <2>2, <4>1, <4>2
    <3>2. CASE j \notin Body(i)
      <4>1. j = last
          BY <1>11, <2>1, <2>5, <3>2
      <4> QED
          BY <1>11, <2>2, <4>1
    <3> QED
        BY <3>1, <3>2
  <2> QED
      BY <2>4, <2>5 DEF Recollects
<1> QED
    BY <1>6, <1>12, <1>13, <1>14 DEF Progress

-----------------------------------------------------------------------------
\* A block that lacks what the manual asks of it.
Lacks(at) ==
    \/ /\ at \in Openers("Site")
       /\ \A site \in Site : ~DeclaresSite(at, site)
    \/ at \in Openers("Profile") /\ Body(at) = {}

LEMMA BlockLacks ==
    ASSUME Shapes, Progress, Unfinished
    PROVE  Lacks(scope.at)
<1>1. \A site \in Site : Unset \notin {site.url, site.imprint}
    BY ConfigAssumption DEF Site
<1> QED
    BY <1>1, UnfinishedLacks DEF Lacks

\* A line that opens a block of a text that follows the manual.
LEMMA OpenerPasses ==
    ASSUME Shapes, Progress, NEW line \in Line, text' = Append(text, line),
           ~Skipped(line), FollowsTheManual',
           Head(line) \in {"Site", "Profile"}
    PROVE  Acceptable(line) /\ \A i \in 2..Len(line) : line[i] \notin Hashed
<1>1. PICK last \in Nat : last = Len(text) + 1
    BY DEF Shapes
<1>2. PICK at : at = scope.at
    OBVIOUS
<1>3. /\ text \in Seq(Line) /\ Opening' = Opening \cup {last}
      /\ \A i \in Opening : Body(i)' = Body(i)
    BY <1>1, OpenerEnters DEF Shapes
<1>4. /\ \A kind : Openers(kind) \subseteq Openers(kind)'
      /\ \A j \in Lines : j < last /\ text'[j] = text[j]
      /\ text'[last] = line
    BY <1>1, <1>3, DirectiveEnters
<1>5. /\ Opening \subseteq Lines /\ \A i : Body(i) \subseteq Lines
      /\ \A kind : Openers(kind) \subseteq Lines
      /\ \A kind \in {"Site", "Profile"} : Openers(kind) \subseteq Opening
      /\ \A j \in Lines : text[j] \in Line
    BY <1>3, LinesHeld DEF Opening
<1>6. Len(line) = 2 /\ line[2] \in Name /\ line[2] \notin Hashed
    BY <1>3, <1>4, ConfigAssumption DEF FollowsTheManual
<1>7. ~Unfinished
  <2> SUFFICES ASSUME Unfinished PROVE FALSE
      OBVIOUS
  <2>1. Lacks(at)
      BY <1>2, BlockLacks
  <2>2. CASE /\ at \in Openers("Site")
             /\ \A site \in Site : ~DeclaresSite(at, site)
    <3>1. Body(at)' = Body(at) /\ \A j \in Body(at) : text'[j] = text[j]
        BY <1>3, <1>4, <1>5, <2>2
    <3>2. \A site : DeclaresSite(at, site)' <=> DeclaresSite(at, site)
        BY <3>1, BlockStands
    <3>3. PICK site \in Site : DeclaresSite(at, site)'
        BY <1>4, <2>2 DEF FollowsTheManual
    <3> QED
        BY <2>2, <3>2, <3>3
  <2>3. CASE at \in Openers("Profile") /\ Body(at) = {}
    <3>1. Body(at)' = {} /\ at \in Openers("Profile")'
        BY <1>3, <1>4, <1>5, <2>3
    <3>2. IsProfile(at)'
        BY <3>1 DEF FollowsTheManual
    <3> QED
        BY <3>1, <3>2 DEF IsProfile
  <2> QED
      BY <2>1, <2>2, <2>3 DEF Lacks
<1>8. line[2] \notin Declared(Head(line))
  <2> SUFFICES ASSUME NEW i \in Openers(Head(line)), text[i][2] = line[2]
               PROVE  FALSE
      BY DEF Declared
  <2>1. /\ i \in Opening /\ i \in Lines /\ Head(text[i]) = Head(line)
        /\ text[i] \in Line /\ Len(text[i]) = 2
      BY <1>5 DEF Openers, Progress, OpenersStand
  <2>2. text[i] = line
      BY <1>6, <2>1, PairsEqual
  <2>3. text'[i] = text'[last]
      BY <1>4, <2>1, <2>2
  <2>4. i = last
      BY <1>3, <2>1, <2>3 DEF FollowsTheManual
  <2> QED
      BY <1>4, <2>1, <2>4
<1>9. /\ DOMAIN SitesClosed = Declared("Site")
      /\ DOMAIN ProfilesClosed = Declared("Profile")
    BY <1>7, BlocksClose
<1>10. Acceptable(line)
    BY <1>6, <1>7, <1>8, <1>9 DEF Acceptable
<1> QED
    BY <1>6, <1>10

\* A line of a block of such a text.
LEMMA MemberPasses ==
    ASSUME Shapes, Progress, NEW line \in Line, text' = Append(text, line),
           ~Skipped(line), FollowsTheManual',
           Head(line) \notin {"Site", "Profile"}
    PROVE  Acceptable(line) /\ \A i \in 2..Len(line) : line[i] \notin Hashed
<1>1. PICK last \in Nat : last = Len(text) + 1
    BY DEF Shapes
<1>2. PICK at : at = scope.at
    OBVIOUS
<1>3. text \in Seq(Line) /\ scope.kind \in {"top", "site", "profile"}
    BY DEF Shapes, Blocks, TopLevel
<1>4. scope.kind # "top"
  <2>1. last \in Lines' /\ last \notin Lines /\ Opening' = Opening
      BY <1>1, <1>3, DirectiveEnters, BodyEnters
  <2>2. Opening \subseteq Lines
      BY <1>3, LinesHeld
  <2>3. last \in Opening' \cup UNION {Body(i)' : i \in Opening'}
      BY <2>1 DEF FollowsTheManual
  <2>4. Opening # {}
      BY <2>1, <2>2, <2>3
  <2> QED
      BY <2>2, <2>4 DEF Progress, ScopeIsLast
<1>5. Joins(line, at, last)
    BY <1>1, <1>2, <1>3, <1>4, LineJoins
<1>6. /\ Body(at)' = Body(at) \cup {last}
      /\ \A kind \in {"Site", "Profile"} : Openers(kind)' = Openers(kind)
      /\ text'[last] = line /\ last \notin Body(at)
      /\ \A j \in Body(at) : text'[j] = text[j]
    BY <1>5 DEF Joins
<1>7. CASE scope.kind = "site"
  <2>1. at \in Openers("Site")'
      BY <1>2, <1>6, <1>7 DEF Progress, ScopeIsLast, Opener
  <2>2. PICK site \in Site : DeclaresSite(at, site)'
      BY <2>1 DEF FollowsTheManual
  <2>3. PICK j \in Body(at)', k \in Body(at)' :
            /\ Body(at)' = {j, k}
            /\ text'[j] = <<"URL", site.url>>
            /\ text'[k] = <<"Imprint", site.imprint>>
      BY <2>2 DEF DeclaresSite
  <2>4. /\ Gives(at, "URL", scope.url)
        /\ Gives(at, "Imprint", scope.imprint)
      BY <1>2, <1>7 DEF Progress, SiteSoFar
  <2>5. /\ site.url \in Url /\ site.imprint \in Family
        /\ site.url \notin Hashed /\ site.imprint \notin Hashed
      BY <2>2, ConfigAssumption DEF Site
  <2>6. CASE last = j
    <3>1. line = <<"URL", site.url>>
        BY <1>6, <2>3, <2>6
    <3>2. \A m \in Body(at) : m = k
        BY <1>6, <2>3, <2>6
    <3>3. scope.url = Unset
      <4> SUFFICES ASSUME scope.url # Unset PROVE FALSE
          OBVIOUS
      <4>1. PICK m \in Body(at) : text[m] = <<"URL", scope.url>>
          BY <2>4 DEF Gives
      <4>2. text'[k] = <<"URL", scope.url>>
          BY <1>6, <3>2, <4>1
      <4>3. <<"URL", scope.url>> = <<"Imprint", site.imprint>>
          BY <2>3, <4>2
      <4> QED
          BY <4>3
    <3>4. Head(line) = "URL" /\ Len(line) = 2 /\ line[2] = site.url
        BY <3>1
    <3> QED
        BY <1>7, <2>5, <3>3, <3>4 DEF Acceptable
  <2>7. CASE last = k
    <3>1. line = <<"Imprint", site.imprint>>
        BY <1>6, <2>3, <2>7
    <3>2. \A m \in Body(at) : m = j
        BY <1>6, <2>3, <2>7
    <3>3. scope.imprint = Unset
      <4> SUFFICES ASSUME scope.imprint # Unset PROVE FALSE
          OBVIOUS
      <4>1. PICK m \in Body(at) : text[m] = <<"Imprint", scope.imprint>>
          BY <2>4 DEF Gives
      <4>2. text'[j] = <<"Imprint", scope.imprint>>
          BY <1>6, <3>2, <4>1
      <4>3. <<"Imprint", scope.imprint>> = <<"URL", site.url>>
          BY <2>3, <4>2
      <4> QED
          BY <4>3
    <3>4. /\ Head(line) = "Imprint" /\ Len(line) = 2
          /\ line[2] = site.imprint
        BY <3>1
    <3> QED
        BY <1>7, <2>5, <3>3, <3>4 DEF Acceptable
  <2> QED
      BY <1>6, <2>3, <2>6, <2>7
<1>8. CASE scope.kind = "profile"
  <2>1. at \in Openers("Profile")'
      BY <1>2, <1>6, <1>8 DEF Progress, ScopeIsLast, Opener
  <2>2. IsProfile(at)'
      BY <2>1 DEF FollowsTheManual
  <2>3. /\ IsSelection(text[last])'
        /\ \A j \in Body(at) : text'[j][2] = line[2] => j = last
      BY <1>6, <2>2 DEF IsProfile
  <2>4. PICK i \in Openers("Site")' :
            \/ line = <<"UseSite", text'[i][2]>>
            \/ line = <<"UseSite", text'[i][2], "ContinueOnError">>
      BY <1>1, <1>6, <2>3 DEF IsSelection
  <2>5. text'[i][2] \notin Hashed /\ "ContinueOnError" \notin Hashed
    <3>1. text'[i][2] \in Name
        BY <2>4 DEF FollowsTheManual, Opening
    <3> QED
        BY <3>1, ConfigAssumption
  <2>6. IsUse(line) /\ \A m \in 2..Len(line) : line[m] \notin Hashed
    <3>1. PICK name : name = text'[i][2] /\ name \notin Hashed
        BY <2>5
    <3>2. CASE line = <<"UseSite", name>>
      <4>1. Len(line) = 2 /\ Head(line) = "UseSite" /\ line[2] = name
          BY <3>2
      <4>2. \A m \in 2..Len(line) : m = 2
          BY <4>1
      <4> QED
          BY <3>1, <4>1, <4>2 DEF IsUse
    <3>3. CASE line = <<"UseSite", name, "ContinueOnError">>
      <4>1. /\ Len(line) = 3 /\ Head(line) = "UseSite" /\ line[2] = name
            /\ line[3] = "ContinueOnError"
          BY <3>3
      <4>2. \A m \in 2..Len(line) : m = 2 \/ m = 3
          BY <4>1
      <4> QED
          BY <2>5, <3>1, <4>1, <4>2 DEF IsUse
    <3> QED
        BY <2>4, <3>1, <3>2, <3>3
  <2>7. line[2] \notin SelectedSites
    <3> SUFFICES ASSUME NEW n \in DOMAIN scope.selections,
                        scope.selections[n].site = line[2]
                 PROVE  FALSE
        BY DEF SelectedSites
    <3>1. DeclaresProfile(at, scope.selections)
        BY <1>2, <1>8 DEF Progress, ProfileSoFar
    <3>2. PICK j \in Body(at) : scope.selections[n] = Selection(text[j])
        BY <3>1 DEF DeclaresProfile
    <3>3. text[j][2] = line[2]
        BY <3>2 DEF Selection
    <3> QED
        BY <1>6, <2>3, <3>3
  <2> QED
      BY <1>8, <2>6, <2>7 DEF Acceptable
<1> QED
    BY <1>3, <1>4, <1>7, <1>8

\* A line that is refused leaves a text that follows the manual no more.
LEMMA RefusedFails ==
    ASSUME Shapes, Progress, NEW line \in Line, RefuseLine(line)
    PROVE  ~FollowsTheManual'
<1>1. /\ text' = Append(text, line) /\ ~Skipped(line) /\ ~Passes(line)
    BY DEF RefuseLine, Reads, Passes
<1> QED
    BY <1>1, WhatPasses, OpenerPasses, MemberPasses

\* A text that ends in a block that is not complete does not follow it.
LEMMA UnfinishedFails ==
    ASSUME Shapes, Progress, Unfinished
    PROVE  ~FollowsTheManual
<1>1. PICK at : at = scope.at
    OBVIOUS
<1>2. Lacks(at)
    BY <1>1, BlockLacks
<1> QED
    BY <1>2 DEF Lacks, FollowsTheManual, IsProfile

\* At the end the selections alone can be wrong.
LEMMA ResolvedFollows ==
    ASSUME ConfigInv, Progress, ~Unfinished
    PROVE  FollowsTheManual <=> Dangling = {}
<1>1. /\ Shapes /\ text \in Seq(Line) /\ OpenersStand /\ Recollects
    BY DEF ConfigInv, Shapes, Progress
<1>2. /\ DOMAIN SitesClosed = Declared("Site")
      /\ \A i \in Openers("Site") :
            DeclaresSite(i, SitesClosed[text[i][2]])
      /\ \A i \in Openers("Profile") : UsesOnce(i) /\ Body(i) # {}
    BY <1>1, BlocksClose
<1>3. ASSUME Dangling = {}
      PROVE  FollowsTheManual
  <2>1. ASSUME NEW i \in Openers("Site")
        PROVE  \E site \in Site : DeclaresSite(i, site)
    <3>1. text[i][2] \in DOMAIN SitesClosed
        BY <1>2 DEF Declared
    <3> QED
        BY <1>2, <3>1, Closes
  <2>2. ASSUME NEW i \in Openers("Profile")
        PROVE  IsProfile(i)
    <3>1. ASSUME NEW j \in Body(i)
          PROVE  IsSelection(text[j])
      <4>1. PICK r \in DOMAIN references : references[r].site = text[j][2]
          BY <1>1 DEF Recollects
      <4>2. text[j][2] \in Declared("Site")
          BY <1>2, <1>3, <4>1 DEF Dangling
      <4>3. PICK k \in Openers("Site") : text[k][2] = text[j][2]
          BY <4>2 DEF Declared
      <4>4. PICK line, name : line = text[j] /\ name = text[k][2]
          OBVIOUS
      <4>5. IsUse(line) /\ line \in Line /\ line[2] = name
          BY <1>1, <1>2, <4>3, <4>4, LinesHeld DEF UsesOnce
      <4>6. line \in Seq(Range(line))
          BY <4>5, ConfigAssumption
      <4>7. CASE Len(line) = 2
        <5>1. line = <<"UseSite", name>>
            BY <4>5, <4>6, <4>7 DEF IsUse
        <5> QED
            BY <4>4, <5>1 DEF IsSelection
      <4>8. CASE Len(line) = 3 /\ line[3] = "ContinueOnError"
        <5>1. line = <<"UseSite", name, "ContinueOnError">>
            BY <4>5, <4>6, <4>8 DEF IsUse
        <5> QED
            BY <4>4, <5>1 DEF IsSelection
      <4> QED
          BY <4>5, <4>7, <4>8 DEF IsUse
    <3> QED
        BY <1>2, <3>1 DEF IsProfile, UsesOnce
  <2> QED
      BY <1>1, <2>1, <2>2 DEF FollowsTheManual, OpenersStand
<1>4. ASSUME FollowsTheManual, NEW r \in Dangling
      PROVE  FALSE
  <2>1. r \in DOMAIN references /\ references[r].site \notin Declared("Site")
      BY <1>2, <1>4 DEF Dangling
  <2>2. PICK i \in Openers("Profile") :
            \E j \in Body(i) : text[j][2] = references[r].site
      BY <1>1, <2>1 DEF Recollects
  <2>3. PICK j \in Body(i) : text[j][2] = references[r].site
      BY <2>2
  <2>4. PICK line : line = text[j]
      OBVIOUS
  <2>5. IsSelection(line)
      BY <1>4, <2>4 DEF FollowsTheManual, IsProfile
  <2>6. PICK k \in Openers("Site") :
            \/ line = <<"UseSite", text[k][2]>>
            \/ line = <<"UseSite", text[k][2], "ContinueOnError">>
      BY <2>5 DEF IsSelection
  <2>7. line[2] = text[k][2]
      BY <2>6
  <2> QED
      BY <2>1, <2>3, <2>4, <2>7 DEF Declared
<1> QED
    BY <1>3, <1>4

LEMMA TextStands ==
    ASSUME text' = text
    PROVE  /\ Lines' = Lines /\ Opening' = Opening
           /\ \A kind : Openers(kind)' = Openers(kind)
           /\ \A kind : Declared(kind)' = Declared(kind)
           /\ \A i : Body(i)' = Body(i)
           /\ \A i, site : DeclaresSite(i, site)' <=> DeclaresSite(i, site)
           /\ \A i, profile :
                 DeclaresProfile(i, profile)' <=> DeclaresProfile(i, profile)
           /\ \A i : UsesOnce(i)' <=> UsesOnce(i)
           /\ \A i, directive, value :
                 Gives(i, directive, value)' <=> Gives(i, directive, value)
           /\ FollowsTheManual' <=> FollowsTheManual
<1>1. Lines' = Lines
    BY DEF Lines
<1>2. \A kind : Openers(kind)' = Openers(kind)
    BY <1>1 DEF Openers
<1>3. \A kind : Declared(kind)' = Declared(kind)
    BY <1>2 DEF Declared
<1>4. Opening' = Opening
    BY <1>2 DEF Opening
<1>5. \A i : Body(i)' = Body(i)
    BY <1>1, <1>4 DEF Body
<1>6. ASSUME NEW i
      PROVE  /\ \A site : DeclaresSite(i, site)' <=> DeclaresSite(i, site)
             /\ \A profile :
                   DeclaresProfile(i, profile)' <=> DeclaresProfile(i, profile)
             /\ UsesOnce(i)' <=> UsesOnce(i)
             /\ \A directive, value :
                   Gives(i, directive, value)' <=> Gives(i, directive, value)
  <2>1. Body(i)' = Body(i) /\ \A j \in Body(i) : text'[j] = text[j]
      BY <1>5
  <2> QED
      BY <2>1, BlockStands
<1>7. \A line : IsSelection(line)' <=> IsSelection(line)
    BY <1>2 DEF IsSelection
<1>8. \A i : IsProfile(i)' <=> IsProfile(i)
  <2>1. ASSUME NEW i
        PROVE  IsProfile(i)' <=> IsProfile(i)
    <3>1. \A j : IsSelection(text[j])' <=> IsSelection(text[j])
        BY <1>7
    <3> QED
        BY <1>5, <3>1 DEF IsProfile
  <2> QED
      BY <2>1
<1>9. FollowsTheManual' <=> FollowsTheManual
  <2>1. UNION {Body(i)' : i \in Opening'} = UNION {Body(i) : i \in Opening}
      BY <1>4, <1>5
  <2>2. (Lines = Opening \cup UNION {Body(i) : i \in Opening})'
            <=> Lines = Opening \cup UNION {Body(i) : i \in Opening}
      BY <1>1, <1>4, <2>1
  <2>3. (\A i \in Openers("Site") : \E site \in Site : DeclaresSite(i, site))'
            <=> \A i \in Openers("Site") :
                    \E site \in Site : DeclaresSite(i, site)
      BY <1>2, <1>6
  <2>4. (\A i \in Openers("Profile") : IsProfile(i))'
            <=> \A i \in Openers("Profile") : IsProfile(i)
      BY <1>2, <1>8
  <2> QED
      BY <1>4, <2>2, <2>3, <2>4 DEF FollowsTheManual
<1> QED
    BY <1>1, <1>2, <1>3, <1>4, <1>5, <1>6, <1>9

\* A step that changes nothing.
LEMMA ProgressStands ==
    ASSUME Progress, UNCHANGED configVars
    PROVE  Progress'
<1>1. /\ text' = text /\ scope' = scope /\ sites' = sites
      /\ profiles' = profiles /\ references' = references
    BY DEF configVars
<1>2. OpenersStand'
  <2>1. /\ \A i \in Opening' : Len(text'[i]) = 2 /\ text'[i][2] \in Name
        /\ \A i, j \in Opening' : text'[i] = text'[j] => i = j
      BY <1>1, TextStands DEF Progress, OpenersStand
  <2>2. UNION {Body(i)' : i \in Opening'} = UNION {Body(i) : i \in Opening}
    <3>1. Opening' = Opening /\ \A i : Body(i)' = Body(i)
        BY <1>1, TextStands
    <3> QED
        BY <3>1
  <2>3. Lines' = Opening' \cup UNION {Body(i)' : i \in Opening'}
      BY <1>1, <2>2, TextStands DEF Progress, OpenersStand
  <2> QED
      BY <2>1, <2>3 DEF OpenersStand
<1>3. ScopeIsLast'
    BY <1>1, TextStands DEF Progress, ScopeIsLast, Opener
<1>4. PICK at, url, imprint, selections :
          /\ at = scope.at /\ url = scope.url /\ imprint = scope.imprint
          /\ selections = scope.selections
    OBVIOUS
<1>5. SiteSoFar'
  <2>1. ASSUME scope.kind = "site"
        PROVE  /\ Gives(at, "URL", url)' /\ Gives(at, "Imprint", imprint)'
               /\ \A j \in Body(at)' : Head(text'[j]) \in {"URL", "Imprint"}
      BY <1>1, <1>4, <2>1, TextStands DEF Progress, SiteSoFar
  <2> QED
      BY <1>1, <1>4, <2>1 DEF SiteSoFar
<1>6. ProfileSoFar'
  <2>1. ASSUME scope.kind = "profile"
        PROVE  DeclaresProfile(at, selections)' /\ UsesOnce(at)'
      BY <1>1, <1>4, <2>1, TextStands DEF Progress, ProfileSoFar
  <2> QED
      BY <1>1, <1>4, <2>1 DEF ProfileSoFar
<1>7. \A kind : Above(kind)' = Above(kind)
    BY <1>1, TextStands DEF Above
<1>8. SitesAbove'
  <2>1. \A i \in Above("Site")' : DeclaresSite(i, sites[text[i][2]])'
      BY <1>1, <1>7, TextStands DEF Progress, SitesAbove
  <2>2. DOMAIN sites' = {text'[i][2] : i \in Above("Site")'}
      BY <1>1, <1>7 DEF Progress, SitesAbove
  <2> QED
      BY <2>1, <2>2 DEF SitesAbove
<1>9. ProfilesAbove'
  <2>1. \A i \in Above("Profile")' :
            /\ DeclaresProfile(i, profiles[text[i][2]])'
            /\ UsesOnce(i)' /\ Body(i)' # {}
      BY <1>1, <1>7, TextStands DEF Progress, ProfilesAbove
  <2>2. DOMAIN profiles' = {text'[i][2] : i \in Above("Profile")'}
      BY <1>1, <1>7 DEF Progress, ProfilesAbove
  <2> QED
      BY <2>1, <2>2 DEF ProfilesAbove
<1>10. Recollects'
    BY <1>1, TextStands DEF Progress, Recollects
<1> QED
    BY <1>2, <1>3, <1>5, <1>6, <1>8, <1>9, <1>10 DEF Progress

LEMMA VerdictStands ==
    ASSUME ReadsTheManual, UNCHANGED configVars
    PROVE  ReadsTheManual'
<1>1. /\ text' = text /\ sites' = sites /\ profiles' = profiles
      /\ verdict' = verdict
    BY DEF configVars
<1>2. CASE FollowsTheManual /\ verdict.says # "reading"
  <2>1. /\ FollowsTheManual' /\ verdict'.says = "accepted"
        /\ DOMAIN sites' = Declared("Site")'
        /\ DOMAIN profiles' = Declared("Profile")'
      BY <1>1, <1>2, TextStands DEF ReadsTheManual
  <2>2. \A i \in Openers("Site")' : DeclaresSite(i, sites[text[i][2]])'
      BY <1>1, <1>2, TextStands DEF ReadsTheManual
  <2>3. \A i \in Openers("Profile")' :
            DeclaresProfile(i, profiles[text[i][2]])'
      BY <1>1, <1>2, TextStands DEF ReadsTheManual
  <2> QED
      BY <2>1, <2>2, <2>3 DEF ReadsTheManual
<1>3. CASE ~FollowsTheManual \/ verdict.says = "reading"
    BY <1>1, <1>3, TextStands DEF ReadsTheManual
<1> QED
    BY <1>2, <1>3

\* The end of the text.
LEMMA FinishReads ==
    ASSUME ConfigInv, Progress, FinishConfig
    PROVE  ReadsTheManual' /\ verdict'.says # "reading"
<1>1. /\ text' = text /\ sites' = SitesClosed /\ profiles' = ProfilesClosed
      /\ ~Unfinished
      /\ verdict'.says = IF Dangling = {} THEN "accepted" ELSE "UnknownSite"
    BY DEF FinishConfig, Verdict
<1>2. FollowsTheManual' <=> Dangling = {}
    BY <1>1, ResolvedFollows, TextStands
<1>3. /\ DOMAIN sites' = Declared("Site")
      /\ DOMAIN profiles' = Declared("Profile")
      /\ \A i \in Openers("Site") : DeclaresSite(i, sites'[text[i][2]])
      /\ \A i \in Openers("Profile") : DeclaresProfile(i, profiles'[text[i][2]])
    BY <1>1, BlocksClose DEF ConfigInv
<1>4. /\ DOMAIN sites' = Declared("Site")'
      /\ DOMAIN profiles' = Declared("Profile")'
    BY <1>1, <1>3, TextStands
<1>5. \A i \in Openers("Site")' : DeclaresSite(i, sites[text[i][2]])'
    BY <1>1, <1>3, TextStands
<1>6. \A i \in Openers("Profile")' :
          DeclaresProfile(i, profiles[text[i][2]])'
    BY <1>1, <1>3, TextStands
<1> QED
    BY <1>1, <1>2, <1>4, <1>5, <1>6 DEF ReadsTheManual

(***************************************************************************)
(* The inductive invariant of the reader: while it reads, the closed       *)
(* blocks and the open one are the blocks of the text above, line by line; *)
(* every selection is remembered and none besides; and each verdict is one *)
(* on the whole text.                                                      *)
(***************************************************************************)
LEMMA ManualInitially == ConfigStart => ManualInv
<1>1. ConfigStart => ReadsTheManual
    BY DEF ConfigStart, Verdict, ReadsTheManual
<1> QED
    BY <1>1, ConfigInit, ProgressInitially DEF ManualInv

LEMMA ManualStep ==
    ASSUME ManualInv, [ConfigNext]_configVars
    PROVE  ManualInv'
<1>1. ConfigInv' /\ ConfigInv /\ Shapes
    BY ConfigStep DEF ManualInv, ConfigInv
<1>2. ASSUME verdict.says = "reading", verdict' = verdict, Progress'
      PROVE  ManualInv'
    BY <1>1, <1>2 DEF ManualInv, ReadsTheManual
<1>3. ASSUME verdict'.says \notin {"reading", "accepted"}, ~FollowsTheManual'
      PROVE  ManualInv'
    BY <1>1, <1>3 DEF ManualInv, ReadsTheManual
<1>4. ASSUME NEW line \in Line, ReadNothing(line)
      PROVE  ManualInv'
  <2>1. verdict.says = "reading" /\ verdict' = verdict
      BY <1>4 DEF ReadNothing, Reads
  <2> QED
      BY <1>1, <1>2, <1>4, <2>1, NothingKeepsProgress DEF ManualInv
<1>5. ASSUME NEW line \in Line, OpenSite(line) \/ OpenProfile(line)
      PROVE  ManualInv'
  <2>1. verdict.says = "reading" /\ verdict' = verdict
      BY <1>5 DEF OpenSite, OpenProfile, Takes, Reads
  <2> QED
      BY <1>1, <1>2, <1>5, <2>1, OpeningKeepsProgress DEF ManualInv
<1>6. ASSUME NEW line \in Line, ReadUrl(line) \/ ReadImprint(line)
      PROVE  ManualInv'
  <2>1. verdict.says = "reading" /\ verdict' = verdict
      BY <1>6 DEF ReadUrl, ReadImprint, Takes, Reads
  <2> QED
      BY <1>1, <1>2, <1>6, <2>1, ValueKeepsProgress DEF ManualInv
<1>7. ASSUME NEW line \in Line, ReadSelection(line)
      PROVE  ManualInv'
  <2>1. verdict.says = "reading" /\ verdict' = verdict
      BY <1>7 DEF ReadSelection, Takes, Reads
  <2> QED
      BY <1>1, <1>2, <1>7, <2>1, SelectionKeepsProgress DEF ManualInv
<1>8. ASSUME NEW line \in Line, RefuseLine(line)
      PROVE  ManualInv'
  <2>1. verdict.says = "reading"
      BY <1>8 DEF RefuseLine, Reads
  <2>2. verdict'.says \notin {"reading", "accepted"}
      BY <1>8, ChecksRefuse DEF RefuseLine
  <2>3. ~FollowsTheManual'
      BY <1>1, <1>8, <2>1, RefusedFails DEF ManualInv
  <2> QED
      BY <1>3, <2>2, <2>3
<1>9. CASE RefuseLastBlock
  <2>1. verdict.says = "reading" /\ Unfinished /\ text' = text
      BY <1>9 DEF RefuseLastBlock
  <2>2. verdict'.says \notin {"reading", "accepted"}
      BY <1>9, <2>1 DEF RefuseLastBlock, Closing, Verdict, Unfinished
  <2>3. ~FollowsTheManual'
      BY <1>1, <2>1, UnfinishedFails, TextStands DEF ManualInv
  <2> QED
      BY <1>3, <2>2, <2>3
<1>10. CASE FinishConfig
  <2>1. verdict.says = "reading"
      BY <1>10 DEF FinishConfig
  <2> QED
      BY <1>1, <1>10, <2>1, FinishReads DEF ManualInv
<1>11. CASE UNCHANGED configVars
  <2>1. /\ text' = text /\ scope' = scope /\ sites' = sites
        /\ profiles' = profiles /\ references' = references
        /\ verdict' = verdict
      BY <1>11 DEF configVars
  <2>2. Progress => Progress'
      BY <1>11, ProgressStands
  <2>3. ReadsTheManual'
      BY <1>11, VerdictStands DEF ManualInv
  <2> QED
      BY <1>1, <2>1, <2>2, <2>3 DEF ManualInv
<1> QED
    BY <1>4, <1>5, <1>6, <1>7, <1>8, <1>9, <1>10, <1>11 DEF ConfigNext

(***************************************************************************)
(* parse reads the manual's language and nothing else, for texts of any    *)
(* length and lines of any tokens: it accepts a text exactly when it       *)
(* follows config.md, and what it then returns is what the blocks of the   *)
(* text declare, whichever block closed last and wherever a selected site  *)
(* stands.                                                                 *)
(***************************************************************************)
THEOREM ParsesTheManual == ConfigSpec => []ReadsTheManual
<1>1. ConfigStart => ManualInv
    BY ManualInitially
<1>2. ManualInv /\ [ConfigNext]_configVars => ManualInv'
    BY ManualStep
<1>3. ManualInv => ReadsTheManual
    BY DEF ManualInv
<1> QED
    BY <1>1, <1>2, <1>3, PTL DEF ConfigSpec

-----------------------------------------------------------------------------
\* next is the sequence old with the elements of S after it, each once.
Grown(old, S, next) ==
    /\ \A i \in DOMAIN old : i \in DOMAIN next /\ next[i] = old[i]
    /\ \A x \in S : \E i \in DOMAIN next : next[i] = x
    /\ \A i \in DOMAIN next : i \notin DOMAIN old => next[i] \in S
    /\ \A i, j \in DOMAIN next :
           /\ i \notin DOMAIN old /\ j \notin DOMAIN old
           /\ next[i] = next[j]
           => i = j

\* next is queue without its head, with the elements of S after it.
Moved(queue, S, next) ==
    /\ \A i \in DOMAIN queue :
           i # 1 => i - 1 \in DOMAIN next /\ next[i - 1] = queue[i]
    /\ \A x \in S : \E i \in DOMAIN next : next[i] = x
    /\ \A i \in DOMAIN next :
           \/ i + 1 \in DOMAIN queue /\ next[i] = queue[i + 1]
           \/ i + 1 \notin DOMAIN queue /\ next[i] \in S
    /\ \A i, j \in DOMAIN next :
           /\ i + 1 \notin DOMAIN queue
           /\ j + 1 \notin DOMAIN queue
           /\ next[i] = next[j]
           => i = j

\* SetToSeq enumerates a finite set, each element once.
LEMMA Enumeration ==
    ASSUME NEW S, IsFiniteSet(S)
    PROVE  /\ SetToSeq(S) \in Seq(S)
           /\ \A x \in S : \E i \in DOMAIN SetToSeq(S) : SetToSeq(S)[i] = x
           /\ \A i, j \in DOMAIN SetToSeq(S) :
                  SetToSeq(S)[i] = SetToSeq(S)[j] => i = j
<1> DEFINE n == Cardinality(S)
<1>1. n \in Nat /\ ExistsBijection(1..n, S)
    BY FS_CardinalityType
<1>2. IsFiniteSet(1..n) /\ Cardinality(1..n) = n
    BY <1>1, FS_Interval
<1>3. \E f \in [1..n -> S] : IsInjective(f)
    BY <1>1 DEF ExistsBijection, Bijection, Injection
<1>4. SetToSeq(S) \in [1..n -> S] /\ IsInjective(SetToSeq(S))
    BY <1>3 DEF SetToSeq
<1> DEFINE f == SetToSeq(S)
<1> HIDE DEF f, n
<1>5. f \in Injection(1..n, S)
    BY <1>4 DEF Injection, f, n
<1>6. f \in Surjection(1..n, S)
    BY <1>2, <1>5, FS_Injection DEF n
<1>7. f \in Seq(S) /\ DOMAIN f = 1..n
    BY <1>1, <1>4 DEF f, n
<1> QED
    BY <1>4, <1>6, <1>7 DEF Surjection, IsInjective, f, n

LEMMA Appended ==
    ASSUME NEW T, NEW old \in Seq(T), NEW S \in SUBSET T, IsFiniteSet(S),
           NEW next, next = old \o SetToSeq(S)
    PROVE  /\ next \in Seq(T)
           /\ Grown(old, S, next)
<1>1. PICK news :
          /\ news = SetToSeq(S)
          /\ news \in Seq(S)
          /\ \A x \in S : \E i \in DOMAIN news : news[i] = x
          /\ \A i, j \in DOMAIN news : news[i] = news[j] => i = j
    BY Enumeration
<1>2. PICK n \in Nat : n = Len(old) /\ DOMAIN old = 1..n
    OBVIOUS
<1>3. news \in Seq(T) /\ Len(news) \in Nat /\ DOMAIN news = 1..Len(news)
    BY <1>1
<1>4. /\ next \in Seq(T)
      /\ DOMAIN next = 1..(n + Len(news))
      /\ \A i \in 1..n : next[i] = old[i]
      /\ \A i \in 1..Len(news) : next[n + i] = news[i]
    <2>1. news \in Seq(T) /\ next = old \o news
        BY <1>1, <1>3
    <2> QED
        BY <1>2, <2>1
<1>5. ASSUME NEW x \in S
      PROVE  \E i \in DOMAIN next : next[i] = x
    <2>1. PICK i \in 1..Len(news) : news[i] = x
        BY <1>1, <1>3
    <2>2. n + i \in DOMAIN next
        BY <1>3, <1>4
    <2> QED
        BY <1>4, <2>1, <2>2
<1>6. ASSUME NEW i \in DOMAIN next, i \notin 1..n
      PROVE  /\ i - n \in 1..Len(news) /\ next[i] = news[i - n]
             /\ next[i] \in S
    <2>1. i - n \in 1..Len(news) /\ n + (i - n) = i
        BY <1>3, <1>4, <1>6
    <2>2. next[i] = news[i - n]
        BY <1>4, <2>1
    <2> QED
        BY <1>1, <2>1, <2>2
<1>7. ASSUME NEW i \in DOMAIN next, NEW j \in DOMAIN next,
             i \notin 1..n, j \notin 1..n, next[i] = next[j]
      PROVE  i = j
    <2>1. /\ i - n \in DOMAIN news /\ j - n \in DOMAIN news
          /\ news[i - n] = news[j - n]
        BY <1>3, <1>6, <1>7
    <2>2. i - n = j - n
        BY <1>1, <2>1
    <2> QED
        BY <1>3, <1>4, <2>2
<1>8. \A i \in DOMAIN old : i \in DOMAIN next /\ next[i] = old[i]
    BY <1>2, <1>3, <1>4
<1>9. \A i \in DOMAIN next : i \notin DOMAIN old => next[i] \in S
    BY <1>2, <1>6
<1>10. \A i, j \in DOMAIN next :
          i \notin DOMAIN old /\ j \notin DOMAIN old /\ next[i] = next[j]
              => i = j
    BY <1>2, <1>7
<1> QED
    BY <1>4, <1>5, <1>8, <1>9, <1>10 DEF Grown

\* What is in the queue once its head is gone and others are appended.
LEMMA QueueMoves ==
    ASSUME NEW T, NEW queue \in Seq(T), queue # <<>>,
           NEW S \in SUBSET T, IsFiniteSet(S),
           NEW next, next = Tail(queue) \o SetToSeq(S)
    PROVE  /\ next \in Seq(T)
           /\ Moved(queue, S, next)
<1>1. PICK rest : rest = Tail(queue)
    OBVIOUS
<1>2. PICK n \in Nat : n = Len(queue) /\ n >= 1 /\ DOMAIN queue = 1..n
    OBVIOUS
<1>3. /\ rest \in Seq(T) /\ DOMAIN rest = 1..(n - 1)
      /\ \A i \in 1..(n - 1) : rest[i] = queue[i + 1]
    BY <1>1, <1>2
<1>4. next \in Seq(T) /\ Grown(rest, S, next)
    <2>1. rest \in Seq(T) /\ next = rest \o SetToSeq(S)
        BY <1>1, <1>3
    <2> QED
        BY <2>1, Appended
<1>5. \A i \in 1..n :
          i # 1 => i - 1 \in 1..(n - 1) /\ (i - 1) + 1 = i
    BY <1>2
<1>6. \A i \in DOMAIN next : i + 1 \in 1..n <=> i \in 1..(n - 1)
    BY <1>2, <1>4
<1>7. \A i \in DOMAIN queue :
          i # 1 => i - 1 \in DOMAIN next /\ next[i - 1] = queue[i]
    <2> SUFFICES ASSUME NEW i \in 1..n, i # 1
                 PROVE  i - 1 \in DOMAIN next /\ next[i - 1] = queue[i]
        BY <1>2
    <2>1. i - 1 \in 1..(n - 1) /\ (i - 1) + 1 = i
        BY <1>5
    <2>2. i - 1 \in DOMAIN next /\ next[i - 1] = rest[i - 1]
        BY <1>3, <1>4, <2>1 DEF Grown
    <2> QED
        BY <1>3, <2>1, <2>2
<1>8. \A i \in DOMAIN next :
          \/ i + 1 \in DOMAIN queue /\ next[i] = queue[i + 1]
          \/ i + 1 \notin DOMAIN queue /\ next[i] \in S
    BY <1>2, <1>3, <1>4, <1>6 DEF Grown
<1>9. \A i, j \in DOMAIN next :
          i + 1 \notin DOMAIN queue /\ j + 1 \notin DOMAIN queue
              /\ next[i] = next[j] => i = j
    BY <1>2, <1>3, <1>4, <1>6 DEF Grown
<1> QED
    BY <1>4, <1>7, <1>8, <1>9 DEF Grown, Moved

-----------------------------------------------------------------------------
(***************************************************************************)
(* The inductive invariant.  Every pending tree is the end of a walk, its  *)
(* trail, with the trees of the walk for ancestors, no two of them the     *)
(* same; no pending prefix leads to another one's, nor to a file that is   *)
(* already among the entries; and of every walk the files are entries, or  *)
(* a part of it is pending.                                                *)
(***************************************************************************)
Trail(node, walk) ==
    LET n == Len(node.prefix)
    IN  /\ walk \in Walks(n)
        /\ node.prefix = Prefix(walk)
        /\ node.tree = Target(walk, n)
        /\ Len(node.ancestors) = n + 1
        /\ \A k \in 0..n : node.ancestors[k + 1] = Target(walk, k)

Leads(p, q) == Len(p) <= Len(q) /\ \A k \in 1..Len(p) : p[k] = q[k]

\* The path of the gitlinks to an entry.
Place(e) == SubSeq(e.location, 1, Len(e.location) - 1)

Cut(walk, k) == [m \in 1..k |-> walk[m]]

Trailed(queue) ==
    \A i \in DOMAIN queue :
        /\ \E walk : Trail(queue[i], walk)
        /\ \A j, k \in DOMAIN queue[i].ancestors :
               queue[i].ancestors[j] = queue[i].ancestors[k] => j = k

Apart(queue) ==
    \A i, j \in DOMAIN queue :
        Leads(queue[i].prefix, queue[j].prefix) => i = j

Behind(queue, list) ==
    \A i \in DOMAIN queue : \A j \in DOMAIN list :
        ~Leads(queue[i].prefix, Place(list[j]))

Once(list) ==
    \A i, j \in DOMAIN list : list[i].location = list[j].location => i = j

Sourced(list) ==
    \A i \in DOMAIN list :
        \E n \in 0..(Cardinality(Tree) - 1) : \E walk \in Walks(n) :
            list[i] \in TrackedFiles(walk)

Outstanding(queue, list) ==
    \A n \in Nat : \A walk \in Walks(n) :
        \/ TrackedFiles(walk) \subseteq Range(list)
        \/ \E i \in DOMAIN queue : \E k \in 0..n :
               Trail(queue[i], Cut(walk, k))

Finished == outcome = "done" => pending = <<>>

SnapshotInv ==
    /\ SnapshotTypeOK /\ OnePerPath
    /\ Trailed(pending) /\ Apart(pending) /\ Behind(pending, entries)
    /\ Once(entries) /\ Sourced(entries) /\ Outstanding(pending, entries)
    /\ Finished

-----------------------------------------------------------------------------
\* Distinct ancestors are no more than there are trees.
LEMMA TrailsAreShort ==
    ASSUME SnapshotTypeOK, NEW node \in RepositoryTree, NEW walk,
           Trail(node, walk),
           \A j, k \in DOMAIN node.ancestors :
               node.ancestors[j] = node.ancestors[k] => j = k
    PROVE  Len(node.prefix) < Cardinality(Tree)
<1> DEFINE n == Len(node.prefix)
           f == node.ancestors
<1>1. /\ f \in Seq(Tree) /\ n \in Nat /\ Len(f) = n + 1
    BY DEF RepositoryTree, Trail
<1>2. f \in [1..(n + 1) -> Tree]
    BY <1>1
<1>3. f \in Injection(1..(n + 1), Tree)
    BY <1>2 DEF Injection, IsInjective
<1>4. Cardinality(1..(n + 1)) = n + 1
    BY <1>1, FS_Interval
<1>5. Cardinality(Tree) \in Nat /\ n + 1 <= Cardinality(Tree)
    BY <1>3, <1>4, FS_Injection, FS_CardinalityType, SnapshotAssumption
<1> QED
    BY <1>1, <1>5

LEMMA BoundFollows ==
    ASSUME SnapshotTypeOK, Trailed(pending)
    PROVE  WalkIsBounded
<1> SUFFICES ASSUME NEW i \in DOMAIN pending
             PROVE  Len(pending[i].prefix) < Cardinality(Tree)
    BY DEF WalkIsBounded
<1>1. pending[i] \in RepositoryTree
    BY DEF SnapshotTypeOK
<1> QED
    BY <1>1, TrailsAreShort DEF Trailed

\* Gitlinks of a tree in the store, typed.
LEMMA LinkTypes ==
    ASSUME SnapshotTypeOK
    PROVE  \A link \in Links : link \in Record /\ link.kind = "gitlink"
                               /\ link.path \in Path /\ link.commit \in Commit
                               /\ treeOf[link.commit] \in Tree
    BY DEF Links, SnapshotTypeOK, Record

\* A prefix is the sequence of the paths of its walk.
LEMMA PrefixShape ==
    ASSUME SnapshotTypeOK, NEW n \in Nat, NEW walk \in Walks(n)
    PROVE  /\ walk \in [1..n -> Links] /\ Prefix(walk) \in [1..n -> Path]
           /\ Len(walk) = n /\ Len(Prefix(walk)) = n
           /\ \A k \in 1..n : Prefix(walk)[k] = walk[k].path
<1>1. walk \in [1..n -> Links]
    BY DEF Walks
<1>2. Prefix(walk) = [k \in 1..n |-> walk[k].path]
    BY <1>1 DEF Prefix
<1>3. \A k \in 1..n : walk[k].path \in Path
    BY <1>1, LinkTypes
<1> QED
    BY <1>1, <1>2, <1>3

-----------------------------------------------------------------------------
LEMMA TargetType ==
    ASSUME SnapshotTypeOK, NEW n \in Nat, NEW walk \in Walks(n),
           NEW k \in 0..n
    PROVE  Target(walk, k) \in Tree
<1>1. root.tree \in Tree
    BY DEF SnapshotTypeOK
<1>2. k # 0 => walk[k] \in Links
    BY PrefixShape
<1> QED
    BY <1>1, <1>2, LinkTypes DEF Target

LEMMA WalkAppends ==
    ASSUME SnapshotTypeOK, NEW n \in Nat, NEW walk \in Walks(n),
           NEW link \in Links, link \in records[Target(walk, n)],
           n = 0 => link.path \notin Artifacts
    PROVE  LET longer == Append(walk, link)
           IN  /\ longer \in Walks(n + 1)
               /\ longer[n + 1] = link
               /\ \A k \in 1..n : longer[k] = walk[k]
               /\ \A k \in 0..n : Target(longer, k) = Target(walk, k)
               /\ Target(longer, n + 1) = treeOf[link.commit]
               /\ Prefix(longer) = Append(Prefix(walk), link.path)
<1>1. PICK longer : longer = Append(walk, link)
    OBVIOUS
<1>2. walk \in [1..n -> Links] /\ Prefix(walk) \in [1..n -> Path]
      /\ \A k \in 1..n : Prefix(walk)[k] = walk[k].path
    BY PrefixShape
<1>3. /\ longer \in [1..(n + 1) -> Links] /\ longer[n + 1] = link
      /\ \A k \in 1..n : longer[k] = walk[k]
    <2>1. walk \in Seq(Links) /\ Len(walk) = n
        BY <1>2
    <2>2. /\ longer \in Seq(Links) /\ Len(longer) = n + 1
          /\ longer[n + 1] = link
          /\ \A k \in 1..n : longer[k] = walk[k]
        BY <1>1, <2>1
    <2> QED
        BY <2>2
<1>4. ASSUME NEW k \in 0..n
      PROVE  Target(longer, k) = Target(walk, k)
    <2>1. k = 0 \/ k \in 1..n
        OBVIOUS
    <2> QED
        BY <1>3, <2>1 DEF Target
<1>5. Target(longer, n + 1) = treeOf[link.commit]
    BY <1>3 DEF Target
<1>6. longer \in Walks(n + 1)
    <2>1. ASSUME NEW k \in 1..(n + 1)
          PROVE  longer[k] \in records[Target(longer, k - 1)]
        <3>1. CASE k = n + 1
            BY <1>3, <1>4, <3>1
        <3>2. CASE k # n + 1
            <4>1. k \in 1..n /\ k - 1 \in 0..n
                BY <3>2
            <4>2. walk[k] \in records[Target(walk, k - 1)]
                BY <4>1 DEF Walks
            <4> QED
                BY <1>3, <1>4, <4>1, <4>2
        <3> QED
            BY <3>1, <3>2
    <2>2. longer[1].path \notin Artifacts
        <3>1. n # 0 => walk[1].path \notin Artifacts /\ longer[1] = walk[1]
            BY <1>3 DEF Walks
        <3> QED
            BY <1>3, <3>1
    <2> QED
        BY <1>3, <2>1, <2>2 DEF Walks
<1>7. Prefix(longer) = Append(Prefix(walk), link.path)
    <2>1. Prefix(longer) = [k \in 1..(n + 1) |-> longer[k].path]
        BY <1>3 DEF Prefix
    <2>2. PICK q : q = Prefix(walk)
        OBVIOUS
    <2>3. /\ Append(q, link.path) = [k \in 1..(n + 1) |->
                                        Append(q, link.path)[k]]
          /\ Append(q, link.path)[n + 1] = link.path
          /\ \A k \in 1..n : Append(q, link.path)[k] = q[k]
        BY <1>2, <2>2
    <2>4. \A k \in 1..(n + 1) : Append(q, link.path)[k] = longer[k].path
        BY <1>2, <1>3, <2>2, <2>3
    <2> QED
        BY <2>1, <2>2, <2>3, <2>4
<1> QED
    BY <1>1, <1>3, <1>4, <1>5, <1>6, <1>7

LEMMA CutShape ==
    ASSUME SnapshotTypeOK, NEW n \in Nat, NEW walk \in Walks(n),
           NEW k \in 0..n
    PROVE  /\ Cut(walk, k) \in Walks(k)
           /\ Cut(walk, n) = walk
           /\ \A m \in 0..k : Target(Cut(walk, k), m) = Target(walk, m)
           /\ k # n => /\ walk[k + 1] \in Links
                       /\ walk[k + 1] \in records[Target(walk, k)]
                       /\ k = 0 => walk[k + 1].path \notin Artifacts
                       /\ Append(Cut(walk, k), walk[k + 1])
                              = Cut(walk, k + 1)
<1>1. walk \in [1..n -> Links]
    BY PrefixShape
<1>2. PICK cut : cut = Cut(walk, k)
    OBVIOUS
<1>3. cut \in [1..k -> Links] /\ \A m \in 1..k : cut[m] = walk[m]
    BY <1>1, <1>2 DEF Cut
<1>4. Cut(walk, n) = walk
    BY <1>1 DEF Cut
<1>5. ASSUME NEW m \in 0..k
      PROVE  Target(cut, m) = Target(walk, m)
    <2>1. m = 0 \/ m \in 1..k
        OBVIOUS
    <2> QED
        BY <1>3, <2>1 DEF Target
<1>6. cut \in Walks(k)
    <2>1. ASSUME NEW m \in 1..k
          PROVE  cut[m] \in records[Target(cut, m - 1)]
        <3>1. m \in 1..n /\ m - 1 \in 0..k
            OBVIOUS
        <3>2. walk[m] \in records[Target(walk, m - 1)]
            BY <3>1 DEF Walks
        <3> QED
            BY <1>3, <1>5, <3>1, <3>2
    <2>2. k > 0 => cut[1].path \notin Artifacts
        <3>1. n > 0 => walk[1].path \notin Artifacts
            BY DEF Walks
        <3> QED
            BY <1>3, <3>1
    <2> QED
        BY <1>3, <2>1, <2>2 DEF Walks
<1>7. ASSUME k # n
      PROVE  /\ walk[k + 1] \in Links
             /\ walk[k + 1] \in records[Target(walk, k)]
             /\ k = 0 => walk[k + 1].path \notin Artifacts
             /\ Append(cut, walk[k + 1]) = Cut(walk, k + 1)
    <2>1. k + 1 \in 1..n /\ (k + 1) - 1 = k
        BY <1>7
    <2>2. walk[k + 1] \in records[Target(walk, k)]
        BY <2>1 DEF Walks
    <2>3. k = 0 => walk[k + 1].path \notin Artifacts
        BY <2>1 DEF Walks
    <2>4. Append(cut, walk[k + 1]) = Cut(walk, k + 1)
        <3>1. PICK next : next = Append(cut, walk[k + 1])
            OBVIOUS
        <3>2. /\ next = [m \in 1..(k + 1) |-> next[m]]
              /\ next[k + 1] = walk[k + 1]
              /\ \A m \in 1..k : next[m] = cut[m]
            BY <1>1, <1>3, <2>1, <3>1
        <3>3. \A m \in 1..(k + 1) : next[m] = walk[m]
            BY <1>3, <3>2
        <3> QED
            BY <3>1, <3>2, <3>3 DEF Cut
    <2> QED
        BY <1>1, <2>1, <2>2, <2>3, <2>4
<1> QED
    BY <1>2, <1>4, <1>5, <1>6, <1>7

\* The tree a gitlink leads to is the end of its trail with the gitlink.
LEMMA TrailGrows ==
    ASSUME SnapshotTypeOK, NEW node \in RepositoryTree, NEW walk,
           Trail(node, walk), NEW link \in Gitlinks(node)
    PROVE  /\ link \in Links
           /\ Trail(Resolved(node, link), Append(walk, link))
<1>1. PICK n : n = Len(node.prefix)
    OBVIOUS
<1>2. /\ n \in Nat /\ node.prefix \in Seq(Path)
      /\ node.ancestors \in Seq(Tree) /\ node.tree \in Tree
    BY <1>1 DEF RepositoryTree
<1>3. /\ walk \in Walks(n) /\ node.prefix = Prefix(walk)
      /\ node.tree = Target(walk, n) /\ Len(node.ancestors) = n + 1
      /\ \A k \in 0..n : node.ancestors[k + 1] = Target(walk, k)
    BY <1>1 DEF Trail
<1>4. /\ link \in Links /\ link \in records[Target(walk, n)]
      /\ node.prefix = <<>> => link.path \notin Artifacts
      /\ n = 0 => node.prefix = <<>>
    BY <1>1, <1>2, <1>3 DEF Gitlinks, Covered, IsExcluded, Links
<1>5. PICK longer : longer = Append(walk, link)
    OBVIOUS
<1>6. /\ longer \in Walks(n + 1)
      /\ \A k \in 0..n : Target(longer, k) = Target(walk, k)
      /\ Target(longer, n + 1) = treeOf[link.commit]
      /\ Prefix(longer) = Append(node.prefix, link.path)
    BY <1>2, <1>3, <1>4, <1>5, WalkAppends
<1>7. PICK next : next = Resolved(node, link)
    OBVIOUS
<1>8. /\ next.prefix = Append(node.prefix, link.path)
      /\ next.tree = treeOf[link.commit]
      /\ next.ancestors = Append(node.ancestors, treeOf[link.commit])
    BY <1>7 DEF Resolved
<1>9. Len(next.prefix) = n + 1
    BY <1>1, <1>2, <1>8
<1>10. /\ Len(next.ancestors) = n + 2
       /\ next.ancestors[n + 2] = treeOf[link.commit]
       /\ \A k \in 1..(n + 1) : next.ancestors[k] = node.ancestors[k]
    <2>1. PICK t \in Tree : t = treeOf[link.commit]
        BY <1>4, LinkTypes
    <2> QED
        BY <1>2, <1>3, <1>8, <2>1
<1>11. ASSUME NEW k \in 0..(n + 1)
       PROVE  next.ancestors[k + 1] = Target(longer, k)
    <2>1. CASE k = n + 1
        BY <1>2, <1>6, <1>10, <2>1
    <2>2. CASE k # n + 1
        <3>1. k \in 0..n /\ k + 1 \in 1..(n + 1)
            BY <1>2, <2>2
        <3>2. next.ancestors[k + 1] = node.ancestors[k + 1]
            BY <1>10, <3>1
        <3> QED
            BY <1>3, <1>6, <3>1, <3>2
    <2> QED
        BY <2>1, <2>2
<1>12. Trail(next, longer)
    BY <1>2, <1>6, <1>8, <1>9, <1>10, <1>11 DEF Trail
<1> QED
    BY <1>4, <1>5, <1>7, <1>12

LEMMA AncestorsStayDistinct ==
    ASSUME SnapshotTypeOK, NEW node \in RepositoryTree,
           \A j, k \in DOMAIN node.ancestors :
               node.ancestors[j] = node.ancestors[k] => j = k,
           NEW link \in Links, ~Reenters(node, treeOf[link.commit])
    PROVE  LET next == Resolved(node, link)
           IN  \A j, k \in DOMAIN next.ancestors :
                   next.ancestors[j] = next.ancestors[k] => j = k
<1>1. PICK above : above = node.ancestors
    OBVIOUS
<1>2. PICK tree \in Tree : tree = treeOf[link.commit]
    BY LinkTypes
<1>3. above \in Seq(Tree) /\ \A j \in DOMAIN above : above[j] # tree
    BY <1>1, <1>2 DEF RepositoryTree, Reenters
<1>4. PICK all : all = Append(above, tree)
    OBVIOUS
<1>5. /\ DOMAIN all = 1..(Len(above) + 1) /\ all[Len(above) + 1] = tree
      /\ \A j \in 1..Len(above) : all[j] = above[j]
      /\ DOMAIN above = 1..Len(above) /\ Len(above) \in Nat
    BY <1>3, <1>4
<1>6. ASSUME NEW j \in DOMAIN all, NEW k \in DOMAIN all, all[j] = all[k]
      PROVE  j = k
    BY <1>1, <1>3, <1>5, <1>6
<1>7. Resolved(node, link).ancestors = all
    BY <1>1, <1>2, <1>4 DEF Resolved
<1> QED
    BY <1>6, <1>7

LEMMA ResolvedType ==
    ASSUME SnapshotTypeOK, NEW node \in RepositoryTree,
           NEW link \in Gitlinks(node), Resolves(node, link)
    PROVE  Resolved(node, link) \in RepositoryTree
<1>1. link \in Record /\ link.path \in Path /\ link.commit \in Commit
    BY DEF Gitlinks, Covered, SnapshotTypeOK, RepositoryTree, Record
<1>2. Modules(node) \in [Path -> Module \cup {None}]
    BY DEF Resolves, Modules, SnapshotTypeOK, RepositoryTree
<1>3. Opened(node, link) \in Repository
    <2>1. Modules(node)[link.path] \in Module
        BY <1>1, <1>2 DEF Resolves
    <2>2. store[node.repository][Modules(node)[link.path]]
              \in Repository \cup {None}
        BY <2>1 DEF SnapshotTypeOK, RepositoryTree
    <2>3. embedded[node.repository][link.path] \in Repository \cup {None}
        BY <1>1 DEF SnapshotTypeOK, RepositoryTree
    <2> QED
        BY <2>2, <2>3 DEF Opened, InStore, Resolves
<1>4. treeOf[link.commit] \in Tree
    BY <1>1 DEF SnapshotTypeOK
<1>5. /\ node.prefix \in Seq(Path) /\ node.ancestors \in Seq(Tree)
    BY DEF RepositoryTree
<1>6. /\ Append(node.prefix, link.path) \in Seq(Path)
      /\ Append(node.ancestors, treeOf[link.commit]) \in Seq(Tree)
    BY <1>1, <1>4, <1>5
<1> QED
    BY <1>3, <1>4, <1>6 DEF Resolved, RepositoryTree

\* A tree has finitely many records, since it has each path once.
LEMMA FewRecords ==
    ASSUME SnapshotTypeOK, OnePerPath, NEW node \in RepositoryTree
    PROVE  /\ IsFiniteSet(Gitlinks(node))
           /\ IsFiniteSet(Covered(node) \ Gitlinks(node))
           /\ \A r \in Covered(node) :
                  r \in Record /\ r.path \in Path /\ r \in records[node.tree]
           /\ \A r, s \in Covered(node) : r.path = s.path => r = s
<1>1. node.tree \in Tree
    BY DEF RepositoryTree
<1>2. /\ \A r \in Covered(node) :
             r \in Record /\ r.path \in Path /\ r \in records[node.tree]
      /\ \A r, s \in Covered(node) : r.path = s.path => r = s
    BY <1>1 DEF Covered, SnapshotTypeOK, OnePerPath, Record
<1> DEFINE f == [r \in Covered(node) |-> r.path]
<1>3. f \in Injection(Covered(node), Path)
    BY <1>2 DEF Injection, IsInjective
<1>4. IsFiniteSet(Covered(node))
    BY <1>3, FS_Injection, SnapshotAssumption
<1>5. /\ Gitlinks(node) \in SUBSET Covered(node)
      /\ Covered(node) \ Gitlinks(node) \in SUBSET Covered(node)
    BY DEF Gitlinks
<1> QED
    BY <1>2, <1>4, <1>5, FS_Subset

-----------------------------------------------------------------------------
\* What a tree adds to the entries and to the queue.
FilesOf(node) == {EntryOf(node, r) : r \in Covered(node) \ Gitlinks(node)}
TreesBelow(node) == {Resolved(node, link) : link \in Gitlinks(node)}

LEMMA EntriesGrow ==
    ASSUME SnapshotTypeOK, OnePerPath, NEW node \in RepositoryTree,
           NEW next, next = entries \o SetToSeq(FilesOf(node))
    PROVE  next \in Seq(Entry) /\ Grown(entries, FilesOf(node), next)
<1> DEFINE files == Covered(node) \ Gitlinks(node)
           f == [r \in files |-> EntryOf(node, r)]
<1>1. IsFiniteSet(files) /\ \A r \in files : r.path \in Path
    BY FewRecords
<1>2. ASSUME NEW r \in files
      PROVE  EntryOf(node, r) \in Entry
    <2>1. node.prefix \in Seq(Path) /\ node.tree \in Tree
        BY DEF RepositoryTree
    <2>2. Append(node.prefix, r.path) \in Seq(Path)
        BY <1>1, <2>1
    <2> QED
        BY <1>1, <2>1, <2>2 DEF EntryOf, Entry
<1>3. f \in Surjection(files, FilesOf(node))
    BY DEF Surjection, FilesOf
<1>4. FilesOf(node) \in SUBSET Entry
    BY <1>2 DEF FilesOf
<1>5. IsFiniteSet(FilesOf(node))
    BY <1>1, <1>3, FS_Surjection
<1>6. entries \in Seq(Entry)
    BY DEF SnapshotTypeOK
<1> QED
    BY <1>4, <1>5, <1>6, Appended

LEMMA PendingMoves ==
    ASSUME SnapshotTypeOK, OnePerPath, pending # <<>>,
           NEW node \in RepositoryTree, Traversable(node),
           NEW next, next = Tail(pending) \o SetToSeq(TreesBelow(node))
    PROVE  /\ next \in Seq(RepositoryTree)
           /\ Moved(pending, TreesBelow(node), next)
<1> DEFINE f == [link \in Gitlinks(node) |-> Resolved(node, link)]
<1>1. IsFiniteSet(Gitlinks(node))
    BY FewRecords
<1>2. TreesBelow(node) \in SUBSET RepositoryTree
    BY ResolvedType DEF Traversable, TreesBelow
<1>3. f \in Surjection(Gitlinks(node), TreesBelow(node))
    BY DEF Surjection, TreesBelow
<1>4. IsFiniteSet(TreesBelow(node))
    BY <1>1, <1>3, FS_Surjection
<1>5. pending \in Seq(RepositoryTree)
    BY DEF SnapshotTypeOK
<1> QED
    BY <1>2, <1>4, <1>5, QueueMoves

\* A step of the walk, seen from its first pending tree.
Visit(node) ==
    /\ node = pending[1] /\ node \in RepositoryTree
    /\ 1 \in DOMAIN pending
    /\ Traversable(node)
    /\ entries' \in Seq(Entry) /\ Grown(entries, FilesOf(node), entries')
    /\ pending' \in Seq(RepositoryTree)
    /\ Moved(pending, TreesBelow(node), pending')
    /\ UNCHANGED world /\ outcome' = outcome

LEMMA EnumerateVisits ==
    ASSUME SnapshotTypeOK, OnePerPath, Enumerate
    PROVE  \E node : Visit(node)
<1>1. pending \in Seq(RepositoryTree) /\ pending # <<>>
    BY DEF SnapshotTypeOK, Enumerate
<1>2. PICK node : node = Head(pending)
    OBVIOUS
<1>3. /\ node = pending[1] /\ node \in RepositoryTree
      /\ 1 \in DOMAIN pending
    BY <1>1, <1>2
<1>4. /\ Traversable(node)
      /\ entries' = entries \o SetToSeq(FilesOf(node))
      /\ pending' = Tail(pending) \o SetToSeq(TreesBelow(node))
      /\ UNCHANGED world /\ outcome' = outcome
    BY <1>2 DEF Enumerate, FilesOf, TreesBelow
<1>5. entries' \in Seq(Entry) /\ Grown(entries, FilesOf(node), entries')
    BY <1>3, <1>4, EntriesGrow
<1>6. /\ pending' \in Seq(RepositoryTree)
      /\ Moved(pending, TreesBelow(node), pending')
    BY <1>1, <1>3, <1>4, PendingMoves
<1> QED
    BY <1>3, <1>4, <1>5, <1>6 DEF Visit

-----------------------------------------------------------------------------
LEMMA VisitTrails ==
    ASSUME SnapshotTypeOK, OnePerPath, Trailed(pending), NEW node, Visit(node)
    PROVE  Trailed(pending')
<1>1. PICK walk : Trail(node, walk)
    BY DEF Trailed, Visit
<1>2. node \in RepositoryTree
      /\ \A j, k \in DOMAIN node.ancestors :
             node.ancestors[j] = node.ancestors[k] => j = k
    BY DEF Trailed, Visit
<1> SUFFICES ASSUME NEW i \in DOMAIN pending', NEW next, next = pending'[i]
             PROVE  /\ \E w : Trail(next, w)
                    /\ \A j, k \in DOMAIN next.ancestors :
                           next.ancestors[j] = next.ancestors[k] => j = k
    BY DEF Trailed
<1>3. CASE i + 1 \in DOMAIN pending /\ next = pending[i + 1]
    BY <1>3 DEF Trailed
<1>4. ASSUME NEW link \in Gitlinks(node), next = Resolved(node, link)
      PROVE  /\ \E w : Trail(next, w)
             /\ \A j, k \in DOMAIN next.ancestors :
                    next.ancestors[j] = next.ancestors[k] => j = k
    <2>1. link \in Links /\ Trail(next, Append(walk, link))
        BY <1>1, <1>2, <1>4, TrailGrows
    <2>2. ~Reenters(node, treeOf[link.commit])
        BY DEF Visit, Traversable, Resolves
    <2> QED
        BY <1>2, <1>4, <2>1, <2>2, AncestorsStayDistinct
<1> QED
    BY <1>3, <1>4 DEF Visit, Moved, TreesBelow

\* What a new prefix leads to or comes from, compared with the visited one.
LEMMA LeadsOn ==
    ASSUME NEW p \in Seq(Path), NEW x \in Path, NEW y \in Path,
           NEW q \in Seq(Path)
    PROVE  LET px == Append(p, x)
               py == Append(p, y)
           IN  /\ Len(px) = Len(p) + 1
               /\ Leads(px, q) => Leads(p, q)
               /\ Leads(q, px) => Leads(q, p) \/ Leads(p, q)
               /\ Leads(px, py) => x = y
               /\ ~Leads(px, p)
<1>1. PICK px : px = Append(p, x)
    OBVIOUS
<1>2. PICK py : py = Append(p, y)
    OBVIOUS
<1>3. PICK n \in Nat : n = Len(p)
    OBVIOUS
<1>4. /\ Len(px) = n + 1 /\ px[n + 1] = x /\ \A k \in 1..n : px[k] = p[k]
    BY <1>1, <1>3
<1>5. /\ Len(py) = n + 1 /\ py[n + 1] = y
    BY <1>2, <1>3
<1>6. Len(q) \in Nat
    OBVIOUS
<1>7. Leads(px, q) => Leads(p, q)
    BY <1>3, <1>4, <1>6 DEF Leads
<1>8. Leads(q, px) => Leads(q, p) \/ Leads(p, q)
    <2>1. CASE Len(q) <= n
        BY <1>3, <1>4, <1>6, <2>1 DEF Leads
    <2>2. CASE ~(Len(q) <= n)
        BY <1>3, <1>4, <1>6, <2>2 DEF Leads
    <2> QED
        BY <2>1, <2>2
<1>9. (Leads(px, py) => x = y) /\ ~Leads(px, p)
    BY <1>3, <1>4, <1>5 DEF Leads
<1> QED
    BY <1>1, <1>2, <1>3, <1>4, <1>7, <1>8, <1>9

\* The other pending trees are to the side of the visited one.
LEMMA OthersAreAside ==
    ASSUME SnapshotTypeOK, Apart(pending), NEW node, Visit(node),
           NEW i \in DOMAIN pending, i # 1
    PROVE  /\ pending[i].prefix \in Seq(Path)
           /\ ~Leads(node.prefix, pending[i].prefix)
           /\ ~Leads(pending[i].prefix, node.prefix)
<1>1. 1 \in DOMAIN pending /\ node = pending[1]
    BY DEF Visit
<1>2. pending[i] \in RepositoryTree
    BY DEF SnapshotTypeOK
<1>3. Leads(pending[1].prefix, pending[i].prefix) => 1 = i
    BY <1>1 DEF Apart
<1>4. Leads(pending[i].prefix, pending[1].prefix) => i = 1
    BY <1>1 DEF Apart
<1> QED
    BY <1>1, <1>2, <1>3, <1>4 DEF RepositoryTree

\* What is pending after a visit, and what is among the entries.
LEMMA AfterVisit ==
    ASSUME SnapshotTypeOK, OnePerPath, NEW node, Visit(node)
    PROVE  /\ node.prefix \in Seq(Path)
           /\ \A link \in Gitlinks(node) :
                  /\ link.path \in Path
                  /\ Resolved(node, link).prefix
                         = Append(node.prefix, link.path)
           /\ \A i \in DOMAIN pending' :
                  \/ /\ i + 1 \in DOMAIN pending /\ i + 1 # 1
                     /\ pending'[i] = pending[i + 1]
                  \/ /\ i + 1 \notin DOMAIN pending
                     /\ \E link \in Gitlinks(node) :
                            pending'[i] = Resolved(node, link)
           /\ \A j \in DOMAIN entries' :
                  \/ j \in DOMAIN entries /\ entries'[j] = entries[j]
                  \/ /\ j \notin DOMAIN entries
                     /\ \E r \in Covered(node) \ Gitlinks(node) :
                            entries'[j] = EntryOf(node, r)
<1>1. node \in RepositoryTree
    BY DEF Visit
<1>2. node.prefix \in Seq(Path)
    BY <1>1 DEF RepositoryTree
<1>3. \A link \in Gitlinks(node) :
          /\ link.path \in Path
          /\ Resolved(node, link).prefix = Append(node.prefix, link.path)
    BY <1>1, FewRecords DEF Gitlinks, Resolved
<1>4. \A i \in DOMAIN pending' :
          \/ /\ i + 1 \in DOMAIN pending /\ i + 1 # 1
             /\ pending'[i] = pending[i + 1]
          \/ /\ i + 1 \notin DOMAIN pending
             /\ \E link \in Gitlinks(node) :
                    pending'[i] = Resolved(node, link)
    BY DEF Visit, Moved, TreesBelow
<1>5. \A j \in DOMAIN entries' :
          \/ j \in DOMAIN entries /\ entries'[j] = entries[j]
          \/ /\ j \notin DOMAIN entries
             /\ \E r \in Covered(node) \ Gitlinks(node) :
                    entries'[j] = EntryOf(node, r)
    BY DEF Visit, Grown, FilesOf
<1> QED
    BY <1>2, <1>3, <1>4, <1>5

LEMMA VisitStaysApart ==
    ASSUME SnapshotTypeOK, OnePerPath, Apart(pending), NEW node, Visit(node)
    PROVE  Apart(pending')
<1>1. PICK p \in Seq(Path) : p = node.prefix
    BY AfterVisit
<1>2. \A link \in Gitlinks(node) :
          /\ link.path \in Path
          /\ Resolved(node, link).prefix = Append(p, link.path)
    BY <1>1, AfterVisit
<1>3. \A k, l \in Gitlinks(node) : k.path = l.path => k = l
    BY FewRecords DEF Visit, Gitlinks
<1>4. \A i \in DOMAIN pending' :
          \/ /\ i + 1 \in DOMAIN pending /\ i + 1 # 1
             /\ pending'[i] = pending[i + 1]
          \/ /\ i + 1 \notin DOMAIN pending
             /\ \E link \in Gitlinks(node) :
                    pending'[i] = Resolved(node, link)
    BY AfterVisit
<1>5. \A i \in DOMAIN pending : i # 1 =>
          /\ pending[i].prefix \in Seq(Path)
          /\ ~Leads(p, pending[i].prefix) /\ ~Leads(pending[i].prefix, p)
    BY <1>1, OthersAreAside
<1> SUFFICES ASSUME NEW i \in DOMAIN pending', NEW j \in DOMAIN pending',
                    Leads(pending'[i].prefix, pending'[j].prefix)
             PROVE  i = j
    BY DEF Apart
<1>6. i \in Nat /\ j \in Nat
    BY DEF Visit
<1>7. CASE i + 1 \in DOMAIN pending /\ j + 1 \in DOMAIN pending
    <2>1. pending'[i] = pending[i + 1] /\ pending'[j] = pending[j + 1]
        BY <1>4, <1>7
    <2>2. i + 1 = j + 1
        BY <1>7, <2>1 DEF Apart
    <2> QED
        BY <1>6, <2>2
<1>8. CASE i + 1 \in DOMAIN pending /\ j + 1 \notin DOMAIN pending
    <2>1. PICK link \in Gitlinks(node) : pending'[j] = Resolved(node, link)
        BY <1>4, <1>8
    <2>2. PICK q \in Seq(Path) :
              /\ q = pending[i + 1].prefix
              /\ ~Leads(p, q) /\ ~Leads(q, p)
        BY <1>4, <1>5, <1>8
    <2>3. Leads(q, Append(p, link.path)) /\ link.path \in Path
        BY <1>2, <1>4, <1>8, <2>1, <2>2
    <2> QED
        BY <2>2, <2>3, LeadsOn
<1>9. CASE i + 1 \notin DOMAIN pending /\ j + 1 \in DOMAIN pending
    <2>1. PICK link \in Gitlinks(node) : pending'[i] = Resolved(node, link)
        BY <1>4, <1>9
    <2>2. PICK q \in Seq(Path) :
              /\ q = pending[j + 1].prefix
              /\ ~Leads(p, q) /\ ~Leads(q, p)
        BY <1>4, <1>5, <1>9
    <2>3. Leads(Append(p, link.path), q) /\ link.path \in Path
        BY <1>2, <1>4, <1>9, <2>1, <2>2
    <2> QED
        BY <2>2, <2>3, LeadsOn
<1>10. CASE i + 1 \notin DOMAIN pending /\ j + 1 \notin DOMAIN pending
    <2>1. PICK k \in Gitlinks(node) : pending'[i] = Resolved(node, k)
        BY <1>4, <1>10
    <2>2. PICK l \in Gitlinks(node) : pending'[j] = Resolved(node, l)
        BY <1>4, <1>10
    <2>3. /\ k.path \in Path /\ l.path \in Path
          /\ Leads(Append(p, k.path), Append(p, l.path))
        BY <1>2, <2>1, <2>2
    <2>4. k.path = l.path
        BY <2>3, LeadsOn
    <2>5. pending'[i] = pending'[j]
        BY <1>3, <2>1, <2>2, <2>4
    <2> QED
        BY <1>10, <2>5 DEF Visit, Moved
<1> QED
    BY <1>7, <1>8, <1>9, <1>10

\* The path to an entry of a tree is the prefix of the tree.
LEMMA PlaceOf ==
    ASSUME NEW node, NEW p \in Seq(Path), node.prefix = p,
           NEW r, r.path \in Path
    PROVE  /\ Place(EntryOf(node, r)) = p
           /\ EntryOf(node, r).location = Append(p, r.path)
           /\ Leads(p, Place(EntryOf(node, r)))
<1>1. PICK x \in Path : x = r.path
    OBVIOUS
<1>2. PICK l : l = Append(p, x)
    OBVIOUS
<1>3. l \in Seq(Path) /\ Len(l) = Len(p) + 1
    BY <1>2
<1>4. SubSeq(l, 1, Len(l) - 1) = p
    BY <1>2, <1>3
<1>5. EntryOf(node, r).location = l
    BY <1>1, <1>2 DEF EntryOf
<1>6. Leads(p, p)
    BY DEF Leads
<1> QED
    BY <1>1, <1>2, <1>4, <1>5, <1>6 DEF Place

LEMMA PlaceType ==
    ASSUME NEW e \in Entry
    PROVE  Place(e) \in Seq(Path)
<1>1. PICK l \in Seq(Path) : l = e.location
    BY DEF Entry
<1>2. Len(l) \in Nat
    OBVIOUS
<1>3. SubSeq(l, 1, Len(l) - 1) \in Seq(Path)
    BY <1>2
<1> QED
    BY <1>1, <1>3 DEF Place

LEMMA VisitStaysBehind ==
    ASSUME SnapshotTypeOK, OnePerPath, Apart(pending),
           Behind(pending, entries), NEW node, Visit(node)
    PROVE  Behind(pending', entries')
<1>1. PICK p \in Seq(Path) : p = node.prefix
    BY AfterVisit
<1>2. 1 \in DOMAIN pending /\ p = pending[1].prefix
    BY <1>1 DEF Visit
<1>3. \A r \in Covered(node) : r.path \in Path
    BY FewRecords DEF Visit
<1> SUFFICES ASSUME NEW i \in DOMAIN pending', NEW j \in DOMAIN entries',
                    Leads(pending'[i].prefix, Place(entries'[j]))
             PROVE  FALSE
    BY DEF Behind
<1>4. CASE i + 1 \in DOMAIN pending
    <2>1. i + 1 # 1 /\ pending'[i] = pending[i + 1]
        BY <1>4, AfterVisit
    <2>2. CASE j \in DOMAIN entries
        <3>1. entries'[j] = entries[j]
            BY <2>2, AfterVisit
        <3> QED
            BY <1>4, <2>1, <2>2, <3>1 DEF Behind
    <2>3. CASE j \notin DOMAIN entries
        <3>1. PICK r \in Covered(node) \ Gitlinks(node) :
                  entries'[j] = EntryOf(node, r)
            BY <2>3, AfterVisit
        <3>2. Place(entries'[j]) = p
            BY <1>1, <1>3, <3>1, PlaceOf
        <3>3. ~Leads(pending[i + 1].prefix, p)
            BY <1>1, <1>4, <2>1, OthersAreAside
        <3> QED
            BY <2>1, <3>2, <3>3
    <2> QED
        BY <2>2, <2>3
<1>5. CASE i + 1 \notin DOMAIN pending
    <2>1. PICK link \in Gitlinks(node) : pending'[i] = Resolved(node, link)
        BY <1>5, AfterVisit
    <2>2. /\ link.path \in Path
          /\ pending'[i].prefix = Append(p, link.path)
        BY <1>1, <2>1, AfterVisit
    <2>3. CASE j \in DOMAIN entries
        <3>1. entries'[j] = entries[j]
            BY <2>3, AfterVisit
        <3>2. entries[j] \in Entry
            BY <2>3 DEF SnapshotTypeOK
        <3>3. PICK q \in Seq(Path) : q = Place(entries[j])
            BY <3>2, PlaceType
        <3>4. Leads(Append(p, link.path), q)
            BY <2>2, <3>1, <3>3
        <3>5. Leads(p, q)
            BY <2>2, <3>4, LeadsOn
        <3> QED
            BY <1>2, <2>3, <3>3, <3>5 DEF Behind
    <2>4. CASE j \notin DOMAIN entries
        <3>1. PICK r \in Covered(node) \ Gitlinks(node) :
                  entries'[j] = EntryOf(node, r)
            BY <2>4, AfterVisit
        <3>2. Place(entries'[j]) = p
            BY <1>1, <1>3, <3>1, PlaceOf
        <3>3. Leads(Append(p, link.path), p)
            BY <2>2, <3>2
        <3> QED
            BY <2>2, <3>3, LeadsOn
    <2> QED
        BY <2>3, <2>4
<1> QED
    BY <1>4, <1>5

LEMMA VisitKeepsOnce ==
    ASSUME SnapshotTypeOK, OnePerPath, Behind(pending, entries),
           Once(entries), NEW node, Visit(node)
    PROVE  Once(entries')
<1>1. PICK p \in Seq(Path) : p = node.prefix
    BY AfterVisit
<1>2. 1 \in DOMAIN pending /\ p = pending[1].prefix
    BY <1>1 DEF Visit
<1>3. \A r \in Covered(node) : r.path \in Path
    BY FewRecords DEF Visit
<1>4. ASSUME NEW i \in DOMAIN entries, NEW r \in Covered(node),
             entries[i].location = EntryOf(node, r).location
      PROVE  FALSE
    <2>1. Place(entries[i]) = Place(EntryOf(node, r))
        BY <1>4 DEF Place
    <2>2. Leads(p, Place(entries[i]))
        BY <1>1, <1>3, <2>1, PlaceOf
    <2> QED
        BY <1>2, <2>2 DEF Behind
<1>5. ASSUME NEW r \in Covered(node), NEW s \in Covered(node),
             EntryOf(node, r).location = EntryOf(node, s).location
      PROVE  r = s
    <2>1. PICK x \in Path : x = r.path
        BY <1>3
    <2>2. PICK y \in Path : y = s.path
        BY <1>3
    <2>3. Append(p, x) = Append(p, y)
        BY <1>1, <1>5, <2>1, <2>2 DEF EntryOf
    <2>4. x = y
        BY <2>3
    <2> QED
        BY <2>1, <2>2, <2>4, FewRecords DEF Visit
<1>6. \A j \in DOMAIN entries' :
          \/ j \in DOMAIN entries /\ entries'[j] = entries[j]
          \/ /\ j \notin DOMAIN entries
             /\ \E r \in Covered(node) : entries'[j] = EntryOf(node, r)
    BY AfterVisit
<1> SUFFICES ASSUME NEW i \in DOMAIN entries', NEW j \in DOMAIN entries',
                    entries'[i].location = entries'[j].location
             PROVE  i = j
    BY DEF Once
<1>7. CASE i \in DOMAIN entries /\ j \in DOMAIN entries
    BY <1>6, <1>7 DEF Once
<1>8. i \in DOMAIN entries <=> j \in DOMAIN entries
    BY <1>4, <1>6
<1>9. CASE i \notin DOMAIN entries /\ j \notin DOMAIN entries
    <2>1. entries'[i] = entries'[j]
        BY <1>5, <1>6, <1>9
    <2> QED
        BY <1>9, <2>1 DEF Visit, Grown
<1> QED
    BY <1>7, <1>8, <1>9

-----------------------------------------------------------------------------
\* A visit adds the files that the specification's walk tracks.
LEMMA TrackedByTrail ==
    ASSUME SnapshotTypeOK, NEW node \in RepositoryTree, NEW walk,
           Trail(node, walk)
    PROVE  TrackedFiles(walk) = FilesOf(node)
<1>1. PICK n \in Nat : n = Len(node.prefix) /\ node.prefix \in Seq(Path)
    BY DEF RepositoryTree
<1>2. walk \in Walks(n) /\ node.prefix = Prefix(walk)
      /\ node.tree = Target(walk, n)
    BY <1>1 DEF Trail
<1>3. walk \in [1..n -> Links] /\ Len(walk) = n
    BY <1>2, PrefixShape
<1>4. walk = <<>> <=> node.prefix = <<>>
    BY <1>1, <1>3
<1>5. {r \in records[node.tree] :
           r.kind # "gitlink" /\ (walk = <<>> => r.path \notin Artifacts)}
          = Covered(node) \ Gitlinks(node)
    BY <1>4 DEF Covered, Gitlinks, IsExcluded
<1> QED
    BY <1>2, <1>3, <1>5 DEF TrackedFiles, FilesOf, EntryOf

LEMMA VisitSources ==
    ASSUME SnapshotTypeOK, OnePerPath, Trailed(pending), Sourced(entries),
           NEW node, Visit(node)
    PROVE  Sourced(entries')
<1>1. node \in RepositoryTree
    BY DEF Visit
<1>2. PICK walk : Trail(node, walk)
    BY DEF Trailed, Visit
<1>3. Len(node.prefix) < Cardinality(Tree)
    BY <1>1, <1>2, TrailsAreShort DEF Trailed, Visit
<1>4. Cardinality(Tree) \in Nat
    BY FS_CardinalityType, SnapshotAssumption
<1>5. PICK n \in 0..(Cardinality(Tree) - 1) : n = Len(node.prefix)
    BY <1>1, <1>3, <1>4 DEF RepositoryTree
<1>6. walk \in Walks(n)
    BY <1>2, <1>5 DEF Trail
<1>7. TrackedFiles(walk) = FilesOf(node)
    BY <1>1, <1>2, TrackedByTrail
<1> SUFFICES ASSUME NEW j \in DOMAIN entries'
             PROVE  \E m \in 0..(Cardinality(Tree) - 1) :
                        \E w \in Walks(m) : entries'[j] \in TrackedFiles(w)
    BY DEF Sourced
<1>8. CASE j \in DOMAIN entries
    BY <1>8, AfterVisit DEF Sourced
<1>9. CASE j \notin DOMAIN entries
    <2>1. entries'[j] \in FilesOf(node)
        BY <1>9, AfterVisit DEF FilesOf
    <2> QED
        BY <1>5, <1>6, <1>7, <2>1
<1> QED
    BY <1>8, <1>9

LEMMA VisitLeavesOutstanding ==
    ASSUME SnapshotTypeOK, OnePerPath, Outstanding(pending, entries),
           NEW node, Visit(node)
    PROVE  Outstanding(pending', entries')
<1>1. node \in RepositoryTree /\ node = pending[1]
    BY DEF Visit
<1>2. \A i \in DOMAIN entries : i \in DOMAIN entries'
                                 /\ entries'[i] = entries[i]
    BY DEF Visit, Grown
<1>3. Range(entries) \subseteq Range(entries')
    BY <1>2 DEF Range
<1>4. FilesOf(node) \subseteq Range(entries')
    BY DEF Visit, Grown, Range
<1> SUFFICES ASSUME NEW n \in Nat, NEW walk \in Walks(n)
             PROVE  \/ TrackedFiles(walk) \subseteq Range(entries')
                    \/ \E i \in DOMAIN pending' : \E k \in 0..n :
                           Trail(pending'[i], Cut(walk, k))
    BY DEF Outstanding
<1>5. CASE TrackedFiles(walk) \subseteq Range(entries)
    BY <1>3, <1>5
<1>6. ASSUME NEW i \in DOMAIN pending, NEW k \in 0..n,
             Trail(pending[i], Cut(walk, k)), i # 1
      PROVE  \E j \in DOMAIN pending' : Trail(pending'[j], Cut(walk, k))
    BY <1>6 DEF Visit, Moved
<1>7. ASSUME NEW k \in 0..n, Trail(node, Cut(walk, k))
      PROVE  \/ TrackedFiles(walk) \subseteq Range(entries')
             \/ \E j \in DOMAIN pending' : \E m \in 0..n :
                    Trail(pending'[j], Cut(walk, m))
    <2>1. CASE k = n
        BY <1>1, <1>4, <1>7, <2>1, TrackedByTrail, CutShape
    <2>2. CASE k # n
        <3>1. PICK l \in Nat : l = Len(node.prefix)
            BY <1>1 DEF RepositoryTree
        <3>2. Cut(walk, k) \in Walks(l) /\ node.tree = Target(Cut(walk, k), l)
            BY <1>7, <3>1 DEF Trail
        <3>3. Cut(walk, k) \in Walks(k)
            BY CutShape
        <3>4. l = k
            BY <3>2, <3>3, PrefixShape
        <3>5. PICK link : link = walk[k + 1]
            OBVIOUS
        <3>6. /\ link \in Links /\ link \in records[Target(walk, k)]
              /\ k = 0 => link.path \notin Artifacts
              /\ Append(Cut(walk, k), link) = Cut(walk, k + 1)
              /\ Target(Cut(walk, k), k) = Target(walk, k)
            BY <2>2, <3>5, CutShape
        <3>7. link \in records[node.tree] /\ link.kind = "gitlink"
            BY <3>2, <3>4, <3>6, LinkTypes
        <3>8. node.prefix = <<>> => k = 0
            BY <3>1, <3>4
        <3>9. link \in Gitlinks(node)
            BY <3>6, <3>7, <3>8 DEF Gitlinks, Covered, IsExcluded
        <3>10. Trail(Resolved(node, link), Cut(walk, k + 1))
            BY <1>1, <1>7, <3>6, <3>9, TrailGrows
        <3>11. \E j \in DOMAIN pending' : pending'[j] = Resolved(node, link)
            BY <3>9 DEF Visit, Moved, TreesBelow
        <3>12. k + 1 \in 0..n
            BY <2>2
        <3> QED
            BY <3>10, <3>11, <3>12
    <2> QED
        BY <2>1, <2>2
<1> QED
    BY <1>1, <1>5, <1>6, <1>7 DEF Outstanding

-----------------------------------------------------------------------------
\* The specification's own walks depend on the trees alone.
LEMMA WalksStand ==
    ASSUME UNCHANGED world
    PROVE  /\ \A n : Walks(n)' = Walks(n)
           /\ \A walk, n : Target(walk, n)' = Target(walk, n)
           /\ \A walk : TrackedFiles(walk)' = TrackedFiles(walk)
<1>1. records' = records /\ treeOf' = treeOf /\ root' = root
    BY DEF world
<1>2. \A walk, n : Target(walk, n)' = Target(walk, n)
    BY <1>1 DEF Target
<1>3. \A n : Walks(n)' = Walks(n)
    BY <1>1 DEF Walks, Links, Target
<1>4. \A walk : TrackedFiles(walk)' = TrackedFiles(walk)
    BY <1>1 DEF TrackedFiles, Target
<1> QED
    BY <1>2, <1>3, <1>4

LEMMA TrailStands ==
    ASSUME UNCHANGED world
    PROVE  \A node, walk : Trail(node, walk)' <=> Trail(node, walk)
<1>1. /\ \A n : Walks(n)' = Walks(n)
      /\ \A walk, n : Target(walk, n)' = Target(walk, n)
    BY WalksStand
<1> QED
    BY <1>1 DEF Trail, Prefix

LEMMA Stands ==
    ASSUME UNCHANGED world, NEW queue, NEW list,
           queue = pending', list = entries',
           Trailed(queue), Apart(queue), Behind(queue, list),
           Once(list), Sourced(list), Outstanding(queue, list)
    PROVE  /\ Trailed(pending)' /\ Apart(pending)'
           /\ Behind(pending, entries)' /\ Once(entries)'
           /\ Sourced(entries)' /\ Outstanding(pending, entries)'
<1>1. /\ \A n : Walks(n)' = Walks(n)
      /\ \A walk : TrackedFiles(walk)' = TrackedFiles(walk)
    BY WalksStand
<1>2. \A node, walk : Trail(node, walk)' <=> Trail(node, walk)
    BY TrailStands
<1>3. Trailed(pending)'
    BY <1>2 DEF Trailed
<1>4. Apart(pending)'
    BY DEF Apart, Leads
<1>7. Behind(pending, entries)'
    BY DEF Behind, Leads, Place
<1>8. Once(entries)'
    BY DEF Once
<1>5. Sourced(entries)'
    BY <1>1 DEF Sourced
<1>6. Outstanding(pending, entries)'
    BY <1>1, <1>2 DEF Outstanding, Cut
<1> QED
    BY <1>3, <1>4, <1>5, <1>6, <1>7, <1>8

LEMMA WorldStands ==
    ASSUME SnapshotTypeOK, OnePerPath, UNCHANGED world,
           pending' \in Seq(RepositoryTree), entries' \in Seq(Entry),
           outcome' \in {"walking", "done", "failed"}
    PROVE  SnapshotTypeOK' /\ OnePerPath'
BY DEF world, SnapshotTypeOK, OnePerPath

LEMMA SnapshotInit ==
    ASSUME SnapshotTypeOK, OnePerPath, SnapshotStart
    PROVE  SnapshotInv
<1>1. root.tree \in Tree
    BY DEF SnapshotTypeOK
<1>2. PICK node : node = pending[1]
    OBVIOUS
<1>3. /\ DOMAIN pending = {1} /\ DOMAIN entries = {}
      /\ node.prefix = <<>> /\ node.tree = root.tree
      /\ node.ancestors = <<root.tree>>
    BY <1>2 DEF SnapshotStart
<1>4. Len(node.prefix) = 0 /\ Len(node.ancestors) = 1
      /\ node.ancestors[1] = root.tree /\ DOMAIN node.ancestors = {1}
    BY <1>3
<1>5. ASSUME NEW walk \in Walks(0)
      PROVE  Trail(node, walk)
    <2>1. Prefix(walk) = <<>>
        BY PrefixShape
    <2>2. Target(walk, 0) = root.tree
        BY DEF Target
    <2>3. \A k \in 0..0 : node.ancestors[k + 1] = Target(walk, k)
        BY <1>4, <2>2
    <2> QED
        BY <1>3, <1>4, <2>1, <2>2, <2>3 DEF Trail
<1>6. <<>> \in Walks(0)
    BY DEF Walks
<1>7. Trailed(pending)
    <2>1. Trail(node, <<>>)
        BY <1>5, <1>6
    <2>2. \A j, k \in DOMAIN node.ancestors : j = k
        BY <1>4
    <2> QED
        BY <1>2, <1>3, <2>1, <2>2 DEF Trailed
<1>8. Apart(pending) /\ Behind(pending, entries) /\ Once(entries)
      /\ Sourced(entries)
    BY <1>3 DEF Apart, Behind, Once, Sourced
<1>9. Outstanding(pending, entries)
    <2> SUFFICES ASSUME NEW n \in Nat, NEW walk \in Walks(n)
                 PROVE  \E i \in DOMAIN pending : \E k \in 0..n :
                            Trail(pending[i], Cut(walk, k))
        BY DEF Outstanding
    <2>1. 0 \in 0..n /\ 1 \in DOMAIN pending
        BY <1>3
    <2>2. Cut(walk, 0) \in Walks(0)
        BY <2>1, CutShape
    <2>3. Trail(pending[1], Cut(walk, 0))
        BY <1>2, <1>5, <2>2
    <2> QED
        BY <2>1, <2>3
<1>10. Finished
    BY DEF Finished, SnapshotStart
<1> QED
    BY <1>7, <1>8, <1>9, <1>10 DEF SnapshotInv

LEMMA SnapshotStep ==
    ASSUME SnapshotInv, [SnapshotNext]_snapshotVars
    PROVE  SnapshotInv'
<1> USE DEF SnapshotInv
<1>1. CASE Enumerate
    <2>1. PICK node : Visit(node)
        BY <1>1, EnumerateVisits
    <2>2. UNCHANGED world /\ outcome' = outcome /\ outcome = "walking"
          /\ pending' \in Seq(RepositoryTree) /\ entries' \in Seq(Entry)
        BY <1>1, <2>1 DEF Visit, Enumerate
    <2>3. Trailed(pending')
        BY <2>1, VisitTrails
    <2>4. Apart(pending')
        BY <2>1, VisitStaysApart
    <2>5. Behind(pending', entries')
        BY <2>1, VisitStaysBehind
    <2>6. Once(entries')
        BY <2>1, VisitKeepsOnce
    <2>7. Sourced(entries')
        BY <2>1, VisitSources
    <2>8. Outstanding(pending', entries')
        BY <2>1, VisitLeavesOutstanding
    <2>9. /\ Trailed(pending)' /\ Apart(pending)'
          /\ Behind(pending, entries)' /\ Once(entries)'
          /\ Sourced(entries)' /\ Outstanding(pending, entries)'
        BY <2>2, <2>3, <2>4, <2>5, <2>6, <2>7, <2>8, Stands
    <2>10. SnapshotTypeOK' /\ OnePerPath'
        BY <2>2, WorldStands
    <2>11. Finished'
        BY <2>2 DEF Finished
    <2> QED
        BY <2>9, <2>10, <2>11
<1>2. ASSUME UNCHANGED <<world, pending, entries>>,
             outcome' \in {"walking", "done", "failed"},
             outcome' = "done" => pending = <<>>
      PROVE  SnapshotInv'
    <2>1. SnapshotTypeOK' /\ OnePerPath'
        BY <1>2, WorldStands DEF SnapshotTypeOK
    <2>2. /\ Trailed(pending)' /\ Apart(pending)'
          /\ Behind(pending, entries)' /\ Once(entries)'
          /\ Sourced(entries)' /\ Outstanding(pending, entries)'
        BY <1>2, Stands
    <2>3. Finished'
        BY <1>2 DEF Finished
    <2> QED
        BY <2>1, <2>2, <2>3
<1>3. CASE RefuseTree
    BY <1>2, <1>3 DEF RefuseTree
<1>4. CASE FinishSnapshot
    BY <1>2, <1>4 DEF FinishSnapshot
<1>5. CASE UNCHANGED snapshotVars
    BY <1>2, <1>5 DEF snapshotVars, Finished, SnapshotTypeOK
<1> QED
    BY <1>1, <1>3, <1>4, <1>5 DEF SnapshotNext

-----------------------------------------------------------------------------
LEMMA RangeOf ==
    ASSUME NEW T, NEW list \in Seq(T)
    PROVE  /\ Range(list) = {list[i] : i \in 1..Len(list)}
           /\ IsFiniteSet(Range(list))
<1> DEFINE f == [i \in 1..Len(list) |-> list[i]]
<1>1. Range(list) = {list[i] : i \in 1..Len(list)}
    BY DEF Range
<1>2. f \in Surjection(1..Len(list), Range(list))
    BY <1>1 DEF Surjection
<1>3. IsFiniteSet(1..Len(list))
    BY FS_Interval
<1> QED
    BY <1>1, <1>2, <1>3, FS_Surjection

LEMMA CoveredWhenDone ==
    ASSUME SnapshotInv
    PROVE  CoversTheSnapshot
<1> SUFFICES ASSUME outcome = "done"
             PROVE  /\ Range(entries) = SnapshotFiles
                    /\ Len(entries)
                           = Cardinality({e.location : e \in Range(entries)})
    BY DEF CoversTheSnapshot
<1>1. entries \in Seq(Entry) /\ pending = <<>>
    BY DEF SnapshotInv, SnapshotTypeOK, Finished
<1>2. Cardinality(Tree) \in Nat
    BY FS_CardinalityType, SnapshotAssumption
<1>3. Range(entries) \subseteq SnapshotFiles
    <2> SUFFICES ASSUME NEW i \in DOMAIN entries
                 PROVE  entries[i] \in SnapshotFiles
        BY DEF Range
    <2>1. PICK n \in 0..(Cardinality(Tree) - 1) :
              \E walk \in Walks(n) : entries[i] \in TrackedFiles(walk)
        BY DEF SnapshotInv, Sourced
    <2>2. n \in 0..Cardinality(Tree)
        BY <1>2
    <2> QED
        BY <2>1, <2>2 DEF SnapshotFiles
<1>4. SnapshotFiles \subseteq Range(entries)
    <2> SUFFICES ASSUME NEW n \in 0..Cardinality(Tree),
                        NEW walk \in Walks(n)
                 PROVE  TrackedFiles(walk) \subseteq Range(entries)
        BY DEF SnapshotFiles
    <2>1. n \in Nat /\ DOMAIN pending = {}
        BY <1>1, <1>2
    <2> QED
        BY <2>1 DEF SnapshotInv, Outstanding
<1>5. Len(entries) = Cardinality({e.location : e \in Range(entries)})
    <2>0. PICK n \in Nat : n = Len(entries)
        BY <1>1
    <2> DEFINE places == {e.location : e \in Range(entries)}
               f == [i \in 1..n |-> entries[i].location]
    <2>1. DOMAIN entries = 1..n
        BY <1>1, <2>0
    <2>2. Range(entries) = {entries[i] : i \in 1..n}
        BY <1>1, <2>0, RangeOf
    <2>3. f \in [1..n -> places]
        BY <2>2
    <2>4. \A i, j \in 1..n : f[i] = f[j] => i = j
        BY <2>1 DEF SnapshotInv, Once
    <2>5. f \in Surjection(1..n, places)
        BY <2>2, <2>3 DEF Surjection
    <2>6. f \in Bijection(1..n, places)
        BY <2>3, <2>4, <2>5 DEF Bijection, Injection, IsInjective
    <2>7. Cardinality(1..n) = n /\ IsFiniteSet(1..n)
        BY <2>1, FS_Interval
    <2> HIDE DEF places, f
    <2>8. Cardinality(places) = Cardinality(1..n)
        BY <2>6, <2>7, FS_Bijection DEF ExistsBijection
    <2> QED
        BY <2>0, <2>7, <2>8 DEF places
<1> QED
    BY <1>3, <1>4, <1>5

(***************************************************************************)
(* A manifest covers its snapshot, for trees nested in any number and      *)
(* shape: when the enumeration is done its entries are the tracked files   *)
(* of every submodule that a chain of gitlinks leads to, each once.        *)
(***************************************************************************)
THEOREM SnapshotIsCovered == SnapshotSpec => []CoversTheSnapshot
<1>1. SnapshotTypeOK /\ OnePerPath /\ SnapshotStart => SnapshotInv
    BY SnapshotInit
<1>2. SnapshotInv /\ [SnapshotNext]_snapshotVars => SnapshotInv'
    BY SnapshotStep
<1>3. SnapshotInv => CoversTheSnapshot
    BY CoveredWhenDone
<1> QED
    BY <1>1, <1>2, <1>3, PTL DEF SnapshotSpec

(***************************************************************************)
(* The nesting stays below the number of trees, whatever the gitlinks say, *)
(* since resolve_gitlink refuses a tree that is on the chain above.        *)
(***************************************************************************)
THEOREM WalkStaysBounded == SnapshotSpec => []WalkIsBounded
<1>1. SnapshotTypeOK /\ OnePerPath /\ SnapshotStart => SnapshotInv
    BY SnapshotInit
<1>2. SnapshotInv /\ [SnapshotNext]_snapshotVars => SnapshotInv'
    BY SnapshotStep
<1>3. SnapshotInv => WalkIsBounded
    BY BoundFollows DEF SnapshotInv
<1> QED
    BY <1>1, <1>2, <1>3, PTL DEF SnapshotSpec

-----------------------------------------------------------------------------
(***************************************************************************)
(* A gitlink that leads back to a tree of its own chain can be followed    *)
(* again and again, so that there are walks of any length.                 *)
(***************************************************************************)
LEMMA LeastNumber ==
    ASSUME NEW S \in SUBSET Nat, S # {}
    PROVE  \E k \in S : \A j \in S : k <= j
<1> DEFINE less == OpToRel(<, Nat)
<1>1. PICK k \in S : \A j \in S : <<j, k>> \notin less
    <2>1. IsWellFoundedOn(less, Nat)
        BY NatLessThanWellFounded
    <2> HIDE DEF less
    <2> QED
        BY <2>1, WFMin, Zenon
<1>2. less = {ss \in Nat \X Nat : ss[1] < ss[2]}
    BY Zenon DEF OpToRel
<1> HIDE DEF less
<1>3. ASSUME NEW j \in S
      PROVE  k <= j
    <2>1. <<j, k>> \in Nat \X Nat /\ <<j, k>> \notin less
        BY <1>1
    <2> QED
        BY <1>2, <2>1
<1> QED
    BY <1>3

\* A walk of length m that ends at a tree of the cyclic walk, away from its
\* last, and at its first only if it is short.
Around(walk, n, m) ==
    \E w \in Walks(m) : \E j \in 0..n :
        Target(w, m) = Target(walk, j) /\ (m = 0 => j = 0)

LEMMA AroundOnce ==
    ASSUME SnapshotTypeOK, NEW n \in Nat, NEW walk \in Walks(n + 1),
           NEW k \in 0..n, Target(walk, n + 1) = Target(walk, k),
           NEW m \in Nat, Around(walk, n, m)
    PROVE  Around(walk, n, m + 1)
<1>1. PICK w \in Walks(m), j \in 0..n :
          Target(w, m) = Target(walk, j) /\ (m = 0 => j = 0)
    BY DEF Around
<1>2. j \in 0..(n + 1) /\ j # n + 1 /\ n + 1 \in Nat
    OBVIOUS
<1>3. PICK link : link = walk[j + 1]
    OBVIOUS
<1>4. /\ link \in Links /\ link \in records[Target(walk, j)]
      /\ j = 0 => link.path \notin Artifacts
    BY <1>2, <1>3, CutShape
<1>5. PICK next : next = Append(w, link)
    OBVIOUS
<1>6. next \in Walks(m + 1) /\ Target(next, m + 1) = treeOf[link.commit]
    BY <1>1, <1>4, <1>5, WalkAppends
<1>7. Target(walk, j + 1) = treeOf[link.commit]
    BY <1>3 DEF Target
<1>8. \E i \in 0..n : Target(next, m + 1) = Target(walk, i)
    <2>1. CASE j = n
        BY <1>6, <1>7, <2>1
    <2>2. CASE j # n
        <3>1. j + 1 \in 0..n
            BY <2>2
        <3> QED
            BY <1>6, <1>7, <3>1
    <2> QED
        BY <2>1, <2>2
<1>9. m + 1 # 0
    OBVIOUS
<1> QED
    BY <1>6, <1>8, <1>9 DEF Around

LEMMA AroundForever ==
    ASSUME SnapshotTypeOK, NEW n \in Nat, NEW walk \in Walks(n + 1),
           NEW k \in 0..n, Target(walk, n + 1) = Target(walk, k),
           NEW m \in Nat
    PROVE  Walks(m) # {}
<1> DEFINE stuck == {i \in Nat : ~Around(walk, n, i)}
<1>1. 0 \notin stuck
    <2>1. <<>> \in Walks(0) /\ Target(<<>>, 0) = Target(walk, 0)
        BY DEF Walks, Target
    <2>2. 0 \in 0..n
        OBVIOUS
    <2> QED
        BY <2>1, <2>2 DEF Around
<1>2. stuck = {}
    <2> SUFFICES ASSUME stuck # {} PROVE FALSE
        OBVIOUS
    <2>1. PICK i \in stuck : \A j \in stuck : i <= j
        <3>1. stuck \in SUBSET Nat
            OBVIOUS
        <3> HIDE DEF stuck
        <3> QED
            BY <3>1, LeastNumber
    <2>2. i \in Nat /\ i # 0
        BY <1>1, <2>1
    <2>3. PICK h \in Nat : h + 1 = i
        BY <2>2
    <2>4. Around(walk, n, h)
        BY <2>1, <2>3
    <2>5. Around(walk, n, i)
        BY <2>3, <2>4, AroundOnce
    <2> QED
        BY <2>1, <2>5
<1>3. Around(walk, n, m)
    BY <1>2
<1> QED
    BY <1>3 DEF Around

-----------------------------------------------------------------------------
\* What HistoryStaysReadable assumes of the trees and of the module store.
Readable ==
    /\ root.tree \in holds[root.repository]
    /\ \A t \in Tree : InOrder(t)
    /\ Stored
    /\ Acyclic

Held(queue) ==
    \A i \in DOMAIN queue : queue[i].tree \in holds[queue[i].repository]

ReadableInv ==
    /\ SnapshotInv
    /\ Readable => Held(pending) /\ outcome # "failed"

\* Without cycles no gitlink leads back to a tree of its own chain.
LEMMA NoWayBack ==
    ASSUME SnapshotTypeOK, Acyclic, NEW node \in RepositoryTree, NEW walk,
           Trail(node, walk), NEW link \in Gitlinks(node)
    PROVE  ~Reenters(node, treeOf[link.commit])
<1> SUFFICES ASSUME NEW i \in DOMAIN node.ancestors,
                    node.ancestors[i] = treeOf[link.commit]
             PROVE  FALSE
    BY DEF Reenters
<1>1. PICK n \in Nat : n = Len(node.prefix)
    BY DEF RepositoryTree
<1>2. PICK longer : longer = Append(walk, link)
    OBVIOUS
<1>3. /\ walk \in Walks(n) /\ node.prefix = Prefix(walk)
      /\ Len(node.ancestors) = n + 1 /\ node.tree = Target(walk, n)
      /\ \A k \in 0..n : node.ancestors[k + 1] = Target(walk, k)
    BY <1>1 DEF Trail
<1>4. /\ link \in Links /\ link \in records[Target(walk, n)]
      /\ n = 0 => link.path \notin Artifacts
    <2>1. PICK p \in Seq(Path) : p = node.prefix /\ Len(p) = n
        BY <1>1 DEF RepositoryTree
    <2>2. n = 0 => node.prefix = <<>>
        BY <2>1
    <2> QED
        BY <1>3, <2>2, TrailGrows DEF Gitlinks, Covered, IsExcluded
<1>5. /\ longer \in Walks(n + 1)
      /\ \A k \in 0..n : Target(longer, k) = Target(walk, k)
      /\ Target(longer, n + 1) = treeOf[link.commit]
    BY <1>2, <1>3, <1>4, WalkAppends
<1>6. PICK k \in 0..n : k + 1 = i
    <2>1. node.ancestors \in Seq(Tree)
        BY DEF RepositoryTree
    <2>2. i \in 1..(n + 1)
        BY <1>3, <2>1
    <2>3. i - 1 \in 0..n /\ (i - 1) + 1 = i
        BY <2>2
    <2> QED
        BY <2>3
<1>7. Target(longer, n + 1) = Target(longer, k)
    BY <1>3, <1>5, <1>6
<1>8. Cardinality(Tree) \in Nat
    BY FS_CardinalityType, SnapshotAssumption
<1>9. Walks(Cardinality(Tree)) # {}
    BY <1>5, <1>7, <1>8, AroundForever
<1> QED
    BY <1>9 DEF Acyclic

\* In readable history every gitlink resolves in the module store.
LEMMA LinksResolve ==
    ASSUME SnapshotTypeOK, Readable, NEW node \in RepositoryTree,
           NEW walk, Trail(node, walk), NEW link \in Gitlinks(node)
    PROVE  /\ Resolves(node, link)
           /\ Resolved(node, link).tree
                  \in holds[Resolved(node, link).repository]
<1>1. link \in Links /\ link \in records[node.tree] /\ link.path \in Path
      /\ link.commit \in Commit /\ treeOf[link.commit] \in Tree
    BY TrailGrows, LinkTypes DEF Gitlinks, Covered
<1>2. node.tree \in Tree /\ node.repository \in Repository
    BY DEF RepositoryTree
<1>3. Modules(node) # None /\ Modules(node)[link.path] \in Safe
    BY <1>1, <1>2 DEF Readable, InOrder, Modules
<1>4. PICK name \in Safe : name = Modules(node)[link.path]
    BY <1>3
<1>5. /\ store[node.repository][name] # None
      /\ Tree \cup Commit \subseteq holds[store[node.repository][name]]
    BY <1>2 DEF Readable, Stored
<1>6. Opened(node, link) = store[node.repository][name]
    BY <1>4, <1>5 DEF Opened, InStore, IsSafe
<1>7. name # None
    BY SnapshotAssumption
<1>8. ~Reenters(node, treeOf[link.commit])
    BY NoWayBack DEF Readable
<1>9. Resolves(node, link)
    BY <1>1, <1>3, <1>4, <1>5, <1>6, <1>7, <1>8 DEF Resolves
<1> QED
    BY <1>1, <1>5, <1>6, <1>9 DEF Resolved

LEMMA HeadIsTraversable ==
    ASSUME SnapshotInv, Readable, Held(pending), NEW i \in DOMAIN pending
    PROVE  Traversable(pending[i])
<1>1. SnapshotTypeOK /\ Trailed(pending)
    BY DEF SnapshotInv
<1>2. PICK node \in RepositoryTree : node = pending[i]
    BY <1>1 DEF SnapshotTypeOK
<1>3. PICK walk : Trail(node, walk)
    BY <1>1, <1>2 DEF Trailed
<1>4. node.tree \in Tree /\ node.tree \in holds[node.repository]
    BY <1>2 DEF RepositoryTree, Held
<1>5. \A r \in Covered(node) : r.kind # "other"
    BY <1>4 DEF Readable, InOrder, Covered
<1>6. \A link \in Gitlinks(node) : Resolves(node, link)
    BY <1>1, <1>3, LinksResolve
<1> QED
    BY <1>2, <1>4, <1>5, <1>6 DEF Traversable

LEMMA VisitHolds ==
    ASSUME SnapshotInv, Readable, Held(pending), NEW node, Visit(node)
    PROVE  Held(pending')
<1>1. SnapshotTypeOK /\ OnePerPath /\ Trailed(pending)
    BY DEF SnapshotInv
<1>2. node \in RepositoryTree
    BY DEF Visit
<1>3. PICK walk : Trail(node, walk)
    BY <1>1 DEF Trailed, Visit
<1> SUFFICES ASSUME NEW i \in DOMAIN pending'
             PROVE  pending'[i].tree \in holds[pending'[i].repository]
    BY DEF Held
<1>4. CASE i + 1 \in DOMAIN pending
    BY <1>1, <1>4, AfterVisit DEF Held
<1>5. CASE i + 1 \notin DOMAIN pending
    <2>1. PICK link \in Gitlinks(node) : pending'[i] = Resolved(node, link)
        BY <1>1, <1>5, AfterVisit
    <2> QED
        BY <1>1, <1>2, <1>3, <2>1, LinksResolve
<1> QED
    BY <1>4, <1>5

LEMMA ReadableStands ==
    ASSUME UNCHANGED world
    PROVE  /\ Readable' <=> Readable
           /\ \A queue : Held(queue)' <=> Held(queue)
<1>1. /\ records' = records /\ gitmodules' = gitmodules /\ holds' = holds
      /\ store' = store /\ root' = root
    BY DEF world
<1>2. Walks(Cardinality(Tree))' = Walks(Cardinality(Tree))
    BY WalksStand
<1>3. Acyclic' <=> Acyclic
    BY <1>2 DEF Acyclic
<1>4. Stored' <=> Stored
    BY <1>1 DEF Stored
<1>5. (\A t \in Tree : InOrder(t))' <=> \A t \in Tree : InOrder(t)
    BY <1>1 DEF InOrder, Links
<1> QED
    BY <1>1, <1>3, <1>4, <1>5 DEF Readable, Held

LEMMA ReadableStep ==
    ASSUME ReadableInv, [SnapshotNext]_snapshotVars
    PROVE  ReadableInv'
<1>1. SnapshotInv /\ SnapshotInv'
    BY SnapshotStep DEF ReadableInv
<1>2. SnapshotTypeOK /\ OnePerPath
    BY <1>1 DEF SnapshotInv
<1>3. UNCHANGED world
    BY DEF SnapshotNext, Enumerate, RefuseTree, FinishSnapshot, snapshotVars
<1> SUFFICES ASSUME Readable
             PROVE  Held(pending)' /\ outcome' # "failed"
    BY <1>1, <1>3, ReadableStands DEF ReadableInv
<1>4. Held(pending) /\ outcome # "failed"
    BY DEF ReadableInv
<1>5. Held(pending') => Held(pending)'
    BY <1>3 DEF world, Held
<1>6. CASE Enumerate
    <2>1. PICK node : Visit(node)
        BY <1>2, <1>6, EnumerateVisits
    <2>2. Held(pending')
        BY <1>1, <1>4, <2>1, VisitHolds
    <2> QED
        BY <1>4, <1>5, <1>6, <2>2 DEF Enumerate
<1>7. ~RefuseTree
    <2> SUFFICES ASSUME RefuseTree PROVE FALSE
        OBVIOUS
    <2>1. /\ pending \in Seq(RepositoryTree) /\ pending # <<>>
          /\ ~Traversable(Head(pending))
        BY <1>2 DEF RefuseTree, SnapshotTypeOK
    <2>2. 1 \in DOMAIN pending /\ Head(pending) = pending[1]
        BY <2>1
    <2> QED
        BY <1>1, <1>4, <2>1, <2>2, HeadIsTraversable
<1>8. CASE FinishSnapshot
    BY <1>4, <1>5, <1>8 DEF FinishSnapshot
<1>9. CASE UNCHANGED snapshotVars
    BY <1>4, <1>5, <1>9 DEF snapshotVars
<1> QED
    BY <1>6, <1>7, <1>8, <1>9 DEF SnapshotNext

LEMMA ReadableInit ==
    ASSUME SnapshotTypeOK, OnePerPath, SnapshotStart
    PROVE  ReadableInv
<1>1. SnapshotInv
    BY SnapshotInit
<1>2. /\ DOMAIN pending = {1} /\ outcome = "walking"
      /\ pending[1].tree = root.tree
      /\ pending[1].repository = root.repository
    BY DEF SnapshotStart
<1>3. Readable => Held(pending)
    BY <1>2 DEF Readable, Held
<1> QED
    BY <1>1, <1>2, <1>3 DEF ReadableInv

(***************************************************************************)
(* History stays readable: a snapshot of trees in order, with every        *)
(* submodule in the module store and no gitlink back to a tree above, does *)
(* not fail, whatever has become of the repositories in the working tree.  *)
(***************************************************************************)
THEOREM StoreKeepsHistoryReadable == SnapshotSpec => []HistoryStaysReadable
<1>1. SnapshotTypeOK /\ OnePerPath /\ SnapshotStart => ReadableInv
    BY ReadableInit
<1>2. ReadableInv /\ [SnapshotNext]_snapshotVars => ReadableInv'
    BY ReadableStep
<1>3. ReadableInv => HistoryStaysReadable
    BY DEF ReadableInv, Readable, HistoryStaysReadable
<1> QED
    BY <1>1, <1>2, <1>3, PTL DEF SnapshotSpec

-----------------------------------------------------------------------------
(***************************************************************************)
(* How text spells bytes: at[k] characters spell the first k bytes, each   *)
(* byte standing for itself, unless it is the escape, or being escaped.    *)
(***************************************************************************)
Upper(b) == Digit(b \div 16)
Lower(b) == Digit(b % 16)

Itself(chars, from, to, b) ==
    to = from + 1 /\ chars[to] = b /\ b # Percent

AsEscape(chars, from, to, b) ==
    /\ to = from + 3
    /\ chars[from + 1] = Percent
    /\ chars[from + 2] = Upper(b)
    /\ chars[from + 3] = Lower(b)

StandsFor(chars, from, to, b) ==
    Itself(chars, from, to, b) \/ AsEscape(chars, from, to, b)

Spells(chars, bytes, at) ==
    /\ at \in [0..Len(bytes) -> 0..Len(chars)]
    /\ at[0] = 0
    /\ at[Len(bytes)] = Len(chars)
    /\ \A k \in 0..Len(bytes) : k <= at[k]
    /\ \A k \in 1..Len(bytes) : StandsFor(chars, at[k - 1], at[k], bytes[k])

\* What a field may be made of.
Visible(chars) == \A k \in DOMAIN chars : chars[k] > 32 /\ chars[k] # 127

Text == Seq(Nat)

LEMMA BytesAreText ==
    ASSUME NEW bytes \in Seq(Byte)
    PROVE  bytes \in Text /\ \A k \in 1..Len(bytes) : bytes[k] \in 0..255
<1>1. Byte \subseteq 0..255 /\ Byte \subseteq Nat
    <2>1. Byte \subseteq 0..255
        BY PathAssumption, Zenon
    <2> QED
        BY <2>1
<1>2. \A k \in 1..Len(bytes) : bytes[k] \in Byte
    OBVIOUS
<1>3. bytes \in Seq(Nat)
    <2>1. PICK n \in Nat : n = Len(bytes)
        OBVIOUS
    <2>2. bytes = [k \in 1..n |-> bytes[k]] /\ \A k \in 1..n : bytes[k] \in Nat
        BY <1>1, <1>2, <2>1
    <2> QED
        BY <2>2
<1> QED
    BY <1>1, <1>2, <1>3 DEF Text

LEMMA DigitsOfByte ==
    ASSUME NEW b \in 0..255
    PROVE  /\ Upper(b) \in (48..57) \cup (65..70)
           /\ Lower(b) \in (48..57) \cup (65..70)
           /\ DigitValue(Upper(b)) = b \div 16
           /\ DigitValue(Lower(b)) = b % 16
           /\ b \div 16 \in 0..15 /\ b % 16 \in 0..15
           /\ (b \div 16) * 16 + (b % 16) = b
<1>1. /\ b \div 16 \in 0..15 /\ b % 16 \in 0..15
      /\ (b \div 16) * 16 + (b % 16) = b
    OBVIOUS
<1>2. ASSUME NEW v \in 0..15
      PROVE  Digit(v) \in (48..57) \cup (65..70) /\ DigitValue(Digit(v)) = v
    <2>1. CASE v < 10
        <3>1. Digit(v) = 48 + v /\ 48 + v \in 48..57 /\ (48 + v) - 48 = v
            BY <2>1 DEF Digit
        <3> QED
            BY <3>1 DEF DigitValue
    <2>2. CASE ~(v < 10)
        <3>1. /\ Digit(v) = 55 + v /\ 55 + v \in 65..70 /\ (55 + v) - 55 = v
              /\ 55 + v \notin 48..57
            BY <2>2 DEF Digit
        <3> QED
            BY <3>1 DEF DigitValue
    <2> QED
        BY <2>1, <2>2
<1> QED
    BY <1>1, <1>2 DEF Upper, Lower

LEMMA SpellingsJoin ==
    ASSUME NEW t \in Text, NEW b \in Text, NEW at, Spells(t, b, at),
           NEW u \in Text, NEW c \in Text, NEW more, Spells(u, c, more)
    PROVE  \E whole : Spells(t \o u, b \o c, whole)
<1>1. PICK lt \in Nat, lb \in Nat, lu \in Nat, lc \in Nat :
          lt = Len(t) /\ lb = Len(b) /\ lu = Len(u) /\ lc = Len(c)
    BY DEF Text
<1>2. PICK chars : chars = t \o u
    OBVIOUS
<1>3. PICK bytes : bytes = b \o c
    OBVIOUS
<1>4. /\ Len(chars) = lt + lu
      /\ \A i \in 1..lt : chars[i] = t[i]
      /\ \A i \in 1..lu : chars[lt + i] = u[i]
    BY <1>1, <1>2 DEF Text
<1>5. /\ Len(bytes) = lb + lc
      /\ \A i \in 1..lb : bytes[i] = b[i]
      /\ \A i \in 1..lc : bytes[lb + i] = c[i]
    BY <1>1, <1>3 DEF Text
<1>6. /\ \A k \in 0..lb : at[k] \in 0..lt /\ k <= at[k]
      /\ at[0] = 0 /\ at[lb] = lt
      /\ \A k \in 1..lb : StandsFor(t, at[k - 1], at[k], b[k])
    BY <1>1 DEF Spells
<1>7. /\ \A k \in 0..lc : more[k] \in 0..lu /\ k <= more[k]
      /\ more[0] = 0 /\ more[lc] = lu
      /\ \A k \in 1..lc : StandsFor(u, more[k - 1], more[k], c[k])
    BY <1>1 DEF Spells
<1>8. PICK whole :
          whole = [k \in 0..(lb + lc) |->
                      IF k <= lb THEN at[k] ELSE lt + more[k - lb]]
    OBVIOUS
<1>9. ASSUME NEW k \in 0..lb
      PROVE  whole[k] = at[k] /\ whole[k] \in 0..(lt + lu) /\ k <= whole[k]
    BY <1>6, <1>8
<1>10. ASSUME NEW k \in 0..lc
       PROVE  /\ whole[lb + k] = lt + more[k]
              /\ whole[lb + k] \in 0..(lt + lu) /\ lb + k <= whole[lb + k]
    <2>1. CASE k = 0
        <3>1. lb + k = lb /\ lb \in 0..lb
            BY <2>1
        <3> QED
            BY <1>6, <1>7, <1>9, <2>1, <3>1
    <2>2. CASE k # 0
        <3>1. lb + k \in 0..(lb + lc) /\ ~(lb + k <= lb) /\ (lb + k) - lb = k
            BY <2>2
        <3>2. whole[lb + k] = lt + more[k]
            BY <1>8, <3>1
        <3>3. lb <= lt
            BY <1>6
        <3> QED
            BY <1>7, <3>2, <3>3
    <2> QED
        BY <2>1, <2>2
<1>11. ASSUME NEW k \in 0..(lb + lc)
       PROVE  whole[k] \in 0..(lt + lu) /\ k <= whole[k]
    <2>1. CASE k \in 0..lb
        BY <1>9, <2>1
    <2>2. CASE k \notin 0..lb
        <3>1. k - lb \in 0..lc /\ lb + (k - lb) = k
            BY <2>2
        <3> QED
            BY <1>10, <3>1
    <2> QED
        BY <2>1, <2>2
<1>12. ASSUME NEW k \in 1..(lb + lc)
       PROVE  StandsFor(chars, whole[k - 1], whole[k], bytes[k])
    <2>1. CASE k \in 1..lb
        <3>1. k \in 0..lb /\ k - 1 \in 0..lb
            BY <2>1
        <3>2. whole[k - 1] = at[k - 1] /\ whole[k] = at[k] /\ bytes[k] = b[k]
            BY <1>5, <1>9, <2>1, <3>1
        <3>3. StandsFor(t, at[k - 1], at[k], b[k])
            BY <1>6, <2>1
        <3>4. at[k - 1] \in 0..lt /\ at[k] \in 0..lt
            BY <1>6, <3>1
        <3>5. CASE Itself(t, at[k - 1], at[k], b[k])
            <4>1. at[k] \in 1..lt
                BY <3>4, <3>5 DEF Itself
            <4>2. chars[at[k]] = t[at[k]]
                BY <1>4, <4>1
            <4> QED
                BY <3>2, <3>5, <4>2 DEF Itself, StandsFor
        <3>6. CASE AsEscape(t, at[k - 1], at[k], b[k])
            <4>1. /\ at[k - 1] + 1 \in 1..lt /\ at[k - 1] + 2 \in 1..lt
                  /\ at[k - 1] + 3 \in 1..lt
                BY <3>4, <3>6 DEF AsEscape
            <4>2. /\ chars[at[k - 1] + 1] = t[at[k - 1] + 1]
                  /\ chars[at[k - 1] + 2] = t[at[k - 1] + 2]
                  /\ chars[at[k - 1] + 3] = t[at[k - 1] + 3]
                BY <1>4, <4>1
            <4> QED
                BY <3>2, <3>6, <4>2 DEF AsEscape, StandsFor
        <3> QED
            BY <3>3, <3>5, <3>6 DEF StandsFor
    <2>2. CASE k \notin 1..lb
        <3>1. PICK j \in 1..lc : j = k - lb
            BY <2>2
        <3>2. /\ j \in 0..lc /\ j - 1 \in 0..lc
              /\ lb + j = k /\ lb + (j - 1) = k - 1
            BY <3>1
        <3>3. /\ whole[k - 1] = lt + more[j - 1] /\ whole[k] = lt + more[j]
              /\ bytes[k] = c[j]
            <4>1. bytes[lb + j] = c[j]
                BY <1>5
            <4>2. whole[lb + j] = lt + more[j]
                BY <1>10, <3>2
            <4>3. whole[lb + (j - 1)] = lt + more[j - 1]
                BY <1>10, <3>2
            <4> QED
                BY <3>2, <4>1, <4>2, <4>3
        <3>4. StandsFor(u, more[j - 1], more[j], c[j])
            BY <1>7
        <3>5. more[j - 1] \in 0..lu /\ more[j] \in 0..lu
            BY <1>7, <3>2
        <3>6. CASE Itself(u, more[j - 1], more[j], c[j])
            <4>1. more[j] \in 1..lu /\ lt + more[j] = (lt + more[j - 1]) + 1
                BY <3>5, <3>6 DEF Itself
            <4>2. chars[lt + more[j]] = u[more[j]]
                BY <1>4, <4>1
            <4> QED
                BY <3>3, <3>6, <4>1, <4>2 DEF Itself, StandsFor
        <3>7. CASE AsEscape(u, more[j - 1], more[j], c[j])
            <4>1. /\ more[j - 1] + 1 \in 1..lu
                  /\ more[j - 1] + 2 \in 1..lu
                  /\ more[j - 1] + 3 \in 1..lu
                  /\ lt + (more[j - 1] + 1) = (lt + more[j - 1]) + 1
                  /\ lt + (more[j - 1] + 2) = (lt + more[j - 1]) + 2
                  /\ lt + (more[j - 1] + 3) = (lt + more[j - 1]) + 3
                  /\ lt + more[j] = (lt + more[j - 1]) + 3
                BY <3>5, <3>7 DEF AsEscape
            <4>2. /\ chars[lt + (more[j - 1] + 1)] = u[more[j - 1] + 1]
                  /\ chars[lt + (more[j - 1] + 2)] = u[more[j - 1] + 2]
                  /\ chars[lt + (more[j - 1] + 3)] = u[more[j - 1] + 3]
                BY <1>4, <4>1
            <4> QED
                BY <3>3, <3>7, <4>1, <4>2 DEF AsEscape, StandsFor
        <3> QED
            BY <3>4, <3>6, <3>7 DEF StandsFor
    <2> QED
        BY <2>1, <2>2
<1>13. whole[0] = 0
    BY <1>6, <1>9
<1>14. whole[lb + lc] = lt + lu
    BY <1>7, <1>10
<1>15. whole \in [0..(lb + lc) -> 0..(lt + lu)]
    BY <1>8, <1>11
<1>16. Spells(chars, bytes, whole)
    BY <1>4, <1>5, <1>11, <1>12, <1>13, <1>14, <1>15 DEF Spells
<1> QED
    BY <1>2, <1>3, <1>16

LEMMA RawSpells ==
    ASSUME NEW chunk \in Text, \A k \in 1..Len(chunk) : chunk[k] # Percent
    PROVE  \E at : Spells(chunk, chunk, at)
<1>1. PICK n \in Nat : n = Len(chunk)
    BY DEF Text
<1>2. PICK at : at = [k \in 0..n |-> k]
    OBVIOUS
<1>3. at \in [0..n -> 0..n] /\ \A k \in 0..n : at[k] = k
    BY <1>2
<1>4. ASSUME NEW k \in 1..n
      PROVE  StandsFor(chunk, at[k - 1], at[k], chunk[k])
    <2>1. at[k - 1] = k - 1 /\ at[k] = k /\ (k - 1) + 1 = k
        BY <1>3
    <2> QED
        BY <1>1, <2>1 DEF StandsFor, Itself
<1>5. at[0] = 0 /\ at[n] = n
    BY <1>3
<1> QED
    BY <1>1, <1>3, <1>4, <1>5 DEF Spells

LEMMA EscapeShape ==
    ASSUME NEW chunk \in Seq(Byte)
    PROVE  /\ Escape(chunk) \in Text
           /\ Len(Escape(chunk)) = 3 * Len(chunk)
           /\ Visible(Escape(chunk))
           /\ \A k \in 1..Len(chunk) :
                  /\ Escape(chunk)[3 * (k - 1) + 1] = Percent
                  /\ Escape(chunk)[3 * (k - 1) + 2] = Upper(chunk[k])
                  /\ Escape(chunk)[3 * (k - 1) + 3] = Lower(chunk[k])
<1>1. PICK n \in Nat : n = Len(chunk)
    OBVIOUS
<1>2. PICK chars : chars = Escape(chunk)
    OBVIOUS
<1>3. ASSUME NEW k \in 1..(3 * n)
      PROVE  /\ (k + 2) \div 3 \in 1..n
             /\ k % 3 = 1 => chars[k] = Percent
             /\ k % 3 = 2 => chars[k] = Upper(chunk[(k + 2) \div 3])
             /\ k % 3 = 0 => chars[k] = Lower(chunk[(k + 2) \div 3])
    BY <1>1, <1>2 DEF Escape, Upper, Lower
<1>4. \A k \in 1..n : chunk[k] \in 0..255
    BY <1>1, BytesAreText
<1>5. ASSUME NEW k \in 1..(3 * n)
      PROVE  chars[k] \in Nat /\ chars[k] > 32 /\ chars[k] # 127
    <2>1. PICK b \in 0..255 : b = chunk[(k + 2) \div 3]
        BY <1>3, <1>4
    <2>2. /\ Upper(b) \in (48..57) \cup (65..70)
          /\ Lower(b) \in (48..57) \cup (65..70)
        BY DigitsOfByte
    <2>3. k % 3 = 0 \/ k % 3 = 1 \/ k % 3 = 2
        OBVIOUS
    <2>4. chars[k] \in {Percent, Upper(b), Lower(b)}
        BY <1>3, <2>1, <2>3
    <2>5. \A v \in (48..57) \cup (65..70) : v \in Nat /\ v > 32 /\ v # 127
        OBVIOUS
    <2>6. Percent \in Nat /\ Percent > 32 /\ Percent # 127
        BY DEF Percent
    <2> QED
        BY <2>2, <2>4, <2>5, <2>6
<1>6. chars = [k \in 1..(3 * n) |-> chars[k]]
    BY <1>1, <1>2 DEF Escape
<1>7. chars \in Text /\ Len(chars) = 3 * n /\ DOMAIN chars = 1..(3 * n)
    <2>1. 3 * n \in Nat
        OBVIOUS
    <2> QED
        BY <1>5, <1>6, <2>1 DEF Text
<1>8. ASSUME NEW k \in 1..n
      PROVE  /\ chars[3 * (k - 1) + 1] = Percent
             /\ chars[3 * (k - 1) + 2] = Upper(chunk[k])
             /\ chars[3 * (k - 1) + 3] = Lower(chunk[k])
    <2>1. /\ 3 * (k - 1) + 1 \in 1..(3 * n) /\ (3 * (k - 1) + 1) % 3 = 1
          /\ 3 * (k - 1) + 2 \in 1..(3 * n) /\ (3 * (k - 1) + 2) % 3 = 2
          /\ ((3 * (k - 1) + 2) + 2) \div 3 = k
          /\ 3 * (k - 1) + 3 \in 1..(3 * n) /\ (3 * (k - 1) + 3) % 3 = 0
          /\ ((3 * (k - 1) + 3) + 2) \div 3 = k
        OBVIOUS
    <2>2. chars[3 * (k - 1) + 1] = Percent
        BY <1>3, <2>1
    <2>3. chars[3 * (k - 1) + 2] = Upper(chunk[k])
        BY <1>3, <2>1
    <2>4. chars[3 * (k - 1) + 3] = Lower(chunk[k])
        BY <1>3, <2>1
    <2> QED
        BY <2>2, <2>3, <2>4
<1>9. Visible(chars)
    BY <1>5, <1>7 DEF Visible
<1> QED
    BY <1>1, <1>2, <1>7, <1>8, <1>9

LEMMA EscapeSpells ==
    ASSUME NEW chunk \in Seq(Byte)
    PROVE  \E at : Spells(Escape(chunk), chunk, at)
<1>1. PICK n \in Nat : n = Len(chunk)
    OBVIOUS
<1>2. PICK chars : chars = Escape(chunk)
    OBVIOUS
<1>3. PICK at : at = [k \in 0..n |-> 3 * k]
    OBVIOUS
<1>4. Len(chars) = 3 * n
    BY <1>1, <1>2, EscapeShape
<1>5. \A k \in 0..n : at[k] = 3 * k /\ 3 * k \in 0..(3 * n) /\ k <= 3 * k
    BY <1>3
<1>6. at \in [0..n -> 0..(3 * n)]
    BY <1>3, <1>5
<1>7. ASSUME NEW k \in 1..n
      PROVE  StandsFor(chars, at[k - 1], at[k], chunk[k])
    <2>1. k - 1 \in 0..n /\ k \in 0..n /\ 3 * k = 3 * (k - 1) + 3
        OBVIOUS
    <2>2. at[k - 1] = 3 * (k - 1) /\ at[k] = 3 * (k - 1) + 3
        BY <1>5, <2>1
    <2>3. /\ chars[3 * (k - 1) + 1] = Percent
          /\ chars[3 * (k - 1) + 2] = Upper(chunk[k])
          /\ chars[3 * (k - 1) + 3] = Lower(chunk[k])
        BY <1>1, <1>2, EscapeShape
    <2> QED
        BY <2>2, <2>3 DEF AsEscape, StandsFor
<1>8. at[0] = 0 /\ at[n] = 3 * n
    BY <1>5
<1> QED
    BY <1>1, <1>2, <1>4, <1>5, <1>6, <1>7, <1>8 DEF Spells

-----------------------------------------------------------------------------
\* What from_utf8 takes for one piece: a byte and those that may follow it.
LEMMA WidthRange ==
    ASSUME NEW b \in 0..255
    PROVE  /\ Width(b) \in 0..4
           /\ Width(b) = 1 <=> b < 128
           /\ b < 128 \/ b > 127
    BY DEF Width

LEMMA ContinuesAbove ==
    ASSUME NEW b \in 0..255, NEW k \in Nat, NEW c \in Continues(b, k)
    PROVE  c > 127 /\ c \in Nat
    BY DEF Continues

LEMMA ChunkShape ==
    ASSUME NEW bytes \in Seq(Byte), bytes # <<>>
    PROVE  /\ Chunk(bytes) \in 1..Len(bytes)
           /\ \A k \in 2..Chunk(bytes) : bytes[k] \in Continues(Head(bytes), k)
<1> DEFINE Together(n) ==
               \A k \in 2..n :
                   /\ k <= Width(Head(bytes))
                   /\ bytes[k] \in Continues(Head(bytes), k)
           Ends(n) == \/ n >= Width(Head(bytes))
                      \/ n = Len(bytes)
                      \/ bytes[n + 1] \notin Continues(Head(bytes), n + 1)
<1>1. PICK length \in Nat : length = Len(bytes) /\ length >= 1
    OBVIOUS
<1>2. Width(Head(bytes)) \in 0..4
    <2>1. Head(bytes) = bytes[1] /\ 1 \in 1..Len(bytes)
        BY <1>1
    <2> QED
        BY <2>1, BytesAreText, WidthRange
<1>3. \E n \in 1..length : Together(n) /\ Ends(n)
    <2> DEFINE stops == {n \in 1..length : Ends(n)}
    <2>1. stops \in SUBSET Nat /\ length \in stops
        BY <1>1
    <2>2. PICK n \in stops : \A m \in stops : n <= m
        <3> HIDE DEF stops
        <3> QED
            BY <2>1, LeastNumber
    <2>3. n \in 1..length /\ Ends(n)
        BY <2>2
    <2>4. ASSUME NEW k \in 2..n
          PROVE  /\ k <= Width(Head(bytes))
                 /\ bytes[k] \in Continues(Head(bytes), k)
        <3>1. k - 1 \in 1..length /\ ~(n <= k - 1) /\ (k - 1) + 1 = k
            BY <2>3
        <3>2. k - 1 \notin stops
            BY <2>2, <3>1
        <3>3. ~Ends(k - 1)
            BY <3>1, <3>2
        <3>4. ~(k - 1 >= Width(Head(bytes)))
            BY <3>3
        <3>5. bytes[k] \in Continues(Head(bytes), k)
            BY <3>1, <3>3
        <3>6. k <= Width(Head(bytes))
            BY <1>2, <3>1, <3>4
        <3> QED
            BY <3>5, <3>6
    <2> QED
        BY <2>3, <2>4
<1>4. Chunk(bytes) = CHOOSE n \in 1..Len(bytes) : Together(n) /\ Ends(n)
    BY DEF Chunk
<1> HIDE DEF Ends
<1>5. Chunk(bytes) \in 1..Len(bytes) /\ Together(Chunk(bytes))
    <2>1. \E n \in 1..Len(bytes) : Together(n) /\ Ends(n)
        BY <1>1, <1>3
    <2> HIDE DEF Together
    <2> QED
        BY <1>4, <2>1, Zenon
<1> QED
    BY <1>5

LEMMA EscapesControls ==
    ASSUME NEW point \in 0..255, ~Member(Escaped, point)
    PROVE  point > 32 /\ point # 127
<1>1. point \notin (0..32) \cup {127}
    BY PathAssumption
<1> QED
    BY <1>1

\* A character that is kept is seen, and is not an escape.
LEMMA RawIsVisible ==
    ASSUME NEW chunk \in Seq(Byte), chunk # <<>>, KeepsRaw(chunk),
           \A k \in 2..Len(chunk) : chunk[k] \in Continues(Head(chunk), k)
    PROVE  Visible(chunk) /\ \A k \in 1..Len(chunk) : chunk[k] # Percent
<1>1. PICK length \in Nat : length = Len(chunk) /\ length >= 1
    OBVIOUS
<1>2. PICK first \in 0..255 : first = chunk[1] /\ first = Head(chunk)
    <2>1. chunk[1] \in 0..255
        <3>1. 1 \in 1..Len(chunk)
            BY <1>1
        <3> QED
            BY <3>1, BytesAreText
    <2> QED
        BY <1>1, <2>1
<1>3. ASSUME NEW k \in 2..length
      PROVE  chunk[k] > 127 /\ chunk[k] \in Nat
    <2>1. chunk[k] \in Continues(first, k) /\ k \in Nat
        BY <1>1, <1>2
    <2> QED
        BY <2>1, ContinuesAbove
<1>4. Width(first) = length
    BY <1>1, <1>2 DEF KeepsRaw, IsCharacter
<1>5. first > 32 /\ first # 127 /\ first # Percent
    <2>1. CASE length = 1
        <3>1. CodePoint(chunk) = first
            BY <1>1, <1>2, <2>1 DEF CodePoint
        <3>2. ~Member(Escaped, first)
            BY <3>1 DEF KeepsRaw
        <3>3. first > 32 /\ first # 127
            BY <3>2, EscapesControls
        <3>4. chunk = <<first>>
            <4>1. <<first>> \in Seq(Nat) /\ chunk \in Seq(Nat)
                BY BytesAreText DEF Text
            <4>2. /\ Len(<<first>>) = 1 /\ Len(chunk) = 1
                  /\ \A i \in 1..1 : chunk[i] = <<first>>[i]
                BY <1>1, <1>2, <2>1
            <4> QED
                BY <4>1, <4>2, SeqEqual
        <3>5. first # Percent
            BY <3>4 DEF KeepsRaw
        <3> QED
            BY <3>3, <3>5
    <2>2. CASE length # 1
        <3>1. first > 127
            BY <1>4, <2>2, WidthRange
        <3> QED
            BY <3>1 DEF Percent
    <2> QED
        BY <2>1, <2>2
<1>6. ASSUME NEW k \in 1..length
      PROVE  chunk[k] > 32 /\ chunk[k] # 127 /\ chunk[k] # Percent
    <2>1. CASE k = 1
        BY <1>2, <1>5, <2>1
    <2>2. CASE k # 1
        <3>1. chunk[k] > 127 /\ chunk[k] \in Nat
            BY <1>3, <2>2
        <3> QED
            BY <3>1 DEF Percent
    <2> QED
        BY <2>1, <2>2
<1> QED
    BY <1>1, <1>6 DEF Visible

-----------------------------------------------------------------------------
FirstOf(s, n) == SubSeq(s, 1, n)
RestOf(s, n) == SubSeq(s, n + 1, Len(s))

LEMMA FrontAndRest ==
    ASSUME NEW T, NEW s \in Seq(T), NEW n \in 0..Len(s)
    PROVE  /\ FirstOf(s, n) \in Seq(T) /\ Len(FirstOf(s, n)) = n
           /\ \A i \in 1..n : FirstOf(s, n)[i] = s[i]
           /\ RestOf(s, n) \in Seq(T) /\ Len(RestOf(s, n)) = Len(s) - n
           /\ \A i \in 1..(Len(s) - n) : RestOf(s, n)[i] = s[n + i]
<1>1. PICK length \in Nat : length = Len(s)
    OBVIOUS
<1>2. \A i \in 1..length : s[i] \in T
    BY <1>1
<1>3. \A i \in 1..n : s[i] \in T
    BY <1>1, <1>2
<1>4. \A i \in (n + 1)..length : s[i] \in T
    BY <1>1, <1>2
<1>5. /\ FirstOf(s, n) \in Seq(T)
      /\ Len(FirstOf(s, n)) = IF 1 <= n THEN n - 1 + 1 ELSE 0
      /\ \A i \in 1..(n - 1 + 1) : FirstOf(s, n)[i] = s[1 + i - 1]
    <2>1. 1 \in Int /\ n \in Int
        OBVIOUS
    <2> QED
        BY <1>3, <2>1, SubSeqProperties DEF FirstOf
<1>6. /\ RestOf(s, n) \in Seq(T)
      /\ Len(RestOf(s, n)) =
             IF n + 1 <= length THEN length - (n + 1) + 1 ELSE 0
      /\ \A i \in 1..(length - (n + 1) + 1) :
             RestOf(s, n)[i] = s[n + 1 + i - 1]
    <2>1. n + 1 \in Int /\ length \in Int
        OBVIOUS
    <2> QED
        BY <1>1, <1>4, <2>1, SubSeqProperties DEF RestOf
<1>7. Len(FirstOf(s, n)) = n /\ Len(RestOf(s, n)) = length - n
    BY <1>1, <1>5, <1>6
<1>8. \A i \in 1..n : FirstOf(s, n)[i] = s[i]
    <2>1. \A i \in 1..n : i \in 1..(n - 1 + 1) /\ 1 + i - 1 = i
        OBVIOUS
    <2> QED
        BY <1>5, <2>1
<1>9. \A i \in 1..(length - n) : RestOf(s, n)[i] = s[n + i]
    <2>1. \A i \in 1..(length - n) :
              i \in 1..(length - (n + 1) + 1) /\ n + 1 + i - 1 = n + i
        BY <1>1
    <2> QED
        BY <1>6, <2>1
<1> QED
    BY <1>1, <1>5, <1>6, <1>7, <1>8, <1>9

\* Taking the next m off the rest adds them to the front.
LEMMA FrontGrows ==
    ASSUME NEW T, NEW s \in Seq(T), NEW n \in 0..Len(s),
           NEW m \in 0..(Len(s) - n)
    PROVE  /\ n + m \in 0..Len(s)
           /\ FirstOf(s, n) \o FirstOf(RestOf(s, n), m) = FirstOf(s, n + m)
           /\ RestOf(RestOf(s, n), m) = RestOf(s, n + m)
<1>1. PICK length \in Nat : length = Len(s)
    OBVIOUS
<1>2. n + m \in 0..length
    BY <1>1
<1>3. PICK f \in Seq(T), r \in Seq(T) : f = FirstOf(s, n) /\ r = RestOf(s, n)
    BY FrontAndRest
<1>4. /\ Len(f) = n /\ \A i \in 1..n : f[i] = s[i]
      /\ Len(r) = length - n /\ \A i \in 1..(length - n) : r[i] = s[n + i]
    BY <1>1, <1>3, FrontAndRest
<1>5. m \in 0..Len(r)
    BY <1>1, <1>4
<1>6. PICK g \in Seq(T), q \in Seq(T) : g = FirstOf(r, m) /\ q = RestOf(r, m)
    BY <1>5, FrontAndRest
<1>7. /\ Len(g) = m /\ \A i \in 1..m : g[i] = r[i]
      /\ Len(q) = Len(r) - m /\ \A i \in 1..(Len(r) - m) : q[i] = r[m + i]
    BY <1>5, <1>6, FrontAndRest
<1>8. PICK u \in Seq(T), v \in Seq(T) :
          u = FirstOf(s, n + m) /\ v = RestOf(s, n + m)
    BY <1>1, <1>2, FrontAndRest
<1>9. /\ Len(u) = n + m /\ \A i \in 1..(n + m) : u[i] = s[i]
      /\ Len(v) = length - (n + m)
      /\ \A i \in 1..(length - (n + m)) : v[i] = s[n + m + i]
    BY <1>1, <1>2, <1>8, FrontAndRest
<1>10. f \o g = u
    <2>1. PICK w \in Seq(T) : w = f \o g
        BY ConcatProperties
    <2>2. /\ Len(w) = n + m /\ \A i \in 1..n : w[i] = f[i]
          /\ \A i \in 1..m : w[n + i] = g[i]
        <3>1. /\ Len(w) = n + m
              /\ \A i \in 1..(n + m) :
                     w[i] = IF i <= n THEN f[i] ELSE g[i - n]
            <4>1. /\ Len(f \o g) = Len(f) + Len(g)
                  /\ \A i \in 1..(Len(f) + Len(g)) :
                         (f \o g)[i] = IF i <= Len(f) THEN f[i]
                                      ELSE g[i - Len(f)]
                BY ConcatProperties, Zenon
            <4> QED
                BY <1>4, <1>7, <2>1, <4>1
        <3>2. \A i \in 1..n : i \in 1..(n + m) /\ i <= n
            OBVIOUS
        <3>3. \A i \in 1..m :
                  n + i \in 1..(n + m) /\ ~(n + i <= n) /\ (n + i) - n = i
            OBVIOUS
        <3> QED
            BY <3>1, <3>2, <3>3
    <2>3. ASSUME NEW i \in 1..(n + m)
          PROVE  w[i] = s[i]
        <3>1. CASE i \in 1..n
            BY <1>4, <2>2, <3>1
        <3>2. CASE i \notin 1..n
            <4>1. PICK j \in 1..m : j = i - n
                BY <3>2
            <4>2. n + j = i /\ j \in 1..(length - n)
                BY <1>1, <4>1
            <4>3. w[n + j] = g[j]
                BY <2>2
            <4>4. g[j] = r[j]
                BY <1>7
            <4>5. r[j] = s[n + j]
                BY <1>4, <4>2
            <4> QED
                BY <4>2, <4>3, <4>4, <4>5
        <3> QED
            BY <3>1, <3>2
    <2>4. \A i \in 1..Len(w) : w[i] = u[i]
        BY <1>9, <2>2, <2>3
    <2>5. Len(w) = Len(u)
        BY <1>9, <2>2
    <2>6. w = u
        BY <2>4, <2>5, SeqEqual
    <2> QED
        BY <2>1, <2>6
<1>11. q = v
    <2>1. Len(q) = length - n - m /\ Len(v) = length - n - m
        BY <1>1, <1>4, <1>7, <1>9
    <2>2. ASSUME NEW i \in 1..(length - n - m)
          PROVE  q[i] = v[i]
        <3>1. /\ m + i \in 1..(length - n) /\ i \in 1..(Len(r) - m)
              /\ i \in 1..(length - (n + m)) /\ n + (m + i) = n + m + i
            <4>1. Len(r) = length - n
                BY <1>4
            <4>2. length \in Nat /\ n \in Nat /\ m \in Nat
                BY <1>1
            <4> QED
                BY <4>1, <4>2
        <3>2. q[i] = r[m + i]
            BY <1>7, <3>1
        <3>3. r[m + i] = s[n + (m + i)]
            BY <1>4, <3>1
        <3>4. v[i] = s[n + m + i]
            BY <1>9, <3>1
        <3> QED
            BY <3>1, <3>2, <3>3, <3>4
    <2>3. Len(q) = Len(v) /\ \A i \in 1..Len(q) : q[i] = v[i]
        BY <2>1, <2>2
    <2> QED
        BY <2>3, SeqEqual
<1> QED
    BY <1>1, <1>2, <1>3, <1>6, <1>8, <1>10, <1>11

-----------------------------------------------------------------------------
(***************************************************************************)
(* The inductive invariant.  While it is encoded, the field spells the     *)
(* bytes before the remaining ones; while it is decoded, what is unread    *)
(* spells the bytes after the decoded ones.                                *)
(***************************************************************************)
PathTypeOK ==
    /\ path \in Seq(Byte)
    /\ field \in Text
    /\ coding \in {"taking", "encoding", "decoding", "decoded", "refused"}

Untouched ==
    /\ coding = "taking" => field = <<>> /\ remaining = path
    /\ coding \in {"taking", "encoding"} => decoded = <<>>

Written ==
    \E n \in 0..Len(path) : \E at :
        /\ Spells(field, FirstOf(path, n), at)
        /\ remaining = RestOf(path, n)

ReadBack ==
    \E at : /\ Spells(field, path, at)
            /\ \E n \in 0..Len(path) :
                   /\ decoded = FirstOf(path, n)
                   /\ unread = RestOf(field, at[n])

PathInv ==
    /\ PathTypeOK
    /\ Untouched
    /\ Visible(field)
    /\ coding = "encoding" => Written
    /\ coding = "decoding" => ReadBack
    /\ coding = "decoded" => decoded = path
    /\ coding = "refused" => path = <<>>

LEMMA NothingSpelled ==
    ASSUME NEW s \in Seq(Byte)
    PROVE  /\ Spells(<<>>, FirstOf(s, 0), [k \in 0..0 |-> 0])
           /\ FirstOf(s, 0) = <<>> /\ RestOf(s, 0) = s
<1>1. PICK length \in Nat : length = Len(s)
    OBVIOUS
<1>2. 0 \in 0..Len(s)
    BY <1>1
<1>3. FirstOf(s, 0) = <<>>
    <2>1. FirstOf(s, 0) \in Seq(Byte) /\ Len(FirstOf(s, 0)) = 0
        BY <1>2, FrontAndRest
    <2> QED
        BY <2>1
<1>4. RestOf(s, 0) = s
    <2>1. PICK r \in Seq(Byte) : r = RestOf(s, 0)
        BY <1>2, FrontAndRest
    <2>2. Len(r) = length - 0 /\ \A i \in 1..(length - 0) : r[i] = s[0 + i]
        BY <1>1, <1>2, <2>1, FrontAndRest
    <2>3. Len(r) = Len(s) /\ \A i \in 1..Len(r) : r[i] = s[i]
        BY <1>1, <2>2
    <2>4. r = s
        BY <2>3, SeqEqual
    <2> QED
        BY <2>1, <2>4
<1>5. Spells(<<>>, <<>>, [k \in 0..0 |-> 0])
    BY DEF Spells
<1> QED
    BY <1>3, <1>4, <1>5

LEMMA AllOfIt ==
    ASSUME NEW T, NEW s \in Seq(T)
    PROVE  FirstOf(s, Len(s)) = s
<1>1. PICK length \in Nat : length = Len(s) /\ length \in 0..Len(s)
    OBVIOUS
<1>2. PICK f \in Seq(T) : f = FirstOf(s, Len(s))
    BY <1>1, FrontAndRest
<1>3. Len(f) = length /\ \A i \in 1..length : f[i] = s[i]
    BY <1>1, <1>2, FrontAndRest
<1>4. f = s
    BY <1>1, <1>3, SeqEqual
<1> QED
    BY <1>2, <1>4

\* The pieces of a field that is being written.
LEMMA EncodedChunk ==
    ASSUME NEW bytes \in Seq(Byte), bytes # <<>>,
           NEW chunk, chunk = FirstOf(bytes, Chunk(bytes)),
           NEW piece, piece = IF KeepsRaw(chunk) THEN chunk ELSE Escape(chunk)
    PROVE  /\ Chunk(bytes) \in 1..Len(bytes)
           /\ chunk \in Seq(Byte)
           /\ piece \in Text /\ Visible(piece)
           /\ \E at : Spells(piece, chunk, at)
<1>1. PICK m \in 1..Len(bytes) : m = Chunk(bytes)
    BY ChunkShape
<1>2. m \in 0..Len(bytes) /\ m >= 1
    OBVIOUS
<1>3. /\ chunk \in Seq(Byte) /\ Len(chunk) = m
      /\ \A i \in 1..m : chunk[i] = bytes[i]
    BY <1>1, <1>2, FrontAndRest
<1>4. chunk # <<>> /\ Head(chunk) = Head(bytes)
    <2>1. 1 \in 1..m /\ Len(bytes) >= 1
        BY <1>2
    <2>2. chunk # <<>>
        BY <1>2, <1>3
    <2>3. Head(chunk) = chunk[1] /\ Head(bytes) = bytes[1]
        BY <1>3, <2>2
    <2> QED
        BY <1>3, <2>1, <2>2, <2>3
<1>5. \A k \in 2..Len(chunk) : chunk[k] \in Continues(Head(chunk), k)
    <2>1. ASSUME NEW k \in 2..m
          PROVE  chunk[k] \in Continues(Head(chunk), k)
        <3>1. bytes[k] \in Continues(Head(bytes), k)
            BY <1>1, ChunkShape
        <3>2. k \in 1..m
            BY <1>2
        <3> QED
            BY <1>3, <1>4, <3>1, <3>2
    <2> QED
        BY <1>3, <2>1
<1>6. CASE KeepsRaw(chunk)
    <2>1. Visible(chunk) /\ \A k \in 1..Len(chunk) : chunk[k] # Percent
        BY <1>3, <1>4, <1>5, <1>6, RawIsVisible
    <2>2. chunk \in Text
        BY <1>3, BytesAreText
    <2>3. \E at : Spells(chunk, chunk, at)
        BY <2>1, <2>2, RawSpells
    <2>4. piece = chunk
        BY <1>6
    <2> QED
        BY <1>1, <1>3, <2>1, <2>2, <2>3, <2>4
<1>7. CASE ~KeepsRaw(chunk)
    <2>1. piece = Escape(chunk)
        BY <1>7
    <2>2. Escape(chunk) \in Text /\ Visible(Escape(chunk))
        BY <1>3, EscapeShape
    <2>3. \E at : Spells(Escape(chunk), chunk, at)
        BY <1>3, EscapeSpells
    <2> QED
        BY <1>1, <1>3, <2>1, <2>2, <2>3
<1> QED
    BY <1>6, <1>7

LEMMA VisibleJoins ==
    ASSUME NEW t \in Text, NEW u \in Text, Visible(t), Visible(u)
    PROVE  t \o u \in Text /\ Visible(t \o u)
<1>1. PICK lt \in Nat, lu \in Nat : lt = Len(t) /\ lu = Len(u)
    BY DEF Text
<1>2. /\ t \o u \in Seq(Nat) /\ Len(t \o u) = lt + lu
      /\ \A i \in 1..(lt + lu) :
             (t \o u)[i] = IF i <= lt THEN t[i] ELSE u[i - lt]
    <2>1. t \in Seq(Nat) /\ u \in Seq(Nat)
        BY DEF Text
    <2>2. /\ t \o u \in Seq(Nat) /\ Len(t \o u) = Len(t) + Len(u)
          /\ \A i \in 1..(Len(t) + Len(u)) :
                 (t \o u)[i] = IF i <= Len(t) THEN t[i] ELSE u[i - Len(t)]
        BY <2>1, ConcatProperties, Zenon
    <2> QED
        BY <1>1, <2>2
<1>3. ASSUME NEW i \in 1..(lt + lu)
      PROVE  (t \o u)[i] > 32 /\ (t \o u)[i] # 127
    <2>1. CASE i <= lt
        <3>1. i \in DOMAIN t
            BY <1>1, <2>1 DEF Text
        <3> QED
            BY <1>2, <2>1, <3>1 DEF Visible
    <2>2. CASE ~(i <= lt)
        <3>1. i - lt \in DOMAIN u
            BY <1>1, <2>2 DEF Text
        <3>2. u[i - lt] > 32 /\ u[i - lt] # 127
            BY <3>1 DEF Visible
        <3>3. (t \o u)[i] = u[i - lt]
            BY <1>2, <2>2
        <3> QED
            BY <3>2, <3>3
    <2> QED
        BY <2>1, <2>2
<1>4. DOMAIN (t \o u) = 1..(lt + lu)
    BY <1>2
<1> QED
    BY <1>2, <1>3, <1>4 DEF Text, Visible

LEMMA EncodeKeeps ==
    ASSUME PathInv, EncodeChunk
    PROVE  PathInv'
<1>1. /\ PathTypeOK /\ Visible(field) /\ Written /\ decoded = <<>>
      /\ coding = "encoding"
    BY DEF EncodeChunk, PathInv, Untouched
<1>2. PICK n \in 0..Len(path) :
          \E at : /\ Spells(field, FirstOf(path, n), at)
                 /\ remaining = RestOf(path, n)
    BY <1>1 DEF Written
<1>3. PICK at :
         Spells(field, FirstOf(path, n), at) /\ remaining = RestOf(path, n)
    BY <1>2
<1>4. path \in Seq(Byte) /\ field \in Text
    BY <1>1 DEF PathTypeOK
<1>5. /\ FirstOf(path, n) \in Seq(Byte)
      /\ remaining \in Seq(Byte) /\ Len(remaining) = Len(path) - n
    BY <1>3, <1>4, FrontAndRest
<1>6. PICK m : m = Chunk(remaining)
    OBVIOUS
<1>7. PICK chunk : chunk = FirstOf(remaining, m)
    OBVIOUS
<1>8. PICK piece : piece = IF KeepsRaw(chunk) THEN chunk ELSE Escape(chunk)
    OBVIOUS
<1>9. /\ remaining # <<>>
      /\ field' = field \o piece
      /\ remaining' = RestOf(remaining, m)
      /\ UNCHANGED <<path, unread, decoded, coding>>
    BY <1>6, <1>7, <1>8 DEF EncodeChunk, FirstOf, RestOf
<1>10. /\ m \in 1..Len(remaining) /\ chunk \in Seq(Byte)
       /\ piece \in Text /\ Visible(piece)
       /\ \E more : Spells(piece, chunk, more)
    BY <1>5, <1>6, <1>7, <1>8, <1>9, EncodedChunk
<1>11. PICK more : Spells(piece, chunk, more)
    BY <1>10
<1>12. m \in 0..(Len(path) - n)
    BY <1>5, <1>10
<1>13. /\ n + m \in 0..Len(path)
       /\ FirstOf(path, n) \o chunk = FirstOf(path, n + m)
       /\ RestOf(remaining, m) = RestOf(path, n + m)
    BY <1>3, <1>4, <1>7, <1>12, FrontGrows
<1>14. PICK whole : Spells(field \o piece, FirstOf(path, n) \o chunk, whole)
    <2>1. FirstOf(path, n) \in Text /\ chunk \in Text
        BY <1>5, <1>10, BytesAreText
    <2> QED
        BY <1>3, <1>4, <1>10, <1>11, <2>1, SpellingsJoin
<1>15. field' \in Text /\ Visible(field')
    BY <1>1, <1>4, <1>9, <1>10, VisibleJoins
<1>16. Written'
    <2>1. Spells(field', FirstOf(path', n + m), whole)
        BY <1>9, <1>13, <1>14
    <2>2. remaining' = RestOf(path', n + m) /\ n + m \in 0..Len(path')
        BY <1>9, <1>13
    <2> QED
        BY <2>1, <2>2 DEF Written
<1>17. PathTypeOK' /\ Untouched' /\ coding' = "encoding"
    BY <1>1, <1>4, <1>9, <1>15 DEF PathTypeOK, Untouched
<1> QED
    BY <1>15, <1>16, <1>17 DEF PathInv

-----------------------------------------------------------------------------
\* What is unread starts with what the next byte was written as.
LEMMA NextByte ==
    ASSUME NEW s \in Seq(Byte), NEW t \in Text, NEW at, Spells(t, s, at),
           NEW n \in 0..Len(s), NEW rest, rest = RestOf(t, at[n])
    PROVE  /\ at[n] \in 0..Len(t)
           /\ rest \in Text /\ Len(rest) = Len(t) - at[n]
           /\ rest = <<>> => n = Len(s)
           /\ rest # <<>> =>
                 /\ n < Len(s)
                 /\ s[n + 1] \in 0..255
                 /\ at[n + 1] \in 0..Len(t)
                 /\ \/ /\ rest[1] = s[n + 1] /\ s[n + 1] # Percent
                       /\ at[n + 1] = at[n] + 1
                    \/ /\ rest[1] = Percent
                       /\ rest[2] = Upper(s[n + 1])
                       /\ rest[3] = Lower(s[n + 1])
                       /\ at[n + 1] = at[n] + 3
                       /\ Len(rest) >= 3
<1>1. PICK ls \in Nat, lt \in Nat : ls = Len(s) /\ lt = Len(t)
    BY DEF Text
<1>2. /\ \A k \in 0..ls : at[k] \in 0..lt
      /\ at[ls] = lt
      /\ \A k \in 1..ls : StandsFor(t, at[k - 1], at[k], s[k])
    BY <1>1 DEF Spells
<1>3. at[n] \in 0..lt
    BY <1>1, <1>2
<1>4. /\ rest \in Text /\ Len(rest) = lt - at[n]
      /\ \A i \in 1..(lt - at[n]) : rest[i] = t[at[n] + i]
    <2>1. PICK from : from = at[n]
        OBVIOUS
    <2>2. t \in Seq(Nat) /\ from \in 0..Len(t) /\ rest = RestOf(t, from)
        BY <1>1, <1>3, <2>1 DEF Text
    <2>3. /\ rest \in Seq(Nat) /\ Len(rest) = Len(t) - from
          /\ \A i \in 1..(Len(t) - from) : rest[i] = t[from + i]
        <3>1. /\ RestOf(t, from) \in Seq(Nat)
              /\ Len(RestOf(t, from)) = Len(t) - from
              /\ \A i \in 1..(Len(t) - from) : RestOf(t, from)[i] = t[from + i]
            BY <2>2, FrontAndRest
        <3> QED
            BY <2>2, <3>1, Zenon
    <2> QED
        BY <1>1, <2>1, <2>3 DEF Text
<1>5. ASSUME n < ls
      PROVE  /\ s[n + 1] \in 0..255 /\ at[n + 1] \in 0..lt
             /\ \/ /\ rest[1] = s[n + 1] /\ s[n + 1] # Percent
                   /\ at[n + 1] = at[n] + 1
                \/ /\ rest[1] = Percent
                   /\ rest[2] = Upper(s[n + 1])
                   /\ rest[3] = Lower(s[n + 1])
                   /\ at[n + 1] = at[n] + 3
                   /\ Len(rest) >= 3
             /\ Len(rest) >= 1
    <2>1. n + 1 \in 1..ls /\ n + 1 \in 0..ls /\ (n + 1) - 1 = n
        BY <1>1, <1>5
    <2>2. at[n + 1] \in 0..lt /\ s[n + 1] \in 0..255
        BY <1>1, <1>2, <2>1, BytesAreText
    <2>3. StandsFor(t, at[n], at[n + 1], s[n + 1])
        BY <1>2, <2>1
    <2>4. CASE Itself(t, at[n], at[n + 1], s[n + 1])
        <3>1. at[n + 1] = at[n] + 1 /\ 1 \in 1..(lt - at[n])
            BY <1>3, <2>2, <2>4 DEF Itself
        <3>2. rest[1] = t[at[n] + 1]
            BY <1>4, <3>1
        <3> QED
            BY <1>3, <1>4, <2>2, <2>4, <3>1, <3>2 DEF Itself
    <2>5. CASE AsEscape(t, at[n], at[n + 1], s[n + 1])
        <3>1. /\ at[n + 1] = at[n] + 3 /\ lt - at[n] >= 3
              /\ 1 \in 1..(lt - at[n]) /\ 2 \in 1..(lt - at[n])
              /\ 3 \in 1..(lt - at[n])
            BY <1>3, <2>2, <2>5 DEF AsEscape
        <3>2. /\ rest[1] = t[at[n] + 1] /\ rest[2] = t[at[n] + 2]
              /\ rest[3] = t[at[n] + 3]
            BY <1>4, <3>1
        <3> QED
            BY <1>3, <1>4, <2>2, <2>5, <3>1, <3>2 DEF AsEscape
    <2> QED
        BY <2>3, <2>4, <2>5 DEF StandsFor
<1>6. ASSUME rest = <<>>
      PROVE  n = ls
    <2>1. ~(n < ls)
        BY <1>5, <1>6
    <2> QED
        BY <1>1, <2>1
<1>7. ASSUME rest # <<>>
      PROVE  n < ls
    <2>1. lt - at[n] # 0
        BY <1>3, <1>4, <1>7 DEF Text
    <2>2. n # ls
        BY <1>2, <1>3, <2>1
    <2> QED
        BY <1>1, <2>2
<1> QED
    BY <1>1, <1>3, <1>4, <1>5, <1>6, <1>7

\* One byte more is decoded.
LEMMA DecodedOneMore ==
    ASSUME PathTypeOK, NEW at, Spells(field, path, at),
           NEW n \in 0..Len(path), n < Len(path), decoded = FirstOf(path, n),
           UNCHANGED <<path, field>>,
           decoded' = Append(decoded, path[n + 1]),
           unread' = RestOf(field, at[n + 1])
    PROVE  ReadBack'
<1>1. path \in Seq(Byte)
    BY DEF PathTypeOK
<1>2. PICK length \in Nat : length = Len(path)
    BY <1>1
<1>3. n + 1 \in 0..length
    BY <1>2
<1>4. PICK f \in Seq(Byte) : f = decoded
    BY <1>1, FrontAndRest
<1>5. Len(f) = n /\ \A i \in 1..n : f[i] = path[i]
    BY <1>1, <1>4, FrontAndRest
<1>6. PICK g \in Seq(Byte) : g = FirstOf(path, n + 1)
    BY <1>1, <1>2, <1>3, FrontAndRest
<1>7. Len(g) = n + 1 /\ \A i \in 1..(n + 1) : g[i] = path[i]
    BY <1>1, <1>2, <1>3, <1>6, FrontAndRest
<1>8. path[n + 1] \in Byte
    BY <1>1, <1>2, <1>3
<1>9. PICK h \in Seq(Byte) : h = Append(f, path[n + 1])
    BY <1>8, AppendProperties
<1>10. /\ Len(h) = n + 1 /\ h[n + 1] = path[n + 1]
       /\ \A i \in 1..n : h[i] = f[i]
    BY <1>5, <1>8, <1>9
<1>11. \A i \in 1..(n + 1) : h[i] = path[i]
    <2>1. \A i \in 1..(n + 1) : i \in 1..n \/ i = n + 1
        OBVIOUS
    <2> QED
        BY <1>5, <1>10, <2>1
<1>12. h = g
    BY <1>7, <1>10, <1>11, SeqEqual
<1>13. decoded' = FirstOf(path', n + 1) /\ unread' = RestOf(field', at[n + 1])
    BY <1>4, <1>6, <1>9, <1>12
<1>14. Spells(field', path', at) /\ n + 1 \in 0..Len(path')
    BY <1>2, <1>3
<1> QED
    BY <1>13, <1>14 DEF ReadBack

LEMMA DecodeKeeps ==
    ASSUME PathInv, DecodeRaw \/ DecodeEscape \/ RefuseField \/ FinishField
    PROVE  PathInv'
<1>1. /\ PathTypeOK /\ Untouched /\ Visible(field) /\ ReadBack
      /\ coding = "decoding"
    BY DEF DecodeRaw, DecodeEscape, RefuseField, FinishField, PathInv
<1>2. PICK at : /\ Spells(field, path, at)
                /\ \E n \in 0..Len(path) :
                       /\ decoded = FirstOf(path, n)
                       /\ unread = RestOf(field, at[n])
    BY <1>1 DEF ReadBack
<1>3. PICK n \in 0..Len(path) :
          decoded = FirstOf(path, n) /\ unread = RestOf(field, at[n])
    BY <1>2
<1>4. path \in Seq(Byte) /\ field \in Text
    BY <1>1 DEF PathTypeOK
<1>5. /\ at[n] \in 0..Len(field)
      /\ unread \in Text /\ Len(unread) = Len(field) - at[n]
      /\ unread = <<>> => n = Len(path)
      /\ unread # <<>> =>
            /\ n < Len(path)
            /\ path[n + 1] \in 0..255
            /\ at[n + 1] \in 0..Len(field)
            /\ \/ /\ unread[1] = path[n + 1] /\ path[n + 1] # Percent
                  /\ at[n + 1] = at[n] + 1
               \/ /\ unread[1] = Percent
                  /\ unread[2] = Upper(path[n + 1])
                  /\ unread[3] = Lower(path[n + 1])
                  /\ at[n + 1] = at[n] + 3
                  /\ Len(unread) >= 3
    BY <1>2, <1>3, <1>4, NextByte
<1>6. UNCHANGED <<path, field>>
    BY DEF DecodeRaw, DecodeEscape, RefuseField, FinishField
<1>7. ASSUME NEW m \in 0..(Len(field) - at[n])
      PROVE  RestOf(unread, m) = RestOf(field, at[n] + m)
    BY <1>3, <1>4, <1>5, FrontGrows DEF Text
<1>8. ASSUME unread # <<>>
      PROVE  /\ Head(unread) = unread[1]
             /\ Len(unread) \in Nat /\ Len(unread) >= 1
    BY <1>5, <1>8 DEF Text
<1>9. CASE DecodeRaw
    <2>1. /\ unread # <<>> /\ Head(unread) # Percent
          /\ decoded' = Append(decoded, Head(unread)) /\ unread' = Tail(unread)
          /\ coding' = "decoding"
        BY <1>1, <1>9 DEF DecodeRaw
    <2>2. /\ Head(unread) = path[n + 1] /\ at[n + 1] = at[n] + 1
          /\ n < Len(path)
      <3>1. unread[1] # Percent /\ Head(unread) = unread[1]
          BY <1>8, <2>1
      <3>2. /\ n < Len(path)
            /\ \/ unread[1] = path[n + 1] /\ at[n + 1] = at[n] + 1
               \/ unread[1] = Percent
          BY <1>5, <2>1, Zenon
      <3> QED
          BY <3>1, <3>2
    <2>3. Tail(unread) = RestOf(unread, 1)
      <3>1. unread \in Seq(Nat)
          BY <1>5, <2>1 DEF Text
      <3>2. Tail(unread) = SubSeq(unread, 2, Len(unread))
          BY <2>1, <3>1, TailIsSubSeq
      <3> QED
          BY <3>2 DEF RestOf
    <2>4. 1 \in 0..(Len(field) - at[n])
        BY <1>5, <1>8, <2>1
    <2>5. unread' = RestOf(field, at[n + 1])
        BY <1>7, <2>1, <2>2, <2>3, <2>4
    <2>6. ReadBack'
        BY <1>1, <1>2, <1>3, <1>6, <2>1, <2>2, <2>5, DecodedOneMore
    <2>7. PathTypeOK' /\ Untouched' /\ Visible(field')
        BY <1>1, <1>6, <2>1 DEF PathTypeOK, Untouched
    <2> QED
        BY <2>1, <2>6, <2>7 DEF PathInv
<1>10. ASSUME unread # <<>>, Head(unread) = Percent
       PROVE  /\ EscapedByte = path[n + 1] /\ at[n + 1] = at[n] + 3
              /\ n < Len(path) /\ Len(unread) >= 3 /\ EscapedByte # 256
    <2>1. PICK b \in 0..255 : b = path[n + 1]
        BY <1>5, <1>10
    <2>2. /\ unread[2] = Upper(b) /\ unread[3] = Lower(b)
          /\ at[n + 1] = at[n] + 3 /\ Len(unread) >= 3 /\ n < Len(path)
        BY <1>5, <1>8, <1>10, <2>1
    <2>3. /\ DigitValue(unread[2]) = b \div 16
          /\ DigitValue(unread[3]) = b % 16
          /\ b \div 16 \in 0..15 /\ b % 16 \in 0..15
          /\ (b \div 16) * 16 + (b % 16) = b
        BY <2>2, DigitsOfByte
    <2>4. ~(Len(unread) < 3)
        BY <1>8, <1>10, <2>2
    <2>5. EscapedByte = b
        BY <2>3, <2>4 DEF EscapedByte
    <2>6. EscapedByte # 256
        BY <2>5
    <2> QED
        BY <2>1, <2>2, <2>5, <2>6
<1>11. CASE DecodeEscape
    <2>1. /\ unread # <<>> /\ Head(unread) = Percent
          /\ decoded' = Append(decoded, EscapedByte)
          /\ unread' = SubSeq(unread, 4, Len(unread))
          /\ coding' = "decoding"
        BY <1>1, <1>11 DEF DecodeEscape
    <2>2. /\ EscapedByte = path[n + 1] /\ at[n + 1] = at[n] + 3
          /\ n < Len(path) /\ Len(unread) >= 3
        BY <1>10, <2>1
    <2>3. SubSeq(unread, 4, Len(unread)) = RestOf(unread, 3)
        BY DEF RestOf
    <2>4. 3 \in 0..(Len(field) - at[n])
        BY <1>5, <1>8, <2>1, <2>2
    <2>5. unread' = RestOf(field, at[n + 1])
        BY <1>7, <2>1, <2>2, <2>3, <2>4
    <2>6. ReadBack'
        BY <1>1, <1>2, <1>3, <1>6, <2>1, <2>2, <2>5, DecodedOneMore
    <2>7. PathTypeOK' /\ Untouched' /\ Visible(field')
        BY <1>1, <1>6, <2>1 DEF PathTypeOK, Untouched
    <2> QED
        BY <2>1, <2>6, <2>7 DEF PathInv
<1>12. CASE RefuseField
    <2>1. coding' = "refused"
        BY <1>12 DEF RefuseField
    <2>2. field = <<>>
        <3>1. CASE unread # <<>> /\ Head(unread) = Percent /\ EscapedByte = 256
            BY <1>10, <3>1
        <3>2. \/ unread # <<>> /\ Head(unread) = Percent /\ EscapedByte = 256
              \/ field = <<>>
            BY <1>12 DEF RefuseField
        <3> QED
            BY <3>1, <3>2
    <2>3. path = <<>>
        <3>1. PICK length \in Nat : length = Len(path)
            BY <1>4
        <3>2. length <= at[length] /\ at[length] = Len(field)
            BY <1>2, <3>1 DEF Spells
        <3>3. Len(field) = 0
            BY <2>2
        <3> QED
            BY <1>4, <3>1, <3>2, <3>3
    <2>4. PathTypeOK' /\ Untouched' /\ Visible(field')
        BY <1>1, <1>6, <2>1 DEF PathTypeOK, Untouched
    <2> QED
        BY <1>6, <2>1, <2>3, <2>4 DEF PathInv
<1>13. CASE FinishField
    <2>1. coding' = "decoded" /\ unread = <<>> /\ decoded' = decoded
        BY <1>13 DEF FinishField
    <2>2. n = Len(path)
        BY <1>5, <2>1
    <2>3. decoded = path
        BY <1>3, <1>4, <2>2, AllOfIt
    <2>4. PathTypeOK' /\ Untouched' /\ Visible(field')
        BY <1>1, <1>6, <2>1 DEF PathTypeOK, Untouched
    <2> QED
        BY <1>6, <2>1, <2>3, <2>4 DEF PathInv
<1> QED
    BY <1>9, <1>11, <1>12, <1>13

LEMMA PathInit == PathStart => PathInv
<1> SUFFICES ASSUME PathStart
             PROVE  PathInv
    OBVIOUS
<1>1. <<>> \in Seq(Byte) /\ <<>> \in Text
    BY DEF Text
<1>2. Visible(<<>>)
    BY DEF Visible
<1> QED
    BY <1>1, <1>2 DEF PathStart, PathInv, PathTypeOK, Untouched

LEMMA PathStep == PathInv /\ [PathNext]_pathVars => PathInv'
<1> SUFFICES ASSUME PathInv, [PathNext]_pathVars
             PROVE  PathInv'
    OBVIOUS
<1>1. ASSUME NEW b \in Byte, TakeByte(b)
      PROVE  PathInv'
    <2>1. /\ path' = Append(path, b) /\ remaining' = path'
          /\ UNCHANGED <<field, unread, decoded, coding>>
          /\ coding = "taking" /\ path \in Seq(Byte)
        BY <1>1 DEF TakeByte, PathInv, PathTypeOK
    <2>2. path' \in Seq(Byte)
        BY <2>1
    <2> QED
        BY <2>1, <2>2 DEF PathInv, PathTypeOK, Untouched
<1>2. CASE BeginEncoding
    <2>1. /\ coding = "taking" /\ coding' = "encoding"
          /\ UNCHANGED <<path, remaining, field, unread, decoded>>
          /\ path \in Seq(Byte) /\ field = <<>> /\ remaining = path
          /\ decoded = <<>>
        BY <1>2 DEF BeginEncoding, PathInv, PathTypeOK, Untouched
    <2>2. 0 \in 0..Len(path)
        BY <2>1
    <2>3. Written'
        BY <2>1, <2>2, NothingSpelled DEF Written
    <2> QED
        BY <2>1, <2>3 DEF PathInv, PathTypeOK, Untouched
<1>3. CASE BeginDecoding
    <2>1. /\ coding = "encoding" /\ coding' = "decoding" /\ remaining = <<>>
          /\ unread' = field /\ UNCHANGED <<path, remaining, field, decoded>>
          /\ path \in Seq(Byte) /\ field \in Text /\ Written
          /\ decoded = <<>>
        BY <1>3 DEF BeginDecoding, PathInv, PathTypeOK, Untouched
    <2>2. PICK n \in 0..Len(path) :
              \E at : /\ Spells(field, FirstOf(path, n), at)
                     /\ remaining = RestOf(path, n)
        BY <2>1 DEF Written
    <2>3. PICK at :
             Spells(field, FirstOf(path, n), at) /\ remaining = RestOf(path, n)
        BY <2>2
    <2>4. n = Len(path)
        <3>1. Len(remaining) = Len(path) - n /\ Len(remaining) = 0
            BY <2>1, <2>3, FrontAndRest
        <3> QED
            BY <2>1, <3>1
    <2>5. FirstOf(path, n) = path
        BY <2>1, <2>4, AllOfIt
    <2>6. /\ FirstOf(path, 0) = <<>> /\ 0 \in 0..Len(path)
          /\ at[0] = 0
        BY <2>1, <2>3, NothingSpelled DEF Spells
    <2>7. RestOf(field, 0) = field
        <3>1. PICK length \in Nat : length = Len(field) /\ 0 \in 0..Len(field)
            BY <2>1 DEF Text
        <3>2. PICK r \in Seq(Nat) : r = RestOf(field, 0)
            BY <2>1, <3>1, FrontAndRest DEF Text
        <3>3. /\ Len(r) = length - 0
              /\ \A i \in 1..(length - 0) : r[i] = field[0 + i]
            BY <2>1, <3>1, <3>2, FrontAndRest DEF Text
        <3>4. Len(r) = Len(field) /\ \A i \in 1..Len(r) : r[i] = field[i]
            BY <3>1, <3>3
        <3>5. r = field
            BY <2>1, <3>4, SeqEqual DEF Text
        <3> QED
            BY <3>2, <3>5
    <2>8. ReadBack'
        <3>1. /\ Spells(field', path', at) /\ 0 \in 0..Len(path')
              /\ decoded' = FirstOf(path', 0)
              /\ unread' = RestOf(field', at[0])
            BY <2>1, <2>3, <2>5, <2>6, <2>7
        <3> QED
            BY <3>1 DEF ReadBack
    <2> QED
        BY <2>1, <2>8 DEF PathInv, PathTypeOK, Untouched
<1>4. CASE UNCHANGED pathVars
    BY <1>4 DEF pathVars, PathInv, PathTypeOK, Untouched, Written, ReadBack
<1> QED
    BY <1>1, <1>2, <1>3, <1>4, EncodeKeeps, DecodeKeeps DEF PathNext

(***************************************************************************)
(* A path survives its field, whatever its bytes and however long it is:   *)
(* encode_path spells every byte, as itself or as an escape, in visible    *)
(* characters, and decode_path reads the spelling back and nothing else.   *)
(***************************************************************************)
THEOREM FieldsKeepPaths == PathSpec => []PathsSurvive
<1>1. PathStart => PathInv
    BY PathInit
<1>2. PathInv /\ [PathNext]_pathVars => PathInv'
    BY PathStep
<1>3. PathInv => PathsSurvive
    BY DEF PathInv, PathsSurvive, Visible
<1> QED
    BY <1>1, <1>2, <1>3, PTL DEF PathSpec

-----------------------------------------------------------------------------
(***************************************************************************)
(* The Unicode table.  The ranges that verify_partition has passed lie one *)
(* after the other and leave no point out below the one it expects next;   *)
(* those of the table are the selected ones among the ranges already taken *)
(* and rise as they do, which is what a binary search needs.               *)
(***************************************************************************)
Spans(pair, point) == pair[1] <= point /\ point <= pair[2]

Lies(k, point) == Ordered(k).first <= point /\ point <= Ordered(k).last

Ascends(ranges) ==
    /\ \A k \in DOMAIN ranges : ranges[k][1] <= ranges[k][2]
    /\ \A j, k \in DOMAIN ranges : j < k => ranges[j][2] < ranges[k][1]

Partitioned ==
    /\ \A k \in DOMAIN order : /\ Ordered(k).first <= Ordered(k).last
                               /\ Ordered(k).last < Expected
    /\ \A j, k \in DOMAIN order : j < k => Ordered(j).last < Ordered(k).first
    /\ \A point \in Nat : point < Expected =>
           \E k \in DOMAIN order : Lies(k, point)

Selects ==
    /\ Ascends(table)
    /\ \A k \in DOMAIN table, j \in DOMAIN order :
           taken < j => table[k][2] < Ordered(j).first
    /\ \A point \in Nat :
           (\E k \in DOMAIN table : Spans(table[k], point)) <=>
           (\E k \in 1..taken : /\ Lies(k, point)
                                /\ Ordered(k).category \in Selected)

UnicodeShapes ==
    /\ data \in Seq(DataLine)
    /\ order \in Seq(DOMAIN data)
    /\ taken \in 0..Len(order)
    /\ table \in Seq(Nat \X Nat)

UnicodeInv ==
    /\ UnicodeShapes /\ Partitioned /\ Selects
    /\ build = "parsing" => order = <<>>
    /\ build \in {"parsing", "verifying"} => taken = 0 /\ table = <<>>
    /\ build \in {"selecting", "built"} =>
           Range(order) = DOMAIN data /\ Expected = LastPoint + 1
    /\ build = "built" => taken = Len(order)

\* The ends of a binary search over ranges that start at lo: the last range
\* of a stretch that does not start beyond the point, or the first.
IsEnd(lo, point, size, base, e) ==
    /\ e \in base..(base + size - 1)
    /\ e = base \/ lo[e] <= point
    /\ \A m \in (e + 1)..(base + size - 1) : point < lo[m]

Rises(lo, n) ==
    /\ lo \in [1..n -> Nat]
    /\ \A j, k \in 1..n : j < k => lo[j] <= lo[k]

LEMMA HalfSizes ==
    ASSUME NEW n \in Nat, NEW size \in 1..n, NEW base \in 1..(n + 1 - size),
           size # 1
    PROVE  /\ size - (size \div 2) \in 1..n
           /\ size - (size \div 2) < size
           /\ base \in 1..(n + 1 - (size - (size \div 2)))
           /\ base + (size \div 2) \in 1..(n + 1 - (size - (size \div 2)))
           /\ size \div 2 \in 1..(size - (size \div 2))
    OBVIOUS

LEMMA OneEnd ==
    ASSUME NEW n \in Nat, NEW lo, Rises(lo, n), NEW point \in Nat,
           NEW size \in 1..n, NEW base \in 1..(n + 1 - size), NEW e, NEW d,
           IsEnd(lo, point, size, base, e), IsEnd(lo, point, size, base, d)
    PROVE  e = d
    BY DEF IsEnd, Rises

\* The end of one half is the end of the whole.
LEMMA EndOfHalf ==
    ASSUME NEW n \in Nat, NEW lo, Rises(lo, n), NEW point \in Nat,
           NEW size \in 1..n, size # 1, NEW base \in 1..(n + 1 - size),
           NEW half \in 1..(size - 1), half <= size - half, NEW e,
           IF point < lo[base + half]
           THEN IsEnd(lo, point, size - half, base, e)
           ELSE IsEnd(lo, point, size - half, base + half, e)
    PROVE  IsEnd(lo, point, size, base, e)
<1> DEFINE mid == base + half
<1>1. mid \in 1..n /\ mid \in Nat /\ lo[mid] \in Nat
    BY DEF Rises
<1>2. CASE point < lo[mid]
  <2>1. IsEnd(lo, point, size - half, base, e)
      BY <1>2
  <2>2. ASSUME NEW m \in (e + 1)..(base + size - 1)
        PROVE  point < lo[m]
    <3>1. m \in 1..n /\ m \in Nat /\ lo[m] \in Nat
        BY <2>1 DEF IsEnd, Rises
    <3>2. CASE m < mid
      <4>1. m \in (e + 1)..(base + (size - half) - 1)
          BY <2>1, <3>2 DEF IsEnd
      <4> QED
          BY <2>1, <4>1 DEF IsEnd
    <3>3. CASE m >= mid
      <4>1. m = mid \/ lo[mid] <= lo[m]
        <5> HIDE DEF mid
        <5> QED
            BY <1>1, <3>1, <3>3 DEF Rises
      <4> QED
          BY <1>1, <1>2, <3>1, <4>1
    <3> QED
        BY <1>1, <3>1, <3>2, <3>3
  <2> QED
      BY <2>1, <2>2 DEF IsEnd
<1>3. CASE ~(point < lo[mid])
  <2>1. IsEnd(lo, point, size - half, mid, e)
      BY <1>3
  <2>2. lo[mid] <= point
      BY <1>1, <1>3
  <2> QED
      BY <1>1, <2>1, <2>2 DEF IsEnd
<1> QED
    BY <1>2, <1>3

\* Every stretch has an end.
LEMMA SomeEnd ==
    ASSUME NEW n \in Nat, NEW lo, Rises(lo, n), NEW point \in Nat,
           NEW size \in 1..n, NEW base \in 1..(n + 1 - size)
    PROVE  \E e : IsEnd(lo, point, size, base, e)
<1> DEFINE top == base + size - 1
           Beyond == {k \in 0..(size - 1) :
                         k = size - 1 \/ lo[top - k] <= point}
<1>1. Beyond \in SUBSET Nat /\ size - 1 \in Beyond
    OBVIOUS
<1>2. PICK k \in Beyond : \A j \in Beyond : k <= j
    BY <1>1, LeastNumber
<1> DEFINE e == top - k
<1>3. e \in base..top /\ (e = base \/ lo[e] <= point)
    BY <1>2
<1>4. ASSUME NEW m \in (e + 1)..top
      PROVE  point < lo[m]
  <2>1. top - m \in 0..(size - 1) /\ top - m < k /\ top - (top - m) = m
      BY <1>2, <1>3, <1>4
  <2>2. top - m \notin Beyond
    <3>1. k \in Nat /\ top - m \in Nat
        BY <1>1, <2>1
    <3> HIDE DEF Beyond, top
    <3> QED
        BY <1>2, <2>1, <3>1
  <2>3. ~(lo[m] <= point) /\ m \in 1..n
      BY <1>3, <1>4, <2>1, <2>2
  <2> QED
      BY <2>3 DEF Rises
<1> QED
    BY <1>3, <1>4 DEF IsEnd

Starts(ranges) == [k \in 1..Len(ranges) |-> ranges[k][1]]

\* The binary search ends where its definition says, and its answer is that
\* of the range there.
LEMMA SearchEnds ==
    ASSUME NEW n \in Nat, NEW lo, Rises(lo, n), NEW point \in Nat, n # 0,
           NEW ranges, Len(ranges) = n, ranges # <<>>, lo = Starts(ranges)
    PROVE  \E e : /\ IsEnd(lo, point, n, 1, e)
                  /\ Member(ranges, point) <=> Spans(ranges[e], point)
<1> DEFINE Half(f, size, base) ==
               IF size = 1 THEN base
               ELSE IF point < ranges[base + (size \div 2)][1]
               THEN f[size - (size \div 2)][base]
               ELSE f[size - (size \div 2)][base + (size \div 2)]
           Fits(f) == f = [size \in 1..Len(ranges) |->
                              [base \in 1..(Len(ranges) + 1 - size) |->
                                  Half(f, size, base)]]
           Ends == CHOOSE f : Fits(f)
           end == [size \in 1..n |->
                      [base \in 1..(n + 1 - size) |->
                          CHOOSE e : IsEnd(lo, point, size, base, e)]]
<1>1. ASSUME NEW size \in 1..n, NEW base \in 1..(n + 1 - size)
      PROVE  IsEnd(lo, point, size, base, end[size][base])
    BY SomeEnd
<1> HIDE DEF end
<1>2. ASSUME NEW f, NEW size \in 1..n, NEW base \in 1..(n + 1 - size),
             \A less \in 1..n : less < size =>
                 \A at \in 1..(n + 1 - less) :
                     IsEnd(lo, point, less, at, f[less][at])
      PROVE  IsEnd(lo, point, size, base, Half(f, size, base))
  <2>1. CASE size = 1
      BY <2>1 DEF IsEnd
  <2>2. CASE size # 1
    <3> DEFINE half == size \div 2
    <3>1. /\ size - half \in 1..n /\ size - half < size
          /\ base \in 1..(n + 1 - (size - half))
          /\ base + half \in 1..(n + 1 - (size - half))
          /\ half \in 1..(size - half) /\ half \in 1..(size - 1)
          /\ half <= size - half
        BY <2>2, HalfSizes
    <3>2. Half(f, size, base) =
              IF point < lo[base + half] THEN f[size - half][base]
              ELSE f[size - half][base + half]
      <4>1. base + half \in 1..n
          BY <3>1
      <4>3. ranges[base + half][1] = lo[base + half]
          BY <4>1 DEF Starts
      <4>2. Half(f, size, base) =
                IF point < ranges[base + half][1] THEN f[size - half][base]
                ELSE f[size - half][base + half]
          BY <2>2
      <4> HIDE DEF half, Half
      <4> QED
          BY <4>2, <4>3
    <3> HIDE DEF half, Half
    <3>3. IF point < lo[base + half]
          THEN IsEnd(lo, point, size - half, base, Half(f, size, base))
          ELSE IsEnd(lo, point, size - half, base + half, Half(f, size, base))
        BY <1>2, <3>1, <3>2
    <3> QED
        BY <2>2, <3>1, <3>3, EndOfHalf
  <2> QED
      BY <2>1, <2>2
<1>3. Fits(end)
  <2>1. ASSUME NEW size \in 1..n, NEW base \in 1..(n + 1 - size)
        PROVE  end[size][base] = Half(end, size, base)
    <3>1. IsEnd(lo, point, size, base, Half(end, size, base))
      <4> HIDE DEF Half
      <4> QED
          BY <1>1, <1>2
    <3> HIDE DEF Half
    <3> QED
        BY <1>1, <3>1, OneEnd
  <2> HIDE DEF Half
  <2> QED
    <3>1. end = [size \in 1..n |-> [base \in 1..(n + 1 - size) |->
                                       end[size][base]]]
        BY DEF end
    <3>2. \A size \in 1..n :
              [base \in 1..(n + 1 - size) |-> end[size][base]] =
              [base \in 1..(n + 1 - size) |-> Half(end, size, base)]
        BY <2>1
    <3> QED
        BY <3>1, <3>2
<1>4. Fits(Ends)
  <2> HIDE DEF Fits
  <2> QED
      BY <1>3
<1> HIDE DEF Ends
<1>5. ASSUME NEW size \in 1..n, NEW base \in 1..(n + 1 - size)
      PROVE  IsEnd(lo, point, size, base, Ends[size][base])
  <2> DEFINE Right(s) == \A at \in 1..(n + 1 - s) :
                             IsEnd(lo, point, s, at, Ends[s][at])
             Wrong == {s \in 1..n : ~Right(s)}
  <2>1. ASSUME NEW s \in Wrong, \A r \in Wrong : s <= r
        PROVE  FALSE
    <3>1. \A less \in 1..n : less < s => Right(less)
      <4> HIDE DEF Right
      <4> QED
          BY <2>1
    <3>2. ASSUME NEW at \in 1..(n + 1 - s)
          PROVE  IsEnd(lo, point, s, at, Ends[s][at])
      <4> HIDE DEF Half
      <4>1. s \in 1..n /\ Ends[s] = [from \in 1..(n + 1 - s) |->
                                        Half(Ends, s, from)]
          BY <1>4, <2>1
      <4>2. Ends[s][at] = Half(Ends, s, at)
          BY <4>1
      <4>3. \A less \in 1..n : less < s =>
                \A low \in 1..(n + 1 - less) :
                    IsEnd(lo, point, less, low, Ends[less][low])
          BY <3>1
      <4>4. IsEnd(lo, point, s, at, Half(Ends, s, at))
          BY <1>2, <4>1, <4>3
      <4> QED
          BY <4>2, <4>4
    <3> QED
        BY <2>1, <3>2
  <2>2. Wrong = {}
    <3> HIDE DEF Right
    <3>1. Wrong \in SUBSET Nat
        OBVIOUS
    <3> HIDE DEF Wrong
    <3> QED
        BY <2>1, <3>1, LeastNumber
  <2> QED
      BY <2>2
<1>6. Member(ranges, point) <=> Spans(ranges[Ends[Len(ranges)][1]], point)
    BY DEF Member, Spans, Ends
<1> QED
    BY <1>5, <1>6

\* Where a search over ascending ranges ends tells whether one has the point.
LEMMA MemberSearches ==
    ASSUME NEW ranges \in Seq(Nat \X Nat), Ascends(ranges), NEW point \in Nat
    PROVE  Member(ranges, point) <=>
               \E k \in DOMAIN ranges : Spans(ranges[k], point)
<1> DEFINE n == Len(ranges)
           lo == Starts(ranges)
           hi == [k \in 1..n |-> ranges[k][2]]
<1>1. /\ n \in Nat /\ Len(ranges) = n /\ DOMAIN ranges = 1..n
      /\ ranges = <<>> <=> n = 0
    OBVIOUS
<1>2. \A k \in 1..n : ranges[k][1] \in Nat /\ ranges[k][2] \in Nat
    OBVIOUS
<1>3. /\ lo \in [1..n -> Nat] /\ hi \in [1..n -> Nat]
      /\ \A k \in 1..n : lo[k] <= hi[k]
      /\ \A j, k \in 1..n : j < k => hi[j] < lo[k]
      /\ \A k \in 1..n : lo[k] = ranges[k][1] /\ hi[k] = ranges[k][2]
    BY <1>1, <1>2 DEF Ascends, Starts
<1> HIDE DEF n, lo, hi
<1>4. Rises(lo, n)
  <2> SUFFICES ASSUME NEW j \in 1..n, NEW k \in 1..n, j < k
               PROVE  lo[j] <= lo[k]
      BY <1>3 DEF Rises
  <2>1. lo[j] \in Nat /\ hi[j] \in Nat /\ lo[k] \in Nat
      BY <1>3
  <2>2. lo[j] <= hi[j] /\ hi[j] < lo[k]
      BY <1>3
  <2> QED
      BY <2>1, <2>2
<1>6. CASE ranges = <<>>
    BY <1>1, <1>6 DEF Member
<1>7. CASE ranges # <<>>
  <2>1. PICK e : /\ IsEnd(lo, point, n, 1, e)
                 /\ Member(ranges, point) <=> Spans(ranges[e], point)
    <3>1. n # 0 /\ lo = Starts(ranges)
        BY <1>1, <1>7 DEF lo
    <3> QED
        BY <1>1, <1>4, <1>7, <3>1, SearchEnds
  <2>2. IsEnd(lo, point, n, 1, e)
      BY <2>1
  <2>6. \A k \in 1..n : lo[k] \in Nat /\ hi[k] \in Nat
      BY <1>3
  <2>3. e \in 1..n
      BY <1>1, <2>2 DEF IsEnd
  <2>4. ASSUME NEW k \in 1..n, lo[k] <= point, point <= hi[k]
        PROVE  k = e
    <3>1. ~(e < k)
      <4>1. e < k => point < lo[k]
          BY <1>1, <2>2, <2>3 DEF IsEnd
      <4> QED
          BY <2>4, <2>6, <4>1
    <3>2. ~(k < e)
      <4>1. k < e => lo[e] <= point /\ hi[k] < lo[e]
          BY <1>1, <1>3, <2>2, <2>3 DEF IsEnd
      <4> QED
          BY <2>3, <2>4, <2>6, <4>1
    <3> QED
        BY <2>3, <3>1, <3>2
  <2>5. \A k \in 1..n : Spans(ranges[k], point) <=>
                            lo[k] <= point /\ point <= hi[k]
      BY <1>3 DEF Spans
  <2> QED
      BY <1>1, <2>1, <2>3, <2>4, <2>5
<1> QED
    BY <1>6, <1>7

\* A range after all others joins the last, if it starts where that ends, or
\* follows it.
LEMMA MergedShape ==
    ASSUME NEW ranges \in Seq(Nat \X Nat), NEW range,
           range.first \in Nat, range.last \in Nat
    PROVE  LET m == Merged(ranges, range)
               n == Len(ranges)
           IN  /\ m \in Seq(Nat \X Nat)
               /\ \/ /\ DOMAIN m = 1..(n + 1)
                     /\ \A k \in 1..n : m[k] = ranges[k]
                     /\ m[n + 1] = <<range.first, range.last>>
                  \/ /\ n # 0 /\ DOMAIN m = 1..n
                     /\ \A k \in 1..(n - 1) : m[k] = ranges[k]
                     /\ m[n] = <<ranges[n][1], range.last>>
                     /\ ranges[n][2] + 1 = range.first
<1> DEFINE pair == <<range.first, range.last>>
<1>1. pair \in Nat \X Nat
    OBVIOUS
<1>2. CASE ranges # <<>> /\ Last(ranges)[2] + 1 = range.first
  <2> DEFINE joined == <<Last(ranges)[1], range.last>>
  <2>1. Len(ranges) \in Nat /\ Len(ranges) # 0
        /\ Last(ranges) = ranges[Len(ranges)] /\ Len(ranges) \in DOMAIN ranges
      BY <1>2 DEF Last
  <2>2. Front(ranges) \in Seq(Nat \X Nat) /\ Len(Front(ranges)) = Len(ranges) - 1
        /\ \A k \in 1..(Len(ranges) - 1) : Front(ranges)[k] = ranges[k]
    <3> DEFINE n == Len(ranges) - 1
    <3>1. n \in 0..Len(ranges) /\ Front(ranges) = FirstOf(ranges, n)
        BY <2>1 DEF Front, FirstOf
    <3> HIDE DEF n
    <3>2. /\ FirstOf(ranges, n) \in Seq(Nat \X Nat)
          /\ Len(FirstOf(ranges, n)) = n
          /\ \A i \in 1..n : FirstOf(ranges, n)[i] = ranges[i]
        BY <3>1, FrontAndRest
    <3> QED
        BY <3>1, <3>2 DEF n
  <2>3. ranges[Len(ranges)] \in Nat \X Nat
      BY <2>1
  <2>4. joined \in Nat \X Nat
      BY <2>1, <2>3
  <2>5. Merged(ranges, range) = Append(Front(ranges), joined)
      BY <1>2 DEF Merged
  <2>6. joined = <<ranges[Len(ranges)][1], range.last>>
      BY <2>1
  <2> HIDE DEF joined
  <2>7. /\ Append(Front(ranges), joined) \in Seq(Nat \X Nat)
        /\ DOMAIN Append(Front(ranges), joined) = 1..Len(ranges)
        /\ \A k \in 1..(Len(ranges) - 1) :
               Append(Front(ranges), joined)[k] = ranges[k]
        /\ Append(Front(ranges), joined)[Len(ranges)] = joined
    <3>1. PICK n \in Nat : n = Len(ranges)
        BY <2>1
    <3> DEFINE front == Front(ranges)
    <3>2. front \in Seq(Nat \X Nat) /\ Len(front) = n - 1
          /\ \A k \in 1..(n - 1) : front[k] = ranges[k]
        BY <2>2, <3>1
    <3> HIDE DEF front
    <3>3. /\ Append(front, joined) \in Seq(Nat \X Nat)
          /\ Len(Append(front, joined)) = n
          /\ \A k \in 1..(n - 1) : Append(front, joined)[k] = front[k]
          /\ Append(front, joined)[n] = joined
        BY <2>4, <3>1, <3>2, AppendProperties
    <3>4. DOMAIN Append(front, joined) = 1..n
        BY <3>3
    <3> QED
        BY <3>1, <3>2, <3>3, <3>4 DEF front
  <2> QED
      BY <1>2, <2>1, <2>5, <2>6, <2>7
<1>3. CASE ~(ranges # <<>> /\ Last(ranges)[2] + 1 = range.first)
  <2>1. Merged(ranges, range) = Append(ranges, pair)
      BY <1>3 DEF Merged
  <2> HIDE DEF pair
  <2>2. /\ Append(ranges, pair) \in Seq(Nat \X Nat)
        /\ DOMAIN Append(ranges, pair) = 1..(Len(ranges) + 1)
        /\ \A k \in 1..Len(ranges) : Append(ranges, pair)[k] = ranges[k]
        /\ Append(ranges, pair)[Len(ranges) + 1] = pair
      BY <1>1
  <2> QED
      BY <2>1, <2>2 DEF pair
<1> QED
    BY <1>2, <1>3

LEMMA MergedAscends ==
    ASSUME NEW ranges \in Seq(Nat \X Nat), Ascends(ranges), NEW range,
           range.first \in Nat, range.last \in Nat, range.first <= range.last,
           \A k \in DOMAIN ranges : ranges[k][2] < range.first
    PROVE  LET m == Merged(ranges, range)
           IN  /\ m \in Seq(Nat \X Nat)
               /\ Ascends(m)
               /\ \A k \in DOMAIN m : m[k][2] <= range.last
               /\ \A point \in Nat :
                     (\E k \in DOMAIN m : Spans(m[k], point)) <=>
                     \/ \E k \in DOMAIN ranges : Spans(ranges[k], point)
                     \/ range.first <= point /\ point <= range.last
<1> DEFINE m == Merged(ranges, range)
           n == Len(ranges)
           first == range.first
           last == range.last
<1>1. /\ n \in Nat /\ DOMAIN ranges = 1..n
      /\ \A k \in 1..n : /\ ranges[k][1] \in Nat /\ ranges[k][2] \in Nat
                         /\ ranges[k][1] <= ranges[k][2]
                         /\ ranges[k][2] < first
      /\ \A j, k \in 1..n : j < k => ranges[j][2] < ranges[k][1]
  <2>1. n \in Nat /\ DOMAIN ranges = 1..n
      OBVIOUS
  <2>2. \A k \in 1..n : ranges[k][1] \in Nat /\ ranges[k][2] \in Nat
      BY <2>1
  <2> QED
      BY <2>1, <2>2 DEF Ascends
<1>2. first \in Nat /\ last \in Nat /\ first <= last
    OBVIOUS
<1>3. /\ m \in Seq(Nat \X Nat)
      /\ \/ /\ DOMAIN m = 1..(n + 1)
            /\ \A k \in 1..n : m[k] = ranges[k]
            /\ m[n + 1] = <<first, last>>
         \/ /\ n # 0 /\ DOMAIN m = 1..n
            /\ \A k \in 1..(n - 1) : m[k] = ranges[k]
            /\ m[n] = <<ranges[n][1], last>>
            /\ ranges[n][2] + 1 = first
    BY MergedShape
<1>4. SUFFICES /\ \A k \in DOMAIN m : m[k][1] <= m[k][2] /\ m[k][2] <= last
               /\ \A j, k \in DOMAIN m : j < k => m[j][2] < m[k][1]
               /\ \A point \in Nat :
                     (\E k \in DOMAIN m : Spans(m[k], point)) <=>
                     \/ \E k \in DOMAIN ranges : Spans(ranges[k], point)
                     \/ first <= point /\ point <= last
    BY <1>3 DEF Ascends
<1> HIDE DEF m, n, first, last
<1>5. CASE /\ DOMAIN m = 1..(n + 1)
           /\ \A k \in 1..n : m[k] = ranges[k]
           /\ m[n + 1] = <<first, last>>
  <2>1. m[n + 1][1] = first /\ m[n + 1][2] = last
      BY <1>5
  <2>2. \A k \in DOMAIN m : k \in 1..n \/ k = n + 1
      BY <1>1, <1>5
  <2>3. ASSUME NEW k \in DOMAIN m
        PROVE  m[k][1] <= m[k][2] /\ m[k][2] <= last
    <3>1. CASE k \in 1..n
      <4>1. /\ m[k] = ranges[k]
            /\ ranges[k][1] \in Nat /\ ranges[k][2] \in Nat
            /\ ranges[k][1] <= ranges[k][2] /\ ranges[k][2] < first
          BY <1>1, <1>5, <3>1
      <4> QED
          BY <1>2, <4>1
    <3>2. CASE k = n + 1
        BY <1>2, <2>1, <3>2
    <3> QED
        BY <2>2, <3>1, <3>2
  <2>4. ASSUME NEW j \in DOMAIN m, NEW k \in DOMAIN m, j < k
        PROVE  m[j][2] < m[k][1]
    <3>1. j \in 1..n
        BY <1>1, <1>5, <2>4
    <3>2. m[j][2] = ranges[j][2]
        BY <1>5, <3>1
    <3>3. CASE k \in 1..n
        BY <1>1, <1>5, <2>4, <3>1, <3>2, <3>3
    <3>4. CASE k = n + 1
        BY <1>1, <2>1, <3>1, <3>2, <3>4
    <3> QED
        BY <2>2, <3>3, <3>4
  <2>5. ASSUME NEW point \in Nat
        PROVE  (\E k \in DOMAIN m : Spans(m[k], point)) <=>
               \/ \E k \in DOMAIN ranges : Spans(ranges[k], point)
               \/ first <= point /\ point <= last
    <3>1. Spans(m[n + 1], point) <=> first <= point /\ point <= last
        BY <2>1 DEF Spans
    <3>2. n + 1 \in DOMAIN m /\ \A k \in 1..n : k \in DOMAIN m
        BY <1>1, <1>5
    <3> QED
        BY <1>1, <1>5, <2>2, <3>1, <3>2
  <2> QED
      BY <2>3, <2>4, <2>5
<1>6. CASE /\ n # 0 /\ DOMAIN m = 1..n
           /\ \A k \in 1..(n - 1) : m[k] = ranges[k]
           /\ m[n] = <<ranges[n][1], last>>
           /\ ranges[n][2] + 1 = first
  <2>1. m[n][1] = ranges[n][1] /\ m[n][2] = last
      BY <1>6
  <2>2. /\ \A k \in DOMAIN m : k \in 1..(n - 1) \/ k = n
        /\ n \in 1..n /\ \A k \in 1..(n - 1) : k \in 1..n
      BY <1>1, <1>6
  <2>3. ASSUME NEW k \in DOMAIN m
        PROVE  m[k][1] <= m[k][2] /\ m[k][2] <= last
    <3>1. CASE k \in 1..(n - 1)
      <4>1. /\ m[k] = ranges[k] /\ k \in 1..n
            /\ ranges[k][1] \in Nat /\ ranges[k][2] \in Nat
            /\ ranges[k][1] <= ranges[k][2] /\ ranges[k][2] < first
          BY <1>1, <1>6, <2>2, <3>1
      <4> QED
          BY <1>2, <4>1
    <3>2. CASE k = n
      <4>1. ranges[n][1] \in Nat /\ ranges[n][1] < first
        <5>1. /\ ranges[n][1] \in Nat /\ ranges[n][2] \in Nat
              /\ ranges[n][1] <= ranges[n][2] /\ ranges[n][2] < first
            BY <1>1, <2>2
        <5> QED
            BY <1>2, <5>1
      <4> QED
          BY <1>2, <2>1, <3>2, <4>1
    <3> QED
        BY <2>2, <3>1, <3>2
  <2>4. ASSUME NEW j \in DOMAIN m, NEW k \in DOMAIN m, j < k
        PROVE  m[j][2] < m[k][1]
    <3>1. j \in 1..(n - 1) /\ j \in 1..n /\ k \in 1..n
        BY <1>1, <1>6, <2>4
    <3>2. m[j][2] = ranges[j][2]
        BY <1>6, <3>1
    <3>3. m[k][1] = ranges[k][1]
        BY <1>6, <2>1, <2>2
    <3> QED
        BY <1>1, <2>4, <3>1, <3>2, <3>3
  <2>5. ASSUME NEW point \in Nat
        PROVE  (\E k \in DOMAIN m : Spans(m[k], point)) <=>
               \/ \E k \in DOMAIN ranges : Spans(ranges[k], point)
               \/ first <= point /\ point <= last
    <3>1. Spans(m[n], point) <=>
              Spans(ranges[n], point) \/ (first <= point /\ point <= last)
      <4>1. /\ ranges[n][1] \in Nat /\ ranges[n][2] \in Nat
            /\ ranges[n][1] <= ranges[n][2]
          BY <1>1, <2>2
      <4> QED
        <5>1. ranges[n][2] + 1 = first
            BY <1>6
        <5> QED
            BY <1>2, <2>1, <4>1, <5>1 DEF Spans
    <3>2. \A k \in 1..(n - 1) : Spans(m[k], point) <=> Spans(ranges[k], point)
        BY <1>6
    <3>3. \A k \in 1..n : k \in 1..(n - 1) \/ k = n
        BY <1>6, <2>2
    <3> HIDE DEF Spans
    <3> QED
        BY <1>1, <1>6, <2>2, <3>1, <3>2, <3>3
  <2> QED
      BY <2>3, <2>4, <2>5
<1> QED
    BY <1>3, <1>5, <1>6

\* What the shapes say of the lines in order.
LEMMA LinesInOrder ==
    ASSUME UnicodeShapes
    PROVE  /\ Len(order) \in Nat /\ DOMAIN order = 1..Len(order)
           /\ \A i \in DOMAIN data : /\ data[i] \in DataLine
                                     /\ data[i].first \in Nat
                                     /\ data[i].last \in Nat
           /\ \A k \in DOMAIN order : /\ order[k] \in DOMAIN data
                                      /\ Ordered(k).first \in Nat
                                      /\ Ordered(k).last \in Nat
           /\ taken \in Nat /\ taken <= Len(order)
           /\ Expected \in Nat
<1>1. /\ Len(order) \in Nat /\ DOMAIN order = 1..Len(order)
      /\ taken \in Nat /\ taken <= Len(order)
      /\ order = <<>> <=> Len(order) = 0
    BY DEF UnicodeShapes
<1>2. \A i \in DOMAIN data : data[i] \in DataLine
    BY DEF UnicodeShapes
<1>3. \A i \in DOMAIN data : data[i].first \in Nat /\ data[i].last \in Nat
    BY <1>2, UnicodeAssumption
<1>4. \A k \in DOMAIN order : order[k] \in DOMAIN data
    BY DEF UnicodeShapes
<1>5. \A k \in DOMAIN order : Ordered(k).first \in Nat /\ Ordered(k).last \in Nat
    BY <1>3, <1>4 DEF Ordered
<1>6. Expected \in Nat
  <2>1. CASE order = <<>>
      BY <2>1 DEF Expected
  <2>2. CASE order # <<>>
    <3>1. Len(order) \in DOMAIN order
        BY <1>1, <2>2
    <3> QED
        BY <1>5, <2>2, <3>1 DEF Expected
  <2> QED
      BY <2>1, <2>2
<1> QED
    BY <1>1, <1>2, <1>3, <1>4, <1>5, <1>6

\* A step that only moves the build on.
LEMMA TableStands ==
    ASSUME UnicodeInv, UNCHANGED <<data, order, taken, table>>,
           build' = "parsing" => build = "parsing",
           build' \in {"parsing", "verifying"} =>
               build \in {"parsing", "verifying"},
           build' \in {"selecting", "built"} =>
               Range(order) = DOMAIN data /\ Expected = LastPoint + 1,
           build' = "built" => taken = Len(order)
    PROVE  UnicodeInv'
<1>1. \A k : Ordered(k)' = Ordered(k)
    BY DEF Ordered
<1>2. Expected' = Expected
    BY <1>1 DEF Expected
<1>3. UnicodeShapes'
    BY DEF UnicodeInv, UnicodeShapes
<1>4. \A k, point : Lies(k, point)' = Lies(k, point)
    BY <1>1 DEF Lies
<1>5. Partitioned' /\ Selects'
  <2>1. Partitioned /\ Selects
      BY DEF UnicodeInv
  <2> QED
      BY <1>1, <1>2, <1>4, <2>1 DEF Partitioned, Selects, Ascends, Spans
<1> QED
    BY <1>2, <1>3, <1>5 DEF UnicodeInv

LEMMA ParseLineKeeps ==
    ASSUME UnicodeInv, NEW line \in DataLine, ParseLine(line)
    PROVE  UnicodeInv'
<1>1. /\ order = <<>> /\ order' = <<>> /\ taken = 0 /\ taken' = 0
      /\ table = <<>> /\ table' = <<>>
      /\ build = "parsing" /\ build' = "parsing"
      /\ data' = Append(data, line)
    BY DEF ParseLine, UnicodeInv
<1>2. UnicodeShapes'
  <2>1. data' \in Seq(DataLine)
      BY <1>1 DEF UnicodeInv, UnicodeShapes
  <2> QED
      BY <1>1, <2>1 DEF UnicodeShapes
<1>3. Partitioned'
    BY <1>1 DEF Partitioned, Expected
<1>4. Selects'
    BY <1>1 DEF Selects, Ascends
<1> QED
    BY <1>1, <1>2, <1>3, <1>4 DEF UnicodeInv

LEMMA VerifyRangeKeeps ==
    ASSUME UnicodeInv, NEW i \in DOMAIN data, VerifyRange(i)
    PROVE  UnicodeInv'
<1>1. CASE ~(data[i].first = Expected /\ data[i].first <= data[i].last)
    BY <1>1, TableStands DEF VerifyRange
<1>2. CASE data[i].first = Expected /\ data[i].first <= data[i].last
  <2>9. PICK n \in Nat : n = Len(order)
      BY LinesInOrder DEF UnicodeInv
  <2>1. /\ order' = Append(order, i) /\ UNCHANGED <<data, taken, table, build>>
        /\ build = "verifying" /\ taken = 0 /\ table = <<>>
      BY <1>2 DEF VerifyRange, UnicodeInv
  <2>2. UnicodeShapes /\ Partitioned
      BY DEF UnicodeInv
  <2>3. /\ n \in Nat /\ DOMAIN order = 1..n /\ DOMAIN order' = 1..(n + 1)
        /\ \A k \in 1..n : Ordered(k)' = Ordered(k)
        /\ Ordered(n + 1)' = data[i]
        /\ order' # <<>> /\ Len(order') = n + 1
        /\ order' \in Seq(DOMAIN data)
    <3>1. /\ order' \in Seq(DOMAIN data) /\ Len(order') = n + 1
          /\ order'[n + 1] = i /\ \A k \in 1..n : order'[k] = order[k]
          /\ DOMAIN order = 1..n
        BY <2>1, <2>2, <2>9 DEF UnicodeShapes
    <3>2. DOMAIN order' = 1..(n + 1) /\ order' # <<>>
        BY <3>1
    <3> QED
        BY <2>1, <3>1, <3>2 DEF Ordered
  <2>4. Expected' = data[i].last + 1
      BY <2>1, <2>3 DEF Expected, Ordered
  <2>5. UnicodeShapes'
      BY <2>1, <2>2, <2>3 DEF UnicodeShapes
  <2>6. /\ data[i].first \in Nat /\ data[i].last \in Nat /\ Expected \in Nat
        /\ \A k \in 1..n : /\ Ordered(k).first \in Nat /\ Ordered(k).last \in Nat
                           /\ Ordered(k).first <= Ordered(k).last
                           /\ Ordered(k).last < Expected
      BY <2>2, <2>3, LinesInOrder DEF Partitioned
  <2>7. Partitioned'
    <3>1. ASSUME NEW k \in DOMAIN order'
          PROVE  Ordered(k)'.first <= Ordered(k)'.last
                 /\ Ordered(k)'.last < Expected'
      <4>1. CASE k \in 1..n
          BY <1>2, <2>3, <2>4, <2>6, <4>1
      <4>2. CASE k = n + 1
          BY <1>2, <2>3, <2>4, <2>6, <4>2
      <4> QED
          BY <2>3, <4>1, <4>2
    <3>2. ASSUME NEW j \in DOMAIN order', NEW k \in DOMAIN order', j < k
          PROVE  Ordered(j)'.last < Ordered(k)'.first
      <4>1. j \in 1..n
          BY <2>3, <3>2
      <4>2. CASE k \in 1..n
          BY <2>2, <2>3, <3>2, <4>1, <4>2 DEF Partitioned
      <4>3. CASE k = n + 1
          BY <1>2, <2>3, <2>6, <4>1, <4>3
      <4> QED
          BY <2>3, <4>2, <4>3
    <3>3. ASSUME NEW point \in Nat, point < Expected'
          PROVE  \E k \in DOMAIN order' : Lies(k, point)'
      <4>1. CASE point < Expected
        <5>1. PICK k \in DOMAIN order : Lies(k, point)
            BY <2>2, <4>1 DEF Partitioned
        <5>2. k \in 1..n /\ k \in DOMAIN order'
            BY <2>3, <5>1
        <5> QED
            BY <2>3, <5>1, <5>2 DEF Lies
      <4>2. CASE ~(point < Expected)
        <5>1. data[i].first <= point /\ point <= data[i].last
            BY <1>2, <2>4, <2>6, <3>3, <4>2
        <5>2. n + 1 \in DOMAIN order' /\ Lies(n + 1, point)'
            BY <2>3, <5>1 DEF Lies
        <5> QED
            BY <5>2
      <4> QED
          BY <4>1, <4>2
    <3> QED
        BY <3>1, <3>2, <3>3 DEF Partitioned
  <2>8. Selects'
      BY <2>1 DEF Selects, Ascends
  <2> QED
      BY <2>1, <2>5, <2>7, <2>8 DEF UnicodeInv
<1> QED
    BY <1>1, <1>2

LEMMA SelectRangeKeeps ==
    ASSUME UnicodeInv, SelectRange
    PROVE  UnicodeInv'
<1>13. PICK next \in Nat : next = taken + 1
    BY LinesInOrder DEF UnicodeInv
<1> DEFINE range == Ordered(next)
<1>1. /\ UNCHANGED <<data, order, build>> /\ taken' = next
      /\ taken < Len(order) /\ build = "selecting"
      /\ table' = IF range.category \in Selected
                  THEN Merged(table, range) ELSE table
    BY <1>13 DEF SelectRange, Ordered
<1>2. /\ UnicodeShapes /\ Partitioned /\ Selects
      /\ Range(order) = DOMAIN data /\ Expected = LastPoint + 1
    BY <1>1 DEF UnicodeInv
<1>3. \A k : Ordered(k)' = Ordered(k)
    BY <1>1 DEF Ordered
<1>4. Expected' = Expected /\ \A k, point : Lies(k, point)' = Lies(k, point)
    BY <1>1, <1>3 DEF Expected, Lies
<1>5. /\ taken \in Nat /\ Len(order) \in Nat /\ next \in 1..Len(order)
      /\ next \in DOMAIN order /\ next \in Nat
      /\ 1..next = (1..taken) \cup {next}
      /\ range.first \in Nat /\ range.last \in Nat
      /\ range.first <= range.last
    BY <1>1, <1>2, <1>13, LinesInOrder DEF Partitioned
<1>6. \A k \in DOMAIN table : table[k][2] < range.first
    BY <1>2, <1>5, <1>13 DEF Selects
<1>7. table \in Seq(Nat \X Nat) /\ Ascends(table)
    BY <1>2 DEF UnicodeShapes, Selects
<1>8. Partitioned'
    BY <1>1, <1>2, <1>3, <1>4 DEF Partitioned
<1>9. ASSUME table' \in Seq(Nat \X Nat), Ascends(table'),
             \A k \in DOMAIN table', j \in DOMAIN order :
                 next < j => table'[k][2] < Ordered(j).first,
             \A point \in Nat :
                 (\E k \in DOMAIN table' : Spans(table'[k], point)) <=>
                 \/ \E k \in DOMAIN table : Spans(table[k], point)
                 \/ Lies(next, point) /\ range.category \in Selected
      PROVE  UnicodeInv'
  <2>1. UnicodeShapes'
      BY <1>1, <1>2, <1>5, <1>9 DEF UnicodeShapes
  <2>2. Selects'
    <3>1. ASSUME NEW point \in Nat
          PROVE  (\E k \in DOMAIN table' : Spans(table'[k], point)) <=>
                 (\E k \in 1..next : /\ Lies(k, point)
                                     /\ Ordered(k).category \in Selected)
      <4>1. (\E k \in DOMAIN table : Spans(table[k], point)) <=>
            (\E k \in 1..taken : /\ Lies(k, point)
                                 /\ Ordered(k).category \in Selected)
          BY <1>2 DEF Selects
      <4> QED
          BY <1>5, <1>9, <4>1
    <3>2. Ascends(table)'
        BY <1>9 DEF Ascends
    <3>3. \A point \in Nat : \A k \in DOMAIN table' :
              Spans(table[k], point)' = Spans(table'[k], point)
        BY DEF Spans
    <3> QED
        BY <1>1, <1>3, <1>4, <1>9, <3>1, <3>2, <3>3 DEF Selects, Spans
  <2> QED
      BY <1>1, <1>2, <1>4, <1>8, <2>1, <2>2 DEF UnicodeInv
<1>10. \A j \in DOMAIN order : next < j =>
           /\ range.last < Ordered(j).first /\ Ordered(j).first \in Nat
           /\ taken < j
  <2>1. \A j \in DOMAIN order : j \in Nat /\ Ordered(j).first \in Nat
      BY <1>2, LinesInOrder
  <2> QED
      BY <1>2, <1>5, <2>1 DEF Partitioned
<1>11. CASE range.category \in Selected
  <2> DEFINE merged == Merged(table, range)
  <2>1. table' = merged
      BY <1>1, <1>11
  <2>2. /\ merged \in Seq(Nat \X Nat) /\ Ascends(merged)
        /\ \A k \in DOMAIN merged : merged[k][2] <= range.last
        /\ \A point \in Nat :
               (\E k \in DOMAIN merged : Spans(merged[k], point)) <=>
               \/ \E k \in DOMAIN table : Spans(table[k], point)
               \/ range.first <= point /\ point <= range.last
      BY <1>5, <1>6, <1>7, MergedAscends
  <2> HIDE DEF merged
  <2>3. \A k \in DOMAIN merged : merged[k][2] \in Nat
      BY <2>2
  <2>4. ASSUME NEW k \in DOMAIN merged, NEW j \in DOMAIN order, next < j
        PROVE  merged[k][2] < Ordered(j).first
    <3>1. /\ merged[k][2] \in Nat /\ merged[k][2] <= range.last
          /\ range.last \in Nat
        BY <1>5, <2>2, <2>3
    <3>2. range.last < Ordered(j).first /\ Ordered(j).first \in Nat
        BY <1>10, <2>4
    <3> HIDE DEF range
    <3> QED
        BY <3>1, <3>2
  <2>5. \A point : Lies(next, point) <=>
                       range.first <= point /\ point <= range.last
      BY DEF Lies
  <2> HIDE DEF range
  <2> QED
      BY <1>9, <1>11, <2>1, <2>2, <2>4, <2>5
<1>12. CASE range.category \notin Selected
  <2>1. table' = table
      BY <1>1, <1>12
  <2>2. ASSUME NEW k \in DOMAIN table, NEW j \in DOMAIN order, next < j
        PROVE  table[k][2] < Ordered(j).first
      BY <1>2, <1>10, <2>2 DEF Selects
  <2> HIDE DEF range
  <2> QED
      BY <1>7, <1>9, <1>12, <2>1, <2>2
<1> QED
    BY <1>11, <1>12

LEMMA UnicodeStep == UnicodeInv /\ [UnicodeNext]_unicodeVars => UnicodeInv'
<1> SUFFICES ASSUME UnicodeInv, [UnicodeNext]_unicodeVars
             PROVE  UnicodeInv'
    OBVIOUS
<1>1. ASSUME NEW line \in DataLine, RefuseData(line)
      PROVE  UnicodeInv'
    BY <1>1, TableStands DEF RefuseData
<1>2. CASE SortData
    BY <1>2, TableStands DEF SortData
<1>3. CASE PartitionEnds
    BY <1>3, TableStands DEF PartitionEnds
<1>4. CASE FinishTable
    BY <1>4, TableStands DEF FinishTable, UnicodeInv
<1>5. CASE UNCHANGED unicodeVars
    BY <1>5, TableStands DEF unicodeVars, UnicodeInv
<1>6. ASSUME NEW i \in Least, VerifyRange(i)
      PROVE  UnicodeInv'
    BY <1>6, VerifyRangeKeeps DEF Least
<1> QED
    BY <1>1, <1>2, <1>3, <1>4, <1>5, <1>6, ParseLineKeeps, SelectRangeKeeps
    DEF UnicodeNext

LEMMA UnicodeInit == UnicodeStart => UnicodeInv
    BY DEF UnicodeStart, UnicodeInv, UnicodeShapes, Partitioned, Selects,
           Ascends, Expected

(***************************************************************************)
(* A table that is built answers for every code point what the one line of *)
(* the data file says that covers it: for lines of any number, in any      *)
(* order, with any categories.                                             *)
(***************************************************************************)
THEOREM TableAnswersForTheFile == UnicodeSpec => []TableIsTheDataFile
<1>1. UnicodeInv => TableIsTheDataFile
  <2> SUFFICES ASSUME UnicodeInv, build = "built", NEW point \in 0..LastPoint
               PROVE  \E i \in DOMAIN data :
                          /\ Covering(point) = {i}
                          /\ Member(table, point) <=>
                                 data[i].category \in Selected
      BY DEF TableIsTheDataFile
  <2>1. /\ UnicodeShapes /\ Partitioned /\ Selects
        /\ Range(order) = DOMAIN data /\ Expected = LastPoint + 1
        /\ taken = Len(order)
      BY DEF UnicodeInv
  <2>2. point \in Nat /\ point < Expected
      BY <2>1, UnicodeAssumption
  <2>3. PICK k \in DOMAIN order : Lies(k, point)
      BY <2>1, <2>2 DEF Partitioned
  <2>4. \A j \in DOMAIN order : Lies(j, point) => j = k
    <3>1. \A j \in DOMAIN order : /\ j \in Nat /\ Ordered(j).first \in Nat
                                  /\ Ordered(j).last \in Nat
        BY <2>1, LinesInOrder
    <3>2. ASSUME NEW j \in DOMAIN order, Lies(j, point)
          PROVE  ~(j < k) /\ ~(k < j)
        BY <2>1, <2>2, <2>3, <3>1, <3>2 DEF Partitioned, Lies
    <3> QED
        BY <3>1, <3>2
  <2>5. order[k] \in DOMAIN data /\ Covering(point) = {order[k]}
    <3>1. \A i \in DOMAIN data : \E j \in DOMAIN order : order[j] = i
        BY <2>1 DEF Range
    <3>2. \A j \in DOMAIN order : order[j] \in DOMAIN data
        BY <2>1, LinesInOrder
    <3> QED
        BY <2>3, <2>4, <3>1, <3>2 DEF Covering, Lies, Ordered
  <2>6. Member(table, point) <=> \E j \in DOMAIN table : Spans(table[j], point)
      BY <2>1, <2>2, MemberSearches DEF UnicodeShapes, Selects
  <2>7. Member(table, point) <=> data[order[k]].category \in Selected
    <3>1. DOMAIN order = 1..taken
        BY <2>1, LinesInOrder
    <3> QED
        BY <2>1, <2>2, <2>3, <2>4, <2>6, <3>1 DEF Selects, Ordered
  <2> QED
      BY <2>5, <2>7
<1> QED
    BY <1>1, UnicodeInit, UnicodeStep, PTL DEF UnicodeSpec

=============================================================================
