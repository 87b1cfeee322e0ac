------------------------- MODULE SourceDescription -------------------------
(***************************************************************************)
(* A description of sources (source.cpp, source.h): where they are and      *)
(* which version of them is meant.  It is made, formatted, printed, saved   *)
(* in a document, under the name of its kind and over what is there, and    *)
(* loaded again.  Two documents, of JSON and of YAML.                       *)
(***************************************************************************)
EXTENDS Naturals, Sequences, SequencesExt, FiniteSets

CONSTANTS Kinds,          (* of source.inl                                   *)
          SourceCalls,    (* a bound on the calls after the first            *)
          Originals,      (* the descriptions made first                     *)
          Resaved         (* those made later                                *)

VARIABLES described,      (* the object                                      *)
          documents,      (* what is in either, by kind                      *)
          loaded,         (* the last load: [from, got, past: savedIn then]  *)
          savedIn,        (* ghost: all that was saved in either, in order   *)
          callsLeft

descriptionVars == <<described, documents, loaded, savedIn, callsLeft>>

FieldNames == {"url", "tag", "branch", "commit", "revision", "module"}
Formats == {"json", "yaml"}

(* A text, one that is yet to be formatted, none (for a revision -1); and   *)
(* what a number that nobody initialised may be.                            *)
GivenTexts == {"", "1", "{v}"}
Junk == "junk"

-----------------------------------------------------------------------------
(* Of each kind: the fields one of which names the version, in the order    *)
(* in which they are tried; the fields that are saved and printed; and the  *)
(* fields that are formatted.  A Mercurial source is a Git with a revision. *)

GitVersions == <<"tag", "branch", "commit">>
GitSaved == {"url", "tag", "branch", "commit"}
GitFormatted == {"url", "tag", "branch"}

HgVersions == Append(GitVersions, "revision")
HgSaved == GitSaved \union {"revision"}

BzrVersions == <<"tag", "revision">>
BzrSaved == {"url", "tag", "revision"}
BzrFormatted == {"url", "tag"}

CvsVersions == <<"tag", "branch", "revision">>
CvsSaved == {"url", "tag", "branch", "revision", "module"}
CvsFormatted == {"url", "tag", "branch", "revision"}

SvnVersions == <<"tag", "branch", "revision">>
SvnSaved == {"url", "tag", "branch", "revision"}
SvnFormatted == {"url", "tag", "branch"}

UrlSaved == {"url"}

VersionFields(kind) ==
  CASE kind \in {"git", "fossil"} -> GitVersions
    [] kind = "hg" -> HgVersions
    [] kind = "bzr" -> BzrVersions
    [] kind = "cvs" -> CvsVersions
    [] kind = "svn" -> SvnVersions
    [] OTHER -> <<>>

FieldsOf(kind) ==
  CASE kind \in {"git", "fossil"} -> GitSaved
    [] kind = "hg" -> HgSaved
    [] kind = "bzr" -> BzrSaved
    [] kind = "cvs" -> CvsSaved
    [] kind = "svn" -> SvnSaved
    [] kind = "remote" -> UrlSaved
    [] OTHER -> {}

FormattedFields(kind) ==
  CASE kind \in {"git", "fossil", "hg"} -> GitFormatted
    [] kind = "bzr" -> BzrFormatted
    [] kind = "cvs" -> CvsFormatted
    [] kind = "svn" -> SvnFormatted
    [] OTHER -> UrlSaved

NoFields == [f \in FieldNames |-> ""]
Described(kind, has, urls) == [kind |-> kind, has |-> has, urls |-> urls]

NoEntry == [there |-> FALSE, has |-> NoFields, urls |-> {}]
NoSource == Described("refused", NoFields, {})
NotLoaded == [from |-> "nowhere", got |-> NoSource, past |-> <<>>]

(* Every object of a kind, be it one the constructor accepts or not.        *)
Descriptions(kind) ==
  {Described(kind, [f \in FieldNames |-> IF f \in FieldsOf(kind) THEN h[f] ELSE ""], urls) :
     h \in [FieldsOf(kind) -> GivenTexts],
     urls \in IF kind = "files" THEN SUBSET {"1", "{v}"} ELSE {{}}}

(* checkValid, which the constructors end with: exactly one version.        *)
VersionsGiven(s) == SelectSeq(VersionFields(s.kind), LAMBDA f : s.has[f] # "")
Constructible(s) ==
  /\ VersionFields(s.kind) # <<>> => Len(VersionsGiven(s)) = 1
  /\ s.kind = "cvs" => s.has["module"] # ""

-----------------------------------------------------------------------------
(* print and printKv: of the versions the first that is given; a Hg prints  *)
(* what a Git does, and its revision.                                       *)

(* A variant that is wrong: a branch is not printed.                        *)
VersionsPrintedButOne(s) ==
  LET given == VersionsGiven(s)
  IN IF given = <<>> THEN {} ELSE {given[1]} \ {"branch"}

VersionsPrinted(s) ==
  LET given == VersionsGiven(s)
  IN IF given = <<>> THEN {}
     ELSE {given[1]} \union IF s.kind = "hg" THEN ToSet(given) \intersect {"revision"} ELSE {}

PrintedSource(s) ==
  LET fields == VersionsPrinted(s)
                \union {f \in FieldsOf(s.kind) : f = "url" \/ (f = "module" /\ s.has[f] # "")}
  IN [name |-> s.kind, fields |-> {<<f, s.has[f]>> : f \in fields}, urls |-> s.urls]

PrintedPairs(s) ==
  [name |-> s.kind, fields |-> {<<f, s.has[f]>> : f \in {g \in FieldsOf(s.kind) : s.has[g] # ""}},
   urls |-> s.urls \ {""}]

(* apply: a formatter gives the text, which may be empty.                   *)
FormattedText(text, given) == IF text = "{v}" THEN given ELSE text
Formatted(s, given) ==
  [s EXCEPT !.has = [f \in FieldNames |->
                       IF f \in FormattedFields(s.kind) THEN FormattedText(s.has[f], given)
                       ELSE s.has[f]],
            !.urls = {FormattedText(u, given) : u \in s.urls}]

-----------------------------------------------------------------------------
(* save: fields without a value are left as they are in the document; only  *)
(* JSON is given an empty url.  The urls of RemoteFiles are added to those  *)
(* of a JSON document; in YAML they are put under the name of the kind once *)
(* more.  An entry of YAML that nothing is put in is not there.             *)

(* A variant that is wrong: what is there is kept.                          *)
SavedOverNothing(document, format, s) ==
  LET old == document[s.kind]
      new == [there |-> TRUE,
              has |-> [f \in FieldNames |-> IF old.has[f] # "" THEN old.has[f] ELSE s.has[f]],
              urls |-> old.urls \union s.urls]
  IN [document EXCEPT ![s.kind] = new]

SavedOver(document, format, s) ==
  LET old == document[s.kind]
      writes(f) == f \in FieldsOf(s.kind) /\ (s.has[f] # "" \/ (f = "url" /\ format = "json"))
      new == [there |-> TRUE,
              has |-> [f \in FieldNames |-> IF writes(f) THEN s.has[f] ELSE old.has[f]],
              urls |-> old.urls \union s.urls]
      something == new.has # NoFields \/ new.urls # {}
  IN IF format = "yaml" /\ ~something THEN document ELSE [document EXCEPT ![s.kind] = new]

(* load: the only entry, by the constructor of its kind.  A revision that   *)
(* is not there leaves that of a Hg as it was, which is anything; urls are  *)
(* not found in YAML, and their absence is an error in JSON.                *)
LoadedFrom(document, format, junk) ==
  LET present == {k \in Kinds : document[k].there}
      kind == CHOOSE k \in present : TRUE
      entry == document[kind]
      revision == IF kind = "hg" /\ entry.has["revision"] = "" THEN junk ELSE entry.has["revision"]
      s == Described(kind, [entry.has EXCEPT !["revision"] = revision],
                     IF format = "yaml" THEN {} ELSE entry.urls)
  IN IF \/ Cardinality(present) # 1
        \/ kind = "files" /\ format = "json" /\ entry.urls = {}
        \/ ~Constructible(s)
     THEN NoSource ELSE s

-----------------------------------------------------------------------------
DescriptionInit ==
  /\ described \in {s \in Originals : Constructible(s)}
  /\ documents = [f \in Formats |-> [k \in Kinds |-> NoEntry]]
  /\ loaded = NotLoaded
  /\ savedIn = [f \in Formats |-> <<>>]
  /\ callsLeft = SourceCalls

Called == callsLeft > 0 /\ callsLeft' = callsLeft - 1

MakeAnother ==
  /\ Called
  /\ \E s \in Resaved : Constructible(s) /\ s # described /\ described' = s
  /\ UNCHANGED <<documents, loaded, savedIn>>

Apply ==
  /\ Called
  /\ \E given \in {"1", ""} : described' = Formatted(described, given)
  /\ UNCHANGED <<documents, loaded, savedIn>>

SaveIn(format) ==
  /\ Called
  /\ documents' = [documents EXCEPT ![format] = SavedOver(@, format, described)]
  /\ savedIn' = [savedIn EXCEPT ![format] = Append(@, described)]
  /\ UNCHANGED <<described, loaded>>

LoadFrom(format) ==
  /\ Called
  /\ \E junk \in {"", Junk} :
       loaded' = [from |-> format, got |-> LoadedFrom(documents[format], format, junk),
                  past |-> savedIn[format]]
  /\ UNCHANGED <<described, documents, savedIn>>

DescriptionNext ==
  \/ MakeAnother \/ Apply
  \/ \E format \in Formats : SaveIn(format) \/ LoadFrom(format)

-----------------------------------------------------------------------------
DescriptionTypeOK ==
  /\ described.kind \in Kinds /\ described.urls \subseteq GivenTexts
  /\ described.has \in [FieldNames -> GivenTexts]
  /\ callsLeft \in 0..SourceCalls

(* What is loaded from a document is what was saved last in it, or nothing: *)
(* a document with rests of another description is refused, and so is one   *)
(* that formatting has left without a version, except that a Hg may get a   *)
(* revision nobody wrote.  Alone in its document a description is found,    *)
(* but for a Hg without a revision, which is left to chance.  YAML keeps no *)
(* empty description or url, and urls come back from JSON alone             *)
(* (source.cpp:161-169, 219-228, 247-285, 307-315, 514-519, 861-894,        *)
(* source.h:173).                                                           *)
SourceReadBack ==
  loaded.past # <<>> =>
    LET past == loaded.past
        saved == Last(past)
        got == loaded.got
        inYaml == loaded.from = "yaml"
        written == saved.has # NoFields \/ saved.urls # {}
    IN (inYaml => written) =>
         /\ got # NoSource => got.kind = saved.kind
         /\ got # NoSource /\ Constructible(saved) =>
              /\ got.has = saved.has \/ (inYaml /\ saved.has["url"] = "")
              /\ IF inYaml THEN got.urls = {} ELSE saved.urls \subseteq got.urls
         /\ got # NoSource /\ got.has["revision"] = Junk => got.kind = "hg" /\ ~Constructible(saved)
         /\ got = NoSource /\ Len(past) = 1 /\ Constructible(saved) =>
              \/ saved.kind = "hg" /\ saved.has["revision"] = ""
              \/ saved.kind = "files" /\ ~written

(* Two descriptions that name a version print alike only if they are one,   *)
(* so that a hash of what is printed tells them apart (source.cpp:192-200,  *)
(* 484-499, 562-573).                                                       *)
PrintedApart ==
  \A format \in Formats : \A i \in DOMAIN savedIn[format] :
    LET s == savedIn[format][i]
    IN Constructible(s) /\ Constructible(described) =>
         /\ PrintedSource(s) = PrintedSource(described) => s = described
         /\ PrintedPairs(s) = PrintedPairs(described) =>
              s.has = described.has /\ s.urls \ {""} = described.urls \ {""}
=============================================================================
