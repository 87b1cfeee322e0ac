--------------------------- MODULE SourceDownload ---------------------------
(***************************************************************************)
(* Source::download (source.cpp): the sources of a description are brought  *)
(* into a directory.  A Git tries the archive of its tag when the site is   *)
(* github.com, then git itself, three times; and all that again with v      *)
(* before the tag, when that is asked for.  The other systems clone and     *)
(* update, three times too; RemoteFile unpacks an archive, RemoteFiles gets *)
(* its files.  The network and the commands may fail at every step.  Git    *)
(* does not add a remote twice, and hg, bzr and fossil do not clone to      *)
(* where there is a clone; those of hg, bzr, cvs and svn are in a directory *)
(* of their own beneath, which only cvs updates from above.                 *)
(***************************************************************************)
EXTENDS Integers

CONSTANT Tries            (* n_tries of downloadRepository                   *)

ASSUME SourceDownloadAssumption == Tries \in Nat \ {0}

VARIABLES source,         (* [kind, url: is it good, github, tryV,           *)
                          (*  named: is a version, tags: the tags there are, *)
                          (*  urls: how many remote files]                   *)
          getting,        (* the step, and how it ended                      *)
          tag,            (* the tag tried: "plain" or "v"                   *)
          triesLeft,
          sourceDir,      (* what is there: see EmptyDir                     *)
          error,          (* the step of the exception kept by the tries     *)
          failedAfter     (* ghost: a try failed when there was a remote or  *)
                          (* a clone                                         *)

sourceVars == <<source, getting, tag, triesLeft, sourceDir, error, failedAfter>>

OneClone == {"hg", "bzr", "fossil"}
Systems == OneClone \union {"cvs", "svn"}

(* files: a version, or some; archive, remote, clone: is there one; fetched *)
(* from the remote; got: how many of the remote files.                      *)
EmptyDir == [files |-> "none", archive |-> FALSE, remote |-> FALSE, fetched |-> "none",
             clone |-> FALSE, got |-> 0]

SourceInit ==
  /\ source \in [kind : Systems \union {"git", "remote", "files"}, github : BOOLEAN, tryV : BOOLEAN,
                 named : BOOLEAN, tags : SUBSET {"plain", "v"}, urls : 0..2, url : BOOLEAN]
  /\ source.kind # "git" => ~source.github /\ ~source.tryV
  /\ source.kind \in {"remote", "files"} => source.named
  /\ IF source.kind = "files" THEN source.tags = {} /\ (source.urls = 0 => source.url)
                              ELSE source.urls = 1
  /\ getting = "check"
  /\ tag = "plain"
  /\ triesLeft = Tries
  /\ sourceDir = EmptyDir
  /\ error = "none"
  /\ failedAfter = FALSE

FirstStep ==
  CASE source.kind = "git" -> IF source.github THEN "archive" ELSE "init"
    [] source.kind = "svn" -> "checkout"
    [] source.kind \in {"hg", "bzr", "fossil", "cvs"} -> "clone"
    [] source.kind = "remote" -> "archive"
    [] source.kind = "files" -> "files"

FirstTry == IF source.kind = "git" THEN "init" ELSE FirstStep
Steps == {"init", "remote", "fetch", "reset", "clone", "open", "update", "checkout"}
TagExists == source.named /\ tag \in source.tags

Stays == UNCHANGED <<source, tag, triesLeft, error, failedAfter>>

(* download: the urls are looked at first, before the directory is made.    *)
CheckUrl ==
  /\ getting = "check"
  /\ getting' = IF source.url THEN FirstStep ELSE "refused"
  /\ Stays /\ UNCHANGED sourceDir

(* download_and_unpack: the archive is removed once there is one, also when *)
(* it cannot be unpacked, which may leave some of its files.                *)
GetArchive ==
  /\ getting = "archive" /\ TagExists
  /\ sourceDir' = [sourceDir EXCEPT !.archive = TRUE]
  /\ getting' = "unpack"
  /\ Stays

WithoutArchive == IF source.kind = "git" THEN "init" ELSE "failed"

Unpack ==
  /\ getting = "unpack"
  /\ \/ /\ sourceDir' = [sourceDir EXCEPT !.files = tag, !.archive = FALSE]
        /\ getting' = "done"
     \/ /\ \E files \in {sourceDir.files, "some"} :
             sourceDir' = [sourceDir EXCEPT !.files = files, !.archive = FALSE]
        /\ getting' = WithoutArchive
  /\ Stays

NoArchive ==
  /\ getting = "archive"
  /\ getting' = WithoutArchive
  /\ Stays /\ UNCHANGED sourceDir

(* RemoteFiles: one after the other, under the last part of the url.        *)
GetFile ==
  /\ getting = "files"
  /\ IF sourceDir.got = source.urls
     THEN getting' = "done" /\ UNCHANGED sourceDir
     ELSE \/ sourceDir' = [sourceDir EXCEPT !.got = @ + 1] /\ UNCHANGED getting
          \/ getting' = "failed" /\ UNCHANGED sourceDir
  /\ Stays

-----------------------------------------------------------------------------
(* One try of a Git: git init, remote add, fetch, reset.  Without a version *)
(* nothing is fetched.                                                      *)

GitInit ==
  /\ getting = "init" /\ getting' = "remote"
  /\ Stays /\ UNCHANGED sourceDir

GitRemote ==
  /\ getting = "remote" /\ ~sourceDir.remote
  /\ sourceDir' = [sourceDir EXCEPT !.remote = TRUE]
  /\ getting' = IF source.named THEN "fetch" ELSE "done"
  /\ Stays

GitFetch ==
  /\ getting = "fetch" /\ TagExists
  /\ sourceDir' = [sourceDir EXCEPT !.fetched = tag]
  /\ getting' = "reset"
  /\ Stays

GitReset ==
  /\ getting = "reset"
  /\ sourceDir' = [sourceDir EXCEPT !.files = sourceDir.fetched]
  /\ getting' = "done"
  /\ Stays

(* One try of another: the clone has the files of some version, a fossil    *)
(* none until it is opened.                                                 *)
AfterClone == IF source.named THEN "update" ELSE "done"

Clone ==
  /\ getting = "clone"
  /\ source.kind \in OneClone => ~sourceDir.clone
  /\ IF source.kind = "fossil"
     THEN /\ sourceDir' = [sourceDir EXCEPT !.clone = TRUE]
          /\ getting' = "open"
     ELSE /\ sourceDir' = [sourceDir EXCEPT !.clone = TRUE, !.files = "default"]
          /\ getting' = AfterClone
  /\ Stays

OpenFossil ==
  /\ getting = "open" /\ sourceDir.files = "none"
  /\ sourceDir' = [sourceDir EXCEPT !.files = "default"]
  /\ getting' = AfterClone
  /\ Stays

UpdateClone ==
  /\ getting = "update" /\ TagExists
  /\ source.kind \in {"fossil", "cvs"}
  /\ sourceDir' = [sourceDir EXCEPT !.files = tag]
  /\ getting' = "done"
  /\ Stays

SvnCheckout ==
  /\ getting = "checkout" /\ (source.named => TagExists)
  /\ sourceDir' = [sourceDir EXCEPT !.files = IF source.named THEN tag ELSE "default"]
  /\ getting' = "done"
  /\ Stays

(* The next try starts over, in the directory as it is, where a clone that  *)
(* failed may have left one; after the last, the first exception is thrown. *)
FirstError == IF error = "none" THEN getting ELSE error
Begun == sourceDir.remote \/ (source.kind \in OneClone /\ sourceDir.clone)

(* A variant that is wrong: nothing is thrown after the last try.           *)
TryFailsQuietly ==
  /\ getting \in Steps
  /\ failedAfter' = (failedAfter \/ Begun)
  /\ triesLeft' = triesLeft - 1
  /\ error' = FirstError
  /\ getting' = IF triesLeft = 1 THEN "done" ELSE FirstTry
  /\ UNCHANGED <<source, tag, sourceDir>>

TryFails ==
  /\ getting \in Steps
  /\ failedAfter' = (failedAfter \/ Begun)
  /\ triesLeft' = triesLeft - 1
  /\ error' = FirstError
  /\ getting' = IF triesLeft = 1 THEN "failed" ELSE FirstTry
  /\ \E left \in IF getting = "clone" THEN BOOLEAN ELSE {FALSE} :
       sourceDir' = [sourceDir EXCEPT !.clone = @ \/ left]
  /\ UNCHANGED <<source, tag>>

(* Git::download1: once more, with v before the tag, if there is one.       *)
TryV ==
  /\ getting = "failed" /\ source.tryV /\ source.named /\ tag = "plain"
  /\ tag' = "v"
  /\ triesLeft' = Tries
  /\ error' = "none"
  /\ getting' = FirstStep
  /\ UNCHANGED <<source, sourceDir, failedAfter>>

SourceNext ==
  \/ CheckUrl \/ GetArchive \/ Unpack \/ NoArchive \/ GetFile
  \/ GitInit \/ GitRemote \/ GitFetch \/ GitReset
  \/ Clone \/ OpenFossil \/ UpdateClone \/ SvnCheckout
  \/ TryFails \/ TryV

-----------------------------------------------------------------------------
SourceTypeOK ==
  /\ getting \in {"check", "refused", "archive", "unpack", "files", "done", "failed"} \union Steps
  /\ triesLeft \in 0..Tries
  /\ sourceDir.files \in {"none", "some", "default", "plain", "v"}

(* A download that returns has left all the files of the version it tried   *)
(* last, and no archive; a Mercurial or Bazaar source with a version never  *)
(* returns, as it is updated in a directory that is no clone.  A source     *)
(* that formatting has left without a version is that of a new clone, and   *)
(* of Git nothing at all.  Once a remote has been added, or a clone made, a *)
(* try that fails is final, as the others fail there, and so do those with  *)
(* v, so that only an archive can still succeed; svn and cvs go on.  Remote *)
(* files are all there.  Nothing is put in the directory for a bad url      *)
(* (source.cpp:85-117, 202-212, 382-462, 533-548, 602-613, 650-664,         *)
(* 706-719, 796-809, 851-882).                                              *)
SourceRight ==
  /\ getting = "done" =>
       /\ source.kind = "files" => sourceDir.got = source.urls
       /\ source.kind # "files" /\ source.named =>
            sourceDir.files = tag /\ tag \in source.tags /\ source.kind \notin {"hg", "bzr"}
       /\ ~source.named => sourceDir.files = IF source.kind = "git" THEN "none" ELSE "default"
  /\ getting \in {"done", "failed"} => ~sourceDir.archive
  /\ failedAfter => getting \notin {"fetch", "reset", "open", "update"}
  /\ getting = "done" /\ failedAfter => source.github /\ source.tryV /\ tag = "v"
  /\ getting = "failed" /\ failedAfter /\ tag = "v" => error # "none"
  /\ ~source.url => getting \in {"check", "refused"} /\ sourceDir = EmptyDir
=============================================================================
