------------------------------ MODULE Download ------------------------------
(***************************************************************************)
(* download_file (http.cpp): the body goes to a file beside the target,     *)
(* named with .dl, which is renamed when all is well.  Programs download    *)
(* the same target; names lead to files, which stay while they are open.    *)
(***************************************************************************)
EXTENDS Integers, FiniteSets

CONSTANTS Downloaders,    (* programs that download one target               *)
          BodyParts,      (* the parts a body is written in                  *)
          Downloads       (* Downloads[d], bound: the calls d makes          *)

ASSUME DownloadAssumption ==
  /\ IsFiniteSet(Downloaders)
  /\ BodyParts \in Nat \ {0} /\ Downloads \in [Downloaders -> Nat]

VARIABLES named,          (* [dl, target: the file of that name, or 0]       *)
          holds,          (* holds[f]: the parts that are in file f          *)
          got,            (* got[d]: [at, file, part: where d is in its call] *)
          downloadsLeft,
          downloadMishaps (* what the calls do not guard against             *)

downloadVars == <<named, holds, got, downloadsLeft, downloadMishaps>>

Body == 1..BodyParts
Away == [at |-> "out", file |-> 0, part |-> 0]
AllFiles == 1..(Cardinality(Downloaders) + 1)    \* a file nobody has or names is used again

DownloadInit ==
  /\ named = [dl |-> 0, target |-> 0]
  /\ holds = [f \in AllFiles |-> {}]
  /\ got = [d \in Downloaders |-> Away]
  /\ downloadsLeft = Downloads
  /\ downloadMishaps = {}

Unused(f) == f \notin {named.dl, named.target} /\ \A d \in Downloaders : got[d].file # f
IsAt(d, s) == got[d].at = s
Calling == {d \in Downloaders : got[d].at \notin {"out", "returned", "threw"}}

(* fopen(..., "wb"): the file is made, or cut to nothing when it is there.  *)
OpenDl(d) ==
  /\ d \notin Calling /\ downloadsLeft[d] > 0
  /\ \E f \in IF named.dl # 0 THEN {named.dl} ELSE {CHOOSE f \in AllFiles : Unused(f)} :
       /\ named' = [named EXCEPT !.dl = f]
       /\ holds' = [holds EXCEPT ![f] = {}]
       /\ got' = [got EXCEPT ![d] = [at |-> "body", file |-> f, part |-> 1]]
  /\ downloadsLeft' = [downloadsLeft EXCEPT ![d] = @ - 1]
  /\ downloadMishaps' = downloadMishaps \union {"together" : e \in Calling}

(* curl writes the parts in order, each behind the one before it.           *)
Receive(d) ==
  /\ IsAt(d, "body") /\ got[d].part <= BodyParts
  /\ holds' = [holds EXCEPT ![got[d].file] = @ \union {got[d].part}]
  /\ got' = [got EXCEPT ![d].part = @ + 1]
  /\ UNCHANGED <<named, downloadsLeft, downloadMishaps>>

(* close writes what is still buffered: an error is printed, no more.       *)
CloseDl(d) ==
  /\ IsAt(d, "body") /\ got[d].part > BodyParts
  /\ got' = [got EXCEPT ![d].at = "received"]
  /\ \/ UNCHANGED <<holds, downloadMishaps>>
     \/ /\ holds' = [holds EXCEPT ![got[d].file] = @ \ {BodyParts}]
        /\ downloadMishaps' = downloadMishaps \union {"full"}
  /\ UNCHANGED <<named, downloadsLeft>>

(* A variant that is wrong: an error is not looked at.                      *)
ReceiveEnds(d) ==
  /\ IsAt(d, "body")
  /\ got' = [got EXCEPT ![d].at = "received"]
  /\ UNCHANGED <<named, holds, downloadsLeft, downloadMishaps>>

(* An error of curl, or a code that is not 2xx.                             *)
ReceiveFails(d) ==
  /\ IsAt(d, "body")
  /\ got' = [got EXCEPT ![d].at = "failed"]
  /\ UNCHANGED <<named, holds, downloadsLeft, downloadMishaps>>

OnError(d) ==
  /\ IsAt(d, "failed")
  /\ named' = [named EXCEPT !.dl = 0]
  /\ got' = [got EXCEPT ![d] = [Away EXCEPT !.at = "threw"]]
  /\ UNCHANGED <<holds, downloadsLeft, downloadMishaps>>

(* rename throws when another has renamed or removed the file.              *)
Rename(d) ==
  /\ IsAt(d, "received")
  /\ IF named.dl # 0
     THEN /\ named' = [dl |-> 0, target |-> named.dl]
          /\ got' = [got EXCEPT ![d] = [Away EXCEPT !.at = "returned"]]
     ELSE /\ got' = [got EXCEPT ![d] = [Away EXCEPT !.at = "threw"]]
          /\ UNCHANGED named
  /\ UNCHANGED <<holds, downloadsLeft, downloadMishaps>>

EndDownloader(d) ==
  /\ d \in Calling
  /\ got' = [got EXCEPT ![d] = Away]
  /\ UNCHANGED <<named, holds, downloadsLeft, downloadMishaps>>

DownloadNext ==
  \E d \in Downloaders :
    \/ OpenDl(d) \/ Receive(d) \/ CloseDl(d) \/ ReceiveFails(d)
    \/ OnError(d) \/ Rename(d) \/ EndDownloader(d)

-----------------------------------------------------------------------------
DownloadTypeOK ==
  /\ named \in [dl : AllFiles \union {0}, target : AllFiles \union {0}]
  /\ holds \in [AllFiles -> SUBSET Body]
  /\ \A d \in Downloaders :
       got[d].at \in {"out", "body", "received", "failed", "returned", "threw"}
  /\ downloadMishaps \subseteq {"together", "full"}

(* The target is whole or not there, whatever failed or ended in the        *)
(* middle: what an earlier program left in the .dl file never gets into it. *)
(* Who returned has left it there.  But not when two programs downloaded it *)
(* together, or the last of it could not be written (http.cpp:276-313).     *)
TargetWhole ==
  downloadMishaps = {} =>
    /\ named.target # 0 => holds[named.target] = Body
    /\ \A d \in Downloaders : IsAt(d, "returned") => named.target # 0
    /\ \A d \in Downloaders : IsAt(d, "failed") => named.dl = got[d].file
=============================================================================
