---------------------------- MODULE MCDocuments ----------------------------
(***************************************************************************)
(* What one writes, another reads, and has to agree with something else:   *)
(* the documents of the server and its commands (Documents), and the       *)
(* manifest of a release (Release).  The two share nothing, so a behaviour *)
(* is one of one of them, the other staying as it began.                   *)
(*                                                                         *)
(* Any two jobs on the documents, and any number of looks into the vault   *)
(* by the server.  Two attempts of the workflows, of one run or of two, on *)
(* commits and tags of two versions, two commits of each version, and a    *)
(* tag of which no version can be read.  Commits and versions are alike to *)
(* the workflows, so that the first run may as well be of a1 and v1.       *)
(***************************************************************************)
EXTENDS Documents, Release

CONSTANTS a1, v1

VARIABLE machine

mcVars == <<machine, documentVars, releaseVars>>

FirstRunIsOfA1 == run[1].attempt # 0 => run[1].sha = [id |-> a1, version |-> v1]

MCInit ==
    /\ machine \in {"documents", "release"}
    /\ DocumentsInit /\ (machine = "release" => \A f \in DOMAIN disk : disk[f] = Absent)
    /\ ReleaseInit

MCNext ==
    /\ UNCHANGED machine
    /\ \/ machine = "documents" /\ DocumentsNext /\ UNCHANGED releaseVars
       \/ machine = "release"   /\ ReleaseNext   /\ UNCHANGED documentVars /\ FirstRunIsOfA1'

MCSpec == MCInit /\ [][MCNext]_mcVars
=============================================================================
