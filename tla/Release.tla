------------------------------ MODULE Release ------------------------------
(***************************************************************************)
(* The admission of a release (scripts/release_artifacts.py), which every  *)
(* job of the workflows .github/workflows calls on its own clone of the    *)
(* repository and on what it has downloaded.  A run of the workflows tests *)
(* the commit, builds one wheel and one sdist of it, uploads them with a   *)
(* manifest, installs what it downloads again, and, for a tag, publishes   *)
(* what it downloads once more.  Only the digest of the manifest and the   *)
(* id of the artifact go from job to job by another way.                   *)
(*                                                                         *)
(* Runs work side by side, and a run that has ended may be run again: as a *)
(* whole, or from its first failed job on, with the outputs of the jobs    *)
(* that succeeded; both are a new attempt.  Refs move whenever people like *)
(* to move them, a download may bring anything that was ever uploaded or   *)
(* something forged after it, and any job may fail at any time.            *)
(*                                                                         *)
(* Abstraction.  A digest is the value itself.  The wheel and the sdist    *)
(* are one distribution, which is what it was built of and by whom.  All   *)
(* that is compared with a commit are pyproject.toml and __init__.py, and  *)
(* commits of one version are taken to share both.  The                    *)
(* two jobs of a matrix are one; the concurrency groups, on which nothing  *)
(* here relies, are left out, and so is everything that is refused always. *)
(***************************************************************************)
EXTENDS Naturals, FiniteSets

CONSTANTS
    CommitIds,    \* commits, each with the version its pyproject.toml gives
    Versions,     \* normalized versions
    Spellings,    \* how a tag may spell its version
    Marked,       \* the spellings with -rc., -alpha. or -beta.
    Unsupported,  \* the spellings outside of the grammar
    MaxRuns,      \* bound: runs
    MaxAttempts   \* bound: attempts of all runs together

Commits == [id : CommitIds, version : Versions]
Tags    == [version : Versions, spelling : Spellings]
Main    == [version |-> "main", spelling |-> "main"]
Pull    == [version |-> "pull", spelling |-> "pull"]
NoDist  == [commit |-> "none", version |-> "none", by |-> <<0, 0>>]

ASSUME ReleaseAssumption ==
    /\ Marked \subseteq Spellings /\ Unsupported \subseteq Spellings
    /\ MaxRuns \in Nat /\ MaxAttempts \in Nat
    /\ Main \notin Tags /\ Pull \notin Tags

Runs == 1 .. MaxRuns

VARIABLES
    run,        \* what each run is, and how far it has come
    artifacts,  \* what was uploaded, ever
    index,      \* the files of the package indexes
    smoked      \* history: what each attempt has tested, installed and found good

releaseVars == <<run, artifacts, index, smoked>>

-----------------------------------------------------------------------------
(* The pieces of release_artifacts.py.                                     *)

(* normalized_version: the spelling goes, unless it is outside the grammar.*)
NormalizedVersion(tag) == IF tag.spelling \in Unsupported THEN "none" ELSE tag.version

(* release_destination goes by the spelling, as the workflows do.          *)
ReleaseDestination(tag) == IF tag.spelling \in Marked THEN "testpypi" ELSE "pypi"

(* identity, from the environment of the job.                              *)
Identity(r) == [sha |-> run[r].sha, ref |-> run[r].ref, event |-> run[r].event,
                run |-> r, attempt |-> run[r].attempt]

ProjectMetadata(sha) == sha.version

(* verify_source.  The checkout is of the sha of the run; the clone of the *)
(* job says what the ref is by then.  A push may be of an annotated tag,   *)
(* whose object is not the commit, and the payload may name either.        *)
VerifySource(r) ==
    LET s == Identity(r)
        c == run[r].clone
    IN  IF s.event = "push"
          THEN /\ s.ref # Main => NormalizedVersion(s.ref) = ProjectMetadata(s.sha)
               /\ c.commit = s.sha
               /\ run[r].after \in {c, [commit |-> s.sha, annotated |-> FALSE]}
          ELSE s.event = "pull_request" /\ s.ref = Pull

(* check_metadata and distribution_files: the names of the files and their *)
(* metadata have the version of the project, and the sdist has the         *)
(* pyproject.toml and __init__.py of the checkout, which tell commits of   *)
(* two versions apart, and no others.                                      *)
DistributionFiles(dist, sha) ==
    dist.version = ProjectMetadata(sha) /\ dist.commit.version = sha.version

Manifest(r, dist) == [source |-> Identity(r), project |-> ProjectMetadata(run[r].sha),
                      dist |-> dist]

(* Faulty variant: the manifest is taken for the run's by its digest alone.*)
VerifyDigestOnly(r) ==
    LET b == run[r].bundle
        s == Identity(r)
    IN  /\ VerifySource(r)
        /\ b.manifest = run[r].expected
        /\ b.manifest.project = ProjectMetadata(s.sha)
        /\ DistributionFiles(b.dist, s.sha)
        /\ b.manifest.dist = b.dist

(* verify_bundle; the name of the artifact is made of run and attempt.     *)
VerifyBundle(r) ==
    LET b == run[r].bundle
        s == Identity(r)
    IN  /\ VerifySource(r)
        /\ b.manifest = run[r].expected
        /\ b.manifest.source = s
        /\ b.manifest.project = ProjectMetadata(s.sha)
        /\ DistributionFiles(b.dist, s.sha)
        /\ b.manifest.dist = b.dist

(* check_installed: the wheel that pip says it has installed, and from     *)
(* where, its version, and the origin of what can be imported of it.       *)
CheckInstalled(r) ==
    /\ run[r].installed = run[r].bundle.dist
    /\ run[r].installed.version = ProjectMetadata(run[r].sha)

(* publish_check, in the job the workflow has chosen by the tag.           *)
PublishCheck(r, destination) ==
    /\ {"test", "build", "smoke"} \subseteq run[r].passed
    /\ run[r].event = "push" /\ run[r].ref \in Tags
    /\ ReleaseDestination(run[r].ref) = destination
    /\ VerifyBundle(r)

-----------------------------------------------------------------------------
(* The workflows.                                                          *)

NoManifest == [source |-> "none", project |-> "none", dist |-> NoDist]
NoBundle   == [dist |-> NoDist, manifest |-> NoManifest]
NoRun      == [sha |-> "none", ref |-> Pull, event |-> "none", after |-> "none",
               attempt |-> 0, passed |-> {}, at |-> "over", clone |-> "none",
               expected |-> NoManifest, bundle |-> NoBundle, installed |-> NoDist]

ReleaseInit ==
    /\ run = [r \in Runs |-> NoRun]
    /\ artifacts = {} /\ index = {} /\ smoked = {}

(* The job a run is at, and those it needs.                                *)
JobOf(r) ==
    CASE "test"  \notin run[r].passed -> "test"
      [] "test"  \in run[r].passed /\ "build" \notin run[r].passed -> "build"
      [] "build" \in run[r].passed /\ "smoke" \notin run[r].passed -> "smoke"
      [] OTHER -> "publish"

(* The bound on attempts.                                                  *)
MayAttempt == Cardinality({x \in Runs \X (1 .. MaxAttempts) : x[2] <= run[x[1]].attempt})
                < MaxAttempts

(* A push of main or of a tag, or a pull request, starts a run.            *)
Trigger(r) ==
    /\ MayAttempt /\ run[r].attempt = 0 /\ \A q \in Runs : q < r => run[q].attempt # 0
    /\ \E sha \in Commits, ref \in Tags \cup {Main, Pull}, annotated \in BOOLEAN :
         /\ annotated => ref \in Tags
         /\ run' = [run EXCEPT ![r] =
                      [@ EXCEPT !.sha = sha, !.ref = ref, !.attempt = 1, !.at = "queued",
                                !.event = IF ref = Pull THEN "pull_request" ELSE "push",
                                !.after = [commit |-> sha, annotated |-> annotated]]]
    /\ UNCHANGED <<artifacts, index, smoked>>

(* Only what is pushed as a tag is published.                              *)
Checkout(r) ==
    /\ run[r].at = "queued" /\ (JobOf(r) = "publish" => run[r].ref \in Tags)
    /\ \E commit \in Commits, annotated \in BOOLEAN :
         /\ annotated => run[r].ref \in Tags
         /\ run' = [run EXCEPT ![r].at = "cloned",
                               ![r].clone = [commit |-> commit, annotated |-> annotated]]
    /\ UNCHANGED <<artifacts, index, smoked>>

(* A job ends, and with it its machine and what was on it.                 *)
Ended(b, at) == [b EXCEPT !.at = at, !.clone = "none", !.bundle = NoBundle,
                          !.installed = NoDist]

Pass(r) == run' = [run EXCEPT ![r] = Ended([run[r] EXCEPT !.passed = @ \cup {JobOf(r)}], "queued")]

Fail(r) ==
    /\ run[r].at # "over"
    /\ run' = [run EXCEPT ![r] = Ended(@, "over")]
    /\ UNCHANGED <<artifacts, index, smoked>>

(* A new attempt: of all jobs, or of those that have not passed.           *)
Rerun(r) ==
    /\ MayAttempt /\ run[r].at = "over" /\ run[r].attempt # 0
    /\ \E passed \in {{}, run[r].passed} :
         run' = [run EXCEPT ![r] = [run[r] EXCEPT !.at = "queued", !.attempt = @ + 1,
                                                  !.passed = passed]]
    /\ UNCHANGED <<artifacts, index, smoked>>

Test(r) ==
    /\ run[r].at = "cloned" /\ JobOf(r) = "test" /\ VerifySource(r)
    /\ Pass(r)
    /\ UNCHANGED <<artifacts, index, smoked>>

(* What the build makes of the commit may have another version than the    *)
(* project says.  create_manifest then refuses it; else the digest of the  *)
(* manifest becomes an output of the run.                                  *)
Build(r) ==
    /\ run[r].at = "cloned" /\ JobOf(r) = "build"
    /\ \E version \in Versions :
         LET dist == [commit |-> run[r].sha, version |-> version,
                      by |-> <<r, run[r].attempt>>] IN
         /\ VerifySource(r) /\ DistributionFiles(dist, run[r].sha)
         /\ artifacts' = artifacts \cup {[dist |-> dist, manifest |-> Manifest(r, dist)]}
         /\ run' = [run EXCEPT ![r] =
                      Ended([run[r] EXCEPT !.passed = @ \cup {"build"},
                                           !.expected = Manifest(r, dist)], "queued")]
    /\ UNCHANGED <<index, smoked>>

(* A distribution with the names, metadata and files of one that was built,*)
(* which no run has built.                                                 *)
Forged(dist) == [dist EXCEPT !.by = <<0, 0>>]

(* What may come of a download: the artifact of this id or of another, one *)
(* with the distribution of another, or one that is forged, with the       *)
(* manifest it had or one to go with it.                                   *)
Downloads ==
    {[dist |-> a.dist, manifest |-> b.manifest] : a \in artifacts, b \in artifacts}
      \cup {[dist |-> Forged(a.dist), manifest |-> a.manifest] : a \in artifacts}
      \cup {[dist |-> Forged(a.dist),
             manifest |-> [a.manifest EXCEPT !.dist = Forged(a.dist)]] : a \in artifacts}

Download(r) ==
    /\ run[r].at = "cloned" /\ JobOf(r) \in {"smoke", "publish"}
    /\ \E bundle \in Downloads :
         run' = [run EXCEPT ![r].at = "loaded", ![r].bundle = bundle]
    /\ UNCHANGED <<artifacts, index, smoked>>

(* smoke: what pip installs may come from elsewhere, and the installation  *)
(* may change the bundle, which is why it is verified again.               *)
Install(r) ==
    /\ run[r].at = "loaded" /\ JobOf(r) = "smoke" /\ VerifyBundle(r)
    /\ \E installed \in {run[r].bundle.dist} \cup {a.dist : a \in artifacts},
          bundle \in {run[r].bundle} \cup Downloads :
         run' = [run EXCEPT ![r].at = "installed", ![r].installed = installed,
                            ![r].bundle = bundle]
    /\ UNCHANGED <<artifacts, index, smoked>>

Smoke(r) ==
    /\ run[r].at = "installed" /\ CheckInstalled(r) /\ VerifyBundle(r)
    /\ smoked' = smoked \cup {<<r, run[r].attempt, run[r].installed>>}
    /\ Pass(r)
    /\ UNCHANGED <<artifacts, index>>

Publish(r, destination) ==
    /\ run[r].at = "loaded" /\ JobOf(r) = "publish" /\ PublishCheck(r, destination)
    /\ run' = [run EXCEPT ![r].at = "wheel"]
    /\ UNCHANGED <<artifacts, index, smoked>>

(* The action that publishes: the wheel, then the sdist.  An index takes a *)
(* file of a name once; one that is there already fails the job, unless it *)
(* is the same.                                                            *)
Upload(r) ==
    LET file == IF run[r].at = "wheel" THEN "wheel" ELSE "sdist"
        dist == run[r].bundle.dist
        here == ReleaseDestination(run[r].ref)
    IN  /\ run[r].at \in {"wheel", "sdist"}
        /\ \A e \in index : e.at = here /\ e.file = file /\ e.dist.version = dist.version =>
                               e.dist = dist
        /\ index' = index \cup {[at |-> here, file |-> file, dist |-> dist,
                                 run |-> r, attempt |-> run[r].attempt]}
        /\ run' = [run EXCEPT ![r] = IF file = "wheel" THEN [@ EXCEPT !.at = "sdist"]
                                     ELSE Ended(@, "over")]
        /\ UNCHANGED <<artifacts, smoked>>

ReleaseNext ==
    \E r \in Runs :
        \/ Trigger(r) \/ Checkout(r) \/ Fail(r) \/ Rerun(r)
        \/ Test(r) \/ Build(r) \/ Download(r) \/ Install(r) \/ Smoke(r)
        \/ (\E d \in {"pypi", "testpypi"} : Publish(r, d)) \/ Upload(r)

ReleaseSpec == ReleaseInit /\ [][ReleaseNext]_releaseVars

(***************************************************************************)
(* What an index holds was built of the commit of a tag whose version it   *)
(* has, on the index the tag is meant for, by the very attempt that        *)
(* published it, which has tested the commit and installed these bytes; so *)
(* it is also after a run again of the failed jobs alone, a ref that was   *)
(* moved, another run of the same tag, or a download that went wrong.  And *)
(* the wheel and the sdist of a version are of one build.                  *)
(***************************************************************************)
ReleasesAreQualified ==
    /\ \A e \in index :
         LET source == Identity(e.run) IN
         /\ source.ref \in Tags /\ e.dist.commit = source.sha
         /\ e.dist.version = NormalizedVersion(source.ref)
         /\ e.at = ReleaseDestination(source.ref)
         /\ e.dist.by = <<e.run, e.attempt>>
         /\ <<e.run, e.attempt, e.dist>> \in smoked
    /\ \A e, f \in index : e.at = f.at /\ e.dist.version = f.dist.version => e.dist = f.dist
=============================================================================
