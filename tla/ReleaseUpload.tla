--------------------------- MODULE ReleaseUpload ---------------------------
(***************************************************************************)
(* The release of one version of the SDK: build_release.py, which adds a   *)
(* platform's wheel to releases/<version>/ of the checkout it runs in, the *)
(* collecting of the wheels of several checkouts by hand, and              *)
(* upload_release.py, which sends what lies in its own checkout to PyPI    *)
(* (sdk/release_common.py).  Platforms share a checkout where it is        *)
(* mounted into the containers that build for them.                        *)
(*                                                                         *)
(* A wheel is known by its platform, since name and version are the same;  *)
(* building again replaces it under the same file name.  Its content is    *)
(* the number of the build.  PyPI keeps the first content of a file name,  *)
(* and its simple index may show a file later than it is there.            *)
(***************************************************************************)
EXTENDS Integers, FiniteSets, SequencesExt

CONSTANTS
  Platforms,  \* one build at a time for each
  Uploaders,  \* runs of upload_release
  CheckoutOf, \* where the builds of each platform and each uploader run
  MaxBuilds,  \* bound on the builds
  Absent      \* in place of the content of a file that does not exist

ASSUME BuildsAssumption == MaxBuilds \in Nat /\ Absent \notin Nat
ASSUME PlatformsAssumption == IsFiniteSet(Platforms)

Checkouts == {CheckoutOf[x] : x \in Platforms \cup Uploaders}

VARIABLES
  building,  \* where the build of each platform is
  listed,    \* the wheels it has listed
  builds,    \* builds so far
  unsound,   \* those whose wheel twine does not accept
  dir,       \* the wheel of each platform in each checkout's release directory
  uploading, \* where each uploader is
  queue,     \* the wheels it has still to send
  batch,     \* all the wheels it has listed
  arriving,  \* uploads that PyPI may have accepted although it was not heard to
  pypi,      \* the content of each file on PyPI
  index,     \* the files its simple index shows
  tainted    \* history: a wheel was left, collected or sent that no build has
             \* vouched for

buildVars  == <<building, listed, builds, unsound, dir>>
uploadVars == <<uploading, queue, batch>>
pypiVars   == <<arriving, pypi, index>>
releaseVars == <<buildVars, uploadVars, pypiVars, tainted>>

BuildStates  == {"idle", "check", "notes"}
UploadStates == {"idle", "sending", "timed_out", "success", "failed"}
Contents == 1..builds

ReleaseTypeOK ==
  /\ building \in [Platforms -> BuildStates]
  /\ listed \in [Platforms -> SUBSET Platforms]
  /\ builds \in 0..MaxBuilds /\ unsound \subseteq Contents
  /\ dir \in [Checkouts -> [Platforms -> Contents \cup {Absent}]]
  /\ uploading \in [Uploaders -> UploadStates]
  /\ queue \in [Uploaders -> Seq(Platforms)]
  /\ batch \in [Uploaders -> SUBSET Platforms]
  /\ arriving \subseteq Platforms \X Contents
  /\ pypi \in [Platforms -> Contents \cup {Absent}]
  /\ index \subseteq {p \in Platforms : pypi[p] # Absent}
  /\ tainted \in BOOLEAN

Nothing == [p \in Platforms |-> Absent]
Present(files) == {p \in Platforms : files[p] # Absent}

ReleaseInit ==
  /\ building = [p \in Platforms |-> "idle"]
  /\ listed = [p \in Platforms |-> {}]
  /\ builds = 0 /\ unsound = {}
  /\ dir = [h \in Checkouts |-> Nothing]
  /\ uploading = [u \in Uploaders |-> "idle"]
  /\ queue = [u \in Uploaders |-> <<>>]
  /\ batch = [u \in Uploaders |-> {}]
  /\ arriving = {} /\ pypi = Nothing /\ index = {}
  /\ tainted = FALSE

\* The release directory where a platform is built or an uploader runs.
DirOf(x) == dir[CheckoutOf[x]]

-----------------------------------------------------------------------------
(* build_release *)

Underway(p) == building[p] # "idle"
BuildGoto(p, state) == building' = [building EXCEPT ![p] = state]

\* update_version and build_wheels: the wheel is written into the checkout's
\* release directory, whose wheels are listed then.
Build(p) ==
  /\ ~Underway(p) /\ builds < MaxBuilds
  /\ builds' = builds + 1
  /\ unsound' \in {unsound, unsound \cup {builds + 1}}
  /\ dir' = [dir EXCEPT ![CheckoutOf[p]][p] = builds + 1]
  /\ listed' = [listed EXCEPT ![p] = Present(DirOf(p)')]
  /\ BuildGoto(p, "check")
  /\ UNCHANGED <<uploadVars, pypiVars, tainted>>

\* The script raises or is killed; its wheel stays in the directory.
BuildFails(p) ==
  /\ Underway(p)
  /\ BuildGoto(p, "idle")
  /\ tainted' = TRUE
  /\ listed' = [listed EXCEPT ![p] = {}]
  /\ UNCHANGED <<builds, unsound, dir, uploadVars, pypiVars>>

\* Faulty variant: the result of the check is not looked at.
CheckPasses(p) ==
  /\ building[p] = "check"
  /\ BuildGoto(p, "notes")
  /\ UNCHANGED <<listed, builds, unsound, dir, uploadVars, pypiVars, tainted>>

\* twine check of every wheel listed, others' as well.  A refusal raises.
Check(p) ==
  /\ building[p] = "check"
  /\ \A q \in listed[p] : DirOf(p)[q] \notin unsound
  /\ BuildGoto(p, "notes")
  /\ UNCHANGED <<listed, builds, unsound, dir, uploadVars, pypiVars, tainted>>

\* The directory's README.md is written, which no script reads.
WriteNotes(p) ==
  /\ building[p] = "notes"
  /\ listed' = [listed EXCEPT ![p] = {}]
  /\ BuildGoto(p, "idle")
  /\ UNCHANGED <<builds, unsound, dir, uploadVars, pypiVars, tainted>>

\* Somebody copies a wheel into another checkout's release directory.
Collect(p, from, to) ==
  /\ dir[from][p] # Absent /\ from # to
  /\ dir' = [dir EXCEPT ![to][p] = dir[from][p]]
  /\ tainted' = (tainted \/ Underway(p))
  /\ UNCHANGED <<building, listed, builds, unsound, uploadVars, pypiVars>>

-----------------------------------------------------------------------------
(* upload_release *)

UploadGoto(u, state) == uploading' = [uploading EXCEPT ![u] = state]

\* The wheels of its directory are listed once, sorted by name.
ListWheels(u) ==
  /\ uploading[u] = "idle"
  /\ Present(DirOf(u)) # {}
  /\ queue' = [queue EXCEPT ![u] = SetToSeq(Present(DirOf(u)))]
  /\ batch' = [batch EXCEPT ![u] = Present(DirOf(u))]
  /\ UploadGoto(u, "sending")
  /\ tainted' = (tainted \/ \E p \in Platforms : Underway(p))
  /\ UNCHANGED <<buildVars, pypiVars>>

\* What is sent is what lies in the directory by then.
Sends(u, p) ==
  /\ uploading[u] = "sending" /\ queue[u] # <<>> /\ p = Head(queue[u])
  /\ UNCHANGED <<batch, buildVars>>
  /\ tainted' = (tainted \/ \E q \in Platforms : Underway(q))

NextWheel(u) ==
  /\ queue' = [queue EXCEPT ![u] = Tail(@)]
  /\ UNCHANGED uploading

\* Status 200.
Accepted(u, p) ==
  /\ Sends(u, p)
  /\ pypi[p] = Absent
  /\ pypi' = [pypi EXCEPT ![p] = DirOf(u)[p]]
  /\ NextWheel(u)
  /\ UNCHANGED <<arriving, index>>

\* Status 400 or 409 with "already exists".
SkipExisting(u, p) ==
  /\ Sends(u, p)
  /\ pypi[p] # Absent
  /\ NextWheel(u)
  /\ UNCHANGED pypiVars

\* PyPI may have taken the file, may take it later or not at all.
MayArrive(u, p) ==
  /\ arriving' \in {arriving, arriving \cup {<<p, DirOf(u)[p]>>}}
  /\ UNCHANGED <<pypi, index>>

\* Any other status, or an exception that is not a ReadTimeout.
UploadFails(u, p) ==
  /\ Sends(u, p)
  /\ MayArrive(u, p)
  /\ UploadGoto(u, "failed")
  /\ UNCHANGED queue

ReadTimeout(u, p) ==
  /\ Sends(u, p)
  /\ MayArrive(u, p)
  /\ UploadGoto(u, "timed_out")
  /\ UNCHANGED queue

\* Faulty variant: the file is taken for uploaded without asking.
ConfirmBlindly(u) ==
  /\ uploading[u] = "timed_out"
  /\ queue' = [queue EXCEPT ![u] = Tail(@)]
  /\ UploadGoto(u, "sending")
  /\ UNCHANGED <<batch, buildVars, pypiVars, tainted>>

\* file_exists_on_pypi says yes, or the exception goes on; the index may be
\* out of reach or behind.
Confirm(u) ==
  /\ uploading[u] = "timed_out"
  /\ \/ /\ Head(queue[u]) \in index
        /\ queue' = [queue EXCEPT ![u] = Tail(@)]
        /\ UploadGoto(u, "sending")
     \/ UploadGoto(u, "failed") /\ UNCHANGED queue
  /\ UNCHANGED <<batch, buildVars, pypiVars, tainted>>

Succeed(u) ==
  /\ uploading[u] = "sending" /\ queue[u] = <<>>
  /\ UploadGoto(u, "success")
  /\ UNCHANGED <<queue, batch, buildVars, pypiVars, tainted>>

\* The script is run again.
Rerun(u) ==
  /\ uploading[u] \in {"failed", "success"}
  /\ UploadGoto(u, "idle")
  /\ queue' = [queue EXCEPT ![u] = <<>>]
  /\ batch' = [batch EXCEPT ![u] = {}]
  /\ UNCHANGED <<buildVars, pypiVars, tainted>>

-----------------------------------------------------------------------------
(* PyPI *)

\* A second file of the same name is refused.
Arrive ==
  /\ \E upload \in arriving :
       /\ arriving' = arriving \ {upload}
       /\ pypi' = IF pypi[upload[1]] = Absent
                  THEN [pypi EXCEPT ![upload[1]] = upload[2]] ELSE pypi
  /\ UNCHANGED <<index, buildVars, uploadVars, tainted>>

IndexCatchesUp ==
  /\ \E p \in Present(pypi) \ index : index' = index \cup {p}
  /\ UNCHANGED <<arriving, pypi, buildVars, uploadVars, tainted>>

ReleaseNext ==
  \/ \E p \in Platforms :
       Build(p) \/ BuildFails(p) \/ Check(p) \/ WriteNotes(p)
  \/ \E p \in Platforms, from, to \in Checkouts : Collect(p, from, to)
  \/ \E u \in Uploaders :
       \/ ListWheels(u)
       \/ \E p \in Platforms :
            Accepted(u, p) \/ SkipExisting(u, p) \/ UploadFails(u, p) \/ ReadTimeout(u, p)
       \/ Confirm(u) \/ Succeed(u) \/ Rerun(u)
  \/ Arrive
  \/ IndexCatchesUp

ReleaseSpec == ReleaseInit /\ [][ReleaseNext]_releaseVars

-----------------------------------------------------------------------------
(* What a release promises *)

\* When an upload reports success, every wheel it has listed is on PyPI: no
\* time-out, late arrival, lagging index, skipped file or repeated run is
\* mistaken for an upload (release_common.py 241-269, upload_release.py 37-40).
SuccessMeansPublished ==
  \A u \in Uploaders :
    uploading[u] = "success" => \A p \in batch[u] : pypi[p] # Absent

\* While every build has reported success before its wheels are collected or
\* uploaded, what is published has passed twine's check (build_release.py
\* 25-30): a wheel that fails it gets out only because the failed build has
\* left it.
PublishedIsChecked ==
  ~tainted => \A p \in Present(pypi) : pypi[p] \notin unsound
=============================================================================
