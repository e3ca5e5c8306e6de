---------------------------- MODULE ReleaseGuard ----------------------------
(***************************************************************************)
(* tools/release.py: a manually started run looks the release of the       *)
(* package's version up, verifies what it has built, looks the tag up, and *)
(* only then asks GitHub to create the release, which attaches it to the   *)
(* tag if there is one by then and to the tested commit if there is none.  *)
(*                                                                         *)
(* The workflow's concurrency group lets one run at a time reach the       *)
(* helper, but a job may be killed (cancelled, or out of its ten minutes)  *)
(* with its request still on its way, and people create, move and delete   *)
(* tags and releases as they like.  One version is modelled.               *)
(***************************************************************************)
EXTENDS Naturals

CONSTANTS
  Runs,      \* manual starts of the workflow
  Commits,   \* what a run may have tested
  Version,   \* the package's version
  Dists,     \* what a build may leave in dist/
  None

\* A file of dist/ and the digest of its bytes; the manifest gives the files it
\* names their digests, and is None if it is missing, unreadable, malformed or
\* names a file twice.
PayloadKinds == {"wheel", "sdist", "summary"}

ASSUME DistsAssumption ==
  \A dist \in Dists : \A file \in dist.files : file.kind \in PayloadKinds

Tags     == [annotated : BOOLEAN, commit : Commits \cup {None}]
Jobs     == [commit : Commits, dist : Dists]
Releases == [by : Runs, commit : Commits \cup {None}, dist : Dists]

ASSUME NoneAssumption == None \notin Runs \cup Commits \cup Tags \cup Jobs \cup Releases

VARIABLES
  tag,        \* the remote tag: None, or [annotated, commit]
  release,    \* the remote release: None, or who created it, where, with what
  pc, job,    \* of each run: its place, and its commit and files
  inflight,   \* the runs whose request to create GitHub has not handled
  created,    \* the runs whose request GitHub has fulfilled
  unclear,    \* history: the runs that were given an unclear answer
  retagged,   \* history: the runs whose tag changed after they looked it up
  removed     \* history: whether a release was ever removed

remote  == <<tag, release>>
history == <<unclear, retagged, removed>>
vars    == <<tag, release, pc, job, inflight, created, unclear, retagged, removed>>

Ended == {"unchanged", "published", "refused", "failed", "killed"}

Init ==
  /\ tag \in Tags \cup {None}
  /\ release = None
  /\ pc = [r \in Runs |-> "new"] /\ job = [r \in Runs |-> None]
  /\ inflight = {} /\ created = {}
  /\ unclear = {} /\ retagged = {} /\ removed = FALSE

-----------------------------------------------------------------------------
(* What a run has built.                                                   *)

Of(dist, kind) == {file \in dist.files : file.kind = kind}

\* Mutant: every file is named by the manifest, with whatever digest.
VerifiedNames(dist) ==
  /\ \A kind \in PayloadKinds : Of(dist, kind) # {}
  /\ \A file \in Of(dist, "wheel") \cup Of(dist, "sdist") : file.version = Version
  /\ dist.manifest # None /\ DOMAIN dist.manifest = {file.name : file \in dist.files}

\* Every wheel and source distribution is of this version, the evidence is
\* there, and the manifest names exactly these files with their digests.
Verified(dist) ==
  /\ \A kind \in PayloadKinds : Of(dist, kind) # {}
  /\ \A file \in Of(dist, "wheel") \cup Of(dist, "sdist") : file.version = Version
  /\ dist.manifest # None /\ DOMAIN dist.manifest = {file.name : file \in dist.files}
  /\ \A file \in dist.files : dist.manifest[file.name] = file.digest

-----------------------------------------------------------------------------
(* One run of the helper.                                                  *)

Go(r, from, to) == pc[r] = from /\ pc' = [pc EXCEPT ![r] = to]
Looked == UNCHANGED <<remote, job, inflight, created, removed>>

\* The version is not MAJOR.MINOR.PATCH, or its notes are missing: refused
\* before any call.  Otherwise the run goes on with what it has tested and built.
Start(r) ==
  /\ \A q \in Runs : pc[q] \in {"new"} \cup Ended
  /\ \/ Go(r, "new", "refused") /\ UNCHANGED job
     \/ /\ Go(r, "new", "lookup")
        /\ \E built \in Jobs : job' = [job EXCEPT ![r] = built]
  /\ UNCHANGED <<remote, inflight, created, history>>

\* An answer that is neither yes nor HTTP 404 (a permission, a limit, a network).
Unclear(r, from) ==
  /\ Go(r, from, "refused")
  /\ unclear' = unclear \cup {r}
  /\ UNCHANGED retagged
  /\ Looked

ReleaseExists(r) ==
  /\ release # None
  /\ Go(r, "lookup", "unchanged")
  /\ Looked /\ UNCHANGED <<unclear, retagged>>

ReleaseAbsent(r) ==
  /\ release = None
  /\ Go(r, "lookup", "assets")
  /\ Looked /\ UNCHANGED <<unclear, retagged>>

\* Mutant: whatever is not a release is taken for its absence.
ReleaseUnclearAsAbsent(r) ==
  /\ Go(r, "lookup", "assets")
  /\ unclear' = unclear \cup {r}
  /\ UNCHANGED retagged
  /\ Looked

ReleaseUnclear(r) == Unclear(r, "lookup")

CheckAssets(r) ==
  /\ Go(r, "assets", IF Verified(job[r].dist) THEN "tag" ELSE "refused")
  /\ Looked /\ UNCHANGED <<unclear, retagged>>

\* Mutant: an existing tag is trusted.
TagPointsAnywhere(r) == TRUE

TagPointsAt(r) == tag.commit = job[r].commit

\* An annotated tag needs a second call, on an object that never changes; what
\* it names is what was seen at the first.
LookUpTag(r) ==
  /\ IF tag = None THEN Go(r, "tag", "create")
     ELSE Go(r, "tag", IF ~TagPointsAt(r) THEN "refused"
                       ELSE IF tag.annotated THEN "peel" ELSE "create")
  /\ Looked /\ UNCHANGED <<unclear, retagged>>

TagUnclear(r) == Unclear(r, "tag")

Peel(r) == Go(r, "peel", "create") /\ Looked /\ UNCHANGED <<unclear, retagged>>

PeelFails(r) == Unclear(r, "peel")

Create(r) ==
  /\ Go(r, "create", "creating")
  /\ inflight' = inflight \cup {r}
  /\ UNCHANGED <<remote, job, created, history>>

CreateSucceeds(r) ==
  /\ r \in created
  /\ Go(r, "creating", "published")
  /\ UNCHANGED <<remote, job, inflight, created, history>>

\* Mutant: the return code of gh release create is not looked at.
CreateUnchecked(r) ==
  /\ Go(r, "creating", "published")
  /\ UNCHANGED <<remote, job, inflight, created, history>>

\* GitHub refused, or the answer was lost whatever it was.
CreateFails(r) ==
  /\ Go(r, "creating", "failed")
  /\ UNCHANGED <<remote, job, inflight, created, history>>

Kill(r) ==
  /\ pc[r] \notin {"new"} \cup Ended
  /\ pc' = [pc EXCEPT ![r] = "killed"]
  /\ UNCHANGED <<remote, job, inflight, created, history>>

-----------------------------------------------------------------------------
(* GitHub, and everybody else who may write to the repository.             *)

TagLooked == {r \in Runs : pc[r] \in {"peel", "create"}} \cup inflight

GitHubCreates(r) ==
  /\ r \in inflight /\ release = None
  /\ release' = [by |-> r, commit |-> IF tag = None THEN job[r].commit ELSE tag.commit,
                 dist |-> job[r].dist]
  /\ tag' = IF tag = None THEN [annotated |-> FALSE, commit |-> job[r].commit] ELSE tag
  /\ inflight' = inflight \ {r} /\ created' = created \cup {r}
  /\ retagged' = IF tag = None THEN retagged \cup (TagLooked \ {r}) ELSE retagged
  /\ UNCHANGED <<pc, job, unclear, removed>>

\* A second release for one tag is refused; a request may also be lost.
GitHubRefuses(r) ==
  /\ r \in inflight
  /\ inflight' = inflight \ {r}
  /\ UNCHANGED <<remote, pc, job, created, history>>

Retag(new) ==
  /\ new # tag
  /\ tag' = new
  /\ retagged' = retagged \cup TagLooked
  /\ UNCHANGED <<pc, job, inflight, created, unclear>>

\* Without its tag a release becomes a draft, which the look-up does not find.
Somebody ==
  \/ \E new \in Tags : Retag(new) /\ UNCHANGED <<release, removed>>
  \/ /\ Retag(None)
     /\ release' = None /\ removed' = (removed \/ release # None)
  \/ /\ release # None
     /\ release' = None /\ removed' = TRUE
     /\ UNCHANGED <<tag, pc, job, inflight, created, unclear, retagged>>

Helper(r) ==
  \/ Start(r) \/ ReleaseExists(r) \/ ReleaseAbsent(r) \/ ReleaseUnclear(r)
  \/ CheckAssets(r) \/ LookUpTag(r) \/ TagUnclear(r) \/ Peel(r) \/ PeelFails(r)
  \/ Create(r) \/ CreateSucceeds(r) \/ CreateFails(r) \/ Kill(r)

Next ==
  \/ \E r \in Runs : Helper(r) \/ GitHubCreates(r) \/ GitHubRefuses(r)
  \/ Somebody

Spec == Init /\ [][Next]_vars

-----------------------------------------------------------------------------
\* Every variable keeps its shape, and a run that looks something up has its job.
GuardTypeOK ==
  /\ tag \in Tags \cup {None}
  /\ release \in Releases \cup {None}
  /\ pc \in [Runs -> {"new", "lookup", "assets", "tag", "peel", "create", "creating"} \cup Ended]
  /\ job \in [Runs -> Jobs \cup {None}]
  /\ \A r \in Runs : pc[r] \notin {"new", "refused"} => job[r] # None
  /\ \A r \in inflight \cup created : job[r] # None
  /\ inflight \subseteq Runs /\ created \subseteq Runs
  /\ unclear \subseteq Runs /\ retagged \subseteq Runs /\ removed \in BOOLEAN

\* A release stands at the commit its run has tested, although GitHub ignores
\* --target when the tag exists, and although a killed run's request may be
\* handled during a later run; only a tag that changed after it was looked up
\* can attach it elsewhere (_ensure_tag_absent_or_at).
CreatedWhereTested ==
  release # None =>
    \/ release.commit = job[release.by].commit
    \/ release.by \in retagged

\* What is published are files of this version, each with the digest the
\* published manifest gives it, and nothing the manifest does not name
\* (_assets, _verify_checksums).
PublishedIsVerified ==
  release # None =>
    LET dist == release.dist IN
    \A file \in dist.files :
      /\ file.kind # "summary" => file.version = Version
      /\ file.name \in DOMAIN dist.manifest /\ dist.manifest[file.name] = file.digest

\* A run that was given an unclear answer, to any of its three look-ups, asks
\* GitHub to create nothing (docs/publication.md, "fails closed").
UncertaintyFailsClosed == unclear \cap (inflight \cup created) = {}

\* A run that ends well leaves a release behind, its own or one it found,
\* unless somebody removed it: a request that was lost, refused or overtaken
\* never counts as published (ensure_release).
SuccessMeansReleased ==
  (\E r \in Runs : pc[r] \in {"unchanged", "published"}) => release # None \/ removed
=============================================================================
