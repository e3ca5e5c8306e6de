------------------------- MODULE ReleaseGuardProofs -------------------------
(***************************************************************************)
(* What the release helper promises, for any number of runs, any commits   *)
(* and builds, and whatever others do to tags and releases meanwhile.      *)
(***************************************************************************)
EXTENDS ReleaseGuard, TLAPS

Asked  == inflight \cup created

\* Whoever has asked is past every look-up, a run in doubt is refused, and who
\* has created the release was answered for it.
PlacesInv ==
  /\ \A r \in Asked : pc[r] \in {"creating", "published", "failed", "killed"}
  /\ \A r \in unclear : pc[r] = "refused"
  /\ release # None => release.by \in created

\* The tag a run has looked up is still absent or at its commit, or has changed.
TagInv ==
  \A r \in TagLooked : r \in retagged \/ tag = None \/ tag.commit = job[r].commit

\* A fulfilled request has left a release, and a run found or created one.
FoundInv ==
  /\ created # {} => release # None \/ removed
  /\ \A r \in Runs : pc[r] = "published" => r \in created
  /\ (\E r \in Runs : pc[r] = "unchanged") => release # None \/ removed

GuardInv ==
  GuardTypeOK /\ PlacesInv /\ TagInv /\ FoundInv /\ CreatedWhereTested

USE NoneAssumption

LEMMA InitGuard == Init => GuardInv
  BY DEF Init, GuardInv, GuardTypeOK, PlacesInv, TagInv, FoundInv, CreatedWhereTested,
         Asked, TagLooked, Ended

\* The helper's own steps leave the remote alone: only its place changes, and
\* what it was answered.
LEMMA StartGuard == ASSUME GuardInv, NEW r \in Runs, Start(r) PROVE GuardInv'
<1> USE DEF GuardInv, GuardTypeOK
<1>1. pc[r] = "new" /\ UNCHANGED <<remote, inflight, created, history>>
  BY DEF Start, Go
<1>2. r \notin Asked /\ r \notin TagLooked /\ r \notin unclear
  BY <1>1 DEF PlacesInv, TagLooked, Asked
<1>3. \E to \in {"refused", "lookup"} : pc' = [pc EXCEPT ![r] = to]
  BY DEF Start, Go
<1>4. \E built \in Jobs \cup {None} : job' = [job EXCEPT ![r] = built]
  <2>1. CASE UNCHANGED job
    BY <2>1
  <2> QED
    BY <2>1 DEF Start
<1>5. \A q \in Runs : q # r => pc'[q] = pc[q] /\ job'[q] = job[q]
  BY <1>3, <1>4
<1>6. pc'[r] \in {"refused", "lookup"} /\ (pc'[r] = "lookup" => job'[r] # None)
  <2>1. CASE Go(r, "new", "refused")
    BY <2>1 DEF Go
  <2>2. CASE Go(r, "new", "lookup") /\ \E built \in Jobs : job' = [job EXCEPT ![r] = built]
    BY <2>2 DEF Go
  <2> QED
    BY <2>1, <2>2 DEF Start
<1>7. GuardTypeOK'
  BY <1>1, <1>2, <1>3, <1>4, <1>5, <1>6 DEF remote, history, Asked, Ended
<1>8. PlacesInv'
  BY <1>1, <1>2, <1>5 DEF PlacesInv, Asked, history, remote
<1>9. TagInv'
  BY <1>1, <1>2, <1>5, <1>6 DEF TagInv, TagLooked, Asked, history, remote
<1>10. FoundInv'
  BY <1>1, <1>5, <1>6 DEF FoundInv, history, remote
<1>11. CreatedWhereTested'
  BY <1>1, <1>2, <1>5 DEF CreatedWhereTested, PlacesInv, Asked, history, remote
<1> QED
  BY <1>7, <1>8, <1>9, <1>10, <1>11

\* A step of a run that leaves the remote, the jobs and the requests alone.
LookStep(r, to) ==
  /\ to \in {"assets", "tag", "peel", "create", "unchanged", "refused"}
  /\ pc[r] \in {"lookup", "assets", "tag", "peel"} /\ pc' = [pc EXCEPT ![r] = to]
  /\ UNCHANGED <<tag, release, job, inflight, created, retagged, removed>>
  /\ unclear' = unclear \/ (unclear' = unclear \cup {r} /\ to = "refused")
  /\ to \in {"peel", "create"} =>
       r \in TagLooked \/ tag = None \/ tag.commit = job[r].commit
  /\ to = "unchanged" => release # None

LEMMA LookGuard == ASSUME GuardInv, NEW r \in Runs, NEW to, LookStep(r, to) PROVE GuardInv'
<1> USE DEF GuardInv, GuardTypeOK, LookStep
<1>1. r \notin Asked /\ r \notin unclear
  BY DEF PlacesInv, Asked
<1>2. \A q \in Runs : q # r => pc'[q] = pc[q]
  OBVIOUS
<1>3. pc'[r] = to
  OBVIOUS
<1>4. GuardTypeOK'
  BY DEF Ended
<1>5. PlacesInv'
  BY <1>1, <1>2, <1>3 DEF PlacesInv, Asked
<1>6. TagInv'
  BY <1>1, <1>2, <1>3 DEF TagInv, TagLooked, Asked
<1>7. FoundInv'
  BY <1>2, <1>3 DEF FoundInv
<1>8. CreatedWhereTested'
  BY DEF CreatedWhereTested
<1> QED
  BY <1>4, <1>5, <1>6, <1>7, <1>8

LEMMA HelperGuard == ASSUME GuardInv, NEW r \in Runs, Helper(r) PROVE GuardInv'
<1> USE DEF Go, Looked, remote, history
<1>1. CASE Start(r)
  BY <1>1, StartGuard
<1>2. CASE ReleaseExists(r)
  <2>1. LookStep(r, "unchanged")
    BY <1>2 DEF ReleaseExists, LookStep
  <2> QED
    BY <2>1, LookGuard
<1>3. CASE ReleaseAbsent(r)
  <2>1. LookStep(r, "assets")
    BY <1>3 DEF ReleaseAbsent, LookStep
  <2> QED
    BY <2>1, LookGuard
<1>4. CASE ReleaseUnclear(r) \/ TagUnclear(r) \/ PeelFails(r)
  <2>1. LookStep(r, "refused")
    BY <1>4 DEF ReleaseUnclear, TagUnclear, PeelFails, Unclear, LookStep
  <2> QED
    BY <2>1, LookGuard
<1>5. CASE CheckAssets(r)
  <2>1. LookStep(r, "tag") \/ LookStep(r, "refused")
    BY <1>5 DEF CheckAssets, LookStep
  <2> QED
    BY <2>1, LookGuard
<1>6. CASE LookUpTag(r) \/ Peel(r)
  <2>1. LookUpTag(r) => LookStep(r, "refused") \/ LookStep(r, "peel") \/ LookStep(r, "create")
    BY DEF LookUpTag, TagPointsAt, LookStep
  <2>2. Peel(r) => LookStep(r, "create")
    BY DEF Peel, TagLooked, LookStep
  <2>3. LookStep(r, "refused") \/ LookStep(r, "peel") \/ LookStep(r, "create")
    BY <1>6, <2>1, <2>2
  <2> QED
    BY <2>3, LookGuard
<1>7. CASE Create(r)
  <2> USE DEF GuardInv, GuardTypeOK
  <2>1. r \in TagLooked /\ r \notin unclear /\ pc'[r] = "creating" /\ job[r] # None
    BY <1>7 DEF Create, TagLooked, PlacesInv
  <2>2. \A q \in Runs : q # r => pc'[q] = pc[q]
    BY <1>7 DEF Create
  <2>3. GuardTypeOK'
    BY <1>7, <2>1 DEF Create, Ended
  <2>4. PlacesInv' /\ TagInv' /\ FoundInv' /\ CreatedWhereTested'
    BY <1>7, <2>1, <2>2 DEF Create, PlacesInv, TagInv, FoundInv, CreatedWhereTested, Asked, TagLooked
  <2> QED
    BY <2>3, <2>4
<1>8. CASE CreateSucceeds(r) \/ CreateFails(r) \/ Kill(r)
  <2> USE DEF GuardInv, GuardTypeOK
  <2>1. \E to \in {"published", "failed", "killed"} : pc' = [pc EXCEPT ![r] = to]
    BY <1>8 DEF CreateSucceeds, CreateFails, Kill
  <2>2. pc'[r] \in {"published", "failed", "killed"} /\ (pc'[r] = "published" => r \in created)
    BY <1>8 DEF CreateSucceeds, CreateFails, Kill
  <2>3. UNCHANGED <<tag, release, job, inflight, created, unclear, retagged, removed>>
    BY <1>8 DEF CreateSucceeds, CreateFails, Kill
  <2>4. pc[r] \notin {"new", "refused"}
    BY <1>8 DEF CreateSucceeds, CreateFails, Kill, Ended
  <2>5. \A q \in Runs : q # r => pc'[q] = pc[q]
    BY <2>1
  <2>6. GuardTypeOK'
    BY <2>1, <2>2, <2>3, <2>4 DEF Ended
  <2>7. PlacesInv' /\ TagInv' /\ FoundInv' /\ CreatedWhereTested'
    BY <2>2, <2>3, <2>4, <2>5 DEF PlacesInv, TagInv, FoundInv, CreatedWhereTested, Asked, TagLooked
  <2> QED
    BY <2>6, <2>7
<1> QED
  BY <1>1, <1>2, <1>3, <1>4, <1>5, <1>6, <1>7, <1>8 DEF Helper

\* GitHub attaches the release to the tag it finds, which the run looked up.
LEMMA GitHubGuard ==
  ASSUME GuardInv, NEW r \in Runs, GitHubCreates(r) \/ GitHubRefuses(r) PROVE GuardInv'
<1> USE DEF GuardInv, GuardTypeOK
<1>1. CASE GitHubRefuses(r)
  BY <1>1 DEF GitHubRefuses, PlacesInv, TagInv, FoundInv, CreatedWhereTested, Asked, TagLooked,
              remote, history
<1>2. CASE GitHubCreates(r)
  <2>1. job[r] \in Jobs /\ r \in TagLooked
    BY <1>2 DEF GitHubCreates, TagLooked
  <2>2. release' \in Releases /\ release'.by = r
    BY <1>2, <2>1 DEF GitHubCreates, Releases, Jobs, Tags
  <2>3. tag' \in Tags
    BY <1>2, <2>1 DEF GitHubCreates, Jobs, Tags
  <2>4. GuardTypeOK'
    BY <1>2, <2>2, <2>3 DEF GitHubCreates, TagLooked
  <2>5. PlacesInv' /\ FoundInv'
    BY <1>2, <2>2 DEF GitHubCreates, PlacesInv, FoundInv, Asked
  <2>6. release'.commit = job[r].commit \/ r \in retagged
    BY <1>2, <2>1 DEF GitHubCreates, TagInv
  <2>7. CreatedWhereTested'
    BY <1>2, <2>2, <2>6 DEF GitHubCreates, CreatedWhereTested
  <2>8. TagInv'
    BY <1>2, <2>1 DEF GitHubCreates, TagInv, TagLooked
  <2> QED
    BY <2>4, <2>5, <2>7, <2>8
<1> QED
  BY <1>1, <1>2

\* Whoever changes the tag is seen by every run that has looked it up.
LEMMA SomebodyGuard == GuardInv /\ Somebody => GuardInv'
<1> SUFFICES ASSUME GuardInv, Somebody PROVE GuardInv'
  OBVIOUS
<1> USE DEF GuardInv, GuardTypeOK
<1>1. UNCHANGED <<pc, job, inflight, created, unclear>>
  BY DEF Somebody, Retag
<1>2. /\ tag' \in Tags \cup {None}
      /\ UNCHANGED <<tag, retagged>> \/ retagged' = retagged \cup TagLooked
  BY DEF Somebody, Retag
<1>3. retagged \subseteq retagged'
  BY <1>2
<1>4. \/ UNCHANGED <<release, removed>>
      \/ release' = None /\ removed' \in BOOLEAN /\ (release # None \/ removed => removed')
  <2>1. CASE \E new \in Tags : Retag(new) /\ UNCHANGED <<release, removed>>
    BY <2>1
  <2>2. CASE release' = None /\ removed' = (removed \/ release # None)
    <3>1. CASE removed
      BY <2>2, <3>1
    <3>2. CASE release # None
      BY <2>2, <3>2
    <3>3. CASE ~removed /\ release = None
      BY <2>2, <3>3
    <3> QED
      BY <3>1, <3>2, <3>3
  <2>3. CASE release' = None /\ removed' = TRUE
    BY <2>3
  <2> QED
    BY <2>1, <2>2, <2>3 DEF Somebody
<1>5. GuardTypeOK'
  BY <1>1, <1>2, <1>4 DEF TagLooked
<1>6. PlacesInv' /\ TagInv'
  BY <1>1, <1>2, <1>3, <1>4 DEF PlacesInv, TagInv, Asked, TagLooked
<1>7. FoundInv'
  BY <1>1, <1>4 DEF FoundInv
<1>8. CreatedWhereTested'
  BY <1>1, <1>3, <1>4 DEF CreatedWhereTested
<1> QED
  BY <1>5, <1>6, <1>7, <1>8

LEMMA StutterGuard == GuardInv /\ UNCHANGED vars => GuardInv'
  BY DEF GuardInv, GuardTypeOK, PlacesInv, TagInv, FoundInv, CreatedWhereTested, Asked, TagLooked, vars

LEMMA NextGuard == GuardInv /\ [Next]_vars => GuardInv'
  BY HelperGuard, GitHubGuard, SomebodyGuard, StutterGuard DEF Next

\* The variables keep their shape for any runs, commits and builds.
THEOREM GuardTypeCorrect == Spec => []GuardTypeOK
<1>1. GuardInv => GuardTypeOK
  BY DEF GuardInv
<1> QED
  BY <1>1, InitGuard, NextGuard, PTL DEF Spec

\* Only a tag that changed in the run's window attaches its release elsewhere.
THEOREM CreatedWhereTestedHolds == Spec => []CreatedWhereTested
<1>1. GuardInv => CreatedWhereTested
  BY DEF GuardInv
<1> QED
  BY <1>1, InitGuard, NextGuard, PTL DEF Spec

\* A run in doubt creates nothing.
THEOREM UncertaintyHolds == Spec => []UncertaintyFailsClosed
<1>1. GuardInv => UncertaintyFailsClosed
  BY DEF GuardInv, PlacesInv, UncertaintyFailsClosed, Asked
<1> QED
  BY <1>1, InitGuard, NextGuard, PTL DEF Spec

\* A run that ended well left a release behind.
THEOREM SuccessHolds == Spec => []SuccessMeansReleased
<1>1. GuardInv => SuccessMeansReleased
  BY DEF GuardInv, FoundInv, SuccessMeansReleased
<1> QED
  BY <1>1, InitGuard, NextGuard, PTL DEF Spec

(***************************************************************************)
(* What is published has been verified.                                    *)
(***************************************************************************)
\* A run past the assets, whether its process lives or only its request does,
\* has verified what it built; and so was what the release holds.
PastAssets == {r \in Runs : pc[r] \in {"tag", "peel", "create"}} \cup inflight

BuiltInv ==
  /\ \A r \in PastAssets : Verified(job[r].dist)
  /\ release # None => Verified(release.dist)

\* A step that lets nobody past the assets.
LEMMA BuiltStays ==
  ASSUME GuardInv, BuiltInv, PastAssets' \subseteq PastAssets,
         \A r \in PastAssets : job'[r] = job[r],
         release' \in {release, None}
  PROVE  BuiltInv'
  BY DEF BuiltInv

LEMMA HelperBuilt ==
  ASSUME GuardInv, BuiltInv, NEW r \in Runs, Helper(r)
  PROVE  BuiltInv'
<1> USE DEF GuardInv, GuardTypeOK
<1>1. CASE Start(r)
  <2>1. pc[r] = "new" /\ UNCHANGED <<tag, release, inflight>>
    BY <1>1 DEF Start, Go, remote
  <2>2. r \notin PastAssets
    BY <2>1 DEF PastAssets, PlacesInv, Asked
  <2>3. /\ \E to \in {"refused", "lookup"} : pc' = [pc EXCEPT ![r] = to]
        /\ \A q \in Runs \ {r} : job'[q] = job[q]
    BY <1>1 DEF Start, Go
  <2>4. PastAssets' \subseteq PastAssets
    BY <2>1, <2>2, <2>3 DEF PastAssets
  <2>5. \A q \in PastAssets : job'[q] = job[q]
    BY <2>2, <2>3 DEF PastAssets
  <2> QED BY <2>1, <2>4, <2>5, BuiltStays
<1>2. CASE CheckAssets(r)
  <2>1. /\ pc' = [pc EXCEPT ![r] = IF Verified(job[r].dist) THEN "tag" ELSE "refused"]
        /\ UNCHANGED <<release, job, inflight>>
    BY <1>2 DEF CheckAssets, Go, Looked, remote
  <2>2. \A q \in Runs \ {r} : pc'[q] = pc[q]
    BY <2>1
  <2>3. \A q \in PastAssets' : q \in PastAssets \/ q = r
    BY <2>1, <2>2 DEF PastAssets
  <2>4. CASE Verified(job[r].dist)
    BY <2>1, <2>3, <2>4 DEF BuiltInv
  <2>5. CASE ~Verified(job[r].dist)
    <3>1. pc' = [pc EXCEPT ![r] = "refused"]
      BY <2>1, <2>5
    <3>2. PastAssets' \subseteq PastAssets
      BY <2>1, <3>1 DEF PastAssets
    <3> QED BY <2>1, <3>2, BuiltStays
  <2> QED BY <2>4, <2>5
<1>3. CASE Create(r)
  <2>1. /\ pc[r] = "create" /\ pc' = [pc EXCEPT ![r] = "creating"]
        /\ inflight' = inflight \cup {r} /\ UNCHANGED <<release, job>>
    BY <1>3 DEF Create, Go, remote
  <2>2. PastAssets' \subseteq PastAssets
    BY <2>1 DEF PastAssets
  <2> QED BY <2>1, <2>2, BuiltStays
<1>4. CASE \/ ReleaseExists(r) \/ ReleaseAbsent(r) \/ ReleaseUnclear(r) \/ LookUpTag(r)
           \/ TagUnclear(r) \/ Peel(r) \/ PeelFails(r) \/ CreateSucceeds(r)
           \/ CreateFails(r) \/ Kill(r)
  <2>1. /\ \E to : /\ pc' = [pc EXCEPT ![r] = to]
                   /\ to \in {"tag", "peel", "create"} =>
                        pc[r] \in {"tag", "peel", "create"}
        /\ UNCHANGED <<release, job, inflight>>
    BY <1>4 DEF ReleaseExists, ReleaseAbsent, ReleaseUnclear, LookUpTag, TagUnclear, Peel,
       PeelFails, CreateSucceeds, CreateFails, Kill, Unclear, Go, Looked, remote
  <2>2. PastAssets' \subseteq PastAssets
    BY <2>1 DEF PastAssets
  <2> QED BY <2>1, <2>2, BuiltStays
<1> QED BY <1>1, <1>2, <1>3, <1>4 DEF Helper

LEMMA NextBuilt == GuardInv /\ BuiltInv /\ [Next]_vars => BuiltInv'
<1> SUFFICES ASSUME GuardInv, BuiltInv, [Next]_vars PROVE BuiltInv'
  OBVIOUS
<1>1. CASE UNCHANGED vars
  BY <1>1 DEF vars, BuiltInv, PastAssets
<1>2. ASSUME NEW r \in Runs, GitHubCreates(r) PROVE BuiltInv'
  <2>1. /\ r \in PastAssets /\ release'.dist = job[r].dist
        /\ PastAssets' \subseteq PastAssets /\ job' = job
    BY <1>2 DEF GitHubCreates, PastAssets
  <2> QED BY <2>1 DEF BuiltInv
<1>3. ASSUME NEW r \in Runs, GitHubRefuses(r) PROVE BuiltInv'
  <2>1. PastAssets' \subseteq PastAssets /\ UNCHANGED <<job, release>>
    BY <1>3 DEF GitHubRefuses, PastAssets, remote
  <2> QED BY <2>1, BuiltStays
<1>4. CASE Somebody
  <2>1. release' \in {release, None} /\ UNCHANGED <<pc, job, inflight>>
    BY <1>4 DEF Somebody, Retag
  <2>2. PastAssets' \subseteq PastAssets
    BY <2>1 DEF PastAssets
  <2> QED BY <2>1, <2>2, BuiltStays
<1> QED BY <1>1, <1>2, <1>3, <1>4, HelperBuilt DEF Next

\* Nothing is published that the run which asked for it had not verified, even
\* if its process was killed and its request handled during another run
\* (_assets, _verify_checksums).
THEOREM PublishedIsVerifiedHolds == Spec => []PublishedIsVerified
<1>1. Init => BuiltInv
  BY DEF Init, BuiltInv, PastAssets
<1>2. GuardInv /\ BuiltInv => PublishedIsVerified
  <2> SUFFICES ASSUME GuardInv, BuiltInv, release # None, NEW file \in release.dist.files
               PROVE  /\ file.kind # "summary" => file.version = Version
                      /\ file.name \in DOMAIN release.dist.manifest
                      /\ release.dist.manifest[file.name] = file.digest
    BY DEF PublishedIsVerified
  <2>1. release.dist \in Dists
    BY DEF GuardInv, GuardTypeOK, Releases
  <2>2. file.kind \in PayloadKinds
    BY <2>1, DistsAssumption
  <2>3. Verified(release.dist)
    BY DEF BuiltInv
  <2> QED BY <2>2, <2>3 DEF Verified, Of, PayloadKinds
<1> QED
  BY <1>1, <1>2, InitGuard, NextGuard, NextBuilt, PTL DEF Spec
=============================================================================
