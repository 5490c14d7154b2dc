----------------------- MODULE ReleaseEvidence_proofs -----------------------
(***************************************************************************)
(* Why a gate that the manifest calls verified is backed, for any of the   *)
(* workflows and however often their runs are run again.  Nothing orders   *)
(* the reading of a run and of its artifacts against a new attempt; what   *)
(* saves the claim is that a success stays on record, that the artifacts   *)
(* of a bound workflow name their attempt, and that the release's own list *)
(* of prerequisites was made under the same two rules.                     *)
(***************************************************************************)
EXTENDS ReleaseEvidence, TLAPS

Numbers == {0} \cup Attempts
Docs    == [of : Prerequisites, attempt : Numbers, job : AllJobs, made : Numbers]
Files   == [attempt : Numbers, pass : BOOLEAN, whole : BOOLEAN, doc : SUBSET Docs]

TypeInv ==
    /\ ReleaseTypeOK
    /\ files \in [AllJobs -> Files] /\ down \in [AllJobs -> Files]
    /\ collect \in [at : {"idle", "found"}, attempt : Numbers, doc : SUBSET Docs]

\* A run that is called a success has been recorded as one; an attempt is under
\* way while jobs are to end; each attempt but the first is a rerun.
RunsInv ==
    \A w \in Workflows :
        /\ runs[w].status = "success" => <<w, runs[w].attempt>> \in passed
        /\ todo[w] # {} => runs[w].status = "running"
        /\ runs[w].status # "none" => runs[w].attempt > 0
        /\ runs[w].attempt <= reruns + 1

\* What the attempt n of w was, when it was read: one of this commit that
\* succeeded.
Counted(w, n) == <<w, n>> \in passed /\ runs[w].ours

\* What a prerequisite on the release's list was.
Listed(d) == /\ Counted(d.of, d.attempt)
             /\ d.of \in Bound => d.made = d.attempt

\* The lists that are made, stored and downloaded, and the runs that are read.
ReadInv ==
    /\ \A d \in collect.doc \cup files["prerequisite"].doc \cup down["prerequisite"].doc : Listed(d)
    /\ ~(Prerequisites \subseteq Collected)
    /\ collect.at = "found" => Counted(Current, collect.attempt)
    /\ \A w \in Workflows : meta[w] # NoRun => Counted(w, meta[w].attempt)

\* What is claimed holds, and only that gets into the manifest.
ClaimInv ==
    /\ step \in {"manifest", "done"} => \A g \in Gates : claims[g] = "verified" => Backed(g)
    /\ step # "done" => manifest = NoManifest
    /\ VerifiedIsBacked

EvidenceInv == TypeInv /\ RunsInv /\ ReadInv /\ ClaimInv

-----------------------------------------------------------------------------
(* The constants                                                            *)

USE DEF Release

LEMMA Constants ==
    ASSUME ReleaseEvidenceAssumption
    PROVE  /\ Release \in Workflows /\ Prerequisites # {} /\ Release \notin Prerequisites
           /\ Prerequisites \subseteq {"mobile_ci", "staging_e2e", "staging_load"}
           /\ Workflows = Prerequisites \cup {Release}
           /\ "none" \notin Workflows /\ "claims" \notin Workflows /\ "manifest" \notin Workflows
           /\ "done" \notin Workflows /\ "failed" \notin Workflows
           /\ MaxReruns \in Nat
  BY DEF ReleaseEvidenceAssumption, Prerequisites

LEMMA JobFacts ==
    ASSUME ReleaseEvidenceAssumption
    PROVE  /\ \A w \in Workflows : Jobs(w) # {} /\ Jobs(w) \subseteq AllJobs
           /\ Jobs(Release) = {"prerequisite", "signed"}
           /\ "prerequisite" \in AllJobs /\ "signed" \in AllJobs
           /\ \A w \in Prerequisites : "prerequisite" \notin Jobs(w)
  <1>1. \A w \in Workflows : Jobs(w) \subseteq AllJobs
    BY DEF AllJobs
  <1>2. Jobs(Release) = {"prerequisite", "signed"}
    BY DEF Jobs
  <1>3. \A w \in Prerequisites : Jobs(w) # {} /\ "prerequisite" \notin Jobs(w)
    BY Constants DEF Jobs
  <1> QED  BY <1>1, <1>2, <1>3, Constants

LEMMA NumberFacts ==
    ASSUME ReleaseEvidenceAssumption
    PROVE  /\ 0 \in Numbers /\ Numbers \subseteq Nat /\ 1 \in Attempts
           /\ \A n \in Nat : n > 0 /\ n <= MaxReruns + 1 => n \in Attempts
           /\ Attempts \subseteq Numbers
           /\ \A n \in Attempts : n \in Nat /\ n > 0 /\ n <= MaxReruns + 1
  <1>1. MaxReruns \in Nat
    BY Constants
  <1> QED  BY <1>1 DEF Numbers, Attempts

\* The next workflow in the order of the scripts.
LEMMA AfterFact ==
    ASSUME ReleaseEvidenceAssumption, NEW done, NEW last
    PROVE  /\ Workflows \subseteq done => After(done, last) = last
           /\ ~(Workflows \subseteq done) => After(done, last) \in Workflows \ done
  <1>1. CASE Workflows \subseteq done
    BY <1>1 DEF After
  <1>2. CASE ~(Workflows \subseteq done)
    <2> DEFINE P(i) == /\ Order[i] \in Workflows \ done
                       /\ \A k \in 1..(i - 1) : Order[k] \notin Workflows \ done
    <2>1. /\ Order[1] = "mobile_ci" /\ Order[2] = "staging_e2e" /\ Order[3] = "staging_load"
          /\ Order[4] = Release
      BY DEF Order
    <2>2. \E i \in 1..4 : Order[i] \in Workflows \ done
      <3>1. PICK w \in Workflows : w \notin done
        BY <1>2
      <3>2. w \in {Order[1], Order[2], Order[3], Order[4]}
        BY <2>1 DEF ReleaseEvidenceAssumption
      <3>3. 1 \in 1..4 /\ 2 \in 1..4 /\ 3 \in 1..4 /\ 4 \in 1..4
        OBVIOUS
      <3> QED  BY <3>1, <3>2, <3>3
    <2>3. \E i \in 1..4 : P(i)
      <3>1. CASE Order[1] \in Workflows \ done
        <4>1. P(1)
          BY <3>1
        <4> QED  BY <4>1
      <3>2. CASE Order[1] \notin Workflows \ done /\ Order[2] \in Workflows \ done
        <4>1. \A k \in 1..(2 - 1) : k = 1
          OBVIOUS
        <4>2. P(2)
          BY <3>2, <4>1
        <4> QED  BY <4>2
      <3>3. CASE /\ Order[1] \notin Workflows \ done /\ Order[2] \notin Workflows \ done
                 /\ Order[3] \in Workflows \ done
        <4>1. \A k \in 1..(3 - 1) : k \in {1, 2}
          OBVIOUS
        <4>2. P(3)
          BY <3>3, <4>1
        <4> QED  BY <4>2
      <3>4. CASE /\ Order[1] \notin Workflows \ done /\ Order[2] \notin Workflows \ done
                 /\ Order[3] \notin Workflows \ done
        <4>1. \A k \in 1..(4 - 1) : k \in {1, 2, 3}
          OBVIOUS
        <4>2. \A i \in 1..4 : i \in {1, 2, 3, 4}
          OBVIOUS
        <4>3. Order[4] \in Workflows \ done
          BY <2>2, <3>4, <4>2
        <4>4. P(4)
          BY <3>4, <4>1, <4>3
        <4> QED  BY <4>4
      <3> QED  BY <3>1, <3>2, <3>3, <3>4
    <2> DEFINE n == CHOOSE i \in 1..4 : P(i)
    <2>4. P(n)
      BY <2>3
    <2>5. After(done, last) = Order[n]
      BY <1>2 DEF After
    <2> QED  BY <1>2, <2>4, <2>5
  <1> QED  BY <1>1, <1>2

LEMMA FollowingFact ==
    ASSUME ReleaseEvidenceAssumption, NEW w
    PROVE  Following(w) \in Workflows \cup {"claims"}
  BY AfterFact DEF Following

\* The next prerequisite, as long as there is one.
LEMMA CurrentFact ==
    ASSUME ReleaseEvidenceAssumption, NEW done, done \subseteq Prerequisites
    PROVE  /\ ~(Prerequisites \subseteq done) => After(done \cup {Release}, "none") \in Prerequisites \ done
           /\ After(done \cup {Release}, "none") # "none" <=> ~(Prerequisites \subseteq done)
  <1>1. Workflows \subseteq done \cup {Release} <=> Prerequisites \subseteq done
    BY Constants
  <1>2. (Workflows \ (done \cup {Release})) \subseteq Prerequisites \ done
    BY Constants
  <1> QED  BY <1>1, <1>2, AfterFact, Constants

\* The jobs of a gate are those of its run, whose artifacts are there.
LEMMA GateFacts ==
    ASSUME ReleaseEvidenceAssumption, NEW g \in Automated
    PROVE  /\ RunOf(g) \in Workflows /\ JobsOf(g) \subseteq Jobs(RunOf(g))
           /\ g \in {"mobile_ci", "database_rls", "staging_e2e", "staging_load", "signed_android_ios"}
  <1>1. g \in {"mobile_ci", "database_rls", "staging_e2e", "staging_load", "signed_android_ios"}
    BY Constants DEF Automated
  <1>2. g \in Prerequisites => RunOf(g) = g
    BY Constants DEF RunOf
  <1>3. RunOf(g) \in Workflows
    BY <1>2, Constants DEF Automated
  <1>4. JobsOf(g) \subseteq Jobs(RunOf(g))
    BY <1>1 DEF JobsOf, Jobs, RunOf
  <1> QED  BY <1>1, <1>3, <1>4


-----------------------------------------------------------------------------
(* What a step of the workflows leaves alone                                *)

\* What counts goes on counting: a success stays on record, a run of this
\* commit stays one.
Grows == passed \subseteq passed' /\ \A w \in Workflows : runs[w].ours => runs'[w].ours

LEMMA CountedStays ==
    ASSUME Grows, NEW w \in Workflows, NEW n, Counted(w, n)
    PROVE  Counted(w, n)'
  BY DEF Grows, Counted

LEMMA ListedStays ==
    ASSUME ReleaseEvidenceAssumption, Grows, NEW d \in Docs, Listed(d)
    PROVE  Listed(d)'
  <1>1. d.of \in Workflows
    BY Constants DEF Docs
  <1>2. Counted(d.of, d.attempt)'
    BY <1>1, CountedStays DEF Listed
  <1> QED  BY <1>2 DEF Listed

LEMMA BackedStays ==
    ASSUME ReleaseEvidenceAssumption, TypeInv, Grows, UNCHANGED <<meta, down, manual>>,
           NEW g \in Gates, Backed(g)
    PROVE  Backed(g)'
  <1>1. CASE g \notin Automated
    BY <1>1 DEF Backed
  <1>2. CASE g \in Automated
    <2> DEFINE w == RunOf(g)
    <2>1. w \in Workflows
      BY <1>2, GateFacts
    <2>2. <<w, meta[w].attempt>> \in passed' /\ runs'[w].ours
      BY <1>2, <2>1 DEF Backed, Grows
    <2>3. \A d \in down["prerequisite"].doc : d.of \in Workflows
      BY JobFacts, Constants DEF TypeInv, Files, Docs
    <2>4. w = Release => \A d \in down["prerequisite"].doc :
                            /\ <<d.of, d.attempt>> \in passed' /\ runs'[d.of].ours
                            /\ d.of \in Bound => d.made = d.attempt
      BY <1>2, <2>3 DEF Backed, Grows
    <2> HIDE DEF w
    <2>5. \A j \in JobsOf(g) : /\ down[j].pass
                               /\ w \in Bound => down[j].attempt = meta[w].attempt /\ down[j].whole
      BY <1>2 DEF Backed, w
    <2> QED  BY <1>2, <2>2, <2>4, <2>5 DEF Backed, w
  <1> QED  BY <1>1, <1>2

\* Steps of the workflows and of the release's first job: nothing is claimed.
LEMMA ClaimsStay ==
    ASSUME ReleaseEvidenceAssumption, EvidenceInv, Grows, UNCHANGED <<evidence, manual>>
    PROVE  ClaimInv' /\ \A w \in Workflows : meta[w] # NoRun => Counted(w, meta[w].attempt)'
  <1> USE DEF evidence
  <1>1. \A g \in Gates : Backed(g) => Backed(g)'
    BY BackedStays DEF EvidenceInv
  <1>2. manifest.verified \subseteq Gates
    BY DEF EvidenceInv, TypeInv, ReleaseTypeOK
  <1>3. VerifiedIsBacked'
    BY <1>1, <1>2 DEF EvidenceInv, ClaimInv, VerifiedIsBacked
  <1>4. ClaimInv'
    BY <1>1, <1>3 DEF EvidenceInv, ClaimInv
  <1>5. \A w \in Workflows : meta[w] # NoRun => Counted(w, meta[w].attempt)'
    BY CountedStays DEF EvidenceInv, ReadInv
  <1> QED  BY <1>4, <1>5

\* The lists that are there stay good; a new one may take the place of one.
LEMMA ReadStays ==
    ASSUME ReleaseEvidenceAssumption, EvidenceInv, Grows, UNCHANGED <<evidence, manual, collect>>,
           files'["prerequisite"] = files["prerequisite"]
    PROVE  ReadInv'
  <1> USE DEF evidence
  <1> DEFINE S == collect.doc \cup files["prerequisite"].doc \cup down["prerequisite"].doc
  <1>1. S \subseteq Docs
    BY JobFacts DEF EvidenceInv, TypeInv, Files
  <1>2. \A d \in S : Listed(d)'
    BY <1>1, ListedStays DEF EvidenceInv, ReadInv
  <1>3. Collected \subseteq Prerequisites
    BY DEF Collected, EvidenceInv, TypeInv, Docs
  <1>4. Current \in Prerequisites
    BY <1>3, CurrentFact DEF Current, EvidenceInv, ReadInv
  <1>5. Current \in Workflows
    BY <1>4, Constants
  <1>6. UNCHANGED <<Current, Collected>>
    BY DEF Current, Collected
  <1>7. \A v \in Workflows : \A n : Counted(v, n) => Counted(v, n)'
    BY CountedStays
  <1>8. (collect.at = "found" => Counted(Current, collect.attempt))'
    BY <1>5, <1>6, <1>7 DEF EvidenceInv, ReadInv, Counted
  <1>9. (\A d \in collect.doc \cup files["prerequisite"].doc \cup down["prerequisite"].doc : Listed(d))'
    BY <1>2
  <1> QED  BY <1>6, <1>8, <1>9, ClaimsStay DEF EvidenceInv, ReadInv


-----------------------------------------------------------------------------
(* The workflows' runs                                                      *)

\* The part of the types that is GitHub's.
GithubTypes ==
    /\ runs \in [Workflows -> Runs]
    /\ todo \in [Workflows -> SUBSET AllJobs] /\ \A w \in Workflows : todo[w] \subseteq Jobs(w)
    /\ result \in [AllJobs -> BOOLEAN]
    /\ files \in [AllJobs -> Files]
    /\ passed \subseteq Workflows \X Attempts

LEMMA TypesFrom ==
    ASSUME ReleaseEvidenceAssumption, TypeInv, GithubTypes', reruns' \in 0..MaxReruns,
           UNCHANGED <<evidence, manual>>,
           collect' \in [at : {"idle", "found"}, attempt : Numbers, doc : SUBSET Docs]
    PROVE  TypeInv'
  <1> USE DEF evidence
  <1>1. \A j \in AllJobs : {files'[j].attempt, down'[j].attempt} \subseteq {0} \cup Attempts
    BY DEF GithubTypes, TypeInv, Files, Numbers
  <1>2. collect'.at \in {"idle", "found"}
    OBVIOUS
  <1> QED  BY <1>1, <1>2 DEF TypeInv, ReleaseTypeOK, GithubTypes

\* The end of a job: a success is recorded, and nothing that counts is lost.
LEMMA EndsFact ==
    ASSUME ReleaseEvidenceAssumption, TypeInv, RunsInv, NEW w \in Workflows, NEW j \in Jobs(w),
           NEW ok \in BOOLEAN, NEW file \in Files, Ends(w, j, ok, file), UNCHANGED reruns
    PROVE  /\ GithubTypes' /\ RunsInv' /\ Grows
           /\ \A k \in AllJobs : files'[k] = IF k = j THEN file ELSE files[k]
  <1>1. j \in AllJobs
    BY JobFacts
  <1>2. \A k \in AllJobs : files'[k] = IF k = j THEN file ELSE files[k]
    BY DEF Ends, TypeInv
  <1>3. files' \in [AllJobs -> Files]
    BY DEF Ends, TypeInv
  <1>4. todo' \in [Workflows -> SUBSET AllJobs] /\ \A v \in Workflows : todo'[v] \subseteq Jobs(v)
    BY DEF Ends, TypeInv, ReleaseTypeOK
  <1>5. result' \in [AllJobs -> BOOLEAN]
    BY DEF Ends, TypeInv, ReleaseTypeOK
  <1>6. \A v \in Workflows : todo'[v] = IF v = w THEN todo[w] \ {j} ELSE todo[v]
    BY DEF Ends, TypeInv, ReleaseTypeOK
  <1>7. CASE todo[w] = {j}
    <2> DEFINE success == \A k \in Jobs(w) : [result EXCEPT ![j] = ok][k]
               status == IF success THEN "success" ELSE "failure"
    <2>1. runs' = [runs EXCEPT ![w].status = status]
      BY <1>7 DEF Ends
    <2>2. passed' = IF success THEN passed \cup {<<w, runs[w].attempt>>} ELSE passed
      BY <1>7 DEF Ends
    <2>3. status \in {"success", "failure"} /\ (status = "success" => success)
      OBVIOUS
    <2> HIDE DEF status, success
    <2>4. runs \in [Workflows -> Runs] /\ passed \subseteq Workflows \X Attempts
      BY DEF TypeInv, ReleaseTypeOK
    <2>5. runs' \in [Workflows -> Runs]
      BY <2>1, <2>3, <2>4 DEF Runs
    <2>6. \A v \in Workflows :
             /\ runs'[v].ours = runs[v].ours /\ runs'[v].attempt = runs[v].attempt
             /\ runs'[v].status = IF v = w THEN status ELSE runs[v].status
      BY <2>1, <2>4 DEF Runs
    <2>7. runs[w].status = "running" /\ runs[w].attempt > 0
      BY <1>7 DEF RunsInv
    <2>8. runs[w].attempt \in Attempts
      BY <2>4, <2>7 DEF Runs
    <2>9. passed' \subseteq Workflows \X Attempts
      BY <2>2, <2>4, <2>8
    <2>10. \A v \in Workflows : runs'[v].status = "success" => <<v, runs'[v].attempt>> \in passed'
      BY <2>2, <2>3, <2>6 DEF RunsInv
    <2>11. \A v \in Workflows : todo'[v] # {} => runs'[v].status = "running"
      BY <1>6, <1>7, <2>6 DEF RunsInv
    <2>12. RunsInv'
      BY <2>6, <2>7, <2>10, <2>11 DEF RunsInv
    <2>13. Grows
      BY <2>2, <2>6 DEF Grows
    <2> QED  BY <1>2, <1>3, <1>4, <1>5, <2>5, <2>9, <2>12, <2>13 DEF GithubTypes
  <1>8. CASE todo[w] # {j}
    <2>1. UNCHANGED <<runs, passed>>
      BY <1>8 DEF Ends
    <2>2. \A v \in Workflows : todo'[v] # {} => todo[v] # {}
      BY <1>6
    <2>3. RunsInv'
      BY <2>1, <2>2 DEF RunsInv
    <2>4. Grows
      BY <2>1 DEF Grows
    <2> QED  BY <1>2, <1>3, <1>4, <1>5, <2>1, <2>3, <2>4 DEF GithubTypes, TypeInv, ReleaseTypeOK
  <1> QED  BY <1>7, <1>8

LEMMA StartReleaseInv ==
    ASSUME ReleaseEvidenceAssumption, EvidenceInv, StartRelease
    PROVE  EvidenceInv'
  <1> DEFINE r == [status |-> "running", attempt |-> 1, ours |-> TRUE]
  <1>1. Release \in Workflows /\ MaxReruns \in Nat /\ r \in Runs
    BY Constants, NumberFacts DEF Runs
  <1>2. runs' = [runs EXCEPT ![Release] = r] /\ todo' = [todo EXCEPT ![Release] = Jobs(Release)]
    BY DEF StartRelease
  <1>3. r.status = "running" /\ r.attempt = 1 /\ r.ours
    OBVIOUS
  <1> HIDE DEF r
  <1>4. runs \in [Workflows -> Runs] /\ todo \in [Workflows -> SUBSET AllJobs] /\ reruns \in 0..MaxReruns
    BY DEF EvidenceInv, TypeInv, ReleaseTypeOK
  <1>5. \A w \in Workflows : /\ runs'[w] = IF w = Release THEN r ELSE runs[w]
                             /\ todo'[w] = IF w = Release THEN Jobs(Release) ELSE todo[w]
    BY <1>2, <1>4
  <1>6. GithubTypes'
    <2>1. runs' \in [Workflows -> Runs] /\ todo' \in [Workflows -> SUBSET AllJobs]
      BY <1>1, <1>2, <1>4, JobFacts
    <2>2. \A w \in Workflows : todo'[w] \subseteq Jobs(w)
      BY <1>5 DEF EvidenceInv, TypeInv, ReleaseTypeOK
    <2> QED  BY <2>1, <2>2 DEF StartRelease, GithubTypes, EvidenceInv, TypeInv, ReleaseTypeOK
  <1>7. TypeInv'
    BY <1>4, <1>6, TypesFrom DEF StartRelease, EvidenceInv, TypeInv
  <1>8. Grows
    BY <1>3, <1>5 DEF Grows, StartRelease
  <1>9. RunsInv'
    <2>1. UNCHANGED <<passed, reruns>>
      BY DEF StartRelease
    <2>2. 1 <= reruns + 1 /\ 1 > 0
      BY <1>1, <1>4
    <2> QED  BY <1>3, <1>5, <2>1, <2>2 DEF RunsInv, EvidenceInv
  <1>10. ReadInv' /\ ClaimInv'
    BY <1>8, ReadStays, ClaimsStay DEF StartRelease
  <1> QED  BY <1>7, <1>9, <1>10 DEF EvidenceInv

LEMMA RerunInv ==
    ASSUME ReleaseEvidenceAssumption, EvidenceInv, NEW w \in Workflows, Rerun(w)
    PROVE  EvidenceInv'
  <1>1. PICK again \in (SUBSET Jobs(w)) \ {{}} : todo' = [todo EXCEPT ![w] = again]
    BY DEF Rerun
  <1>2. /\ runs \in [Workflows -> Runs] /\ todo \in [Workflows -> SUBSET AllJobs]
        /\ reruns \in 0..MaxReruns /\ MaxReruns \in Nat
    BY Constants DEF EvidenceInv, TypeInv, ReleaseTypeOK
  <1>3. /\ runs[w].attempt \in Nat /\ runs[w].attempt > 0 /\ runs[w].attempt <= reruns + 1
        /\ reruns < MaxReruns
    BY <1>2, NumberFacts DEF Rerun, RunsInv, EvidenceInv, Runs, Numbers
  <1>4. reruns' = reruns + 1 /\ reruns' \in 0..MaxReruns
    BY <1>2, <1>3 DEF Rerun
  <1>5. runs[w].attempt + 1 \in Nat /\ runs[w].attempt + 1 > 0 /\ runs[w].attempt + 1 <= reruns + 2
    BY <1>2, <1>3
  <1>6. runs[w].attempt + 1 \in Attempts
    <2>1. runs[w].attempt + 1 <= MaxReruns + 1
      BY <1>2, <1>3
    <2> QED  BY <1>5, <2>1, NumberFacts
  <1>7. runs' = [runs EXCEPT ![w].status = "running", ![w].attempt = @ + 1]
    BY DEF Rerun
  <1>8. \A v \in Workflows :
           /\ runs'[v].ours = runs[v].ours
           /\ runs'[v].status = IF v = w THEN "running" ELSE runs[v].status
           /\ runs'[v].attempt = IF v = w THEN runs[w].attempt + 1 ELSE runs[v].attempt
    BY <1>2, <1>7 DEF Runs
  <1>9. \A v \in Workflows : todo'[v] = IF v = w THEN again ELSE todo[v]
    BY <1>1, <1>2
  <1>10. GithubTypes'
    <2>1. runs' \in [Workflows -> Runs]
      BY <1>2, <1>6, <1>7 DEF Runs
    <2>2. todo' \in [Workflows -> SUBSET AllJobs]
      BY <1>1, <1>2, JobFacts
    <2>3. \A v \in Workflows : todo'[v] \subseteq Jobs(v)
      BY <1>9 DEF EvidenceInv, TypeInv, ReleaseTypeOK
    <2> QED  BY <2>1, <2>2, <2>3 DEF Rerun, GithubTypes, EvidenceInv, TypeInv, ReleaseTypeOK
  <1>11. TypeInv'
    BY <1>4, <1>10, TypesFrom DEF Rerun, EvidenceInv, TypeInv
  <1>12. Grows
    BY <1>8 DEF Grows, Rerun
  <1>13. RunsInv'
    <2>1. passed' = passed
      BY DEF Rerun
    <2>2. \A v \in Workflows : runs[v].attempt \in Nat
      BY <1>2, NumberFacts DEF Runs, Numbers
    <2>3. \A v \in Workflows : runs[v].attempt <= reruns + 1
      BY DEF RunsInv, EvidenceInv
    <2>4. ASSUME NEW v \in Workflows PROVE runs'[v].attempt <= reruns' + 1
      <3>1. CASE v = w
        BY <1>2, <1>4, <1>5, <1>8, <3>1
      <3>2. CASE v # w
        BY <1>2, <1>4, <1>8, <2>2, <2>3, <3>2
      <3> QED  BY <3>1, <3>2
    <2> QED  BY <1>5, <1>8, <1>9, <2>1, <2>4 DEF RunsInv, EvidenceInv
  <1>14. ReadInv' /\ ClaimInv'
    BY <1>12, ReadStays, ClaimsStay DEF Rerun
  <1> QED  BY <1>11, <1>13, <1>14 DEF EvidenceInv

LEMMA JobEndsInv ==
    ASSUME ReleaseEvidenceAssumption, EvidenceInv, NEW w \in Workflows, NEW j \in Jobs(w), JobEnds(w, j)
    PROVE  EvidenceInv'
  <1>1. j \in AllJobs /\ "prerequisite" \in AllJobs /\ j # "prerequisite"
    BY JobFacts DEF JobEnds
  <1>2. files[j] \in Files
    BY <1>1 DEF EvidenceInv, TypeInv
  <1>3. runs[w].attempt \in Numbers
    BY DEF EvidenceInv, TypeInv, ReleaseTypeOK, Runs, Numbers
  <1>4. \A ok \in BOOLEAN : File(runs[w].attempt, ok, {}) \in Files
    BY <1>3 DEF File, Files
  <1>5. \E ok \in BOOLEAN, file \in Files : Ends(w, j, ok, file)
    BY <1>2, <1>4 DEF JobEnds
  <1>6. UNCHANGED <<collect, manual, evidence, reruns>>
    BY DEF JobEnds
  <1>7. /\ GithubTypes' /\ RunsInv' /\ Grows
        /\ \A k \in AllJobs : k # j => files'[k] = files[k]
    <2>1. PICK ok \in BOOLEAN, file \in Files : Ends(w, j, ok, file)
      BY <1>5
    <2>2. /\ GithubTypes' /\ RunsInv' /\ Grows
          /\ \A k \in AllJobs : files'[k] = IF k = j THEN file ELSE files[k]
      BY <1>6, <2>1, EndsFact DEF EvidenceInv
    <2> QED  BY <2>2
  <1>8. TypeInv'
    BY <1>6, <1>7, TypesFrom DEF EvidenceInv, TypeInv, ReleaseTypeOK
  <1>9. ReadInv' /\ ClaimInv'
    BY <1>1, <1>6, <1>7, ReadStays, ClaimsStay
  <1> QED  BY <1>7, <1>8, <1>9 DEF EvidenceInv


-----------------------------------------------------------------------------
(* check-github-release-evidence.mjs                                        *)

LEMMA CollectFacts ==
    ASSUME ReleaseEvidenceAssumption, EvidenceInv
    PROVE  /\ Collected \subseteq Prerequisites
           /\ Current \in Prerequisites /\ Current \in Workflows
           /\ Collected' = {d.of : d \in collect'.doc}
           /\ Current' = After(Collected' \cup {Release}, "none")
  <1>1. Collected \subseteq Prerequisites
    BY DEF Collected, EvidenceInv, TypeInv, Docs
  <1>2. Current \in Prerequisites
    BY <1>1, CurrentFact DEF Current, EvidenceInv, ReadInv
  <1> QED  BY <1>1, <1>2, Constants DEF Collected, Current

\* The first job of the release is over, with the list it has made.
LEMMA CollectEnds ==
    ASSUME ReleaseEvidenceAssumption, EvidenceInv, collect' = NoCollect, NEW ok \in BOOLEAN,
           NEW file \in Files, Ends(Release, "prerequisite", ok, file), Grows => \A d \in file.doc : Listed(d)',
           UNCHANGED <<manual, evidence, reruns>>
    PROVE  EvidenceInv'
  <1> DEFINE j == "prerequisite"
  <1>1. j \in Jobs(Release) /\ j \in AllJobs /\ Release \in Workflows
    BY JobFacts, Constants
  <1> HIDE DEF j
  <1>2. /\ GithubTypes' /\ RunsInv' /\ Grows
        /\ \A k \in AllJobs : files'[k] = IF k = j THEN file ELSE files[k]
    BY <1>1, EndsFact DEF EvidenceInv, j
  <1>3. collect' \in [at : {"idle", "found"}, attempt : Numbers, doc : SUBSET Docs]
    BY NumberFacts DEF NoCollect
  <1>4. TypeInv'
    BY <1>2, <1>3, TypesFrom DEF EvidenceInv, TypeInv, ReleaseTypeOK
  <1>5. files'[j] = file /\ collect'.doc = {} /\ collect'.at = "idle" /\ down' = down
    BY <1>1, <1>2 DEF NoCollect, evidence
  <1>6. \A d \in down[j].doc : Listed(d)'
    <2>1. down[j].doc \subseteq Docs
      BY <1>1 DEF EvidenceInv, TypeInv, Files
    <2>2. \A d \in down[j].doc : Listed(d)
      BY DEF EvidenceInv, ReadInv, j
    <2> QED  BY <1>2, <2>1, <2>2, ListedStays
  <1>7. \A d \in collect'.doc \cup files'["prerequisite"].doc \cup down'["prerequisite"].doc : Listed(d)'
    BY <1>2, <1>5, <1>6 DEF j
  <1>8. Collected' = {}
    BY <1>5, CollectFacts
  <1>9. ReadInv'
    BY <1>2, <1>5, <1>7, <1>8, ClaimsStay, Constants DEF ReadInv, evidence
  <1> QED  BY <1>2, <1>4, <1>9, ClaimsStay DEF EvidenceInv

LEMMA CollectFailsInv ==
    ASSUME ReleaseEvidenceAssumption, EvidenceInv, CollectFails, UNCHANGED <<manual, evidence, reruns>>
    PROVE  EvidenceInv'
  <1>1. files["prerequisite"] \in Files
    BY JobFacts DEF EvidenceInv, TypeInv
  <1>2. \A d \in files["prerequisite"].doc : d \in Docs /\ Listed(d)
    BY <1>1 DEF EvidenceInv, ReadInv, Files
  <1>3. Grows => \A d \in files["prerequisite"].doc : Listed(d)'
    BY <1>2, ListedStays
  <1>4. ASSUME NEW file, file = files["prerequisite"] PROVE EvidenceInv'
    <2>1. collect' = NoCollect /\ Ends(Release, "prerequisite", FALSE, file)
      BY <1>4 DEF CollectFails
    <2>2. file \in Files /\ (Grows => \A d \in file.doc : Listed(d)')
      BY <1>1, <1>3, <1>4
    <2> QED  BY <2>1, <2>2, CollectEnds
  <1> QED  BY <1>4

\* A step of the script that reads and writes no list: the attempt it goes on
\* with counts.
LEMMA CollectGoesOn ==
    ASSUME ReleaseEvidenceAssumption, EvidenceInv, UNCHANGED <<github, manual, evidence, reruns>>,
           collect' \in [at : {"idle", "found"}, attempt : Numbers, doc : SUBSET Docs],
           \A d \in collect'.doc : Listed(d), ~(Prerequisites \subseteq Collected'),
           collect'.at = "found" => Counted(Current', collect'.attempt)
    PROVE  EvidenceInv'
  <1> USE DEF github
  <1>1. Grows
    BY DEF Grows
  <1>2. GithubTypes'
    BY DEF GithubTypes, EvidenceInv, TypeInv, ReleaseTypeOK
  <1>3. TypeInv'
    BY <1>2, TypesFrom DEF EvidenceInv, TypeInv, ReleaseTypeOK
  <1>4. RunsInv'
    BY DEF RunsInv, EvidenceInv
  <1>5. \A d : Listed(d) => Listed(d)'
    BY DEF Listed, Counted
  <1>6. \A d \in collect'.doc \cup files'["prerequisite"].doc \cup down'["prerequisite"].doc : Listed(d)'
    BY <1>5 DEF EvidenceInv, ReadInv, evidence
  <1>7. (collect.at = "found" => Counted(Current, collect.attempt))'
    BY DEF Counted
  <1>8. ReadInv'
    BY <1>1, <1>6, <1>7, ClaimsStay DEF ReadInv, evidence
  <1> QED  BY <1>1, <1>3, <1>4, <1>8, ClaimsStay DEF EvidenceInv

LEMMA CollectRunInv ==
    ASSUME ReleaseEvidenceAssumption, EvidenceInv, CollectRun
    PROVE  EvidenceInv'
  <1>1. UNCHANGED <<manual, evidence, reruns>>
    BY DEF CollectRun
  <1>2. CASE CollectFails
    BY <1>1, <1>2, CollectFailsInv
  <1>3. CASE ~CollectFails
    <2>1. /\ runs[Current].status = "success" /\ runs[Current].ours
          /\ collect' = [collect EXCEPT !.at = "found", !.attempt = runs[Current].attempt]
          /\ UNCHANGED github
      BY <1>3 DEF CollectRun
    <2>2. Current \in Workflows
      BY CollectFacts
    <2>3. Counted(Current, runs[Current].attempt) /\ runs[Current].attempt \in Numbers
      BY <2>1, <2>2 DEF Counted, RunsInv, EvidenceInv, TypeInv, ReleaseTypeOK, Runs, Numbers
    <2>4. /\ collect' \in [at : {"idle", "found"}, attempt : Numbers, doc : SUBSET Docs]
          /\ collect'.doc = collect.doc /\ collect'.attempt = runs[Current].attempt
      BY <2>1, <2>3 DEF EvidenceInv, TypeInv
    <2>5. Collected' = Collected /\ Current' = Current
      BY <2>4 DEF Collected, Current
    <2>6. /\ \A d \in collect'.doc : Listed(d)
          /\ ~(Prerequisites \subseteq Collected')
          /\ collect'.at = "found" => Counted(Current', collect'.attempt)
      BY <2>3, <2>4, <2>5 DEF EvidenceInv, ReadInv
    <2> QED  BY <1>1, <2>1, <2>4, <2>6, CollectGoesOn
  <1> QED  BY <1>2, <1>3

LEMMA CollectArtifactsInv ==
    ASSUME ReleaseEvidenceAssumption, EvidenceInv, CollectArtifacts
    PROVE  EvidenceInv'
  <1> DEFINE w   == Current
             new == {[of |-> w, attempt |-> collect.attempt, job |-> j, made |-> files[j].attempt] :
                        j \in Jobs(w)}
             doc == collect.doc \cup new
             go  == After(Collected \cup {w, Release}, "none") # "none"
             file == File(runs[Release].attempt, TRUE, doc)
  <1>1. UNCHANGED <<manual, evidence, reruns>> /\ collect.at = "found"
    BY DEF CollectArtifacts
  <1>2. CASE CollectFails
    BY <1>1, <1>2, CollectFailsInv
  <1>3. CASE ~CollectFails
    <2>1. /\ \A j \in Jobs(w) : SameAttempt(w, j, collect.attempt)
          /\ IF go THEN collect' = [at |-> "idle", attempt |-> 0, doc |-> doc] /\ UNCHANGED github
                   ELSE collect' = NoCollect /\ Ends(Release, "prerequisite", TRUE, file)
      BY <1>3 DEF CollectArtifacts
    <2>2. w \in Prerequisites /\ w \in Workflows /\ Collected \subseteq Prerequisites
      BY CollectFacts
    <2>3. /\ \A d \in collect.doc : Listed(d)
          /\ Counted(w, collect.attempt)
      BY <1>1 DEF EvidenceInv, ReadInv
    <2>4. collect.attempt \in Numbers /\ collect.doc \subseteq Docs
      BY DEF EvidenceInv, TypeInv
    <2>5. \A j \in Jobs(w) : j \in AllJobs /\ files[j].attempt \in Numbers
      BY <2>2, JobFacts DEF EvidenceInv, TypeInv, Files
    <2>6. ASSUME NEW d \in new PROVE d \in Docs /\ Listed(d) /\ d.of = w
      <3>1. PICK j \in Jobs(w) :
               d = [of |-> w, attempt |-> collect.attempt, job |-> j, made |-> files[j].attempt]
        BY DEF new
      <3>2. w \in Bound => files[j].attempt = collect.attempt
        BY <2>1 DEF SameAttempt
      <3> HIDE DEF w
      <3>3. d \in Docs
        BY <2>2, <2>4, <2>5, <3>1 DEF Docs
      <3>4. Listed(d) /\ d.of = w
        BY <2>3, <3>1, <3>2 DEF Listed
      <3> QED  BY <3>3, <3>4
    <2>7. doc \in SUBSET Docs /\ \A d \in doc : Listed(d)
      BY <2>3, <2>4, <2>6
    <2>8. go <=> ~(Prerequisites \subseteq Collected \cup {w})
      <3> HIDE DEF w
      <3>1. Collected \cup {w, Release} = (Collected \cup {w}) \cup {Release}
        OBVIOUS
      <3>2. Collected \cup {w} \subseteq Prerequisites
        BY <2>2
      <3>3. \A S : S \subseteq Prerequisites =>
               (After(S \cup {Release}, "none") # "none" <=> ~(Prerequisites \subseteq S))
        BY CurrentFact
      <3>4. After((Collected \cup {w}) \cup {Release}, "none") # "none"
               <=> ~(Prerequisites \subseteq Collected \cup {w})
        BY <3>2, <3>3
      <3> QED  BY <3>1, <3>4 DEF go
    <2> HIDE DEF go, doc
    <2>9. CASE go
      <3>1. collect' = [at |-> "idle", attempt |-> 0, doc |-> doc] /\ UNCHANGED github
        BY <2>1, <2>9
      <3>2. collect' \in [at : {"idle", "found"}, attempt : Numbers, doc : SUBSET Docs]
        BY <2>7, <3>1, NumberFacts
      <3>3. collect'.doc = doc /\ collect'.at = "idle"
        BY <3>1
      <3>4. Collected' \subseteq Collected \cup {w}
        <4>1. Collected' = {d.of : d \in doc}
          BY <3>3, CollectFacts
        <4>2. \A d \in doc : d.of \in Collected \cup {w}
          BY <2>6 DEF doc, Collected
        <4> QED  BY <4>1, <4>2
      <3>5. ~(Prerequisites \subseteq Collected')
        BY <2>8, <2>9, <3>4
      <3> QED  BY <1>1, <2>7, <3>1, <3>2, <3>3, <3>5, CollectGoesOn
    <2>10. CASE ~go
      <3>1. collect' = NoCollect /\ Ends(Release, "prerequisite", TRUE, file)
        BY <2>1, <2>10
      <3>2. runs[Release].attempt \in Numbers
        BY Constants DEF EvidenceInv, TypeInv, ReleaseTypeOK, Runs, Numbers
      <3>3. file \in Files /\ file.doc = doc
        BY <2>7, <3>2 DEF File, Files
      <3>4. Grows => \A d \in file.doc : Listed(d)'
        BY <2>7, <3>3, ListedStays
      <3>5. ASSUME NEW f, f = file PROVE EvidenceInv'
        <4> HIDE DEF file
        <4>1. /\ f \in Files /\ Ends(Release, "prerequisite", TRUE, f)
              /\ Grows => \A d \in f.doc : Listed(d)'
          BY <3>1, <3>3, <3>4, <3>5
        <4> QED  BY <1>1, <3>1, <4>1, CollectEnds
      <3> QED  BY <3>5
    <2> QED  BY <2>9, <2>10
  <1> QED  BY <1>2, <1>3


-----------------------------------------------------------------------------
(* release-evidence.yml                                                     *)

\* The workflows' runs go their own way.
LEMMA EvidenceTypes ==
    ASSUME ReleaseEvidenceAssumption, EvidenceInv, UNCHANGED <<github, collect, reruns>>,
           meta' \in [Workflows -> Runs], down' \in [AllJobs -> Files],
           step' \in Workflows \cup {"claims", "manifest", "done", "failed"},
           claims' \in [Gates -> {"missing", "attached", "verified", "old"}],
           manual' \subseteq Gates \ Automated, manifest' \in [verified : SUBSET Gates, go : BOOLEAN]
    PROVE  TypeInv' /\ RunsInv' /\ Grows
  <1> USE DEF github
  <1>1. \A j \in AllJobs : {files'[j].attempt, down'[j].attempt} \subseteq {0} \cup Attempts
    BY DEF EvidenceInv, TypeInv, Files, Numbers
  <1>2. TypeInv'
    BY <1>1 DEF EvidenceInv, TypeInv, ReleaseTypeOK
  <1>3. RunsInv' /\ Grows
    BY DEF RunsInv, EvidenceInv, Grows
  <1> QED  BY <1>2, <1>3

\* What is on the lists and what has been read, once more.
LEMMA EvidenceRead ==
    ASSUME EvidenceInv, UNCHANGED <<github, collect>>,
           down'["prerequisite"].doc \in {down["prerequisite"].doc, files["prerequisite"].doc},
           \A w \in Workflows : meta'[w] # NoRun => Counted(w, meta'[w].attempt)
    PROVE  ReadInv'
  <1> USE DEF github
  <1>1. \A w, n : Counted(w, n) <=> Counted(w, n)'
    BY DEF Counted
  <1>2. \A d : Listed(d) <=> Listed(d)'
    BY DEF Listed, Counted
  <1>3. Collected' = Collected /\ Current' = Current
    BY DEF Collected, Current
  <1>4. (collect.at = "found" => Counted(Current, collect.attempt))'
    BY <1>3 DEF Counted, EvidenceInv, ReadInv
  <1>5. \A d \in collect'.doc \cup files'["prerequisite"].doc \cup down'["prerequisite"].doc : Listed(d)'
    BY <1>2 DEF EvidenceInv, ReadInv
  <1>6. \A w \in Workflows : meta'[w] # NoRun => (<<w, meta'[w].attempt>> \in passed' /\ runs'[w].ours)
    BY DEF Counted
  <1> QED  BY <1>3, <1>4, <1>5, <1>6 DEF EvidenceInv, ReadInv, Counted

LEMMA EarlyClaims ==
    ASSUME manifest' = NoManifest, step' \notin {"manifest", "done"}
    PROVE  ClaimInv'
  BY DEF ClaimInv, VerifiedIsBacked, NoManifest

LEMMA FetchRunInv ==
    ASSUME ReleaseEvidenceAssumption, EvidenceInv, NEW w \in Workflows, FetchRun(w)
    PROVE  EvidenceInv'
  <1>1. UNCHANGED <<github, collect, manual, down, claims, manifest, reruns>> /\ step = w
    BY DEF FetchRun
  <1>2. step' \in Workflows \cup {"claims", "failed"}
    BY FollowingFact DEF FetchRun
  <1>3. \/ meta' = meta
        \/ runs[w].status = "success" /\ runs[w].ours /\ meta' = [meta EXCEPT ![w] = runs[w]]
    BY DEF FetchRun
  <1>4. runs \in [Workflows -> Runs] /\ meta \in [Workflows -> Runs]
    BY DEF EvidenceInv, TypeInv, ReleaseTypeOK
  <1>5. meta' \in [Workflows -> Runs]
    BY <1>3, <1>4
  <1>6. \A v \in Workflows : meta'[v] # NoRun => Counted(v, meta'[v].attempt)
    BY <1>3, <1>4 DEF EvidenceInv, RunsInv, ReadInv, Counted
  <1>7. manifest = NoManifest
    BY <1>1, Constants DEF EvidenceInv, ClaimInv
  <1>8. step' \notin {"manifest", "done"}
    BY <1>2, Constants
  <1>9. TypeInv' /\ RunsInv'
    BY <1>1, <1>2, <1>5, EvidenceTypes DEF EvidenceInv, TypeInv, ReleaseTypeOK
  <1> QED  BY <1>1, <1>6, <1>7, <1>8, <1>9, EvidenceRead, EarlyClaims DEF EvidenceInv

LEMMA DownloadInv ==
    ASSUME ReleaseEvidenceAssumption, EvidenceInv, NEW w \in Workflows, Download(w)
    PROVE  EvidenceInv'
  <1>1. UNCHANGED <<github, collect, manual, meta, claims, manifest, reruns>> /\ step = w
    BY DEF Download
  <1>2. step' \in Workflows \cup {"claims", "failed"}
    BY FollowingFact DEF Download
  <1>3. files \in [AllJobs -> Files] /\ down \in [AllJobs -> Files] /\ "prerequisite" \in AllJobs
    BY JobFacts DEF EvidenceInv, TypeInv
  <1>4. /\ down' \in [AllJobs -> Files]
        /\ down'["prerequisite"].doc \in {down["prerequisite"].doc, files["prerequisite"].doc}
    <2>1. CASE UNCHANGED down
      BY <1>3, <2>1
    <2>2. CASE ~(UNCHANGED down)
      <3>1. PICK broken \in {{}} \cup {{j} : j \in Jobs(w)} :
               down' = [j \in AllJobs |-> IF j \notin Jobs(w) THEN down[j]
                                          ELSE [files[j] EXCEPT !.whole = @ /\ j \notin broken]]
        BY <2>2 DEF Download
      <3>2. ASSUME NEW f \in Files, NEW j
            PROVE  LET e == [f EXCEPT !.whole = @ /\ j \notin broken] IN e \in Files /\ e.doc = f.doc
        <4>1. (f.whole /\ j \notin broken) \in BOOLEAN
          OBVIOUS
        <4> QED  BY <4>1 DEF Files
      <3> DEFINE E(f, j) == [f EXCEPT !.whole = @ /\ j \notin broken]
      <3>3. \A f \in Files, j \in AllJobs : E(f, j) \in Files /\ E(f, j).doc = f.doc
        BY <3>2
      <3>4. down' = [j \in AllJobs |-> IF j \notin Jobs(w) THEN down[j] ELSE E(files[j], j)]
        BY <3>1
      <3> HIDE DEF E
      <3> QED  BY <1>3, <3>3, <3>4
    <2> QED  BY <2>1, <2>2
  <1>5. \A v \in Workflows : meta'[v] # NoRun => Counted(v, meta'[v].attempt)
    BY <1>1 DEF EvidenceInv, ReadInv
  <1>6. manifest = NoManifest
    BY <1>1, Constants DEF EvidenceInv, ClaimInv
  <1>7. step' \notin {"manifest", "done"}
    BY <1>2, Constants
  <1>8. TypeInv' /\ RunsInv'
    BY <1>1, <1>2, <1>4, EvidenceTypes DEF EvidenceInv, TypeInv, ReleaseTypeOK
  <1> QED  BY <1>1, <1>4, <1>5, <1>6, <1>7, <1>8, EvidenceRead, EarlyClaims DEF EvidenceInv

\* What a gate is validated by backs it: its run has been read as a success,
\* and its artifacts say of which attempt they are where they are bound to it.
LEMMA ValidatedIsBacked ==
    ASSUME ReleaseEvidenceAssumption, EvidenceInv, NEW g \in Given, Validated(g)
    PROVE  Backed(g)
  <1>1. g \in Automated /\ meta[RunOf(g)] # NoRun
    BY DEF Given
  <1>2. RunOf(g) \in Workflows
    BY <1>1, GateFacts
  <1>3. <<RunOf(g), meta[RunOf(g)].attempt>> \in passed /\ runs[RunOf(g)].ours
    BY <1>1, <1>2 DEF EvidenceInv, ReadInv, Counted
  <1>4. \A d \in down["prerequisite"].doc : /\ <<d.of, d.attempt>> \in passed /\ runs[d.of].ours
                                            /\ d.of \in Bound => d.made = d.attempt
    BY DEF EvidenceInv, ReadInv, Listed, Counted
  <1>5. \A j \in JobsOf(g) :
           /\ down[j].pass
           /\ RunOf(g) \in Bound => down[j].attempt = meta[RunOf(g)].attempt /\ down[j].whole
    <2>1. CASE g = "mobile_ci"
      BY <2>1 DEF Validated, MobileCi, Contents, JobsOf, RunOf, Bound
    <2>2. CASE g = "database_rls"
      BY <2>2 DEF Validated, DatabaseRls, Contents, JobsOf, RunOf, Bound
    <2>3. CASE g = "staging_e2e"
      BY <2>3 DEF Validated, StagingE2e, Contents, EvidenceMetadata, ChecksumManifest, JobsOf, Jobs, RunOf
    <2>4. CASE g = "staging_load"
      BY <2>4 DEF Validated, StagingLoad, Contents, EvidenceMetadata, ChecksumManifest, JobsOf, Jobs, RunOf
    <2>5. CASE g = "signed_android_ios"
      BY <2>5 DEF Validated, MobileRelease, SignedBuilds, Contents, JobsOf, Jobs, RunOf, Bound
    <2> QED  BY <1>1, <2>1, <2>2, <2>3, <2>4, <2>5, GateFacts
  <1> QED  BY <1>1, <1>3, <1>4, <1>5 DEF Backed

LEMMA ApplyClaimsInv ==
    ASSUME ReleaseEvidenceAssumption, EvidenceInv, ApplyClaims
    PROVE  EvidenceInv'
  <1>1. UNCHANGED <<github, collect, meta, down, manifest, reruns>> /\ step = "claims"
    BY DEF ApplyClaims
  <1>2. manifest = NoManifest
    BY <1>1 DEF EvidenceInv, ClaimInv
  <1>3. ReadInv'
    BY <1>1, EvidenceRead DEF EvidenceInv, ReadInv
  <1>4. CASE step' = "failed" /\ UNCHANGED <<manual, claims>>
    <2>1. TypeInv' /\ RunsInv'
      BY <1>1, <1>4, EvidenceTypes DEF EvidenceInv, TypeInv, ReleaseTypeOK
    <2> QED  BY <1>1, <1>2, <1>3, <1>4, <2>1, EarlyClaims DEF EvidenceInv
  <1>5. CASE ~(step' = "failed" /\ UNCHANGED <<manual, claims>>)
    <2>1. /\ \A g \in Given : Validated(g)
          /\ manual' \subseteq Gates \ Automated /\ step' = "manifest"
      BY <1>5 DEF ApplyClaims, Attestations
    <2>2. PICK old \in SUBSET {"store_console"}, ota \in SUBSET {"ota_preview_rollback"} :
             claims' = [g \in Gates |-> IF g \in Given \cup manual' THEN "verified"
                                        ELSE IF g \in ota THEN "attached"
                                        ELSE IF g \in old THEN "old" ELSE "missing"]
      BY <1>5 DEF ApplyClaims
    <2>3. claims' \in [Gates -> {"missing", "attached", "verified", "old"}]
      BY <2>2
    <2>4. TypeInv' /\ RunsInv'
      BY <1>1, <2>1, <2>3, EvidenceTypes DEF EvidenceInv, TypeInv, ReleaseTypeOK
    <2>5. \A g \in Gates : claims'[g] = "verified" => g \in Given \cup manual'
      BY <2>2
    <2>6. ASSUME NEW g \in Given PROVE Backed(g)'
      <3>1. Backed(g) /\ g \in Automated
        BY <2>1, ValidatedIsBacked DEF Given
      <3> QED  BY <1>1, <3>1 DEF Backed, github
    <2>7. ASSUME NEW g \in manual' PROVE Backed(g)'
      <3>1. g \notin Automated
        BY <2>1
      <3> QED  BY <3>1 DEF Backed
    <2>8. \A g \in Gates : claims'[g] = "verified" => Backed(g)'
      BY <2>5, <2>6, <2>7
    <2>9. manifest' = NoManifest /\ step' # "done"
      BY <1>1, <1>2, <2>1
    <2>10. ClaimInv'
      BY <2>8, <2>9 DEF ClaimInv, VerifiedIsBacked, NoManifest
    <2> QED  BY <1>3, <2>4, <2>10 DEF EvidenceInv
  <1> QED  BY <1>4, <1>5

LEMMA GenerateManifestInv ==
    ASSUME ReleaseEvidenceAssumption, EvidenceInv, GenerateManifest
    PROVE  EvidenceInv'
  <1>1. UNCHANGED <<github, collect, manual, meta, down, claims, reruns>> /\ step = "manifest"
    BY DEF GenerateManifest
  <1>2. ReadInv'
    BY <1>1, EvidenceRead DEF EvidenceInv, ReadInv
  <1>3. \A g : Backed(g)' <=> Backed(g)
    BY <1>1 DEF Backed, github
  <1>4. CASE ValidClaims(claims)
    <2> DEFINE verified == {g \in Gates : claims[g] \in {"verified", "old"}}
    <2>1. manifest' = [verified |-> verified, go |-> verified = Gates] /\ step' = "done"
      BY <1>4 DEF GenerateManifest
    <2>2. \A g \in verified : claims[g] = "verified"
      BY <1>4 DEF ValidClaims
    <2>3. verified \subseteq Gates /\ \A g \in verified : Backed(g)'
      BY <1>1, <1>3, <2>2 DEF EvidenceInv, ClaimInv
    <2> HIDE DEF verified
    <2>4. manifest' \in [verified : SUBSET Gates, go : BOOLEAN]
      BY <2>1, <2>3
    <2>5. TypeInv' /\ RunsInv'
      BY <1>1, <2>1, <2>4, EvidenceTypes DEF EvidenceInv, TypeInv, ReleaseTypeOK
    <2>6. VerifiedIsBacked'
      BY <2>1, <2>3 DEF VerifiedIsBacked
    <2>7. ClaimInv'
      BY <1>1, <1>3, <2>1, <2>6 DEF ClaimInv, EvidenceInv
    <2> QED  BY <1>2, <2>5, <2>7 DEF EvidenceInv
  <1>5. CASE ~ValidClaims(claims)
    <2>1. step' = "failed" /\ manifest' = manifest
      BY <1>5 DEF GenerateManifest
    <2>2. manifest = NoManifest
      BY <1>1 DEF EvidenceInv, ClaimInv
    <2>3. TypeInv' /\ RunsInv'
      BY <1>1, <2>1, EvidenceTypes DEF EvidenceInv, TypeInv, ReleaseTypeOK
    <2> QED  BY <1>2, <2>1, <2>2, <2>3, EarlyClaims DEF EvidenceInv
  <1> QED  BY <1>4, <1>5


-----------------------------------------------------------------------------
(* The theorems                                                             *)

LEMMA InitInv ==
    ASSUME ReleaseEvidenceAssumption, Init
    PROVE  EvidenceInv
  <1>1. PICK ours \in SUBSET Prerequisites, bad \in {{}} \cup {{j} : j \in AllJobs \ Jobs(Release)} :
          LET failing == {w \in Prerequisites : bad \cap Jobs(w) # {}} IN
          /\ runs = [w \in Workflows |-> IF w = Release THEN NoRun
                        ELSE [status |-> IF w \in failing THEN "failure" ELSE "success",
                              attempt |-> 1, ours |-> w \in ours]]
          /\ result = [j \in AllJobs |-> j \notin bad /\ j \notin Jobs(Release)]
          /\ files = [j \in AllJobs |->
                        IF j \in Jobs(Release) \cup (bad \ Always) THEN NoFile
                        ELSE File(1, j \notin bad, {})]
          /\ passed = {<<w, 1>> : w \in Prerequisites \ failing}
    BY DEF Init
  <1> DEFINE failing == {w \in Prerequisites : bad \cap Jobs(w) # {}}
             run(w) == [status |-> IF w \in failing THEN "failure" ELSE "success",
                        attempt |-> 1, ours |-> w \in ours]
  <1>2. runs = [w \in Workflows |-> IF w = Release THEN NoRun ELSE run(w)]
    BY <1>1
  <1>3. passed = {<<w, 1>> : w \in Prerequisites \ failing}
    BY <1>1
  <1> HIDE DEF failing
  <1>4. \A w : /\ run(w).status = IF w \in failing THEN "failure" ELSE "success"
               /\ run(w).attempt = 1 /\ run(w) \in Runs
    BY NumberFacts DEF Runs
  <1> HIDE DEF run
  <1>5. NoRun \in Runs /\ NoRun.status = "none" /\ NoRun.attempt = 0
    BY DEF NoRun, Runs
  <1>6. /\ todo = [w \in Workflows |-> {}] /\ collect = NoCollect /\ manual = {}
        /\ step = After({}, "claims") /\ meta = [w \in Workflows |-> NoRun]
        /\ down = [j \in AllJobs |-> NoFile] /\ claims = [g \in Gates |-> "missing"]
        /\ manifest = NoManifest /\ reruns = 0
    BY DEF Init
  <1>7. runs \in [Workflows -> Runs] /\ meta \in [Workflows -> Runs]
    BY <1>2, <1>4, <1>5, <1>6
  <1>8. step \in Workflows
    BY <1>6, AfterFact, Constants
  <1>9. NoFile \in Files /\ NoFile.doc = {} /\ \A b \in BOOLEAN : File(1, b, {}) \in Files
    BY NumberFacts DEF NoFile, File, Files
  <1>10. /\ files \in [AllJobs -> Files] /\ down \in [AllJobs -> Files]
         /\ files["prerequisite"].doc = {} /\ down["prerequisite"].doc = {}
    <2>1. "prerequisite" \in AllJobs /\ "prerequisite" \in Jobs(Release)
      BY JobFacts
    <2>2. files = [j \in AllJobs |-> IF j \in Jobs(Release) \cup (bad \ Always) THEN NoFile
                                     ELSE File(1, j \notin bad, {})]
      BY <1>1
    <2>3. files \in [AllJobs -> Files]
      BY <1>9, <2>2
    <2>4. files["prerequisite"] = NoFile
      BY <2>1, <2>2
    <2> QED  BY <1>6, <1>9, <2>1, <2>3, <2>4
  <1>11. collect \in [at : {"idle", "found"}, attempt : Numbers, doc : SUBSET Docs]
         /\ collect.doc = {} /\ collect.at = "idle"
    BY <1>6, NumberFacts DEF NoCollect
  <1>12. \A j \in AllJobs : {files[j].attempt, down[j].attempt} \subseteq {0} \cup Attempts
    BY <1>10 DEF Files, Numbers
  <1>13. passed \subseteq Workflows \X Attempts
    BY <1>3, Constants, NumberFacts
  <1>14. TypeInv
    <2>1. todo \in [Workflows -> SUBSET AllJobs] /\ \A w \in Workflows : todo[w] \subseteq Jobs(w)
      BY <1>6
    <2>2. result \in [AllJobs -> BOOLEAN]
      BY <1>1
    <2>3. /\ reruns \in 0..MaxReruns /\ manual \subseteq Gates \ Automated
          /\ claims \in [Gates -> {"missing", "attached", "verified", "old"}]
          /\ manifest \in [verified : SUBSET Gates, go : BOOLEAN]
      BY <1>6, Constants DEF NoManifest
    <2> QED  BY <1>7, <1>8, <1>10, <1>11, <1>12, <1>13, <2>1, <2>2, <2>3 DEF TypeInv, ReleaseTypeOK
  <1>15. RunsInv
    <2>1. ASSUME NEW w \in Workflows
          PROVE  /\ runs[w].status = "success" => <<w, runs[w].attempt>> \in passed
                 /\ todo[w] = {} /\ runs[w].attempt <= reruns + 1
                 /\ runs[w].status # "none" => runs[w].attempt > 0
      <3>1. CASE w = Release
        BY <1>2, <1>5, <1>6, <3>1
      <3>2. CASE w # Release
        <4>1. runs[w] = run(w) /\ w \in Prerequisites
          BY <1>2, <3>2, Constants
        <4> QED  BY <1>3, <1>4, <1>6, <4>1
      <3> QED  BY <3>1, <3>2
    <2> QED  BY <2>1 DEF RunsInv
  <1>16. ReadInv
    <2>1. Collected = {}
      BY <1>11 DEF Collected
    <2> QED  BY <1>6, <1>10, <1>11, <2>1, Constants DEF ReadInv
  <1>17. ClaimInv
    BY <1>6, <1>8, Constants DEF ClaimInv, VerifiedIsBacked, NoManifest
  <1> QED  BY <1>14, <1>15, <1>16, <1>17 DEF EvidenceInv

LEMMA NextInv ==
    ASSUME ReleaseEvidenceAssumption, EvidenceInv, [Next]_vars
    PROVE  EvidenceInv'
  <1>1. CASE StartRelease
    BY <1>1, StartReleaseInv
  <1>2. CASE CollectRun
    BY <1>2, CollectRunInv
  <1>3. CASE CollectArtifacts
    BY <1>3, CollectArtifactsInv
  <1>4. CASE ApplyClaims
    BY <1>4, ApplyClaimsInv
  <1>5. CASE GenerateManifest
    BY <1>5, GenerateManifestInv
  <1>6. ASSUME NEW w \in Workflows, Rerun(w) PROVE EvidenceInv'
    BY <1>6, RerunInv
  <1>7. ASSUME NEW w \in Workflows, FetchRun(w) PROVE EvidenceInv'
    BY <1>7, FetchRunInv
  <1>8. ASSUME NEW w \in Workflows, Download(w) PROVE EvidenceInv'
    BY <1>8, DownloadInv
  <1>9. ASSUME NEW w \in Workflows, NEW j \in Jobs(w), JobEnds(w, j) PROVE EvidenceInv'
    BY <1>9, JobEndsInv
  <1>10. CASE UNCHANGED vars
    <2>1. UNCHANGED <<runs, todo, result, files, passed, collect, manual, step, meta, down, claims,
                      manifest, reruns>>
      BY <1>10 DEF vars, github, evidence
    <2>2. TypeInv' /\ RunsInv'
      BY <2>1 DEF EvidenceInv, TypeInv, ReleaseTypeOK, RunsInv
    <2>3. ReadInv'
      BY <2>1, EvidenceRead DEF EvidenceInv, ReadInv, github
    <2>4. \A g : Backed(g)' <=> Backed(g)
      BY <2>1 DEF Backed
    <2>5. ClaimInv'
      BY <2>1, <2>4 DEF EvidenceInv, ClaimInv, VerifiedIsBacked
    <2> QED  BY <2>2, <2>3, <2>5 DEF EvidenceInv
  <1> QED
    BY <1>1, <1>2, <1>3, <1>4, <1>5, <1>6, <1>7, <1>8, <1>9, <1>10 DEF Next

\* The types of the evidence, for any of the workflows and any number of reruns.
THEOREM TypeCorrect ==
    ASSUME ReleaseEvidenceAssumption
    PROVE  Spec => []ReleaseTypeOK
  <1>1. EvidenceInv => ReleaseTypeOK
    BY DEF EvidenceInv, TypeInv
  <1> QED  BY InitInv, NextInv, <1>1, PTL DEF Spec

\* A gate that the manifest calls verified is backed by what was run and
\* reviewed for this commit, and GO is said for all gates only.
THEOREM Backing ==
    ASSUME ReleaseEvidenceAssumption
    PROVE  Spec => []VerifiedIsBacked
  <1>1. EvidenceInv => VerifiedIsBacked
    BY DEF EvidenceInv, ClaimInv
  <1> QED  BY InitInv, NextInv, <1>1, PTL DEF Spec
=============================================================================
