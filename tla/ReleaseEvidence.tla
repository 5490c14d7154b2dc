--------------------------- MODULE ReleaseEvidence ---------------------------
(* The evidence that decides about a release: the runs of the workflows of   *)
(* one commit, the prerequisites that mobile-release.yml collects from them  *)
(* (check-github-release-evidence.mjs), and release-evidence.yml, which      *)
(* downloads the runs it is given, claims the gates they prove               *)
(* (apply-evidence-claims.mjs) and writes the manifest                       *)
(* (generate-evidence-manifest.mjs).  Each of them reads the run and then    *)
(* its artifacts, while anybody may run it again.  A gate that is not about  *)
(* a run is proved by a reviewed attestation.                                *)
EXTENDS Naturals, FiniteSets

CONSTANTS Workflows,   \* the workflows in use, mobile_release among them
          MaxReruns    \* bound: runs that are run again

Release == "mobile_release"

\* What the constants are.
ReleaseEvidenceAssumption ==
    /\ Release \in Workflows /\ Workflows # {Release} /\ MaxReruns \in Nat
    /\ Workflows \subseteq {"mobile_ci", "staging_e2e", "staging_load", Release}

\* The jobs of a workflow whose artifacts are evidence.
Jobs(w) == CASE w = "mobile_ci"    -> {"build", "database"}
             [] w = "staging_e2e"  -> {"maestro", "backend"}
             [] w = "staging_load" -> {"load"}
             [] w = Release        -> {"prerequisite", "signed"}

\* Those that write an artifact whatever their result, and the workflows whose
\* artifacts name their attempt and sum up their files.
Always == {"database", "maestro", "backend", "load"}
Bound  == {"staging_e2e", "staging_load"}

Prerequisites == Workflows \ {Release}
AllJobs == UNION {Jobs(w) : w \in Workflows}

\* The gates: each automated one with its workflow and the jobs it looks at.
RunOf(g) == CASE g = "database_rls"       -> "mobile_ci"
              [] g = "signed_android_ios" -> Release
              [] OTHER                    -> g

Automated == Prerequisites \cup
             {g \in {"database_rls", "signed_android_ios"} : RunOf(g) \in Workflows}
Gates     == Automated \cup {"ota_preview_rollback", "store_console"}

JobsOf(g) == CASE g = "mobile_ci"    -> {"build"}
               [] g = "database_rls" -> {"database"}
               [] OTHER              -> Jobs(RunOf(g))

\* The order in which the scripts take the workflows.
Order == <<"mobile_ci", "staging_e2e", "staging_load", Release>>

After(done, last) ==
    IF Workflows \subseteq done THEN last
    ELSE Order[CHOOSE i \in 1..4 : Order[i] \in Workflows \ done
                                   /\ \A k \in 1..(i - 1) : Order[k] \notin Workflows \ done]

VARIABLES runs,       \* GitHub's record of the run of each workflow
          todo,       \* the jobs that are still to end in it
          result,     \* how each job ended last
          files,      \* the artifacts of the jobs
          passed,     \* history: the attempts that have succeeded
          collect,    \* the script in the release's first job
          manual,     \* the gates that a reviewer attests, in the bundle of the tag
          step,       \* release-evidence.yml: its next step, or the workflow it downloads
          meta, down, \* what it has downloaded
          claims,     \* evidence-status.json: "old" is verified for another commit
          manifest,   \* the gates that the manifest calls verified, and its decision
          reruns      \* counter of the bound

github   == <<runs, todo, result, files, passed>>
evidence == <<step, meta, down, claims, manifest>>
vars == <<github, collect, manual, evidence, reruns>>

\* A run is ours if it is of the target commit, in this repository, and of an
\* event that counts.
NoRun      == [status |-> "none", attempt |-> 0, ours |-> FALSE]
NoFile     == [attempt |-> 0, pass |-> FALSE, whole |-> FALSE, doc |-> {}]
NoCollect  == [at |-> "idle", attempt |-> 0, doc |-> {}]
NoManifest == [verified |-> {}, go |-> FALSE]

Attempts == 1..(MaxReruns + 1)
Runs == [status : {"none", "running", "success", "failure"}, attempt : {0} \cup Attempts,
         ours : BOOLEAN]

\* What a job leaves at the attempt n.
File(n, ok, doc) == [attempt |-> n, pass |-> ok, whole |-> TRUE, doc |-> doc]

ReleaseTypeOK ==
    /\ runs \in [Workflows -> Runs] /\ meta \in [Workflows -> Runs]
    /\ todo \in [Workflows -> SUBSET AllJobs] /\ \A w \in Workflows : todo[w] \subseteq Jobs(w)
    /\ result \in [AllJobs -> BOOLEAN]
    /\ \A j \in AllJobs : {files[j].attempt, down[j].attempt} \subseteq {0} \cup Attempts
    /\ passed \subseteq Workflows \X Attempts /\ reruns \in 0..MaxReruns
    /\ collect.at \in {"idle", "found"}
    /\ step \in Workflows \cup {"claims", "manifest", "done", "failed"}
    /\ claims \in [Gates -> {"missing", "attached", "verified", "old"}]
    /\ manual \subseteq Gates \ Automated
    /\ manifest \in [verified : SUBSET Gates, go : BOOLEAN]

\* The first attempts of the prerequisites are over; one job may have failed.
Init ==
    /\ \E ours \in SUBSET Prerequisites, bad \in {{}} \cup {{j} : j \in AllJobs \ Jobs(Release)} :
          LET failing == {w \in Prerequisites : bad \cap Jobs(w) # {}} IN
          /\ runs = [w \in Workflows |-> IF w = Release THEN NoRun
                        ELSE [status |-> IF w \in failing THEN "failure" ELSE "success",
                              attempt |-> 1, ours |-> w \in ours]]
          /\ result = [j \in AllJobs |-> j \notin bad /\ j \notin Jobs(Release)]
          /\ files = [j \in AllJobs |->
                        IF j \in Jobs(Release) \cup (bad \ Always) THEN NoFile
                        ELSE File(1, j \notin bad, {})]
          /\ passed = {<<w, 1>> : w \in Prerequisites \ failing}
    /\ todo = [w \in Workflows |-> {}]
    /\ collect = NoCollect /\ manual = {}
    /\ step = After({}, "claims")
    /\ meta = [w \in Workflows |-> NoRun] /\ down = [j \in AllJobs |-> NoFile]
    /\ claims = [g \in Gates |-> "missing"]
    /\ manifest = NoManifest /\ reruns = 0

-----------------------------------------------------------------------------
(* The workflows' runs *)

\* mobile-release.yml is dispatched for the target commit.
StartRelease ==
    /\ runs[Release].status = "none"
    /\ runs' = [runs EXCEPT ![Release] = [status |-> "running", attempt |-> 1, ours |-> TRUE]]
    /\ todo' = [todo EXCEPT ![Release] = Jobs(Release)]
    /\ UNCHANGED <<result, files, passed, collect, manual, evidence, reruns>>

\* All jobs of a run, or some with those that need them, are run again.
Rerun(w) ==
    /\ runs[w].status \in {"success", "failure"} /\ reruns < MaxReruns
    /\ \E again \in (SUBSET Jobs(w)) \ {{}} :
          /\ "prerequisite" \in again => "signed" \in again
          /\ todo' = [todo EXCEPT ![w] = again]
    /\ runs' = [runs EXCEPT ![w].status = "running", ![w].attempt = @ + 1]
    /\ reruns' = reruns + 1
    /\ UNCHANGED <<result, files, passed, collect, manual, evidence>>

\* Job j of w ends and leaves file as its artifact; with the last one the
\* attempt is over.
Ends(w, j, ok, file) ==
    LET all == [result EXCEPT ![j] = ok]
        success == \A k \in Jobs(w) : all[k]
    IN  /\ todo' = [todo EXCEPT ![w] = @ \ {j}]
        /\ result' = all /\ files' = [files EXCEPT ![j] = file]
        /\ IF todo[w] = {j}
           THEN /\ runs' = [runs EXCEPT ![w].status = IF success THEN "success" ELSE "failure"]
                /\ passed' = IF success THEN passed \cup {<<w, runs[w].attempt>>} ELSE passed
           ELSE UNCHANGED <<runs, passed>>

\* A job that fails may still leave an artifact, of what it has seen; an
\* artifact replaces the one of the attempt before.
JobEnds(w, j) ==
    /\ j \in todo[w] /\ j # "prerequisite"
    /\ j = "signed" => "prerequisite" \notin todo[w]
    /\ \/ /\ j = "signed" => result["prerequisite"]
          /\ Ends(w, j, TRUE, File(runs[w].attempt, TRUE, {}))
       \/ Ends(w, j, FALSE, files[j])
       \/ j \in Always /\ Ends(w, j, FALSE, File(runs[w].attempt, FALSE, {}))
    /\ UNCHANGED <<collect, manual, evidence, reruns>>

-----------------------------------------------------------------------------
(* check-github-release-evidence.mjs *)

Collected == {d.of : d \in collect.doc}
Current   == After(Collected \cup {Release}, "none")

CollectFails ==
    /\ collect' = NoCollect
    /\ Ends(Release, "prerequisite", FALSE, files["prerequisite"])

\* The first run of the list that has succeeded, for this commit and lately.
CollectRun ==
    /\ "prerequisite" \in todo[Release] /\ collect.at = "idle"
    /\ \/ /\ runs[Current].status = "success" /\ runs[Current].ours
          /\ collect' = [collect EXCEPT !.at = "found", !.attempt = runs[Current].attempt]
          /\ UNCHANGED github
       \/ CollectFails
    /\ UNCHANGED <<manual, evidence, reruns>>

\* validateChecksummedArtifact: the metadata name the attempt of the run.
SameAttempt(w, j, attempt) == w \in Bound => files[j].attempt = attempt

\* downloadArtifact: an artifact that is there comes whole, or not at all.
Downloaded(j) == files[j].attempt > 0

\* Its artifacts as they are by now, one of each name.
CollectArtifacts ==
    /\ collect.at = "found"
    /\ LET w == Current
           doc == collect.doc \cup
                    {[of |-> w, attempt |-> collect.attempt, job |-> j, made |-> files[j].attempt] :
                        j \in Jobs(w)}
       IN  \/ /\ \A j \in Jobs(w) : Downloaded(j) /\ SameAttempt(w, j, collect.attempt)
              /\ IF After(Collected \cup {w, Release}, "none") # "none"
                 THEN collect' = [at |-> "idle", attempt |-> 0, doc |-> doc] /\ UNCHANGED github
                 ELSE /\ collect' = NoCollect
                      /\ Ends(Release, "prerequisite", TRUE, File(runs[Release].attempt, TRUE, doc))
           \/ CollectFails
    /\ UNCHANGED <<manual, evidence, reruns>>

-----------------------------------------------------------------------------
(* release-evidence.yml *)

\* The workflow that is downloaded next.
Following(w) == After({Order[k] : k \in {i \in 1..4 : \E n \in i..4 : Order[n] = w}}, "claims")

\* download_run: no run of this workflow is given, or it is asked for.
FetchRun(w) ==
    /\ step = w /\ meta[w] = NoRun
    /\ \/ step' = Following(w) /\ UNCHANGED meta
       \/ /\ runs[w].attempt > 0
          /\ IF runs[w].status = "success" /\ runs[w].ours
             THEN meta' = [meta EXCEPT ![w] = runs[w]] /\ UNCHANGED step
             ELSE step' = "failed" /\ UNCHANGED meta
    /\ UNCHANGED <<github, collect, manual, down, claims, manifest, reruns>>

\* gh run download: the artifacts as they are by now, one of them perhaps not
\* as it was.
Download(w) ==
    /\ step = w /\ meta[w] # NoRun
    /\ \/ /\ \E broken \in {{}} \cup {{j} : j \in Jobs(w)} :
               down' = [j \in AllJobs |-> IF j \notin Jobs(w) THEN down[j]
                                          ELSE [files[j] EXCEPT !.whole = @ /\ j \notin broken]]
          /\ step' = Following(w)
       \/ step' = "failed" /\ UNCHANGED down
    /\ UNCHANGED <<github, collect, manual, meta, claims, manifest, reruns>>

-----------------------------------------------------------------------------
(* apply-evidence-claims.mjs *)

\* The exact set of files, and what each must say.
Contents(j) == down[j].attempt > 0 /\ down[j].pass

\* Mutant: the attempt is not compared.
EvidenceMetadataRun(j, attempt) == down[j].attempt > 0

\* The metadata that the artifact carries are those of the run.
EvidenceMetadata(j, attempt) == down[j].attempt = attempt

\* Every file once, with its sum.
ChecksumManifest(j) == down[j].whole

MobileCi    == Contents("build")
DatabaseRls == Contents("database")

StagingE2e ==
    \A j \in {"maestro", "backend"} :
        Contents(j) /\ EvidenceMetadata(j, meta["staging_e2e"].attempt) /\ ChecksumManifest(j)

StagingLoad ==
    /\ Contents("load") /\ ChecksumManifest("load")
    /\ EvidenceMetadata("load", meta["staging_load"].attempt)

\* validatePrerequisiteArtifact: an artifact that names its attempt names that
\* of its run.
PrerequisiteArtifact(d) == d.of \in Bound => d.made = d.attempt

\* Of each prerequisite an attempt, with its jobs.
PrerequisiteEvidence ==
    LET doc == down["prerequisite"].doc IN
    /\ {d.of : d \in doc} = Prerequisites
    /\ \A w \in Prerequisites : {d.job : d \in {x \in doc : x.of = w}} = Jobs(w)
    /\ \A d \in doc : PrerequisiteArtifact(d)

\* The bundles with their signers, and the finished production build.
SignedBuilds == Contents("signed")

MobileRelease == Contents("prerequisite") /\ PrerequisiteEvidence /\ SignedBuilds

Validated(g) ==
    CASE g = "mobile_ci"    -> MobileCi
      [] g = "database_rls" -> DatabaseRls
      [] g = "staging_e2e"  -> StagingE2e
      [] g = "staging_load" -> StagingLoad
      [] OTHER              -> MobileRelease

\* The gates whose run is given.
Given == {g \in Automated : meta[RunOf(g)] # NoRun}

\* What may have been attested for this commit, with its files.
Attestations == SUBSET (Gates \ Automated)

\* Anything that is given and does not hold ends the job, and so does a bundle
\* that was not approved for this commit.  The claims of the repository may be
\* those of an earlier release.  An over-the-air publication is attached at
\* most, until its drill is attested.
ApplyClaims ==
    /\ step = "claims"
    /\ \/ /\ \A g \in Given : Validated(g)
          /\ manual' \in Attestations
          /\ \E old \in SUBSET {"store_console"}, ota \in SUBSET {"ota_preview_rollback"} :
                claims' = [g \in Gates |-> IF g \in Given \cup manual' THEN "verified"
                                           ELSE IF g \in ota THEN "attached"
                                           ELSE IF g \in old THEN "old" ELSE "missing"]
          /\ step' = "manifest"
       \/ step' = "failed" /\ UNCHANGED <<manual, claims>>
    /\ UNCHANGED <<github, collect, meta, down, manifest, reruns>>

-----------------------------------------------------------------------------
(* generate-evidence-manifest.mjs *)

\* Mutant: the commit of a verified gate is not compared.
ValidClaimsAnySha(c) == TRUE

\* validateClaims: a gate that is verified is so for this commit.
ValidClaims(c) == \A g \in Gates : c[g] # "old"

GenerateManifest ==
    /\ step = "manifest"
    /\ IF ValidClaims(claims)
       THEN /\ manifest' = LET verified == {g \in Gates : claims[g] \in {"verified", "old"}}
                           IN  [verified |-> verified, go |-> verified = Gates]
            /\ step' = "done"
       ELSE step' = "failed" /\ UNCHANGED manifest
    /\ UNCHANGED <<github, collect, manual, meta, down, claims, reruns>>

-----------------------------------------------------------------------------
Next ==
    \/ StartRelease \/ CollectRun \/ CollectArtifacts \/ ApplyClaims \/ GenerateManifest
    \/ \E w \in Workflows : \/ Rerun(w) \/ FetchRun(w) \/ Download(w)
                            \/ \E j \in Jobs(w) : JobEnds(w, j)

Spec == Init /\ [][Next]_vars

-----------------------------------------------------------------------------
(* Properties *)

\* What the artifacts of g really are: of an attempt of this commit that
\* succeeded, of jobs that passed, and, where the artifacts are bound to their
\* run, of that very attempt and undamaged; for the signed builds so are the
\* prerequisites they were built upon.
Backed(g) ==
    IF g \notin Automated THEN g \in manual
    ELSE LET w == RunOf(g) IN
         /\ <<w, meta[w].attempt>> \in passed /\ runs[w].ours
         /\ \A j \in JobsOf(g) :
               /\ down[j].pass
               /\ w \in Bound => down[j].attempt = meta[w].attempt /\ down[j].whole
         /\ w = Release => \A d \in down["prerequisite"].doc :
                              /\ <<d.of, d.attempt>> \in passed /\ runs[d.of].ours
                              /\ d.of \in Bound => d.made = d.attempt

\* The manifest calls no gate verified that is not backed by what was run and
\* reviewed for this commit, whenever the runs are run again, and says GO for
\* all gates only.
VerifiedIsBacked ==
    /\ \A g \in manifest.verified : Backed(g)
    /\ manifest.go => manifest.verified = Gates
=============================================================================
