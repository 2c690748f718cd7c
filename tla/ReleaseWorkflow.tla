---------------------------- MODULE ReleaseWorkflow ----------------------------
(***************************************************************************)
(* The workflow that every pushed tag starts (.github/workflows/           *)
(* release.yml): four builds side by side and a job that needs them all    *)
(* and publishes file after file.  Any job may fail or be stopped, and be  *)
(* run again.                                                              *)
(***************************************************************************)
EXTENDS FiniteSets

CONSTANT Tags

Jobs == {"macos-arm64", "linux-amd64", "linux-arm64", "wasm"}

\* What is in the artifact of each job.  Of wasm-out/ the directory itself is
\* the root of the artifact; of several paths it is the directory they share.
Artifact(job) ==
    CASE job = "macos-arm64" -> {"libbbs_ffi-macos-arm64.a", "headers/bbs_ffiFFI.h"}
      [] job = "linux-amd64" -> {"libbbs_ffi-linux-amd64.a"}
      [] job = "linux-arm64" -> {"libbbs_ffi-linux-arm64.a"}
      [] job = "wasm" -> {"bbs_ffi_bg.wasm", "bbs_ffi.js"}

Checkout == {"headers/bbs_ffiFFI.h", "include/bbs_ffi.h"}

\* What the release asks for; `wasm-out/*` is written out.
Files ==
    {"libbbs_ffi-macos-arm64.a", "libbbs_ffi-linux-amd64.a", "libbbs_ffi-linux-arm64.a",
     "wasm-out/bbs_ffi_bg.wasm", "wasm-out/bbs_ffi.js",
     "headers/bbs_ffiFFI.h", "include/bbs_ffi.h"}

VARIABLES
    pushed,   \* the tags at the origin
    jobs,     \* the builds of each started workflow
    release,  \* the state of its last job, or the step that this job is at
    upload,   \* the files that the running last job still has to upload
    assets    \* the files of the release, which outlive the job

workflows == <<jobs, release, upload, assets>>
vars == <<pushed, workflows>>

Init ==
    /\ pushed = {}
    /\ jobs = [v \in Tags |-> [j \in Jobs |-> "absent"]]
    /\ release = [v \in Tags |-> "absent"]
    /\ upload = [v \in Tags |-> {}]
    /\ assets = [v \in Tags |-> {}]

PushTag(v) ==
    /\ v \notin pushed
    /\ pushed' = pushed \cup {v}
    /\ UNCHANGED workflows

\* Seeded bug: the pattern of the trigger does not match the tag.
StartWorkflowNever(v) ==
    /\ v \in pushed /\ release[v] = "absent" /\ FALSE
    /\ UNCHANGED vars

StartWorkflow(v) ==
    /\ v \in pushed
    /\ release[v] = "absent"
    /\ jobs' = [jobs EXCEPT ![v] = [j \in Jobs |-> "queued"]]
    /\ release' = [release EXCEPT ![v] = "queued"]
    /\ UNCHANGED <<pushed, upload, assets>>

Build(v, job) ==
    /\ jobs[v][job] = "queued"
    /\ \E result \in {"passed", "failed"} : jobs' = [jobs EXCEPT ![v][job] = result]
    /\ UNCHANGED <<pushed, release, upload, assets>>

Passed(v) == {j \in Jobs : jobs[v][j] = "passed"}

-----------------------------------------------------------------------------
(* The steps of the last job. *)

\* Step(v, from, to): the last job goes on.
Step(v, from, to) == release[v] = from /\ release' = [release EXCEPT ![v] = to]

\* Seeded bug: a build is missing from `needs`.
StartReleaseEarly(v) ==
    /\ Jobs \ {"linux-arm64"} \subseteq Passed(v)
    /\ Step(v, "queued", "download")
    /\ UNCHANGED <<pushed, jobs, upload, assets>>

\* It needs all builds, and begins with a checkout.
StartRelease(v) ==
    /\ Passed(v) = Jobs
    /\ Step(v, "queued", "download")
    /\ UNCHANGED <<pushed, jobs, upload, assets>>

Download(v) ==
    /\ Step(v, "download", "create")
    /\ UNCHANGED <<pushed, jobs, upload, assets>>

\* What the files are looked for in: the sources and all artifacts, merged.
Workspace(v) == Checkout \cup UNION {Artifact(j) : j \in Passed(v)}

\* The release is created, or found if an earlier attempt has created it.  A file
\* that matches nothing is left out, with a warning.
CreateRelease(v) ==
    /\ Step(v, "create", "upload")
    /\ upload' = [upload EXCEPT ![v] = Files \cap Workspace(v)]
    /\ UNCHANGED <<pushed, jobs, assets>>

Upload(v, file) ==
    /\ release[v] = "upload" /\ file \in upload[v]
    /\ upload' = [upload EXCEPT ![v] = @ \ {file}]
    /\ assets' = [assets EXCEPT ![v] = @ \cup {file}]
    /\ UNCHANGED <<pushed, jobs, release>>

\* Seeded bug: an upload that fails does not fail the step.
EndReleaseAnyway(v) ==
    /\ Step(v, "upload", "passed")
    /\ UNCHANGED <<pushed, jobs, upload, assets>>

EndRelease(v) ==
    /\ upload[v] = {}
    /\ Step(v, "upload", "passed")
    /\ UNCHANGED <<pushed, jobs, upload, assets>>

\* A step fails or the runner is stopped: what is uploaded stays.
FailRelease(v) ==
    /\ \E step \in {"download", "create", "upload"} : Step(v, step, "failed")
    /\ upload' = [upload EXCEPT ![v] = {}]
    /\ UNCHANGED <<pushed, jobs, assets>>

\* Somebody has the failed jobs of a workflow run again.
Rerun(v) ==
    /\ release[v] = "failed" \/ \E j \in Jobs : jobs[v][j] = "failed"
    /\ jobs' = [jobs EXCEPT ![v] =
         [j \in Jobs |-> IF @[j] = "failed" THEN "queued" ELSE @[j]]]
    /\ release' = [release EXCEPT ![v] = IF @ = "failed" THEN "queued" ELSE @]
    /\ UNCHANGED <<pushed, upload, assets>>

\* What GitHub does by itself.
Proceed(v) ==
    \/ StartWorkflow(v)
    \/ \E job \in Jobs : Build(v, job)
    \/ StartRelease(v) \/ Download(v) \/ CreateRelease(v)
    \/ \E file \in Files : Upload(v, file)
    \/ EndRelease(v)

Next ==
    \E v \in Tags : PushTag(v) \/ Proceed(v) \/ FailRelease(v) \/ Rerun(v)

\* A queued job gets a runner in the end and its steps end; nobody has to push
\* or to repeat.
Spec == Init /\ [][Next]_vars /\ \A v \in Tags : WF_vars(Proceed(v))

-----------------------------------------------------------------------------
(* Properties. *)

Native ==
    {"libbbs_ffi-macos-arm64.a", "libbbs_ffi-linux-amd64.a", "libbbs_ffi-linux-arm64.a",
     "headers/bbs_ffiFFI.h", "include/bbs_ffi.h"}

\* A last job that has passed has published the libraries of all platforms and
\* both headers, whichever builds failed and were repeated before it, and
\* wherever earlier attempts at it were broken off, between two uploads too.
\* (Until it passes a release may be there in part.)  Nothing else that is
\* documented is said to be there: see DocumentedAssets.
NativeAssetsComplete ==
    \A v \in Tags : release[v] = "passed" => Native \subseteq assets[v]

\* Nothing is published, not even in part, before the builds have all passed.
NothingPublishedEarly ==
    \A v \in Tags : assets[v] # {} => Passed(v) = Jobs

\* A tag that was pushed is released, or the failed job is there to see.
PushedIsReleased ==
    \A v \in Tags :
        v \in pushed ~>
            \/ release[v] \in {"passed", "failed"}
            \/ \E j \in Jobs : jobs[v][j] = "failed"

\* docs/CI_SETUP.md:10-17: what the workflow "attaches to a GitHub Release".
Documented ==
    {"libbbs_ffi-macos-arm64.a", "libbbs_ffi-linux-amd64.a", "libbbs_ffi-linux-arm64.a",
     "wasm-out/bbs_ffi_bg.wasm", "wasm-out/bbs_ffi.js",
     "AckAgentBBSBindings.xcframework.zip", "headers/bbs_ffiFFI.h"}

DocumentedAssets ==
    \A v \in Tags : release[v] = "passed" => Documented \subseteq assets[v]
=============================================================================
