----------------------------- MODULE ReleasesProofs -----------------------------
(***************************************************************************)
(* The release pipeline, for any number of releasers, versions and         *)
(* commits: nothing is published before the builds have all passed, a last *)
(* job that passes has published every native asset, whatever failed and   *)
(* was run again before, and what is true of tags stays true next to it.   *)
(***************************************************************************)
EXTENDS Releases, ReleaseTagsProofs

States == {"absent", "queued", "passed", "failed"}
Begun == {"download", "create", "upload", "passed", "failed"}

\* The last job begins, and leaves something behind, only after all builds.
BuiltFirst(v) ==
    /\ release[v] = "absent" => assets[v] = {}
    /\ release[v] \in Begun \/ assets[v] # {} => Workflow!Passed(v) = Workflow!Jobs

\* While the last job uploads, what it does not have to upload any more is there.
NothingForgotten(v) ==
    /\ release[v] = "upload" => Workflow!Native \subseteq upload[v] \cup assets[v]
    /\ release[v] = "passed" => Workflow!Native \subseteq assets[v]

Types ==
    /\ jobs \in [Versions -> [Workflow!Jobs -> States]]
    /\ release \in [Versions -> {"absent", "queued"} \cup Begun]
    /\ upload \in [Versions -> SUBSET Workflow!Files]
    /\ assets \in [Versions -> SUBSET Workflow!Files]

WorkflowInv ==
    Types /\ \A v \in Versions : BuiltFirst(v) /\ NothingForgotten(v)

\* Every native asset is in the checkout or comes out of one of the builds.
LEMMA NativeIsBuilt ==
    Workflow!Native \subseteq
        Workflow!Files \cap
            (Workflow!Checkout \cup UNION {Workflow!Artifact(j) : j \in Workflow!Jobs})
  <1>1. "libbbs_ffi-macos-arm64.a" \in Workflow!Artifact("macos-arm64") BY DEF Workflow!Artifact
  <1>2. "libbbs_ffi-linux-amd64.a" \in Workflow!Artifact("linux-amd64") BY DEF Workflow!Artifact
  <1>3. "libbbs_ffi-linux-arm64.a" \in Workflow!Artifact("linux-arm64") BY DEF Workflow!Artifact
  <1>4. {"macos-arm64", "linux-amd64", "linux-arm64"} \subseteq Workflow!Jobs
    BY DEF Workflow!Jobs
  <1> DEFINE built == UNION {Workflow!Artifact(j) : j \in Workflow!Jobs}
  <1>5. {"libbbs_ffi-macos-arm64.a", "libbbs_ffi-linux-amd64.a",
         "libbbs_ffi-linux-arm64.a"} \subseteq built
    BY <1>1, <1>2, <1>3, <1>4
  <1> HIDE DEF built
  <1>6. {"headers/bbs_ffiFFI.h", "include/bbs_ffi.h"} \subseteq Workflow!Checkout
    BY DEF Workflow!Checkout
  <1>7. Workflow!Native \subseteq Workflow!Files BY DEF Workflow!Native, Workflow!Files
  <1>8. Workflow!Native \subseteq Workflow!Checkout \cup built BY <1>5, <1>6 DEF Workflow!Native
  <1> QED BY <1>7, <1>8 DEF built

LEMMA InitWorkflowInv == Workflow!Init => WorkflowInv
  BY DEF Workflow!Init, WorkflowInv, Types, BuiltFirst, NothingForgotten, Begun, States,
         Workflow!Jobs

\* The workflow of a tag is left alone by the steps of the others.
LEMMA OthersUnchanged ==
    ASSUME NEW w \in Versions, BuiltFirst(w), NothingForgotten(w),
           jobs'[w] = jobs[w], release'[w] = release[w],
           upload'[w] = upload[w], assets'[w] = assets[w]
    PROVE  BuiltFirst(w)' /\ NothingForgotten(w)'
  BY DEF BuiltFirst, NothingForgotten, Workflow!Passed

LEMMA NextWorkflowInv ==
    WorkflowInv /\ [PipelineNext]_<<vars, workflows>> => WorkflowInv'
  <1> SUFFICES ASSUME WorkflowInv, [PipelineNext]_<<vars, workflows>> PROVE WorkflowInv' OBVIOUS
  <1>0. Types /\ \A v \in Versions : BuiltFirst(v) /\ NothingForgotten(v)
    BY DEF WorkflowInv
  \* The steps of ReleaseTags, pushes included, and stuttering.
  <1>1. CASE UNCHANGED workflows
    BY <1>0, <1>1, OthersUnchanged DEF WorkflowInv, Types, workflows
  <1>2. ASSUME NEW v \in Versions, Workflow!StartWorkflow(v) PROVE WorkflowInv'
    <2>1. Types' BY <1>0, <1>2 DEF Types, Workflow!StartWorkflow, States
    <2>2. BuiltFirst(v)' /\ NothingForgotten(v)'
      BY <1>0, <1>2 DEF Types, Workflow!StartWorkflow, BuiltFirst, NothingForgotten, Begun
    <2>3. \A w \in Versions \ {v} : BuiltFirst(w)' /\ NothingForgotten(w)'
      BY <1>0, <1>2, OthersUnchanged DEF Types, Workflow!StartWorkflow
    <2> QED BY <2>1, <2>2, <2>3 DEF WorkflowInv
  \* A build that runs, or is to run, belongs to a last job that has not begun.
  <1>3. ASSUME NEW v \in Versions, NEW job \in Workflow!Jobs, Workflow!Build(v, job)
        PROVE  WorkflowInv'
    <2>1. PICK result \in {"passed", "failed"} : jobs' = [jobs EXCEPT ![v][job] = result]
      BY <1>3 DEF Workflow!Build
    <2>2. Types' BY <1>0, <1>3, <2>1 DEF Types, Workflow!Build, States
    <2>3. job \notin Workflow!Passed(v) BY <1>3 DEF Workflow!Build, Workflow!Passed
    <2>4. release[v] \notin Begun /\ assets[v] = {} BY <1>0, <2>3 DEF BuiltFirst
    <2>5. BuiltFirst(v)' /\ NothingForgotten(v)'
      BY <1>3, <2>4 DEF Workflow!Build, BuiltFirst, NothingForgotten, Begun
    <2>6. \A w \in Versions \ {v} : BuiltFirst(w)' /\ NothingForgotten(w)'
      BY <1>0, <1>3, <2>1, OthersUnchanged DEF Types, Workflow!Build
    <2> QED BY <2>2, <2>5, <2>6 DEF WorkflowInv
  \* The steps of the last job: the builds stay as they are.
  <1>4. ASSUME NEW v \in Versions, Workflow!Passed(v) = Workflow!Jobs, UNCHANGED jobs, Types',
               release'[v] # "absent",
               release'[v] = "upload" => Workflow!Native \subseteq upload'[v] \cup assets'[v],
               release'[v] = "passed" => Workflow!Native \subseteq assets'[v],
               \A w \in Versions \ {v} :
                 release'[w] = release[w] /\ upload'[w] = upload[w] /\ assets'[w] = assets[w]
        PROVE  WorkflowInv'
    <2>1. Workflow!Passed(v)' = Workflow!Jobs BY <1>4 DEF Workflow!Passed
    <2>2. BuiltFirst(v)' /\ NothingForgotten(v)'
      BY <1>4, <2>1 DEF BuiltFirst, NothingForgotten
    <2>3. \A w \in Versions \ {v} : BuiltFirst(w)' /\ NothingForgotten(w)'
      BY <1>0, <1>4, OthersUnchanged
    <2> QED BY <1>4, <2>2, <2>3 DEF WorkflowInv
  <1>5. \A v \in Versions : release[v] \in Begun => Workflow!Passed(v) = Workflow!Jobs
    BY <1>0 DEF BuiltFirst
  <1>6. ASSUME NEW v \in Versions, Workflow!StartRelease(v) PROVE WorkflowInv'
    <2>1. Workflow!Passed(v) = Workflow!Jobs /\ UNCHANGED <<jobs, upload, assets>>
          /\ release' = [release EXCEPT ![v] = "download"]
      BY <1>6 DEF Workflow!StartRelease, Workflow!Step
    <2>2. Types' BY <1>0, <2>1 DEF Types, Begun
    <2>3. release'[v] = "download" BY <1>0, <2>1 DEF Types
    <2> QED BY <1>0, <1>4, <2>1, <2>2, <2>3 DEF Types
  <1>7. ASSUME NEW v \in Versions, Workflow!Download(v) PROVE WorkflowInv'
    <2>1. release[v] = "download" /\ UNCHANGED <<jobs, upload, assets>>
          /\ release' = [release EXCEPT ![v] = "create"]
      BY <1>7 DEF Workflow!Download, Workflow!Step
    <2>2. Types' BY <1>0, <2>1 DEF Types, Begun
    <2>3. release'[v] = "create" BY <1>0, <2>1 DEF Types
    <2>4. Workflow!Passed(v) = Workflow!Jobs BY <1>5, <2>1 DEF Begun
    <2> QED BY <1>0, <1>4, <2>1, <2>2, <2>3, <2>4 DEF Types
  <1>8. ASSUME NEW v \in Versions, Workflow!CreateRelease(v) PROVE WorkflowInv'
    <2> DEFINE found == Workflow!Files \cap Workflow!Workspace(v)
    <2>1. release[v] = "create" /\ UNCHANGED <<jobs, assets>>
          /\ release' = [release EXCEPT ![v] = "upload"]
          /\ upload' = [upload EXCEPT ![v] = found]
      BY <1>8 DEF Workflow!CreateRelease, Workflow!Step
    <2>2. Workflow!Passed(v) = Workflow!Jobs BY <1>5, <2>1 DEF Begun
    <2>3. Workflow!Native \subseteq found BY <2>2, NativeIsBuilt DEF Workflow!Workspace
    <2>4. found \subseteq Workflow!Files OBVIOUS
    <2> HIDE DEF found
    <2>5. Types' BY <1>0, <2>1, <2>4 DEF Types, Begun
    <2>6. release'[v] = "upload" /\ upload'[v] = found BY <1>0, <2>1 DEF Types
    <2> QED BY <1>0, <1>4, <2>1, <2>2, <2>3, <2>5, <2>6 DEF Types
  <1>9. ASSUME NEW v \in Versions, NEW file \in Workflow!Files, Workflow!Upload(v, file)
        PROVE  WorkflowInv'
    <2>1. /\ release[v] = "upload" /\ UNCHANGED <<jobs, release>>
          /\ upload' = [upload EXCEPT ![v] = upload[v] \ {file}]
          /\ assets' = [assets EXCEPT ![v] = assets[v] \cup {file}]
      BY <1>9 DEF Workflow!Upload
    <2>2. Types' BY <1>0, <2>1 DEF Types
    <2>3. upload'[v] = upload[v] \ {file} /\ assets'[v] = assets[v] \cup {file}
      BY <1>0, <2>1 DEF Types
    <2>4. Workflow!Native \subseteq upload'[v] \cup assets'[v]
      BY <1>0, <2>1, <2>3 DEF NothingForgotten
    <2>5. Workflow!Passed(v) = Workflow!Jobs BY <1>5, <2>1 DEF Begun
    <2> QED BY <1>0, <1>4, <2>1, <2>2, <2>4, <2>5 DEF Types
  <1>10. ASSUME NEW v \in Versions, Workflow!EndRelease(v) PROVE WorkflowInv'
    <2>1. /\ release[v] = "upload" /\ upload[v] = {} /\ UNCHANGED <<jobs, upload, assets>>
          /\ release' = [release EXCEPT ![v] = "passed"]
      BY <1>10 DEF Workflow!EndRelease, Workflow!Step
    <2>2. Types' BY <1>0, <2>1 DEF Types, Begun
    <2>3. release'[v] = "passed" BY <1>0, <2>1 DEF Types
    <2>4. Workflow!Native \subseteq assets'[v] BY <1>0, <2>1 DEF NothingForgotten
    <2>5. Workflow!Passed(v) = Workflow!Jobs BY <1>5, <2>1 DEF Begun
    <2> QED BY <1>0, <1>4, <2>1, <2>2, <2>3, <2>4, <2>5 DEF Types
  <1>11. ASSUME NEW v \in Versions, Workflow!FailRelease(v) PROVE WorkflowInv'
    <2>1. /\ release[v] \in {"download", "create", "upload"}
          /\ release' = [release EXCEPT ![v] = "failed"]
          /\ upload' = [upload EXCEPT ![v] = {}] /\ UNCHANGED <<jobs, assets>>
      BY <1>11 DEF Workflow!FailRelease, Workflow!Step
    <2>2. Types' BY <1>0, <2>1 DEF Types, Begun
    <2>3. release'[v] = "failed" BY <1>0, <2>1 DEF Types
    <2>4. Workflow!Passed(v) = Workflow!Jobs BY <1>5, <2>1 DEF Begun
    <2> QED BY <1>0, <1>4, <2>1, <2>2, <2>3, <2>4 DEF Types
  <1>12. ASSUME NEW v \in Versions, Workflow!Rerun(v) PROVE WorkflowInv'
    <2>1. Types' BY <1>0, <1>12 DEF Types, Workflow!Rerun, States, Begun
    <2>2. Workflow!Passed(v) \subseteq Workflow!Passed(v)'
      BY <1>0, <1>12 DEF Types, Workflow!Rerun, Workflow!Passed
    <2>3. BuiltFirst(v)' /\ NothingForgotten(v)'
      <3>1. CASE release[v] = "failed"
        <4>1. Workflow!Passed(v)' = Workflow!Jobs BY <1>5, <2>2, <3>1 DEF Begun, Workflow!Passed
        <4>2. release'[v] = "queued" BY <1>0, <1>12, <3>1 DEF Workflow!Rerun, Types
        <4> QED BY <4>1, <4>2 DEF BuiltFirst, NothingForgotten
      <3>2. CASE release[v] # "failed"
        <4>1. PICK j \in Workflow!Jobs : jobs[v][j] = "failed" BY <1>12, <3>2 DEF Workflow!Rerun
        <4>2. j \notin Workflow!Passed(v) BY <4>1 DEF Workflow!Passed
        <4>3. release[v] \notin Begun /\ assets[v] = {} BY <1>0, <4>2 DEF BuiltFirst
        <4>4. release'[v] = release[v] /\ assets' = assets
          BY <1>0, <1>12, <3>2 DEF Workflow!Rerun, Types
        <4> QED BY <4>3, <4>4 DEF BuiltFirst, NothingForgotten, Begun
      <3> QED BY <3>1, <3>2
    <2>4. \A w \in Versions \ {v} : BuiltFirst(w)' /\ NothingForgotten(w)'
      BY <1>0, <1>12, OthersUnchanged DEF Types, Workflow!Rerun
    <2> QED BY <2>1, <2>3, <2>4 DEF WorkflowInv
  <1> QED
    BY <1>1, <1>2, <1>3, <1>6, <1>7, <1>8, <1>9, <1>10, <1>11, <1>12
    DEF PipelineNext, Proceed, Workflow!Proceed, Trouble

\* A last job that passes has published every native library and both headers,
\* for any number of releasers and tags, and however often its builds and it
\* itself fail, between two uploads too, and are run again.
THEOREM NativeAssetsPublished == PipelineSpec => []NativeAssetsComplete
  <1>1. PipelineInit => WorkflowInv BY InitWorkflowInv DEF PipelineInit
  <1>2. WorkflowInv => NativeAssetsComplete
    BY DEF WorkflowInv, NothingForgotten, NativeAssetsComplete,
           Workflow!NativeAssetsComplete
  <1> QED BY <1>1, <1>2, NextWorkflowInv, PTL DEF PipelineSpec

\* No file is published before all builds have passed, and none of them is undone
\* by running failed jobs again.
THEOREM BuiltBeforePublished == PipelineSpec => []NothingPublishedEarly
  <1>1. PipelineInit => WorkflowInv BY InitWorkflowInv DEF PipelineInit
  <1>2. WorkflowInv => NothingPublishedEarly
    BY DEF WorkflowInv, BuiltFirst, NothingPublishedEarly,
           Workflow!NothingPublishedEarly
  <1> QED BY <1>1, <1>2, NextWorkflowInv, PTL DEF PipelineSpec

-----------------------------------------------------------------------------
(* The tags in the pipeline: the workflow does not touch them. *)

\* A tag that `make release` made names, wherever it was pushed from and by
\* whatever command, a commit whose Package.swift is for that version.
THEOREM MadeTagsNamed == PipelineSpec => []MadeTagsNameTheirManifest
  <1>1. PipelineInit => IInv BY InitIInv DEF PipelineInit
  <1>2. IInv /\ [PipelineNext]_<<vars, workflows>> => IInv'
    BY NextIInv DEF PipelineNext, Proceed, Trouble
  <1>3. IInv => MadeTagsNameTheirManifest BY DEF IInv
  <1> QED BY <1>1, <1>2, <1>3, PTL DEF PipelineSpec

\* Every variable of the clones and of the origin has its type.
THEOREM TypeCorrect == PipelineSpec => []TypeOK
  <1>1. PipelineInit => IInv BY InitIInv DEF PipelineInit
  <1>2. IInv /\ [PipelineNext]_<<vars, workflows>> => IInv'
    BY NextIInv DEF PipelineNext, Proceed, Trouble
  <1>3. IInv => TypeOK BY DEF IInv
  <1> QED BY <1>1, <1>2, <1>3, PTL DEF PipelineSpec
=============================================================================
