-------------------------------- MODULE Releases --------------------------------
(***************************************************************************)
(* The release pipeline as a whole: tags that `make release` or a person   *)
(* pushes (ReleaseTags), and the workflow that GitHub starts for each of   *)
(* them some time after it has appeared at the origin (ReleaseWorkflow).   *)
(***************************************************************************)
EXTENDS ReleaseTags

VARIABLES jobs, release, upload, assets   \* see ReleaseWorkflow

Workflow == INSTANCE ReleaseWorkflow WITH Tags <- Versions, pushed <- Tagged

workflows == <<jobs, release, upload, assets>>

PipelineInit == Init /\ Workflow!Init

\* People and GitHub take turns in any order; they share the origin's tags.
Proceed(v) == UNCHANGED vars /\ Workflow!Proceed(v)
Trouble(v) == UNCHANGED vars /\ (Workflow!FailRelease(v) \/ Workflow!Rerun(v))

PipelineNext ==
    \/ Next /\ UNCHANGED workflows
    \/ \E v \in Versions : Proceed(v) \/ Trouble(v)

\* GitHub gets on with what it has; nobody has to release or to repeat.
PipelineSpec ==
    /\ PipelineInit
    /\ [][PipelineNext]_<<vars, workflows>>
    /\ \A v \in Versions : WF_<<vars, workflows>>(Proceed(v))

-----------------------------------------------------------------------------
(* Properties, next to those of ReleaseTags. *)

\* What a workflow has published when it passes, and before all builds have: see
\* ReleaseWorkflow, here for tags that come and go through clones, retries and
\* pushes by hand.
NativeAssetsComplete == Workflow!NativeAssetsComplete
NothingPublishedEarly == Workflow!NothingPublishedEarly

\* However a tag came to the origin - with the branch or without, by make, by
\* hand, or by hand after make had failed to push it - it is released, or a
\* failed job is there to see.
TaggedIsReleased == Workflow!PushedIsReleased
=============================================================================
