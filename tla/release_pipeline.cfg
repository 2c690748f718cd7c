\* One person releases, by make and by hand, and GitHub runs the workflow.
SPECIFICATION PipelineSpec
CONSTANTS
    Releasers = {ann}
    MaxVersion = 1
    MaxEdits = 1
    MaxCommits = 3
INVARIANTS
    TypeOK
    MadeTagsNameTheirManifest
    NativeAssetsComplete
    NothingPublishedEarly
PROPERTY TaggedIsReleased
