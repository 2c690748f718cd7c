SPECIFICATION Spec
CONSTANTS
    Releasers = {ann}
    MaxVersion = 1
    MaxEdits = 1
    MaxCommits = 3
INVARIANT ChecksumOfArchive
