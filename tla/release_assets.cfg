\* The assets of a release against the list in docs/CI_SETUP.md.
SPECIFICATION Spec
CONSTANT Tags = {v1}
INVARIANT DocumentedAssets
CHECK_DEADLOCK FALSE
