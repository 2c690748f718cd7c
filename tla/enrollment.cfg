\* Two holders, two attempts, two answers, two presentations and two key pairs.
SPECIFICATION Spec
CONSTANTS
    Holders = {ann, bob}
    Nyms = {n1, n2}
    Factors = {f1, f2}
    Entropies = {e1, e2}
    Keys = {k1, k2}
    Profiles <- TwoProfiles
    CommittedVectors <- OneCommitted
    Disclosures <- ShowSome
    Requests <- ThreeRequests
    MaxAnswers = 2
    MaxPresentations = 2
    north = north
    south = south
    noon = noon
    night = night
SYMMETRY Symmetry
INVARIANTS
    TypeOK WalletGenuine AlwaysPresentable Accountable NoFalseReplay IInv
PROPERTIES LatestAttemptOnly RefinesRegistry
CHECK_DEADLOCK FALSE
