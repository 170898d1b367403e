\* A request that has been answered is an end of the behaviour.
SPECIFICATION Spec
CHECK_DEADLOCK FALSE
CONSTANTS
    Configs <- MCConfigs
    Contents <- MCContents
    Empty = ""
    Norm <- MCNorm
INVARIANTS RolesAreThere WorkersNeitherCheckNorMerge PluralityWins SummaryMatchesVote BestAnswerReturned CutShortIsSaid
