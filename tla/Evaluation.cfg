SPECIFICATION Spec
CONSTANTS
    Evaluators = {e1}
    Bundles = {b1, b2}
    C = 2
    Versions = {1, 2}
    Literal = {2}
    MaxEdits = 1
SYMMETRY Symmetry
INVARIANTS SummaryMeansComplete RowsAreRecorded RerunIsTheSame
PROPERTIES RecordIsKept
