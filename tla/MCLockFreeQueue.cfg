\* Two pushing and two popping threads over a ring of two cells.
CONSTANTS
    N = 2
    Producer = {p1, p2}
    Consumer = {c1, c2}
    MaxBatch = 2
    MaxItems = 5
    NoData = NoData
SPECIFICATION Spec
SYMMETRY Interchangeable
INVARIANTS TypeOK OneOwner PopsWhatWasPushed
PROPERTY AnswersAreHonest
CHECK_DEADLOCK FALSE
