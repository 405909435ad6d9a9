SPECIFICATION Spec
CONSTANTS
    Object = {o1, o2}
    Absent = Absent
    Empty = Empty
    Torn = Torn
    MaxChanges = 4
    MaxCrashes = 2
INVARIANT SavedSurvives
PROPERTY PersistIsAtomic
SYMMETRY ObjectSymmetry
CHECK_DEADLOCK FALSE
