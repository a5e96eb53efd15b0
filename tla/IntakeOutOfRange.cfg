CONSTANTS
    s1 = s1
    s2 = s2
    a1 = a1
    a2 = a2
    i1 = i1
    i2 = i2
    Sessions <- TwoSessions
    Keys = {"k1"}
    Answers <- TwoAnswers
    SourceIds <- TwoSources
    Confidences <- AnyNumber
    Absent = Absent
    None = None
    MaxOps = 2
SPECIFICATION Spec
SYMMETRY Symmetric
INVARIANT SavedIntakeLoads
CHECK_DEADLOCK FALSE
