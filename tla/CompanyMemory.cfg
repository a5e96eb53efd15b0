CONSTANTS
    s1 = s1
    s2 = s2
    a1 = a1
    a2 = a2
    i1 = i1
    i2 = i2
    Sessions <- TwoSessions
    Keys = {"k1"}
    Answers <- TwoAnswers
    SourceIds <- TwoSources
    Confidences <- AnyNumber
    Absent = Absent
    None = None
    MaxOps = 5
SPECIFICATION Spec
SYMMETRY Symmetric
INVARIANT TypeOK
INVARIANT MappingsHaveSources
INVARIANT UserAnswerStands
INVARIANT KnownIsUndisputed
INVARIANT DecisionHasProfile
PROPERTY RecordedOutputsStand
CHECK_DEADLOCK FALSE
