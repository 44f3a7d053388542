SPECIFICATION FairSpec
CONSTANTS
    m1 = m1
    m2 = m2
    c1 = c1
    c2 = c2
    None = None
    Mutations = {m1, m2}
    Authorized = {m1}
    Children = {c1, c2}
    MaxQueue = 1
CHECK_DEADLOCK FALSE
INVARIANTS SingleWriter AdmissionDecides
PROPERTIES AnswerIsFinal Answered
