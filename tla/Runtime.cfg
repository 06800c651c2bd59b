SPECIFICATION Spec
CONSTANTS
    u1 = u1
    u2 = u2
    c1 = c1
    c2 = c2
    conn1 = conn1
    None = None
    UdpQueries = {u1, u2}
    TcpQueries = {c1}
    Conns = {conn1}
    ConnOf <- MCConnOf
    Ports = {1}
    AnswerOf <- MCAnswerOf
    Requests = {1}
    Loops = {"dns", "collection"}
INVARIANTS
    TypeOK
    AnswersNotMixed
    CutOnlyWhenLate
PROPERTIES
    ExitsWhenAsked
    RecordedIsTaken
CHECK_DEADLOCK FALSE
