SPECIFICATION Spec
CONSTANTS
    QD = 1
    Buffers = 2
    BufferSize = 5
    OutSize = 1
    NameLen = 1
    ControlLen = 1
    c1 = c1
    c2 = c2
    Datagrams <- MCDatagrams
INVARIANTS
    OneOwner
    Listening
    EchoExact
PROPERTY BuffersReturn
