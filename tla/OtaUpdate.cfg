SPECIFICATION Spec
CONSTANTS
    HeaderCells = 2
    BodyCells = 3
    PartCells = 6
    BlockCells = 3
    Reconnects = 1
    RetryUnits = 3
    Sessions = {1, 2, 3}
INVARIANTS
    TypeOK
    CursorsAgree
    AcceptedIsServed
    IntactNotAborted
    SessionUsable
    ContextLives
    FlagTracksTask
PROPERTY
    UpdateEnds
