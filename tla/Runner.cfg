SPECIFICATION FairSpec
CONSTANTS
    Compiled = {"cpp"}
    Interpreted = {"python"}
    Unknown = {"pascal"}
    Timeout = 2
INVARIANTS
    TypeOK
    CallIsShort
    StatusNamesStage
PROPERTY
    CallReturns
