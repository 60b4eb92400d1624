SPECIFICATION Spec
CONSTANTS
    Writers = {"shell"}
    Initialisers = {"shell"}
    Reader = "server"
    Build <- MCBuildAlike
    MaxKeys = 1
    MaxData = 1
    MaxCommands = 2
    Scripts <- MCToolScripts
    MaxUndecodable = 2
INVARIANTS ReaderHoldsUpNoWriter
CHECK_DEADLOCK FALSE
