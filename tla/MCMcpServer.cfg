SPECIFICATION Spec
CONSTANTS
    Writers = {"shell", "cron"}
    Initialisers = {"shell"}
    Reader = "server"
    Build <- MCBuild
    MaxKeys = 2
    MaxData = 1
    MaxCommands = 4
    Scripts <- MCScripts
    MaxUndecodable = 2
INVARIANTS KeyOpensTheFile WriteMeetsItsSchema BackupIsWhole RepliesMatchRequests EmptyMeansMissing
CHECK_DEADLOCK FALSE
