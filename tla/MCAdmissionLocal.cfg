SPECIFICATION Spec
CONSTANTS
    Literals <- MCLiterals
    DotWisp = 46
    WispnetIds = {1}
    Files <- MCFiles
    Envs <- MCEnvs
    Paths <- MCPaths
    Targets <- MCTargets
    Infos <- MCInfos
    Builders = {1, 2}
    Packets <- MCPackets
    Answers <- MCAnswers
    MaxBusy = 1
INVARIANTS LinkLocalIsNotGlobal
CHECK_DEADLOCK FALSE
