CONSTANTS
    c1 = c1
    c2 = c2
    CPU = {c1, c2}
    BootCPU = c1
    NoCpu = NoCpu
    NENV = 3
    MaxGen = 1
SPECIFICATION FairLibSpec
PROPERTIES ZombiesReaped StarvedOnlyByDeaths
