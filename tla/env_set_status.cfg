CONSTANTS
    c1 = c1
    c2 = c2
    CPU = {c1, c2}
    BootCPU = c1
    NoCpu = NoCpu
    NENV = 2
    MaxGen = 1
SPECIFICATION Spec
INVARIANT OneCpuPerEnv
