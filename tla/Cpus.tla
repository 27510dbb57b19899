-------------------------------- MODULE Cpus --------------------------------
(* The CPUs of the machine (cpus[] of kern/cpu.h), as the big kernel lock and  *)
(* the scheduler name them.                                                    *)

CONSTANTS CPU,     \* the CPUs of cpus[0 .. ncpu-1]
          NoCpu    \* the null pointer where the lock names its holder

ASSUME CpuAssumption == NoCpu \notin CPU
=============================================================================
