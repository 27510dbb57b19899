-------------------------------- MODULE MCFs --------------------------------
(* Small instances of Fs. *)
EXTENDS Fs, TLC

CONSTANTS f1, f2

MCWrites == {<<0, 2>>, <<1, 2>>, <<4, 1>>, <<6, 2>>}
Clients == Permutations(Names)
=============================================================================
