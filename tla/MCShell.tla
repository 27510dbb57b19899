------------------------------ MODULE MCShell ------------------------------
EXTENDS Shell

MCCommands == {<<"cal">>}
MCLines == BoundedSeq({"cal", "exit", " ", "&"}, 4)
=============================================================================
