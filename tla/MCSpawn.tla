------------------------------ MODULE MCSpawn ------------------------------
EXTENDS Spawn

MCImage == <<"file", "file", "bss">>
MCLines == {<<>>, <<"w">>, <<"W">>, <<"w", "w">>, <<"w", "w", "w">>, <<"<", "w", "w">>, <<"w", ">">>, <<"w", "|">>}
=============================================================================
