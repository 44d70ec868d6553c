----------------------------- MODULE MCManager -----------------------------
EXTENDS Manager

MCPaths == {<<"a", "b">>, <<"", "a", "..", "c.">>}
MCHome == <<"home">>
=============================================================================
