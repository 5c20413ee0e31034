----------------------------- MODULE MCDesktop -----------------------------
(***************************************************************************)
(* The desktop application with two games to import into the bundle on      *)
(* disk and an empty scratch bundle, on which list queries may fail.        *)
(***************************************************************************)
EXTENDS Desktop

MCMaxGames == [file |-> 2, scratch |-> 0]
MCFailingReads == {<<"scratch", "query">>, <<"file", "row">>, <<"file", "match">>}

=============================================================================
