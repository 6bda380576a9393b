-------------------------- MODULE MCConsoleReader --------------------------
(***************************************************************************)
(* Small instances of ConsoleReader: any line after any line.              *)
(***************************************************************************)
EXTENDS ConsoleReader

NoLogs == {<< >>}
OneLog == {<< >>, <<"fee">>}
=============================================================================
