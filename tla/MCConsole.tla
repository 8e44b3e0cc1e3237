----------------------------- MODULE MCConsole ------------------------------
(***************************************************************************)
(* Two terminals of one row: each row's end scrolls the screen.  A          *)
(* program's text that ends a row and one that begins a new line.           *)
(***************************************************************************)
EXTENDS Console

MCOutputs == {<<"a">>, <<"a", Newline>>}
MCPrompt == <<"a">>
MCBanner == <<"a">>
MCMessage == <<"a">>
MCException == <<"a", Newline>>
=============================================================================
