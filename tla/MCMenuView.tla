----------------------------- MODULE MCMenuView -----------------------------
(* The instance of MenuView: all menus of up to seven lines, on a screen    *)
(* that shows two or three of them.                                         *)
EXTENDS MenuView
=============================================================================
