-------------------------- MODULE MCSourceSelection --------------------------
(* Small instances of SourceSelection for TLC. *)
EXTENDS SourceSelection

Roots == {<<Here>>, <<1>>, <<2, Up, 1, Here>>, <<1, 1>>, <<2>>, <<Up>>, <<1, 2>>}
W == <<1>>
Below == {<<1>>, <<1, 1>>, <<1, 1, 2>>, <<1, 2>>, <<1, 2, 1>>, <<2>>, <<1, 3>>}
=============================================================================
