-------------------------- MODULE MCOptionContext --------------------------
(* OptionContext on lists of one and two options.                          *)
EXTENDS OptionContext

CONSTANTS o1, o2, o3

MCOptions == {o1, o2, o3}
MCOptionLists == {<<o1>>, <<o2>>, <<o3, o1>>}
=============================================================================
