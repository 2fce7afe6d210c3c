---------------------------- MODULE MCSyntaxText ----------------------------
(***************************************************************************)
(* Small texts for TLC: the character c takes two bytes.                   *)
(***************************************************************************)
EXTENDS SyntaxText

a == <<"a">>
c == <<"c", "c'">>
ac == a \o c
MCTexts == {<<>>, a, c}
MCDocuments == [m |-> {<<a, <<>>, c>>, <<c, a>>}, n |-> {<<a \o c>>}]
=============================================================================
