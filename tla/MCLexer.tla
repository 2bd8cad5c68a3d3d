------------------------------ MODULE MCLexer ------------------------------
(***************************************************************************)
(* The instance of Lexer for TLC: all files of up to MaxPieces pieces.     *)
(***************************************************************************)
EXTENDS Lexer

CONSTANT MaxPieces  \* bound: the pieces of a file

Pieces == {<<"#">>, <<"$">>, <<"0", "A", "0", "F">>, <<"6", "5", "5", "3", "5">>,
           <<"6", "5", "5", "3", "6">>, <<"R", "0">>, <<"R", "7">>, <<"R", "8">>, <<"o", "r">>,
           <<"n", "o", "t">>, <<"(">>, <<",">>, <<"sp">>, <<"nl">>, <<";">>, <<"ff">>,
           <<"other">>}

LexLetters == HexLetter \cup {"R", "n", "o", "r", "t"}
LexReserved == {<<"o", "r">>}
LexMnemonics == LexReserved \cup {<<"n", "o", "t">>}

\* The files of at most n pieces.
Files[n \in Nat] ==
    IF n = 0 THEN {<<>>}
    ELSE LET shorter == Files[n - 1]
         IN  {<<>>} \cup {f \o p : f \in shorter, p \in Pieces}
LexInputs == Files[MaxPieces]
=============================================================================
