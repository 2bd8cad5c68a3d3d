------------------------------- MODULE Lexer -------------------------------
(***************************************************************************)
(* The lexer of CS720/parser (src/lex.c) driven by the loop of src/main.c: *)
(* one step for every character that is read, with the push-back of one    *)
(* character and the allocation of tokens.                                 *)
(*                                                                         *)
(* lex->next and the local next are chars, so that the byte 0xFF cannot be *)
(* told from EOF, and ungetc(EOF) puts nothing back.                       *)
(***************************************************************************)
EXTENDS Integers, Sequences

CONSTANTS
    Inputs,    \* the files, as sequences of characters
    Letter,    \* the letters that occur in them
    Reserved,  \* the reserved_words
    Mnemonics  \* the instructions of parse.h, all of them reserved but "not"

Digit == {"0", "1", "2", "3", "4", "5", "6", "7", "8", "9"}
HexLetter == {"A", "B", "C", "D", "E", "F"}
\* "sp" is every isspace but the newline, "nl" the newline, "ff" the byte 0xFF
\* and "other" a character no token starts with or contains.
Blank == {"sp"}
Space == Blank \cup {"nl"}
\* The tokens of one character.
Single == [c \in {"nl", "(", ")", ":", ",", "+"} |->
             CASE c = "nl" -> "NEWLINE" [] c = "(" -> "LPAREN" [] c = ")" -> "RPAREN"
               [] c = ":" -> "COLON" [] c = "," -> "COMMA" [] c = "+" -> "PLUS"]
Char == Digit \cup Letter \cup Space \cup DOMAIN Single
          \cup {"_", "#", "$", ";", "ff", "other"}

ASSUME LetterAssumption ==
    /\ HexLetter \cup {"R"} \subseteq Letter
    /\ Letter \cap (Digit \cup Space \cup DOMAIN Single
                      \cup {"_", "#", "$", ";", "ff", "other", "EOF"}) = {}
ASSUME InputAssumption == /\ Inputs \subseteq Seq(Char)
                          /\ Mnemonics \subseteq Seq(Letter) /\ Reserved \subseteq Mnemonics

IdentStart == Letter \cup {"_"}
IdentChar == IdentStart \cup Digit
Separator == Space \cup {";", ":", ",", ")", "+"}

VARIABLES
    input,  \* the contents of the file
    pos,    \* the position of the next character in the stream
    pc,     \* where main and the lexer are
    tok,    \* *tok: its type and value; from is where its text starts
    out,    \* the tokens printed
    error,  \* the status_t main returns
    owned   \* what has been allocated or opened and not yet given back

vars == <<input, pos, pc, tok, out, error, owned>>

NoTok == [type |-> "none", value |-> <<>>, from |-> 0]

Init == /\ input \in Inputs
        /\ pos = 1
        /\ pc = "main"
        /\ tok = NoTok
        /\ out = <<>>
        /\ error = "SUCCESS"
        /\ owned = {}

---------------------------------------------------------------------------
(* getc and ungetc *)

\* The char that getc yields, and the position after it.
NextChar == IF pos > Len(input) THEN "EOF"
            ELSE IF input[pos] = "ff" THEN "EOF" ELSE input[pos]
Past == IF pos > Len(input) THEN pos ELSE pos + 1

\* The position after getc and ungetc of the same char.
Unread == IF NextChar = "EOF" THEN Past ELSE pos

---------------------------------------------------------------------------
(* main *)

\* fopen or lex_initialize fails; what lex_initialize had allocated is freed.
MainFails == /\ pc = "main"
             /\ \/ error' = "FILE_OPEN_ERROR" /\ UNCHANGED owned /\ pc' = "done"
                \/ error' = "OUT_OF_MEM" /\ owned' = {"stream"} /\ pc' = "exit"
             /\ UNCHANGED <<input, pos, tok, out>>

MainStarts == /\ pc = "main"
              /\ owned' = {"stream", "lex"}
              /\ pc' = "token"
              /\ UNCHANGED <<input, pos, tok, out, error>>

\* free, fclose: undefined for what is not owned, so that no step follows.
GiveBack(things) == things \subseteq owned /\ owned' = owned \ things

\* tok_print and tok_uninitialize in the loop.
TokPrint == /\ pc = "print"
            /\ out' = Append(out, tok)
            /\ GiveBack({"tok"})
            /\ tok' = NoTok
            /\ pc' = "token"
            /\ UNCHANGED <<input, pos, error>>

\* lex_uninitialize (if there is a lexer) and fclose; without an error the
\* token TOK_EOF goes, too.
MainExit == /\ pc = "exit"
            /\ GiveBack({"stream"} \cup (owned \cap {"lex"})
                          \cup {x \in {"tok"} : error = "SUCCESS"})
            /\ pc' = "done"
            /\ UNCHANGED <<input, pos, tok, out, error>>

---------------------------------------------------------------------------
(* lex_get_next_token *)

NoMemory == /\ pc = "token"
            /\ error' = "OUT_OF_MEM"
            /\ pc' = "exit"
            /\ UNCHANGED <<input, pos, tok, out, owned>>

\* tok_initialize and the first getc of a token of this type.
Begin(type, value, l) ==
    /\ pc = "token"
    /\ owned' = owned \cup {"tok"}
    /\ tok' = [type |-> type, value |-> value, from |-> pos]
    /\ pos' = Past
    /\ pc' = l
    /\ UNCHANGED <<input, out, error>>

GetEof == NextChar = "EOF" /\ Begin("TOK_EOF", <<"EOF">>, "exit")

GetSingle == /\ NextChar \in DOMAIN Single
             /\ Begin(Single[NextChar], <<NextChar>>,
                      IF NextChar = "nl" THEN "newline" ELSE "skip")

GetHexi == NextChar = "#" /\ Begin("HEXI", <<>>, "hexi")
GetDeci == NextChar = "$" /\ Begin("DECI", <<>>, "deci")
GetIdentLike == NextChar \in IdentStart /\ Begin("IDENT", <<NextChar>>, "ident")

\* UNEXPECTED_CHAR: the token is freed.
Fail(p) == /\ error' = "UNEXPECTED_CHAR"
           /\ GiveBack({"tok"})
           /\ pos' = p
           /\ pc' = "exit"
           /\ UNCHANGED <<input, tok, out>>

Unexpected == /\ pc = "token"
              /\ NextChar \notin DOMAIN Single \cup IdentStart \cup {"EOF", "#", "$"}
              /\ error' = "UNEXPECTED_CHAR"
              /\ tok' = [NoTok EXCEPT !.from = pos]
              /\ pos' = Past
              /\ pc' = "exit"
              /\ UNCHANGED <<input, out, owned>>

\* tok_value_append of the char that was read.
AppendNext == /\ tok' = [tok EXCEPT !.value = Append(@, NextChar)]
              /\ pos' = Past
              /\ UNCHANGED <<input, pc, out, error, owned>>

Goto(l, p) == /\ pc' = l
              /\ pos' = p
              /\ UNCHANGED <<input, tok, out, error, owned>>

\* lex_get_hexi: four digits.
HexiDigit == /\ pc = "hexi" /\ Len(tok.value) < 4
             /\ NextChar \in Digit \cup HexLetter
             /\ AppendNext
HexiBad == /\ pc = "hexi" /\ Len(tok.value) < 4
           /\ NextChar \notin Digit \cup HexLetter
           /\ Fail(Past)
HexiEnd == /\ pc = "hexi" /\ Len(tok.value) = 4
           /\ Goto("separator", pos)

\* What atoi makes of five decimal digits.
DigitValue == [c \in Digit |->
                 CASE c = "0" -> 0 [] c = "1" -> 1 [] c = "2" -> 2 [] c = "3" -> 3
                   [] c = "4" -> 4 [] c = "5" -> 5 [] c = "6" -> 6 [] c = "7" -> 7
                   [] c = "8" -> 8 [] c = "9" -> 9]
Atoi(s) == 10000 * DigitValue[s[1]] + 1000 * DigitValue[s[2]] + 100 * DigitValue[s[3]]
             + 10 * DigitValue[s[4]] + DigitValue[s[5]]

\* lex_get_deci: five digits, 16 bits.
DeciDigit == pc = "deci" /\ Len(tok.value) < 5 /\ NextChar \in Digit /\ AppendNext
DeciBad == pc = "deci" /\ Len(tok.value) < 5 /\ NextChar \notin Digit /\ Fail(Past)
\* Fault: the limit itself is let through.
DeciEndLong == /\ pc = "deci" /\ Len(tok.value) = 5
               /\ IF Atoi(tok.value) > 65536 THEN Fail(pos) ELSE Goto("separator", pos)
DeciEnd == /\ pc = "deci" /\ Len(tok.value) = 5
           /\ IF Atoi(tok.value) >= 65536 THEN Fail(pos) ELSE Goto("separator", pos)

\* lex_get_ident_like.
IdentNext == pc = "ident" /\ NextChar \in IdentChar /\ AppendNext
\* Fault: the character after the identifier is not put back.
IdentEndEats == pc = "ident" /\ NextChar \notin IdentChar /\ Goto("separator", Past)
IdentEnd == pc = "ident" /\ NextChar \notin IdentChar /\ Goto("separator", Unread)

\* is_register, then the map of the reserved words.
TypeOf(t) == IF t.type # "IDENT" THEN t.type
             ELSE IF /\ Len(t.value) = 2 /\ t.value[1] = "R"
                     /\ t.value[2] \in Digit \ {"8", "9"}
                  THEN "REGISTER"
                  ELSE IF t.value \in Reserved THEN "INSTRUCTION" ELSE "IDENT"

\* lex_is_next_separator after a number or an identifier.
SeparatorYes == /\ pc = "separator"
                /\ NextChar \in Separator
                /\ tok' = [tok EXCEPT !.type = TypeOf(tok)]
                /\ pc' = "skip"
                /\ UNCHANGED <<input, pos, out, error, owned>>
SeparatorNo == pc = "separator" /\ NextChar \notin Separator /\ Fail(Unread)

---------------------------------------------------------------------------
(* lex_skip_insignificant, lex_get_newline *)

\* Fault: newlines are skipped like blanks.
SkipSpace == /\ pc = "skip"
             /\ \/ NextChar \in Space /\ Goto("skip", Past)
                \/ NextChar = ";" /\ Goto("comment", Past)
                \/ NextChar \notin Space \cup {";"} /\ Goto("print", Unread)

Skip == /\ pc = "skip"
        /\ \/ NextChar \in Blank /\ Goto("skip", Past)
           \/ NextChar = ";" /\ Goto("comment", Past)
           \/ NextChar \notin Blank \cup {";"} /\ Goto("print", Unread)

\* Neither of the comment loops looks for the end of the file.
Comment == /\ pc = "comment"
           /\ \/ NextChar # "nl" /\ Goto("comment", Past)
              \/ NextChar = "nl" /\ Goto("print", Unread)

\* Fault: the end of the file is taken for a blank.
NewlineEof == /\ pc = "newline"
              /\ \/ NextChar \in Space \cup {"EOF"} /\ Goto("newline", Past)
                 \/ NextChar = ";" /\ Goto("newlineComment", Past)
                 \/ NextChar \notin Space \cup {";", "EOF"} /\ Goto("print", Unread)

\* Fault: what comes after the first comment is not skipped.
NewlineOnce == /\ pc = "newlineComment"
               /\ \/ NextChar # "nl" /\ Goto("newlineComment", Past)
                  \/ NextChar = "nl" /\ Goto("print", Unread)

Newline == /\ pc = "newline"
           /\ \/ NextChar \in Space /\ Goto("newline", Past)
              \/ NextChar = ";" /\ Goto("newlineComment", Past)
              \/ NextChar \notin Space \cup {";"} /\ Goto("print", Unread)

NewlineComment == /\ pc = "newlineComment"
                  /\ \/ NextChar # "nl" /\ Goto("newlineComment", Past)
                     \/ NextChar = "nl" /\ Goto("newline", Past)

---------------------------------------------------------------------------
Token == \/ GetEof \/ GetSingle \/ GetHexi \/ GetDeci \/ GetIdentLike
         \/ Unexpected \/ NoMemory

Number == HexiDigit \/ HexiBad \/ HexiEnd \/ DeciDigit \/ DeciBad \/ DeciEnd
Word == IdentNext \/ IdentEnd \/ SeparatorYes \/ SeparatorNo
Gap == Skip \/ Comment \/ Newline \/ NewlineComment

Next == MainFails \/ MainStarts \/ Token \/ Number \/ Word \/ Gap \/ TokPrint \/ MainExit

Spec == Init /\ [][Next]_vars

\* A program that is run goes on.
FairSpec == Spec /\ WF_vars(Next)

---------------------------------------------------------------------------
(* The tokens of inc/parse.h, as sets of texts.  Nothing here is taken from *)
(* the scanner: the registers are parse.h's R1 to R8, and the instructions  *)
(* are parse.h's.                                                           *)

HexiText(s) == /\ Len(s) = 5 /\ s[1] = "#"
               /\ \A i \in 2..5 : s[i] \in Digit \cup HexLetter
DeciText(s) == /\ Len(s) = 6 /\ s[1] = "$"
               /\ \A i \in 2..6 : s[i] \in Digit
               /\ Atoi(Tail(s)) <= 65535
WordText(s) == /\ s # <<>> /\ s[1] \in IdentStart
               /\ \A i \in 1..Len(s) : s[i] \in IdentChar
RegisterText(s) == s \in {<<"R", d>> : d \in Digit \ {"0", "9"}}

\* The types of the tokens a text can be.
TypesOf(s) ==
    {t \in {"HEXI"} : HexiText(s)} \cup {t \in {"DECI"} : DeciText(s)}
      \cup {t \in {"REGISTER"} : RegisterText(s)}
      \cup {t \in {"INSTRUCTION"} : s \in Mnemonics}
      \cup {t \in {"IDENT"} : WordText(s) /\ ~ RegisterText(s) /\ s \notin Mnemonics}
      \cup {t \in {"NEWLINE", "LPAREN", "RPAREN", "COLON", "COMMA", "PLUS"} :
               \E c \in DOMAIN Single : s = <<c>> /\ Single[c] = t}

\* How many characters of the file a token stands for, and its last one.
Width(t) == Len(t.value) + IF t.type \in {"HEXI", "DECI"} THEN 1 ELSE 0
LastOf(t) == t.from + Width(t) - 1

TextOf(t) == SubSeq(input, t.from, LastOf(t))

\* The texts that lex.c and parse.h type differently: R0 is a register for
\* is_register (lex.c:237) and R8 is not, against R[1-8] (parse.h:67); and the
\* reserved_words (lex.c:36-60) lack an instruction of parse.h:84.
Disputed == {<<"R", "0">>, <<"R", "8">>} \cup (Mnemonics \ Reserved)

\* The next character after a number or a word is a separator.  The end of a
\* word is looked for with getc and ungetc, so that one byte 0xFF is lost there.
SeparatorFollows(t) ==
    \E n \in {1, 2} : /\ LastOf(t) + n <= Len(input)
                      /\ input[LastOf(t) + n] \in Separator
                      /\ n = 2 => /\ input[LastOf(t) + 1] = "ff"
                                  /\ t.type \notin {"HEXI", "DECI"}

\* Every token printed is a text of the file and has the type that the grammar
\* of parse.h:59-91 gives this text; the texts in dispute have lex.c's types
\* (lex.c:233-238, 431-438).  A separator follows every number and every word
\* (lex.c:246-252).
TokensMatch ==
    \A k \in 1..Len(out) :
        LET t == out[k] IN
        /\ LastOf(t) <= Len(input)
        /\ t.value = IF t.type \in {"HEXI", "DECI"} THEN Tail(TextOf(t)) ELSE TextOf(t)
        /\ IF TextOf(t) \in Disputed
           THEN t.type = IF TextOf(t) = <<"R", "0">> THEN "REGISTER" ELSE "IDENT"
           ELSE t.type \in TypesOf(TextOf(t))
        /\ t.type \in {"HEXI", "DECI", "IDENT", "REGISTER", "INSTRUCTION"} => SeparatorFollows(t)

\* Position p is in a comment that begins at i or later.
InComment(i, p) == \E q \in i..p : /\ input[q] = ";"
                                   /\ \A r \in q..p : input[r] # "nl"

\* What lies after out[k] and before position j is blank, a comment or, after
\* a NEWLINE, more newlines; or it is the byte that looks like EOF.
Insignificant(k, j) ==
    LET i == LastOf(out[k]) + 1
    IN  \A p \in i..(j - 1) :
           \/ input[p] \in Blank \cup {"ff"}
           \/ InComment(i, p)
           \/ input[p] = "nl" /\ out[k].type = "NEWLINE"

\* The lexer loses nothing: from a token to the next, or to the end that it
\* reports with TOK_EOF, there is only insignificant text (lex.c:254-305), and
\* the end is the end of the file or the byte 0xFF.
NothingLost ==
    /\ \A k \in 1..(Len(out) - 1) : Insignificant(k, out[k + 1].from)
    /\ tok.type = "TOK_EOF" =>
          /\ out # <<>> => Insignificant(Len(out), tok.from)
          /\ tok.from <= Len(input) => input[tok.from] = "ff"
    /\ out # <<>> => out[1].from = 1

\* UNEXPECTED_CHAR is deserved: no token that a separator follows starts
\* where the rejected one does (lex.c:184-218, 361-365, 393-403, 426-429).
RejectionDeserved ==
    error = "UNEXPECTED_CHAR" =>
        \A e \in tok.from..(Len(input) - 1) :
            input[e + 1] \in Separator =>
                TypesOf(SubSeq(input, tok.from, e)) = {}

\* Empty lines and lines of comment give no token of their own: two NEWLINEs
\* in a row have a byte 0xFF between them (lex.c:283-302).
NewlinesCollapsed ==
    \A k \in 1..(Len(out) - 1) :
        out[k].type = "NEWLINE" /\ out[k + 1].type = "NEWLINE" =>
            \E p \in out[k].from..out[k + 1].from : input[p] = "ff"

\* The file ends in a comment: the loop of lex.c:267-270 or 293-296 goes on
\* reading EOF.
EndlessComment == pc \in {"comment", "newlineComment"} /\ pos > Len(input)

\* Whatever fails on the way, main ends with every token, the lexer and the
\* stream given back (main.c:34-52), unless the file ends in a comment.
EndsCleanly == <>((pc = "done" /\ owned = {}) \/ EndlessComment)
=============================================================================
