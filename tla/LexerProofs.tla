---------------------------- MODULE LexerProofs ----------------------------
(***************************************************************************)
(* Proofs about Lexer, for every set of files, every alphabet of letters   *)
(* and every set of instructions, reserved or not.                         *)
(***************************************************************************)
EXTENDS Lexer, SequenceTheorems, TLAPS

TokTypes == {"none", "TOK_EOF", "HEXI", "DECI", "IDENT", "REGISTER", "INSTRUCTION",
             "NEWLINE", "LPAREN", "RPAREN", "COLON", "COMMA", "PLUS"}
Toks == [type : TokTypes, value : Seq(Char \cup {"EOF"}), from : Nat]

\* The states of the lexer after the text of a token, and all of them.
Gaps == {"skip", "comment", "newline", "newlineComment", "print"}
Places == Gaps \cup {"main", "token", "hexi", "deci", "ident", "separator", "exit", "done"}

LexTypes ==
    /\ input \in Seq(Char)
    /\ pos \in 1..(Len(input) + 1)
    /\ pc \in Places
    /\ tok \in Toks
    /\ out \in Seq(Toks)
    /\ error # "SUCCESS" => pc \in {"exit", "done"}
    /\ pc = "main" => pos = 1 /\ out = <<>>
    /\ pc \in {"main", "token"} => tok = NoTok

\* What is known of the classes of characters.
LEMMA CharFacts ==
    /\ "EOF" \notin Char /\ "ff" \in Char
    /\ \A c \in Separator : c \in Char /\ c \notin IdentChar /\ c \notin {"EOF", "ff"}
    /\ \A c \in IdentChar : c \in Char /\ c \notin {"EOF", "ff", "#", "$"}
                              /\ c \notin DOMAIN Single
    /\ \A c \in Digit \cup HexLetter : c \in Char /\ c \in IdentChar
    /\ \A c \in DOMAIN Single : c \in Char /\ c \notin {"EOF", "ff", "#", "$"}
    /\ "nl" \in DOMAIN Single
    /\ \A c \in Space : c \in Char /\ c \notin {"EOF", "ff", ";"}
    /\ Space = Blank \cup {"nl"} /\ "nl" \notin Blank
<1>1. DOMAIN Single = {"nl", "(", ")", ":", ",", "+"}
  BY DEF Single
<1> QED
  BY <1>1, LetterAssumption
     DEF Char, Separator, IdentChar, IdentStart, Space, Blank, Digit, HexLetter

LEMMA EofNotChar == "EOF" \notin Char
  BY CharFacts

LEMMA SingleType ==
    \A c \in DOMAIN Single : /\ Single[c] \in TokTypes
                             /\ Single[c] \notin {"none", "TOK_EOF", "HEXI", "DECI", "IDENT",
                                                  "REGISTER", "INSTRUCTION"}
                             /\ Single[c] = "NEWLINE" <=> c = "nl"
  BY DEF Single, TokTypes

\* A place after the end z of one text that starts at a, in a longer one
\* that ends at e.
LEMMA PlaceWithin ==
    \A a, z, e, n \in Int : z - a + 1 >= 1 /\ e > z /\ e <= n - 1 =>
        z - a + 2 \in 1..(e - a + 1) /\ a + (z - a + 2) - 1 = z + 1 /\ z + 1 <= n
  OBVIOUS

LEMMA AtoiOfDigits ==
    ASSUME NEW s, DigitValue[s[1]] \in Nat, DigitValue[s[2]] \in Nat, DigitValue[s[3]] \in Nat,
           DigitValue[s[4]] \in Nat, DigitValue[s[5]] \in Nat
    PROVE  Atoi(s) \in Nat
  BY DEF Atoi

LEMMA AtoiType ==
    ASSUME NEW s \in Seq(Char \cup {"EOF"}), Len(s) = 5, \A j \in 1..Len(s) : s[j] \in Digit
    PROVE  Atoi(s) \in Nat
<1>1. \A c \in Digit : DigitValue[c] \in Nat
  BY DEF DigitValue, Digit
<1>2. s[1] \in Digit /\ s[2] \in Digit /\ s[3] \in Digit /\ s[4] \in Digit /\ s[5] \in Digit
  <2>1. \A j \in 1..5 : s[j] \in Digit
    OBVIOUS
  <2>2. 1 \in 1..5 /\ 2 \in 1..5 /\ 3 \in 1..5 /\ 4 \in 1..5 /\ 5 \in 1..5
    OBVIOUS
  <2> QED
    BY <2>1, <2>2, Zenon
<1>3. /\ DigitValue[s[1]] \in Nat /\ DigitValue[s[2]] \in Nat /\ DigitValue[s[3]] \in Nat
      /\ DigitValue[s[4]] \in Nat /\ DigitValue[s[5]] \in Nat
  BY <1>1, <1>2
<1> QED
  BY <1>3, AtoiOfDigits

\* getc and ungetc: what they give and where they leave the stream.
LEMMA Getc ==
    ASSUME LexTypes
    PROVE  /\ NextChar \in Char \cup {"EOF"}
           /\ NextChar # "EOF" => /\ pos <= Len(input) /\ input[pos] = NextChar
                                  /\ input[pos] # "ff" /\ Past = pos + 1 /\ Unread = pos
           /\ NextChar = "EOF" =>
                 /\ Unread = Past
                 /\ \/ pos = Len(input) + 1 /\ Past = pos
                    \/ pos <= Len(input) /\ input[pos] = "ff" /\ Past = pos + 1
           /\ Past \in 1..(Len(input) + 1) /\ Unread \in 1..(Len(input) + 1)
           /\ Past >= pos /\ Unread >= pos
<1>1. Len(input) \in Nat /\ pos \in 1..(Len(input) + 1)
  BY DEF LexTypes
<1>2. pos <= Len(input) => input[pos] \in Char
  BY <1>1 DEF LexTypes
<1>3. CASE pos > Len(input)
  BY <1>1, <1>3 DEF NextChar, Past, Unread
<1>4. CASE pos <= Len(input) /\ input[pos] = "ff"
  BY <1>1, <1>4 DEF NextChar, Past, Unread
<1>5. CASE pos <= Len(input) /\ input[pos] # "ff"
  <2>1. NextChar = input[pos] /\ NextChar \in Char /\ NextChar # "EOF" /\ Past = pos + 1
    BY <1>1, <1>2, <1>5, EofNotChar DEF NextChar, Past
  <2> QED
    BY <1>1, <1>5, <2>1 DEF Unread
<1> QED
  BY <1>1, <1>3, <1>4, <1>5

---------------------------------------------------------------------------
(* Types *)

LEMMA LexTypesInit == Init => LexTypes
<1> SUFFICES ASSUME Init PROVE LexTypes
  OBVIOUS
<1>1. input \in Seq(Char)
  BY InputAssumption DEF Init
<1>2. NoTok \in Toks
  BY DEF NoTok, Toks, TokTypes
<1> QED
  BY <1>1, <1>2 DEF Init, LexTypes, Places, Gaps

\* The actions by what they do to the variables.
LEMMA LexTypesStep == LexTypes /\ [Next]_vars => LexTypes'
<1> SUFFICES ASSUME LexTypes, [Next]_vars PROVE LexTypes'
  OBVIOUS
<1>0. /\ input \in Seq(Char) /\ pos \in 1..(Len(input) + 1) /\ Len(input) \in Nat
      /\ tok \in Toks /\ out \in Seq(Toks) /\ pc \in Places
      /\ error # "SUCCESS" => pc \in {"exit", "done"}
      /\ pc = "main" => pos = 1 /\ out = <<>>
      /\ pc \in {"main", "token"} => tok = NoTok
  BY DEF LexTypes
<1>00. Past \in 1..(Len(input) + 1) /\ Unread \in 1..(Len(input) + 1)
       /\ NextChar \in Char \cup {"EOF"}
  BY Getc
<1>n. NoTok \in Toks
  BY DEF NoTok, Toks, TokTypes
<1>1. ASSUME NEW type \in TokTypes, NEW v \in Seq(Char \cup {"EOF"}),
             NEW l \in Places \ {"main", "token"}, Begin(type, v, l)
      PROVE  LexTypes'
  <2>1. /\ input' = input /\ pos' = Past /\ pc' = l /\ out' = out /\ error' = error
        /\ tok' = [type |-> type, value |-> v, from |-> pos] /\ pc = "token"
    BY <1>1 DEF Begin
  <2>2. tok' \in Toks
    BY <1>0, <2>1 DEF Toks
  <2> QED
    BY <1>0, <1>00, <2>1, <2>2 DEF LexTypes
<1>2. ASSUME NEW l \in Places \ {"main", "token"}, NEW p \in {pos, Past, Unread}, Goto(l, p),
             pc \notin {"exit", "done"}
      PROVE  LexTypes'
  BY <1>0, <1>00, <1>2 DEF Goto, LexTypes
<1>3. ASSUME NEW p \in {pos, Past, Unread}, Fail(p) PROVE LexTypes'
  BY <1>0, <1>00, <1>3 DEF Fail, LexTypes, Places
<1>4. ASSUME AppendNext, pc \notin {"exit", "done", "main", "token"} PROVE LexTypes'
  <2>1. Append(tok.value, NextChar) \in Seq(Char \cup {"EOF"})
    BY <1>0, <1>00, AppendProperties DEF Toks
  <2>2. tok' = [tok EXCEPT !.value = Append(tok.value, NextChar)] /\ pos' = Past
        /\ UNCHANGED <<input, pc, out, error>>
    BY <1>4 DEF AppendNext
  <2>3. tok' \in Toks
    BY <1>0, <2>1, <2>2 DEF Toks
  <2> QED
    BY <1>0, <1>00, <1>4, <2>2, <2>3 DEF LexTypes
<1>5. CASE MainFails \/ MainStarts \/ MainExit \/ NoMemory
  BY <1>0, <1>5 DEF MainFails, MainStarts, MainExit, NoMemory, LexTypes, Places
<1>6. CASE TokPrint
  <2>1. out' \in Seq(Toks)
    BY <1>0, <1>6, AppendProperties DEF TokPrint
  <2> QED
    BY <1>0, <1>6, <1>n, <2>1 DEF TokPrint, LexTypes, Places
<1>7. CASE GetEof \/ GetHexi \/ GetDeci
  <2>1. <<"EOF">> \in Seq(Char \cup {"EOF"}) /\ <<>> \in Seq(Char \cup {"EOF"})
    OBVIOUS
  <2> QED
    BY <1>1, <1>7, <2>1 DEF GetEof, GetHexi, GetDeci, TokTypes, Places
<1>8. CASE GetSingle \/ GetIdentLike
  <2>1. <<NextChar>> \in Seq(Char \cup {"EOF"})
    BY <1>00
  <2>2. CASE GetSingle
    <3>1. Single[NextChar] \in TokTypes
      BY <2>2, SingleType DEF GetSingle
    <3>2. (IF NextChar = "nl" THEN "newline" ELSE "skip") \in Places \ {"main", "token"}
      BY DEF Places, Gaps
    <3> QED
      BY <1>1, <2>1, <2>2, <3>1, <3>2 DEF GetSingle
  <2>3. CASE GetIdentLike
    BY <1>1, <2>1, <2>3 DEF GetIdentLike, TokTypes, Places
  <2> QED
    BY <1>8, <2>2, <2>3
<1>9. CASE Unexpected
  <2>1. tok' = [type |-> "none", value |-> <<>>, from |-> pos]
    BY <1>9 DEF Unexpected, NoTok
  <2>2. <<>> \in Seq(Char \cup {"EOF"}) /\ pos \in Nat
    BY <1>0
  <2>3. tok' \in Toks
    BY <2>1, <2>2 DEF Toks, TokTypes
  <2> QED
    BY <1>0, <1>00, <1>9, <2>3 DEF Unexpected, LexTypes, Places
<1>10. CASE HexiDigit \/ DeciDigit \/ IdentNext
  BY <1>4, <1>10 DEF HexiDigit, DeciDigit, IdentNext
<1>11. CASE HexiBad \/ DeciBad \/ SeparatorNo
  BY <1>3, <1>11 DEF HexiBad, DeciBad, SeparatorNo
<1>12. CASE DeciEnd
  BY <1>2, <1>3, <1>12 DEF DeciEnd, Places
<1>13. CASE HexiEnd \/ IdentEnd \/ Skip \/ Comment \/ Newline \/ NewlineComment
  <2>1. Gaps \cup {"separator"} \subseteq Places \ {"main", "token"}
    BY DEF Gaps, Places
  <2> QED
    BY <1>2, <1>13, <2>1 DEF HexiEnd, IdentEnd, Skip, Comment, Newline, NewlineComment, Gaps
<1>14. CASE SeparatorYes
  <2>1. TypeOf(tok) \in TokTypes
    BY <1>0 DEF TypeOf, TokTypes, Toks
  <2>2. tok' \in Toks
    BY <1>0, <1>14, <2>1 DEF SeparatorYes, Toks
  <2> QED
    BY <1>0, <1>14, <2>2 DEF SeparatorYes, LexTypes, Places, Gaps
<1>15. CASE UNCHANGED vars
  BY <1>15 DEF vars, LexTypes
<1> QED
  BY <1>5, <1>6, <1>7, <1>8, <1>9, <1>10, <1>11, <1>12, <1>13, <1>14, <1>15
     DEF Next, Token, Number, Word, Gap

---------------------------------------------------------------------------
(* Tokens are texts of the file, and of their type *)

\* The signs # and $ are not in the value.
Off(t) == IF t.type \in {"HEXI", "DECI"} THEN 1 ELSE 0

\* The value of a token is what stands in the file f from its start on.
Reads(f, t) ==
    /\ t.from >= 1 /\ LastOf(t) <= Len(f)
    /\ \A j \in 1..Len(t.value) : t.value[j] = f[t.from + Off(t) + j - 1]

\* A number or a word as far as it has been read.
HexiPart(f, t) == /\ t.type = "HEXI" /\ Reads(f, t) /\ f[t.from] = "#"
                  /\ \A j \in 1..Len(t.value) : t.value[j] \in Digit \cup HexLetter
DeciPart(f, t) == /\ t.type = "DECI" /\ Reads(f, t) /\ f[t.from] = "$"
                  /\ \A j \in 1..Len(t.value) : t.value[j] \in Digit
WordPart(f, t) == /\ t.type \in {"IDENT", "REGISTER", "INSTRUCTION"} /\ Reads(f, t)
                  /\ Len(t.value) >= 1 /\ t.value[1] \in IdentStart
                  /\ \A j \in 1..Len(t.value) : t.value[j] \in IdentChar

Hexi(f, t) == HexiPart(f, t) /\ Len(t.value) = 4
Deci(f, t) == DeciPart(f, t) /\ Len(t.value) = 5 /\ Atoi(t.value) <= 65535
OneChar(f, t) == \E c \in DOMAIN Single : /\ t.type = Single[c] /\ t.value = <<c>>
                                           /\ Reads(f, t)

\* A token that is printed.
Good(f, t) == \/ Hexi(f, t)
              \/ Deci(f, t)
              \/ WordPart(f, t) /\ t.type = TypeOf([t EXCEPT !.type = "IDENT"])
              \/ OneChar(f, t)

TokInv ==
    /\ pc = "hexi" => /\ HexiPart(input, tok) /\ Len(tok.value) <= 4
                      /\ pos = LastOf(tok) + 1
    /\ pc = "deci" => /\ DeciPart(input, tok) /\ Len(tok.value) <= 5
                      /\ pos = LastOf(tok) + 1
    /\ pc = "ident" => /\ WordPart(input, tok) /\ tok.type = "IDENT"
                       /\ pos = LastOf(tok) + 1
    /\ pc = "separator" => \/ Hexi(input, tok)
                           \/ Deci(input, tok)
                           \/ WordPart(input, tok) /\ tok.type = "IDENT"
    /\ pc \in Gaps => Good(input, tok)
    /\ \A k \in 1..Len(out) : Good(input, out[k])

LEMMA LastOfIs ==
    ASSUME NEW t, t.from \in Nat, Len(t.value) \in Nat
    PROVE  LastOf(t) = t.from + Off(t) + Len(t.value) - 1 /\ Off(t) \in {0, 1}
<1>1. Width(t) = Len(t.value) + Off(t) /\ Off(t) \in {0, 1}
  BY DEF Width, Off
<1> QED
  BY <1>1 DEF LastOf

\* A character is appended to a token that has been read up to it.
LEMMA ReadOn ==
    ASSUME NEW f \in Seq(Char), NEW t \in Toks, NEW c \in Char, Reads(f, t),
           LastOf(t) + 1 <= Len(f), f[LastOf(t) + 1] = c,
           NEW u, u = [t EXCEPT !.value = Append(t.value, c)]
    PROVE  /\ u.type = t.type /\ u.from = t.from
           /\ Len(u.value) = Len(t.value) + 1 /\ LastOf(u) = LastOf(t) + 1
           /\ \A j \in 1..Len(t.value) : u.value[j] = t.value[j]
           /\ u.value[Len(t.value) + 1] = c
           /\ Reads(f, u)
<1> DEFINE v == t.value
           w == Append(v, c)
           n == Len(v)
<1>1. u.type = t.type /\ u.from = t.from /\ u.value = w
  BY DEF Toks
<1>2. /\ v \in Seq(Char \cup {"EOF"}) /\ n \in Nat /\ t.from \in Nat
      /\ Off(t) \in Nat /\ Off(u) = Off(t)
  BY <1>1 DEF Toks, Off
<1>3. Len(w) = n + 1 /\ w[n + 1] = c /\ \A j \in 1..n : w[j] = v[j]
  BY <1>2
<1>4. LastOf(t) = t.from + Off(t) + n - 1 /\ LastOf(u) = t.from + Off(t) + (n + 1) - 1
  <2>1. LastOf(t) = t.from + Off(t) + Len(t.value) - 1
    BY <1>2, LastOfIs
  <2>2. LastOf(u) = u.from + Off(u) + Len(u.value) - 1
    <3>1. u.from \in Nat /\ Len(u.value) \in Nat
      <4> HIDE DEF w, n
      <4> QED
        BY <1>1, <1>2, <1>3
    <3> QED
      BY <3>1, LastOfIs
  <2> HIDE DEF w
  <2> QED
    BY <1>1, <1>2, <1>3, <2>1, <2>2
<1>5. \A j \in 1..n : w[j] = f[t.from + Off(t) + j - 1]
  BY <1>3 DEF Reads
<1>6. f[t.from + Off(t) + (n + 1) - 1] = c
  <2>1. t.from + Off(t) + (n + 1) - 1 = LastOf(t) + 1
    BY <1>2, <1>4
  <2> QED
    BY <2>1
<1>7. \A j \in 1..(n + 1) : w[j] = f[t.from + Off(t) + j - 1]
  <2> SUFFICES ASSUME NEW j \in 1..(n + 1) PROVE w[j] = f[t.from + Off(t) + j - 1]
    OBVIOUS
  <2>1. CASE j \in 1..n
    BY <1>5, <2>1
  <2>2. CASE j = n + 1
    BY <1>3, <1>6, <2>2
  <2> QED
    BY <1>2, <2>1, <2>2
<1>8. LastOf(u) = LastOf(t) + 1
  BY <1>2, <1>4
<1> HIDE DEF v, w, n
<1>9. Reads(f, u)
  BY <1>1, <1>2, <1>3, <1>7, <1>8 DEF Reads
<1> QED
  BY <1>1, <1>3, <1>8, <1>9 DEF v, n

\* Every step only adds to the tokens and leaves the file alone.
LEMMA FileKept == [Next]_vars => input' = input
<1>1. CASE Token
  BY <1>1 DEF Token, Begin, GetEof, GetSingle, GetHexi, GetDeci, GetIdentLike, Unexpected, NoMemory
<1>2. CASE Number
  BY <1>2 DEF Number, Fail, AppendNext, Goto, HexiDigit, HexiBad, HexiEnd, DeciDigit, DeciBad,
              DeciEnd
<1>3. CASE Word
  BY <1>3 DEF Word, Fail, AppendNext, Goto, IdentNext, IdentEnd, SeparatorYes, SeparatorNo
<1>4. CASE Gap
  BY <1>4 DEF Gap, Skip, Comment, Newline, NewlineComment, Goto
<1>5. CASE MainFails \/ MainStarts \/ TokPrint \/ MainExit \/ UNCHANGED vars
  BY <1>5 DEF MainFails, MainStarts, TokPrint, MainExit, vars
<1> QED
  BY <1>1, <1>2, <1>3, <1>4, <1>5 DEF Next

\* Which step leads where, for the tokens: out, tok and the stages of a token
\* stay the same in the gaps.
LEMMA GapStep ==
    ASSUME LexTypes, Gap
    PROVE  /\ pc \in {"skip", "comment", "newline", "newlineComment"} /\ pc' \in Gaps
           /\ UNCHANGED <<input, tok, out, error>>
  BY DEF Gap, Skip, Comment, Newline, NewlineComment, Goto, Gaps

LEMMA TokStep == LexTypes /\ TokInv /\ [Next]_vars => TokInv'
<1> SUFFICES ASSUME LexTypes, TokInv, [Next]_vars PROVE TokInv'
  OBVIOUS
<1>0. /\ input \in Seq(Char) /\ Len(input) \in Nat /\ pos \in 1..(Len(input) + 1)
      /\ tok \in Toks /\ out \in Seq(Toks)
      /\ tok.value \in Seq(Char \cup {"EOF"}) /\ Len(tok.value) \in Nat /\ tok.from \in Nat
  BY DEF LexTypes, Toks
<1>in. input' = input
  BY FileKept
<1>out. out' = out => \A k \in 1..Len(out') : Good(input', out'[k])
  BY <1>in DEF TokInv
<1> DEFINE c == NextChar
<1>c. c # "EOF" => /\ pos <= Len(input) /\ input[pos] = c /\ c \in Char /\ Past = pos + 1
                   /\ Unread = pos
  BY Getc
<1> HIDE DEF c
<1>1. ASSUME NEW type, NEW l, NEW v, Begin(type, v, l)
      PROVE  /\ tok' = [type |-> type, value |-> v, from |-> pos] /\ out' = out /\ pc' = l
             /\ pos' = Past
  BY <1>1 DEF Begin
<1>2. CASE GetSingle
  <2>1. /\ c \in DOMAIN Single /\ tok' = [type |-> Single[c], value |-> <<c>>, from |-> pos]
        /\ out' = out /\ pc' \in Gaps
    BY <1>1, <1>2 DEF GetSingle, c, Gaps
  <2>2. c # "EOF"
    BY <2>1, CharFacts
  <2>3. tok'.type = Single[c] /\ tok'.value = <<c>> /\ tok'.from = pos
    BY <2>1
  <2>4. Off(tok') = 0
    BY <2>1, <2>3, SingleType DEF Off
  <2>5. Len(tok'.value) = 1 /\ tok'.value[1] = c
    BY <2>3
  <2>6. LastOf(tok') = pos
    <3>0. tok'.from \in Nat /\ Len(tok'.value) \in Nat
      BY <1>0, <2>3, <2>5
    <3>1. LastOf(tok') = tok'.from + Off(tok') + Len(tok'.value) - 1
      BY <3>0, LastOfIs
    <3> QED
      BY <1>0, <2>3, <2>4, <2>5, <3>1
  <2>7. Reads(input, tok')
    BY <1>0, <1>c, <2>2, <2>3, <2>4, <2>5, <2>6 DEF Reads
  <2>8. Good(input', tok')
    BY <1>in, <2>1, <2>3, <2>7 DEF Good, OneChar
  <2> QED
    BY <1>out, <2>1, <2>8 DEF TokInv, Gaps
<1>3. ASSUME NEW type \in {"HEXI", "DECI"}, tok' = [type |-> type, value |-> <<>>, from |-> pos],
             c # "EOF"
      PROVE  Reads(input, tok') /\ LastOf(tok') = pos /\ Len(tok'.value) = 0
  <2>1. tok'.from = pos /\ Len(tok'.value) = 0 /\ Off(tok') = 1
    BY <1>3 DEF Off
  <2>2. LastOf(tok') = pos
    <3>1. LastOf(tok') = tok'.from + Off(tok') + Len(tok'.value) - 1
      BY <1>0, <2>1, LastOfIs
    <3> QED
      BY <1>0, <2>1, <3>1
  <2> QED
    BY <1>0, <1>3, <1>c, <2>1, <2>2 DEF Reads
<1>4. CASE GetHexi
  <2>1. /\ c = "#" /\ tok' = [type |-> "HEXI", value |-> <<>>, from |-> pos]
        /\ out' = out /\ pc' = "hexi" /\ pos' = Past
    BY <1>1, <1>4 DEF GetHexi, c
  <2>2. Reads(input, tok') /\ LastOf(tok') = pos /\ Len(tok'.value) = 0
    BY <1>3, <2>1
  <2>3. tok'.type = "HEXI" /\ tok'.from = pos /\ input[pos] = "#" /\ pos' = pos + 1
    BY <1>c, <2>1
  <2>4. HexiPart(input, tok')
    BY <2>2, <2>3 DEF HexiPart
  <2> QED
    BY <1>in, <1>out, <2>1, <2>2, <2>3, <2>4 DEF TokInv, Gaps
<1>5. CASE GetDeci
  <2>1. /\ c = "$" /\ tok' = [type |-> "DECI", value |-> <<>>, from |-> pos]
        /\ out' = out /\ pc' = "deci" /\ pos' = Past
    BY <1>1, <1>5 DEF GetDeci, c
  <2>2. Reads(input, tok') /\ LastOf(tok') = pos /\ Len(tok'.value) = 0
    BY <1>3, <2>1
  <2>3. tok'.type = "DECI" /\ tok'.from = pos /\ input[pos] = "$" /\ pos' = pos + 1
    BY <1>c, <2>1
  <2>4. DeciPart(input, tok')
    BY <2>2, <2>3 DEF DeciPart
  <2> QED
    BY <1>in, <1>out, <2>1, <2>2, <2>3, <2>4 DEF TokInv, Gaps
<1>6. CASE GetIdentLike
  <2>1. /\ c \in IdentStart /\ tok' = [type |-> "IDENT", value |-> <<c>>, from |-> pos]
        /\ out' = out /\ pc' = "ident" /\ pos' = Past
    BY <1>1, <1>6 DEF GetIdentLike, c
  <2>2. c \in IdentChar /\ c # "EOF"
    BY <2>1, CharFacts DEF IdentChar
  <2>3. tok'.type = "IDENT" /\ tok'.value = <<c>> /\ tok'.from = pos
    BY <2>1
  <2>4. Len(tok'.value) = 1 /\ tok'.value[1] = c /\ Off(tok') = 0
    BY <2>3 DEF Off
  <2>5. LastOf(tok') = pos
    <3>0. tok'.from \in Nat /\ Len(tok'.value) \in Nat
      BY <1>0, <2>3, <2>4
    <3>1. LastOf(tok') = tok'.from + Off(tok') + Len(tok'.value) - 1
      BY <3>0, LastOfIs
    <3> QED
      BY <1>0, <2>3, <2>4, <3>1
  <2>6. Reads(input, tok')
    BY <1>0, <1>c, <2>2, <2>3, <2>4, <2>5 DEF Reads
  <2>7. WordPart(input, tok')
    BY <2>1, <2>2, <2>3, <2>4, <2>6 DEF WordPart
  <2> QED
    BY <1>in, <1>out, <1>c, <2>1, <2>2, <2>3, <2>5, <2>7 DEF TokInv, Gaps
<1>7. ASSUME AppendNext, c # "EOF", Reads(input, tok), pos = LastOf(tok) + 1
      PROVE  /\ tok'.type = tok.type /\ tok'.from = tok.from
             /\ Len(tok'.value) = Len(tok.value) + 1 /\ pos' = LastOf(tok') + 1
             /\ \A j \in 1..Len(tok.value) : tok'.value[j] = tok.value[j]
             /\ tok'.value[Len(tok.value) + 1] = c
             /\ Reads(input, tok') /\ out' = out /\ pc' = pc
  <2>1. tok' = [tok EXCEPT !.value = Append(tok.value, c)] /\ pos' = Past /\ out' = out
        /\ pc' = pc
    BY <1>7 DEF AppendNext, c
  <2>2. c \in Char /\ LastOf(tok) + 1 <= Len(input) /\ input[LastOf(tok) + 1] = c
        /\ pos' = pos + 1
    BY <1>7, <1>c, <2>1
  <2>3. /\ tok'.type = tok.type /\ tok'.from = tok.from
        /\ Len(tok'.value) = Len(tok.value) + 1 /\ LastOf(tok') = LastOf(tok) + 1
        /\ \A j \in 1..Len(tok.value) : tok'.value[j] = tok.value[j]
        /\ tok'.value[Len(tok.value) + 1] = c
        /\ Reads(input, tok')
    <3>1. /\ input \in Seq(Char) /\ tok \in Toks /\ c \in Char /\ Reads(input, tok)
          /\ LastOf(tok) + 1 <= Len(input) /\ input[LastOf(tok) + 1] = c
          /\ tok' = [tok EXCEPT !.value = Append(tok.value, c)]
      BY <1>0, <1>7, <2>1, <2>2
    <3> QED
      BY ONLY <3>1, ReadOn
  <2> QED
    BY <1>7, <2>1, <2>2, <2>3
<1>8. ASSUME NEW S, \A j \in 1..Len(tok.value) : tok.value[j] \in S, c \in S,
             Len(tok'.value) = Len(tok.value) + 1,
             \A j \in 1..Len(tok.value) : tok'.value[j] = tok.value[j],
             tok'.value[Len(tok.value) + 1] = c
      PROVE  \A j \in 1..Len(tok'.value) : tok'.value[j] \in S
  <2> SUFFICES ASSUME NEW j \in 1..(Len(tok.value) + 1) PROVE tok'.value[j] \in S
    BY <1>8
  <2>1. CASE j \in 1..Len(tok.value)
    BY <1>8, <2>1
  <2>2. CASE j = Len(tok.value) + 1
    BY <1>8, <2>2
  <2>3. j \in 1..Len(tok.value) \/ j = Len(tok.value) + 1
    <3>1. Len(tok.value) \in Nat
      BY <1>0
    <3> QED
      BY ONLY <3>1, j \in 1..(Len(tok.value) + 1)
  <2> QED
    BY ONLY <2>1, <2>2, <2>3
<1>9. CASE HexiDigit
  <2>1. pc = "hexi" /\ Len(tok.value) < 4 /\ c \in Digit \cup HexLetter /\ AppendNext
    BY <1>9 DEF HexiDigit, c
  <2>2. HexiPart(input, tok) /\ pos = LastOf(tok) + 1 /\ c # "EOF"
    BY <2>1, CharFacts DEF TokInv
  <2>3. /\ tok'.type = tok.type /\ tok'.from = tok.from
        /\ Len(tok'.value) = Len(tok.value) + 1 /\ pos' = LastOf(tok') + 1
        /\ Reads(input, tok') /\ out' = out /\ pc' = pc
        /\ \A j \in 1..Len(tok'.value) : tok'.value[j] \in Digit \cup HexLetter
    BY <1>7, <1>8, <2>1, <2>2 DEF HexiPart
  <2>4. HexiPart(input, tok') /\ Len(tok'.value) <= 4
    BY <1>0, <2>1, <2>2, <2>3 DEF HexiPart
  <2> QED
    BY <1>in, <1>out, <2>1, <2>3, <2>4 DEF TokInv, Gaps
<1>10. CASE DeciDigit
  <2>1. pc = "deci" /\ Len(tok.value) < 5 /\ c \in Digit /\ AppendNext
    BY <1>10 DEF DeciDigit, c
  <2>2. DeciPart(input, tok) /\ pos = LastOf(tok) + 1 /\ c # "EOF"
    BY <2>1, CharFacts DEF TokInv
  <2>3. /\ tok'.type = tok.type /\ tok'.from = tok.from
        /\ Len(tok'.value) = Len(tok.value) + 1 /\ pos' = LastOf(tok') + 1
        /\ Reads(input, tok') /\ out' = out /\ pc' = pc
        /\ \A j \in 1..Len(tok'.value) : tok'.value[j] \in Digit
    BY <1>7, <1>8, <2>1, <2>2 DEF DeciPart
  <2>4. DeciPart(input, tok') /\ Len(tok'.value) <= 5
    BY <1>0, <2>1, <2>2, <2>3 DEF DeciPart
  <2> QED
    BY <1>in, <1>out, <2>1, <2>3, <2>4 DEF TokInv, Gaps
<1>11. CASE IdentNext
  <2>1. pc = "ident" /\ c \in IdentChar /\ AppendNext
    BY <1>11 DEF IdentNext, c
  <2>2. WordPart(input, tok) /\ tok.type = "IDENT" /\ pos = LastOf(tok) + 1 /\ c # "EOF"
    BY <2>1, CharFacts DEF TokInv
  <2>3. /\ tok'.type = tok.type /\ tok'.from = tok.from
        /\ Len(tok'.value) = Len(tok.value) + 1 /\ pos' = LastOf(tok') + 1
        /\ Reads(input, tok') /\ out' = out /\ pc' = pc
        /\ \A j \in 1..Len(tok'.value) : tok'.value[j] \in IdentChar
        /\ \A j \in 1..Len(tok.value) : tok'.value[j] = tok.value[j]
    BY <1>7, <1>8, <2>1, <2>2 DEF WordPart
  <2>4. WordPart(input, tok')
    BY <1>0, <2>2, <2>3 DEF WordPart
  <2> QED
    BY <1>in, <1>out, <2>1, <2>2, <2>3, <2>4 DEF TokInv, Gaps
<1>12. CASE HexiEnd \/ DeciEnd \/ IdentEnd
  <2>1. pc' = "exit" \/ (pc' = "separator" /\ tok' = tok)
    BY <1>12 DEF HexiEnd, DeciEnd, IdentEnd, Goto, Fail
  <2>2. out' = out
    BY <1>12 DEF HexiEnd, DeciEnd, IdentEnd, Goto, Fail
  <2>3. pc' = "separator" => \/ Hexi(input, tok)
                             \/ Deci(input, tok)
                             \/ WordPart(input, tok) /\ tok.type = "IDENT"
    <3>1. CASE HexiEnd
      BY <3>1 DEF HexiEnd, TokInv, Hexi
    <3>2. CASE IdentEnd
      BY <3>2 DEF IdentEnd, TokInv
    <3>3. CASE DeciEnd /\ pc' = "separator"
      <4>1. pc = "deci" /\ Len(tok.value) = 5 /\ ~ (Atoi(tok.value) >= 65536)
        BY <3>3 DEF DeciEnd, Fail
      <4>2. DeciPart(input, tok)
        BY <4>1 DEF TokInv
      <4>3. Atoi(tok.value) \in Nat
        <5>1. \A j \in 1..Len(tok.value) : tok.value[j] \in Digit
          BY <4>2 DEF DeciPart
        <5>2. tok.value \in Seq(Char \cup {"EOF"}) /\ Len(tok.value) = 5
          BY <1>0, <4>1
        <5> QED
          BY ONLY <5>1, <5>2, AtoiType
      <4> QED
        BY <4>1, <4>2, <4>3 DEF Deci
    <3> QED
      BY <1>12, <3>1, <3>2, <3>3
  <2> QED
    BY <1>in, <1>out, <2>1, <2>2, <2>3 DEF TokInv, Gaps
<1>13. CASE SeparatorYes
  <2>1. /\ pc = "separator" /\ pc' = "skip" /\ out' = out
        /\ tok' = [tok EXCEPT !.type = TypeOf(tok)]
    BY <1>13 DEF SeparatorYes
  <2>2. /\ tok'.type = TypeOf(tok) /\ tok'.value = tok.value /\ tok'.from = tok.from
    BY <1>0, <2>1 DEF Toks
  <2>3. CASE Hexi(input, tok) \/ Deci(input, tok)
    <3>1. TypeOf(tok) = tok.type
      BY <2>3 DEF TypeOf, Hexi, Deci, HexiPart, DeciPart
    <3>2. tok' = tok
      BY <1>0, <2>1, <3>1 DEF Toks
    <3> QED
      BY <1>in, <1>out, <2>1, <2>3, <3>2 DEF TokInv, Gaps, Good
  <2>4. CASE WordPart(input, tok) /\ tok.type = "IDENT"
    <3>1. TypeOf(tok) \in {"IDENT", "REGISTER", "INSTRUCTION"}
      BY <2>4 DEF TypeOf
    <3>2. Off(tok') = Off(tok) /\ LastOf(tok') = LastOf(tok)
      BY <2>2, <2>4, <3>1 DEF Off, LastOf, Width
    <3>3. WordPart(input, tok')
      BY <2>2, <2>4, <3>1, <3>2 DEF WordPart, Reads
    <3>4. [tok' EXCEPT !.type = "IDENT"] = tok
      BY <1>0, <2>1, <2>4 DEF Toks
    <3>5. Good(input', tok')
      BY <1>in, <2>2, <3>3, <3>4 DEF Good
    <3> QED
      BY <1>out, <2>1, <3>5 DEF TokInv, Gaps
  <2> QED
    BY <2>1, <2>3, <2>4 DEF TokInv
<1>14. CASE Gap
  <2>1. pc \in Gaps /\ pc' \in Gaps /\ UNCHANGED <<input, tok, out>>
    BY <1>14, GapStep DEF Gaps
  <2> QED
    BY <1>out, <2>1 DEF TokInv, Gaps
<1>15. CASE TokPrint
  <2>1. pc = "print" /\ out' = Append(out, tok) /\ pc' = "token"
    BY <1>15 DEF TokPrint
  <2>2. Good(input, tok)
    BY <2>1 DEF TokInv, Gaps
  <2>3. \A k \in 1..Len(out') : Good(input', out'[k])
    <3>1. Len(out') = Len(out) + 1 /\ out'[Len(out) + 1] = tok
          /\ \A k \in 1..Len(out) : out'[k] = out[k]
      BY <1>0, <2>1
    <3> SUFFICES ASSUME NEW k \in 1..(Len(out) + 1) PROVE Good(input, out'[k])
      BY <1>in, <3>1
    <3>2. CASE k \in 1..Len(out)
      BY <3>1, <3>2 DEF TokInv
    <3>3. CASE k = Len(out) + 1
      BY <2>2, <3>1, <3>3
    <3> QED
      BY <1>0, <3>2, <3>3
  <2> QED
    BY <2>1, <2>3 DEF TokInv, Gaps
<1>16. CASE \/ MainFails \/ MainStarts \/ MainExit \/ NoMemory \/ GetEof \/ Unexpected
            \/ HexiBad \/ DeciBad \/ SeparatorNo
  <2>1. pc' \in {"token", "exit", "done"} /\ out' = out
    BY <1>16 DEF MainFails, MainStarts, MainExit, NoMemory, GetEof, Unexpected, HexiBad, DeciBad,
                 SeparatorNo, Begin, Fail
  <2> QED
    BY <1>out, <2>1 DEF TokInv, Gaps
<1>17. CASE UNCHANGED vars
  BY <1>17 DEF vars, TokInv
<1> QED
  BY <1>2, <1>4, <1>5, <1>6, <1>9, <1>10, <1>11, <1>12, <1>13, <1>14, <1>15, <1>16, <1>17
     DEF Next, Token, Number, Word

---------------------------------------------------------------------------
(* The text of a token *)

Text(f, t) == SubSeq(f, t.from, LastOf(t))

LEMMA TextIs ==
    ASSUME NEW f \in Seq(Char), NEW a \in Nat, NEW b \in Nat, 1 <= a, a <= b, b <= Len(f)
    PROVE  /\ SubSeq(f, a, b) \in Seq(Char) /\ Len(SubSeq(f, a, b)) = b - a + 1
           /\ \A i \in 1..(b - a + 1) : SubSeq(f, a, b)[i] = f[a + i - 1]
<1>1. \A i \in a..b : f[i] \in Char
  OBVIOUS
<1>2. a \in Int /\ b \in Int
  OBVIOUS
<1> QED
  BY ONLY <1>1, <1>2, a <= b, SubSeqProperties

\* A token without a sign is its text.
LEMMA PlainText ==
    ASSUME NEW f \in Seq(Char), NEW t \in Toks, Reads(f, t), Off(t) = 0, Len(t.value) >= 1
    PROVE  t.value = Text(f, t) /\ LastOf(t) <= Len(f)
<1> DEFINE v == t.value
           s == Text(f, t)
<1>1. v \in Seq(Char \cup {"EOF"}) /\ Len(v) \in Nat /\ t.from \in Nat /\ t.from >= 1
      /\ LastOf(t) <= Len(f) /\ Len(f) \in Nat
  BY DEF Toks, Reads
<1>2. LastOf(t) = t.from + Len(v) - 1
  BY <1>1, LastOfIs
<1>3. s \in Seq(Char) /\ Len(s) = Len(v) /\ \A i \in 1..Len(v) : s[i] = f[t.from + i - 1]
  <2> DEFINE b == LastOf(t)
  <2>1. t.from \in Nat /\ b \in Nat /\ 1 <= t.from /\ t.from <= b /\ b <= Len(f)
        /\ b - t.from + 1 = Len(v)
    BY <1>1, <1>2
  <2> HIDE DEF b
  <2>2. SubSeq(f, t.from, b) \in Seq(Char) /\ Len(SubSeq(f, t.from, b)) = b - t.from + 1
        /\ \A i \in 1..(b - t.from + 1) : SubSeq(f, t.from, b)[i] = f[t.from + i - 1]
    BY ONLY f \in Seq(Char), <2>1, TextIs
  <2> QED
    BY <2>1, <2>2 DEF Text, b
<1>4. \A i \in 1..Len(v) : v[i] = f[t.from + i - 1]
  <2>1. \A i \in 1..Len(v) : v[i] = f[t.from + 0 + i - 1]
    BY DEF Reads
  <2> QED
    BY <1>1, <2>1
<1>5. s \in Seq(Char \cup {"EOF"})
  BY <1>3
<1>6. \A i \in 1..Len(v) : v[i] = s[i]
  BY <1>3, <1>4
<1> HIDE DEF v, s
<1>7. v = s
  BY ONLY <1>1, <1>3, <1>5, <1>6, SeqEqual
<1> QED
  BY <1>1, <1>7 DEF v, s

\* A number is its text without the sign.
LEMMA SignedText ==
    ASSUME NEW f \in Seq(Char), NEW t \in Toks, Reads(f, t), Off(t) = 1
    PROVE  /\ t.value = Tail(Text(f, t)) /\ LastOf(t) <= Len(f)
           /\ Len(Text(f, t)) = Len(t.value) + 1 /\ Text(f, t)[1] = f[t.from]
           /\ \A j \in 2..(Len(t.value) + 1) : Text(f, t)[j] = t.value[j - 1]
<1> DEFINE v == t.value
           s == Text(f, t)
<1>1. v \in Seq(Char \cup {"EOF"}) /\ Len(v) \in Nat /\ t.from \in Nat /\ t.from >= 1
      /\ LastOf(t) <= Len(f) /\ Len(f) \in Nat
  BY DEF Toks, Reads
<1>2. LastOf(t) = t.from + Len(v)
  <2>1. LastOf(t) = t.from + 1 + Len(v) - 1
    BY <1>1, LastOfIs
  <2> QED
    BY <1>1, <2>1
<1>3. s \in Seq(Char) /\ Len(s) = Len(v) + 1 /\ \A i \in 1..(Len(v) + 1) : s[i] = f[t.from + i - 1]
  <2> DEFINE b == LastOf(t)
  <2>1. t.from \in Nat /\ b \in Nat /\ 1 <= t.from /\ t.from <= b /\ b <= Len(f)
        /\ b - t.from + 1 = Len(v) + 1
    BY <1>1, <1>2
  <2> HIDE DEF b
  <2>2. SubSeq(f, t.from, b) \in Seq(Char) /\ Len(SubSeq(f, t.from, b)) = b - t.from + 1
        /\ \A i \in 1..(b - t.from + 1) : SubSeq(f, t.from, b)[i] = f[t.from + i - 1]
    BY ONLY f \in Seq(Char), <2>1, TextIs
  <2> QED
    BY <2>1, <2>2 DEF Text, b
<1>4. \A i \in 1..Len(v) : v[i] = f[t.from + 1 + i - 1]
  BY DEF Reads
<1> HIDE DEF v, s
<1>5. \A i \in 1..Len(v) : s[i + 1] = v[i]
  <2> SUFFICES ASSUME NEW i \in 1..Len(v) PROVE s[i + 1] = v[i]
    OBVIOUS
  <2>1. i + 1 \in 1..(Len(v) + 1) /\ t.from + (i + 1) - 1 = t.from + 1 + i - 1
    BY <1>1
  <2>2. s[i + 1] = f[t.from + (i + 1) - 1]
    BY <1>3, <2>1
  <2>3. v[i] = f[t.from + 1 + i - 1]
    BY <1>4
  <2> QED
    BY <2>1, <2>2, <2>3
<1>6. \A j \in 2..(Len(v) + 1) : s[j] = v[j - 1]
  <2> SUFFICES ASSUME NEW j \in 2..(Len(v) + 1) PROVE s[j] = v[j - 1]
    OBVIOUS
  <2>1. j - 1 \in 1..Len(v) /\ (j - 1) + 1 = j
    BY <1>1
  <2> QED
    BY <1>5, <2>1
<1>7. s # <<>> /\ s[1] = f[t.from]
  BY <1>1, <1>3
<1>8. Tail(s) \in Seq(Char) /\ Len(Tail(s)) = Len(s) - 1
      /\ \A i \in 1..Len(Tail(s)) : Tail(s)[i] = s[i + 1]
  BY ONLY <1>3, <1>7, HeadTailProperties
<1>9. Tail(s) \in Seq(Char \cup {"EOF"}) /\ Len(Tail(s)) = Len(v)
  BY <1>1, <1>3, <1>8
<1>10. \A i \in 1..Len(v) : v[i] = Tail(s)[i]
  BY <1>5, <1>8, <1>9
<1>11. v = Tail(s)
  BY ONLY <1>1, <1>9, <1>10, SeqEqual
<1> QED
  BY <1>1, <1>3, <1>6, <1>7, <1>11 DEF v, s

\* What is_register accepts.
IsRegister(s) == Len(s) = 2 /\ s[1] = "R" /\ s[2] \in Digit \ {"8", "9"}

LEMMA RegisterIs ==
    ASSUME NEW s \in Seq(Char \cup {"EOF"})
    PROVE  IsRegister(s) <=> \E d \in Digit \ {"8", "9"} : s = <<"R", d>>
<1>1. ASSUME NEW d \in Digit \ {"8", "9"}, s = <<"R", d>> PROVE IsRegister(s)
  BY <1>1 DEF IsRegister
<1>2. ASSUME IsRegister(s) PROVE \E d \in Digit \ {"8", "9"} : s = <<"R", d>>
  <2>1. s = <<s[1], s[2]>>
    BY <1>2 DEF IsRegister
  <2> QED
    BY <1>2, <2>1 DEF IsRegister
<1> QED
  BY <1>1, <1>2

\* No instruction looks like a register.
LEMMA InstructionsDiffer ==
    ASSUME NEW d \in Digit
    PROVE  <<"R", d>> \notin Mnemonics /\ <<"R", d>> \notin Reserved
<1> SUFFICES ASSUME <<"R", d>> \in Seq(Letter) PROVE FALSE
  BY InputAssumption
<1>1. <<"R", d>>[2] \in Letter
  OBVIOUS
<1> QED
  BY <1>1, LetterAssumption DEF Digit

LEMMA NotLetters ==
    "#" \notin Letter /\ "$" \notin Letter /\ \A c \in DOMAIN Single : c \notin Letter
  BY LetterAssumption

LEMMA DisputedStart ==
    ASSUME NEW s \in Disputed, Len(s) >= 1
    PROVE  s[1] \in Letter
<1>1. CASE s \in {<<"R", "0">>, <<"R", "8">>}
  <2>1. s[1] = "R"
    BY <1>1
  <2> QED
    BY <2>1, LetterAssumption
<1>2. CASE s \in Mnemonics
  <2>1. s \in Seq(Letter)
    BY <1>2, InputAssumption
  <2> QED
    BY <2>1
<1> QED
  BY <1>1, <1>2 DEF Disputed

\* The type that a printed token has: parse.h's, or lex.c's for a text in
\* dispute.
Fits(type, s) == IF s \in Disputed
                 THEN type = IF s = <<"R", "0">> THEN "REGISTER" ELSE "IDENT"
                 ELSE type \in TypesOf(s)

\* A text that does not start with a letter is not in dispute.
LEMMA FitsUndisputed ==
    ASSUME NEW s, NEW type, Len(s) >= 1, s[1] \notin Letter, type \in TypesOf(s)
    PROVE  Fits(type, s)
  BY DisputedStart DEF Fits

LEMMA FitsWord ==
    ASSUME NEW s \in Seq(Char \cup {"EOF"}), WordText(s), NEW type,
           type = IF IsRegister(s) THEN "REGISTER"
                  ELSE IF s \in Reserved THEN "INSTRUCTION" ELSE "IDENT"
    PROVE  Fits(type, s)
<1>1. CASE IsRegister(s)
  <2>1. PICK d \in Digit \ {"8", "9"} : s = <<"R", d>>
    BY <1>1, RegisterIs
  <2>2. s \notin Mnemonics /\ s # <<"R", "8">>
    BY <2>1, InstructionsDiffer
  <2>3. CASE d = "0"
    BY <1>1, <2>1, <2>3 DEF Fits, Disputed
  <2>4. CASE d # "0"
    <3>1. RegisterText(s) /\ s # <<"R", "0">>
      BY <2>1, <2>4 DEF RegisterText
    <3> QED
      BY <1>1, <2>2, <3>1 DEF Fits, Disputed, TypesOf
  <2> QED
    BY <2>3, <2>4
<1>2. CASE ~ IsRegister(s)
  <2>1. s # <<"R", "0">> /\ (RegisterText(s) => s = <<"R", "8">>)
    <3>1. \A d \in Digit \ {"8", "9"} : s # <<"R", d>>
      BY <1>2, RegisterIs
    <3>2. "0" \in Digit \ {"8", "9"}
      BY DEF Digit
    <3>3. ASSUME NEW d \in Digit \ {"0", "9"}, s = <<"R", d>> PROVE d = "8"
      BY <3>1, <3>3
    <3> QED
      BY <3>1, <3>2, <3>3 DEF RegisterText
  <2>2. CASE s = <<"R", "8">>
    <3>1. s \notin Reserved
      BY <2>2, InstructionsDiffer DEF Digit
    <3> QED
      BY <1>2, <2>1, <2>2, <3>1 DEF Fits, Disputed
  <2>3. CASE s # <<"R", "8">> /\ s \in Reserved
    <3>1. s \in Mnemonics
      BY <2>3, InputAssumption
    <3> QED
      BY <1>2, <2>1, <2>3, <3>1 DEF Fits, Disputed, TypesOf
  <2>4. CASE s # <<"R", "8">> /\ s \notin Reserved
    <3>1. CASE s \in Mnemonics
      BY <1>2, <2>1, <2>4, <3>1 DEF Fits, Disputed
    <3>2. CASE s \notin Mnemonics
      BY <1>2, <2>1, <2>4, <3>2 DEF Fits, Disputed, TypesOf
    <3> QED
      BY <3>1, <3>2
  <2> QED
    BY <2>2, <2>3, <2>4
<1> QED
  BY <1>1, <1>2

LEMMA GoodTexts ==
    ASSUME NEW f \in Seq(Char), NEW t \in Toks, Good(f, t)
    PROVE  /\ LastOf(t) <= Len(f)
           /\ Fits(t.type, Text(f, t))
           /\ t.value = IF t.type \in {"HEXI", "DECI"} THEN Tail(Text(f, t)) ELSE Text(f, t)
<1> DEFINE s == Text(f, t)
<1>0. t.value \in Seq(Char \cup {"EOF"}) /\ Len(t.value) \in Nat
  BY DEF Toks
<1>1. CASE Hexi(f, t)
  <2>1. t.type = "HEXI" /\ Reads(f, t) /\ Off(t) = 1 /\ Len(t.value) = 4 /\ f[t.from] = "#"
        /\ \A j \in 1..4 : t.value[j] \in Digit \cup HexLetter
    BY <1>1 DEF Hexi, HexiPart, Off
  <2>2. /\ t.value = Tail(s) /\ LastOf(t) <= Len(f) /\ Len(s) = Len(t.value) + 1
        /\ s[1] = f[t.from]
        /\ \A j \in 2..(Len(t.value) + 1) : s[j] = t.value[j - 1]
    BY ONLY f \in Seq(Char), t \in Toks, <2>1, SignedText
  <2> HIDE DEF s
  <2>3. HexiText(s)
    <3>1. \A j \in 2..5 : s[j] \in Digit \cup HexLetter
      <4> SUFFICES ASSUME NEW j \in 2..5 PROVE s[j] \in Digit \cup HexLetter
        OBVIOUS
      <4>1. j - 1 \in 1..4 /\ j \in 2..(Len(t.value) + 1)
        BY <2>1
      <4> QED
        BY <2>1, <2>2, <4>1
    <3> QED
      BY <2>1, <2>2, <3>1 DEF HexiText
  <2>4. Fits(t.type, s)
    <3>1. t.type \in TypesOf(s)
      BY <2>1, <2>3 DEF TypesOf
    <3>2. s[1] \notin Letter /\ Len(s) >= 1
      BY <2>1, <2>2, NotLetters
    <3> QED
      BY ONLY <3>1, <3>2, FitsUndisputed
  <2> QED
    BY <2>1, <2>2, <2>4 DEF s
<1>2. CASE Deci(f, t)
  <2>1. t.type = "DECI" /\ Reads(f, t) /\ Off(t) = 1 /\ Len(t.value) = 5 /\ f[t.from] = "$"
        /\ \A j \in 1..5 : t.value[j] \in Digit
    BY <1>2 DEF Deci, DeciPart, Off
  <2>a. Atoi(t.value) <= 65535
    BY <1>2 DEF Deci
  <2>2. /\ t.value = Tail(s) /\ LastOf(t) <= Len(f) /\ Len(s) = Len(t.value) + 1
        /\ s[1] = f[t.from]
        /\ \A j \in 2..(Len(t.value) + 1) : s[j] = t.value[j - 1]
    BY ONLY f \in Seq(Char), t \in Toks, <2>1, SignedText
  <2> HIDE DEF s
  <2>3. DeciText(s)
    <3>1. \A j \in 2..6 : s[j] \in Digit
      <4> SUFFICES ASSUME NEW j \in 2..6 PROVE s[j] \in Digit
        OBVIOUS
      <4>1. j - 1 \in 1..5 /\ j \in 2..(Len(t.value) + 1)
        BY <2>1
      <4> QED
        BY <2>1, <2>2, <4>1
    <3> QED
      BY <2>1, <2>a, <2>2, <3>1 DEF DeciText
  <2>4. Fits(t.type, s)
    <3>1. t.type \in TypesOf(s)
      BY <2>1, <2>3 DEF TypesOf
    <3>2. s[1] \notin Letter /\ Len(s) >= 1
      BY <2>1, <2>2, NotLetters
    <3> QED
      BY ONLY <3>1, <3>2, FitsUndisputed
  <2> QED
    BY <2>1, <2>2, <2>4 DEF s
<1>3. CASE WordPart(f, t) /\ t.type = TypeOf([t EXCEPT !.type = "IDENT"])
  <2>1. /\ t.type \in {"IDENT", "REGISTER", "INSTRUCTION"} /\ Reads(f, t) /\ Off(t) = 0
        /\ Len(t.value) >= 1 /\ t.value[1] \in IdentStart
        /\ \A j \in 1..Len(t.value) : t.value[j] \in IdentChar
    BY <1>3 DEF WordPart, Off
  <2>2. t.value = s /\ LastOf(t) <= Len(f)
    BY <2>1, PlainText
  <2>3. t.type = IF IsRegister(t.value) THEN "REGISTER"
                 ELSE IF t.value \in Reserved THEN "INSTRUCTION" ELSE "IDENT"
    <3>1. [t EXCEPT !.type = "IDENT"].type = "IDENT" /\ [t EXCEPT !.type = "IDENT"].value = t.value
      BY DEF Toks
    <3> QED
      BY <1>0, <1>3, <3>1 DEF TypeOf, IsRegister
  <2>4. WordText(t.value)
    BY <1>0, <2>1 DEF WordText
  <2>5. Fits(t.type, t.value)
    BY ONLY <1>0, <2>3, <2>4, FitsWord
  <2> QED
    BY <2>1, <2>2, <2>5
<1>4. CASE OneChar(f, t)
  <2>1. PICK c \in DOMAIN Single : t.type = Single[c] /\ t.value = <<c>> /\ Reads(f, t)
    BY <1>4 DEF OneChar
  <2>2. Single[c] \in {"NEWLINE", "LPAREN", "RPAREN", "COLON", "COMMA", "PLUS"}
    BY DEF Single
  <2>3. Off(t) = 0 /\ Len(t.value) = 1
    BY <2>1, <2>2 DEF Off
  <2>4. t.value = s /\ LastOf(t) <= Len(f)
    <3>1. f \in Seq(Char) /\ t \in Toks /\ Reads(f, t) /\ Off(t) = 0 /\ Len(t.value) >= 1
      BY <2>1, <2>3
    <3> QED
      BY ONLY <3>1, PlainText
  <2>5. Fits(t.type, t.value)
    <3>1. t.type \in TypesOf(t.value)
      BY <2>1, <2>2 DEF TypesOf
    <3>2. t.value[1] \notin Letter /\ Len(t.value) >= 1
      <4>1. t.value[1] = c
        BY <2>1
      <4> QED
        BY <2>3, <4>1, NotLetters
    <3> QED
      BY ONLY <3>1, <3>2, FitsUndisputed
  <2> QED
    BY <2>1, <2>2, <2>4, <2>5
<1> QED
  BY <1>1, <1>2, <1>3, <1>4 DEF Good

---------------------------------------------------------------------------
(* What lies between two tokens *)

\* InComment and Insignificant for the file f and the token t.
InComm(f, i, p) == \E q \in i..p : f[q] = ";" /\ \A r \in q..p : f[r] # "nl"
Insig(f, t, j) ==
    \A p \in (LastOf(t) + 1)..(j - 1) :
        \/ f[p] \in Blank \cup {"ff"}
        \/ InComm(f, LastOf(t) + 1, p)
        \/ f[p] = "nl" /\ t.type = "NEWLINE"

GapInv ==
    /\ pc \in Gaps \cup {"separator"} => LastOf(tok) < pos /\ Insig(input, tok, pos)
    /\ pc \in {"comment", "newlineComment"} => InComm(input, LastOf(tok) + 1, pos - 1)
    /\ pc \in {"newline", "newlineComment"} => tok.type = "NEWLINE"
    /\ pc \in {"skip", "comment"} => tok.type # "NEWLINE"

LEMMA LastOfType ==
    ASSUME NEW t \in Toks
    PROVE  LastOf(t) \in Int /\ (t.from >= 1 => LastOf(t) >= t.from + Len(t.value) - 1)
           /\ t.from \in Nat /\ Len(t.value) \in Nat
<1>1. t.from \in Nat /\ Len(t.value) \in Nat
  BY DEF Toks
<1>2. LastOf(t) = t.from + Off(t) + Len(t.value) - 1 /\ Off(t) \in {0, 1}
  BY <1>1, LastOfIs
<1> QED
  BY <1>1, <1>2

LEMMA CommentOn ==
    ASSUME NEW f, NEW i \in Int, NEW j \in Int, InComm(f, i, j - 1), f[j] # "nl"
    PROVE  InComm(f, i, j)
<1>1. PICK q \in i..(j - 1) : f[q] = ";" /\ \A r \in q..(j - 1) : f[r] # "nl"
  BY DEF InComm
<1>2. q \in i..j /\ \A r \in q..j : r \in q..(j - 1) \/ r = j
  OBVIOUS
<1> QED
  BY <1>1, <1>2 DEF InComm

LEMMA CommentStarts ==
    ASSUME NEW f, NEW i \in Int, NEW j \in Int, i <= j, f[j] = ";"
    PROVE  InComm(f, i, j)
<1>1. j \in i..j /\ \A r \in j..j : r = j
  BY ONLY i \in Int, j \in Int, i <= j
<1>2. \A r \in j..j : f[r] # "nl"
  BY <1>1
<1> QED
  BY <1>1, <1>2 DEF InComm

LEMMA InsigOn ==
    ASSUME NEW f, NEW t, LastOf(t) \in Int, NEW j \in Int, Insig(f, t, j),
           \/ f[j] \in Blank \cup {"ff"}
           \/ InComm(f, LastOf(t) + 1, j)
           \/ f[j] = "nl" /\ t.type = "NEWLINE"
    PROVE  Insig(f, t, j + 1)
<1> SUFFICES ASSUME NEW p \in (LastOf(t) + 1)..((j + 1) - 1)
             PROVE  \/ f[p] \in Blank \cup {"ff"}
                    \/ InComm(f, LastOf(t) + 1, p)
                    \/ f[p] = "nl" /\ t.type = "NEWLINE"
  BY DEF Insig
<1>1. p \in (LastOf(t) + 1)..(j - 1) \/ p = j
  OBVIOUS
<1>2. CASE p \in (LastOf(t) + 1)..(j - 1)
  BY <1>2 DEF Insig
<1>3. CASE p = j
  BY <1>3
<1> QED
  BY <1>1, <1>2, <1>3

\* Right after its text there is nothing yet.
LEMMA InsigStarts ==
    ASSUME NEW f, NEW t, LastOf(t) \in Int
    PROVE  Insig(f, t, LastOf(t) + 1)
<1>1. (LastOf(t) + 1)..((LastOf(t) + 1) - 1) = {}
  OBVIOUS
<1> QED
  BY <1>1 DEF Insig

\* The type does not matter among the words and numbers.
LEMMA InsigSame ==
    ASSUME NEW f, NEW t, NEW u, NEW j, LastOf(u) = LastOf(t),
           t.type = "NEWLINE" => u.type = "NEWLINE", Insig(f, t, j)
    PROVE  Insig(f, u, j)
  BY DEF Insig

\* The stream moves over a character that is insignificant, or that looks
\* like the end.
LEMMA PassedOver ==
    ASSUME LexTypes, LastOf(tok) < pos, Insig(input, tok, pos), NEW p \in {Past, Unread},
           p = pos + 1 /\ NextChar # "EOF" =>
              \/ NextChar \in Blank
              \/ InComm(input, LastOf(tok) + 1, pos)
              \/ NextChar = "nl" /\ tok.type = "NEWLINE"
    PROVE  LastOf(tok) < p /\ Insig(input, tok, p)
<1>1. LastOf(tok) \in Int /\ pos \in Int
  BY LastOfType DEF LexTypes
<1>2. p = pos \/ p = pos + 1
  BY Getc
<1>3. CASE p = pos
  BY <1>3
<1>4. CASE p = pos + 1
  <2>1. \/ input[pos] \in Blank \cup {"ff"}
        \/ InComm(input, LastOf(tok) + 1, pos)
        \/ input[pos] = "nl" /\ tok.type = "NEWLINE"
    <3>1. NextChar # "EOF" => input[pos] = NextChar
      BY Getc
    <3>2. NextChar = "EOF" => input[pos] = "ff"
      BY <1>1, <1>4, Getc
    <3> QED
      BY <1>4, <3>1, <3>2
  <2>2. Insig(input, tok, pos + 1)
    BY ONLY <1>1, <2>1, Insig(input, tok, pos), InsigOn
  <2> QED
    BY <1>1, <1>4, <2>2
<1> QED
  BY <1>2, <1>3, <1>4

\* The characters that are told apart between tokens.
LEMMA GapChars ==
    /\ \A x : x \in Space <=> x \in Blank \/ x = "nl"
    /\ \A x : x \in Blank => x # "EOF"
  BY DEF Space, Blank

LEMMA GapInvStep == LexTypes /\ TokInv /\ TokInv' /\ LexTypes' /\ GapInv /\ [Next]_vars => GapInv'
<1> SUFFICES ASSUME LexTypes, TokInv, TokInv', LexTypes', GapInv, [Next]_vars PROVE GapInv'
  OBVIOUS
<1>0. tok \in Toks /\ LastOf(tok) \in Int /\ pos \in Nat /\ pos >= 1 /\ Len(input) \in Nat
  BY LastOfType DEF LexTypes
<1>00. tok' \in Toks /\ LastOf(tok') \in Int
  BY LastOfType DEF LexTypes
<1>in. input' = input
  BY FileKept
<1>c. /\ NextChar # "EOF" => Past = pos + 1 /\ Unread = pos /\ input[pos] = NextChar
      /\ NextChar = "EOF" => /\ Unread = Past
                             /\ Past = pos \/ (Past = pos + 1 /\ input[pos] = "ff")
  BY Getc
<1>1. CASE Gap
  <2>0. /\ pc \in {"skip", "comment", "newline", "newlineComment"} /\ pc' \in Gaps
        /\ UNCHANGED <<input, tok, out, error>>
    BY <1>1, GapStep
  <2>1. LastOf(tok) < pos /\ Insig(input, tok, pos)
    BY <2>0 DEF GapInv, Gaps
  <2>2. ASSUME NEW p \in {Past, Unread}, pos' = p,
               p = pos + 1 /\ NextChar # "EOF" =>
                 \/ NextChar \in Blank
                 \/ InComm(input, LastOf(tok) + 1, pos)
                 \/ NextChar = "nl" /\ tok.type = "NEWLINE"
        PROVE  LastOf(tok') < pos' /\ Insig(input', tok', pos')
    <3>1. LastOf(tok) < p /\ Insig(input, tok, p)
      BY <2>1, <2>2, PassedOver
    <3> QED
      BY <2>0, <2>2, <3>1
  <2>3. ASSUME NextChar = ";", pos' = Past
        PROVE  /\ InComm(input', LastOf(tok') + 1, pos' - 1)
               /\ LastOf(tok') < pos' /\ Insig(input', tok', pos')
    <3>1. pos' = pos + 1 /\ input[pos] = ";"
      BY <1>c, <2>3
    <3>2. InComm(input, LastOf(tok) + 1, pos)
      <4>1. LastOf(tok) + 1 \in Int /\ pos \in Int /\ LastOf(tok) + 1 <= pos
        BY <1>0, <2>1
      <4> QED
        BY ONLY <3>1, <4>1, CommentStarts
    <3>3. pos' - 1 = pos
      <4>1. pos' = pos + 1 /\ pos \in Nat
        BY <1>0, <3>1
      <4> QED
        BY ONLY <4>1
    <3>4. LastOf(tok') < pos' /\ Insig(input', tok', pos')
      BY <2>2, <2>3, <3>2
    <3> QED
      BY <2>0, <3>2, <3>3, <3>4
  <2>4. ASSUME pc \in {"comment", "newlineComment"}, NextChar # "nl", pos' = Past
        PROVE  /\ InComm(input', LastOf(tok') + 1, pos' - 1)
               /\ LastOf(tok') < pos' /\ Insig(input', tok', pos')
    <3>1. InComm(input, LastOf(tok) + 1, pos - 1)
      BY <2>4 DEF GapInv
    <3>2. CASE pos' = pos
      BY <2>0, <2>1, <3>1, <3>2
    <3>3. CASE pos' = pos + 1
      <4>1. input[pos] # "nl"
        BY <1>0, <1>c, <2>4, <3>3
      <4>2. InComm(input, LastOf(tok) + 1, pos)
        <5>1. LastOf(tok) + 1 \in Int /\ pos \in Int
          BY <1>0
        <5> QED
          BY ONLY <3>1, <4>1, <5>1, CommentOn
      <4>3. pos' - 1 = pos
        BY <1>0, <3>3
      <4>4. LastOf(tok') < pos' /\ Insig(input', tok', pos')
        BY <2>2, <2>4, <4>2
      <4> QED
        BY <2>0, <4>2, <4>3, <4>4
    <3> QED
      BY <1>c, <2>4, <3>2, <3>3
  <2>5. CASE Skip
    <3>1. pc = "skip" /\ tok.type # "NEWLINE" /\ tok' = tok
      BY <2>0, <2>5 DEF Skip, GapInv
    <3>2. CASE NextChar \in Blank /\ Goto("skip", Past)
      <4>1. pc' = "skip" /\ LastOf(tok') < pos' /\ Insig(input', tok', pos')
        BY <2>2, <3>2 DEF Goto
      <4> QED
        BY <3>1, <4>1 DEF GapInv, Gaps
    <3>3. CASE NextChar = ";" /\ Goto("comment", Past)
      <4>1. pc' = "comment" /\ pos' = Past
        BY <3>3 DEF Goto
      <4>2. /\ InComm(input', LastOf(tok') + 1, pos' - 1)
            /\ LastOf(tok') < pos' /\ Insig(input', tok', pos')
        BY <2>3, <3>3, <4>1
      <4> QED
        BY <3>1, <4>1, <4>2 DEF GapInv, Gaps
    <3>4. CASE Goto("print", Unread)
      <4>1. pc' = "print" /\ pos' = Unread
        BY <3>4 DEF Goto
      <4>2. Unread = pos + 1 => NextChar = "EOF"
        BY <1>0, <1>c
      <4>3. LastOf(tok') < pos' /\ Insig(input', tok', pos')
        BY <2>2, <4>1, <4>2
      <4> QED
        BY <4>1, <4>3 DEF GapInv, Gaps
    <3> QED
      BY <2>5, <3>2, <3>3, <3>4 DEF Skip
  <2>6. CASE Comment
    <3>1. pc = "comment" /\ tok.type # "NEWLINE" /\ tok' = tok
      BY <2>0, <2>6 DEF Comment, GapInv
    <3>2. CASE NextChar # "nl" /\ Goto("comment", Past)
      <4>1. pc' = "comment" /\ pos' = Past
        BY <3>2 DEF Goto
      <4>2. /\ InComm(input', LastOf(tok') + 1, pos' - 1)
            /\ LastOf(tok') < pos' /\ Insig(input', tok', pos')
        BY <2>4, <3>1, <3>2, <4>1
      <4> QED
        BY <3>1, <4>1, <4>2 DEF GapInv, Gaps
    <3>3. CASE NextChar = "nl" /\ Goto("print", Unread)
      <4>1. pc' = "print" /\ pos' = Unread
        BY <3>3 DEF Goto
      <4>2. Unread = pos + 1 => NextChar = "EOF"
        BY <1>0, <1>c
      <4>3. LastOf(tok') < pos' /\ Insig(input', tok', pos')
        BY <2>2, <4>1, <4>2
      <4> QED
        BY <4>1, <4>3 DEF GapInv, Gaps
    <3> QED
      BY <2>6, <3>2, <3>3 DEF Comment
  <2>7. CASE Newline
    <3>1. pc = "newline" /\ tok.type = "NEWLINE" /\ tok' = tok
      BY <2>0, <2>7 DEF Newline, GapInv
    <3>2. CASE NextChar \in Space /\ Goto("newline", Past)
      <4>1. pc' = "newline" /\ pos' = Past /\ (NextChar \in Blank \/ NextChar = "nl")
        BY <3>2, GapChars DEF Goto
      <4>2. LastOf(tok') < pos' /\ Insig(input', tok', pos')
        BY <2>2, <3>1, <4>1
      <4> QED
        BY <3>1, <4>1, <4>2 DEF GapInv, Gaps
    <3>3. CASE NextChar = ";" /\ Goto("newlineComment", Past)
      <4>1. pc' = "newlineComment" /\ pos' = Past
        BY <3>3 DEF Goto
      <4>2. /\ InComm(input', LastOf(tok') + 1, pos' - 1)
            /\ LastOf(tok') < pos' /\ Insig(input', tok', pos')
        BY <2>3, <3>3, <4>1
      <4> QED
        BY <3>1, <4>1, <4>2 DEF GapInv, Gaps
    <3>4. CASE Goto("print", Unread)
      <4>1. pc' = "print" /\ pos' = Unread
        BY <3>4 DEF Goto
      <4>2. Unread = pos + 1 => NextChar = "EOF"
        BY <1>0, <1>c
      <4>3. LastOf(tok') < pos' /\ Insig(input', tok', pos')
        BY <2>2, <4>1, <4>2
      <4> QED
        BY <4>1, <4>3 DEF GapInv, Gaps
    <3> QED
      BY <2>7, <3>2, <3>3, <3>4 DEF Newline
  <2>8. CASE NewlineComment
    <3>1. pc = "newlineComment" /\ tok.type = "NEWLINE" /\ tok' = tok
      BY <2>0, <2>8 DEF NewlineComment, GapInv
    <3>2. CASE NextChar # "nl" /\ Goto("newlineComment", Past)
      <4>1. pc' = "newlineComment" /\ pos' = Past
        BY <3>2 DEF Goto
      <4>2. /\ InComm(input', LastOf(tok') + 1, pos' - 1)
            /\ LastOf(tok') < pos' /\ Insig(input', tok', pos')
        BY <2>4, <3>1, <3>2, <4>1
      <4> QED
        BY <3>1, <4>1, <4>2 DEF GapInv, Gaps
    <3>3. CASE NextChar = "nl" /\ Goto("newline", Past)
      <4>1. pc' = "newline" /\ pos' = Past
        BY <3>3 DEF Goto
      <4>2. LastOf(tok') < pos' /\ Insig(input', tok', pos')
        BY <2>2, <3>1, <3>3, <4>1
      <4> QED
        BY <3>1, <4>1, <4>2 DEF GapInv, Gaps
    <3> QED
      BY <2>8, <3>2, <3>3 DEF NewlineComment
  <2> QED
    BY <1>1, <2>5, <2>6, <2>7, <2>8 DEF Gap
<1>2. ASSUME pos' = LastOf(tok') + 1
      PROVE  LastOf(tok') < pos' /\ Insig(input', tok', pos')
  <2>1. Insig(input', tok', LastOf(tok') + 1)
    BY ONLY <1>00, InsigStarts
  <2> QED
    BY <1>00, <1>2, <2>1
<1>3. CASE GetSingle
  <2>1. /\ NextChar \in DOMAIN Single
        /\ tok' = [type |-> Single[NextChar], value |-> <<NextChar>>, from |-> pos]
        /\ pos' = Past /\ pc' = IF NextChar = "nl" THEN "newline" ELSE "skip"
    BY <1>3 DEF GetSingle, Begin
  <2>2. NextChar # "EOF"
    BY <2>1, CharFacts
  <2>3. (Single[NextChar] = "NEWLINE" <=> NextChar = "nl") /\ Off(tok') = 0
    BY <2>1, SingleType DEF Off
  <2>4. tok'.type = Single[NextChar] /\ tok'.from = pos /\ Len(tok'.value) = 1 /\ pos' = pos + 1
    BY <1>c, <2>1, <2>2
  <2>5. LastOf(tok') = pos
    <3>1. tok'.from \in Nat /\ Len(tok'.value) \in Nat
      BY <1>0, <2>4
    <3>2. LastOf(tok') = tok'.from + Off(tok') + Len(tok'.value) - 1
      BY <3>1, LastOfIs
    <3> QED
      BY <1>0, <2>3, <2>4, <3>2
  <2>6. LastOf(tok') < pos' /\ Insig(input', tok', pos')
    BY <1>2, <2>4, <2>5
  <2> QED
    BY <2>1, <2>3, <2>4, <2>6 DEF GapInv, Gaps
<1>4. CASE HexiEnd \/ DeciEnd \/ IdentEnd
  <2>1. pc' = "exit" \/ (pc' = "separator" /\ tok' = tok /\ pos' \in {pos, Unread})
    BY <1>4 DEF HexiEnd, DeciEnd, IdentEnd, Goto, Fail
  <2>2. pos = LastOf(tok) + 1
    BY <1>4 DEF HexiEnd, DeciEnd, IdentEnd, TokInv
  <2>3. CASE pc' = "exit"
    BY <2>3 DEF GapInv, Gaps
  <2>4. CASE pc' = "separator" /\ tok' = tok /\ pos' = pos
    <3>1. LastOf(tok') < pos' /\ Insig(input', tok', pos')
      BY <1>2, <2>2, <2>4
    <3> QED
      BY <2>4, <3>1 DEF GapInv, Gaps
  <2>5. CASE pc' = "separator" /\ tok' = tok /\ pos' = Unread
    <3>1. LastOf(tok) < pos /\ Insig(input, tok, pos)
      <4>1. Insig(input, tok, LastOf(tok) + 1)
        BY ONLY <1>0, InsigStarts
      <4> QED
        BY <1>0, <2>2, <4>1
    <3>2. Unread = pos + 1 => NextChar = "EOF"
      BY <1>0, <1>c
    <3>3. LastOf(tok) < Unread /\ Insig(input, tok, Unread)
      BY <3>1, <3>2, PassedOver
    <3>4. LastOf(tok') < pos' /\ Insig(input', tok', pos')
      BY <1>in, <2>5, <3>3
    <3> QED
      BY <2>5, <3>4 DEF GapInv, Gaps
  <2> QED
    BY <2>1, <2>3, <2>4, <2>5
<1>5. CASE SeparatorYes
  <2>1. pc = "separator" /\ pc' = "skip" /\ pos' = pos /\ tok' = [tok EXCEPT !.type = TypeOf(tok)]
    BY <1>5 DEF SeparatorYes
  <2>2. tok.type \in {"HEXI", "DECI", "IDENT"}
    BY <2>1 DEF TokInv, Hexi, HexiPart, Deci, DeciPart
  <2>3. /\ TypeOf(tok) # "NEWLINE"
        /\ TypeOf(tok) \in {"HEXI", "DECI"} <=> tok.type \in {"HEXI", "DECI"}
    BY <2>2 DEF TypeOf
  <2>4. tok'.type = TypeOf(tok) /\ tok'.value = tok.value /\ tok'.from = tok.from
    BY <1>0, <2>1 DEF Toks
  <2>5. LastOf(tok') = LastOf(tok)
    BY <2>3, <2>4 DEF LastOf, Width
  <2>6. LastOf(tok) < pos /\ Insig(input, tok, pos)
    BY <2>1 DEF GapInv
  <2>7. tok.type # "NEWLINE"
    BY <2>2
  <2>8. Insig(input, tok', pos)
    BY ONLY <2>5, <2>6, <2>7, InsigSame
  <2>9. LastOf(tok') < pos' /\ Insig(input', tok', pos')
    BY <1>in, <2>1, <2>5, <2>6, <2>8
  <2> QED
    BY <2>1, <2>3, <2>4, <2>9 DEF GapInv, Gaps
<1>6. CASE \/ MainFails \/ MainStarts \/ MainExit \/ NoMemory \/ TokPrint \/ GetEof \/ GetHexi
           \/ GetDeci \/ GetIdentLike \/ Unexpected
  <2>1. pc' \in {"token", "exit", "done", "hexi", "deci", "ident"}
    BY <1>6 DEF MainFails, MainStarts, MainExit, NoMemory, TokPrint, GetEof, GetHexi, GetDeci,
                GetIdentLike, Unexpected, Begin
  <2> QED
    BY <2>1 DEF GapInv, Gaps
<1>7. CASE HexiDigit \/ DeciDigit \/ IdentNext \/ HexiBad \/ DeciBad \/ SeparatorNo
  <2>1. pc' \in {"exit", "hexi", "deci", "ident"}
    BY <1>7 DEF HexiDigit, DeciDigit, IdentNext, HexiBad, DeciBad, SeparatorNo, AppendNext, Fail
  <2> QED
    BY <2>1 DEF GapInv, Gaps
<1>8. CASE UNCHANGED vars
  BY <1>8 DEF vars, GapInv
<1> QED
  BY <1>1, <1>3, <1>4, <1>5, <1>6, <1>7, <1>8 DEF Next, Token, Number, Word

---------------------------------------------------------------------------
(* Nothing is lost, and newlines are collapsed *)

\* Only insignificant text lies between the last token of o and position p.
Follows(f, o, p) == IF o = <<>> THEN p = 1 ELSE Insig(f, o[Len(o)], p)

OutInv ==
    /\ pc \in {"main", "token"} => Follows(input, out, pos)
    /\ tok.type # "none" => Follows(input, out, tok.from)
    /\ tok.type = "TOK_EOF" => (tok.from <= Len(input) => input[tok.from] = "ff")
    /\ \A k \in 1..(Len(out) - 1) : Insig(input, out[k], out[k + 1].from)
    /\ out # <<>> => out[1].from = 1

\* No newline comes at position p, right after t, unless 0xFF came before it.
FfBetween(f, a, b) == \E q \in a..b : f[q] = "ff"
Closed(f, t, p) == FfBetween(f, t.from, p - 1) \/ p > Len(f) \/ f[p] # "nl"

LineInv ==
    /\ pc = "print" /\ tok.type = "NEWLINE" => Closed(input, tok, pos)
    /\ pc = "token" /\ out # <<>> /\ out[Len(out)].type = "NEWLINE" =>
          Closed(input, out[Len(out)], pos)
    /\ tok.type = "NEWLINE" /\ out # <<>> /\ out[Len(out)].type = "NEWLINE" =>
          FfBetween(input, out[Len(out)].from, tok.from)
    /\ \A k \in 1..(Len(out) - 1) :
          out[k].type = "NEWLINE" /\ out[k + 1].type = "NEWLINE" =>
              FfBetween(input, out[k].from, out[k + 1].from)

\* The steps inside a token and after it leave what is printed, and where the
\* token starts, alone.
LEMMA KeepStep ==
    ASSUME LexTypes, Number \/ Word \/ Gap
    PROVE  /\ out' = out /\ tok'.from = tok.from /\ pc' \notin {"main", "token"}
           /\ tok'.type # "none" => tok.type # "none"
           /\ tok'.type = "TOK_EOF" => tok.type = "TOK_EOF"
           /\ tok'.type = "NEWLINE" => tok.type = "NEWLINE"
           /\ pc' = "print" => Gap
<1>0. tok \in Toks
  BY DEF LexTypes
<1>1. CASE AppendNext /\ pc \notin {"main", "token", "print"}
  <2>1. tok' = [tok EXCEPT !.value = Append(tok.value, NextChar)] /\ out' = out /\ pc' = pc
    BY <1>1 DEF AppendNext
  <2>2. tok'.from = tok.from /\ tok'.type = tok.type
    BY <1>0, <2>1 DEF Toks
  <2> QED
    BY <1>1, <2>1, <2>2
<1>2. CASE SeparatorYes
  <2>1. tok' = [tok EXCEPT !.type = TypeOf(tok)] /\ out' = out /\ pc' = "skip"
    BY <1>2 DEF SeparatorYes
  <2>2. tok'.from = tok.from /\ tok'.type = TypeOf(tok)
    BY <1>0, <2>1 DEF Toks
  <2>3. \/ TypeOf(tok) = tok.type
        \/ tok.type = "IDENT" /\ TypeOf(tok) \in {"REGISTER", "INSTRUCTION", "IDENT"}
    BY DEF TypeOf
  <2> QED
    BY <2>1, <2>2, <2>3
<1>3. CASE HexiBad \/ DeciBad \/ SeparatorNo \/ HexiEnd \/ DeciEnd \/ IdentEnd
  <2>1. tok' = tok /\ out' = out /\ pc' \in {"exit", "separator"}
    BY <1>3 DEF HexiBad, DeciBad, SeparatorNo, HexiEnd, DeciEnd, IdentEnd, Fail, Goto
  <2> QED
    BY <2>1
<1>4. CASE Gap
  <2>1. tok' = tok /\ out' = out /\ pc' \in Gaps
    BY <1>4, GapStep
  <2> QED
    BY <1>4, <2>1 DEF Gaps
<1>5. HexiDigit \/ DeciDigit \/ IdentNext => AppendNext /\ pc \notin {"main", "token", "print"}
  BY DEF HexiDigit, DeciDigit, IdentNext
<1> QED
  BY <1>1, <1>2, <1>3, <1>4, <1>5 DEF Number, Word

LEMMA BeginStep ==
    ASSUME GetEof \/ GetSingle \/ GetHexi \/ GetDeci \/ GetIdentLike
    PROVE  /\ pc = "token" /\ out' = out /\ tok'.from = pos
           /\ pc' \notin {"main", "token", "print"}
           /\ tok'.type = "TOK_EOF" => NextChar = "EOF"
           /\ tok'.type = "NEWLINE" => NextChar = "nl"
<1>1. CASE GetEof
  BY <1>1 DEF GetEof, Begin
<1>2. CASE GetSingle
  <2>1. pc = "token" /\ out' = out /\ NextChar \in DOMAIN Single
        /\ pc' = IF NextChar = "nl" THEN "newline" ELSE "skip"
    BY <1>2 DEF GetSingle, Begin
  <2>2. tok' = [type |-> Single[NextChar], value |-> <<NextChar>>, from |-> pos]
    BY <1>2 DEF GetSingle, Begin
  <2>3. tok'.type = Single[NextChar] /\ tok'.from = pos
    BY <2>2
  <2>4. Single[NextChar] # "TOK_EOF" /\ (Single[NextChar] = "NEWLINE" => NextChar = "nl")
    BY <2>1, SingleType
  <2> QED
    BY <2>1, <2>3, <2>4
<1>3. CASE GetHexi \/ GetDeci \/ GetIdentLike
  BY <1>3 DEF GetHexi, GetDeci, GetIdentLike, Begin
<1> QED
  BY <1>1, <1>2, <1>3

LEMMA PrintStep ==
    ASSUME LexTypes, TokPrint
    PROVE  /\ pc = "print" /\ pc' = "token" /\ tok'.type = "none" /\ pos' = pos
           /\ out \in Seq(Toks) /\ Len(out) \in Nat /\ Len(out') = Len(out) + 1 /\ out' # <<>>
           /\ out'[Len(out) + 1] = tok /\ \A k \in 1..Len(out) : out'[k] = out[k]
           /\ out # <<>> => Len(out) >= 1
<1>1. out \in Seq(Toks) /\ tok \in Toks /\ out' = Append(out, tok)
  BY DEF LexTypes, TokPrint
<1>2. pc = "print" /\ pc' = "token" /\ tok'.type = "none" /\ pos' = pos
  BY DEF TokPrint, NoTok
<1> QED
  BY <1>1, <1>2

LEMMA OutStep == LexTypes /\ TokInv /\ GapInv /\ OutInv /\ [Next]_vars => OutInv'
<1> SUFFICES ASSUME LexTypes, TokInv, GapInv, OutInv, [Next]_vars PROVE OutInv'
  OBVIOUS
<1>in. input' = input
  BY FileKept
<1>1. ASSUME out' = out
      PROVE  /\ \A k \in 1..(Len(out') - 1) : Insig(input', out'[k], out'[k + 1].from)
             /\ out' # <<>> => out'[1].from = 1
  BY <1>1, <1>in DEF OutInv
<1>2. CASE GetEof \/ GetSingle \/ GetHexi \/ GetDeci \/ GetIdentLike
  <2>1. /\ pc = "token" /\ out' = out /\ tok'.from = pos /\ pc' \notin {"main", "token"}
        /\ tok'.type = "TOK_EOF" => NextChar = "EOF"
    BY <1>2, BeginStep
  <2>2. Follows(input', out', tok'.from)
    BY <1>in, <2>1 DEF OutInv
  <2>3. NextChar = "EOF" => (pos <= Len(input) => input[pos] = "ff")
    <3>1. pos \in Nat /\ Len(input) \in Nat
      BY DEF LexTypes
    <3> QED
      BY <3>1, Getc
  <2> QED
    BY <1>1, <1>in, <2>1, <2>2, <2>3 DEF OutInv
<1>3. CASE Number \/ Word \/ Gap
  <2>1. /\ out' = out /\ tok'.from = tok.from /\ pc' \notin {"main", "token"}
        /\ tok'.type # "none" => tok.type # "none"
        /\ tok'.type = "TOK_EOF" => tok.type = "TOK_EOF"
    BY <1>3, KeepStep
  <2> QED
    BY <1>1, <1>in, <2>1 DEF OutInv
<1>4. CASE TokPrint
  <2>1. /\ pc = "print" /\ pc' = "token" /\ tok'.type = "none" /\ pos' = pos
        /\ Len(out) \in Nat /\ Len(out') = Len(out) + 1 /\ out' # <<>>
        /\ out'[Len(out) + 1] = tok
    BY <1>4, PrintStep
  <2>p. \A k \in 1..Len(out) : out'[k] = out[k]
    BY <1>4, PrintStep
  <2>2. Insig(input, tok, pos) /\ Good(input, tok)
    BY <2>1 DEF GapInv, TokInv, Gaps
  <2>3. tok.type # "none"
    BY <2>2, SingleType DEF Good, Hexi, HexiPart, Deci, DeciPart, WordPart, OneChar
  <2>4. Follows(input, out, tok.from)
    BY <2>3 DEF OutInv
  <2>5. Follows(input', out', pos')
    BY <1>in, <2>1, <2>2 DEF Follows
  <2>6. \A k \in 1..(Len(out') - 1) : Insig(input', out'[k], out'[k + 1].from)
    <3> SUFFICES ASSUME NEW k \in 1..Len(out) PROVE Insig(input, out'[k], out'[k + 1].from)
      BY <1>in, <2>1
    <3>1. CASE k = Len(out)
      <4>1. out # <<>>
        BY <2>1
      <4>2. Insig(input, out[Len(out)], tok.from)
        BY <2>4, <4>1 DEF Follows
      <4> QED
        BY <2>1, <2>p, <3>1, <4>2
    <3>2. CASE k # Len(out)
      <4>1. k \in 1..(Len(out) - 1) /\ k + 1 \in 1..Len(out)
        BY <2>1, <3>2
      <4>2. Insig(input, out[k], out[k + 1].from)
        BY <4>1 DEF OutInv
      <4> QED
        BY <2>p, <4>1, <4>2
    <3> QED
      BY <3>1, <3>2
  <2>7. out'[1].from = 1
    <3>1. CASE out = <<>>
      <4>1. Len(out) = 0 /\ tok.from = 1
        BY <2>4, <3>1 DEF Follows
      <4> QED
        BY <2>1, <4>1
    <3>2. CASE out # <<>>
      <4>1. 1 \in 1..Len(out)
        BY <1>4, <3>2, PrintStep
      <4> QED
        BY <2>p, <3>2, <4>1 DEF OutInv
    <3> QED
      BY <3>1, <3>2
  <2> QED
    BY <2>1, <2>5, <2>6, <2>7 DEF OutInv
<1>5. CASE \/ MainFails \/ MainStarts \/ MainExit \/ NoMemory \/ UNCHANGED vars
  <2>1. out' = out /\ tok' = tok /\ pos' = pos
        /\ (pc' \in {"main", "token"} => pc \in {"main", "token"})
    BY <1>5 DEF MainFails, MainStarts, MainExit, NoMemory, vars
  <2> QED
    BY <1>1, <1>in, <2>1 DEF OutInv
<1>6. CASE Unexpected
  <2>1. out' = out /\ tok'.type = "none" /\ pc' = "exit"
    BY <1>6 DEF Unexpected, NoTok
  <2> QED
    BY <1>1, <2>1 DEF OutInv
<1> QED
  BY <1>2, <1>3, <1>4, <1>5, <1>6 DEF Next, Token

LEMMA LineStep == LexTypes /\ TokInv /\ GapInv /\ LineInv /\ [Next]_vars => LineInv'
<1> SUFFICES ASSUME LexTypes, TokInv, GapInv, LineInv, [Next]_vars PROVE LineInv'
  OBVIOUS
<1>0. pos \in Nat /\ Len(input) \in Nat /\ tok \in Toks
  BY DEF LexTypes
<1>in. input' = input
  BY FileKept
<1>1. ASSUME out' = out
      PROVE  \A k \in 1..(Len(out') - 1) :
                out'[k].type = "NEWLINE" /\ out'[k + 1].type = "NEWLINE" =>
                    FfBetween(input', out'[k].from, out'[k + 1].from)
  BY <1>1, <1>in DEF LineInv
<1>2. CASE GetEof \/ GetSingle \/ GetHexi \/ GetDeci \/ GetIdentLike
  <2>1. /\ pc = "token" /\ out' = out /\ tok'.from = pos /\ pc' \notin {"print", "token"}
        /\ tok'.type = "NEWLINE" => NextChar = "nl"
    BY <1>2, BeginStep
  <2>2. ASSUME tok'.type = "NEWLINE", out # <<>>, out[Len(out)].type = "NEWLINE"
        PROVE  FfBetween(input, out[Len(out)].from, pos)
    <3>1. NextChar = "nl" /\ pos <= Len(input) /\ input[pos] = "nl"
      BY <2>1, <2>2, Getc
    <3>2. Closed(input, out[Len(out)], pos)
      BY <2>1, <2>2 DEF LineInv
    <3>3. FfBetween(input, out[Len(out)].from, pos - 1)
      BY <1>0, <3>1, <3>2 DEF Closed
    <3>4. PICK q \in out[Len(out)].from..(pos - 1) : input[q] = "ff"
      BY <3>3 DEF FfBetween
    <3>5. out[Len(out)].from \in Nat
      <4>1. out \in Seq(Toks) /\ Len(out) \in 1..Len(out)
        BY <2>2 DEF LexTypes
      <4>2. out[Len(out)] \in Toks
        BY ONLY <4>1
      <4> QED
        BY ONLY <4>2 DEF Toks
    <3>6. q \in out[Len(out)].from..pos
      BY <1>0, <3>5
    <3> QED
      BY <3>4, <3>6 DEF FfBetween
  <2> QED
    BY <1>1, <1>in, <2>1, <2>2 DEF LineInv
<1>3. CASE Number \/ Word \/ Gap
  <2>1. /\ out' = out /\ tok'.from = tok.from /\ pc' \notin {"main", "token"}
        /\ tok'.type = "NEWLINE" => tok.type = "NEWLINE"
        /\ pc' = "print" => Gap
    BY <1>3, KeepStep
  <2>2. ASSUME pc' = "print", tok'.type = "NEWLINE" PROVE Closed(input', tok', pos')
    <3>1. Gap /\ tok' = tok /\ tok.type = "NEWLINE"
      BY <2>1, <2>2, GapStep
    <3>2. Newline
      BY <2>2, <3>1 DEF Gap, Skip, Comment, NewlineComment, GapInv, Goto
    <3>3. pc = "newline" /\ pos' = Unread /\ NextChar \notin Space
      BY <2>2, <3>2 DEF Newline, Goto
    <3>4. CASE NextChar # "EOF"
      <4>1. pos' = pos /\ input[pos] # "nl"
        BY <3>3, <3>4, Getc, GapChars
      <4> QED
        BY <1>in, <4>1 DEF Closed
    <3>5. CASE NextChar = "EOF" /\ pos > Len(input)
      <4>1. pos' > Len(input')
        BY <1>in, <1>0, <3>3, <3>5 DEF Unread, Past
      <4> QED
        BY <4>1 DEF Closed
    <3>6. CASE NextChar = "EOF" /\ pos <= Len(input)
      <4>1. pos' = pos + 1 /\ input[pos] = "ff"
        BY <1>0, <3>3, <3>6, Getc
      <4>2. LastOf(tok) < pos /\ Good(input, tok)
        BY <3>3 DEF GapInv, Gaps, TokInv
      <4>3. tok.from >= 1 /\ Len(tok.value) >= 1
        <5>1. OneChar(input, tok)
          BY <3>1, <4>2 DEF Good, Hexi, HexiPart, Deci, DeciPart, WordPart
        <5>2. PICK x \in DOMAIN Single : tok.value = <<x>> /\ Reads(input, tok)
          BY <5>1 DEF OneChar
        <5>3. Len(tok.value) = 1
          BY <5>2
        <5> QED
          BY <5>2, <5>3 DEF Reads
      <4>4. LastOf(tok) >= tok.from /\ LastOf(tok) \in Int /\ tok.from \in Nat
        <5>1. LastOf(tok) \in Int /\ LastOf(tok) >= tok.from + Len(tok.value) - 1
              /\ tok.from \in Nat /\ Len(tok.value) \in Nat
          BY <1>0, <4>3, LastOfType
        <5> QED
          BY <4>3, <5>1
      <4>5. pos \in tok.from..(pos' - 1)
        <5>1. pos' - 1 = pos
          <6>1. pos' = pos + 1 /\ pos \in Nat
            BY <1>0, <4>1
          <6> QED
            BY ONLY <6>1
        <5> QED
          BY <1>0, <4>2, <4>4, <5>1
      <4> QED
        BY <1>in, <3>1, <4>1, <4>5 DEF Closed, FfBetween
    <3> QED
      BY <1>0, <3>4, <3>5, <3>6
  <2> QED
    BY <1>1, <1>in, <2>1, <2>2 DEF LineInv
<1>4. CASE TokPrint
  <2>1. /\ pc = "print" /\ pc' = "token" /\ tok'.type = "none" /\ pos' = pos
        /\ Len(out) \in Nat /\ Len(out') = Len(out) + 1 /\ out' # <<>>
        /\ out'[Len(out) + 1] = tok
    BY <1>4, PrintStep
  <2>p. \A k \in 1..Len(out) : out'[k] = out[k]
    BY <1>4, PrintStep
  <2>2. out'[Len(out')].type = "NEWLINE" => Closed(input', out'[Len(out')], pos')
    BY <1>in, <2>1 DEF LineInv
  <2>3. ASSUME NEW k \in 1..(Len(out') - 1), out'[k].type = "NEWLINE", out'[k + 1].type = "NEWLINE"
        PROVE  FfBetween(input, out'[k].from, out'[k + 1].from)
    <3>1. CASE k = Len(out)
      <4>1. out # <<>> /\ out'[k] = out[Len(out)] /\ out'[k + 1] = tok
        BY <2>1, <2>p, <2>3, <3>1
      <4> QED
        BY <2>3, <4>1 DEF LineInv
    <3>2. CASE k # Len(out)
      <4>1. k \in 1..(Len(out) - 1) /\ k + 1 \in 1..Len(out) /\ k \in 1..Len(out)
        BY <2>1, <3>2
      <4>2. out'[k] = out[k] /\ out'[k + 1] = out[k + 1]
        BY <2>p, <4>1
      <4> QED
        BY <2>3, <4>1, <4>2 DEF LineInv
    <3> QED
      BY <3>1, <3>2
  <2> QED
    BY <1>in, <2>1, <2>2, <2>3 DEF LineInv
<1>5. CASE \/ MainFails \/ MainStarts \/ MainExit \/ NoMemory \/ UNCHANGED vars
  <2>1. out' = out /\ tok' = tok /\ pos' = pos /\ (pc' \notin {"token", "print"} \/ pc' = pc
                                                    \/ (pc = "main" /\ pc' = "token"))
    BY <1>5 DEF MainFails, MainStarts, MainExit, NoMemory, vars
  <2>2. pc = "main" => out = <<>>
    BY DEF LexTypes
  <2> QED
    BY <1>1, <1>in, <2>1, <2>2 DEF LineInv
<1>6. CASE Unexpected
  <2>1. out' = out /\ tok'.type = "none" /\ pc' = "exit"
    BY <1>6 DEF Unexpected, NoTok
  <2> QED
    BY <1>1, <2>1 DEF LineInv
<1> QED
  BY <1>2, <1>3, <1>4, <1>5, <1>6 DEF Next, Token

LexInv == LexTypes /\ TokInv /\ GapInv /\ OutInv /\ LineInv

LEMMA LexInvHolds == Spec => []LexInv
<1>1. Init => TokInv /\ GapInv
  BY DEF Init, TokInv, GapInv, Gaps
<1>2. Init => OutInv /\ LineInv
  <2> SUFFICES ASSUME Init PROVE OutInv /\ LineInv
    OBVIOUS
  <2>1. out = <<>> /\ Len(out) = 0 /\ tok.type = "none" /\ pos = 1 /\ pc = "main"
    BY DEF Init, NoTok
  <2>2. 1..(Len(out) - 1) = {}
    BY <2>1
  <2> QED
    BY <2>1, <2>2 DEF OutInv, LineInv, Follows
<1> QED
  BY <1>1, <1>2, LexTypesInit, LexTypesStep, TokStep, GapInvStep, OutStep, LineStep, PTL
     DEF Spec, LexInv

\* From a token to the next, or to the end, there is only insignificant text,
\* whatever the file (lex.c:254-305).
THEOREM NothingIsLost == Spec => []NothingLost
<1>1. LexInv => NothingLost
  <2> SUFFICES ASSUME LexInv PROVE NothingLost
    OBVIOUS
  <2>1. \A i, p : InComment(i, p) <=> InComm(input, i, p)
    BY DEF InComment, InComm
  <2>2. \A k, j : Insignificant(k, j) <=> Insig(input, out[k], j)
    BY <2>1 DEF Insignificant, Insig
  <2>3. OutInv
    BY DEF LexInv
  <2>4. \A k \in 1..(Len(out) - 1) : Insignificant(k, out[k + 1].from)
    BY <2>2, <2>3 DEF OutInv
  <2>5. ASSUME tok.type = "TOK_EOF", out # <<>> PROVE Insignificant(Len(out), tok.from)
    BY <2>2, <2>3, <2>5 DEF OutInv, Follows
  <2> QED
    BY <2>3, <2>4, <2>5 DEF OutInv, NothingLost
<1> QED
  BY <1>1, LexInvHolds, PTL

\* Empty lines and lines of comment give no token of their own, whatever the
\* file (lex.c:283-302).
THEOREM NewlinesAreCollapsed == Spec => []NewlinesCollapsed
<1>1. LexInv => NewlinesCollapsed
  BY DEF LexInv, LineInv, NewlinesCollapsed, FfBetween
<1> QED
  BY <1>1, LexInvHolds, PTL

---------------------------------------------------------------------------
(* Rejections are deserved *)

Deserved(f, a) ==
    \A e \in a..(Len(f) - 1) : f[e + 1] \in Separator => TypesOf(SubSeq(f, a, e)) = {}

RejInv == error = "UNEXPECTED_CHAR" => Deserved(input, tok.from)

\* A number or a word has ended: a word where it must, and the stream is right
\* after it unless the byte 0xFF was there.
SepInv ==
    pc = "separator" =>
        /\ \/ pos = LastOf(tok) + 1
           \/ /\ LastOf(tok) + 1 <= Len(input) /\ input[LastOf(tok) + 1] = "ff"
              /\ pos = LastOf(tok) + 2 /\ tok.type = "IDENT"
        /\ tok.type = "IDENT" => \/ LastOf(tok) + 1 > Len(input)
                                 \/ input[LastOf(tok) + 1] \notin IdentChar

\* The classes of characters that are told apart in a rejection.
LEMMA ClassFacts ==
    /\ "#" \notin IdentStart /\ "$" \notin IdentStart
    /\ "#" \notin DOMAIN Single /\ "$" \notin DOMAIN Single
    /\ \A c \in DOMAIN Single : c \notin IdentStart
    /\ \A c \in Separator : c \notin IdentChar
    /\ "ff" \notin IdentChar /\ "ff" \notin Separator /\ "ff" \notin Digit \cup HexLetter
    /\ "ff" \notin Digit
    /\ Letter \subseteq IdentStart /\ IdentStart \subseteq IdentChar /\ Digit \subseteq IdentChar
    /\ "R" \in Letter
<1>1. /\ \A c \in IdentChar : c \notin {"EOF", "ff", "#", "$"} /\ c \notin DOMAIN Single
      /\ \A c \in Separator : c \notin IdentChar /\ c \notin {"EOF", "ff"}
      /\ \A c \in DOMAIN Single : c \notin {"EOF", "ff", "#", "$"}
      /\ \A c \in Digit \cup HexLetter : c \in IdentChar
  BY CharFacts
<1>2. Letter \subseteq IdentStart /\ IdentStart \subseteq IdentChar /\ Digit \subseteq IdentChar
  BY DEF IdentStart, IdentChar
<1>3. "R" \in Letter
  BY LetterAssumption
<1>4. "ff" \notin IdentChar /\ "#" \notin IdentChar /\ "$" \notin IdentChar
  BY <1>1
<1>5. "ff" \notin Digit \cup HexLetter
  BY <1>1, <1>4
<1>6. "ff" \notin Separator /\ "#" \notin DOMAIN Single /\ "$" \notin DOMAIN Single
  BY <1>1
<1>7. \A c \in DOMAIN Single : c \notin IdentStart
  BY <1>1, <1>2
<1>8. \A c \in Separator : c \notin IdentChar
  BY <1>1
<1> QED
  BY <1>2, <1>3, <1>4, <1>5, <1>6, <1>7, <1>8

\* What a text that is a token looks like.
LEMMA Typed ==
    ASSUME NEW s \in Seq(Char), Len(s) >= 1, TypesOf(s) # {}
    PROVE  \/ HexiText(s) \/ DeciText(s) \/ WordText(s)
           \/ Len(s) = 1 /\ s[1] \in DOMAIN Single
<1>0. Len(s) \in Nat /\ s # <<>>
  OBVIOUS
<1>1. \/ HexiText(s) \/ DeciText(s) \/ RegisterText(s) \/ s \in Mnemonics \/ WordText(s)
      \/ \E c \in DOMAIN Single : s = <<c>>
  BY DEF TypesOf
<1>2. CASE RegisterText(s)
  <2>1. PICK d \in Digit \ {"0", "9"} : s = <<"R", d>>
    BY <1>2 DEF RegisterText
  <2>2. Len(s) = 2 /\ s[1] = "R" /\ s[2] = d
    BY <2>1
  <2>3. "R" \in IdentStart /\ "R" \in IdentChar /\ d \in IdentChar
    BY ClassFacts
  <2>4. \A i \in 1..Len(s) : i = 1 \/ i = 2
    BY <2>2
  <2> QED
    BY <1>0, <2>2, <2>3, <2>4 DEF WordText
<1>3. CASE s \in Mnemonics
  <2>1. s \in Seq(Letter)
    BY <1>3, InputAssumption
  <2>2. \A i \in 1..Len(s) : s[i] \in Letter
    BY <2>1
  <2>3. 1 \in 1..Len(s)
    BY <1>0
  <2> QED
    BY <1>0, <2>2, <2>3, ClassFacts DEF WordText
<1>4. CASE \E c \in DOMAIN Single : s = <<c>>
  <2>1. PICK c \in DOMAIN Single : s = <<c>>
    BY <1>4
  <2>2. Len(s) = 1 /\ s[1] = c
    BY <2>1
  <2> QED
    BY <2>1, <2>2
<1> QED
  BY <1>1, <1>2, <1>3, <1>4

\* The first character decides.
LEMMA ByFirst ==
    ASSUME NEW s \in Seq(Char), Len(s) >= 1, TypesOf(s) # {}
    PROVE  /\ s[1] = "#" => HexiText(s)
           /\ s[1] = "$" => DeciText(s)
           /\ s[1] \in IdentStart => WordText(s)
           /\ s[1] \in DOMAIN Single \cup IdentStart \cup {"#", "$"}
<1>1. HexiText(s) => s[1] = "#"
  BY DEF HexiText
<1>2. DeciText(s) => s[1] = "$"
  BY DEF DeciText
<1>3. WordText(s) => s[1] \in IdentStart
  BY DEF WordText
<1>4. \/ HexiText(s) \/ DeciText(s) \/ WordText(s)
      \/ s[1] \in DOMAIN Single
  BY Typed
<1>5. /\ "#" \notin IdentStart /\ "$" \notin IdentStart
      /\ "#" \notin DOMAIN Single /\ "$" \notin DOMAIN Single
      /\ \A c \in DOMAIN Single : c \notin IdentStart
  BY ClassFacts
<1> QED
  BY ONLY <1>1, <1>2, <1>3, <1>4, <1>5

\* s is the text of f from a to e, a separator follows, and s is the token
\* that its first character announces.
Candidate(f, a, e, s) ==
    /\ s \in Seq(Char) /\ Len(s) = e - a + 1
    /\ \A i \in 1..(e - a + 1) : s[i] = f[a + i - 1]
    /\ s = SubSeq(f, a, e)
    /\ f[e + 1] \in Separator
    /\ s[1] = "#" => HexiText(s)
    /\ s[1] = "$" => DeciText(s)
    /\ s[1] \in IdentStart => WordText(s)
    /\ s[1] \in DOMAIN Single \cup IdentStart \cup {"#", "$"}

LEMMA DeservedIf ==
    ASSUME NEW f \in Seq(Char), NEW a \in Nat, a >= 1,
           \A e \in a..(Len(f) - 1) : \A s : ~ Candidate(f, a, e, s)
    PROVE  Deserved(f, a)
<1> SUFFICES ASSUME NEW e \in a..(Len(f) - 1), f[e + 1] \in Separator,
                    TypesOf(SubSeq(f, a, e)) # {}
             PROVE  FALSE
  BY DEF Deserved
<1> DEFINE s == SubSeq(f, a, e)
<1>1. e \in Nat /\ a <= e /\ e <= Len(f) /\ 1 <= a
  OBVIOUS
<1>2. s \in Seq(Char) /\ Len(s) = e - a + 1
      /\ \A i \in 1..(e - a + 1) : s[i] = f[a + i - 1]
  BY ONLY f \in Seq(Char), a \in Nat, <1>1, TextIs
<1>3. Len(s) >= 1
  BY <1>1, <1>2
<1>4. TypesOf(s) # {}
  OBVIOUS
<1> HIDE DEF s
<1>5. /\ s[1] = "#" => HexiText(s)
      /\ s[1] = "$" => DeciText(s)
      /\ s[1] \in IdentStart => WordText(s)
      /\ s[1] \in DOMAIN Single \cup IdentStart \cup {"#", "$"}
  BY ONLY <1>2, <1>3, <1>4, ByFirst
<1>6. Candidate(f, a, e, s)
  BY <1>2, <1>5 DEF Candidate, s
<1> QED
  BY <1>6

\* The character that is read is the one in the file, for what concerns a set
\* without 0xFF.
LEMMA NotNext ==
    ASSUME LexTypes, NEW S, "ff" \notin S, NextChar \notin S, pos <= Len(input)
    PROVE  input[pos] \notin S
<1>1. pos \in Nat /\ Len(input) \in Nat
  BY DEF LexTypes
<1> QED
  BY <1>1 DEF NextChar

\* A number with a wrong digit: no number starts there.
LEMMA HexiBadDeserved ==
    ASSUME LexTypes, TokInv, HexiBad
    PROVE  Deserved(input, tok.from)
<1> DEFINE S == Digit \cup HexLetter
           n == Len(tok.value)
<1>1. pc = "hexi" /\ n < 4 /\ NextChar \notin S
  BY DEF HexiBad
<1>2. HexiPart(input, tok) /\ pos = LastOf(tok) + 1
  BY <1>1 DEF TokInv
<1>3. /\ input \in Seq(Char) /\ tok.from \in Nat /\ n \in Nat
  BY LastOfType DEF LexTypes
<1>4. tok.from >= 1 /\ input[tok.from] = "#" /\ Off(tok) = 1
  BY <1>2 DEF HexiPart, Reads, Off
<1>5. pos = tok.from + 1 + n
  <2>1. LastOf(tok) = tok.from + Off(tok) + n - 1
    BY <1>3, LastOfIs
  <2>2. pos = LastOf(tok) + 1 /\ tok.from \in Nat /\ n \in Nat /\ Off(tok) = 1
    BY <1>2, <1>3, <1>4
  <2> HIDE DEF n
  <2> QED
    BY ONLY <2>1, <2>2
<1>6. tok.from + 1 + n <= Len(input) => input[tok.from + 1 + n] \notin S
  BY <1>1, <1>5, NotNext, ClassFacts
<1> HIDE DEF S, n
<1>7. ASSUME NEW e \in tok.from..(Len(input) - 1), NEW s, Candidate(input, tok.from, e, s)
      PROVE  FALSE
  <2>1. Len(s) = e - tok.from + 1 /\ \A i \in 1..(e - tok.from + 1) : s[i] = input[tok.from + i - 1]
    BY <1>7 DEF Candidate
  <2>2. s[1] = "#"
    <3>1. 1 \in 1..(e - tok.from + 1) /\ tok.from + 1 - 1 = tok.from
      BY <1>3
    <3> QED
      BY <1>4, <2>1, <3>1
  <2>3. HexiText(s)
    BY <1>7, <2>2 DEF Candidate
  <2>4. Len(s) = 5 /\ \A i \in 2..5 : s[i] \in S
    BY <2>3 DEF HexiText, S
  <2>n. e - tok.from + 1 = 5
    BY ONLY <2>1, <2>4
  <2>5. n \in Nat /\ n < 4 /\ tok.from \in Nat /\ Len(input) \in Nat
        /\ e \in Int /\ e <= Len(input) - 1
    BY <1>1, <1>3
  <2>6. /\ n + 2 \in 2..5 /\ n + 2 \in 1..(e - tok.from + 1)
        /\ tok.from + (n + 2) - 1 = tok.from + 1 + n /\ tok.from + 1 + n <= Len(input)
    BY ONLY <2>n, <2>5
  <2>7. s[n + 2] \in S /\ s[n + 2] = input[tok.from + (n + 2) - 1]
    BY <2>1, <2>4, <2>6
  <2> QED
    BY <1>6, <2>6, <2>7
<1>8. tok.from >= 1
  BY <1>4
<1> QED
  BY ONLY <1>3, <1>7, <1>8, DeservedIf

LEMMA DeciBadDeserved ==
    ASSUME LexTypes, TokInv, DeciBad
    PROVE  Deserved(input, tok.from)
<1> DEFINE n == Len(tok.value)
<1>1. pc = "deci" /\ n < 5 /\ NextChar \notin Digit
  BY DEF DeciBad
<1>2. DeciPart(input, tok) /\ pos = LastOf(tok) + 1
  BY <1>1 DEF TokInv
<1>3. /\ input \in Seq(Char) /\ tok.from \in Nat /\ n \in Nat
  BY LastOfType DEF LexTypes
<1>4. tok.from >= 1 /\ input[tok.from] = "$" /\ Off(tok) = 1
  BY <1>2 DEF DeciPart, Reads, Off
<1>5. pos = tok.from + 1 + n
  <2>1. LastOf(tok) = tok.from + Off(tok) + n - 1
    BY <1>3, LastOfIs
  <2>2. pos = LastOf(tok) + 1 /\ tok.from \in Nat /\ n \in Nat /\ Off(tok) = 1
    BY <1>2, <1>3, <1>4
  <2> HIDE DEF n
  <2> QED
    BY ONLY <2>1, <2>2
<1>6. tok.from + 1 + n <= Len(input) => input[tok.from + 1 + n] \notin Digit
  BY <1>1, <1>5, NotNext, ClassFacts
<1> HIDE DEF n
<1>7. ASSUME NEW e \in tok.from..(Len(input) - 1), NEW s, Candidate(input, tok.from, e, s)
      PROVE  FALSE
  <2>1. Len(s) = e - tok.from + 1 /\ \A i \in 1..(e - tok.from + 1) : s[i] = input[tok.from + i - 1]
    BY <1>7 DEF Candidate
  <2>2. s[1] = "$"
    <3>1. 1 \in 1..(e - tok.from + 1) /\ tok.from + 1 - 1 = tok.from
      BY <1>3
    <3> QED
      BY <1>4, <2>1, <3>1
  <2>3. DeciText(s)
    BY <1>7, <2>2 DEF Candidate
  <2>4. Len(s) = 6 /\ \A i \in 2..6 : s[i] \in Digit
    BY <2>3 DEF DeciText
  <2>n. e - tok.from + 1 = 6
    BY ONLY <2>1, <2>4
  <2>5. n \in Nat /\ n < 5 /\ tok.from \in Nat /\ Len(input) \in Nat
        /\ e \in Int /\ e <= Len(input) - 1
    BY <1>1, <1>3
  <2>6. /\ n + 2 \in 2..6 /\ n + 2 \in 1..(e - tok.from + 1)
        /\ tok.from + (n + 2) - 1 = tok.from + 1 + n /\ tok.from + 1 + n <= Len(input)
    BY ONLY <2>n, <2>5
  <2>7. s[n + 2] \in Digit /\ s[n + 2] = input[tok.from + (n + 2) - 1]
    BY <2>1, <2>4, <2>6
  <2> QED
    BY <1>6, <2>6, <2>7
<1>8. tok.from >= 1
  BY <1>4
<1> QED
  BY ONLY <1>3, <1>7, <1>8, DeservedIf

\* A decimal number that does not fit into 16 bits.
LEMMA DeciEndDeserved ==
    ASSUME LexTypes, TokInv, pc = "deci", Len(tok.value) = 5, Atoi(tok.value) >= 65536
    PROVE  Deserved(input, tok.from)
<1>2. DeciPart(input, tok)
  BY DEF TokInv
<1>3. /\ input \in Seq(Char) /\ tok.from \in Nat /\ tok \in Toks
  BY LastOfType DEF LexTypes
<1>4. tok.from >= 1 /\ input[tok.from] = "$" /\ Off(tok) = 1 /\ Reads(input, tok)
  BY <1>2 DEF DeciPart, Reads, Off
<1>5. Atoi(tok.value) \in Nat
  <2>1. tok.value \in Seq(Char \cup {"EOF"}) /\ Len(tok.value) = 5
    BY <1>3 DEF Toks
  <2>2. \A j \in 1..Len(tok.value) : tok.value[j] \in Digit
    BY <1>2 DEF DeciPart
  <2> QED
    BY ONLY <2>1, <2>2, AtoiType
<1>6. tok.value = Tail(Text(input, tok))
  BY ONLY <1>3, <1>4, SignedText
<1>7. LastOf(tok) = tok.from + 5
  <2>1. Len(tok.value) \in Nat /\ Len(tok.value) = 5
    OBVIOUS
  <2>2. LastOf(tok) = tok.from + Off(tok) + Len(tok.value) - 1
    BY ONLY <1>3, <2>1, LastOfIs
  <2> QED
    BY ONLY <1>3, <1>4, <2>1, <2>2
<1>8. ASSUME NEW e \in tok.from..(Len(input) - 1), NEW s, Candidate(input, tok.from, e, s)
      PROVE  FALSE
  <2>1. Len(s) = e - tok.from + 1 /\ \A i \in 1..(e - tok.from + 1) : s[i] = input[tok.from + i - 1]
    BY ONLY <1>8 DEF Candidate
  <2>2. s[1] = "$"
    <3>1. 1 \in 1..(e - tok.from + 1) /\ tok.from + 1 - 1 = tok.from
      BY ONLY <1>3, e \in tok.from..(Len(input) - 1)
    <3> QED
      BY ONLY <1>4, <2>1, <3>1
  <2>3. DeciText(s)
    BY ONLY <1>8, <2>2 DEF Candidate
  <2>4. Len(s) = 6
    BY ONLY <2>3 DEF DeciText
  <2>5. e = LastOf(tok)
    <3>1. e - tok.from + 1 = 6
      BY ONLY <2>1, <2>4
    <3>2. e \in Int /\ tok.from \in Nat
      BY ONLY <1>3, e \in tok.from..(Len(input) - 1)
    <3> QED
      BY ONLY <1>7, <3>1, <3>2
  <2>6. s = Text(input, tok)
    BY ONLY <1>8, <2>5 DEF Candidate, Text
  <2>7. Atoi(Tail(s)) <= 65535
    BY ONLY <2>3 DEF DeciText
  <2>8. Atoi(tok.value) <= 65535
    BY ONLY <1>6, <2>6, <2>7
  <2> QED
    BY ONLY <1>5, <2>8, Atoi(tok.value) >= 65536
<1>9. tok.from >= 1
  BY <1>4
<1> QED
  BY ONLY <1>3, <1>8, <1>9, DeservedIf

LEMMA UnexpectedDeserved ==
    ASSUME LexTypes, Unexpected
    PROVE  Deserved(input, pos)
<1> DEFINE S == DOMAIN Single \cup IdentStart \cup {"#", "$"}
<1>1. NextChar \notin S /\ NextChar # "EOF"
  BY DEF Unexpected
<1>2. input \in Seq(Char) /\ pos \in Nat /\ pos >= 1
  BY DEF LexTypes
<1>3. input[pos] \notin S
  BY <1>1, Getc
<1>4. ASSUME NEW e \in pos..(Len(input) - 1), NEW s, Candidate(input, pos, e, s)
      PROVE  FALSE
  <2>1. /\ \A i \in 1..(e - pos + 1) : s[i] = input[pos + i - 1]
        /\ s[1] \in S
    BY <1>4 DEF Candidate
  <2>2. 1 \in 1..(e - pos + 1) /\ pos + 1 - 1 = pos
    BY <1>2
  <2> QED
    BY <1>3, <2>1, <2>2
<1> QED
  BY ONLY <1>2, <1>4, DeservedIf

LEMMA SeparatorNoDeserved ==
    ASSUME LexTypes, TokInv, SepInv, SeparatorNo
    PROVE  Deserved(input, tok.from)
<1> DEFINE a == tok.from
           z == LastOf(tok)
<1>1. pc = "separator" /\ NextChar \notin Separator
  BY DEF SeparatorNo
<1>2. /\ input \in Seq(Char) /\ a \in Nat /\ tok \in Toks /\ z \in Int /\ pos \in Nat
      /\ Len(input) \in Nat /\ Len(tok.value) \in Nat
  BY LastOfType DEF LexTypes
<1>n. a \in Nat /\ z \in Int /\ Len(input) \in Nat /\ Len(tok.value) \in Nat
  BY ONLY <1>2
<1>3. /\ \/ pos = z + 1
         \/ z + 1 <= Len(input) /\ input[z + 1] = "ff"
      /\ tok.type = "IDENT" => z + 1 > Len(input) \/ input[z + 1] \notin IdentChar
  BY <1>1 DEF SepInv
<1>4. z + 1 <= Len(input) => input[z + 1] \notin Separator
  BY <1>1, <1>3, NotNext, ClassFacts
<1>5. Reads(input, tok) /\ a >= 1
  BY <1>1 DEF TokInv, Hexi, Deci, HexiPart, DeciPart, WordPart, Reads
<1>6. z = a + Off(tok) + Len(tok.value) - 1
  BY <1>2, LastOfIs
<1>7. \/ Hexi(input, tok)
      \/ Deci(input, tok)
      \/ WordPart(input, tok) /\ tok.type = "IDENT"
  BY <1>1 DEF TokInv
<1>8. ASSUME NEW e \in a..(Len(input) - 1), NEW s, Candidate(input, a, e, s)
      PROVE  FALSE
  <2>1. Len(s) = e - a + 1 /\ \A i \in 1..(e - a + 1) : s[i] = input[a + i - 1]
    BY ONLY <1>8 DEF Candidate
  <2>n. e \in Int /\ e >= a /\ e <= Len(input) - 1
    BY ONLY <1>n, e \in a..(Len(input) - 1)
  <2>2. s[1] = input[a]
    <3>1. 1 \in 1..(e - a + 1) /\ a + 1 - 1 = a
      BY ONLY <1>n, <2>n
    <3> QED
      BY ONLY <2>1, <3>1
  <2>3. input[e + 1] \in Separator
    BY ONLY <1>8 DEF Candidate
  <2>4. e # z
    <3>1. e + 1 <= Len(input)
      BY ONLY <1>2, e \in a..(Len(input) - 1)
    <3> QED
      BY ONLY <1>4, <2>3, <3>1
  <2>5. ~ Hexi(input, tok)
    <3> SUFFICES ASSUME Hexi(input, tok) PROVE FALSE
      OBVIOUS
    <3>1. input[a] = "#" /\ Off(tok) = 1 /\ Len(tok.value) = 4
      BY DEF Hexi, HexiPart, Off
    <3>2. HexiText(s)
      BY ONLY <1>8, <2>2, <3>1 DEF Candidate
    <3>3. Len(s) = 5
      BY ONLY <3>2 DEF HexiText
    <3>4. e = a + 4 /\ z = a + 4
      <4>1. e - a + 1 = 5
        BY ONLY <2>1, <3>3
      <4>2. z = a + 1 + 4 - 1
        BY ONLY <1>6, <3>1
      <4> QED
        BY ONLY <1>n, <2>n, <4>1, <4>2
    <3> QED
      BY ONLY <2>4, <3>4
  <2>6. ~ Deci(input, tok)
    <3> SUFFICES ASSUME Deci(input, tok) PROVE FALSE
      OBVIOUS
    <3>1. input[a] = "$" /\ Off(tok) = 1 /\ Len(tok.value) = 5
      BY DEF Deci, DeciPart, Off
    <3>2. DeciText(s)
      BY ONLY <1>8, <2>2, <3>1 DEF Candidate
    <3>3. Len(s) = 6
      BY ONLY <3>2 DEF DeciText
    <3>4. e = a + 5 /\ z = a + 5
      <4>1. e - a + 1 = 6
        BY ONLY <2>1, <3>3
      <4>2. z = a + 1 + 5 - 1
        BY ONLY <1>6, <3>1
      <4> QED
        BY ONLY <1>n, <2>n, <4>1, <4>2
    <3> QED
      BY ONLY <2>4, <3>4
  <2>7. ~ (WordPart(input, tok) /\ tok.type = "IDENT")
    <3> SUFFICES ASSUME WordPart(input, tok), tok.type = "IDENT" PROVE FALSE
      OBVIOUS
    <3>1. Off(tok) = 0 /\ Len(tok.value) >= 1 /\ tok.value[1] \in IdentStart
      BY DEF WordPart, Off
    <3>0. Len(tok.value) >= 1
      BY ONLY <3>1
    <3>2. \A j \in 1..Len(tok.value) : tok.value[j] \in IdentChar
      BY DEF WordPart
    <3>3. \A j \in 1..Len(tok.value) : tok.value[j] = input[a + j - 1]
      <4>1. \A j \in 1..Len(tok.value) : tok.value[j] = input[a + 0 + j - 1]
        BY ONLY <1>5, <3>1 DEF Reads
      <4> QED
        BY ONLY <1>2, <4>1
    <3>4. z = a + Len(tok.value) - 1
      BY ONLY <1>2, <1>6, <3>1
    <3>5. s[1] \in IdentStart
      <4>1. 1 \in 1..Len(tok.value) /\ a + 1 - 1 = a
        BY ONLY <1>2, <3>1
      <4> QED
        BY ONLY <2>2, <3>1, <3>3, <4>1
    <3>6. WordText(s)
      BY ONLY <1>8, <3>5 DEF Candidate
    <3>7. \A i \in 1..(e - a + 1) : input[a + i - 1] \in IdentChar
      BY ONLY <2>1, <3>6 DEF WordText
    <3>8. CASE e < z
      <4>1. e - a + 2 \in 1..Len(tok.value) /\ a + (e - a + 2) - 1 = e + 1
        BY ONLY <1>n, <2>n, <3>4, <3>8, SMTT(30)
      <4>2. input[e + 1] \in IdentChar
        BY ONLY <3>2, <3>3, <4>1
      <4> QED
        BY ONLY <2>3, <4>2, ClassFacts
    <3>9. CASE e > z
      <4>0. z - a + 1 >= 1
        BY ONLY <1>n, <3>0, <3>4
      <4>1. z - a + 2 \in 1..(e - a + 1) /\ a + (z - a + 2) - 1 = z + 1 /\ z + 1 <= Len(input)
        <5>1. a \in Int /\ z \in Int /\ e \in Int /\ Len(input) \in Int
          BY ONLY <1>n, <2>n
        <5> QED
          BY ONLY <2>n, <3>9, <4>0, <5>1, PlaceWithin, Zenon
      <4>2. input[z + 1] \in IdentChar
        BY ONLY <3>7, <4>1
      <4> QED
        BY ONLY <1>2, <1>3, <4>1, <4>2, tok.type = "IDENT"
    <3> QED
      BY ONLY <1>n, <2>n, <2>4, <3>8, <3>9
  <2> QED
    BY ONLY <1>7, <2>5, <2>6, <2>7
<1>9. input \in Seq(Char) /\ a \in Nat /\ a >= 1
  BY ONLY <1>2, <1>5
<1> QED
  BY ONLY <1>8, <1>9, DeservedIf

LEMMA SepStep == LexTypes /\ TokInv /\ SepInv /\ [Next]_vars => SepInv'
<1> SUFFICES ASSUME LexTypes, TokInv, SepInv, [Next]_vars, pc' = "separator"
             PROVE  /\ \/ pos' = LastOf(tok') + 1
                       \/ /\ LastOf(tok') + 1 <= Len(input') /\ input'[LastOf(tok') + 1] = "ff"
                          /\ pos' = LastOf(tok') + 2 /\ tok'.type = "IDENT"
                    /\ tok'.type = "IDENT" => \/ LastOf(tok') + 1 > Len(input')
                                              \/ input'[LastOf(tok') + 1] \notin IdentChar
  BY DEF SepInv
<1>in. input' = input
  BY FileKept
<1>0. pos \in Nat /\ Len(input) \in Nat
  BY DEF LexTypes
<1>1. CASE HexiEnd \/ DeciEnd
  <2>1. pos' = pos /\ tok' = tok /\ pc \in {"hexi", "deci"}
    BY <1>1 DEF HexiEnd, DeciEnd, Goto, Fail
  <2>2. tok.type # "IDENT" /\ pos = LastOf(tok) + 1
    BY <2>1 DEF TokInv, HexiPart, DeciPart
  <2> QED
    BY <2>1, <2>2
<1>2. CASE IdentEnd
  <2>1. pc = "ident" /\ NextChar \notin IdentChar /\ pos' = Unread /\ tok' = tok
    BY <1>2 DEF IdentEnd, Goto
  <2>2. pos = LastOf(tok) + 1 /\ tok.type = "IDENT"
    BY <2>1 DEF TokInv
  <2>3. pos <= Len(input) => input[pos] \notin IdentChar
    BY <2>1, NotNext, ClassFacts
  <2>4. pos' = pos \/ (pos <= Len(input) /\ input[pos] = "ff" /\ pos' = pos + 1)
    BY <1>0, <2>1, Getc
  <2>5. LastOf(tok) \in Int
    <3>1. tok.from \in Nat /\ Len(tok.value) \in Nat
      BY DEF LexTypes, Toks
    <3>2. LastOf(tok) = tok.from + Off(tok) + Len(tok.value) - 1 /\ Off(tok) \in {0, 1}
      BY <3>1, LastOfIs
    <3> QED
      BY <3>1, <3>2
  <2> QED
    BY <1>0, <1>in, <2>1, <2>2, <2>3, <2>4, <2>5
<1>3. CASE UNCHANGED vars
  <2>1. pos' = pos /\ tok' = tok /\ pc = "separator"
    BY <1>3 DEF vars
  <2> QED
    BY <1>in, <2>1 DEF SepInv
<1>4. ~ (Token \/ TokPrint \/ MainFails \/ MainStarts \/ MainExit)
  <2>1. Token => pc' # "separator"
    BY DEF Token, GetEof, GetSingle, GetHexi, GetDeci, GetIdentLike, Unexpected, NoMemory, Begin
  <2>2. TokPrint \/ MainFails \/ MainStarts \/ MainExit => pc' # "separator"
    BY DEF TokPrint, MainFails, MainStarts, MainExit
  <2> QED
    BY <2>1, <2>2
<1>5. ~ Gap
  BY GapStep DEF Gaps
<1>6. ~ (HexiDigit \/ HexiBad \/ DeciDigit \/ DeciBad \/ IdentNext \/ SeparatorYes \/ SeparatorNo)
  BY DEF HexiDigit, HexiBad, DeciDigit, DeciBad, IdentNext, SeparatorYes, SeparatorNo, AppendNext,
         Fail
<1> QED
  BY <1>1, <1>2, <1>3, <1>4, <1>5, <1>6 DEF Next, Number, Word

LEMMA RejStep == LexTypes /\ TokInv /\ SepInv /\ RejInv /\ [Next]_vars => RejInv'
<1> SUFFICES ASSUME LexTypes, TokInv, SepInv, RejInv, [Next]_vars, error' = "UNEXPECTED_CHAR"
             PROVE  Deserved(input', tok'.from)
  BY DEF RejInv
<1>in. input' = input
  BY FileKept
<1>1. CASE error = "UNEXPECTED_CHAR"
  <2>1. pc \in {"exit", "done"}
    BY <1>1 DEF LexTypes
  <2>2. tok' = tok
    <3>1. ~ Token
      BY <2>1 DEF Token, GetEof, GetSingle, GetHexi, GetDeci, GetIdentLike, Unexpected, NoMemory,
                  Begin
    <3>2. ~ Number
      BY <2>1 DEF Number, HexiDigit, HexiBad, HexiEnd, DeciDigit, DeciBad, DeciEnd
    <3>3. ~ Word /\ ~ Gap
      BY <2>1 DEF Word, IdentNext, IdentEnd, SeparatorYes, SeparatorNo, Gap, Skip, Comment,
                  Newline, NewlineComment
    <3>4. ~ TokPrint
      BY <2>1 DEF TokPrint
    <3> QED
      BY <3>1, <3>2, <3>3, <3>4 DEF Next, MainFails, MainStarts, MainExit, vars
  <2> QED
    BY <1>1, <1>in, <2>2 DEF RejInv
<1>2. CASE error # "UNEXPECTED_CHAR"
  <2>1. CASE Unexpected
    <3>1. tok'.from = pos
      BY <2>1 DEF Unexpected, NoTok
    <3> QED
      BY <1>in, <2>1, <3>1, UnexpectedDeserved
  <2>2. CASE HexiBad
    <3>1. tok' = tok
      BY <2>2 DEF HexiBad, Fail
    <3> QED
      BY <1>in, <2>2, <3>1, HexiBadDeserved
  <2>3. CASE DeciBad
    <3>1. tok' = tok
      BY <2>3 DEF DeciBad, Fail
    <3> QED
      BY <1>in, <2>3, <3>1, DeciBadDeserved
  <2>4. CASE DeciEnd
    <3>1. tok' = tok /\ pc = "deci" /\ Len(tok.value) = 5 /\ Atoi(tok.value) >= 65536
      BY <1>2, <2>4 DEF DeciEnd, Fail, Goto
    <3> QED
      BY <1>in, <3>1, DeciEndDeserved
  <2>5. CASE SeparatorNo
    <3>1. tok' = tok
      BY <2>5 DEF SeparatorNo, Fail
    <3> QED
      BY <1>in, <2>5, <3>1, SeparatorNoDeserved
  <2>6. ~ (\/ GetEof \/ GetSingle \/ GetHexi \/ GetDeci \/ GetIdentLike \/ NoMemory \/ TokPrint
           \/ MainFails \/ MainStarts \/ MainExit \/ UNCHANGED vars)
    BY <1>2 DEF GetEof, GetSingle, GetHexi, GetDeci, GetIdentLike, NoMemory, Begin, TokPrint,
                MainFails, MainStarts, MainExit, vars
  <2>7. ~ (HexiDigit \/ HexiEnd \/ DeciDigit \/ IdentNext \/ IdentEnd \/ SeparatorYes)
    BY <1>2 DEF HexiDigit, HexiEnd, DeciDigit, IdentNext, IdentEnd, SeparatorYes, AppendNext, Goto
  <2>8. ~ Gap
    BY <1>2, GapStep
  <2> QED
    BY <2>1, <2>2, <2>3, <2>4, <2>5, <2>6, <2>7, <2>8 DEF Next, Token, Number, Word
<1> QED
  BY <1>1, <1>2

\* No text that a separator follows starts a token where one was rejected,
\* whatever the file (lex.c:184-218, 361-365, 393-403, 426-429).
THEOREM RejectionsDeserved == Spec => []RejectionDeserved
<1>1. Init => TokInv /\ SepInv /\ RejInv
  BY DEF Init, TokInv, SepInv, RejInv, Gaps
<1>2. RejInv => RejectionDeserved
  BY DEF RejInv, Deserved, RejectionDeserved
<1> QED
  BY <1>1, <1>2, LexTypesInit, LexTypesStep, TokStep, SepStep, RejStep, PTL DEF Spec

---------------------------------------------------------------------------
(* A separator follows *)

Spaced == {"HEXI", "DECI", "IDENT", "REGISTER", "INSTRUCTION"}

\* SeparatorFollows for the file f.
FollowedIn(f, t) ==
    \E n \in {1, 2} : /\ LastOf(t) + n <= Len(f) /\ f[LastOf(t) + n] \in Separator
                      /\ n = 2 => f[LastOf(t) + 1] = "ff" /\ t.type \notin {"HEXI", "DECI"}

SpacedInv ==
    /\ pc \in Gaps /\ tok.type \in Spaced => FollowedIn(input, tok)
    /\ \A k \in 1..Len(out) : out[k].type \in Spaced => FollowedIn(input, out[k])

LEMMA SpacedStep ==
    LexTypes /\ TokInv /\ SepInv /\ SpacedInv /\ [Next]_vars => SpacedInv'
<1> SUFFICES ASSUME LexTypes, TokInv, SepInv, SpacedInv, [Next]_vars PROVE SpacedInv'
  OBVIOUS
<1>in. input' = input
  BY FileKept
<1>0. /\ pos \in Nat /\ Len(input) \in Nat /\ tok \in Toks /\ out \in Seq(Toks)
      /\ tok.from \in Nat /\ Len(tok.value) \in Nat
  BY DEF LexTypes, Toks
<1>out. out' = out => \A k \in 1..Len(out') : out'[k].type \in Spaced => FollowedIn(input', out'[k])
  BY <1>in DEF SpacedInv
<1>1. CASE SeparatorYes
  <2>1. /\ pc = "separator" /\ pc' = "skip" /\ out' = out /\ NextChar \in Separator
        /\ tok' = [tok EXCEPT !.type = TypeOf(tok)]
    BY <1>1 DEF SeparatorYes
  <2>2. pos <= Len(input) /\ input[pos] \in Separator
    BY <2>1, Getc, CharFacts
  <2>3. tok'.type = TypeOf(tok) /\ tok'.value = tok.value /\ tok'.from = tok.from
    BY <1>0, <2>1 DEF Toks
  <2>4. \/ TypeOf(tok) = tok.type
        \/ tok.type = "IDENT" /\ TypeOf(tok) \in {"REGISTER", "INSTRUCTION"}
    BY DEF TypeOf
  <2>5. LastOf(tok') = LastOf(tok) /\ LastOf(tok) \in Int
    <3>1. Off(tok') = Off(tok)
      BY <2>3, <2>4 DEF Off
    <3>2. LastOf(tok) = tok.from + Off(tok) + Len(tok.value) - 1 /\ Off(tok) \in {0, 1}
      BY <1>0, LastOfIs
    <3>3. LastOf(tok') = tok'.from + Off(tok') + Len(tok'.value) - 1
      <4>1. tok'.from \in Nat /\ Len(tok'.value) \in Nat
        BY <1>0, <2>3
      <4> QED
        BY <4>1, LastOfIs
    <3> QED
      BY <1>0, <2>3, <3>1, <3>2, <3>3
  <2>6. FollowedIn(input, tok')
    <3>1. CASE pos = LastOf(tok) + 1
      BY <2>2, <2>5, <3>1 DEF FollowedIn
    <3>2. CASE /\ input[LastOf(tok) + 1] = "ff" /\ pos = LastOf(tok) + 2 /\ tok.type = "IDENT"
      <4>1. tok'.type \notin {"HEXI", "DECI"}
        BY <2>3, <2>4, <3>2
      <4> QED
        BY <2>2, <2>5, <3>2, <4>1 DEF FollowedIn
    <3> QED
      BY <2>1, <3>1, <3>2 DEF SepInv
  <2> QED
    BY <1>in, <1>out, <2>1, <2>6 DEF SpacedInv
<1>2. CASE Gap
  <2>1. pc \in Gaps /\ UNCHANGED <<input, tok, out>>
    BY <1>2, GapStep DEF Gaps
  <2> QED
    BY <1>out, <2>1 DEF SpacedInv
<1>3. CASE TokPrint
  <2>1. /\ pc = "print" /\ pc' = "token" /\ Len(out') = Len(out) + 1 /\ Len(out) \in Nat
        /\ out'[Len(out) + 1] = tok
    BY <1>3, PrintStep
  <2>2. \A k \in 1..Len(out) : out'[k] = out[k]
    BY <1>3, PrintStep
  <2>3. tok.type \in Spaced => FollowedIn(input, tok)
    BY <2>1 DEF SpacedInv, Gaps
  <2>4. ASSUME NEW k \in 1..Len(out'), out'[k].type \in Spaced PROVE FollowedIn(input', out'[k])
    <3>1. CASE k \in 1..Len(out)
      BY <1>in, <2>2, <2>4, <3>1 DEF SpacedInv
    <3>2. CASE k = Len(out) + 1
      BY <1>in, <2>1, <2>3, <2>4, <3>2
    <3> QED
      BY <2>1, <3>1, <3>2
  <2> QED
    BY <2>1, <2>4 DEF SpacedInv, Gaps
<1>4. CASE GetSingle
  <2>1. tok' = [type |-> Single[NextChar], value |-> <<NextChar>>, from |-> pos] /\ out' = out
        /\ NextChar \in DOMAIN Single
    BY <1>4 DEF GetSingle, Begin
  <2>2. tok'.type \notin Spaced
    BY <2>1, SingleType DEF Spaced
  <2> QED
    BY <1>out, <2>1, <2>2 DEF SpacedInv
<1>5. CASE \/ GetEof \/ GetHexi \/ GetDeci \/ GetIdentLike \/ Unexpected \/ NoMemory
           \/ MainFails \/ MainStarts \/ MainExit
  <2>1. out' = out /\ pc' \notin Gaps
    BY <1>5 DEF GetEof, GetHexi, GetDeci, GetIdentLike, Unexpected, NoMemory, Begin, MainFails,
                MainStarts, MainExit, Gaps
  <2> QED
    BY <1>out, <2>1 DEF SpacedInv
<1>6. CASE \/ HexiDigit \/ DeciDigit \/ IdentNext
  <2>1. out' = out /\ pc' \notin Gaps
    BY <1>6 DEF HexiDigit, DeciDigit, IdentNext, AppendNext, Gaps
  <2> QED
    BY <1>out, <2>1 DEF SpacedInv
<1>7. CASE \/ HexiBad \/ HexiEnd \/ DeciBad \/ DeciEnd \/ IdentEnd \/ SeparatorNo
  <2>1. out' = out /\ pc' \notin Gaps
    BY <1>7 DEF HexiBad, HexiEnd, DeciBad, DeciEnd, IdentEnd, SeparatorNo, Fail, Goto, Gaps
  <2> QED
    BY <1>out, <2>1 DEF SpacedInv
<1>8. CASE UNCHANGED vars
  BY <1>8 DEF vars, SpacedInv
<1> QED
  BY <1>1, <1>2, <1>3, <1>4, <1>5, <1>6, <1>7, <1>8 DEF Next, Token, Number, Word

\* Every token printed is a text of the file, a separator follows it if it is
\* a number or a word, and it has the type that parse.h gives its text; only
\* for R0, R8 and the instructions that are not reserved it is lex.c's type
\* instead.  This holds whatever the file (lex.c:167-252, 348-440).
THEOREM TokensAreTexts == Spec => []TokensMatch
<1>1. Init => TokInv /\ SepInv /\ SpacedInv
  BY DEF Init, TokInv, SepInv, SpacedInv, Gaps
<1>2. LexTypes /\ TokInv /\ SpacedInv => TokensMatch
  <2> SUFFICES ASSUME LexTypes, TokInv, SpacedInv, NEW k \in 1..Len(out)
               PROVE  /\ LastOf(out[k]) <= Len(input)
                      /\ out[k].value = IF out[k].type \in {"HEXI", "DECI"}
                                        THEN Tail(Text(input, out[k])) ELSE Text(input, out[k])
                      /\ Fits(out[k].type, Text(input, out[k]))
                      /\ out[k].type \in Spaced => FollowedIn(input, out[k])
    BY DEF TokensMatch, Text, TextOf, Fits, Spaced, SeparatorFollows, FollowedIn
  <2>1. input \in Seq(Char) /\ out[k] \in Toks /\ Good(input, out[k])
    BY DEF LexTypes, TokInv
  <2>2. out[k].type \in Spaced => FollowedIn(input, out[k])
    BY DEF SpacedInv
  <2>3. /\ LastOf(out[k]) <= Len(input)
        /\ out[k].value = IF out[k].type \in {"HEXI", "DECI"}
                          THEN Tail(Text(input, out[k])) ELSE Text(input, out[k])
        /\ Fits(out[k].type, Text(input, out[k]))
    BY ONLY <2>1, GoodTexts
  <2> QED
    BY ONLY <2>2, <2>3
<1> QED
  BY <1>1, <1>2, LexTypesInit, LexTypesStep, TokStep, SepStep, SpacedStep, PTL DEF Spec
=============================================================================
