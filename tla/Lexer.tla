-------------------------------- MODULE Lexer --------------------------------
(* The tokenizer of the scripting language (src/client/src/lexer.rs).         *)
(*                                                                            *)
(* A source text is a sequence of characters, a token a record: t its kind    *)
(* (a keyword or a punctuation mark is its own kind), v its payload, line the *)
(* line it began on, sp whether white space came before it.  Letters are      *)
(* lower case here, so folding case is nothing.  The widths of Integer, Long  *)
(* and the parse (16, 32 and 64 bits in the code) are parameters: the rules   *)
(* for narrowing depend on them and on nothing else.  A Real keeps its text   *)
(* as its value, and which texts are dates is a parameter.                    *)
EXTENDS Integers, Sequences

CONSTANTS
    ShortBits,     \* width of Integer, 16 in the code
    LongBits,      \* width of Long, 32 in the code
    WideBits,      \* width of the number a based literal is parsed into, 64
    MaxExponent,   \* largest exponent of a finite Real, 308 in the code
    DateTexts      \* the texts that builtins::datetime::parse_date accepts

ASSUME LexerWidths == 0 < ShortBits /\ ShortBits < LongBits /\ LongBits < WideBits

----------------------------------------------------------------------------
Blank  == {" ", "\t", "\r"}
Digit  == {"0", "1", "2", "3", "4", "5", "6", "7", "8", "9"}
Letter == {"a", "b", "c", "d", "e", "f", "g", "h", "i", "j", "k", "l", "m",
           "n", "o", "p", "q", "r", "s", "t", "u", "v", "w", "x", "y", "z"}
WordChar == Letter \cup Digit \cup {"_"}
HexDigit == Digit \cup {"a", "b", "c", "d", "e", "f"}
OctDigit == Digit \ {"8", "9"}

DigitValue ==
    LET row == <<"0", "1", "2", "3", "4", "5", "6", "7", "8", "9",
                 "a", "b", "c", "d", "e", "f">>
    IN  [c \in HexDigit |-> (CHOOSE i \in 1..16 : row[i] = c) - 1]

Keywords ==
    {"and", "as", "byref", "byval", "call", "case", "class", "const",
     "default", "dim", "do", "each", "else", "elseif", "empty", "end", "eqv",
     "erase", "error", "exit", "explicit", "false", "for", "function", "get",
     "goto", "if", "imp", "in", "is", "let", "loop", "me", "mod", "new",
     "next", "not", "nothing", "null", "on", "option", "optional", "or",
     "preserve", "private", "property", "public", "redim", "resume", "select",
     "set", "step", "stop", "sub", "then", "to", "true", "until", "wend",
     "while", "with", "xor"}

\* The character at p, or the zero byte past the end.
CharAt(s, p) == IF p \in DOMAIN s THEN s[p] ELSE "eof"

\* The first position from p on whose character is outside C.
SpanEnd(s, p, C) ==
    CHOOSE q \in p..(Len(s) + 1) :
        CharAt(s, q) \notin C /\ \A i \in p..(q - 1) : s[i] \in C

\* The first position from p on whose character is in C, or past the end.
FindEnd(s, p, C) ==
    CHOOSE q \in p..(Len(s) + 1) :
        CharAt(s, q) \in C \cup {"eof"} /\ \A i \in p..(q - 1) : s[i] \notin C

RECURSIVE Joined(_)
Joined(cs) == IF cs = <<>> THEN "" ELSE Head(cs) \o Joined(Tail(cs))

RECURSIVE NumberOf(_, _)
NumberOf(cs, radix) ==
    IF cs = <<>> THEN 0
    ELSE NumberOf(SubSeq(cs, 1, Len(cs) - 1), radix) * radix
             + DigitValue[cs[Len(cs)]]

----------------------------------------------------------------------------
(* White space, continuations and comments.                                   *)

\* An underscore joins the next line when only blanks follow it on its own.
IsContinuation(s, p) ==
    /\ CharAt(s, p) = "_"
    /\ CharAt(s, SpanEnd(s, p + 1, Blank)) \in {"\n", "eof"}

\* REM is a comment as a word of its own, and a member's name after a dot.
IsRem(s, p, prev) ==
    /\ prev # "."
    /\ p + 2 \in DOMAIN s
    /\ SubSeq(s, p, p + 2) = <<"r", "e", "m">>
    /\ CharAt(s, p + 3) \notin WordChar

RECURSIVE SkipSpace(_, _, _)
SkipSpace(s, at, prev) ==
    LET p == at.p
        q == SpanEnd(s, p + 1, Blank)
    IN  CASE CharAt(s, p) \in Blank ->
                SkipSpace(s, [at EXCEPT !.p = p + 1], prev)
          [] IsContinuation(s, p) ->
                SkipSpace(s, [p |-> IF CharAt(s, q) = "\n" THEN q + 1 ELSE q,
                              line |-> IF CharAt(s, q) = "\n" THEN at.line + 1
                                                              ELSE at.line,
                              continued |-> TRUE], prev)
          [] CharAt(s, p) = "'" \/ IsRem(s, p, prev) ->
                SkipSpace(s, [at EXCEPT !.p = FindEnd(s, p, {"\n"})], prev)
          [] OTHER -> at

----------------------------------------------------------------------------
(* The literals.  A scan gives the token's kind and payload and the position  *)
(* after it, or the error's code.                                             *)

Scanned(t, v, p) == [t |-> t, v |-> v, p |-> p]
ScanError(code)  == [t |-> "bad token", v |-> code, p |-> 0]

Signed(n, bits) ==
    LET m == n % (2 ^ bits) IN IF m < 2 ^ (bits - 1) THEN m ELSE m - (2 ^ bits)
Fits(n, bits)   == n \in -(2 ^ (bits - 1))..(2 ^ (bits - 1) - 1)

ScanStringOn(s, p, text) ==             \* mutant: a line end does not end it
    LET q == FindEnd(s, p, {"\""})
        read == text \o SubSeq(s, p, q - 1)
    IN  IF CharAt(s, q) = "\"" THEN Scanned("str", read, q + 1) ELSE ScanError(1002)
\* A doubled quote is a quote; the literal may not pass the end of its line.
RECURSIVE ScanString(_, _, _)
ScanString(s, p, text) ==
    LET q == FindEnd(s, p, {"\"", "\n"})
        read == text \o SubSeq(s, p, q - 1)
    IN  CASE CharAt(s, q) # "\""     -> ScanError(1002)
          [] CharAt(s, q + 1) = "\"" -> ScanString(s, q + 2, Append(read, "\""))
          [] OTHER                   -> Scanned("str", read, q + 1)

ScanBracketIdent(s, p) ==
    LET q == FindEnd(s, p + 1, {"]", "\n"})
    IN  IF CharAt(s, q) = "]"
        THEN Scanned("id", Joined(SubSeq(s, p + 1, q - 1)), q + 1)
        ELSE ScanError(1002)

ScanIdent(s, p) ==
    LET q == SpanEnd(s, p, WordChar)
        word == Joined(SubSeq(s, p, q - 1))
    IN  IF word \in Keywords THEN Scanned(word, word, q) ELSE Scanned("id", word, q)

StartsBased(s, p) ==
    CASE CharAt(s, p + 1) = "h" -> CharAt(s, p + 2) \in HexDigit
      [] CharAt(s, p + 1) = "o" -> CharAt(s, p + 2) \in OctDigit
      [] OTHER                  -> CharAt(s, p + 1) \in Digit

\* &H, &O and bare & octal.  A trailing & reads the digits as a Long, which
\* narrows; without it a value of 16 bits wraps, and 8000 alone stays Long.
ScanBased(s, p) ==
    LET hex   == CharAt(s, p + 1) = "h"
        first == IF CharAt(s, p + 1) \in {"h", "o"} THEN p + 2 ELSE p + 1
        q     == SpanEnd(s, first, IF hex THEN HexDigit ELSE OctDigit)
        n     == NumberOf(SubSeq(s, first, q - 1), IF hex THEN 16 ELSE 8)
        forced == CharAt(s, q) = "&"
        after == IF forced THEN q + 1 ELSE q
        short == Signed(n, ShortBits)
        long  == Signed(n, LongBits)
    IN  CASE q = first           -> ScanError(1002)
          [] n >= 2 ^ WideBits   -> ScanError(1031)
          [] n >= 2 ^ LongBits   -> ScanError(1002)
          [] forced              -> Scanned(IF Fits(long, ShortBits) THEN "int" ELSE "long",
                                            long, after)
          [] n = 2 ^ (ShortBits - 1) -> Scanned("long", short, after)
          [] n < 2 ^ ShortBits   -> Scanned("int", short, after)
          [] OTHER               -> Scanned("long", long, after)

\* Digits, a fraction, an exponent when digits follow it.  A whole number
\* takes the narrowest type that holds it.
ScanNumber(s, p) ==
    LET d == SpanEnd(s, p, Digit)
        point == CharAt(s, d) = "." /\ CharAt(s, d + 1) # "."
        f == IF point THEN SpanEnd(s, d + 1, Digit) ELSE d
        x == IF CharAt(s, f + 1) \in {"+", "-"} THEN f + 2 ELSE f + 1
        power == CharAt(s, f) = "e" /\ CharAt(s, x) \in Digit
        q == IF power THEN SpanEnd(s, x, Digit) ELSE f
        text == SubSeq(s, p, q - 1)
        n == NumberOf(text, 10)
    IN  CASE power /\ CharAt(s, f + 1) # "-"
               /\ NumberOf(SubSeq(s, x, q - 1), 10) > MaxExponent -> ScanError(1031)
          [] point \/ power     -> Scanned("real", text, q)
          [] Fits(n, ShortBits) -> Scanned("int", n, q)
          [] Fits(n, LongBits)  -> Scanned("long", n, q)
          [] OTHER              -> Scanned("real", text, q)

ScanDate(s, p) ==
    LET q == FindEnd(s, p + 1, {"#", "\n"})
        text == SubSeq(s, p + 1, q - 1)
    IN  IF CharAt(s, q) = "#" /\ text \in DateTexts
        THEN Scanned("date", Joined(text), q + 1)
        ELSE ScanError(1002)

----------------------------------------------------------------------------
(* One token, and the text.                                                   *)

\* The marks of two characters, with the reversed spellings the code accepts.
TwoChars ==
    [two \in {<<"=", ">">>, <<"=", "<">>, <<"<", ">">>, <<"<", "=">>,
              <<">", "=">>, <<">", "<">>} |->
        IF two \in {<<"=", ">">>, <<">", "=">>} THEN ">="
        ELSE IF two \in {<<"=", "<">>, <<"<", "=">>} THEN "<=" ELSE "<>"]

ScanToken(s, p) ==
    LET c == CharAt(s, p)
        two == <<c, CharAt(s, p + 1)>>
    IN  CASE c = "eof"                    -> Scanned("eof", "", p)
          [] c = "\n"                     -> Scanned("nl", "", p + 1)
          [] two \in DOMAIN TwoChars      -> Scanned(TwoChars[two], "", p + 2)
          [] c = "\""                     -> ScanString(s, p + 1, <<>>)
          [] c = "#"                      -> ScanDate(s, p)
          [] c = "&" /\ StartsBased(s, p) -> ScanBased(s, p)
          [] c \in Digit \/ (c = "." /\ CharAt(s, p + 1) \in Digit) -> ScanNumber(s, p)
          [] c = "["                      -> ScanBracketIdent(s, p)
          [] c \in Letter \cup {"_"}      -> ScanIdent(s, p)
          [] c \in {":", "(", ")", ",", "+", "-", "*", "/", "\\", "^", "=", "<", ">",
                    "&", "."}             -> Scanned(c, "", p + 1)
          [] OTHER                        -> ScanError(1002)

\* tokenize: the tokens of the text, or the first error with its line.  A run
\* of line ends is one token, and none opens the text.
RECURSIVE TokensFrom(_, _, _, _)
TokensFrom(s, p, line, out) ==
    LET prev == IF out = <<>> THEN "none" ELSE out[Len(out)].t
        gap  == SkipSpace(s, [p |-> p, line |-> line, continued |-> FALSE], prev)
        r    == ScanToken(s, gap.p)
        tok  == [t |-> r.t, v |-> r.v, line |-> gap.line,
                 sp |-> gap.p # p /\ ~gap.continued]
    IN  CASE r.t = "bad token" -> [toks |-> <<>>, err |-> r.v, line |-> gap.line]
          [] r.t = "eof"   -> [toks |-> Append(out, tok), err |-> 0, line |-> gap.line]
          [] r.t = "nl"    -> TokensFrom(s, r.p, gap.line + 1,
                                 IF prev \in {"none", "nl"} THEN out ELSE Append(out, tok))
          [] OTHER         -> TokensFrom(s, r.p, gap.line, Append(out, tok))

Tokenize(s) == TokensFrom(s, 1, 1, <<>>)
=============================================================================
