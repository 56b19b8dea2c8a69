------------------------------- MODULE Strings --------------------------------
(* The string functions of the scripting language                             *)
(* (src/client/src/builtins/strings.rs).  A string is a sequence of UTF-16    *)
(* code units, numbers of UnitBits bits; the functions whose name ends in B   *)
(* see each as its low byte and its high byte.  The arguments are strings or  *)
(* Null: what other values turn into is in Values.                            *)
EXTENDS Integers, Sequences, SequencesExt

CONSTANT UnitBits       \* width of a code unit, 16 in the code

Val(vt, v)  == [vt |-> vt, v |-> v]
Null        == Val("null", 0)
Str(s)      == Val("str", s)
Num(n)      == Val("number", n)
Raise(code) == Val("raise", code)
IsNull(v)   == v.vt = "null"
InvalidCall == 5
TypeMismatch == 13
InvalidUseOfNull == 94

ByteSize == 2 ^ (UnitBits \div 2)

\* bytes_of: two bytes a unit, the low one first.
BytesOf(s) == [i \in 1..(2 * Len(s)) |->
                  IF i % 2 = 1 THEN s[(i + 1) \div 2] % ByteSize
                  ELSE s[i \div 2] \div ByteSize]
\* from_bytes: an odd last byte is a unit of its own.
FromBytes(b) ==
    [i \in 1..((Len(b) + 1) \div 2) |->
        b[2 * i - 1] + ByteSize * (IF 2 * i <= Len(b) THEN b[2 * i] ELSE 0)]

\* The image a function works on, and back.
Image(s, byteMode) == IF byteMode THEN BytesOf(s) ELSE s
Back(u, byteMode)  == IF byteMode THEN FromBytes(u) ELSE u

Least(a, b) == IF a < b THEN a ELSE b

----------------------------------------------------------------------------
(* Lengths and parts.  The counts are checked before the subject.             *)

LenOf(v, byteMode) == IF IsNull(v) THEN Null ELSE Num(Len(Image(v.v, byteMode)))

Left(v, n, byteMode) ==
    CASE n < 0                -> Raise(InvalidCall)
      [] n >= 0 /\ IsNull(v)  -> Null
      [] OTHER -> LET u == Image(v.v, byteMode)
                  IN  Str(Back(SubSeq(u, 1, Least(n, Len(u))), byteMode))

Right(v, n, byteMode) ==
    CASE n < 0                -> Raise(InvalidCall)
      [] n >= 0 /\ IsNull(v)  -> Null
      [] OTHER -> LET u == Image(v.v, byteMode)
                  IN  Str(Back(SubSeq(u, Len(u) - Least(n, Len(u)) + 1, Len(u)), byteMode))

\* count is <<>> when it is left out.
Mid(v, start, count, byteMode) ==
    LET bad == start < 1 \/ (count # <<>> /\ count[1] < 0)
    IN  CASE bad               -> Raise(InvalidCall)
          [] ~bad /\ IsNull(v) -> Null
          [] OTHER -> LET u == Image(v.v, byteMode)
                          to == IF count = <<>> THEN Len(u)
                                ELSE Least(Len(u), start - 1 + count[1])
                      IN  Str(Back(SubSeq(u, start, to), byteMode))

----------------------------------------------------------------------------
(* Searching.  Text mode folds the case of a unit.                            *)

Upper(u) == IF u \in 97..122 THEN u - 32 ELSE u
EqUtf16(a, b, text) ==
    IF text THEN Len(a) = Len(b) /\ \A i \in DOMAIN a : Upper(a[i]) = Upper(b[i]) ELSE a = b

\* Whether n stands in h at i.
Matches(h, n, i, text) ==
    i + Len(n) - 1 <= Len(h) /\ EqUtf16(SubSeq(h, i, i + Len(n) - 1), n, text)

FindUtf16(h, from, n, text) ==
    LET at == {i \in from..(Len(h) - Len(n) + 1) : Matches(h, n, i, text)}
    IN  IF at = {} THEN 0 ELSE CHOOSE i \in at : \A j \in at : i <= j

InStr(start, hay, needle, compare) ==
    CASE IsNull(hay) \/ IsNull(needle) -> Null
      [] ~(IsNull(hay) \/ IsNull(needle)) /\ (start < 1 \/ compare \notin {0, 1}) ->
            Raise(InvalidCall)
      [] OTHER -> Num(CASE start > Len(hay.v) -> 0
                        [] start <= Len(hay.v) /\ needle.v = <<>> -> start
                        [] OTHER -> FindUtf16(hay.v, start, needle.v, compare = 1))

\* instrb doubles the positions of units.
InStrB(start, hay, needle, compare) ==
    LET r == InStr((start + 1) \div 2, hay, needle, compare)
    IN  IF r.vt = "number" /\ r.v > 0 THEN Num(2 * r.v - 1) ELSE r

InStrRev(hay, needle, start, compare) ==
    LET end == IF start = -1 THEN Len(hay.v) ELSE start
        at  == {i \in 1..(end - Len(needle.v) + 1) : Matches(hay.v, needle.v, i, compare = 1)}
    IN  CASE IsNull(hay) \/ IsNull(needle) -> Raise(InvalidUseOfNull)
          [] ~(IsNull(hay) \/ IsNull(needle))
               /\ (start = 0 \/ start < -1 \/ compare \notin {0, 1}) -> Raise(InvalidCall)
          [] OTHER -> Num(CASE end > Len(hay.v) -> 0
                            [] end <= Len(hay.v) /\ needle.v = <<>> -> end
                            [] OTHER -> IF at = {} THEN 0
                                        ELSE CHOOSE i \in at : \A j \in at : i >= j)

----------------------------------------------------------------------------
(* Trim, Space, StrReverse.                                                   *)

TrimOf(v, left, right) ==
    LET s == v.v
        kept == {i \in DOMAIN s : s[i] # 32}
        from == IF left THEN CHOOSE i \in kept : \A j \in kept : i <= j ELSE 1
        to   == IF right THEN CHOOSE i \in kept : \A j \in kept : i >= j ELSE Len(s)
    IN  CASE IsNull(v) -> Null
          [] ~IsNull(v) /\ kept = {} /\ (left \/ right) -> Str(<<>>)
          [] OTHER -> Str(SubSeq(s, from, to))

Space(n) == IF n < 0 THEN Raise(InvalidCall) ELSE Str([i \in 1..n |-> 32])

\* String: n times the first unit of a string, or a code's low byte.
StringFn(n, ch) ==
    CASE n < 0 -> Raise(InvalidCall)
      [] n >= 0 /\ IsNull(ch) -> Null
      [] n >= 0 /\ ch.vt = "str" ->
            IF ch.v = <<>> THEN Raise(InvalidCall) ELSE Str([i \in 1..n |-> ch.v[1]])
      [] n >= 0 /\ ch.vt = "number" ->
            IF ch.v \in -(2 ^ (UnitBits - 1))..(2 ^ UnitBits - 1)
            THEN Str([i \in 1..n |-> ch.v % ByteSize]) ELSE Raise(6)

StrReverse(v) == IF IsNull(v) THEN Raise(InvalidUseOfNull) ELSE Str(Reverse(v.v))

----------------------------------------------------------------------------
(* Replace, Split, Join and Filter.                                           *)

RECURSIVE ReplaceFrom(_, _, _, _, _, _)
ReplaceFrom(s, i, f, r, left, text) ==
    CASE i > Len(s) -> <<>>
      [] i <= Len(s) /\ left # 0 /\ Matches(s, f, i, text) ->
            r \o ReplaceFrom(s, i + Len(f), f, r, left - 1, text)
      [] OTHER -> <<s[i]>> \o ReplaceFrom(s, i + 1, f, r, left, text)

\* Replace drops what is before start; a count of -1 is no limit.
Replace(expr, find, repl, start, count, compare) ==
    CASE IsNull(expr) \/ IsNull(find) \/ IsNull(repl) -> Raise(InvalidUseOfNull)
      [] ~(IsNull(expr) \/ IsNull(find) \/ IsNull(repl))
           /\ (start < 1 \/ count < -1 \/ compare \notin {0, 1}) -> Raise(InvalidCall)
      [] OTHER -> Str(IF find.v = <<>> \/ count = 0 THEN SubSeq(expr.v, start, Len(expr.v))
                      ELSE ReplaceFrom(expr.v, start, find.v, repl.v, count, compare = 1))

RECURSIVE SplitFrom(_, _, _, _, _, _, _)
SplitFrom(s, i, from, d, count, text, out) ==
    CASE i > Len(s) -> Append(out, SubSeq(s, from, Len(s)))
      [] i <= Len(s) /\ Len(out) # count - 1 /\ Matches(s, d, i, text) ->
            SplitFrom(s, i + Len(d), i + Len(d), d, count, text,
                      Append(out, SubSeq(s, from, i - 1)))
      [] OTHER -> SplitFrom(s, i + 1, from, d, count, text, out)

\* Split: an empty string has no parts; no delimiter, one part.
Split(expr, delim, count, compare) ==
    CASE IsNull(expr) -> Raise(InvalidUseOfNull)
      [] ~IsNull(expr) /\ (count < -1 \/ compare \notin {0, 1}) -> Raise(InvalidCall)
      [] OTHER -> Val("array",
                      CASE count = 0 -> <<>>
                        [] count # 0 /\ delim.v = <<>> -> <<expr.v>>
                        [] count # 0 /\ delim.v # <<>> /\ expr.v = <<>> -> <<>>
                        [] OTHER -> SplitFrom(expr.v, 1, 1, delim.v, count, compare = 1, <<>>))

\* Join takes strings; a Null among them is a type mismatch.
RECURSIVE Joining(_, _)
Joining(parts, delim) ==
    CASE parts = <<>>   -> <<>>
      [] Len(parts) = 1 -> parts[1]
      [] OTHER          -> parts[1] \o delim \o Joining(Tail(parts), delim)
Join(items, delim) ==
    IF \E i \in DOMAIN items : IsNull(items[i]) THEN Raise(TypeMismatch)
    ELSE Str(Joining([i \in DOMAIN items |-> items[i].v], delim))

Filter(items, needle, include, compare) ==
    CASE compare \notin {0, 1} -> Raise(InvalidCall)
      [] compare \in {0, 1} /\ \E i \in DOMAIN items : IsNull(items[i]) ->
            Raise(InvalidUseOfNull)
      [] OTHER -> Val("array", SelectSeq(items, LAMBDA v :
                      (needle = <<>> \/ FindUtf16(v.v, 1, needle, compare = 1) # 0) = include))

----------------------------------------------------------------------------
(* Escape and Unescape.                                                       *)

Percent == 37
SmallU  == 117
HexUnit(d)  == IF d < 10 THEN 48 + d ELSE 55 + d
DigitOf(u)  == CASE u \in 48..57  -> u - 48
                 [] u \in 65..70  -> u - 55
                 [] u \in 97..102 -> u - 87
                 [] OTHER         -> 16
RECURSIVE HexText(_, _)
HexText(n, width) == IF width = 0 THEN <<>>
                     ELSE Append(HexText(n \div 16, width - 1), HexUnit(n % 16))
KeptUnits == (65..90) \cup (97..122) \cup (48..57) \cup {64, 42, 95, 43, 45, 46, 47}
EscapedUnit(u) ==
    CASE u \in KeptUnits               -> <<u>>
      [] u \notin KeptUnits /\ u < 256 -> <<Percent>> \o HexText(u, 2)
      [] OTHER                         -> <<Percent, SmallU>> \o HexText(u, 4)

RECURSIVE EscapeFrom(_)
EscapeFrom(s) == IF s = <<>> THEN <<>> ELSE EscapedUnit(s[1]) \o EscapeFrom(Tail(s))
Escape(v) == IF IsNull(v) THEN Raise(InvalidUseOfNull) ELSE Str(EscapeFrom(v.v))

\* hex4: the number of hexadecimal units, or -1.
RECURSIVE HexNumber(_)
HexNumber(us) == IF us = <<>> THEN 0 ELSE HexNumber(Front(us)) * 16 + DigitOf(Last(us))
Hex4(us) == IF \E i \in DOMAIN us : DigitOf(us[i]) = 16 THEN -1 ELSE HexNumber(us)

RECURSIVE UnescapeFrom(_, _)
UnescapeFrom(u, i) ==
    LET At(k)  == u[i + k]
        long   == i + 5 <= Len(u) /\ At(1) \in {SmallU, 85}
        four   == IF long THEN Hex4(SubSeq(u, i + 2, i + 5)) ELSE -1
        two    == IF i + 2 <= Len(u) THEN Hex4(SubSeq(u, i + 1, i + 2)) ELSE -1
    IN  CASE i > Len(u) -> <<>>
          [] i <= Len(u) /\ u[i] = Percent /\ four >= 0 -> <<four>> \o UnescapeFrom(u, i + 6)
          [] i <= Len(u) /\ u[i] = Percent /\ four < 0 /\ two >= 0 ->
                <<two>> \o UnescapeFrom(u, i + 3)
          [] OTHER -> <<u[i]>> \o UnescapeFrom(u, i + 1)
Unescape(v) == IF IsNull(v) THEN Raise(InvalidUseOfNull) ELSE Str(UnescapeFrom(v.v, 1))

AscB(v) == CASE IsNull(v) -> Raise(InvalidUseOfNull)
             [] ~IsNull(v) /\ v.v = <<>> -> Raise(InvalidCall)
             [] OTHER -> Num(BytesOf(v.v)[1])
ChrB(n) == IF n \in 0..(ByteSize - 1) THEN Str(FromBytes(<<n>>)) ELSE Raise(6)
===============================================================================
