-------------------------------- MODULE Values --------------------------------
(* The variant of the scripting language (src/client/src/value.rs), its       *)
(* operators (ops.rs), conversion functions (builtins/conv.rs) and locales    *)
(* (locale.rs).                                                               *)
(*                                                                            *)
(* A value is [vt, v]: its type and payload.  An operation gives a value or   *)
(* Raise(code), an error.  A real (Single, Double, Date) is a fraction [n, d] *)
(* of as many binary digits as its type has, and every operation of the code  *)
(* on f64 or f32 is the exact one, Rounded.  Infinity, the largest Double and *)
(* the reals too small for all their digits are left out.  A Currency is a    *)
(* whole number of 1/CyScale.  A string is a sequence of characters, all      *)
(* lower case as in Lexer.                                                    *)
EXTENDS Lexer

LOCAL INSTANCE Bitwise

CONSTANTS
    ByteBits,          \* width of Byte, 8 in the code
    CyBits,            \* width of Currency, 64 in the code
    CyScale,           \* units of Currency in a whole, 10000 in the code
    SingleBits, DoubleBits,   \* binary digits of a real, 24 and 53 in the code
    SingleMax,         \* largest Single; beyond it a result is a Double
    DateMin, DateMax,  \* bounds of a Date, -657434 and 2958466 in the code
    SinglePrecision, DoublePrecision,   \* digits printed, 7 and 15 in the code
    Lcid               \* the locale that is set

Val(vt, v)  == [vt |-> vt, v |-> v]
Raise(code) == Val("raise", code)
Raised(v)   == v.vt = "raise"
Use(v, F(_)) == IF Raised(v) THEN v ELSE F(v)

Empty   == Val("empty", 0)
Null    == Val("null", 0)
Bool(b) == Val("bool", b)
Str(s)  == Val("str", s)
IsNull(v) == v.vt = "null"

InvalidCall == 5
Overflow == 6
DivZero == 11
TypeMismatch == 13
InvalidUseOfNull == 94
ObjectNoValue == 438
Unsupported == 458

----------------------------------------------------------------------------
(* Fractions.                                                                 *)

AbsOf(n) == IF n < 0 THEN -n ELSE n
RECURSIVE Gcd(_, _)
Gcd(a, b) == IF b = 0 THEN a ELSE Gcd(b, a % b)
Rat(n, d) == LET g == Gcd(AbsOf(n), d) IN [n |-> n \div g, d |-> d \div g]
Whole(n)  == [n |-> n, d |-> 1]

Less(x, y)  == LET g == Gcd(x.d, y.d) IN x.n * (y.d \div g) < y.n * (x.d \div g)
Plus(x, y)  == LET g == Gcd(x.d, y.d)
               IN  Rat(x.n * (y.d \div g) + y.n * (x.d \div g), (x.d \div g) * y.d)
Neg(x)      == [x EXCEPT !.n = -@]
Minus(x, y) == Plus(x, Neg(y))
Times(x, y) == LET g == Gcd(AbsOf(x.n), y.d)
                   h == Gcd(AbsOf(y.n), x.d)
               IN  [n |-> (x.n \div g) * (y.n \div h), d |-> (x.d \div h) * (y.d \div g)]
Over(x, y)  == Times(x, IF y.n > 0 THEN [n |-> y.d, d |-> y.n] ELSE [n |-> -y.d, d |-> -y.n])
Magnitude(x) == [x EXCEPT !.n = AbsOf(@)]
PowerOf(b, e) == IF e >= 0 THEN Whole(b ^ e) ELSE [n |-> 1, d |-> b ^ (-e)]
Power10(e)  == PowerOf(10, e)
Within(x, lo, hi) == lo * x.d <= x.n /\ x.n <= hi * x.d

FloorOf(x) == x.n \div x.d
Truncated(x) == IF x.n < 0 THEN -((-x.n) \div x.d) ELSE x.n \div x.d
RoundHalfEven(x) ==
    LET f == FloorOf(x)
        over == 2 * (x.n - f * x.d)
    IN  CASE over < x.d -> f
          [] over > x.d -> f + 1
          [] OTHER      -> IF f % 2 = 0 THEN f ELSE f + 1

\* The power of two that begins where |x| does: 2^e <= |x| < 2^(e + 1).
Exponent(x) ==
    LET n == AbsOf(x.n)
        whole == n \div x.d
        parts == -((-x.d) \div n)
    IN  IF n >= x.d THEN CHOOSE e \in 0..30 : whole \div 2 ^ e = 1
        ELSE -(CHOOSE e \in 1..30 : 2 ^ e >= parts /\ 2 ^ (e - 1) < parts)
\* The nearest real of so many binary digits, half to even (IEEE 754).
Rounded(x, bits) ==
    LET unit == PowerOf(2, Exponent(x) - bits + 1)
    IN  IF x.n = 0 THEN x ELSE Times(Whole(RoundHalfEven(Over(x, unit))), unit)
AsF64(x) == Rounded(x, DoubleBits)
AsF32(x) == Rounded(x, SingleBits)
IsFinite(f) == Within(f, -SingleMax, SingleMax)

----------------------------------------------------------------------------
(* Locales: how numbers and dates are written.                                *)

ForLcid(lcid) ==
    CASE lcid \in {1031, 1036, 1040, 3082, 1043, 2070, 1045, 1053} ->
            [decimal |-> ",", thousands |-> IF lcid = 1036 THEN " " ELSE ".", order |-> "dmy"]
      [] lcid = 2057 -> [decimal |-> ".", thousands |-> ",", order |-> "dmy"]
      [] OTHER       -> [decimal |-> ".", thousands |-> ",", order |-> "mdy"]
Conventions == ForLcid(Lcid)

LocalizeNumber(s) ==
    [i \in DOMAIN s |-> CASE s[i] = "." -> Conventions.decimal
                          [] s[i] = "," -> Conventions.thousands
                          [] OTHER      -> s[i]]

----------------------------------------------------------------------------
(* Text of a number: C's %.*G, then the locale's marks.                       *)

DigitRow == <<"0", "1", "2", "3", "4", "5", "6", "7", "8", "9">>
RECURSIVE DigitsOf(_)
DigitsOf(n) == IF n < 10 THEN <<DigitRow[n + 1]>>
               ELSE Append(DigitsOf(n \div 10), DigitRow[(n % 10) + 1])
IsPrefixOf(a, s) == Len(a) <= Len(s) /\ SubSeq(s, 1, Len(a)) = a
IntText(n) == IF n < 0 THEN <<"-">> \o DigitsOf(-n) ELSE DigitsOf(n)
Padded(n, width) ==
    LET ds == DigitsOf(n)
    IN  IF Len(ds) >= width THEN ds ELSE [i \in 1..(width - Len(ds)) |-> "0"] \o ds

TrimmedEnd(s, c) ==
    SubSeq(s, 1, CHOOSE n \in 0..Len(s) :
                     (n = 0 \/ s[n] # c) /\ \A i \in (n + 1)..Len(s) : s[i] = c)
TrimAll(s) == TrimmedEnd(TrimmedEnd(s, "0"), ".")        \* mutant: of a whole number too
TrimFraction(s) ==
    IF "." \notin {s[i] : i \in DOMAIN s} THEN s ELSE TrimmedEnd(TrimmedEnd(s, "0"), ".")

\* n units of 10^-decimals, with a point.
Fixed(n, decimals) ==
    LET ds == Padded(n, decimals + 1)
        k  == Len(ds) - decimals
    IN  IF decimals = 0 THEN ds ELSE SubSeq(ds, 1, k) \o <<".">> \o SubSeq(ds, k + 1, Len(ds))

\* format_g: the exponent is the one after rounding to prec digits.
FormatG(x, prec) ==
    LET a == Magnitude(x)
        low == CHOOSE e \in IF a.n < a.d THEN -(MaxExponent + 1)..-1 ELSE 0..MaxExponent :
                   ~Less(a, Power10(e)) /\ Less(a, Power10(e + 1))
        sig == RoundHalfEven(Times(a, Power10(prec - 1 - low)))
        exp == IF sig = 10 ^ prec THEN low + 1 ELSE low
        mantissa == IF sig = 10 ^ prec THEN 10 ^ (prec - 1) ELSE sig
        text == IF exp < -4 \/ exp >= prec
                THEN TrimFraction(Fixed(mantissa, prec - 1))
                         \o <<"e", IF exp < 0 THEN "-" ELSE "+">> \o Padded(AbsOf(exp), 2)
                ELSE TrimFraction(Fixed(mantissa, prec - 1 - exp))
    IN  CASE x.n = 0 -> <<"0">>
          [] x.n < 0 -> <<"-">> \o text
          [] OTHER   -> text

FormatR8(x) == LocalizeNumber(FormatG(x, DoublePrecision))
FormatR4(x) == LocalizeNumber(FormatG(x, SinglePrecision))

CyPlaces == CHOOSE k \in 0..9 : 10 ^ k = CyScale
\* format_currency_plain: up to four decimals, no thousands marks.
FormatCurrencyPlain(c) ==
    LET frac == AbsOf(c) % CyScale
    IN  (IF c < 0 THEN <<"-">> ELSE <<>>) \o DigitsOf(AbsOf(c) \div CyScale)
        \o (IF frac = 0 THEN <<>>
            ELSE <<Conventions.decimal>> \o TrimmedEnd(Padded(frac, CyPlaces), "0"))

----------------------------------------------------------------------------
(* The number in a text: parse_number.                                        *)

NoNumber == Raise(TypeMismatch)
Real(x)  == Val("r8", x)
SpaceChars == Blank \cup {"\n"}
Trimmed(s) ==
    LET from == SpanEnd(s, 1, SpaceChars)
        to   == CHOOSE n \in 0..Len(s) : (n = 0 \/ s[n] \notin SpaceChars)
                                         /\ \A i \in (n + 1)..Len(s) : s[i] \in SpaceChars
    IN  SubSeq(s, from, to)

\* &H and &O: the digits that lead, as a Long; what follows them is dropped.
ParseBased(s) ==
    LET hex == s[2] = "h"
        q == SpanEnd(s, 3, IF hex THEN HexDigit ELSE OctDigit)
        n == NumberOf(SubSeq(s, 3, q - 1), IF hex THEN 16 ELSE 8)
    IN  IF q = 3 \/ n >= 2 ^ WideBits THEN NoNumber ELSE Real(Whole(Signed(n, LongBits)))

\* Digits, a fraction, an exponent when digits follow it, and blanks: the
\* nearest Double.
ParseDecimal(t) ==
    LET s == [i \in DOMAIN t |-> IF t[i] = Conventions.decimal THEN "." ELSE t[i]]
        d == SpanEnd(s, 1, Digit)
        f == IF CharAt(s, d) = "." THEN SpanEnd(s, d + 1, Digit) ELSE d
        x == IF CharAt(s, f + 1) \in {"+", "-"} THEN f + 2 ELSE f + 1
        power == CharAt(s, f) = "e" /\ CharAt(s, x) \in Digit
        q == IF power THEN SpanEnd(s, x, Digit) ELSE f
        e == IF power THEN NumberOf(SubSeq(s, x, q - 1), 10) ELSE 0
        exp == IF CharAt(s, f + 1) = "-" THEN -e ELSE e
        places == IF f > d THEN f - d - 1 ELSE 0
        digits == SubSeq(s, 1, d - 1) \o SubSeq(s, d + 1, f - 1)
    IN  IF f = 1 \/ (f = 2 /\ d = 1) \/ SpanEnd(s, q, SpaceChars) # Len(s) + 1 THEN NoNumber
        ELSE Real(AsF64(Times(Whole(NumberOf(digits, 10)), Power10(exp - places))))

ParseNumber(text) ==
    LET t == Trimmed(text)
        signed == CharAt(t, 1) \in {"-", "+"}
        rest == IF signed THEN Trimmed(Tail(t)) ELSE t
        r == IF CharAt(rest, 1) = "&" /\ CharAt(rest, 2) \in {"h", "o"}
             THEN ParseBased(rest) ELSE ParseDecimal(rest)
    IN  IF CharAt(t, 1) = "-" THEN Use(r, LAMBDA x : Real(Neg(x.v))) ELSE r

----------------------------------------------------------------------------
(* Conversions of a value.                                                    *)

\* to_f64: a Currency is converted, then divided, and rounded by both.
CyToF64(units) == AsF64(Over(AsF64(Whole(units)), Whole(CyScale)))
ToF64(v) ==
    CASE v.vt = "empty" -> Real(Whole(0))
      [] v.vt = "bool"  -> Real(Whole(IF v.v THEN -1 ELSE 0))
      [] v.vt \in {"ui1", "i2", "i4", "errcode"} -> Real(Whole(v.v))
      [] v.vt \in {"r4", "r8", "date"} -> Real(v.v)
      [] v.vt = "cy"    -> Real(CyToF64(v.v))
      [] v.vt = "str"   -> ParseNumber(v.v)
      [] v.vt = "null"  -> Raise(InvalidUseOfNull)
      [] v.vt = "obj"   -> Raise(ObjectNoValue)
      [] v.vt = "array" -> Raise(TypeMismatch)
      [] OTHER          -> Raise(Unsupported)

\* to_vb_string, of every type but Date (see Calendar).
ToVbString(v) ==
    CASE v.vt = "str"   -> v
      [] v.vt = "empty" -> Str(<<>>)
      [] v.vt = "bool"  -> Str(IF v.v THEN <<"t", "r", "u", "e">>
                                      ELSE <<"f", "a", "l", "s", "e">>)
      [] v.vt \in {"ui1", "i2", "i4"} -> Str(IntText(v.v))
      [] v.vt = "r4"    -> Str(FormatR4(v.v))
      [] v.vt = "r8"    -> Str(FormatR8(v.v))
      [] v.vt = "cy"    -> Str(FormatCurrencyPlain(v.v))
      [] v.vt = "errcode" -> Str(<<"e", "r", "r", "o", "r", " ">> \o IntText(v.v))
      [] v.vt = "null"  -> Raise(InvalidUseOfNull)
      [] v.vt = "obj"   -> Raise(ObjectNoValue)
      [] v.vt = "array" -> Raise(TypeMismatch)
      [] OTHER          -> Raise(Unsupported)

\* to_bool: a string may also be the word, bare or between number signs.
BoolWord(s) ==
    LET t == Trimmed(s)
        n == Len(t)
        bare == IF n >= 2 /\ t[1] = "#" /\ t[n] = "#" THEN SubSeq(t, 2, n - 1) ELSE t
    IN  CASE bare = <<"t", "r", "u", "e">>      -> "true"
          [] bare = <<"f", "a", "l", "s", "e">> -> "false"
          [] OTHER                              -> "none"
ToBool(v) ==
    CASE v.vt = "bool" -> v
      [] v.vt = "str" /\ BoolWord(v.v) # "none" -> Bool(BoolWord(v.v) = "true")
      [] OTHER -> Use(ToF64(v), LAMBDA x : Bool(x.v.n # 0))

FromI32Narrow(n) == Val(IF Fits(n, ShortBits) THEN "i2" ELSE "i4", n)

----------------------------------------------------------------------------
(* Arithmetic.  The result's type follows the operands' types, and a result   *)
(* that does not fit takes a wider one.                                       *)

Ranks == <<"ui1", "i2", "i4", "r4", "r8", "cy", "date">>
Rank(t) == CHOOSE i \in DOMAIN Ranks : Ranks[i] = t

\* numeric_or_str: the type a value takes part as, or an error.
NumType(v) ==
    CASE v.vt \in {"empty", "bool"} -> "i2"
      [] v.vt = "errcode" -> "i4"
      [] v.vt = "str"     -> "r8"
      [] OTHER            -> v.vt
NumTypeError(v) ==
    CASE v.vt = "str"   -> ParseNumber(v.v)
      [] v.vt = "obj"   -> Raise(ObjectNoValue)
      [] v.vt \in {"array", "null"} -> Raise(TypeMismatch)
      [] v.vt = "unsupported"       -> Raise(Unsupported)
      [] OTHER          -> v

Promote(a, b) ==
    CASE "date" \in {a, b} -> "date"
      [] a = "cy" /\ b = "cy" -> "cy"
      [] "cy" \in {a, b} -> IF {a, b} \cap {"r4", "r8"} # {} THEN "r8" ELSE "cy"
      [] {a, b} = {"i4", "r4"} -> "r8"
      [] OTHER -> IF Rank(a) >= Rank(b) THEN a ELSE b

MinOf(a, b) == IF a < b THEN a ELSE b
CyLimit == 2 ^ (CyBits - 1)
\* The cast of an f64 to an i64 stops at the ends.
Saturated(n) == IF n < -CyLimit THEN -CyLimit ELSE MinOf(n, CyLimit - 1)
Scaled(x) == RoundHalfEven(AsF64(Times(x, Whole(CyScale))))

\* make_num of an f64.
MakeNum(t, x) ==
    LET cy == Scaled(x)
        single == AsF32(x)
    IN  CASE t = "ui1" /\ Within(x, 0, 2 ^ ByteBits - 1) -> Val("ui1", RoundHalfEven(x))
          [] t \in {"ui1", "i2"} /\ ~(t = "ui1" /\ Within(x, 0, 2 ^ ByteBits - 1))
               /\ Within(x, -(2 ^ (ShortBits - 1)), 2 ^ (ShortBits - 1) - 1) ->
                Val("i2", Truncated(x))
          [] t = "cy" -> IF AbsOf(cy) > CyLimit THEN Raise(Overflow)
                         ELSE Val("cy", Saturated(cy))
          [] t = "date" -> IF ~Less(x, Whole(DateMin)) /\ Less(x, Whole(DateMax))
                           THEN Val("date", x) ELSE Raise(Overflow)
          [] t = "r8" -> Real(x)
          [] t = "r4" -> IF IsFinite(single) THEN Val("r4", single) ELSE Real(x)
          [] OTHER -> IF Within(x, -(2 ^ (LongBits - 1)), 2 ^ (LongBits - 1) - 1)
                      THEN Val("i4", Truncated(x)) ELSE Real(x)

\* mutant: two Currencies are added as f64, as all else is
ArithOnF64(op, a, b) ==
    LET ta == NumType(a)
        tb == NumType(b)
        t  == IF op = "*" /\ Promote(ta, tb) = "date" THEN "r8"
              ELSE IF op = "-" /\ ta = "date" /\ tb = "date" THEN "r8"
              ELSE Promote(ta, tb)
    IN  IF IsNull(a) \/ IsNull(b) THEN Null
        ELSE Use(NumTypeError(a), LAMBDA ea : Use(NumTypeError(b), LAMBDA eb :
             LET x == ToF64(a).v
                 y == ToF64(b).v
             IN  MakeNum(t, AsF64(CASE op = "+" -> Plus(x, y) [] op = "-" -> Minus(x, y)
                                    [] op = "*" -> Times(x, y)))))
\* arith: op is +, - or *.  Two Currencies add as integers (cy_exact); the
\* rest is done on f64.
Arith(op, a, b) ==
    LET ta == NumType(a)
        tb == NumType(b)
        t  == IF op = "*" /\ Promote(ta, tb) = "date" THEN "r8"
              ELSE IF op = "-" /\ ta = "date" /\ tb = "date" THEN "r8"
              ELSE Promote(ta, tb)
        exact == IF op = "+" THEN a.v + b.v ELSE a.v - b.v
    IN  IF IsNull(a) \/ IsNull(b) THEN Null
        ELSE Use(NumTypeError(a), LAMBDA ea : Use(NumTypeError(b), LAMBDA eb :
             IF a.vt = "cy" /\ b.vt = "cy" /\ op # "*"
             THEN IF Fits(exact, CyBits) THEN Val("cy", exact) ELSE Raise(Overflow)
             ELSE LET x == ToF64(a).v
                      y == ToF64(b).v
                  IN  MakeNum(t, AsF64(CASE op = "+" -> Plus(x, y) [] op = "-" -> Minus(x, y)
                                         [] op = "*" -> Times(x, y)))))

\* & takes Null for an empty string unless both are.
Concat(a, b) ==
    LET Text(v) == IF IsNull(v) THEN Str(<<>>) ELSE ToVbString(v)
    IN  IF IsNull(a) /\ IsNull(b) THEN Null
        ELSE Use(Text(a), LAMBDA x : Use(Text(b), LAMBDA y : Str(x.v \o y.v)))

\* + joins two strings, or a string and Empty, and adds otherwise.
Add(a, b) ==
    IF IsNull(a) \/ IsNull(b) THEN Null
    ELSE IF "str" \in {a.vt, b.vt} /\ {a.vt, b.vt} \subseteq {"str", "empty"} THEN Concat(a, b)
    ELSE Arith("+", a, b)

Divide(a, b) ==
    IF IsNull(a) \/ IsNull(b) THEN Null
    ELSE Use(ToF64(a), LAMBDA x : Use(ToF64(b), LAMBDA y :
         IF y.v.n = 0 THEN Raise(DivZero)
         ELSE MakeNum(IF NumType(a) = "r4" /\ NumType(b) = "r4" THEN "r4" ELSE "r8",
                      AsF64(Over(x.v, y.v)))))

\* to_i32_rounded: the Long the bitwise and whole-number operators work on.
ToI32Rounded(v) ==
    Use(ToF64(v), LAMBDA x :
        IF Fits(RoundHalfEven(x.v), LongBits) THEN Val("i4", RoundHalfEven(x.v))
        ELSE Raise(Overflow))

\* \ and Mod truncate toward zero; they stay Integer when both sides are.
WholeQuotient(a, b) == LET q == AbsOf(a) \div AbsOf(b) IN IF (a < 0) = (b < 0) THEN q ELSE -q
IntOp(mod, a, b) ==
    LET Small(v) == NumType(v) \in {"ui1", "i2"}
    IN  IF IsNull(a) \/ IsNull(b) THEN Null
        ELSE Use(ToI32Rounded(a), LAMBDA x : Use(ToI32Rounded(b), LAMBDA y :
             LET q == WholeQuotient(x.v, y.v)
                 r == IF mod THEN x.v - q * y.v ELSE q
             IN  CASE y.v = 0 -> Raise(DivZero)
                   [] y.v # 0 /\ Small(a) /\ Small(b) /\ Fits(r, ShortBits) -> Val("i2", r)
                   [] y.v # 0 /\ ~(Small(a) /\ Small(b) /\ Fits(r, ShortBits)) ->
                        IF Fits(r, LongBits) THEN Val("i4", r) ELSE Raise(Overflow)))

Negate(a) ==
    CASE IsNull(a)      -> Null
      [] a.vt = "cy"    -> IF Fits(-a.v, CyBits) THEN Val("cy", -a.v) ELSE Raise(Overflow)
      [] a.vt = "empty" -> Val("i2", 0)
      [] OTHER -> Use(NumTypeError(a), LAMBDA e :
                      MakeNum(IF NumType(a) = "date" THEN "r8" ELSE NumType(a),
                              Neg(ToF64(a).v)))

----------------------------------------------------------------------------
(* The logical operators, on the bits of the wider operand's type.            *)

LogRank == <<"ui1", "bool", "i2", "i4">>
LogType(v) == IF v.vt \in {"ui1", "bool", "i2"} THEN v.vt ELSE "i4"
Wider(s, t) ==
    LET R(u) == CHOOSE i \in 1..4 : LogRank[i] = u IN IF R(s) >= R(t) THEN s ELSE t
LogWidth(t) == CASE t = "ui1" -> ByteBits [] t \in {"bool", "i2"} -> ShortBits
                 [] t = "i4" -> LongBits
LogMask(t) == 2 ^ LogWidth(t) - 1

MakeLog(t, bits) ==
    LET m == bits % (2 ^ LogWidth(t))
    IN  CASE t = "ui1"  -> Val("ui1", m)
          [] t = "bool" -> Bool(m # 0)
          [] OTHER      -> Val(t, Signed(m, LogWidth(t)))

\* A string that is no number may still be a Boolean word.
LogBits(v, t) ==
    LET n == ToI32Rounded(v)
    IN  IF ~Raised(n) THEN Val("i4", n.v % (2 ^ LogWidth(t)))
        ELSE IF v.vt = "str"
        THEN Use(ToBool(v), LAMBDA b : Val("i4", IF b.v THEN LogMask(t) ELSE 0))
        ELSE n

\* One side Null: the result is known when the other side forces every bit.
LogicalNull(op, known, nullOnRight) ==
    LET t == LogType(known)
        all == LogMask(t)
    IN  Use(LogBits(known, t), LAMBDA k :
            CASE op = "and" /\ k.v = 0 -> MakeLog(t, 0)
              [] op = "or" /\ k.v = all -> MakeLog(t, all)
              [] op = "imp" /\ nullOnRight /\ t = "ui1" -> MakeLog(t, all - k.v)
              [] op = "imp" /\ nullOnRight /\ t # "ui1" /\ k.v = 0 -> MakeLog(t, all)
              [] op = "imp" /\ ~nullOnRight /\ k.v = all -> MakeLog(t, all)
              [] OTHER -> Null)

Logical(op, a, b) ==
    LET t == Wider(LogType(a), LogType(b))
        all == LogMask(t)
    IN  CASE IsNull(a) /\ IsNull(b)  -> Null
          [] ~IsNull(a) /\ IsNull(b) -> LogicalNull(op, a, TRUE)
          [] IsNull(a) /\ ~IsNull(b) -> LogicalNull(op, b, FALSE)
          [] OTHER -> Use(LogBits(a, t), LAMBDA x : Use(LogBits(b, t), LAMBDA y :
                 MakeLog(t, CASE op = "and" -> x.v & y.v
                              [] op = "or"  -> x.v | y.v
                              [] op = "xor" -> x.v ^^ y.v
                              [] op = "eqv" -> all - (x.v ^^ y.v)
                              [] op = "imp" -> (all - x.v) | y.v)))

LogicalNot(a) ==
    LET t == LogType(a)
    IN  IF IsNull(a) THEN Null ELSE Use(LogBits(a, t), LAMBDA k : MakeLog(t, LogMask(t) - k.v))

----------------------------------------------------------------------------
(* Comparison.  A string beside a number is compared as one of four things,   *)
(* by which side was a literal of the source and the number's type.           *)

\* The characters in the order of their codes.
CodeOrder == <<"\t", "\n", "\r", " ", "\"", "#", "$", "%", "&", "'", "(", ")", "*", "+", ",",
               "-", ".", "/", "0", "1", "2", "3", "4", "5", "6", "7", "8", "9", ":", "<", "=",
               ">", "\\", "^", "_", "a", "b", "c", "d", "e", "f", "g", "h", "i", "j", "k", "l",
               "m", "n", "o", "p", "q", "r", "s", "t", "u", "v", "w", "x", "y", "z">>
Code(c) == CHOOSE i \in DOMAIN CodeOrder : CodeOrder[i] = c

Sign(n) == IF n < 0 THEN -1 ELSE IF n > 0 THEN 1 ELSE 0
CompareStr(x, y) ==
    LET n == MinOf(Len(x), Len(y))
        diff == {i \in 1..n : x[i] # y[i]}
        first == CHOOSE i \in diff : \A j \in diff : i <= j
    IN  IF diff = {} THEN Sign(Len(x) - Len(y)) ELSE Sign(Code(x[first]) - Code(y[first]))

\* Beside a Single both are compared as Singles, the infinite ones alike.
AsComparedSingle(x) ==
    LET f == AsF32(x) IN IF IsFinite(f) THEN f ELSE Whole(Sign(f.n) * (SingleMax + 1))
Order(x, y) == CASE Less(x, y) -> -1 [] x = y -> 0 [] OTHER -> 1

\* compare: -1, 0 or 1 as an ordering, Null, or an error.
Ordering(n) == Val("ordering", n)
Compare(a, b, litA, litB) ==
    LET strA == a.vt = "str"
        strB == b.vt = "str"
        num  == IF strA THEN b ELSE a
        numLit == IF strA THEN litB ELSE litA
        strLit == IF strA THEN litA ELSE litB
        AsText == Use(ToVbString(a), LAMBDA x : Use(ToVbString(b), LAMBDA y :
                      Ordering(CompareStr(x.v, y.v))))
    IN  CASE "array" \in {a.vt, b.vt}       -> Raise(TypeMismatch)
          [] "array" \notin {a.vt, b.vt} /\ "unsupported" \in {a.vt, b.vt} -> Raise(Unsupported)
          [] {"array", "unsupported"} \cap {a.vt, b.vt} = {} ->
             IF IsNull(a) \/ IsNull(b) THEN Null
             ELSE IF {a.vt, b.vt} \subseteq {"str", "empty"} THEN AsText
             ELSE IF (strA \/ strB) /\ ~numLit /\ ~strLit THEN Ordering(IF strA THEN 1 ELSE -1)
             ELSE IF (strA \/ strB) /\ (~numLit \/ num.vt \in {"bool", "ui1", "cy"}) THEN AsText
             ELSE Use(ToF64(a), LAMBDA x : Use(ToF64(b), LAMBDA y :
                      Ordering(IF "r4" \in {a.vt, b.vt}
                               THEN Order(AsComparedSingle(x.v), AsComparedSingle(y.v))
                               ELSE Order(x.v, y.v))))

CompareOp(op, a, b, litA, litB) ==
    LET c == Compare(a, b, litA, litB)
    IN  IF c.vt # "ordering" THEN c
        ELSE Bool(CASE op = "=" -> c.v = 0 [] op = "<>" -> c.v # 0
                    [] op = "<" -> c.v = -1 [] op = "<=" -> c.v # 1
                    [] op = ">" -> c.v = 1 [] op = ">=" -> c.v # -1)

----------------------------------------------------------------------------
(* The conversion functions.                                                  *)

\* CInt, CLng and CByte round half to even and never wrap.
Narrowed(v, vt, lo, hi) ==
    Use(ToF64(v), LAMBDA x :
        LET r == RoundHalfEven(x.v) IN IF r \in lo..hi THEN Val(vt, r) ELSE Raise(Overflow))
CInt(v)  == Narrowed(v, "i2", -(2 ^ (ShortBits - 1)), 2 ^ (ShortBits - 1) - 1)
CLng(v)  == Narrowed(v, "i4", -(2 ^ (LongBits - 1)), 2 ^ (LongBits - 1) - 1)
CByte(v) == IF v.vt = "bool" THEN Val("ui1", IF v.v THEN 2 ^ ByteBits - 1 ELSE 0)
            ELSE Narrowed(v, "ui1", 0, 2 ^ ByteBits - 1)
CBool(v) == ToBool(v)
CSng(v)  == Use(ToF64(v), LAMBDA x :
                IF IsFinite(AsF32(x.v)) THEN Val("r4", AsF32(x.v)) ELSE Raise(Overflow))
CDbl(v)  == ToF64(v)
\* CY_MAX is a Double, a little above the largest Currency.
CyMax    == AsF64(Rat(CyLimit, CyScale))
CCur(v)  == Use(ToF64(v), LAMBDA x :
                IF Less(CyMax, Magnitude(x.v)) THEN Raise(Overflow)
                ELSE Val("cy", Saturated(Scaled(x.v))))
CStr(v)  == ToVbString(v)

\* Int and Fix keep the operand's type.
SameTypeRound(v, F(_)) ==
    CASE v.vt = "null"  -> Null
      [] v.vt = "empty" -> Val("i2", 0)
      [] v.vt \in {"i2", "i4", "ui1"} -> v
      [] v.vt = "bool"  -> Val("i2", IF v.v THEN -1 ELSE 0)
      [] v.vt \in {"r8", "date"} -> Val(v.vt, Whole(F(v.v)))
      [] v.vt = "r4"    -> Val("r4", AsF32(Whole(F(v.v))))
      [] v.vt = "cy"    -> Val("cy", Saturated(Truncated(
                                         AsF64(Whole(F(CyToF64(v.v)) * CyScale)))))
      [] v.vt = "str"   -> Use(ParseNumber(v.v), LAMBDA x : Real(Whole(F(x.v))))
      [] OTHER          -> Raise(TypeMismatch)
IntOf(v) == SameTypeRound(v, FloorOf)
FixOf(v) == SameTypeRound(v, Truncated)

\* Round: a Currency to its own decimals at most.
ToPlaces(x, digits) ==
    LET scale == AsF64(Power10(digits))
    IN  AsF64(Over(Whole(RoundHalfEven(AsF64(Times(x, scale)))), scale))
Round(v, digits) ==
    CASE IsNull(v) -> Null
      [] ~IsNull(v) /\ digits \notin 0..20 -> Raise(InvalidCall)
      [] v.vt \in {"i2", "i4", "ui1", "empty", "bool"} /\ digits \in 0..20 -> v
      [] v.vt = "cy" /\ digits \in 0..20 ->
            Val("cy", Saturated(Scaled(ToPlaces(CyToF64(v.v), MinOf(digits, CyPlaces)))))
      [] OTHER -> Use(ToF64(v), LAMBDA x :
                      LET r == ToPlaces(x.v, digits)
                      IN  IF v.vt = "r4" THEN Val("r4", AsF32(r)) ELSE Real(r))

Sgn(v) == Use(ToF64(v), LAMBDA x : Val("i2", Sign(x.v.n)))

\* Abs: the least Integer becomes a Long, the least Long a Double.
Abs(v) ==
    CASE v.vt = "null"  -> Null
      [] v.vt = "empty" -> Val("i2", 0)
      [] v.vt = "ui1"   -> v
      [] v.vt = "bool"  -> Val("i2", IF v.v THEN 1 ELSE 0)
      [] v.vt = "i2"    -> Val(IF Fits(AbsOf(v.v), ShortBits) THEN "i2" ELSE "i4", AbsOf(v.v))
      [] v.vt = "i4"    -> IF Fits(AbsOf(v.v), LongBits) THEN Val("i4", AbsOf(v.v))
                                                          ELSE Real(Whole(AbsOf(v.v)))
      [] v.vt \in {"r4", "r8", "date"} -> Val(v.vt, Magnitude(v.v))
      [] v.vt = "cy"    -> IF Fits(AbsOf(v.v), CyBits) THEN Val("cy", AbsOf(v.v))
                                                        ELSE Raise(Overflow)
      [] v.vt = "str"   -> Use(ParseNumber(v.v), LAMBDA x : Real(Magnitude(x.v)))
      [] OTHER          -> Raise(TypeMismatch)

\* Hex and Oct: an Integer's width when value and type are one, a Long's else.
RECURSIVE InRadix(_, _)
InRadix(n, radix) ==
    LET c == CHOOSE d \in HexDigit : DigitValue[d] = n % radix
    IN  IF n < radix THEN <<c>> ELSE Append(InRadix(n \div radix, radix), c)
RadixText(v, radix) ==
    CASE IsNull(v)      -> Null
      [] v.vt = "empty" -> Str(<<"0">>)
      [] OTHER -> Use(ToI32Rounded(v), LAMBDA n :
                      LET wide == v.vt \notin {"i2", "ui1", "bool"} \/ ~Fits(n.v, ShortBits)
                      IN  Str(InRadix(n.v % (2 ^ (IF wide THEN LongBits ELSE ShortBits)), radix)))
Hex(v) == RadixText(v, 16)
Oct(v) == RadixText(v, 8)

----------------------------------------------------------------------------
(* FormatNumber, FormatCurrency and FormatPercent (builtins/format.rs).       *)

UseDefault == -2
IsFlag(n) == n \in {UseDefault, 0, -1}
Flag(n, default) == IF n = UseDefault THEN default ELSE n = -1

\* fixed: the digits are put together with . and , and then localized.
Grouped(ds) ==
    LET Mark(i) == i > 1 /\ (Len(ds) - i + 1) % 3 = 0
        f[i \in 0..Len(ds)] == IF i = 0 THEN <<>>
                               ELSE f[i - 1] \o (IF Mark(i) THEN <<",", ds[i]>> ELSE <<ds[i]>>)
    IN  f[Len(ds)]
FixedText(x, digits, group) ==
    LET units == RoundHalfEven(Times(ToPlaces(Magnitude(x), digits), Power10(digits)))
        s == Fixed(units, digits)
        k == Len(s) - (IF digits = 0 THEN 0 ELSE digits + 1)
        text == LocalizeNumber((IF group THEN Grouped(SubSeq(s, 1, k)) ELSE SubSeq(s, 1, k))
                                   \o SubSeq(s, k + 1, Len(s)))
    IN  IF x.n < 0 /\ units # 0 THEN <<"-">> \o text ELSE text

\* apply_leading drops a 0 alone before the point, apply_parens a minus sign.
ApplyLeading(s, leading) ==
    LET dec == Conventions.decimal
    IN  CASE leading -> s
          [] ~leading /\ IsPrefixOf(<<"0", dec>>, s) -> Tail(s)
          [] ~leading /\ IsPrefixOf(<<"-", "0", dec>>, s) -> <<"-">> \o SubSeq(s, 3, Len(s))
          [] OTHER -> s
ApplyParens(s, parens) ==
    IF parens /\ s # <<>> /\ s[1] = "-" THEN <<"(">> \o Tail(s) \o <<")">> ELSE s

\* The three differ in what is around the digits and when parentheses are used.
FormatOf(v, digits, leading, parens, group, Dress(_, _)) ==
    LET d == IF digits = UseDefault THEN 2 ELSE digits
    IN  IF IsNull(v) THEN Raise(TypeMismatch)
        ELSE Use(ToF64(v), LAMBDA x :
             IF d \notin 0..99 \/ ~(IsFlag(leading) /\ IsFlag(parens) /\ IsFlag(group))
             THEN Raise(InvalidCall)
             ELSE Str(Dress(ApplyLeading(FixedText(x.v, d, Flag(group, TRUE)),
                                         Flag(leading, TRUE)), parens)))
FormatNumber(v, digits, leading, parens, group) ==
    FormatOf(v, digits, leading, parens, group, LAMBDA s, p : ApplyParens(s, Flag(p, FALSE)))
FormatCurrency(v, digits, leading, parens, group) ==
    FormatOf(v, digits, leading, parens, group,
             LAMBDA s, p : ApplyParens(IF s[1] = "-" THEN <<"-", "$">> \o Tail(s)
                                       ELSE <<"$">> \o s, Flag(p, TRUE)))
FormatPercent(v, digits, leading, parens, group) ==
    FormatOf(IF Raised(ToF64(v)) THEN v ELSE Real(AsF64(Times(ToF64(v).v, Whole(100)))),
             digits, leading, parens, group,
             LAMBDA s, p : Append(ApplyParens(s, Flag(p, FALSE)), "%"))
===============================================================================
