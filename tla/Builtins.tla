------------------------------- MODULE Builtins -------------------------------
(* The built-in functions that need nothing but their arguments               *)
(* (src/client/src/builtins/mod.rs): which arguments each takes, in which     *)
(* order it rejects them, and the function of Values or Strings it comes to.  *)
(* Those that run script or make objects are in Interp; the clock, the random *)
(* numbers, the transcendental functions and the texts of dates are left out. *)
EXTENDS Values

S == INSTANCE Strings WITH UnitBits <- 16

WrongArgCount == 450
Subscript == 9
LocaleError == 447

----------------------------------------------------------------------------
(* Args: positional arguments, Missing where one is elided.                   *)

Missing == Val("missing", 0)
Given(a, i) == i <= Len(a) /\ a[i].vt # "missing"
Req(a, i) == IF Given(a, i) THEN a[i] ELSE Raise(WrongArgCount)

\* int_or: an integer, or the default when the argument is not there.
IntOr(a, i, default) ==
    IF ~Given(a, i) THEN Val("number", default)
    ELSE IF IsNull(a[i]) THEN Raise(InvalidUseOfNull)
    ELSE Use(ToF64(a[i]), LAMBDA x :
             LET n == RoundHalfEven(x.v)
             IN  IF Fits(n, LongBits) THEN Val("number", n) ELSE Raise(Overflow))

With1(a, F(_)) == Use(Req(a, 1), F)
With2(a, F(_, _)) == Use(Req(a, 1), LAMBDA x : Use(Req(a, 2), LAMBDA y : F(x, y)))
WithInt(a, i, default, F(_)) == Use(IntOr(a, i, default), LAMBDA n : F(n.v))

----------------------------------------------------------------------------
(* The code units of a text, which the functions on strings work on.          *)

Units == <<9, 10, 13, 32, 34, 35, 36, 37, 38, 39, 40, 41, 42, 43, 44, 45, 46, 47, 48, 49, 50,
           51, 52, 53, 54, 55, 56, 57, 58, 60, 61, 62, 92, 94, 95>> \o [i \in 1..26 |-> 96 + i]
UnitsOf(s) == [i \in DOMAIN s |-> Units[Code(s[i])]]
CharsOf(u) == [i \in DOMAIN u |-> CodeOrder[CHOOSE k \in DOMAIN Units : Units[k] = u[i]]]

\* The value of a function of Strings as a value of a script.
FromStrings(r) == CASE r.vt = "str"    -> Str(CharsOf(r.v))
                    [] r.vt = "number" -> Val("i4", r.v)
                    [] OTHER           -> r

\* An argument of one: its text, or Null.
Subject(v, F(_)) == IF IsNull(v) THEN F(S!Null)
                    ELSE Use(ToVbString(v), LAMBDA t : F(S!Str(UnitsOf(t.v))))
OnText(v, F(_)) == Subject(v, LAMBDA s : FromStrings(F(s)))

----------------------------------------------------------------------------
(* Arrays.                                                                    *)

Array(dims, data, fixed) ==
    Val("array", [dims |-> dims, data |-> data, fixed |-> fixed, owned |-> FALSE])
FromValues(vs) == Array(<<Len(vs)>>, vs, FALSE)
IsSized(v) == v.v.dims # <<>>

\* array_items: the functions on lists take one dimension.
ArrayItems(v, F(_)) ==
    CASE v.vt # "array"                        -> Raise(TypeMismatch)
      [] v.vt = "array" /\ ~IsSized(v)         -> Raise(Subscript)
      [] v.vt = "array" /\ Len(v.v.dims) > 1   -> Raise(TypeMismatch)
      [] OTHER                                 -> F(v.v.data)

\* The texts of items, or the first error.
RECURSIVE TextsOf(_, _)
TextsOf(items, out) ==
    IF items = <<>> THEN Val("texts", out)
    ELSE IF IsNull(Head(items)) THEN TextsOf(Tail(items), Append(out, S!Null))
    ELSE Use(ToVbString(Head(items)), LAMBDA t :
             TextsOf(Tail(items), Append(out, S!Str(UnitsOf(t.v)))))

----------------------------------------------------------------------------
(* dispatch, by what the names are about.                                     *)

Conversions ==
    {"cbool", "cbyte", "ccur", "cdbl", "cint", "clng", "csng", "cstr", "int", "fix", "round",
     "sgn", "abs", "hex", "oct", "cverr", "formatnumber", "formatcurrency", "formatpercent"}
Converted(name, a) ==
    LET Formatted(F(_, _, _, _, _)) ==
            With1(a, LAMBDA v :
            WithInt(a, 2, UseDefault, LAMBDA digits : WithInt(a, 3, UseDefault, LAMBDA leading :
            WithInt(a, 4, UseDefault, LAMBDA parens : WithInt(a, 5, UseDefault, LAMBDA group :
                F(v, digits, leading, parens, group))))))
    IN  CASE name = "cbool" -> With1(a, CBool)
          [] name = "cbyte" -> With1(a, CByte)
          [] name = "ccur"  -> With1(a, CCur)
          [] name = "cdbl"  -> With1(a, CDbl)
          [] name = "cint"  -> With1(a, CInt)
          [] name = "clng"  -> With1(a, CLng)
          [] name = "csng"  -> With1(a, CSng)
          [] name = "cstr"  -> With1(a, CStr)
          [] name = "int"   -> With1(a, IntOf)
          [] name = "fix"   -> With1(a, FixOf)
          [] name = "sgn"   -> With1(a, Sgn)
          [] name = "abs"   -> With1(a, Abs)
          [] name = "hex"   -> With1(a, Hex)
          [] name = "oct"   -> With1(a, Oct)
          [] name = "round" -> With1(a, LAMBDA v : WithInt(a, 2, 0, LAMBDA n : Round(v, n)))
          [] name = "cverr" -> WithInt(a, 1, 0, LAMBDA n : Val("errcode", n))
          [] name = "formatnumber"   -> Formatted(FormatNumber)
          [] name = "formatcurrency" -> Formatted(FormatCurrency)
          [] name = "formatpercent"  -> Formatted(FormatPercent)

TextFunctions ==
    {"len", "lenb", "left", "leftb", "right", "rightb", "mid", "midb", "instr", "instrb",
     "instrrev", "lcase", "ucase", "ltrim", "rtrim", "trim", "space", "strcomp", "strreverse",
     "replace", "split", "join", "filter"}

\* Mid: the length is looked at before the start, and both before the text.
MidOf(name, a) ==
    CASE Given(a, 3) /\ IsNull(a[3]) -> Raise(InvalidUseOfNull)
      [] OTHER ->
            WithInt(a, 3, 0, LAMBDA n : WithInt(a, 2, 1, LAMBDA start : With1(a, LAMBDA v :
                OnText(v, LAMBDA s :
                    S!Mid(s, start, IF Given(a, 3) THEN <<n>> ELSE <<>>, name = "midb")))))

\* InStr: with three arguments or more the first is where to start.
InStrOf(name, a) ==
    LET first == Len(a) >= 3
        at == IF first THEN 2 ELSE 1
    IN  WithInt(IF first THEN a ELSE <<>>, 1, 1, LAMBDA start :
        Use(Req(a, at), LAMBDA x : Use(Req(a, at + 1), LAMBDA y :
        WithInt(IF first THEN a ELSE <<>>, 4, 0, LAMBDA mode :
            Subject(x, LAMBDA s : OnText(y, LAMBDA t :
                IF name = "instr" THEN S!InStr(start, s, t, mode)
                                  ELSE S!InStrB(start, s, t, mode)))))))

TextFunction(name, a) ==
    LET Sized(F(_, _, _)) == With1(a, LAMBDA v : WithInt(a, 2, 0, LAMBDA n :
                                 OnText(v, LAMBDA s : F(s, n, name \in {"leftb", "rightb"}))))
        Trimming(l, r) == With1(a, LAMBDA v : OnText(v, LAMBDA s :
                              IF IsNull(s) THEN s ELSE S!TrimOf(s, l, r)))
        Listed(F(_)) == With1(a, LAMBDA v : IF IsNull(v) THEN Raise(InvalidUseOfNull)
                                            ELSE ArrayItems(v, F))
        Delimiter(F(_)) == IF ~Given(a, 2) THEN F(<<32>>)
                           ELSE Use(ToVbString(a[2]), LAMBDA d : F(UnitsOf(d.v)))
        Parts(r, F(_)) == IF r.vt = "raise" THEN r
                          ELSE FromValues([i \in DOMAIN r.v |-> Str(CharsOf(F(r.v[i])))])
        Ranged(F(_, _)) == WithInt(a, 3, -1, LAMBDA n : WithInt(a, 4, 0, LAMBDA mode : F(n, mode)))
    IN  CASE name \in {"len", "lenb"} ->
                With1(a, LAMBDA v : OnText(v, LAMBDA s : S!LenOf(s, name = "lenb")))
          [] name \in {"left", "leftb"}   -> Sized(S!Left)
          [] name \in {"right", "rightb"} -> Sized(S!Right)
          [] name \in {"mid", "midb"}     -> MidOf(name, a)
          [] name \in {"instr", "instrb"} -> InStrOf(name, a)
          [] name = "instrrev" ->
                With2(a, LAMBDA x, y : Ranged(LAMBDA start, mode :
                    Subject(x, LAMBDA s : OnText(y, LAMBDA t : S!InStrRev(s, t, start, mode)))))
          [] name \in {"lcase", "ucase"} ->
                With1(a, LAMBDA v : IF IsNull(v) THEN v ELSE ToVbString(v))
          [] name = "ltrim" -> Trimming(TRUE, FALSE)
          [] name = "rtrim" -> Trimming(FALSE, TRUE)
          [] name = "trim"  -> Trimming(TRUE, TRUE)
          [] name = "space" -> WithInt(a, 1, 0, LAMBDA n : FromStrings(S!Space(n)))
          [] name = "strcomp" ->
                IF Len(a) > 3 THEN Raise(WrongArgCount)
                ELSE With2(a, LAMBDA x, y : WithInt(a, 3, 0, LAMBDA mode :
                         IF IsNull(x) \/ IsNull(y) THEN Null
                         ELSE IF mode \notin {0, 1} THEN Raise(InvalidCall)
                         ELSE Use(ToVbString(x), LAMBDA s : Use(ToVbString(y), LAMBDA t :
                                  Val("i2", CompareStr(s.v, t.v))))))
          [] name = "strreverse" -> With1(a, LAMBDA v : OnText(v, S!StrReverse))
          [] name = "replace" ->
                With2(a, LAMBDA x, y : Use(Req(a, 3), LAMBDA z :
                WithInt(a, 4, 1, LAMBDA start : WithInt(a, 5, -1, LAMBDA n :
                WithInt(a, 6, 0, LAMBDA mode :
                    Subject(x, LAMBDA s : Subject(y, LAMBDA f : OnText(z, LAMBDA r :
                        S!Replace(s, f, r, start, n, mode)))))))))
          [] name = "split" ->
                With1(a, LAMBDA v : Ranged(LAMBDA n, mode :
                    Subject(v, LAMBDA s : Delimiter(LAMBDA d :
                        Parts(S!Split(s, S!Str(d), n, mode), LAMBDA part : part)))))
          [] name = "join" ->
                IF Len(a) > 2 THEN Raise(WrongArgCount)
                ELSE Listed(LAMBDA vs : Delimiter(LAMBDA d : Use(TextsOf(vs, <<>>), LAMBDA ts :
                         FromStrings(S!Join(ts.v, d)))))
          [] name = "filter" ->
                Listed(LAMBDA vs : Use(Req(a, 2), LAMBDA y :
                    Use(IF Given(a, 3) THEN ToBool(a[3]) ELSE Bool(TRUE), LAMBDA keep :
                    WithInt(a, 4, 0, LAMBDA mode : Use(TextsOf(vs, <<>>), LAMBDA ts :
                    Use(ToVbString(y), LAMBDA d :
                        Parts(S!Filter(ts.v, UnitsOf(d.v), keep.v, mode), LAMBDA t : t.v)))))))

\* lbound and ubound: the second argument is a dimension, from 1.
BoundOf(name, a) ==
    IF Len(a) > 2 THEN Raise(WrongArgCount)
    ELSE With1(a, LAMBDA v :
         IF v.vt # "array" THEN Raise(TypeMismatch)
         ELSE WithInt(a, 2, 1, LAMBDA d :
              CASE d < 1 -> Raise(InvalidCall)
                [] d >= 1 /\ (~IsSized(v) \/ d > Len(v.v.dims)) -> Raise(Subscript)
                [] OTHER -> Val("i4", IF name = "lbound" THEN 0 ELSE v.v.dims[d] - 1)))

\* rgb: a part above 255 is cut to it.
Inspections == {"vartype", "isarray", "isempty", "isnull", "isobject", "isnumeric", "lbound",
                "ubound", "array", "rgb"}
VarTypes == [empty |-> 0, null |-> 1, i2 |-> 2, i4 |-> 3, r4 |-> 4, r8 |-> 5, cy |-> 6,
             date |-> 7, str |-> 8, obj |-> 9, errcode |-> 10, bool |-> 11, ui1 |-> 17,
             array |-> 8204]
Inspected(name, a) ==
    LET Part(i, F(_)) == WithInt(a, i, 0, LAMBDA n : IF n < 0 THEN Raise(InvalidCall)
                                                     ELSE F(MinOf(n, 255)))
    IN  CASE name = "vartype"  -> With1(a, LAMBDA v : Val("i2", VarTypes[v.vt]))
          [] name = "isarray"  -> With1(a, LAMBDA v : Bool(v.vt = "array"))
          [] name = "isempty"  -> With1(a, LAMBDA v : Bool(v.vt = "empty"))
          [] name = "isnull"   -> With1(a, LAMBDA v : Bool(IsNull(v)))
          [] name = "isobject" -> With1(a, LAMBDA v : Bool(v.vt = "obj"))
          [] name = "isnumeric" ->
                With1(a, LAMBDA v : Bool(IF v.vt = "str" THEN ~Raised(ParseNumber(v.v))
                                         ELSE v.vt \notin {"obj", "array", "null"}))
          [] name \in {"lbound", "ubound"} -> BoundOf(name, a)
          [] name = "array" -> FromValues([i \in DOMAIN a |-> IF Given(a, i) THEN a[i] ELSE Empty])
          [] name = "rgb" -> Part(1, LAMBDA r : Part(2, LAMBDA g : Part(3, LAMBDA b :
                                 Val("i4", r + g * 256 + b * 65536))))

PureNames == Conversions \cup TextFunctions \cup Inspections
Pure(name, a) == CASE name \in Conversions   -> Converted(name, a)
                   [] name \in TextFunctions -> TextFunction(name, a)
                   [] name \in Inspections   -> Inspected(name, a)

\* Object arguments give their default value, except to those that look at
\* the object itself.
KeepsObjects(name) == name \in {"typename", "vartype", "isobject", "isarray", "isempty", "isnull",
                                "lbound", "ubound", "join", "filter", "getref", "isnumeric",
                                "array"}

\* constant: the named constants that are not colours, days or dialog codes.
BuiltinConstants ==
    [vbempty |-> Val("i2", 0), vbnull |-> Val("i2", 1), vbinteger |-> Val("i2", 2),
     vbstring |-> Val("i2", 8), vbarray |-> Val("i2", 8192), vbtrue |-> Val("i2", -1),
     vbfalse |-> Val("i2", 0), vbbinarycompare |-> Val("i2", 0), vbtextcompare |-> Val("i2", 1),
     vbcr |-> Str(<<"\r">>), vblf |-> Str(<<"\n">>), vbcrlf |-> Str(<<"\r", "\n">>),
     vbnewline |-> Str(<<"\r", "\n">>), vbnullstring |-> Str(<<>>), vbtab |-> Str(<<"\t">>)]
===============================================================================
