------------------------------- MODULE Language -------------------------------
(* The scripting language: its texts, its syntax, its values, the functions   *)
(* on strings and dates, and whole runs.  All of it is functions, so the      *)
(* specification only picks an input, and the properties compare what the     *)
(* functions of Lexer, Parser, Values, Strings, Calendar and Interp say of it *)
(* with a reference that is written another way.  They are stated of the      *)
(* step that puts the input away, so that each is looked at once.             *)
EXTENDS ScriptRuns

CONSTANTS
    Texts,        \* source texts: sequences of characters
    Expressions,  \* trees of expressions, without parentheses
    Operands,     \* values, in a sequence
    Reals,        \* fractions of at most DoublePrecision digits
    UnitTexts,    \* texts of code units
    Moments,      \* dates
    Shifts        \* how many intervals a date is moved

C == INSTANCE Calendar WITH DateMin <- -20000, DateMax <- 20000
German == INSTANCE Values WITH Lcid <- 1031
French == INSTANCE Values WITH Lcid <- 1036

VARIABLE sample       \* the input that was picked: its kind and parts

Nothing == [kind |-> "none"]

PickText == \E t \in Texts : sample' = [kind |-> "text", text |-> t]
PickExpression == \E e \in Expressions : sample' = [kind |-> "expression", e |-> e]
PickOperands == \E i, j \in DOMAIN Operands :
                    sample' = [kind |-> "operands", a |-> Operands[i], b |-> Operands[j]]
PickReal == \E x \in Reals : sample' = [kind |-> "real", x |-> x]
PickStrings == \E s, d, r \in UnitTexts :
                   Len(d) <= 2 /\ Len(r) <= 1
                   /\ sample' = [kind |-> "strings", s |-> s, d |-> d, r |-> r]
PickDate == \E v \in Moments, n \in Shifts : sample' = [kind |-> "date", v |-> v, n |-> n]
PickRun == \E how \in Runs : sample' = [kind |-> "run", how |-> how]

Pick == \/ PickText
        \/ PickExpression
        \/ PickOperands
        \/ PickReal
        \/ PickStrings
        \/ PickDate
        \/ PickRun

Init == sample = Nothing
Next == \/ sample = Nothing /\ Pick
        \/ sample # Nothing /\ sample' = Nothing
Spec == Init /\ [][Next]_sample

Is(kind) == sample.kind = kind

----------------------------------------------------------------------------
(* Texts.                                                                     *)

Moved(toks, n) == [i \in DOMAIN toks |-> [toks[i] EXCEPT !.line = @ + n]]

\* The tokens of a text, put together from those of the lines before and
\* after a line end.
Together(a, b) ==
    LET before == SubSeq(a.toks, 1, Len(a.toks) - 1)
        end == [a.toks[Len(a.toks)] EXCEPT !.t = "nl"]
        mark == IF before = <<>> \/ before[Len(before)].t = "nl" THEN <<>> ELSE <<end>>
    IN  IF a.err # 0 THEN a
        ELSE IF b.err # 0 THEN [b EXCEPT !.line = @ + a.line]
        ELSE [b EXCEPT !.toks = before \o mark \o Moved(@, a.line), !.line = @ + a.line]

\* A line end that no underscore takes away parts a text in two that are read
\* on their own: the tokens, the lines they are on and the error with its line
\* are those of the parts.  Nothing of one line (an open string, a date, a
\* bracketed name, a comment) reaches into the next (tokenize, skip_space).
LinesLexApart ==
    Is("text") =>
        LET s == sample.text
            Free(i) == \A j \in 1..(i - 1) :
                           s[j] = "_" => \E k \in (j + 1)..(i - 1) : s[k] \notin Blank
        IN  \A i \in DOMAIN s :
                s[i] = "\n" /\ Free(i) =>
                    Tokenize(s) = Together(Tokenize(SubSeq(s, 1, i - 1)),
                                           Tokenize(SubSeq(s, i + 1, Len(s))))

KindsOf(r) == <<r.err, [i \in DOMAIN r.toks |-> <<r.toks[i].t, r.toks[i].v>>]>>

\* An underscore after a blank and before a line end is a blank: with both
\* written as blanks the text has the same tokens (is_eol_after_underscore).
\* Not within a comment, nor after an underscore alone on its line.
ContinuationIsSpace ==
    Is("text") =>
        LET s == sample.text
        IN  \A i \in 2..(Len(s) - 1) :
                /\ SubSeq(s, i - 1, i + 1) = <<" ", "_", "\n">>
                /\ \A j \in 1..(i - 1) : s[j] \notin {"'", "r", "_"}
                /\ Tokenize(SubSeq(s, 1, i - 1)).err = 0
                => KindsOf(Tokenize(s)) = KindsOf(Tokenize([s EXCEPT ![i] = " ", ![i + 1] = " "]))

\* What is on a line is read as if it were alone, and a line continued as one line.
TextsAreReadByLines == [][(LinesLexApart /\ ContinuationIsSpace)]_sample

----------------------------------------------------------------------------
(* Expressions and calls.                                                     *)

\* How tightly each operator binds.
Binds == [op \in {"imp", "eqv", "xor", "or", "and", "not", "=", "isnot", "&", "-",
                  "mod", "\\", "*", "^"} |->
          CASE op = "imp" -> 1 [] op = "eqv" -> 2 [] op = "xor" -> 3 [] op = "or" -> 4
            [] op = "and" -> 5 [] op = "not" -> 6 [] op \in {"=", "isnot"} -> 7
            [] op = "&" -> 8 [] op = "-" -> 9 [] op = "mod" -> 10 [] op = "\\" -> 11
            [] op = "*" -> 12 [] op = "^" -> 13]
SignBinds == 14
Tightness(e) == CASE e.k = "bin" -> Binds[e.op]
                  [] e.k = "un" -> IF e.op = "not" THEN Binds["not"] ELSE SignBinds
                  [] OTHER -> 15

Paren(e) == [k |-> "paren", e |-> e]
AtLeast(e, n) == IF Tightness(e) >= n THEN e ELSE Paren(e)

\* The tree with the parentheses it takes to write it down.
RECURSIVE Written(_)
Written(e) ==
    CASE e.k = "bin" -> [e EXCEPT !.l = AtLeast(Written(@), Binds[e.op]),
                                  !.r = AtLeast(Written(@), Binds[e.op] + 1)]
      [] e.k = "un"  -> [e EXCEPT !.e = AtLeast(Written(@), Tightness(e))]
      [] e.k = "paren"  -> [e EXCEPT !.e = Written(@)]
      [] e.k = "member" -> [e EXCEPT !.target = AtLeast(Written(@), 15)]
      [] e.k = "index"  -> [e EXCEPT !.target = AtLeast(Written(@), 15),
                                     !.args = [i \in DOMAIN @ |-> Written(@[i])]]
      [] OTHER -> e

Tok(t)      == [t |-> t, v |-> t, line |-> 1, sp |-> TRUE]
NameTok(n)  == [Tok("id") EXCEPT !.v = n]
JoinedDot   == [Tok(".") EXCEPT !.sp = FALSE]
EndTok      == Tok("eof")

RECURSIVE TokensOf(_), ListTokens(_)
ListTokens(es) ==
    CASE es = <<>>    -> <<>>
      [] Len(es) = 1  -> TokensOf(es[1])
      [] OTHER        -> TokensOf(es[1]) \o <<Tok(",")>> \o ListTokens(Tail(es))
TokensOf(e) ==
    CASE e.k = "missing" -> <<>>
      [] e.k = "id"      -> <<NameTok(e.name)>>
      [] e.k = "wmember" -> <<Tok("."), NameTok(e.name)>>
      [] e.k = "int"     -> <<[Tok("int") EXCEPT !.v = e.v]>>
      [] e.k = "paren"   -> <<Tok("(")>> \o TokensOf(e.e) \o <<Tok(")")>>
      [] e.k = "un"      -> <<Tok(e.op)>> \o TokensOf(e.e)
      [] e.k = "bin"     -> TokensOf(e.l) \o (IF e.op = "isnot" THEN <<Tok("is"), Tok("not")>>
                                              ELSE <<Tok(e.op)>>) \o TokensOf(e.r)
      [] e.k = "member"  -> TokensOf(e.target) \o <<JoinedDot, NameTok(e.name)>>
      [] e.k = "index"   -> TokensOf(e.target) \o <<Tok("(")>> \o ListTokens(e.args) \o <<Tok(")")>>

\* Where the parenthesis that opens ts closes.
Closing(ts) ==
    LET Depth(i) == LET Opened(t) == {j \in 1..i : ts[j].t = t}
                        N(S0) == LET f[T \in SUBSET S0] ==
                                         IF T = {} THEN 0 ELSE 1 + f[T \ {CHOOSE x \in T : TRUE}]
                                 IN  f[S0]
                    IN  N(Opened("(")) - N(Opened(")"))
    IN  CHOOSE i \in DOMAIN ts : Depth(i) = 0 /\ \A j \in 1..(i - 1) : Depth(j) > 0

\* f (a) = 1, f (a).m and f (a)(1) are read as an assignment to f(a) and as
\* members and elements of it.
ReadsOn(ts) ==
    /\ ts # <<>> /\ ts[1].t = "("
    /\ LET n == Closing(ts) + 1
       IN  n <= Len(ts) /\ (ts[n].t \in {"=", "("} \/ (ts[n].t = "." /\ ~ts[n].sp))

\* The parser gives back the tree of an
\* expression written with the parentheses it needs, a procedure called with
\* it as first of two arguments or as the only one gets it whole even when it
\* opens with a parenthesis, and an assignment takes it as its value
\* (parse_level, parse_call_or_assign).
ReadsBack ==
    Is("expression") =>
        LET e  == Written(sample.e)
            ts == TokensOf(e)
            one == [k |-> "int", v |-> 1]
            F  == [k |-> "id", name |-> "f"]
            Reads(stmt, tokens) ==
                LET r == P!Parse(tokens \o <<EndTok>>)
                IN  ~P!Failed(r) /\ r.v.body = <<stmt>>
            Calls(args) == [k |-> "call", e |-> [k |-> "index", target |-> F, args |-> args]]
        IN  /\ P!ParseExpression(ts \o <<EndTok>>).v = e
            /\ Reads([k |-> "assign", target |-> F, value |-> e],
                     <<NameTok("f"), Tok("=")>> \o ts)
            /\ ~ReadsOn(ts) => /\ Reads(Calls(<<e>>), <<NameTok("f")>> \o ts)
                               /\ Reads(Calls(<<e, one>>),
                                        <<NameTok("f")>> \o ts \o <<Tok(",")>> \o TokensOf(one))

\* What is written is what is read, as a value, as an argument and as the other of two.
WhatIsWrittenIsRead == [][ReadsBack]_sample

----------------------------------------------------------------------------
(* Values.                                                                    *)

\* Every value of the type the bits of v are taken in.
AllOf(v) ==
    CASE LogType(v) = "bool" -> {Bool(b) : b \in BOOLEAN}
      [] LogType(v) = "ui1"  -> {Val("ui1", n) : n \in 0..(2 ^ ByteBits - 1)}
      [] LogType(v) = "i2"   ->
             {Val("i2", n) : n \in -(2 ^ (ShortBits - 1))..(2 ^ (ShortBits - 1) - 1)}
      [] OTHER               ->
             {Val("i4", n) : n \in -(2 ^ (LongBits - 1))..(2 ^ (LongBits - 1) - 1)}

\* Null is a value that is not known: an operator of the logic with Null on one
\* side has the result that every value there would give, and Null when they
\* differ (logical; "a bit of the result is only determined when the known side
\* forces it").  A Byte that implies Null is the exception the code names.
NullIsUnknown ==
    Is("operands") /\ IsNull(sample.b) /\ sample.a.vt \in {"empty", "bool", "ui1", "i2", "i4"} =>
        LET a == sample.a
            Known(r, results) == IF \E x \in results : results = {x}
                                 THEN ~IsNull(r) /\ r \in results ELSE IsNull(r)
        IN  \A op \in {"and", "or", "xor", "eqv", "imp"} :
                /\ ~(op = "imp" /\ a.vt = "ui1") =>
                       Known(Logical(op, a, Null), {Logical(op, a, u) : u \in AllOf(a)})
                /\ Known(Logical(op, Null, a), {Logical(op, u, a) : u \in AllOf(a)})

Exact(op, x, y) == CASE op = "+" -> Plus(x, y) [] op = "-" -> Minus(x, y) [] op = "*" -> Times(x, y)

\* The number a value stands for, to the last unit of a Currency.
Worth(v) == IF v.vt = "cy" THEN Rat(v.v, CyScale) ELSE ToF64(v).v

\* How far a result with a Currency in it may be from the exact one: half a
\* unit, and what up to six roundings of a Double make of the operands.
Slack(op, x, y) ==
    LET size == IF op = "*" THEN Magnitude(Times(x, y)) ELSE Plus(Magnitude(x), Magnitude(y))
    IN  Plus(Over(size, Whole(2 ^ (DoubleBits - 3))), Rat(1, 2 * CyScale))

\* A sum, difference or product r of a and b never wraps around, and is rounded
\* no more than its type makes it be (arith, cy_exact, make_num).  In a Byte,
\* an Integer or a Long, and in Currency when two Currencies are added, it is
\* the exact number.  A Single or a Double is the one nearest to the exact
\* number, though a Single is rounded as a Double before.  A Currency among
\* other operands goes through Doubles and is off by the Slack.  Error 6 is
\* only for a number that lies beyond the Currencies or the Dates.
IsTrueResult(op, a, b, r) ==
    LET x == Worth(a)
        y == Worth(b)
        exact == Exact(op, x, y)
        mixed == "cy" \in {a.vt, b.vt}
        added == a.vt = "cy" /\ b.vt = "cy" /\ op # "*"
        units == FloorOf(Times(exact, Whole(CyScale)))
        near  == FloorOf(Times(Slack(op, x, y), Whole(CyScale))) + 1
        day == Rounded(exact, DoubleBits)
        whole == r.vt \in {"ui1", "i2", "i4"} \/ added
    IN  CASE Raised(r) -> /\ r.v = Overflow
                          /\ \/ added /\ ~Fits(units, CyBits)
                             \/ mixed /\ ~added /\ AbsOf(units) + near >= CyLimit
                             \/ Less(day, Whole(DateMin)) \/ ~Less(day, Whole(DateMax))
          [] ~Raised(r) /\ whole -> Worth(r) = exact
          [] ~Raised(r) /\ ~whole /\ mixed -> ~Less(Slack(op, x, y), Magnitude(Minus(Worth(r), exact)))
          [] OTHER -> r.v = Rounded(exact, IF r.vt = "r4" THEN SingleBits ELSE DoubleBits)

\* A quotient times the divisor with the remainder gives the dividend back, and
\* the remainder is less than the divisor, with the dividend's sign (int_divide,
\* modulo).
ResultsAreExact ==
    Is("operands") /\ ~Raised(ToF64(sample.a)) /\ ~Raised(ToF64(sample.b)) =>
        LET a == sample.a
            b == sample.b
            q == IntOp(FALSE, a, b)
            m == IntOp(TRUE, a, b)
            i == ToI32Rounded(a).v
            j == ToI32Rounded(b).v
        IN  /\ \A op \in {"+", "-", "*"} : IsTrueResult(op, a, b, Arith(op, a, b))
            /\ ~Raised(q) /\ ~Raised(m) => /\ q.v * j + m.v = i
                                           /\ AbsOf(m.v) < AbsOf(j)
                                           /\ m.v = 0 \/ (m.v < 0) = (i < 0)

\* The operators give what is true of the values: with an unknown one in it, what
\* holds whatever it is, and of two numbers the nearest of the result's type to
\* the exact one.
OperatorsAreExact == [][(NullIsUnknown /\ ResultsAreExact)]_sample

Without(s, c) == SelectSeq(s, LAMBDA x : x # c)

\* Turned into text, the Double nearest to a decimal number of no more digits
\* than are written is read back as itself: with its fraction and exponent, in
\* a locale that writes a comma too; a Currency as the number it is computed
\* with, while a Double has room for its units (to_vb_string, format_g,
\* localize_number, parse_number); rounded to two places, from the text of
\* FormatNumber without its thousands marks, with or without the leading 0
\* (fixed, apply_leading); and in the hexadecimal of Hex by the lexer, as a
\* Long when a & follows (hex, lex_based).
NumbersSurviveText ==
    /\ Is("real") =>
           LET x == AsF64(sample.x)
           IN  /\ ParseNumber(FormatR8(x)).v = x
               /\ German!ParseNumber(German!FormatR8(x)).v = x
               /\ French!ParseNumber(French!FormatR8(x)).v = x
               /\ \A leading \in {0, -1} :
                      LET g == German!FormatNumber(Real(x), 2, leading, 0, -1)
                          f == French!FormatNumber(Real(x), 2, leading, 0, -1)
                      IN  /\ German!ParseNumber(Without(g.v, ".")).v = Round(Real(x), 2).v
                          /\ French!ParseNumber(Without(f.v, " ")).v = Round(Real(x), 2).v
    /\ Is("operands") /\ IsNull(sample.b) /\ sample.a.vt = "cy" /\ AbsOf(sample.a.v) <= 2 ^ DoubleBits =>
           German!ParseNumber(German!FormatCurrencyPlain(sample.a.v)).v = ToF64(sample.a).v
    /\ Is("operands") /\ IsNull(sample.b) /\ sample.a.vt \in {"i2", "i4"} =>
           LET literal == <<"&", "h">> \o Hex(sample.a).v
               r == Tokenize(IF sample.a.vt = "i4" THEN Append(literal, "&") ELSE literal)
           IN  r.err = 0 /\ r.toks[1].v = sample.a.v

----------------------------------------------------------------------------
(* Strings and dates.                                                         *)

\* Cutting a string and putting it together again changes nothing: Join undoes
\* Split however many parts are asked for, Replace is Split and Join, Unescape
\* undoes Escape, a string is its LeftB and RightB bytes, and InStr finds the
\* first of the places InStrRev finds the last of.
StringsComeTogether ==
    Is("strings") =>
        LET s == sample.s
            d == sample.d
            r == sample.r
            Cut(count) == S!Split(S!Str(s), S!Str(d), count, 0)
            Strs(parts) == [i \in DOMAIN parts |-> S!Str(parts[i])]
            first == S!InStr(1, S!Str(s), S!Str(d), 0).v
            last  == S!InStrRev(S!Str(s), S!Str(d), -1, 0).v
            places == {i \in 1..(Len(s) - Len(d) + 1) : SubSeq(s, i, i + Len(d) - 1) = d}
        IN  /\ S!Unescape(S!Escape(S!Str(s))) = S!Str(s)
            /\ s # <<>> /\ d # <<>> =>
                   /\ \A count \in {-1, 1, 2, 3} : S!Join(Strs(Cut(count).v), d) = S!Str(s)
                   /\ S!Replace(S!Str(s), S!Str(d), S!Str(r), 1, -1, 0)
                          = S!Join(Strs(Cut(-1).v), r)
                   /\ places = {} => first = 0 /\ last = 0
                   /\ places # {} => /\ {first, last} \subseteq places
                                     /\ \A i \in places : first <= i /\ i <= last
            /\ \A n \in 0..(2 * Len(s)) :
                   n % 2 = 0 => S!Left(S!Str(s), n, TRUE).v
                                   \o S!Right(S!Str(s), 2 * Len(s) - n, TRUE).v = s

\* What is turned into text, escaped, cut or joined comes back as it was.
TextsComeBack == [][(NumbersSurviveText /\ StringsComeTogether)]_sample

NextDay(at) ==
    CASE at.d < C!DaysInMonth(at.y, at.m) -> [at EXCEPT !.d = @ + 1]
      [] at.d = C!DaysInMonth(at.y, at.m) /\ at.m < 12 -> [at EXCEPT !.m = @ + 1, !.d = 1]
      [] OTHER -> [y |-> at.y + 1, m |-> 1, d |-> 1]

\* Day follows day through months and leap years, and DateDiff counts what
\* DateAdd added in the same interval, from day 0 on; whole days and more keep
\* the time of day (days_from_civil, shift_months, date_add, date_diff).
DaysAndShiftsAgree ==
    Is("date") =>
        LET v == sample.v
            at == C!ToYmd(v)
        IN  /\ C!FromYmd(at.y, at.m, at.d) = C!Split(v).day
            /\ C!CivilFromDays(C!DaysFromCivil(at.y, at.m, at.d) + 1) = NextDay(at)
            /\ C!DateSerial(at.y, at.m, at.d) = C!Split(v).day * C!DaySeconds
            /\ v >= 0 => \A iv \in C!Intervals \ {"w"} :
                   LET r == C!DateAdd(iv, sample.n, v)
                   IN  r >= 0 => /\ C!DateDiff(iv, v, r, 1) = sample.n
                                 /\ iv \notin {"h", "n", "s"} => C!Split(r).time = C!Split(v).time

\* A date moved by an interval is that far away, whatever months and leap years lie between.
DatesAddUp == [][DaysAndShiftsAgree]_sample

----------------------------------------------------------------------------
(* Runs.                                                                      *)

\* However a run ended, by its end, an exit, an error, its budget or a stop in
\* a call deep inside, the interpreter is left as the next one needs it
\* (interp.rs: invoke, execute and the With statement).
UnitsLeaveNoTrace ==
    [][Is("run") => IsClean(Ran(sample.how).s, sample.how.program)]_sample

\* A run that is stopped, or has spent its budget, has said a beginning of what
\* it would have said, and no statement begins after it: where no error is
\* resumed from it says nothing more and ends with the stop's error or the
\* budget's.  On Error Resume Next resumes from the budget's error as from any
\* other, and from a stop when it falls into a script function that a test
\* calls (ctrl, eval_cond): then the procedure of the test may end as if it
\* were done, and the calls that were under way at the halt, and they alone,
\* may each say one thing more.  A run that was not halted is the run left
\* alone (interp.rs: tick, exec_block, exec_do, invoke).
StopIsAPrefix ==
    [][Is("run") /\ sample.how \in Stopped \cup OnABudget =>
          IsABeginning(Ran(sample.how), LeftAlone(sample.how.program))]_sample

\* The ways to say the same: an argument by reference and one that is copied in
\* and out, whether the call fails or not; parentheses and a copy; Execute and
\* the text itself; For and While; Select and If; With and the object's name.
EquivalentsAgree ==
    [][\A pair \in Equivalents :
          Is("run") /\ sample.how \in Undisturbed /\ sample.how.program = pair[1] =>
             MeanTheSame(Ran(sample.how), LeftAlone(pair[2]))]_sample
===============================================================================
