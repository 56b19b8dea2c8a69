------------------------------- MODULE MCScript -------------------------------
(* Inputs for Language; the text of a script is what a player would write.    *)
EXTENDS Language

Pieces == {<<" ">>, <<"\n">>, <<"_">>, <<"'">>, <<"\"">>, <<"#">>, <<"&", "h", "8">>, <<"&">>,
           <<".">>, <<"<">>, <<">">>, <<"[">>, <<"]">>, <<"r", "e", "m">>, <<"x">>, <<"1">>,
           <<"e">>, <<":">>}
MCTexts == {p \o q \o r : p, q, r \in Pieces}
           \cup {p \o <<" ", "_", "\n">> \o q \o r : p, q, r \in Pieces}
           \cup {p \o q \o <<"\n">> \o r : p, q, r \in Pieces}

Id(n)  == [k |-> "id", name |-> n]
Number(n) == [k |-> "int", v |-> n]
Ops == DOMAIN Binds \ {"not"}
Bin(op, l, r) == [k |-> "bin", op |-> op, l |-> l, r |-> r]
Un(op, e) == [k |-> "un", op |-> op, e |-> e]
Member(t, n) == [k |-> "member", target |-> t, name |-> n]
Index(t, args) == [k |-> "index", target |-> t, args |-> args]
NoArgument == [k |-> "missing"]

Small == {Id("a"), Number(1), [k |-> "wmember", name |-> "m"], Un("not", Id("a")),
          Un("-", Id("a")), Member(Id("a"), "m"), Index(Id("a"), <<>>),
          Index(Id("a"), <<Number(1), NoArgument>>), Index(Id("a"), <<NoArgument, Number(1)>>)}
         \cup {Bin(op, Id("a"), Number(1)) : op \in Ops}
MCExpressions ==
    Small \cup {Bin(op, l, r) : op \in Ops, l, r \in Small}
          \cup {Un(op, e) : op \in {"not", "-", "+"}, e \in Small}
          \cup {Member(e, "m") : e \in Small} \cup {Index(e, <<Number(1)>>) : e \in Small}

OfType(vt, ns) == [i \in DOMAIN ns |-> Val(vt, ns[i])]
MCOperands ==
    <<Empty, Null, Val("obj", 0), Val("array", 0), Val("unsupported", 0), Bool(TRUE), Bool(FALSE)>>
    \o OfType("ui1", <<0, 3, 7>>) \o OfType("i2", <<-8, -3, -1, 0, 2, 7>>)
    \o OfType("i4", <<-128, -9, -1, 0, 15, 127>>) \o OfType("errcode", <<13>>)
    \o OfType("cy", <<-16384, -5, 0, 15, 4095, 4097, 16383>>)
    \o OfType("r4", <<Rat(1, 2), Rat(23, 16), Rat(-50, 1), Rat(62, 1)>>)
    \o OfType("r8", <<Rat(5, 2), Rat(-1, 4), Rat(1365, 4096), Rat(200, 1), Rat(4095, 1)>>)
    \o OfType("date", <<Rat(-40, 1), Rat(3, 2), Rat(59, 1)>>)
    \o OfType("str", <<<<>>, <<"x">>, <<"7">>, <<"-", "1", ".", "5", " ">>, <<"&", "h", "f", "f">>, <<"0", ".", "1">>,
                          <<"1", "e", "2">>, <<"t", "r", "u", "e">>>>)

MCReals == {Rat(k, 10 ^ j) : k \in {-199, -150, -10, -1, 0, 1, 5, 7, 12, 99, 100, 101, 199},
                             j \in 0..5}
           \cup {Whole(k * 10 ^ j) : k \in {-199, -1, 1, 5, 12, 99, 101, 199}, j \in 1..3}

MCUnits == {37, 49, 117, 97, 300}
MCUnitTexts == {<<>>} \cup {<<a>> : a \in MCUnits} \cup {<<a, b>> : a, b \in MCUnits}
               \cup {<<a, b, c>> : a, b, c \in MCUnits} \cup {<<97, 37, 117, 49, 49, 49, 49>>}

MCMoments == {d * 86400 + t : d \in {0, 1, 31, 58, 59, 60, 365, 366, 790, 791, 1460, 14000},
                              t \in {0, 1, 43200, 86399}}
             \cup {d * 86400 : d \in {-14000, -700, -364, -1}}
MCShifts == {-13, -2, -1, 0, 1, 3, 25}

----------------------------------------------------------------------------
SwapText ==
    "dim a(2)\na(0) = 1: a(1) = 5\nsub swap(x, y)\ndim t\nt = x: x = y: y = t\n" \o
    "end sub\nswap a(0), a(1)\nsay a(0): say a(1)"

SwapcopyText ==
    "dim a(2)\na(0) = 1: a(1) = 5\nsub swap(byref x, byref y)\ndim t\n" \o
    "t = x: x = y: y = t\nend sub\nu = a(0): v = a(1)\nswap u, v\n" \o
    "a(0) = u: a(1) = v\nsay a(0): say a(1)"

HalfText ==
    "sub half(x)\nx = x + 1\nx = x / 0\nend sub\ndim a(1)\non error resume next\n" \o
    "half a(0)\nsay a(0): say err.number\nb = 4\nhalf (b)\nsay b"

HalfcopyText ==
    "sub half(x)\nx = x + 1\nx = x / 0\nend sub\ndim a(1)\non error resume next\n" \o
    "u = empty\nhalf u\na(0) = u\nsay a(0): say err.number\nb = 4: c = b\nhalf c\n" \o
    "say b"

CountText ==
    "n = 0\nfor i = 1 to 3\nn = n + i\nif i = 2 then i = 3\nsay n\nnext\n" \o
    "for i = 3 to 1 step -1\nif i = 1 then exit for\nsay i\nnext\nsay i"

CountwhileText ==
    "n = 0\ni = 1\nwhile i <= 3\nn = n + i\nif i = 2 then i = 3\nsay n\ni = i + 1\n" \o
    "wend\ni = 3\ndo until i < 1\nif i = 1 then exit do\nsay i\ni = i - 1\nloop\n" \o
    "say i"

ChooseText ==
    "for i = 0 to 3\nselect case i\ncase 1, 2: say \"low\"\ncase else: say \"none\"\n" \o
    "case 3: say \"high\"\nend select\nnext"

ChooseifText ==
    "for i = 0 to 3\nif i = 1 or i = 2 then\nsay \"low\"\nelseif i = 3 then\n" \o
    "say \"high\"\nelse\nsay \"none\"\nend if\nnext"

UnitText ==
    "n = 1\nexecute \"n = n + 1: say n: const k = 3\"\nsay k\nsub go\ndim n\nn = 9\n" \o
    "executeglobal \"n = n + 1: say n\"\nexecute \"n = n + 1: say n\"\n" \o
    "say eval(\"n + 1\")\nend sub\ngo\nsay n"

UnitplainText ==
    "n = 1\nn = n + 1: say n: const k = 3\nsay k\nsub go\ndim m\nm = 9\n" \o
    "n = n + 1: say n\nm = m + 1: say m\nsay m + 1\nend sub\ngo\nsay n"

AccountText ==
    "class account\nprivate held\npublic owner\nprivate sub class_initialize\n" \o
    "held = 2\nend sub\nprivate sub class_terminate\nsay owner\nend sub\n" \o
    "public property get balance\nbalance = held\nend property\n" \o
    "public property let balance(v)\nif v < 0 then err.raise 5\nheld = v\n" \o
    "end property\npublic default function plus(n)\nplus = held + n\nend function\n" \o
    "end class\nset a = new account\non error resume next\nwith a\n.owner = \"ann\"\n" \o
    ".balance = -1\nsay err.number\n.balance = .balance + 3\nsay .balance\nend with\n" \o
    "say a(1)\nset b = a\nset a = nothing\nsay \"still\"\nset b = nothing\n" \o
    "say typename(b) = \"nothing\""

AccountplainText ==
    "class account\nprivate held\npublic owner\nprivate sub class_initialize\n" \o
    "held = 2\nend sub\nprivate sub class_terminate\nsay owner\nend sub\n" \o
    "public property get balance\nbalance = held\nend property\n" \o
    "public property let balance(v)\nif v < 0 then err.raise 5\nheld = v\n" \o
    "end property\npublic default function plus(n)\nplus = held + n\nend function\n" \o
    "end class\nset a = new account\non error resume next\na.owner = \"ann\"\n" \o
    "a.balance = -1\nsay err.number\na.balance = a.balance + 3\nsay a.balance\n" \o
    "say a.plus(1)\nset b = a\nset a = nothing\nsay \"still\"\nset b = nothing\n" \o
    "say typename(b) = \"nothing\""

DeepText ==
    "function fact(n)\nif n = 0 then fact = 1 else fact = n * fact(n - 1)\n" \o
    "end function\nfunction safe(n)\non error resume next\nsafe = 7\nsafe = fact(n)\n" \o
    "end function\nsay fact(3)\nsay safe(2)\nsay safe(6)\n" \o
    "execute \"say fact(2): x = fact(9)\""

ListsText ==
    "option explicit\ndim d, k, a()\nset d = createobject(\"scripting.dictionary\")\n" \o
    "d.add \"x\", 1\nd(\"y\") = d(\"z\") + 2\nfor each k in d\nsay k: say d(k)\n" \o
    "next\nredim a(1, 2)\na(1, 2) = 5\nredim preserve a(1, 3)\n" \o
    "say a(1, 2): say ubound(a, 2)\nfor each k in a\nif not isempty(k) then say k\n" \o
    "next\nerase a\non error resume next\nq = 1\nsay err.number\nfor each k in 5\n" \o
    "say \"once\"\nnext\nsay err.number\nd.add \"x\", 2\nsay err.number\n" \o
    "redim preserve a(0, 1)\nsay ubound(a)\ndim f\nset f = getref(\"twice\")\n" \o
    "say f(4)\nfunction twice(n)\ntwice = n + n\nend function"

NestedText ==
    "sub inner\nsay \"in\": x = cint(\"no\"): say \"never\"\nend sub\nsub outer\n" \o
    "on error resume next\ninner\nsay err.number\nif cint(\"no\") = 1 then\n" \o
    "say \"fell in\"\nend if\nfor i = 1 to \"no\"\nsay \"body\"\nnext\n" \o
    "say err.number\nwith 3\nsay \"inside\": .x = 1\nend with\nsay err.number\n" \o
    "on error goto 0\nsay err.number\ninner\nend sub\nouter\nsay \"never\""

HaltingText ==
    "sub ends\nsay \"first\"\nn = n + 1\nsay \"last\"\nend sub\n" \o
    "on error resume next\nsay 1\n" \o
    "with createobject(\"scripting.dictionary\")\n.add 1, 2\nends\nsay .item(1)\n" \o
    "end with\ndo\nn = n + 1\nloop until n > 4\nsay n"

\* Tests that call functions of the script, under On Error Resume Next.
TestedText ==
    "function more(n)\nsay n\nmore = n < 3\nend function\nfunction grow()\n" \o
    "on error resume next\nn = 0\ndo\nn = n + 1\ngrow = n\nloop while more(n)\n" \o
    "end function\nfunction twice()\nwhile more(5)\nwend\ntwice = grow()\nend function\n" \o
    "say grow()\nsay twice() + grow()\nsay \"last\""

PickedText ==
    "dim n\nfunction more()\nn = n + 1\nmore = n\nend function\nfunction pick(x)\n" \o
    "on error resume next\npick = x\nif more() > 9 then pick = \"if\"\n" \o
    "while more() < 4\npick = \"while\"\nwend\nselect case more()\ncase 5\n" \o
    "pick = \"five\"\ncase else\npick = \"more\"\nend select\nend function\n" \o
    "sub shows(x)\nsay pick(x)\nend sub\nshows pick(1)\nfor i = 1 to pick(2)\n" \o
    "say i\nnext\non error resume next\nsay pick(3)\nsay eval(\"pick(4)\")"

ConstantText ==
    "if false then\nconst limit = 3\nend if\ndim t\nt = limit\nsay t\n" \o
    "on error resume next\nlimit = 4\nsay err.number\ncint(5)\nsay err.number\n" \o
    "dim limit\nsay err.number\nrandomize = 1\nt = execute(\"say 1\")\n" \o
    "say err.number: t\nsay err.number\nexit do\nsay \"never\""

MCTextOf == [swap |-> Chars(SwapText), swapcopy |-> Chars(SwapcopyText), half |-> Chars(HalfText),
             halfcopy |-> Chars(HalfcopyText), count |-> Chars(CountText),
             countwhile |-> Chars(CountwhileText), choose |-> Chars(ChooseText),
             chooseif |-> Chars(ChooseifText), unit |-> Chars(UnitText),
             unitplain |-> Chars(UnitplainText), account |-> Chars(AccountText),
             accountplain |-> Chars(AccountplainText),
             deep |-> Chars(DeepText), lists |-> Chars(ListsText), nested |-> Chars(NestedText),
             halting |-> Chars(HaltingText), tested |-> Chars(TestedText),
             picked |-> Chars(PickedText), constant |-> Chars(ConstantText)]
MCPrograms == DOMAIN MCTextOf
MCEquivalents == {<<"swap", "swapcopy">>, <<"half", "halfcopy">>, <<"count", "countwhile">>,
                  <<"choose", "chooseif">>, <<"unit", "unitplain">>, <<"account", "accountplain">>}
MCHostGlobals == [server |-> Str(<<"h">>)]
MCDateMin == -40
===============================================================================
