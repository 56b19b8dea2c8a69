-------------------------------- MODULE Parser --------------------------------
(* The recursive-descent parser (src/client/src/parser.rs) from the tokens of *)
(* Lexer to the tree of src/client/src/ast.rs.                                *)
(*                                                                            *)
(* A node is a record: k its kind, the other fields its parts.  A parsing     *)
(* operator takes the tokens ts and a position and gives [p, v]: the position *)
(* after what it read and the node, or position 0 and the error's code.  The  *)
(* line a statement began on goes into messages only and is left out.         *)
EXTENDS Integers, Sequences

CONSTANT Keywords    \* the words the lexer makes keywords of

Ok(p, v)   == [p |-> p, v |-> v]
Fail(code) == [p |-> 0, v |-> code]
Failed(r)  == r.p = 0
Then(r, F(_)) == IF Failed(r) THEN r ELSE F(r)

----------------------------------------------------------------------------
(* Token helpers.  Reading past the end reads the last token, end of file.    *)

TokenAt(ts, p) == IF p <= Len(ts) THEN ts[p] ELSE ts[Len(ts)]
At(ts, p)      == TokenAt(ts, p).t
Eat(ts, p, t)  == IF At(ts, p) = t THEN p + 1 ELSE p
Expect(ts, p, t) == IF At(ts, p) = t THEN Ok(p + 1, t) ELSE Fail(1002)

IsSep(ts, p) == At(ts, p) \in {"nl", ":"}
SkipSeps(ts, p) ==
    CHOOSE q \in p..(Len(ts) + 1) : ~IsSep(ts, q) /\ \A i \in p..(q - 1) : IsSep(ts, i)

\* plain_ident: a few keywords double as names; ident_name, after a dot: all.
NameKeywords == {"property", "error", "step", "default", "explicit"}
PlainIdent(ts, p) == IF At(ts, p) \in {"id"} \cup NameKeywords
                     THEN Ok(p + 1, ts[p].v) ELSE Fail(1010)
IdentName(ts, p)  == IF At(ts, p) \in {"id"} \cup Keywords
                     THEN Ok(p + 1, ts[p].v) ELSE Fail(1010)

\* at_term: the words that end a nested block, which stops before them.
AllTerms == {"elseif", "else", "case", "next", "loop", "wend", "end if", "end sub",
             "end function", "end property", "end class", "end select", "end with"}
TermAt(ts, p) == IF At(ts, p) = "end" THEN "end " \o At(ts, p + 1) ELSE At(ts, p)
AtTerm(ts, p, terms) == TermAt(ts, p) \in terms

\* Where a statement of the line may stop.
AtStatementEnd(ts, p, terms) == IsSep(ts, p) \/ At(ts, p) = "eof" \/ AtTerm(ts, p, terms)

EndOf(ts, p, word, v) == IF TermAt(ts, p) = "end " \o word THEN Ok(p + 2, v) ELSE Fail(1002)

----------------------------------------------------------------------------
(* Expressions.                                                               *)

Missing == [k |-> "missing"]
Unary(op, e)     == [k |-> "un", op |-> op, e |-> e]
Binary(op, l, r) == [k |-> "bin", op |-> op, l |-> l, r |-> r]
Index(target, args)  == [k |-> "index", target |-> target, args |-> args]
Member(target, name) == [k |-> "member", target |-> target, name |-> name]

\* The operators of each level, the loosest first; all associate to the left.
\* Not is a prefix on a level of its own.
Levels == <<{"imp"}, {"eqv"}, {"xor"}, {"or"}, {"and"}, {"not"},
            {"=", "<>", "<", ">", "<=", ">=", "is"}, {"&"}, {"+", "-"}, {"mod"},
            {"\\"}, {"*", "/"}, {"^"}>>
NotLevel == 6

RECURSIVE Level(_, _, _), LeftAssoc(_, _, _), Postfix(_, _), Commas(_, _, _, _)

Expr(ts, p) == Level(ts, p, 1)

\* A parenthesised expression stays a node: as an argument it goes by value.
Primary(ts, p) ==
    CASE At(ts, p) \in {"int", "long", "real", "date", "str"} ->
            Ok(p + 1, [k |-> At(ts, p), v |-> ts[p].v])
      [] At(ts, p) \in {"id", "get"} \cup NameKeywords -> Ok(p + 1, [k |-> "id", name |-> ts[p].v])
      [] At(ts, p) \in {"true", "false", "empty", "null", "nothing", "me"} ->
            Ok(p + 1, [k |-> At(ts, p)])
      [] At(ts, p) = "new" ->
            Then(PlainIdent(ts, p + 1), LAMBDA r : Ok(r.p, [k |-> "new", name |-> r.v]))
      [] At(ts, p) = "." ->
            Then(IdentName(ts, p + 1), LAMBDA r : Ok(r.p, [k |-> "wmember", name |-> r.v]))
      [] At(ts, p) = "(" ->
            Then(Expr(ts, p + 1), LAMBDA e :
                 Then(Expect(ts, e.p, ")"), LAMBDA r : Ok(r.p, [k |-> "paren", e |-> e.v])))
      [] OTHER -> Fail(1002)

ArgList(ts, p) ==
    IF At(ts, p) = ")" THEN Ok(p + 1, <<>>)
    ELSE Then(Commas(ts, p, "arg)", <<>>), LAMBDA as :
              Then(Expect(ts, as.p, ")"), LAMBDA r : Ok(r.p, as.v)))

\* The .name and (args) after an operand.
Postfix(ts, e) ==
    CASE At(ts, e.p) = "." ->
            Then(IdentName(ts, e.p + 1), LAMBDA n : Postfix(ts, Ok(n.p, Member(e.v, n.v))))
      [] At(ts, e.p) = "(" ->
            Then(ArgList(ts, e.p + 1), LAMBDA as : Postfix(ts, Ok(as.p, Index(e.v, as.v))))
      [] OTHER -> e

PostfixTarget(ts, p) == Then(Primary(ts, p), LAMBDA e : Postfix(ts, e))

\* parse_unary: a sign binds tighter than ^, and a Not met here takes the
\* widest operand it can.
RECURSIVE Operand(_, _)
Operand(ts, p) ==
    CASE At(ts, p) = "not"      -> Level(ts, p, NotLevel)
      [] At(ts, p) \in {"-", "+"} ->
            Then(Operand(ts, p + 1), LAMBDA e : Ok(e.p, Unary(At(ts, p), e.v)))
      [] OTHER                  -> PostfixTarget(ts, p)

RightAssoc(ts, l, n) ==                     \* mutant: the right side takes its own level
    LET op == At(ts, l.p)
        isnot == op = "is" /\ At(ts, l.p + 1) = "not"
    IN  IF op \notin Levels[n] THEN l
        ELSE Then(Level(ts, IF isnot THEN l.p + 2 ELSE l.p + 1, n), LAMBDA r :
                  Ok(r.p, Binary(IF isnot THEN "isnot" ELSE op, l.v, r.v)))
LeftAssoc(ts, l, n) ==
    LET op == At(ts, l.p)
        isnot == op = "is" /\ At(ts, l.p + 1) = "not"
    IN  IF op \notin Levels[n] THEN l
        ELSE Then(Level(ts, IF isnot THEN l.p + 2 ELSE l.p + 1, n + 1), LAMBDA r :
                  LeftAssoc(ts, Ok(r.p, Binary(IF isnot THEN "isnot" ELSE op, l.v, r.v)), n))

Level(ts, p, n) ==
    CASE n > Len(Levels) -> Operand(ts, p)
      [] n = NotLevel /\ At(ts, p) = "not" ->
            Then(Level(ts, p + 1, NotLevel), LAMBDA e : Ok(e.p, Unary("not", e.v)))
      [] n = NotLevel /\ At(ts, p) # "not" -> Level(ts, p, n + 1)
      [] OTHER -> Then(Level(ts, p, n + 1), LAMBDA l : LeftAssoc(ts, l, n))

----------------------------------------------------------------------------
(* The items of comma-separated lists: arguments, variables, constants and    *)
(* parameters.                                                                *)

\* A name, and the dimensions of a fixed array; () alone is a dynamic one.
DimVar(ts, p) ==
    Then(PlainIdent(ts, p), LAMBDA n :
         IF At(ts, n.p) # "(" THEN Ok(n.p, [name |-> n.v, dims |-> <<>>, array |-> FALSE])
         ELSE IF At(ts, n.p + 1) = ")"
              THEN Ok(n.p + 2, [name |-> n.v, dims |-> <<>>, array |-> TRUE])
              ELSE Then(Commas(ts, n.p + 1, "expr", <<>>), LAMBDA ds :
                        Then(Expect(ts, ds.p, ")"), LAMBDA r :
                             Ok(r.p, [name |-> n.v, dims |-> ds.v, array |-> TRUE]))))

ConstItem(ts, p) ==
    Then(PlainIdent(ts, p), LAMBDA n :
         Then(Expect(ts, n.p, "="), LAMBDA q :
              Then(Expr(ts, q.p), LAMBDA e : Ok(e.p, [name |-> n.v, value |-> e.v]))))

\* By reference unless marked; an array parameter may be written a().
Param(ts, p) ==
    LET o == Eat(ts, p, "optional")
        q == IF At(ts, o) = "byval" THEN o + 1 ELSE Eat(ts, o, "byref")
    IN  Then(PlainIdent(ts, q), LAMBDA n :
             Then(IF At(ts, n.p) = "(" THEN Expect(ts, n.p + 1, ")") ELSE n, LAMBDA r :
                  Ok(r.p, [name |-> n.v, byval |-> At(ts, o) = "byval", optional |-> o > p])))

\* An elided argument is missing; within parentheses also before the ).
Item(ts, p, kind) ==
    CASE kind \in {"arg", "arg)"} /\ At(ts, p) = "," -> Ok(p, Missing)
      [] kind = "arg)" /\ At(ts, p) = ")"            -> Ok(p, Missing)
      [] kind = "dim"   -> DimVar(ts, p)
      [] kind = "const" -> ConstItem(ts, p)
      [] kind = "param" -> Param(ts, p)
      [] OTHER          -> Expr(ts, p)

Commas(ts, p, kind, out) ==
    Then(Item(ts, p, kind), LAMBDA r :
         IF At(ts, r.p) = "," THEN Commas(ts, r.p + 1, kind, Append(out, r.v))
                              ELSE Ok(r.p, Append(out, r.v)))

Params(ts, p) ==
    CASE At(ts, p) # "("     -> Ok(p, <<>>)
      [] At(ts, p + 1) = ")" -> Ok(p + 2, <<>>)
      [] OTHER -> Then(Commas(ts, p + 1, "param", <<>>), LAMBDA ps :
                       Then(Expect(ts, ps.p, ")"), LAMBDA r : Ok(r.p, ps.v)))

----------------------------------------------------------------------------
(* Blocks and compound statements.                                            *)

RECURSIVE Statement(_, _), Block(_, _, _, _), InlineBody(_, _, _), InlineIf(_, _, _),
          IfBranches(_, _, _), Cases(_, _, _), ClassBody(_, _, _)

\* A bare End stops the script at the top and ends any other block.
Block(ts, from, terms, out) ==
    LET p == SkipSeps(ts, from)
    IN  CASE At(ts, p) = "eof" \/ AtTerm(ts, p, terms) -> Ok(p, out)
          [] At(ts, p) = "end" /\ At(ts, p + 1) \notin Keywords ->
                IF terms = {}
                THEN Block(ts, p + 1, terms, Append(out, [k |-> "exit", what |-> "sub"]))
                ELSE Ok(p, out)
          [] OTHER ->
                Then(Statement(ts, p), LAMBDA s :
                     IF AtStatementEnd(ts, s.p, terms) \/ At(ts, s.p) = "end"
                     THEN Block(ts, s.p, terms, Append(out, s.v))
                     ELSE Fail(1025))

Body(ts, p, terms) == Block(ts, p, terms, <<>>)

Condition(ts, p) ==
    Then(Expr(ts, p), LAMBDA c : Then(Expect(ts, c.p, "then"), LAMBDA r : Ok(r.p, c.v)))

Branch(cond, body) == [cond |-> cond, body |-> body]
If(branches, els)  == [k |-> "if", branches |-> branches, els |-> els]

\* What follows the body of a block If: ElseIf parts, an Else, End If.
IfBranches(ts, p, bs) ==
    CASE At(ts, p) = "elseif" ->
            Then(Condition(ts, p + 1), LAMBDA c :
                 Then(Body(ts, c.p, {"end if", "elseif", "else"}), LAMBDA b :
                      IfBranches(ts, b.p, Append(bs, Branch(c.v, b.v)))))
      [] At(ts, p) = "else" ->
            Then(Body(ts, p + 1, {"end if"}), LAMBDA b : EndOf(ts, b.p, "if", If(bs, <<b.v>>)))
      [] OTHER -> EndOf(ts, p, "if", If(bs, <<>>))

\* The statements of a one-line If, up to the end of the line or an Else.
InlineBody(ts, from, out) ==
    LET p == CHOOSE q \in from..(Len(ts) + 1) :
                 At(ts, q) # ":" /\ \A i \in from..(q - 1) : At(ts, i) = ":"
    IN  IF At(ts, p) \in {"nl", "eof", "else", "elseif"} \/ TermAt(ts, p) = "end if"
        THEN Ok(p, out)
        ELSE Then(Statement(ts, p), LAMBDA s :
                  IF At(ts, s.p) = ":" THEN InlineBody(ts, s.p, Append(out, s.v))
                                       ELSE Ok(s.p, Append(out, s.v)))

\* End If is optional on one line.
InlineEnd(ts, p, v) == Ok(IF TermAt(ts, p) = "end if" THEN p + 2 ELSE p, v)
InlineIf(ts, c, bs) ==
    Then(InlineBody(ts, c.p, <<>>), LAMBDA b :
         LET all == Append(bs, Branch(c.v, b.v))
         IN  CASE At(ts, b.p) = "elseif" ->
                    Then(Condition(ts, b.p + 1), LAMBDA d : InlineIf(ts, d, all))
               [] At(ts, b.p) = "else" ->
                    Then(InlineBody(ts, b.p + 1, <<>>), LAMBDA e :
                         InlineEnd(ts, e.p, If(all, <<e.v>>)))
               [] OTHER -> InlineEnd(ts, b.p, If(all, <<>>)))

\* A statement on the line of Then makes it the one-line form.
IfStatement(ts, p) ==
    Then(Condition(ts, p + 1), LAMBDA c :
         IF At(ts, c.p) \notin {"nl", "eof"} THEN InlineIf(ts, c, <<>>)
         ELSE Then(Body(ts, c.p, {"end if", "elseif", "else"}), LAMBDA b :
                   IfBranches(ts, b.p, <<Branch(c.v, b.v)>>)))

WhileStatement(ts, p) ==
    Then(Expr(ts, p + 1), LAMBDA c :
         Then(Body(ts, c.p, {"wend"}), LAMBDA b :
              Then(Expect(ts, b.p, "wend"), LAMBDA r :
                   Ok(r.p, [k |-> "while", cond |-> c.v, body |-> b.v]))))

\* The condition goes before or after the body, never both; test says which.
DoStatement(ts, p) ==
    LET Tested(q) == At(ts, q) \in {"while", "until"}
        Test(q)   == IF Tested(q) THEN Expr(ts, q + 1) ELSE Ok(q, Missing)
        Node(test, c, b) == [k |-> "do", test |-> test, cond |-> c, body |-> b]
    IN  Then(Test(p + 1), LAMBDA pre :
             Then(Body(ts, pre.p, {"loop"}), LAMBDA b :
                  Then(Expect(ts, b.p, "loop"), LAMBDA r :
                       IF Tested(p + 1)
                       THEN Ok(r.p, Node("pre" \o At(ts, p + 1), pre.v, b.v))
                       ELSE Then(Test(r.p), LAMBDA post :
                                 Ok(post.p, Node(IF Tested(r.p) THEN "post" \o At(ts, r.p)
                                                 ELSE "none", post.v, b.v))))))

LoopVar(ts, p) ==
    Then(PostfixTarget(ts, p), LAMBDA e :
         IF e.v.k \in {"id", "member", "index", "wmember"} THEN e ELSE Fail(1010))

\* The names after Next are redundant and skipped.
RECURSIVE SkipNames(_, _)
SkipNames(ts, p) == CASE At(ts, p) # "id"    -> p
                      [] At(ts, p + 1) = "," -> SkipNames(ts, p + 2)
                      [] OTHER               -> p + 1

ForStatement(ts, p) ==
    LET each == At(ts, p + 1) = "each"
        LoopBody(q) == Then(Body(ts, q, {"next"}), LAMBDA b :
                            Then(Expect(ts, b.p, "next"), LAMBDA r : Ok(r.p, b.v)))
        Step(q) == IF At(ts, q) = "step" THEN Expr(ts, q + 1) ELSE Ok(q, Missing)
    IN  IF each
        THEN Then(LoopVar(ts, p + 2), LAMBDA v :
             Then(Expect(ts, v.p, "in"), LAMBDA i :
             Then(Expr(ts, i.p), LAMBDA s :
             Then(LoopBody(s.p), LAMBDA b :
                  Ok(Eat(ts, b.p, "id"),
                     [k |-> "foreach", var |-> v.v, seq |-> s.v, body |-> b.v])))))
        ELSE Then(LoopVar(ts, p + 1), LAMBDA v :
             Then(Expect(ts, v.p, "="), LAMBDA q :
             Then(Expr(ts, q.p), LAMBDA f :
             Then(Expect(ts, f.p, "to"), LAMBDA t :
             Then(Expr(ts, t.p), LAMBDA u :
             Then(Step(u.p), LAMBDA s :
             Then(LoopBody(s.p), LAMBDA b :
                  Ok(SkipNames(ts, b.p),
                     [k |-> "for", var |-> v.v, from |-> f.v, to |-> u.v,
                      step |-> s.v, body |-> b.v]))))))))

\* Case Else is a clause without values.
Cases(ts, from, out) ==
    LET p == SkipSeps(ts, from)
        Values == IF At(ts, p + 1) = "else" THEN Ok(p + 2, <<>>)
                  ELSE Commas(ts, p + 1, "expr", <<>>)
    IN  CASE TermAt(ts, p) = "end select" \/ At(ts, p) = "eof" -> Ok(p, out)
          [] At(ts, p) # "case" -> Fail(1002)
          [] OTHER -> Then(Values, LAMBDA vs :
                      Then(Body(ts, vs.p, {"case", "end select"}), LAMBDA b :
                           Cases(ts, b.p, Append(out, [values |-> vs.v, body |-> b.v]))))

SelectStatement(ts, p) ==
    Then(Expr(ts, Eat(ts, p + 1, "case")), LAMBDA s :
         Then(Cases(ts, s.p, <<>>), LAMBDA cs :
              EndOf(ts, cs.p, "select", [k |-> "select", subject |-> s.v, cases |-> cs.v])))

WithStatement(ts, p) ==
    Then(Expr(ts, p + 1), LAMBDA s :
         Then(Body(ts, s.p, {"end with"}), LAMBDA b :
              EndOf(ts, b.p, "with", [k |-> "with", subject |-> s.v, body |-> b.v])))

----------------------------------------------------------------------------
(* Definitions.                                                               *)

\* parse_func: Sub or Function at p.
FuncDef(ts, p, vis, default) ==
    LET word == At(ts, p)
    IN  Then(PlainIdent(ts, p + 1), LAMBDA n :
        Then(Params(ts, n.p), LAMBDA ps :
        Then(Body(ts, ps.p, {"end " \o word}), LAMBDA b :
             EndOf(ts, b.p, word,
                   [k |-> "function", name |-> n.v, params |-> ps.v, body |-> b.v,
                    function |-> word = "function", vis |-> vis, default |-> default]))))

PropDef(ts, p, vis, default) ==
    IF At(ts, p + 1) \notin {"get", "let", "set"} THEN Fail(1002)
    ELSE Then(PlainIdent(ts, p + 2), LAMBDA n :
         Then(Params(ts, n.p), LAMBDA ps :
         Then(Body(ts, ps.p, {"end property"}), LAMBDA b :
              EndOf(ts, b.p, "property",
                    [k |-> "property", kind |-> At(ts, p + 1), name |-> n.v, params |-> ps.v,
                     body |-> b.v, vis |-> vis, default |-> default]))))

EmptyClass(name) == [k |-> "class", name |-> name, fields |-> <<>>, methods |-> <<>>,
                     props |-> <<>>, consts |-> <<>>, default |-> ""]

\* The extent of a field's dimension; one that is no constant counts as 0.
FieldExtent(e) == IF e.k \in {"int", "long"} /\ e.v >= 0 THEN e.v + 1 ELSE 0
Fields(vars, vis) ==
    [i \in DOMAIN vars |->
        [name |-> vars[i].name, vis |-> vis,
         bounds |-> [d \in DOMAIN vars[i].dims |-> FieldExtent(vars[i].dims[d])]]]

\* The members of a class, up to End Class.  The last Default one is it.
ClassBody(ts, from, def) ==
    LET p == SkipSeps(ts, from)
        q == IF At(ts, p) \in {"public", "private"} THEN p + 1 ELSE p
        vis == IF At(ts, p) = "private" THEN "private" ELSE "public"
        r == Eat(ts, q, "default")
        Defaulted(m) == IF r > q THEN [def EXCEPT !.default = m.name] ELSE def
    IN  CASE TermAt(ts, p) = "end class" \/ At(ts, p) = "eof" -> Ok(p, def)
          [] At(ts, r) \in {"sub", "function"} ->
                Then(FuncDef(ts, r, vis, r > q), LAMBDA f :
                     ClassBody(ts, f.p, [Defaulted(f.v) EXCEPT !.methods = Append(@, f.v)]))
          [] At(ts, r) = "property" ->
                Then(PropDef(ts, r, vis, r > q), LAMBDA f :
                     ClassBody(ts, f.p, [Defaulted(f.v) EXCEPT !.props = Append(@, f.v)]))
          [] At(ts, r) = "const" ->
                Then(Commas(ts, r + 1, "const", <<>>), LAMBDA cs :
                     ClassBody(ts, cs.p, [def EXCEPT !.consts = @ \o cs.v]))
          [] OTHER ->
                Then(Commas(ts, Eat(ts, r, "dim"), "dim", <<>>), LAMBDA vs :
                     ClassBody(ts, vs.p, [def EXCEPT !.fields = @ \o Fields(vs.v, vis)]))

ClassDef(ts, p) ==
    Then(PlainIdent(ts, p + 1), LAMBDA n :
         Then(ClassBody(ts, n.p, EmptyClass(n.v)), LAMBDA d : EndOf(ts, d.p, "class", d.v)))

----------------------------------------------------------------------------
(* Calls and assignments.  F(1) * 8, 7 calls F with (1) * 8 and 7, F(1) = 2   *)
(* assigns: only what follows the parentheses tells.  The chain is read in    *)
(* full, and the last group is given back when an operator turns up.          *)

Call(e) == [k |-> "call", e |-> e]

\* .name with no space before it and (args), up to position limit; groups has
\* where each ( was.
RECURSIVE CallChain(_, _, _, _)
CallChain(ts, e, groups, limit) ==
    CASE e.p < limit /\ At(ts, e.p) = "." /\ ~TokenAt(ts, e.p).sp ->
            Then(IdentName(ts, e.p + 1), LAMBDA n :
                 CallChain(ts, Ok(n.p, Member(e.v, n.v)), groups, limit))
      [] e.p < limit /\ At(ts, e.p) = "(" ->
            Then(ArgList(ts, e.p + 1), LAMBDA as :
                 CallChain(ts, Ok(as.p, Index(e.v, as.v)), Append(groups, e.p), limit))
      [] OTHER -> [p |-> e.p, v |-> e.v, groups |-> groups]

\* A sole argument in parentheses goes by value in a statement.
ByValue(e) == IF e.k = "index" /\ Len(e.args) = 1 /\ e.args[1] # Missing
              THEN [e EXCEPT !.args = <<[k |-> "paren", e |-> e.args[1]]>>] ELSE e

CallOrAssign(ts, p) ==
    Then(Primary(ts, p), LAMBDA e :
    Then(CallChain(ts, e, <<>>, Len(ts) + 1), LAMBDA full :
    LET gs == full.groups
        Done(q) == AtStatementEnd(ts, q, AllTerms)
        complete == At(ts, full.p) = "=" \/ Done(full.p)
        target == IF complete \/ gs = <<>> THEN full ELSE CallChain(ts, e, <<>>, gs[Len(gs)])
    IN  CASE At(ts, target.p) = "=" ->
                Then(Expr(ts, target.p + 1), LAMBDA v :
                     Ok(v.p, [k |-> "assign", target |-> target.v, value |-> v.v]))
          [] complete /\ At(ts, target.p) # "=" ->
                Ok(target.p, Call(IF gs # <<>> THEN ByValue(target.v) ELSE target.v))
          [] OTHER ->
                Then(Commas(ts, target.p, "arg", <<>>), LAMBDA as :
                     IF Done(as.p) THEN Ok(as.p, Call(Index(target.v, as.v)))
                                   ELSE Fail(1025))))

----------------------------------------------------------------------------
(* The statements by their first word.                                        *)

\* Set and Let name their target and value outright.
Targeted(ts, p, kind) ==
    Then(PostfixTarget(ts, p), LAMBDA t :
    Then(Expect(ts, t.p, "="), LAMBDA q :
    Then(Expr(ts, q.p), LAMBDA v :
         Ok(v.p, [k |-> kind, target |-> t.v, value |-> v.v]))))

OnError(ts, p) ==
    CASE At(ts, p + 1) # "error" -> Fail(1002)
      [] At(ts, p + 2) = "resume" -> Then(Expect(ts, p + 3, "next"), LAMBDA r :
                                          Ok(r.p, [k |-> "resumenext"]))
      [] At(ts, p + 2) = "goto" /\ At(ts, p + 3) \in {"int", "long"} /\ ts[p + 3].v = 0 ->
            Ok(p + 4, [k |-> "goto0"])
      [] OTHER -> Fail(1002)

ListOf(ts, p, kind, Node(_)) ==
    Then(Commas(ts, p, kind, <<>>), LAMBDA r : Ok(r.p, Node(r.v)))
Dims(vs)   == [k |-> "dim", vars |-> vs]
Consts(cs) == [k |-> "const", items |-> cs]

\* Public and Private open a definition or declare variables.
VisibleDecl(ts, p) ==
    LET r == Eat(ts, p + 1, "default")
    IN  CASE At(ts, r) \in {"sub", "function"} -> FuncDef(ts, r, At(ts, p), r > p + 1)
          [] At(ts, r) = "property" -> PropDef(ts, r, At(ts, p), r > p + 1)
          [] At(ts, r) = "const"    -> ListOf(ts, r + 1, "const", Consts)
          [] OTHER                  -> ListOf(ts, r, "dim", Dims)

\* An Option takes the rest of its line; Explicit is the one that is known.
OptionStatement(ts, p) ==
    LET q == CHOOSE q \in (p + 1)..Len(ts) :
                 /\ IsSep(ts, q) \/ At(ts, q) = "eof"
                 /\ \A i \in (p + 1)..(q - 1) : ~IsSep(ts, i)
    IN  Ok(q, [k |-> "option",
               explicit |-> /\ q = p + 2
                            /\ At(ts, p + 1) \in {"explicit", "id"}
                            /\ ts[p + 1].v = "explicit"])

\* Whether the statements read include Option Explicit, at any depth.
AnyExplicit(ts) ==
    LET Opens(p) == At(ts, p) = "option" /\ (p = 1 \/ At(ts, p - 1) # ".")
    IN  \E p \in 1..Len(ts) :
            /\ Opens(p)
            /\ OptionStatement(ts, p).v.explicit
            /\ \A j \in 1..(p - 1) : Opens(j) => \E i \in j..p : IsSep(ts, i)

Statement(ts, p) ==
    LET w == At(ts, p)
    IN  CASE w = "option" -> OptionStatement(ts, p)
          [] w = "dim"    -> ListOf(ts, p + 1, "dim", Dims)
          [] w = "redim"  -> LET q == Eat(ts, p + 1, "preserve") IN
                             ListOf(ts, q, "dim", LAMBDA vs :
                                    [k |-> "redim", preserve |-> q > p + 1, vars |-> vs])
          [] w = "const"  -> ListOf(ts, p + 1, "const", Consts)
          [] w = "erase"  -> ListOf(ts, p + 1, "expr", LAMBDA es : [k |-> "erase", items |-> es])
          [] w = "if"     -> IfStatement(ts, p)
          [] w = "while"  -> WhileStatement(ts, p)
          [] w = "do"     -> DoStatement(ts, p)
          [] w = "for"    -> ForStatement(ts, p)
          [] w = "select" -> SelectStatement(ts, p)
          [] w = "with"   -> WithStatement(ts, p)
          [] w = "exit"   -> IF At(ts, p + 1) \in {"do", "for", "function", "sub", "property"}
                             THEN Ok(p + 2, [k |-> "exit", what |-> At(ts, p + 1)])
                             ELSE Fail(1002)
          [] w = "on"     -> OnError(ts, p)
          [] w = "set"    -> Targeted(ts, p + 1, "set")
          [] w = "let"    -> Targeted(ts, p + 1, "assign")
          [] w = "call"   -> Then(PostfixTarget(ts, p + 1), LAMBDA e : Ok(e.p, Call(e.v)))
          [] w = "stop"   -> Ok(p + 1, [k |-> "stop"])
          [] w = "class"  -> ClassDef(ts, p)
          [] w \in {"sub", "function"} -> FuncDef(ts, p, "public", FALSE)
          [] w = "property" /\ At(ts, p + 1) \in {"get", "let", "set"} ->
                             PropDef(ts, p, "public", FALSE)
          [] w \in {"public", "private"} -> VisibleDecl(ts, p)
          [] OTHER        -> CallOrAssign(ts, p)

\* parse: a whole script; what is left after the block must be its end.
Parse(ts) ==
    Then(Body(ts, 1, {}), LAMBDA b :
         LET p == SkipSeps(ts, b.p)
         IN  IF At(ts, p) = "eof"
             THEN Ok(p, [body |-> b.v, explicit |-> AnyExplicit(ts)]) ELSE Fail(1002))

\* parse_expression: one expression, for Eval.
ParseExpression(ts) ==
    Then(Expr(ts, SkipSeps(ts, 1)), LAMBDA e :
         LET p == SkipSeps(ts, e.p) IN IF At(ts, p) = "eof" THEN Ok(p, e.v) ELSE Fail(1002))
===============================================================================
