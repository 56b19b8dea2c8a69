-------------------------------- MODULE Interp --------------------------------
(* The tree-walking evaluator of the scripting language                       *)
(* (src/client/src/interp.rs), the members of its objects (members.rs,        *)
(* objects/dictionary.rs) and the built-in functions that run script.         *)
(*                                                                            *)
(* m is the interpreter: mem has the values of the slots, and a scope maps a  *)
(* name to a slot, so that a parameter by reference is a name for the slot of *)
(* the caller.  An array is a value, copied as the code copies it on a write. *)
(* An object is its place in objs, and 0 is Nothing.  Whatever runs gives     *)
(* [s, f, v]: the interpreter after it, how it ended ("ok", "error" or one of *)
(* the exits) and its value or error.  Of Err the number and the description  *)
(* are kept; its source and help fields are set and read as the description   *)
(* is.  Lines, the locale, random numbers and RegExp are left out.            *)
(* calls and halt are not the code's: they count the call statements that are *)
(* under way, and note where a run was first halted by a stop or its budget.  *)
EXTENDS Builtins, SequencesExt, TLC

CONSTANTS
    MaxDepth,         \* nested calls before out of stack, 512 in the code
    AbortPollSteps,   \* steps between two questions for a stop, 64 in the code
    HostGlobals       \* the names the host knows, with their values

P == INSTANCE Parser

AbortError == -2147213311   \* ABORT_ERROR, raised by a stop
ErrObject == 1              \* the one object that is always there

Ok(m, v)   == [s |-> m, f |-> "ok", v |-> v]
Done(m)    == Ok(m, Empty)
Standard   == <<"e", "r", "r", "o", "r">>     \* describe: the text of a code
VbError(n) == [number |-> n, description |-> Standard]
Fails(m, n)  == [s |-> m, f |-> "error", v |-> VbError(n)]
Leaves(m, f) == [s |-> m, f |-> f, v |-> Empty]
Lift(m, v)   == IF Raised(v) THEN Fails(m, v.v) ELSE Ok(m, v)
Do(r, F(_))  == IF r.f = "ok" THEN F(r) ELSE r

NoError == [number |-> 0, description |-> <<>>]
Obj(id) == Val("obj", id)
IsArray(v) == v.vt = "array"
IsObject(v) == v.vt = "obj"

----------------------------------------------------------------------------
(* Scopes.                                                                    *)

InProc(m) == m.frames # <<>>
Top(m)    == m.frames[Len(m.frames)]
Me(m)     == IF InProc(m) THEN Top(m).me ELSE 0
MyFields(m) == IF Me(m) = 0 THEN <<>> ELSE m.objs[Me(m)].fields

\* lookup_slot: the frame, the fields of Me, the globals; 0 when in none.
SlotOf(m, name) ==
    CASE InProc(m) /\ name \in DOMAIN Top(m).vars -> Top(m).vars[name]
      [] name \in DOMAIN MyFields(m) /\ ~(InProc(m) /\ name \in DOMAIN Top(m).vars) ->
            MyFields(m)[name]
      [] OTHER -> IF name \in DOMAIN m.globals THEN m.globals[name] ELSE 0
Read(m, slot)  == m.mem[slot]
Write(m, slot, v) == [m EXCEPT !.mem[slot] = v]
Bound(m, name) == SlotOf(m, name) # 0
ValueOf(m, name) == Read(m, SlotOf(m, name))

DeclaredHere(m, name) == name \in IF InProc(m) THEN DOMAIN Top(m).vars ELSE DOMAIN m.globals

Declare(m, name, v) ==
    LET slot == Len(m.mem) + 1
        grown == [m EXCEPT !.mem = Append(@, v)]
    IN  IF InProc(m) THEN [grown EXCEPT !.frames[Len(m.frames)].vars = name :> slot @@ @]
                     ELSE [grown EXCEPT !.globals = name :> slot @@ @]

\* slot_for_write: a name that is not declared is, unless Option Explicit.
SlotForWrite(m, name) ==
    CASE Bound(m, name)  -> Ok(m, SlotOf(m, name))
      [] ~Bound(m, name) /\ m.explicit -> Fails(m, 500)
      [] OTHER -> LET d == Declare(m, name, Empty) IN Ok(d, SlotOf(d, name))

OnError(m) == IF InProc(m) THEN Top(m).onerr ELSE m.gerr
SetOnError(m, on) ==
    LET cleared == [m EXCEPT !.err = NoError]
    IN  IF InProc(m) THEN [cleared EXCEPT !.frames[Len(m.frames)].onerr = on]
                     ELSE [cleared EXCEPT !.gerr = on]
SetErr(m, e) == [m EXCEPT !.err = e]

\* History: where a run was first halted, and that an error was resumed from
\* since.
Halted(m) == IF m.halt.on THEN m
             ELSE [m EXCEPT !.halt = [on |-> TRUE, said |-> Len(m.out), calls |-> m.calls,
                                      resumed |-> FALSE]]
Resumed(m) == IF m.halt.on THEN [m EXCEPT !.halt.resumed = TRUE] ELSE m

\* ctrl: a control expression that fails under On Error Resume Next is
\* skipped, and what it would have decided is left undecided.
Ctrl(r) == IF r.f = "error" /\ OnError(r.s) THEN Leaves(SetErr(Resumed(r.s), r.v), "skipped")
           ELSE r

\* tick: a step is charged before every statement and every turn of a loop.
\* A stop stays; the host is asked for one every AbortPollSteps steps.
TickForgetful(m) ==                         \* mutant: a stop does not stay
    LET asks  == m.steps + 1 >= AbortPollSteps
        p == [m EXCEPT !.steps = IF asks THEN 0 ELSE @ + 1, !.asked = IF asks THEN @ + 1 ELSE @]
    IN  IF asks /\ p.asked = m.stopAt THEN Fails(Halted(p), AbortError)
        ELSE IF m.budget = 0 THEN Fails(Halted(p), 28)
        ELSE Done([p EXCEPT !.budget = IF @ > 0 THEN @ - 1 ELSE @])
Tick(m) ==
    LET asks  == m.steps + 1 >= AbortPollSteps
        p == [m EXCEPT !.steps = IF asks THEN 0 ELSE @ + 1, !.asked = IF asks THEN @ + 1 ELSE @]
        stops == asks /\ p.asked = m.stopAt
    IN  CASE m.abort -> Fails(Halted(m), AbortError)
          [] ~m.abort /\ stops -> Fails(Halted([p EXCEPT !.abort = TRUE]), AbortError)
          [] ~m.abort /\ ~stops /\ m.budget = 0 -> Fails(Halted(p), 28)
          [] OTHER -> Done([p EXCEPT !.budget = IF @ > 0 THEN @ - 1 ELSE @])

----------------------------------------------------------------------------
(* Arrays.                                                                    *)

Product(dims) == FoldLeft(LAMBDA a, d : a * d, 1, dims)
NewArray(dims, fixed) == Array(dims, [i \in 1..Product(dims) |-> Empty], fixed)
Owned(a) == [a EXCEPT !.v.owned = TRUE]
Unsized  == Array(<<>>, <<>>, FALSE)
Disown(v) == IF IsArray(v) THEN [v EXCEPT !.v.owned = FALSE] ELSE v

LongMax == 2 ^ (LongBits - 1) - 1

\* offset: the first subscript varies fastest; 0 when it is out of bounds.
Strides(dims) == [i \in DOMAIN dims |-> Product(SubSeq(dims, 1, i - 1))]
Offset(dims, idx) ==
    IF Len(idx) # Len(dims) \/ dims = <<>> \/ \E i \in DOMAIN idx : idx[i] >= dims[i] THEN 0
    ELSE 1 + FoldLeft(LAMBDA a, i : a + idx[i] * Strides(dims)[i], 0, [i \in DOMAIN idx |-> i])
IndexAt(dims, off) == [i \in DOMAIN dims |-> ((off - 1) \div Strides(dims)[i]) % dims[i]]

\* redim_preserve: the elements both shapes have stay.
Preserved(a, dims) ==
    LET Was(off) == Offset(a.v.dims, IndexAt(dims, off))
    IN  Array(dims, [off \in 1..Product(dims) |->
                        IF Was(off) # 0 THEN a.v.data[Was(off)] ELSE Empty], a.v.fixed)

\* to_subscripts: numbers from 0 to the largest Long, rounded; the first that is none fails.
Subscripts(vs, ToWhole(_)) ==
    FoldLeft(LAMBDA out, v : Use(out, LAMBDA o : Use(ToF64(v), LAMBDA x :
                 IF x.v.n < 0 \/ Less(Whole(LongMax), x.v) THEN Raise(Subscript)
                 ELSE Val("subscripts", Append(o.v, ToWhole(x.v))))),
             Val("subscripts", <<>>), vs)
ToSubscripts(vs) == Subscripts(vs, RoundHalfEven)

\* set_nested: along a path of subscripts, one group for each array.
RECURSIVE SetNested(_, _, _)
SetNested(a, path, v) ==
    IF ~IsArray(a) THEN Raise(TypeMismatch)
    ELSE LET off == Offset(a.v.dims, Head(path))
         IN  IF off = 0 THEN Raise(Subscript)
             ELSE Use(IF Len(path) = 1 THEN v ELSE SetNested(a.v.data[off], Tail(path), v),
                      LAMBDA w : [a EXCEPT !.v.data[off] = w])

----------------------------------------------------------------------------
(* Objects.                                                                   *)

\* The objects a value holds, and those that the program can still reach.
RECURSIVE HeldBy(_), Reached(_, _)
HeldBy(v) == CASE IsObject(v) -> {v.v} \ {0}
               [] IsArray(v)  -> UNION {HeldBy(v.v.data[i]) : i \in DOMAIN v.v.data}
               [] OTHER       -> {}
SlotsOf(vars) == {vars[n] : n \in DOMAIN vars}
Parts(m, id) ==
    LET o == m.objs[id]
    IN  CASE o.kind = "class" -> UNION {HeldBy(Read(m, s)) : s \in SlotsOf(o.fields)}
          [] o.kind = "dict"  -> UNION {HeldBy(o.entries[i][1]) \cup HeldBy(o.entries[i][2]) :
                                            i \in DOMAIN o.entries}
          [] OTHER            -> {}
Reached(m, ids) ==
    LET more == ids \cup UNION {Parts(m, id) : id \in ids}
    IN  IF more = ids THEN ids ELSE Reached(m, more)
Live(m) ==
    LET slots == SlotsOf(m.globals) \cup UNION {SlotsOf(m.frames[i].vars) : i \in DOMAIN m.frames}
        values == {Read(m, s) : s \in slots}
        Among(vs) == UNION {HeldBy(vs[i]) : i \in DOMAIN vs}
    IN  Reached(m, UNION {HeldBy(Read(m, s)) : s \in slots}
                   \cup Among(m.with) \cup Among(m.held)
                   \cup ({m.frames[i].me : i \in DOMAIN m.frames} \ {0}))

Named(defs, name) == SelectSeq(defs, LAMBDA d : d.name = name)
PropNamed(def, kind, name) == SelectSeq(def.props, LAMBDA p : p.name = name /\ p.kind = kind)
NewObject(m, o) == Ok([m EXCEPT !.objs = Append(@, o)], Obj(Len(m.objs) + 1))

\* ClassObj::new: a field with bounds is an array of the instance.
NewInstance(m, def) ==
    LET n == Len(m.mem)
        InitOf(i) == IF def.fields[i].bounds = <<>> THEN Empty
                    ELSE Owned(NewArray(def.fields[i].bounds, TRUE))
    IN  NewObject([m EXCEPT !.mem = @ \o [i \in DOMAIN def.fields |-> InitOf(i)]],
                  [kind |-> "class", def |-> def,
                   fields |-> [x \in {def.fields[i].name : i \in DOMAIN def.fields} |->
                                  n + CHOOSE i \in DOMAIN def.fields : def.fields[i].name = x]])

----------------------------------------------------------------------------
(* Dictionary (objects/dictionary.rs).                                        *)

KeyEq(a, b) ==
    CASE a.vt = "str" /\ b.vt = "str" -> a.v = b.v
      [] {a.vt, b.vt} \subseteq {"obj"} -> a.v = b.v
      [] a.vt = b.vt /\ a.vt \in {"empty", "null"} -> TRUE
      [] {a.vt, b.vt} \cap {"obj", "array"} # {} /\ ~({a.vt, b.vt} \subseteq {"obj"}) -> FALSE
      [] OTHER -> LET x == ToF64(a)
                      y == ToF64(b)
                  IN  ~Raised(x) /\ ~Raised(y) /\ x.v = y.v
FindKey(d, key) ==
    LET at == {i \in DOMAIN d.entries : KeyEq(d.entries[i][1], key)}
    IN  IF at = {} THEN 0 ELSE CHOOSE i \in at : \A j \in at : i <= j
Keys(d)  == [i \in DOMAIN d.entries |-> d.entries[i][1]]
Items(d) == [i \in DOMAIN d.entries |-> d.entries[i][2]]

\* item: reading a key that is missing puts it in.
DictItem(m, id, key) ==
    LET d == m.objs[id]
        i == FindKey(d, key)
    IN  IF i # 0 THEN Ok(m, d.entries[i][2])
        ELSE Done([m EXCEPT !.objs[id].entries = Append(@, <<key, Empty>>)])
SetItem(m, id, key, v) ==
    LET i == FindKey(m.objs[id], key)
    IN  Done([m EXCEPT !.objs[id].entries = IF i # 0 THEN [@ EXCEPT ![i][2] = v]
                                                     ELSE Append(@, <<key, v>>)])

DictGet(m, id, name, args) ==
    LET d == m.objs[id]
        n == CASE name = "add" -> 2
               [] name \in {"item", "exists", "remove", "key"} -> 1
               [] OTHER -> 0
        i == IF n > 0 /\ Len(args) >= n THEN FindKey(d, args[1]) ELSE 0
        all == IF name = "keys" THEN Keys(d) ELSE Items(d)
    IN  IF Len(args) < n THEN Fails(m, WrongArgCount)
        ELSE CASE name = "count"  -> Ok(m, Val("i4", Len(d.entries)))
               [] name = "item"   -> DictItem(m, id, args[1])
               [] name = "add"    -> IF i # 0 THEN Fails(m, 457)
                                     ELSE Done([m EXCEPT !.objs[id].entries =
                                                    Append(@, <<args[1], args[2]>>)])
               [] name = "exists" -> Ok(m, Bool(i # 0))
               [] name = "remove" -> IF i = 0 THEN Fails(m, InvalidCall)
                                     ELSE Done([m EXCEPT !.objs[id].entries = RemoveAt(@, i)])
               [] name = "removeall" -> Done([m EXCEPT !.objs[id].entries = <<>>])
               [] name \in {"keys", "items"} ->
                    IF args = <<>> THEN Ok(m, FromValues(all))
                    ELSE Do(Lift(m, ToF64(args[1])), LAMBDA r :
                            LET k == Truncated(r.v.v) + 1
                            IN  IF k \in DOMAIN all THEN Ok(m, all[k]) ELSE Fails(m, Subscript))
               [] name = "comparemode" -> Ok(m, Val("i4", d.mode))
               [] OTHER -> Fails(m, ObjectNoValue)

DictSet(m, id, name, args, v) ==
    LET i == FindKey(m.objs[id], args[1])
    IN  CASE name \in {"item", "key"} /\ args = <<>> -> Fails(m, WrongArgCount)
          [] name = "item" /\ args # <<>> -> SetItem(m, id, args[1], v)
          [] name = "key" /\ args # <<>>  ->
                IF i = 0 THEN Fails(m, InvalidCall)
                ELSE Done([m EXCEPT !.objs[id].entries[i][1] = v])
          [] name = "comparemode" ->
                Do(Lift(m, ToF64(v)), LAMBDA r :
                   IF Truncated(r.v.v) \notin {0, 1} THEN Fails(m, InvalidCall)
                   ELSE Done([m EXCEPT !.objs[id].mode = Truncated(r.v.v)]))
          [] OTHER -> Fails(m, ObjectNoValue)

----------------------------------------------------------------------------
(* Err.                                                                       *)

WholeNumber(v, F(_)) ==
    Use(ToF64(v), LAMBDA x : IF Fits(RoundHalfEven(x.v), LongBits) THEN F(RoundHalfEven(x.v))
                             ELSE Raise(Overflow))

\* An argument left out keeps what Err holds, or the standard text.
ErrRaise(m, args) ==
    IF args = <<>> THEN Fails(m, WrongArgCount)
    ELSE LET n == WholeNumber(args[1], LAMBDA k : Val("number", k))
             given == Len(args) >= 3 /\ args[3].vt # "errcode"
             text == CASE given -> ToVbString(args[3])
                       [] ~given /\ m.err.description # <<>> -> Str(m.err.description)
                       [] OTHER -> Str(Standard)
         IN  CASE Raised(n) -> Fails(m, n.v)
               [] ~Raised(n) /\ (n.v = 0 \/ n.v > 65535) -> Fails(m, InvalidCall)
               [] OTHER -> Do(Lift(m, text), LAMBDA t :
                              [Fails(m, n.v) EXCEPT !.v.description = t.v.v])

ErrGet(m, name, args) ==
    CASE name = "number"      -> Ok(m, Val("i4", m.err.number))
      [] name = "description" -> Ok(m, Str(m.err.description))
      [] name = "clear"       -> Done(SetErr(m, NoError))
      [] name = "raise"       -> ErrRaise(m, args)
      [] OTHER                -> Fails(m, ObjectNoValue)
ErrSet(m, name, v) ==
    CASE name = "number" -> Do(Lift(m, WholeNumber(v, LAMBDA k : Val("number", k))), LAMBDA r :
                               Done([m EXCEPT !.err.number = r.v.v]))
      [] name = "description" -> Do(Lift(m, ToVbString(v)), LAMBDA r :
                                    Done([m EXCEPT !.err.description = r.v.v]))
      [] OTHER -> Fails(m, ObjectNoValue)

----------------------------------------------------------------------------
(* The host.  It asks the page for a stop before a call and after it; the     *)
(* call is made all the same, and the stop lands at the next statement.  Of   *)
(* the game's calls there is say, which writes.                               *)

NotMine == Val("notmine", 0)
Poll(m) == [m EXCEPT !.asked = @ + 1, !.abort = @ \/ m.asked + 1 = m.stopAt]
HostCall(m, name, values) ==
    LET asked == Poll(m)
    IN  IF name = "say" THEN Done(Poll([asked EXCEPT !.out = @ \o values]))
                        ELSE Ok(Poll(asked), NotMine)

----------------------------------------------------------------------------
RECURSIVE Hoist(_, _), ExecBlock(_, _), Exec(_, _), While(_, _), DoLoop(_, _), ForTurn(_, _, _, _, _),
          EachItem(_, _, _), CaseFrom(_, _, _, _), IfFrom(_, _, _), AssignTo(_, _, _, _), Eval(_, _),
          EvalAll(_, _, _), EvalArgs(_, _, _, _), WriteBack(_, _), Invoke(_, _, _, _, _),
          CallDefault(_, _, _), ClassGet(_, _, _, _, _)

(* Values of expressions.                                                     *)

\* deref_value: an object stands for its default value.
Deref(m, v) == CASE IsObject(v) /\ v.v = 0 -> Fails(m, 91)
                 [] IsObject(v) /\ v.v # 0 -> CallDefault(m, v.v, <<>>)
                 [] OTHER -> Ok(m, v)
Scalar(m, e) == Do(Eval(m, e), LAMBDA r : Deref(r.s, r.v))

\* eval_args_v
EvalAll(m, args, out) ==
    IF args = <<>> THEN Ok(m, out)
    ELSE Do(IF Head(args).k = "missing" THEN Ok(m, Val("errcode", 10)) ELSE Eval(m, Head(args)),
            LAMBDA r : EvalAll(r.s, Tail(args), Append(out, r.v)))
ArgsOf(m, args) == EvalAll(m, args, <<>>)

RECURSIVE DerefAll(_, _, _)
DerefAll(m, vs, out) ==
    IF vs = <<>> THEN Ok(m, out)
    ELSE Do(Deref(m, Head(vs)), LAMBDA r : DerefAll(r.s, Tail(vs), Append(out, r.v)))

IndexArray(m, a, idx) ==
    IF ~IsSized(a) \/ idx = <<>> THEN Fails(m, Subscript)
    ELSE Do(DerefAll(m, idx, <<>>), LAMBDA d : Do(Lift(d.s, ToSubscripts(d.v)), LAMBDA r :
            LET off == Offset(a.v.dims, r.v.v)
            IN  IF off = 0 THEN Fails(r.s, Subscript) ELSE Ok(r.s, a.v.data[off])))

\* What a value gives when it is indexed or called.
Indexed(m, v, idx, Other(_)) ==
    CASE IsArray(v) -> IndexArray(m, v, idx)
      [] IsObject(v) /\ v.v # 0 -> CallDefault(m, v.v, idx)
      [] OTHER -> Other(m)
Mismatch(m) == Fails(m, TypeMismatch)

----------------------------------------------------------------------------
(* Procedures.                                                                *)

\* eval_args_wb: a variable lends its slot, an element of an array a slot that
\* is copied back, and parentheses a value.
IsAliased(m, name) == ~InProc(m) \/ name \notin Top(m).copied
RECURSIVE IndexChain(_, _)
IndexChain(e, groups) ==
    CASE e.k = "index" -> IndexChain(e.target, <<e.args>> \o groups)
      [] e.k = "id"    -> [root |-> e.name, groups |-> groups]
      [] OTHER         -> [root |-> "", groups |-> <<>>]
IsArrayLvalue(m, e) ==
    LET root == IndexChain(e, <<>>).root
    IN  root # "" /\ Bound(m, root) /\ IsArray(ValueOf(m, root))

Ref(slot, aliased) == [k |-> "ref", slot |-> slot, aliased |-> aliased]
Passed(v)          == [k |-> "val", v |-> v]
Elided             == [k |-> "missing"]
ArgValue(m, a) == CASE a.k = "ref" -> Read(m, a.slot)
                    [] a.k = "val" -> a.v
                    [] OTHER       -> Val("errcode", 10)
ArgValues(m, as) == [i \in DOMAIN as |-> ArgValue(m, as[i])]

EvalArgs(m, args, out, back) ==
    IF args = <<>> THEN Ok(m, [args |-> out, back |-> back])
    ELSE LET a == Head(args)
             Pass(s, arg) == EvalArgs(s, Tail(args), Append(out, arg), back)
         IN  CASE a.k = "missing" -> Pass(m, Elided)
               [] a.k = "id" /\ Bound(m, a.name) ->
                    Pass(m, Ref(SlotOf(m, a.name), IsAliased(m, a.name)))
               [] a.k = "id" /\ ~Bound(m, a.name) ->
                    Do(Eval(m, a), LAMBDA r :
                       Pass(r.s, IF Bound(r.s, a.name)
                                  THEN Ref(SlotOf(r.s, a.name), IsAliased(m, a.name))
                                  ELSE Passed(r.v)))
               [] a.k = "index" /\ IsArrayLvalue(m, a.target) ->
                    Do(Eval(m, a), LAMBDA r :
                       LET slot == Len(r.s.mem) + 1
                       IN  EvalArgs([r.s EXCEPT !.mem = Append(@, r.v)], Tail(args),
                                    Append(out, Ref(slot, FALSE)),
                                    Append(back, [e |-> a, slot |-> slot])))
               [] OTHER -> Do(Eval(m, IF a.k = "paren" THEN a.e ELSE a), LAMBDA r :
                              Pass(r.s, Passed(r.v)))

WriteBackOne(m, back) ==                    \* mutant: the first element alone
    IF back = <<>> THEN Done(m) ELSE AssignTo(m, Head(back).e, Read(m, Head(back).slot), FALSE)
WriteBack(m, back) ==
    IF back = <<>> THEN Done(m)
    ELSE Do(AssignTo(m, Head(back).e, Read(m, Head(back).slot), FALSE), LAMBDA r :
            WriteBack(r.s, Tail(back)))

\* A call of the global names: elements are copied back when it failed too.
WithArgs(m, args, Call(_, _)) ==
    Do(EvalArgs(m, args, <<>>, <<>>), LAMBDA a :
       LET r == Call(a.s, a.v.args)
       IN  Do(WriteBack(r.s, a.v.back), LAMBDA w : [r EXCEPT !.s = w.s]))

\* invoke: bind the arguments in a frame of its own, and run the body.
Invoke(m, f, args, me, wantsResult) ==
    LET ps == f.params
        required == Len(SelectSeq(ps, LAMBDA p : ~p.optional))
        Kind(i) == IF i > Len(args) THEN "missing" ELSE args[i].k
        Shared(i) == Kind(i) = "ref" /\ ~ps[i].byval
        Copied(i) == ~Shared(i) \/ ~args[i].aliased
        n == Len(m.mem)
        names == {ps[i].name : i \in DOMAIN ps}
        LastOf(x) == CHOOSE i \in DOMAIN ps :
                        ps[i].name = x /\ \A j \in DOMAIN ps : ps[j].name = x => j <= i
        vars == [x \in names |-> IF Shared(LastOf(x)) THEN args[LastOf(x)].slot ELSE n + LastOf(x)]
        result == n + Len(ps) + 1
        frame == [vars |-> IF wantsResult THEN f.name :> result @@ vars ELSE vars,
                  me |-> me, onerr |-> FALSE,
                  copied |-> {ps[i].name : i \in {j \in DOMAIN ps : Copied(j)}}]
        passed == SelectSeq(args, LAMBDA a : a.k = "val")
        pushed == [m EXCEPT
                     !.mem = @ \o [i \in DOMAIN ps |-> IF Kind(i) = "missing" THEN Empty
                                                       ELSE ArgValue(m, args[i])] \o <<Empty>>,
                     !.frames = Append(@, frame),
                     !.held = @ \o [i \in DOMAIN passed |-> passed[i].v]]
        b == ExecBlock(Hoist(pushed, f.body), f.body)
        popped == [b.s EXCEPT !.frames = Front(@), !.held = SubSeq(@, 1, Len(m.held))]
    IN  CASE Len(args) > Len(ps) \/ Len(args) < required -> Fails(m, WrongArgCount)
          [] Len(args) \in required..Len(ps) /\ Len(m.frames) >= MaxDepth -> Fails(m, 28)
          [] OTHER -> CASE b.f = "error" -> [b EXCEPT !.s = popped]
                        [] b.f # "error" /\ wantsResult ->
                              Ok(popped, Read(b.s, Top(b.s).vars[f.name]))
                        [] OTHER -> Done(popped)

CallFunc(m, f, args, me)    == Invoke(m, f, args, me, f.function)
CallPropGet(m, p, args, me) == Invoke(m, p, args, me, TRUE)
CallPropSet(m, p, args, me) == Invoke(m, p, args, me, FALSE)
PassAll(vs) == [i \in DOMAIN vs |-> Passed(vs[i])]

\* construct: an unknown class is an undefined variable, or no class.
Construct(m, name) ==
    IF name \notin DOMAIN m.classes THEN Fails(m, IF Bound(m, name) THEN 506 ELSE 500)
    ELSE Do(NewInstance(m, m.classes[name]), LAMBDA o :
            LET init == Named(m.classes[name].methods, "class_initialize")
            IN  IF init = <<>> THEN o
                ELSE Do(CallFunc(o.s, init[1], <<>>, o.v.v), LAMBDA r : Ok(r.s, o.v)))

\* release: the object that was assigned away, if nothing else holds it.
Release(m, old) ==
    IF ~IsObject(old) \/ old.v = 0 \/ old.v \in Live(m) THEN Done(m)
    ELSE IF m.objs[old.v].kind # "class" THEN Done(m)
    ELSE LET term == Named(m.objs[old.v].def.methods, "class_terminate")
         IN  IF term = <<>> THEN Done(m) ELSE CallFunc(m, term[1], <<>>, old.v)

----------------------------------------------------------------------------
(* Members.                                                                   *)

\* class_get: a property, a method, a constant, a field; none that is private.
ClassGet(m, id, name, args, emptyParens) ==
    LET def == m.objs[id].def
        prop == PropNamed(def, "get", name)
        method == Named(def.methods, name)
        const == Named(def.consts, name)
        field == Named(def.fields, name)
        cur == Read(m, m.objs[id].fields[name])
    IN  CASE prop # <<>> ->
                IF prop[1].vis = "private" THEN Fails(m, ObjectNoValue)
                ELSE CallPropGet(m, prop[1], PassAll(args), id)
          [] prop = <<>> /\ method # <<>> ->
                IF method[1].vis = "private" THEN Fails(m, ObjectNoValue)
                ELSE CallFunc(m, method[1], PassAll(args), id)
          [] prop = <<>> /\ method = <<>> /\ const # <<>> -> Eval(m, const[1].value)
          [] OTHER ->
                IF field = <<>> THEN Fails(m, ObjectNoValue)
                ELSE IF field[1].vis = "private" THEN Fails(m, ObjectNoValue)
                ELSE IF args # <<>> THEN Indexed(m, cur, args, LAMBDA s : Fails(s, ObjectNoValue))
                ELSE IF emptyParens THEN Fails(m, InvalidCall) ELSE Ok(m, cur)

\* class_set: the Let or Set of a property, or a field, whose subscripts are
\* cut to whole numbers and not rounded.
ClassSet(m, id, name, args, v, isSet) ==
    LET def == m.objs[id].def
        prop == PropNamed(def, IF isSet THEN "set" ELSE "let", name)
        field == Named(def.fields, name)
        slot == m.objs[id].fields[name]
        subs == Subscripts(args, Truncated)
    IN  CASE prop # <<>> ->
                IF prop[1].vis = "private" THEN Fails(m, ObjectNoValue)
                ELSE Do(CallPropSet(m, prop[1], PassAll(Append(args, v)), id), LAMBDA r : Done(r.s))
          [] prop = <<>> /\ (field = <<>> \/ (field # <<>> /\ field[1].vis = "private")) ->
                Fails(m, ObjectNoValue)
          [] OTHER ->
                IF args = <<>> THEN Done(Write(m, slot, v))
                ELSE IF ~IsArray(Read(m, slot)) THEN Fails(m, ObjectNoValue)
                ELSE Do(Lift(m, Use(subs, LAMBDA r : SetNested(Read(m, slot), <<r.v>>, v))),
                        LAMBDA r : Done(Write(m, slot, r.v)))

GetMember(m, v, name, args, emptyParens) ==
    IF ~IsObject(v) \/ v.v = 0 THEN Fails(m, 424)
    ELSE LET kind == m.objs[v.v].kind
         IN  CASE kind = "class" -> ClassGet(m, v.v, name, args, emptyParens)
               [] kind = "dict"  -> DictGet(m, v.v, name, args)
               [] kind = "err"   -> ErrGet(m, name, args)
               [] OTHER          -> Fails(m, ObjectNoValue)
SetMember(m, v, name, args, value, isSet) ==
    IF ~IsObject(v) \/ v.v = 0 THEN Fails(m, 424)
    ELSE LET kind == m.objs[v.v].kind
         IN  CASE kind = "class" -> ClassSet(m, v.v, name, args, value, isSet)
               [] kind = "dict"  -> DictSet(m, v.v, name, args, value)
               [] kind = "err"   -> ErrSet(m, name, value)
               [] OTHER          -> Fails(m, ObjectNoValue)
SetDefault(m, v, idx, value, isSet) ==
    IF ~IsObject(v) \/ v.v = 0 THEN Fails(m, 424)
    ELSE LET o == m.objs[v.v]
         IN  CASE o.kind = "dict"  -> IF idx = <<>> THEN Fails(m, WrongArgCount)
                                      ELSE SetItem(m, v.v, idx[1], value)
               [] o.kind = "class" -> IF o.def.default = "" THEN Fails(m, ObjectNoValue)
                                      ELSE ClassSet(m, v.v, o.def.default, idx, value, isSet)
               [] OTHER            -> Fails(m, 445)


CallDefault(m, id, args) ==
    LET o == m.objs[id]
    IN  CASE o.kind = "class" -> IF o.def.default = "" THEN Fails(m, ObjectNoValue)
                                 ELSE ClassGet(m, id, o.def.default, args, FALSE)
          [] o.kind = "dict"  -> IF args = <<>> THEN Fails(m, WrongArgCount)
                                 ELSE DictItem(m, id, args[1])
          [] o.kind = "err"   -> Ok(m, Val("i4", m.err.number))
          [] o.kind = "func"  -> CallFunc(m, o.def, PassAll(args), 0)

----------------------------------------------------------------------------
(* Compile units: the text of Execute and Eval, and of a script.              *)

SyntaxError(m, code) == Fails(m, code)
Compiled(m, src, Read_(_), F(_)) ==
    LET lexed == Tokenize(src)
        parsed == Read_(lexed.toks)
    IN  CASE lexed.err # 0 -> SyntaxError(m, lexed.err)
          [] lexed.err = 0 /\ P!Failed(parsed) -> SyntaxError(m, parsed.v)
          [] OTHER -> F(parsed.v)

ArraysOf(m) == {n \in DOMAIN m.globals : IsArray(Read(m, m.globals[n]))}

\* A unit ends like a call: an exit that met no loop ends it.
Ended(r) == IF r.f = "error" THEN r ELSE Done(r.s)

ExecuteLeaving(m, src, global) ==           \* mutant: an error leaves its unit as it is
    Compiled(m, src, P!Parse, LAMBDA unit :
        LET r == ExecBlock(Hoist([m EXCEPT !.depth = @ + 1], unit.body), unit.body)
        IN  Ended(Do(r, LAMBDA q : Done([q.s EXCEPT !.depth = @ - 1]))))
\* execute: a unit in the scope it is run from, or in the global one, with an
\* Option Explicit, constants and arrays that are its own.
Execute(m, src, global) ==
    Compiled(m, src, P!Parse, LAMBDA unit :
        LET entered == [m EXCEPT !.frames = IF global THEN <<>> ELSE @,
                                 !.explicit = unit.explicit, !.unitconsts = {},
                                 !.prior = ArraysOf(m), !.depth = @ + 1]
            r == ExecBlock(Hoist(entered, unit.body), unit.body)
        IN  Ended([r EXCEPT !.s.depth = @ - 1, !.s.unitconsts = m.unitconsts,
                            !.s.prior = m.prior, !.s.explicit = m.explicit,
                            !.s.frames = IF global THEN m.frames ELSE @]))

EvalSource(m, src) ==
    Compiled(m, src, P!ParseExpression, LAMBDA e :
        LET r == Scalar([m EXCEPT !.depth = @ + 1], e) IN [r EXCEPT !.s.depth = @ - 1])

\* run_source: a script on an interpreter that may have run others.
RunSource(m, src) ==
    Compiled(m, src, P!Parse, LAMBDA unit :
        Ended(ExecBlock(Hoist([m EXCEPT !.explicit = unit.explicit], unit.body), unit.body)))

----------------------------------------------------------------------------
(* Built-in functions.                                                        *)

Scripted == {"eval", "execute", "executeglobal", "getref", "createobject", "typename", "msgbox"}
IsBuiltin(name) == name \in PureNames \cup Scripted

\* The characters of a name.
Chars(text) == [i \in 1..Len(text) |-> SubSeq(text, i, i)]
TypeNames == [empty |-> "empty", null |-> "null", bool |-> "boolean", ui1 |-> "byte",
              i2 |-> "integer", i4 |-> "long", r4 |-> "single", r8 |-> "double",
              cy |-> "currency", date |-> "date", str |-> "string", errcode |-> "error",
              array |-> "variant()"]
TypeName(m, v) ==
    IF ~IsObject(v) THEN TypeNames[v.vt]
    ELSE IF v.v = 0 THEN "nothing"
    ELSE CASE m.objs[v.v].kind = "class" -> m.objs[v.v].def.name
           [] m.objs[v.v].kind = "dict"  -> "dictionary"
           [] m.objs[v.v].kind = "err"   -> "errobject"
           [] OTHER                      -> "vbscripttypeinfo"

\* getref: one object for a procedure, however often it is asked for.
GetRef(m, name) ==
    IF name \notin DOMAIN m.funcs THEN Fails(m, InvalidCall)
    ELSE LET o == [kind |-> "func", def |-> m.funcs[name]]
             same == {i \in DOMAIN m.objs : m.objs[i].kind = "func"
                                             /\ m.objs[i].def.name = name /\ m.objs[i] = o}
         IN  IF same = {} THEN NewObject(m, o) ELSE Ok(m, Obj(CHOOSE i \in same : TRUE))

Dispatch(m, name, a) ==
    CASE name \in PureNames -> Lift(m, Pure(name, a))
      [] name = "eval" -> Do(Lift(m, Req(a, 1)), LAMBDA r :
                             IF r.v.vt \in {"null", "empty"} THEN r
                             ELSE Do(Lift(m, ToVbString(r.v)), LAMBDA t : EvalSource(m, t.v.v)))
      [] name \in {"execute", "executeglobal"} ->
            Do(Lift(m, Req(a, 1)), LAMBDA r :
               IF r.v.vt # "str" THEN Mismatch(m) ELSE Execute(m, r.v.v, name = "executeglobal"))
      [] name = "getref" -> Do(Lift(m, Req(a, 1)), LAMBDA r :
                               IF r.v.vt # "str" THEN Mismatch(m) ELSE GetRef(m, Joined(r.v.v)))
      [] name = "createobject" ->
            Do(Lift(m, Req(a, 1)), LAMBDA r : Do(Lift(m, ToVbString(r.v)), LAMBDA t :
               IF Joined(t.v.v) = "scripting.dictionary"
               THEN NewObject(m, [kind |-> "dict", entries |-> <<>>, mode |-> 0])
               ELSE Fails(m, 429)))
      [] name = "typename" -> Do(Lift(m, Req(a, 1)), LAMBDA r :
                                 Ok(m, Str(Chars(TypeName(m, r.v)))))
      [] name = "msgbox" -> Do(Lift(m, Req(a, 1)), LAMBDA r :
                            Do(Lift(m, ToVbString(r.v)), LAMBDA t :
                               Ok([m EXCEPT !.out = Append(@, t.v)], Val("i2", 1))))

\* call: the arguments as values; an object gives its default value, to the
\* functions on arrays too, and IsNumeric takes a failure for a no.
RECURSIVE GivenTo(_, _, _, _)
GivenTo(m, name, args, out) ==
    IF args = <<>> THEN Ok(m, out)
    ELSE LET v == ArgValue(m, Head(args))
             first == out = <<>>
             derefs == ~KeepsObjects(name)
                       \/ (first /\ name \in {"lbound", "ubound", "join", "filter"})
             r == CASE Head(args).k = "missing" -> Ok(m, Missing)
                    [] Head(args).k # "missing" /\ derefs -> Deref(m, v)
                    [] OTHER -> Ok(m, v)
         IN  Do(r, LAMBDA x : GivenTo(x.s, name, Tail(args), Append(out, x.v)))

CallBuiltin(m, name, args) ==
    IF ~IsBuiltin(name) THEN Ok(m, NotMine)
    ELSE Do(GivenTo(m, name, args, <<>>), LAMBDA a :
            IF name = "isnumeric" /\ Given(a.v, 1) /\ IsObject(a.v[1])
            THEN LET r == Deref(a.s, a.v[1])
                 IN  IF r.f = "error" THEN Ok(Resumed(r.s), Bool(FALSE))
                     ELSE Dispatch(r.s, name, <<r.v>>)
            ELSE Dispatch(a.s, name, a.v))

----------------------------------------------------------------------------
(* Names and calls.                                                           *)

\* The first of what a name may be that there is; each step of the search
\* gives NotMine to go on.
Else(r, F(_)) == IF r.f = "ok" /\ r.v.vt = "notmine" THEN F(r.s) ELSE r

\* class_member_value: a method, a property or a constant of Me.
ClassMember(m, name) ==
    IF Me(m) = 0 THEN Ok(m, NotMine)
    ELSE LET def == m.objs[Me(m)].def
             method == Named(def.methods, name)
             prop == PropNamed(def, "get", name)
             const == Named(def.consts, name)
         IN  CASE method # <<>> -> CallFunc(m, method[1], <<>>, Me(m))
               [] method = <<>> /\ prop # <<>> -> CallPropGet(m, prop[1], <<>>, Me(m))
               [] method = <<>> /\ prop = <<>> /\ const # <<>> -> Eval(m, const[1].value)
               [] OTHER -> Ok(m, NotMine)

HasGet(m, name) == <<name, "get">> \in DOMAIN m.props
HostGlobal(m, name) ==
    Ok(m, IF name \in DOMAIN HostGlobals THEN HostGlobals[name] ELSE NotMine)

\* eval_ident.  A constant hides a global of its name in the unit that is the
\* script itself; in one of Execute and Eval the global hides the constant.
EvalIdent(m, name) ==
    LET local == (InProc(m) /\ name \in DOMAIN Top(m).vars) \/ name \in DOMAIN MyFields(m)
        const == name \in DOMAIN m.consts
        global == name \in DOMAIN m.globals
    IN  CASE local -> Ok(m, ValueOf(m, name))
          [] ~local /\ const /\ (m.depth = 0 \/ ~global) -> Ok(m, m.consts[name])
          [] ~local /\ global /\ ~(const /\ m.depth = 0) -> Ok(m, Read(m, m.globals[name]))
          [] ~local /\ ~const /\ ~global /\ name = "err" -> Ok(m, Obj(ErrObject))
          [] OTHER ->
                Else(ClassMember(m, name), LAMBDA s :
                CASE name \in DOMAIN s.funcs -> CallFunc(s, s.funcs[name], <<>>, 0)
                  [] name \notin DOMAIN s.funcs /\ HasGet(s, name) ->
                        CallPropGet(s, s.props[<<name, "get">>], <<>>, 0)
                  [] name \notin DOMAIN s.funcs /\ ~HasGet(s, name)
                       /\ name \in DOMAIN BuiltinConstants -> Ok(s, BuiltinConstants[name])
                  [] OTHER ->
                        Else(CallBuiltin(s, name, <<>>), LAMBDA b :
                        Else(HostGlobal(b, name), LAMBDA g :
                        Else(HostCall(g, name, <<>>), LAMBDA h :
                             IF h.explicit THEN Fails(h, 500)
                                           ELSE Done(Declare(h, name, Empty))))))

\* call_named: a call by name, the members of Me before all others.
CallNamed(m, name, args) ==
    LET def == m.objs[Me(m)].def
        method == IF Me(m) = 0 THEN <<>> ELSE Named(def.methods, name)
        prop == IF Me(m) = 0 THEN <<>> ELSE PropNamed(def, "get", name)
        Plain(F(_, _)) == Do(EvalArgs(m, args, <<>>, <<>>), LAMBDA a : F(a.s, a.v.args))
        Valued(s, v, Other(_, _)) == Do(ArgsOf(s, args), LAMBDA i :
                                        Indexed(i.s, v, i.v, LAMBDA t : Other(t, i.v)))
    IN  CASE method # <<>> -> Plain(LAMBDA s, as : CallFunc(s, method[1], as, Me(m)))
          [] method = <<>> /\ prop # <<>> ->
                Plain(LAMBDA s, as : CallPropGet(s, prop[1], as, Me(m)))
          [] method = <<>> /\ prop = <<>> /\ name \in DOMAIN MyFields(m) ->
                LET cur == Read(m, MyFields(m)[name]) IN
                Valued(m, cur, LAMBDA t, idx : IF idx = <<>> THEN Ok(t, cur) ELSE Mismatch(t))
          [] OTHER ->
                CASE name \in DOMAIN m.funcs ->
                        WithArgs(m, args, LAMBDA s, as : CallFunc(s, m.funcs[name], as, 0))
                  [] name \notin DOMAIN m.funcs /\ HasGet(m, name) ->
                        WithArgs(m, args, LAMBDA s, as :
                                 CallPropGet(s, m.props[<<name, "get">>], as, 0))
                  [] OTHER ->
                        Else(IF IsBuiltin(name)
                             THEN WithArgs(m, args, LAMBDA s, as : CallBuiltin(s, name, as))
                             ELSE Ok(m, NotMine), LAMBDA b :
                        Else(WithArgs(b, args, LAMBDA s, as :
                                      HostCall(s, name, ArgValues(s, as))), LAMBDA h :
                        IF name \in DOMAIN h.consts
                        THEN Do(ArgsOf(h, args), LAMBDA i :
                                CASE i.v = <<>> -> Ok(i.s, h.consts[name])
                                  [] i.v # <<>> /\ IsArray(h.consts[name]) ->
                                        IndexArray(i.s, h.consts[name], i.v)
                                  [] OTHER -> Mismatch(i.s))
                        ELSE Do(HostGlobal(h, name), LAMBDA g :
                             IF g.v.vt = "notmine" THEN Fails(g.s, 35)
                             ELSE Valued(g.s, g.v, LAMBDA t, idx :
                                         IF idx = <<>> THEN Ok(t, g.v) ELSE Mismatch(t)))))

RECURSIVE StripParens(_)
StripParens(e) == IF e.k = "paren" THEN StripParens(e.e) ELSE e

\* A name of the With statement around it.
WithSubject(m, F(_)) == IF m.with = <<>> THEN Fails(m, 505) ELSE F(Last(m.with))

\* eval_index: a variable is indexed, and never called; but the name of a
\* procedure in it is the slot of its result, and called.
EvalIndex(m, target, args) ==
    LET t == StripParens(target)
    IN  CASE t.k = "id" /\ Bound(m, t.name) ->
                LET cur == ValueOf(m, t.name)
                IN  IF IsArray(cur) \/ (IsObject(cur) /\ cur.v # 0)
                    THEN Do(ArgsOf(m, args), LAMBDA i : Indexed(i.s, cur, i.v, Mismatch))
                    ELSE IF t.name \in DOMAIN m.funcs \/ HasGet(m, t.name)
                    THEN CallNamed(m, t.name, args) ELSE Mismatch(m)
          [] t.k = "id" /\ ~Bound(m, t.name) -> CallNamed(m, t.name, args)
          [] t.k = "member" ->
                Do(Eval(m, t.target), LAMBDA o : Do(ArgsOf(o.s, args), LAMBDA i :
                   GetMember(i.s, o.v, t.name, i.v, args = <<>>)))
          [] t.k = "wmember" ->
                WithSubject(m, LAMBDA o : Do(ArgsOf(m, args), LAMBDA i :
                    GetMember(i.s, o, t.name, i.v, args = <<>>)))
          [] OTHER -> Do(Eval(m, t), LAMBDA b : Do(ArgsOf(b.s, args), LAMBDA i :
                         Indexed(i.s, b.v, i.v, Mismatch)))

----------------------------------------------------------------------------
(* Operators.                                                                 *)

IsLiteral(e) == e.k \in {"int", "long", "real", "date", "str", "true", "false", "empty", "null"}
ComparisonOps == {"=", "<>", "<", ">", "<=", ">="}
LogicalOps == {"and", "or", "xor", "eqv", "imp"}

IsSame(m, x, y, isnot) ==
    IF ~(IsObject(x) /\ IsObject(y)) THEN Fails(m, 424) ELSE Ok(m, Bool((x.v = y.v) # isnot))

EvalBinary(m, e) ==
    IF e.op \in {"is", "isnot"}
    THEN Do(Eval(m, e.l), LAMBDA x : Do(Eval(x.s, e.r), LAMBDA y :
            IsSame(y.s, x.v, y.v, e.op = "isnot")))
    ELSE Do(Scalar(m, e.l), LAMBDA x : Do(Scalar(x.s, e.r), LAMBDA y :
         Lift(y.s, CASE e.op = "+" -> Add(x.v, y.v)
                     [] e.op \in {"-", "*"} -> Arith(e.op, x.v, y.v)
                     [] e.op = "/"   -> Divide(x.v, y.v)
                     [] e.op = "\\" -> IntOp(FALSE, x.v, y.v)
                     [] e.op = "mod" -> IntOp(TRUE, x.v, y.v)
                     [] e.op = "&"   -> Concat(x.v, y.v)
                     [] e.op \in ComparisonOps ->
                            CompareOp(e.op, x.v, y.v, IsLiteral(e.l), IsLiteral(e.r))
                     [] e.op \in LogicalOps -> Logical(e.op, x.v, y.v))))

Eval(m, e) ==
    CASE e.k = "empty"   -> Ok(m, Empty)
      [] e.k = "null"    -> Ok(m, Null)
      [] e.k = "nothing" -> Ok(m, Obj(0))
      [] e.k \in {"true", "false"} -> Ok(m, Bool(e.k = "true"))
      [] e.k = "int"     -> Ok(m, Val("i2", e.v))
      [] e.k = "long"    -> Ok(m, Val("i4", e.v))
      [] e.k = "real"    -> Ok(m, ParseNumber(e.v))
      [] e.k = "str"     -> Ok(m, Str(e.v))
      [] e.k = "me"      -> IF Me(m) = 0 THEN Fails(m, 505) ELSE Ok(m, Obj(Me(m)))
      [] e.k = "new"     -> Construct(m, e.name)
      [] e.k = "paren"   -> Eval(m, e.e)
      [] e.k = "id"      -> EvalIdent(m, e.name)
      [] e.k = "wmember" -> WithSubject(m, LAMBDA o : GetMember(m, o, e.name, <<>>, FALSE))
      [] e.k = "member"  -> Do(Eval(m, e.target), LAMBDA o :
                               GetMember(o.s, o.v, e.name, <<>>, FALSE))
      [] e.k = "index"   -> EvalIndex(m, e.target, e.args)
      [] e.k = "un"      -> IF e.op = "+" THEN Eval(m, e.e)
                            ELSE Do(Scalar(m, e.e), LAMBDA r :
                                    Lift(r.s, IF e.op = "-" THEN Negate(r.v) ELSE LogicalNot(r.v)))
      [] e.k = "bin"     -> EvalBinary(m, e)

----------------------------------------------------------------------------
(* Assignment.                                                                *)

\* A constant or a procedure cannot be assigned; the name of a function in it
\* is the slot of its result.  No host takes an assignment for itself (set_global).
AssignName(m, name, v) ==
    IF ~Bound(m, name) /\ (name \in DOMAIN m.consts \cup DOMAIN m.funcs \/ HasGet(m, name))
    THEN Fails(m, 501)
    ELSE Do(SlotForWrite(m, name), LAMBDA r : Release(Write(r.s, r.v, v), Read(r.s, r.v)))

\* The subscripts of x(0)(1), one group for each array.
Paths(m, groups, last) ==
    Do(FoldLeft(LAMBDA r, g : Do(r, LAMBDA q : Do(ArgsOf(q.s, g), LAMBDA i :
                    Do(Lift(i.s, ToSubscripts(i.v)), LAMBDA w : Ok(w.s, Append(q.v, w.v.v))))),
                Ok(m, <<>>), groups),
       LAMBDA r : Do(Lift(r.s, ToSubscripts(last)), LAMBDA w : Ok(w.s, Append(r.v, w.v.v))))

\* assign_index: into an array of a variable, or the property of an object.
AssignIndex(m, inner, args, v, isSet) ==
    Do(EvalArgs(m, args, <<>>, <<>>), LAMBDA a :
    LET s == a.s
        idx == ArgValues(s, a.v.args)
        chain == IndexChain(inner, <<>>)
    IN  CASE inner.k \in {"id", "index"} /\ IsArrayLvalue(s, inner) ->
                Do(Paths(s, chain.groups, idx), LAMBDA r :
                LET slot == SlotOf(r.s, chain.root)
                IN  Do(Lift(r.s, SetNested(Read(r.s, slot), r.v, v)), LAMBDA w :
                       Done(Write(w.s, slot, w.v))))
          [] inner.k = "member" -> Do(Eval(s, inner.target), LAMBDA o :
                                      SetMember(o.s, o.v, inner.name, idx, v, isSet))
          [] inner.k = "wmember" -> WithSubject(s, LAMBDA o :
                                        SetMember(s, o, inner.name, idx, v, isSet))
          [] OTHER -> Do(Eval(s, inner), LAMBDA o :
                         IF IsObject(o.v) \/ IsArray(o.v) THEN SetDefault(o.s, o.v, idx, v, isSet)
                         ELSE Mismatch(o.s)))

AssignTo(m, target, v, isSet) ==
    CASE isSet /\ v.vt \notin {"obj", "empty", "null"} -> Fails(m, 424)
      [] ~(isSet /\ v.vt \notin {"obj", "empty", "null"}) ->
         CASE target.k = "id" -> AssignName(m, target.name, v)
           [] target.k = "member" -> Do(Eval(m, target.target), LAMBDA o :
                                        SetMember(o.s, o.v, target.name, <<>>, v, isSet))
           [] target.k = "wmember" -> WithSubject(m, LAMBDA o :
                                          SetMember(m, o, target.name, <<>>, v, isSet))
           [] target.k = "index" -> AssignIndex(m, target.target, target.args, v, isSet)
           [] OTHER -> Fails(m, 501)

\* A property gets the object, a variable its default value.
AssignsToProperty(target) ==
    LET t == IF target.k = "index" THEN target.target ELSE target
    IN  t.k \in {"member", "wmember"}

\* A call of a function that only a statement can be, or that needs a place
\* for its result.
CallsOneOf(m, e, names) ==
    /\ e.k = "index" /\ e.target.k = "id"
    /\ e.target.name \in names /\ ~Bound(m, e.target.name) /\ e.target.name \notin DOMAIN m.funcs
Subs == {"randomize", "execute", "executeglobal"}
NeedsPlace == {"cbool", "cbyte", "ccur", "cdate", "cdbl", "cint", "clng", "csng", "cstr"}

Assign(m, st) ==
    IF CallsOneOf(m, st.value, Subs) THEN Mismatch(m)
    ELSE Do(Eval(m, st.value), LAMBDA r :
         Do(IF AssignsToProperty(st.target) THEN r ELSE Deref(r.s, r.v), LAMBDA w :
         AssignTo(w.s, st.target, Disown(w.v), FALSE)))

\* eval_for_effect: a variable alone is a call of its default member.
Effect(m, e) ==
    IF e.k = "id" /\ Bound(m, e.name)
    THEN LET cur == ValueOf(m, e.name)
         IN  IF IsObject(cur) /\ cur.v # 0 THEN CallDefault(m, cur.v, <<>>) ELSE Mismatch(m)
    ELSE Do(Eval(m, e), LAMBDA r :
            IF CallsOneOf(m, e, NeedsPlace) /\ r.v.vt \notin {"empty", "null"}
            THEN Fails(r.s, 458) ELSE r)

----------------------------------------------------------------------------
(* Declarations.                                                              *)

\* One after another, to the first that fails.
InTurn(m, xs, F(_, _)) == FoldLeft(LAMBDA r, x : Do(r, LAMBDA q : F(q.s, x)), Done(m), xs)

\* hoist: what the unit declares, the bodies in it first.  A constant that
\* fails is left to its statement.
Bodies(st) ==
    CASE st.k = "if" -> [i \in DOMAIN st.branches |-> st.branches[i].body] \o st.els
      [] st.k \in {"while", "do", "for", "foreach", "with"} -> <<st.body>>
      [] st.k = "select" -> [i \in DOMAIN st.cases |-> st.cases[i].body]
      [] OTHER -> <<>>
FirstValue(v) == IF v.array /\ v.dims = <<>> THEN Owned(Unsized) ELSE Empty
Constant(m, name, v) ==
    IF InProc(m) THEN Declare(m, name, v)
    ELSE [m EXCEPT !.unitconsts = @ \cup {name}, !.consts = name :> v @@ @]
HoistOne(m, st) ==
    CASE st.k = "function" -> [m EXCEPT !.funcs = st.name :> st @@ @]
      [] st.k = "property" -> [m EXCEPT !.props = <<st.name, st.kind>> :> st @@ @]
      [] st.k = "class"    -> [m EXCEPT !.classes = st.name :> st @@ @]
      [] st.k = "const"    ->
            FoldLeft(LAMBDA s, c : LET r == Eval(s, c.value)
                                   IN  IF r.f = "ok" THEN Constant(r.s, c.name, r.v)
                                          ELSE Resumed(r.s),
                     m, st.items)
      [] st.k = "dim" ->
            FoldLeft(LAMBDA s, v : IF DeclaredHere(s, v.name) THEN s
                                   ELSE Declare(s, v.name, FirstValue(v)), m, st.vars)
      [] OTHER -> m
Hoist(m, body) ==
    IF body = <<>> THEN m
    ELSE Hoist(HoistOne(Hoist(m, FlattenSeq(Bodies(Head(body)))), Head(body)), Tail(body))

\* eval_dims: the bounds are the last subscripts.
EvalDims(m, dims) ==
    FoldLeft(LAMBDA r, e : Do(r, LAMBDA q : Do(Scalar(q.s, e), LAMBDA v :
                 Do(Lift(v.s, ToF64(v.v)), LAMBDA x :
                    IF Less(x.v.v, Whole(-1)) \/ Less(Whole(LongMax), x.v.v)
                    THEN Fails(x.s, Subscript)
                    ELSE Ok(x.s, Append(q.v, Truncated(x.v.v) + 1))))),
             Ok(m, <<>>), dims)

\* exec_dim: what has a value in the scope keeps it.
DimOne(m, v) ==
    CASE ~InProc(m) /\ v.name \in m.unitconsts -> Fails(m, 1041)
      [] ~InProc(m) /\ v.name \notin m.unitconsts /\ v.name \in m.prior -> Mismatch(m)
      [] OTHER ->
            IF DeclaredHere(m, v.name) /\ ValueOf(m, v.name).vt # "empty" THEN Done(m)
            ELSE IF v.dims = <<>> THEN Done(Declare(m, v.name, FirstValue(v)))
            ELSE Do(EvalDims(m, v.dims), LAMBDA d :
                    Done(Declare(d.s, v.name, Owned(NewArray(d.v, TRUE)))))

\* exec_redim: a fixed array stays; Preserve changes the last bound alone.
ReDimOne(m, v, preserve) ==
    LET d == IF Bound(m, v.name) THEN m ELSE Declare(m, v.name, Empty)
        slot == SlotOf(d, v.name)
        fixed == IsArray(Read(d, slot)) /\ Read(d, slot).v.fixed
    IN  IF fixed /\ ~preserve THEN Fails(d, 10)
        ELSE Do(EvalDims(d, v.dims), LAMBDA r :
             LET old == Read(r.s, slot)
                 keeps == preserve /\ IsArray(old)
                 was == old.v.dims
             IN  CASE fixed -> Fails(r.s, 10)
                   [] ~fixed /\ keeps /\ IsSized(old)
                        /\ (Len(was) # Len(r.v) \/ Front(was) # Front(r.v)) -> Fails(r.s, Subscript)
                   [] OTHER -> Done(Write(r.s, slot, Owned(IF keeps THEN Preserved(old, r.v)
                                                           ELSE NewArray(r.v, FALSE)))))

ConstOne(m, c) ==
    Do(Scalar(m, c.value), LAMBDA r :
       IF ~InProc(r.s) /\ c.name \in DOMAIN r.s.globals THEN Fails(r.s, 1041)
       ELSE Done(Constant(r.s, c.name, r.v)))

\* exec_erase: a fixed array keeps its shape.
EraseOne(m, e) ==
    LET slot == SlotOf(m, e.name)
        old == Read(m, slot)
    IN  CASE e.k # "id" -> Fails(m, InvalidCall)
          [] e.k = "id" /\ ~Bound(m, e.name) ->
                IF m.explicit THEN Fails(m, 500) ELSE Mismatch(Declare(m, e.name, Empty))
          [] OTHER -> IF ~IsArray(old) THEN Mismatch(m)
                      ELSE Done(Write(m, slot, IF old.v.fixed
                                   THEN [old EXCEPT !.v.data = [i \in DOMAIN @ |-> Empty]]
                                   ELSE Unsized))

----------------------------------------------------------------------------
(* Control.                                                                   *)

\* eval_cond: Null is false.
Condition(m, e) ==
    Ctrl(Do(Scalar(m, e), LAMBDA r :
            IF IsNull(r.v) THEN Ok(r.s, Bool(FALSE)) ELSE Lift(r.s, ToBool(r.v))))
Holds(r)    == r.f = "ok" /\ r.v.v
HoldsNot(r) == r.f = "ok" /\ ~r.v.v
\* A body that a loop runs: an exit of the loop's kind ends it.
Turn(r, kind, Next(_)) == CASE r.f = "ok" -> Next(r.s) [] r.f = kind -> Done(r.s) [] OTHER -> r

\* A test that was skipped falls into the branch.
IfFrom(m, branches, els) ==
    IF branches = <<>> THEN IF els = <<>> THEN Done(m) ELSE ExecBlock(m, els[1])
    ELSE LET c == Condition(m, Head(branches).cond)
         IN  CASE Holds(c) \/ c.f = "skipped" -> ExecBlock(c.s, Head(branches).body)
               [] HoldsNot(c) -> IfFrom(c.s, Tail(branches), els)
               [] OTHER -> c

While(m, st) ==
    Do(Tick(m), LAMBDA t :
    LET c == Condition(t.s, st.cond)
    IN  CASE HoldsNot(c) -> Done(c.s)
          [] Holds(c) \/ c.f = "skipped" ->
                Turn(ExecBlock(c.s, st.body), "do", LAMBDA s : While(s, st))
          [] OTHER -> c)

\* exec_do: a skipped test at the top runs the body, one at the end ends.
DoLoop(m, st) ==
    LET pre == st.test \in {"prewhile", "preuntil"}
        post == st.test \in {"postwhile", "postuntil"}
        Stays(c) == IF st.test \in {"prewhile", "postwhile"} THEN Holds(c) ELSE HoldsNot(c)
        Goes(c) == IF c.f = "error" THEN c ELSE Done(c.s)
        Body(s) == Turn(ExecBlock(s, st.body), "do", LAMBDA b :
                        IF ~post THEN DoLoop(b, st)
                        ELSE LET c == Condition(b, st.cond)
                             IN  IF Stays(c) THEN DoLoop(c.s, st) ELSE Goes(c))
    IN  Do(Tick(m), LAMBDA t :
        IF ~pre THEN Body(t.s)
        ELSE LET c == Condition(t.s, st.cond)
             IN  IF Stays(c) \/ c.f = "skipped" THEN Body(c.s) ELSE Goes(c))

\* for_uninitialized: the body once, and an error at its end.
Uninitialized(m, body, code) ==
    Turn(ExecBlock(m, body), "for", LAMBDA s :
         IF OnError(s) THEN Done(SetErr(s, VbError(code))) ELSE Fails(s, code))

\* The counter is assigned before the test, and read again after the body.
ForTurn(m, st, cur, limit, step) ==
    Do(Tick(m), LAMBDA t : Do(AssignTo(t.s, st.var, cur, FALSE), LAMBDA a :
    Do(Lift(a.s, ToF64(cur)), LAMBDA x :
    LET over == IF ToF64(step).v.n >= 0 THEN Less(limit, x.v.v) ELSE Less(x.v.v, limit)
    IN  IF over THEN Done(x.s)
        ELSE Turn(ExecBlock(x.s, st.body), "for", LAMBDA s :
             Do(Eval(s, st.var), LAMBDA o : Do(Lift(o.s, Arith("+", o.v, step)), LAMBDA n :
             ForTurn(n.s, st, n.v, limit, step)))))))

For(m, st) ==
    LET Numbers(a, b, c) == Use(ToF64(a), LAMBDA x :
                            Use(ToF64(b), LAMBDA y : Use(ToF64(c), LAMBDA z :
                                Val("loop", [from |-> a, limit |-> y.v, step |-> c]))))
        r == Ctrl(Do(Scalar(m, st.from), LAMBDA a : Do(Scalar(a.s, st.to), LAMBDA b :
                  Do(IF st.step.k = "missing" THEN Ok(b.s, Val("i2", 1)) ELSE Scalar(b.s, st.step),
                     LAMBDA c : Lift(c.s, Numbers(a.v, b.v, c.v))))))
    IN  CASE r.f = "ok" ->
                Do(Lift(r.s, Arith("+", r.v.v.from, Val("i2", 0))), LAMBDA c :
                   ForTurn(c.s, st, c.v, r.v.v.limit, r.v.v.step))
          [] r.f = "skipped" -> Uninitialized(r.s, st.body, 92)
          [] OTHER           -> r

EachItem(m, st, items) ==
    IF items = <<>> THEN AssignTo(m, st.var, Empty, FALSE)
    ELSE Do(Tick(m), LAMBDA t :
         Do(AssignTo(t.s, st.var, Head(items), IsObject(Head(items))), LAMBDA a :
         Turn(ExecBlock(a.s, st.body), "for", LAMBDA s : EachItem(s, st, Tail(items)))))

Enumerated(m, v) ==
    CASE IsArray(v) -> Ok(m, IF IsSized(v) THEN v.v.data ELSE <<>>)
      [] IsObject(v) /\ v.v # 0 -> IF m.objs[v.v].kind = "dict" THEN Ok(m, Keys(m.objs[v.v]))
                                   ELSE Fails(m, 451)
      [] OTHER -> Fails(m, 451)
ForEach(m, st) ==
    LET r == Ctrl(Do(Eval(m, st.seq), LAMBDA v : Enumerated(v.s, v.v)))
        walk == EachItem([r.s EXCEPT !.held = @ \o r.v], st, r.v)
    IN  CASE r.f = "ok"      -> [walk EXCEPT !.s.held = SubSeq(@, 1, Len(m.held))]
          [] r.f = "skipped" -> Uninitialized(r.s, st.body, 451)
          [] OTHER           -> r

\* exec_select: the first value that equals the subject, or one that fails.
CaseFrom(m, x, tests, els) ==
    IF tests = <<>> THEN ExecBlock(m, els)
    ELSE LET e == Head(tests).value
             r == Ctrl(Do(Scalar(m, e), LAMBDA v :
                          Lift(v.s, CompareOp("=", x, v.v, FALSE, IsLiteral(e)))))
         IN  CASE r.f = "skipped" -> ExecBlock(r.s, Head(tests).body)
               [] r.f = "ok" -> IF r.v.vt = "bool" /\ r.v.v = TRUE
                                THEN ExecBlock(r.s, Head(tests).body)
                                ELSE CaseFrom(r.s, x, Tail(tests), els)
               [] OTHER -> r
Select(m, st) ==
    LET r == Ctrl(Scalar(m, st.subject))
        tests == FlattenSeq([i \in DOMAIN st.cases |->
                     [j \in DOMAIN st.cases[i].values |->
                         [value |-> st.cases[i].values[j], body |-> st.cases[i].body]]])
        elses == SelectSeq(st.cases, LAMBDA c : c.values = <<>>)
    IN  CASE r.f = "ok"      -> CaseFrom(r.s, r.v, tests,
                                         IF elses = <<>> THEN <<>> ELSE Last(elses).body)
          [] r.f = "skipped" -> Done(r.s)
          [] OTHER           -> r

\* The body of a With that has no object runs, when errors are resumed.
With(m, st) ==
    LET r == Ctrl(Eval(m, st.subject))
        none == r.f = "ok" /\ ~IsObject(r.v)
        entered == [IF none THEN SetErr(r.s, VbError(424)) ELSE r.s EXCEPT
                        !.with = Append(@, r.v)]
        b == ExecBlock(entered, st.body)
    IN  CASE r.f = "error" -> r
          [] r.f # "error" /\ none /\ ~OnError(r.s) -> Fails(r.s, 424)
          [] OTHER -> [b EXCEPT !.s.with = Front(@)]

Exec(m, st) ==
    Do(Tick(m), LAMBDA t :
    LET s == t.s
        Called == Effect([s EXCEPT !.calls = @ + 1], st.e)
    IN  CASE st.k = "call"   -> [Called EXCEPT !.s.calls = s.calls]
          [] st.k = "assign" -> Assign(s, st)
          [] st.k = "set"    -> Do(Eval(s, st.value), LAMBDA r :
                                   AssignTo(r.s, st.target, r.v, TRUE))
          [] st.k = "dim"    -> InTurn(s, st.vars, DimOne)
          [] st.k = "redim"  -> InTurn(s, st.vars, LAMBDA q, v : ReDimOne(q, v, st.preserve))
          [] st.k = "const"  -> InTurn(s, st.items, ConstOne)
          [] st.k = "erase"  -> InTurn(s, st.items, EraseOne)
          [] st.k = "if"     -> IfFrom(s, st.branches, st.els)
          [] st.k = "while"  -> While(s, st)
          [] st.k = "do"     -> DoLoop(s, st)
          [] st.k = "for"    -> For(s, st)
          [] st.k = "foreach" -> ForEach(s, st)
          [] st.k = "select" -> Select(s, st)
          [] st.k = "with"   -> With(s, st)
          [] st.k = "exit"   -> Leaves(s, st.what)
          [] st.k \in {"resumenext", "goto0"} -> Done(SetOnError(s, st.k = "resumenext"))
          [] OTHER           -> Done(s))

\* exec_block: a stop goes on through all blocks; another error is kept in Err
\* and the next statement runs, when errors are resumed.
ExecBlock(m, body) ==
    IF body = <<>> THEN Done(m)
    ELSE LET r == Exec(m, Head(body))
         IN  CASE r.f = "ok" -> ExecBlock(r.s, Tail(body))
               [] r.f = "error" ->
                    IF r.s.abort THEN Fails(Halted(r.s), AbortError)
                    ELSE IF OnError(r.s) THEN ExecBlock(SetErr(Resumed(r.s), r.v), Tail(body))
                    ELSE r
               [] OTHER -> r

===============================================================================
