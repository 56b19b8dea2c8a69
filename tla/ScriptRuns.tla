------------------------------ MODULE ScriptRuns ------------------------------
(* A script run by an interpreter (src/client/src/interp.rs, run_source): to  *)
(* its end, on a budget of steps, or until the player stops it, which the     *)
(* host says the stopAt-th time that it is asked.  A stop is final.           *)
EXTENDS Interp

CONSTANTS
    Programs,      \* names of texts
    TextOf,        \* the text of each program
    Equivalents,   \* pairs of programs that mean the same
    Budgets,       \* statements a run may have
    Stops          \* the questions for a stop that are answered yes

Unbounded == -1
Never == 0

\* Interp::with_host
Fresh == [mem |-> <<>>, globals |-> <<>>, frames |-> <<>>, funcs |-> <<>>, props |-> <<>>,
          classes |-> <<>>, consts |-> <<>>, with |-> <<>>, held |-> <<>>, err |-> NoError,
          gerr |-> FALSE, explicit |-> FALSE, depth |-> 0, unitconsts |-> {}, prior |-> {},
          budget |-> Unbounded, abort |-> FALSE, steps |-> 0, asked |-> 0, stopAt |-> Never,
          objs |-> <<[kind |-> "err"]>>, out |-> <<>>, calls |-> 0,
          halt |-> [on |-> FALSE, said |-> 0, calls |-> 0, resumed |-> FALSE]]

How(programs, budgets, stops) == [program : programs, budget : budgets, stopAt : stops]
Undisturbed == How(Programs, {Unbounded}, {Never})
OnABudget   == How(Programs, Budgets, {Never})
Stopped     == How(Programs, {Unbounded}, Stops)
Runs == Undisturbed \cup OnABudget \cup Stopped

Ran(how) == RunSource([Fresh EXCEPT !.budget = how.budget, !.stopAt = how.stopAt],
                      TextOf[how.program])
LeftAlone(p) == Ran([program |-> p, budget |-> Unbounded, stopAt |-> Never])

----------------------------------------------------------------------------
Outcome(r) == <<r.f, IF r.f = "error" THEN r.v.number ELSE 0>>
SameValue(x, y) == x.vt = y.vt /\ x.v = y.v
IsBeginning(a, b) == Len(a) <= Len(b) /\ \A i \in DOMAIN a : SameValue(a[i], b[i])

\* The interpreter is fit for the next script: no frame, With subject or value
\* that a call held is left, the nesting of Execute is back at nothing, and what
\* Execute sets for its own unit is set back.
IsClean(it, p) ==
    /\ it.frames = <<>> /\ it.with = <<>> /\ it.held = <<>>
    /\ it.depth = 0 /\ it.prior = {}
    /\ it.explicit = P!Parse(Tokenize(TextOf[p]).toks).v.explicit

\* A run that a stop or its budget may have halted, against the same run left
\* alone: what it said until then, what the calls under way say after it, and
\* what it ends with.
HaltErrors == {<<"error", AbortError>>, <<"error", 28>>}
IsABeginning(r, whole) ==
    LET h == r.s.halt
        said == IF h.on THEN h.said ELSE Len(r.s.out)
    IN  /\ IsBeginning(SubSeq(r.s.out, 1, said), whole.s.out)
        /\ Len(r.s.out) <= said + (IF h.resumed THEN h.calls ELSE 0)
        /\ h.on /\ ~h.resumed => Outcome(r) \in HaltErrors
        /\ ~h.on => Outcome(r) = Outcome(whole) /\ IsBeginning(whole.s.out, r.s.out)

MeanTheSame(r, other) ==
    /\ Outcome(r) = Outcome(other)
    /\ IsBeginning(r.s.out, other.s.out) /\ IsBeginning(other.s.out, r.s.out)
===============================================================================
