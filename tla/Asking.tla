------------------------------- MODULE Asking -------------------------------
(***************************************************************************)
(* What ask() of main.ts promises a window: a question is put to some        *)
(* console, which carries it out and answers; should the console close       *)
(* first, another carries it out again; the promise settles once, with the   *)
(* answer of the last.                                                       *)
(***************************************************************************)
EXTENDS Naturals

CONSTANTS Tokens, MaxClosed

VARIABLES
    phase,      \* of each question: new, out, answered (not yet heard), settled
    carried,    \* how often it has been carried out
    closed      \* consoles closed so far

vars == <<phase, carried, closed>>

Init ==
    /\ phase = [q \in Tokens |-> "new"]
    /\ carried = [q \in Tokens |-> 0]
    /\ closed = 0

Ask(q) ==
    /\ phase[q] = "new"
    /\ phase' = [phase EXCEPT ![q] = "out"]
    /\ UNCHANGED <<carried, closed>>

CarryOut(q) ==
    /\ phase[q] = "out"
    /\ phase' = [phase EXCEPT ![q] = "answered"]
    /\ carried' = [carried EXCEPT ![q] = @ + 1]
    /\ UNCHANGED closed

Settle(q) ==
    /\ phase[q] = "answered"
    /\ phase' = [phase EXCEPT ![q] = "settled"]
    /\ UNCHANGED <<carried, closed>>

\* A console closes, and the answers it had given are not heard.
Close ==
    /\ closed < MaxClosed
    /\ closed' = closed + 1
    /\ \E lost \in SUBSET {q \in Tokens : phase[q] = "answered"} :
          phase' = [q \in Tokens |-> IF q \in lost THEN "out" ELSE phase[q]]
    /\ UNCHANGED carried

Next == Close \/ \E q \in Tokens : Ask(q) \/ CarryOut(q) \/ Settle(q)

Spec == Init /\ [][Next]_vars
=============================================================================
