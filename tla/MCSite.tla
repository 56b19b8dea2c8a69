------------------------------- MODULE MCSite -------------------------------
(* Instances of module Site.                                               *)
EXTENDS Site, TLC

\* Two names and two addresses, each asked for twice.
Person(name, email) == [name |-> name, email |-> email, password |-> "old"]
MCSignUps == {Person("ann", "a@x"), Person("ann", "b@x"), Person("bob", "a@x")}
MCForgetful == {[name |-> "ann", email |-> "a@x"]}

\* The owner gives a file each kind of permit, and adds to it, deletes it and
\* lists; guests try everything, one of them with more than a line.
Ask(who, op, data) ==
    [who |-> who, op |-> op, name |-> "log", data |-> data, key |-> TRUE, local |-> FALSE]
Note(who) == IF who = "eve" THEN <<"hi", Eol, "more">> ELSE <<"ho">>
Permits == {"allowlist=safeappend", "allowlist=append", "public", "0"}
OfOwner ==
    {Ask("ann", "write", <<header>>) : header \in Permits}
        \cup {Ask("ann", op, <<>>) : op \in {"delete", "dir"}}
        \cup {Ask("ann", "safeappend", <<"me">>),
              [Ask("ann", "append", <<Eol, "ps">>) EXCEPT !.key = FALSE, !.local = TRUE]}
OfGuests ==
    {Ask(who, op, Note(who)) : who \in {"eve", "fay"}, op \in {"append", "safeappend", "write"}}
        \cup {Ask("eve", "fileserver", <<>>), Ask("eve", "delete", <<>>), Ask("fay", "write", <<>>),
              [Ask("fay", "safeappend", <<"ho">>) EXCEPT !.key = FALSE]}
MCChanges == OfOwner \cup OfGuests

\* One to the player and another, one to nobody there is, one of another's and
\* one of a script's.
MCTo == [m1 |-> <<"bob", "me">>, m2 |-> <<"me", "nobody">>, o1 |-> <<"me">>, s1 |-> <<"me">>]

SameConsoles == Permutations(Consoles)
=============================================================================
