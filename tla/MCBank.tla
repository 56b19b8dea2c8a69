------------------------------- MODULE MCBank -------------------------------
(* Bank, with two players and the requests they make. *)
EXTENDS Bank, TLC

Funds == [u \in {"ann", "bob", "bank"} |-> CASE u = "ann" -> 3 [] u = "bob" -> 2 [] OTHER -> 0]

Pay(from, to, amount) == [op |-> "transfer", from |-> from, to |-> to, amount |-> amount,
                          name |-> "payment"]
Buy(from, name, under, amount) ==
    [op |-> "register", from |-> from, to |-> "bank", amount |-> amount, name |-> name,
     host |-> name, ip |-> NoIp, under |-> under]
BuyIp(from, a) == [Buy(from, a, NoHost, 1) EXCEPT !.host = NoHost, !.ip = a]
LogIn(from, name) == [op |-> "login", from |-> from, name |-> name, host |-> name, ip |-> NoIp]
GiveUp(from, name) == [op |-> "unregister", from |-> from, name |-> name]

\* One name bought by both, what is under it and an address; a first log-in and a
\* name given up; transfers that cross, one to oneself, one to nobody and one to the bank.
Trade == {Buy("ann", "x.com", NoHost, 2), Buy("bob", "x.com", NoHost, 2),
          Buy("ann", "a.x.com", "x.com", 1), BuyIp("bob", "ip1"),
          LogIn("bob", "bob.usr"), GiveUp("ann", "x.com"),
          Pay("ann", "bob", 2), Pay("bob", "ann", 2),
          Pay("ann", "ann", 1), Pay("ann", Nobody, 1), Pay("bob", "bank", 1)}
Names == {Buy("ann", "x.com", NoHost, 2), Buy("ann", "y.com", NoHost, 2)}
=============================================================================
