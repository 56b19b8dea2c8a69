----------------------------- MODULE BankProofs -----------------------------
(***************************************************************************)
(* Proofs about Bank.  The properties are of the tables as committed, so    *)
(* the invariant says of every task what its transaction will commit: what   *)
(* it has moved by the step it is at (Stage), that the row of it is new to   *)
(* the ledger (Books) and the domain to the domains (Ids, Unalike, Tree),     *)
(* and that the money it has seen is there but for what others are about to  *)
(* take (Covered).                                                           *)
(***************************************************************************)
EXTENDS Bank, Induction

-----------------------------------------------------------------------------
(* Totals.  Total is a fold over a finite set, which takes its rows in the      *)
(* order CHOOSE gives; that the order does not matter is shown by induction on  *)
(* the set.                                                                     *)

\* The row a fold takes out first; f is the sum of the amounts, taken in that order,
\* or in any.
First(s) == CHOOSE row \in s : TRUE
IsSum(f, S) ==
    f = [s \in SUBSET S |-> IF s = {} THEN 0 ELSE First(s).amount + f[s \ {First(s)}]]
TakesAny(f, S) == \A s \in SUBSET S : \A row \in s : f[s] = row.amount + f[s \ {row}]
Amounts(S) == \A row \in S : row.amount \in Int

\* Total, with the folds it is made of expanded.
LEMMA TotalIsSum ==
  ASSUME NEW S PROVE Total(S) = (CHOOSE f : IsSum(f, S))[S]
  BY DEF Total, MapThenSumSet, MapThenFoldSet, IsSum, First

\* A finite set has such a function, and it gives a number for every subset.
LEMMA SumDefined ==
  ASSUME NEW S, IsFiniteSet(S), Amounts(S)
  PROVE  \E f \in [SUBSET S -> Int] : IsSum(f, S)
<1> DEFINE take == [s \in SUBSET S |-> First(s)]
           next == [row \in S |-> [n \in Int |-> row.amount + n]]
<1>1. \A s \in SUBSET S : s # {} => take[s] \in s
  BY DEF First
<1>2. \A row \in S, n \in Int : next[row][n] = row.amount + n /\ next[row][n] \in Int
  BY DEF Amounts
<1>3. PICK f \in [SUBSET S -> Int] : IsFold(f, S, 0, take, next)
  <2>1. 0 \in Int
    OBVIOUS
  <2>2. \A row \in S, n \in Int : next[row][n] \in Int
    BY <1>2
  <2> HIDE DEF take, next
  <2> QED
    BY <1>1, <2>1, <2>2, FoldDefined
<1>4. ASSUME NEW s \in SUBSET S, s # {}
      PROVE  next[take[s]][f[s \ {take[s]}]] = First(s).amount + f[s \ {First(s)}]
  <2>1. take[s] = First(s) /\ First(s) \in S /\ f[s \ {First(s)}] \in Int
    BY <1>1, <1>4
  <2> QED
    BY <2>1
<1>5. \A s \in SUBSET S : f[s] = IF s = {} THEN 0 ELSE First(s).amount + f[s \ {First(s)}]
  <2> HIDE DEF take, next
  <2> QED
    BY <1>3, <1>4 DEF IsFold
<1> QED
  BY <1>5 DEF IsSum

\* A sum is the same whichever row is taken out first.
LEMMA SumTakesAny ==
  ASSUME NEW S, IsFiniteSet(S), Amounts(S), NEW f \in [SUBSET S -> Int], IsSum(f, S)
  PROVE  TakesAny(f, S)
<1> DEFINE P == {s \in SUBSET S : \A row \in s : f[s] = row.amount + f[s \ {row}]}
<1>1. \A s \in SUBSET S : f[s] = IF s = {} THEN 0 ELSE First(s).amount + f[s \ {First(s)}]
  BY DEF IsSum
<1>2. ASSUME NEW s \in SUBSET S, \A row \in s : s \ {row} \in P, s # {}
      PROVE  s \in P
  <2> SUFFICES ASSUME NEW row \in s PROVE f[s] = row.amount + f[s \ {row}]
    OBVIOUS
  <2> DEFINE c == First(s)
  <2>1. c \in s
    BY <1>2 DEF First
  <2>2. f[s] = c.amount + f[s \ {c}]
    BY <1>1, <1>2
  <2> HIDE DEF c
  <2>3. CASE row = c
    BY <2>2, <2>3
  <2>4. CASE row # c
    <3>1. (s \ {c}) \ {row} = (s \ {row}) \ {c}
      OBVIOUS
    <3>2. f[s \ {c}] = row.amount + f[(s \ {c}) \ {row}]
      BY <1>2, <2>1, <2>4
    <3>3. f[s \ {row}] = c.amount + f[(s \ {row}) \ {c}]
      BY <1>2, <2>1, <2>4
    <3>4. row.amount \in Int /\ c.amount \in Int
      BY <2>1 DEF Amounts
    <3>5. f[(s \ {row}) \ {c}] \in Int
      OBVIOUS
    <3>6. f[s] = c.amount + (row.amount + f[(s \ {row}) \ {c}])
      BY <2>2, <3>1, <3>2, Zenon
    <3>7. c.amount + (row.amount + f[(s \ {row}) \ {c}])
            = row.amount + (c.amount + f[(s \ {row}) \ {c}])
      BY <3>4, <3>5
    <3> QED
      BY <3>3, <3>6, <3>7, Zenon
  <2> QED
    BY <2>3, <2>4
<1>3. SUBSET S \subseteq P
  <2>1. {} \in P
    OBVIOUS
  <2> HIDE DEF P
  <2> QED
    BY <1>2, <2>1, FiniteSetInduction
<1> QED
  BY <1>3 DEF TakesAny

\* There is one such function.
LEMMA SumsAgree ==
  ASSUME NEW S, IsFiniteSet(S), NEW f, IsSum(f, S), NEW g, IsSum(g, S)
  PROVE  f = g
<1> DEFINE P == {s \in SUBSET S : f[s] = g[s]}
<1>1. /\ \A s \in SUBSET S : f[s] = IF s = {} THEN 0 ELSE First(s).amount + f[s \ {First(s)}]
      /\ \A s \in SUBSET S : g[s] = IF s = {} THEN 0 ELSE First(s).amount + g[s \ {First(s)}]
  BY DEF IsSum
<1>2. ASSUME NEW s \in SUBSET S, \A row \in s : s \ {row} \in P, s # {}
      PROVE  s \in P
  <2>1. First(s) \in s
    BY <1>2 DEF First
  <2>2. f[s \ {First(s)}] = g[s \ {First(s)}]
    BY <1>2, <2>1
  <2> QED
    BY <1>1, <2>2
<1>3. SUBSET S \subseteq P
  <2>1. {} \in P
    BY <1>1
  <2> HIDE DEF P
  <2> QED
    BY <1>2, <2>1, FiniteSetInduction
<1> QED
  BY <1>3 DEF IsSum

\* So the totals of the subsets of a set are the values of the one function.
LEMMA TotalOfSubset ==
  ASSUME NEW S, IsFiniteSet(S), Amounts(S), NEW f \in [SUBSET S -> Int], IsSum(f, S),
         NEW T \in SUBSET S
  PROVE  Total(T) = f[T]
<1> DEFINE g == [s \in SUBSET T |-> f[s]]
           h == CHOOSE h : IsSum(h, T)
<1>1. IsFiniteSet(T)
  BY FS_Subset
<1>2. IsSum(g, T)
  <2>1. ASSUME NEW s \in SUBSET T
        PROVE g[s] = IF s = {} THEN 0 ELSE First(s).amount + g[s \ {First(s)}]
    BY DEF IsSum
  <2> QED
    BY <2>1 DEF IsSum
<1>3. IsSum(h, T)
  <2> HIDE DEF g
  <2> QED
    BY <1>2
<1>4. g = h
  <2> HIDE DEF g, h
  <2> QED
    BY <1>1, <1>2, <1>3, SumsAgree
<1> QED
  BY <1>4, TotalIsSum

\* A row that is not in a set adds its amount to the total of the set.
LEMMA TotalAdds ==
  ASSUME NEW S, IsFiniteSet(S), Amounts(S), NEW row, row \notin S, row.amount \in Int
  PROVE  Total(S) \in Int /\ Total(S \cup {row}) = Total(S) + row.amount
<1> DEFINE U == S \cup {row}
<1>1. IsFiniteSet(U) /\ Amounts(U)
  BY FS_AddElement DEF Amounts
<1>2. PICK f \in [SUBSET U -> Int] : IsSum(f, U)
  BY <1>1, SumDefined
<1>3. U \ {row} = S /\ row \in U /\ U \in SUBSET U /\ S \in SUBSET U
  OBVIOUS
<1> HIDE DEF U
<1>5. TakesAny(f, U)
  BY <1>1, <1>2, SumTakesAny
<1>7. f[U] = row.amount + f[S]
  BY <1>3, <1>5, Zenon DEF TakesAny
<1>4. Total(U) = f[U] /\ Total(S) = f[S]
  BY <1>1, <1>2, <1>3, TotalOfSubset
<1>6. f[S] \in Int
  BY <1>3
<1> QED
  BY <1>4, <1>6, <1>7 DEF U

-----------------------------------------------------------------------------
(* The steps, and where each leaves the task that takes it.                     *)

\* What a request changes of the tables it changes in one of these steps.
Looks(t) == LookForName(t) \/ LookForRoot(t) \/ LookForHome(t) \/ LookForOwn(t)
Ends(t) ==
    /\ step' = [step EXCEPT ![t] = "idle"] /\ ask' = [ask EXCEPT ![t] = NoAsk]
    /\ root' = [root EXCEPT ![t] = NoRow] /\ ip' = [ip EXCEPT ![t] = NoIp]
    /\ status' = [status EXCEPT ![t] = "none"]
    /\ Forget(t)
RollsBack(t) ==
    Ends(t) /\ UNCHANGED <<cash, ledger, domains, ever>> /\ nextId' \in {nextId, nextId + 1}
Commits(t) == Publish(t) /\ Ends(t) /\ UNCHANGED nextId
Records(t) == step[t] = "record" /\ WaitsFor(t) = {} /\ ask[t].to \in Accounts /\ AddEntry(t)
Inserts(t) ==
    step[t] = "insert" /\ WaitsFor(t) = {} /\ nextId' = nextId + 1 /\ ~Clashes(t, NewRow(t))
InsertsHome(t) == Inserts(t) /\ ask[t].op = "login" /\ AddHome(t)
InsertsBought(t) == Inserts(t) /\ ask[t].op = "register" /\ AddBought(t)

Effect(t) ==
    \/ (\E a \in Asks : Authenticate(t, a)) \/ Looks(t) \/ Unregister(t)
    \/ Check(t) \/ Debit(t) \/ Credit(t)
    \/ Records(t) \/ Address(t) \/ InsertsHome(t) \/ InsertsBought(t)
    \/ Commits(t) \/ RollsBack(t)

\* Each step is one of these, of one task.
LEMMA Effects ==
  ASSUME [Next]_vars PROVE UNCHANGED vars \/ \E t \in Tasks : Effect(t)
<1> SUFFICES ASSUME NEW t \in Tasks,
                    Handler(t) \/ Fail(t) \/ \E a \in Asks : Authenticate(t, a)
             PROVE  Effect(t)
  BY DEF Next
<1>1. CASE Record(t)
  <2>1. RollsBack(t) \/ Records(t)
    BY <1>1 DEF Record, Rollback, Reply, Goto, RollsBack, Ends, tables, Records
  <2> QED
    BY <2>1 DEF Effect
<1>2. CASE Insert(t)
  <2>1. RollsBack(t) \/ InsertsHome(t) \/ InsertsBought(t)
    BY <1>2 DEF Insert, Rollback, Reply, Goto, RollsBack, Ends, InsertsHome, InsertsBought,
       Inserts
  <2> QED
    BY <2>1 DEF Effect
<1>3. CASE Commit(t)
  <2>1. Commits(t)
    BY <1>3 DEF Commit, Commits, Reply, Goto, Ends
  <2> QED
    BY <2>1 DEF Effect
<1>4. CASE Deadlock(t)
  <2>1. RollsBack(t)
    BY <1>4 DEF Deadlock, RollsBack, Rollback, Reply, Goto, Ends, tables
  <2> QED
    BY <2>1 DEF Effect
<1>5. CASE Fail(t)
  <2>1. Commits(t) \/ RollsBack(t)
    BY <1>5 DEF Fail, Commits, RollsBack, Rollback, Reply, Goto, Ends
  <2> QED
    BY <2>1 DEF Effect
<1> QED
  BY <1>1, <1>2, <1>3, <1>4, <1>5 DEF Handler, Looks, Effect

\* What a task has of its own.
Own(t) == <<step[t], ask[t], root[t], ip[t], status[t], moves[t], rows[t], bought[t],
            owned[t], shared[t]>>

\* The bank's verdict is that the money moves; the row of it is there; so is the domain.
Deals(t) == status[t] = "COMPLETE"
Selling(t) == ask[t].op = "register" /\ step[t] \in {"address", "insert"}
Recorded(t) == Selling(t) \/ step[t] = "commit"
Sells(t) == ask[t].op = "register" /\ step[t] = "commit"

\* Where its handler is, and what it is serving.
Serves(t) ==
    /\ step[t] # "idle" => ask[t] \in Asks
    /\ step[t] = "root" => ask[t].op = "register" /\ ask[t].under # NoHost
    /\ step[t] \in {"check", "debit", "credit", "record", "commit"} =>
         ask[t].op \in {"transfer", "register"}
    /\ step[t] \in {"address", "insert"} => ask[t].op \in {"register", "login"}
    /\ step[t] \in {"debit", "credit"} => Deals(t)
    /\ step[t] = "record" => status[t] \in Verdicts
    /\ Deals(t) =>
         /\ step[t] \in {"debit", "credit", "record", "address", "insert", "commit"}
         /\ ask[t].op \in {"transfer", "register"}
         /\ ask[t].to \in Accounts \ {ask[t].from} /\ ask[t].amount > 0
    /\ step[t] = "insert" => ip[t] \in Ips /\ (ask[t].ip # NoIp => ip[t] = ask[t].ip)

Debited(t) == Deals(t) /\ step[t] # "debit"
Credited(t) == Deals(t) /\ step[t] \notin {"debit", "credit"}

\* What its transaction has changed by then.
Changes(t) ==
    /\ \A u \in Accounts :
         moves[t][u] = (IF Credited(t) /\ u = ask[t].to THEN ask[t].amount ELSE 0)
                        - (IF Debited(t) /\ u = ask[t].from THEN ask[t].amount ELSE 0)
    /\ ~Recorded(t) => rows[t] = {}
    /\ Recorded(t) =>
         \E e \in rows[t] :
            /\ rows[t] = {e} /\ e.task = t /\ e.from = ask[t].from /\ e.to = ask[t].to
            /\ e.amount = ask[t].amount /\ e.what = ask[t].name
            /\ e.sale = (ask[t].op = "register") /\ e.status = status[t]
    /\ ~Sells(t) => bought[t] = {}
    /\ Sells(t) =>
         \E b \in bought[t] : bought[t] = {b} /\ b.sold /\ Name(b) = ask[t].name

\* What it has locked.
Locks(t) ==
    step[t] \in {"idle", "info", "root", "check", "delete"} \/ ask[t].op = "login" =>
       owned[t] = {} /\ shared[t] = {}

Stage == \A t \in Tasks : Serves(t) /\ Changes(t) /\ Locks(t)

\* What a name is known by is a row that goes by it.
LEMMA InfoIsARow ==
  ASSUME NEW n, Known(domains, n) PROVE Info(domains, n) \in Rows(domains, n)
<1>1. Cardinality({}) = 0
  BY FS_EmptySet
<1>2. Rows(domains, n) # {}
  BY <1>1 DEF Known
<1> QED
  BY <1>2 DEF Info

\* What a request has in it.
LEMMA AskTypes ==
  ASSUME NEW a \in Asks
  PROVE  /\ a.op \in {"transfer", "register", "login", "unregister"}
         /\ a.from \in Players /\ a.from \in Accounts
         /\ a.op \in {"transfer", "register"} =>
              a.amount \in Int /\ a.to \in Accounts \cup {Nobody}
         /\ NoAsk \notin Asks
BY AsksAssumption, BankAssumption DEF Accounts, NoAsk

\* Where a look at the domains sends a request on to, and with which row.
SentTo(t, next, row) ==
    \/ /\ step[t] = "info" /\ ask[t].op = "register" /\ row = NoRow
       /\ (next = "root" /\ ask[t].under # NoHost) \/ next = "check"
    \/ /\ step[t] = "root" /\ next = "check"
       /\ row \in Rows(domains, ask[t].under) /\ row.owner = ask[t].from
    \/ step[t] = "info" /\ ask[t].op = "login" /\ next = "address" /\ row = NoRow
    \/ /\ step[t] = "info" /\ ask[t].op = "unregister" /\ next = "delete"
       /\ row \in domains

\* A look at the domains answers the request or sends it on.
LEMMA LooksSend ==
  ASSUME Types, NEW t \in Tasks, Serves(t), Looks(t)
  PROVE  \/ \E text : Reply(t, text)
         \/ \E next \in Steps, row \in Row \cup {NoRow} : Pursue(t, next, row)
              /\ SentTo(t, next, row)
<1> USE DEF Types
<1>1. step[t] # "idle"
  BY DEF Looks, LookForName, LookForRoot, LookForHome, LookForOwn
<1>2. ask[t].from # NoRow.owner
  BY <1>1, AskTypes, BankAssumption DEF Serves, NoRow
<1>3. \A n : Known(domains, n) => Info(domains, n) \in Rows(domains, n)
        /\ Info(domains, n) \in domains
  BY InfoIsARow DEF Rows
<1>4. {"root", "check", "address", "delete"} \subseteq Steps
  BY DEF Steps
<1>5. CASE LookForName(t)
  BY <1>4, <1>5 DEF LookForName, SentTo
<1>6. CASE LookForRoot(t)
  BY <1>2, <1>3, <1>4, <1>6 DEF LookForRoot, SentTo
<1>7. CASE LookForHome(t)
  BY <1>4, <1>7 DEF LookForHome, SentTo
<1>8. CASE LookForOwn(t)
  BY <1>2, <1>3, <1>4, <1>8 DEF LookForOwn, SentTo
<1> QED
  BY <1>5, <1>6, <1>7, <1>8 DEF Looks

\* A step keeps the types, and leaves what the other tasks have of their own alone.
LEMMA TypesStep ==
  ASSUME Types, Stage, NEW t \in Tasks, Effect(t)
  PROVE  Types' /\ \A o \in Tasks : o # t => Own(o)' = Own(o)
<1> USE DEF Types
<1>a. Serves(t)
  BY DEF Stage
<1>1. CASE \E a \in Asks : Authenticate(t, a)
  BY <1>1 DEF Authenticate, Goto, Steps, Own, tables, transaction
<1>2. CASE Looks(t)
  <2>1. Looked(t)
    BY <1>2 DEF Looks, LookForName, LookForRoot, LookForHome, LookForOwn
  <2>2. ASSUME NEW next \in Steps, NEW row \in Row \cup {NoRow}, Pursue(t, next, row)
        PROVE  Types' /\ \A o \in Tasks : o # t => Own(o)' = Own(o)
    BY <2>1, <2>2 DEF Looked, Pursue, Goto, Own, tables, transaction
  <2>3. ASSUME NEW text, Reply(t, text)
        PROVE  Types' /\ \A o \in Tasks : o # t => Own(o)' = Own(o)
    BY <2>1, <2>3 DEF Looked, Reply, Goto, Steps, Own, tables, transaction
  <2> QED
    BY <1>2, <1>a, <2>2, <2>3, LooksSend
<1>3. CASE Unregister(t)
  BY <1>3 DEF Unregister, Reply, Goto, Steps, Own, transaction
<1>4. CASE Check(t)
  BY <1>4 DEF Check, Goto, InTransaction, Verdict, Verdicts, Steps, Own, tables
<1>5. CASE Debit(t) \/ Credit(t)
  <2>1. ask[t].amount \in Int /\ ask[t].from \in Accounts
    BY <1>5, <1>a, AskTypes DEF Debit, Credit, Serves
  <2>2. step[t] = "credit" => ask[t].to \in Accounts
    BY <1>a DEF Serves
  <2>3. ASSUME NEW u \in Accounts, NEW n \in Int, NEW next \in Steps, Move(t, u, n, next)
        PROVE  Types' /\ \A o \in Tasks : o # t => Own(o)' = Own(o)
    <3>1. [moves[t] EXCEPT ![u] = @ + n] \in [Accounts -> Int]
      OBVIOUS
    <3> QED
      BY <2>3, <3>1 DEF Move, Goto, InTransaction, Own, tables
  <2>4. 0 - ask[t].amount \in Int
    BY <2>1
  <2> QED
    BY <1>5, <2>1, <2>2, <2>3, <2>4 DEF Debit, Credit, Steps
<1>6. CASE Records(t)
  <2>1. ask[t] \in Asks /\ ask[t].op \in {"transfer", "register"} /\ status[t] \in Verdicts
    BY <1>6, <1>a DEF Records, Serves
  <2>2. ask[t].to \in Accounts
    BY <1>6 DEF Records
  <2>3. ask[t].from \in Players /\ ask[t].amount \in Int
    BY <2>1, AskTypes
  <2>4. Entry(t) \in Entries
    <3>1. Cardinality(ledger) + 1 \in Nat
      BY FS_CardinalityType
    <3> QED
      BY <2>1, <2>2, <2>3, <3>1 DEF Entry, Entries
  <2> HIDE DEF Entry
  <2> QED
    BY <1>6, <2>1, <2>2, <2>3, <2>4 DEF Records, AddEntry, Goto, InTransaction, Steps, Own,
       tables, Accounts
<1>7. CASE Address(t)
  <2>1. PICK a \in Ips : ip' = [ip EXCEPT ![t] = a]
    BY <1>7 DEF Address
  <2> QED
    BY <1>7, <2>1 DEF Address, Goto, Steps, Own, tables, transaction
<1>8. CASE InsertsHome(t) \/ InsertsBought(t)
  <2>1. ask[t] \in Asks /\ ask[t].op \in {"register", "login"} /\ ip[t] \in Ips
    BY <1>8, <1>a DEF InsertsHome, InsertsBought, Inserts, Serves
  <2>2. NewRow(t) \in Row
    <3>1. root[t].id \in Nat /\ ask[t].from \in Players
      BY <2>1, AskTypes DEF Row, NoRow
    <3> QED
      BY <2>1, <3>1 DEF NewRow, Row
  <2>3. CASE InsertsHome(t)
    <3>1. IsFiniteSet(ever \cup {NewRow(t)})
      BY FS_AddElement
    <3> QED
      BY <2>2, <2>3, <3>1 DEF InsertsHome, Inserts, AddHome, Reply, Goto, Steps, Own,
         transaction
  <2>4. CASE InsertsBought(t)
    <3>1. ask[t].from \in Accounts
      BY <2>1, AskTypes
    <3> QED
      BY <2>2, <2>4, <3>1 DEF InsertsBought, Inserts, AddBought, Goto, Steps, Own
  <2> QED
    BY <1>8, <2>3, <2>4
<1>9. CASE Commits(t)
  <2>1. IsFiniteSet(ledger \cup rows[t]) /\ IsFiniteSet(ever \cup bought[t])
    <3>1. Changes(t)
      BY DEF Stage
    <3>2. (rows[t] = {} \/ \E e : rows[t] = {e}) /\ (bought[t] = {} \/ \E b : bought[t] = {b})
      BY <3>1 DEF Changes
    <3>3. ASSUME NEW s, s = {} \/ \E e : s = {e} PROVE IsFiniteSet(s)
      <4>1. IsFiniteSet({})
        BY FS_EmptySet
      <4>2. ASSUME NEW e PROVE IsFiniteSet({e})
        BY FS_Singleton
      <4> QED
        BY <3>3, <4>1, <4>2, Zenon
    <3>4. IsFiniteSet(rows[t]) /\ IsFiniteSet(bought[t])
      BY <3>2, <3>3
    <3> QED
      BY <3>4, FS_Union
  <2> QED
    BY <1>9, <2>1 DEF Commits, Publish, Ends, Forget, Steps, Own, NoMoves
<1>10. CASE RollsBack(t)
  BY <1>10 DEF RollsBack, Ends, Forget, Steps, Own, NoMoves
<1> QED
  BY <1>1, <1>2, <1>3, <1>4, <1>5, <1>6, <1>7, <1>8, <1>9, <1>10 DEF Effect

\* A task whose own variables stay keeps its stage.
LEMMA OthersKeep ==
  ASSUME Stage, NEW o \in Tasks, Own(o)' = Own(o)
  PROVE  (Serves(o) /\ Changes(o) /\ Locks(o))'
BY DEF Stage, Own, Serves, Changes, Locks, Deals, Recorded, Selling, Sells, Debited,
   Credited

\* A step keeps a task between the right steps, with what it needs for the next.
LEMMA ServesStep ==
  ASSUME Types, Stage, NEW t \in Tasks, Effect(t)
  PROVE  Serves(t)'
<1> USE DEF Types
<1>a. Serves(t) /\ Changes(t) /\ Locks(t)
  BY DEF Stage
<1>b. ask[t] \in Asks => ask[t].op \in {"transfer", "register", "login", "unregister"}
  BY AskTypes
<1>1. CASE \E a \in Asks : Authenticate(t, a)
  BY <1>1, <1>a, AskTypes DEF Authenticate, Goto, Serves, Deals
<1>2. CASE Looks(t)
  <2>1. ASSUME NEW next \in Steps, NEW row \in Row \cup {NoRow},
               Pursue(t, next, row), SentTo(t, next, row)
        PROVE  Serves(t)'
    BY <2>1, <1>a DEF Pursue, SentTo, Goto, Serves, Deals
  <2>2. ASSUME NEW text, Reply(t, text)
        PROVE  Serves(t)'
    BY <2>2 DEF Reply, Goto, Serves, Deals
  <2> QED
    BY <1>2, <1>a, <2>1, <2>2, LooksSend
<1>3. CASE Unregister(t)
  BY <1>3 DEF Unregister, Reply, Goto, Serves, Deals
<1>4. CASE Check(t)
  BY <1>4, <1>a, AskTypes DEF Check, Goto, InTransaction, Verdict, Verdicts, Serves, Deals
<1>5. CASE Debit(t) \/ Credit(t)
  BY <1>5, <1>a DEF Debit, Credit, Move, Goto, InTransaction, Serves, Deals
<1>6. CASE Records(t)
  BY <1>6, <1>a DEF Records, AddEntry, Goto, InTransaction, Serves, Deals
<1>7. CASE Address(t)
  BY <1>7, <1>a DEF Address, Goto, Serves, Deals
<1>8. CASE InsertsHome(t)
  BY <1>8 DEF InsertsHome, AddHome, Reply, Goto, Serves, Deals
<1>9. CASE InsertsBought(t)
  BY <1>9, <1>a DEF InsertsBought, Inserts, AddBought, Goto, Serves, Deals
<1>10. CASE Commits(t) \/ RollsBack(t)
  BY <1>10 DEF Commits, RollsBack, Ends, Serves, Deals
<1> QED
  BY <1>1, <1>2, <1>3, <1>4, <1>5, <1>6, <1>7, <1>8, <1>9, <1>10 DEF Effect

\* A task that has changed nothing and is not about to has changed what it should.
LEMMA UntouchedChanges ==
  ASSUME NEW t \in Tasks, Untouched(t)', ~Deals(t)', ~Recorded(t)'
  PROVE  Changes(t)'
BY DEF Untouched, Changes, Recorded, Sells, Debited, Credited, NoMoves, Deals, Selling

\* And the other way round: before there is a verdict and a row nothing is changed.
LEMMA TouchesNothing ==
  ASSUME Types, NEW t \in Tasks, Changes(t), ~Deals(t), ~Recorded(t)
  PROVE  Untouched(t)
<1>1. \A u \in Accounts : moves[t][u] = 0
  BY DEF Changes, Debited, Credited
<1>2. moves[t] \in [Accounts -> Int]
  BY DEF Types
<1> QED
  BY <1>1, <1>2 DEF Untouched, Changes, Recorded, Sells, NoMoves

\* A step keeps a transaction's changes what its stage says: Debit and Credit move the
\* amount, Record adds the row, Insert the domain, and the end of it forgets them.
LEMMA ChangesStep ==
  ASSUME Types, Stage, NEW t \in Tasks, Effect(t)
  PROVE  Changes(t)'
<1> USE DEF Types
<1>a. Serves(t) /\ Changes(t) /\ Locks(t)
  BY DEF Stage
<1>b. ask[t] \in Asks => ask[t].op \in {"transfer", "register", "login", "unregister"}
  BY AskTypes
<1>c. ask[t] \in Asks /\ ask[t].op \in {"transfer", "register"} => ask[t].amount \in Int
  BY AskTypes
<1>d. ~Deals(t) /\ ~Recorded(t) => Untouched(t)
  BY <1>a, TouchesNothing
<1>1. CASE \E a \in Asks : Authenticate(t, a)
  <2>1. ~Deals(t)' /\ ~Recorded(t)' /\ ~Deals(t) /\ ~Recorded(t)
    BY <1>1, <1>a DEF Authenticate, Goto, Serves, Deals, Recorded, Selling
  <2>2. Untouched(t)'
    BY <1>1, <1>d, <2>1 DEF Authenticate, transaction, Untouched
  <2> QED
    BY <2>1, <2>2, UntouchedChanges
<1>2. CASE Looks(t)
  <2>1. ~Deals(t) /\ ~Recorded(t) /\ UNCHANGED transaction
    BY <1>2, <1>a DEF Looks, LookForName, LookForRoot, LookForHome, LookForOwn, Looked,
       Serves, Deals, Recorded, Selling
  <2>2. Untouched(t)'
    BY <1>d, <2>1 DEF transaction, Untouched
  <2>3. ASSUME NEW next \in Steps, NEW row \in Row \cup {NoRow},
               Pursue(t, next, row), SentTo(t, next, row)
        PROVE  ~Deals(t)' /\ ~Recorded(t)'
    BY <2>1, <2>3 DEF Pursue, Goto, SentTo, Deals, Recorded, Selling
  <2>4. ASSUME NEW text, Reply(t, text)
        PROVE  ~Deals(t)' /\ ~Recorded(t)'
    BY <2>4 DEF Reply, Goto, Deals, Recorded, Selling
  <2> QED
    BY <1>2, <1>a, <2>2, <2>3, <2>4, LooksSend, UntouchedChanges
<1>3. CASE Unregister(t)
  <2>1. ~Deals(t) /\ ~Recorded(t) /\ UNCHANGED transaction /\ ~Deals(t)' /\ ~Recorded(t)'
    BY <1>3, <1>a DEF Unregister, Reply, Goto, Serves, Deals, Recorded, Selling
  <2>2. Untouched(t)'
    BY <1>d, <2>1 DEF transaction, Untouched
  <2> QED
    BY <2>1, <2>2, UntouchedChanges
<1>4. CASE Check(t)
  <2>1. ~Deals(t) /\ ~Recorded(t) /\ step'[t] \in {"debit", "record"}
          /\ (Deals(t)' => step'[t] = "debit")
    BY <1>4, <1>a DEF Check, Goto, Serves, Deals, Recorded, Selling
  <2>2. Untouched(t)'
    BY <1>4, <1>d, <2>1 DEF Check, Untouched
  <2> QED
    BY <2>1, <2>2 DEF Untouched, Changes, Recorded, Selling, Sells, Debited, Credited,
       NoMoves
<1>5. CASE Debit(t)
  <2>1. ask[t].amount \in Int /\ ask[t].from \in Accounts /\ Deals(t)
    BY <1>5, <1>a, <1>c, AskTypes DEF Debit, Serves
  <2>3. \A u \in Accounts :
          moves'[t][u] = IF u = ask[t].from THEN moves[t][u] - ask[t].amount ELSE moves[t][u]
    BY <1>5, <2>1 DEF Debit, Move
  <2> QED
    BY <1>5, <1>a, <2>1, <2>3 DEF Debit, Move, Goto, InTransaction, Changes, Recorded,
       Selling, Sells, Debited,
      Credited, Deals
<1>6. CASE Credit(t)
  <2>1. ask[t].amount \in Int /\ ask[t].to \in Accounts /\ Deals(t) /\ ask[t].to # ask[t].from
    BY <1>6, <1>a, <1>c DEF Credit, Serves
  <2>3. \A u \in Accounts :
          moves'[t][u] = IF u = ask[t].to THEN moves[t][u] + ask[t].amount ELSE moves[t][u]
    BY <1>6, <2>1 DEF Credit, Move
  <2> QED
    BY <1>6, <1>a, <2>1, <2>3 DEF Credit, Move, Goto, InTransaction, Changes, Recorded,
       Selling, Sells, Debited,
      Credited, Deals
<1>7. CASE Records(t)
  <2>1. rows'[t] = {Entry(t)} /\ ~Recorded(t)
          /\ step'[t] = IF ask[t].op = "transfer" THEN "commit" ELSE "address"
    BY <1>7 DEF Records, AddEntry, Goto, Recorded, Selling
  <2>2. Recorded(t)' /\ ~Sells(t)' /\ bought'[t] = {}
    BY <1>7, <1>a, <2>1 DEF Records, AddEntry, InTransaction, Recorded, Selling, Sells,
       Changes, Serves
  <2>3. \E e \in rows'[t] :
            /\ rows'[t] = {e} /\ e.task = t /\ e.from = ask[t].from /\ e.to = ask[t].to
            /\ e.amount = ask[t].amount /\ e.what = ask[t].name
            /\ e.sale = (ask[t].op = "register") /\ e.status = status[t]
    BY <2>1 DEF Entry
  <2>4. UNCHANGED <<moves, ask, status>> /\ (Credited(t)' <=> Credited(t))
          /\ (Debited(t)' <=> Debited(t))
    BY <1>7, <2>1 DEF Records, AddEntry, InTransaction, Credited, Debited, Deals
  <2> QED
    BY <1>a, <2>2, <2>3, <2>4 DEF Changes
<1>8. CASE Address(t)
  <2>1. UNCHANGED <<transaction, ask, status>> /\ step'[t] = "insert" /\ step[t] = "address"
    BY <1>8 DEF Address, Goto
  <2> QED
    BY <1>a, <2>1 DEF transaction, Changes, Recorded, Selling, Sells, Debited, Credited,
       Deals
<1>9. CASE InsertsHome(t)
  <2>1. ~Deals(t) /\ ~Recorded(t) /\ UNCHANGED transaction /\ ~Deals(t)' /\ ~Recorded(t)'
    BY <1>9, <1>a DEF InsertsHome, Inserts, AddHome, Reply, Goto, Serves, Deals, Recorded,
       Selling
  <2>2. Untouched(t)'
    BY <1>d, <2>1 DEF transaction, Untouched
  <2> QED
    BY <2>1, <2>2, UntouchedChanges
<1>10. CASE InsertsBought(t)
  <2>1. /\ UNCHANGED <<moves, rows, ask, status>> /\ step'[t] = "commit" /\ step[t] = "insert"
        /\ bought'[t] = {NewRow(t)} /\ ask[t].op = "register"
    BY <1>10 DEF InsertsBought, Inserts, AddBought, Goto
  <2>2. ask[t] \in Asks /\ ip[t] \in Ips /\ (ask[t].ip # NoIp => ip[t] = ask[t].ip)
    BY <1>a, <2>1 DEF Serves
  <2>3. NewRow(t).sold /\ Name(NewRow(t)) = ask[t].name
    BY <2>1, <2>2, AsksAssumption DEF NewRow, Name
  <2>4. \E b \in bought'[t] : bought'[t] = {b} /\ b.sold /\ Name(b) = ask[t].name
    BY <2>1, <2>3
  <2>5. (Credited(t)' <=> Credited(t)) /\ (Debited(t)' <=> Debited(t)) /\ Recorded(t)
          /\ Recorded(t)' /\ Sells(t)'
    BY <2>1 DEF Credited, Debited, Deals, Recorded, Selling, Sells
  <2> QED
    BY <1>a, <2>1, <2>4, <2>5 DEF Changes
<1>11. CASE Commits(t) \/ RollsBack(t)
  <2>1. ~Deals(t)' /\ ~Recorded(t)' /\ Untouched(t)'
    BY <1>11 DEF Commits, RollsBack, Ends, Forget, Deals, Recorded, Selling, Untouched,
       NoMoves
  <2> QED
    BY <2>1, UntouchedChanges
<1> QED
  BY <1>1, <1>2, <1>3, <1>4, <1>5, <1>6, <1>7, <1>8, <1>9, <1>10, <1>11 DEF Effect

\* A step keeps a task without a transaction without locks.
LEMMA LocksStep ==
  ASSUME Types, Stage, NEW t \in Tasks, Effect(t)
  PROVE  Locks(t)'
<1> USE DEF Types
<1>a. Serves(t) /\ Locks(t)
  BY DEF Stage
<1>1. CASE \E a \in Asks : Authenticate(t, a)
  BY <1>1, <1>a DEF Authenticate, Locks, transaction
<1>2. CASE Looks(t)
  <2>1. step[t] \in {"info", "root"} /\ UNCHANGED transaction
    BY <1>2 DEF Looks, LookForName, LookForRoot, LookForHome, LookForOwn, Looked
  <2> QED
    BY <2>1, <1>a DEF transaction, Locks
<1>3. CASE Unregister(t)
  BY <1>3, <1>a DEF Unregister, Locks, transaction
<1>4. CASE Check(t)
  BY <1>4, <1>a DEF Check, Locks
<1>5. CASE Debit(t) \/ Credit(t)
  BY <1>5, <1>a DEF Debit, Credit, Move, Goto, InTransaction, Locks, Serves
<1>6. CASE Records(t)
  BY <1>6, <1>a DEF Records, AddEntry, Goto, InTransaction, Locks, Serves
<1>7. CASE Address(t)
  BY <1>7, <1>a DEF Address, Goto, Locks, transaction
<1>8. CASE InsertsHome(t)
  BY <1>8, <1>a DEF InsertsHome, AddHome, Locks, transaction
<1>9. CASE InsertsBought(t)
  BY <1>9, <1>a DEF InsertsBought, AddBought, Goto, Locks
<1>10. CASE Commits(t) \/ RollsBack(t)
  BY <1>10 DEF Commits, RollsBack, Ends, Forget, Locks
<1> QED
  BY <1>1, <1>2, <1>3, <1>4, <1>5, <1>6, <1>7, <1>8, <1>9, <1>10 DEF Effect

\* So every task is where its variables say.
LEMMA StageStep ==
  ASSUME Types, Stage, NEW t \in Tasks, Effect(t)
  PROVE  Stage'
<1>1. \A o \in Tasks : o # t => (Serves(o) /\ Changes(o) /\ Locks(o))'
  BY TypesStep, OthersKeep
<1> QED
  BY <1>1, ServesStep, ChangesStep, LocksStep DEF Stage

\* The steps that change each of the tables.
LEMMA Touches ==
  ASSUME Types, NEW t \in Tasks, Effect(t)
  PROVE  /\ Commits(t) \/ UNCHANGED <<cash, ledger>>
         /\ Commits(t) \/ InsertsHome(t) \/ UNCHANGED ever
         /\ Commits(t) \/ InsertsHome(t) \/ Unregister(t) \/ UNCHANGED domains
         /\ Records(t) \/ rows'[t] \in {rows[t], {}}
         /\ InsertsBought(t) \/ bought'[t] \in {bought[t], {}}
         /\ nextId' \in {nextId, nextId + 1}
<1> USE DEF Types
<1>1. CASE \E a \in Asks : Authenticate(t, a)
  BY <1>1 DEF Authenticate, tables, transaction
<1>2. CASE Looks(t)
  BY <1>2 DEF Looks, LookForName, LookForRoot, LookForHome, LookForOwn, Looked, tables,
     transaction
<1>3. CASE Unregister(t)
  BY <1>3 DEF Unregister, transaction
<1>4. CASE Check(t) \/ Debit(t) \/ Credit(t)
  BY <1>4 DEF Check, Debit, Credit, Move, InTransaction, tables
<1>5. CASE Records(t)
  BY <1>5 DEF Records, AddEntry, InTransaction, tables
<1>6. CASE Address(t)
  BY <1>6 DEF Address, tables, transaction
<1>7. CASE InsertsHome(t)
  BY <1>7 DEF InsertsHome, Inserts, AddHome, transaction
<1>8. CASE InsertsBought(t)
  BY <1>8 DEF InsertsBought, Inserts, AddBought
<1>9. CASE Commits(t) \/ RollsBack(t)
  BY <1>9 DEF Commits, RollsBack, Ends, Forget
<1> QED
  BY <1>1, <1>2, <1>3, <1>4, <1>5, <1>6, <1>7, <1>8, <1>9 DEF Effect

\* A statement that waited for its locks takes none that another task has.
LEMMA LockedApartStep ==
  ASSUME Types, Stage, LockedApart, NEW t \in Tasks, Effect(t)
  PROVE  LockedApart'
<1> USE DEF Types
<1>1. \A o \in Tasks : o # t => owned'[o] = owned[o] /\ shared'[o] = shared[o]
  BY TypesStep DEF Own
<1>2. SUFFICES ASSUME NEW o \in Tasks, o # t
               PROVE  /\ owned'[t] \cap (owned[o] \cup shared[o]) = {}
                      /\ owned[o] \cap (owned'[t] \cup shared'[t]) = {}
  BY <1>1 DEF LockedApart
<1>3. /\ owned[t] \cap (owned[o] \cup shared[o]) = {}
      /\ owned[o] \cap (owned[t] \cup shared[t]) = {}
  BY <1>2 DEF LockedApart
<1>4. CASE Debit(t) \/ Credit(t)
  <2>1. PICK u : owned'[t] = owned[t] \cup {u} /\ shared'[t] = shared[t]
                   /\ Owners(t, u) \cup Sharers(t, u) = {}
    BY <1>4 DEF Debit, Credit, Move, WaitsFor
  <2>2. u \notin owned[o] \cup shared[o]
    BY <1>2, <2>1 DEF Owners, Sharers, Others
  <2> QED
    BY <1>3, <2>1, <2>2
<1>5. CASE Records(t) \/ InsertsBought(t)
  <2> DEFINE Locked(us) == /\ owned'[t] = owned[t] /\ shared'[t] = shared[t] \cup us
                           /\ \A u \in us : Owners(t, u) = {}
  <2>3. ASSUME Records(t) PROVE \E us : Locked(us)
    <3>1. Owners(t, ask[t].from) = {} /\ Owners(t, ask[t].to) = {}
      BY <2>3 DEF Records, WaitsFor
    <3>2. Locked({ask[t].from, ask[t].to})
      BY <2>3, <3>1 DEF Records, AddEntry
    <3> HIDE DEF Locked
    <3> QED
      BY <3>2
  <2>4. ASSUME InsertsBought(t) PROVE \E us : Locked(us)
    <3>1. Owners(t, ask[t].from) = {}
      BY <2>4 DEF InsertsBought, Inserts, WaitsFor
    <3>2. Locked({ask[t].from})
      BY <2>4, <3>1 DEF InsertsBought, AddBought
    <3> HIDE DEF Locked
    <3> QED
      BY <3>2
  <2>1. PICK us : Locked(us)
    BY <1>5, <2>3, <2>4
  <2>2. us \cap owned[o] = {}
    BY <1>2, <2>1 DEF Owners, Others
  <2> QED
    BY <1>3, <2>1, <2>2
<1>6. CASE owned'[t] \in {owned[t], {}} /\ shared'[t] \in {shared[t], {}}
  BY <1>3, <1>6
<1>7. CASE Looks(t) \/ Address(t) \/ InsertsHome(t) \/ Unregister(t) \/ Check(t)
            \/ \E a \in Asks : Authenticate(t, a)
  <2>1. UNCHANGED <<owned, shared>>
    BY <1>7 DEF Looks, LookForName, LookForRoot, LookForHome, LookForOwn, Looked, Address,
       InsertsHome, AddHome,
      Unregister, Check, Authenticate, transaction
  <2> QED
    BY <1>6, <2>1
<1>8. CASE Commits(t) \/ RollsBack(t)
  BY <1>6, <1>8 DEF Commits, RollsBack, Ends, Forget
<1> QED
  BY <1>4, <1>5, <1>7, <1>8 DEF Effect

-----------------------------------------------------------------------------
\* The numbers of the rows in the ledger go up to how many there are, and a row not
\* yet in it has a number above those of its task that are.
Books ==
    /\ \A e \in ledger : e.number <= Cardinality(ledger)
    /\ \A t \in Tasks : \A e \in rows[t] :
         /\ e.number <= Cardinality(ledger) + 1
         /\ \A l \in ledger : l.task = t => l.number < e.number

\* What a transaction commits to the ledger is one row, and a new one.
LEMMA CommittedRow ==
  ASSUME Types, Stage, Books, NEW t \in Tasks, Commits(t)
  PROVE  \E e \in Entries :
            /\ rows[t] = {e} /\ e \notin ledger /\ ledger' = ledger \cup {e}
            /\ e.task = t /\ e.from = ask[t].from /\ e.to = ask[t].to
                 /\ e.amount = ask[t].amount
            /\ e.what = ask[t].name /\ e.sale = (ask[t].op = "register")
                 /\ e.status = status[t]
            /\ Cardinality(ledger') = Cardinality(ledger) + 1
<1>1. Recorded(t) /\ ledger' = ledger \cup rows[t]
  BY DEF Commits, Publish, Recorded
<1>2. PICK e \in rows[t] :
            /\ rows[t] = {e} /\ e.task = t /\ e.from = ask[t].from /\ e.to = ask[t].to
            /\ e.amount = ask[t].amount /\ e.what = ask[t].name
            /\ e.sale = (ask[t].op = "register") /\ e.status = status[t]
  BY <1>1 DEF Stage, Changes
<1>3. e \in Entries /\ e.number \in Nat
  BY DEF Types, Entries
<1>4. e \notin ledger
  BY <1>2, <1>3 DEF Books
<1>5. Cardinality(ledger \cup {e}) = Cardinality(ledger) + 1
  BY <1>4, FS_AddElement DEF Types
<1> QED
  BY <1>1, <1>2, <1>3, <1>4, <1>5

\* A step keeps the numbers of the ledger apart.
LEMMA BooksStep ==
  ASSUME Types, Stage, Books, NEW t \in Tasks, Effect(t)
  PROVE  Books'
<1> USE DEF Types
<1>1. \A o \in Tasks : o # t => rows'[o] = rows[o]
  BY TypesStep DEF Own
<1>2. Cardinality(ledger) \in Nat /\ \A e \in Entries : e.number \in Nat
  BY FS_CardinalityType DEF Entries
<1>3. CASE Commits(t)
  <2>1. PICK e \in Entries :
            rows[t] = {e} /\ ledger' = ledger \cup {e} /\ e.task = t
              /\ Cardinality(ledger') = Cardinality(ledger) + 1
    BY <1>3, CommittedRow
  <2>2. rows'[t] = {}
    BY <1>3 DEF Commits, Ends, Forget
  <2>3. \A l \in ledger' : l.number <= Cardinality(ledger')
    <3>1. e.number <= Cardinality(ledger) + 1 /\ e.number \in Nat
      BY <1>2, <2>1 DEF Books
    <3> QED
      BY <1>2, <2>1, <3>1 DEF Books
  <2>4. \A o \in Tasks : \A r \in rows'[o] :
          /\ r.number <= Cardinality(ledger') + 1
          /\ \A l \in ledger' : l.task = o => l.number < r.number
    <3> SUFFICES ASSUME NEW o \in Tasks, NEW r \in rows'[o]
                 PROVE  /\ r.number <= Cardinality(ledger') + 1
                        /\ \A l \in ledger' : l.task = o => l.number < r.number
      OBVIOUS
    <3>1. o # t /\ r \in rows[o]
      BY <1>1, <2>2
    <3>2. r.number <= Cardinality(ledger) + 1 /\ r.number \in Nat
      BY <1>2, <3>1 DEF Books
    <3> QED
      BY <1>2, <2>1, <3>1, <3>2 DEF Books
  <2> QED
    BY <2>3, <2>4 DEF Books
<1>4. CASE Records(t)
  <2>1. ledger' = ledger /\ rows'[t] = {Entry(t)} /\ Entry(t).number = Cardinality(ledger) + 1
    BY <1>4 DEF Records, AddEntry, InTransaction, tables, Entry
  <2>2. ASSUME NEW o \in Tasks, NEW e \in rows'[o]
        PROVE  /\ e.number <= Cardinality(ledger) + 1
               /\ \A l \in ledger : l.task = o => l.number < e.number
    <3>1. CASE o # t
      BY <1>1, <2>2, <3>1 DEF Books
    <3>2. CASE o = t
      <4>1. e.number = Cardinality(ledger) + 1
        BY <2>1, <2>2, <3>2
      <4>2. \A l \in ledger : l.number \in Nat /\ l.number <= Cardinality(ledger)
        BY <1>2 DEF Books
      <4> QED
        BY <1>2, <4>1, <4>2
    <3> QED
      BY <3>1, <3>2
  <2>3. \A e \in ledger : e.number <= Cardinality(ledger)
    BY DEF Books
  <2> QED
    <3>1. \A e \in ledger' : e.number <= Cardinality(ledger')
      BY <2>1, <2>3
    <3>2. \A o \in Tasks : \A e \in rows'[o] :
            /\ e.number <= Cardinality(ledger') + 1
            /\ \A l \in ledger' : l.task = o => l.number < e.number
      BY <2>1, <2>2
    <3> QED
      BY <3>1, <3>2 DEF Books
<1>5. CASE ledger' = ledger /\ rows'[t] \in {rows[t], {}}
  BY <1>1, <1>5 DEF Books
<1> QED
  BY <1>3, <1>4, <1>5, Touches

-----------------------------------------------------------------------------
\* A COMMIT moves what the row it adds says: the books still balance.
LEMMA LedgerAgreesStep ==
  ASSUME Types, Stage, Books, LedgerAgrees, NEW t \in Tasks, Effect(t)
  PROVE  LedgerAgrees'
<1> DEFINE To(u) == {row \in Complete : row.to = u}
           From(u) == {row \in Complete : row.from = u}
<1> USE DEF Types
<1>1. CASE UNCHANGED <<cash, ledger>>
  <2>1. Complete' = Complete /\ cash' = cash
    BY <1>1 DEF Complete
  <2> QED
    BY <2>1 DEF LedgerAgrees
<1>2. CASE Commits(t)
  <2>1. PICK e \in Entries :
            /\ e \notin ledger /\ ledger' = ledger \cup {e}
            /\ e.from = ask[t].from /\ e.to = ask[t].to /\ e.amount = ask[t].amount
            /\ e.status = status[t]
    BY <1>2, CommittedRow
  <2>2. step[t] = "commit" /\ cash' = [u \in Accounts |-> cash[u] + moves[t][u]]
    BY <1>2 DEF Commits, Publish
  <2> SUFFICES ASSUME NEW u \in Accounts
               PROVE  cash'[u] = StartCash[u] + Total(To(u)') - Total(From(u)')
    BY DEF LedgerAgrees
  <2>3. e.amount \in Int /\ (Deals(t) <=> e.status = "COMPLETE")
    BY <2>1 DEF Entries, Deals
  <2>4. moves[t][u] = (IF Deals(t) /\ u = e.to THEN e.amount ELSE 0)
                       - (IF Deals(t) /\ u = e.from THEN e.amount ELSE 0)
    BY <2>1, <2>2 DEF Stage, Changes, Credited, Debited
  <2>5. ASSUME NEW S \in SUBSET ledger
        PROVE  Total(S) \in Int /\ Total(S \cup {e}) = Total(S) + e.amount
    <3>1. IsFiniteSet(S) /\ Amounts(S) /\ e \notin S
      BY <2>1, FS_Subset DEF Amounts, Entries
    <3> QED
      BY <2>3, <3>1, TotalAdds
  <2>6. To(u) \in SUBSET ledger /\ From(u) \in SUBSET ledger
    BY DEF Complete
  <2>7. /\ To(u)' = IF Deals(t) /\ u = e.to THEN To(u) \cup {e} ELSE To(u)
        /\ From(u)' = IF Deals(t) /\ u = e.from THEN From(u) \cup {e} ELSE From(u)
    BY <2>1, <2>3 DEF Complete
  <2>8. cash[u] = StartCash[u] + Total(To(u)) - Total(From(u))
          /\ cash'[u] = cash[u] + moves[t][u]
    BY <2>2 DEF LedgerAgrees
  <2>9. StartCash[u] \in Int /\ cash[u] \in Int
    BY BankAssumption
  <2> DEFINE TT == Total(To(u)) 
             TF == Total(From(u))
             TT1 == Total(To(u)')
             TF1 == Total(From(u)')
  <2>10. /\ TT1 = IF Deals(t) /\ u = e.to THEN TT + e.amount ELSE TT
         /\ TF1 = IF Deals(t) /\ u = e.from THEN TF + e.amount ELSE TF
         /\ TT \in Int /\ TF \in Int
    <3> HIDE DEF To, From
    <3> QED
      BY <2>5, <2>6, <2>7
  <2> HIDE DEF TT, TF, TT1, TF1
  <2>11. cash[u] = StartCash[u] + TT - TF
    BY <2>8 DEF TT, TF
  <2>12. cash'[u] = StartCash[u] + TT1 - TF1
    BY <2>3, <2>4, <2>8, <2>9, <2>10, <2>11
  <2> QED
    BY <2>12 DEF TT1, TF1
<1> QED
  BY <1>1, <1>2, Touches

\* A finite set of numbers has a greatest, which Max picks.
LEMMA GreatestThere ==
  ASSUME NEW S, IsFiniteSet(S), S \subseteq Int, S # {}
  PROVE  Max(S) \in S /\ \A x \in S : x <= Max(S)
<1> DEFINE P == {s \in SUBSET S : s = {} \/ \E m \in s : \A x \in s : m >= x}
<1>1. ASSUME NEW s \in SUBSET S, \A x \in s : s \ {x} \in P, s # {}
      PROVE  s \in P
  <2>1. PICK y \in s : TRUE
    BY <1>1
  <2>2. CASE s \ {y} = {}
    <3>1. s = {y} /\ y \in Int
      BY <2>2
    <3> QED
      BY <3>1
  <2>3. CASE s \ {y} # {}
    <3>1. PICK m \in s \ {y} : \A x \in s \ {y} : m >= x
      BY <1>1, <2>3
    <3>2. m \in Int /\ y \in Int /\ \A x \in s : x \in Int
      OBVIOUS
    <3>3. CASE m >= y
      BY <3>1, <3>3
    <3>4. CASE ~(m >= y)
      <4>1. \A x \in s : y >= x
        BY <3>1, <3>2, <3>4
      <4> QED
        BY <4>1
    <3> QED
      BY <3>3, <3>4
  <2> QED
    BY <2>2, <2>3
<1>2. SUBSET S \subseteq P
  <2>1. {} \in P
    OBVIOUS
  <2> HIDE DEF P
  <2> QED
    BY <1>1, <2>1, FiniteSetInduction
<1>3. \E m \in S : \A x \in S : m >= x
  BY <1>2
<1>4. Max(S) \in S /\ \A x \in S : Max(S) >= x
  BY <1>3 DEF Max
<1> QED
  BY <1>4

\* No request asks for more than the most asked.
LEMMA MostAskedIsMost ==
  /\ MostAsked \in Nat
  /\ \A a \in Asks : a.op \in {"transfer", "register"} => a.amount <= MostAsked
<1> DEFINE Spent == {b \in Asks : b.op \in {"transfer", "register"}}
           S == {a.amount : a \in Spent}
           T == S \cup {0}
<1>1. IsFiniteSet(T)
  <2>1. IsFiniteSet(Spent)
    BY AsksAssumption, FS_Subset
  <2> DEFINE f == [b \in Spent |-> b.amount]
  <2>3. f \in Surjection(Spent, S)
    BY DEF Surjection
  <2> HIDE DEF Spent, f
  <2>2. IsFiniteSet(S)
    <3> HIDE DEF S
    <3> QED
      BY <2>1, <2>3, FS_Surjection
  <2> HIDE DEF S
  <2> QED
    BY <2>2, FS_AddElement
<1>2. T \subseteq Int
  BY AskTypes
<1>3. Max(T) \in T /\ \A x \in T : x <= Max(T)
  <2> HIDE DEF T
  <2>1. T # {}
    BY DEF T
  <2> QED
    BY <1>1, <1>2, <2>1, GreatestThere
<1>4. MostAsked = Max(T)
  BY DEF MostAsked
<1>5. 0 \in T /\ \A a \in Asks : a.op \in {"transfer", "register"} => a.amount \in T
  OBVIOUS
<1>6. Max(T) \in Int /\ Max(T) >= 0
  <2> HIDE DEF T
  <2> QED
    BY <1>2, <1>3, <1>5
<1>7. \A a \in Asks : a.op \in {"transfer", "register"} => a.amount <= Max(T)
  <2> HIDE DEF T
  <2> QED
    BY <1>3, <1>5
<1> HIDE DEF T
<1> QED
  BY <1>4, <1>6, <1>7

-----------------------------------------------------------------------------
\* Those who have found u's money there and have not taken it yet.
Spending(u) == {t \in Tasks : Deals(t) /\ ask[t].from = u}
\* What n requests take at most, less what all there can be take at most.
Slack(n) == (n - Cardinality(Tasks)) * MostAsked
\* Of those spending, one has seen that there is enough for itself when the others had
\* taken nothing, so the money is short by no more than the others take.
Covers(c, S) ==
    IF S = {} THEN c >= Slack(1) ELSE \E t \in S : c >= ask[t].amount + Slack(Cardinality(S))
Covered == \A u \in Players : Covers(cash[u], Spending(u))

\* One task more is the most asked more.
LEMMA SlackGrows ==
  ASSUME NEW n \in Int
  PROVE  Slack(n) \in Int /\ Slack(n + 1) = Slack(n) + MostAsked
<1>1. Cardinality(Tasks) \in Int /\ MostAsked \in Int
  BY MostAskedIsMost, BankAssumption, FS_CardinalityType
<1>2. \A i, j, m \in Int : (i + 1 - j) * m = (i - j) * m + m /\ (i - j) * m \in Int
  OBVIOUS
<1> QED
  BY <1>1, <1>2 DEF Slack

\* There is never slack in the tasks there are.
LEMMA SlackIsNone ==
  ASSUME NEW S \in SUBSET Tasks
  PROVE  /\ IsFiniteSet(S) /\ Cardinality(S) \in Nat
         /\ Slack(Cardinality(S)) \in Int /\ Slack(Cardinality(S)) <= 0
<1>1. /\ IsFiniteSet(S) /\ Cardinality(S) \in Nat
      /\ Cardinality(S) <= Cardinality(Tasks) /\ Cardinality(Tasks) \in Nat
  BY BankAssumption, FS_Subset, FS_CardinalityType
<1>2. \A i \in Int, m \in Nat : i <= 0 => i * m <= 0
  OBVIOUS
<1>3. Slack(Cardinality(S)) <= 0
  BY <1>1, <1>2, MostAskedIsMost DEF Slack
<1> QED
  BY <1>1, <1>3, SlackGrows

\* One of them takes what it asks, or gives up: the rest is as covered as before.
LEMMA CoversLess ==
  ASSUME NEW S, IsFiniteSet(S), \A o \in S : ask[o].amount \in 0..MostAsked, NEW t \in S,
         NEW c \in Int, Covers(c, S), NEW d \in Int, d >= c - ask[t].amount
  PROVE  Covers(d, S \ {t})
<1> DEFINE R == S \ {t}
           n == Cardinality(S)
<1>1. n \in Nat /\ Cardinality(R) = n - 1
  BY FS_RemoveElement, FS_CardinalityType
<1>2. MostAsked \in Nat
  BY MostAskedIsMost
<1>3. PICK w \in S : c >= ask[w].amount + Slack(n)
  BY DEF Covers
<1>4. Slack(n) = Slack(n - 1) + MostAsked /\ Slack(n) \in Int /\ Slack(n - 1) \in Int
  BY <1>1, SlackGrows
<1>5. CASE R = {}
  <2>1. n = 1 /\ w = t
    <3>1. Cardinality(R) = 0
      BY <1>5, FS_EmptySet
    <3> QED
      BY <1>1, <1>5, <3>1
  <2>2. d >= Slack(1)
    <3>1. Slack(n) = Slack(1) /\ c >= ask[t].amount + Slack(n) /\ ask[t].amount \in Int
      BY <1>3, <2>1
    <3> QED
      BY <1>4, <3>1
  <2> QED
    BY <1>5, <2>2 DEF Covers
<1>6. ASSUME NEW v \in R, v = w \/ w = t PROVE d >= ask[v].amount + Slack(n - 1)
  BY <1>2, <1>3, <1>4, <1>6
<1>7. CASE R # {}
  <2>1. PICK v \in R : v = w \/ w = t
    BY <1>7
  <2>2. d >= ask[v].amount + Slack(Cardinality(R))
    BY <1>1, <1>6, <2>1
  <2> QED
    BY <1>7, <2>2 DEF Covers
<1> QED
  BY <1>5, <1>7

\* With more money the same are covered.
LEMMA CoversMore ==
  ASSUME NEW S, IsFiniteSet(S), \A o \in S : ask[o].amount \in 0..MostAsked,
         NEW c \in Int, Covers(c, S), NEW d \in Int, d >= c
  PROVE  Covers(d, S)
<1>1. Slack(1) \in Int /\ Slack(Cardinality(S)) \in Int
  BY SlackGrows, FS_CardinalityType
<1> QED
  BY <1>1 DEF Covers

\* What is being paid is more than nothing, and at most the most asked.
LEMMA DealsAreAsked ==
  ASSUME Types, Stage, NEW t \in Tasks, Deals(t)
  PROVE  ask[t].amount \in 0..MostAsked /\ ask[t].amount > 0 /\ ask[t].from # ask[t].to
<1>1. ask[t] \in Asks /\ ask[t].op \in {"transfer", "register"} /\ ask[t].amount > 0
        /\ ask[t].from # ask[t].to
  BY DEF Stage, Serves
<1> QED
  BY <1>1, AskTypes, MostAskedIsMost

\* But for a check and a COMMIT a task goes on spending the same, or stops.
LEMMA SpendingKept ==
  ASSUME Types, Stage, NEW t \in Tasks, Effect(t), ~Commits(t), ~(Check(t) /\ Deals(t)')
  PROVE  ~Deals(t)' \/ (Deals(t) /\ ask'[t] = ask[t])
<1> USE DEF Types, Deals
<1>1. CASE \E a \in Asks : Authenticate(t, a)
  BY <1>1 DEF Authenticate, Stage, Serves
<1>2. CASE Looks(t)
  <2>1. step[t] \in {"info", "root"}
    BY <1>2 DEF Looks, LookForName, LookForRoot, LookForHome, LookForOwn
  <2>2. ~Deals(t)
    BY <2>1 DEF Stage, Serves
  <2>3. Serves(t)
    BY DEF Stage
  <2>4. ASSUME NEW text, Reply(t, text) PROVE ~Deals(t)'
    BY <2>4 DEF Reply
  <2> QED
    BY <1>2, <2>2, <2>3, <2>4, LooksSend DEF Pursue
<1>3. CASE Debit(t) \/ Credit(t)
  BY <1>3 DEF Debit, Credit, Move, InTransaction
<1>4. CASE Records(t)
  BY <1>4 DEF Records, AddEntry, InTransaction
<1>5. CASE Address(t)
  BY <1>5 DEF Address
<1>6. CASE InsertsBought(t)
  BY <1>6 DEF InsertsBought, AddBought
<1>7. CASE InsertsHome(t) \/ Unregister(t)
  BY <1>7 DEF InsertsHome, AddHome, Unregister, Reply
<1>8. CASE RollsBack(t)
  BY <1>8 DEF RollsBack, Ends
<1> QED
  BY <1>1, <1>2, <1>3, <1>4, <1>5, <1>6, <1>7, <1>8 DEF Effect

\* A step leaves everybody covered: Check looks at the money there is, Commit takes what
\* was covered, and whoever stops spending takes nothing.
LEMMA CoveredStep ==
  ASSUME Types, Stage, Books, Covered, NEW t \in Tasks, Effect(t)
  PROVE  Covered'
<1> USE DEF Types
<1> SUFFICES ASSUME NEW u \in Players PROVE Covers(cash[u], Spending(u))'
  BY DEF Covered
<1>1. \A o \in Tasks : o # t => (Deals(o)' <=> Deals(o)) /\ ask'[o] = ask[o]
  BY TypesStep DEF Own, Deals
<1>2. Covers(cash[u], Spending(u)) /\ cash[u] \in Int /\ u \in Accounts
  BY DEF Covered, Accounts
<1>3. \A o \in Spending(u) : ask[o].amount \in 0..MostAsked
  BY DealsAreAsked DEF Spending
<1>4. IsFiniteSet(Spending(u))
  BY SlackIsNone DEF Spending
<1>5. cash'[u] \in Int
  BY <1>2, TypesStep
<1>6. ASSUME NEW S, Spending(u)' = S, \A o \in S : ask'[o] = ask[o], NEW d \in Int,
             cash'[u] = d, Covers(d, S)
      PROVE  Covers(cash[u], Spending(u))'
  BY <1>6 DEF Covers
<1>7. CASE Commits(t)
  <2>1. ~Deals(t)' /\ cash'[u] = cash[u] + moves[t][u] /\ step[t] = "commit"
    BY <1>2, <1>7 DEF Commits, Publish, Ends, Deals
  <2>2. Deals(t) => ask[t].amount \in 0..MostAsked /\ ask[t].from # ask[t].to
    BY DealsAreAsked
  <2>3. moves[t][u] = (IF Deals(t) /\ u = ask[t].to THEN ask[t].amount ELSE 0)
                       - (IF Deals(t) /\ u = ask[t].from THEN ask[t].amount ELSE 0)
    BY <1>2, <2>1 DEF Stage, Changes, Credited, Debited
  <2>4. CASE t \in Spending(u)
    <3>1. Spending(u)' = Spending(u) \ {t}
      BY <1>1, <2>1 DEF Spending
    <3>2. cash'[u] >= cash[u] - ask[t].amount
      BY <1>2, <2>1, <2>2, <2>3, <2>4, MostAskedIsMost DEF Spending
    <3>3. Covers(cash'[u], Spending(u) \ {t})
      BY <1>2, <1>3, <1>4, <1>5, <2>4, <3>2, CoversLess
    <3> QED
      BY <1>1, <1>5, <1>6, <3>1, <3>3 DEF Spending
  <2>5. CASE t \notin Spending(u)
    <3>1. Spending(u)' = Spending(u)
      BY <1>1, <2>1, <2>5 DEF Spending
    <3>2. cash'[u] >= cash[u]
      BY <1>2, <2>1, <2>2, <2>3, <2>5 DEF Spending
    <3>3. Covers(cash'[u], Spending(u))
      BY <1>2, <1>3, <1>4, <1>5, <3>2, CoversMore
    <3> QED
      BY <1>1, <1>5, <1>6, <2>5, <3>1, <3>3 DEF Spending
  <2> QED
    BY <2>4, <2>5
<1>8. CASE Check(t) /\ Deals(t)'
  <2>1. UNCHANGED <<ask, cash>> /\ ~Deals(t) /\ Verdict(t) = "COMPLETE" /\ step[t] = "check"
    BY <1>8 DEF Check, InTransaction, tables, Stage, Serves, Deals
  <2>2. cash[ask[t].from] >= ask[t].amount /\ ask[t].amount \in Int
    <3>1. ask[t].amount \in Int /\ ask[t].from \in Accounts
      BY <2>1, AskTypes DEF Stage, Serves
    <3> QED
      BY <2>1, <3>1 DEF Verdict
  <2>3. CASE ask[t].from = u
    <3> DEFINE S == Spending(u) \cup {t}
    <3>1. Spending(u)' = S /\ S \in SUBSET Tasks /\ t \in S
      BY <1>1, <1>8, <2>1, <2>3 DEF Spending
    <3>2. cash[u] >= ask[t].amount + Slack(Cardinality(S))
      <4> HIDE DEF S
      <4> QED
        BY <1>2, <2>2, <2>3, <3>1, SlackIsNone
    <3>3. Covers(cash[u], S)
      BY <3>1, <3>2 DEF Covers
    <3> HIDE DEF S
    <3> QED
      BY <1>2, <1>6, <2>1, <3>1, <3>3
  <2>4. CASE ask[t].from # u
    <3>1. Spending(u)' = Spending(u)
      BY <1>1, <2>1, <2>4 DEF Spending
    <3> QED
      BY <1>2, <1>6, <2>1, <3>1
  <2> QED
    BY <2>3, <2>4
<1>9. CASE ~Commits(t) /\ ~(Check(t) /\ Deals(t)')
  <2>1. cash' = cash /\ (~Deals(t)' \/ (Deals(t) /\ ask'[t] = ask[t]))
    BY <1>9, Touches, SpendingKept
  <2>2. CASE t \in Spending(u) /\ ~Deals(t)'
    <3>1. Spending(u)' = Spending(u) \ {t} /\ \A o \in Spending(u) \ {t} : ask'[o] = ask[o]
      BY <1>1, <2>2 DEF Spending
    <3>2. ask[t].amount \in Int /\ cash[u] >= cash[u] - ask[t].amount
      BY <1>2, <1>3, <2>2, MostAskedIsMost
    <3>3. Covers(cash[u], Spending(u) \ {t})
      BY <1>2, <1>3, <1>4, <2>2, <3>2, CoversLess
    <3> QED
      BY <1>2, <1>6, <2>1, <3>1, <3>3
  <2>3. CASE t \notin Spending(u) \/ Deals(t)'
    <3>1. Spending(u)' = Spending(u) /\ \A o \in Spending(u) : ask'[o] = ask[o]
      BY <1>1, <2>1, <2>3 DEF Spending
    <3> QED
      BY <1>2, <1>6, <2>1, <3>1
  <2> QED
    BY <2>2, <2>3
<1> QED
  BY <1>7, <1>8, <1>9

\* Whoever is covered is never further overdrawn than the bound.
LEMMA CoveredBounds ==
  ASSUME Types, Stage, Covered
  PROVE  OverdraftBounded
<1> SUFFICES ASSUME NEW u \in Players PROVE cash[u] >= Slack(1)
  <2>1. Cardinality(Tasks) \in Nat /\ MostAsked \in Nat
    BY MostAskedIsMost, FS_CardinalityType, BankAssumption
  <2>2. \A n, m \in Int : (1 - n) * m = 0 - (n - 1) * m
    OBVIOUS
  <2> QED
    BY <2>1, <2>2 DEF OverdraftBounded, Slack
<1>1. Covers(cash[u], Spending(u)) /\ cash[u] \in Int
  BY DEF Covered, Types, Accounts
<1>2. CASE Spending(u) # {}
  <2> DEFINE n == Cardinality(Spending(u))
  <2>1. PICK t \in Spending(u) : cash[u] >= ask[t].amount + Slack(n)
    BY <1>1, <1>2 DEF Covers
  <2>2. ask[t].amount \in 0..MostAsked
    BY DealsAreAsked DEF Spending
  <2>3. n \in Nat /\ n # 0 /\ IsFiniteSet(Spending(u)) /\ Spending(u) \in SUBSET Tasks
    BY <1>2, SlackIsNone, FS_EmptySet DEF Spending
  <2>4. Cardinality(Tasks) \in Nat /\ MostAsked \in Nat
    BY MostAskedIsMost, FS_CardinalityType, BankAssumption
  <2>5. \A i, j \in Int, m \in Nat : i <= j => i * m <= j * m /\ i * m \in Int
          /\ j * m \in Int
    OBVIOUS
  <2>6. 1 - Cardinality(Tasks) <= n - Cardinality(Tasks)
    BY <2>3, <2>4
  <2>7. Slack(1) <= Slack(n) /\ Slack(1) \in Int /\ Slack(n) \in Int
    BY <2>3, <2>4, <2>5, <2>6 DEF Slack
  <2> HIDE DEF n
  <2> QED
    BY <1>1, <2>1, <2>2, <2>4, <2>7
<1> QED
  BY <1>1, <1>2 DEF Covers

\* Every domain there has been, and those that are bought and not there yet.
Made == ever \cup UNION {bought[t] : t \in Tasks}
Ids ==
    /\ \A row \in Made : 0 < row.id /\ row.id < nextId
    /\ \A row, other \in Made : row.id = other.id => row = other
    /\ \A t \in Tasks : bought[t] \cap ever = {}
    /\ \A t, o \in Tasks : t # o => bought[t] \cap bought[o] = {}

\* A row inserted has an id of its own.
LEMMA IdsStep ==
  ASSUME Types, Stage, Ids, nextId > 0, NEW t \in Tasks, Effect(t)
  PROVE  Ids' /\ nextId' > 0
<1> USE DEF Types
<1>1. \A o \in Tasks : o # t => bought'[o] = bought[o]
  BY TypesStep DEF Own
<1>2. nextId \in Nat /\ \A row \in Made : row.id \in Nat
  BY DEF Row, Made
<1>3. /\ \A row \in Made : 0 < row.id /\ row.id < nextId
      /\ \A row, other \in Made : row.id = other.id => row = other
  BY DEF Ids
<1>4. CASE Commits(t)
  <2>1. ever' = ever \cup bought[t] /\ bought'[t] = {} /\ nextId' = nextId
    BY <1>4 DEF Commits, Publish, Ends, Forget
  <2>2. Made' \subseteq Made
    <3>1. ever' \subseteq Made
      BY <2>1 DEF Made
    <3>2. \A o \in Tasks : bought'[o] \subseteq Made
      BY <1>1, <2>1 DEF Made
    <3> QED
      BY <3>1, <3>2 DEF Made
  <2>3. \A o \in Tasks : bought'[o] \cap ever' = {}
    BY <1>1, <2>1 DEF Ids
  <2>4. \A o, p \in Tasks : o # p => bought'[o] \cap bought'[p] = {}
    BY <1>1, <2>1 DEF Ids
  <2> QED
    BY <1>3, <2>1, <2>2, <2>3, <2>4 DEF Ids
<1>5. CASE InsertsHome(t) \/ InsertsBought(t)
  <2> DEFINE new == NewRow(t)
  <2>1. nextId' = nextId + 1 /\ new.id = nextId
    BY <1>5 DEF InsertsHome, InsertsBought, Inserts, NewRow
  <2> HIDE DEF new
  <2>2. ~(new \in Made)
    BY <1>2, <1>3, <2>1
  <2>3. \/ ever' = ever \cup {new} /\ bought'[t] = bought[t]
        \/ ever' = ever /\ bought'[t] = {new}
    BY <1>5 DEF InsertsHome, InsertsBought, Inserts, AddHome, AddBought, transaction, new
  <2>4. Made' \subseteq Made \cup {new}
    BY <1>1, <2>3 DEF Made
  <2>5. \A row \in Made \cup {new} : 0 < row.id /\ row.id < nextId'
    BY <1>2, <1>3, <2>1
  <2>6. \A row, other \in Made \cup {new} : row.id = other.id => row = other
    BY <1>2, <1>3, <2>1
  <2>7. \A o \in Tasks : bought[o] \subseteq Made /\ ever \subseteq Made
    BY DEF Made
  <2>8. \A o \in Tasks : bought'[o] \cap ever' = {}
    <3>1. \A o \in Tasks : bought[o] \cap ever = {} /\ new \notin bought[o] /\ new \notin ever
      BY <2>2, <2>7 DEF Ids
    <3>2. \A o \in Tasks : bought'[o] = bought[o] \/ (bought'[o] = {new} /\ ever' = ever)
      BY <1>1, <2>3
    <3> QED
      BY <2>3, <3>1, <3>2
  <2>9. \A o, p \in Tasks : o # p => bought'[o] \cap bought'[p] = {}
    BY <1>1, <2>2, <2>3, <2>7 DEF Ids
  <2>10. nextId' > 0
    BY <1>2, <2>1
  <2> QED
    BY <2>4, <2>5, <2>6, <2>8, <2>9, <2>10 DEF Ids
<1>6. CASE ever' = ever /\ bought'[t] \in {bought[t], {}} /\ nextId' \in {nextId, nextId + 1}
  <2>1. Made' \subseteq Made
    BY <1>1, <1>6 DEF Made
  <2>2. \A row \in Made : 0 < row.id /\ row.id < nextId'
    BY <1>2, <1>3, <1>6
  <2>3. /\ \A o \in Tasks : bought'[o] \cap ever' = {}
        /\ \A o, p \in Tasks : o # p => bought'[o] \cap bought'[p] = {}
    BY <1>1, <1>6 DEF Ids
  <2>4. nextId' > 0
    BY <1>2, <1>6
  <2> QED
    BY <1>3, <2>1, <2>2, <2>3, <2>4 DEF Ids
<1> QED
  BY <1>4, <1>5, <1>6, Touches DEF InsertsHome, InsertsBought

-----------------------------------------------------------------------------
\* What has been charged for a name, and what has been sold under it.
Charges(name) == {entry \in ledger : entry.sale /\ entry.what = name}
Bought(name) == {row \in ever : row.sold /\ Name(row) = name}
Sold == \A name : Cardinality(Charges(name)) = Cardinality(Bought(name))

\* A COMMIT adds the domain and the charge for it together, or neither.
LEMMA SoldStep ==
  ASSUME Types, Stage, Books, Ids, Sold, NEW t \in Tasks, Effect(t)
  PROVE  Sold'
<1> USE DEF Types
<1> SUFFICES ASSUME NEW name PROVE Cardinality(Charges(name))' = Cardinality(Bought(name))'
  BY DEF Sold
<1>1. Cardinality(Charges(name)) = Cardinality(Bought(name))
  BY DEF Sold
<1>2. CASE Commits(t)
  <2>1. PICK e \in Entries :
            /\ e \notin ledger /\ ledger' = ledger \cup {e}
            /\ e.what = ask[t].name /\ e.sale = (ask[t].op = "register")
    BY <1>2, CommittedRow
  <2>2. step[t] = "commit" /\ ever' = ever \cup bought[t]
    BY <1>2 DEF Commits, Publish
  <2>3. CASE ask[t].op = "register"
    <3>1. PICK b \in bought[t] : bought[t] = {b} /\ b.sold /\ Name(b) = ask[t].name
      BY <2>2, <2>3 DEF Stage, Changes, Sells
    <3>2. b \notin ever
      BY <3>1 DEF Ids
    <3>3. CASE name = ask[t].name
      <4>4. Charges(name)' = Charges(name) \cup {e} /\ e \notin Charges(name)
        BY <2>1, <2>3, <3>3 DEF Charges
      <4>5. Bought(name)' = Bought(name) \cup {b} /\ b \notin Bought(name)
        <5> HIDE DEF Name
        <5> QED
          BY <2>2, <3>1, <3>2, <3>3 DEF Bought
      <4>1. /\ Charges(name)' = Charges(name) \cup {e} /\ e \notin Charges(name)
            /\ Bought(name)' = Bought(name) \cup {b} /\ b \notin Bought(name)
        BY <4>4, <4>5
      <4>2. IsFiniteSet(Charges(name)) /\ IsFiniteSet(Bought(name))
        BY FS_Subset DEF Charges, Bought
      <4>3. /\ Cardinality(Charges(name) \cup {e}) = Cardinality(Charges(name)) + 1
            /\ Cardinality(Bought(name) \cup {b}) = Cardinality(Bought(name)) + 1
        BY <4>1, <4>2, FS_AddElement
      <4> QED
        BY <1>1, <4>1, <4>3
    <3>4. CASE name # ask[t].name
      <4>1. Charges(name)' = Charges(name) /\ Bought(name)' = Bought(name)
        BY <2>1, <2>2, <3>1, <3>4 DEF Charges, Bought
      <4> QED
        BY <1>1, <4>1
    <3> QED
      BY <3>3, <3>4
  <2>4. CASE ask[t].op # "register"
    <3>1. bought[t] = {}
      BY <2>4 DEF Stage, Changes, Sells
    <3>2. Charges(name)' = Charges(name) /\ Bought(name)' = Bought(name)
      BY <2>1, <2>2, <2>4, <3>1 DEF Charges, Bought
    <3> QED
      BY <1>1, <3>2
  <2> QED
    BY <2>3, <2>4
<1>3. CASE InsertsHome(t)
  <2>1. ledger' = ledger /\ ever' = ever \cup {NewRow(t)} /\ ~NewRow(t).sold
    BY <1>3 DEF InsertsHome, AddHome, NewRow
  <2>2. Charges(name)' = Charges(name) /\ Bought(name)' = Bought(name)
    BY <2>1 DEF Charges, Bought
  <2> QED
    BY <1>1, <2>2
<1>4. CASE ledger' = ledger /\ ever' = ever
  <2>1. Charges(name)' = Charges(name) /\ Bought(name)' = Bought(name)
    BY <1>4 DEF Charges, Bought
  <2> QED
    BY <1>1, <2>1
<1> QED
  BY <1>2, <1>3, <1>4, Touches DEF InsertsHome, AddHome

\* So each name has been charged for as often as it has been sold.
LEMMA SoldIsOnce ==
  ASSUME Sold PROVE SoldOnce
<1> DEFINE sold == {row \in ever : row.sold}
           charges == {entry \in ledger : entry.sale}
<1>1. ASSUME NEW name
      PROVE  Cardinality({entry \in charges : entry.what = name})
               = Cardinality({row \in sold : Name(row) = name})
  <2>1. /\ {entry \in charges : entry.what = name} = Charges(name)
        /\ {row \in sold : Name(row) = name} = Bought(name)
    BY DEF Charges, Bought
  <2> QED
    BY <2>1 DEF Sold
<1> QED
  BY <1>1 DEF SoldOnce

-----------------------------------------------------------------------------
\* Nothing there, and nothing bought and not there yet, goes by the name of another.
Unalike ==
    /\ NamesAreUnique
    /\ \A t \in Tasks : \A row \in bought[t] : \A other \in domains : ~Alike(row, other)
    /\ \A t, o \in Tasks :
         t # o => \A row \in bought[t], other \in bought[o] : ~Alike(row, other)

\* An INSERT that waited for its rivals and clashed with nothing has a name of its own.
LEMMA UnalikeStep ==
  ASSUME Types, Stage, Unalike, NEW t \in Tasks, Effect(t)
  PROVE  Unalike'
<1> USE DEF Types
<1>1. \A o \in Tasks : o # t => bought'[o] = bought[o]
  BY TypesStep DEF Own
<1>2. \A a, b : Alike(a, b) <=> Alike(b, a)
  BY DEF Alike
<1>3. CASE Commits(t)
  <2>1. domains' = domains \cup bought[t] /\ bought'[t] = {}
    BY <1>3 DEF Commits, Publish, Ends, Forget
  <2>2. \A row, other \in bought[t] : row = other
    BY DEF Stage, Changes
  <2>3. \A row, other \in domains' : row # other => ~Alike(row, other)
    BY <1>2, <2>1, <2>2 DEF Unalike, NamesAreUnique
  <2>4. \A o \in Tasks : \A row \in bought'[o], other \in domains' : ~Alike(row, other)
    BY <1>1, <1>2, <2>1 DEF Unalike
  <2>5. \A o, p \in Tasks :
          o # p => \A row \in bought'[o], other \in bought'[p] : ~Alike(row, other)
    BY <1>1, <2>1 DEF Unalike
  <2> QED
    BY <2>3, <2>4, <2>5 DEF Unalike, NamesAreUnique
<1>4. CASE InsertsHome(t) \/ InsertsBought(t)
  <2>1. \A other \in domains : ~Alike(NewRow(t), other)
    BY <1>4 DEF InsertsHome, InsertsBought, Inserts, Clashes
  <2>2. \A o \in Tasks : o # t => \A other \in bought[o] : ~Alike(NewRow(t), other)
    BY <1>4 DEF InsertsHome, InsertsBought, Inserts, WaitsFor, Rivals, Others
  <2> HIDE DEF NewRow
  <2>3. CASE InsertsHome(t)
    <3>1. domains' = domains \cup {NewRow(t)} /\ bought' = bought /\ bought[t] = {}
      BY <2>3 DEF InsertsHome, AddHome, transaction, Stage, Changes, Sells
    <3> QED
      BY <1>2, <2>1, <2>2, <3>1 DEF Unalike, NamesAreUnique
  <2>4. CASE InsertsBought(t)
    <3>1. domains' = domains /\ bought'[t] = {NewRow(t)}
      BY <2>4 DEF InsertsBought, Inserts, AddBought
    <3>2. \A o \in Tasks : \A row \in bought'[o], other \in domains' : ~Alike(row, other)
      BY <1>1, <2>1, <3>1 DEF Unalike
    <3>3. \A o, p \in Tasks :
            o # p => \A row \in bought'[o], other \in bought'[p] : ~Alike(row, other)
      BY <1>1, <1>2, <2>2, <3>1 DEF Unalike
    <3> QED
      BY <3>1, <3>2, <3>3 DEF Unalike, NamesAreUnique
  <2> QED
    BY <1>4, <2>3, <2>4
<1>5. CASE domains' \subseteq domains /\ bought'[t] \in {bought[t], {}}
  BY <1>1, <1>5 DEF Unalike, NamesAreUnique
<1>6. Unregister(t) => domains' \subseteq domains
  BY DEF Unregister
<1> QED
  BY <1>3, <1>4, <1>5, <1>6, Touches

-----------------------------------------------------------------------------
\* The names under which others are asked for; what is there under another is no such
\* name itself, so nothing is deeper than one.
Unders == {a.under : a \in {b \in Asks : b.op = "register"}} \ {NoHost}
Stands(row) ==
    row.parent # NoParent =>
      /\ row.host \notin Unders
      /\ \E over \in domains : over.id = row.parent /\ over.owner = row.owner
           /\ over.host \in Unders
\* The row a task has found: to delete, or to put another under.
RootFound(t) ==
    /\ step[t] \in {"idle", "info"} => root[t] = NoRow
    /\ step[t] = "delete" => root[t] \in ever
    /\ ask[t].op = "login" => root[t].id = NoParent
    /\ ask[t].op = "register" /\ root[t].id # NoParent =>
         /\ root[t] \in ever /\ root[t].owner = ask[t].from
         /\ ask[t].under \in Unders /\ root[t].host = ask[t].under
Tree ==
    /\ \A row \in domains : Stands(row)
    /\ \A t \in Tasks : \A row \in bought[t] : Stands(row)
    /\ \A t \in Tasks : RootFound(t)

\* The row a task found is what it looked for, until it is done with it.
LEMMA RootFoundStep ==
  ASSUME Types, Stage, Tree, NEW t \in Tasks, Effect(t)
  PROVE  \A o \in Tasks : RootFound(o)'
<1> USE DEF Types
<1>1. \A o \in Tasks : o # t => root'[o] = root[o] /\ step'[o] = step[o] /\ ask'[o] = ask[o]
  BY TypesStep DEF Own
<1>2. ever \subseteq ever'
  BY Touches DEF Commits, Publish, InsertsHome, AddHome
<1>3. \A o \in Tasks : RootFound(o)
  BY DEF Tree
<1>4. ASSUME NEW o \in Tasks, o # t PROVE RootFound(o)'
  BY <1>1, <1>2, <1>3, <1>4 DEF RootFound
<1>5. Serves(t)
  BY DEF Stage
<1>7. NoRow \notin domains
  BY BankAssumption DEF Row, NoRow, Accounts
<1>6. RootFound(t)'
  <2>1. CASE \E a \in Asks : Authenticate(t, a)
    <3>1. root' = root /\ root[t] = NoRow /\ step'[t] # "delete"
      BY <1>3, <2>1 DEF Authenticate, Goto, RootFound
    <3> QED
      BY <3>1 DEF RootFound, NoRow, NoParent
  <2>2. CASE Looks(t)
    <3>1. ASSUME NEW text, Reply(t, text) PROVE RootFound(t)'
      BY <3>1 DEF Reply, Goto, RootFound, NoAsk, NoRow, NoParent
    <3>2. ASSUME NEW next \in Steps, NEW row \in Row \cup {NoRow}, Pursue(t, next, row),
                 SentTo(t, next, row)
          PROVE  RootFound(t)'
      <4>1. ask' = ask /\ root'[t] = row /\ step'[t] = next /\ next \notin {"idle", "info"}
        BY <3>2 DEF Pursue, Goto, SentTo
      <4>2. CASE row = NoRow
        <5>1. row.id = NoParent
          BY <4>2 DEF NoRow, NoParent
        <5>2. next # "delete"
          BY <3>2, <4>2, <1>7 DEF SentTo
        <5> QED
          BY <4>1, <5>1, <5>2 DEF RootFound
      <4>3. CASE step[t] = "root"
        <5>1. /\ next = "check" /\ ask[t] \in Asks /\ ask[t].op = "register"
                /\ ask[t].under # NoHost
              /\ row \in Rows(domains, ask[t].under) /\ row.owner = ask[t].from
          BY <1>5, <3>2, <4>3 DEF SentTo, Serves
        <5>2. ask[t].under \in Unders /\ ask[t].under \notin Ips
          BY <5>1, AsksAssumption DEF Unders
        <5>3. row \in ever /\ row.host = ask[t].under
          BY <5>1, <5>2 DEF Rows, Row
        <5> QED
          BY <1>2, <4>1, <5>1, <5>2, <5>3 DEF RootFound
      <4>4. CASE next = "delete" /\ row \in domains /\ ask[t].op = "unregister"
        BY <1>2, <4>1, <4>4 DEF RootFound
      <4> QED
        BY <3>2, <4>2, <4>3, <4>4 DEF SentTo
    <3> QED
      BY <1>5, <2>2, <3>1, <3>2, LooksSend
  <2>3. CASE Unregister(t) \/ InsertsHome(t) \/ Commits(t) \/ RollsBack(t)
    <3>1. step'[t] = "idle" /\ ask'[t] = NoAsk /\ root'[t] = NoRow
      BY <2>3 DEF Unregister, InsertsHome, AddHome, Reply, Goto, Commits, RollsBack, Ends
    <3> QED
      BY <3>1 DEF RootFound, NoAsk
  <2>4. CASE Check(t) \/ Debit(t) \/ Credit(t) \/ Records(t) \/ Address(t) \/ InsertsBought(t)
    <3>1. ask' = ask /\ root' = root /\ step'[t] \notin {"delete", "idle", "info"}
      BY <2>4 DEF Check, Debit, Credit, Move, Records, AddEntry, InTransaction, Address,
         InsertsBought, AddBought, Goto
    <3> QED
      BY <1>2, <1>3, <3>1 DEF RootFound
  <2> QED
    BY <2>1, <2>2, <2>3, <2>4 DEF Effect
<1> QED
  BY <1>4, <1>6

\* A subdomain is inserted under a domain that is there, and a domain deleted takes them
\* with it: those there, and those being bought, which the DELETE waits for.
LEMMA TreeStep ==
  ASSUME Types, Stage, Ids, Tree, NEW t \in Tasks, Effect(t)
  PROVE  Tree'
<1> USE DEF Types
<1>1. \A o \in Tasks : RootFound(o)'
  BY RootFoundStep
<1>2. \A o \in Tasks : o # t => bought'[o] = bought[o]
  BY TypesStep DEF Own
<1>3. SUFFICES /\ \A row \in domains' : Stands(row)'
               /\ \A o \in Tasks : \A row \in bought'[o] : Stands(row)'
  BY <1>1 DEF Tree
<1>4. /\ \A row \in domains : Stands(row)
      /\ \A o \in Tasks : \A row \in bought[o] : Stands(row)
  BY DEF Tree
<1>5. ASSUME NEW row, Stands(row), domains \subseteq domains' PROVE Stands(row)'
  BY <1>5 DEF Stands
<1>6. CASE Unregister(t)
  <2>1. /\ WaitsFor(t) = {} /\ step[t] = "delete" /\ bought' = bought
        /\ domains' = {row \in domains : root[t].id \notin {row.id, row.parent}}
    BY <1>6 DEF Unregister, transaction
  <2>2. root[t].id # NoParent
    <3>1. root[t] \in Made
      BY <2>1 DEF Tree, RootFound, Made
    <3> QED
      BY <3>1 DEF Ids, NoParent
  <2>3. ASSUME NEW row, Stands(row), row.parent # root[t].id PROVE Stands(row)'
    <3>1. SUFFICES ASSUME row.parent # NoParent
                   PROVE  \E over \in domains' : over.id = row.parent
                            /\ over.owner = row.owner /\ over.host \in Unders
      BY <2>3 DEF Stands
    <3>2. PICK over \in domains : over.id = row.parent /\ over.owner = row.owner
                 /\ over.host \in Unders
      BY <2>3, <3>1 DEF Stands
    <3>3. over.parent = NoParent
      BY <1>4, <3>2 DEF Stands
    <3> QED
      BY <2>1, <2>2, <2>3, <3>2, <3>3
  <2>4. \A row \in domains' : row \in domains /\ row.parent # root[t].id
    BY <2>1
  <2>5. ASSUME NEW o \in Tasks, NEW row \in bought[o] PROVE row.parent # root[t].id
    <3>1. bought[t] = {}
      BY <2>1 DEF Stage, Changes, Sells
    <3>2. o \in Others(t)
      BY <3>1, <2>5 DEF Others
    <3>3. Children(t, root[t]) = {}
      BY <2>1 DEF WaitsFor
    <3> QED
      BY <2>5, <3>2, <3>3 DEF Children
  <2> QED
    BY <1>4, <2>1, <2>3, <2>4, <2>5
<1>7. CASE Commits(t)
  <2>1. domains' = domains \cup bought[t] /\ bought'[t] = {}
    BY <1>7 DEF Commits, Publish, Ends, Forget
  <2> QED
    BY <1>2, <1>4, <1>5, <2>1
<1>8. CASE InsertsHome(t) \/ InsertsBought(t)
  <2>1. Inserts(t) /\ ask[t] \in Asks /\ ask[t].op \in {"register", "login"}
          /\ step[t] = "insert"
    BY <1>8 DEF InsertsHome, InsertsBought, Inserts, Stage, Serves
  <2>2. Stands(NewRow(t))
    <3>1. SUFFICES ASSUME root[t].id # NoParent PROVE Stands(NewRow(t))
      BY DEF Stands, NewRow
    <3>2. ask[t].op = "register" /\ root[t] \in ever /\ root[t].owner = ask[t].from
            /\ ask[t].under \in Unders /\ root[t].host = ask[t].under
      BY <2>1, <3>1 DEF Tree, RootFound
    <3>3. PICK other \in domains : other.id = root[t].id
      BY <2>1, <3>1 DEF Inserts, Clashes, NewRow
    <3>4. other = root[t]
      BY <3>2, <3>3 DEF Ids, Made
    <3>5. ask[t].host \notin Unders
      BY <2>1, <3>2, AsksAssumption DEF Unders
    <3> QED
      BY <3>2, <3>3, <3>4, <3>5 DEF Stands, NewRow
  <2> DEFINE new == NewRow(t)
  <2>3. /\ domains \subseteq domains' /\ domains' \subseteq domains \cup {new}
        /\ bought'[t] \subseteq bought[t] \cup {new}
    BY <1>8 DEF InsertsHome, InsertsBought, Inserts, AddHome, AddBought, transaction
  <2> HIDE DEF new
  <2> QED
    BY <1>2, <1>4, <1>5, <2>2, <2>3 DEF new
<1>9. CASE domains' = domains /\ bought'[t] \in {bought[t], {}}
  BY <1>2, <1>4, <1>5, <1>9
<1> QED
  BY <1>6, <1>7, <1>8, <1>9, Touches

\* So every subdomain stands.
LEMMA TreeStands ==
  ASSUME Tree PROVE SubdomainsAreOwned
BY DEF Tree, Stands, SubdomainsAreOwned

\* The inductive invariant.
BankInv ==
    /\ Types /\ Stage /\ LockedApart
    /\ Books /\ LedgerAgrees /\ Covered
    /\ nextId > 0 /\ Ids /\ Sold /\ Unalike /\ Tree

\* The invariant holds of empty tables.
LEMMA InvInit ==
  ASSUME Init PROVE BankInv
<1> USE DEF Init
<1>1. Types
  <2>1. NoMoves \in [Accounts -> Int]
    BY DEF NoMoves
  <2>2. IsFiniteSet({})
    BY FS_EmptySet
  <2> QED
    BY <2>1, <2>2, BankAssumption DEF Types, Steps
<1>2. Stage
  BY DEF Stage, Serves, Changes, Locks, Deals, Recorded, Selling, Sells, Debited, Credited,
     NoMoves
<1>3. LockedApart
  BY DEF LockedApart
<1>4. Books
  BY DEF Books
<1>5. LedgerAgrees
  <2>1. Total({}) = 0
    BY DEF Total, MapThenSumSet, MapThenFoldSet
  <2>2. \A u \in Accounts : {row \in Complete : row.to = u} = {}
          /\ {row \in Complete : row.from = u} = {}
    BY DEF Complete
  <2>3. \A u \in Accounts : StartCash[u] = StartCash[u] + 0 - 0
    BY BankAssumption
  <2> QED
    BY <2>1, <2>2, <2>3 DEF LedgerAgrees
<1>6. Covered
  <2>1. PICK t \in Tasks : TRUE
    BY BankAssumption
  <2>2. Cardinality({t}) = 1
    BY FS_Singleton
  <2>3. Slack(1) <= 0 /\ Slack(1) \in Int
    BY <2>1, <2>2, SlackIsNone
  <2>4. \A u \in Players : Spending(u) = {} /\ cash[u] >= 0 /\ cash[u] \in Int
    BY BankAssumption DEF Spending, Deals, Accounts
  <2> QED
    BY <2>3, <2>4 DEF Covered, Covers
<1>7. Ids /\ nextId > 0
  BY DEF Ids, Made
<1>8. Sold
  <2>1. \A name : Charges(name) = {} /\ Bought(name) = {}
    BY DEF Charges, Bought
  <2> QED
    BY <2>1 DEF Sold
<1>9. Unalike
  BY DEF Unalike, NamesAreUnique
<1>10. Tree
  BY DEF Tree, RootFound, NoAsk, NoRow
<1> QED
  BY <1>1, <1>2, <1>3, <1>4, <1>5, <1>6, <1>7, <1>8, <1>9, <1>10 DEF BankInv

\* Every step keeps it.
LEMMA InvStep ==
  ASSUME BankInv, [Next]_vars PROVE BankInv'
<1>1. CASE UNCHANGED vars
  <2> USE <1>1 DEF vars, tables, handler, transaction
  <2>1. Types' /\ nextId' = nextId
    BY DEF BankInv, Types
  <2>2. Stage'
    BY DEF BankInv, Stage, Serves, Changes, Locks, Deals, Recorded, Selling, Sells, Debited,
       Credited
  <2>3. LockedApart' /\ Books'
    BY DEF BankInv, LockedApart, Books
  <2>4. LedgerAgrees'
    <3>1. Complete' = Complete /\ cash' = cash
      BY DEF Complete
    <3> QED
      BY <3>1 DEF LedgerAgrees, BankInv
  <2>5. Covered'
    BY DEF BankInv, Covered, Covers, Spending, Deals
  <2>6. Ids' /\ Unalike' /\ Tree'
    BY DEF BankInv, Ids, Made, Unalike, NamesAreUnique, Tree, RootFound, Stands
  <2>7. Sold'
    BY DEF BankInv, Sold, Charges, Bought
  <2> QED
    BY <2>1, <2>2, <2>3, <2>4, <2>5, <2>6, <2>7 DEF BankInv
<1>2. ASSUME NEW t \in Tasks, Effect(t) PROVE BankInv'
  BY <1>2, TypesStep, StageStep, LockedApartStep, BooksStep, LedgerAgreesStep, CoveredStep,
     IdsStep, SoldStep,
    UnalikeStep, TreeStep DEF BankInv
<1> QED
  BY <1>1, <1>2, Effects

\* It has the properties checked in it.
LEMMA InvImplies ==
  ASSUME BankInv PROVE LedgerAgrees /\ OverdraftBounded /\ TablesAreSound
<1>1. ASSUME NEW t \in Tasks, step[t] \in {"idle", "info", "root", "check", "delete"}
      PROVE  Untouched(t) /\ owned[t] = {} /\ shared[t] = {}
  <2>1. Serves(t) /\ Changes(t) /\ Locks(t)
    BY DEF BankInv, Stage
  <2>2. ~Deals(t) /\ ~Recorded(t)
    BY <1>1, <2>1 DEF Serves, Recorded, Selling
  <2> QED
    BY <1>1, <2>1, <2>2, TouchesNothing DEF BankInv, Locks
<1>2. TypeOK
  BY <1>1 DEF TypeOK, BankInv
<1> QED
  BY <1>2, CoveredBounds, SoldIsOnce, TreeStands DEF BankInv, TablesAreSound, Unalike

\* It is an invariant of the tables.
LEMMA BankInvHolds == Spec => []BankInv
BY InvInit, InvStep, PTL DEF Spec

\* For any players, any requests of theirs and any number served at once: the books
\* balance at every commit, whatever fails in between (transaction(), api/mod.rs).
THEOREM BooksBalance == Spec => []LedgerAgrees
BY BankInvHolds, InvImplies, PTL

\* However many requests read the same balance before one of them takes from it, an
\* account is overdrawn by at most what all but one of them take (get_cash and the
\* UPDATEs after it in transaction()).
THEOREM OverdraftsAreBounded == Spec => []OverdraftBounded
BY BankInvHolds, InvImplies, PTL

\* What is bought is there and charged for once, each name is one domain's, and each
\* subdomain stands, at every commit (domain_register.rs, make_new_domain).
THEOREM TablesStaySound == Spec => []TablesAreSound
BY BankInvHolds, InvImplies, PTL
=============================================================================
