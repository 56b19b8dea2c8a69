-------------------------------- MODULE Bank --------------------------------
(***************************************************************************)
(* Money and domains on the server: transfer.rs, domain_register.rs,        *)
(* domain_unregister.rs and auth.rs, over transaction() and                 *)
(* make_new_domain() of api/mod.rs.                                         *)
(*                                                                          *)
(* Each request is a task of its own with a connection of its own, one SQL  *)
(* statement an action.  Of the database (external; database.sql has the    *)
(* tables) this takes: a statement outside a transaction commits by itself; *)
(* a plain SELECT in one reads the committed rows as of its first; a row     *)
(* changed, or referred to by a row inserted, is locked until the           *)
(* transaction ends; keys are unique; one of a circle of waiting             *)
(* transactions is rolled back.                                              *)
(***************************************************************************)
EXTENDS Integers, FiniteSetsExt, Functions

CONSTANTS
    Tasks,          \* requests being served at once
    Players,        \* ids of accounts
    Bank,           \* BANK_USER_ID
    Asks,           \* the requests made
    Ips,            \* addresses make_new_domain picks from
    StartCash,      \* what each account starts with
    MaxAsks,        \* bound: requests made
    MaxFailures     \* bound: connections lost

Accounts == Players \cup {Bank}
Nobody == "nobody"                          \* user_to_id: -1
NoHost == "no host"
NoIp == "no ip"
NoParent == 0

ASSUME BankAssumption ==
    /\ Bank \notin Players /\ Nobody \notin Accounts /\ NoIp \notin Ips
    /\ StartCash \in [Accounts -> Int] /\ \A u \in Players : StartCash[u] >= 0
    /\ IsFiniteSet(Tasks) /\ Tasks # {} /\ MaxAsks \in Nat /\ MaxFailures \in Nat

\* A payment goes to an account or to nobody.  A name is bought of the bank: a host,
\* perhaps with an address, or an address alone; the name it is asked for under is
\* its last two parts, so no address and not itself under another.
ASSUME AsksAssumption ==
    /\ IsFiniteSet(Asks)
    /\ \A a \in Asks :
         /\ a.op \in {"transfer", "register", "login", "unregister"} /\ a.from \in Players
         /\ a.op = "transfer" => a.to \in Accounts \cup {Nobody} /\ a.amount \in Int
         /\ a.op = "register" =>
              /\ a.to = Bank /\ a.amount \in Nat /\ a.ip \in Ips \cup {NoIp}
              /\ a.name = IF a.host = NoHost THEN a.ip ELSE a.host
              /\ a.host = NoHost => a.ip # NoIp /\ a.under = NoHost
              /\ a.under # NoHost => a.under \notin Ips
         /\ a.op = "login" => a.ip = NoIp
    /\ \A a, b \in {c \in Asks : c.op = "register" /\ c.under # NoHost} : a.host # b.under

VARIABLES
    cash, ledger, domains,  \* the tables users, transactions and domains, as committed
    nextId,                 \* the domains' AUTO_INCREMENT
    step, ask, seenCash, root, ip, status,      \* per task, in its handler
    moves, rows, bought,    \* per task: its transaction's changes so far
    snapshot,               \* per task: the domains its transaction sees
    owned, shared,          \* per task: the accounts it has locked, either way
    answer,                 \* per task: what it answered last
    asked, failures,        \* requests and lost connections so far
    ever                    \* observation: every domain there has been

tables == <<cash, ledger, domains, nextId>>
handler == <<step, ask, seenCash, root, ip, status>>
transaction == <<moves, rows, bought, snapshot, owned, shared>>
vars == <<tables, handler, transaction, answer, asked, failures, ever>>

-----------------------------------------------------------------------------
\* getDomainInfo: the one row that goes by a name or an address.
Rows(table, d) == {row \in table : row.host = d \/ row.ip = d}
Known(table, d) == Cardinality(Rows(table, d)) = 1
Info(table, d) == CHOOSE row \in Rows(table, d) : TRUE

NoRow == [id |-> 0, host |-> NoHost, ip |-> NoIp, owner |-> Nobody, parent |-> NoParent,
          sold |-> FALSE]
NoAsk == [op |-> "none"]
NoMoves == [u \in Accounts |-> 0]

Init ==
    /\ cash = StartCash /\ ledger = {} /\ domains = {} /\ nextId = 1
    /\ step = [t \in Tasks |-> "idle"] /\ ask = [t \in Tasks |-> NoAsk]
    /\ seenCash = [t \in Tasks |-> 0] /\ root = [t \in Tasks |-> NoRow]
    /\ ip = [t \in Tasks |-> NoIp] /\ status = [t \in Tasks |-> "none"]
    /\ moves = [t \in Tasks |-> NoMoves] /\ rows = [t \in Tasks |-> {}]
    /\ bought = [t \in Tasks |-> {}] /\ snapshot = [t \in Tasks |-> {}]
    /\ owned = [t \in Tasks |-> {}] /\ shared = [t \in Tasks |-> {}]
    /\ answer = [t \in Tasks |-> "none"]
    /\ asked = 0 /\ failures = 0 /\ ever = {}

Goto(t, next) == step' = [step EXCEPT ![t] = next]

\* The handler returns, having committed what it changed or changed nothing.
Reply(t, text) ==
    /\ answer' = [answer EXCEPT ![t] = text]
    /\ Goto(t, "idle")
    /\ ask' = [ask EXCEPT ![t] = NoAsk]
    /\ seenCash' = [seenCash EXCEPT ![t] = 0] /\ root' = [root EXCEPT ![t] = NoRow]
    /\ ip' = [ip EXCEPT ![t] = NoIp] /\ status' = [status EXCEPT ![t] = "none"]

\* The transaction is over, and with it its locks.
Forget(t) ==
    /\ moves' = [moves EXCEPT ![t] = NoMoves] /\ rows' = [rows EXCEPT ![t] = {}]
    /\ bought' = [bought EXCEPT ![t] = {}] /\ snapshot' = [snapshot EXCEPT ![t] = {}]
    /\ owned' = [owned EXCEPT ![t] = {}] /\ shared' = [shared EXCEPT ![t] = {}]

KeepLocks(t) ==                                         \* mutant: no ROLLBACK on the way out
    /\ Reply(t, "error")
    /\ moves' = [moves EXCEPT ![t] = NoMoves] /\ rows' = [rows EXCEPT ![t] = {}]
    /\ bought' = [bought EXCEPT ![t] = {}] /\ snapshot' = [snapshot EXCEPT ![t] = {}]
    /\ UNCHANGED <<owned, shared>>

\* A statement failed: Halt::Fatal, and finish() rolls back what is open.
Rollback(t) == Reply(t, "error") /\ Forget(t)

-----------------------------------------------------------------------------
(* Waiting for locks.                                                      *)

Others(t) == Tasks \ {t}
Owners(t, u) == {o \in Others(t) : u \in owned[o]}
Sharers(t, u) == {o \in Others(t) : u \in shared[o]}

\* Rows not yet committed that a row would have to be unique beside.
Alike(a, b) == a.ip = b.ip \/ (a.host = b.host /\ a.host # NoHost)
NewRow(t) == [id |-> nextId, host |-> ask[t].host, ip |-> ip[t], owner |-> ask[t].from,
              parent |-> root[t].id, sold |-> ask[t].op = "register"]
Rivals(t, row) == {o \in Others(t) : \E other \in bought[o] : Alike(row, other)}
Children(t, row) == {o \in Others(t) : \E other \in bought[o] : other.parent = row.id}

\* Whom a task's next statement has to wait for.
WaitsFor(t) ==
    CASE step[t] = "debit"  -> Owners(t, ask[t].from) \cup Sharers(t, ask[t].from)
      [] step[t] = "credit" -> Owners(t, ask[t].to) \cup Sharers(t, ask[t].to)
      [] step[t] = "record" -> Owners(t, ask[t].from) \cup Owners(t, ask[t].to)
      [] step[t] = "insert" -> Owners(t, ask[t].from) \cup Rivals(t, NewRow(t))
      [] step[t] = "delete" -> Children(t, root[t])
      [] OTHER -> {}

\* Tasks that wait for one another, this one among them.
InACircle(t) ==
    \E S \in SUBSET Tasks :
       t \in S /\ \A o \in S : WaitsFor(o) \cap S # {} /\ \E w \in S : o \in WaitsFor(w)

-----------------------------------------------------------------------------
(* Before the transaction.                                                 *)

\* authenticate: the account's row, its cash with it, is read here and kept.
Authenticate(t, a) ==
    /\ step[t] = "idle" /\ asked < MaxAsks
    /\ asked' = asked + 1
    /\ ask' = [ask EXCEPT ![t] = a]
    /\ seenCash' = [seenCash EXCEPT ![t] = cash[a.from]]
    /\ Goto(t, IF a.op = "transfer" THEN "check" ELSE "info")
    /\ UNCHANGED <<tables, root, ip, status, transaction, answer, failures, ever>>

Looked(t) == UNCHANGED <<tables, transaction, asked, failures, ever>>
Pursue(t, next, row) ==
    /\ Goto(t, next)
    /\ root' = [root EXCEPT ![t] = row]
    /\ UNCHANGED <<ask, seenCash, ip, status, answer>>

\* domain_register: the name is free, and there is money for it.
LookForName(t) ==
    /\ step[t] = "info" /\ ask[t].op = "register"
    /\ \/ Known(domains, ask[t].name) /\ Reply(t, "taken")
       \/ ~Known(domains, ask[t].name) /\ ask[t].under # NoHost /\ Pursue(t, "root", NoRow)
       \/ /\ ~Known(domains, ask[t].name) /\ ask[t].under = NoHost
          /\ \/ ask[t].amount > seenCash[t] /\ Reply(t, "insufficient")
             \/ ask[t].amount <= seenCash[t] /\ Pursue(t, "check", NoRow)
    /\ Looked(t)

LookForAnyRoot(t) ==                                    \* mutant: anyone's domain will do
    /\ step[t] = "root" /\ Known(domains, ask[t].under)
    /\ Pursue(t, "check", Info(domains, ask[t].under))
    /\ Looked(t)

\* A subdomain: of a domain of the player's own.
LookForRoot(t) ==
    /\ step[t] = "root"
    /\ LET known == Known(domains, ask[t].under)
           row == IF known THEN Info(domains, ask[t].under) ELSE NoRow
       IN  \/ row.owner # ask[t].from /\ Reply(t, "not yours")
           \/ row.owner = ask[t].from /\ ask[t].amount > seenCash[t] /\ Reply(t, "insufficient")
           \/ row.owner = ask[t].from /\ ask[t].amount <= seenCash[t] /\ Pursue(t, "check", row)
    /\ Looked(t)

\* auth: the player's own domain is made the first time they log in.
LookForHome(t) ==
    /\ step[t] = "info" /\ ask[t].op = "login"
    /\ \/ Known(domains, ask[t].name) /\ Reply(t, "welcome")
       \/ ~Known(domains, ask[t].name) /\ Pursue(t, "address", NoRow)
    /\ Looked(t)

LookForOwn(t) ==
    /\ step[t] = "info" /\ ask[t].op = "unregister"
    /\ LET known == Known(domains, ask[t].name)
           row == IF known THEN Info(domains, ask[t].name) ELSE NoRow
       IN  \/ row.owner # ask[t].from /\ Reply(t, "not yours")
           \/ row.owner = ask[t].from /\ Pursue(t, "delete", row)
    /\ Looked(t)

\* DELETE by id, committed by itself; subdomains go with it.
Unregister(t) ==
    /\ step[t] = "delete" /\ WaitsFor(t) = {}
    /\ domains' = {row \in domains : root[t].id \notin {row.id, row.parent}}
    /\ Reply(t, "unregistered")
    /\ UNCHANGED <<cash, ledger, nextId, transaction, asked, failures, ever>>

-----------------------------------------------------------------------------
(* transaction(): START TRANSACTION was just before.                       *)

InTransaction(t) == UNCHANGED <<tables, ask, seenCash, root, ip, answer, asked, failures, ever>>

VerdictUnchecked(t) ==                                  \* mutant: the balance not looked at
    IF ask[t].to = Nobody THEN "INVALID-RECEIVER"
    ELSE IF ask[t].to = ask[t].from THEN "INVALID-USER"
    ELSE "COMPLETE"

Verdict(t) ==
    IF ask[t].to = Nobody THEN "INVALID-RECEIVER"
    ELSE IF ask[t].to = ask[t].from THEN "INVALID-USER"
    ELSE IF ask[t].amount <= 0 THEN "INVALID-AMOUNT"
    ELSE IF cash[ask[t].from] < ask[t].amount THEN "INSUFFICIENT"
    ELSE "COMPLETE"

\* The first SELECT is what the transaction sees from then on.
Check(t) ==
    /\ step[t] = "check"
    /\ status' = [status EXCEPT ![t] = Verdict(t)]
    /\ snapshot' = [snapshot EXCEPT ![t] = domains]
    /\ Goto(t, IF status'[t] = "COMPLETE" THEN "debit" ELSE "record")
    /\ UNCHANGED <<moves, rows, bought, owned, shared>> /\ InTransaction(t)

\* UPDATE users SET cash=cash+? of one account.
Move(t, u, amount, next) ==
    /\ WaitsFor(t) = {}
    /\ owned' = [owned EXCEPT ![t] = @ \cup {u}]
    /\ moves' = [moves EXCEPT ![t][u] = @ + amount]
    /\ Goto(t, next)
    /\ UNCHANGED <<rows, bought, snapshot, shared, status>> /\ InTransaction(t)

Debit(t) == step[t] = "debit" /\ Move(t, ask[t].from, 0 - ask[t].amount, "credit")
Credit(t) == step[t] = "credit" /\ Move(t, ask[t].to, ask[t].amount, "record")

\* A row of `transactions`; its number sets it apart, as its key does.  A sale's
\* description starts with a word of its own.
Entry(t) == [number |-> Cardinality(ledger) + 1, task |-> t, from |-> ask[t].from,
             to |-> ask[t].to, amount |-> ask[t].amount, what |-> ask[t].name,
             sale |-> ask[t].op = "register", status |-> status[t]]

AddEntry(t) ==
    /\ rows' = [rows EXCEPT ![t] = {Entry(t)}]
    /\ shared' = [shared EXCEPT ![t] = @ \cup {ask[t].from, ask[t].to}]
    /\ Goto(t, IF ask[t].op = "transfer" THEN "commit" ELSE "address")
    /\ UNCHANGED <<moves, bought, snapshot, owned, status>> /\ InTransaction(t)

\* INSERT INTO transactions, which has to name two accounts.
Record(t) ==
    /\ step[t] = "record" /\ WaitsFor(t) = {}
    /\ \/ /\ ask[t].to \notin Accounts
          /\ Rollback(t)
          /\ UNCHANGED <<tables, asked, failures, ever>>
       \/ ask[t].to \in Accounts /\ AddEntry(t)

-----------------------------------------------------------------------------
(* make_new_domain().                                                      *)

\* The address paid for, or one nobody is seen to hold.
Seen(t) == IF ask[t].op = "login" THEN domains ELSE snapshot[t]
Address(t) ==
    /\ step[t] = "address"
    /\ \E a \in Ips :
         /\ IF ask[t].ip # NoIp THEN a = ask[t].ip ELSE a \notin {row.ip : row \in Seen(t)}
         /\ ip' = [ip EXCEPT ![t] = a]
    /\ Goto(t, "insert")
    /\ UNCHANGED <<tables, ask, seenCash, root, status, transaction, answer, asked, failures, ever>>

\* The keys of `domains`: host, address, and the parent a row refers to.
Clashes(t, row) ==
    \/ \E other \in domains : Alike(row, other)
    \/ row.parent # NoParent /\ row.parent \notin {other.id : other \in domains}

\* A home is there at once; what is bought, when it is committed.
AddHome(t) ==
    /\ domains' = domains \cup {NewRow(t)} /\ ever' = ever \cup {NewRow(t)}
    /\ Reply(t, "welcome")
    /\ UNCHANGED <<cash, ledger, transaction>>
AddBought(t) ==
    /\ bought' = [bought EXCEPT ![t] = {NewRow(t)}]
    /\ shared' = [shared EXCEPT ![t] = @ \cup {ask[t].from}]
    /\ Goto(t, "commit")
    /\ UNCHANGED <<cash, ledger, domains, ever, moves, rows, snapshot, owned,
                   ask, seenCash, root, ip, status, answer>>

\* INSERT INTO domains.
Insert(t) ==
    /\ step[t] = "insert" /\ WaitsFor(t) = {}
    /\ nextId' = nextId + 1
    /\ \/ Clashes(t, NewRow(t)) /\ Rollback(t) /\ UNCHANGED <<cash, ledger, domains, ever>>
       \/ ~Clashes(t, NewRow(t)) /\ ask[t].op = "login" /\ AddHome(t)
       \/ ~Clashes(t, NewRow(t)) /\ ask[t].op = "register" /\ AddBought(t)
    /\ UNCHANGED <<asked, failures>>

-----------------------------------------------------------------------------
CommitHalf(t) ==                                        \* mutant: the domain before the money
    /\ step[t] = "commit"
    /\ domains' = domains \cup bought[t] /\ ever' = ever \cup bought[t]
    /\ ledger' = ledger \cup rows[t]
    /\ Reply(t, "registered") /\ Forget(t)
    /\ UNCHANGED <<cash, nextId, asked, failures>>

Publish(t) ==
    /\ step[t] = "commit"
    /\ cash' = [u \in Accounts |-> cash[u] + moves[t][u]]
    /\ ledger' = ledger \cup rows[t]
    /\ domains' = domains \cup bought[t] /\ ever' = ever \cup bought[t]

\* COMMIT, and the answer: of a transfer its status, of a registration that it
\* is complete.
Commit(t) ==
    /\ Publish(t)
    /\ Reply(t, IF ask[t].op = "transfer" THEN status[t] ELSE "registered")
    /\ Forget(t)
    /\ UNCHANGED <<nextId, asked, failures>>

\* The database breaks a circle of waiting transactions at one of them.
Deadlock(t) ==
    /\ InACircle(t)
    /\ Rollback(t)
    /\ UNCHANGED <<tables, asked, failures, ever>>

\* The connection is lost, before the COMMIT or with its answer.
Fail(t) ==
    /\ step[t] # "idle" /\ failures < MaxFailures
    /\ failures' = failures + 1
    /\ Rollback(t)
    /\ Publish(t) \/ UNCHANGED <<cash, ledger, domains, ever>>
    /\ UNCHANGED <<nextId, asked>>

Handler(t) ==
    \/ LookForName(t) \/ LookForRoot(t) \/ LookForHome(t) \/ LookForOwn(t) \/ Unregister(t)
    \/ Check(t) \/ Debit(t) \/ Credit(t) \/ Record(t) \/ Address(t) \/ Insert(t) \/ Commit(t)
    \/ Deadlock(t)

Next == \E t \in Tasks : Handler(t) \/ Fail(t) \/ \E a \in Asks : Authenticate(t, a)

Spec == Init /\ [][Next]_vars

\* A request being served goes on: its statements are answered, once their
\* locks are free.
FairSpec == Spec /\ \A t \in Tasks : WF_vars(Handler(t))

-----------------------------------------------------------------------------
(* Properties.                                                             *)

Steps == {"idle", "info", "root", "check", "debit", "credit", "record", "address", "insert",
          "delete", "commit"}
Verdicts == {"COMPLETE", "INSUFFICIENT", "INVALID-AMOUNT", "INVALID-RECEIVER", "INVALID-USER"}
Row == [id : Nat, host : {a.host : a \in {b \in Asks : b.op \in {"register", "login"}}},
        ip : Ips, owner : Players, parent : Nat, sold : BOOLEAN]
Entries == [number : Nat, task : Tasks, from : Players, to : Accounts, amount : Int,
            what : {a.name : a \in Asks}, sale : BOOLEAN, status : Verdicts]

Types ==
    /\ cash \in [Accounts -> Int] /\ nextId \in Nat
    /\ ledger \subseteq Entries /\ domains \subseteq ever /\ ever \subseteq Row
    /\ IsFiniteSet(ledger) /\ IsFiniteSet(ever)
    /\ step \in [Tasks -> Steps] /\ ask \in [Tasks -> Asks \cup {NoAsk}]
    /\ root \in [Tasks -> Row \cup {NoRow}] /\ ip \in [Tasks -> Ips \cup {NoIp}]
    /\ status \in [Tasks -> Verdicts \cup {"none"}]
    /\ moves \in [Tasks -> [Accounts -> Int]]
    /\ rows \in [Tasks -> SUBSET Entries] /\ bought \in [Tasks -> SUBSET Row]
    /\ owned \in [Tasks -> SUBSET Accounts] /\ shared \in [Tasks -> SUBSET Accounts]

Untouched(t) == rows[t] = {} /\ bought[t] = {} /\ moves[t] = NoMoves
LockedApart ==
    \A t, o \in Tasks : t # o => owned[t] \cap (owned[o] \cup shared[o]) = {}

\* Types, and that only a task in a transaction holds changes or locks.
TypeOK ==
    /\ Types /\ LockedApart
    /\ \A t \in Tasks :
         step[t] \in {"idle", "info", "root", "check", "delete"} =>
             Untouched(t) /\ owned[t] = {} /\ shared[t] = {}

Total(S) == MapThenSumSet(LAMBDA row : row.amount, S)
Complete == {row \in ledger : row.status = "COMPLETE"}

\* The books balance: an account holds what it started with and what the
\* transactions recorded complete brought and took, at every commit, whatever
\* fails in between.  So money is neither made nor lost.
LedgerAgrees ==
    \A u \in Accounts :
        cash[u] = StartCash[u] + Total({row \in Complete : row.to = u})
                               - Total({row \in Complete : row.from = u})

\* A name recorded as bought is a domain, one for each time it was bought: of
\* what goes wrong after the bank has been asked (a name or an address somebody
\* else has taken meanwhile, a circle of locks, a lost connection) nothing stays.
Name(row) == IF row.host = NoHost THEN row.ip ELSE row.host
SoldOnce ==
    LET sold == {row \in ever : row.sold}
        charges == {entry \in ledger : entry.sale}
    IN  \A name \in {Name(row) : row \in sold} \cup {entry.what : entry \in charges} :
           Cardinality({entry \in charges : entry.what = name})
             = Cardinality({row \in sold : Name(row) = name})

\* Two requests may both find the money there and both take it, but no more
\* than the requests served beside one another could.
MostAsked == Max({a.amount : a \in {b \in Asks : b.op \in {"transfer", "register"}}} \cup {0})
OverdraftBounded ==
    \A u \in Players : cash[u] >= 0 - (Cardinality(Tasks) - 1) * MostAsked

\* A name or an address is one domain's, however many ask for it at once.
NamesAreUnique == \A a, b \in domains : a # b => ~Alike(a, b)

\* A subdomain stays under a domain of the same owner, and goes when it goes.
SubdomainsAreOwned ==
    \A row \in domains : row.parent # NoParent =>
        \E over \in domains : over.id = row.parent /\ over.owner = row.owner

\* The tables are in order at every commit: what has been bought is there and has
\* been charged for once, every name is one domain's, and every subdomain stands.
TablesAreSound == TypeOK /\ SoldOnce /\ NamesAreUnique /\ SubdomainsAreOwned

\* Every request served is answered: no two wait for one another for ever.
RequestsAreAnswered == \A t \in Tasks : step[t] # "idle" ~> step[t] = "idle"

\* The bank's verdict is not looked at, "the balance check before it is what
\* actually stands in the way" (domain_register.rs): whoever has a domain has
\* paid for it.
DomainsArePaidFor ==
    \A row \in ever : row.sold => \E r \in Complete :
        r.from = row.owner /\ r.what \in {row.host, row.ip}
=============================================================================
