------------------------------ MODULE Accounts ------------------------------
(***************************************************************************)
(* Accounts (site/mod.rs): create_account, verify, forgot_password and       *)
(* forgot_password2, one SQL statement an action, requests side by side.      *)
(*                                                                          *)
(* Of the database (external) this takes what module Bank does, and of its    *)
(* tables the keys of database.sql: a name and an address belong to one       *)
(* account.  A code is drawn once.  What a password or an address has to look *)
(* like, and the address of the domain made, are left out.                    *)
(***************************************************************************)
EXTENDS Integers, FiniteSets

CONSTANTS
    Tasks,              \* requests being served at once
    SignUps,            \* the accounts asked for: name, email, password
    Forgetful,          \* who asks for a new password: name, email
    NewPasswords,       \* passwords posted with a code
    MaxRequests,        \* bound: requests made
    MaxLost             \* bound: requests given up part of the way

ASSUME AccountsAssumption == MaxRequests \in Nat /\ MaxLost \in Nat

VARIABLES
    users, homes, emailCodes,   \* the tables users, domains (the .usr ones) and email_codes
    nextUser, nextCode,         \* AUTO_INCREMENT; codes drawn
    post,                       \* the mail delivered
    step, request, newRow,      \* per task: where it is, what was asked, its row not committed
    resets,                     \* observation: passwords set by a code
    requests, lost

tables == <<users, homes, emailCodes, nextUser, nextCode>>
accountVars == <<tables, post, step, request, newRow, resets, requests, lost>>

NoCode == 0
NoRow == [id |-> 0]
NoRequest == [op |-> "none"]

AccountsInit ==
    /\ users = {} /\ homes = {} /\ emailCodes = {} /\ nextUser = 1 /\ nextCode = 1
    /\ post = {} /\ resets = {} /\ requests = 0 /\ lost = 0
    /\ step = [t \in Tasks |-> "idle"] /\ request = [t \in Tasks |-> NoRequest]
    /\ newRow = [t \in Tasks |-> NoRow]

Goto(t, next) == step' = [step EXCEPT ![t] = next]

\* The page is written; a transaction still open is rolled back.
Finish(t) ==
    /\ Goto(t, "idle")
    /\ request' = [request EXCEPT ![t] = NoRequest] /\ newRow' = [newRow EXCEPT ![t] = NoRow]

\* The codes there are to try: those that were mailed, and one that was not.
Codes == {letter.code : letter \in post} \cup {NoCode}

Requests ==
    [op : {"sign up"}, who : SignUps] \cup [op : {"forgot"}, who : Forgetful]
        \cup [op : {"verify"}, code : Codes]
        \cup [op : {"reset"}, code : Codes, password : NewPasswords]

FirstStep == [op \in {"sign up", "forgot", "verify", "reset"} |->
    CASE op = "sign up" -> "check" [] op = "forgot" -> "look" [] op = "verify" -> "verify"
      [] op = "reset" -> "code"]

Arrive(t) ==
    /\ step[t] = "idle" /\ requests < MaxRequests /\ requests' = requests + 1
    /\ \E r \in Requests : request' = [request EXCEPT ![t] = r] /\ Goto(t, FirstStep[r.op])
    /\ UNCHANGED <<tables, post, newRow, resets, lost>>

\* The connection or the server goes: what the request had committed stays.
Lose(t) ==
    /\ step[t] # "idle" /\ lost < MaxLost /\ lost' = lost + 1
    /\ Finish(t)
    /\ UNCHANGED <<tables, post, resets, requests>>

-----------------------------------------------------------------------------
(* create_account, in a transaction.                                       *)

Same(a, b) == a.name = b.name \/ a.email = b.email

\* The address is not taken, and the name is not, as of the first SELECT.
Check(t) ==
    /\ step[t] = "check"
    /\ IF \E u \in users : Same(u, request[t].who) THEN Finish(t)
       ELSE Goto(t, "insert") /\ UNCHANGED <<request, newRow>>
    /\ UNCHANGED <<tables, post, resets, requests, lost>>

\* INSERT INTO users: it waits for a like row not committed yet, and fails
\* beside one that is.
Rivals(t) == {o \in Tasks \ {t} : newRow[o] # NoRow /\ Same(newRow[o], request[t].who)}

Insert(t) ==
    /\ step[t] = "insert" /\ Rivals(t) = {}
    /\ nextUser' = nextUser + 1
    /\ IF \E u \in users : Same(u, request[t].who) THEN Finish(t) /\ UNCHANGED nextCode
       ELSE /\ newRow' = [newRow EXCEPT ![t] =
                 [id |-> nextUser, name |-> request[t].who.name, email |-> request[t].who.email,
                  password |-> request[t].who.password, active |-> FALSE, code |-> nextCode]]
            /\ nextCode' = nextCode + 1
            /\ Goto(t, "home") /\ UNCHANGED request
    /\ UNCHANGED <<users, homes, emailCodes, post, resets, requests, lost>>

CommitEarly(t) ==                                       \* mutant: the account before its domain
    /\ step[t] = "home" /\ Goto(t, "commit")
    /\ users' = users \cup {newRow[t]}
    /\ UNCHANGED <<homes, emailCodes, nextUser, nextCode, post, request, newRow, resets, requests,
                   lost>>

\* make_new_domain of <name>.usr, which nobody but the account can have.
MakeHome(t) ==
    /\ step[t] = "home" /\ Goto(t, "commit")
    /\ UNCHANGED <<tables, post, request, newRow, resets, requests, lost>>

Commit(t) ==
    /\ step[t] = "commit" /\ Goto(t, "mail")
    /\ users' = users \cup {newRow[t]}
    /\ homes' = homes \cup {[host |-> newRow[t].name, owner |-> newRow[t].id]}
    /\ newRow' = [newRow EXCEPT ![t] = NoRow]
    /\ request' = [request EXCEPT ![t] =
         [op |-> "sign up", email |-> newRow[t].email, code |-> newRow[t].code,
          user |-> newRow[t].id]]
    /\ UNCHANGED <<emailCodes, nextUser, nextCode, post, resets, requests, lost>>

\* mail::send, of either kind of code.
Mail(t) ==
    /\ step[t] = "mail"
    /\ post' = post \cup {[email |-> request[t].email, code |-> request[t].code,
                           user |-> request[t].user]}
    /\ Finish(t)
    /\ UNCHANGED <<tables, resets, requests, lost>>

\* verify: one UPDATE.
Verify(t) ==
    /\ step[t] = "verify"
    /\ users' = {IF request[t].code # NoCode /\ u.code = request[t].code /\ ~u.active
                 THEN [u EXCEPT !.active = TRUE, !.code = NoCode] ELSE u : u \in users}
    /\ Finish(t)
    /\ UNCHANGED <<homes, emailCodes, nextUser, nextCode, post, resets, requests, lost>>

-----------------------------------------------------------------------------
(* forgot_password and forgot_password2, each statement by itself.         *)

LookForUser(t) ==
    /\ step[t] = "look"
    /\ LET who == {u \in users : u.name = request[t].who.name /\ u.email = request[t].who.email}
       IN  IF who = {} THEN Finish(t)
           ELSE /\ \E u \in who : request' = [request EXCEPT ![t] =
                     [op |-> "forgot", email |-> u.email, user |-> u.id]]
                /\ Goto(t, "draw") /\ UNCHANGED newRow
    /\ UNCHANGED <<tables, post, resets, requests, lost>>

DrawCode(t) ==
    /\ step[t] = "draw" /\ Goto(t, "mail")
    /\ emailCodes' = emailCodes \cup {[user |-> request[t].user, code |-> nextCode, fresh |-> TRUE]}
    /\ nextCode' = nextCode + 1
    /\ request' = [request EXCEPT ![t] = [op |-> "forgot", email |-> request[t].email,
                                          code |-> nextCode, user |-> request[t].user]]
    /\ UNCHANGED <<users, homes, nextUser, post, newRow, resets, requests, lost>>

\* An hour goes by.
Expire ==
    /\ \E row \in emailCodes : row.fresh
    /\ emailCodes' = {[r EXCEPT !.fresh = FALSE] : r \in emailCodes}
    /\ UNCHANGED <<users, homes, nextUser, nextCode, post, step, request, newRow, resets, requests,
                   lost>>

\* The SELECT of the code, and the one of its account.
LookForCode(t) ==
    /\ step[t] = "code"
    /\ LET row == {r \in emailCodes : r.code = request[t].code /\ r.fresh}
       IN  IF request[t].code = NoCode \/ row = {} THEN Finish(t)
           ELSE /\ \E r \in row : request' = [request EXCEPT ![t] =
                     [op |-> "reset", code |-> r.code, password |-> request[t].password,
                      user |-> r.user]]
                /\ Goto(t, "spend") /\ UNCHANGED newRow
    /\ UNCHANGED <<tables, post, resets, requests, lost>>

SpendNothing(t) ==                                      \* mutant: the code left in the table
    /\ step[t] = "spend" /\ Goto(t, "password")
    /\ UNCHANGED <<tables, post, request, newRow, resets, requests, lost>>

Spend(t) ==
    /\ step[t] = "spend" /\ Goto(t, "password")
    /\ emailCodes' = {r \in emailCodes : r.code # request[t].code}
    /\ UNCHANGED <<users, homes, nextUser, nextCode, post, request, newRow, resets, requests, lost>>

\* The UPDATE, once the password is hashed.
SetPassword(t) ==
    /\ step[t] = "password"
    /\ users' = {IF u.id = request[t].user THEN [u EXCEPT !.password = request[t].password] ELSE u :
                 u \in users}
    /\ resets' = resets \cup {[user |-> request[t].user, code |-> request[t].code,
                               password |-> request[t].password]}
    /\ Finish(t)
    /\ UNCHANGED <<homes, emailCodes, nextUser, nextCode, post, requests, lost>>

SignUp(t) == Check(t) \/ Insert(t) \/ MakeHome(t) \/ Commit(t) \/ Mail(t)
Reset(t) == LookForUser(t) \/ DrawCode(t) \/ LookForCode(t) \/ Spend(t) \/ SetPassword(t)

AccountsNext ==
    \/ Expire
    \/ \E t \in Tasks : Arrive(t) \/ Lose(t) \/ SignUp(t) \/ Verify(t) \/ Reset(t)

AccountsSpec == AccountsInit /\ [][AccountsNext]_accountVars

-----------------------------------------------------------------------------
(* Properties.                                                             *)

\* However sign-ups cross and wherever they stop: a name and an address have
\* one account, an account has its own domain, and whoever is mailed a code
\* has an account at that address.
AccountsAreWhole ==
    /\ \A u, v \in users : Same(u, v) => u = v
    /\ \A u \in users : [host |-> u.name, owner |-> u.id] \in homes
    /\ \A letter \in post : \E u \in users : u.id = letter.user /\ u.email = letter.email

\* A password set by a code was set by one mailed to the account's own address,
\* and from then on the code is in the table no more, wherever the request stops.
\* (Two requests that have both looked it up before may both use it.)
CodesAreSpent ==
    \A reset \in resets :
       /\ \E letter \in post : letter.code = reset.code /\ letter.user = reset.user
       /\ \A row \in emailCodes : row.code # reset.code
=============================================================================
