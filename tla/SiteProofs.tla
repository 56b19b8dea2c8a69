----------------------------- MODULE SiteProofs -----------------------------
(***************************************************************************)
(* Proofs about accounts, a domain's files and mail, and of every property *)
(* of module Site, for any players, requests, texts, mails and bounds.     *)
(*                                                                         *)
(* Of accounts, AccountsAreWhole and CodesAreSpent are invariants, and     *)
(* neither is inductive.  That an account is there once needs what the     *)
(* table's unique indexes keep apart: rows that are about to be committed. *)
(* That a code is spent once needs that it was drawn once, for one         *)
(* account, and that it was mailed and is gone before the password is set. *)
(***************************************************************************)
EXTENDS Site, Induction

\* A behaviour of the site is one of each of its parts: the others stand still.
LEMMA PartsRun == Spec => AccountsSpec /\ FilesSpec /\ MailSpec
<1> USE DEF SiteInit, siteVars, SiteNext, PartNext
<1>1. SiteInit => AccountsInit /\ FilesInit /\ MailInit
  OBVIOUS
<1>2. [SiteNext]_siteVars => [AccountsNext]_accountVars
  OBVIOUS
<1>3. [SiteNext]_siteVars => [FilesNext]_fileVars
  OBVIOUS
<1>4. [SiteNext]_siteVars => [MailNext]_mailVars
  OBVIOUS
<1> QED
  BY <1>1, <1>2, <1>3, <1>4, PTL DEF Spec, AccountsSpec, FilesSpec, MailSpec

-----------------------------------------------------------------------------
(* Accounts. *)
UserNames == {s.name : s \in SignUps}
UserEmails == {s.email : s \in SignUps}
Passwords == {s.password : s \in SignUps} \cup NewPasswords
UserRows == [id : Nat \ {0}, name : UserNames, email : UserEmails, password : Passwords,
         active : BOOLEAN, code : Nat]
TaskSteps == {"idle", "check", "insert", "home", "commit", "mail", "verify", "look", "draw",
           "code", "spend", "password"}

AccountTypes ==
    /\ step \in [Tasks -> TaskSteps] /\ newRow \in [Tasks -> UserRows \cup {NoRow}]
    /\ DOMAIN request = Tasks /\ users \subseteq UserRows
    /\ nextUser \in Nat \ {0} /\ nextCode \in Nat \ {0}

\* What a request is at its step: a row not committed, or what it asks for.
Opened(t) == newRow[t] # NoRow
AskedFor(t) ==
    /\ step[t] \in {"home", "commit"} <=> Opened(t)
    /\ step[t] \in {"check", "insert"} => request[t].who \in SignUps
    /\ step[t] \in {"code", "spend", "password"} => request[t].password \in NewPasswords
    /\ step[t] = "code" => request[t].code \in Codes
AllAskedFor == \A t \in Tasks : AskedFor(t)

\* What is about to be committed is not there, nor about to be by another.
NewRowsUnlike ==
    \A t \in Tasks : Opened(t) =>
       /\ \A u \in users : ~Same(u, newRow[t])
       /\ \A o \in Tasks \ {t} : Opened(o) => ~Same(newRow[o], newRow[t])

\* What is about to be mailed goes to the address of its account.
HasAddress(user, email) == \E u \in users : u.id = user /\ u.email = email
MailedToUsers ==
    \A t \in Tasks : step[t] \in {"draw", "mail"} => HasAddress(request[t].user, request[t].email)

\* Every code there is, or is about to be, with its account: one was drawn once.
CodesDrawn ==
    {<<letter.code, letter.user>> : letter \in post} \cup {<<r.code, r.user>> : r \in emailCodes}
        \cup {<<request[t].code, request[t].user>> : t \in {o \in Tasks : step[o] = "mail"}}
        \cup {<<newRow[t].code, newRow[t].id>> : t \in {o \in Tasks : Opened(o)}}
CodesApart ==
    /\ \A p \in CodesDrawn : p[1] \in 1 .. nextCode - 1
    /\ \A p, q \in CodesDrawn : p[1] = q[1] => p[2] = q[2]

\* A code looked up was mailed to the account it is for, and is not there when the
\* password is set.
Mailed(code, user) == \E letter \in post : letter.code = code /\ letter.user = user
CodeGone(code) == \A row \in emailCodes : row.code # code
CodeMailed(t) ==
    /\ step[t] \in {"spend", "password"} => Mailed(request[t].code, request[t].user)
    /\ step[t] = "password" => CodeGone(request[t].code)
CodesMailed == \A t \in Tasks : CodeMailed(t)

AccountInv ==
    /\ AccountTypes /\ AllAskedFor /\ NewRowsUnlike /\ MailedToUsers /\ CodesApart /\ CodesMailed
    /\ AccountsAreWhole /\ CodesAreSpent

\* The invariant holds before any request.
LEMMA AccountInvInit == AccountsInit => AccountInv
<1> SUFFICES ASSUME AccountsInit PROVE AccountInv
  OBVIOUS
<1>1. AccountTypes
  BY DEF AccountsInit, AccountTypes, TaskSteps
<1>2. AllAskedFor /\ NewRowsUnlike /\ MailedToUsers /\ CodesMailed
  BY DEF AccountsInit, AllAskedFor, AskedFor, Opened, NewRowsUnlike, MailedToUsers, CodesMailed,
     CodeMailed
<1>3. CodesDrawn = {}
  BY DEF AccountsInit, CodesDrawn, Opened
<1>4. CodesApart
  BY <1>3 DEF CodesApart
<1>5. AccountsAreWhole /\ CodesAreSpent
  BY DEF AccountsInit, AccountsAreWhole, CodesAreSpent
<1> QED
  BY <1>1, <1>2, <1>4, <1>5 DEF AccountInv

\* What one of the requests does.
ServesTask(t) == Arrive(t) \/ Lose(t) \/ SignUp(t) \/ Verify(t) \/ Reset(t)

\* A step leaves the other requests alone.
LEMMA OtherTasksKeep ==
  ASSUME AccountTypes, NEW t \in Tasks, ServesTask(t)
  PROVE  \A o \in Tasks \ {t} :
            step'[o] = step[o] /\ request'[o] = request[o] /\ newRow'[o] = newRow[o]
<1> USE DEF AccountTypes, Goto, Finish
<1>1. CASE Arrive(t) \/ Lose(t)
  BY <1>1 DEF Arrive, Lose
<1>2. CASE SignUp(t)
  BY <1>2 DEF SignUp, Check, Insert, MakeHome, Commit, Mail
<1>3. CASE Verify(t)
  BY <1>3 DEF Verify
<1>4. CASE Reset(t)
  BY <1>4 DEF Reset, LookForUser, DrawCode, LookForCode, Spend, SetPassword
<1> QED
  BY <1>1, <1>2, <1>3, <1>4 DEF ServesTask

\* What an account has; no account is the row of a request that has none.
LEMMA RowTypes ==
  ASSUME NEW u \in UserRows
  PROVE  /\ u.id \in Nat \ {0} /\ u.name \in UserNames /\ u.email \in UserEmails
         /\ u.code \in Nat
         /\ u # NoRow
<1>1. u.id \in Nat \ {0} /\ u.name \in UserNames /\ u.email \in UserEmails /\ u.code \in Nat
  BY DEF UserRows
<1>2. NoRow.id = 0
  BY DEF NoRow
<1> QED
  BY <1>1, <1>2

\* The accounts after a step that opens none: each is one that was there.
Reworded(u, v) == v \in UserRows /\ v.id = u.id /\ v.name = u.name /\ v.email = u.email
UsersKept(old, new) ==
    \E f \in [old -> UserRows] : new = {f[u] : u \in old} /\ \A u \in old : Reworded(u, f[u])

\* A new password changes neither name, address nor id.
LEMMA WithPassword ==
  ASSUME NEW u \in UserRows, NEW p \in Passwords
  PROVE  Reworded(u, [u EXCEPT !.password = p])
BY DEF UserRows, Reworded

\* Nor does an activation.
LEMMA WithoutCode ==
  ASSUME NEW u \in UserRows
  PROVE  Reworded(u, [u EXCEPT !.active = TRUE, !.code = NoCode])
BY DEF UserRows, Reworded, NoCode

\* Accounts left alone are kept.
LEMMA UsersKeptIfSame ==
  ASSUME NEW old, old \subseteq UserRows PROVE UsersKept(old, old)
<1> DEFINE f == [u \in old |-> u]
<1>1. f \in [old -> UserRows] /\ old = {f[u] : u \in old} /\ \A u \in old : Reworded(u, f[u])
  BY DEF Reworded
<1> QED
  BY <1>1 DEF UsersKept

\* But for a commit, each account after a step is one of before.
LEMMA UsersStep ==
  ASSUME AccountTypes, AllAskedFor, NEW t \in Tasks, ServesTask(t)
  PROVE  UsersKept(users, users') \/ Commit(t)
<1>1. CASE UNCHANGED users
  BY <1>1, UsersKeptIfSame DEF AccountTypes
<1>2. CASE Verify(t)
  <2> DEFINE f == [u \in users |->
                     IF request[t].code # NoCode /\ u.code = request[t].code /\ ~u.active
                     THEN [u EXCEPT !.active = TRUE, !.code = NoCode] ELSE u]
  <2>1. users' = {f[u] : u \in users}
    BY <1>2 DEF Verify
  <2>2. \A u \in users : Reworded(u, f[u])
    BY WithoutCode DEF AccountTypes, Reworded
  <2>3. f \in [users -> UserRows]
    BY <2>2 DEF Reworded
  <2> HIDE DEF f
  <2> QED
    BY <2>1, <2>2, <2>3 DEF UsersKept
<1>3. CASE SetPassword(t)
  <2> DEFINE f == [u \in users |-> IF u.id = request[t].user
                                   THEN [u EXCEPT !.password = request[t].password] ELSE u]
  <2>1. users' = {f[u] : u \in users}
    BY <1>3 DEF SetPassword
  <2>a. request[t].password \in Passwords
    BY <1>3 DEF SetPassword, AllAskedFor, AskedFor, Passwords
  <2>2. \A u \in users : Reworded(u, f[u])
    BY <2>a, WithPassword DEF AccountTypes, Reworded
  <2>3. f \in [users -> UserRows]
    BY <2>2 DEF Reworded
  <2> HIDE DEF f
  <2> QED
    BY <2>1, <2>2, <2>3 DEF UsersKept
<1> QED
  BY <1>1, <1>2, <1>3 DEF ServesTask, SignUp, Reset, Arrive, Lose, Check, Insert, MakeHome, Mail,
     LookForUser, DrawCode, LookForCode, Spend, tables

\* A commit shows the account and its home at once.
LEMMA CommitAdds ==
  ASSUME AccountTypes, AllAskedFor, NEW t \in Tasks, Commit(t)
  PROVE  /\ newRow[t] \in UserRows /\ users' = users \cup {newRow[t]}
         /\ homes' = homes \cup {[host |-> newRow[t].name, owner |-> newRow[t].id]}
         /\ newRow'[t] = NoRow /\ request'[t].user = newRow[t].id
         /\ request'[t].email = newRow[t].email /\ request'[t].code = newRow[t].code
         /\ step'[t] = "mail" /\ Opened(t)
BY DEF AccountTypes, AllAskedFor, AskedFor, Opened, Commit, Goto

\* A code is drawn by the steps that say so.
LEMMA CodesAreDrawn ==
  ASSUME NEW t \in Tasks, ServesTask(t)
  PROVE  /\ nextUser' \in {nextUser, nextUser + 1}
         /\ nextCode' = nextCode \/ (nextCode' = nextCode + 1 /\ (Insert(t) \/ DrawCode(t)))
<1>1. CASE Insert(t)
  <2>1. nextUser' = nextUser + 1 /\ (nextCode' = nextCode \/ nextCode' = nextCode + 1)
    BY <1>1 DEF Insert
  <2> QED
    BY <1>1, <2>1
<1>2. CASE DrawCode(t)
  BY <1>2 DEF DrawCode
<1>3. CASE ~Insert(t) /\ ~DrawCode(t)
  <2>1. UNCHANGED <<nextUser, nextCode>>
    BY <1>3 DEF ServesTask, SignUp, Reset, Arrive, Lose, Check, MakeHome, Commit, Mail, Verify,
       LookForUser, LookForCode, Spend, SetPassword, tables
  <2> QED
    BY <2>1
<1> QED
  BY <1>1, <1>2, <1>3

\* Types are kept.
LEMMA AccountTypesStep ==
  ASSUME AccountTypes, AllAskedFor, NEW t \in Tasks, ServesTask(t)
  PROVE  AccountTypes'
<1> USE DEF AccountTypes
<1>1. users' \subseteq UserRows
  <2>1. CASE UsersKept(users, users')
    BY <2>1 DEF UsersKept, Reworded
  <2>2. CASE Commit(t)
    BY <2>2, CommitAdds
  <2> QED
    BY <2>1, <2>2, UsersStep
<1>2. nextUser' \in Nat \ {0} /\ nextCode' \in Nat \ {0}
  BY CodesAreDrawn
<1>3. DOMAIN request' = Tasks
  BY DEF ServesTask, SignUp, Reset, Arrive, Lose, Check, Insert, MakeHome, Commit, Mail, Verify,
     LookForUser, DrawCode, LookForCode, Spend, SetPassword, Finish
<1>4. step' \in [Tasks -> TaskSteps]
  <2>1. CASE Arrive(t)
    BY <2>1 DEF Arrive, Goto, TaskSteps, Requests, FirstStep
  <2>2. CASE ~Arrive(t)
    BY <2>2 DEF ServesTask, SignUp, Reset, Lose, Check, Insert, MakeHome, Commit, Mail, Verify,
       LookForUser, DrawCode, LookForCode, Spend, SetPassword, Finish, Goto, TaskSteps
  <2> QED
    BY <2>1, <2>2
<1>5. newRow' \in [Tasks -> UserRows \cup {NoRow}]
  <2>1. CASE Insert(t)
    <3>1. step[t] = "insert" /\ request[t].who \in SignUps
      BY <2>1 DEF Insert, AllAskedFor, AskedFor
    <3>2. [id |-> nextUser, name |-> request[t].who.name, email |-> request[t].who.email,
           password |-> request[t].who.password, active |-> FALSE, code |-> nextCode] \in UserRows
      BY <3>1 DEF UserRows, UserNames, UserEmails, Passwords
    <3> QED
      BY <2>1, <3>2 DEF Insert, Finish
  <2>2. CASE ~Insert(t)
    BY <2>2 DEF ServesTask, SignUp, Reset, Arrive, Lose, Check, MakeHome, Commit, Mail, Verify,
       LookForUser, DrawCode, LookForCode, Spend, SetPassword, Finish
  <2> QED
    BY <2>1, <2>2
<1> QED
  BY <1>1, <1>2, <1>3, <1>4, <1>5

\* Nobody is mailed a code that was not, and codes once mailed stay to be tried.
LEMMA PostGrows ==
  ASSUME NEW t \in Tasks, ServesTask(t)
  PROVE  post \subseteq post' /\ (~Mail(t) => post' = post)
BY DEF ServesTask, SignUp, Reset, Arrive, Lose, Check, Insert, MakeHome, Commit, Mail, Verify,
   LookForUser, DrawCode, LookForCode, Spend, SetPassword

\* Each request goes on having what its step needs.
LEMMA AskedForStep ==
  ASSUME AccountTypes, AllAskedFor, NEW t \in Tasks, ServesTask(t)
  PROVE  AllAskedFor'
<1> USE DEF AccountTypes
<1>a. Codes \subseteq Codes'
  BY PostGrows DEF Codes
<1>1. ASSUME NEW o \in Tasks \ {t} PROVE AskedFor(o)'
  BY <1>a, OtherTasksKeep DEF AllAskedFor, AskedFor, Opened
<1>2. AskedFor(t)'
  <2> USE DEF AllAskedFor, AskedFor, Opened
  <2>1. CASE Arrive(t)
    <3>1. PICK r \in Requests : request'[t] = r /\ step'[t] = FirstStep[r.op]
      BY <2>1 DEF Arrive, Goto
    <3>2. CASE r \in [op : {"sign up"}, who : SignUps]
      BY <2>1, <3>1, <3>2 DEF Arrive, FirstStep
    <3>3. CASE r \in [op : {"forgot"}, who : Forgetful]
      BY <2>1, <3>1, <3>3 DEF Arrive, FirstStep
    <3>4. CASE r \in [op : {"verify"}, code : Codes]
      BY <2>1, <3>1, <3>4 DEF Arrive, FirstStep
    <3>5. CASE r \in [op : {"reset"}, code : Codes, password : NewPasswords]
      BY <1>a, <2>1, <3>1, <3>5 DEF Arrive, FirstStep
    <3> QED
      BY <3>1, <3>2, <3>3, <3>4, <3>5 DEF Requests
  <2>2. CASE Lose(t) \/ Mail(t) \/ Verify(t) \/ SetPassword(t)
    BY <2>2 DEF Lose, Mail, Verify, SetPassword, Finish, Goto
  <2>3. CASE Check(t)
    BY <2>3 DEF Check, Finish, Goto
  <2>4. CASE Insert(t)
    <3>1. CASE step'[t] = "idle"
      BY <2>4, <3>1 DEF Insert, Finish, Goto
    <3>2. CASE step'[t] # "idle"
      <4>1. step'[t] = "home" /\ newRow'[t].id = nextUser
        BY <2>4, <3>2 DEF Insert, Finish, Goto
      <4>2. newRow'[t] # NoRow
        BY <4>1 DEF NoRow
      <4> QED
        BY <4>1, <4>2
    <3> QED
      BY <3>1, <3>2
  <2>5. CASE MakeHome(t) \/ Spend(t)
    BY <2>5 DEF MakeHome, Spend, Goto
  <2>6. CASE Commit(t)
    BY <2>6, CommitAdds
  <2>7. CASE LookForUser(t)
    BY <2>7 DEF LookForUser, Finish, Goto
  <2>8. CASE DrawCode(t)
    BY <2>8 DEF DrawCode, Goto
  <2>9. CASE LookForCode(t)
    BY <2>9 DEF LookForCode, Finish, Goto
  <2> QED
    BY <2>1, <2>2, <2>3, <2>4, <2>5, <2>6, <2>7, <2>8, <2>9 DEF ServesTask, SignUp, Reset
<1> QED
  BY <1>1, <1>2 DEF AllAskedFor

\* Two rows are alike by name and address, whatever else they have.
LEMMA SameIsOfNames ==
  ASSUME NEW a, NEW b, NEW c, NEW d, a.name = b.name, a.email = b.email, c.name = d.name,
         c.email = d.email, ~Same(a, c)
  PROVE  ~Same(b, d)
BY DEF Same

\* What is kept is kept both ways.
LEMMA UsersKeptIsOf ==
  ASSUME NEW old, NEW new, UsersKept(old, new)
  PROVE  /\ \A v \in new : \E u \in old : Reworded(u, v)
         /\ \A u \in old : \E v \in new : Reworded(u, v)
BY DEF UsersKept

\* The row that a task is about to commit, if it has just been made or was there.
LEMMA OpenedBefore ==
  ASSUME AccountTypes, AllAskedFor, NEW t \in Tasks, ServesTask(t)
  PROVE  /\ ~Insert(t) => newRow'[t] \in {newRow[t], NoRow}
         /\ Insert(t) /\ Opened(t)' => /\ newRow'[t].name = request[t].who.name
                                       /\ newRow'[t].email = request[t].who.email
                                       /\ newRow'[t].code = nextCode /\ nextCode' = nextCode + 1
                                       /\ ~\E u \in users : Same(u, request[t].who)
<1> USE DEF AccountTypes
<1>1. ASSUME Insert(t), Opened(t)'
      PROVE  /\ newRow'[t].name = request[t].who.name
             /\ newRow'[t].email = request[t].who.email
             /\ newRow'[t].code = nextCode /\ nextCode' = nextCode + 1
             /\ ~\E u \in users : Same(u, request[t].who)
  BY <1>1 DEF Insert, Finish, Opened
<1>2. ASSUME ~Insert(t) PROVE newRow'[t] \in {newRow[t], NoRow}
  BY <1>2 DEF ServesTask, SignUp, Reset, Arrive, Lose, Check, MakeHome, Commit, Mail, Verify,
     LookForUser, DrawCode, LookForCode, Spend, SetPassword, Finish
<1> QED
  BY <1>1, <1>2

\* The table (its unique indexes) lets no two requests prepare accounts that are alike.
LEMMA NewRowsUnlikeStep ==
  ASSUME AccountTypes, AllAskedFor, NewRowsUnlike, NEW t \in Tasks, ServesTask(t)
  PROVE  NewRowsUnlike'
<1> USE DEF AccountTypes
<1>1. CASE Commit(t)
  <2>1. \A o \in Tasks : Opened(o)' => o # t /\ newRow'[o] = newRow[o] /\ Opened(o)
    BY <1>1, CommitAdds, OtherTasksKeep DEF Opened
  <2>2. \A o \in Tasks : Opened(o)' => ~Same(newRow[t], newRow[o])
    BY <1>1, <2>1, CommitAdds DEF NewRowsUnlike
  <2>3. \A o \in Tasks : Opened(o)' => \A u \in users' : ~Same(u, newRow'[o])
    BY <1>1, <2>1, <2>2, CommitAdds DEF NewRowsUnlike
  <2> QED
    BY <2>1, <2>3 DEF NewRowsUnlike
<1>2. CASE UsersKept(users, users')
  <2>1. ASSUME NEW o \in Tasks, Opened(o), newRow'[o] = newRow[o], NEW v \in users'
        PROVE  ~Same(v, newRow'[o])
    <3>1. PICK u \in users : Reworded(u, v)
      BY <1>2, UsersKeptIsOf
    <3>2. ~Same(u, newRow[o])
      BY <2>1 DEF NewRowsUnlike
    <3> QED
      BY <2>1, <3>1, <3>2 DEF Same, Reworded
  <2>2. CASE ~Insert(t) \/ ~Opened(t)'
    <3>1. \A o \in Tasks : Opened(o)' => Opened(o) /\ newRow'[o] = newRow[o]
      BY <2>2, OtherTasksKeep, OpenedBefore DEF Opened
    <3> QED
      BY <2>1, <3>1 DEF NewRowsUnlike
  <2>3. CASE Insert(t) /\ Opened(t)'
    <3>1. Rivals(t) = {} /\ users' = users
      BY <2>3 DEF Insert
    <3>2. \A o \in Tasks \ {t} : Opened(o)' => Opened(o) /\ newRow'[o] = newRow[o]
      BY OtherTasksKeep DEF Opened
    <3>3. \A o \in Tasks \ {t} : Opened(o)' => ~Same(newRow'[o], newRow'[t])
      BY <2>3, <3>1, <3>2, OpenedBefore DEF Rivals, Opened, Same
    <3>4. \A o \in Tasks \ {t} : Opened(o)' => ~Same(newRow'[t], newRow'[o])
      BY <3>3 DEF Same
    <3>5. \A u \in users' : ~Same(u, newRow'[t])
      BY <2>3, <3>1, OpenedBefore DEF Same
    <3>6. \A o \in Tasks \ {t} : Opened(o)' => \A u \in users' : ~Same(u, newRow'[o])
      BY <2>1, <3>2
    <3>7. \A o, p \in Tasks \ {t} :
             o # p /\ Opened(o)' /\ Opened(p)' => ~Same(newRow'[o], newRow'[p])
      BY <3>2 DEF NewRowsUnlike
    <3> HIDE DEF AccountTypes
    <3> QED
      BY <3>3, <3>4, <3>5, <3>6, <3>7 DEF NewRowsUnlike
  <2> QED
    BY <2>2, <2>3
<1> QED
  BY <1>1, <1>2, UsersStep

\* An address an account has stays its own.
LEMMA HasAddressStays ==
  ASSUME AccountTypes, AllAskedFor, NEW t \in Tasks, ServesTask(t), NEW user, NEW email,
         HasAddress(user, email)
  PROVE  HasAddress(user, email)'
<1>1. CASE Commit(t)
  BY <1>1, CommitAdds DEF HasAddress
<1>2. CASE UsersKept(users, users')
  BY <1>2, UsersKeptIsOf DEF HasAddress, Reworded
<1> QED
  BY <1>1, <1>2, UsersStep

\* A code on its way goes to the address of the account it is for.
LEMMA MailedToUsersStep ==
  ASSUME AccountTypes, AllAskedFor, MailedToUsers, NEW t \in Tasks, ServesTask(t)
  PROVE  MailedToUsers'
<1> USE DEF AccountTypes
<1> SUFFICES ASSUME NEW o \in Tasks, step'[o] \in {"draw", "mail"}
             PROVE  HasAddress(request[o].user, request[o].email)'
  BY DEF MailedToUsers
<1>1. CASE o = t /\ Commit(t)
  BY <1>1, CommitAdds DEF HasAddress
<1>2. CASE o # t \/ ~Commit(t)
  <2>1. HasAddress(request'[o].user, request'[o].email)
    <3>1. CASE o # t
      BY <3>1, OtherTasksKeep DEF MailedToUsers
    <3>2. CASE o = t
      <4>1. CASE Arrive(t)
        BY <3>2, <4>1 DEF Arrive, Goto, Requests, FirstStep
      <4>2. CASE LookForUser(t)
        BY <3>2, <4>2 DEF LookForUser, Goto, Finish, HasAddress
      <4>3. CASE DrawCode(t)
        BY <3>2, <4>3 DEF DrawCode, Goto, MailedToUsers
      <4>4. CASE ~Arrive(t) /\ ~LookForUser(t) /\ ~DrawCode(t)
        BY <1>2, <3>2, <4>4 DEF ServesTask, SignUp, Reset, Lose, Check, Insert, MakeHome, Mail,
           Verify, LookForCode, Spend, SetPassword, Finish, Goto
      <4> QED
        BY <4>1, <4>2, <4>3, <4>4
    <3> QED
      BY <3>1, <3>2
  <2> QED
    BY <2>1, HasAddressStays DEF HasAddress
<1> QED
  BY <1>1, <1>2

\* The letters after a step: what was to be mailed.
LEMMA MailSends ==
  ASSUME NEW t \in Tasks, Mail(t)
  PROVE  /\ post' = post \cup {[email |-> request[t].email, code |-> request[t].code,
                                user |-> request[t].user]}
         /\ step[t] = "mail"
BY DEF Mail

\* AccountsAreWhole is kept.
LEMMA AccountsAreWholeStep ==
  ASSUME AccountTypes, AllAskedFor, NewRowsUnlike, MailedToUsers, AccountsAreWhole,
         NEW t \in Tasks, ServesTask(t)
  PROVE  AccountsAreWhole'
<1> USE DEF AccountTypes
<1>1. \A u, v \in users' : Same(u, v) => u = v
  <2>1. CASE Commit(t)
    <3>1. \A u \in users : ~Same(u, newRow[t]) /\ ~Same(newRow[t], u)
      BY <2>1, CommitAdds DEF NewRowsUnlike, Same
    <3> QED
      BY <2>1, <3>1, CommitAdds DEF AccountsAreWhole
  <2>2. CASE UsersKept(users, users')
    <3>1. PICK f \in [users -> UserRows] :
             users' = {f[u] : u \in users} /\ \A u \in users : Reworded(u, f[u])
      BY <2>2 DEF UsersKept
    <3>2. \A u, v \in users : Same(f[u], f[v]) => u = v
      BY <3>1 DEF Reworded, Same, AccountsAreWhole
    <3> QED
      BY <3>1, <3>2
  <2> QED
    BY <2>1, <2>2, UsersStep
<1>2. \A u \in users' : [host |-> u.name, owner |-> u.id] \in homes'
  <2>1. CASE Commit(t)
    <3>1. \A u \in users : [host |-> u.name, owner |-> u.id] \in homes'
      BY <2>1, CommitAdds DEF AccountsAreWhole
    <3>2. [host |-> newRow[t].name, owner |-> newRow[t].id] \in homes'
      BY <2>1, CommitAdds
    <3>3. \A u \in users' : u \in users \/ u = newRow[t]
      BY <2>1, CommitAdds
    <3> DEFINE home(u) == [host |-> u.name, owner |-> u.id]
    <3>4. \A u \in users : home(u) \in homes'
      BY <3>1
    <3>5. home(newRow[t]) \in homes'
      BY <3>2
    <3>6. \A u \in users' : home(u) \in homes'
      <4> HIDE DEF home
      <4> QED
        BY <3>3, <3>4, <3>5
    <3> QED
      BY <3>6
  <2>2. CASE UsersKept(users, users') /\ ~Commit(t)
    <3>1. homes' = homes
      BY <2>2 DEF ServesTask, SignUp, Reset, Arrive, Lose, Check, Insert, MakeHome, Mail, Verify,
         LookForUser, DrawCode, LookForCode, Spend, SetPassword, tables
    <3>2. \A v \in users' : \E u \in users : Reworded(u, v)
      BY <2>2, UsersKeptIsOf
    <3>3. \A u \in users : [host |-> u.name, owner |-> u.id] \in homes
      BY DEF AccountsAreWhole
    <3> SUFFICES ASSUME NEW v \in users' PROVE [host |-> v.name, owner |-> v.id] \in homes'
      OBVIOUS
    <3>4. PICK u \in users : v.name = u.name /\ v.id = u.id
      BY <3>2 DEF Reworded
    <3> QED
      BY <3>1, <3>3, <3>4
  <2> QED
    BY <2>1, <2>2, UsersStep
<1>3. \A letter \in post' : HasAddress(letter.user, letter.email)'
  <2> SUFFICES ASSUME NEW letter \in post' PROVE HasAddress(letter.user, letter.email)
    BY HasAddressStays DEF HasAddress
  <2>1. CASE letter \in post
    BY <2>1 DEF AccountsAreWhole, HasAddress
  <2>2. CASE letter \notin post
    BY <2>2, PostGrows, MailSends DEF MailedToUsers
  <2> QED
    BY <2>1, <2>2
<1> QED
  BY <1>1, <1>2, <1>3 DEF AccountsAreWhole, HasAddress

\* The code a step draws, if it draws one, and whom it is for.
NewCode(t) == <<nextCode, IF Insert(t) THEN nextUser ELSE request[t].user>>
Draws(t) == nextCode' = nextCode + 1

\* A step adds to the codes there are at most the one it draws.
LEMMA CodesDrawnGrow ==
  ASSUME AccountTypes, AllAskedFor, NEW t \in Tasks, ServesTask(t), NEW p \in CodesDrawn'
  PROVE  p \in CodesDrawn \/ (Draws(t) /\ p = NewCode(t))
<1> USE DEF AccountTypes
<1>1. CASE \E letter \in post' : p = <<letter.code, letter.user>>
  <2>1. PICK letter \in post' : p = <<letter.code, letter.user>>
    BY <1>1
  <2>2. letter \in post \/ (step[t] = "mail" /\ p = <<request[t].code, request[t].user>>)
    BY <2>1, PostGrows, MailSends
  <2> QED
    BY <2>1, <2>2 DEF CodesDrawn
<1>2. CASE \E row \in emailCodes' : p = <<row.code, row.user>>
  <2>1. PICK row \in emailCodes' : p = <<row.code, row.user>>
    BY <1>2
  <2>2. CASE DrawCode(t)
    <3>1. ~Insert(t)
      BY <2>2 DEF DrawCode, Insert
    <3>2. row \in emailCodes \/ (Draws(t) /\ p = <<nextCode, request[t].user>>)
      BY <2>1, <2>2 DEF DrawCode, Draws
    <3> QED
      BY <2>1, <3>1, <3>2 DEF CodesDrawn, NewCode
  <2>3. CASE ~DrawCode(t)
    <3>1. emailCodes' \subseteq emailCodes
      BY <2>3 DEF ServesTask, SignUp, Reset, Arrive, Lose, Check, Insert, MakeHome, Commit, Mail,
         Verify, LookForUser, LookForCode, Spend, SetPassword, tables
    <3> QED
      BY <2>1, <3>1 DEF CodesDrawn
  <2> QED
    BY <2>2, <2>3
<1>3. CASE \E o \in Tasks : step'[o] = "mail" /\ p = <<request'[o].code, request'[o].user>>
  <2>1. PICK o \in Tasks : step'[o] = "mail" /\ p = <<request'[o].code, request'[o].user>>
    BY <1>3
  <2>2. CASE o # t
    BY <2>1, <2>2, OtherTasksKeep DEF CodesDrawn
  <2>3. CASE o = t /\ Commit(t)
    BY <2>1, <2>3, CommitAdds DEF CodesDrawn
  <2>4. CASE o = t /\ DrawCode(t)
    BY <2>1, <2>4 DEF DrawCode, Draws, NewCode, Insert
  <2>5. CASE o = t /\ ~Commit(t) /\ ~DrawCode(t)
    <3>1. CASE Arrive(t)
      BY <2>1, <2>5, <3>1 DEF Arrive, Goto, Requests, FirstStep
    <3>2. CASE ~Arrive(t)
      BY <2>1, <2>5, <3>2 DEF ServesTask, SignUp, Reset, Lose, Check, Insert, MakeHome, Mail,
         Verify, LookForUser, LookForCode, Spend, SetPassword, Finish, Goto
    <3> QED
      BY <3>1, <3>2
  <2> QED
    BY <2>2, <2>3, <2>4, <2>5
<1>4. CASE \E o \in Tasks : Opened(o)' /\ p = <<newRow'[o].code, newRow'[o].id>>
  <2>1. PICK o \in Tasks : Opened(o)' /\ p = <<newRow'[o].code, newRow'[o].id>>
    BY <1>4
  <2>2. CASE newRow'[o] = newRow[o]
    BY <2>1, <2>2 DEF CodesDrawn, Opened
  <2>3. CASE o = t /\ Insert(t)
    <3>1. newRow'[t].code = nextCode /\ newRow'[t].id = nextUser /\ Draws(t)
      BY <2>1, <2>3 DEF Insert, Finish, Opened, Draws
    <3> QED
      BY <2>1, <2>3, <3>1 DEF NewCode
  <2> QED
    BY <2>1, <2>2, <2>3, OtherTasksKeep, OpenedBefore DEF Opened
<1> QED
  BY <1>1, <1>2, <1>3, <1>4 DEF CodesDrawn, Opened

\* No code is drawn twice.
LEMMA CodesApartStep ==
  ASSUME AccountTypes, AllAskedFor, CodesApart, NEW t \in Tasks, ServesTask(t)
  PROVE  CodesApart'
<1>1. nextCode \in Nat \ {0} /\ nextCode' \in {nextCode, nextCode + 1}
  BY CodesAreDrawn DEF AccountTypes
<1>2. NewCode(t)[1] = nextCode
  BY DEF NewCode
<1>3. \A p \in CodesDrawn' : p \in CodesDrawn \/ (Draws(t) /\ p = NewCode(t))
  BY CodesDrawnGrow
<1>4. \A p \in CodesDrawn : p[1] \in 1 .. nextCode - 1
  BY DEF CodesApart
<1>5. \A p \in CodesDrawn' : p[1] \in 1 .. nextCode' - 1
  BY <1>1, <1>2, <1>3, <1>4 DEF Draws
<1>6. ASSUME NEW p \in CodesDrawn', NEW q \in CodesDrawn', p[1] = q[1] PROVE p[2] = q[2]
  <2>1. (p \in CodesDrawn /\ q \in CodesDrawn) \/ p = q
    BY <1>1, <1>2, <1>3, <1>4, <1>6
  <2> QED
    BY <1>6, <2>1 DEF CodesApart
<1> QED
  BY <1>5, <1>6 DEF CodesApart

\* A code that is gone stays so: what is drawn is new.
LEMMA GoneStays ==
  ASSUME AccountTypes, AllAskedFor, CodesApart, NEW t \in Tasks, ServesTask(t),
         NEW code, NEW user, Mailed(code, user)
  PROVE  Mailed(code, user)' /\ (CodeGone(code) => CodeGone(code)')
<1>1. Mailed(code, user)'
  BY PostGrows DEF Mailed
<1>2. code \in 1 .. nextCode - 1
  <2>1. <<code, user>> \in CodesDrawn
    BY DEF Mailed, CodesDrawn
  <2> QED
    BY <2>1 DEF CodesApart
<1>3. CASE DrawCode(t)
  BY <1>1, <1>2, <1>3 DEF DrawCode, CodeGone, AccountTypes
<1>4. CASE ~DrawCode(t)
  <2>1. emailCodes' \subseteq emailCodes
    BY <1>4 DEF ServesTask, SignUp, Reset, Arrive, Lose, Check, Insert, MakeHome, Commit, Mail,
       Verify, LookForUser, LookForCode, Spend, SetPassword, tables
  <2> QED
    BY <1>1, <2>1 DEF CodeGone
<1> QED
  BY <1>3, <1>4

\* A request that spends a code has one that was mailed, and sets the password last.
LEMMA CodesMailedStep ==
  ASSUME AccountTypes, AllAskedFor, CodesApart, CodesMailed, NEW t \in Tasks, ServesTask(t)
  PROVE  CodesMailed'
<1> USE DEF AccountTypes
<1>1. ASSUME NEW o \in Tasks \ {t} PROVE CodeMailed(o)'
  <2>1. step'[o] = step[o] /\ request'[o] = request[o] /\ CodeMailed(o)
    BY OtherTasksKeep DEF CodesMailed
  <2> DEFINE code == request[o].code
             user == request[o].user
  <2>2. Mailed(code, user) => /\ \E letter \in post' : letter.code = code /\ letter.user = user
                              /\ CodeGone(code) => \A row \in emailCodes' : row.code # code
    BY GoneStays DEF Mailed, CodeGone
  <2> QED
    BY <2>1, <2>2 DEF CodeMailed, Mailed, CodeGone
<1>2. CodeMailed(t)'
  <2>1. CASE LookForCode(t) /\ step'[t] = "spend"
    <3>1. PICK r \in emailCodes : /\ r.code = request[t].code /\ request[t].code # NoCode
                                  /\ request'[t].code = r.code /\ request'[t].user = r.user
      BY <2>1 DEF LookForCode, Finish, Goto
    <3>2. PICK letter \in post : letter.code = r.code
      BY <2>1, <3>1 DEF LookForCode, AllAskedFor, AskedFor, Codes
    <3>3. letter.user = r.user
      <4> DEFINE p == <<letter.code, letter.user>>
                 q == <<r.code, r.user>>
      <4>1. p \in CodesDrawn /\ q \in CodesDrawn
        BY DEF CodesDrawn
      <4>2. p[1] = q[1] => p[2] = q[2]
        BY <4>1 DEF CodesApart
      <4> QED
        BY <3>2, <4>2
    <3> QED
      BY <2>1, <3>1, <3>2, <3>3 DEF CodeMailed, Mailed, LookForCode
  <2>2. CASE Spend(t)
    BY <2>2 DEF Spend, Goto, CodesMailed, CodeMailed, Mailed, CodeGone
  <2>3. CASE ~Spend(t) /\ ~(LookForCode(t) /\ step'[t] = "spend")
    <3>1. step'[t] \notin {"spend", "password"}
      <4>1. CASE Arrive(t)
        BY <4>1 DEF Arrive, Goto, Requests, FirstStep
      <4>2. CASE ~Arrive(t)
        BY <2>3, <4>2 DEF ServesTask, SignUp, Reset, Lose, Check, Insert, MakeHome, Commit, Mail,
           Verify, LookForUser, DrawCode, LookForCode, SetPassword, Finish, Goto
      <4> QED
        BY <4>1, <4>2
    <3> QED
      BY <3>1 DEF CodeMailed
  <2> QED
    BY <2>1, <2>2, <2>3
<1> QED
  BY <1>1, <1>2 DEF CodesMailed

\* CodesAreSpent is kept.
LEMMA CodesAreSpentStep ==
  ASSUME AccountTypes, AllAskedFor, CodesApart, CodesMailed, CodesAreSpent,
         NEW t \in Tasks, ServesTask(t)
  PROVE  CodesAreSpent'
<1>1. \A reset \in resets : Mailed(reset.code, reset.user) /\ CodeGone(reset.code)
  BY DEF CodesAreSpent, Mailed, CodeGone
<1>2. \A reset \in resets' : Mailed(reset.code, reset.user) /\ CodeGone(reset.code)
  <2>1. CASE SetPassword(t)
    BY <1>1, <2>1 DEF SetPassword, CodesMailed, CodeMailed
  <2>2. CASE ~SetPassword(t)
    <3>1. resets' = resets
      BY <2>2 DEF ServesTask, SignUp, Reset, Arrive, Lose, Check, Insert, MakeHome, Commit, Mail,
         Verify, LookForUser, DrawCode, LookForCode, Spend
    <3> QED
      BY <1>1, <3>1
  <2> QED
    BY <2>1, <2>2
<1> QED
  BY <1>2, GoneStays DEF CodesAreSpent, Mailed, CodeGone

\* An hour goes by: nothing is forgotten but that a code is fresh.
LEMMA ExpireStep ==
  ASSUME AccountInv, Expire PROVE AccountInv'
<1> USE DEF AccountInv
<1>1. UNCHANGED <<users, homes, nextUser, nextCode, post, step, request, newRow, resets>>
  BY DEF Expire
<1> DEFINE old(r) == [r EXCEPT !.fresh = FALSE]
<1>2. emailCodes' = {old(r) : r \in emailCodes}
  BY DEF Expire
<1>3. \A r \in emailCodes : old(r).code = r.code /\ old(r).user = r.user
  OBVIOUS
<1>4. CodesDrawn' \subseteq CodesDrawn
  <2>1. ASSUME NEW r \in emailCodes'
        PROVE  \E q \in emailCodes : <<r.code, r.user>> = <<q.code, q.user>>
    <3>1. PICK q \in emailCodes : r = old(q)
      BY <1>2
    <3>2. r.code = q.code /\ r.user = q.user
      BY <1>3, <3>1
    <3> QED
      BY <3>2
  <2> QED
    BY <1>1, <2>1 DEF CodesDrawn, Opened
<1>5. CodesApart'
  BY <1>1, <1>4 DEF CodesApart
<1>6. \A code : CodeGone(code) => \A row \in emailCodes' : row.code # code
  BY <1>2, <1>3 DEF CodeGone
<1>7. CodesMailed' /\ CodesAreSpent'
  BY <1>1, <1>6 DEF CodesMailed, CodeMailed, Mailed, CodesAreSpent, CodeGone
<1>8. UNCHANGED <<AccountTypes, AllAskedFor, NewRowsUnlike, MailedToUsers, AccountsAreWhole>>
  BY <1>1 DEF AccountTypes, AllAskedFor, AskedFor, Codes, NewRowsUnlike, Opened,
     MailedToUsers, HasAddress, AccountsAreWhole
<1> QED
  BY <1>5, <1>7, <1>8 DEF AccountInv

\* Sign-ups, activations and resets keep the invariant, whatever their order, and
\* with it AccountsAreWhole and CodesAreSpent (api/user).
THEOREM AccountsHold == AccountsSpec => []AccountInv
<1>1. ASSUME AccountInv, [AccountsNext]_accountVars PROVE AccountInv'
  <2>1. CASE Expire
    BY <1>1, <2>1, ExpireStep
  <2>2. ASSUME NEW t \in Tasks, ServesTask(t) PROVE AccountInv'
    BY <1>1, <2>2, AccountTypesStep, AskedForStep, NewRowsUnlikeStep, MailedToUsersStep,
       CodesApartStep, CodesMailedStep, AccountsAreWholeStep, CodesAreSpentStep DEF AccountInv
  <2>3. CASE UNCHANGED accountVars
    <3>1. UNCHANGED CodesDrawn
      BY <2>3 DEF CodesDrawn, Opened, accountVars, tables
    <3>2. UNCHANGED <<CodesApart, CodesMailed, NewRowsUnlike, AllAskedFor>>
      BY <2>3, <3>1 DEF accountVars, tables, CodesApart, CodesMailed, CodeMailed, Mailed, CodeGone,
         NewRowsUnlike, Opened, AllAskedFor, AskedFor, Codes
    <3>3. UNCHANGED <<AccountTypes, MailedToUsers, AccountsAreWhole, CodesAreSpent>>
      BY <2>3 DEF accountVars, tables, AccountTypes, MailedToUsers, HasAddress, AccountsAreWhole,
         CodesAreSpent
    <3> QED
      BY <1>1, <3>2, <3>3 DEF AccountInv
  <2> QED
    BY <1>1, <2>1, <2>2, <2>3 DEF AccountsNext, ServesTask
<1> QED
  BY <1>1, AccountInvInit, PTL DEF AccountsSpec

-----------------------------------------------------------------------------
(* A domain's files. *)
\* What a text is made of.
FileWords == STRING \cup {a.who : a \in Changes} \cup {":", Eol}
FileTexts == Seq(FileWords)

FileNames == {a.name : a \in Changes}
FileRows == [id : Nat, name : FileNames, text : FileTexts]
ReadRows == [id : Nat \cup {Unwritten}, name : FileNames, text : FileTexts]

FileTypes ==
    /\ files \subseteq FileRows /\ nextFile \in Nat
    /\ state \in [Callers -> {"idle", "verify", "write"}]
    /\ DOMAIN change = Callers /\ DOMAIN file = Callers
    /\ \A c \in Callers : state[c] # "idle" => change[c] \in Changes

\* What a request is about to write: the file as it was read, which a guest's is there.
ReadIs(c) ==
    state[c] = "write" =>
       /\ file[c] \in ReadRows /\ change[c].op \in {"write", "append", "safeappend", "delete"}
       /\ change[c].who \in Guests =>
             file[c].id # Unwritten /\ change[c].op \in Allowed(Header(file[c].text))
FileInv == FileTypes /\ \A c \in Callers : ReadIs(c)

ServesChange(c) == Request(c) \/ Drop(c) \/ VerifyKeycode(c) \/ WriteFile(c)

\* Texts, and what they are put together from.
LEMMA TextsAre ==
  /\ <<>> \in FileTexts /\ <<Eol>> \in FileTexts
  /\ \A who \in FileWords : <<who, ":">> \in FileTexts
  /\ \A a \in Changes : a.who \in FileWords /\ a.data \in FileTexts
  /\ \A s, t \in FileTexts : s \o t \in FileTexts
<1>1. \A a \in Changes : a.who \in FileWords /\ a.data \in FileTexts
  BY DomainFilesAssumption DEF FileTexts, FileWords
<1>2. Eol \in FileWords /\ ":" \in FileWords
  BY DEF FileWords
<1> HIDE DEF FileWords
<1>3. /\ <<>> \in FileTexts /\ <<Eol>> \in FileTexts
      /\ \A who \in FileWords : <<who, ":">> \in FileTexts
  BY <1>2 DEF FileTexts
<1>4. \A s, t \in FileTexts : s \o t \in FileTexts
  BY DEF FileTexts
<1> QED
  BY <1>1, <1>3, <1>4

\* The first line of a text: its words up to a line end.
LEMMA FirstLineIs ==
  ASSUME NEW data \in FileTexts
  PROVE  /\ FirstLine(data) \in FileTexts
         /\ \A i \in DOMAIN FirstLine(data) :
               FirstLine(data)[i] # Eol /\ i \in DOMAIN data /\ FirstLine(data)[i] = data[i]
<1> DEFINE ends == {i \in DOMAIN data : data[i] = Eol}
           R == OpToRel(<, Nat)
<1>1. CASE ends = {}
  <2>1. FirstLine(data) = data
    BY <1>1 DEF FirstLine
  <2> QED
    BY <1>1, <2>1 DEF FileTexts
<1>2. CASE ends # {}
  <2> USE DEF FileTexts
  <2>1. IsWellFoundedOn(R, Nat)
    BY NatLessThanWellFounded, Zenon
  <2>2. \A x, y \in Nat : y < x => <<y, x>> \in R
    BY DEF OpToRel
  <2> HIDE DEF R
  <2>3. ends \subseteq Nat
    OBVIOUS
  <2>4. PICK i \in ends : \A j \in ends : ~(<<j, i>> \in R)
    <3> HIDE DEF ends
    <3> QED
      BY <1>2, <2>1, <2>3, WFMin
  <2>5. \A j \in ends : i <= j
    <3> SUFFICES ASSUME NEW j \in ends PROVE i <= j
      OBVIOUS
    <3>1. i \in Nat /\ j \in Nat /\ ~(<<j, i>> \in R)
      BY <2>3, <2>4
    <3> QED
      BY <2>2, <3>1
  <2> DEFINE first == CHOOSE k \in ends : \A j \in ends : k <= j
  <2>6. first \in ends /\ \A j \in ends : first <= j
    BY <2>5
  <2>7. FirstLine(data) = SubSeq(data, 1, first - 1)
    BY <1>2 DEF FirstLine
  <2> HIDE DEF first
  <2>8. first \in 1 .. Len(data) /\ \A j \in 1 .. first - 1 : data[j] # Eol
    BY <2>6
  <2> QED
    BY <2>7, <2>8
<1> QED
  BY <1>1, <1>2

\* What a safeappend makes of a file: a line of its own at the end of it.
OwnLine(text) == IF Ended(text) THEN text ELSE Append(text, Eol)

\* What a request makes of the file it read, by operation.
LEMMA ContentsAre ==
  ASSUME FileInv, NEW c \in Callers, state[c] = "write"
  PROVE  /\ Contents(c) \in FileTexts
         /\ change[c] \in Changes /\ file[c].text \in FileTexts
         /\ \/ change[c].op = "write" /\ Contents(c) = change[c].data
            \/ change[c].op = "append" /\ Contents(c) = file[c].text \o change[c].data
            \/ /\ change[c].op = "safeappend"
               /\ Contents(c) = OwnLine(file[c].text) \o <<change[c].who, ":">>
                                  \o FirstLine(change[c].data) \o <<Eol>>
            \/ change[c].op = "delete" /\ Contents(c) = <<>>
<1> DEFINE a == change[c]
           text == file[c].text
<1>1. /\ a \in Changes /\ a.data \in FileTexts /\ text \in FileTexts /\ a.who \in FileWords
      /\ a.op \in {"write", "append", "safeappend", "delete"}
  BY TextsAre DEF FileInv, FileTypes, ReadIs, ReadRows
<1> HIDE DEF a, text
<1>2. CASE a.op = "write"
  <2>1. Contents(c) = a.data
    BY <1>2 DEF Contents, a
  <2> QED
    BY <1>1, <1>2, <2>1 DEF a, text
<1>3. CASE a.op = "append"
  <2>1. Contents(c) = text \o a.data
    BY <1>3 DEF Contents, a, text
  <2> QED
    BY <1>1, <1>3, <2>1, TextsAre DEF a, text
<1>4. CASE a.op = "safeappend"
  <2> DEFINE base == OwnLine(text)
             sign == <<a.who, ":">>
             line == FirstLine(a.data)
             end == <<Eol>>
  <2>1. Contents(c) = base \o sign \o line \o end
    BY <1>4 DEF Contents, OwnLine, a, text
  <2>2. line \in FileTexts /\ sign \in FileTexts /\ end \in FileTexts
    BY <1>1, FirstLineIs, TextsAre
  <2>3. base \in FileTexts
    <3>1. text \o <<Eol>> \in FileTexts
      BY <1>1, TextsAre
    <3>2. Append(text, Eol) = text \o <<Eol>>
      BY <1>1 DEF FileTexts
    <3> QED
      BY <1>1, <3>1, <3>2 DEF OwnLine
  <2>4. Contents(c) \in FileTexts
    <3> HIDE DEF base, sign, line, end
    <3> QED
      BY <2>1, <2>2, <2>3, TextsAre
  <2> QED
    BY <1>1, <1>4, <2>1, <2>4 DEF a, text
<1>5. CASE a.op = "delete"
  <2>1. Contents(c) = <<>>
    BY <1>5 DEF Contents, a
  <2> QED
    BY <1>1, <1>5, <2>1, TextsAre DEF a, text
<1> QED
  BY <1>1, <1>2, <1>3, <1>4, <1>5

\* The row that VerifyKeycode hands on.
LEMMA VerifyReads ==
  ASSUME FileInv, NEW c \in Callers, VerifyKeycode(c), state'[c] # "idle"
  PROVE  /\ state'[c] = "write" /\ change'[c] = change[c] /\ change[c] \in Changes
         /\ change[c].op \in {"write", "append", "safeappend", "delete"}
         /\ \/ /\ file'[c] = [id |-> Unwritten, name |-> change[c].name, text |-> <<>>]
               /\ change[c].who \notin Guests
            \/ /\ file'[c] \in files /\ file'[c].name = change[c].name
               /\ change[c].who \in Guests => change[c].op \in Allowed(Header(file'[c].text))
<1> USE DEF FileInv, FileTypes
<1> DEFINE a == change[c]
           row == Named(c)
<1>1. a \in Changes /\ a.op \in {"write", "append", "safeappend", "delete"} /\ Admits(c, row)
        /\ state'[c] = "write" /\ change' = change
        /\ file'[c] = IF row = {} THEN [id |-> Unwritten, name |-> a.name, text |-> <<>>]
                      ELSE CHOOSE r \in row : TRUE
  BY DomainFilesAssumption DEF VerifyKeycode, Leave
<1>2. a.who \in Guests => row # {} /\ \A r \in row : a.op \in Allowed(Header(r.text))
  BY <1>1, DomainFilesAssumption DEF Admits
<1>3. row # {} => file'[c] \in row
  BY <1>1
<1>4. \A r \in row : r \in files /\ r.name = a.name
  BY DEF Named
<1> HIDE DEF row
<1> QED
  BY <1>1, <1>2, <1>3, <1>4

\* What a write leaves of the rows.
LEMMA WriteFileIs ==
  ASSUME FileInv, NEW c \in Callers, WriteFile(c)
  PROVE  /\ nextFile' \in {nextFile, nextFile + 1}
         /\ \A row \in files' \ files :
               /\ row \in FileRows /\ row.text = Contents(c) /\ Contents(c) # <<>>
               /\ \/ file[c].id = Unwritten
                  \/ \E was \in files : was.id = row.id /\ was.name = row.name
         /\ \A row \in files \ files' : row.id = file[c].id
<1> USE DEF FileInv, FileTypes
<1> DEFINE text == Contents(c)
           old == {row \in files : row.id = file[c].id}
<1>1. text \in FileTexts /\ file[c] \in ReadRows
  BY ContentsAre DEF WriteFile, ReadIs
<1> HIDE DEF text
<1>2. CASE text = <<>> /\ files' = files \ old /\ UNCHANGED nextFile
  BY <1>2
<1>3. CASE text # <<>> /\ file[c].id = Unwritten /\ InsertFile(c, text)
  <2> DEFINE new == [id |-> nextFile, name |-> file[c].name, text |-> text]
  <2>1. new \in FileRows /\ new.text = text
    BY <1>1 DEF FileRows, ReadRows
  <2>2. files' = files \/ files' = files \cup {new}
    BY <1>3 DEF InsertFile
  <2>3. nextFile' = nextFile + 1
    BY <1>3 DEF InsertFile
  <2> HIDE DEF new
  <2> QED
    BY <1>3, <2>1, <2>2, <2>3 DEF text
<1>4. CASE /\ text # <<>> /\ file[c].id # Unwritten
           /\ files' = (files \ old) \cup {[row EXCEPT !.text = text] : row \in old}
           /\ UNCHANGED nextFile
  <2>1. ASSUME NEW row \in files
        PROVE  /\ [row EXCEPT !.text = text] \in FileRows
               /\ [row EXCEPT !.text = text].text = text
               /\ [row EXCEPT !.text = text].id = row.id
               /\ [row EXCEPT !.text = text].name = row.name
    BY <1>1 DEF FileRows
  <2> DEFINE with(row) == [row EXCEPT !.text = text]
  <2>2. \A row \in files' \ files : \E was \in old : row = with(was)
    BY <1>4
  <2>3. \A row \in files \ files' : row.id = file[c].id
    BY <1>4
  <2>4. \A row \in files : /\ with(row) \in FileRows /\ with(row).text = text
                          /\ with(row).id = row.id /\ with(row).name = row.name
    BY <2>1
  <2>5. \A was \in old : was \in files
    OBVIOUS
  <2> HIDE DEF with, old
  <2> QED
    BY <1>4, <2>2, <2>3, <2>4, <2>5 DEF text
<1> QED
  BY <1>2, <1>3, <1>4 DEF WriteFile, text

\* Each step keeps the rows' types, and that what is read is what the permit was of.
LEMMA FileInvStep ==
  ASSUME FileInv, NEW c \in Callers, ServesChange(c) PROVE FileInv'
<1> USE DEF FileInv, FileTypes
<1>1. \A o \in Callers \ {c} : state'[o] = state[o] /\ change'[o] = change[o] /\ file'[o] = file[o]
  BY DEF ServesChange, Request, Drop, VerifyKeycode, WriteFile, Leave
<1>2. CASE Request(c)
  BY <1>1, <1>2 DEF Request, ReadIs
<1>3. ASSUME Leave(c), files' \subseteq FileRows, nextFile' \in Nat PROVE FileInv'
  BY <1>1, <1>3 DEF Leave, ReadIs
<1>4. CASE Drop(c)
  BY <1>3, <1>4 DEF Drop
<1>5. CASE VerifyKeycode(c) /\ state'[c] = "idle"
  <2>1. Leave(c) /\ UNCHANGED <<files, nextFile>>
    BY <1>5 DEF VerifyKeycode
  <2> QED
    BY <1>3, <2>1
<1>6. CASE VerifyKeycode(c) /\ state'[c] # "idle"
  <2>1. ReadIs(c)'
    <3>1. /\ change[c].name \in FileNames
      BY <1>6, VerifyReads DEF FileNames
    <3>2. [id |-> Unwritten, name |-> change[c].name, text |-> <<>>] \in ReadRows
      BY <3>1, TextsAre DEF ReadRows
    <3>3. \A r \in files : r \in ReadRows /\ r.id # Unwritten
      BY DEF FileRows, ReadRows, Unwritten
    <3> QED
      BY <1>6, <3>2, <3>3, VerifyReads DEF ReadIs
  <2> QED
    BY <1>1, <1>6, <2>1, VerifyReads DEF VerifyKeycode, ReadIs, Leave
<1>7. CASE WriteFile(c)
  <2>1. Leave(c)
    BY <1>7 DEF WriteFile
  <2>2. files' \subseteq FileRows /\ nextFile' \in Nat
    BY <1>7, WriteFileIs
  <2> QED
    BY <1>3, <2>1, <2>2
<1> QED
  BY <1>2, <1>4, <1>5, <1>6, <1>7 DEF ServesChange

\* A guest's write, whenever it comes.
LEMMA LateWriteFinds ==
  ASSUME FileInv, NEW c \in Callers, ServesChange(c), NEW o \in Callers, GuestWrites(o)
  PROVE  Ids(files') \subseteq Ids(files) /\ \A row \in files \ files' : row.id = file[o].id
<1>1. CASE files' = files
  BY <1>1 DEF Ids
<1>2. CASE WriteFile(c)
  <2>1. o = c
    BY <1>2 DEF WriteFile, Leave, GuestWrites, FileInv, FileTypes
  <2>2. file[c].id # Unwritten
    BY <2>1 DEF GuestWrites, FileInv, ReadIs
  <2>3. \A row \in files' : \E old \in files : old.id = row.id /\ old.name = row.name
    BY <1>2, <2>2, WriteFileIs
  <2>4. Ids(files') \subseteq Ids(files)
    BY <2>3 DEF Ids
  <2> QED
    BY <1>2, <2>1, <2>4, WriteFileIs
<1> QED
  BY <1>1, <1>2 DEF ServesChange, Request, Drop, VerifyKeycode

-----------------------------------------------------------------------------
(* Signed lines. *)

\* A line starts after the last line end before it.
LEMMA LineStartIs ==
  ASSUME NEW text, NEW i \in Nat, NEW m \in 0 .. i, m = 0 \/ text[m] = Eol,
         \A j \in m + 1 .. i : text[j] # Eol
  PROVE  LineStart(text, i) = m + 1
<1> DEFINE ends == {j \in 1 .. i : text[j] = Eol} \cup {0}
<1>1. m \in ends /\ \A k \in ends : k <= m
  OBVIOUS
<1>2. \A j \in ends : (\A k \in ends : k <= j) => j = m
  BY <1>1
<1>3. (CHOOSE j \in ends : \A k \in ends : k <= j) = m
  BY <1>1, <1>2
<1> QED
  BY <1>3 DEF LineStart

\* Every line has a start.
LEMMA LineStarts ==
  ASSUME NEW text, NEW i \in Nat
  PROVE  \E m \in 0 .. i : (m = 0 \/ text[m] = Eol) /\ \A j \in m + 1 .. i : text[j] # Eol
<1> DEFINE P(k) == \E m \in 0 .. k : (m = 0 \/ text[m] = Eol) /\ \A j \in m + 1 .. k : text[j] # Eol
           S == {k \in Nat : P(k)}
<1>1. 0 \in S
  OBVIOUS
<1>2. ASSUME NEW k \in Nat, k \in S PROVE k + 1 \in S
  <2>1. PICK m \in 0 .. k : (m = 0 \/ text[m] = Eol) /\ \A j \in m + 1 .. k : text[j] # Eol
    BY <1>2
  <2>2. CASE text[k + 1] = Eol
    <3>1. \A j \in k + 2 .. k + 1 : text[j] # Eol
      OBVIOUS
    <3> QED
      BY <2>2, <3>1
  <2>3. CASE text[k + 1] # Eol
    <3>1. \A j \in m + 1 .. k + 1 : text[j] # Eol
      BY <2>1, <2>3
    <3> QED
      BY <2>1, <3>1
  <2> QED
    BY <2>2, <2>3
<1>3. Nat \subseteq S
  <2> HIDE DEF S
  <2> QED
    BY <1>1, <1>2, NatSetInduction
<1> QED
  BY <1>3

\* A text in which every word of a guest's is in a line that guest signed.
SignedAt(text, i) ==
    \A who \in Guests : text[i] \in Said(who) \ {Eol} => text[LineStart(text, i)] = who
Signed(text) == \A i \in DOMAIN text : SignedAt(text, i)
Guarded(text) == Allowed(Header(text)) = {"safeappend"}

\* Only one permit lets guests safeappend and do nothing else.
LEMMA GuardedIs ==
  ASSUME NEW text
  PROVE  Guarded(text) <=> Header(text) = "allowlist=safeappend"
<1>1. "append" \notin {"safeappend"}
  OBVIOUS
<1> QED
  BY <1>1 DEF Guarded, Allowed

\* What is added to the end of a text leaves its lines signed.
LEMMA PrefixSigned ==
  ASSUME NEW s \in FileTexts, NEW t \in FileTexts, Len(s) <= Len(t),
         \A k \in 1 .. Len(s) : t[k] = s[k],
         Signed(s), NEW i \in 1 .. Len(s)
  PROVE  SignedAt(t, i)
<1> USE DEF FileTexts
<1>a. i \in Nat
  OBVIOUS
<1>1. PICK m \in 0 .. i : (m = 0 \/ s[m] = Eol) /\ \A j \in m + 1 .. i : s[j] # Eol
  BY <1>a, LineStarts
<1>2. LineStart(s, i) = m + 1
  BY <1>1, LineStartIs
<1>3. (m = 0 \/ t[m] = Eol) /\ \A j \in m + 1 .. i : t[j] # Eol
  BY <1>1
<1>4. LineStart(t, i) = m + 1
  BY <1>3, LineStartIs
<1>5. CASE m = i
  BY <1>1, <1>5 DEF SignedAt
<1>6. CASE m < i
  <2>1. t[m + 1] = s[m + 1] /\ t[i] = s[i] /\ SignedAt(s, i)
    BY <1>6 DEF Signed
  <2> QED
    BY <1>2, <1>4, <2>1 DEF SignedAt
<1> QED
  BY <1>5, <1>6

\* What no guest says needs no signature.
Unsaid(word) == \A who \in Guests : word \notin Said(who) \ {Eol}

\* Whose words are whose (WordsAssumption).
LEMMA OthersWords ==
  /\ \A a \in Changes : a.who \notin Guests => \A i \in DOMAIN a.data : Unsaid(a.data[i])
  /\ \A a \in Changes, who \in Guests : \A i \in DOMAIN a.data :
        a.data[i] \in Said(who) \ {Eol} => who = a.who
  /\ Unsaid(Eol) /\ Unsaid(":") /\ \A a \in Changes : Unsaid(a.who) /\ a.who # Eol
  /\ \A a \in Changes : a.who # "allowlist=safeappend"
  /\ \A a \in Changes : a.who \in Guests => \A i \in DOMAIN a.data :
        a.data[i] # "allowlist=safeappend"
<1>1. \A a \in Changes : \A i \in DOMAIN a.data : a.data[i] \in Said(a.who)
  BY DEF Said
<1>2. \A a \in Changes : a.who \in Guests \cup {Owner}
  BY DomainFilesAssumption
<1>3. \A a \in Changes, who \in Guests : \A i \in DOMAIN a.data :
        a.data[i] \in Said(who) \ {Eol} => who = a.who
  BY <1>1, WordsAssumption
<1>4. \A who \in Guests : ":" \notin Said(who) /\ "allowlist=safeappend" \notin Said(who)
                          /\ Owner \notin Said(who) /\ \A o \in Guests : o \notin Said(who)
  BY WordsAssumption
<1>5. \A o \in Guests \cup {Owner} : o # Eol /\ o # "allowlist=safeappend"
  BY WordsAssumption
<1> QED
  BY <1>1, <1>2, <1>3, <1>4, <1>5 DEF Unsaid

\* A word of no guest is signed as it is.
LEMMA UnsaidIsSigned ==
  ASSUME NEW text, NEW i, Unsaid(text[i]) PROVE SignedAt(text, i)
BY DEF Unsaid, SignedAt

IsJoin(u, s, t) ==
    /\ u \in FileTexts /\ Len(u) = Len(s) + Len(t)
    /\ Len(s) \in Nat /\ Len(t) \in Nat
    /\ \A k \in 1 .. Len(s) : u[k] = s[k]
    /\ \A k \in 1 .. Len(t) : u[Len(s) + k] = t[k]

\* A text and another behind it.
LEMMA JoinIs ==
  ASSUME NEW s \in FileTexts, NEW t \in FileTexts PROVE IsJoin(s \o t, s, t)
<1> USE DEF FileTexts
<1>1. /\ s \o t \in FileTexts /\ Len(s \o t) = Len(s) + Len(t)
      /\ Len(s) \in Nat /\ Len(t) \in Nat
      /\ \A k \in 1 .. Len(s) : (s \o t)[k] = s[k]
  OBVIOUS
<1>2. ASSUME NEW k \in 1 .. Len(t) PROVE (s \o t)[Len(s) + k] = t[k]
  <2>1. Len(s) + k \in 1 .. Len(s) + Len(t) /\ Len(s) + k > Len(s) /\ Len(s) + k - Len(s) = k
    BY <1>1
  <2> QED
    BY <1>1, <2>1
<1> QED
  BY <1>1, <1>2 DEF IsJoin

\* What is added to a text with words leaves its header.
LEMMA ExtendedIs ==
  ASSUME NEW s \in FileTexts, s # <<>>, NEW t \in FileTexts
  PROVE  /\ Header(s \o t) = Header(s) /\ Len(s) <= Len(s \o t)
         /\ \A k \in 1 .. Len(s) : (s \o t)[k] = s[k]
         /\ \A k \in 1 .. Len(s \o t) : k > Len(s) => /\ k - Len(s) \in 1 .. Len(t)
                                                      /\ (s \o t)[k] = t[k - Len(s)]
<1> USE DEF FileTexts
<1>1. s \o t # <<>> /\ (s \o t)[1] = s[1]
  OBVIOUS
<1>2. Header(s \o t) = Header(s)
  BY <1>1 DEF Header
<1> QED
  BY <1>2

\* What a line that is appended is.
EndsIn(t, base, who, line) ==
    /\ t \in FileTexts /\ Len(t) = Len(base) + 3 + Len(line)
    /\ \A k \in 1 .. Len(base) : t[k] = base[k]
    /\ t[Len(base) + 1] = who /\ t[Len(base) + 2] = ":"
    /\ \A k \in 1 .. Len(line) : t[Len(base) + 2 + k] = line[k]
    /\ t[Len(base) + 3 + Len(line)] = Eol

\* A text and, behind it, a line with who wrote it.
LEMMA LineIs ==
  ASSUME NEW base \in FileTexts, NEW who \in FileWords, NEW line \in FileTexts
  PROVE  EndsIn(base \o <<who, ":">> \o line \o <<Eol>>, base, who, line)
<1> DEFINE sign == <<who, ":">>
           end == <<Eol>>
           one == base \o sign
           two == one \o line
           t == base \o <<who, ":">> \o line \o <<Eol>>
<1>1. sign \in FileTexts /\ Len(sign) = 2 /\ sign[1] = who /\ sign[2] = ":"
  BY TextsAre
<1>2. end \in FileTexts /\ Len(end) = 1 /\ end[1] = Eol
  BY TextsAre
<1> HIDE DEF sign, end
<1>3. /\ one \in FileTexts /\ Len(one) = Len(base) + 2 /\ \A k \in 1 .. Len(base) : one[k] = base[k]
      /\ one[Len(base) + 1] = who /\ one[Len(base) + 2] = ":"
  <2>1. IsJoin(one, base, sign)
    BY <1>1, JoinIs
  <2> HIDE DEF one
  <2>2. /\ one \in FileTexts /\ Len(one) = Len(base) + Len(sign)
        /\ \A k \in 1 .. Len(base) : one[k] = base[k]
        /\ \A k \in 1 .. Len(sign) : one[Len(base) + k] = sign[k]
    BY <2>1 DEF IsJoin
  <2> QED
    BY <1>1, <2>2
<1>4. /\ two \in FileTexts /\ Len(two) = Len(one) + Len(line)
      /\ \A k \in 1 .. Len(one) : two[k] = one[k]
      /\ \A k \in 1 .. Len(line) : two[Len(one) + k] = line[k]
  <2> HIDE DEF one
  <2>1. IsJoin(two, one, line)
    BY <1>3, JoinIs
  <2> HIDE DEF two
  <2> QED
    BY <2>1 DEF IsJoin
<1>5. t = two \o end
  BY DEF two, one, sign, end
<1> HIDE DEF one, two, t
<1>6. /\ t \in FileTexts /\ Len(t) = Len(two) + 1 /\ \A k \in 1 .. Len(two) : t[k] = two[k]
      /\ t[Len(two) + 1] = Eol
  <2>1. /\ t \in FileTexts /\ Len(t) = Len(two) + Len(end) /\ \A k \in 1 .. Len(two) : t[k] = two[k]
        /\ \A k \in 1 .. Len(end) : t[Len(two) + k] = end[k]
    <3>1. IsJoin(two \o end, two, end)
      BY <1>2, <1>4, JoinIs
    <3> QED
      BY <1>5, <3>1 DEF IsJoin
  <2> QED
    BY <1>2, <2>1
<1>7. Len(base) \in Nat /\ Len(line) \in Nat
  BY DEF FileTexts
<1>8. Len(t) = Len(base) + 3 + Len(line) /\ t[Len(base) + 3 + Len(line)] = Eol
  BY <1>3, <1>4, <1>6, <1>7
<1>9. \A k \in 1 .. Len(base) + 2 : t[k] = one[k]
  BY <1>3, <1>4, <1>6, <1>7
<1>10. \A k \in 1 .. Len(line) : t[Len(base) + 2 + k] = line[k]
  BY <1>3, <1>4, <1>6, <1>7
<1> QED
  BY <1>3, <1>6, <1>7, <1>8, <1>9, <1>10 DEF EndsIn, t

\* A signed line at the end of a text whose lines are signed, on a line of its own.
LEMMA LineIsSigned ==
  ASSUME NEW a \in Changes, NEW base \in FileTexts, base # <<>>, base[Len(base)] = Eol,
         \A i \in 1 .. Len(base) : SignedAt(base, i)
  PROVE  Signed(base \o <<a.who, ":">> \o FirstLine(a.data) \o <<Eol>>)
<1> DEFINE line == FirstLine(a.data)
           n == Len(base)
           t == base \o <<a.who, ":">> \o line \o <<Eol>>
<1>1. a.who \in FileWords /\ a.data \in FileTexts
  BY TextsAre
<1>2. /\ line \in FileTexts /\ \A k \in DOMAIN line : /\ line[k] # Eol /\ k \in DOMAIN a.data
                                                  /\ line[k] = a.data[k]
  BY <1>1, FirstLineIs
<1> HIDE DEF line, t
<1>3. /\ t \in FileTexts /\ Len(t) = n + 3 + Len(line)
      /\ \A k \in 1 .. n : t[k] = base[k]
      /\ t[n + 1] = a.who /\ t[n + 2] = ":"
      /\ \A k \in 1 .. Len(line) : t[n + 2 + k] = line[k]
      /\ t[n + 3 + Len(line)] = Eol
  <2>1. EndsIn(t, base, a.who, line)
    BY <1>1, <1>2, LineIs DEF t
  <2> QED
    BY <2>1 DEF EndsIn
<1>4. n \in Nat /\ Len(line) \in Nat /\ n > 0
  BY <1>2 DEF FileTexts
<1>5. ASSUME NEW i \in 1 .. n PROVE SignedAt(t, i)
  <2>1. Signed(base) /\ Len(base) <= Len(t)
    BY <1>3, <1>4 DEF Signed, FileTexts
  <2> QED
    BY <1>3, <2>1, PrefixSigned
<1>6. SignedAt(t, n + 1) /\ SignedAt(t, n + 2) /\ SignedAt(t, n + 3 + Len(line))
  BY <1>3, OthersWords, UnsaidIsSigned
<1>7. ASSUME NEW k \in 1 .. Len(line) PROVE SignedAt(t, n + 2 + k)
  <2>1. \A j \in n + 1 .. n + 2 + k : t[j] # Eol
    <3> SUFFICES ASSUME NEW j \in n + 1 .. n + 2 + k PROVE t[j] # Eol
      OBVIOUS
    <3>1. CASE j = n + 1
      BY <1>3, <3>1, OthersWords
    <3>2. CASE j = n + 2
      BY <1>3, <3>2 DEF Eol
    <3>3. CASE j > n + 2
      <4>1. j - n - 2 \in 1 .. Len(line) /\ j = n + 2 + (j - n - 2)
        BY <1>4, <3>3
      <4>2. t[j] = line[j - n - 2]
        BY <1>3, <4>1
      <4> QED
        BY <1>2, <4>1, <4>2 DEF FileTexts
    <3> QED
      BY <1>4, <3>1, <3>2, <3>3
  <2>2. t[n] = Eol /\ n \in 0 .. n + 2 + k /\ n + 2 + k \in Nat
    BY <1>3, <1>4
  <2>3. LineStart(t, n + 2 + k) = n + 1
    BY <2>1, <2>2, LineStartIs
  <2>4. k \in DOMAIN a.data /\ t[n + 2 + k] = a.data[k]
    BY <1>2, <1>3 DEF FileTexts
  <2>5. \A who \in Guests : t[n + 2 + k] \in Said(who) \ {Eol} => who = a.who
    BY <2>4, OthersWords
  <2> QED
    BY <1>3, <2>3, <2>5 DEF SignedAt
<1>8. ASSUME NEW i \in DOMAIN t PROVE SignedAt(t, i)
  <2>1. i \in 1 .. n + 3 + Len(line)
    BY <1>3 DEF FileTexts
  <2>2. CASE i <= n
    BY <1>4, <1>5, <2>1, <2>2
  <2>3. CASE i = n + 1 \/ i = n + 2 \/ i = n + 3 + Len(line)
    BY <1>6, <2>3
  <2>4. CASE i > n + 2 /\ i < n + 3 + Len(line)
    <3>1. i - n - 2 \in 1 .. Len(line) /\ i = n + 2 + (i - n - 2)
      BY <1>4, <2>1, <2>4
    <3> QED
      BY <1>7, <3>1
  <2> QED
    BY <1>4, <2>1, <2>2, <2>3, <2>4
<1> QED
  BY <1>8 DEF Signed, t, line

\* Guarded files are signed, the rows and what is read of them.
SignedText(text) == Guarded(text) => Signed(text)
SignedFiles ==
    /\ \A row \in files : SignedText(row.text)
    /\ \A c \in Callers : state[c] = "write" => SignedText(file[c].text)

\* The file made of a file that was signed is signed.
LEMMA ContentsSigned ==
  ASSUME FileInv, NEW c \in Callers, state[c] = "write", SignedText(file[c].text)
  PROVE  SignedText(Contents(c))
<1> DEFINE a == change[c]
           old == file[c].text
           text == Contents(c)
<1>1. /\ a \in Changes /\ old \in FileTexts /\ a.data \in FileTexts /\ text \in FileTexts
      /\ \/ a.op = "write" /\ text = a.data
         \/ a.op = "append" /\ text = old \o a.data
         \/ /\ a.op = "safeappend"
            /\ text = OwnLine(old) \o <<a.who, ":">> \o FirstLine(a.data) \o <<Eol>>
         \/ a.op = "delete" /\ text = <<>>
  BY ContentsAre, TextsAre
<1>2. a.who \in Guests => a.op \in Allowed(Header(old))
  BY DEF FileInv, ReadIs
<1>3. SignedText(old)
  OBVIOUS
<1> SUFFICES SignedText(text)
  OBVIOUS
<1> HIDE DEF a, old, text
<1>4. \A i \in DOMAIN a.data : a.who \notin Guests => Unsaid(a.data[i])
  BY <1>1, OthersWords
<1>5. CASE a.op = "write" /\ text = a.data
  <2>1. CASE a.who \in Guests
    <3>1. ASSUME a.data # <<>> PROVE 1 \in DOMAIN a.data
      BY <1>1, <3>1 DEF FileTexts
    <3>2. Header(text) # "allowlist=safeappend"
      BY <1>1, <1>5, <2>1, <3>1, OthersWords DEF Header
    <3> QED
      BY <3>2, GuardedIs DEF SignedText
  <2>2. CASE a.who \notin Guests
    BY <1>4, <1>5, <2>2, UnsaidIsSigned DEF SignedText, Signed
  <2> QED
    BY <2>1, <2>2
<1>6. CASE a.op = "append" /\ text = old \o a.data
  <2>1. CASE a.who \in Guests
    <3>1. old # <<>> /\ Header(old) # "allowlist=safeappend"
      BY <1>2, <1>6, <2>1 DEF Allowed, Header
    <3>2. Header(text) = Header(old)
      BY <1>1, <1>6, <3>1, ExtendedIs
    <3> QED
      BY <3>1, <3>2, GuardedIs DEF SignedText
  <2>2. CASE a.who \notin Guests /\ old = <<>>
    <3>1. text = a.data
      BY <1>1, <1>6, <2>2 DEF FileTexts
    <3> QED
      BY <1>4, <2>2, <3>1, UnsaidIsSigned DEF SignedText, Signed
  <2>3. CASE a.who \notin Guests /\ old # <<>>
    <3>1. /\ Header(text) = Header(old) /\ Len(old) <= Len(text)
          /\ \A k \in 1 .. Len(old) : text[k] = old[k]
          /\ \A k \in 1 .. Len(text) : k > Len(old) => /\ k - Len(old) \in 1 .. Len(a.data)
                                                       /\ text[k] = a.data[k - Len(old)]
      BY <1>1, <1>6, <2>3, ExtendedIs
    <3>2. SUFFICES ASSUME Guarded(text), NEW i \in DOMAIN text PROVE SignedAt(text, i)
      BY DEF SignedText, Signed
    <3>3. Signed(old)
      BY <1>3, <3>1, <3>2, GuardedIs DEF SignedText
    <3>4. i \in 1 .. Len(text) /\ Len(old) \in Nat
      BY <1>1 DEF FileTexts
    <3>5. CASE i <= Len(old)
      <4>1. i \in 1 .. Len(old)
        BY <3>4, <3>5
      <4> QED
        BY <1>1, <3>1, <3>3, <4>1, PrefixSigned
    <3>6. CASE i > Len(old)
      <4>1. i - Len(old) \in DOMAIN a.data /\ text[i] = a.data[i - Len(old)]
        BY <1>1, <3>1, <3>4, <3>6 DEF FileTexts
      <4> QED
        BY <1>4, <2>3, <4>1, UnsaidIsSigned
    <3> QED
      BY <3>4, <3>5, <3>6
  <2> QED
    BY <2>1, <2>2, <2>3
<1>7. CASE /\ a.op = "safeappend"
           /\ text = OwnLine(old) \o <<a.who, ":">> \o FirstLine(a.data) \o <<Eol>>
  <2> DEFINE base == OwnLine(old)
             line == FirstLine(a.data)
  <2>1. a.who \in FileWords /\ line \in FileTexts
    BY <1>1, TextsAre, FirstLineIs
  <2>2. base = old \/ base = old \o <<Eol>>
    BY <1>1 DEF OwnLine, FileTexts
  <2>3. base \in FileTexts
    BY <1>1, <2>2, TextsAre
  <2>4. text = base \o <<a.who, ":">> \o line \o <<Eol>>
    BY <1>7
  <2> HIDE DEF line
  <2>5. EndsIn(text, base, a.who, line)
    <3> HIDE DEF base
    <3> QED
      BY <2>1, <2>3, <2>4, LineIs
  <2>6. CASE old = <<>>
    <3>1. base = <<>>
      BY <2>6 DEF OwnLine, Ended
    <3>2. text # <<>> /\ text[1] = a.who
      BY <2>1, <2>5, <3>1 DEF EndsIn, FileTexts
    <3>3. Header(text) # "allowlist=safeappend"
      BY <1>1, <3>2, OthersWords DEF Header
    <3> QED
      BY <3>3, GuardedIs DEF SignedText
  <2>7. CASE old # <<>>
    <3>1. /\ base # <<>> /\ Header(base) = Header(old) /\ Len(old) <= Len(base)
          /\ \A k \in 1 .. Len(old) : base[k] = old[k]
      <4>1. CASE base = old
        <5> HIDE DEF base
        <5> QED
          BY <1>1, <2>7, <4>1 DEF FileTexts
      <4>2. CASE base = old \o <<Eol>>
        <5> HIDE DEF base
        <5>1. <<Eol>> \in FileTexts
          BY TextsAre
        <5>2. base # <<>>
          BY <1>1, <2>7, <4>2 DEF FileTexts
        <5> QED
          BY <1>1, <2>7, <4>2, <5>1, <5>2, ExtendedIs
      <4> QED
        BY <2>2, <4>1, <4>2
    <3>2. Header(text) = Header(base)
      <4>1. Len(base) >= 1 /\ text[1] = base[1] /\ text # <<>>
        BY <2>1, <2>3, <2>5, <3>1 DEF EndsIn, FileTexts
      <4> QED
        BY <3>1, <4>1 DEF Header
    <3>3. SUFFICES ASSUME Guarded(text) PROVE Signed(text)
      BY DEF SignedText
    <3>4. Guarded(old) /\ Signed(old)
      BY <1>3, <3>1, <3>2, <3>3, GuardedIs DEF SignedText
    <3>5. base[Len(base)] = Eol
      <4>1. old # <<"0">>
        BY <3>4, GuardedIs DEF Header
      <4>2. Ended(old) => old[Len(old)] = Eol
        BY <2>7, <4>1 DEF Ended
      <4>3. ~Ended(old) => base = Append(old, Eol)
        BY DEF OwnLine
      <4>4. Ended(old) => base = old
        BY DEF OwnLine
      <4> QED
        BY <1>1, <4>2, <4>3, <4>4 DEF FileTexts
    <3>6. ASSUME NEW i \in 1 .. Len(base) PROVE SignedAt(base, i)
      <4>1. CASE i <= Len(old)
        <5>1. i \in 1 .. Len(old)
          BY <1>1, <4>1 DEF FileTexts
        <5> QED
          BY <1>1, <2>3, <3>1, <3>4, <5>1, PrefixSigned
      <4>2. CASE i > Len(old)
        <5>1. i = Len(base)
          BY <1>1, <2>2, <4>2 DEF FileTexts
        <5> QED
          BY <3>5, <5>1, OthersWords, UnsaidIsSigned
      <4> QED
        BY <1>1, <4>1, <4>2 DEF FileTexts
    <3>7. Signed(base \o <<a.who, ":">> \o FirstLine(a.data) \o <<Eol>>)
      <4> HIDE DEF base
      <4> QED
        BY <1>1, <2>3, <3>1, <3>5, <3>6, LineIsSigned
    <3> QED
      BY <1>7, <3>7
  <2> QED
    BY <2>6, <2>7
<1>8. CASE a.op = "delete" /\ text = <<>>
  BY <1>8, GuardedIs DEF SignedText, Header
<1> QED
  BY <1>1, <1>5, <1>6, <1>7, <1>8

\* Each step keeps the guarded files signed.
LEMMA SignedStep ==
  ASSUME FileInv, SignedFiles, NEW c \in Callers, ServesChange(c) PROVE SignedFiles'
<1> USE DEF FileInv, FileTypes, SignedFiles
<1>1. \A o \in Callers \ {c} : state'[o] = state[o] /\ change'[o] = change[o] /\ file'[o] = file[o]
  BY DEF ServesChange, Request, Drop, VerifyKeycode, WriteFile, Leave
<1>2. ASSUME files' = files, state'[c] # "write" PROVE SignedFiles'
  BY <1>1, <1>2
<1>3. CASE Request(c) \/ Drop(c)
  BY <1>2, <1>3 DEF Request, Drop, Leave
<1>4. CASE VerifyKeycode(c)
  <2>1. files' = files
    BY <1>4 DEF VerifyKeycode
  <2>2. CASE state'[c] = "idle"
    BY <1>2, <2>1, <2>2
  <2>3. CASE state'[c] # "idle"
    <3>1. \/ file'[c] = [id |-> Unwritten, name |-> change[c].name, text |-> <<>>]
          \/ file'[c] \in files
      BY <1>4, <2>3, VerifyReads
    <3>2. SignedText(<<>>)
      BY GuardedIs DEF SignedText, Header
    <3>3. SignedText(file'[c].text)
      BY <3>1, <3>2
    <3> QED
      BY <1>1, <2>1, <3>3
  <2> QED
    BY <2>2, <2>3
<1>5. CASE WriteFile(c)
  <2>1. SignedText(Contents(c))
    BY <1>5, ContentsSigned DEF WriteFile
  <2>2. \A row \in files' : SignedText(row.text)
    BY <1>5, <2>1, WriteFileIs
  <2>3. state'[c] = "idle"
    BY <1>5 DEF WriteFile, Leave
  <2> QED
    BY <1>1, <2>2, <2>3
<1> QED
  BY <1>3, <1>4, <1>5 DEF ServesChange

\* There are no files at first.
LEMMA FilesInitInv == FilesInit => FileInv /\ SignedFiles
BY DEF FilesInit, FileInv, FileTypes, ReadIs, SignedFiles

\* Files are kept and signed whatever the requests do.
THEOREM FilesHold == FilesSpec => [](FileInv /\ SignedFiles)
<1>1. ASSUME FileInv, SignedFiles, [FilesNext]_fileVars PROVE FileInv' /\ SignedFiles'
  <2>1. CASE UNCHANGED fileVars
    BY <1>1, <2>1 DEF fileVars, FileInv, FileTypes, ReadIs, SignedFiles, ReadRows, FileRows,
        Unwritten
  <2>2. ASSUME NEW c \in Callers, ServesChange(c) PROVE FileInv' /\ SignedFiles'
    BY <1>1, <2>2, FileInvStep, SignedStep
  <2> QED
    BY <1>1, <2>1, <2>2 DEF FilesNext, ServesChange
<1> QED
  BY <1>1, FilesInitInv, PTL DEF FilesSpec

-----------------------------------------------------------------------------
(* Mail. *)


\* What a set of ids ends with, if it is bounded.
Highest(ids) == IF ids = {} THEN 0 ELSE Max(ids)

\* A bounded set of ids has a highest.
LEMMA HighestIs ==
  ASSUME NEW n \in Nat, NEW ids, ids \subseteq 1 .. n
  PROVE  Highest(ids) \in 0 .. n /\ \A id \in ids : id <= Highest(ids)
<1>1. CASE ids = {}
  BY <1>1 DEF Highest
<1>2. CASE ids # {}
  <2>1. ids \subseteq 0 .. n
    OBVIOUS
  <2>2. PICK m \in ids : \A id \in ids : id <= m
    BY <1>2, <2>1, GreatestIs
  <2>3. \A id \in ids : m >= id
    BY <2>1, <2>2
  <2>4. Max(ids) \in ids /\ \A id \in ids : Max(ids) >= id
    BY <2>3 DEF Max
  <2>5. Highest(ids) = Max(ids)
    BY <1>2 DEF Highest
  <2>6. Highest(ids) \in ids /\ \A id \in ids : Highest(ids) >= id
    BY <2>4, <2>5, Zenon
  <2> DEFINE h == Highest(ids)
  <2>7. h \in 1 .. n /\ \A id \in ids : id \in 1 .. n /\ h >= id
    BY <2>6
  <2> HIDE DEF h
  <2>8. h \in 0 .. n /\ \A id \in ids : id <= h
    BY <2>7
  <2> QED
    BY <2>8 DEF h
<1> QED
  BY <1>1, <1>2

\* The higher of two.
LEMMA MaxOfTwo ==
  ASSUME NEW a \in Nat, NEW b \in Nat
  PROVE  Max({a, b}) = IF a >= b THEN a ELSE b
<1>1. CASE a >= b
  BY <1>1 DEF Max
<1>2. CASE b > a
  BY <1>2 DEF Max
<1> QED
  BY <1>1, <1>2

Mails == Mine \cup Theirs \cup Scripted
Stores == UNION {[ids -> BOOLEAN] : ids \in SUBSET Nat}
Jobs ==
    [type : {"list", "fetch", "mark", "send"}, about : Nat \cup Mine,
     stage : {"start", "request", "write", "done", "failed"}, copy : Stores,
     new : SUBSET Nat]
Letters == [id : Nat, to : STRING, mail : Mails]
Deliveries == [mail : Mails, left : Seq(STRING), id : Nat, by : {"send", "script"}]

ServerTypes ==
    /\ nextLetter \in Nat \ {0} /\ top \in 0 .. nextLetter - 1
    /\ letters \subseteq Letters /\ \A l \in letters : l.id \in 1 .. top
    /\ deliveries \subseteq Deliveries
    /\ \A d \in deliveries : d.id < nextLetter /\ (d.id # 0 => d.left # <<>>)
JobTypes ==
    /\ jobs \in [Consoles -> Jobs \cup {NoJob}]
    /\ \A c \in Consoles : jobs[c].type = "send" => jobs[c].about \in Mine
    /\ store \in Stores /\ held \in Stores /\ draft \in Mine \cup {NoDraft}
MailTypes == ServerTypes /\ JobTypes

\* The window asks one question at a time, which one console carries out.
Alone ==
    \A c \in Consoles : jobs[c] # NoJob => busy = TRUE /\ \A d \in Consoles \ {c} : jobs[d] = NoJob

\* What mail.dat may hold.
LEMMA StoreTypes ==
  /\ \A mail \in Stores : mail \in [DOMAIN mail -> BOOLEAN] /\ DOMAIN mail \subseteq Nat
  /\ \A ids \in SUBSET Nat : [ids -> BOOLEAN] \subseteq Stores
  /\ NoMail \in Stores /\ DOMAIN NoMail = {}
<1>1. NoMail \in [{} -> BOOLEAN] /\ DOMAIN NoMail = {}
  BY DEF NoMail
<1> QED
  BY <1>1 DEF Stores

\* A question just asked.
LEMMA JobIs ==
  ASSUME NEW type \in {"list", "fetch", "mark", "send"}, NEW about \in Nat \cup Mine
  PROVE  /\ Job(type, about) \in Jobs /\ Job(type, about).type = type
         /\ Job(type, about).about = about /\ Job(type, about).stage = "start"
         /\ Job(type, about).new = {} /\ Job(type, about) # NoJob
<1>1. NoMail \in Stores
  BY StoreTypes
<1>2. Job(type, about).type # NoJob.type
  BY DEF Job, NoJob
<1> QED
  BY <1>1, <1>2 DEF Job, Jobs

\* A console that carries nothing out is told by its type and its stage.
LEMMA JobHas ==
  ASSUME NEW job \in Jobs \cup {NoJob}
  PROVE  /\ job # NoJob => job \in Jobs
         /\ job = NoJob <=> job.type = "none"
         /\ job = NoJob <=> job.stage = "none"
BY DEF Jobs, NoJob

\* What a step makes of the question that c carries out.
OthersAsk(c) == \A o \in Consoles \ {c} : jobs'[o] = jobs[o]
Fresh == {job \in Jobs : job.stage = "start" /\ (job.type = "send" => job.about \in Mine)}
Asks(c) == jobs[c] = NoJob /\ busy = FALSE /\ busy' = TRUE /\ jobs'[c] \in Fresh
Again(c) == jobs[c] # NoJob /\ (busy' = TRUE \/ busy' = busy) /\ jobs'[c] \in Fresh
Over(c) == jobs[c] # NoJob /\ busy' = FALSE /\ jobs'[c] = NoJob
Goes(c) ==
    /\ jobs[c] # NoJob /\ busy' = busy /\ jobs'[c] \in Jobs
    /\ jobs'[c].type = jobs[c].type /\ jobs'[c].about = jobs[c].about
Turns(c) ==
    OthersAsk(c) /\ (Asks(c) \/ Again(c) \/ Over(c) \/ (Carrying(c) /\ Goes(c)))

\* Or it tells those waiting for a mail to be sent.
Tells ==
    /\ busy' = busy
    /\ \E mail \in Mails, stage \in {"done", "failed"} :
          /\ Tell(mail, stage)
          /\ stage = "done" =>
                \E d \in deliveries : CommitLetter(d) /\ d.mail = mail /\ Tail(d.left) = <<>>
JobStep == UNCHANGED <<jobs, busy>> \/ (\E c \in Consoles : Turns(c)) \/ Tells

\* Who hears that a mail was sent: those who wait for it.
LEMMA TellIs ==
  ASSUME JobTypes, NEW mail, NEW stage \in {"done", "failed"}, Tell(mail, stage), NEW c \in Consoles
  PROVE  \/ jobs'[c] = jobs[c]
         \/ /\ jobs[c] # NoJob /\ jobs'[c] \in Jobs /\ jobs'[c].stage = stage
            /\ jobs[c].type = "send" /\ jobs[c].about = mail
            /\ jobs'[c].type = "send" /\ jobs'[c].about = mail
<1>1. jobs[c].type = "send" => jobs[c] \in Jobs
  BY JobHas DEF JobTypes
<1>2. jobs'[c] = IF jobs[c].type = "send" /\ jobs[c].stage = "request" /\ jobs[c].about = mail
                 THEN [jobs[c] EXCEPT !.stage = stage] ELSE jobs[c]
  BY DEF Tell
<1> QED
  BY <1>1, <1>2, JobHas DEF Jobs

\* A step of the console that carries the question out.
LEMMA ReadStoreIs ==
  ASSUME JobTypes, NEW c \in Consoles, ReadStore(c)
  PROVE  /\ OthersAsk(c) /\ Goes(c) /\ jobs'[c].copy = store /\ jobs'[c].new = jobs[c].new
         /\ jobs'[c].stage = IF jobs[c].type = "list" THEN "done"
                             ELSE IF jobs[c].type = "fetch" THEN "request" ELSE "write"
         /\ jobs[c].type # "send"
<1> USE DEF JobTypes
<1>1. jobs[c] \in Jobs /\ jobs[c] # NoJob
  BY JobHas DEF ReadStore
<1> DEFINE stage == CASE jobs[c].type = "list" -> "done"
                      [] jobs[c].type = "fetch" -> "request"
                      [] jobs[c].type = "mark" -> "write"
<1>2. jobs[c].type \in {"list", "fetch", "mark"}
  BY DEF ReadStore
<1>3. stage = IF jobs[c].type = "list" THEN "done"
              ELSE IF jobs[c].type = "fetch" THEN "request" ELSE "write"
  BY <1>2
<1>4. stage \in {"request", "write", "done"}
  BY <1>2
<1>5. jobs' = [jobs EXCEPT ![c].copy = store, ![c].stage = stage]
  BY DEF ReadStore
<1> HIDE DEF stage
<1>6. jobs'[c] = [jobs[c] EXCEPT !.copy = store, !.stage = stage]
  BY <1>1, <1>5
<1>7. jobs'[c] \in Jobs /\ jobs'[c].copy = store /\ jobs'[c].stage = stage
        /\ jobs'[c].type = jobs[c].type /\ jobs'[c].about = jobs[c].about
        /\ jobs'[c].new = jobs[c].new
  BY <1>1, <1>4, <1>6 DEF Jobs
<1>8. busy' = busy /\ OthersAsk(c)
  BY <1>5 DEF ReadStore, mailWindow, OthersAsk
<1> QED
  BY <1>1, <1>2, <1>3, <1>7, <1>8 DEF Goes

\* Ids newer than the highest held are fetched.
LEMMA InboxIs ==
  ASSUME ServerTypes, JobTypes, NEW c \in Consoles, Inbox(c)
  PROVE  /\ OthersAsk(c) /\ Goes(c) /\ jobs'[c].copy = jobs[c].copy
         /\ jobs[c].type = "fetch" /\ jobs[c].stage = "request" /\ jobs'[c].stage = "write"
         /\ jobs'[c].new = {l.id : l \in {k \in letters :
                                            k.to = Me /\ k.id > HighestId(jobs[c].copy)}}
<1> USE DEF JobTypes
<1>1. jobs[c] \in Jobs /\ jobs[c] # NoJob
  BY JobHas DEF Inbox
<1> DEFINE new == {l.id : l \in {k \in letters : k.to = Me /\ k.id > HighestId(jobs[c].copy)}}
<1>2. new \subseteq Nat
  BY DEF ServerTypes, Letters
<1>3. jobs' = [jobs EXCEPT ![c].stage = "write", ![c].new = new]
  BY DEF Inbox
<1> HIDE DEF new
<1>4. jobs'[c] = [jobs[c] EXCEPT !.stage = "write", !.new = new]
  BY <1>3
<1>5. jobs'[c] \in Jobs /\ jobs'[c].copy = jobs[c].copy /\ jobs'[c].stage = "write"
        /\ jobs'[c].type = jobs[c].type /\ jobs'[c].about = jobs[c].about
        /\ jobs'[c].new = new
  BY <1>1, <1>2, <1>4 DEF Jobs
<1>6. busy' = busy /\ OthersAsk(c) /\ jobs[c].type = "fetch" /\ jobs[c].stage = "request"
  BY <1>3 DEF Inbox, mailWindow, OthersAsk
<1> QED
  BY <1>1, <1>5, <1>6 DEF Goes, new

\* A request that fails ends the question.
LEMMA RequestFailsIs ==
  ASSUME JobTypes, NEW c \in Consoles, RequestFails(c)
  PROVE  OthersAsk(c) /\ Goes(c) /\ jobs'[c].stage = "failed"
<1> USE DEF JobTypes
<1>1. jobs[c] \in Jobs /\ jobs[c] # NoJob
  BY JobHas DEF RequestFails
<1>2. jobs'[c] = [jobs[c] EXCEPT !.stage = "failed"]
  BY DEF RequestFails
<1>3. jobs'[c] \in Jobs /\ jobs'[c].stage = "failed"
        /\ jobs'[c].type = jobs[c].type /\ jobs'[c].about = jobs[c].about
  BY <1>1, <1>2 DEF Jobs
<1> QED
  BY <1>1, <1>3 DEF Goes, RequestFails, mailWindow, OthersAsk

\* What a question makes of the copy it has, which is what it writes.
NextCopy(job) ==
    IF job.type = "fetch" THEN Merge(job.copy, job.new)
    ELSE [id \in DOMAIN job.copy |-> job.copy[id] /\ id # job.about]

\* What is written holds what was read, and marks nothing unread.
LEMMA NextCopyIs ==
  ASSUME NEW job \in Jobs
  PROVE  /\ NextCopy(job) \in Stores
         /\ DOMAIN NextCopy(job) = DOMAIN job.copy
                                      \cup (IF job.type = "fetch" THEN job.new ELSE {})
         /\ \A id \in DOMAIN job.copy : NextCopy(job)[id] => job.copy[id]
<1>1. job.copy \in [DOMAIN job.copy -> BOOLEAN] /\ DOMAIN job.copy \subseteq Nat
        /\ job.new \subseteq Nat
  BY StoreTypes DEF Jobs
<1>2. CASE job.type = "fetch"
  <2>1. Merge(job.copy, job.new) \in [DOMAIN job.copy \cup job.new -> BOOLEAN]
    BY <1>1 DEF Merge
  <2>2. \A id \in DOMAIN job.copy : Merge(job.copy, job.new)[id] = job.copy[id]
    BY DEF Merge
  <2> QED
    BY <1>1, <1>2, <2>1, <2>2, StoreTypes DEF NextCopy
<1>3. CASE job.type # "fetch"
  <2>1. NextCopy(job) \in [DOMAIN job.copy -> BOOLEAN]
    BY <1>1, <1>3 DEF NextCopy
  <2>2. \A id \in DOMAIN job.copy : NextCopy(job)[id] => job.copy[id]
    BY <1>1, <1>3 DEF NextCopy
  <2> QED
    BY <1>1, <1>3, <2>1, <2>2, StoreTypes
<1> QED
  BY <1>2, <1>3

\* The copy is written when it changed.
LEMMA WriteStoreIs ==
  ASSUME JobTypes, NEW c \in Consoles, WriteStore(c)
  PROVE  /\ OthersAsk(c) /\ Goes(c) /\ jobs'[c].stage = "done"
         /\ jobs[c] \in Jobs /\ jobs[c].stage = "write" /\ jobs[c].type \in {"fetch", "mark"}
         /\ jobs'[c].copy = NextCopy(jobs[c])
         /\ store' = IF NextCopy(jobs[c]) = jobs[c].copy THEN store ELSE NextCopy(jobs[c])
<1> USE DEF JobTypes
<1>1. jobs[c] \in Jobs /\ jobs[c] # NoJob
  BY JobHas DEF WriteStore
<1> DEFINE next == NextCopy(jobs[c])
<1>2. next \in Stores
  BY <1>1, NextCopyIs
<1>3. /\ jobs' = [jobs EXCEPT ![c].copy = next, ![c].stage = "done", ![c].new = {}]
      /\ store' = IF next = jobs[c].copy THEN store ELSE next
  BY DEF WriteStore, NextCopy
<1> HIDE DEF next
<1>4. jobs'[c] = [jobs[c] EXCEPT !.copy = next, !.stage = "done", !.new = {}]
  BY <1>3
<1>5. jobs'[c] \in Jobs /\ jobs'[c].copy = next /\ jobs'[c].stage = "done"
        /\ jobs'[c].type = jobs[c].type /\ jobs'[c].about = jobs[c].about
  BY <1>1, <1>2, <1>4 DEF Jobs
<1>6. busy' = busy /\ OthersAsk(c) /\ jobs[c].stage = "write" /\ jobs[c].type \in {"fetch", "mark"}
  BY <1>3 DEF WriteStore, mailWindow, OthersAsk
<1> QED
  BY <1>1, <1>3, <1>5, <1>6 DEF Goes, next

\* A mail is on its way only to names that have an account.
LEMMA MailSendIs ==
  ASSUME JobTypes, NEW c \in Consoles, MailSend(c)
  PROVE  /\ OthersAsk(c) /\ Goes(c) /\ jobs[c].type = "send"
         /\ \/ jobs'[c].stage = "failed" /\ UNCHANGED deliveries
            \/ /\ jobs'[c].stage = "request" /\ Begin(jobs[c].about)
               /\ Names(To[jobs[c].about]) \subseteq Known
<1> USE DEF JobTypes
<1>1. jobs[c] \in Jobs /\ jobs[c] # NoJob
  BY JobHas DEF MailSend
<1>2. PICK stage \in {"request", "failed"} :
        /\ jobs' = [jobs EXCEPT ![c].stage = stage]
        /\ IF stage = "failed" THEN UNCHANGED deliveries
           ELSE Begin(jobs[c].about) /\ Names(To[jobs[c].about]) \subseteq Known
  BY DEF MailSend
<1>3. jobs'[c] = [jobs[c] EXCEPT !.stage = stage]
  BY <1>2
<1>4. jobs'[c] \in Jobs /\ jobs'[c].stage = stage
        /\ jobs'[c].type = jobs[c].type /\ jobs'[c].about = jobs[c].about
  BY <1>1, <1>3 DEF Jobs
<1>5. busy' = busy /\ OthersAsk(c) /\ jobs[c].type = "send"
  BY <1>2 DEF MailSend, mailWindow, OthersAsk
<1> QED
  BY <1>1, <1>2, <1>4, <1>5 DEF Goes

\* A question goes to a console that has none.
LEMMA PutIs ==
  ASSUME JobTypes, NEW job \in Fresh, Put(job), busy = FALSE, busy' = TRUE
  PROVE  \E c \in Consoles : Turns(c)
<1>1. PICK c \in Consoles : jobs[c] = NoJob /\ jobs' = [jobs EXCEPT ![c] = job]
  BY DEF Put
<1>2. OthersAsk(c) /\ Asks(c)
  BY <1>1 DEF JobTypes, OthersAsk, Asks
<1> QED
  BY <1>2 DEF Turns

\* The questions the window asks.
LEMMA AsksAreFresh ==
  /\ Job("list", 0) \in Fresh /\ Job("fetch", 0) \in Fresh
  /\ \A id \in Nat : Job("mark", id) \in Fresh
  /\ \A mail \in Mine : Job("send", mail) \in Fresh
BY JobIs DEF Fresh

\* The window asks one question, or none.
LEMMA WindowJobs ==
  ASSUME JobTypes, busy \in BOOLEAN, NEW id, NEW mail,
         Window \/ ReadMail(id) \/ Compose(mail)
  PROVE  UNCHANGED <<jobs, busy>> \/ (\E c \in Consoles : Turns(c))
<1>1. CASE Show \/ Refresh
  <2>1. PICK type \in {"list", "fetch"} : Load(Job(type, 0))
    BY <1>1 DEF Show, Refresh
  <2>2. Job(type, 0) \in Fresh
    BY AsksAreFresh
  <2> QED
    BY <2>1, <2>2, PutIs DEF Load
<1>2. CASE Send
  <2>1. draft \in Mine /\ Put(Job("send", draft)) /\ busy = FALSE /\ busy' = TRUE
    BY <1>2 DEF Send, JobTypes
  <2>2. Job("send", draft) \in Fresh
    BY <2>1, AsksAreFresh
  <2> QED
    BY <2>1, <2>2, PutIs
<1>3. CASE ReadMail(id)
  <2>1. id \in Nat /\ Put(Job("mark", id)) /\ busy = FALSE /\ busy' = TRUE
    BY <1>3, StoreTypes DEF ReadMail, Load, JobTypes
  <2>2. Job("mark", id) \in Fresh
    BY <2>1, AsksAreFresh
  <2> QED
    BY <2>1, <2>2, PutIs
<1>4. CASE Cancel \/ Compose(mail)
  BY <1>4 DEF Cancel, Compose
<1> QED
  BY <1>1, <1>2, <1>3, <1>4 DEF Window

\* What it hears ends the question or asks another.
LEMMA HearingJobs ==
  ASSUME JobTypes, NEW c \in Consoles, Hearing(c) \/ Close(c)
  PROVE  Turns(c)
<1> USE DEF JobTypes
<1>1. CASE Close(c)
  <2>1. jobs[c] \in Jobs /\ jobs[c] # NoJob
    BY <1>1, JobHas DEF Close
  <2>2. Job(jobs[c].type, jobs[c].about) \in Fresh
    <3> DEFINE type == jobs[c].type
               about == jobs[c].about
    <3>1. type \in {"list", "fetch", "mark", "send"} /\ about \in Nat \cup Mine
            /\ (type = "send" => about \in Mine)
      BY <2>1 DEF Jobs
    <3> HIDE DEF type, about
    <3>2. /\ Job(type, about) \in Jobs /\ Job(type, about).type = type
          /\ Job(type, about).about = about /\ Job(type, about).stage = "start"
      <4>1. type \in {"list", "fetch", "mark", "send"} /\ about \in Nat \cup Mine
        BY <3>1
      <4> QED
        BY <4>1, JobIs
    <3> DEFINE job == Job(type, about)
    <3>3. job \in Jobs /\ job.stage = "start" /\ (job.type = "send" => job.about \in Mine)
      BY <3>1, <3>2
    <3> HIDE DEF job
    <3>4. job \in Fresh
      BY <3>3 DEF Fresh
    <3> QED
      BY <3>4 DEF job, type, about
  <2> QED
    BY <1>1, <2>1, <2>2 DEF Close, mailWindow, Turns, OthersAsk, Again
<1>2. ASSUME jobs[c].type # "none", Heard(c, NoJob) PROVE Turns(c)
  <2>1. jobs[c] # NoJob
    BY <1>2, JobHas
  <2> QED
    BY <1>2, <2>1 DEF Heard, Turns, OthersAsk, Over
<1>3. ASSUME jobs[c].type # "none", Heard(c, Job("fetch", 0)) PROVE Turns(c)
  <2>1. jobs[c] # NoJob /\ Job("fetch", 0) # NoJob /\ Job("fetch", 0) \in Fresh
    BY <1>3, JobHas, AsksAreFresh, JobIs
  <2> QED
    BY <1>3, <2>1 DEF Heard, Turns, OthersAsk, Again
<1>4. CASE Hearing(c)
  <2>1. jobs[c].type # "none" /\ (Heard(c, NoJob) \/ Heard(c, Job("fetch", 0)))
    BY <1>4 DEF Hearing, HearList, HearMail, HearSent
  <2> QED
    BY <1>2, <1>3, <2>1
<1> QED
  BY <1>1, <1>4

\* What the server does tells those who wait, or nobody.
LEMMA ServingJobs ==
  ASSUME ServerTypes, NEW d \in deliveries, Serving(d)
  PROVE  UNCHANGED <<jobs, busy>> \/ Tells
<1>1. d.mail \in Mails
  BY DEF ServerTypes, Deliveries
<1>2. CASE Draw(d)
  BY <1>2 DEF Draw, mailWindow
<1>3. CASE Stops(d)
  BY <1>1, <1>3 DEF Stops, mailWindow, Tells
<1>4. CASE CommitLetter(d)
  BY <1>1, <1>4 DEF CommitLetter, mailWindow, Tells
<1> QED
  BY <1>2, <1>3, <1>4 DEF Serving

\* Every step, as the questions see it.
LEMMA JobSteps ==
  ASSUME MailTypes, busy \in BOOLEAN, MailNext PROVE JobStep
<1> USE DEF MailTypes
<1>1. CASE \E d \in deliveries : Serving(d)
  BY <1>1, ServingJobs DEF JobStep
<1>2. CASE (\E mail \in Theirs : Others(mail)) \/ (\E mail \in Scripted : ScriptSends(mail))
  BY <1>2 DEF Others, ScriptSends, mailWindow, JobStep
<1>3. CASE (\E mail \in Mine : Compose(mail)) \/ (\E id \in DOMAIN held : ReadMail(id)) \/ Window
  BY <1>3, WindowJobs DEF JobStep
<1>4. CASE \E c \in Consoles : Carrying(c)
  <2>1. PICK c \in Consoles : Carrying(c)
    BY <1>4
  <2>2. OthersAsk(c) /\ Goes(c)
    BY <2>1, ReadStoreIs, InboxIs, RequestFailsIs, WriteStoreIs, MailSendIs DEF Carrying
  <2> QED
    BY <2>1, <2>2 DEF JobStep, Turns
<1>5. CASE \E c \in Consoles : Hearing(c) \/ Close(c)
  BY <1>5, HearingJobs DEF JobStep
<1> QED
  BY <1>1, <1>2, <1>3, <1>4, <1>5 DEF MailNext

\* The store is written by WriteStore.
LEMMA StoreSteps ==
  ASSUME MailNext PROVE store' = store \/ \E c \in Consoles : WriteStore(c)
BY DEF MailNext, Serving, Window, Carrying, Hearing, Draw, CommitLetter, Stops, Others,
   ScriptSends, Compose, ReadMail, Show, Refresh, Cancel, Send, ReadStore, Inbox,
   RequestFails, MailSend, HearList, HearMail, HearSent, Close

\* The letters and the ids by the statements of the server.
LEMMA ServerSteps ==
  ASSUME MailNext
  PROVE  \/ UNCHANGED <<letters, nextLetter, top, overtaken>>
         \/ \E d \in deliveries : Draw(d) \/ CommitLetter(d)
BY DEF MailNext, Serving, Window, Carrying, Hearing, Stops, Others, mailServer,
   ScriptSends, Compose, ReadMail, Show, Refresh, Cancel, Send, ReadStore, Inbox, WriteStore,
   RequestFails, MailSend, HearList, HearMail, HearSent, Close

\* The requests to send that begin, or go on.
LEMMA DeliverySteps ==
  ASSUME MailTypes, MailNext
  PROVE  \/ \E d \in deliveries : Draw(d) \/ CommitLetter(d)
         \/ deliveries' \subseteq deliveries /\ UNCHANGED <<letters, nextLetter, top, overtaken>>
         \/ \E mail \in Mails : /\ Begin(mail) /\ Names(To[mail]) \subseteq Known
                                /\ UNCHANGED <<letters, nextLetter, top, overtaken>>
         \/ /\ UNCHANGED <<letters, nextLetter, top, overtaken>>
            /\ \E mail \in Scripted :
                  deliveries' = deliveries \cup
                       {[mail |-> mail, left |-> <<Me>>, id |-> 0, by |-> "script"]}
<1>1. CASE \E d \in deliveries : Serving(d)
  BY <1>1 DEF Serving, Stops
<1>2. CASE \E mail \in Theirs : Others(mail)
  BY <1>2, MailsAssumption DEF Others, Mails
<1>3. CASE \E mail \in Scripted : ScriptSends(mail)
  BY <1>3 DEF ScriptSends
<1>4. CASE \E c \in Consoles : MailSend(c)
  <2>1. PICK c \in Consoles : MailSend(c)
    BY <1>4
  <2>2. UNCHANGED <<letters, nextLetter, top, overtaken>>
    BY <2>1 DEF MailSend
  <2>3. jobs[c].about \in Mails
    BY <2>1 DEF MailSend, MailTypes, JobTypes, Mails
  <2> QED
    BY <2>1, <2>2, <2>3, MailSendIs DEF MailTypes
<1>5. CASE (\E mail \in Mine : Compose(mail)) \/ (\E id \in DOMAIN held : ReadMail(id)) \/ Window
           \/ \E c \in Consoles : ReadStore(c) \/ Inbox(c) \/ RequestFails(c) \/ WriteStore(c)
                                    \/ Hearing(c) \/ Close(c)
  BY <1>5 DEF Window, Hearing, mailServer, Compose, ReadMail, Show, Refresh, Cancel, Send,
     ReadStore, Inbox, WriteStore, RequestFails, HearList, HearMail, HearSent, Close
<1> QED
  BY <1>1, <1>2, <1>3, <1>4, <1>5, ServerSteps DEF MailNext, Carrying

\* A row that a request commits.
CommitIs(d) ==
    /\ deliveries' = (deliveries \ {d}) \cup
          IF Tail(d.left) = <<>> THEN {} ELSE {[d EXCEPT !.id = 0, !.left = Tail(d.left)]}
    /\ \/ UNCHANGED <<letters, top, overtaken>>
       \/ /\ letters' = {l \in letters : ~Alike(l, Head(d.left), d.mail)}
                           \cup {[id |-> d.id, to |-> Head(d.left), mail |-> d.mail]}
          /\ top' = IF top >= d.id THEN top ELSE d.id
          /\ overtaken' = IF top > d.id THEN overtaken \cup {d.id} ELSE overtaken
    /\ \E l \in letters' : Alike(l, Head(d.left), d.mail)
    /\ UNCHANGED nextLetter

\* A row committed: the letter, and the recipients that are left.
LEMMA CommitLetterIs ==
  ASSUME ServerTypes, NEW d \in deliveries, CommitLetter(d)
  PROVE  CommitIs(d) /\ d \in Deliveries /\ d.id \in Nat \ {0} /\ d.left # <<>>
<1>1. d \in Deliveries /\ d.id \in Nat \ {0} /\ d.left # <<>>
  BY DEF ServerTypes, CommitLetter, Deliveries
<1> DEFINE old == {letter \in letters : Alike(letter, Head(d.left), d.mail)}
           new == [id |-> d.id, to |-> Head(d.left), mail |-> d.mail]
<1>2. Store(d, old) /\ UNCHANGED nextLetter
  BY DEF CommitLetter
<1>3. deliveries' = (deliveries \ {d}) \cup
          IF Tail(d.left) = <<>> THEN {} ELSE {[d EXCEPT !.id = 0, !.left = Tail(d.left)]}
  BY DEF CommitLetter
<1>4. CASE old # {} /\ d.by = "send"
  <2>1. UNCHANGED <<letters, top, overtaken>>
    BY <1>2, <1>4 DEF Store
  <2>2. \E l \in letters' : Alike(l, Head(d.left), d.mail)
    BY <1>4, <2>1
  <2> QED
    BY <1>1, <1>2, <1>3, <2>1, <2>2, Zenon DEF CommitIs
<1>5. CASE ~(old # {} /\ d.by = "send")
  <2>1. letters' = (letters \ old) \cup {new} /\ top' = Max({top, d.id})
          /\ overtaken' = IF top > d.id THEN overtaken \cup {d.id} ELSE overtaken
    BY <1>2, <1>5 DEF Store
  <2>2. top' = IF top >= d.id THEN top ELSE d.id
    BY <1>1, <2>1, MaxOfTwo DEF ServerTypes
  <2>3. letters' = {l \in letters : ~Alike(l, Head(d.left), d.mail)} \cup {new}
    BY <2>1
  <2>4. \E l \in letters' : Alike(l, Head(d.left), d.mail)
    <3>1. new \in letters' /\ new.to = Head(d.left) /\ new.mail = d.mail
      BY <2>3
    <3> QED
      BY <3>1 DEF Alike
  <2> QED
    BY <1>1, <1>2, <1>3, <2>1, <2>2, <2>3, <2>4, Zenon DEF CommitIs
<1> QED
  BY <1>4, <1>5

\* A request with its next row numbered, or with the rest of it still to do.
LEMMA NumberedIs ==
  ASSUME NEW d \in Deliveries, NEW n \in Nat
  PROVE  /\ [d EXCEPT !.id = n] \in Deliveries /\ [d EXCEPT !.id = n].id = n
         /\ [d EXCEPT !.id = n].left = d.left /\ [d EXCEPT !.id = n].mail = d.mail
BY DEF Deliveries

\* A request with one recipient less.
LEMMA RestIs ==
  ASSUME NEW d \in Deliveries, NEW left \in Seq(STRING)
  PROVE  /\ [d EXCEPT !.id = 0, !.left = left] \in Deliveries
         /\ [d EXCEPT !.id = 0, !.left = left].id = 0
         /\ [d EXCEPT !.id = 0, !.left = left].mail = d.mail
         /\ [d EXCEPT !.id = 0, !.left = left].left = left
BY DEF Deliveries

\* Names of a list without its first.
LEMMA LeftIs ==
  ASSUME NEW left \in Seq(STRING), left # <<>>
  PROVE  /\ Head(left) \in STRING /\ Tail(left) \in Seq(STRING)
         /\ Names(left) = {Head(left)} \cup Names(Tail(left))
<1>1. Head(left) \in STRING /\ Tail(left) \in Seq(STRING)
  OBVIOUS
<1>2. \A i \in DOMAIN left : left[i] \in {Head(left)} \cup Names(Tail(left))
  <2> SUFFICES ASSUME NEW i \in DOMAIN left, i # 1 PROVE left[i] \in Names(Tail(left))
    OBVIOUS
  <2>1. i - 1 \in DOMAIN Tail(left) /\ Tail(left)[i - 1] = left[i]
    OBVIOUS
  <2> QED
    BY <2>1 DEF Names
<1>3. \A i \in DOMAIN Tail(left) : i + 1 \in DOMAIN left /\ Tail(left)[i] = left[i + 1]
  OBVIOUS
<1>4. Head(left) = left[1] /\ 1 \in DOMAIN left
  OBVIOUS
<1> QED
  BY <1>1, <1>2, <1>3, <1>4 DEF Names

\* The server's tables keep their types.
LEMMA ServerTypesStep ==
  ASSUME MailTypes, MailNext PROVE ServerTypes'
<1> USE DEF ServerTypes
<1>1. ASSUME NEW d \in deliveries, Draw(d) PROVE ServerTypes'
  <2>1. d \in Deliveries /\ d.left # <<>> /\ nextLetter' = nextLetter + 1
          /\ deliveries' = (deliveries \ {d}) \cup {[d EXCEPT !.id = nextLetter]}
          /\ UNCHANGED <<letters, top>>
    BY <1>1 DEF Draw, MailTypes
  <2> QED
    <3> DEFINE next == [d EXCEPT !.id = nextLetter]
    <3>1. next \in Deliveries /\ next.id = nextLetter /\ next.left = d.left
      BY <2>1, NumberedIs DEF MailTypes
    <3>2. \A e \in deliveries' : e \in deliveries \/ e = next
      BY <2>1
    <3>3. \A e \in deliveries : e.id \in Nat
      BY DEF MailTypes, Deliveries
    <3> HIDE DEF next
    <3> QED
      BY <2>1, <3>1, <3>2, <3>3 DEF MailTypes
<1>2. ASSUME NEW d \in deliveries, CommitLetter(d) PROVE ServerTypes'
  <2>1. CommitIs(d) /\ d \in Deliveries /\ d.id \in Nat \ {0} /\ d.left # <<>>
          /\ d.id < nextLetter
    BY <1>2, CommitLetterIs DEF MailTypes
  <2>2. top' \in 0 .. nextLetter - 1 /\ top' >= top /\ nextLetter' = nextLetter
    BY <2>1 DEF CommitIs, MailTypes
  <2>3. letters' \subseteq Letters /\ \A l \in letters' : l.id \in 1 .. top'
    <3>1. CASE UNCHANGED <<letters, top>>
      BY <3>1 DEF MailTypes
    <3>2. CASE ~UNCHANGED <<letters, top>>
      <4> DEFINE new == [id |-> d.id, to |-> Head(d.left), mail |-> d.mail]
      <4>1. new \in Letters /\ new.id = d.id
        BY <2>1, LeftIs DEF Letters, Deliveries
      <4>2. \A l \in letters' : l \in letters \/ l = new
        BY <2>1, <3>2 DEF CommitIs
      <4>3. top' >= d.id
        BY <2>1, <3>2 DEF CommitIs, MailTypes
      <4> HIDE DEF new
      <4> QED
        BY <2>1, <2>2, <4>1, <4>2, <4>3 DEF MailTypes
    <3> QED
      BY <3>1, <3>2
  <2>4. deliveries' \subseteq Deliveries
          /\ \A e \in deliveries' : e.id < nextLetter' /\ (e.id # 0 => e.left # <<>>)
    <3>1. Tail(d.left) \in Seq(STRING)
      BY <2>1, LeftIs DEF Deliveries
    <3> DEFINE rest == [d EXCEPT !.id = 0, !.left = Tail(d.left)]
    <3>2. rest \in Deliveries /\ rest.id = 0
      BY <2>1, <3>1, RestIs
    <3>3. \A e \in deliveries' : e \in deliveries \/ e = rest
      BY <2>1 DEF CommitIs
    <3> HIDE DEF rest
    <3> QED
      BY <2>2, <3>2, <3>3 DEF MailTypes
  <2> QED
    BY <2>2, <2>3, <2>4 DEF MailTypes
<1>3. ASSUME UNCHANGED <<letters, nextLetter, top>>,
             \A d \in deliveries' : d \in deliveries \/ (d \in Deliveries /\ d.id = 0)
      PROVE  ServerTypes'
  BY <1>3 DEF MailTypes
<1>4. ASSUME NEW mail \in Mails, NEW by \in {"send", "script"},
             deliveries' = deliveries \cup
                 {[mail |-> mail, left |-> To[mail], id |-> 0, by |-> by]}
      PROVE  \A d \in deliveries' : d \in deliveries \/ (d \in Deliveries /\ d.id = 0)
  <2> DEFINE d == [mail |-> mail, left |-> To[mail], id |-> 0, by |-> by]
  <2>1. To[mail] \in Seq(STRING)
    BY <1>4, MailBoxAssumption DEF Mails
  <2>2. d \in Deliveries /\ d.id = 0
    BY <2>1 DEF Deliveries
  <2> QED
    BY <1>4, <2>2
<1>5. ASSUME NEW mail \in Mails, Begin(mail)
      PROVE  \A d \in deliveries' : d \in deliveries \/ (d \in Deliveries /\ d.id = 0)
  BY <1>4, <1>5 DEF Begin
<1>6. ASSUME NEW mail \in Scripted, deliveries' = deliveries \cup
                       {[mail |-> mail, left |-> <<Me>>, id |-> 0, by |-> "script"]}
      PROVE  \A d \in deliveries' : d \in deliveries \/ (d \in Deliveries /\ d.id = 0)
  BY <1>4, <1>6, MailsAssumption DEF Mails
<1> QED
  <2>1. CASE deliveries' \subseteq deliveries /\ UNCHANGED <<letters, nextLetter, top, overtaken>>
    BY <1>3, <2>1
  <2>2. CASE UNCHANGED <<letters, nextLetter, top, overtaken>>
             /\ \E mail \in Mails : Begin(mail)
    BY <1>3, <1>5, <2>2
  <2>3. CASE UNCHANGED <<letters, nextLetter, top, overtaken>>
             /\ \E mail \in Scripted :
                  deliveries' = deliveries \cup
                       {[mail |-> mail, left |-> <<Me>>, id |-> 0, by |-> "script"]}
    BY <1>3, <1>6, <2>3
  <2> QED
    BY <1>1, <1>2, <2>1, <2>2, <2>3, DeliverySteps

\* Of each question, what a step leaves: nothing it was not before, or a fresh one.
LEMMA QuestionsAre ==
  ASSUME MailTypes, JobStep, NEW c \in Consoles
  PROVE  /\ jobs'[c] \in Jobs \cup {NoJob}
         /\ jobs'[c].type = "send" => jobs'[c].about \in Mine
<1> USE DEF MailTypes, JobTypes
<1>1. NoJob.type # "send"
  BY DEF NoJob
<1>2. CASE UNCHANGED <<jobs, busy>>
  BY <1>2
<1>3. CASE \E d \in Consoles : Turns(d)
  <2>1. PICK d \in Consoles : Turns(d)
    BY <1>3
  <2>2. CASE c # d
    BY <2>1, <2>2 DEF Turns, OthersAsk
  <2>3. CASE c = d
    BY <1>1, <2>1, <2>3 DEF Turns, Asks, Again, Over, Goes, Fresh
  <2> QED
    BY <2>2, <2>3
<1>4. CASE Tells
  BY <1>4, TellIs DEF Tells
<1> QED
  BY <1>2, <1>3, <1>4 DEF JobStep

\* The window is busy or not.
LEMMA BusyStep ==
  ASSUME JobStep, busy \in BOOLEAN PROVE busy' \in BOOLEAN
<1>1. CASE UNCHANGED <<jobs, busy>> \/ Tells
  BY <1>1, Zenon DEF Tells
<1>2. CASE \E c \in Consoles : Turns(c)
  BY <1>2, Zenon DEF Turns, Asks, Again, Over, Goes
<1> QED
  BY <1>1, <1>2, Zenon DEF JobStep

\* The client's state keeps its types.
LEMMA JobTypesStep ==
  ASSUME MailTypes, busy \in BOOLEAN, MailNext PROVE JobTypes' /\ busy' \in BOOLEAN
<1> USE DEF MailTypes, JobTypes
<1>1. JobStep
  BY JobSteps
<1>2. jobs' \in [Consoles -> Jobs \cup {NoJob}]
  <2>1. DOMAIN jobs' = Consoles /\ jobs' = [c \in Consoles |-> jobs'[c]]
    BY DEF MailNext, Serving, Window, Carrying, Hearing, Draw, CommitLetter, Stops, Others,
       ScriptSends, Compose, ReadMail, Show, Refresh, Cancel, Send, ReadStore, Inbox,
       RequestFails, MailSend, HearList, HearMail, HearSent, Close, Tell, Put, Heard, Load,
       WriteStore
  <2> QED
    BY <1>1, <2>1, QuestionsAre
<1>3. store' \in Stores
  <2>1. ASSUME NEW c \in Consoles, WriteStore(c) PROVE store' \in Stores
    <3>1. jobs[c] \in Jobs /\ (store' = store \/ store' = NextCopy(jobs[c]))
      BY <2>1, WriteStoreIs
    <3> QED
      BY <3>1, NextCopyIs
  <2> QED
    BY <2>1, StoreSteps
<1>4. held' \in Stores /\ draft' \in Mine \cup {NoDraft}
  <2>1. ASSUME NEW c \in Consoles, HearList(c) \/ HearMail(c)
        PROVE  held' \in Stores /\ draft' = draft
    <3>1. jobs[c] \in Jobs
      BY <2>1, JobHas DEF HearList, HearMail
    <3> QED
      BY <2>1, <3>1 DEF Jobs, HearList, HearMail
  <2>2. CASE ~\E c \in Consoles : HearList(c) \/ HearMail(c)
    BY <2>2 DEF MailNext, Serving, Window, Carrying, Hearing, Draw, CommitLetter, Stops, Others,
       ScriptSends, Compose, ReadMail, Show, Refresh, Cancel, Send, ReadStore, Inbox,
       RequestFails, MailSend, HearSent, Close, WriteStore, mailWindow
  <2> QED
    BY <2>1, <2>2
<1>5. \A c \in Consoles : jobs'[c].type = "send" => jobs'[c].about \in Mine
  BY <1>1, QuestionsAre
<1>6. busy' \in BOOLEAN
  BY <1>1, BusyStep
<1> QED
  BY <1>2, <1>3, <1>4, <1>5, <1>6

\* One question at a time.
LEMMA AloneStep ==
  ASSUME MailTypes, Alone, JobStep PROVE Alone'
<1> USE DEF MailTypes, JobTypes
<1>1. CASE UNCHANGED <<jobs, busy>>
  BY <1>1 DEF Alone
<1>2. CASE Tells
  <2>1. \A c \in Consoles : jobs'[c] # NoJob => jobs[c] # NoJob
    BY <1>2, TellIs DEF Tells
  <2>2. \A c \in Consoles : jobs[c] = NoJob => jobs'[c] = NoJob
    BY <2>1
  <2> QED
    BY <1>2, <2>1, <2>2 DEF Alone, Tells
<1>3. CASE \E c \in Consoles : Turns(c)
  <2>1. PICK c \in Consoles : Turns(c)
    BY <1>3
  <2>2. \A o \in Consoles \ {c} : jobs[o] = NoJob
    <3>1. CASE jobs[c] # NoJob
      BY <3>1 DEF Alone
    <3>2. CASE Asks(c)
      BY <3>2 DEF Alone, Asks
    <3> QED
      BY <2>1, <3>1, <3>2 DEF Turns, Again, Over, Goes
  <2>3. \A o \in Consoles \ {c} : jobs'[o] = NoJob
    BY <2>1, <2>2 DEF Turns, OthersAsk
  <2>4. jobs'[c] # NoJob => busy' = TRUE
    <3>1. jobs[c] # NoJob => busy = TRUE
      BY DEF Alone
    <3>2. Asks(c) => busy' = TRUE
      BY Zenon DEF Asks
    <3>3. Again(c) => busy' = TRUE
      BY <3>1, Zenon DEF Again
    <3>4. Goes(c) => busy' = TRUE
      BY <3>1, Zenon DEF Goes
    <3>5. Over(c) => jobs'[c] = NoJob
      BY Zenon DEF Over
    <3> QED
      BY <2>1, <3>2, <3>3, <3>4, <3>5, Zenon DEF Turns
  <2> QED
    BY <2>3, <2>4 DEF Alone
<1> QED
  BY <1>1, <1>2, <1>3 DEF JobStep

\* Only the one that writes the file has a copy of it, so that what it writes is what
\* the file is, and what it is to be.
CopyIs(c) ==
    jobs[c].type \in {"fetch", "mark"} /\ jobs[c].stage \in {"request", "write"}
       => jobs[c].copy = store
CopiesAre == \A c \in Consoles : CopyIs(c)

\* The copy a console writes is of the file as it still is.
LEMMA CopiesAreStep ==
  ASSUME MailTypes, Alone, CopiesAre, busy \in BOOLEAN, MailNext
  PROVE  CopiesAre'
<1> USE DEF MailTypes, JobTypes
<1>1. CASE \E c \in Consoles : WriteStore(c)
  <2>1. PICK c \in Consoles : WriteStore(c)
    BY <1>1
  <2>2. jobs'[c].stage = "done" /\ OthersAsk(c) /\ Goes(c)
    BY <2>1, WriteStoreIs
  <2>3. \A o \in Consoles \ {c} : jobs'[o] = NoJob
    BY <2>2 DEF Alone, Goes, OthersAsk
  <2>4. NoJob.type = "none"
    BY DEF NoJob
  <2> QED
    BY <2>2, <2>3, <2>4 DEF CopiesAre, CopyIs
<1>2. CASE ~\E c \in Consoles : WriteStore(c)
  <2>1. store' = store
    BY <1>2, StoreSteps
  <2>2. CASE UNCHANGED <<jobs, busy>>
    BY <2>1, <2>2 DEF CopiesAre, CopyIs
  <2>3. CASE Tells
    BY <2>1, <2>3, TellIs DEF CopiesAre, CopyIs, Tells
  <2>4. CASE \E c \in Consoles : Turns(c)
    <3>1. PICK c \in Consoles : Turns(c)
      BY <2>4
    <3>2. \A o \in Consoles \ {c} : CopyIs(o)'
      BY <2>1, <3>1 DEF Turns, OthersAsk, CopiesAre, CopyIs
    <3>3. CopyIs(c)'
      <4>1. CASE jobs'[c] \in Fresh \/ jobs'[c] = NoJob
        BY <4>1 DEF Fresh, NoJob, CopyIs
      <4>2. CASE ReadStore(c)
        BY <2>1, <4>2, ReadStoreIs DEF CopyIs
      <4>3. CASE Inbox(c)
        BY <2>1, <4>3, InboxIs DEF CopyIs, CopiesAre
      <4>4. CASE RequestFails(c)
        BY <4>4, RequestFailsIs DEF CopyIs
      <4>5. CASE MailSend(c)
        BY <4>5, MailSendIs DEF CopyIs, Goes
      <4> QED
        BY <1>2, <3>1, <4>1, <4>2, <4>3, <4>4, <4>5 DEF Turns, Asks, Again, Over, Carrying
    <3> QED
      BY <3>2, <3>3 DEF CopiesAre
  <2> QED
    BY <2>2, <2>3, <2>4, JobSteps DEF JobStep
<1> QED
  BY <1>1, <1>2

\* What is unread in the file is unread in what the file is made, and all of it is there.
LEMMA ReadStays ==
  ASSUME MailTypes, CopiesAre, MailNext
  PROVE  \A id \in DOMAIN store : id \in DOMAIN store' /\ (store'[id] => store[id])
<1>1. ASSUME NEW c \in Consoles, WriteStore(c)
      PROVE  \A id \in DOMAIN store : id \in DOMAIN store' /\ (store'[id] => store[id])
  <2>1. /\ jobs[c] \in Jobs /\ jobs[c].copy = store
        /\ store' = store \/ store' = NextCopy(jobs[c])
    BY <1>1, WriteStoreIs DEF MailTypes, CopiesAre, CopyIs
  <2>2. /\ DOMAIN store \subseteq DOMAIN NextCopy(jobs[c])
        /\ \A id \in DOMAIN store : NextCopy(jobs[c])[id] => store[id]
    BY <2>1, NextCopyIs
  <2> QED
    BY <2>1, <2>2
<1> QED
  BY <1>1, StoreSteps

\* Ids are of one row each, and the highest is committed.
IdsApart ==
    \A d \in deliveries : d.id # 0 =>
       d.id # top /\ \A e \in deliveries : e.id = d.id => e = d

\* Ids about to be committed are apart.
LEMMA IdsApartStep ==
  ASSUME MailTypes, IdsApart, MailNext PROVE IdsApart'
<1> USE DEF MailTypes, ServerTypes
<1>a. \A d \in deliveries : d \in Deliveries /\ d.id \in Nat
  BY DEF Deliveries
<1>1. ASSUME NEW d \in deliveries, Draw(d) PROVE IdsApart'
  <2> DEFINE next == [d EXCEPT !.id = nextLetter]
  <2>1. next.id = nextLetter
    BY <1>a, NumberedIs
  <2>2. top' = top /\ \A e \in deliveries' : e \in deliveries \/ e = next
    BY <1>1 DEF Draw
  <2> HIDE DEF next
  <2>3. \A e \in deliveries : e.id < nextLetter
    OBVIOUS
  <2>4. top < nextLetter /\ nextLetter # 0 /\ \A e \in deliveries : e.id # nextLetter
    BY <1>a, <2>3
  <2> QED
    BY <2>1, <2>2, <2>4 DEF IdsApart
<1>2. ASSUME NEW d \in deliveries, CommitLetter(d) PROVE IdsApart'
  <2> DEFINE rest == [d EXCEPT !.id = 0, !.left = Tail(d.left)]
  <2>1. CommitIs(d) /\ Tail(d.left) \in Seq(STRING) /\ d.id # 0
    BY <1>2, CommitLetterIs, LeftIs DEF Deliveries
  <2>2. rest.id = 0
    BY <1>a, <2>1, RestIs
  <2>3. \A e \in deliveries' : (e \in deliveries /\ e # d) \/ e = rest
    BY <2>1 DEF CommitIs
  <2>4. top' \in {top, d.id}
    BY <2>1 DEF CommitIs
  <2>5. \A e \in deliveries : e # d /\ e.id # 0 => e.id # top /\ e.id # d.id
    BY DEF IdsApart
  <2> HIDE DEF rest
  <2> QED
    BY <2>2, <2>3, <2>4, <2>5 DEF IdsApart
<1>3. ASSUME top' = top, \A d \in deliveries' : d \in deliveries \/ d.id = 0 PROVE IdsApart'
  BY <1>3 DEF IdsApart
<1> QED
  <2>1. CASE \E mail \in Mails : Begin(mail) /\ UNCHANGED <<letters, nextLetter, top, overtaken>>
    BY <1>3, <2>1 DEF Begin
  <2>2. CASE UNCHANGED <<letters, nextLetter, top, overtaken>>
             /\ \E mail \in Scripted :
                  deliveries' = deliveries \cup
                       {[mail |-> mail, left |-> <<Me>>, id |-> 0, by |-> "script"]}
    BY <1>3, <2>2
  <2>3. CASE deliveries' \subseteq deliveries /\ UNCHANGED <<letters, nextLetter, top, overtaken>>
    BY <1>3, <2>3
  <2> QED
    BY <1>1, <1>2, <2>1, <2>2, <2>3, DeliverySteps

\* A set of ids misses no letter to the player up to where it ends.
Full(ids) ==
    \A l \in letters : l.to = Me /\ l.id <= Highest(ids) /\ l.id \notin overtaken => l.id \in ids
FileIsFull == DOMAIN store \subseteq 1 .. top /\ Full(DOMAIN store)
FetchIsFull(c) ==
    jobs[c].type = "fetch" /\ jobs[c].stage = "write" =>
       jobs[c].new \subseteq 1 .. top /\ Full(DOMAIN store \cup jobs[c].new)
NothingMissed == FileIsFull /\ \A c \in Consoles : FetchIsFull(c)

\* A letter is committed past what was fetched, or after one that was.
StillFull(ids) ==
    \A l \in letters' :
       l.to = Me /\ l.id <= Highest(ids) /\ l.id \notin overtaken' => l.id \in ids

\* A set of ids that has all there is up to its highest goes on having them.
LEMMA FullStays ==
  ASSUME MailTypes, IdsApart, MailNext, NEW ids, ids \subseteq 1 .. top, Full(ids)
  PROVE  ids \subseteq 1 .. top' /\ StillFull(ids)
<1> USE DEF MailTypes, ServerTypes
<1>1. CASE UNCHANGED <<letters, nextLetter, top, overtaken>>
  BY <1>1 DEF Full, StillFull
<1>2. ASSUME NEW d \in deliveries, Draw(d) PROVE UNCHANGED <<letters, top, overtaken>>
  BY <1>2 DEF Draw
<1>3. ASSUME NEW d \in deliveries, CommitLetter(d)
      PROVE  ids \subseteq 1 .. top' /\ StillFull(ids)
  <2>1. CommitIs(d) /\ d.id \in Nat \ {0} /\ d.id # top
    BY <1>3, CommitLetterIs DEF IdsApart
  <2>2. CASE UNCHANGED <<letters, top, overtaken>>
    BY <2>2 DEF Full, StillFull
  <2>3. CASE ~UNCHANGED <<letters, top, overtaken>>
    <3>1. top' \in Nat /\ top <= top' /\ overtaken \subseteq overtaken'
            /\ (d.id > top \/ d.id \in overtaken')
      BY <2>1, <2>3 DEF CommitIs
    <3>2. \A l \in letters' : l \in letters \/ l.id = d.id
      BY <2>1, <2>3 DEF CommitIs
    <3>3. Highest(ids) \in 0 .. top
      <4>1. top \in Nat
        OBVIOUS
      <4> QED
        BY <4>1, HighestIs
    <3>4. ids \subseteq 1 .. top'
      BY <3>1
    <3>5. d.id <= Highest(ids) => d.id \in overtaken'
      BY <2>1, <3>1, <3>3
    <3>6. \A l \in letters' : l.to = Me /\ l.id <= Highest(ids) /\ l.id \notin overtaken'
                                => l.id \in ids
      BY <3>1, <3>2, <3>5 DEF Full, StillFull
    <3> QED
      BY <3>4, <3>6 DEF Full, StillFull
  <2> QED
    BY <2>1, <2>2, <2>3
<1> QED
  BY <1>1, <1>2, <1>3, ServerSteps DEF Full, StillFull

\* A fetch brings all there is past where the copy ends.
LEMMA InboxIsFull ==
  ASSUME MailTypes, FileIsFull, CopiesAre, NEW c \in Consoles, Inbox(c)
  PROVE  jobs'[c].new \subseteq 1 .. top /\ Full(DOMAIN store \cup jobs'[c].new)
<1> USE DEF MailTypes, ServerTypes
<1>1. jobs[c].copy = store
          /\ jobs'[c].new = {l.id : l \in {k \in letters : k.to = Me /\ k.id > HighestId(store)}}
  BY InboxIs DEF CopiesAre, CopyIs
<1>2. HighestId(store) = Highest(DOMAIN store) /\ Highest(DOMAIN store) \in Nat
  <2>1. top \in Nat /\ DOMAIN store \subseteq 1 .. top
    BY DEF FileIsFull
  <2>2. Highest(DOMAIN store) \in 0 .. top
    BY <2>1, HighestIs
  <2> QED
    BY <2>2 DEF HighestId, Highest
<1>3. jobs'[c].new \subseteq 1 .. top
  BY <1>1
<1>4. ASSUME NEW l \in letters, l.to = Me, l.id \notin overtaken
      PROVE  l.id \in DOMAIN store \cup jobs'[c].new
  <2>1. CASE l.id <= Highest(DOMAIN store)
    BY <1>4, <2>1 DEF FileIsFull, Full
  <2>2. CASE l.id > Highest(DOMAIN store)
    BY <1>1, <1>2, <1>4, <2>2
  <2> QED
    BY <1>2, <2>1, <2>2
<1> QED
  BY <1>3, <1>4 DEF Full

\* No mail is passed over by what is fetched.
LEMMA NothingMissedStep ==
  ASSUME MailTypes, Alone, CopiesAre, IdsApart, NothingMissed, busy \in BOOLEAN, MailNext
  PROVE  NothingMissed'
<1>1. ASSUME NEW c \in Consoles, WriteStore(c) PROVE NothingMissed'
  <2>1. /\ jobs[c] \in Jobs /\ jobs[c].copy = store /\ jobs[c].stage = "write"
        /\ store' = store \/ store' = NextCopy(jobs[c])
        /\ jobs'[c].stage = "done" /\ OthersAsk(c) /\ Goes(c)
    BY <1>1, WriteStoreIs DEF MailTypes, CopiesAre, CopyIs
  <2>2. UNCHANGED <<letters, top, overtaken>>
    BY <1>1 DEF WriteStore, mailServer
  <2>3. DOMAIN store' \in {DOMAIN store, DOMAIN store \cup (IF jobs[c].type = "fetch"
                                                            THEN jobs[c].new ELSE {})}
    BY <2>1, NextCopyIs
  <2>4. FileIsFull'
    <3>1. CASE jobs[c].type = "fetch"
      BY <2>1, <2>2, <2>3, <3>1 DEF NothingMissed, FileIsFull, FetchIsFull, Full
    <3>2. CASE jobs[c].type # "fetch"
      <4>1. DOMAIN store' = DOMAIN store
        BY <2>3, <3>2
      <4> QED
        BY <2>2, <4>1 DEF NothingMissed, FileIsFull, Full
    <3> QED
      BY <3>1, <3>2
  <2>5. \A o \in Consoles : jobs'[o].stage # "write"
    <3>1. NoJob.stage = "none"
      BY DEF NoJob
    <3>2. \A o \in Consoles \ {c} : jobs'[o] = NoJob
      BY <2>1 DEF Alone, Goes, OthersAsk
    <3> QED
      BY <2>1, <3>1, <3>2
  <2> QED
    BY <2>4, <2>5 DEF NothingMissed, FetchIsFull
<1>2. CASE ~\E c \in Consoles : WriteStore(c)
  <2>1. store' = store
    BY <1>2, StoreSteps
  <2>2. FileIsFull'
    <3> DEFINE ids == DOMAIN store
    <3>1. ids \subseteq 1 .. top' /\ StillFull(ids)
      BY FullStays DEF NothingMissed, FileIsFull
    <3> QED
      BY <2>1, <3>1 DEF FileIsFull, Full, StillFull
  <2>3. ASSUME NEW c \in Consoles, FetchIsFull(c), jobs'[c] = jobs[c] PROVE FetchIsFull(c)'
    <3> DEFINE ids == DOMAIN store \cup jobs[c].new
    <3> SUFFICES ASSUME jobs[c].type = "fetch", jobs[c].stage = "write" PROVE FetchIsFull(c)'
      BY <2>3 DEF FetchIsFull
    <3>1. ids \subseteq 1 .. top /\ Full(ids)
      BY <2>3 DEF FetchIsFull, NothingMissed, FileIsFull
    <3>2. ids \subseteq 1 .. top' /\ StillFull(ids)
      <4> HIDE DEF ids
      <4> QED
        BY <3>1, FullStays
    <3> QED
      BY <2>1, <2>3, <3>2 DEF FetchIsFull, Full, StillFull
  <2>4. CASE UNCHANGED <<jobs, busy>>
    BY <2>2, <2>3, <2>4 DEF NothingMissed
  <2>5. CASE Tells
    <3>1. ASSUME NEW c \in Consoles, jobs'[c] # jobs[c] PROVE FetchIsFull(c)'
      BY <2>5, <3>1, TellIs DEF Tells, FetchIsFull, MailTypes
    <3> QED
      BY <2>2, <2>3, <3>1 DEF NothingMissed
  <2>6. CASE \E c \in Consoles : Turns(c)
    <3>1. PICK c \in Consoles : Turns(c)
      BY <2>6
    <3>2. \A o \in Consoles \ {c} : FetchIsFull(o)'
      BY <2>3, <3>1 DEF Turns, OthersAsk, NothingMissed
    <3>3. FetchIsFull(c)'
      <4>1. CASE jobs'[c] \in Fresh \/ jobs'[c] = NoJob
        BY <4>1 DEF Fresh, NoJob, FetchIsFull
      <4>2. CASE ReadStore(c)
        BY <4>2, ReadStoreIs DEF MailTypes, FetchIsFull, Goes
      <4>3. CASE Inbox(c)
        <5>1. jobs'[c].new \subseteq 1 .. top /\ Full(DOMAIN store \cup jobs'[c].new)
          BY <4>3, InboxIsFull DEF NothingMissed
        <5>2. UNCHANGED <<letters, top, overtaken>>
          BY <4>3 DEF Inbox, mailServer
        <5> QED
          BY <2>1, <5>1, <5>2 DEF FetchIsFull, Full
      <4>4. CASE RequestFails(c)
        BY <4>4, RequestFailsIs DEF MailTypes, FetchIsFull
      <4>5. CASE MailSend(c)
        BY <4>5, MailSendIs DEF MailTypes, FetchIsFull, Goes
      <4> QED
        BY <1>2, <3>1, <4>1, <4>2, <4>3, <4>4, <4>5 DEF Turns, Asks, Again, Over, Carrying
    <3> QED
      BY <2>2, <3>2, <3>3 DEF NothingMissed
  <2> QED
    BY <2>4, <2>5, <2>6, JobSteps DEF JobStep
<1> QED
  BY <1>1, <1>2

\* A recipient has a mail, and goes on having it: another like it takes its place.
Reached(name, mail) == \E l \in letters : Alike(l, name, mail)
StillReached(name, mail) == \E l \in letters' : Alike(l, name, mail)

\* Who has a mail goes on having it.
LEMMA ReachedStays ==
  ASSUME MailTypes, MailNext, NEW name, NEW mail, Reached(name, mail)
  PROVE  StillReached(name, mail)
<1>1. CASE letters' = letters
  BY <1>1 DEF Reached, StillReached
<1>2. ASSUME NEW d \in deliveries, CommitLetter(d), letters' # letters
      PROVE  StillReached(name, mail)
  <2>1. /\ letters' = {l \in letters : ~Alike(l, Head(d.left), d.mail)}
                         \cup {[id |-> d.id, to |-> Head(d.left), mail |-> d.mail]}
        /\ \E l \in letters' : Alike(l, Head(d.left), d.mail)
    BY <1>2, CommitLetterIs DEF CommitIs, MailTypes
  <2>2. PICK l \in letters : Alike(l, name, mail)
    BY DEF Reached
  <2>3. CASE Alike(l, Head(d.left), d.mail)
    <3>1. name = Head(d.left) /\ mail = d.mail
      BY <2>2, <2>3 DEF Alike
    <3> QED
      BY <2>1, <3>1 DEF StillReached
  <2>4. CASE ~Alike(l, Head(d.left), d.mail)
    BY <2>1, <2>2, <2>4 DEF StillReached
  <2> QED
    BY <2>3, <2>4
<1>3. ASSUME NEW d \in deliveries, Draw(d) PROVE letters' = letters
  BY <1>3 DEF Draw
<1> QED
  BY <1>1, <1>2, <1>3, ServerSteps

\* A request to send goes to names that have an account, and those of the player's that
\* are not left have the mail.
OnItsWay(d) ==
    /\ Names(To[d.mail]) \subseteq Known
    /\ d.mail \in Mine => \A name \in Names(To[d.mail]) \ Names(d.left) : Reached(name, d.mail)
OnTheirWay == \A d \in deliveries : OnItsWay(d)
SentWhenDone ==
    \A c \in Consoles : jobs[c].type = "send" /\ jobs[c].stage = "done" =>
       \A name \in Names(To[jobs[c].about]) : Reached(name, jobs[c].about)
SentOnce ==
    /\ \A k, l \in letters : k.to = l.to /\ k.mail = l.mail => k = l
    /\ \A l \in letters : Names(To[l.mail]) \subseteq Known

\* One letter of each mail for each recipient, however often it is sent.
LEMMA SentOnceStep ==
  ASSUME MailTypes, OnTheirWay, SentOnce, MailNext PROVE SentOnce'
<1>1. CASE letters' = letters
  BY <1>1 DEF SentOnce
<1>2. ASSUME NEW d \in deliveries, CommitLetter(d), letters' # letters PROVE SentOnce'
  <2> DEFINE new == [id |-> d.id, to |-> Head(d.left), mail |-> d.mail]
  <2>1. letters' = {l \in letters : ~Alike(l, Head(d.left), d.mail)} \cup {new}
    BY <1>2, CommitLetterIs DEF CommitIs, MailTypes
  <2>2. new.to = Head(d.left) /\ new.mail = d.mail
    OBVIOUS
  <2>3. Names(To[d.mail]) \subseteq Known
    BY DEF OnTheirWay, OnItsWay
  <2> HIDE DEF new
  <2> QED
    BY <2>1, <2>2, <2>3 DEF SentOnce, Alike
<1>3. ASSUME NEW d \in deliveries, Draw(d) PROVE letters' = letters
  BY <1>3 DEF Draw
<1> QED
  BY <1>1, <1>2, <1>3, ServerSteps

\* A row committed leaves one recipient less.
LEMMA CommitReaches ==
  ASSUME MailTypes, OnTheirWay, MailNext, NEW d \in deliveries, CommitLetter(d), d.mail \in Mine,
         NEW name \in Names(To[d.mail]) \ Names(Tail(d.left))
  PROVE  StillReached(name, d.mail)
<1>1. /\ d.left \in Seq(STRING) /\ d.left # <<>>
      /\ \E l \in letters' : Alike(l, Head(d.left), d.mail)
  BY CommitLetterIs DEF MailTypes, CommitIs, Deliveries
<1>2. Names(d.left) = {Head(d.left)} \cup Names(Tail(d.left))
  BY <1>1, LeftIs
<1>3. CASE name = Head(d.left)
  BY <1>1, <1>3 DEF StillReached
<1>4. CASE name # Head(d.left)
  <2>1. Reached(name, d.mail)
    BY <1>2, <1>4 DEF OnTheirWay, OnItsWay
  <2> QED
    BY <2>1, ReachedStays
<1> QED
  BY <1>3, <1>4

\* The requests there are after a step: those there were, one of them with its next row
\* numbered or one recipient less, and one that begins.
LEMMA OnTheirWayStep ==
  ASSUME MailTypes, OnTheirWay, MailNext PROVE OnTheirWay'
<1> DEFINE Out(mail, left) ==
       /\ Names(To[mail]) \subseteq Known
       /\ mail \in Mine => \A name \in Names(To[mail]) \ Names(left) : StillReached(name, mail)
<1>1. \A d \in deliveries : Out(d.mail, d.left)
  BY ReachedStays DEF OnTheirWay, OnItsWay
<1>2. SUFFICES ASSUME NEW e \in deliveries' PROVE Out(e.mail, e.left)
  <2> SUFFICES ASSUME NEW e \in deliveries' PROVE OnItsWay(e)'
    BY DEF OnTheirWay
  <2> QED
    BY <1>2 DEF OnItsWay, Reached, StillReached
<1>3. ASSUME NEW d \in deliveries, Draw(d) PROVE Out(e.mail, e.left)
  <2> DEFINE next == [d EXCEPT !.id = nextLetter]
  <2>1. e \in deliveries \/ e = next
    BY <1>3 DEF Draw
  <2>2. next.mail = d.mail /\ next.left = d.left
    BY NumberedIs DEF MailTypes, ServerTypes
  <2> HIDE DEF next, Out
  <2> QED
    BY <1>1, <2>1, <2>2
<1>4. ASSUME NEW d \in deliveries, CommitLetter(d) PROVE Out(e.mail, e.left)
  <2> DEFINE rest == [d EXCEPT !.id = 0, !.left = Tail(d.left)]
  <2>1. /\ CommitIs(d) /\ d \in Deliveries /\ Tail(d.left) \in Seq(STRING)
    BY <1>4, CommitLetterIs, LeftIs DEF MailTypes, Deliveries
  <2>2. e \in deliveries \/ e = rest
    BY <2>1 DEF CommitIs
  <2>3. rest.mail = d.mail /\ rest.left = Tail(d.left)
    BY <2>1, RestIs
  <2>4. Out(d.mail, Tail(d.left))
    BY <1>4, CommitReaches DEF OnTheirWay, OnItsWay
  <2> HIDE DEF rest, Out
  <2> QED
    BY <1>1, <2>2, <2>3, <2>4
<1>5. ASSUME NEW mail \in Mails, Begin(mail), Names(To[mail]) \subseteq Known
      PROVE  Out(e.mail, e.left)
  <2>1. e \in deliveries \/ (e.mail = mail /\ e.left = To[mail])
    BY <1>5 DEF Begin
  <2>2. Out(mail, To[mail])
    BY <1>5
  <2> HIDE DEF Out
  <2> QED
    BY <1>1, <2>1, <2>2
<1>6. ASSUME NEW mail \in Scripted,
             deliveries' = deliveries \cup
                 {[mail |-> mail, left |-> <<Me>>, id |-> 0, by |-> "script"]}
      PROVE  Out(e.mail, e.left)
  <2>1. e \in deliveries \/ (e.mail = mail /\ e.left = <<Me>>)
    BY <1>6
  <2>2. To[mail] = <<Me>> /\ mail \notin Mine /\ Names(<<Me>>) = {Me} /\ Me \in Known
    BY MailsAssumption, MailBoxAssumption DEF Names
  <2>3. Out(mail, <<Me>>)
    BY <2>2
  <2> HIDE DEF Out
  <2> QED
    BY <1>1, <2>1, <2>3
<1> QED
  <2> HIDE DEF Out
  <2> QED
    BY <1>1, <1>3, <1>4, <1>5, <1>6, DeliverySteps

\* A question that was answered "sent" was of a mail all recipients have.
LEMMA SentWhenDoneStep ==
  ASSUME MailTypes, OnTheirWay, SentWhenDone, busy \in BOOLEAN, MailNext PROVE SentWhenDone'
<1> DEFINE Sent(job) == job.type = "send" /\ job.stage = "done" =>
                           \A name \in Names(To[job.about]) : StillReached(name, job.about)
<1>1. \A c \in Consoles : Sent(jobs[c])
  BY ReachedStays DEF SentWhenDone
<1>2. SUFFICES ASSUME NEW c \in Consoles PROVE Sent(jobs'[c])
  BY DEF SentWhenDone, Reached, StillReached
<1>3. CASE UNCHANGED <<jobs, busy>>
  BY <1>1, <1>3
<1>4. CASE Tells
  <2>1. PICK mail \in Mails, stage \in {"done", "failed"} :
          /\ Tell(mail, stage)
          /\ stage = "done" =>
                \E d \in deliveries : CommitLetter(d) /\ d.mail = mail /\ Tail(d.left) = <<>>
    BY <1>4 DEF Tells
  <2>2. CASE jobs'[c] = jobs[c] \/ stage = "failed"
    BY <1>1, <2>1, <2>2, TellIs DEF MailTypes
  <2>3. CASE jobs'[c] # jobs[c] /\ stage = "done"
    <3>1. jobs[c].type = "send" /\ jobs[c].about = mail /\ jobs'[c].about = mail
      BY <2>1, <2>3, TellIs DEF MailTypes
    <3>2. mail \in Mine
      BY <3>1 DEF MailTypes, JobTypes
    <3>3. PICK d \in deliveries : CommitLetter(d) /\ d.mail = mail /\ Tail(d.left) = <<>>
      BY <2>1, <2>3
    <3>4. Names(Tail(d.left)) = {}
      BY <3>3 DEF Names
    <3> QED
      BY <3>1, <3>2, <3>3, <3>4, CommitReaches
  <2> QED
    BY <2>1, <2>2, <2>3
<1>5. CASE \E d \in Consoles : Turns(d)
  <2>1. PICK d \in Consoles : Turns(d)
    BY <1>5
  <2>2. CASE c # d
    BY <1>1, <2>1, <2>2 DEF Turns, OthersAsk
  <2>3. CASE c = d
    <3>1. CASE jobs'[c] \in Fresh \/ jobs'[c] = NoJob
      BY <3>1 DEF Fresh, NoJob
    <3>2. CASE Carrying(c)
      BY <3>2, ReadStoreIs, InboxIs, RequestFailsIs, WriteStoreIs, MailSendIs
         DEF Carrying, Goes, MailTypes
    <3> QED
      BY <2>1, <2>3, <3>1, <3>2 DEF Turns, Asks, Again, Over
  <2> QED
    BY <2>2, <2>3
<1> QED
  BY <1>3, <1>4, <1>5, JobSteps DEF JobStep

\* A draft goes when the window hears that it was sent.
LEMMA DraftGoes ==
  ASSUME MailTypes, Alone, SentOnce, SentWhenDone, MailNext,
         busy, draft # NoDraft, draft' = NoDraft
  PROVE  \E c \in Consoles : jobs[c].type = "send" /\
            \A name \in Names(To[jobs[c].about]) : Has(name, jobs[c].about)
<1>1. PICK c \in Consoles : jobs[c].type = "send" /\ jobs[c].stage = "done"
  <2>1. ASSUME NEW mail \in Mine, Compose(mail) PROVE FALSE
    BY <2>1, MailsAssumption DEF Compose
  <2>2. ASSUME Cancel PROVE FALSE
    BY <2>2 DEF Cancel
  <2>3. draft' = draft \/ (\E mail \in Mine : Compose(mail)) \/ Cancel
          \/ \E c \in Consoles : jobs[c].type = "send" /\ jobs[c].stage = "done"
    BY DEF MailNext, Serving, Window, Carrying, Hearing, Draw, CommitLetter, Stops, Others,
       ScriptSends, ReadMail, Show, Refresh, Send, ReadStore, Inbox, WriteStore,
       RequestFails, MailSend, HearList, HearMail, HearSent, Close, mailWindow
  <2> QED
    BY <2>1, <2>2, <2>3
<1>2. ASSUME NEW name \in Names(To[jobs[c].about]) PROVE Has(name, jobs[c].about)
  <2> DEFINE mail == jobs[c].about
             like == {letter \in letters : Alike(letter, name, mail)}
  <2>1. PICK l \in letters : Alike(l, name, mail)
    BY <1>1, <1>2 DEF SentWhenDone, Reached
  <2>2. like = {l}
    BY <2>1 DEF SentOnce, Alike
  <2> HIDE DEF mail, like
  <2>3. Cardinality(like) = 1
    BY <2>2, FS_Singleton
  <2> QED
    BY <2>3 DEF Has, like, mail
<1> QED
  BY <1>1, <1>2

MailInv ==
    /\ MailTypes /\ busy \in BOOLEAN /\ Alone /\ CopiesAre /\ IdsApart /\ NothingMissed
    /\ SentOnce /\ OnTheirWay /\ SentWhenDone

\* The invariant holds at first.
LEMMA MailInvInit == MailInit => MailInv
<1> SUFFICES ASSUME MailInit PROVE MailInv
  OBVIOUS
<1>1. NoJob.type = "none" /\ NoJob.stage = "none"
  BY DEF NoJob
<1>2. NoMail \in Stores /\ DOMAIN NoMail = {}
  BY StoreTypes
<1>3. MailTypes /\ busy \in BOOLEAN
  <2> USE DEF MailInit
  <2>1. ServerTypes
    BY DEF ServerTypes
  <2>2. jobs \in [Consoles -> Jobs \cup {NoJob}]
          /\ \A c \in Consoles : jobs[c].type = "send" => jobs[c].about \in Mine
    BY <1>1
  <2>3. store \in Stores /\ held \in Stores /\ draft \in Mine \cup {NoDraft} /\ busy \in BOOLEAN
    BY <1>2
  <2> QED
    BY <2>1, <2>2, <2>3 DEF MailTypes, JobTypes
<1>4. Alone /\ CopiesAre /\ IdsApart
  BY <1>1 DEF MailInit, Alone, CopiesAre, CopyIs, IdsApart
<1>5. NothingMissed
  BY <1>1, <1>2 DEF MailInit, NothingMissed, FileIsFull, FetchIsFull, Full
<1>6. SentOnce /\ OnTheirWay /\ SentWhenDone
  BY <1>1 DEF MailInit, SentOnce, OnTheirWay, SentWhenDone
<1> QED
  BY <1>3, <1>4, <1>5, <1>6 DEF MailInv

\* And is kept.
LEMMA MailInvStep ==
  ASSUME MailInv, [MailNext]_mailVars PROVE MailInv'
<1>1. CASE MailNext
  <2>1. MailTypes' /\ busy' \in BOOLEAN
    BY <1>1, ServerTypesStep, JobTypesStep DEF MailInv, MailTypes
  <2>2. Alone' /\ CopiesAre' /\ IdsApart'
    BY <1>1, JobSteps, AloneStep, CopiesAreStep, IdsApartStep DEF MailInv
  <2>3. NothingMissed' /\ SentOnce' /\ OnTheirWay' /\ SentWhenDone'
    BY <1>1, NothingMissedStep, SentOnceStep, OnTheirWayStep, SentWhenDoneStep DEF MailInv
  <2> QED
    BY <2>1, <2>2, <2>3 DEF MailInv
<1>2. CASE UNCHANGED mailVars
  <2> USE <1>2 DEF mailVars, mailServer, mailWindow, MailInv
  <2>1. MailTypes' /\ busy' \in BOOLEAN
    BY DEF MailTypes, ServerTypes, JobTypes
  <2>2. Alone' /\ CopiesAre' /\ IdsApart'
    BY DEF Alone, CopiesAre, CopyIs, IdsApart
  <2>3. NothingMissed'
    BY DEF NothingMissed, FileIsFull, FetchIsFull, Full
  <2>4. SentOnce' /\ OnTheirWay' /\ SentWhenDone'
    BY DEF SentOnce, OnTheirWay, OnItsWay, SentWhenDone, Reached
  <2> QED
    BY <2>1, <2>2, <2>3, <2>4
<1> QED
  BY <1>1, <1>2

\* The invariant holds whatever the window, the consoles, the server and others do.
THEOREM MailHolds == MailSpec => []MailInv
<1> QED
  BY MailInvInit, MailInvStep, PTL DEF MailSpec

-----------------------------------------------------------------------------
(* The site. *)

\* An account is there once, with its home, and letters go to accounts' addresses.
THEOREM AccountsStayWhole == Spec => []AccountsAreWhole
<1>1. AccountInv => AccountsAreWhole
  BY DEF AccountInv
<1> QED
  BY <1>1, PartsRun, AccountsHold, PTL

\* A code sets the password of the account it was mailed to, and is gone.
THEOREM CodesStaySpent == Spec => []CodesAreSpent
<1>1. AccountInv => CodesAreSpent
  BY DEF AccountInv
<1> QED
  BY <1>1, PartsRun, AccountsHold, PTL

\* A guest's write, however late, goes to the file whose permit was read.
THEOREM LateWritesAreSafe == Spec => LateWritesFindTheirFile
<1>1. ASSUME FileInv, [FilesNext]_fileVars
      PROVE  [\A c \in Callers : GuestWrites(c) =>
                 /\ Ids(files') \subseteq Ids(files)
                 /\ \A row \in files \ files' : row.id = file[c].id]_fileVars
  <2>1. ASSUME NEW c \in Callers, ServesChange(c), NEW o \in Callers, GuestWrites(o)
        PROVE  Ids(files') \subseteq Ids(files) /\ \A row \in files \ files' : row.id = file[o].id
    BY <1>1, <2>1, LateWriteFinds
  <2> QED
    BY <1>1, <2>1 DEF FilesNext, ServesChange
<1> QED
  BY <1>1, FilesHold, PartsRun, PTL DEF FilesSpec, LateWritesFindTheirFile

\* Where guests may only safeappend, their words are in lines they signed.
THEOREM GuestsSign == Spec => []LinesAreSigned
<1>1. FileInv /\ SignedFiles => LinesAreSigned
  BY DEF SignedFiles, SignedText, Guarded, Signed, SignedAt, LinesAreSigned
<1> QED
  BY <1>1, FilesHold, PartsRun, PTL

\* Nothing that is committed in order is passed over by the ids that mail.dat holds.
THEOREM NoneIsMissed == Spec => []NoMailIsMissed
<1>1. MailInv => NoMailIsMissed
  BY DEF MailInv, NothingMissed, FileIsFull, Full, NoMailIsMissed, HighestId, Highest
<1> QED
  BY <1>1, MailHolds, PartsRun, PTL

\* mail.dat forgets no mail and makes none unread.
THEOREM WhatIsReadStaysRead == Spec => ReadStaysRead
<1>1. ASSUME MailInv, [MailNext]_mailVars
      PROVE  [\A id \in DOMAIN store : id \in DOMAIN store' /\ (store'[id] => store[id])]_mailVars
  BY <1>1, ReadStays DEF MailInv
<1> QED
  BY <1>1, MailHolds, PartsRun, PTL DEF MailSpec, ReadStaysRead

\* A draft goes when the window hears that it was sent, and then all its recipients
\* have it, once.
THEOREM DraftsAreDelivered == Spec => DraftsGoWhenDelivered
<1>1. ASSUME MailInv, [MailNext]_mailVars
      PROVE  [/\ busy /\ draft # NoDraft /\ draft' = NoDraft =>
                   \E c \in Consoles : jobs[c].type = "send" /\
                      \A name \in Names(To[jobs[c].about]) : Has(name, jobs[c].about)
              /\ \A letter \in letters' : Names(To[letter.mail]) \subseteq Known]_mailVars
  <2>1. \A letter \in letters' : Names(To[letter.mail]) \subseteq Known
    BY <1>1, MailInvStep DEF MailInv, SentOnce
  <2> QED
    BY <1>1, <2>1, DraftGoes DEF MailInv
<1> QED
  BY <1>1, MailHolds, PartsRun, PTL DEF MailSpec, DraftsGoWhenDelivered
=============================================================================
