------------------------------- MODULE MailBox -------------------------------
(***************************************************************************)
(* In-game mail: the window (mail.ts), its questions carried out by a console *)
(* (lib.rs) over the copy kept in /system/mail.dat (game/mail.rs), and the    *)
(* server's table (dsmail.rs), which others and scripts write to as well.     *)
(*                                                                          *)
(* A question whose console closes is carried out again, as module Asking has *)
(* it.  Of the filesystem it takes that a read or a write is done at once; of *)
(* the database (external) that a row's id is drawn when its INSERT starts    *)
(* and the row is seen once it is committed.  What a mail says, and how the   *)
(* store is written down, are left out.                                      *)
(***************************************************************************)
EXTENDS Integers, FiniteSetsExt, Sequences, Functions

CONSTANTS
    Consoles,           \* terminals
    Me,                 \* the player
    Known,              \* names with an account
    Mine, Theirs, Scripted,     \* mails: the player's, others', a script's to the player
    To,                 \* of each mail its recipients
    MaxEvents           \* bound: what the player, others, scripts and the network do, in all

ASSUME MailBoxAssumption ==
    /\ To \in [Mine \cup Theirs \cup Scripted -> Seq(STRING)] /\ Me \in Known
    /\ MaxEvents \in Nat

VARIABLES
    letters, nextLetter,    \* the table dsmail, as committed, and its AUTO_INCREMENT
    deliveries,             \* requests to send being served
    store,                  \* mail.dat: of each id held, whether it is unread
    held, draft, busy,      \* the window: messages, what is being written, a request is out
    jobs,                   \* per console: the request it carries out
    events,
    top, overtaken          \* observation: highest id committed; those committed after a higher

mailServer == <<letters, nextLetter, deliveries, top, overtaken>>
mailWindow == <<held, draft, busy>>
mailVars == <<mailServer, store, mailWindow, jobs, events>>

NoDraft == "no draft"
NoJob == [type |-> "none", stage |-> "none"]
NoMail == [id \in {} |-> TRUE]
Job(type, about) == [type |-> type, about |-> about, stage |-> "start", copy |-> NoMail, new |-> {}]

Event == events < MaxEvents /\ events' = events + 1

MailInit ==
    /\ letters = {} /\ nextLetter = 1 /\ deliveries = {} /\ top = 0 /\ overtaken = {}
    /\ store = NoMail /\ held = NoMail /\ draft = NoDraft /\ busy = FALSE
    /\ jobs = [c \in Consoles |-> NoJob]
    /\ events = 0

-----------------------------------------------------------------------------
(* The server.                                                             *)

Names(left) == {left[i] : i \in DOMAIN left}

\* The mails are told apart; what others send is what they get sent, a script's is
\* to the player.
ASSUME MailsAssumption ==
    /\ Mine \cap (Theirs \cup Scripted) = {} /\ NoDraft \notin Mine
    /\ \A mail \in Theirs : Names(To[mail]) \subseteq Known
    /\ \A mail \in Scripted : To[mail] = <<Me>>

Alike(letter, to, mail) == letter.to = to /\ letter.mail = mail

\* action=send: every name is looked up before anything is sent.
Begin(mail) ==
    deliveries' = deliveries \cup {[mail |-> mail, left |-> To[mail], id |-> 0, by |-> "send"]}

\* INSERT, one recipient after the other, each by itself.
Draw(d) ==
    /\ d \in deliveries /\ d.id = 0 /\ d.left # <<>>
    /\ nextLetter' = nextLetter + 1
    /\ deliveries' = (deliveries \ {d}) \cup {[d EXCEPT !.id = nextLetter]}
    /\ UNCHANGED <<letters, top, overtaken, store, mailWindow, jobs, events>>

\* A console waiting for the whole request hears of it.
Tell(mail, stage) ==
    jobs' = [c \in Consoles |->
       IF jobs[c].type = "send" /\ jobs[c].stage = "request" /\ jobs[c].about = mail
       THEN [jobs[c] EXCEPT !.stage = stage] ELSE jobs[c]]

\* INSERT IGNORE of one that is there already does nothing; REPLACE puts the
\* new one in its place.  The last one is followed by the answer.
Store(d, old) ==
    IF old # {} /\ d.by = "send" THEN UNCHANGED <<letters, top, overtaken>>
    ELSE /\ letters' = (letters \ old) \cup {[id |-> d.id, to |-> Head(d.left), mail |-> d.mail]}
         /\ top' = Max({top, d.id})
         /\ overtaken' = IF top > d.id THEN overtaken \cup {d.id} ELSE overtaken

CommitStopping(d) ==                                    \* mutant: over at one there already
    /\ d \in deliveries /\ d.id # 0
    /\ LET old == {letter \in letters : Alike(letter, Head(d.left), d.mail)}
           left == IF old # {} THEN <<>> ELSE Tail(d.left)
       IN  /\ Store(d, old)
           /\ deliveries' = (deliveries \ {d}) \cup
                 IF left = <<>> THEN {} ELSE {[d EXCEPT !.id = 0, !.left = left]}
           /\ IF left = <<>> THEN Tell(d.mail, "done") ELSE UNCHANGED jobs
    /\ UNCHANGED <<nextLetter, store, mailWindow, events>>

CommitLetter(d) ==
    /\ d \in deliveries /\ d.id # 0
    /\ LET old == {letter \in letters : Alike(letter, Head(d.left), d.mail)}
           left == Tail(d.left)
       IN  /\ Store(d, old)
           /\ deliveries' = (deliveries \ {d}) \cup
                 IF left = <<>> THEN {} ELSE {[d EXCEPT !.id = 0, !.left = left]}
           /\ IF left = <<>> THEN Tell(d.mail, "done") ELSE UNCHANGED jobs
    /\ UNCHANGED <<nextLetter, store, mailWindow, events>>

\* Somebody else sends a mail, or a script the player is connected to
\* (script_send_to_self).
Others(mail) ==
    /\ Event /\ mail \in Theirs /\ ~\E letter \in letters : letter.mail = mail
    /\ ~\E d \in deliveries : d.mail = mail
    /\ Begin(mail)
    /\ UNCHANGED <<letters, nextLetter, top, overtaken, store, mailWindow, jobs>>

ScriptSends(mail) ==
    /\ mail \in Scripted /\ Event
    /\ deliveries' = deliveries \cup {[mail |-> mail, left |-> <<Me>>, id |-> 0, by |-> "script"]}
    /\ UNCHANGED <<letters, nextLetter, top, overtaken, store, mailWindow, jobs>>

\* The server gives a request up between two statements.
Stops(d) ==
    /\ Event /\ d \in deliveries /\ d.by = "send" /\ d.id = 0
    /\ deliveries' = deliveries \ {d} /\ Tell(d.mail, "failed")
    /\ UNCHANGED <<letters, nextLetter, top, overtaken, store, mailWindow>>

-----------------------------------------------------------------------------
(* The window.                                                             *)

\* ask(): some console takes the question.
Put(job) == \E c \in Consoles : jobs[c] = NoJob /\ jobs' = [jobs EXCEPT ![c] = job]

LoadMore(job) ==                                        \* mutant: `busy` not looked at
    /\ Put(job) /\ busy' = TRUE

\* load(): nothing while a request is out.
Load(job) == ~busy /\ Put(job) /\ busy' = TRUE

\* show(): the inbox held, and then a fetch.
Show ==
    /\ Event
    /\ Load(Job("list", 0))
    /\ UNCHANGED <<mailServer, store, held, draft>>

Refresh ==
    /\ Event /\ draft = NoDraft
    /\ Load(Job("fetch", 0))
    /\ UNCHANGED <<mailServer, store, held, draft>>

\* read(): one that is unread, as the window has it, is marked.
ReadMail(id) ==
    /\ Event /\ id \in DOMAIN held /\ held[id] /\ draft = NoDraft
    /\ Load(Job("mark", id))
    /\ UNCHANGED <<mailServer, store, held, draft>>

\* compose(), reply() and what is typed, which is possible while it is sent, too.
Compose(mail) ==
    /\ Event /\ mail \in Mine /\ draft # mail /\ draft' = mail
    /\ draft = NoDraft => ~busy
    /\ UNCHANGED <<mailServer, store, held, busy, jobs>>

Cancel ==
    /\ draft # NoDraft /\ ~busy /\ draft' = NoDraft
    /\ UNCHANGED <<mailServer, store, held, busy, jobs, events>>

Send ==
    /\ draft # NoDraft /\ ~busy /\ busy' = TRUE
    /\ Event
    /\ Put(Job("send", draft))
    /\ UNCHANGED <<mailServer, store, held, draft>>

\* The promise settles.  A list shown goes on to a fetch, and so does a mail
\* sent, whose draft goes; a refusal is complained of.
Heard(c, next) ==
    IF next = NoJob THEN busy' = FALSE /\ jobs' = [jobs EXCEPT ![c] = NoJob]
    ELSE busy' = TRUE /\ jobs' = [jobs EXCEPT ![c] = next]

HearList(c) ==
    /\ jobs[c].type = "list" /\ jobs[c].stage = "done"
    /\ held' = jobs[c].copy
    /\ Heard(c, Job("fetch", 0))
    /\ UNCHANGED <<mailServer, store, draft, events>>

HearMail(c) ==
    /\ jobs[c].type \in {"fetch", "mark"} /\ jobs[c].stage \in {"done", "failed"}
    /\ held' = IF jobs[c].stage = "done" THEN jobs[c].copy ELSE held
    /\ Heard(c, NoJob)
    /\ UNCHANGED <<mailServer, store, draft, events>>

HearSent(c) ==
    /\ jobs[c].type = "send" /\ jobs[c].stage \in {"done", "failed"}
    /\ IF jobs[c].stage = "done" THEN draft' = NoDraft /\ Heard(c, Job("fetch", 0))
       ELSE Heard(c, NoJob) /\ UNCHANGED draft
    /\ UNCHANGED <<mailServer, store, held, events>>

-----------------------------------------------------------------------------
(* The console.                                                            *)

\* mail_store: the file as it is.
ReadStore(c) ==
    /\ jobs[c].type \in {"list", "fetch", "mark"} /\ jobs[c].stage = "start"
    /\ jobs' = [jobs EXCEPT ![c].copy = store,
                            ![c].stage = CASE jobs[c].type = "list" -> "done"
                                           [] jobs[c].type = "fetch" -> "request"
                                           [] jobs[c].type = "mark" -> "write"]
    /\ UNCHANGED <<mailServer, store, mailWindow, events>>

HighestIdOff(mail) == IF DOMAIN mail = {} THEN 0 ELSE Max(DOMAIN mail) + 1 \* mutant: one past it
HighestId(mail) == IF DOMAIN mail = {} THEN 0 ELSE Max(DOMAIN mail)

\* action=inbox: everything of the player's past the highest id of the copy.
Inbox(c) ==
    /\ jobs[c].type = "fetch" /\ jobs[c].stage = "request"
    /\ jobs' = [jobs EXCEPT ![c].stage = "write",
         ![c].new = {l.id : l \in {k \in letters : k.to = Me /\ k.id > HighestId(jobs[c].copy)}}]
    /\ UNCHANGED <<mailServer, store, mailWindow, events>>

\* A request that does not come through.
RequestFails(c) ==
    /\ Event /\ jobs[c].stage = "request"
    /\ jobs' = [jobs EXCEPT ![c].stage = "failed"]
    /\ UNCHANGED <<mailServer, store, mailWindow>>

\* merge: those not held, unread.
Merge(copy, new) == [id \in DOMAIN copy \cup new |-> IF id \in DOMAIN copy THEN copy[id] ELSE TRUE]

\* The copy, as it is to be, goes into the file, if anything has changed.
WriteStore(c) ==
    /\ jobs[c].type \in {"fetch", "mark"} /\ jobs[c].stage = "write"
    /\ LET copy == jobs[c].copy
           next == IF jobs[c].type = "fetch" THEN Merge(copy, jobs[c].new)
                   ELSE [id \in DOMAIN copy |-> copy[id] /\ id # jobs[c].about]
       IN  /\ store' = IF next = copy THEN store ELSE next
           /\ jobs' = [jobs EXCEPT ![c].copy = next, ![c].stage = "done", ![c].new = {}]
    /\ UNCHANGED <<mailServer, mailWindow, events>>

\* mail_send: refused as a whole if a name is unknown.
MailSend(c) ==
    /\ jobs[c].type = "send" /\ jobs[c].stage = "start"
    /\ IF Names(To[jobs[c].about]) \subseteq Known
       THEN Begin(jobs[c].about) /\ jobs' = [jobs EXCEPT ![c].stage = "request"]
       ELSE jobs' = [jobs EXCEPT ![c].stage = "failed"] /\ UNCHANGED deliveries
    /\ UNCHANGED <<letters, nextLetter, top, overtaken, store, mailWindow, events>>

\* It closes: another carries the question out from its beginning.
Close(c) ==
    /\ jobs[c] # NoJob /\ Event
    /\ jobs' = [jobs EXCEPT ![c] = Job(jobs[c].type, jobs[c].about)]
    /\ UNCHANGED <<mailServer, store, mailWindow>>

Serving(d) == Draw(d) \/ CommitLetter(d) \/ Stops(d)
Window == Show \/ Refresh \/ Cancel \/ Send
Carrying(c) == ReadStore(c) \/ Inbox(c) \/ RequestFails(c) \/ WriteStore(c) \/ MailSend(c)
Hearing(c) == HearList(c) \/ HearMail(c) \/ HearSent(c)

MailNext ==
    \/ \E d \in deliveries : Serving(d)
    \/ \E mail \in Theirs : Others(mail)
    \/ \E mail \in Scripted : ScriptSends(mail)
    \/ \E mail \in Mine : Compose(mail)
    \/ \E id \in DOMAIN held : ReadMail(id)
    \/ Window
    \/ \E c \in Consoles : Carrying(c) \/ Hearing(c) \/ Close(c)

MailSpec == MailInit /\ [][MailNext]_mailVars

-----------------------------------------------------------------------------
(* Properties.                                                             *)

\* A mail to the player that is not past the highest held is held, unless it was
\* committed after one with a higher id: however fetches fail, and wherever the
\* console that makes one closes, the next one begins where the file ends.
NoMailIsMissed ==
    \A letter \in letters :
       letter.to = Me /\ letter.id <= HighestId(store) /\ letter.id \notin overtaken
          => letter.id \in DOMAIN store

\* What is in the file stays in it, and what was read stays read, though each
\* change writes the whole file from a copy that was read before a request.
ReadStaysRead ==
    [][\A id \in DOMAIN store : id \in DOMAIN store' /\ (store'[id] => store[id])]_mailVars

\* A mail leaves the composer when everybody it is for has it, once, however
\* often it was sent before or carried out again; a refused one reaches nobody.
Has(name, mail) == Cardinality({letter \in letters : Alike(letter, name, mail)}) = 1
DraftsGoWhenDelivered ==
    [][/\ busy /\ draft # NoDraft /\ draft' = NoDraft =>
            \E c \in Consoles : jobs[c].type = "send" /\
               \A name \in Names(To[jobs[c].about]) : Has(name, jobs[c].about)
       /\ \A letter \in letters' : Names(To[letter.mail]) \subseteq Known]_mailVars
=============================================================================
