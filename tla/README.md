# Dark Signs Online: what is specified, checked and proved

Dark Signs Online is a hacking game whose terminals run VBScript-like scripts in
the browser (a Rust interpreter compiled to WebAssembly, in one web worker per
terminal), over a filesystem kept by another worker, with a server in Rust that
keeps accounts, money, domains, chat and mail in a MySQL database.

Two things are hard to test in it. One is what happens between the parts: a page and
its workers that share memory and post messages; a filesystem whose tree answers at
once and whose contents follow later; requests served at once over one database. The
other is the language: an interpreter that a stop, a spent budget or an error under
On Error Resume Next may leave at any statement, and a lexer, a parser and values whose
parts must agree with one another on every input. The modules here are about both. They
are TLA+, checked with TLC on small instances; what matters most of the terminal, its
calls and questions, the filesystem and the file panel, the chat, and of money, accounts, files and mail on the
server is proved with TLAPS for every value of the constants.

## 1. Inventory

Paths are relative to `src/`; `web` stands for `src/client/web`.

### The client

**Terminal** (`web/www/main.ts` GameConsole, `worker.ts`, `control.ts`,
`web/src/host.rs`, `Interp::tick` of `client/src/interp.rs`). State: on the page, whether a
run is busy, awaiting a line, or stopping, and the batches it has been given; in the
worker, output held back, the latch of a stop, the count of statements to the
next poll; shared, three words (STATE, ABORT, DRAWING) and an answer buffer. The
page starts runs, delivers lines, stops, draws batches and releases the worker on
a frame, or by a ticker when hidden; the worker polls for a stop, holds or
posts what a script says, parks in a ReadLine. Hard: real threads over shared
words, a stop stored in two places, messages on their way when things change.
Correct when a stop ends its run and only its run, a line reaches the read it was
typed for, the pacing never shows, and output held is bounded.

**Channel to the filesystem worker** (`worker.ts` fsCall/fsRaw, `fsworker.ts`).
State: per terminal a state word, a length, a buffer, and the tail of an answer
too long for it. A terminal posts and parks; the worker serves one message at a time,
though a read that waits for the disk lets others in. Correct when it is a procedure
call: one answer for each call, that call's, whole.

**Game filesystem** (`web/www/opfs.ts`, with `client/src/game/fs.rs` as the semantics
it names). State: the tree of names and sizes, contents held in memory, a queue
of changes, the files on disk (OPFS). Hard: reads and appends that meet a queue,
a reload with changes queued, a drop written beside the queue. Correct when a
script sees `MemoryFs`, and a reload finds what the files once were.

**File panel** (`web/www/filetree.ts` FileModel). State: a copy of the tree, and the
changes kept while the tree is asked for. Correct when it comes to the tree, through
states the tree has had.

**The windows' questions** (`main.ts` ask, dispatchAsked, requeue, settleAsked). Mail,
chat and library windows have no interpreter; they borrow a free terminal. State: questions in
line, questions handed out, who is free. Hard: terminals close at any moment.

**Chat** (`web/www/chat.ts`, `lib.rs`, `server/src/api/chat.rs`). State: the last id
fetched, ids shown, a fetch out or a timer set; the server's table. Hard: the same line
comes as an echo, as a script's line, and in a fetch; ids are drawn before rows are seen.

**Mail store of the client** (`game/mail.rs`, `lib.rs`, `mail.ts`): one file read, changed
and written by every terminal, around a request to the server; a window with a draft. Correct when
no mail is lost or passed over, what was read stays read, and a draft goes when it has arrived.

**Interpreter** (`client/src/interp.rs`, `members.rs`, `objects/`). State: the globals, a stack of frames
whose parameters may be names of the caller's variables, procedures and classes, objects, the subjects of With, Err, what a
script has said; a budget of steps and the latch of a stop. Hard: every way out of a call (its
end, Exit, an error that is handled far above, a stop) meets every construct on the way. Correct when a
run leaves nothing behind, a stopped run has done a beginning of the whole, and what should mean the same does.

**Lexer and parser** (`lexer.rs`, `parser.rs`, `ast.rs`): a text to tokens, tokens to a tree. Correct
when a line is read by itself, and a tree that is written down is read back.

**Values and built-ins** (`value.rs`, `ops.rs`, `locale.rs`, `builtins/`): variants, their operators and
conversions, strings, dates. Correct when integers' results are exact or an error and others the nearest their type has, and what is turned into text comes back.

**Command line, encryption** (`game/cli.rs`, `path.rs`, `crypto.rs`): text to text. Not modelled.

**Game host** (`game/mod.rs`, `server.rs`, `library.rs`): the calls scripts make; ReadLine and
what says something are in the terminal's model and the interpreter's; server connections by handle and library imports are not modelled.

**Bindings, windows, task bar, editors, the game's scripts**: pass values on,
draw, or are data. Not modelled.

### The server (`server/src`)

**Money and domains** (`api/transfer.rs`, `domain_register.rs`,
`domain_unregister.rs`, `auth.rs`, `transaction()` and `make_new_domain()` of `api/mod.rs`, `ctx.rs`).
State: users' cash, the ledger of transactions, domains. Every request is a task of
its own with its own connection. Hard: a balance read at the start of a
request, names looked up before they are inserted, transactions that wait for one
another, connections lost. Correct when the books balance, names are unique, what is
charged is what is sold, and requests are answered.

**Accounts** (`site/mod.rs`). State: users and their first domains, codes sent by mail. A request looks, then
inserts or updates, and may be given up between. Correct when a name and an address have one whole account, and a
code serves once.

**Files of a domain** (`api/domain_filesystem.rs`). State: a domain's files, whose first line may permit guests to read or
write. A change is a read, a check and a write of the whole file. Correct when a late write finds
the file it read, and what a guest adds is signed.

**Mail** (`api/dsmail.rs`): a row for each receiver, inserted in turn. Correct when sending again repairs and doubles nothing.

**Smaller scripts**: one statement each. **HTTP layer**: routing and
conversions. **Database** (`database.sql`): keys, references and locks as the modules need them.

### How they interact

    scripts -> terminal worker <-> page          control words, messages    Terminal
               terminal worker <-> fs worker     shared buffers, ports      FsChannel
                                   fs worker     the tree, the queue, disk  GameFs
                                   fs worker  -> page   change reports      FilePanel
    windows -> page -> a free terminal worker -> page                       AskQueue
    calls and questions of one terminal                                     Threads
    chat panel -> question -> terminal -> server                            ChatRoom
    mail window -> question -> terminal -> mail.dat, server                 MailBox
    requests -> server -> database                          Bank, Accounts, DomainFiles
    text -> tokens -> tree -> interpreter -> host           Lexer, Parser, Interp

## 2. The modules

| Module | Models | Extends / instantiates |
|---|---|---|
| `Terminal` | one terminal: page, worker, control block | |
| `FsRpc` | what a blocking filesystem call promises | |
| `FsChannel` | how it travels | implements `FsRpc` |
| `MemoryFs` | the filesystem a script is promised | |
| `GameFs` | tree, queue and disk | implements `MemoryFs` |
| `FilePanel` | the page's copy of the tree, composed with the filesystem | extends `GameFs` |
| `Asking` | what `ask()` promises a window | |
| `AskQueue` | questions, terminals and the messages between | implements `Asking` |
| `Threads` | a terminal's calls and questions together | extends `FsChannel`, `AskQueue` |
| `ChatRoom` | the panel and the server's table | takes a question as `Asking` has it |
| `Bank` | money and domains | |
| `Accounts`, `DomainFiles`, `MailBox` | the server's other requests that cross, and the mail window with the consoles that serve it | |
| `Site` | the three together | extends them |
| `Lexer` | text to tokens | |
| `Values` | variants, operators, conversions, number formats | extends `Lexer` (digits are read alike) |
| `Parser` | tokens to a tree | |
| `Strings`, `Calendar` | the built-ins on strings and on dates | |
| `Builtins` | which name does what with which arguments | extends `Values`, uses `Strings`, `Calendar` |
| `Interp` | statements, expressions, calls, objects | extends `Builtins`, uses `Parser` |
| `ScriptRuns` | a script run to its end, on a budget, or stopped | extends `Interp` |
| `Language` | inputs for each part, and what holds of it | extends `ScriptRuns`; uses `Calendar`, and `Values` in other locales |
| `Ordering` | the numbers of a set in order, what is picked out of a sequence | used by `AskQueue`, `GameFs` and `ChatRoom` |
| `Induction` | induction over numbers and finite sets, stated of sets; folds; what `Ordering` returns | TLAPS |
| `TerminalProofs`, `ThreadsProofs`, `GameFsProofs`, `FilePanelProofs`, `ChatRoomProofs`, `BankProofs`, `SiteProofs` | theorems about the module of that name (section 6) | extend it, and `Induction`; `FilePanelProofs` also `GameFsProofs` |
| `MCGameFs`, `MCFilePanel`, `MCBank`, `MCSite`, `MCScript` | values of constants a .cfg cannot say | |

The `map` of `PROJECT.json` names the lines every definition stands for.
Operators marked `\* mutant` are no part of a specification: each is a
plausible mistake in the code, put in the place of a definition to see the property
that should notice it violated.

### Terminal

An action of the worker is one access to the control block or one posted
message, with the local work around it, since the page runs in parallel; `pc` is
where the worker is and `ret` who called `stopRequested` or `flush`. An action of the page
is a whole event handler, a browser running one at a time, except that `stop()` stores ABORT
and then STATE while the worker reads them apart: `closing` is between the two, and
no other handler runs then. Rows carry the run they belong to, so that the
properties can say where they may be; `ideal` is an observation, the rows as they
would be without pacing. A statement that calls nothing, a host call that neither
says nor asks and the script's end are choices the worker makes, so a script may
loop for ever. `GetKey` and `Pause` park exactly as `ReadLine` does. Editors' runs start
as commands do. `Atomics.wait` with a timeout (waiting for the display) is a step
that always may return.

### FsChannel and FsRpc

A console's call is store, post, wait, load the length, slice, load for more; the
worker's answer is fill, store the length, store the state. Bytes say which call
of which console they answer, so a mixture would show. A read that waits for
the disk puts its console in `reading` and other messages are taken meanwhile.
The refinement maps a call to Ask, Serve, Return of `FsRpc`: the moment the worker
chooses an answer is Serve. `Start` is the moment `fs` is there: from then on questions are answered, `load` still
reading the disk (`fsworker.ts:160`), and as an answer is any answer here, the end of `load` is no step.

### GameFs, MemoryFs and FilePanel

`nodes` and `dirs` are the tree, `held` the contents in memory (`shipped`, and `loose`
where there is no OPFS), `chain` the queue, `disk` OPFS. A change is one action to its end, as the
code makes it in one turn: tree, queue, report. A queued change reaches the disk in
one step or, where the browser first makes an empty file, or copies and then removes for
want of `move`, in two. A drop (`putFile`) goes step by step beside the queue. `Crash` is a reload:
queue and reads are gone, `load` rebuilds the tree from disk. `browser` is one of
`Browsers` and says whether there is OPFS and `move`.

The refinement gives `MemoryFs` the tree with every queued change applied
(`View`). A read that waits answers one of the values the file had since it was asked,
which is what `MemoryFs` here allows a read; a change is atomic in both.

Paths are sequences of names, and which there are is a constant. The code does not look at a path as a whole: it lets a script
write below a name that is a file, and copy or move a file to its own name, and in both cases, as in a copy onto one of the client's own
files, the tree and the disk part (section 5). What must not be among the names for the properties to hold is said by
definitions beside them, which the theorems have as hypotheses: `NamesApart` (no name is below a file's, no
file is copied or moved to itself), `ShippedApart` (none onto one of the client's own) and, for the panel, `DropsApart` (scripts make no
directory above a file that is dropped, or where one of the client's is), with `TouchedApart` (nor where copies and moves carry what is dropped) for what a second reload finds. The instances of the passing runs satisfy them (the MC modules assume `NamesApart`, and of the panel `DropsApart` and `TouchedApart`, so that TLC
evaluates them); `fs_onto_shipped` shows what happens without `ShippedApart`, and section 5 what happens without `NamesApart` and `DropsApart`.
`TouchedApart` is asked by the proof: TLC found nothing wrong without it in four changes and two drops over three files.

Files may be dropped onto the very files that scripts use. `Touched` is where such a drop may reach: the files dropped onto, and those that copies
and moves carry them to, step after step. `ReloadIsAPast` is about the others, and says with it that a drop reaches no further.

`FilePanel` adds the page, and with it what the page or a reload does to the filesystem (`Dropping`, `ListTree`, `Crash` of `GameFs`): it asks for the tree, keeps the changes that arrive
meanwhile (`pending`, `null` of the code being `NotLoading`) and replays them over the answer.

### Bank

One SQL statement is one action. The database is external and assumed as
InnoDB documents it: a plain SELECT in a transaction reads the snapshot of its first; a row
updated is locked until the end, as is, shared, a row that an inserted row
refers to; keys are unique and an insert waits for an uncommitted row it would clash with; of
a circle of waiting transactions one is rolled back. `moves`, `rows` and
`bought` are a transaction's changes, applied by its COMMIT. A lost connection rolls back,
before the COMMIT or with it done and the answer lost. Negative cash is
possible and is modelled: the balance is read without a lock.

What is asked is any finite set of requests (`AsksAssumption`): transfers go to any account, the bank's or one's own too, or to
nobody, for any amount; a name bought is paid to the bank, and stands below the last two parts of itself, so never below itself or an address.
An entry of the ledger says whether it is a sale, as the code's callers say by what they pass on: a transfer to the bank is none.

### AskQueue and Asking

Messages between the page and each terminal's worker are queues, in order, and gone when
it closes. `Dispatch` is `dispatchAsked` as the last call of the handlers that make it. No terminal is called
"nowhere", as no console of the channel is called "nobody": the names stand for the code's null.
`Asking` says a question is carried out, and again only when a terminal closed on its answer.

### Threads

No message is taken during a call, and a call begins and ends inside a run or a question: the two kinds of traffic
meet in no step. `traffic` picks which is followed; the run checks both from one specification.

### Accounts, DomainFiles, MailBox, Site

One SQL statement is one action, as in `Bank`, and the database is assumed as there; unique keys take
a row that has been deleted or is uncommitted into account. A request given up (`Lose`, `Drop`, `Stops`) leaves what was
committed. `newRow` is an account and its domain between INSERT and COMMIT; `post` the letters sent; `resets`
records each password set by a code. A file of a domain is a row with an identity of its own, as its table has it, and its text
a sequence of words and line ends: what matters is which line a word is on, and what the first is. In `MailBox` a
console reads `mail.dat`, makes a request, and writes the whole file back; each is an action, and a console that
closes has its question carried out by another, as `Asking` says. `overtaken` records a row committed after one with a higher id.
The three write no table in common: `part` picks one. What is assumed of the constants is what the names mean: mails of the player are not those of
others, who write to players there are, and a script's to the player (`MailsAssumption`); the words of different guests differ, and none is a
player's name, the colon or the header, so that a word tells who said it (`WordsAssumption`).

### Lexer, Parser

A text is a sequence of characters; letters are lower case, so that folding is nothing. `Tokenize` and `Parse` follow the code function
by function, errors with their codes and lines. The widths of number types are constants, and which texts within # are dates is a parameter.
Loops of the code are recursive operators; a parser's result is the place after it and the tree, or an error.

### Values, Strings, Calendar, Builtins

A value is a type and a payload. Integers have the widths the constants give and overflow as the code's do. A Single or a Double is a
fraction that is rounded, after every operation and conversion, to a mantissa of `SingleBits` or `DoubleBits` (`Rounded`, half to even, as
IEEE 754 has it: external); the exponents of a Double have no bounds. Currency goes through a Double on its way, as in `make_num` and `to_f64`
(`CyToF64`, `Scaled`), and saturates where the code's cast does. The mantissas, the digits printed and the largest Single are constants. Strings in `Strings` are sequences of UTF-16 units, with the bytes of LeftB
and its kin; dates are whole seconds.

### Interp and ScriptRuns

The interpreter is one record, and every operator returns it with how it ended and a value: `Result`, `?` and
`Flow` of the code. Variables are names of slots in `mem`, so an argument by reference is the caller's slot; an element of an array is copied in
and written back, as in the code. `objs` holds objects; one that the program can reach no more runs its Class_Terminate (`Live`
against the code's count of references: temporaries of an unfinished expression do not keep an object, nor do cycles, and the scripts make neither). `Tick` is called by every statement,
counts the budget and asks the host every AbortPollSteps. A run of `ScriptRuns` is a
whole script by a new interpreter; `stopAt` says which question for a stop is answered yes, and `Budgets` how many statements a run has.
The interpreter is sequential, and nobody sees it between two statements but the host, so that a run is an operator's value, not a behaviour.

### Language

One input of each kind is a state: a text, an expression, two operands, a number, strings, a date with a shift, a run. They are
stated of the step that puts the input away, so that each input is looked at once. The properties are about pairs of
functions that must agree, or about one and a definition that is not the code's (the whole numbers, the set of all values an
unknown may have, the operators' precedence as numbers).

### ChatRoom

A question takes its course as `Asking` has it; the server counts, inserts and
commits in three steps, so an id drawn earlier may be seen later. `timer` and `fetching` are the
panel's chain of polls.

## 3. The runs

Each passing run also checks a type invariant where it is listed, and fires
every action of its module. State counts are for the bounds in the .cfg.

| Run | Question | Bounds, and why they are enough |
|---|---|---|
| `terminal_input` | Do output, input and Ctrl+B keep to the run they belong to? `StoppedIsSilent`, `PromptAfterOutput`, `LineReachesItsAsk`, `OnlyTheStoppedRunAborts` | two runs (a carry-over needs two), three things said with two held (so that the worker parks for the display), one read a run, a poll every second statement; 2.5M states |
| `terminal_live` | Does a script go on, and does Ctrl+B end it? `HeldOutputBounded`, `StallEnds`, `StopEndsRun` | one run in its life, two reads (the second is the one that can be answered stale), one event held; 62k states |
| `terminal_stop_lost` | Does *every* Ctrl+B end its run? It does not: finding 1 | one run, one read |
| `threads` | Is the channel a procedure call, and does each return; is each question answered, and settled once? `AllInPlace`, `RpcSpec`, `CallsReturn`, `AskingSpec`, `QuestionsAreAnswered` | two consoles, two calls each, a buffer of 2 and answers of 1 and 5: one piece and three, the last not full; three questions, two terminals, two commands: one terminal closes while the other is busy; 80k states |
| `game_fs` | Does a script see `MemoryFs`, whichever the browser? `TreeMatchesDisk`, `MemSpec`, `ReloadIsAPast` | three changes over a file at the root, which is the client's, and one in a directory; one reader; three browsers; 132k states |
| `fs_onto_shipped` | The same with copies and renames *onto* the client's file: it does not, finding 2 | |
| `file_panel` | Does the panel show the tree? `PanelFollowsTree`, and `ReloadIsAPast` around a reload and a drop | two changes; a drop onto a file of the scripts', which one of their copies or moves leads to, or into a directory of its own; a reload, two questions for the tree; two browsers; 1.6M states |
| `bank` | Do the books balance, is each name sold once, is each request answered? `LedgerAgrees`, `OverdraftBounded`, `TablesAreSound`, `RequestsAreAnswered` | two requests served at once out of three: crossing transfers (the only circle of locks there is), transfers to oneself, to nobody and of nothing, registrations of one name by two players, of an address, and below a domain that is given up before the row is inserted (were it then bought by the other it would have another id, and the key would refuse the row all the same), a first log-in; one lost connection |
| `bank_unpaid` | Is each domain paid for? It is not: finding 3 | two registrations |
| `chat_room` | Is each line shown, once? `LinesAreKept`, `RateBounded`, `LinesAreShown` | one line typed, one by a script, one by somebody else; fetches of one line, a backlog of two, so that both limits cut; two inserts at once; a terminal closed; 717k states |
| `site` | Are accounts whole, codes spent, additions signed, late writes harmless, mails kept? `AccountsAreWhole`, `CodesAreSpent`, `LinesAreSigned`, `LateWritesFindTheirFile`, `NoMailIsMissed`, `ReadStaysRead`, `DraftsGoWhenDelivered` | five requests about accounts, two at once, two names and two addresses each asked for twice, one request given up; four about a file by its owner and two guests, each permit, one dropped; five events of mail with two consoles: two mails of the player's to two receivers each, one from another, one from a script; 421k states |
| `script` | Do the parts of the language agree? `TextsAreReadByLines`, `WhatIsWrittenIsRead`, `OperatorsAreExact`, `TextsComeBack`, `DatesAddUp`, `UnitsLeaveNoTrace`, `StopIsAPrefix`, `EquivalentsAgree` | texts of three pieces out of eighteen, with a continuation or a line end between; operators nested twice; a Byte of 3 bits, Integer of 4, Long of 8, Currency of 15 with one digit, mantissas of 5 and of 12 bits: every edge is a few values away, a Currency has units that a Double has no room for, and the rules depend on the widths alone; numbers of three digits from 10^-5 to 10^5; strings of three units; dates across the leap years around 1900 and before day 0, shifts past a year; nineteen scripts, run whole, on eight budgets and stopped at each of twenty questions; 57k states |

`CHECK_DEADLOCK FALSE` stands where the system may stop: all requests, questions, calls or changes
the bounds allow are used up. In `Terminal` a page can always be hidden or shown.

### What the properties say beyond their comments

`PromptAfterOutput` compares the screen with `ideal`: coalescing of replacing
lines, holding and batches must leave exactly what immediate drawing would, at the
moments the player is asked for something. `OnlyTheStoppedRunAborts` is about ABORT, a single
flag never reset by the worker. `ReloadIsAPast` is prefix-consistency of the queue:
`past` collects the disk every prefix of it leads to, and only the file under way may differ, and what drops reach (`Touched`): a script's file whose
change overtook another, or that a drop got at without touching it, would show.
`PanelFollowsTree` says more than that the panel gets there: no mixed picture on the way.
`TablesAreSound` counts the bank's entries (whatever their verdict) against the domains sold, over all time, so that a
rolled-back registration may leave neither. `LinesAreKept` names the one case in which
the panel misses a line (section 5) and says that there is no other; `NoMailIsMissed` does the same for mail.
`CodesAreSpent` is about the table after a reset, wherever the request stops; two requests that both have looked a code up may both use it.
`StopIsAPrefix` compares a run that is stopped, or out of budget, with the same run left alone: what it has said by then is a beginning of that, and nothing is said after it. The
exception is the code's: where the stop falls into a function of the script that a test calls under On Error Resume Next, or the budget's error is resumed from,
each call that was under way, and no other, may end as if done and let the statement that made it say one thing more. Two scripts (`tested`, `picked`) are made of such tests;
`halt` and `calls` of the interpreter's record are the history this is said with.
`EquivalentsAgree` compares pairs of scripts: an argument by reference and a copy in and out, For and While, Select and
If, With and the name, Execute and the text itself. `OperatorsAreExact` takes Null as a value not known and asks that the logic give what all values there would; of two numbers it asks for the exact result
of integers, or an error, and of the others for the number of the result's type nearest to the exact one, within the unit or two (`Slack`) that rounding on the way through a Double may cost a Single or a Currency.

## 4. Fairness

- `Terminal`: the worker's thread runs; the page takes its messages, finishes `stop()`,
  and handles its ticker; a frame comes while it is arranged and the page is visible
  (weak fairness of `Frame`, disabled while hidden). Nothing is assumed of the player, nor that
  a script ends.
- `FsChannel` (`ChannelFair`): each thread goes on while it can. `Take` and `ReadDone` are strongly fair for each console, as they
  are disabled whenever the worker is storing an answer to another: ports are served in turn,
  and the disk answers. `Start` is not fair: until the filesystem is up calls are refused, and return.
- `Bank`: weak fairness of each task: the database answers, grants locks once free, and
  breaks circles. No fairness for new requests.
- `AskQueue` (`QueueFair`): each worker and the page take their messages. Scripts need not end nor lines be
  typed, hence the premise of `QuestionsAreAnswered`: again and again some terminal is free.
- `ChatRoom`: timers fire and answers are heard. `CarryFetch` is strongly fair: the server is
  reached now and then although fetches fail, and a terminal closes at most `MaxClosed` times.
  `LinesAreShown` has the premise that somebody looks from some moment on.
- `GameFs`, `FilePanel`, `Site` and `Language` claim safety only.

## 5. Where the code and what is said of it differ

Three have a run that shows it (`findings` in `PROJECT.json` quote both sides):

1. **A stop can be lost** (`web/www/main.ts:629`). A stop that lands between the last poll
   and the store of WAITING by a ReadLine is stored over. The worker parks, the page drops its request for a
   line because it is stopping, and nothing but closing the terminal reaches it.
   `StopEndsRun` says that this is the only way.
2. **A copy or rename onto one of the client's own files** (`web/www/opfs.ts:434`)
   leaves `shipped` naming the old bytes: they are what a read answers and what an append
   writes back. `game_fs` shows the rest to be `MemoryFs`.
3. **A domain without payment** (`server/src/api/domain_register.rs:28`). The balance compared
   with the price is read when the request starts and the bank's verdict is dropped; two registrations at
   once pass on one sum of money. `OverdraftBounded` says how far an
   account can be taken by concurrent transfers, `TablesAreSound` that every sale is at least recorded.

Others met while modelling, which no run is spent on:

- A line delivered after `wantInput` is posted and before WAITING is stored
  (`worker.ts:179`, `main.ts:1256`) is lost: STATE goes from READY to WAITING. It is never taken for another
  (`LineReachesItsAsk`).
- Up to three batches may be out at once (`report` flushes whatever DRAWING says, `worker.ts:155`), where
  `control.ts:24` has one at a time, "nothing is ever queued behind it". They stay in order, and `PromptAfterOutput` holds.
- A failed drop onto a file leaves a name pointing at what the disk no longer or not yet
  holds (`opfs.ts:546` against the comment at 538).
- Nothing looks whether a name above a path written to is a file (`opfs.ts:313` against 7, "the same shape"): the tree makes that name a directory as well
  and takes the file below it; on disk the directory cannot be made, the queue swallows the error, and the contents are nowhere.
- `putFile` makes the directories above its file, waits for the disk, and puts the file into the tree without looking again
  (`opfs.ts:543`). A script that removes the directory meanwhile finds it empty; the tree is left with a file that no directory lists, while the panel, which makes
  what is above a file it is told of, shows the directory (`filetree.ts:25`, "mirrors what the filesystem holds").
- `putFile` writes beside the queue (`opfs.ts:553`): a file dropped onto a name that a script has just moved or copied is what the queue then finds under that name, so that
  the script's file gets the dropped bytes, and in the size of the old.
  With a drop's directory among `Folders`, or `/f` and `/f/h` both among `Files`, TLC finds the first two of these three in seconds; for the third `ReloadIsAPast` leaves out what `Touched` has.
- A client's file that was deleted, with a directory made in its place, comes back at the next load beside the
  directory, one name being both (`opfs.ts:213` and 224). `MemSpec` is stated between reloads.
- A transfer to nobody is answered with a failed statement, the row naming no account being refused by the
  foreign key, and is not recorded (`api/mod.rs:292` against the comment at 267, "whether or not it went through").
- Of two terminals closed one after the other, the second's questions go ahead of the first's
  (`main.ts:1174`), although they were asked later.
- A chat line whose id was drawn first and whose row was committed after the next is passed over by
  a panel that fetched in between (`chat.ts:306`, `server/src/api/chat.rs:76`). The same holds of mail (`dsmail.rs:25`).
- Two requests that both looked a reset code up before either deleted it both set the password (`site/mod.rs:315`).
- An account is committed before its mail is sent: when that fails, name and address are taken and nobody can verify them (`site/mod.rs:230`).
- Of two additions to a domain's file at once one is lost, each writing the whole file back, and a guest's late write may
  replace what the owner has just written to the same row (`domain_filesystem.rs:134`).
- A mail opened while the window waits for another stays unread, and changes typed while a draft is being sent go with it (`mail.ts:102`, 152).
- A stop that lands in a function called by a test inside a procedure under On Error Resume Next skips the test; where nothing follows it the procedure returns as if done, and the rest of
  the statement that called it is carried out (`interp.rs:735`, against 503: carried out of a procedure call "rather than letting either resume"). The budget, unlike the stop, is no latch:
  its error can be resumed past. `StopIsAPrefix` says how far either goes.
- `lexer.rs:4` has ":" and a line end collapse into one kind of token; the code keeps them apart. `parse_select` speaks of a branch "skipped" that
  is an error. `parse_number` drops what follows the digits of &H.
- A negative date with a time of day is read with its time counted forward in some functions and back in others (`builtins/datetime.rs`): `DatesAddUp` asks for
  times from day 0 on.
- `cli.rs` `rewrite` measures text it passes on by characters where a line end counts two, and takes a blank before a comment for granted:
  `x = 5'note` comes out as `x = ' note` (`cli.rs:7` says that a script passes untouched).
- A file renamed to its own name leaves the tree and stays on disk (`opfs.ts:460`).

## 6. What is proved

Every theorem is about the specification a run checks, for every value of the constants that
the modules' named assumptions allow; those say that bounds are naturals, that sets that are counted are finite, and what the names of
players, terminals, paths and texts stand for (section 2). `Threads` is run with its fairness, so its theorems start from `FairSpec`; no proof uses it.
The theorems about the filesystem have hypotheses of their own, `NamesApart`, `ShippedApart`, `DropsApart` and `TouchedApart`: the properties are false without the first three
(sections 2 and 5), and the proof asks for the last.

| Theorem | Of | Says |
|---|---|---|
| `TypeCorrect` | `Terminal` | `[]TypeOK` |
| `OnlyTheStoppedAborts` | | `[]OnlyTheStoppedRunAborts`: a stop never carries over into another run |
| `LinesReachTheirAsks` | | `[]LineReachesItsAsk`: a ReadLine returns the line typed at its own prompt |
| `HeldIsBounded` | | `[]HeldOutputBounded`: a worker holds at most MAX_PENDING events |
| `StoppedStaysSilent` | | `[]StoppedIsSilent`: below the notice nothing of the stopped run is drawn |
| `PromptsComeAfterOutput` | | `[]PromptAfterOutput`: pacing does not show where the player is asked |
| `OneCallOneAnswer` | `Threads` | `RpcSpec`: the channel implements `FsRpc`, a procedure call |
| `QuestionsArePromised` | | `AskingSpec`: the queue implements `Asking` |
| `EverythingInPlace` | | `[]AllInPlace`: every question in one place, none waiting beside a free terminal |
| `TypeInvHolds` | `GameFs` | `[]TypeInv`, the types of all it keeps |
| `TreeMatchesDiskHolds` | | `[]TreeMatchesDisk`: sizes are right at every moment, names once nothing is queued; given `NamesApart`, `ShippedApart` |
| `ReloadIsAPastHolds` | | `[]ReloadIsAPast`: the disk is what the files were; for any names |
| `MemSpecHolds` | | `MemSpec`: queue and disk implement `MemoryFs`; given `NamesApart`, `ShippedApart` |
| `PanelFollowsTreeHolds` | `FilePanel` | `[]PanelFollowsTree`: the panel shows the tree, or what it was; given `NamesApart`, `DropsApart` |
| `ReloadIsAPastAmongDrops` | | `[]ReloadIsAPast` with the page's reloads, and its drops, onto files of the scripts too; given `TouchedApart` besides |
| `BooksBalance`, `OverdraftsAreBounded`, `TablesStaySound` | `Bank` | `[]LedgerAgrees`, `[]OverdraftBounded`, `[]TablesAreSound` |
| `RateStaysBounded`, `LinesStayKept` | `ChatRoom` | `[]RateBounded`, `[]LinesAreKept` |
| `AccountsStayWhole`, `CodesStaySpent` | `Site` | `[]AccountsAreWhole`, `[]CodesAreSpent` |
| `GuestsSign`, `LateWritesAreSafe` | | `[]LinesAreSigned`, and the action property `LateWritesFindTheirFile` |
| `NoneIsMissed`, `WhatIsReadStaysRead`, `DraftsAreDelivered` | | `[]NoMailIsMissed`, and the action properties `ReadStaysRead`, `DraftsGoWhenDelivered` |

Hardly any of the properties is inductive. Each proof has an inductive invariant, checked with TLC on the run's instance before it was proved, a lemma
for each action or for each conjunct it can disturb, and a theorem that it always holds; the properties follow from it.

**Terminal.** The run is a token the two sides pass (`RunInv`): while the page is not busy nothing is out; while a run is posted or
executing, it is the page's current run and the page is busy; an ending is the last message of its worker. From this, ABORT set while
a run is in the worker means that the page still has *that* run stopped: the page clears the flag before it
posts the next, and cannot post before the ending has come back. `InputInv` adds the asks: a prompt on its way or shown
(and not dropped by a stop) is the worker's current ask, the worker is about to park or parked in it, and once parked on WAITING it stays so
until that prompt is answered; hence the buffer holds its line when STATE is READY. `HeldInv` says that `pending` is at the limit only on the way through
`awaitDrawn`, which empties it before anything more is held; `emit` adds one. `ScreenInv` is about rows: all that is drawn, held or on its way is of the current run
(`RowsInv`); a ReadLine is the last message out, and nothing is held under it (`HandedInv`); the notice is drawn while the page has the run stopped, and
nothing said after it (`NoticeInv`); and of a run that nobody stopped, the screen once the batches on their way and what is held are drawn upon it is `ideal`
(`OwedInv`). This last one is kept by every batch because drawing is a fold: drawing one sequence and then another is
drawing both, and coalescing two replacing lines is lost in the drawing.

**Threads.** A call into the filesystem is whole because the pieces are (`ChannelInv`): at each step of the console and of the worker, what
has been collected, what the buffer holds, and what is pending make the answer, in this order, by concatenation; a parked console's request is on its port, or waits
for the disk, or is being answered, or has been, and in one of these ways only. Of a terminal that was closed nothing is claimed: the worker may go on storing into its buffer. A question
is in line or with one open terminal, before or after it is carried out (`Placed`), and none waits beside a free terminal. This last needs the
page's flags to be true: `OpenInv` says which messages of a run, of a prompt and of booting a terminal and its worker can have between them, so that a worker
has one run while the page has it busy and none otherwise, and `ClosedInv` that nothing is left of one closed. The refinement
of `Asking` follows step by step: what a terminal had answered when it closes is what the promise may lose.

**GameFs.** A change is in the tree at once and on the disk later, so the proofs speak of the queue carried out: `After(disk, chain)[n]` is the disk
once `n` of the changes queued are on it, defined as a function of `n` so that nothing recursive is needed, and lemmas by induction say what it is when a change is queued
(`AfterAppend`), begun or done. `TreeInv` is then `TreeMatchesDisk` of the disk at the queue's end: it says of every file of the tree that the disk will have it, in its size, unless
it is held in memory, and that sizes and what is held agree. One lemma for each effect of a change (`AppendAt`, `TakeOut`, `PutDir`, `TakeDir`, `CopyTo`, `MoveTo`, a write) keeps it, and a step of the queue leaves
the end of the queue where it was: the browser's first half of a change (`MakeFile`, `CommitFirst`) is undone by the whole. `PastInv` says that every disk the queue leads through is, as
far as scripts' files go, one of `past`, and then that what the head of the queue may show when it is half done is what `Halfway` allows. For `MemSpec`, `View` is the
mapping. A change of the scripts is the operation of `MemoryFs` by the same lemmas, a step of the queue is a stutter because the queue leads where it led, and a read answers well because of `ReadsInv`: among the answers a waiting
reader may be given is what the file is on each disk the queue still leads through from the change it waits for on. `QueueInv` says that the queue holds only what the
scripts asked for, so that hypotheses about names carry over to it.

**FilePanel.** What is on its way to the page is reports in messages, and at most one answer among them. The panel may be told something before the answer that holds it and again after,
and lags behind at all times, so nothing simple is kept. `MailInv` has two histories as witnesses. `Heard`: all that was ever reported, message by message, has as its last word on every path what the tree
has there now (`Told`), and what was reported before an answer has what the answer has. So reports that are replayed over an answer which
already knows of them lead it from itself to itself: it differs from what it should be only where more will be said (`Near`), and in the end nothing is left to be said.
`Shows`: what the panel will show after each message, taking in the messages one by one, is a tree there was (`trees`), and with what is not announced yet it is the tree. Each change
of a script is shown to report what it did to the tree and no more (`ChangesHeard`); this is where directories above a file matter, as the panel makes them itself, and where `DropsApart` is needed:
`NamesInv` keeps the directories above a drop in place, and names that are files apart from those that are directories, in the tree, on the disk and in the queue, so that a reload finds them so.
`PastInv` of `GameFs` is kept here too: a drop leaves a disk that is the same but for a touched file and directories where no file may be (`Alike`), and what scripts queue does the same to
both. That a drop may be onto their files makes this the work: where a queued change writes, copies, moves or removes a touched file, the two disks part further, but only in touched files, since
`Touched` holds whatever a copy or a move leads to from there; of any other file each finds the same on both (`ApplyAlike`). So the queue leads through the same untouched files as before the drop. `TouchedApart` is
needed where a directory that a script makes would be refused on one disk and not on the other.

**Bank.** The properties are about committed tables, and a transaction commits later what it decided earlier. `BankInv` says of every task what its
transaction will commit: what it has moved, by the step it is at (`Stage`); that entries are numbered, and its own has a number new to it (`Books`); that a row it inserted has an id
of its own (`Ids`), is unlike every other (`Unalike`, from the unique keys and the waiting for rivals) and stands below a domain of the same owner (`Tree`); that for every
name the ledger has as many charges as rows were ever sold, since a COMMIT adds both or neither (`Sold`); and that a row one task has locked to change no other has locked
(`LockedApart`, which TLC checks with `TypeOK`). `Covered` is the
bound of overdrafts: among those past the check and not yet at the update, one saw enough for itself before the others took anything, so the money is short
by no more than the others take. `Total` is a fold over sets; that its value does not depend on the order is proved by induction.

**Accounts, files, mail.** `AccountInv`: rows about to be committed are unlike those there and each other (`NewRowsUnlike`), a code was drawn
once and for one account (`CodesApart`), and it was mailed, and is gone before a password is set (`CodesMailed`). `FileInv`: a request about to write has a row it read, and a guest's request is one
the header of that row permits; `SignedFiles`: the files there, and the texts read that are on their way to being written, are signed: where all that others may do
is safeappend, a guest's words are on a line that starts with his name. `MailInv`: `mail.dat`, alone and with the mails a fetch is about to add, has every letter to the player up to its highest id,
but for those overtaken (`NothingMissed`); the copy a console works on is still what `mail.dat` is (`CopiesAre`), because the page asks one
question at a time (`Alone`); a receiver has a mail once (`SentOnce`); a request to send has reached those it no longer names (`OnTheirWay`), and one that is done
all of them (`SentWhenDone`).

**ChatRoom.** `ChatInv`: a recent row not committed is that of a line being served, past the count (`RateInv`), so that the rows counted and the lines past the
count are bounded together; what a fetch brings has every line up to its last but for those overtaken (`LinesCover`), which is what the query's order and limits give.

**Induction.** The library states induction of predicates, which the provers here cannot be given; `Induction` restates it of sets (a set with 0 and with every successor has every
natural number; a set of sets with the empty one and each that one element less is in, has every finite subset) and proves these from well-founded orders. From them: a bounded set has a greatest number, a set
of naturals has a least, a fold over a finite set is defined, and `InOrder` and `Only` of `Ordering` return each element once, in order. `InOrder` is
written without recursion or an operator argument for this: a number's place is the count of those below.

What stays with TLC, and why:

- Liveness and whatever needs fairness (`StallEnds`, `StopEndsRun`, `CallsReturn`, `QuestionsAreAnswered`, `RequestsAreAnswered`, `LinesAreShown`): neither it nor
  ENABLED is in the prover's reach.
- The language (`Lexer` to `Language`): its definitions are RECURSIVE operators over texts and trees, and the prover loses its arithmetic in every module that reaches one.

## 7. What is assumed, and what is not modelled

Assumed (external, from how the code uses it): the database's isolation, locks, keys and ids (section 2, Bank and ChatRoom);
OPFS writing a file by a swap when its writable closes; messages of a port in order; `Atomics` sequentially consistent; terminating
a worker drops its messages.

Left out, with reasons: formatting and layout of pages; a change that fails on disk (the code logs it and
goes on, and promises nothing); a rename of a file to itself and names below a file (section 5); `GameFs.clear`, whose message (`reset`) no page sends; numbers of closed terminals used again; the
communications log; money as more than a few units (no width is reached: `cash` is compared before it is
moved); unregistered accounts' references; scripts on a domain's ports, its meta data and tokens, the library and textspace (one statement each);
of the language capital letters, the bounds of a Double's exponent, powers and transcendental functions, Rnd and the clock,
dates written as text, RegExp, Err's source and help fields, and line numbers of errors at run time; the host's globals are
never assigned (`set_global`: no host of the client takes one). A host call of a script says a text or does nothing: what the game's calls do is in the modules of the parts they reach.
`PROJECT.json` has every component with its status, and the hazards no property
covers with the reason.

## 8. Plan

The core came first (the terminal, then what scripts and money rest on), then the mail, accounts and files of the server, and the
language. Next, in order; proofs go into modules of their own, over modules without RECURSIVE operators.

1. The command line (`cli.rs`, `path.rs`) as pure algorithms; server connections by handle and library imports of the game host.
2. `GameFs` with `move` onto itself, once the browser's side of it is settled.

The number of runs is kept small: a component that joins shares a run with the one it is nearest to (the server's requests are
one system with one budget of requests), and a run that shows a difference of section 5 goes when that difference does.
