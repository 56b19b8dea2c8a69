------------------------------ MODULE AskQueue ------------------------------
(***************************************************************************)
(* The windows' questions, handed to free consoles: ask(), dispatchAsked(), *)
(* requeue() and settleAsked() of main.ts, with the messages between the     *)
(* page and each console's worker.                                           *)
(*                                                                          *)
(* A console's messages to its worker are taken in order, and so are the     *)
(* worker's to the page; those of a console that closes are gone.  What a    *)
(* run does between its start and its end is in module Terminal.             *)
(***************************************************************************)
EXTENDS Integers, FiniteSets, SequencesExt, Ordering

CONSTANTS
    Terminals,      \* every terminal there will have been
    MaxQuestions,   \* bound: questions asked
    MaxRuns         \* bound: commands given

ASSUME AskQueueAssumption ==
    /\ IsFiniteSet(Terminals) /\ "nowhere" \notin Terminals
    /\ MaxQuestions \in Nat /\ MaxRuns \in Nat

Tokens == 1 .. MaxQuestions
Nowhere == "nowhere"

VARIABLES
    consoles,       \* those open, oldest first
    opened,         \* those opened so far
    ready, busy, awaitingInput,     \* per console, as the page knows it
    asked,          \* where each question without an answer is
    waiting,        \* questions without a console, in line
    nextToken,
    inbox, outbox,  \* messages to and from each worker
    worker,         \* what each worker is at
    runs,           \* commands so far
    carried, settled    \* observation: how often carried out; which settled

page == <<consoles, opened, ready, busy, awaitingInput>>
queue == <<asked, waiting, nextToken>>
queueVars == <<page, queue, inbox, outbox, worker, runs, carried, settled>>

Question(q) == [type |-> "question", token |-> q]
Message(type) == [type |-> type, token |-> 0]

QueueInit ==
    /\ consoles = <<>> /\ opened = {}
    /\ ready = [c \in Terminals |-> FALSE] /\ busy = [c \in Terminals |-> FALSE]
    /\ awaitingInput = [c \in Terminals |-> FALSE]
    /\ asked = [q \in {} |-> Nowhere] /\ waiting = <<>> /\ nextToken = 1
    /\ inbox = [c \in Terminals |-> <<>>] /\ outbox = [c \in Terminals |-> <<>>]
    /\ worker = [c \in Terminals |-> "idle"]
    /\ runs = 0
    /\ carried = [q \in Tokens |-> 0] /\ settled = {}

-----------------------------------------------------------------------------
(* Handing out.                                                            *)

Free(c, isReady, isBusy, isAwaiting) == isReady[c] /\ ~isBusy[c] /\ ~isAwaiting[c]

DispatchKeeping(open, isReady, isBusy, isAwaiting, held, line, posts) ==  \* mutant: no shift
    LET free == {i \in DOMAIN open : Free(open[i], isReady, isBusy, isAwaiting)}
        taker == open[CHOOSE i \in free : \A j \in free : i <= j]
    IN  IF free = {}
        THEN asked' = held /\ waiting' = line /\ inbox' = posts
        ELSE /\ asked' = [q \in DOMAIN held |-> IF Contains(line, q) THEN taker ELSE held[q]]
             /\ waiting' = line
             /\ inbox' = [posts EXCEPT ![taker] = @ \o [i \in DOMAIN line |-> Question(line[i])]]

\* dispatchAsked, in the state the rest of the handler has come to: everything
\* in line goes to the oldest free console, being posted to making none busy.
\* posts are the inboxes so far.
Dispatch(open, isReady, isBusy, isAwaiting, held, line, posts) ==
    LET free == {i \in DOMAIN open : Free(open[i], isReady, isBusy, isAwaiting)}
        taker == open[CHOOSE i \in free : \A j \in free : i <= j]
        live == Only(DOMAIN held, line)
    IN  IF free = {}
        THEN asked' = held /\ waiting' = line /\ inbox' = posts
        ELSE /\ asked' = [q \in DOMAIN held |-> IF Contains(line, q) THEN taker ELSE held[q]]
             /\ waiting' = <<>>
             /\ inbox' = [posts EXCEPT ![taker] = @ \o [i \in DOMAIN live |-> Question(live[i])]]

\* ask(): a token, a place at the end of the line.
Ask ==
    /\ nextToken \in Tokens
    /\ nextToken' = nextToken + 1
    /\ Dispatch(consoles, ready, busy, awaitingInput,
                [q \in DOMAIN asked \cup {nextToken} |->
                    IF q = nextToken THEN Nowhere ELSE asked[q]],
                Append(waiting, nextToken), inbox)
    /\ UNCHANGED <<page, outbox, worker, runs, carried, settled>>

-----------------------------------------------------------------------------
(* The player.                                                             *)

Open(c) ==
    /\ c \notin opened
    /\ consoles' = Append(consoles, c) /\ opened' = opened \cup {c}
    /\ inbox' = [inbox EXCEPT ![c] = <<Message("boot")>>]
    /\ UNCHANGED <<ready, busy, awaitingInput, queue, outbox, worker, runs, carried, settled>>

\* Enter at the prompt, or a file run from an explorer.
Command(c) ==
    /\ Contains(consoles, c) /\ ready[c] /\ ~busy[c] /\ ~awaitingInput[c]
    /\ runs < MaxRuns /\ runs' = runs + 1
    /\ busy' = [busy EXCEPT ![c] = TRUE]
    /\ inbox' = [inbox EXCEPT ![c] = Append(@, Message("run"))]
    /\ UNCHANGED <<consoles, opened, ready, awaitingInput, queue, outbox, worker, carried, settled>>

\* Enter while a script has asked for a line: the parked worker goes on.
TypeLine(c) ==
    /\ awaitingInput[c]
    /\ awaitingInput' = [awaitingInput EXCEPT ![c] = FALSE]
    /\ worker' = [worker EXCEPT ![c] = "running"]
    /\ UNCHANGED <<consoles, opened, ready, busy, queue, inbox, outbox, runs, carried, settled>>

OrphansDropped(c) == <<>>                               \* mutant: left with the terminated worker

\* requeue: what the console held goes ahead of what waits.
Orphans(c) == InOrder({q \in DOMAIN asked : asked[q] = c})

CloseAsked(c) ==                                        \* mutant: asked to stop, not terminated
    /\ Contains(consoles, c)
    /\ consoles' = Only(ToSet(consoles) \ {c}, consoles)
    /\ ready' = [ready EXCEPT ![c] = FALSE] /\ busy' = [busy EXCEPT ![c] = FALSE]
    /\ awaitingInput' = [awaitingInput EXCEPT ![c] = FALSE]
    /\ LET orphans == Orphans(c)
           held == [q \in DOMAIN asked |-> IF Contains(orphans, q) THEN Nowhere ELSE asked[q]]
       IN  Dispatch(consoles', ready, busy, awaitingInput, held, orphans \o waiting, inbox)
    /\ UNCHANGED <<opened, nextToken, outbox, worker, runs, carried, settled>>

\* destroy() and forget(): the worker is terminated, and with it its messages.
Close(c) ==
    /\ Contains(consoles, c)
    /\ consoles' = Only(ToSet(consoles) \ {c}, consoles)
    /\ ready' = [ready EXCEPT ![c] = FALSE] /\ busy' = [busy EXCEPT ![c] = FALSE]
    /\ awaitingInput' = [awaitingInput EXCEPT ![c] = FALSE]
    /\ worker' = [worker EXCEPT ![c] = "idle"]
    /\ outbox' = [outbox EXCEPT ![c] = <<>>]
    /\ LET orphans == Orphans(c)
           held == [q \in DOMAIN asked |-> IF Contains(orphans, q) THEN Nowhere ELSE asked[q]]
           posts == [inbox EXCEPT ![c] = <<>>]
       IN  \/ orphans = <<>> /\ inbox' = posts /\ UNCHANGED <<asked, waiting>>
           \/ /\ orphans # <<>>
              /\ Dispatch(consoles', ready, busy, awaitingInput, held, orphans \o waiting, posts)
    /\ UNCHANGED <<opened, nextToken, runs, carried, settled>>

-----------------------------------------------------------------------------
(* The worker: one message at a time.                                      *)

TakeUp(c, type) ==
    /\ worker[c] = "idle" /\ inbox[c] # <<>> /\ Head(inbox[c]).type = type
    /\ inbox' = [inbox EXCEPT ![c] = Tail(@)]

Say(c, message) == outbox' = [outbox EXCEPT ![c] = Append(@, message)]

Boot(c) ==
    /\ TakeUp(c, "boot") /\ Say(c, Message("ready"))
    /\ UNCHANGED <<page, queue, worker, runs, carried, settled>>

StartRun(c) ==
    /\ TakeUp(c, "run")
    /\ worker' = [worker EXCEPT ![c] = "running"]
    /\ UNCHANGED <<page, queue, outbox, runs, carried, settled>>

\* The whole of the request, the server's or the file's change in it.
CarryOut(c) ==
    /\ TakeUp(c, "question")
    /\ LET q == Head(inbox[c]).token
       IN  /\ carried' = [carried EXCEPT ![q] = @ + 1]
           /\ Say(c, [type |-> "answer", token |-> q])
    /\ UNCHANGED <<page, queue, worker, runs, settled>>

\* ReadLine, or the end of the run.
WantInput(c) ==
    /\ worker[c] = "running"
    /\ worker' = [worker EXCEPT ![c] = "parked"]
    /\ Say(c, Message("wantInput"))
    /\ UNCHANGED <<page, queue, inbox, runs, carried, settled>>

EndRun(c) ==
    /\ worker[c] = "running"
    /\ worker' = [worker EXCEPT ![c] = "idle"]
    /\ Say(c, Message("done"))
    /\ UNCHANGED <<page, queue, inbox, runs, carried, settled>>

-----------------------------------------------------------------------------
(* The page, hearing from a worker: handleMessage.                         *)

Hear(c, type) ==
    /\ outbox[c] # <<>> /\ Head(outbox[c]).type = type
    /\ outbox' = [outbox EXCEPT ![c] = Tail(@)]

\* The opening script is away before anything in line is handed out.
HearReady(c) ==
    /\ Hear(c, "ready")
    /\ ready' = [ready EXCEPT ![c] = TRUE] /\ busy' = [busy EXCEPT ![c] = TRUE]
    /\ Dispatch(consoles, ready', busy', awaitingInput, asked, waiting,
                [inbox EXCEPT ![c] = Append(@, Message("run"))])
    /\ UNCHANGED <<consoles, opened, awaitingInput, nextToken, worker, runs, carried, settled>>

HearWantInput(c) ==
    /\ Hear(c, "wantInput")
    /\ awaitingInput' = [awaitingInput EXCEPT ![c] = TRUE]
    /\ UNCHANGED <<consoles, opened, ready, busy, queue, inbox, worker, runs, carried, settled>>

HearDone(c) ==
    /\ Hear(c, "done")
    /\ busy' = [busy EXCEPT ![c] = FALSE]
    /\ awaitingInput' = [awaitingInput EXCEPT ![c] = FALSE]
    /\ Dispatch(consoles, ready, busy', awaitingInput', asked, waiting, inbox)
    /\ UNCHANGED <<consoles, opened, ready, nextToken, worker, runs, carried, settled>>

\* settleAsked.
HearAnswer(c) ==
    /\ Hear(c, "answer")
    /\ LET q == Head(outbox[c]).token
       IN  /\ asked' = [o \in DOMAIN asked \ {q} |-> asked[o]]
           /\ settled' = IF q \in DOMAIN asked THEN settled \cup {q} ELSE settled
    /\ UNCHANGED <<page, waiting, nextToken, inbox, worker, runs, carried>>

Worker(c) == Boot(c) \/ StartRun(c) \/ CarryOut(c)
Script(c) == WantInput(c) \/ EndRun(c)
Page(c) == HearReady(c) \/ HearWantInput(c) \/ HearDone(c) \/ HearAnswer(c)

QueueNext ==
    \/ Ask
    \/ \E c \in Terminals :
          Open(c) \/ Command(c) \/ TypeLine(c) \/ Close(c) \/ Script(c) \/ Worker(c) \/ Page(c)

\* Page and workers take their messages.  That runs come to an end, and lines
\* are typed, is not assumed.
QueueFair == \A c \in Terminals : WF_queueVars(Worker(c)) /\ WF_queueVars(Page(c))

-----------------------------------------------------------------------------
(* Properties.                                                             *)

Tokened(messages) == {messages[i].token : i \in DOMAIN messages} \ {0}

\* Types, and that a closed console has nothing about it left.
QueueTypeOK ==
    /\ ToSet(consoles) \subseteq opened /\ opened \subseteq Terminals
    /\ DOMAIN asked \subseteq Tokens /\ nextToken \in 1 .. MaxQuestions + 1
    /\ worker \in [Terminals -> {"idle", "running", "parked"}]
    /\ \A c \in Terminals : ~Contains(consoles, c) =>
          /\ inbox[c] = <<>> /\ outbox[c] = <<>> /\ worker[c] = "idle"
          /\ ~ready[c] /\ ~busy[c] /\ ~awaitingInput[c]

\* No question is lost and none is out twice: one that is not settled is in
\* line once, or with the one open console it was handed to, or in that
\* console's answer.
Places(q) ==
    {<<"line", i>> : i \in {i \in DOMAIN waiting : waiting[i] = q}}
      \cup UNION {{<<c, "in", i>> : i \in {i \in DOMAIN inbox[c] : inbox[c][i] = Question(q)}}
                  \cup {<<c, "out", i>> : i \in {i \in DOMAIN outbox[c] : outbox[c][i].token = q}}
                  : c \in Terminals}
EachInOnePlace ==
    /\ DOMAIN asked = {q \in Tokens : q < nextToken} \ settled
    /\ \A q \in DOMAIN asked :
          /\ Cardinality(Places(q)) = 1
          /\ asked[q] # Nowhere =>
                Contains(consoles, asked[q])
                /\ q \in Tokened(inbox[asked[q]]) \cup Tokened(outbox[asked[q]])

AnyFree == \E i \in DOMAIN consoles : Free(consoles[i], ready, busy, awaitingInput)

\* A question waits only while no console is free to take it.
NoneWaitsBesideAFreeOne == waiting # <<>> => ~AnyFree

\* Every question is answered, as long as a console is free every now and then,
\* whatever the others are kept busy with and whichever close.
QuestionsAreAnswered ==
    []<>AnyFree => \A q \in Tokens : (q \in DOMAIN asked) ~> (q \in settled)

\* What ask() promises is kept: see module Asking.  A question is carried out
\* once more only for a console that closed on its answer.
Phase(q) ==
    IF q >= nextToken THEN "new"
    ELSE IF q \in settled THEN "settled"
    ELSE IF \E c \in Terminals : q \in Tokened(outbox[c]) THEN "answered"
    ELSE "out"
Promise == INSTANCE Asking WITH
    MaxClosed <- Cardinality(Terminals),
    phase <- [q \in Tokens |-> Phase(q)],
    closed <- Cardinality(opened) - Len(consoles)
AskingSpec == Promise!Spec
=============================================================================
