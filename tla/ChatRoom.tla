------------------------------ MODULE ChatRoom ------------------------------
(***************************************************************************)
(* The chat room: one client's panel (chat.ts), its questions carried out by *)
(* a console (lib.rs) as module Asking has them, and the server's table       *)
(* (chat.rs) that other players write to as well.                             *)
(*                                                                          *)
(* Of the database (external) this takes that a row's id is drawn when the    *)
(* INSERT starts and the row is seen once it is committed, so that of two     *)
(* inserts at once either may be seen first.  Mirroring to the communications *)
(* log, the scrollback's limit and what a line looks like are left out.       *)
(***************************************************************************)
EXTENDS Integers, FiniteSetsExt, SequencesExt, Ordering

CONSTANTS
    Says,           \* lines typed at the box
    Others,         \* lines of others
    Scripted,       \* those among them that scripts of this client send (ChatSend)
    Backlog,        \* CHAT_BACKLOG
    MaxFetch,       \* CHAT_MAX_FETCH
    Limit,          \* CHAT_RATE_LIMIT
    MaxServing,     \* lines sent by this account served at once
    MaxInserting,   \* INSERTs at once
    MaxClosed       \* bound: consoles closed

ASSUME ChatRoomAssumption ==
    /\ Backlog \in Nat \ {0} /\ MaxFetch \in Nat \ {0} /\ Limit \in Nat \ {0}
    /\ MaxServing \in Nat /\ MaxInserting \in Nat /\ MaxClosed \in Nat
    /\ Says \cap Others = {} /\ Scripted \subseteq Others

VARIABLES
    committed,      \* ids of the rows of `chat`
    nextId,         \* its AUTO_INCREMENT
    recent,         \* ids of this account's rows of the last CHAT_RATE_SECONDS
    posts,          \* action=send requests being served
    phase, tries, answer,   \* of each line: as in Asking; how often carried out; its id
    fetching, timer,        \* a fetch is out; the next is due
    watching,       \* interval() is not null
    fetch,          \* the fetch: none, out, answered or failed
    lines,          \* what it brought
    echoes,         \* ids of scripts' lines the panel is about to be told (chatSent)
    fetchedTo, shown, log,
    closed,         \* consoles closed so far
    overtaken,      \* observation: ids committed after a higher one
    first           \* observation: where the backlog began, 0 before it came

server == <<committed, nextId, recent, posts, overtaken>>
saying == <<phase, tries, answer>>
panel == <<fetchedTo, shown, log, first, echoes>>
polling == <<fetching, timer, watching, fetch, lines>>
vars == <<server, saying, panel, polling, closed>>

Init ==
    /\ committed = {} /\ nextId = 1 /\ recent = {} /\ posts = {} /\ overtaken = {}
    /\ phase = [q \in Says \cup Others |-> "new"] /\ tries = [q \in Says |-> 0]
    /\ answer = [q \in Says |-> 0]
    /\ fetching = FALSE /\ timer = FALSE /\ watching = FALSE /\ fetch = "none" /\ lines = <<>>
    /\ fetchedTo = 0 /\ shown = {} /\ log = <<>> /\ first = 0 /\ echoes = {}
    /\ closed = 0

-----------------------------------------------------------------------------
(* The server: action=send.                                                *)

Own(p) == p.by \in Says
Account(p) == p.by \in Says \cup Scripted      \* counted against the same limit
Serving == {p \in posts : Account(p)}
Current(p) == Own(p) /\ p.try = tries[p.by] /\ phase[p.by] = "sent"

\* The console asked hears what the server says, if it is still there.
Tell(p, id) ==
    IF Current(p)
    THEN phase' = [phase EXCEPT ![p.by] = "answered"] /\ answer' = [answer EXCEPT ![p.by] = id]
    ELSE UNCHANGED <<phase, answer>>

CountNothing(p) ==                                      \* mutant: no limit
    /\ p \in posts /\ p.stage = "count"
    /\ posts' = (posts \ {p}) \cup {[p EXCEPT !.stage = "insert"]}
    /\ UNCHANGED <<committed, nextId, recent, overtaken, saying, panel, polling, closed>>

\* Too many lines within the last seconds are refused.
Count(p) ==
    /\ p \in posts /\ p.stage = "count"
    /\ \/ /\ Cardinality(recent \cap committed) >= Limit
          /\ posts' = posts \ {p} /\ Tell(p, 0)
       \/ /\ Cardinality(recent \cap committed) < Limit
          /\ posts' = (posts \ {p}) \cup {[p EXCEPT !.stage = "insert"]}
          /\ UNCHANGED <<phase, answer>>
    /\ UNCHANGED <<committed, nextId, recent, overtaken, tries, panel, polling, closed>>

Insert(p) ==
    /\ p \in posts /\ p.stage = "insert"
    /\ Cardinality({o \in posts : o.stage = "commit"}) < MaxInserting
    /\ nextId' = nextId + 1
    /\ posts' = (posts \ {p}) \cup {[p EXCEPT !.stage = "commit", !.id = nextId]}
    /\ recent' = IF Account(p) THEN recent \cup {nextId} ELSE recent
    /\ UNCHANGED <<committed, overtaken, saying, panel, polling, closed>>

CommitRow(p) ==
    /\ p \in posts /\ p.stage = "commit"
    /\ committed' = committed \cup {p.id}
    /\ overtaken' = IF \E id \in committed : id > p.id THEN overtaken \cup {p.id} ELSE overtaken
    /\ posts' = posts \ {p}
    /\ Tell(p, p.id)
    /\ echoes' = IF p.by \in Scripted THEN echoes \cup {p.id} ELSE echoes
    /\ UNCHANGED <<nextId, recent, tries, fetchedTo, shown, log, first, polling, closed>>

\* A request whose console has closed may be given up.
Abandon(p) ==
    /\ p \in posts /\ Own(p) /\ ~Current(p)
    /\ posts' = posts \ {p} /\ recent' = recent \ {p.id}
    /\ UNCHANGED <<committed, nextId, overtaken, saying, panel, polling, closed>>

\* A line of a script of this client, counted as those typed are, or somebody
\* else's, counted already.
Speak(o) ==
    /\ phase[o] = "new" /\ phase' = [phase EXCEPT ![o] = "sent"]
    /\ o \in Scripted => Cardinality(Serving) < MaxServing
    /\ posts' = posts \cup {[by |-> o, try |-> 0, id |-> 0,
                             stage |-> IF o \in Scripted THEN "count" ELSE "insert"]}
    /\ UNCHANGED <<committed, nextId, recent, overtaken, tries, answer, panel, polling, closed>>

\* CHAT_RATE_SECONDS have gone by since some of the lines.
Age ==
    /\ \E old \in recent : recent' = {id \in recent : id > old}
    /\ UNCHANGED <<committed, nextId, posts, overtaken, saying, panel, polling, closed>>

-----------------------------------------------------------------------------
(* The panel.                                                              *)

\* add(): the lines not placed already, in the order they came.
Adding(ids) == Only(ToSet(ids) \ shown, ids)
Add(ids) ==
    LET new == Adding(ids)
    IN  shown' = shown \cup ToSet(new) /\ log' = log \o new

\* say(): the box is emptied and the question asked; a console takes it.
Say(q) ==
    /\ phase[q] = "new" /\ phase' = [phase EXCEPT ![q] = "out"]
    /\ UNCHANGED <<server, tries, answer, panel, polling, closed>>

Send(q) ==
    /\ phase[q] = "out" /\ phase' = [phase EXCEPT ![q] = "sent"]
    /\ Cardinality(Serving) < MaxServing
    /\ tries' = [tries EXCEPT ![q] = @ + 1]
    /\ posts' = posts \cup {[by |-> q, try |-> tries[q] + 1, stage |-> "count", id |-> 0]}
    /\ UNCHANGED <<committed, nextId, recent, overtaken, answer, panel, polling, closed>>

HearSayAdvancing(q) ==                                  \* mutant: an echo counts as fetched
    /\ phase[q] = "answered" /\ phase' = [phase EXCEPT ![q] = "settled"]
    /\ Add(IF answer[q] = 0 THEN <<>> ELSE <<answer[q]>>)
    /\ fetchedTo' = Max({fetchedTo, answer[q]})
    /\ UNCHANGED <<server, tries, answer, first, echoes, polling, closed>>

\* The line is placed at once; a refusal is complained of.
HearSay(q) ==
    /\ phase[q] = "answered" /\ phase' = [phase EXCEPT ![q] = "settled"]
    /\ Add(IF answer[q] = 0 THEN <<>> ELSE <<answer[q]>>)
    /\ UNCHANGED <<server, tries, answer, fetchedTo, first, echoes, polling, closed>>

\* sent(): a script's line, known by its id.
HearSent(id) ==
    /\ id \in echoes /\ echoes' = echoes \ {id}
    /\ Add(<<id>>)
    /\ UNCHANGED <<server, saying, fetchedTo, first, polling, closed>>

\* poll(), from the state its caller has come to.
Poll(isWatching) ==
    IF fetching \/ ~isWatching THEN UNCHANGED <<fetching, fetch>>
    ELSE fetching' = TRUE /\ fetch' = "out"

TimerFires ==
    /\ timer /\ timer' = FALSE
    /\ Poll(watching)
    /\ UNCHANGED <<watching, lines, server, saying, panel, closed>>

\* restart(): the pane, the tab or ChatView has changed.
Restart(now) ==
    /\ watching' = now /\ timer' = FALSE
    /\ Poll(now)
    /\ UNCHANGED <<lines, server, saying, panel, closed>>

\* action=read: everything newer, the oldest first; or the last of the backlog.
Newer == {id \in committed : id > fetchedTo}
Backlogged == {id \in committed : Cardinality({o \in committed : o > id}) < Backlog}
NextLines == {id \in Newer : Cardinality({o \in Newer : o < id}) < MaxFetch}
Read == IF fetchedTo > 0 THEN NextLines ELSE Backlogged

CarryFetch ==
    /\ fetch = "out" /\ fetch' = "answered"
    /\ lines' = InOrder(Read)
    /\ UNCHANGED <<fetching, timer, watching, server, saying, panel, closed>>

FetchFails ==
    /\ fetch = "out" /\ fetch' = "failed"
    /\ UNCHANGED <<fetching, timer, watching, lines, server, saying, panel, closed>>

HearFetchOnly ==                                        \* mutant: no `finally`
    /\ fetch \in {"answered", "failed"} /\ fetch' = "none"
    /\ fetching' = (fetch = "failed") /\ timer' = watching
    /\ Add(lines) /\ lines' = <<>>
    /\ fetchedTo' = Max(ToSet(lines) \cup {fetchedTo})
    /\ first' = IF first = 0 /\ lines # <<>> THEN Head(lines) ELSE first
    /\ UNCHANGED <<watching, echoes, server, saying, closed>>

\* The lines are placed, and the next fetch is due, unless nobody looks.
HearFetch ==
    /\ fetch \in {"answered", "failed"} /\ fetch' = "none"
    /\ fetching' = FALSE /\ timer' = watching
    /\ Add(lines) /\ lines' = <<>>
    /\ fetchedTo' = Max(ToSet(lines) \cup {fetchedTo})
    /\ first' = IF first = 0 /\ lines # <<>> THEN Head(lines) ELSE first
    /\ UNCHANGED <<watching, echoes, server, saying, closed>>

\* A console closes on what it was carrying out: it is carried out again.
Close ==
    /\ closed < MaxClosed /\ closed' = closed + 1
    /\ \E lost \in SUBSET {q \in Says : phase[q] \in {"sent", "answered"}} :
          phase' = [q \in DOMAIN phase |-> IF q \in lost THEN "out" ELSE phase[q]]
    /\ \/ UNCHANGED <<fetch, lines>>
       \/ fetch \in {"answered", "failed"} /\ fetch' = "out" /\ lines' = <<>>
    /\ UNCHANGED <<server, tries, answer, panel, fetching, timer, watching>>

Serve(p) == Count(p) \/ Insert(p) \/ CommitRow(p)

Next ==
    \/ \E q \in Says : Say(q) \/ Send(q) \/ HearSay(q)
    \/ \E o \in Others : Speak(o)
    \/ \E id \in echoes : HearSent(id)
    \/ \E p \in posts : Serve(p) \/ Abandon(p)
    \/ Age \/ Close
    \/ TimerFires \/ CarryFetch \/ FetchFails \/ HearFetch
    \/ \E now \in BOOLEAN : Restart(now)

Spec == Init /\ [][Next]_vars

\* Timers fire, answers are heard, and the server is reached now and then,
\* which is what the panel backs off for.
FairSpec ==
    Spec /\ WF_vars(TimerFires) /\ WF_vars(HearFetch) /\ SF_vars(CarryFetch)

-----------------------------------------------------------------------------
(* Properties.                                                             *)

\* Types, and what the flags say of the fetch.
TypeOK ==
    /\ committed \subseteq 1 .. nextId - 1 /\ overtaken \subseteq committed
    /\ fetching = (fetch # "none") /\ (lines # <<>> => fetch = "answered")
    /\ fetchedTo \in committed \cup {0} /\ shown \subseteq committed
    /\ \A q \in Says : phase[q] \in {"new", "out", "sent", "answered", "settled"}

\* A line said here, and a line fetched twice, is placed once.
ShownOnce == ToSet(log) = shown /\ Len(log) = Cardinality(shown)

\* A line is passed over only if it was committed after one with a higher id.
Past(id) == first # 0 /\ first <= id /\ id <= fetchedTo
OnlyOvertakenAreSkipped == \A id \in committed \ overtaken : Past(id) => id \in shown

\* What is in the panel is what was said: every line, once.
LinesAreKept == TypeOK /\ ShownOnce /\ OnlyOvertakenAreSkipped

\* The limit is loose by the lines of an account served at once, and no more.
RateBounded == Cardinality(recent) <= Limit + MaxServing - 1

\* Whoever looks for long enough is shown each line, however often a fetch
\* fails or its console closes.
AllShown == \A id \in committed : id \in shown \cup overtaken \/ id < first
LinesAreShown == <>[]watching => []<>AllShown
=============================================================================
