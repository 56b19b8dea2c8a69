------------------------------ MODULE Terminal ------------------------------
(***************************************************************************)
(* One terminal of the browser client: the page (main.ts, GameConsole), the *)
(* worker that runs its scripts (worker.ts, with the host and interpreter   *)
(* it calls), and the control block of shared integers they talk through    *)
(* (control.ts).                                                            *)
(*                                                                          *)
(* The two sides run in parallel, so a worker step is one access to the     *)
(* control block, or one posted message, with the thread-local work around  *)
(* it.  A page step is one event handler: the page is a single event loop,  *)
(* and only Ctrl+B, which stores to two slots the worker reads apart, is    *)
(* cut in two (`closing`).                                                  *)
(***************************************************************************)
EXTENDS Naturals, SequencesExt

CONSTANTS
    MaxRuns,      \* bound: commands the player starts
    MaxSays,      \* bound: console events one run says
    MaxReads,     \* bound: ReadLine calls one run makes
    MaxPending,   \* MAX_PENDING, the events a worker holds before it parks
    PollEvery,    \* ABORT_POLL_STEPS, the statements between two polls
    Kinds         \* the console events scripts say

ASSUME BoundsAssumption ==
    /\ MaxRuns \in Nat /\ MaxSays \in Nat /\ MaxReads \in Nat
    /\ MaxPending \in Nat \ {0} /\ PollEvery \in Nat \ {0}
    /\ Kinds \subseteq {"line", "replace", "clear"}

VARIABLES
    \* the control block
    state,      \* STATE: "waiting", "ready" or "closed"
    abort,      \* ABORT
    drawing,    \* DRAWING
    \* the two message queues
    inbox,      \* page to worker: the runs posted
    outbox,     \* worker to page
    \* the page
    run,        \* commands started so far; the last one is the current run
    busy, awaiting, stopping,
    closing,    \* inside stop(), between the flag and the closed input
    prompt,     \* the ReadLine whose prompt is on the input line
    answer,     \* the line in the answer buffer: the run and ReadLine it was typed at
    hidden,     \* document.hidden
    releasing, frame,
    ticks,      \* messages posted on the ticker's port and not yet handled
    screen,     \* the rows drawn since the current command was echoed
    \* the worker
    pc, ret,    \* where it is, and who called stopRequested or flush
    wrun,       \* the run it is executing
    pending,    \* output the page has not been given
    aborted,    \* Interp::abort_requested
    polls,      \* Interp::abort_poll
    says, asks, \* events said and lines asked for in this run
    got,        \* the line the last ReadLine returned, and the ask it answered
    \* observation
    ideal       \* the rows, had every event been drawn the moment it was said

control == <<state, abort, drawing>>
pageVars == <<run, busy, awaiting, stopping, closing, prompt, answer, hidden,
              releasing, frame, ticks, screen>>
workerVars == <<pc, ret, wrun, pending, aborted, polls, says, asks, got>>
vars == <<control, inbox, outbox, pageVars, workerVars, ideal>>

-----------------------------------------------------------------------------
RowKinds == {"line", "replace", "clear", "echo", "stopped", "error"}
Row == [kind : RowKinds, run : Nat, n : Nat]
Message == [type : {"console", "wantInput", "done", "error"},
            events : Seq(Row), ask : Nat]
Typed == [run : Nat, ask : Nat]
Delivered == [line : Typed, asked : Typed]

Console(events) == [type |-> "console", events |-> events, ask |-> 0]
WantInput(n) == [type |-> "wantInput", events |-> <<>>, ask |-> n]
Ending(t) == [type |-> t, events |-> <<>>, ask |-> 0]
PageRow(k, r) == [kind |-> k, run |-> r, n |-> 0]

\* ConsoleView.line and .clear: a replacing line overwrites the last row.
DrawRow(rows, e) ==
    IF e.kind = "clear" THEN <<>>
    ELSE IF e.kind = "replace" /\ rows # <<>> THEN [rows EXCEPT ![Len(rows)] = e]
    ELSE Append(rows, e)

DrawAll(rows, events) == FoldLeft(DrawRow, rows, events)

DrawnStopped(rows, events) == DrawAll(rows, events)     \* mutant: the stop forgotten
\* drawBatch: what a stopped script said before it heard is not drawn.
Drawn(rows, events) == IF stopping THEN rows ELSE DrawAll(rows, events)

HoldOverwriting(held, e) ==               \* mutant: any held replacing line gives way
    IF held # <<>> /\ held[Len(held)].kind = "replace"
      THEN [held EXCEPT ![Len(held)] = e]
      ELSE Append(held, e)

\* A replacing line takes the place of a held one; others are appended.
Hold(held, e) ==
    IF held # <<>> /\ e.kind = "replace" /\ held[Len(held)].kind = "replace"
      THEN [held EXCEPT ![Len(held)] = e]
      ELSE Append(held, e)

FullPast(held) == Len(held) > MaxPending                \* mutant: off by one
NeverDue(n) == FALSE                                    \* mutant: no poll is due

\* MAX_PENDING reached, and ABORT_POLL_STEPS counted off.
Full(held) == Len(held) >= MaxPending
PollDue(n) == n >= PollEvery

-----------------------------------------------------------------------------
Init ==
    /\ state = "waiting" /\ abort = FALSE /\ drawing = FALSE
    /\ inbox = <<>> /\ outbox = <<>>
    /\ run = 0 /\ busy = FALSE /\ awaiting = FALSE /\ stopping = FALSE
    /\ closing = FALSE /\ prompt = 0 /\ answer = [run |-> 0, ask |-> 0]
    /\ hidden = FALSE /\ releasing = FALSE /\ frame = FALSE /\ ticks = 0
    /\ screen = <<>> /\ ideal = <<>>
    /\ pc = "idle" /\ ret = "tick" /\ wrun = 0 /\ pending = <<>>
    /\ aborted = FALSE /\ polls = 0 /\ says = 0 /\ asks = 0
    /\ got = [line |-> [run |-> 0, ask |-> 0], asked |-> [run |-> 0, ask |-> 0]]

-----------------------------------------------------------------------------
(* The page.                                                               *)

\* releaseWorker: cancels the frame and clears DRAWING.
ReleaseWorker == releasing' = FALSE /\ frame' = FALSE /\ drawing' = FALSE

ClearStopKeepsFlag == stopping' = FALSE /\ abort' = abort /\ ReleaseWorker  \* mutant

\* clearStop: the next run starts free of the last one's stop.
ClearStop == stopping' = FALSE /\ abort' = FALSE /\ ReleaseWorker

\* Enter at the prompt, or a file run from an editor: clearStop, then post.
StartRun ==
    /\ ~busy /\ ~awaiting /\ ~closing /\ run < MaxRuns
    /\ run' = run + 1
    /\ busy' = TRUE
    /\ ClearStop
    /\ inbox' = Append(inbox, run')
    /\ screen' = <<PageRow("echo", run')>> /\ ideal' = screen'
    /\ UNCHANGED <<state, outbox, awaiting, closing, prompt, answer, hidden,
                   ticks, workerVars>>

\* Enter while a script is waiting: deliverInput.
TypeLine ==
    /\ awaiting /\ ~closing
    /\ answer' = [run |-> run, ask |-> prompt]
    /\ state' = "ready" /\ awaiting' = FALSE
    /\ screen' = Append(screen, PageRow("echo", run))
    /\ ideal' = Append(ideal, PageRow("echo", run))
    /\ UNCHANGED <<abort, drawing, inbox, outbox, run, busy, stopping, closing,
                   prompt, hidden, releasing, frame, ticks, workerVars>>

\* Ctrl+B: stop() up to and including releaseWorker.
StopFlag ==
    /\ (busy \/ awaiting) /\ ~stopping /\ ~closing
    /\ stopping' = TRUE /\ closing' = TRUE
    /\ abort' = TRUE
    /\ ReleaseWorker
    /\ UNCHANGED <<state, inbox, outbox, run, busy, awaiting, prompt, answer,
                   hidden, ticks, screen, ideal, workerVars>>

\* The rest of stop(): closeInput and the notice.
StopClose ==
    /\ closing
    /\ closing' = FALSE
    /\ state' = "closed" /\ awaiting' = FALSE
    /\ screen' = Append(screen, PageRow("stopped", run))
    /\ UNCHANGED <<abort, drawing, inbox, outbox, run, busy, stopping, prompt,
                   answer, hidden, releasing, frame, ticks, ideal, workerVars>>

ScheduleFrame ==                                        \* mutant: always a frame
    releasing' = TRUE /\ frame' = (frame \/ ~releasing) /\ ticks' = ticks

\* scheduleRelease: on the next frame, or on the ticker when there are none.
ScheduleRelease ==
    /\ releasing' = TRUE
    /\ frame' = (frame \/ (~releasing /\ ~hidden))
    /\ ticks' = IF ~releasing /\ hidden THEN ticks + 1 ELSE ticks

HandleConsole ==
    /\ ~closing /\ outbox # <<>> /\ Head(outbox).type = "console"
    /\ screen' = Drawn(screen, Head(outbox).events)
    /\ ScheduleRelease
    /\ outbox' = Tail(outbox)
    /\ UNCHANGED <<control, inbox, run, busy, awaiting, stopping, closing,
                   prompt, answer, hidden, ideal, workerVars>>

HandleWantInput ==
    /\ ~closing /\ outbox # <<>> /\ Head(outbox).type = "wantInput"
    /\ outbox' = Tail(outbox)
    /\ \/ stopping /\ UNCHANGED <<awaiting, prompt>>
       \/ ~stopping /\ awaiting' = TRUE /\ prompt' = Head(outbox).ask
    /\ UNCHANGED <<control, inbox, run, busy, stopping, closing, answer, hidden,
                   releasing, frame, ticks, screen, ideal, workerVars>>

HandleEnding ==
    /\ ~closing /\ outbox # <<>> /\ Head(outbox).type \in {"done", "error"}
    /\ outbox' = Tail(outbox)
    /\ busy' = FALSE /\ awaiting' = FALSE /\ stopping' = FALSE
    /\ LET rows == IF Head(outbox).type = "error" /\ ~stopping
                     THEN <<PageRow("error", run)>> ELSE <<>>
       IN  screen' = screen \o rows /\ ideal' = ideal \o rows
    /\ UNCHANGED <<control, inbox, run, closing, prompt, answer, hidden,
                   releasing, frame, ticks, workerVars>>

\* The animation frame: the browser produces none for a hidden page.
Frame ==
    /\ frame /\ ~hidden /\ ~closing
    /\ ReleaseWorker
    /\ UNCHANGED <<state, abort, inbox, outbox, run, busy, awaiting, stopping,
                   closing, prompt, answer, hidden, ticks, screen, ideal, workerVars>>

Ticker ==
    /\ ticks > 0 /\ ~closing
    /\ ticks' = ticks - 1
    /\ ReleaseWorker
    /\ UNCHANGED <<state, abort, inbox, outbox, run, busy, awaiting, stopping,
                   closing, prompt, answer, hidden, screen, ideal, workerVars>>

\* visibilitychange: an arranged frame is not coming, so releaseOnTicker.
Hide ==
    /\ ~hidden /\ ~closing
    /\ hidden' = TRUE
    /\ frame' = FALSE
    /\ ticks' = IF releasing /\ frame THEN ticks + 1 ELSE ticks
    /\ UNCHANGED <<control, inbox, outbox, run, busy, awaiting, stopping, closing,
                   prompt, answer, releasing, screen, ideal, workerVars>>

Show ==
    /\ hidden /\ ~closing
    /\ hidden' = FALSE
    /\ UNCHANGED <<control, inbox, outbox, run, busy, awaiting, stopping, closing,
                   prompt, answer, releasing, frame, ticks, screen, ideal, workerVars>>

Page == \/ StartRun \/ TypeLine \/ StopFlag \/ StopClose
        \/ HandleConsole \/ HandleWantInput \/ HandleEnding
        \/ Frame \/ Ticker \/ Hide \/ Show

-----------------------------------------------------------------------------
(* The worker.                                                             *)

\* Where stopRequested (at the five places that call it) and flush (at the
\* three that do not poll first) return to when no stop was seen.
Resume(r) == CASE r = "tick"   -> "exec"
               [] r = "before" -> "call"
               [] r = "emit"   -> "emit"
               [] r = "drawn"  -> "await"
               [] r = "after"  -> "stmt"
               [] r = "said"   -> "returned"
               [] r = "ask"    -> "wantInput"
               [] r = "end"    -> "report"

pageSide == <<state, abort, inbox, pageVars>>

\* flush(): DRAWING is set, and the batch posted in the step after.
Flush(r, next) ==
    IF pending = <<>> THEN pc' = next /\ UNCHANGED <<ret, drawing>>
    ELSE pc' = "post" /\ ret' = r /\ drawing' = TRUE

Post ==
    /\ pc = "post"
    /\ outbox' = Append(outbox, Console(pending))
    /\ pending' = <<>>
    /\ pc' = Resume(ret)
    /\ UNCHANGED <<pageSide, drawing, ret, wrun, aborted, polls, says, asks, got, ideal>>

\* onmessage for a command or a script: a new Interp runs it.
TakeRun ==
    /\ pc = "idle" /\ inbox # <<>>
    /\ inbox' = Tail(inbox) /\ wrun' = Head(inbox)
    /\ aborted' = FALSE /\ polls' = 0 /\ says' = 0 /\ asks' = 0
    /\ pc' = "stmt"
    /\ UNCHANGED <<control, outbox, pageVars, ret, pending, got, ideal>>

\* Interp::tick, ahead of every statement and every turn of a loop.
Statement ==
    /\ pc = "stmt"
    /\ \/ aborted /\ pc' = "end" /\ UNCHANGED <<ret, polls>>
       \/ ~aborted /\ PollDue(polls + 1)
          /\ polls' = 0 /\ pc' = "load" /\ ret' = "tick"
       \/ ~aborted /\ ~PollDue(polls + 1)
          /\ polls' = polls + 1 /\ pc' = "exec" /\ UNCHANGED ret
    /\ UNCHANGED <<pageSide, drawing, outbox, wrun, pending, aborted, says, asks, got, ideal>>

\* The statement: the script's end, one that calls nothing, or a host call,
\* which BrowserHost::call polls on both sides of.
Execute ==
    /\ pc = "exec"
    /\ \/ pc' \in {"end", "stmt"} /\ UNCHANGED ret
       \/ pc' = "load" /\ ret' = "before"
    /\ UNCHANGED <<pageSide, drawing, outbox, wrun, pending, aborted, polls, says,
                   asks, got, ideal>>

LatchesAfter(r) == r = "after"                          \* mutant

\* The polls whose answer the interpreter latches; emit's own is not its.
Latches(r) == r \in {"tick", "before", "after"}

\* stopRequested: load ABORT; a stop drops what is held.  A poll that hears it
\* latches the stop, but the host call it was made ahead of goes on.
HearStop ==
    /\ pc = "load" /\ abort
    /\ pending' = <<>>
    /\ aborted' = (aborted \/ Latches(ret))
    /\ pc' = CASE ret \in {"tick", "after"} -> "stmt"
               [] ret = "before" -> "call"
               [] ret \in {"emit", "drawn"} -> "returned"
    /\ UNCHANGED <<pageSide, drawing, outbox, ret, wrun, polls, says, asks, got, ideal>>

HearNoStop ==
    /\ pc = "load" /\ ~abort
    /\ pc' = "hand"
    /\ UNCHANGED <<pageSide, drawing, outbox, ret, wrun, pending, aborted, polls, says,
                   asks, got, ideal>>

\* No stop: what is held goes to a page that has drawn what it was given.
HandOver ==
    /\ pc = "hand"
    /\ IF drawing THEN pc' = Resume(ret) /\ UNCHANGED <<ret, drawing>>
                  ELSE Flush(ret, Resume(ret))
    /\ UNCHANGED <<pageSide, outbox, wrun, pending, aborted, polls, says, asks, got, ideal>>

\* GameHost::call: something said, a line asked for, or another host call.
Call ==
    /\ pc = "call"
    /\ \/ says < MaxSays /\ pc' = "load" /\ ret' = "emit"
          /\ UNCHANGED <<drawing>>
       \/ asks < MaxReads /\ Flush("ask", "wantInput")
       \/ pc' = "returned" /\ UNCHANGED <<ret, drawing>>
    /\ UNCHANGED <<pageSide, outbox, wrun, pending, aborted, polls, says, asks, got, ideal>>

\* emit(), past its poll: hold the event, then give it up or wait.
Emit ==
    /\ pc = "emit"
    /\ says' = says + 1
    /\ \E k \in Kinds :
         LET e == [kind |-> k, run |-> wrun, n |-> says']
         IN  pending' = Hold(pending, e) /\ ideal' = DrawRow(ideal, e)
    /\ \/ ~drawing /\ drawing' = TRUE /\ pc' = "post" /\ ret' = "said"
       \/ drawing /\ Full(pending') /\ pc' = "await"
          /\ UNCHANGED <<ret, drawing>>
       \/ drawing /\ ~Full(pending') /\ pc' = "returned"
          /\ UNCHANGED <<ret, drawing>>
    /\ UNCHANGED <<pageSide, outbox, wrun, aborted, polls, asks, got>>

\* awaitDrawn, then flush.  The wait itself times out, so it always returns.
AwaitDrawn ==
    /\ pc = "await"
    /\ \/ drawing /\ pc' = "load" /\ ret' = "drawn" /\ UNCHANGED drawing
       \/ ~drawing /\ Flush("said", "returned")
    /\ UNCHANGED <<pageSide, outbox, wrun, pending, aborted, polls, says, asks, got, ideal>>

\* The host call has returned, and is polled after.
Returned ==
    /\ pc = "returned"
    /\ pc' = "load" /\ ret' = "after"
    /\ UNCHANGED <<pageSide, drawing, outbox, wrun, pending, aborted, polls, says,
                   asks, got, ideal>>

ArmKeeping ==                                           \* mutant: STATE left as it was
    /\ pc = "arm"
    /\ pc' = "parked"
    /\ UNCHANGED <<control, inbox, outbox, pageVars, ret, wrun, pending, aborted,
                   polls, says, asks, got, ideal>>

\* readLineSync: the request is posted, and only then is STATE stored over.
AskForLine ==
    /\ pc = "wantInput"
    /\ asks' = asks + 1
    /\ outbox' = Append(outbox, WantInput(asks'))
    /\ pc' = "arm"
    /\ UNCHANGED <<pageSide, drawing, ret, wrun, pending, aborted, polls, says, got, ideal>>

Arm ==
    /\ pc = "arm"
    /\ state' = "waiting"
    /\ pc' = "parked"
    /\ UNCHANGED <<abort, drawing, inbox, outbox, pageVars, ret, wrun, pending, aborted,
                   polls, says, asks, got, ideal>>

\* Atomics.wait returns: a line, or null once the input was closed.  Null
\* ends the script as a stop does, since only stop() closes the input.
Wake ==
    /\ pc = "parked" /\ state # "waiting"
    /\ got' = IF state = "closed" THEN got
              ELSE [line |-> answer, asked |-> [run |-> wrun, ask |-> asks]]
    /\ pc' = "returned"
    /\ UNCHANGED <<pageSide, drawing, outbox, ret, wrun, pending, aborted, polls, says,
                   asks, ideal>>

\* report(done) or report(error): what is held goes first.
End ==
    /\ pc = "end"
    /\ Flush("end", "report")
    /\ UNCHANGED <<pageSide, outbox, wrun, pending, aborted, polls, says, asks, got, ideal>>

Report ==
    /\ pc = "report"
    /\ \E t \in {"done", "error"} :
         /\ aborted => t = "done"
         /\ outbox' = Append(outbox, Ending(t))
    /\ pc' = "idle"
    /\ UNCHANGED <<pageSide, drawing, ret, wrun, pending, aborted, polls, says, asks,
                   got, ideal>>

Worker == \/ Post \/ TakeRun \/ Statement \/ Execute \/ HearStop \/ HearNoStop
          \/ HandOver \/ Call \/ Emit \/ AwaitDrawn \/ Returned
          \/ AskForLine \/ Arm \/ Wake \/ End \/ Report

-----------------------------------------------------------------------------
Next == Page \/ Worker

Spec == Init /\ [][Next]_vars

\* The worker's thread runs, the page takes its messages and timers, and a
\* visible page draws frames.  Nothing is assumed of the player.
Fairness ==
    /\ WF_vars(Worker)
    /\ WF_vars(HandleConsole) /\ WF_vars(HandleWantInput) /\ WF_vars(HandleEnding)
    /\ WF_vars(StopClose) /\ WF_vars(Frame) /\ WF_vars(Ticker)

FairSpec == Spec /\ Fairness

-----------------------------------------------------------------------------
(* Properties.                                                             *)

Stopped == \E i \in DOMAIN screen : screen[i].kind = "stopped"

\* Types, of all but the rows: `screen` and `ideal` hold what DrawAll returns.
SharedTypes ==
    /\ state \in {"waiting", "ready", "closed"}
    /\ abort \in BOOLEAN /\ drawing \in BOOLEAN
    /\ inbox \in Seq(Nat) /\ outbox \in Seq(Message)

PageTypes ==
    /\ run \in Nat /\ prompt \in Nat /\ answer \in Typed
    /\ busy \in BOOLEAN /\ awaiting \in BOOLEAN /\ stopping \in BOOLEAN
    /\ closing \in BOOLEAN /\ hidden \in BOOLEAN /\ releasing \in BOOLEAN
    /\ frame \in BOOLEAN /\ ticks \in Nat

WorkerTypes ==
    /\ pc \in {"idle", "stmt", "exec", "load", "hand", "post", "call", "emit",
               "await", "returned", "wantInput", "arm", "parked", "end", "report"}
    /\ ret \in {"tick", "before", "emit", "drawn", "after", "said", "ask", "end"}
    /\ pc \in {"load", "hand"} => ret \in {"tick", "before", "emit", "drawn", "after"}
    /\ wrun \in Nat /\ pending \in Seq(Row)
    /\ aborted \in BOOLEAN /\ polls \in 0..PollEvery
    /\ says \in Nat /\ asks \in Nat /\ got \in Delivered

TypeOK == SharedTypes /\ PageTypes /\ WorkerTypes

\* Nothing a script said is drawn below the notice that it was stopped, and
\* nothing of one run is drawn under the command of a later one.
StoppedIsSilent ==
    /\ \A i, j \in DOMAIN screen :
         i < j /\ screen[i].kind = "stopped" => screen[j].kind \notin Kinds \cup {"error"}
    /\ \A i \in DOMAIN screen : screen[i].run = run

\* The player is only asked for a line, or given the prompt back, under all the
\* output that led up to it: what the pacing held back and coalesced is on the
\* screen exactly as if every event had been drawn when it was said.
PromptAfterOutput == (awaiting \/ ~busy) /\ ~Stopped => screen = ideal

\* The line a ReadLine returns was typed at the prompt of that ReadLine, in
\* that run: an answer left in the buffer is never taken for a new one.
LineReachesItsAsk == got.line = got.asked

\* A run is only cut short while the page has it stopped: the flag of a stop
\* that came too late for one run never ends the next.
OnlyTheStoppedRunAborts == pc # "idle" /\ aborted => stopping

\* A script that outruns the display holds a bounded amount of output.
HeldOutputBounded == Len(pending) <= MaxPending

\* A script that waits for the display, timing out and polling in between,
\* goes on, in a hidden tab too.
Stalled == pc = "await" \/ (pc \in {"load", "hand"} /\ ret = "drawn")
StallEnds == Stalled ~> ~Stalled

\* Ctrl+B gets the prompt back, out of a loop that never calls the host too,
\* unless a ReadLine armed its wait over the input it closed.
ArmedOver == pc = "parked" /\ state = "waiting"
StopEndsRun == stopping ~> ~stopping \/ ArmedOver

\* "Waking a worker that was not parked costs nothing" (main.ts, stop), and "the
\* stop lands at the next statement either way" (host.rs): every stop ends the run.
EveryStopEndsRun == stopping ~> ~stopping
=============================================================================
