--------------------------- MODULE TerminalProofs ---------------------------
(***************************************************************************)
(* Proofs about Terminal, for every number of runs, events and reads, every *)
(* MAX_PENDING and every polling interval.                                  *)
(*                                                                          *)
(* The properties hold because page and worker pass one run between them    *)
(* like a token: it is posted, executing or reported, never two of these    *)
(* (RunInv).  From that, a stop's flag is only read while the page still    *)
(* holds the run stopped, and a line is only delivered to the ask whose     *)
(* prompt is shown (InputInv).  What the screen lacks of what was said is   *)
(* in the batches on their way and in what is held, until a stop makes the  *)
(* page draw nothing more (ScreenInv).                                      *)
(***************************************************************************)
EXTENDS Terminal, Induction

IsEnding(m) == m.type \in {"done", "error"}
IsAsk(m) == m.type = "wantInput"

\* One run is out at a time, and an ending is the last thing its worker sends.
RunInv ==
    /\ ~busy => outbox = <<>>
    /\ pc # "idle" => inbox = <<>> /\ busy /\ wrun = run
    /\ inbox # <<>> => inbox = <<run>> /\ busy
    /\ \A i \in DOMAIN outbox : IsEnding(outbox[i]) =>
         i = Len(outbox) /\ pc = "idle" /\ inbox = <<>>
    /\ (pc # "idle" \/ inbox # <<>>) /\ abort => stopping
    /\ pc # "idle" /\ aborted => stopping

\* A prompt is on its way or shown only for the ask the worker is parked on.
InputInv ==
    /\ \A i \in DOMAIN outbox : IsAsk(outbox[i]) /\ ~stopping =>
         /\ outbox[i].ask = asks /\ ~awaiting
         /\ pc \in {"arm", "parked"} /\ (pc = "parked" => state = "waiting")
         /\ \A j \in DOMAIN outbox : IsAsk(outbox[j]) => i = j
    /\ awaiting =>
         /\ prompt = asks /\ (~stopping \/ closing)
         /\ pc \in {"arm", "parked"} /\ (pc = "parked" => state = "waiting")
    /\ closing => stopping
    /\ pc = "parked" /\ state = "ready" => answer = [run |-> wrun, ask |-> asks]
    /\ LineReachesItsAsk

\* Output is only held at its limit on the way through awaitDrawn.
HeldInv ==
    /\ Len(pending) <= MaxPending
    /\ Len(pending) = MaxPending =>
         \/ pc = "await"
         \/ pc \in {"load", "hand", "post"} /\ ret = "drawn"
         \/ pc = "post" /\ ret = "said"

\* What taking a message leaves of a queue.
LEMMA TailElements ==
  ASSUME NEW s \in Seq(Message), s # <<>>
  PROVE  /\ Tail(s) \in Seq(Message) /\ Len(Tail(s)) = Len(s) - 1
         /\ \A i \in DOMAIN Tail(s) : i + 1 \in DOMAIN s /\ Tail(s)[i] = s[i + 1]
  OBVIOUS

\* What posting a message makes of a queue.
LEMMA AppendElements ==
  ASSUME NEW s \in Seq(Message), NEW m \in Message
  PROVE  /\ Append(s, m) \in Seq(Message)
         /\ Len(Append(s, m)) = Len(s) + 1 /\ Append(s, m)[Len(s) + 1] = m
         /\ \A i \in 1..Len(s) : Append(s, m)[i] = s[i]
  OBVIOUS

-----------------------------------------------------------------------------
\* Every variable of the page, the worker and the control block keeps its type.
THEOREM TypeCorrect == Spec => []TypeOK
<1>1. Init => TypeOK
  <2> SUFFICES ASSUME Init PROVE TypeOK
    OBVIOUS
  <2>1. inbox \in Seq(Nat) /\ outbox \in Seq(Message) /\ pending \in Seq(Row)
    BY DEF Init
  <2>2. answer \in Typed /\ got \in Delivered
    BY DEF Init, Typed, Delivered
  <2>3. polls \in 0..PollEvery
    BY BoundsAssumption DEF Init
  <2>4. SharedTypes
    BY <2>1 DEF Init, SharedTypes
  <2>5. PageTypes
    BY <2>2 DEF Init, PageTypes
  <2>6. WorkerTypes
    BY <2>1, <2>2, <2>3 DEF Init, WorkerTypes
  <2> QED
    BY <2>4, <2>5, <2>6 DEF TypeOK
<1>2. TypeOK /\ [Next]_vars => TypeOK'
  <2> SUFFICES ASSUME TypeOK, [Next]_vars PROVE TypeOK'
    OBVIOUS
  <2>p. UNCHANGED pageVars => PageTypes'
    BY DEF TypeOK, PageTypes, pageVars
  <2>w. UNCHANGED workerVars => WorkerTypes'
    BY DEF TypeOK, WorkerTypes, workerVars
  <2> USE BoundsAssumption DEF TypeOK, SharedTypes, control, pageSide
  <2>1. CASE StartRun
    <3>1. inbox' \in Seq(Nat) /\ run' \in Nat
      BY <2>1 DEF StartRun, PageTypes
    <3>2. PageTypes'
      BY <2>1, <3>1 DEF StartRun, ClearStop, ReleaseWorker, PageTypes
    <3> QED
      BY <2>1, <3>1, <3>2, <2>w DEF StartRun, ClearStop, ReleaseWorker
  <2>2. CASE TypeLine
    BY <2>2, <2>w DEF TypeLine, Typed, PageTypes
  <2>3. CASE StopFlag
    BY <2>3, <2>w DEF StopFlag, ReleaseWorker, PageTypes
  <2>4. CASE StopClose
    BY <2>4, <2>w DEF StopClose, PageTypes
  <2>5. CASE HandleConsole
    <3>1. outbox' \in Seq(Message)
      BY <2>5 DEF HandleConsole
    <3>2. PageTypes'
      BY <2>5 DEF HandleConsole, ScheduleRelease, PageTypes
    <3> QED
      BY <2>5, <3>1, <3>2, <2>w DEF HandleConsole
  <2>6. CASE HandleWantInput
    <3>1. outbox' \in Seq(Message) /\ Head(outbox) \in Message
      BY <2>6 DEF HandleWantInput
    <3>2. Head(outbox).ask \in Nat
      BY <2>6, <3>1 DEF Message
    <3>3. PageTypes'
      BY <2>6, <3>2 DEF HandleWantInput, PageTypes
    <3> QED
      BY <2>6, <3>1, <3>2, <3>3, <2>w DEF HandleWantInput
  <2>7. CASE HandleEnding
    <3>1. outbox' \in Seq(Message)
      BY <2>7 DEF HandleEnding
    <3>2. PageTypes'
      BY <2>7 DEF HandleEnding, PageTypes
    <3> QED
      BY <2>7, <3>1, <3>2, <2>w DEF HandleEnding
  <2>8. CASE Frame
    BY <2>8, <2>w DEF Frame, ReleaseWorker, PageTypes
  <2>9. CASE Ticker
    <3>1. ticks' \in Nat
      BY <2>9 DEF Ticker, PageTypes
    <3>2. PageTypes'
      BY <2>9, <3>1 DEF Ticker, ReleaseWorker, PageTypes
    <3> QED
      BY <2>9, <3>1, <3>2, <2>w DEF Ticker, ReleaseWorker
  <2>10. CASE Hide
    <3>1. ticks' \in Nat
      BY <2>10 DEF Hide, PageTypes
    <3>2. PageTypes'
      BY <2>10, <3>1 DEF Hide, PageTypes
    <3> QED
      BY <2>10, <3>1, <3>2, <2>w DEF Hide
  <2>11. CASE Show
    BY <2>11, <2>w DEF Show, PageTypes
  <2>12. CASE Post
    <3>1. Console(pending) \in Message
      BY <2>12 DEF Console, Message, WorkerTypes
    <3>2. outbox' \in Seq(Message)
      BY <2>12, <3>1 DEF Post
    <3>3. WorkerTypes'
      BY <2>12 DEF Post, Resume, WorkerTypes
    <3> QED
      BY <2>12, <3>1, <3>2, <3>3, <2>p DEF Post
  <2>13. CASE TakeRun
    <3>1. inbox' \in Seq(Nat) /\ wrun' \in Nat
      BY <2>13 DEF TakeRun
    <3>2. polls' \in 0..PollEvery
      BY <2>13 DEF TakeRun
    <3>3. WorkerTypes'
      BY <2>13, <3>1, <3>2 DEF TakeRun, WorkerTypes
    <3> QED
      BY <2>13, <3>1, <3>2, <3>3, <2>p DEF TakeRun
  <2>14. CASE Statement
    BY <2>14, <2>p DEF Statement, PollDue, WorkerTypes
  <2>15. CASE Execute
    BY <2>15, <2>p DEF Execute, WorkerTypes
  <2>16. CASE HearStop
    <3>1. pending' \in Seq(Row)
      BY <2>16 DEF HearStop
    <3>2. aborted' \in BOOLEAN
      BY <2>16 DEF HearStop, Latches, WorkerTypes
    <3>3. pc' \in {"stmt", "call", "returned"}
      BY <2>16 DEF HearStop, WorkerTypes
    <3>4. WorkerTypes'
      BY <2>16, <3>1, <3>2, <3>3 DEF HearStop, WorkerTypes
    <3> QED
      BY <2>16, <3>1, <3>2, <3>3, <3>4, <2>p DEF HearStop
  <2>17. CASE HearNoStop
    BY <2>17, <2>p DEF HearNoStop, WorkerTypes
  <2>18. CASE HandOver
    BY <2>18, <2>p DEF HandOver, Resume, Flush, WorkerTypes
  <2>19. CASE Call
    BY <2>19, <2>p DEF Call, Flush, WorkerTypes
  <2>20. CASE Emit
    <3>1. says' \in Nat
      BY <2>20 DEF Emit, WorkerTypes
    <3>2. pending' \in Seq(Row)
      <4>1. PICK k \in Kinds : pending' = Hold(pending, [kind |-> k, run |-> wrun, n |-> says'])
        BY <2>20 DEF Emit
      <4>2. [kind |-> k, run |-> wrun, n |-> says'] \in Row
        BY <3>1 DEF Row, RowKinds, WorkerTypes
      <4> QED
        BY <4>1, <4>2 DEF Hold, WorkerTypes
    <3>3. WorkerTypes'
      BY <2>20, <3>1, <3>2 DEF Emit, WorkerTypes
    <3>4. SharedTypes'
      BY <2>20 DEF Emit
    <3> QED
      BY <2>20, <2>p, <3>3, <3>4 DEF Emit
  <2>21. CASE AwaitDrawn
    BY <2>21, <2>p DEF AwaitDrawn, Flush, WorkerTypes
  <2>22. CASE Returned
    BY <2>22, <2>p DEF Returned, WorkerTypes
  <2>23. CASE AskForLine
    BY <2>23, <2>p DEF AskForLine, Message, WantInput, WorkerTypes
  <2>24. CASE Arm
    BY <2>24, <2>p DEF Arm, WorkerTypes
  <2>25. CASE Wake
    <3>1. got' \in Delivered
      BY <2>25 DEF Wake, Typed, Delivered, PageTypes, WorkerTypes
    <3>2. WorkerTypes'
      BY <2>25, <3>1 DEF Wake, WorkerTypes
    <3> QED
      BY <2>25, <3>1, <3>2, <2>p DEF Wake
  <2>26. CASE End
    BY <2>26, <2>p DEF End, Flush, WorkerTypes
  <2>27. CASE Report
    BY <2>27, <2>p DEF Report, Message, Ending, WorkerTypes
  <2>28. CASE UNCHANGED vars
    BY <2>28, <2>w, <2>p DEF vars, SharedTypes
  <2> QED
    BY <2>1, <2>2, <2>3, <2>4, <2>5, <2>6, <2>7, <2>8, <2>9, <2>10, <2>11,
       <2>12, <2>13, <2>14, <2>15, <2>16, <2>17, <2>18, <2>19, <2>20, <2>21,
       <2>22, <2>23, <2>24, <2>25, <2>26, <2>27, <2>28 DEF Next, Page,
       Worker
<1>3. QED
  BY <1>1, <1>2, PTL DEF Spec

\* A step of either side passes the run on, or keeps it where it is.
LEMMA RunInvStep ==
  ASSUME TypeOK, RunInv, [Next]_vars
  PROVE  RunInv'
<1> USE BoundsAssumption DEF TypeOK, SharedTypes, PageTypes, WorkerTypes,
        RunInv, IsEnding, control, pageVars, workerVars, pageSide
<1>1. CASE StartRun
  <2>1. inbox = <<>> /\ outbox = <<>> /\ pc = "idle"
    BY <1>1 DEF StartRun
  <2>2. inbox' = <<run'>>
    BY <1>1, <2>1 DEF StartRun
  <2> QED
    BY <1>1, <2>1, <2>2 DEF StartRun, ClearStop, ReleaseWorker
<1>2. CASE TypeLine
  BY <1>2 DEF TypeLine
<1>3. CASE StopFlag
  BY <1>3 DEF StopFlag, ReleaseWorker
<1>4. CASE StopClose
  BY <1>4 DEF StopClose
<1>5. CASE HandleConsole
  <2>1. /\ Len(outbox') = Len(outbox) - 1
        /\ \A i \in DOMAIN outbox' : i + 1 \in DOMAIN outbox /\ outbox'[i] = outbox[i + 1]
    BY <1>5, TailElements DEF HandleConsole
  <2> QED
    BY <1>5, <2>1 DEF HandleConsole, ScheduleRelease
<1>6. CASE HandleWantInput
  <2>1. /\ Len(outbox') = Len(outbox) - 1
        /\ \A i \in DOMAIN outbox' : i + 1 \in DOMAIN outbox /\ outbox'[i] = outbox[i + 1]
    BY <1>6, TailElements DEF HandleWantInput
  <2> QED
    BY <1>6, <2>1 DEF HandleWantInput
<1>7. CASE HandleEnding
  BY <1>7 DEF HandleEnding
<1>8. CASE Frame
  BY <1>8 DEF Frame, ReleaseWorker
<1>9. CASE Ticker
  BY <1>9 DEF Ticker, ReleaseWorker
<1>10. CASE Hide
  BY <1>10 DEF Hide
<1>11. CASE Show
  BY <1>11 DEF Show
<1>12. CASE Post
  <2>1. /\ Len(outbox') = Len(outbox) + 1 /\ outbox'[Len(outbox) + 1] = Console(pending)
        /\ \A i \in 1..Len(outbox) : outbox'[i] = outbox[i]
        /\ DOMAIN outbox = 1..Len(outbox) /\ DOMAIN outbox' = 1..Len(outbox) + 1
    <3>1. Console(pending) \in Message
      BY DEF Console, Message
    <3> QED
      BY <1>12, <3>1, AppendElements DEF Post
  <2>2. pc' \in {"exec", "call", "emit", "await", "stmt", "returned", "wantInput", "report"}
    BY <1>12 DEF Post, Resume
  <2>3. ~IsEnding(Console(pending)) /\ ~IsAsk(Console(pending))
    BY DEF Console, IsEnding, IsAsk
  <2> HIDE DEF IsAsk, IsEnding
  <2> QED
    BY <1>12, <2>1, <2>2, <2>3 DEF Post
<1>13. CASE TakeRun
  BY <1>13 DEF TakeRun
<1>14. CASE Statement
  BY <1>14 DEF Statement, PollDue
<1>15. CASE Execute
  BY <1>15 DEF Execute
<1>16. CASE HearStop
  BY <1>16 DEF HearStop, Latches
<1>17. CASE HearNoStop
  BY <1>17 DEF HearNoStop
<1>18. CASE HandOver
  BY <1>18 DEF HandOver, Resume, Flush
<1>19. CASE Call
  BY <1>19 DEF Call, Flush
<1>20. CASE Emit
  BY <1>20 DEF Emit, Hold, Full
<1>21. CASE AwaitDrawn
  BY <1>21 DEF AwaitDrawn, Flush
<1>22. CASE Returned
  BY <1>22 DEF Returned
<1>23. CASE AskForLine
  BY <1>23 DEF AskForLine, Message, WantInput
<1>24. CASE Arm
  BY <1>24 DEF Arm
<1>25. CASE Wake
  BY <1>25 DEF Wake
<1>26. CASE End
  BY <1>26 DEF End, Flush
<1>27. CASE Report
  BY <1>27 DEF Report, Message, Ending
<1>28. CASE UNCHANGED vars
  BY <1>28 DEF vars
<1> QED
  BY <1>1, <1>2, <1>3, <1>4, <1>5, <1>6, <1>7, <1>8, <1>9, <1>10, <1>11,
     <1>12, <1>13, <1>14, <1>15, <1>16, <1>17, <1>18, <1>19, <1>20, <1>21,
     <1>22, <1>23, <1>24, <1>25, <1>26, <1>27, <1>28 DEF Next, Page, Worker

\* A step of either side keeps prompts, asks and answers together.
LEMMA InputInvStep ==
  ASSUME TypeOK, RunInv, InputInv, [Next]_vars
  PROVE  InputInv'
<1> USE BoundsAssumption DEF TypeOK, SharedTypes, PageTypes, WorkerTypes,
        RunInv, InputInv, LineReachesItsAsk, IsAsk, IsEnding,
        control, pageVars, workerVars, pageSide
<1>1. CASE StartRun
  BY <1>1 DEF StartRun, ClearStop, ReleaseWorker
<1>2. CASE TypeLine
  BY <1>2 DEF TypeLine
<1>3. CASE StopFlag
  BY <1>3 DEF StopFlag, ReleaseWorker
<1>4. CASE StopClose
  BY <1>4 DEF StopClose
<1>5. CASE HandleConsole
  <2>1. /\ Len(outbox') = Len(outbox) - 1
        /\ \A i \in DOMAIN outbox' : i + 1 \in DOMAIN outbox /\ outbox'[i] = outbox[i + 1]
    BY <1>5, TailElements DEF HandleConsole
  <2> QED
    BY <1>5, <2>1 DEF HandleConsole, ScheduleRelease
<1>6. CASE HandleWantInput
  <2>1. /\ Len(outbox') = Len(outbox) - 1
        /\ \A i \in DOMAIN outbox' : i + 1 \in DOMAIN outbox /\ outbox'[i] = outbox[i + 1]
    BY <1>6, TailElements DEF HandleWantInput
  <2>2. /\ 1 \in DOMAIN outbox /\ outbox[1] = Head(outbox) /\ IsAsk(outbox[1])
        /\ \A i \in DOMAIN outbox' : i + 1 # 1
    BY <1>6, <2>1 DEF HandleWantInput
  <2>3. ~stopping => \A i \in DOMAIN outbox' : ~IsAsk(outbox'[i])
    BY <2>1, <2>2
  <2>4. /\ ~stopping => awaiting' /\ prompt' = outbox[1].ask
        /\ stopping => awaiting' = awaiting /\ prompt' = prompt
        /\ UNCHANGED <<state, pc, asks, wrun, answer, got, stopping, closing>>
    BY <1>6, <2>2 DEF HandleWantInput
  <2>5. ~stopping => outbox[1].ask = asks /\ pc \in {"arm", "parked"}
                     /\ (pc = "parked" => state = "waiting")
    BY <2>2
  <2>6. \A i \in DOMAIN outbox' : ~(IsAsk(outbox'[i]) /\ ~stopping')
    BY <2>3, <2>4
  <2>7. CASE stopping
    BY <2>4, <2>6, <2>7 DEF IsAsk
  <2>8. CASE ~stopping
    BY <2>4, <2>5, <2>6, <2>8 DEF IsAsk
  <2> QED
    BY <2>7, <2>8
<1>7. CASE HandleEnding
  BY <1>7 DEF HandleEnding
<1>8. CASE Frame
  BY <1>8 DEF Frame, ReleaseWorker
<1>9. CASE Ticker
  BY <1>9 DEF Ticker, ReleaseWorker
<1>10. CASE Hide
  BY <1>10 DEF Hide
<1>11. CASE Show
  BY <1>11 DEF Show
<1>12. CASE Post
  <2>1. /\ Len(outbox') = Len(outbox) + 1 /\ outbox'[Len(outbox) + 1] = Console(pending)
        /\ \A i \in 1..Len(outbox) : outbox'[i] = outbox[i]
        /\ DOMAIN outbox = 1..Len(outbox) /\ DOMAIN outbox' = 1..Len(outbox) + 1
    <3>1. Console(pending) \in Message
      BY DEF Console, Message
    <3> QED
      BY <1>12, <3>1, AppendElements DEF Post
  <2>2. pc' \in {"exec", "call", "emit", "await", "stmt", "returned", "wantInput", "report"}
    BY <1>12 DEF Post, Resume
  <2>3. ~IsEnding(Console(pending)) /\ ~IsAsk(Console(pending))
    BY DEF Console, IsEnding, IsAsk
  <2> HIDE DEF IsAsk, IsEnding
  <2> QED
    BY <1>12, <2>1, <2>2, <2>3 DEF Post
<1>13. CASE TakeRun
  BY <1>13 DEF TakeRun
<1>14. CASE Statement
  BY <1>14 DEF Statement, PollDue
<1>15. CASE Execute
  BY <1>15 DEF Execute
<1>16. CASE HearStop
  BY <1>16 DEF HearStop, Latches
<1>17. CASE HearNoStop
  BY <1>17 DEF HearNoStop
<1>18. CASE HandOver
  BY <1>18 DEF HandOver, Resume, Flush
<1>19. CASE Call
  BY <1>19 DEF Call, Flush
<1>20. CASE Emit
  BY <1>20 DEF Emit, Hold, Full
<1>21. CASE AwaitDrawn
  BY <1>21 DEF AwaitDrawn, Flush
<1>22. CASE Returned
  BY <1>22 DEF Returned
<1>23. CASE AskForLine
  BY <1>23 DEF AskForLine, Message, WantInput
<1>24. CASE Arm
  BY <1>24 DEF Arm
<1>25. CASE Wake
  BY <1>25 DEF Wake
<1>26. CASE End
  BY <1>26 DEF End, Flush
<1>27. CASE Report
  BY <1>27 DEF Report, Message, Ending
<1>28. CASE UNCHANGED vars
  BY <1>28 DEF vars
<1> QED
  BY <1>1, <1>2, <1>3, <1>4, <1>5, <1>6, <1>7, <1>8, <1>9, <1>10, <1>11,
     <1>12, <1>13, <1>14, <1>15, <1>16, <1>17, <1>18, <1>19, <1>20, <1>21,
     <1>22, <1>23, <1>24, <1>25, <1>26, <1>27, <1>28 DEF Next, Page, Worker

\* A step of either side holds no more than the limit.
LEMMA HeldInvStep ==
  ASSUME TypeOK, HeldInv, [Next]_vars
  PROVE  HeldInv'
<1> USE BoundsAssumption DEF TypeOK, SharedTypes, PageTypes, WorkerTypes,
        HeldInv, control, pageVars, workerVars, pageSide
<1>1. CASE StartRun
  BY <1>1 DEF StartRun, ClearStop, ReleaseWorker
<1>2. CASE TypeLine
  BY <1>2 DEF TypeLine
<1>3. CASE StopFlag
  BY <1>3 DEF StopFlag, ReleaseWorker
<1>4. CASE StopClose
  BY <1>4 DEF StopClose
<1>5. CASE HandleConsole
  BY <1>5 DEF HandleConsole, ScheduleRelease
<1>6. CASE HandleWantInput
  BY <1>6 DEF HandleWantInput
<1>7. CASE HandleEnding
  BY <1>7 DEF HandleEnding
<1>8. CASE Frame
  BY <1>8 DEF Frame, ReleaseWorker
<1>9. CASE Ticker
  BY <1>9 DEF Ticker, ReleaseWorker
<1>10. CASE Hide
  BY <1>10 DEF Hide
<1>11. CASE Show
  BY <1>11 DEF Show
<1>12. CASE Post
  BY <1>12 DEF Post, Resume
<1>13. CASE TakeRun
  BY <1>13 DEF TakeRun
<1>14. CASE Statement
  BY <1>14 DEF Statement, PollDue
<1>15. CASE Execute
  BY <1>15 DEF Execute
<1>16. CASE HearStop
  BY <1>16 DEF HearStop, Latches
<1>17. CASE HearNoStop
  BY <1>17 DEF HearNoStop
<1>18. CASE HandOver
  BY <1>18 DEF HandOver, Resume, Flush
<1>19. CASE Call
  BY <1>19 DEF Call, Flush
<1>20. CASE Emit
  BY <1>20 DEF Emit, Hold, Full
<1>21. CASE AwaitDrawn
  BY <1>21 DEF AwaitDrawn, Flush
<1>22. CASE Returned
  BY <1>22 DEF Returned
<1>23. CASE AskForLine
  BY <1>23 DEF AskForLine
<1>24. CASE Arm
  BY <1>24 DEF Arm
<1>25. CASE Wake
  BY <1>25 DEF Wake
<1>26. CASE End
  BY <1>26 DEF End, Flush
<1>27. CASE Report
  BY <1>27 DEF Report
<1>28. CASE UNCHANGED vars
  BY <1>28 DEF vars
<1> QED
  BY <1>1, <1>2, <1>3, <1>4, <1>5, <1>6, <1>7, <1>8, <1>9, <1>10, <1>11,
     <1>12, <1>13, <1>14, <1>15, <1>16, <1>17, <1>18, <1>19, <1>20, <1>21,
     <1>22, <1>23, <1>24, <1>25, <1>26, <1>27, <1>28 DEF Next, Page, Worker

-----------------------------------------------------------------------------
\* The stop of one run never ends another: a run is only aborted while the page
\* has that run stopped, whatever the interleaving of clearStop, the store to
\* ABORT and the worker's polls.
THEOREM OnlyTheStoppedAborts == Spec => []OnlyTheStoppedRunAborts
<1>1. Init => RunInv
  BY DEF Init, RunInv
<1>2. TypeOK /\ RunInv /\ [Next]_vars => RunInv'
  BY RunInvStep
<1>3. RunInv => OnlyTheStoppedRunAborts
  BY DEF RunInv, OnlyTheStoppedRunAborts
<1>4. QED
  BY <1>1, <1>2, <1>3, TypeCorrect, PTL DEF Spec

\* A line read is one typed at the prompt of that ReadLine: the answer buffer is
\* only read when the page filled it for the ask the worker is parked on.
THEOREM LinesReachTheirAsks == Spec => []LineReachesItsAsk
<1>1. Init => RunInv /\ InputInv
  BY DEF Init, RunInv, InputInv, LineReachesItsAsk
<1>2. TypeOK /\ RunInv /\ InputInv /\ [Next]_vars => RunInv' /\ InputInv'
  BY RunInvStep, InputInvStep
<1>3. InputInv => LineReachesItsAsk
  BY DEF InputInv
<1>4. QED
  BY <1>1, <1>2, <1>3, TypeCorrect, PTL DEF Spec

\* What emit holds back never passes MAX_PENDING, whatever the page does.
THEOREM HeldIsBounded == Spec => []HeldOutputBounded
<1>1. Init => HeldInv
  BY BoundsAssumption DEF Init, HeldInv
<1>2. TypeOK /\ HeldInv /\ [Next]_vars => HeldInv'
  BY HeldInvStep
<1>3. HeldInv => HeldOutputBounded
  BY DEF HeldInv, HeldOutputBounded
<1>4. QED
  BY <1>1, <1>2, <1>3, TypeCorrect, PTL DEF Spec

-----------------------------------------------------------------------------
(* DrawAll, a fold over the events in their order.                         *)

\* Drawing a row leaves rows.
LEMMA DrawRowRows ==
  ASSUME NEW R, NEW rows \in Seq(R), NEW e \in R
  PROVE  DrawRow(rows, e) \in Seq(R)
<1>1. <<>> \in Seq(R) /\ Append(rows, e) \in Seq(R)
  OBVIOUS
<1>2. rows # <<>> => [rows EXCEPT ![Len(rows)] = e] \in Seq(R)
  OBVIOUS
<1> QED
  BY <1>1, <1>2 DEF DrawRow

\* The event a fold takes out first is the last; f is what each set of events draws.
Latest(s) == CHOOSE i \in s : \A j \in s : i >= j
IsDrawing(f, rows, events) ==
    f = [s \in SUBSET DOMAIN events |->
            IF s = {} THEN rows ELSE DrawRow(f[s \ {Latest(s)}], events[Latest(s)])]

\* d is what is on the screen before and after each event.
IsDrawn(d, rows, events) ==
    /\ d[0] = rows /\ d[Len(events)] = DrawAll(rows, events)
    /\ \A i \in 1 .. Len(events) : d[i] = DrawRow(d[i - 1], events[i])

\* DrawAll, with the folds it is made of expanded.
LEMMA DrawAllIsDrawing ==
  ASSUME NEW rows, NEW events
  PROVE  DrawAll(rows, events) = (CHOOSE f : IsDrawing(f, rows, events))[DOMAIN events]
  BY DEF DrawAll, FoldLeft, MapThenFoldSet, IsDrawing, Latest, Max

\* Of some of the events, the fold takes the last.
LEMMA LastIs ==
  ASSUME NEW n \in Nat, NEW s \in SUBSET (1 .. n), s # {}
  PROVE  Latest(s) \in s /\ \A j \in s : Latest(s) >= j
<1>1. s \subseteq 0 .. n
  OBVIOUS
<1>2. PICK m \in s : \A k \in s : k <= m
  BY <1>1, GreatestIs
<1>3. \A j \in s : m >= j
  BY <1>2
<1> QED
  BY <1>3 DEF Latest

\* The first events, and the first but one.
LEMMA LastOfFirst ==
  ASSUME NEW i \in Nat, i # 0
  PROVE  Latest(1 .. i) = i /\ (1 .. i) \ {i} = 1 .. i - 1
<1>1. 1 .. i # {} /\ i \in 1 .. i
  OBVIOUS
<1>2. Latest(1 .. i) \in 1 .. i /\ Latest(1 .. i) >= i
  <2> DEFINE s == 1 .. i
  <2>1. s \in SUBSET (1 .. i) /\ s # {} /\ i \in s
    BY <1>1
  <2> HIDE DEF s
  <2>2. Latest(s) \in s /\ \A j \in s : Latest(s) >= j
    BY <2>1, LastIs
  <2> QED
    BY <2>1, <2>2 DEF s
<1> QED
  BY <1>2

\* The fold over the events is defined.
LEMMA DrawingDefined ==
  ASSUME NEW R, NEW rows \in Seq(R), NEW events \in Seq(R)
  PROVE  \E f \in [SUBSET DOMAIN events -> Seq(R)] : IsDrawing(f, rows, events)
<1> DEFINE D == DOMAIN events
           take == [s \in SUBSET D |-> Latest(s)]
           next == [i \in D |-> [v \in Seq(R) |-> DrawRow(v, events[i])]]
<1>1. D = 1 .. Len(events) /\ Len(events) \in Nat
  OBVIOUS
<1>2. IsFiniteSet(D)
  BY <1>1, FS_Interval
<1>3. \A s \in SUBSET D : s # {} => take[s] \in s
  <2> SUFFICES ASSUME NEW s \in SUBSET D, s # {} PROVE Latest(s) \in s
    OBVIOUS
  <2> QED
    BY <1>1, LastIs
<1>4. \A i \in D, v \in Seq(R) : next[i][v] = DrawRow(v, events[i]) /\ next[i][v] \in Seq(R)
  <2> SUFFICES ASSUME NEW i \in D, NEW v \in Seq(R)
               PROVE  DrawRow(v, events[i]) \in Seq(R)
    OBVIOUS
  <2>1. events[i] \in R
    OBVIOUS
  <2> QED
    BY <2>1, DrawRowRows
<1>5. PICK f \in [SUBSET D -> Seq(R)] : IsFold(f, D, rows, take, next)
  <2> HIDE DEF take, next, D
  <2> QED
    BY <1>2, <1>3, <1>4, FoldDefined
<1>6. \A s \in SUBSET D : s # {} =>
        next[take[s]][f[s \ {take[s]}]] = DrawRow(f[s \ {Latest(s)}], events[Latest(s)])
  <2> SUFFICES ASSUME NEW s \in SUBSET D, s # {}
               PROVE  next[take[s]][f[s \ {take[s]}]]
                        = DrawRow(f[s \ {Latest(s)}], events[Latest(s)])
    OBVIOUS
  <2>1. take[s] = Latest(s) /\ Latest(s) \in D /\ f[s \ {Latest(s)}] \in Seq(R)
    <3>1. take[s] = Latest(s)
      OBVIOUS
    <3>2. take[s] \in s /\ s \ {Latest(s)} \in SUBSET D
      BY <1>3
    <3> HIDE DEF D, take, next
    <3> QED
      BY <3>1, <3>2
  <2> HIDE DEF D, take, next
  <2> QED
    BY <1>4, <2>1
<1>7. IsDrawing(f, rows, events)
  <2>1. f = [s \in SUBSET D |-> IF s = {} THEN rows ELSE next[take[s]][f[s \ {take[s]}]]]
    BY <1>5 DEF IsFold
  <2> HIDE DEF take, next
  <2> QED
    BY <1>6, <2>1 DEF IsDrawing
<1> QED
  BY <1>5, <1>7

\* DrawAll draws the events one at a time, each on what the last one left.
LEMMA DrawAllSteps ==
  ASSUME NEW R, NEW rows \in Seq(R), NEW events \in Seq(R)
  PROVE  \E d \in [0 .. Len(events) -> Seq(R)] : IsDrawn(d, rows, events)
<1> DEFINE f == CHOOSE f : IsDrawing(f, rows, events)
           n == Len(events)
           d == [i \in 0 .. n |-> f[1 .. i]]
<1>1. \E g : IsDrawing(g, rows, events)
  BY DrawingDefined
<1>2. IsDrawing(f, rows, events)
  BY <1>1
<1>3. DrawAll(rows, events) = f[DOMAIN events]
  BY DrawAllIsDrawing
<1>4. DOMAIN events = 1 .. n /\ n \in Nat /\ \A i \in 1 .. n : events[i] \in R
  OBVIOUS
<1> HIDE DEF f, n
<1>5. d[0] = rows
  <2>1. {} \in SUBSET DOMAIN events /\ 1 .. 0 = {}
    OBVIOUS
  <2>2. f[{}] = rows
    BY <1>2, <2>1 DEF IsDrawing
  <2> QED
    BY <1>4, <2>1, <2>2
<1>6. ASSUME NEW i \in 1 .. n PROVE d[i] = DrawRow(d[i - 1], events[i])
  <2>1. i \in Nat /\ i # 0 /\ i \in 0 .. n /\ i - 1 \in 0 .. n
    BY <1>4
  <2>2. 1 .. i \in SUBSET DOMAIN events /\ 1 .. i # {}
    <3>1. i <= n /\ i \in 1 .. i
      BY <1>4, <2>1
    <3>2. 1 .. i \subseteq 1 .. n
      BY <1>4, <2>1, <3>1
    <3> QED
      BY <1>4, <3>1, <3>2
  <2>3. Latest(1 .. i) = i /\ (1 .. i) \ {i} = 1 .. i - 1
    BY <2>1, LastOfFirst
  <2>4. f[1 .. i] = DrawRow(f[(1 .. i) \ {Latest(1 .. i)}], events[Latest(1 .. i)])
    BY <1>2, <2>2 DEF IsDrawing
  <2> QED
    BY <2>1, <2>3, <2>4
<1>7. d[n] = DrawAll(rows, events)
  BY <1>3, <1>4
<1>8. d \in [0 .. n -> Seq(R)]
  <2> DEFINE S == {i \in Nat : i <= n => d[i] \in Seq(R)}
  <2>1. 0 \in S
    BY <1>5, <1>4
  <2>2. ASSUME NEW i \in Nat, i \in S PROVE i + 1 \in S
    <3> SUFFICES ASSUME i + 1 <= n PROVE d[i + 1] \in Seq(R)
      OBVIOUS
    <3>1. d[i] \in Seq(R) /\ i + 1 \in 1 .. n /\ events[i + 1] \in R /\ (i + 1) - 1 = i
      <4> HIDE DEF d
      <4> QED
        BY <1>4, <2>2
    <3> HIDE DEF d
    <3>2. d[i + 1] = DrawRow(d[i], events[i + 1])
      BY <1>6, <3>1
    <3> QED
      BY <3>1, <3>2, DrawRowRows
  <2>3. Nat \subseteq S
    <3> HIDE DEF S
    <3> QED
      BY <2>1, <2>2, NatSetInduction
  <2>4. \A i \in 0 .. n : d[i] \in Seq(R)
    <3> HIDE DEF d
    <3> QED
      BY <1>4, <2>3
  <2>5. d = [i \in 0 .. n |-> d[i]]
    OBVIOUS
  <2> HIDE DEF d
  <2> QED
    BY <2>4, <2>5
<1>9. IsDrawn(d, rows, events)
  <2> HIDE DEF d
  <2> QED
    BY <1>5, <1>6, <1>7 DEF IsDrawn, n
<1> HIDE DEF d
<1> QED
  BY <1>8, <1>9 DEF n

\* What is drawn is rows again.
LEMMA DrawAllRows ==
  ASSUME NEW R, NEW rows \in Seq(R), NEW events \in Seq(R)
  PROVE  DrawAll(rows, events) \in Seq(R)
<1>1. PICK d \in [0 .. Len(events) -> Seq(R)] : IsDrawn(d, rows, events)
  BY DrawAllSteps
<1>2. Len(events) \in 0 .. Len(events)
  OBVIOUS
<1> QED
  BY <1>1, <1>2 DEF IsDrawn

\* No events change nothing.
LEMMA DrawNone ==
  ASSUME NEW R, NEW rows \in Seq(R)
  PROVE  DrawAll(rows, <<>>) = rows
<1>1. <<>> \in Seq(R) /\ Len(<<>>) = 0
  OBVIOUS
<1>2. PICK d \in [0 .. Len(<<>>) -> Seq(R)] : IsDrawn(d, rows, <<>>)
  BY <1>1, DrawAllSteps
<1> QED
  BY <1>1, <1>2 DEF IsDrawn

\* The last event is drawn on what the others draw, whatever it is.
LEMMA DrawAllButLast ==
  ASSUME NEW R, NEW rows \in Seq(R), NEW p \in Seq(R), NEW q \in Seq(R), NEW n \in Nat,
         Len(p) = n, Len(q) = n + 1, \A i \in 1 .. n : q[i] = p[i]
  PROVE  DrawAll(rows, q) = DrawRow(DrawAll(rows, p), q[n + 1])
<1>1. PICK d \in [0 .. n -> Seq(R)] : IsDrawn(d, rows, p)
  BY DrawAllSteps
<1>2. PICK c \in [0 .. n + 1 -> Seq(R)] : IsDrawn(c, rows, q)
  BY DrawAllSteps
<1>3. c[0] = d[0] /\ d[n] = DrawAll(rows, p) /\ c[n + 1] = DrawAll(rows, q)
  BY <1>1, <1>2 DEF IsDrawn
<1>4. \A i \in 1 .. n : d[i] = DrawRow(d[i - 1], p[i])
  BY <1>1 DEF IsDrawn
<1>5. \A i \in 1 .. n + 1 : c[i] = DrawRow(c[i - 1], q[i])
  BY <1>2 DEF IsDrawn
<1> DEFINE S == {i \in Nat : i <= n => c[i] = d[i]}
<1>6. 0 \in S
  BY <1>3
<1>7. ASSUME NEW i \in Nat, i \in S PROVE i + 1 \in S
  <2> SUFFICES ASSUME i + 1 <= n PROVE c[i + 1] = d[i + 1]
    OBVIOUS
  <2>1. i + 1 \in 1 .. n /\ i + 1 \in 1 .. n + 1 /\ (i + 1) - 1 = i /\ c[i] = d[i]
    BY <1>7
  <2>2. d[i + 1] = DrawRow(d[i], p[i + 1])
    BY <1>4, <2>1
  <2>3. c[i + 1] = DrawRow(c[i], q[i + 1])
    BY <1>5, <2>1
  <2> QED
    BY <2>1, <2>2, <2>3
<1>8. Nat \subseteq S
  <2> HIDE DEF S
  <2> QED
    BY <1>6, <1>7, NatSetInduction
<1>9. c[n] = d[n]
  BY <1>8
<1>10. n + 1 \in 1 .. n + 1 /\ (n + 1) - 1 = n
  OBVIOUS
<1> QED
  BY <1>3, <1>5, <1>9, <1>10

\* A replacing row drawn twice is drawn once: the second takes its place.
LEMMA ReplacedTwice ==
  ASSUME NEW R, NEW rows \in Seq(R), NEW a \in R, NEW b \in R,
         a.kind = "replace", b.kind = "replace"
  PROVE  DrawRow(DrawRow(rows, a), b) = DrawRow(rows, b)
<1>1. CASE rows = <<>>
  <2>1. DrawRow(rows, a) = <<a>> /\ DrawRow(rows, b) = <<b>>
    BY <1>1 DEF DrawRow
  <2>2. Len(<<a>>) = 1 /\ <<a>> # <<>> /\ [<<a>> EXCEPT ![1] = b] = <<b>>
    OBVIOUS
  <2>3. DrawRow(<<a>>, b) = [<<a>> EXCEPT ![Len(<<a>>)] = b]
    BY <2>2 DEF DrawRow
  <2> QED
    BY <2>1, <2>2, <2>3, Zenon
<1>2. CASE rows # <<>>
  <2> DEFINE once == [rows EXCEPT ![Len(rows)] = a]
  <2>1. DrawRow(rows, a) = once
    BY <1>2 DEF DrawRow
  <2>2. once \in Seq(R) /\ Len(once) = Len(rows) /\ once # <<>>
    BY <1>2
  <2>3. [once EXCEPT ![Len(rows)] = b] = [rows EXCEPT ![Len(rows)] = b]
    OBVIOUS
  <2> HIDE DEF once
  <2>4. DrawRow(once, b) = [once EXCEPT ![Len(rows)] = b]
    BY <2>2 DEF DrawRow
  <2>5. DrawRow(rows, b) = [rows EXCEPT ![Len(rows)] = b]
    BY <1>2 DEF DrawRow
  <2> QED
    BY <2>1, <2>3, <2>4, <2>5
<1> QED
  BY <1>1, <1>2

\* Holding an event back, over a replacing one too, comes to drawing it.
LEMMA HoldIsDrawn ==
  ASSUME NEW R, NEW rows \in Seq(R), NEW held \in Seq(R), NEW e \in R
  PROVE  /\ Hold(held, e) \in Seq(R)
         /\ DrawAll(rows, Hold(held, e)) = DrawRow(DrawAll(rows, held), e)
<1> DEFINE n == Len(held)
<1>0. n \in Nat /\ DOMAIN held = 1 .. n
  OBVIOUS
<1>1. CASE held # <<>> /\ e.kind = "replace" /\ held[n].kind = "replace"
  <2> DEFINE q == [held EXCEPT ![n] = e]
             p == SubSeq(held, 1, n - 1)
  <2>1. Hold(held, e) = q
    BY <1>1 DEF Hold
  <2> DEFINE m == n - 1
  <2>2. m \in Nat /\ n \in 1 .. n /\ held[n] \in R /\ m + 1 = n
    BY <1>1
  <2>3. p \in Seq(R) /\ Len(p) = m /\ \A i \in 1 .. m : p[i] = held[i]
    BY <2>2
  <2>4. q \in Seq(R) /\ Len(q) = m + 1 /\ q[m + 1] = e /\ \A i \in 1 .. m : q[i] = held[i]
    <3>1. q \in Seq(R) /\ Len(q) = n
      BY <2>2
    <3>2. q[n] = e /\ \A i \in 1 .. n : i # n => q[i] = held[i]
      BY <1>0, <2>2
    <3>3. \A i \in 1 .. m : i \in 1 .. n /\ i # n
      <4> HIDE DEF n
      <4> QED
        BY <1>0, <2>2
    <3> HIDE DEF q
    <3> QED
      BY <2>2, <3>1, <3>2, <3>3
  <2> HIDE DEF p, q, m
  <2>5. DrawAll(rows, q) = DrawRow(DrawAll(rows, p), e)
    <3>1. \A i \in 1 .. m : q[i] = p[i]
      BY <2>3, <2>4
    <3>2. DrawAll(rows, q) = DrawRow(DrawAll(rows, p), q[m + 1])
      BY <2>2, <2>3, <2>4, <3>1, DrawAllButLast
    <3> QED
      BY <2>4, <3>2
  <2>6. DrawAll(rows, held) = DrawRow(DrawAll(rows, p), held[n])
    <3>1. Len(held) = m + 1 /\ \A i \in 1 .. m : held[i] = p[i]
      BY <2>2, <2>3
    <3> HIDE DEF n
    <3>2. DrawAll(rows, held) = DrawRow(DrawAll(rows, p), held[m + 1])
      BY <2>2, <2>3, <3>1, DrawAllButLast
    <3> QED
      BY <2>2, <3>2
  <2>7. DrawAll(rows, p) \in Seq(R)
    BY <2>3, DrawAllRows
  <2>8. DrawRow(DrawRow(DrawAll(rows, p), held[n]), e) = DrawRow(DrawAll(rows, p), e)
    <3> HIDE DEF n
    <3> QED
      BY <1>1, <2>2, <2>7, ReplacedTwice
  <2> QED
    BY <2>1, <2>4, <2>5, <2>6, <2>8
<1>2. CASE ~(held # <<>> /\ e.kind = "replace" /\ held[n].kind = "replace")
  <2> DEFINE q == Append(held, e)
  <2>1. Hold(held, e) = q
    BY <1>2 DEF Hold
  <2>2. q \in Seq(R) /\ Len(q) = n + 1 /\ q[n + 1] = e /\ \A i \in 1 .. n : q[i] = held[i]
    OBVIOUS
  <2> HIDE DEF q
  <2>3. DrawAll(rows, q) = DrawRow(DrawAll(rows, held), q[n + 1])
    <3>1. Len(held) = n
      OBVIOUS
    <3> HIDE DEF n
    <3> QED
      BY <1>0, <2>2, <3>1, DrawAllButLast
  <2> QED
    BY <2>1, <2>2, <2>3
<1> QED
  BY <1>1, <1>2

-----------------------------------------------------------------------------
(* What the screen owes.                                                   *)

\* Once the messages in `box` and what is held are drawn, `rows` are `all`; v is
\* what is on the screen after each message.
Shows(v, rows, box, held, all) ==
    /\ v[0] = rows /\ all = DrawAll(v[Len(box)], held)
    /\ \A i \in 1 .. Len(box) : v[i] = DrawAll(v[i - 1], box[i].events)
Owes(rows, box, held, all) ==
    \E v \in [0 .. Len(box) -> Seq(Row)] : Shows(v, rows, box, held, all)

\* With nothing on its way there is nothing to draw.
LEMMA OwesNone ==
  ASSUME NEW rows \in Seq(Row)
  PROVE  \A all : Owes(rows, <<>>, <<>>, all) <=> all = rows
<1> SUFFICES ASSUME NEW all PROVE Owes(rows, <<>>, <<>>, all) <=> all = rows
  OBVIOUS
<1>1. Len(<<>>) = 0
  OBVIOUS
<1>2. DrawAll(rows, <<>>) = rows
  BY DrawNone
<1>3. ASSUME Owes(rows, <<>>, <<>>, all) PROVE all = rows
  BY <1>1, <1>2, <1>3 DEF Owes, Shows
<1>4. ASSUME all = rows PROVE Owes(rows, <<>>, <<>>, all)
  <2> DEFINE v == [i \in 0 .. 0 |-> rows]
  <2>1. v \in [0 .. Len(<<>>) -> Seq(Row)]
    BY <1>1
  <2>2. Shows(v, rows, <<>>, <<>>, all)
    BY <1>1, <1>2, <1>4 DEF Shows
  <2> QED
    BY <2>1, <2>2 DEF Owes
<1> QED
  BY <1>3, <1>4

\* Drawing the first message leaves the others owed.
LEMMA OwesTail ==
  ASSUME NEW rows, NEW box \in Seq(Message), box # <<>>, NEW held, NEW all,
         Owes(rows, box, held, all)
  PROVE  Owes(DrawAll(rows, Head(box).events), Tail(box), held, all)
<1>1. PICK v \in [0 .. Len(box) -> Seq(Row)] : Shows(v, rows, box, held, all)
  BY DEF Owes
<1> DEFINE t == Tail(box)
           w == [i \in 0 .. Len(t) |-> v[i + 1]]
           next == DrawAll(rows, Head(box).events)
<1>2. Len(box) \in Nat /\ Len(box) # 0 /\ Head(box) = box[1]
  OBVIOUS
<1>3. Len(t) = Len(box) - 1 /\ \A i \in 1 .. Len(t) : t[i] = box[i + 1] /\ i + 1 \in 1 .. Len(box)
  BY <1>2
<1>4. /\ v[0] = rows /\ all = DrawAll(v[Len(box)], held)
      /\ \A i \in 1 .. Len(box) : v[i] = DrawAll(v[i - 1], box[i].events)
  BY <1>1 DEF Shows
<1> HIDE DEF t
<1>5. w \in [0 .. Len(t) -> Seq(Row)]
  BY <1>2, <1>3
<1>6. w[0] = next
  <2>1. 1 \in 1 .. Len(box) /\ 1 - 1 = 0
    BY <1>2
  <2>2. v[1] = DrawAll(v[0], box[1].events)
    BY <1>4, <2>1
  <2>3. w[0] = v[1]
    BY <1>2, <1>3
  <2> QED
    BY <1>2, <1>4, <2>2, <2>3
<1>7. w[Len(t)] = v[Len(box)]
  BY <1>2, <1>3
<1>8. ASSUME NEW i \in 1 .. Len(t) PROVE w[i] = DrawAll(w[i - 1], t[i].events)
  <2>1. w[i] = v[i + 1] /\ w[i - 1] = v[(i + 1) - 1] /\ i + 1 \in 1 .. Len(box)
    BY <1>2, <1>3
  <2> QED
    BY <1>3, <1>4, <2>1
<1>9. Shows(w, next, t, held, all)
  <2> HIDE DEF w, next
  <2> QED
    BY <1>4, <1>6, <1>7, <1>8 DEF Shows
<1> HIDE DEF w, next
<1>10. Owes(next, t, held, all)
  BY <1>5, <1>9 DEF Owes
<1> QED
  BY <1>10 DEF next, t

\* Posting a message of some of what is held leaves the rest to be held.
LEMMA OwesMore ==
  ASSUME NEW rows, NEW box \in Seq(Message), NEW held, NEW all, Owes(rows, box, held, all),
         NEW m \in Message, NEW rest,
         \/ m.events = held /\ held \in Seq(Row) /\ rest = <<>>
         \/ m.events = <<>> /\ rest = held
  PROVE  Owes(rows, Append(box, m), rest, all)
<1>1. PICK v \in [0 .. Len(box) -> Seq(Row)] : Shows(v, rows, box, held, all)
  BY DEF Owes
<1> DEFINE n == Len(box)
           b == Append(box, m)
           last == DrawAll(v[n], m.events)
           w == [i \in 0 .. n + 1 |-> IF i = n + 1 THEN last ELSE v[i]]
<1>2. n \in Nat /\ Len(b) = n + 1 /\ b[n + 1] = m /\ \A i \in 1 .. n : b[i] = box[i]
  OBVIOUS
<1>3. /\ v[0] = rows /\ all = DrawAll(v[n], held) /\ v[n] \in Seq(Row)
      /\ \A i \in 1 .. n : v[i] = DrawAll(v[i - 1], box[i].events)
  BY <1>1, <1>2 DEF Shows
<1> HIDE DEF n, b
<1>4. last \in Seq(Row) /\ all = DrawAll(last, rest)
  <2>1. CASE m.events = held /\ held \in Seq(Row) /\ rest = <<>>
    <3>1. last \in Seq(Row) /\ last = all
      BY <1>3, <2>1, DrawAllRows
    <3> HIDE DEF last
    <3>2. DrawAll(last, <<>>) = last
      BY <3>1, DrawNone
    <3> QED
      BY <2>1, <3>1, <3>2
  <2>2. CASE m.events = <<>> /\ rest = held
    <3>1. last = v[n]
      BY <1>3, <2>2, DrawNone
    <3> QED
      BY <1>3, <2>2, <3>1
  <2> QED
    BY <2>1, <2>2
<1> HIDE DEF last
<1>5. w \in [0 .. n + 1 -> Seq(Row)]
  <2>1. \A i \in 0 .. n : v[i] \in Seq(Row)
    BY DEF n
  <2>2. \A i \in 0 .. n + 1 : i = n + 1 \/ i \in 0 .. n
    BY <1>2
  <2> QED
    BY <1>4, <2>1, <2>2
<1>6. w[0] = rows /\ w[n + 1] = last
  BY <1>2, <1>3
<1>7. ASSUME NEW i \in 1 .. n + 1 PROVE w[i] = DrawAll(w[i - 1], b[i].events)
  <2>1. w[i - 1] = v[i - 1]
    BY <1>2
  <2>2. CASE i = n + 1
    <3>1. w[i] = last /\ i - 1 = n
      BY <1>2, <2>2
    <3> QED
      BY <1>2, <2>1, <2>2, <3>1 DEF last
  <2>3. CASE i # n + 1
    <3>1. w[i] = v[i] /\ i \in 1 .. n
      BY <1>2, <2>3
    <3> QED
      BY <1>2, <1>3, <2>1, <3>1
  <2> QED
    BY <2>2, <2>3
<1>8. Shows(w, rows, b, rest, all)
  <2> HIDE DEF w
  <2> QED
    BY <1>2, <1>4, <1>6, <1>7 DEF Shows
<1> HIDE DEF w
<1>9. Owes(rows, b, rest, all)
  BY <1>2, <1>5, <1>8 DEF Owes
<1> QED
  BY <1>9 DEF b

\* What is said is owed as if it had been drawn at once.
LEMMA OwesSaid ==
  ASSUME NEW rows, NEW box \in Seq(Message), NEW held \in Seq(Row), NEW all,
         Owes(rows, box, held, all), NEW e \in Row
  PROVE  Owes(rows, box, Hold(held, e), DrawRow(all, e))
<1>1. PICK v \in [0 .. Len(box) -> Seq(Row)] : Shows(v, rows, box, held, all)
  BY DEF Owes
<1>2. v[Len(box)] \in Seq(Row)
  OBVIOUS
<1>3. DrawAll(v[Len(box)], Hold(held, e)) = DrawRow(DrawAll(v[Len(box)], held), e)
  BY <1>2, HoldIsDrawn
<1>4. Shows(v, rows, box, Hold(held, e), DrawRow(all, e))
  BY <1>1, <1>3 DEF Shows
<1> QED
  BY <1>4 DEF Owes

-----------------------------------------------------------------------------
(* The screen.                                                             *)

\* The rows of a run, those its script says, and those that are no notice.
RowsOf(r) == {row \in Row : row.run = r}
SaidBy(r) == {row \in Row : row.run = r /\ row.kind \in Kinds}
Plain(rows) == \A i \in DOMAIN rows : rows[i].kind # "stopped"

\* What is drawn, held and on its way is of the current run, and only batches
\* of output carry rows.
RowsInv ==
    /\ screen \in Seq(RowsOf(run)) /\ ideal \in Seq(RowsOf(run))
    /\ pending \in Seq(SaidBy(run))
    /\ \A i \in DOMAIN outbox : outbox[i].events \in Seq(SaidBy(run))
    /\ \A i \in DOMAIN outbox : outbox[i].type # "console" => outbox[i].events = <<>>

\* Where the worker is, it has handed over all it held.
HandedOver == {"idle", "wantInput", "arm", "parked", "report"}

\* A ReadLine is asked for under all that was said before it.
HandedInv ==
    /\ pc \in HandedOver => pending = <<>>
    /\ \A i \in DOMAIN outbox : IsAsk(outbox[i]) /\ ~stopping => i = Len(outbox)
    /\ awaiting => outbox = <<>>

\* The notice is on the screen while the page holds the run stopped, and after it
\* only once the run has ended.
NoticeInv ==
    /\ stopping /\ ~closing => Stopped
    /\ Stopped => stopping \/ ~busy
    /\ stopping => busy
    /\ \A i, j \in DOMAIN screen :
         i < j /\ screen[i].kind = "stopped" => screen[j].kind \notin Kinds \cup {"error"}

\* Of a run that nobody stopped, the screen will show all that was said.
OwedInv == (awaiting \/ ~stopping) /\ ~Stopped => Owes(screen, outbox, pending, ideal)

ScreenInv == RowsInv /\ HandedInv /\ NoticeInv /\ OwedInv

drawn == <<run, busy, awaiting, stopping, closing, screen, ideal, outbox, pending>>

\* The steps that neither say nor draw anything, nor pass a message on.
Elsewhere ==
    \/ Frame \/ Ticker \/ Hide \/ Show \/ TakeRun \/ Statement \/ Execute \/ HearNoStop
    \/ HandOver \/ Call \/ AwaitDrawn \/ Returned \/ Arm \/ Wake \/ End \/ UNCHANGED vars

\* They leave what the invariant is about, and hand over only when nothing is held.
LEMMA ElsewhereLeaves ==
  ASSUME TypeOK, Elsewhere
  PROVE  UNCHANGED drawn /\ (pc' \in HandedOver => pc \in HandedOver \/ pending = <<>>)
<1> USE DEF drawn, control, pageVars, workerVars, pageSide, HandedOver
<1>1. CASE Frame \/ Ticker \/ Hide \/ Show
  BY <1>1 DEF Frame, Ticker, Hide, Show, ReleaseWorker
<1>2. CASE TakeRun \/ Statement \/ Execute \/ HearNoStop
  BY <1>2 DEF TakeRun, Statement, Execute, HearNoStop
<1>3. CASE HandOver
  BY <1>3 DEF HandOver, Resume, Flush, TypeOK, WorkerTypes
<1>4. CASE Call \/ AwaitDrawn \/ End
  BY <1>4 DEF Call, AwaitDrawn, End, Flush
<1>5. CASE Returned \/ Arm \/ Wake
  BY <1>5 DEF Returned, Arm, Wake
<1>6. CASE UNCHANGED vars
  BY <1>6 DEF vars
<1> QED
  BY <1>1, <1>2, <1>3, <1>4, <1>5, <1>6 DEF Elsewhere

\* So they keep it.
LEMMA ElsewhereKeeps ==
  ASSUME TypeOK, ScreenInv, Elsewhere
  PROVE  ScreenInv'
<1>1. UNCHANGED drawn /\ (pc' \in HandedOver => pc \in HandedOver \/ pending = <<>>)
  BY ElsewhereLeaves
<1>2. UNCHANGED <<run, busy, awaiting, stopping, closing, screen, ideal, outbox, pending>>
  BY <1>1 DEF drawn
<1>3. Stopped' <=> Stopped
  BY <1>2 DEF Stopped
<1>4. RowsInv'
  BY <1>2 DEF ScreenInv, RowsInv
<1>5. HandedInv'
  BY <1>1, <1>2 DEF ScreenInv, HandedInv
<1>6. NoticeInv'
  BY <1>2, <1>3 DEF ScreenInv, NoticeInv
<1>7. OwedInv'
  BY <1>2, <1>3 DEF ScreenInv, OwedInv
<1> QED
  BY <1>4, <1>5, <1>6, <1>7 DEF ScreenInv

\* Rows of a script are rows, of its run, and no notices.
LEMMA SaidRows ==
  ASSUME NEW r, NEW s \in Seq(SaidBy(r))
  PROVE  s \in Seq(RowsOf(r)) /\ s \in Seq(Row) /\ Plain(s)
<1>1. SaidBy(r) \subseteq RowsOf(r) /\ SaidBy(r) \subseteq Row
  BY DEF SaidBy, RowsOf
<1>2. \A i \in DOMAIN s : s[i] \in SaidBy(r)
  OBVIOUS
<1>3. Plain(s)
  BY <1>2, BoundsAssumption DEF Plain, SaidBy
<1>4. s \in Seq(RowsOf(r)) /\ s \in Seq(Row)
  <2> HIDE DEF SaidBy
  <2> QED
    BY <1>1, <1>2
<1> QED
  BY <1>3, <1>4

\* Drawing rows of a run on others leaves rows of it, and no notice where none was.
LEMMA DrawnRows ==
  ASSUME NEW r, NEW rows \in Seq(RowsOf(r)), NEW s \in Seq(SaidBy(r))
  PROVE  /\ DrawAll(rows, s) \in Seq(RowsOf(r))
         /\ Plain(rows) => Plain(DrawAll(rows, s))
<1>1. s \in Seq(RowsOf(r)) /\ Plain(s)
  BY SaidRows
<1>2. DrawAll(rows, s) \in Seq(RowsOf(r))
  BY <1>1, DrawAllRows
<1>3. ASSUME Plain(rows) PROVE Plain(DrawAll(rows, s))
  <2> DEFINE R == {row \in RowsOf(r) : row.kind # "stopped"}
  <2>1. ASSUME NEW t \in Seq(RowsOf(r)), Plain(t) PROVE t \in Seq(R)
    <3>1. \A i \in DOMAIN t : t[i] \in R
      BY <2>1 DEF Plain
    <3> HIDE DEF R
    <3> QED
      BY <2>1, <3>1
  <2>2. rows \in Seq(R) /\ s \in Seq(R)
    BY <1>1, <1>3, <2>1
  <2>3. DrawAll(rows, s) \in Seq(R)
    <3> HIDE DEF R
    <3> QED
      BY <2>2, DrawAllRows
  <2>4. \A t \in Seq(R) : \A i \in DOMAIN t : t[i] \in R
    <3> HIDE DEF R
    <3> QED
      OBVIOUS
  <2>5. \A i \in DOMAIN DrawAll(rows, s) : DrawAll(rows, s)[i] \in R
    BY <2>3, <2>4
  <2> QED
    BY <2>5 DEF Plain
<1> QED
  BY <1>2, <1>3

\* A row of the page goes below the others.
LEMMA RowBelow ==
  ASSUME NEW r \in Nat, NEW rows \in Seq(RowsOf(r)), NEW k \in RowKinds
  PROVE  /\ Append(rows, PageRow(k, r)) \in Seq(RowsOf(r))
         /\ Len(Append(rows, PageRow(k, r))) = Len(rows) + 1
         /\ Append(rows, PageRow(k, r))[Len(rows) + 1].kind = k
         /\ \A i \in 1 .. Len(rows) : Append(rows, PageRow(k, r))[i] = rows[i]
<1>1. PageRow(k, r) \in RowsOf(r) /\ PageRow(k, r).kind = k
  BY DEF PageRow, RowsOf, Row
<1> DEFINE row == PageRow(k, r)
           R == RowsOf(r)
<1> HIDE DEF row, R
<1>2. rows \in Seq(R) /\ row \in R /\ row.kind = k
  BY <1>1 DEF row, R
<1>3. /\ Append(rows, row) \in Seq(R) /\ Len(Append(rows, row)) = Len(rows) + 1
      /\ Append(rows, row)[Len(rows) + 1].kind = k
      /\ \A i \in 1 .. Len(rows) : Append(rows, row)[i] = rows[i]
  BY <1>2
<1> QED
  BY <1>3 DEF row, R

\* A command starts on a screen of its own, with nothing on its way.
LEMMA StartRunKeeps ==
  ASSUME TypeOK, RunInv, InputInv, ScreenInv, StartRun
  PROVE  ScreenInv'
<1> USE DEF ScreenInv
<1>1. /\ outbox = <<>> /\ outbox' = <<>> /\ pc = "idle" /\ pc' = "idle" /\ pending' = pending
      /\ run' = run + 1 /\ run' \in Nat /\ stopping' = FALSE /\ awaiting' = FALSE
      /\ screen' = <<PageRow("echo", run')>> /\ ideal' = screen'
  BY DEF StartRun, ClearStop, RunInv, workerVars, TypeOK, PageTypes
<1>2. pending = <<>>
  BY <1>1 DEF HandedInv, HandedOver
<1>3. PageRow("echo", run') \in RowsOf(run') /\ PageRow("echo", run').kind = "echo"
  BY <1>1 DEF PageRow, RowsOf, Row, RowKinds
<1>4. /\ screen' \in Seq(RowsOf(run')) /\ screen' \in Seq(Row)
      /\ \A i \in DOMAIN screen' : screen'[i].kind = "echo"
      /\ DOMAIN screen' = {1}
  <2> DEFINE row == PageRow("echo", run')
  <2>1. row \in Row
    BY <1>3 DEF RowsOf
  <2> HIDE DEF row
  <2> QED
    BY <1>1, <1>3, <2>1 DEF row
<1>5. ~Stopped'
  BY <1>4 DEF Stopped
<1>6. RowsInv'
  BY <1>1, <1>2, <1>4 DEF RowsInv
<1>7. HandedInv'
  BY <1>1, <1>2 DEF HandedInv
<1>8. NoticeInv'
  BY <1>1, <1>4, <1>5 DEF NoticeInv
<1>9. OwedInv'
  BY <1>1, <1>2, <1>4, OwesNone DEF OwedInv
<1> QED
  BY <1>6, <1>7, <1>8, <1>9

\* While the prompt of a ReadLine is shown, the screen shows all that was said.
LEMMA PromptShown ==
  ASSUME TypeOK, RunInv, InputInv, ScreenInv, awaiting
  PROVE  /\ outbox = <<>> /\ pending = <<>> /\ busy /\ pc \in {"arm", "parked"}
         /\ ~Stopped => ideal = screen
<1>1. outbox = <<>> /\ pc \in {"arm", "parked"} /\ busy
  BY DEF ScreenInv, HandedInv, InputInv, RunInv
<1>2. pending = <<>>
  BY <1>1 DEF ScreenInv, HandedInv, HandedOver
<1>3. screen \in Seq(Row)
  <2>1. RowsOf(run) \subseteq Row /\ screen \in Seq(RowsOf(run))
    BY DEF RowsOf, ScreenInv, RowsInv
  <2> HIDE DEF RowsOf
  <2> QED
    BY <2>1
<1>4. ASSUME ~Stopped PROVE ideal = screen
  BY <1>1, <1>2, <1>3, <1>4, OwesNone DEF ScreenInv, OwedInv
<1> QED
  BY <1>1, <1>2, <1>4

\* The line typed at it is echoed below.
LEMMA TypeLineKeeps ==
  ASSUME TypeOK, RunInv, InputInv, ScreenInv, TypeLine
  PROVE  ScreenInv'
<1>1. /\ awaiting /\ ~closing /\ ~stopping
      /\ awaiting' = FALSE
      /\ screen' = Append(screen, PageRow("echo", run))
      /\ ideal' = Append(ideal, PageRow("echo", run))
      /\ UNCHANGED <<outbox, run, busy, stopping, closing, pending, pc>>
  BY DEF TypeLine, InputInv, workerVars
<1>2. outbox = <<>> /\ pending = <<>> /\ busy /\ (~Stopped => ideal = screen)
  BY <1>1, PromptShown
<1>3. ~Stopped
  BY <1>1, <1>2 DEF ScreenInv, NoticeInv
<1>4. run \in Nat /\ screen \in Seq(RowsOf(run)) /\ "echo" \in RowKinds
  BY DEF TypeOK, PageTypes, ScreenInv, RowsInv, RowKinds
<1>5. /\ screen' \in Seq(RowsOf(run)) /\ Len(screen') = Len(screen) + 1
      /\ screen'[Len(screen) + 1].kind = "echo"
      /\ \A i \in 1 .. Len(screen) : screen'[i] = screen[i]
  BY <1>1, <1>4, RowBelow
<1>6. ideal' = screen'
  BY <1>1, <1>2, <1>3
<1>7. \A i \in DOMAIN screen' : screen'[i].kind # "stopped"
  <2> SUFFICES ASSUME NEW i \in DOMAIN screen' PROVE screen'[i].kind # "stopped"
    OBVIOUS
  <2>1. Len(screen) \in Nat /\ DOMAIN screen = 1 .. Len(screen) /\ i \in 1 .. Len(screen) + 1
    BY <1>4, <1>5
  <2>2. CASE i = Len(screen) + 1
    BY <1>5, <2>2
  <2>3. CASE i # Len(screen) + 1
    BY <1>3, <1>5, <2>1, <2>3 DEF Stopped
  <2> QED
    BY <2>2, <2>3
<1>8. ~Stopped'
  BY <1>7 DEF Stopped
<1>9. screen' \in Seq(Row)
  <2>1. RowsOf(run) \subseteq Row
    BY DEF RowsOf
  <2> QED
    BY <1>5, <2>1
<1>10. RowsInv'
  BY <1>1, <1>5, <1>6 DEF ScreenInv, RowsInv
<1>11. HandedInv'
  BY <1>1, <1>2 DEF ScreenInv, HandedInv
<1>12. NoticeInv'
  BY <1>1, <1>7, <1>8 DEF NoticeInv
<1>13. OwedInv'
  BY <1>1, <1>2, <1>6, <1>9, OwesNone DEF OwedInv
<1> QED
  BY <1>10, <1>11, <1>12, <1>13 DEF ScreenInv

\* Raising the flag of a stop draws nothing; a shown prompt goes with closeInput.
LEMMA StopFlagKeeps ==
  ASSUME TypeOK, RunInv, InputInv, ScreenInv, StopFlag
  PROVE  ScreenInv'
<1>1. /\ ~stopping /\ busy /\ stopping' = TRUE /\ closing' = TRUE
      /\ UNCHANGED <<run, busy, awaiting, screen, ideal, outbox, pending, pc>>
  BY PromptShown DEF StopFlag, workerVars
<1>2. Stopped' <=> Stopped
  BY <1>1 DEF Stopped
<1>3. RowsInv'
  BY <1>1 DEF ScreenInv, RowsInv
<1>4. HandedInv'
  BY <1>1 DEF ScreenInv, HandedInv
<1>5. NoticeInv'
  BY <1>1, <1>2 DEF ScreenInv, NoticeInv
<1>6. OwedInv'
  BY <1>1, <1>2 DEF ScreenInv, OwedInv
<1> QED
  BY <1>3, <1>4, <1>5, <1>6 DEF ScreenInv

\* The notice goes below what was drawn.
LEMMA StopCloseKeeps ==
  ASSUME TypeOK, RunInv, InputInv, ScreenInv, StopClose
  PROVE  ScreenInv'
<1>1. /\ closing /\ stopping /\ awaiting' = FALSE
      /\ screen' = Append(screen, PageRow("stopped", run))
      /\ UNCHANGED <<run, busy, stopping, ideal, outbox, pending, pc>>
  BY DEF StopClose, InputInv, workerVars
<1>2. run \in Nat /\ screen \in Seq(RowsOf(run)) /\ "stopped" \in RowKinds
  BY DEF TypeOK, PageTypes, ScreenInv, RowsInv, RowKinds
<1>3. /\ screen' \in Seq(RowsOf(run)) /\ Len(screen') = Len(screen) + 1
      /\ screen'[Len(screen) + 1].kind = "stopped"
      /\ \A i \in 1 .. Len(screen) : screen'[i] = screen[i]
  BY <1>1, <1>2, RowBelow
<1>4. /\ Len(screen) \in Nat /\ DOMAIN screen = 1 .. Len(screen)
      /\ DOMAIN screen' = 1 .. Len(screen) + 1
  BY <1>2, <1>3
<1>5. Stopped'
  BY <1>3, <1>4 DEF Stopped
<1>6. ASSUME NEW i \in DOMAIN screen', NEW j \in DOMAIN screen', i < j, screen'[i].kind = "stopped"
      PROVE  screen'[j].kind \notin Kinds \cup {"error"}
  <2>1. CASE j = Len(screen) + 1
    BY <1>3, <2>1, BoundsAssumption
  <2>2. CASE j # Len(screen) + 1
    <3>1. i \in DOMAIN screen /\ j \in DOMAIN screen
      BY <1>4, <1>6, <2>2
    <3> QED
      BY <1>3, <1>4, <1>6, <3>1 DEF ScreenInv, NoticeInv
  <2> QED
    BY <2>1, <2>2
<1>7. RowsInv'
  BY <1>1, <1>3 DEF ScreenInv, RowsInv
<1>8. HandedInv'
  BY <1>1 DEF ScreenInv, HandedInv
<1>9. NoticeInv'
  BY <1>1, <1>5, <1>6 DEF ScreenInv, NoticeInv
<1>10. OwedInv'
  BY <1>5 DEF OwedInv
<1> QED
  BY <1>7, <1>8, <1>9, <1>10 DEF ScreenInv

\* A run with messages on its way is under way, and has no notice unless held stopped.
LEMMA Arriving ==
  ASSUME TypeOK, RunInv, InputInv, ScreenInv, outbox # <<>>
  PROVE  /\ busy /\ ~awaiting /\ (Stopped => stopping)
         /\ Head(outbox) \in Message /\ Head(outbox) = outbox[1] /\ 1 \in DOMAIN outbox
         /\ Head(outbox).events \in Seq(SaidBy(run))
         /\ Tail(outbox) \in Seq(Message)
         /\ \A i \in DOMAIN Tail(outbox) :
              i + 1 \in DOMAIN outbox /\ Tail(outbox)[i] = outbox[i + 1]
<1>1. outbox \in Seq(Message)
  BY DEF TypeOK, SharedTypes
<1>2. 1 \in DOMAIN outbox /\ Head(outbox) = outbox[1] /\ outbox[1] \in Message
  BY <1>1
<1>3. /\ Tail(outbox) \in Seq(Message)
      /\ \A i \in DOMAIN Tail(outbox) : i + 1 \in DOMAIN outbox /\ Tail(outbox)[i] = outbox[i + 1]
  BY <1>1, TailElements
<1>4. busy /\ ~awaiting /\ (Stopped => stopping)
  BY DEF RunInv, ScreenInv, HandedInv, NoticeInv
<1>5. outbox[1].events \in Seq(SaidBy(run))
  BY <1>2 DEF ScreenInv, RowsInv
<1> QED
  BY <1>2, <1>3, <1>4, <1>5

\* What is left on its way once a message is taken is as it was.
LEMMA TakenKeeps ==
  ASSUME TypeOK, RunInv, InputInv, ScreenInv, outbox # <<>>, outbox' = Tail(outbox),
         UNCHANGED <<run, stopping>>
  PROVE  /\ \A i \in DOMAIN outbox' : outbox'[i].events \in Seq(SaidBy(run'))
         /\ \A i \in DOMAIN outbox' : outbox'[i].type # "console" => outbox'[i].events = <<>>
         /\ \A i \in DOMAIN outbox' : IsAsk(outbox'[i]) /\ ~stopping' => i = Len(outbox')
<1>1. \A i \in DOMAIN outbox' : i + 1 \in DOMAIN outbox /\ outbox'[i] = outbox[i + 1]
  BY Arriving
<1>2. Len(outbox') = Len(outbox) - 1 /\ \A i \in DOMAIN outbox' : i \in Nat
  <2>1. outbox \in Seq(Message)
    BY DEF TypeOK, SharedTypes
  <2> QED
    BY <2>1, TailElements
<1>3. Len(outbox) \in Nat
  BY DEF TypeOK, SharedTypes
<1>4. ASSUME NEW i \in DOMAIN outbox', IsAsk(outbox'[i]), ~stopping' PROVE i = Len(outbox')
  <2>1. i + 1 = Len(outbox)
    BY <1>1, <1>4 DEF ScreenInv, HandedInv
  <2> QED
    BY <1>2, <1>3, <2>1
<1> QED
  BY <1>1, <1>4 DEF ScreenInv, RowsInv

\* A batch is drawn on what was drawn before it, or not at all.
LEMMA HandleConsoleKeeps ==
  ASSUME TypeOK, RunInv, InputInv, ScreenInv, HandleConsole
  PROVE  ScreenInv'
<1> DEFINE events == Head(outbox).events
<1>1. /\ outbox # <<>> /\ outbox' = Tail(outbox) /\ ~closing
      /\ screen' = IF stopping THEN screen ELSE DrawAll(screen, events)
      /\ UNCHANGED <<run, busy, awaiting, stopping, closing, ideal, pending, pc>>
  BY DEF HandleConsole, Drawn, workerVars
<1>2. /\ busy /\ ~awaiting /\ (Stopped => stopping) /\ events \in Seq(SaidBy(run))
  BY <1>1, Arriving
<1> HIDE DEF events
<1>3. screen \in Seq(RowsOf(run)) /\ screen \in Seq(Row)
  <2>1. RowsOf(run) \subseteq Row /\ screen \in Seq(RowsOf(run))
    BY DEF RowsOf, ScreenInv, RowsInv
  <2> HIDE DEF RowsOf
  <2> QED
    BY <2>1
<1>4. screen' \in Seq(RowsOf(run)) /\ (~stopping => ~Stopped')
  <2>1. CASE stopping
    BY <1>1, <1>3, <2>1
  <2>2. CASE ~stopping
    <3>1. Plain(screen)
      BY <1>2, <2>2 DEF Plain, Stopped
    <3>2. screen' \in Seq(RowsOf(run)) /\ Plain(screen')
      <4>1. screen' = DrawAll(screen, events)
        BY <1>1, <2>2
      <4> QED
        BY <1>2, <1>3, <3>1, <4>1, DrawnRows
    <3> QED
      BY <3>2 DEF Plain, Stopped
  <2> QED
    BY <2>1, <2>2
<1>5. RowsInv'
  BY <1>1, <1>4, TakenKeeps DEF ScreenInv, RowsInv
<1>6. HandedInv'
  BY <1>1, <1>2, TakenKeeps DEF ScreenInv, HandedInv
<1>7. NoticeInv'
  <2>1. CASE stopping
    <3>1. screen' = screen
      BY <1>1, <2>1
    <3>2. Stopped' <=> Stopped
      BY <3>1 DEF Stopped
    <3> QED
      BY <1>1, <2>1, <3>1, <3>2 DEF ScreenInv, NoticeInv
  <2>2. CASE ~stopping
    BY <1>1, <1>4, <2>2 DEF NoticeInv, Stopped
  <2> QED
    BY <2>1, <2>2
<1>8. OwedInv'
  <2> SUFFICES ASSUME ~stopping PROVE Owes(screen', outbox', pending', ideal')
    BY <1>1, <1>2 DEF OwedInv
  <2>1. Owes(screen, outbox, pending, ideal)
    BY <1>2 DEF ScreenInv, OwedInv
  <2>2. outbox \in Seq(Message)
    BY DEF TypeOK, SharedTypes
  <2>3. Owes(DrawAll(screen, Head(outbox).events), Tail(outbox), pending, ideal)
    BY <1>1, <2>1, <2>2, OwesTail
  <2> QED
    BY <1>1, <2>3 DEF events
<1> QED
  BY <1>5, <1>6, <1>7, <1>8 DEF ScreenInv

\* The prompt of a ReadLine is shown under all that was said before it.
LEMMA HandleWantInputKeeps ==
  ASSUME TypeOK, RunInv, InputInv, ScreenInv, HandleWantInput
  PROVE  ScreenInv'
<1>1. /\ outbox # <<>> /\ outbox' = Tail(outbox) /\ ~closing /\ IsAsk(Head(outbox))
      /\ awaiting' = IF stopping THEN awaiting ELSE TRUE
      /\ UNCHANGED <<run, busy, stopping, closing, screen, ideal, pending, pc>>
  BY DEF HandleWantInput, workerVars, IsAsk
<1>2. /\ busy /\ ~awaiting /\ (Stopped => stopping)
      /\ Head(outbox) = outbox[1] /\ 1 \in DOMAIN outbox
  BY <1>1, Arriving
<1>3. Stopped' <=> Stopped
  BY <1>1 DEF Stopped
<1>4. ~stopping => outbox' = <<>>
  <2> SUFFICES ASSUME ~stopping PROVE outbox' = <<>>
    OBVIOUS
  <2>1. 1 = Len(outbox)
    BY <1>1, <1>2 DEF ScreenInv, HandedInv
  <2>2. outbox \in Seq(Message)
    BY DEF TypeOK, SharedTypes
  <2> QED
    BY <1>1, <2>1, <2>2
<1>5. RowsInv'
  BY <1>1, TakenKeeps DEF ScreenInv, RowsInv
<1>6. HandedInv'
  BY <1>1, <1>2, <1>4, TakenKeeps DEF ScreenInv, HandedInv
<1>7. NoticeInv'
  BY <1>1, <1>3 DEF ScreenInv, NoticeInv
<1>8. OwedInv'
  <2> SUFFICES ASSUME ~stopping PROVE Owes(screen', outbox', pending', ideal')
    BY <1>1, <1>2 DEF OwedInv
  <2>1. Owes(screen, outbox, pending, ideal)
    BY <1>2 DEF ScreenInv, OwedInv
  <2>2. outbox \in Seq(Message)
    BY DEF TypeOK, SharedTypes
  <2>3. Owes(DrawAll(screen, Head(outbox).events), Tail(outbox), pending, ideal)
    BY <1>1, <2>1, <2>2, OwesTail
  <2>4. Head(outbox).events = <<>>
    BY <1>1, <1>2 DEF IsAsk, ScreenInv, RowsInv
  <2>5. DrawAll(screen, <<>>) = screen
    BY DrawNone DEF ScreenInv, RowsInv
  <2> QED
    BY <1>1, <2>3, <2>4, <2>5
<1> QED
  BY <1>5, <1>6, <1>7, <1>8 DEF ScreenInv

\* The last message of a run finds nothing else on its way; an error is drawn as it comes.
LEMMA HandleEndingKeeps ==
  ASSUME TypeOK, RunInv, InputInv, ScreenInv, HandleEnding
  PROVE  ScreenInv'
<1> DEFINE failed == Head(outbox).type = "error" /\ ~stopping
<1>1. /\ outbox # <<>> /\ outbox' = Tail(outbox) /\ ~closing /\ IsEnding(Head(outbox))
      /\ busy' = FALSE /\ awaiting' = FALSE /\ stopping' = FALSE
      /\ screen' = screen \o (IF failed THEN <<PageRow("error", run)>> ELSE <<>>)
      /\ ideal' = ideal \o (IF failed THEN <<PageRow("error", run)>> ELSE <<>>)
      /\ UNCHANGED <<run, closing, pending, pc>>
  BY DEF HandleEnding, workerVars, IsEnding
<1> HIDE DEF failed
<1>2. /\ busy /\ ~awaiting /\ (Stopped => stopping)
      /\ Head(outbox) = outbox[1] /\ 1 \in DOMAIN outbox
  BY <1>1, Arriving
<1>3. outbox \in Seq(Message) /\ run \in Nat /\ "error" \in RowKinds
  BY DEF TypeOK, SharedTypes, PageTypes, RowKinds
<1>4. Len(outbox) = 1 /\ pc = "idle"
  BY <1>1, <1>2 DEF RunInv
<1>5. outbox' = <<>> /\ pending = <<>>
  BY <1>1, <1>3, <1>4 DEF ScreenInv, HandedInv, HandedOver
<1>6. /\ screen \in Seq(RowsOf(run)) /\ ideal \in Seq(RowsOf(run))
      /\ \A s \in Seq(RowsOf(run)) : s \in Seq(Row)
  <2>1. RowsOf(run) \subseteq Row
    BY DEF RowsOf
  <2>2. screen \in Seq(RowsOf(run)) /\ ideal \in Seq(RowsOf(run))
    BY DEF ScreenInv, RowsInv
  <2> HIDE DEF RowsOf
  <2> QED
    BY <2>1, <2>2
<1>7. CASE failed
  <2>1. /\ screen' = Append(screen, PageRow("error", run))
        /\ ideal' = Append(ideal, PageRow("error", run))
    <3>1. \A s \in Seq(Row), row \in Row : s \o <<row>> = Append(s, row)
      OBVIOUS
    <3>3. PageRow("error", run) \in Row
      BY <1>3 DEF PageRow, Row
    <3>2. screen \in Seq(Row) /\ ideal \in Seq(Row)
      BY <1>6
    <3> QED
      BY <1>1, <1>7, <3>1, <3>2, <3>3
  <2>2. ~Stopped
    BY <1>2, <1>7 DEF failed
  <2>3. /\ screen' \in Seq(RowsOf(run)) /\ Len(screen') = Len(screen) + 1
        /\ screen'[Len(screen) + 1].kind = "error"
        /\ \A i \in 1 .. Len(screen) : screen'[i] = screen[i]
    BY <1>3, <1>6, <2>1, RowBelow
  <2>4. ideal' \in Seq(RowsOf(run))
    BY <1>3, <1>6, <2>1, RowBelow
  <2>5. \A i \in DOMAIN screen' : screen'[i].kind # "stopped"
    <3> SUFFICES ASSUME NEW i \in DOMAIN screen' PROVE screen'[i].kind # "stopped"
      OBVIOUS
    <3>1. Len(screen) \in Nat /\ DOMAIN screen = 1 .. Len(screen) /\ i \in 1 .. Len(screen) + 1
      BY <1>6, <2>3
    <3>2. CASE i = Len(screen) + 1
      BY <2>3, <3>2
    <3>3. CASE i # Len(screen) + 1
      BY <2>2, <2>3, <3>1, <3>3 DEF Stopped
    <3> QED
      BY <3>2, <3>3
  <2>6. ~Stopped'
    BY <2>5 DEF Stopped
  <2>7. RowsInv'
    BY <1>1, <1>5, <2>3, <2>4 DEF ScreenInv, RowsInv
  <2>8. HandedInv'
    BY <1>1, <1>5 DEF HandedInv
  <2>9. NoticeInv'
    BY <1>1, <2>5, <2>6 DEF NoticeInv
  <2>10. ideal' = screen'
    <3>1. Owes(screen, outbox, pending, ideal)
      BY <1>7, <2>2 DEF ScreenInv, OwedInv, failed
    <3>2. Owes(DrawAll(screen, Head(outbox).events), Tail(outbox), pending, ideal)
      BY <1>1, <1>3, <3>1, OwesTail
    <3>3. Head(outbox).events = <<>>
      BY <1>1, <1>2 DEF IsEnding, ScreenInv, RowsInv
    <3>4. DrawAll(screen, <<>>) = screen /\ screen \in Seq(Row)
      BY <1>6, DrawNone
    <3>5. Owes(screen, <<>>, <<>>, ideal)
      BY <1>1, <1>5, <3>2, <3>3, <3>4
    <3>6. ideal = screen
      BY <3>4, <3>5, OwesNone
    <3> QED
      BY <2>1, <3>6
  <2>11. OwedInv'
    <3>1. screen' \in Seq(Row)
      BY <1>6, <2>3
    <3>2. Owes(screen', <<>>, <<>>, screen')
      BY <3>1, OwesNone
    <3> QED
      BY <1>1, <1>5, <2>10, <3>2 DEF OwedInv
  <2> QED
    BY <2>7, <2>8, <2>9, <2>11 DEF ScreenInv
<1>8. CASE ~failed
  <2>1. screen' = screen /\ ideal' = ideal
    <3>1. \A s \in Seq(Row) : s \o <<>> = s
      OBVIOUS
    <3> QED
      BY <1>1, <1>6, <1>8, <3>1
  <2>2. Stopped' <=> Stopped
    BY <2>1 DEF Stopped
  <2>3. RowsInv'
    BY <1>1, <1>5, <2>1 DEF ScreenInv, RowsInv
  <2>4. HandedInv'
    BY <1>1, <1>5 DEF HandedInv
  <2>5. NoticeInv'
    BY <1>1, <2>1, <2>2 DEF ScreenInv, NoticeInv
  <2>6. OwedInv'
    <3> SUFFICES ASSUME ~Stopped PROVE Owes(screen', outbox', pending', ideal')
      BY <2>2 DEF OwedInv
    <3>1. ~stopping
      BY <1>1 DEF ScreenInv, NoticeInv
    <3>2. Owes(screen, outbox, pending, ideal)
      BY <3>1 DEF ScreenInv, OwedInv
    <3>3. Owes(DrawAll(screen, Head(outbox).events), Tail(outbox), pending, ideal)
      BY <1>1, <1>3, <3>2, OwesTail
    <3>4. Head(outbox).events = <<>>
      BY <1>1, <1>2 DEF IsEnding, ScreenInv, RowsInv
    <3>5. DrawAll(screen, <<>>) = screen
      BY <1>6, DrawNone
    <3> QED
      BY <1>1, <2>1, <3>3, <3>4, <3>5
  <2> QED
    BY <2>3, <2>4, <2>5, <2>6 DEF ScreenInv
<1> QED
  BY <1>7, <1>8

\* A message posted goes behind those on their way; none of these asks for a line
\* that is still awaited, since the worker is not waiting.
LEMMA PostedKeeps ==
  ASSUME TypeOK, RunInv, InputInv, ScreenInv, pc \notin {"arm", "parked"},
         NEW m \in Message, m.events \in Seq(SaidBy(run)),
         m.type # "console" => m.events = <<>>,
         outbox' = Append(outbox, m), UNCHANGED <<run, stopping>>
  PROVE  /\ \A i \in DOMAIN outbox' : outbox'[i].events \in Seq(SaidBy(run'))
         /\ \A i \in DOMAIN outbox' : outbox'[i].type # "console" => outbox'[i].events = <<>>
         /\ \A i \in DOMAIN outbox' : IsAsk(outbox'[i]) /\ ~stopping' => i = Len(outbox')
         /\ ~awaiting
<1>1. outbox \in Seq(Message)
  BY DEF TypeOK, SharedTypes
<1>2. /\ Len(outbox') = Len(outbox) + 1 /\ outbox'[Len(outbox) + 1] = m
      /\ \A i \in 1 .. Len(outbox) : outbox'[i] = outbox[i]
      /\ outbox' \in Seq(Message)
  BY <1>1, AppendElements
<1>3. DOMAIN outbox = 1 .. Len(outbox) /\ DOMAIN outbox' = 1 .. Len(outbox) + 1
  BY <1>1, <1>2
<1>4. ~awaiting /\ (~stopping => \A i \in DOMAIN outbox : ~IsAsk(outbox[i]))
  BY DEF InputInv
<1>5. \A i \in DOMAIN outbox' : i = Len(outbox) + 1 \/ i \in DOMAIN outbox
  BY <1>1, <1>3
<1>6. \A i \in DOMAIN outbox' : outbox'[i] = m \/ (i \in DOMAIN outbox /\ outbox'[i] = outbox[i])
  BY <1>2, <1>3, <1>5
<1>7. /\ \A i \in DOMAIN outbox : outbox[i].events \in Seq(SaidBy(run))
      /\ \A i \in DOMAIN outbox : outbox[i].type # "console" => outbox[i].events = <<>>
  BY DEF ScreenInv, RowsInv
<1>8. /\ \A i \in DOMAIN outbox' : outbox'[i].events \in Seq(SaidBy(run'))
      /\ \A i \in DOMAIN outbox' : outbox'[i].type # "console" => outbox'[i].events = <<>>
  BY <1>6, <1>7
<1>9. \A i \in DOMAIN outbox' : IsAsk(outbox'[i]) /\ ~stopping' => i = Len(outbox')
  BY <1>2, <1>3, <1>4, <1>5
<1> QED
  BY <1>4, <1>8, <1>9

\* A step of the worker that the page is not in leaves the page's side of it.
WorkerOnly == UNCHANGED <<run, busy, awaiting, stopping, closing, screen>>

\* A batch takes with it all that is held.
LEMMA PostKeeps ==
  ASSUME TypeOK, RunInv, InputInv, ScreenInv, Post
  PROVE  ScreenInv'
<1>1. /\ pc = "post" /\ outbox' = Append(outbox, Console(pending)) /\ pending' = <<>>
      /\ UNCHANGED <<run, busy, awaiting, stopping, closing, screen, ideal>>
  BY DEF Post, pageSide, pageVars
<1>2. pending \in Seq(SaidBy(run)) /\ pending \in Seq(Row)
  BY DEF ScreenInv, RowsInv, TypeOK, WorkerTypes
<1>3. Console(pending) \in Message /\ Console(pending).events = pending
        /\ Console(pending).type = "console"
  BY <1>2 DEF Console, Message
<1>4. Stopped' <=> Stopped
  BY <1>1 DEF Stopped
<1>5. /\ \A i \in DOMAIN outbox' : outbox'[i].events \in Seq(SaidBy(run'))
      /\ \A i \in DOMAIN outbox' : outbox'[i].type # "console" => outbox'[i].events = <<>>
      /\ \A i \in DOMAIN outbox' : IsAsk(outbox'[i]) /\ ~stopping' => i = Len(outbox')
      /\ ~awaiting
  <2> DEFINE m == Console(pending)
  <2>1. m.events \in Seq(SaidBy(run)) /\ m.type = "console" /\ m \in Message
    BY <1>2, <1>3
  <2>2. outbox' = Append(outbox, m) /\ pc \notin {"arm", "parked"} /\ UNCHANGED <<run, stopping>>
    BY <1>1
  <2> HIDE DEF m
  <2> QED
    BY <2>1, <2>2, PostedKeeps
<1>6. RowsInv'
  BY <1>1, <1>5 DEF ScreenInv, RowsInv
<1>7. HandedInv'
  BY <1>1, <1>5 DEF HandedInv
<1>8. NoticeInv'
  BY <1>1, <1>4 DEF ScreenInv, NoticeInv
<1>9. OwedInv'
  <2> SUFFICES ASSUME Owes(screen, outbox, pending, ideal)
               PROVE  Owes(screen', outbox', pending', ideal')
    BY <1>1, <1>4 DEF ScreenInv, OwedInv
  <2>1. outbox \in Seq(Message)
    BY DEF TypeOK, SharedTypes
  <2> DEFINE m == Console(pending)
  <2> HIDE DEF m
  <2>2. Owes(screen, Append(outbox, m), <<>>, ideal)
    BY <1>2, <1>3, <2>1, OwesMore DEF m
  <2> QED
    BY <1>1, <2>2 DEF m
<1> QED
  BY <1>6, <1>7, <1>8, <1>9 DEF ScreenInv

\* A stop heard drops what is held, of a run whose output is not drawn any more.
LEMMA HearStopKeeps ==
  ASSUME TypeOK, RunInv, InputInv, ScreenInv, HearStop
  PROVE  ScreenInv'
<1>1. /\ pc = "load" /\ abort /\ pending' = <<>>
      /\ UNCHANGED <<run, busy, awaiting, stopping, closing, screen, ideal, outbox>>
  BY DEF HearStop, pageSide, pageVars
<1>2. stopping /\ ~awaiting
  BY <1>1 DEF RunInv, InputInv
<1>3. Stopped' <=> Stopped
  BY <1>1 DEF Stopped
<1>4. RowsInv'
  BY <1>1 DEF ScreenInv, RowsInv
<1>5. HandedInv'
  BY <1>1, <1>2 DEF ScreenInv, HandedInv
<1>6. NoticeInv'
  BY <1>1, <1>3 DEF ScreenInv, NoticeInv
<1>7. OwedInv'
  BY <1>1, <1>2 DEF OwedInv
<1> QED
  BY <1>4, <1>5, <1>6, <1>7 DEF ScreenInv

\* An event said is held, over a replacing one that no later one builds on.
LEMMA EmitKeeps ==
  ASSUME TypeOK, RunInv, InputInv, ScreenInv, Emit
  PROVE  ScreenInv'
<1>1. PICK k \in Kinds : /\ pending' = Hold(pending, [kind |-> k, run |-> wrun, n |-> says'])
                         /\ ideal' = DrawRow(ideal, [kind |-> k, run |-> wrun, n |-> says'])
  BY DEF Emit
<1> DEFINE e == [kind |-> k, run |-> wrun, n |-> says']
<1>2. /\ pc = "emit" /\ says' = says + 1 /\ pc' \notin HandedOver
      /\ UNCHANGED <<run, busy, awaiting, stopping, closing, screen, outbox>>
  BY DEF Emit, pageSide, pageVars, HandedOver
<1>3. wrun = run /\ ~awaiting /\ says' \in Nat /\ run \in Nat
  BY <1>2 DEF RunInv, InputInv, TypeOK, WorkerTypes, PageTypes
<1>4. e \in SaidBy(run) /\ e \in RowsOf(run) /\ e \in Row
  BY <1>3, BoundsAssumption DEF SaidBy, RowsOf, Row, RowKinds
<1>5. pending' = Hold(pending, e) /\ ideal' = DrawRow(ideal, e)
  BY <1>1
<1> HIDE DEF e
<1>6. pending \in Seq(SaidBy(run)) /\ pending \in Seq(Row) /\ ideal \in Seq(RowsOf(run))
  BY DEF ScreenInv, RowsInv, TypeOK, WorkerTypes
<1>7. pending' \in Seq(SaidBy(run))
  BY <1>4, <1>5, <1>6, HoldIsDrawn
<1>8. ideal' \in Seq(RowsOf(run))
  BY <1>4, <1>5, <1>6, DrawRowRows
<1>9. Stopped' <=> Stopped
  BY <1>2 DEF Stopped
<1>10. RowsInv'
  BY <1>2, <1>7, <1>8 DEF ScreenInv, RowsInv
<1>11. HandedInv'
  BY <1>2 DEF ScreenInv, HandedInv
<1>12. NoticeInv'
  BY <1>2, <1>9 DEF ScreenInv, NoticeInv
<1>13. OwedInv'
  <2> SUFFICES ASSUME Owes(screen, outbox, pending, ideal)
               PROVE  Owes(screen', outbox', pending', ideal')
    BY <1>2, <1>9 DEF ScreenInv, OwedInv
  <2>1. outbox \in Seq(Message)
    BY DEF TypeOK, SharedTypes
  <2>2. Owes(screen, outbox, Hold(pending, e), DrawRow(ideal, e))
    BY <1>4, <1>6, <2>1, OwesSaid
  <2> QED
    BY <1>2, <1>5, <2>2
<1> QED
  BY <1>10, <1>11, <1>12, <1>13 DEF ScreenInv

\* A request or an ending goes once all that was held has gone.
LEMMA BarePosted ==
  ASSUME TypeOK, RunInv, InputInv, ScreenInv, pc \in {"wantInput", "report"},
         NEW m \in Message, m.events = <<>>, outbox' = Append(outbox, m), WorkerOnly,
         UNCHANGED <<ideal, pending>>
  PROVE  ScreenInv'
<1>1. pending = <<>> /\ pending' = <<>>
  BY DEF ScreenInv, HandedInv, HandedOver
<1>2. UNCHANGED <<run, busy, awaiting, stopping, closing, screen, ideal>>
  BY DEF WorkerOnly
<1>3. Stopped' <=> Stopped
  BY <1>2 DEF Stopped
<1>4. /\ \A i \in DOMAIN outbox' : outbox'[i].events \in Seq(SaidBy(run'))
      /\ \A i \in DOMAIN outbox' : outbox'[i].type # "console" => outbox'[i].events = <<>>
      /\ \A i \in DOMAIN outbox' : IsAsk(outbox'[i]) /\ ~stopping' => i = Len(outbox')
      /\ ~awaiting
  <2>1. m.events \in Seq(SaidBy(run)) /\ pc \notin {"arm", "parked"}
    OBVIOUS
  <2> QED
    BY <1>2, <2>1, PostedKeeps
<1>5. RowsInv'
  BY <1>2, <1>4 DEF ScreenInv, RowsInv
<1>6. HandedInv'
  BY <1>1, <1>2, <1>4 DEF HandedInv
<1>7. NoticeInv'
  BY <1>2, <1>3 DEF ScreenInv, NoticeInv
<1>8. OwedInv'
  <2> SUFFICES ASSUME Owes(screen, outbox, pending, ideal)
               PROVE  Owes(screen', outbox', pending', ideal')
    BY <1>2, <1>3 DEF ScreenInv, OwedInv
  <2>1. outbox \in Seq(Message)
    BY DEF TypeOK, SharedTypes
  <2>2. Owes(screen, Append(outbox, m), pending, ideal)
    BY <2>1, OwesMore
  <2> QED
    BY <1>2, <2>2
<1> QED
  BY <1>5, <1>6, <1>7, <1>8 DEF ScreenInv

LEMMA AskForLineKeeps ==
  ASSUME TypeOK, RunInv, InputInv, ScreenInv, AskForLine
  PROVE  ScreenInv'
<1> DEFINE m == WantInput(asks')
<1>1. /\ pc = "wantInput" /\ outbox' = Append(outbox, m) /\ asks' = asks + 1
      /\ UNCHANGED <<ideal, pending>> /\ WorkerOnly
  BY DEF AskForLine, WorkerOnly, pageSide, pageVars
<1>2. m \in Message /\ m.events = <<>>
  BY <1>1 DEF WantInput, Message, TypeOK, WorkerTypes
<1> HIDE DEF m
<1> QED
  BY <1>1, <1>2, BarePosted

LEMMA ReportKeeps ==
  ASSUME TypeOK, RunInv, InputInv, ScreenInv, Report
  PROVE  ScreenInv'
<1>1. PICK t \in {"done", "error"} : outbox' = Append(outbox, Ending(t))
  BY DEF Report
<1> DEFINE m == Ending(t)
<1>2. /\ pc = "report" /\ UNCHANGED <<ideal, pending>> /\ WorkerOnly
  BY DEF Report, WorkerOnly, pageSide, pageVars
<1>3. m \in Message /\ m.events = <<>> /\ outbox' = Append(outbox, m)
  BY <1>1 DEF Ending, Message
<1> HIDE DEF m
<1> QED
  BY <1>2, <1>3, BarePosted

\* A step of either side keeps the screen and what is owed to it together.
LEMMA ScreenInvStep ==
  ASSUME TypeOK, RunInv, InputInv, ScreenInv, [Next]_vars
  PROVE  ScreenInv'
<1>1. CASE Elsewhere
  BY <1>1, ElsewhereKeeps
<1>2. CASE StartRun
  BY <1>2, StartRunKeeps
<1>3. CASE TypeLine
  BY <1>3, TypeLineKeeps
<1>4. CASE StopFlag
  BY <1>4, StopFlagKeeps
<1>5. CASE StopClose
  BY <1>5, StopCloseKeeps
<1>6. CASE HandleConsole
  BY <1>6, HandleConsoleKeeps
<1>7. CASE HandleWantInput
  BY <1>7, HandleWantInputKeeps
<1>8. CASE HandleEnding
  BY <1>8, HandleEndingKeeps
<1>9. CASE Post
  BY <1>9, PostKeeps
<1>10. CASE HearStop
  BY <1>10, HearStopKeeps
<1>11. CASE Emit
  BY <1>11, EmitKeeps
<1>12. CASE AskForLine
  BY <1>12, AskForLineKeeps
<1>13. CASE Report
  BY <1>13, ReportKeeps
<1> QED
  BY <1>1, <1>2, <1>3, <1>4, <1>5, <1>6, <1>7, <1>8, <1>9, <1>10, <1>11, <1>12, <1>13
     DEF Next, Page, Worker, Elsewhere

LEMMA ScreenInvInit == Init => ScreenInv
<1> SUFFICES ASSUME Init PROVE ScreenInv
  OBVIOUS
<1>1. /\ screen = <<>> /\ ideal = <<>> /\ pending = <<>> /\ outbox = <<>>
      /\ ~awaiting /\ ~stopping /\ ~busy
  BY DEF Init
<1>2. <<>> \in Seq(RowsOf(run)) /\ <<>> \in Seq(SaidBy(run)) /\ <<>> \in Seq(Row)
  OBVIOUS
<1>3. RowsInv
  BY <1>1, <1>2 DEF RowsInv
<1>4. HandedInv
  BY <1>1 DEF HandedInv
<1>5. NoticeInv
  BY <1>1 DEF NoticeInv, Stopped
<1>6. OwedInv
  BY <1>1, <1>2, OwesNone DEF OwedInv
<1> QED
  BY <1>3, <1>4, <1>5, <1>6 DEF ScreenInv

\* What a stopped script said before it heard is never drawn below the notice, and
\* no row of one run stands under the command of another, whatever batches were
\* posted, held back or on their way when Ctrl+B or the next command came.
THEOREM StoppedStaysSilent == Spec => []StoppedIsSilent
<1>1. Init => RunInv /\ InputInv /\ ScreenInv
  BY ScreenInvInit DEF Init, RunInv, InputInv, LineReachesItsAsk
<1>2. TypeOK /\ RunInv /\ InputInv /\ ScreenInv /\ [Next]_vars => (RunInv /\ InputInv /\ ScreenInv)'
  BY RunInvStep, InputInvStep, ScreenInvStep
<1>3. ScreenInv => StoppedIsSilent
  <2> SUFFICES ASSUME ScreenInv PROVE \A i \in DOMAIN screen : screen[i].run = run
    BY DEF ScreenInv, NoticeInv, StoppedIsSilent
  <2>1. screen \in Seq(RowsOf(run))
    BY DEF ScreenInv, RowsInv
  <2>2. \A i \in DOMAIN screen : screen[i] \in RowsOf(run)
    BY <2>1
  <2> QED
    BY <2>2 DEF RowsOf
<1>4. QED
  BY <1>1, <1>2, <1>3, TypeCorrect, PTL DEF Spec

\* The player is asked for a line, or given the prompt back, under all the output
\* that led up to it: batches held back for the display, replacing lines coalesced
\* in them and batches posted late come to what drawing each event at once does.
THEOREM PromptsComeAfterOutput == Spec => []PromptAfterOutput
<1>1. Init => RunInv /\ InputInv /\ ScreenInv
  BY ScreenInvInit DEF Init, RunInv, InputInv, LineReachesItsAsk
<1>2. TypeOK /\ RunInv /\ InputInv /\ ScreenInv /\ [Next]_vars => (RunInv /\ InputInv /\ ScreenInv)'
  BY RunInvStep, InputInvStep, ScreenInvStep
<1>3. TypeOK /\ RunInv /\ InputInv /\ ScreenInv => PromptAfterOutput
  <2> SUFFICES ASSUME TypeOK, RunInv, InputInv, ScreenInv, awaiting \/ ~busy, ~Stopped
               PROVE  screen = ideal
    BY DEF PromptAfterOutput
  <2>1. CASE awaiting
    BY <2>1, PromptShown
  <2>2. CASE ~awaiting /\ ~busy
    <3>1. outbox = <<>> /\ pc = "idle"
      BY <2>2 DEF RunInv
    <3>2. pending = <<>>
      BY <3>1 DEF ScreenInv, HandedInv, HandedOver
    <3>3. screen \in Seq(Row)
      <4>1. RowsOf(run) \subseteq Row /\ screen \in Seq(RowsOf(run))
        BY DEF RowsOf, ScreenInv, RowsInv
      <4> HIDE DEF RowsOf
      <4> QED
        BY <4>1
    <3>4. ~stopping
      BY <2>2 DEF ScreenInv, NoticeInv
    <3> QED
      BY <3>1, <3>2, <3>3, <3>4, OwesNone DEF ScreenInv, OwedInv
  <2> QED
    BY <2>1, <2>2
<1>4. QED
  BY <1>1, <1>2, <1>3, TypeCorrect, PTL DEF Spec
=============================================================================
