---------------------------- MODULE ThreadsProofs ----------------------------
(***************************************************************************)
(* Proofs about what goes between the threads: that a call into the            *)
(* filesystem returns its answer, whole (FsRpc), that the windows' questions    *)
(* are kept as ask() promises (Asking), and that every message is in its place, *)
(* for any consoles, any answers and any size of buffer.                       *)
(*                                                                          *)
(* The channel needs what the pieces of an answer come to at every step of a    *)
(* call and of the worker; the questions need where each is, and which          *)
(* messages of a run a console and its worker can have between them.            *)
(***************************************************************************)
EXTENDS Threads, Induction

-----------------------------------------------------------------------------
(* The calls to the filesystem.                                            *)

Bytes == Consoles \X Nat \X Nat
Replies == {NoAnswer, Refused} \cup {Answered(b) : b \in Seq(Bytes)}
Deliveries == [to : Consoles, step : {"fill", "length", "state"}, payload : Seq(Bytes),
               fits : 0 .. Capacity]
Refusals == [to : Consoles, step : {"refuse", "closed"}]

ChannelTypes ==
    /\ state \in [Consoles -> {"waiting", "ready", "more", "closed"}]
    /\ length \in [Consoles -> 0 .. Capacity] /\ len \in [Consoles -> 0 .. Capacity]
    /\ bytes \in [Consoles -> [1 .. Capacity -> Bytes]]
    /\ port \in [Consoles -> {<<>>, <<"ask">>, <<"more">>}]
    /\ cpc \in [Consoles -> CallSteps] /\ asks \in [Consoles -> 0 .. MaxAsks]
    /\ more \in [Consoles -> BOOLEAN]
    /\ seen \in [Consoles -> {"waiting", "ready", "more", "closed"}]
    /\ out \in [Consoles -> Seq(Bytes)] /\ pending \in [Consoles -> Seq(Bytes)]
    /\ value \in [Consoles -> Replies] /\ answer \in [Consoles -> Replies]
    /\ up \in BOOLEAN /\ reading \subseteq Consoles
    /\ job \in {Idle} \cup Deliveries \cup Refusals

\* Nothing of a console's is on its way to the worker, or with it.
Quiet(c) == port[c] = <<>> /\ c \notin reading /\ job.to # c

\* The answer to the call is what the console has and the rest.
Whole(c, rest) == answer[c] = Answered(out[c] \o rest)

\* A request, or one for the rest, that is about to go or has gone.
Begun(c) == IF more[c] THEN up /\ Whole(c, pending[c]) ELSE answer[c] = NoAnswer /\ out[c] = <<>>

\* The first n bytes of the buffer are the next of the answer, and what is left of
\* it is pending; nothing is, when the state is "ready".
Given(c, s, n) ==
    /\ up /\ answer[c] = Answered((out[c] \o SubSeq(bytes[c], 1, n)) \o pending[c])
    /\ s = "ready" => pending[c] = <<>>

\* What the worker is storing into a console's buffer, by the stores it has made.
Stored(c) ==
    /\ job.step \in {"refuse", "closed"} => answer[c] = Refused
    /\ job.step = "fill" => up /\ Whole(c, job.payload)
    /\ job.step \in {"length", "state"} =>
         Given(c, IF MoreToCome(job.fits, job.payload) THEN "more" ELSE "ready", job.fits)
    /\ job.step = "state" => length[c] = job.fits

\* A parked console: its request is on the port, waits for the disk, is being
\* answered, or has been.
WaitInv(c) ==
    \/ /\ state[c] = "waiting" /\ port[c] = <<IF more[c] THEN "more" ELSE "ask">>
       /\ c \notin reading /\ job.to # c /\ Begun(c)
    \/ /\ state[c] = "waiting" /\ port[c] = <<>> /\ c \in reading /\ job.to # c
       /\ up /\ ~more[c] /\ Begun(c)
    \/ state[c] = "waiting" /\ port[c] = <<>> /\ c \notin reading /\ job.to = c /\ Stored(c)
    \/ /\ state[c] # "waiting" /\ Quiet(c)
       /\ IF state[c] = "closed" THEN answer[c] = Refused ELSE Given(c, state[c], length[c])

\* A call, by the step it is at.  Of a closed console nothing is claimed.
CallInv(c) ==
    /\ cpc[c] = "idle" => Quiet(c)
    /\ cpc[c] \notin {"idle", "gone"} => asks[c] # 0
    /\ cpc[c] = "post" => Quiet(c) /\ state[c] = "waiting" /\ Begun(c)
    /\ cpc[c] = "wait" => WaitInv(c)
    /\ cpc[c] = "length" =>
          Quiet(c) /\ seen[c] \in {"ready", "more"} /\ Given(c, seen[c], length[c])
    /\ cpc[c] = "slice" => Quiet(c) /\ seen[c] \in {"ready", "more"} /\ Given(c, seen[c], len[c])
    /\ cpc[c] = "again" => Quiet(c) /\ up /\ Whole(c, pending[c])

ChannelInv == ChannelTypes /\ \A c \in Consoles : CallInv(c)

\* What a step leaves of the console d.
Leaves(d) ==
    /\ state'[d] = state[d] /\ length'[d] = length[d] /\ bytes'[d] = bytes[d] /\ port'[d] = port[d]
    /\ cpc'[d] = cpc[d] /\ asks'[d] = asks[d] /\ more'[d] = more[d] /\ seen'[d] = seen[d]
    /\ len'[d] = len[d] /\ out'[d] = out[d] /\ pending'[d] = pending[d] /\ answer'[d] = answer[d]
    /\ (up => up') /\ (d \in reading' <=> d \in reading)
    /\ job' = job \/ (job.to # d /\ job'.to # d)

\* A call is not disturbed by a step that leaves it.
LEMMA LeftAlone ==
  ASSUME NEW d, CallInv(d), Leaves(d)
  PROVE  CallInv(d)'
<1> USE DEF Leaves
<1>1. Quiet(d)' <=> Quiet(d)
  BY DEF Quiet
<1>2. Begun(d) => Begun(d)'
  BY DEF Begun, Whole
<1>3. \A s, n : /\ Given(d, s, n) => Given(d, s, n)'
  BY DEF Given
<1>4. job.to = d /\ Stored(d) => job' = job /\ Stored(d)'
  BY DEF Stored, Whole, Given
<1>5. WaitInv(d) => WaitInv(d)'
  BY <1>1, <1>2, <1>4 DEF WaitInv, Given
<1>6. Whole(d, pending[d]) => Whole(d, pending[d])'
  BY DEF Whole
<1> QED
  BY <1>1, <1>2, <1>5, <1>6 DEF CallInv, Given

\* Two ways to write an answer down.
LEMMA JoinIs ==
  ASSUME NEW B, NEW p \in Seq(B), NEW q \in Seq(B), NEW r \in Seq(B)
  PROVE  (p \o q) \o r = p \o (q \o r) /\ p \o q \in Seq(B) /\ p \o <<>> = p /\ <<>> \o p = p
  OBVIOUS

\* A buffer that begins with the start of a payload, and the rest of that payload.
LEMMA CutIs ==
  ASSUME NEW B, NEW p \in Seq(B), NEW n \in Nat, n <= Len(p), NEW m \in Nat, n <= m,
         NEW b \in [1 .. m -> B], \A i \in 1 .. n : b[i] = p[i]
  PROVE  /\ SubSeq(b, 1, n) \in Seq(B) /\ Rest(n, p) \in Seq(B)
         /\ p = SubSeq(b, 1, n) \o Rest(n, p)
         /\ n = Len(p) => Rest(n, p) = <<>>
<1> DEFINE s == SubSeq(b, 1, n)
           r == Rest(n, p)
<1>1. s \in Seq(B) /\ Len(s) = n /\ \A i \in 1 .. n : s[i] = p[i]
  <2>1. b \in Seq(B) /\ Len(b) = m
    OBVIOUS
  <2> QED
    BY <2>1
<1>2. r \in Seq(B) /\ Len(r) = Len(p) - n /\ \A i \in 1 .. Len(p) - n : r[i] = p[n + i]
  BY DEF Rest
<1>3. n = Len(p) => r = <<>>
  BY <1>2
<1> HIDE DEF s, r
<1> DEFINE u == s \o r
<1>4. u \in Seq(B) /\ Len(u) = Len(p)
  BY <1>1, <1>2
<1>5. ASSUME NEW i \in 1 .. Len(p) PROVE u[i] = p[i]
  <2>1. CASE i <= n
    BY <1>1, <1>2, <2>1
  <2>2. CASE i > n
    <3>1. u[i] = r[i - n] /\ i - n \in 1 .. Len(p) - n /\ n + (i - n) = i
      BY <1>1, <1>2, <2>2
    <3>2. r[i - n] = p[n + (i - n)]
      BY <1>2, <3>1
    <3> QED
      BY <3>1, <3>2
  <2>3. i <= n \/ i > n
    <3>1. i \in Nat
      OBVIOUS
    <3> QED
      BY <3>1
  <2> HIDE DEF u
  <2> QED
    BY <2>1, <2>2, <2>3
<1> HIDE DEF u
<1>6. p = u
  BY <1>4, <1>5
<1> QED
  BY <1>1, <1>2, <1>3, <1>6 DEF s, r, u

\* An answer is bytes.
LEMMA AnswerIs ==
  ASSUME NEW c \in Consoles, NEW n \in Nat, NEW size \in Nat
  PROVE  Answer(c, n, size) \in Seq(Bytes) /\ Answered(Answer(c, n, size)) \in Replies
<1>1. \A i \in 1 .. size : <<c, n, i>> \in Bytes
  BY DEF Bytes
<1>2. Answer(c, n, size) \in [1 .. size -> Bytes]
  BY <1>1 DEF Answer
<1>3. Answer(c, n, size) \in Seq(Bytes)
  <2> HIDE DEF Bytes
  <2> QED
    BY <1>2
<1> QED
  BY <1>3 DEF Replies

-----------------------------------------------------------------------------
(* The steps of a console.                                                 *)

\* A step of one console leaves the others; so its own call is all there is to show.
LEMMA OneConsole ==
  ASSUME ChannelInv, ChannelTypes', NEW c \in Consoles, CallInv(c)',
         \A d \in Consoles : d # c => Leaves(d)
  PROVE  ChannelInv'
<1>1. \A d \in Consoles : CallInv(d)'
  <2> SUFFICES ASSUME NEW d \in Consoles, d # c PROVE CallInv(d)'
    OBVIOUS
  <2>1. CallInv(d) /\ Leaves(d)
    BY DEF ChannelInv
  <2> QED
    BY <2>1, LeftAlone
<1> QED
  BY <1>1 DEF ChannelInv

\* A call begins: nothing of the console's is about.
LEMMA CallKeeps ==
  ASSUME ChannelInv, NEW c \in Consoles, Call(c)
  PROVE  ChannelInv'
<1> USE ChannelAssumption DEF Call
<1>0. ChannelTypes /\ CallInv(c) /\ Quiet(c)
  BY DEF ChannelInv, CallInv
<1>1. ChannelTypes'
  <2>1. asks' \in [Consoles -> 0 .. MaxAsks]
    BY <1>0 DEF ChannelTypes
  <2>2. /\ more' \in [Consoles -> BOOLEAN] /\ out' \in [Consoles -> Seq(Bytes)]
        /\ state' \in [Consoles -> {"waiting", "ready", "more", "closed"}]
        /\ cpc' \in [Consoles -> CallSteps] /\ answer' \in [Consoles -> Replies]
    BY <1>0 DEF ChannelTypes, CallSteps, Replies
  <2> QED
    BY <1>0, <2>1, <2>2 DEF ChannelTypes
<1>2. \A d \in Consoles : d # c => Leaves(d)
  BY <1>0 DEF ChannelTypes, Leaves
<1>3. /\ cpc'[c] = "post" /\ state'[c] = "waiting" /\ more'[c] = FALSE /\ out'[c] = <<>>
      /\ answer'[c] = NoAnswer /\ asks'[c] = asks[c] + 1 /\ asks[c] \in Nat
      /\ UNCHANGED <<port, reading, job>>
  BY <1>0 DEF ChannelTypes
<1>4. CallInv(c)'
  BY <1>0, <1>3 DEF CallInv, Quiet, Begun
<1> QED
  BY <1>1, <1>2, <1>4, OneConsole

\* The request goes to the worker, the state being "waiting".
LEMMA PostKeeps ==
  ASSUME ChannelInv, NEW c \in Consoles, Post(c)
  PROVE  ChannelInv'
<1> USE DEF Post
<1>0. ChannelTypes /\ Quiet(c) /\ state[c] = "waiting" /\ Begun(c) /\ asks[c] # 0
  BY DEF ChannelInv, CallInv
<1>1. /\ cpc'[c] = "wait" /\ port'[c] = <<IF more[c] THEN "more" ELSE "ask">>
      /\ UNCHANGED <<state, length, bytes, asks, more, seen, len, out, value, up, reading,
                     pending, job, answer>>
  BY <1>0 DEF ChannelTypes, Quiet, fsWorker
<1>2. ChannelTypes'
  <2>1. port' \in [Consoles -> {<<>>, <<"ask">>, <<"more">>}]
    BY <1>0, <1>1 DEF ChannelTypes
  <2>2. cpc' \in [Consoles -> CallSteps]
    BY <1>0 DEF ChannelTypes, CallSteps
  <2> QED
    BY <1>0, <1>1, <2>1, <2>2 DEF ChannelTypes
<1>3. \A d \in Consoles : d # c => Leaves(d)
  BY <1>0, <1>1 DEF ChannelTypes, Leaves
<1>4. Begun(c)'
  BY <1>0, <1>1 DEF Begun, Whole
<1>5. CallInv(c)'
  BY <1>0, <1>1, <1>4 DEF CallInv, WaitInv, Quiet
<1> QED
  BY <1>2, <1>3, <1>5, OneConsole

\* The console wakes to what the worker stored last.
LEMMA WakeKeeps ==
  ASSUME ChannelInv, NEW c \in Consoles, Wake(c)
  PROVE  ChannelInv'
<1> USE DEF Wake
<1>0. /\ ChannelTypes /\ Quiet(c) /\ asks[c] # 0
      /\ IF state[c] = "closed" THEN answer[c] = Refused ELSE Given(c, state[c], length[c])
  BY DEF ChannelInv, CallInv, WaitInv
<1>1. /\ seen'[c] = state[c] /\ state[c] \in {"ready", "more", "closed"}
      /\ cpc'[c] = IF state[c] = "closed" THEN "idle" ELSE "length"
      /\ UNCHANGED <<state, length, bytes, port, asks, more, len, out, up, reading,
                     pending, job, answer>>
  BY <1>0 DEF ChannelTypes, shared, fsWorker
<1>2. ChannelTypes'
  <2>1. cpc' \in [Consoles -> CallSteps] /\ value' \in [Consoles -> Replies]
    BY <1>0 DEF ChannelTypes, CallSteps, Replies
  <2>2. seen' \in [Consoles -> {"waiting", "ready", "more", "closed"}]
    BY <1>0 DEF ChannelTypes
  <2> QED
    BY <1>0, <1>1, <2>1, <2>2 DEF ChannelTypes
<1>3. \A d \in Consoles : d # c => Leaves(d)
  BY <1>0, <1>1 DEF ChannelTypes, Leaves
<1>4. CallInv(c)'
  BY <1>0, <1>1 DEF CallInv, Quiet, Given
<1> QED
  BY <1>2, <1>3, <1>4, OneConsole

\* The length loaded is the one stored with the state seen.
LEMMA LoadLengthKeeps ==
  ASSUME ChannelInv, NEW c \in Consoles, LoadLength(c)
  PROVE  ChannelInv'
<1> USE DEF LoadLength
<1>0. /\ ChannelTypes /\ Quiet(c) /\ asks[c] # 0 /\ seen[c] \in {"ready", "more"}
      /\ Given(c, seen[c], length[c])
  BY DEF ChannelInv, CallInv
<1>1. /\ len'[c] = length[c] /\ cpc'[c] = "slice"
      /\ UNCHANGED <<state, length, bytes, port, asks, more, seen, out, value, up, reading,
                     pending, job, answer>>
  BY <1>0 DEF ChannelTypes, shared, fsWorker
<1>2. ChannelTypes'
  <2>1. cpc' \in [Consoles -> CallSteps] /\ len' \in [Consoles -> 0 .. Capacity]
    BY <1>0 DEF ChannelTypes, CallSteps
  <2> QED
    BY <1>0, <1>1, <2>1 DEF ChannelTypes
<1>3. \A d \in Consoles : d # c => Leaves(d)
  BY <1>0, <1>1 DEF ChannelTypes, Leaves
<1>4. CallInv(c)'
  BY <1>0, <1>1 DEF CallInv, Quiet, Given
<1> QED
  BY <1>2, <1>3, <1>4, OneConsole

\* What the console has after a piece is the answer but for what is pending.
LEMMA Collected ==
  ASSUME ChannelInv, NEW c \in Consoles, Collect(c)
  PROVE  /\ out'[c] \in Seq(Bytes) /\ out'[c] = out[c] \o SubSeq(bytes[c], 1, len[c])
         /\ answer[c] = Answered(out'[c] \o pending[c]) /\ pending[c] \in Seq(Bytes)
         /\ seen[c] = "ready" => answer[c] = Answered(out'[c])
<1>0. /\ ChannelTypes /\ Given(c, seen[c], len[c])
  BY DEF ChannelInv, CallInv, Collect
<1>1. out'[c] = out[c] \o SubSeq(bytes[c], 1, len[c])
  BY <1>0 DEF Collect, ChannelTypes, Slice
<1>2. SubSeq(bytes[c], 1, len[c]) \in Seq(Bytes)
  <2> DEFINE b == bytes[c]
             n == len[c]
  <2>1. b \in [1 .. Capacity -> Bytes] /\ n \in 0 .. Capacity /\ Capacity \in Nat
    BY <1>0, ChannelAssumption DEF ChannelTypes
  <2> HIDE DEF b, n, Bytes
  <2>2. b \in Seq(Bytes) /\ Len(b) = Capacity
    BY <2>1
  <2>3. SubSeq(b, 1, n) \in Seq(Bytes)
    BY <2>1, <2>2
  <2> QED
    BY <2>3 DEF b, n
<1>3. out[c] \in Seq(Bytes) /\ pending[c] \in Seq(Bytes)
  BY <1>0 DEF ChannelTypes
<1>4. out'[c] \in Seq(Bytes)
  <2> DEFINE s == SubSeq(bytes[c], 1, len[c])
             o == out[c]
  <2>1. s \in Seq(Bytes) /\ o \in Seq(Bytes)
    BY <1>2, <1>3
  <2> HIDE DEF s, o
  <2>2. o \o s \in Seq(Bytes)
    BY <2>1
  <2> QED
    BY <1>1, <2>2 DEF s, o
<1>5. answer[c] = Answered(out'[c] \o pending[c])
  BY <1>0, <1>1, Zenon DEF Given
<1>6. seen[c] = "ready" => out'[c] \o pending[c] = out'[c]
  <2> SUFFICES ASSUME seen[c] = "ready" PROVE out'[c] \o pending[c] = out'[c]
    OBVIOUS
  <2>1. pending[c] = <<>>
    BY <1>0 DEF Given
  <2> DEFINE o == out'[c]
  <2>2. o \in Seq(Bytes)
    BY <1>4
  <2> HIDE DEF o
  <2>3. o \o <<>> = o
    BY <2>2
  <2> QED
    BY <2>1, <2>3 DEF o
<1> QED
  BY <1>1, <1>3, <1>4, <1>5, <1>6, Zenon

\* What is collected is the next of the answer.
LEMMA CollectKeeps ==
  ASSUME ChannelInv, NEW c \in Consoles, Collect(c)
  PROVE  ChannelInv'
<1>0. /\ ChannelTypes /\ Quiet(c) /\ asks[c] # 0 /\ seen[c] \in {"ready", "more"} /\ up
  BY DEF ChannelInv, CallInv, Given, Collect
<1>1. /\ cpc'[c] = IF seen[c] = "more" THEN "again" ELSE "idle"
      /\ UNCHANGED <<state, length, bytes, port, asks, more, seen, len, up, reading,
                     pending, job, answer>>
  BY <1>0 DEF Collect, ChannelTypes, shared, fsWorker
<1>2. ChannelTypes'
  <2>1. cpc' \in [Consoles -> CallSteps]
    BY <1>0 DEF Collect, ChannelTypes, CallSteps
  <2>2. out' \in [Consoles -> Seq(Bytes)]
    <3>1. out'[c] \in Seq(Bytes)
      BY Collected
    <3>2. out \in [Consoles -> Seq(Bytes)] /\ out' = [out EXCEPT ![c] = out'[c]]
      BY <1>0 DEF Collect, ChannelTypes
    <3> QED
      BY <3>1, <3>2
  <2>3. value' \in [Consoles -> Replies]
    <3>1. Answered(out'[c]) \in Replies
      BY Collected DEF Replies
    <3> QED
      BY <1>0, <3>1 DEF Collect, ChannelTypes
  <2> QED
    BY <1>0, <1>1, <2>1, <2>2, <2>3 DEF ChannelTypes
<1>3. \A d \in Consoles : d # c => Leaves(d)
  BY <1>0, <1>1 DEF Collect, ChannelTypes, Leaves
<1>4. Whole(c, pending[c])'
  BY <1>1, Collected, Zenon DEF Whole
<1>5. CallInv(c)'
  BY <1>0, <1>1, <1>4 DEF CallInv, Quiet
<1> QED
  BY <1>2, <1>3, <1>5, OneConsole

\* The rest is asked for.
LEMMA AgainKeeps ==
  ASSUME ChannelInv, NEW c \in Consoles, Again(c)
  PROVE  ChannelInv'
<1> USE DEF Again
<1>0. /\ ChannelTypes /\ Quiet(c) /\ asks[c] # 0 /\ up /\ Whole(c, pending[c])
  BY DEF ChannelInv, CallInv
<1>1. /\ cpc'[c] = "post" /\ state'[c] = "waiting" /\ more'[c] = TRUE
      /\ UNCHANGED <<length, bytes, port, asks, seen, len, out, value, up, reading,
                     pending, job, answer>>
  BY <1>0 DEF ChannelTypes, fsWorker
<1>2. ChannelTypes'
  <2>1. cpc' \in [Consoles -> CallSteps] /\ more' \in [Consoles -> BOOLEAN]
          /\ state' \in [Consoles -> {"waiting", "ready", "more", "closed"}]
    BY <1>0 DEF ChannelTypes, CallSteps
  <2> QED
    BY <1>0, <1>1, <2>1 DEF ChannelTypes
<1>3. \A d \in Consoles : d # c => Leaves(d)
  BY <1>0, <1>1 DEF ChannelTypes, Leaves
<1>4. CallInv(c)'
  BY <1>0, <1>1 DEF CallInv, Quiet, Begun, Whole
<1> QED
  BY <1>2, <1>3, <1>4, OneConsole

\* Of a console that is closed nothing is claimed.
LEMMA TerminateKeeps ==
  ASSUME ChannelInv, NEW c \in Consoles, Terminate(c)
  PROVE  ChannelInv'
<1> USE DEF Terminate
<1>0. ChannelTypes
  BY DEF ChannelInv
<1>1. /\ cpc'[c] = "gone"
      /\ UNCHANGED <<state, length, bytes, port, asks, more, seen, len, out, value, up, reading,
                     pending, job, answer>>
  BY <1>0 DEF ChannelTypes, shared, fsWorker
<1>2. ChannelTypes'
  <2>1. cpc' \in [Consoles -> CallSteps]
    BY <1>0 DEF ChannelTypes, CallSteps
  <2> QED
    BY <1>0, <1>1, <2>1 DEF ChannelTypes
<1>3. \A d \in Consoles : d # c => Leaves(d)
  BY <1>0, <1>1 DEF ChannelTypes, Leaves
<1>4. CallInv(c)'
  BY <1>1 DEF CallInv
<1> QED
  BY <1>2, <1>3, <1>4, OneConsole

\* Its buffer is given up.
LEMMA DetachKeeps ==
  ASSUME ChannelInv, NEW c \in Consoles, Detach(c)
  PROVE  ChannelInv'
<1> USE DEF Detach
<1>0. ChannelTypes
  BY DEF ChannelInv
<1>1. /\ cpc[c] = "gone"
      /\ UNCHANGED <<state, length, bytes, cpc, asks, more, seen, len, out, value, up, reading,
                     pending, job, answer>>
  BY DEF console, fsWorker
<1>2. ChannelTypes'
  <2>1. port' \in [Consoles -> {<<>>, <<"ask">>, <<"more">>}]
    BY <1>0 DEF ChannelTypes
  <2> QED
    BY <1>0, <1>1, <2>1 DEF ChannelTypes
<1>3. \A d \in Consoles : d # c => Leaves(d)
  BY <1>0, <1>1 DEF ChannelTypes, Leaves
<1>4. CallInv(c)'
  BY <1>1 DEF CallInv
<1> QED
  BY <1>2, <1>3, <1>4, OneConsole

-----------------------------------------------------------------------------
(* The steps of the filesystem worker.                                     *)

\* The worker is up, or has given up.
LEMMA StartKeeps ==
  ASSUME ChannelInv, Start
  PROVE  ChannelInv'
<1>0. ChannelTypes /\ \A c \in Consoles : CallInv(c)
  BY DEF ChannelInv
<1>1. /\ up' = TRUE
      /\ UNCHANGED <<state, length, bytes, port, cpc, asks, more, seen, len, out, value, reading,
                     pending, job, answer>>
  BY DEF Start, shared, console
<1>2. ChannelTypes'
  BY <1>0, <1>1 DEF ChannelTypes
<1>3. \A d \in Consoles : Leaves(d)
  BY <1>1 DEF Leaves
<1>4. \A d \in Consoles : CallInv(d)'
  BY <1>0, <1>3, LeftAlone
<1> QED
  BY <1>2, <1>4 DEF ChannelInv

\* With a message on its port, a console that is not closed is parked on its answer.
LEMMA Heard ==
  ASSUME ChannelInv, NEW c \in Consoles, port[c] # <<>>, cpc[c] # "gone"
  PROVE  /\ cpc[c] = "wait" /\ state[c] = "waiting" /\ c \notin reading /\ job.to # c /\ Begun(c)
         /\ Head(port[c]) = IF more[c] THEN "more" ELSE "ask"
         /\ Tail(port[c]) = <<>> /\ asks[c] # 0
<1>1. cpc[c] \in CallSteps /\ CallInv(c)
  BY DEF ChannelInv, ChannelTypes
<1>2. /\ cpc[c] = "wait" /\ state[c] = "waiting" /\ c \notin reading /\ job.to # c /\ Begun(c)
      /\ port[c] = <<IF more[c] THEN "more" ELSE "ask">> /\ asks[c] # 0
  BY <1>1 DEF CallInv, WaitInv, Quiet, CallSteps
<1> QED
  BY <1>2

\* A whole answer, to the call the console is in, is about to be stored.
LEMMA AnsweringGives ==
  ASSUME ChannelTypes, NEW c \in Consoles, Answering(c)
  PROVE  /\ answer' \in [Consoles -> Replies] /\ job' \in Deliveries
         /\ job'.to = c /\ job'.step = "fill"
         /\ answer' = [answer EXCEPT ![c] = Answered(job'.payload)]
<1>1. PICK size \in Sizes : /\ answer' = [answer EXCEPT ![c] = Answered(Answer(c, asks[c], size))]
                            /\ job' = Delivery(c, Answer(c, asks[c], size))
  BY DEF Answering
<1> DEFINE a == Answer(c, asks[c], size)
<1>2. a \in Seq(Bytes) /\ Answered(a) \in Replies
  <2>1. asks[c] \in Nat /\ size \in Nat
    BY ChannelAssumption DEF ChannelTypes
  <2> QED
    BY <2>1, AnswerIs
<1>3. answer' = [answer EXCEPT ![c] = Answered(a)] /\ job' = Delivery(c, a)
  BY <1>1
<1> HIDE DEF a
<1>4. job' \in Deliveries /\ job'.to = c /\ job'.step = "fill" /\ job'.payload = a
  BY <1>2, <1>3, ChannelAssumption DEF Deliveries, Delivery
<1> QED
  BY <1>2, <1>3, <1>4 DEF ChannelTypes

\* A job begun for a console says so.
LEMMA TakeKeeps ==
  ASSUME ChannelInv, NEW c \in Consoles, Take(c)
  PROVE  ChannelInv'
<1> USE DEF Take
<1>0. ChannelTypes /\ job = Idle /\ port[c] # <<>> /\ \A d \in Consoles : job.to # d
  BY ChannelAssumption DEF ChannelInv, Idle
<1>1. /\ port'[c] = Tail(port[c]) /\ \A d \in Consoles : d # c => port'[d] = port[d]
      /\ UNCHANGED <<state, length, bytes, cpc, asks, more, seen, len, out, value, up, pending>>
  BY <1>0 DEF ChannelTypes, console
<1>2. port' \in [Consoles -> {<<>>, <<"ask">>, <<"more">>}]
  <2>1. port[c] \in {<<"ask">>, <<"more">>}
    BY <1>0 DEF ChannelTypes
  <2>2. Tail(<<"ask">>) = <<>> /\ Tail(<<"more">>) = <<>>
    OBVIOUS
  <2>3. Tail(port[c]) = <<>>
    BY <2>1, <2>2
  <2> QED
    BY <1>0, <2>3 DEF ChannelTypes
<1>w. CASE ~up
  <2>1. /\ job' = Refusal(c) /\ answer' = [answer EXCEPT ![c] = Refused] /\ reading' = reading
    BY <1>w
  <2>2. /\ job' \in Refusals /\ job'.to = c /\ job'.step = "refuse" /\ answer'[c] = Refused
        /\ answer' \in [Consoles -> Replies]
    BY <1>0, <2>1 DEF Refusal, Refusals, ChannelTypes, Replies
  <2>3. ChannelTypes'
    BY <1>0, <1>1, <1>2, <2>1, <2>2 DEF ChannelTypes
  <2>4. \A d \in Consoles : d # c => Leaves(d)
    BY <1>0, <1>1, <2>1, <2>2 DEF ChannelTypes, Leaves
  <2>5. CallInv(c)'
    <3>1. CASE cpc[c] = "gone"
      BY <1>1, <3>1 DEF CallInv
    <3>2. CASE cpc[c] # "gone"
      BY <1>0, <1>1, <2>1, <2>2, <3>2, Heard DEF CallInv, WaitInv, Stored
    <3> QED
      BY <3>1, <3>2
  <2> QED
    BY <2>3, <2>4, <2>5, OneConsole
<1>m. CASE /\ up /\ Head(port[c]) = "more" /\ job' = Delivery(c, pending[c])
           /\ UNCHANGED <<reading, answer>>
  <2>1. job' \in Deliveries /\ job'.to = c /\ job'.step = "fill" /\ job'.payload = pending[c]
    <3>1. pending[c] \in Seq(Bytes)
      BY <1>0 DEF ChannelTypes
    <3> QED
      BY <1>m, <3>1, ChannelAssumption DEF Deliveries, Delivery
  <2>2. ChannelTypes'
    BY <1>0, <1>1, <1>2, <1>m, <2>1 DEF ChannelTypes
  <2>3. \A d \in Consoles : d # c => Leaves(d)
    BY <1>0, <1>1, <1>m, <2>1 DEF ChannelTypes, Leaves
  <2>4. CallInv(c)'
    <3>1. CASE cpc[c] = "gone"
      BY <1>1, <3>1 DEF CallInv
    <3>2. CASE cpc[c] # "gone"
      <4>1. more[c] /\ Whole(c, pending[c])
        BY <1>0, <1>m, <3>2, Heard DEF Begun
      <4>2. Whole(c, job.payload)'
        BY <1>1, <1>m, <2>1, <4>1 DEF Whole
      <4> QED
        BY <1>0, <1>1, <1>m, <2>1, <3>2, <4>2, Heard DEF CallInv, WaitInv, Stored
    <3> QED
      BY <3>1, <3>2
  <2> QED
    BY <2>2, <2>3, <2>4, OneConsole
<1>a. CASE up /\ Head(port[c]) = "ask" /\ Answering(c) /\ UNCHANGED reading
  <2>1. /\ answer' \in [Consoles -> Replies] /\ job' \in Deliveries
        /\ job'.to = c /\ job'.step = "fill"
        /\ answer' = [answer EXCEPT ![c] = Answered(job'.payload)]
    BY <1>0, <1>a, AnsweringGives
  <2>2. ChannelTypes'
    BY <1>0, <1>1, <1>2, <1>a, <2>1 DEF ChannelTypes
  <2>3. \A d \in Consoles : d # c => Leaves(d)
    BY <1>0, <1>1, <1>a, <2>1 DEF ChannelTypes, Leaves
  <2>4. CallInv(c)'
    <3>1. CASE cpc[c] = "gone"
      BY <1>1, <3>1 DEF CallInv
    <3>2. CASE cpc[c] # "gone"
      <4>1. ~more[c] /\ out[c] = <<>>
        BY <1>0, <1>a, <3>2, Heard DEF Begun
      <4>2. Whole(c, job.payload)'
        <5> DEFINE p == job'.payload
        <5>1. p \in Seq(Bytes) /\ answer'[c] = Answered(p)
          BY <1>0, <2>1 DEF Deliveries, ChannelTypes
        <5> HIDE DEF p
        <5>2. <<>> \o p = p
          BY <5>1
        <5> QED
          BY <1>1, <4>1, <5>1, <5>2 DEF Whole, p
      <4>3. /\ cpc[c] = "wait" /\ state[c] = "waiting" /\ c \notin reading /\ port'[c] = <<>>
            /\ asks[c] # 0
        BY <1>0, <1>1, <3>2, Heard
      <4> QED
        BY <1>1, <1>a, <2>1, <4>2, <4>3 DEF CallInv, WaitInv, Stored
    <3> QED
      BY <3>1, <3>2
  <2> QED
    BY <2>2, <2>3, <2>4, OneConsole
<1>r. CASE up /\ Head(port[c]) = "ask" /\ reading' = reading \cup {c} /\ UNCHANGED <<job, answer>>
  <2>1. ChannelTypes'
    BY <1>0, <1>1, <1>2, <1>r DEF ChannelTypes
  <2>2. \A d \in Consoles : d # c => Leaves(d)
    BY <1>0, <1>1, <1>r DEF ChannelTypes, Leaves
  <2>3. CallInv(c)'
    <3>1. CASE cpc[c] = "gone"
      BY <1>1, <3>1 DEF CallInv
    <3>2. CASE cpc[c] # "gone"
      <4>1. ~more[c] /\ Begun(c)'
        BY <1>0, <1>1, <1>r, <3>2, Heard DEF Begun, Whole
      <4> QED
        BY <1>0, <1>1, <1>r, <3>2, <4>1, Heard DEF CallInv, WaitInv
    <3> QED
      BY <3>1, <3>2
  <2> QED
    BY <2>1, <2>2, <2>3, OneConsole
<1> QED
  BY <1>w, <1>m, <1>a, <1>r

\* The disk has been read.
LEMMA ReadDoneKeeps ==
  ASSUME ChannelInv, NEW c \in Consoles, ReadDone(c)
  PROVE  ChannelInv'
<1>0. ChannelTypes /\ job = Idle /\ \A d \in Consoles : job.to # d
  BY ChannelAssumption DEF ChannelInv, Idle, ReadDone
<1>1. /\ c \in reading /\ reading' = reading \ {c}
      /\ UNCHANGED <<state, length, bytes, port, cpc, asks, more, seen, len, out, value, up,
                      pending>>
  BY DEF ReadDone, shared, console
<1>2. /\ answer' \in [Consoles -> Replies] /\ job' \in Deliveries
      /\ job'.to = c /\ job'.step = "fill"
      /\ answer' = [answer EXCEPT ![c] = Answered(job'.payload)]
  BY <1>0, AnsweringGives DEF ReadDone
<1>3. ChannelTypes'
  BY <1>0, <1>1, <1>2 DEF ChannelTypes
<1>4. \A d \in Consoles : d # c => Leaves(d)
  BY <1>0, <1>1, <1>2 DEF ChannelTypes, Leaves
<1>5. CallInv(c)'
  <2>1. CASE cpc[c] = "gone"
    BY <1>1, <2>1 DEF CallInv
  <2>2. CASE cpc[c] # "gone"
    <3>1. /\ cpc[c] = "wait" /\ state[c] = "waiting" /\ port[c] = <<>> /\ ~more[c] /\ out[c] = <<>>
          /\ asks[c] # 0 /\ up
      <4>1. CallInv(c) /\ cpc[c] \in CallSteps
        BY DEF ChannelInv, ChannelTypes
      <4> QED
        BY <1>1, <2>2, <4>1 DEF CallInv, WaitInv, Quiet, Begun, CallSteps
    <3>2. Whole(c, job.payload)'
      <4> DEFINE p == job'.payload
      <4>1. p \in Seq(Bytes) /\ answer'[c] = Answered(p)
        BY <1>0, <1>2 DEF Deliveries, ChannelTypes
      <4> HIDE DEF p
      <4>2. <<>> \o p = p
        BY <4>1
      <4> QED
        BY <1>1, <3>1, <4>1, <4>2 DEF Whole, p
    <3> QED
      BY <1>1, <1>2, <3>1, <3>2 DEF CallInv, WaitInv, Stored
  <2> QED
    BY <2>1, <2>2
<1> QED
  BY <1>3, <1>4, <1>5, OneConsole

\* While the worker stores into the buffer of a console that is not closed, that
\* console is parked on it.
LEMMA BeingStored ==
  ASSUME ChannelInv, NEW c \in Consoles, job.to = c, cpc[c] # "gone"
  PROVE  /\ cpc[c] = "wait" /\ state[c] = "waiting" /\ port[c] = <<>> /\ c \notin reading
         /\ Stored(c) /\ asks[c] # 0
<1>1. cpc[c] \in CallSteps /\ CallInv(c)
  BY DEF ChannelInv, ChannelTypes
<1> QED
  BY <1>1 DEF CallInv, WaitInv, Quiet, CallSteps

\* A step of the storing goes on with it, and keeps the console parked.
LEMMA StoringOn ==
  ASSUME ChannelInv, ChannelTypes', job # Idle, job'.to = job.to,
         UNCHANGED <<state, port, cpc, asks, more, seen, len, out, value, up, reading, answer>>,
         \A d \in Consoles : d # job.to => Leaves(d),
         \A c \in Consoles : job.to = c /\ cpc[c] # "gone" /\ Stored(c) => Stored(c)'
  PROVE  ChannelInv'
<1>1. PICK c \in Consoles : job.to = c
  BY DEF ChannelInv, ChannelTypes, Deliveries, Refusals
<1>2. CASE cpc[c] = "gone"
  <2>1. CallInv(c)'
    BY <1>2 DEF CallInv
  <2> QED
    BY <1>1, <2>1, OneConsole
<1>3. CASE cpc[c] # "gone"
  <2>1. /\ cpc[c] = "wait" /\ state[c] = "waiting" /\ port[c] = <<>> /\ c \notin reading
        /\ Stored(c) /\ asks[c] # 0
    BY <1>1, <1>3, BeingStored
  <2>2. CallInv(c)'
    BY <1>1, <1>3, <2>1 DEF CallInv, WaitInv
  <2> QED
    BY <1>1, <2>2, OneConsole
<1> QED
  BY <1>2, <1>3

\* The first of what is stored, and the rest of it.
LEMMA FillIs ==
  ASSUME ChannelTypes, job \in Deliveries, Fill
  PROVE  LET c == job.to
             n == job'.fits
         IN  /\ job' \in Deliveries /\ job'.to = c /\ job'.step = "length"
             /\ job'.payload = job.payload
             /\ bytes'[c] \in [1 .. Capacity -> Bytes] /\ pending'[c] \in Seq(Bytes)
             /\ job.payload = SubSeq(bytes'[c], 1, n) \o pending'[c]
             /\ SubSeq(bytes'[c], 1, n) \in Seq(Bytes)
             /\ ~MoreToCome(n, job.payload) => pending'[c] = <<>>
             /\ bytes' \in [Consoles -> [1 .. Capacity -> Bytes]]
             /\ pending' \in [Consoles -> Seq(Bytes)]
<1> DEFINE c == job.to
           p == job.payload
           n == Smaller(Len(p), Capacity)
           b == [i \in 1 .. Capacity |-> IF i <= n THEN p[i] ELSE bytes[c][i]]
<1>1. /\ bytes' = [bytes EXCEPT ![c] = b] /\ pending' = [pending EXCEPT ![c] = Rest(n, p)]
      /\ job' = [job EXCEPT !.step = "length", !.fits = n]
  BY DEF Fill
<1>2. c \in Consoles /\ p \in Seq(Bytes) /\ Len(p) \in Nat /\ Capacity \in Nat
      /\ bytes[c] \in [1 .. Capacity -> Bytes]
  BY ChannelAssumption DEF Deliveries, ChannelTypes
<1>3. n \in Nat /\ n <= Len(p) /\ n <= Capacity /\ (~(n < Len(p)) => n = Len(p))
  BY <1>2 DEF Smaller
<1>4. /\ job' \in Deliveries /\ job'.to = c /\ job'.step = "length" /\ job'.payload = p
      /\ job'.fits = n
  <2>1. n \in 0 .. Capacity
    BY <1>2, <1>3
  <2> HIDE DEF n
  <2>2. job' = [to |-> job.to, step |-> "length", payload |-> job.payload, fits |-> n]
    BY <1>1 DEF Deliveries
  <2> QED
    BY <1>2, <2>1, <2>2 DEF Deliveries
<1>5. b \in [1 .. Capacity -> Bytes] /\ \A i \in 1 .. n : b[i] = p[i]
  <2>1. \A i \in 1 .. Capacity : i <= n => i \in 1 .. Len(p)
    <3> HIDE DEF n
    <3> QED
      BY <1>2, <1>3
  <2>2. \A i \in 1 .. Len(p) : p[i] \in Bytes
    BY <1>2
  <2>3. \A i \in 1 .. n : i \in 1 .. Capacity /\ i <= n
    <3> HIDE DEF n
    <3> QED
      BY <1>2, <1>3
  <2> HIDE DEF n, p, c, Bytes
  <2> QED
    BY <1>2, <2>1, <2>2, <2>3
<1>6. bytes'[c] = b /\ pending'[c] = Rest(n, p)
  BY <1>1, <1>2 DEF ChannelTypes
<1> HIDE DEF b, n, p, c
<1>7. /\ SubSeq(b, 1, n) \in Seq(Bytes) /\ Rest(n, p) \in Seq(Bytes)
      /\ p = SubSeq(b, 1, n) \o Rest(n, p)
      /\ n = Len(p) => Rest(n, p) = <<>>
  BY <1>2, <1>3, <1>5, CutIs
<1>8. /\ bytes' \in [Consoles -> [1 .. Capacity -> Bytes]] /\ pending' \in [Consoles -> Seq(Bytes)]
  BY <1>1, <1>2, <1>5, <1>7 DEF ChannelTypes
<1>9. /\ job' \in Deliveries /\ job'.to = c /\ job'.step = "length" /\ job'.payload = p
      /\ bytes'[c] \in [1 .. Capacity -> Bytes] /\ pending'[c] \in Seq(Bytes)
      /\ SubSeq(bytes'[c], 1, job'.fits) \in Seq(Bytes)
      /\ ~MoreToCome(job'.fits, p) => pending'[c] = <<>>
  BY <1>3, <1>4, <1>5, <1>6, <1>7 DEF MoreToCome
<1>10. p = SubSeq(bytes'[c], 1, job'.fits) \o pending'[c]
  BY <1>4, <1>6, <1>7, Zenon
<1> QED
  BY <1>8, <1>9, <1>10, Zenon DEF c, p

\* The worker fills the buffer with what fits.
LEMMA FillKeeps ==
  ASSUME ChannelInv, Fill
  PROVE  ChannelInv'
<1>0. ChannelTypes /\ job \in Deliveries /\ job # Idle /\ job.step = "fill"
  BY DEF Fill, ChannelInv, ChannelTypes, Refusals
<1> DEFINE c == job.to
           n == job'.fits
<1>1. UNCHANGED <<state, length, port, cpc, asks, more, seen, len, out, value, up, reading, answer>>
  BY DEF Fill, console
<1>2. /\ job' \in Deliveries /\ job'.to = c /\ job'.step = "length" /\ job'.payload = job.payload
      /\ bytes'[c] \in [1 .. Capacity -> Bytes] /\ pending'[c] \in Seq(Bytes)
      /\ job.payload = SubSeq(bytes'[c], 1, n) \o pending'[c]
      /\ SubSeq(bytes'[c], 1, n) \in Seq(Bytes)
      /\ ~MoreToCome(n, job.payload) => pending'[c] = <<>>
      /\ bytes' \in [Consoles -> [1 .. Capacity -> Bytes]] /\ pending' \in [Consoles -> Seq(Bytes)]
  BY <1>0, FillIs
<1>3. ChannelTypes'
  BY <1>0, <1>1, <1>2 DEF ChannelTypes
<1>4. \A d \in Consoles : d # job.to => Leaves(d)
  <2> SUFFICES ASSUME NEW d \in Consoles, d # job.to PROVE Leaves(d)
    OBVIOUS
  <2>1. bytes'[d] = bytes[d] /\ pending'[d] = pending[d]
    BY <1>0 DEF Fill, ChannelTypes
  <2> QED
    BY <1>1, <1>2, <2>1 DEF Leaves
<1>5. ASSUME c \in Consoles, Stored(c) PROVE Stored(c)'
  <2>1. up /\ answer[c] = Answered(out[c] \o job.payload) /\ out[c] \in Seq(Bytes)
    BY <1>0, <1>5 DEF Stored, Whole, ChannelTypes
  <2>2. out[c] \o job.payload = (out[c] \o SubSeq(bytes'[c], 1, n)) \o pending'[c]
    <3> DEFINE s == SubSeq(bytes'[c], 1, n)
               r == pending'[c]
               o == out[c]
               p == job.payload
    <3>1. s \in Seq(Bytes) /\ r \in Seq(Bytes) /\ o \in Seq(Bytes)
      BY <1>2, <2>1
    <3>2. p = s \o r
      BY <1>2
    <3> HIDE DEF s, r, o, p
    <3>3. (o \o s) \o r = o \o (s \o r)
      BY <3>1, JoinIs
    <3>4. o \o p = (o \o s) \o r
      BY <3>2, <3>3, Zenon
    <3> QED
      BY <3>4, Zenon DEF s, r, o, p
  <2>3. /\ answer'[c] = Answered((out'[c] \o SubSeq(bytes'[c], 1, n)) \o pending'[c])
    BY <1>1, <2>1, <2>2, Zenon
  <2>4. Given(c, IF MoreToCome(job.fits, job.payload) THEN "more" ELSE "ready", job.fits)'
    <3>1. ~MoreToCome(n, job'.payload) => pending'[c] = <<>>
      BY <1>2
    <3>2. up'
      BY <1>1, <2>1
    <3> HIDE DEF c, n
    <3>3. answer'[c] = Answered((out'[c] \o SubSeq(bytes'[c], 1, job'.fits)) \o pending'[c])
      BY <2>3, Zenon DEF n
    <3>4. c' = c
      BY <1>2 DEF c
    <3> QED
      BY <3>1, <3>2, <3>3, <3>4 DEF Given, n
  <2> QED
    BY <1>2, <2>4 DEF Stored
<1> HIDE DEF n
<1>6. \A d \in Consoles : job.to = d /\ cpc[d] # "gone" /\ Stored(d) => Stored(d)'
  BY <1>2, <1>5
<1>7. job'.to = job.to
  BY <1>2
<1> QED
  BY <1>0, <1>1, <1>3, <1>4, <1>6, <1>7, StoringOn

\* It stores how much.
LEMMA StoreLengthKeeps ==
  ASSUME ChannelInv, StoreLength
  PROVE  ChannelInv'
<1>0. ChannelTypes /\ job \in Deliveries /\ job # Idle /\ job.step = "length"
  BY DEF StoreLength, ChannelInv, ChannelTypes, Refusals
<1>1. /\ length' = [length EXCEPT ![job.to] = job.fits]
      /\ UNCHANGED <<state, bytes, port, cpc, asks, more, seen, len, out, value, up, reading,
                     pending, answer>>
  BY DEF StoreLength, console
<1>2. job' = [to |-> job.to, step |-> "state", payload |-> job.payload, fits |-> job.fits]
  BY <1>0 DEF StoreLength, Deliveries
<1>3. /\ job' \in Deliveries /\ job'.to = job.to /\ job'.step = "state"
      /\ job'.payload = job.payload /\ job'.fits = job.fits /\ job.to \in Consoles
  BY <1>0, <1>2 DEF Deliveries
<1>4. ChannelTypes'
  <2>1. length' \in [Consoles -> 0 .. Capacity]
    BY <1>0, <1>1 DEF ChannelTypes, Deliveries
  <2> QED
    BY <1>0, <1>1, <1>3, <2>1 DEF ChannelTypes
<1>5. \A d \in Consoles : d # job.to => Leaves(d)
  BY <1>0, <1>1, <1>3 DEF ChannelTypes, Leaves
<1>6. ASSUME NEW d \in Consoles, job.to = d, Stored(d) PROVE Stored(d)'
  <2>1. length'[d] = job.fits
    BY <1>0, <1>1, <1>6 DEF ChannelTypes
  <2> QED
    BY <1>0, <1>1, <1>3, <1>6, <2>1 DEF Stored, Given
<1> QED
  BY <1>0, <1>1, <1>3, <1>4, <1>5, <1>6, StoringOn

\* It refuses, and then marks the buffer closed.
LEMMA RefuseKeeps ==
  ASSUME ChannelInv, Refuse
  PROVE  ChannelInv'
<1>0. ChannelTypes /\ job \in Refusals /\ job # Idle /\ job.step = "refuse"
  BY DEF Refuse, ChannelInv, ChannelTypes, Deliveries
<1>1. /\ length' = [length EXCEPT ![job.to] = 0]
      /\ UNCHANGED <<state, bytes, port, cpc, asks, more, seen, len, out, value, up, reading,
                     pending, answer>>
  BY DEF Refuse, console
<1>2. job' = [to |-> job.to, step |-> "closed"]
  BY <1>0 DEF Refuse, Refusals
<1>3. job' \in Refusals /\ job'.to = job.to /\ job'.step = "closed" /\ job.to \in Consoles
  BY <1>0, <1>2 DEF Refusals
<1>4. ChannelTypes'
  <2>1. length' \in [Consoles -> 0 .. Capacity]
    <3>1. 0 \in 0 .. Capacity
      BY ChannelAssumption
    <3> QED
      BY <1>0, <1>1, <3>1 DEF ChannelTypes
  <2> QED
    BY <1>0, <1>1, <1>3, <2>1 DEF ChannelTypes
<1>5. \A d \in Consoles : d # job.to => Leaves(d)
  BY <1>0, <1>1, <1>3 DEF ChannelTypes, Leaves
<1>6. ASSUME NEW d \in Consoles, job.to = d, Stored(d) PROVE Stored(d)'
  BY <1>0, <1>1, <1>3, <1>6 DEF Stored
<1> QED
  BY <1>0, <1>1, <1>3, <1>4, <1>5, <1>6, StoringOn

\* The last store wakes the console, and ends the job.
LEMMA StoreStateKeeps ==
  ASSUME ChannelInv, StoreState
  PROVE  ChannelInv'
<1>0. ChannelTypes /\ job \in Deliveries /\ job.step = "state"
  BY DEF StoreState, ChannelInv, ChannelTypes, Refusals
<1>1. PICK c \in Consoles : job.to = c
  BY <1>0 DEF Deliveries
<1> DEFINE s == IF MoreToCome(job.fits, job.payload) THEN "more" ELSE "ready"
<1>2. /\ state' = [state EXCEPT ![c] = s] /\ job' = Idle
      /\ UNCHANGED <<length, bytes, port, cpc, asks, more, seen, len, out, value, up, reading,
                     pending, answer>>
  BY <1>1 DEF StoreState, console
<1>3. s \in {"more", "ready"}
  OBVIOUS
<1> HIDE DEF s
<1>4. state'[c] = s /\ \A d \in Consoles : job'.to # d
  BY <1>0, <1>2, ChannelAssumption DEF ChannelTypes, Idle
<1>5. ChannelTypes'
  <2>1. state' \in [Consoles -> {"waiting", "ready", "more", "closed"}]
    BY <1>0, <1>2, <1>3 DEF ChannelTypes
  <2> QED
    BY <1>0, <1>2, <2>1 DEF ChannelTypes
<1>6. \A d \in Consoles : d # c => Leaves(d)
  BY <1>0, <1>1, <1>2, <1>4 DEF ChannelTypes, Leaves
<1>7. CallInv(c)'
  <2>1. CASE cpc[c] = "gone"
    BY <1>2, <2>1 DEF CallInv
  <2>2. CASE cpc[c] # "gone"
    <3>1. cpc[c] = "wait" /\ port[c] = <<>> /\ c \notin reading /\ asks[c] # 0 /\ Stored(c)
      BY <1>1, <2>2, BeingStored
    <3>2. Given(c, s, length[c])
      BY <1>0, <3>1 DEF Stored, s
    <3>3. Given(c, state[c], length[c])'
      BY <1>2, <1>4, <3>2 DEF Given
    <3> QED
      BY <1>2, <1>3, <1>4, <3>1, <3>3 DEF CallInv, WaitInv, Quiet
  <2> QED
    BY <2>1, <2>2
<1> QED
  BY <1>5, <1>6, <1>7, OneConsole

\* A refused console finds its buffer closed.
LEMMA StoreClosedKeeps ==
  ASSUME ChannelInv, StoreClosed
  PROVE  ChannelInv'
<1>0. ChannelTypes /\ job \in Refusals /\ job.step = "closed"
  BY DEF StoreClosed, ChannelInv, ChannelTypes, Deliveries
<1>1. PICK c \in Consoles : job.to = c
  BY <1>0 DEF Refusals
<1>2. /\ state' = [state EXCEPT ![c] = "closed"] /\ job' = Idle
      /\ UNCHANGED <<length, bytes, port, cpc, asks, more, seen, len, out, value, up, reading,
                     pending, answer>>
  BY <1>1 DEF StoreClosed, console
<1>4. state'[c] = "closed" /\ \A d \in Consoles : job'.to # d
  BY <1>0, <1>2, ChannelAssumption DEF ChannelTypes, Idle
<1>5. ChannelTypes'
  <2>1. state' \in [Consoles -> {"waiting", "ready", "more", "closed"}]
    BY <1>0, <1>2 DEF ChannelTypes
  <2> QED
    BY <1>0, <1>2, <2>1 DEF ChannelTypes
<1>6. \A d \in Consoles : d # c => Leaves(d)
  BY <1>0, <1>1, <1>2, <1>4 DEF ChannelTypes, Leaves
<1>7. CallInv(c)'
  <2>1. CASE cpc[c] = "gone"
    BY <1>2, <2>1 DEF CallInv
  <2>2. CASE cpc[c] # "gone"
    <3>1. cpc[c] = "wait" /\ port[c] = <<>> /\ c \notin reading /\ asks[c] # 0 /\ Stored(c)
      BY <1>1, <2>2, BeingStored
    <3>2. answer[c] = Refused
      BY <1>0, <3>1 DEF Stored
    <3> QED
      BY <1>2, <1>4, <3>1, <3>2 DEF CallInv, WaitInv, Quiet
  <2> QED
    BY <2>1, <2>2
<1> QED
  BY <1>5, <1>6, <1>7, OneConsole

\* A step of either side keeps every call what it is.
LEMMA ChannelStep ==
  ASSUME ChannelInv, ChannelNext
  PROVE  ChannelInv'
<1>1. ASSUME NEW c \in Consoles, Console(c) \/ Terminate(c) \/ Detach(c) PROVE ChannelInv'
  BY <1>1, CallKeeps, PostKeeps, WakeKeeps, LoadLengthKeeps, CollectKeeps, AgainKeeps,
     TerminateKeeps, DetachKeeps DEF Console
<1>2. ASSUME NEW c \in Consoles, Take(c) \/ ReadDone(c) PROVE ChannelInv'
  BY <1>2, TakeKeeps, ReadDoneKeeps
<1>3. CASE Storing
  BY <1>3, FillKeeps, StoreLengthKeeps, StoreStateKeeps, RefuseKeeps, StoreClosedKeeps DEF Storing
<1> QED
  BY <1>1, <1>2, <1>3, StartKeeps DEF ChannelNext, Serving

\* Nothing is under way at first.
LEMMA ChannelStart == ChannelInit => ChannelInv
<1> SUFFICES ASSUME ChannelInit PROVE ChannelInv
  OBVIOUS
<1> USE ChannelAssumption DEF ChannelInit
<1>1. bytes \in [Consoles -> [1 .. Capacity -> Bytes]]
  BY DEF Bytes
<1>2. <<>> \in Seq(Bytes) /\ NoAnswer \in Replies /\ 0 \in 0 .. Capacity /\ 0 \in 0 .. MaxAsks
  BY DEF Replies
<1>3. ChannelTypes
  BY <1>1, <1>2 DEF ChannelTypes, CallSteps
<1>4. \A c \in Consoles : CallInv(c)
  BY DEF CallInv, Quiet, Idle
<1> QED
  BY <1>3, <1>4 DEF ChannelInv

-----------------------------------------------------------------------------
(* One call, one answer.                                                   *)

\* What the calls come to, by the mapping.
Phases == [c \in Consoles |-> CallPhase(c)]
ToldOf(c) == IF cpc[c] = "gone" THEN NoAnswer ELSE answer[c]
Told == [c \in Consoles |-> ToldOf(c)]

\* Of a step of one console, or for it, that is all there is to see.
LEMMA ShowsOne ==
  ASSUME NEW c \in Consoles,
         \A d \in Consoles : d # c => cpc'[d] = cpc[d] /\ answer'[d] = answer[d]
  PROVE  /\ Phases' = [Phases EXCEPT ![c] = CallPhase(c)']
         /\ Told' = [Told EXCEPT ![c] = ToldOf(c)']
<1>1. \A d \in Consoles : d # c => CallPhase(d)' = CallPhase(d) /\ ToldOf(d)' = ToldOf(d)
  BY DEF CallPhase, ToldOf
<1> QED
  BY <1>1 DEF Phases, Told

\* A step that changes neither shows nothing.
LEMMA ShowsNone ==
  ASSUME UNCHANGED <<cpc, answer>>
  PROVE  Phases' = Phases /\ Told' = Told
  BY DEF Phases, Told, CallPhase, ToldOf

\* The console asks.
LEMMA CallAsks ==
  ASSUME ChannelInv, NEW c \in Consoles, Call(c)
  PROVE  Rpc!Next
<1>0. ChannelTypes
  BY DEF ChannelInv
<1>1. /\ cpc'[c] = "post" /\ answer'[c] = NoAnswer /\ cpc[c] = "idle" /\ value' = value
      /\ \A d \in Consoles : d # c => cpc'[d] = cpc[d] /\ answer'[d] = answer[d]
  BY <1>0 DEF Call, ChannelTypes
<1>2. CallPhase(c) = "idle" /\ CallPhase(c)' = "asked" /\ ToldOf(c)' = NoAnswer
  BY <1>1 DEF CallPhase, ToldOf
<1>3. Phases' = [Phases EXCEPT ![c] = "asked"] /\ Told' = [Told EXCEPT ![c] = NoAnswer]
  BY <1>1, <1>2, ShowsOne
<1>4. Phases[c] = "idle"
  BY <1>2 DEF Phases
<1>5. Rpc!Ask(c)
  BY <1>1, <1>3, <1>4 DEF Rpc!Ask, Phases, Told, ToldOf, Rpc!NoAnswer, NoAnswer
<1> QED
  BY <1>5 DEF Rpc!Next

\* A console that goes idle returns what it was told.
LEMMA ReturnShows ==
  ASSUME NEW c \in Consoles, CallPhase(c) = "served", cpc[c] # "gone", cpc'[c] = "idle",
         answer' = answer, value' = [value EXCEPT ![c] = answer[c]],
         \A d \in Consoles : d # c => cpc'[d] = cpc[d]
  PROVE  Rpc!Next
<1>1. CallPhase(c)' = "idle" /\ ToldOf(c)' = ToldOf(c) /\ ToldOf(c) = answer[c]
  BY DEF CallPhase, ToldOf
<1>2. Phases' = [Phases EXCEPT ![c] = "idle"] /\ Told' = [Told EXCEPT ![c] = ToldOf(c)]
  BY <1>1, ShowsOne
<1>3. Phases[c] = "served" /\ Told[c] = answer[c] /\ Told' = Told
  BY <1>1, <1>2 DEF Phases, Told
<1>4. Rpc!Return(c)
  BY <1>2, <1>3 DEF Rpc!Return, Phases, Told, ToldOf
<1> QED
  BY <1>4 DEF Rpc!Next

\* The filesystem answers the call.
LEMMA ServeShows ==
  ASSUME NEW c \in Consoles, CallPhase(c) = "asked", cpc' = cpc, value' = value,
         NEW a, a = Refused \/ \E b \in Answers : a = Answered(b),
         answer'[c] = a, \A d \in Consoles : d # c => answer'[d] = answer[d]
  PROVE  Rpc!Next
<1>1. cpc[c] \notin {"idle", "gone"} /\ a # NoAnswer
  BY DEF CallPhase, Refused, NoAnswer, Answered
<1>2. CallPhase(c)' = "served" /\ ToldOf(c)' = a
  BY <1>1 DEF CallPhase, ToldOf
<1>3. Phases' = [Phases EXCEPT ![c] = "served"] /\ Told' = [Told EXCEPT ![c] = a]
  BY <1>2, ShowsOne
<1>4. Phases[c] = "asked"
  BY DEF Phases
<1>5. Rpc!Serve(c)
  BY <1>3, <1>4 DEF Rpc!Serve, Phases, Told, ToldOf, Rpc!Refused, Refused, Rpc!Answered, Answered
<1> QED
  BY <1>5 DEF Rpc!Next

\* The terminal closes.
LEMMA TerminateCloses ==
  ASSUME ChannelInv, NEW c \in Consoles, Terminate(c)
  PROVE  Rpc!Next
<1>0. ChannelTypes
  BY DEF ChannelInv
<1>1. /\ cpc'[c] = "gone" /\ cpc[c] # "gone" /\ value' = value
      /\ \A d \in Consoles : d # c => cpc'[d] = cpc[d] /\ answer'[d] = answer[d]
  BY <1>0 DEF Terminate, ChannelTypes, fsWorker
<1>2. CallPhase(c)' = "gone" /\ ToldOf(c)' = NoAnswer /\ CallPhase(c) # "gone"
  BY <1>1 DEF CallPhase, ToldOf
<1>3. Phases' = [Phases EXCEPT ![c] = "gone"] /\ Told' = [Told EXCEPT ![c] = NoAnswer]
  BY <1>1, <1>2, ShowsOne
<1>4. Phases[c] # "gone"
  BY <1>2 DEF Phases
<1>5. Rpc!Close(c)
  BY <1>1, <1>3, <1>4 DEF Rpc!Close, Phases, Told, ToldOf, Rpc!NoAnswer, NoAnswer
<1> QED
  BY <1>5 DEF Rpc!Next

\* An answer the worker gives, to a call that has none yet.
LEMMA AnsweringServes ==
  ASSUME ChannelInv, NEW c \in Consoles, Answering(c), cpc' = cpc, value' = value,
         cpc[c] # "gone" => cpc[c] = "wait" /\ answer[c] = NoAnswer /\ asks[c] # 0
  PROVE  Rpc!Next \/ (Phases' = Phases /\ Told' = Told /\ value' = value)
<1>0. ChannelTypes
  BY DEF ChannelInv
<1>1. PICK size \in Sizes : answer' = [answer EXCEPT ![c] = Answered(Answer(c, asks[c], size))]
  BY DEF Answering
<1> DEFINE b == Answer(c, asks[c], size)
<1>2. answer'[c] = Answered(b) /\ \A d \in Consoles : d # c => answer'[d] = answer[d]
  BY <1>0, <1>1 DEF ChannelTypes
<1>3. CASE cpc[c] = "gone"
  <2>1. CallPhase(c)' = CallPhase(c) /\ ToldOf(c)' = ToldOf(c)
    BY <1>3 DEF CallPhase, ToldOf
  <2>2. Phases' = [Phases EXCEPT ![c] = CallPhase(c)] /\ Told' = [Told EXCEPT ![c] = ToldOf(c)]
    BY <1>2, <2>1, ShowsOne
  <2> QED
    BY <2>2 DEF Phases, Told
<1>4. CASE cpc[c] # "gone"
  <2>1. CallPhase(c) = "asked" /\ asks[c] # 0
    BY <1>4 DEF CallPhase
  <2>2. asks[c] \in 1 .. MaxAsks
    BY <1>0, <2>1, ChannelAssumption DEF ChannelTypes
  <2>3. b \in Answers
    BY <2>2 DEF Answers
  <2> HIDE DEF b
  <2> QED
    BY <1>2, <2>1, <2>3, ServeShows
<1> QED
  BY <1>3, <1>4

\* A console's steps: it asks, or returns what it was answered, or nothing shows.
LEMMA ConsoleShows ==
  ASSUME ChannelInv, NEW c \in Consoles, Console(c)
  PROVE  Rpc!Next \/ (Phases' = Phases /\ Told' = Told /\ value' = value)
<1>0. ChannelTypes /\ CallInv(c)
  BY DEF ChannelInv
<1>1. ASSUME cpc[c] \notin {"idle", "gone"}, cpc'[c] \notin {"idle", "gone"}, answer' = answer,
             \A d \in Consoles : d # c => cpc'[d] = cpc[d]
      PROVE  Phases' = Phases /\ Told' = Told
  <2>1. CallPhase(c)' = CallPhase(c) /\ ToldOf(c)' = ToldOf(c)
    BY <1>1 DEF CallPhase, ToldOf
  <2>2. Phases' = [Phases EXCEPT ![c] = CallPhase(c)] /\ Told' = [Told EXCEPT ![c] = ToldOf(c)]
    BY <1>1, <2>1, ShowsOne
  <2> QED
    BY <2>2 DEF Phases, Told
<1>2. ASSUME answer[c] # NoAnswer, cpc[c] \notin {"idle", "gone"} PROVE CallPhase(c) = "served"
  BY <1>2 DEF CallPhase
<1>3. CASE Call(c)
  BY <1>3, CallAsks
<1>4. CASE Post(c) \/ LoadLength(c) \/ Again(c)
  <2>1. /\ cpc[c] \notin {"idle", "gone"} /\ cpc'[c] \notin {"idle", "gone"} /\ answer' = answer
        /\ value' = value /\ \A d \in Consoles : d # c => cpc'[d] = cpc[d]
    BY <1>0, <1>4 DEF Post, LoadLength, Again, ChannelTypes, fsWorker
  <2> QED
    BY <1>1, <2>1
<1>5. CASE Wake(c)
  <2>1. /\ cpc[c] = "wait" /\ answer' = answer /\ \A d \in Consoles : d # c => cpc'[d] = cpc[d]
    BY <1>0, <1>5 DEF Wake, ChannelTypes, fsWorker
  <2>2. CASE state[c] = "closed"
    <3>1. cpc'[c] = "idle" /\ answer[c] = Refused /\ value' = [value EXCEPT ![c] = Refused]
      BY <1>0, <1>5, <2>1, <2>2 DEF Wake, ChannelTypes, CallInv, WaitInv
    <3>2. CallPhase(c) = "served"
      BY <1>2, <2>1, <3>1 DEF Refused, NoAnswer
    <3> QED
      BY <2>1, <3>1, <3>2, ReturnShows
  <2>3. CASE state[c] # "closed"
    <3>1. cpc'[c] = "length" /\ value' = value
      BY <1>0, <1>5, <2>3 DEF Wake, ChannelTypes
    <3> QED
      BY <1>1, <2>1, <3>1
  <2> QED
    BY <2>2, <2>3
<1>6. CASE Collect(c)
  <2>1. /\ cpc[c] = "slice" /\ answer' = answer /\ \A d \in Consoles : d # c => cpc'[d] = cpc[d]
        /\ seen[c] \in {"ready", "more"}
    BY <1>0, <1>6 DEF Collect, ChannelTypes, fsWorker, CallInv
  <2>2. CASE seen[c] = "more"
    <3>1. cpc'[c] = "again" /\ value' = value
      BY <1>0, <1>6, <2>2 DEF Collect, ChannelTypes
    <3> QED
      BY <1>1, <2>1, <3>1
  <2>3. CASE seen[c] = "ready"
    <3>1. cpc'[c] = "idle" /\ value' = [value EXCEPT ![c] = Answered(out'[c])]
      BY <1>0, <1>6, <2>3 DEF Collect, ChannelTypes
    <3>2. answer[c] = Answered(out'[c])
      BY <1>6, <2>3, Collected
    <3>3. CallPhase(c) = "served"
      BY <1>2, <2>1, <3>2 DEF Answered, NoAnswer
    <3>4. value' = [value EXCEPT ![c] = answer[c]]
      BY <3>1, <3>2, Zenon
    <3> QED
      BY <2>1, <3>1, <3>3, <3>4, ReturnShows
  <2> QED
    BY <2>1, <2>2, <2>3
<1> QED
  BY <1>3, <1>4, <1>5, <1>6 DEF Console

\* The worker's: it answers a call, or nothing shows.
LEMMA ServingShows ==
  ASSUME ChannelInv, Serving
  PROVE  Rpc!Next \/ (Phases' = Phases /\ Told' = Told /\ value' = value)
<1>0. ChannelTypes
  BY DEF ChannelInv
<1>1. CASE Start \/ Storing
  <2>1. UNCHANGED <<cpc, answer, value>>
    BY <1>1 DEF Start, Storing, Fill, StoreLength, StoreState, Refuse, StoreClosed, console
  <2> QED
    BY <2>1, ShowsNone
<1>2. ASSUME NEW c \in Consoles, Take(c)
      PROVE  Rpc!Next \/ (Phases' = Phases /\ Told' = Told /\ value' = value)
  <2>0. cpc' = cpc /\ value' = value /\ port[c] # <<>>
    BY <1>2 DEF Take, console
  <2>1. CASE ~up
    <3>1. answer'[c] = Refused /\ \A d \in Consoles : d # c => answer'[d] = answer[d]
      BY <1>0, <1>2, <2>1 DEF Take, ChannelTypes
    <3>2. CASE cpc[c] = "gone"
      <4>1. CallPhase(c)' = CallPhase(c) /\ ToldOf(c)' = ToldOf(c)
        BY <2>0, <3>2 DEF CallPhase, ToldOf
      <4>2. /\ Phases' = [Phases EXCEPT ![c] = CallPhase(c)]
            /\ Told' = [Told EXCEPT ![c] = ToldOf(c)]
        BY <2>0, <3>1, <4>1, ShowsOne
      <4> QED
        BY <2>0, <4>2 DEF Phases, Told
    <3>3. CASE cpc[c] # "gone"
      <4>1. cpc[c] = "wait" /\ answer[c] = NoAnswer
        BY <2>0, <2>1, <3>3, Heard DEF Begun
      <4>2. CallPhase(c) = "asked"
        BY <4>1 DEF CallPhase
      <4> QED
        BY <2>0, <3>1, <4>2, ServeShows
    <3> QED
      BY <3>2, <3>3
  <2>2. CASE UNCHANGED answer
    BY <2>0, <2>2, ShowsNone
  <2>3. CASE Head(port[c]) = "ask" /\ Answering(c)
    <3>1. cpc[c] # "gone" => cpc[c] = "wait" /\ answer[c] = NoAnswer /\ asks[c] # 0
      BY <2>0, <2>3, Heard DEF Begun
    <3> QED
      BY <2>0, <2>3, <3>1, AnsweringServes
  <2> QED
    BY <1>2, <2>1, <2>2, <2>3 DEF Take
<1>3. ASSUME NEW c \in Consoles, ReadDone(c)
      PROVE  Rpc!Next \/ (Phases' = Phases /\ Told' = Told /\ value' = value)
  <2>0. cpc' = cpc /\ value' = value /\ c \in reading /\ Answering(c)
    BY <1>3 DEF ReadDone, console
  <2>1. cpc[c] # "gone" => cpc[c] = "wait" /\ answer[c] = NoAnswer /\ asks[c] # 0
    <3>1. CallInv(c) /\ cpc[c] \in CallSteps
      BY <1>0 DEF ChannelInv, ChannelTypes
    <3> QED
      BY <2>0, <3>1 DEF CallInv, WaitInv, Quiet, Begun, CallSteps
  <2> QED
    BY <2>0, <2>1, AnsweringServes
<1> QED
  BY <1>1, <1>2, <1>3 DEF Serving

\* A step of the channel is a step of the promise, or none.
LEMMA ChannelShows ==
  ASSUME ChannelInv, [ChannelNext]_channelVars
  PROVE  [Rpc!Next]_<<Phases, Told, value>>
<1>1. ASSUME NEW c \in Consoles, Detach(c) PROVE Phases' = Phases /\ Told' = Told /\ value' = value
  <2>1. UNCHANGED <<cpc, answer, value>>
    BY <1>1 DEF Detach, console, fsWorker
  <2> QED
    BY <2>1, ShowsNone
<1>2. CASE UNCHANGED channelVars
  <2>1. UNCHANGED <<cpc, answer, value>>
    BY <1>2 DEF channelVars, console, fsWorker
  <2> QED
    BY <2>1, ShowsNone
<1> QED
  BY <1>1, <1>2, ServingShows, ConsoleShows, TerminateCloses DEF ChannelNext

\* Whatever the traffic, the channel makes a step of its own or none.
LEMMA ChannelSteps == [Next]_vars => [ChannelNext]_channelVars
  BY DEF Next, TrafficNext, vars

\* What a console has collected, what its buffer holds and what the worker has yet to
\* hand it are the answer to the call, however long it is, or its refusal.
THEOREM CallsAreWhole == FairSpec => []ChannelInv
<1>1. Init => ChannelInv
  BY ChannelStart DEF Init
<1>2. ChannelInv /\ [Next]_vars => ChannelInv'
  <2> SUFFICES ASSUME ChannelInv, [Next]_vars PROVE ChannelInv'
    OBVIOUS
  <2>1. [ChannelNext]_channelVars
    BY ChannelSteps
  <2>2. CASE UNCHANGED channelVars
    <3>1. UNCHANGED <<state, length, bytes, port, cpc, asks, more, seen, len, out, value, up,
                      reading, pending, job, answer>>
      BY <2>2 DEF channelVars, shared, console, fsWorker
    <3>2. ChannelTypes'
      BY <3>1 DEF ChannelTypes, ChannelInv
    <3>3. \A d \in Consoles : CallInv(d)'
      BY <3>1, LeftAlone DEF Leaves, ChannelInv
    <3> QED
      BY <3>2, <3>3 DEF ChannelInv
  <2> QED
    BY <2>1, <2>2, ChannelStep
<1> QED
  BY <1>1, <1>2, PTL DEF FairSpec

\* A call into the filesystem returns the answer to it, whole, or its refusal, whatever
\* pieces fsCall and deliver cut it into and whoever else is asking: the channel
\* implements FsRpc.
THEOREM OneCallOneAnswer == FairSpec => RpcSpec
<1>1. Init => Rpc!Init
  <2> SUFFICES ASSUME ChannelInit PROVE Rpc!Init
    BY DEF Init
  <2> QED
    BY DEF ChannelInit, Rpc!Init, CallPhase, Rpc!NoAnswer, NoAnswer
<1>2. ChannelInv /\ [Next]_vars => [Rpc!Next]_<<Phases, Told, value>>
  BY ChannelSteps, ChannelShows
<1>3. [Rpc!Next]_<<Phases, Told, value>>
        <=> [Rpc!Next]_<<[c \in Consoles |-> CallPhase(c)],
                         [c \in Consoles |-> IF cpc[c] = "gone" THEN NoAnswer ELSE answer[c]],
                         value>>
  BY DEF Phases, Told, ToldOf
<1> QED
  BY <1>1, <1>2, <1>3, CallsAreWhole, PTL DEF FairSpec, RpcSpec, Rpc!Spec

-----------------------------------------------------------------------------
(* The windows' questions.                                                 *)

Inward == {Message("boot"), Message("run")} \cup {Question(q) : q \in Tokens}
Outward == {Message("ready"), Message("wantInput"), Message("done")}
             \cup [type : {"answer"}, token : Tokens]

None(box, type) == \A i \in DOMAIN box : box[i].type # type
One(box, type) ==
    \E i \in DOMAIN box : box[i].type = type /\ \A j \in DOMAIN box : box[j].type = type => j = i
\* No question is in it twice.
OnceEach(box) ==
    \A i, j \in DOMAIN box : box[i].token # 0 /\ box[i].token = box[j].token => i = j

\* Where the questions are: those without a console in line, the others with theirs,
\* before or after they are carried out, and each in one place.
Placed(held, line, ins, outs) ==
    /\ DOMAIN held \subseteq Tokens /\ held \in [DOMAIN held -> Terminals \cup {Nowhere}]
    /\ line \in Seq(Tokens) /\ Distinct(line)
    /\ Elements(line) = {q \in DOMAIN held : held[q] = Nowhere}
    /\ ins \in [Terminals -> Seq(Inward)] /\ outs \in [Terminals -> Seq(Outward)]
    /\ \A c \in Terminals :
          /\ OnceEach(ins[c]) /\ OnceEach(outs[c]) /\ Tokened(ins[c]) \cap Tokened(outs[c]) = {}
          /\ Tokened(ins[c]) \cup Tokened(outs[c]) = {q \in DOMAIN held : held[q] = c}

\* A run is on its way to the worker, at it, or on its way back.
Running(to, from, at) ==
    \/ One(to, "run") /\ at = "idle" /\ None(from, "done")
    \/ None(to, "run") /\ at # "idle" /\ None(from, "done")
    \/ None(to, "run") /\ at = "idle" /\ One(from, "done")
NotRunning(to, from, at) == None(to, "run") /\ at = "idle" /\ None(from, "done")

\* The page knows that the script waits for a line, or is about to.
Asks(from, at, isAwaiting) ==
    /\ isAwaiting => at = "parked" /\ None(from, "wantInput")
    /\ at = "parked" /\ ~isAwaiting => One(from, "wantInput")
    /\ at # "parked" => None(from, "wantInput")

\* A console that has not said it is ready is booting, once.
Boots(to, from, isReady, isBusy, isAwaiting) ==
    IF isReady THEN None(to, "boot") /\ None(from, "ready")
    ELSE /\ ~isBusy /\ ~isAwaiting
         /\ \/ One(to, "boot") /\ None(from, "ready")
            \/ None(to, "boot") /\ One(from, "ready")

\* An open console, and a closed one.
OpenInv(to, from, at, isReady, isBusy, isAwaiting) ==
    /\ at \in {"idle", "running", "parked"}
    /\ IF isBusy THEN Running(to, from, at) ELSE NotRunning(to, from, at)
    /\ Asks(from, at, isAwaiting) /\ Boots(to, from, isReady, isBusy, isAwaiting)
ClosedInv(to, from, at, isReady, isBusy, isAwaiting) ==
    to = <<>> /\ from = <<>> /\ at = "idle" /\ ~isReady /\ ~isBusy /\ ~isAwaiting

QueueTypes ==
    /\ opened \subseteq Terminals /\ consoles \in Seq(opened) /\ Distinct(consoles)
    /\ ready \in [Terminals -> BOOLEAN] /\ busy \in [Terminals -> BOOLEAN]
    /\ awaitingInput \in [Terminals -> BOOLEAN]
    /\ worker \in [Terminals -> {"idle", "running", "parked"}]
    /\ nextToken \in 1 .. MaxQuestions + 1
    /\ carried \in [Tokens -> Nat] /\ settled \subseteq {q \in Tokens : q < nextToken}
    /\ DOMAIN asked = {q \in Tokens : q < nextToken} \ settled

ConsoleInv(c) ==
    IF c \in Elements(consoles)
    THEN OpenInv(inbox[c], outbox[c], worker[c], ready[c], busy[c], awaitingInput[c])
    ELSE ClosedInv(inbox[c], outbox[c], worker[c], ready[c], busy[c], awaitingInput[c])

QueueInv ==
    /\ QueueTypes /\ Placed(asked, waiting, inbox, outbox) /\ NoneWaitsBesideAFreeOne
    /\ \A c \in Terminals : ConsoleInv(c)

-----------------------------------------------------------------------------
(* Messages.                                                               *)

\* A message is taken off.
LEMMA TailKeeps ==
  ASSUME NEW D, NEW box \in Seq(D), box # <<>>
  PROVE  /\ Head(box) \in D /\ Tail(box) \in Seq(D)
         /\ OnceEach(box) => /\ OnceEach(Tail(box))
                             /\ Tokened(Tail(box)) = Tokened(box) \ {Head(box).token}
         /\ Head(box).token # 0 => Head(box).token \in Tokened(box)
         /\ ~None(box, Head(box).type)
         /\ \A t : None(box, t) => None(Tail(box), t)
         /\ \A t : One(box, t) =>
              IF t = Head(box).type THEN None(Tail(box), t) ELSE One(Tail(box), t)
<1> DEFINE n == Len(box)
           r == Tail(box)
<1>1. n \in Nat /\ n # 0 /\ DOMAIN box = 1 .. n
  OBVIOUS
<1>2. Head(box) = box[1] /\ 1 \in DOMAIN box /\ box[1] \in D
  BY <1>1
<1>3. r \in Seq(D) /\ DOMAIN r = 1 .. n - 1 /\ \A i \in 1 .. n - 1 : r[i] = box[i + 1]
  BY <1>1
<1> HIDE DEF n, r
<1>4. \A i \in DOMAIN r : i + 1 \in DOMAIN box /\ i + 1 # 1 /\ r[i] = box[i + 1]
  BY <1>1, <1>3
<1>5. \A i \in DOMAIN box : i # 1 => i - 1 \in DOMAIN r /\ r[i - 1] = box[i]
  BY <1>1, <1>3
<1>6. ASSUME OnceEach(box)
      PROVE  OnceEach(r) /\ Tokened(r) = Tokened(box) \ {box[1].token}
  <2>1. OnceEach(r)
    <3> SUFFICES ASSUME NEW i \in DOMAIN r, NEW j \in DOMAIN r, r[i].token # 0,
                        r[i].token = r[j].token
                 PROVE  i = j
      BY DEF OnceEach
    <3>1. i + 1 = j + 1
      BY <1>4, <1>6 DEF OnceEach
    <3>2. i \in Nat /\ j \in Nat
      BY <1>3
    <3> QED
      BY <3>1, <3>2
  <2>2. ASSUME NEW k \in Tokened(r) PROVE k \in Tokened(box) \ {box[1].token}
    <3>1. PICK i \in DOMAIN r : r[i].token = k /\ k # 0
      BY DEF Tokened
    <3>2. i + 1 \in DOMAIN box /\ box[i + 1].token = k /\ i + 1 # 1
      BY <1>4, <3>1
    <3>3. k # box[1].token
      BY <1>2, <1>6, <3>1, <3>2 DEF OnceEach
    <3> QED
      BY <3>1, <3>2, <3>3 DEF Tokened
  <2>3. ASSUME NEW k \in Tokened(box), k # box[1].token PROVE k \in Tokened(r)
    <3>1. PICK i \in DOMAIN box : box[i].token = k /\ k # 0
      BY DEF Tokened
    <3>2. i - 1 \in DOMAIN r /\ r[i - 1].token = k
      BY <1>5, <2>3, <3>1
    <3> QED
      BY <3>1, <3>2 DEF Tokened
  <2> QED
    BY <2>1, <2>2, <2>3
<1>7. box[1].token # 0 => box[1].token \in Tokened(box)
  BY <1>2 DEF Tokened
<1>8. ASSUME NEW t PROVE /\ None(box, t) => None(r, t)
                         /\ One(box, t) => IF t = box[1].type THEN None(r, t) ELSE One(r, t)
  <2>1. None(box, t) => None(r, t)
    BY <1>4 DEF None
  <2>2. ASSUME One(box, t), t = box[1].type PROVE None(r, t)
    BY <1>2, <1>4, <2>2 DEF None, One
  <2>3. ASSUME One(box, t), t # box[1].type PROVE One(r, t)
    <3>1. PICK i \in DOMAIN box : box[i].type = t /\ \A j \in DOMAIN box : box[j].type = t => j = i
      BY <2>3 DEF One
    <3>2. i - 1 \in DOMAIN r /\ r[i - 1].type = t
      BY <1>5, <2>3, <3>1
    <3>3. ASSUME NEW j \in DOMAIN r, r[j].type = t PROVE j = i - 1
      <4>1. j + 1 = i
        BY <1>4, <3>1, <3>3
      <4>2. j \in Nat /\ i \in Nat
        BY <1>1, <1>3
      <4> QED
        BY <4>1, <4>2
    <3> QED
      BY <3>2, <3>3 DEF One
  <2> QED
    BY <2>1, <2>2, <2>3
<1>9. ~None(box, box[1].type)
  BY <1>2 DEF None
<1> QED
  BY <1>2, <1>3, <1>6, <1>7, <1>8, <1>9 DEF r

\* A message is added.
LEMMA AppendKeeps ==
  ASSUME NEW D, NEW box \in Seq(D), NEW m \in D
  PROVE  /\ Append(box, m) \in Seq(D)
         /\ OnceEach(box) /\ m.token \notin Tokened(box) => OnceEach(Append(box, m))
         /\ Tokened(Append(box, m)) = Tokened(box) \cup ({m.token} \ {0})
         /\ \A t : None(box, t) =>
              IF t = m.type THEN One(Append(box, m), t) ELSE None(Append(box, m), t)
         /\ \A t : One(box, t) /\ t # m.type => One(Append(box, m), t)
<1> DEFINE n == Len(box)
           r == Append(box, m)
<1>1. n \in Nat /\ DOMAIN box = 1 .. n /\ r \in Seq(D) /\ DOMAIN r = 1 .. n + 1 /\ r[n + 1] = m
  OBVIOUS
<1>2. \A i \in DOMAIN box : i \in DOMAIN r /\ r[i] = box[i] /\ i # n + 1
  BY <1>1
<1> HIDE DEF n, r
<1>3. \A i \in DOMAIN r : i \in DOMAIN box \/ i = n + 1
  BY <1>1
<1>4. n + 1 \in DOMAIN r
  BY <1>1
<1>5. ASSUME OnceEach(box), m.token \notin Tokened(box) PROVE OnceEach(r)
  <2>1. \A i \in DOMAIN box : box[i].token # 0 => box[i].token # m.token
    BY <1>5 DEF Tokened
  <2> QED
    BY <1>1, <1>2, <1>3, <1>5, <2>1 DEF OnceEach
<1>6. Tokened(r) = Tokened(box) \cup ({m.token} \ {0})
  <2>1. ASSUME NEW k \in Tokened(r) PROVE k \in Tokened(box) \cup ({m.token} \ {0})
    <3>1. PICK i \in DOMAIN r : k = r[i].token /\ k # 0
      BY DEF Tokened
    <3> QED
      BY <1>1, <1>2, <1>3, <3>1 DEF Tokened
  <2>2. ASSUME NEW k \in Tokened(box) PROVE k \in Tokened(r)
    <3>1. PICK i \in DOMAIN box : k = box[i].token /\ k # 0
      BY DEF Tokened
    <3>2. k = r[i].token /\ i \in DOMAIN r
      BY <1>2, <3>1
    <3> QED
      BY <3>1, <3>2 DEF Tokened
  <2>3. m.token # 0 => m.token \in Tokened(r)
    BY <1>1, <1>4 DEF Tokened
  <2> QED
    BY <2>1, <2>2, <2>3
<1>7. ASSUME NEW t, None(box, t)
      PROVE  IF t = m.type THEN One(r, t) ELSE None(r, t)
  BY <1>1, <1>2, <1>3, <1>4, <1>7 DEF None, One
<1>8. ASSUME NEW t, One(box, t), t # m.type PROVE One(r, t)
  BY <1>1, <1>2, <1>3, <1>8 DEF One
<1> QED
  BY <1>1, <1>5, <1>6, <1>7, <1>8 DEF r

\* A question's message names it.
LEMMA QuestionIs ==
  ASSUME NEW q
  PROVE  Question(q).type = "question" /\ Question(q).token = q
  BY DEF Question

\* What is handed to a console tells nothing of runs, lines to type and booting.
SameRun(a, b) == \A t : t # "question" => (None(a, t) => None(b, t)) /\ (One(a, t) => One(b, t))

\* Questions are posted, that were not there.
LEMMA PostedKeeps ==
  ASSUME NEW box \in Seq(Inward), OnceEach(box), NEW line \in Seq(Tokens), Distinct(line),
         Elements(line) \cap Tokened(box) = {},
         NEW r, r = box \o [i \in DOMAIN line |-> Question(line[i])]
  PROVE  /\ r \in Seq(Inward) /\ OnceEach(r) /\ Tokened(r) = Tokened(box) \cup Elements(line)
         /\ SameRun(box, r)
<1> DEFINE n == Len(box)
           m == Len(line)
           q == [i \in DOMAIN line |-> Question(line[i])]
<1>1. n \in Nat /\ m \in Nat /\ DOMAIN box = 1 .. n /\ DOMAIN line = 1 .. m
  OBVIOUS
<1>2. q \in Seq(Inward) /\ Len(q) = m /\ \A i \in 1 .. m : q[i] = Question(line[i])
  <2>1. \A i \in 1 .. m : Question(line[i]) \in Inward
    BY DEF Inward
  <2>2. q \in [1 .. m -> Inward]
    BY <1>1, <2>1
  <2> HIDE DEF q, m, Inward
  <2>3. q \in Seq(Inward) /\ Len(q) = m
    BY <1>1, <2>2
  <2> QED
    BY <1>1, <2>3 DEF q
<1> HIDE DEF q, Inward
<1>3. /\ r \in Seq(Inward) /\ DOMAIN r = 1 .. n + m
      /\ \A i \in 1 .. n + m : r[i] = IF i <= n THEN box[i] ELSE q[i - n]
  BY <1>1, <1>2 DEF q
<1> HIDE DEF n, m
<1>4. \A i \in DOMAIN box : i \in DOMAIN r /\ r[i] = box[i]
  BY <1>1, <1>3
<1>5. \A i \in DOMAIN line :
        n + i \in DOMAIN r /\ r[n + i].type = "question" /\ r[n + i].token = line[i]
  <2> SUFFICES ASSUME NEW i \in DOMAIN line
               PROVE  /\ n + i \in DOMAIN r
                      /\ r[n + i].type = "question" /\ r[n + i].token = line[i]
    OBVIOUS
  <2>1. n + i \in 1 .. n + m /\ ~(n + i <= n) /\ (n + i) - n = i /\ i \in 1 .. m
    BY <1>1
  <2>2. r[n + i] = q[i]
    BY <1>3, <2>1
  <2>3. r[n + i] = Question(line[i])
    BY <1>2, <2>1, <2>2
  <2>4. r[n + i].type = "question" /\ r[n + i].token = line[i]
    BY <2>3, QuestionIs, Zenon
  <2>5. n + i \in DOMAIN r
    BY <1>3, <2>1
  <2> QED
    BY <2>4, <2>5
<1>6. \A k \in DOMAIN r : k \in DOMAIN box \/ \E i \in DOMAIN line : k = n + i
  <2> SUFFICES ASSUME NEW k \in DOMAIN r, k \notin DOMAIN box
               PROVE  \E i \in DOMAIN line : k = n + i
    OBVIOUS
  <2>1. k \in 1 .. n + m /\ k \notin 1 .. n
    BY <1>1, <1>3
  <2>2. k - n \in 1 .. m /\ k = n + (k - n)
    BY <1>1, <2>1
  <2> QED
    BY <1>1, <2>2
<1>7. \A i \in DOMAIN line : line[i] \in Tokens /\ line[i] # 0
  <2>1. \A i \in DOMAIN line : line[i] \in Tokens
    OBVIOUS
  <2> QED
    BY <2>1 DEF Tokens
<1>8. OnceEach(r)
  <2> SUFFICES ASSUME NEW k \in DOMAIN r, NEW l \in DOMAIN r, r[k].token # 0,
                      r[k].token = r[l].token
               PROVE  k = l
    BY DEF OnceEach
  <2>1. \A i \in DOMAIN line, j \in DOMAIN box : box[j].token # line[i]
    <3> SUFFICES ASSUME NEW i \in DOMAIN line, NEW j \in DOMAIN box, box[j].token = line[i]
                 PROVE  FALSE
      OBVIOUS
    <3>1. line[i] \in Elements(line) /\ line[i] \in Tokened(box)
      BY <1>7 DEF Elements, Tokened
    <3> QED
      BY <3>1
  <2>2. CASE k \in DOMAIN box /\ l \in DOMAIN box
    BY <1>4, <2>2 DEF OnceEach
  <2>3. ASSUME NEW i \in DOMAIN line, k = n + i, NEW j \in DOMAIN line, l = n + j PROVE k = l
    <3>1. line[i] = line[j]
      BY <1>5, <2>3
    <3> QED
      BY <2>3, <3>1 DEF Distinct
  <2>4. ASSUME NEW i \in DOMAIN line, k = n + i, l \in DOMAIN box PROVE FALSE
    BY <1>4, <1>5, <2>1, <2>4
  <2>5. ASSUME NEW i \in DOMAIN line, l = n + i, k \in DOMAIN box PROVE FALSE
    BY <1>4, <1>5, <2>1, <2>5
  <2> QED
    BY <1>6, <2>2, <2>3, <2>4, <2>5
<1>9. Tokened(r) = Tokened(box) \cup Elements(line)
  <2>1. ASSUME NEW k \in Tokened(r) PROVE k \in Tokened(box) \cup Elements(line)
    <3>1. PICK i \in DOMAIN r : k = r[i].token /\ k # 0
      BY DEF Tokened
    <3>2. CASE i \in DOMAIN box
      BY <1>4, <3>1, <3>2 DEF Tokened
    <3>3. ASSUME NEW j \in DOMAIN line, i = n + j PROVE k \in Elements(line)
      BY <1>5, <3>1, <3>3 DEF Elements
    <3> QED
      BY <1>6, <3>2, <3>3
  <2>2. ASSUME NEW k \in Tokened(box) PROVE k \in Tokened(r)
    <3>1. PICK i \in DOMAIN box : k = box[i].token /\ k # 0
      BY DEF Tokened
    <3>2. k = r[i].token /\ i \in DOMAIN r
      BY <1>4, <3>1
    <3> QED
      BY <3>1, <3>2 DEF Tokened
  <2>3. ASSUME NEW k \in Elements(line) PROVE k \in Tokened(r)
    <3>1. PICK i \in DOMAIN line : k = line[i]
      BY DEF Elements
    <3>2. k = r[n + i].token /\ n + i \in DOMAIN r /\ k # 0
      BY <1>5, <1>7, <3>1
    <3> QED
      BY <3>2 DEF Tokened
  <2> QED
    BY <2>1, <2>2, <2>3
<1>10. ASSUME NEW t, t # "question"
       PROVE  (None(box, t) => None(r, t)) /\ (One(box, t) => One(r, t))
  <2>1. ASSUME NEW k \in DOMAIN r, r[k].type = t PROVE k \in DOMAIN box /\ box[k].type = t
    <3>1. \A i \in DOMAIN line : k # n + i
      BY <1>5, <1>10, <2>1
    <3> QED
      BY <1>4, <1>6, <2>1, <3>1
  <2>2. None(box, t) => None(r, t)
    BY <2>1 DEF None
  <2>3. ASSUME One(box, t) PROVE One(r, t)
    <3>1. PICK i \in DOMAIN box : box[i].type = t /\ \A j \in DOMAIN box : box[j].type = t => j = i
      BY <2>3 DEF One
    <3>2. i \in DOMAIN r /\ r[i].type = t /\ \A j \in DOMAIN r : r[j].type = t => j = i
      BY <1>4, <2>1, <3>1
    <3> QED
      BY <3>2 DEF One
  <2> QED
    BY <2>2, <2>3
<1> QED
  BY <1>3, <1>8, <1>9, <1>10 DEF SameRun

-----------------------------------------------------------------------------
(* Handing out.                                                            *)

\* Contains, of the elements.
LEMMA ContainsIs ==
  ASSUME NEW D, NEW line \in Seq(D), NEW q
  PROVE  Contains(line, q) <=> q \in Elements(line)
<1>1. DOMAIN line = 1 .. Len(line)
  OBVIOUS
<1> QED
  BY <1>1 DEF Contains, Elements

\* dispatchAsked puts what is in line with a console that is free, and leaves a line
\* only if there is none.
LEMMA DispatchPlaces ==
  ASSUME NEW open \in Seq(Terminals), NEW isReady, NEW isBusy, NEW isAwaiting,
         NEW held, NEW line, NEW posts, NEW outs, Placed(held, line, posts, outs),
         Dispatch(open, isReady, isBusy, isAwaiting, held, line, posts)
  PROVE  /\ Placed(asked', waiting', inbox', outs) /\ DOMAIN asked' = DOMAIN held
         /\ waiting' # <<>> => \A i \in DOMAIN open : ~Free(open[i], isReady, isBusy, isAwaiting)
         /\ \A c \in Terminals : /\ SameRun(posts[c], inbox'[c])
                                 /\ inbox'[c] = posts[c] \/ c \in Elements(open)
<1> DEFINE free == {i \in DOMAIN open : Free(open[i], isReady, isBusy, isAwaiting)}
           first == CHOOSE i \in free : \A j \in free : i <= j
           live == Only(DOMAIN held, line)
<1>1. CASE free = {}
  <2>1. asked' = held /\ waiting' = line /\ inbox' = posts
    BY <1>1 DEF Dispatch
  <2> QED
    BY <1>1, <2>1 DEF SameRun
<1>2. CASE free # {}
  <2> DEFINE c == open[first]
  <2>1. first \in free
    <3>1. free \in SUBSET Nat
      OBVIOUS
    <3> HIDE DEF free
    <3>2. \E i \in free : \A j \in free : i <= j
      BY <1>2, <3>1, LeastIs
    <3> QED
      BY <3>2
  <2>2. c \in Terminals /\ c \in Elements(open)
    <3>1. first \in DOMAIN open
      BY <2>1
    <3> HIDE DEF first, free
    <3> QED
      BY <3>1 DEF Elements
  <2>3. /\ asked' = [q \in DOMAIN held |-> IF Contains(line, q) THEN c ELSE held[q]]
        /\ waiting' = <<>>
        /\ inbox' = [posts EXCEPT ![c] = @ \o [i \in DOMAIN live |-> Question(live[i])]]
    BY <1>2 DEF Dispatch
  <2> HIDE DEF free, first, c
  <2>4. /\ DOMAIN held \subseteq Tokens /\ held \in [DOMAIN held -> Terminals \cup {Nowhere}]
        /\ line \in Seq(Tokens) /\ Distinct(line)
        /\ Elements(line) = {q \in DOMAIN held : held[q] = Nowhere}
        /\ posts \in [Terminals -> Seq(Inward)]
        /\ \A d \in Terminals :
             /\ OnceEach(posts[d]) /\ OnceEach(outs[d])
             /\ Tokened(posts[d]) \cap Tokened(outs[d]) = {}
             /\ Tokened(posts[d]) \cup Tokened(outs[d]) = {q \in DOMAIN held : held[q] = d}
    BY DEF Placed
  <2>5. live \in Seq(Tokens) /\ Distinct(live) /\ Elements(live) = Elements(line)
    <3>1. /\ live \in Seq(Tokens) /\ Distinct(live)
          /\ Elements(live) = Elements(line) \cap DOMAIN held
      BY <2>4, OnlyIs
    <3> QED
      BY <2>4, <3>1
  <2> HIDE DEF live
  <2>6. c # Nowhere
    BY <2>2, AskQueueAssumption DEF Nowhere
  <2>7. /\ DOMAIN asked' = DOMAIN held
        /\ \A q \in DOMAIN held : asked'[q] = IF held[q] = Nowhere THEN c ELSE held[q]
    <3>1. \A q \in DOMAIN held : Contains(line, q) <=> held[q] = Nowhere
      BY <2>4, ContainsIs
    <3> QED
      BY <2>3, <3>1
  <2>8. Elements(live) \cap Tokened(posts[c]) = {}
    <3>1. \A q \in Tokened(posts[c]) : held[q] = c
      BY <2>2, <2>4
    <3> QED
      BY <2>4, <2>5, <2>6, <3>1
  <2>9. /\ inbox' \in [Terminals -> Seq(Inward)] /\ OnceEach(inbox'[c])
        /\ Tokened(inbox'[c]) = Tokened(posts[c]) \cup Elements(line)
        /\ SameRun(posts[c], inbox'[c]) /\ \A d \in Terminals : d # c => inbox'[d] = posts[d]
    <3> DEFINE r == posts[c] \o [i \in DOMAIN live |-> Question(live[i])]
    <3>1. inbox' = [posts EXCEPT ![c] = r]
      BY <2>3
    <3>2. /\ r \in Seq(Inward) /\ OnceEach(r) /\ Tokened(r) = Tokened(posts[c]) \cup Elements(live)
          /\ SameRun(posts[c], r)
      <4>1. posts[c] \in Seq(Inward) /\ OnceEach(posts[c])
        BY <2>2, <2>4
      <4> QED
        BY <2>5, <2>8, <4>1, PostedKeeps
    <3> HIDE DEF r
    <3> QED
      BY <2>2, <2>4, <2>5, <3>1, <3>2
  <2>10. Elements(<<>>) = {} /\ Distinct(<<>>) /\ <<>> \in Seq(Tokens)
    BY DEF Elements, Distinct
  <2>11. asked' \in [DOMAIN held -> Terminals \cup {Nowhere}]
    BY <2>2, <2>3, <2>4
  <2>12. Elements(waiting') = {q \in DOMAIN asked' : asked'[q] = Nowhere}
    BY <2>3, <2>6, <2>7, <2>10
  <2>13. ASSUME NEW d \in Terminals
         PROVE  /\ OnceEach(inbox'[d]) /\ OnceEach(outs[d])
                /\ Tokened(inbox'[d]) \cap Tokened(outs[d]) = {}
                /\ Tokened(inbox'[d]) \cup Tokened(outs[d]) = {q \in DOMAIN asked' : asked'[q] = d}
    <3>0. d # Nowhere
      BY AskQueueAssumption DEF Nowhere
    <3>1. CASE d = c
      <4>1. \A q \in Tokened(outs[c]) : held[q] = c
        BY <2>2, <2>4
      <4>2. Elements(line) \cap Tokened(outs[c]) = {}
        BY <2>4, <2>6, <4>1
      <4>3. {q \in DOMAIN asked' : asked'[q] = c}
              = {q \in DOMAIN held : held[q] = c} \cup {q \in DOMAIN held : held[q] = Nowhere}
        BY <2>7
      <4>4. {q \in DOMAIN asked' : asked'[q] = c}
              = (Tokened(posts[c]) \cup Tokened(outs[c])) \cup Elements(line)
        BY <2>2, <2>4, <4>3
      <4> QED
        BY <2>4, <2>9, <3>1, <4>2, <4>4
    <3>2. CASE d # c
      <4>1. {q \in DOMAIN asked' : asked'[q] = d} = {q \in DOMAIN held : held[q] = d}
        BY <2>7, <3>0, <3>2
      <4> QED
        BY <2>4, <2>9, <3>2, <4>1
    <3> QED
      BY <3>1, <3>2
  <2>14. Placed(asked', waiting', inbox', outs)
    <3>1. outs \in [Terminals -> Seq(Outward)]
      BY DEF Placed
    <3> QED
      BY <2>3, <2>4, <2>7, <2>9, <2>10, <2>11, <2>12, <2>13, <3>1 DEF Placed
  <2> QED
    BY <2>2, <2>3, <2>7, <2>9, <2>14 DEF SameRun
<1> QED
  BY <1>1, <1>2

-----------------------------------------------------------------------------
(* One console and the others.                                             *)

\* Only questions and answers have a token.
LEMMA MessageIs ==
  /\ \A t : Message(t).type = t /\ Message(t).token = 0
  /\ \A m \in Inward : \/ m.type \in {"boot", "run"} /\ m.token = 0
                       \/ m.type = "question" /\ m.token \in Tokens /\ m.token # 0
  /\ \A m \in Outward : \/ m.type \in {"ready", "wantInput", "done"} /\ m.token = 0
                        \/ m.type = "answer" /\ m.token \in Tokens /\ m.token # 0
<1>1. \A q \in Tokens : q # 0
  BY DEF Tokens
<1> QED
  BY <1>1 DEF Message, Inward, Outward, Question

\* A sequence over a set is one over a larger set.
LEMMA SeqWidens ==
  ASSUME NEW S, NEW D, S \subseteq D, NEW s \in Seq(S)
  PROVE  s \in Seq(D)
  OBVIOUS

\* One that is not in a line joins it.
LEMMA JoinsLine ==
  ASSUME NEW D, NEW line \in Seq(D), NEW x \in D
  PROVE  /\ Append(line, x) \in Seq(D) /\ Elements(Append(line, x)) = Elements(line) \cup {x}
         /\ Distinct(line) /\ x \notin Elements(line) => Distinct(Append(line, x))
<1> DEFINE n == Len(line)
           r == Append(line, x)
<1>1. /\ n \in Nat /\ DOMAIN line = 1 .. n /\ r \in Seq(D) /\ DOMAIN r = 1 .. n + 1
      /\ r[n + 1] = x /\ \A i \in 1 .. n : r[i] = line[i]
  OBVIOUS
<1> HIDE DEF n, r
<1>2. /\ \A i \in DOMAIN line : i \in DOMAIN r /\ r[i] = line[i]
      /\ \A i \in DOMAIN r : i \in DOMAIN line \/ i = n + 1
      /\ n + 1 \in DOMAIN r
  BY <1>1
<1>3. Elements(r) = Elements(line) \cup {x}
  BY <1>1, <1>2 DEF Elements
<1>4. Distinct(line) /\ x \notin Elements(line) => Distinct(r)
  BY <1>1, <1>2 DEF Distinct, Elements
<1> QED
  BY <1>1, <1>3, <1>4 DEF r

\* Nothing is in an empty box.
LEMMA EmptyIs ==
  /\ Elements(<<>>) = {} /\ Distinct(<<>>) /\ OnceEach(<<>>) /\ Tokened(<<>>) = {}
  /\ \A t : None(<<>>, t)
  BY DEF Elements, Distinct, OnceEach, Tokened, None

\* A message that has no question in it, or a question that goes from a console's
\* inbox to its outbox: the others' are where they were.
LEMMA BoxesKeep ==
  ASSUME NEW held, NEW line, NEW ins, NEW outs, Placed(held, line, ins, outs),
         NEW c \in Terminals, NEW a \in Seq(Inward), NEW b \in Seq(Outward),
         OnceEach(a), OnceEach(b), Tokened(a) \cap Tokened(b) = {},
         Tokened(a) \cup Tokened(b) = Tokened(ins[c]) \cup Tokened(outs[c])
  PROVE  Placed(held, line, [ins EXCEPT ![c] = a], [outs EXCEPT ![c] = b])
<1> DEFINE i == [ins EXCEPT ![c] = a]
           o == [outs EXCEPT ![c] = b]
<1>1. ins \in [Terminals -> Seq(Inward)] /\ outs \in [Terminals -> Seq(Outward)]
  BY DEF Placed
<1>2. /\ i \in [Terminals -> Seq(Inward)] /\ o \in [Terminals -> Seq(Outward)]
      /\ i[c] = a /\ o[c] = b /\ \A d \in Terminals : d # c => i[d] = ins[d] /\ o[d] = outs[d]
  BY <1>1
<1> HIDE DEF i, o
<1>3. ASSUME NEW d \in Terminals
      PROVE  /\ OnceEach(i[d]) /\ OnceEach(o[d]) /\ Tokened(i[d]) \cap Tokened(o[d]) = {}
             /\ Tokened(i[d]) \cup Tokened(o[d]) = {q \in DOMAIN held : held[q] = d}
  BY <1>2 DEF Placed
<1>4. Placed(held, line, i, o)
  BY <1>2, <1>3 DEF Placed
<1> QED
  BY <1>4 DEF i, o

\* The boxes of a console.
LEMMA BoxesAre ==
  ASSUME QueueInv, NEW c \in Terminals
  PROVE  /\ inbox \in [Terminals -> Seq(Inward)] /\ outbox \in [Terminals -> Seq(Outward)]
         /\ inbox[c] \in Seq(Inward) /\ outbox[c] \in Seq(Outward)
         /\ OnceEach(inbox[c]) /\ OnceEach(outbox[c])
         /\ Tokened(inbox[c]) \cap Tokened(outbox[c]) = {}
         /\ Tokened(inbox[c]) \cup Tokened(outbox[c]) = {q \in DOMAIN asked : asked[q] = c}
         /\ inbox = [inbox EXCEPT ![c] = inbox[c]] /\ outbox = [outbox EXCEPT ![c] = outbox[c]]
  BY DEF QueueInv, Placed

\* A console whose variables stay is what it was.
LEMMA ConsoleSame ==
  ASSUME NEW d, ConsoleInv(d), d \in Elements(consoles') <=> d \in Elements(consoles),
         outbox'[d] = outbox[d], worker'[d] = worker[d], ready'[d] = ready[d],
         busy'[d] = busy[d], awaitingInput'[d] = awaitingInput[d], inbox'[d] = inbox[d]
  PROVE  ConsoleInv(d)'
  BY DEF ConsoleInv

\* AnyFree, of the consoles.
LEMMA AnyFreeIs ==
  AnyFree <=> \E c \in Elements(consoles) : ready[c] /\ ~busy[c] /\ ~awaitingInput[c]
  BY DEF AnyFree, Free, Elements

\* A console with anything going on is open.
LEMMA OpenIs ==
  ASSUME QueueInv, NEW c \in Terminals,
         inbox[c] # <<>> \/ outbox[c] # <<>> \/ worker[c] # "idle" \/ awaitingInput[c]
  PROVE  /\ c \in Elements(consoles)
         /\ OpenInv(inbox[c], outbox[c], worker[c], ready[c], busy[c], awaitingInput[c])
  BY DEF QueueInv, ConsoleInv, ClosedInv

\* A worker's step: its console's boxes, and nothing of the page's.
LEMMA WorkerKeeps ==
  ASSUME QueueInv, NEW c \in Terminals, NEW a \in Seq(Inward), NEW b \in Seq(Outward),
         NEW w, inbox' = [inbox EXCEPT ![c] = a], outbox' = [outbox EXCEPT ![c] = b],
         worker' = [worker EXCEPT ![c] = w], UNCHANGED <<page, queue, settled>>,
         carried' \in [Tokens -> Nat], c \in Elements(consoles),
         OnceEach(a), OnceEach(b), Tokened(a) \cap Tokened(b) = {},
         Tokened(a) \cup Tokened(b) = Tokened(inbox[c]) \cup Tokened(outbox[c]),
         OpenInv(a, b, w, ready[c], busy[c], awaitingInput[c])
  PROVE  QueueInv'
<1>0. /\ UNCHANGED <<consoles, opened, ready, busy, awaitingInput, asked, waiting, nextToken,
                     settled>>
      /\ inbox \in [Terminals -> Seq(Inward)] /\ outbox \in [Terminals -> Seq(Outward)]
  BY BoxesAre DEF page, queue
<1>1. worker \in [Terminals -> {"idle", "running", "parked"}] /\ w \in {"idle", "running", "parked"}
  BY DEF QueueInv, QueueTypes, OpenInv
<1>2. /\ inbox'[c] = a /\ outbox'[c] = b /\ worker'[c] = w
      /\ worker' \in [Terminals -> {"idle", "running", "parked"}]
      /\ \A d \in Terminals : d # c => inbox'[d] = inbox[d] /\ outbox'[d] = outbox[d]
                                         /\ worker'[d] = worker[d]
  BY <1>0, <1>1
<1>3. QueueTypes'
  BY <1>0, <1>2 DEF QueueInv, QueueTypes
<1>4. Placed(asked, waiting, inbox, outbox)'
  <2>1. Placed(asked, waiting, inbox', outbox')
    BY BoxesKeep DEF QueueInv
  <2> QED
    BY <1>0, <2>1
<1>5. NoneWaitsBesideAFreeOne'
  BY <1>0 DEF QueueInv, NoneWaitsBesideAFreeOne, AnyFree
<1>6. ASSUME NEW d \in Terminals PROVE ConsoleInv(d)'
  <2>1. CASE d = c
    BY <1>0, <1>2, <2>1 DEF ConsoleInv
  <2>2. CASE d # c
    <3>1. ConsoleInv(d)
      BY DEF QueueInv
    <3> QED
      BY <1>0, <1>2, <2>2, <3>1, ConsoleSame
  <2> QED
    BY <2>1, <2>2
<1> QED
  BY <1>3, <1>4, <1>5, <1>6 DEF QueueInv

-----------------------------------------------------------------------------
(* The worker's steps.                                                     *)

\* What a worker says that is no answer.
LEMMA SayIs ==
  ASSUME QueueInv, NEW c \in Terminals, NEW t \in {"ready", "wantInput", "done"}
  PROVE  LET b == Append(outbox[c], Message(t))
         IN  /\ b \in Seq(Outward) /\ OnceEach(b) /\ Tokened(b) = Tokened(outbox[c])
             /\ \A u : u # t => /\ None(outbox[c], u) => None(b, u)
                                /\ One(outbox[c], u) => One(b, u)
             /\ None(outbox[c], t) => One(b, t)
<1> DEFINE o == outbox[c]
           m == Message(t)
           b == Append(o, m)
<1>1. o \in Seq(Outward) /\ OnceEach(o)
  BY BoxesAre
<1>2. m \in Outward /\ m.type = t /\ m.token = 0
  BY MessageIs DEF Outward
<1>3. 0 \notin Tokened(o)
  BY DEF Tokened
<1> HIDE DEF o, m
<1>4. /\ b \in Seq(Outward)
      /\ OnceEach(o) /\ m.token \notin Tokened(o) => OnceEach(b)
      /\ Tokened(b) = Tokened(o) \cup ({m.token} \ {0})
      /\ \A u : None(o, u) => IF u = m.type THEN One(b, u) ELSE None(b, u)
      /\ \A u : One(o, u) /\ u # m.type => One(b, u)
  BY <1>1, <1>2, AppendKeeps
<1> HIDE DEF b
<1>5. OnceEach(b) /\ Tokened(b) = Tokened(o)
  BY <1>1, <1>2, <1>3, <1>4
<1>6. \A u : u # t => (None(o, u) => None(b, u)) /\ (One(o, u) => One(b, u))
  BY <1>2, <1>4
<1>7. None(o, t) => One(b, t)
  BY <1>2, <1>4
<1> QED
  BY <1>4, <1>5, <1>6, <1>7 DEF o, m, b

\* What a worker takes up.
LEMMA TakeUpIs ==
  ASSUME QueueInv, NEW c \in Terminals, NEW t, TakeUp(c, t)
  PROVE  LET a == Tail(inbox[c])
         IN  /\ a \in Seq(Inward) /\ OnceEach(a) /\ inbox' = [inbox EXCEPT ![c] = a]
             /\ Tokened(a) = Tokened(inbox[c]) \ {Head(inbox[c]).token}
             /\ Head(inbox[c]).token # 0 => Head(inbox[c]).token \in Tokened(inbox[c])
             /\ Head(inbox[c]) \in Inward /\ Head(inbox[c]).type = t
             /\ ~None(inbox[c], t)
             /\ One(inbox[c], t) => None(a, t)
             /\ \A u : u # t => /\ None(inbox[c], u) => None(a, u)
                                /\ One(inbox[c], u) => One(a, u)
             /\ worker[c] = "idle" /\ c \in Elements(consoles)
             /\ OpenInv(inbox[c], outbox[c], "idle", ready[c], busy[c], awaitingInput[c])
<1> DEFINE i == inbox[c]
           a == Tail(i)
<1>1. /\ worker[c] = "idle" /\ i # <<>> /\ Head(i).type = t
      /\ inbox' = [inbox EXCEPT ![c] = a]
  BY DEF TakeUp
<1>2. i \in Seq(Inward) /\ OnceEach(i)
  BY BoxesAre
<1>3. /\ c \in Elements(consoles)
      /\ OpenInv(i, outbox[c], "idle", ready[c], busy[c], awaitingInput[c])
  BY <1>1, OpenIs
<1> HIDE DEF i
<1>4. /\ Head(i) \in Inward /\ a \in Seq(Inward)
      /\ OnceEach(a) /\ Tokened(a) = Tokened(i) \ {Head(i).token}
      /\ Head(i).token # 0 => Head(i).token \in Tokened(i)
      /\ ~None(i, Head(i).type)
      /\ \A u : None(i, u) => None(a, u)
      /\ \A u : One(i, u) => IF u = Head(i).type THEN None(a, u) ELSE One(a, u)
  BY <1>1, <1>2, TailKeeps
<1> HIDE DEF a
<1>5. ~None(i, t) /\ (One(i, t) => None(a, t))
  BY <1>1, <1>4
<1>6. \A u : u # t => (None(i, u) => None(a, u)) /\ (One(i, u) => One(a, u))
  BY <1>1, <1>4
<1> QED
  BY <1>1, <1>3, <1>4, <1>5, <1>6 DEF i, a

\* A worker boots, and says it is ready.
LEMMA BootKeeps ==
  ASSUME QueueInv, NEW c \in Terminals, Boot(c)
  PROVE  QueueInv'
<1> DEFINE i == inbox[c]
           o == outbox[c]
           a == Tail(i)
           b == Append(o, Message("ready"))
<1>1. /\ TakeUp(c, "boot") /\ outbox' = [outbox EXCEPT ![c] = b]
      /\ UNCHANGED <<page, queue, settled>> /\ worker' = worker /\ carried' = carried
  BY DEF Boot, Say
<1>2. /\ Tokened(i) \cap Tokened(o) = {} /\ 0 \notin Tokened(i)
  BY BoxesAre DEF Tokened
<1>3. /\ b \in Seq(Outward) /\ OnceEach(b) /\ Tokened(b) = Tokened(o)
      /\ \A u : u # "ready" => (None(o, u) => None(b, u)) /\ (One(o, u) => One(b, u))
      /\ None(o, "ready") => One(b, "ready")
  BY SayIs
<1>4. /\ a \in Seq(Inward) /\ OnceEach(a) /\ inbox' = [inbox EXCEPT ![c] = a]
      /\ Tokened(a) = Tokened(i) \ {Head(i).token} /\ Head(i) \in Inward /\ Head(i).type = "boot"
      /\ ~None(i, "boot") /\ (One(i, "boot") => None(a, "boot"))
      /\ \A u : u # "boot" => (None(i, u) => None(a, u)) /\ (One(i, u) => One(a, u))
      /\ worker[c] = "idle" /\ c \in Elements(consoles)
      /\ OpenInv(i, o, "idle", ready[c], busy[c], awaitingInput[c])
  BY <1>1, TakeUpIs
<1>5. worker' = [worker EXCEPT ![c] = "idle"] /\ carried' \in [Tokens -> Nat]
  BY <1>1, <1>4 DEF QueueInv, QueueTypes
<1> HIDE DEF i, o, a, b
<1>6. Tokened(a) = Tokened(i)
  <2>1. Head(i).token = 0
    BY <1>4, MessageIs
  <2> QED
    BY <1>2, <1>4, <2>1
<1>7. OpenInv(a, b, "idle", ready[c], busy[c], awaitingInput[c])
  BY <1>3, <1>4 DEF OpenInv, Running, NotRunning, Asks, Boots
<1> QED
  BY <1>1, <1>2, <1>3, <1>4, <1>5, <1>6, <1>7, WorkerKeeps DEF i, o

\* It takes up a run.
LEMMA StartRunKeeps ==
  ASSUME QueueInv, NEW c \in Terminals, StartRun(c)
  PROVE  QueueInv'
<1> DEFINE i == inbox[c]
           o == outbox[c]
           a == Tail(i)
<1>1. /\ TakeUp(c, "run") /\ outbox' = outbox /\ worker' = [worker EXCEPT ![c] = "running"]
      /\ UNCHANGED <<page, queue, settled>> /\ carried' = carried
  BY DEF StartRun
<1>2. /\ Tokened(i) \cap Tokened(o) = {} /\ 0 \notin Tokened(i) /\ o \in Seq(Outward)
      /\ OnceEach(o) /\ outbox = [outbox EXCEPT ![c] = o]
  BY BoxesAre DEF Tokened
<1>4. /\ a \in Seq(Inward) /\ OnceEach(a) /\ inbox' = [inbox EXCEPT ![c] = a]
      /\ Tokened(a) = Tokened(i) \ {Head(i).token} /\ Head(i) \in Inward /\ Head(i).type = "run"
      /\ ~None(i, "run") /\ (One(i, "run") => None(a, "run"))
      /\ \A u : u # "run" => (None(i, u) => None(a, u)) /\ (One(i, u) => One(a, u))
      /\ worker[c] = "idle" /\ c \in Elements(consoles)
      /\ OpenInv(i, o, "idle", ready[c], busy[c], awaitingInput[c])
  BY <1>1, TakeUpIs
<1>5. carried' \in [Tokens -> Nat]
  BY <1>1 DEF QueueInv, QueueTypes
<1> HIDE DEF i, o, a
<1>6. Tokened(a) = Tokened(i)
  <2>1. Head(i).token = 0
    BY <1>4, MessageIs
  <2> QED
    BY <1>2, <1>4, <2>1
<1>7. OpenInv(a, o, "running", ready[c], busy[c], awaitingInput[c])
  BY <1>4 DEF OpenInv, Running, NotRunning, Asks, Boots
<1>8. outbox' = [outbox EXCEPT ![c] = o]
  BY <1>1, <1>2
<1> QED
  BY <1>1, <1>2, <1>4, <1>5, <1>6, <1>7, <1>8, WorkerKeeps DEF i, o

\* The question goes from the inbox to the outbox.
LEMMA CarryOutMoves ==
  ASSUME QueueInv, NEW c \in Terminals, CarryOut(c)
  PROVE  LET q == Head(inbox[c]).token
             a == Tail(inbox[c])
             b == Append(outbox[c], [type |-> "answer", token |-> q])
         IN  /\ q \in Tokens /\ q \in Tokened(inbox[c]) /\ q \notin Tokened(outbox[c])
             /\ inbox' = [inbox EXCEPT ![c] = a] /\ outbox' = [outbox EXCEPT ![c] = b]
             /\ a \in Seq(Inward) /\ OnceEach(a) /\ b \in Seq(Outward) /\ OnceEach(b)
             /\ Tokened(a) = Tokened(inbox[c]) \ {q} /\ Tokened(b) = Tokened(outbox[c]) \cup {q}
             /\ OpenInv(a, b, "idle", ready[c], busy[c], awaitingInput[c])
             /\ c \in Elements(consoles) /\ worker[c] = "idle"
<1> DEFINE i == inbox[c]
           o == outbox[c]
           q == Head(i).token
           a == Tail(i)
           m == [type |-> "answer", token |-> q]
           b == Append(o, m)
<1>1. TakeUp(c, "question") /\ outbox' = [outbox EXCEPT ![c] = b]
  BY DEF CarryOut, Say
<1>2. Tokened(i) \cap Tokened(o) = {} /\ o \in Seq(Outward) /\ OnceEach(o)
  BY BoxesAre
<1>3. /\ a \in Seq(Inward) /\ OnceEach(a) /\ inbox' = [inbox EXCEPT ![c] = a]
      /\ Tokened(a) = Tokened(i) \ {q} /\ Head(i) \in Inward /\ Head(i).type = "question"
      /\ q # 0 => q \in Tokened(i)
      /\ \A u : u # "question" => (None(i, u) => None(a, u)) /\ (One(i, u) => One(a, u))
      /\ worker[c] = "idle" /\ c \in Elements(consoles)
      /\ OpenInv(i, o, "idle", ready[c], busy[c], awaitingInput[c])
  BY <1>1, TakeUpIs
<1>4. q \in Tokens /\ q # 0
  BY <1>3, MessageIs
<1>5. m \in Outward /\ m.type = "answer" /\ m.token = q
  BY <1>4 DEF Outward
<1> HIDE DEF i, o, q, a, m
<1>6. q \in Tokened(i) /\ q \notin Tokened(o)
  BY <1>2, <1>3, <1>4
<1>7. /\ b \in Seq(Outward) /\ OnceEach(b) /\ Tokened(b) = Tokened(o) \cup {q}
      /\ \A u : u # "answer" => (None(o, u) => None(b, u)) /\ (One(o, u) => One(b, u))
  <2>1. /\ b \in Seq(Outward)
        /\ OnceEach(o) /\ m.token \notin Tokened(o) => OnceEach(b)
        /\ Tokened(b) = Tokened(o) \cup ({m.token} \ {0})
        /\ \A u : None(o, u) => IF u = m.type THEN One(b, u) ELSE None(b, u)
        /\ \A u : One(o, u) /\ u # m.type => One(b, u)
    BY <1>2, <1>5, AppendKeeps
  <2> HIDE DEF b
  <2>2. OnceEach(b) /\ Tokened(b) = Tokened(o) \cup {q}
    BY <1>2, <1>4, <1>5, <1>6, <2>1
  <2>3. \A u : u # "answer" => (None(o, u) => None(b, u)) /\ (One(o, u) => One(b, u))
    BY <1>5, <2>1
  <2> QED
    BY <2>1, <2>2, <2>3
<1> HIDE DEF b
<1>8. OpenInv(a, b, "idle", ready[c], busy[c], awaitingInput[c])
  BY <1>3, <1>7 DEF OpenInv, Running, NotRunning, Asks, Boots
<1> QED
  BY <1>1, <1>3, <1>4, <1>6, <1>7, <1>8 DEF i, o, q, a, m, b

\* It carries a question out, and answers.
LEMMA CarryOutKeeps ==
  ASSUME QueueInv, NEW c \in Terminals, CarryOut(c)
  PROVE  QueueInv'
<1> DEFINE i == inbox[c]
           o == outbox[c]
           q == Head(i).token
           a == Tail(i)
           b == Append(o, [type |-> "answer", token |-> q])
<1>1. /\ q \in Tokens /\ q \in Tokened(i) /\ q \notin Tokened(o)
      /\ inbox' = [inbox EXCEPT ![c] = a] /\ outbox' = [outbox EXCEPT ![c] = b]
      /\ a \in Seq(Inward) /\ OnceEach(a) /\ b \in Seq(Outward) /\ OnceEach(b)
      /\ Tokened(a) = Tokened(i) \ {q} /\ Tokened(b) = Tokened(o) \cup {q}
      /\ OpenInv(a, b, "idle", ready[c], busy[c], awaitingInput[c])
      /\ c \in Elements(consoles) /\ worker[c] = "idle"
  BY CarryOutMoves
<1>2. /\ UNCHANGED <<page, queue, settled>> /\ worker' = worker
      /\ carried' = [carried EXCEPT ![q] = @ + 1]
  BY DEF CarryOut
<1>3. Tokened(i) \cap Tokened(o) = {}
  BY BoxesAre
<1> HIDE DEF i, o, q, a, b
<1>4. worker' = [worker EXCEPT ![c] = "idle"] /\ carried' \in [Tokens -> Nat]
  BY <1>1, <1>2 DEF QueueInv, QueueTypes
<1>5. Tokened(a) \cap Tokened(b) = {} /\ Tokened(a) \cup Tokened(b) = Tokened(i) \cup Tokened(o)
  BY <1>1, <1>3
<1> QED
  BY <1>1, <1>2, <1>4, <1>5, WorkerKeeps DEF i, o

\* The run wants a line, or ends.
LEMMA ScriptKeeps ==
  ASSUME QueueInv, NEW c \in Terminals, Script(c)
  PROVE  QueueInv'
<1> DEFINE i == inbox[c]
           o == outbox[c]
<1>1. /\ worker[c] = "running" /\ inbox' = inbox /\ carried' = carried
      /\ UNCHANGED <<page, queue, settled>>
  BY DEF Script, WantInput, EndRun
<1>2. /\ Tokened(i) \cap Tokened(o) = {} /\ i \in Seq(Inward)
      /\ OnceEach(i) /\ inbox = [inbox EXCEPT ![c] = i]
  BY BoxesAre
<1>3. /\ c \in Elements(consoles)
      /\ OpenInv(i, o, "running", ready[c], busy[c], awaitingInput[c])
  BY <1>1, OpenIs
<1>4. carried' \in [Tokens -> Nat] /\ inbox' = [inbox EXCEPT ![c] = i]
  BY <1>1, <1>2 DEF QueueInv, QueueTypes
<1>5. CASE WantInput(c)
  <2> DEFINE b == Append(o, Message("wantInput"))
  <2>1. outbox' = [outbox EXCEPT ![c] = b] /\ worker' = [worker EXCEPT ![c] = "parked"]
    BY <1>5 DEF WantInput, Say
  <2>2. /\ b \in Seq(Outward) /\ OnceEach(b) /\ Tokened(b) = Tokened(o)
        /\ \A u : u # "wantInput" => (None(o, u) => None(b, u)) /\ (One(o, u) => One(b, u))
        /\ None(o, "wantInput") => One(b, "wantInput")
    BY SayIs
  <2> HIDE DEF i, o, b
  <2>3. OpenInv(i, b, "parked", ready[c], busy[c], awaitingInput[c])
    BY <1>3, <2>2 DEF OpenInv, Running, NotRunning, Asks, Boots
  <2> QED
    BY <1>1, <1>2, <1>3, <1>4, <2>1, <2>2, <2>3, WorkerKeeps DEF i, o
<1>6. CASE EndRun(c)
  <2> DEFINE b == Append(o, Message("done"))
  <2>1. outbox' = [outbox EXCEPT ![c] = b] /\ worker' = [worker EXCEPT ![c] = "idle"]
    BY <1>6 DEF EndRun, Say
  <2>2. /\ b \in Seq(Outward) /\ OnceEach(b) /\ Tokened(b) = Tokened(o)
        /\ \A u : u # "done" => (None(o, u) => None(b, u)) /\ (One(o, u) => One(b, u))
        /\ None(o, "done") => One(b, "done")
    BY SayIs
  <2> HIDE DEF i, o, b
  <2>3. OpenInv(i, b, "idle", ready[c], busy[c], awaitingInput[c])
    BY <1>3, <2>2 DEF OpenInv, Running, NotRunning, Asks, Boots
  <2> QED
    BY <1>1, <1>2, <1>3, <1>4, <2>1, <2>2, <2>3, WorkerKeeps DEF i, o
<1> QED
  BY <1>5, <1>6 DEF Script

-----------------------------------------------------------------------------
(* The player's steps.                                                     *)

\* A console is not free for not being ready, or for being kept busy.
LEMMA OpenKeeps ==
  ASSUME QueueInv, NEW c \in Terminals, Open(c)
  PROVE  QueueInv'
<1> DEFINE a == <<Message("boot")>>
<1>0. /\ UNCHANGED <<ready, busy, awaitingInput, asked, waiting, nextToken, outbox, worker,
                     carried, settled>>
      /\ c \notin opened /\ consoles' = Append(consoles, c) /\ opened' = opened \cup {c}
      /\ inbox' = [inbox EXCEPT ![c] = a]
  BY DEF Open, queue
<1>1. QueueTypes /\ ConsoleInv(c)
  BY DEF QueueInv
<1>2. /\ consoles' \in Seq(opened') /\ Distinct(consoles')
      /\ Elements(consoles') = Elements(consoles) \cup {c} /\ c \notin Elements(consoles)
  <2>1. consoles \in Seq(opened) /\ Distinct(consoles)
    BY <1>1 DEF QueueTypes
  <2>2. consoles \in Seq(opened') /\ c \in opened'
    BY <1>0, <2>1, SeqWidens
  <2>3. c \notin Elements(consoles)
    BY <1>0, <2>1 DEF Elements
  <2> QED
    BY <1>0, <2>1, <2>2, <2>3, JoinsLine
<1>3. /\ inbox[c] = <<>> /\ outbox[c] = <<>> /\ worker[c] = "idle"
      /\ ready[c] = FALSE /\ busy[c] = FALSE /\ awaitingInput[c] = FALSE
  BY <1>1, <1>2 DEF ConsoleInv, ClosedInv, QueueTypes
<1>4. /\ a \in Seq(Inward) /\ OnceEach(a) /\ Tokened(a) = {} /\ One(a, "boot") /\ None(a, "run")
  BY MessageIs DEF Inward, OnceEach, Tokened, One, None, Message
<1> HIDE DEF a
<1>5. QueueTypes'
  BY <1>0, <1>1, <1>2 DEF QueueTypes
<1>6. Placed(asked, waiting, inbox, outbox)'
  <2>1. Placed(asked, waiting, [inbox EXCEPT ![c] = a], [outbox EXCEPT ![c] = outbox[c]])
    <3>1. Tokened(inbox[c]) = {} /\ Tokened(outbox[c]) = {}
      BY <1>3, EmptyIs
    <3>2. outbox[c] \in Seq(Outward) /\ OnceEach(outbox[c])
      BY BoxesAre
    <3>3. /\ Tokened(a) \cap Tokened(outbox[c]) = {}
          /\ Tokened(a) \cup Tokened(outbox[c]) = Tokened(inbox[c]) \cup Tokened(outbox[c])
      BY <1>4, <3>1
    <3> QED
      BY <1>4, <3>2, <3>3, BoxesKeep DEF QueueInv
  <2>2. outbox = [outbox EXCEPT ![c] = outbox[c]]
    BY BoxesAre
  <2> QED
    BY <1>0, <2>1, <2>2
<1>7. NoneWaitsBesideAFreeOne'
  <2>0. AnyFree' <=> \E d \in Elements(consoles') : ready'[d] /\ ~busy'[d] /\ ~awaitingInput'[d]
    BY DEF AnyFree, Free, Elements
  <2>1. AnyFree' => AnyFree
    BY <1>0, <1>2, <1>3, <2>0, AnyFreeIs
  <2> QED
    BY <1>0, <2>1 DEF QueueInv, NoneWaitsBesideAFreeOne
<1>8. ASSUME NEW d \in Terminals PROVE ConsoleInv(d)'
  <2>1. CASE d = c
    <3>1. inbox'[c] = a
      BY <1>0, BoxesAre
    <3>2. OpenInv(a, <<>>, "idle", FALSE, FALSE, FALSE)
      BY <1>4, EmptyIs DEF OpenInv, NotRunning, Asks, Boots
    <3> QED
      BY <1>0, <1>2, <1>3, <2>1, <3>1, <3>2 DEF ConsoleInv
  <2>2. CASE d # c
    <3>1. ConsoleInv(d) /\ inbox'[d] = inbox[d]
      BY <1>0, <2>2, BoxesAre DEF QueueInv
    <3> QED
      BY <1>0, <1>2, <2>2, <3>1, ConsoleSame
  <2> QED
    BY <2>1, <2>2
<1> QED
  BY <1>5, <1>6, <1>7, <1>8 DEF QueueInv

-----------------------------------------------------------------------------
(* The page's steps.                                                       *)

\* What the page hears.
LEMMA HearIs ==
  ASSUME QueueInv, NEW c \in Terminals, NEW t, Hear(c, t)
  PROVE  LET b == Tail(outbox[c])
         IN  /\ b \in Seq(Outward) /\ OnceEach(b) /\ outbox' = [outbox EXCEPT ![c] = b]
             /\ Tokened(b) = Tokened(outbox[c]) \ {Head(outbox[c]).token}
             /\ Head(outbox[c]).token # 0 => Head(outbox[c]).token \in Tokened(outbox[c])
             /\ Head(outbox[c]) \in Outward /\ Head(outbox[c]).type = t
             /\ ~None(outbox[c], t)
             /\ One(outbox[c], t) => None(b, t)
             /\ \A u : u # t => /\ None(outbox[c], u) => None(b, u)
                                /\ One(outbox[c], u) => One(b, u)
             /\ c \in Elements(consoles)
             /\ OpenInv(inbox[c], outbox[c], worker[c], ready[c], busy[c], awaitingInput[c])
<1> DEFINE o == outbox[c]
           b == Tail(o)
<1>1. o # <<>> /\ Head(o).type = t /\ outbox' = [outbox EXCEPT ![c] = b]
  BY DEF Hear
<1>2. o \in Seq(Outward) /\ OnceEach(o)
  BY BoxesAre
<1>3. /\ c \in Elements(consoles)
      /\ OpenInv(inbox[c], o, worker[c], ready[c], busy[c], awaitingInput[c])
  BY <1>1, OpenIs
<1> HIDE DEF o
<1>4. /\ Head(o) \in Outward /\ b \in Seq(Outward)
      /\ OnceEach(b) /\ Tokened(b) = Tokened(o) \ {Head(o).token}
      /\ Head(o).token # 0 => Head(o).token \in Tokened(o)
      /\ ~None(o, Head(o).type)
      /\ \A u : None(o, u) => None(b, u)
      /\ \A u : One(o, u) => IF u = Head(o).type THEN None(b, u) ELSE One(b, u)
  BY <1>1, <1>2, TailKeeps
<1> HIDE DEF b
<1>5. ~None(o, t) /\ (One(o, t) => None(b, t))
  BY <1>1, <1>4
<1>6. \A u : u # t => (None(o, u) => None(b, u)) /\ (One(o, u) => One(b, u))
  BY <1>1, <1>4
<1> QED
  BY <1>1, <1>3, <1>4, <1>5, <1>6 DEF o, b

\* A step that ends by handing out.
LEMMA DispatchedKeeps ==
  ASSUME NEW isReady, NEW isBusy, NEW isAwaiting, NEW held, NEW line, NEW posts,
         Dispatch(consoles', isReady, isBusy, isAwaiting, held, line, posts),
         Placed(held, line, posts, outbox'),
         DOMAIN asked' = DOMAIN held => QueueTypes',
         consoles' \in Seq(Terminals),
         \A d \in Elements(consoles') : /\ ready'[d] = isReady[d] /\ busy'[d] = isBusy[d]
                                        /\ awaitingInput'[d] = isAwaiting[d],
         \A d \in Terminals :
            IF d \in Elements(consoles')
            THEN OpenInv(posts[d], outbox'[d], worker'[d], ready'[d], busy'[d], awaitingInput'[d])
            ELSE ClosedInv(posts[d], outbox'[d], worker'[d], ready'[d], busy'[d], awaitingInput'[d])
  PROVE  QueueInv'
<1>1. /\ Placed(asked', waiting', inbox', outbox') /\ DOMAIN asked' = DOMAIN held
      /\ waiting' # <<>> =>
           \A i \in DOMAIN consoles' : ~Free(consoles'[i], isReady, isBusy, isAwaiting)
      /\ \A d \in Terminals : /\ SameRun(posts[d], inbox'[d])
                              /\ inbox'[d] = posts[d] \/ d \in Elements(consoles')
  BY DispatchPlaces
<1>2. NoneWaitsBesideAFreeOne'
  <2>1. AnyFree' <=> \E d \in Elements(consoles') : ready'[d] /\ ~busy'[d] /\ ~awaitingInput'[d]
    BY DEF AnyFree, Free, Elements
  <2>2. waiting' # <<>> =>
           \A d \in Elements(consoles') : ~(isReady[d] /\ ~isBusy[d] /\ ~isAwaiting[d])
    BY <1>1 DEF Elements, Free
  <2> QED
    BY <2>1, <2>2 DEF NoneWaitsBesideAFreeOne
<1>3. ASSUME NEW d \in Terminals PROVE ConsoleInv(d)'
  <2>1. CASE d \in Elements(consoles')
    <3>1. OpenInv(posts[d], outbox'[d], worker'[d], ready'[d], busy'[d], awaitingInput'[d])
      BY <2>1
    <3>2. OpenInv(inbox'[d], outbox'[d], worker'[d], ready'[d], busy'[d], awaitingInput'[d])
      BY <1>1, <3>1 DEF OpenInv, Running, NotRunning, Boots, SameRun
    <3> QED
      BY <2>1, <3>2 DEF ConsoleInv
  <2>2. CASE d \notin Elements(consoles')
    <3>1. inbox'[d] = posts[d]
      BY <1>1, <2>2
    <3>2. ClosedInv(posts[d], outbox'[d], worker'[d], ready'[d], busy'[d], awaitingInput'[d])
      BY <2>2
    <3> QED
      BY <2>2, <3>1, <3>2 DEF ConsoleInv
  <2> QED
    BY <2>1, <2>2
<1> QED
  BY <1>1, <1>2, <1>3 DEF QueueInv

\* The consoles are open ones, and a console is as its flags say.
LEMMA ConsolesAre ==
  ASSUME QueueInv
  PROVE  /\ consoles \in Seq(Terminals) /\ Elements(consoles) \subseteq opened
         /\ opened \subseteq Terminals
         /\ \A d \in Terminals :
              IF d \in Elements(consoles)
              THEN OpenInv(inbox[d], outbox[d], worker[d], ready[d], busy[d], awaitingInput[d])
              ELSE ClosedInv(inbox[d], outbox[d], worker[d], ready[d], busy[d], awaitingInput[d])
<1>1. consoles \in Seq(opened) /\ opened \subseteq Terminals
  BY DEF QueueInv, QueueTypes
<1>2. Elements(consoles) \subseteq opened
  BY <1>1 DEF Elements
<1> QED
  BY <1>1, <1>2, SeqWidens DEF QueueInv, ConsoleInv

\* A question gets a token and a place: in line, or with a free console.
LEMMA AskKeeps ==
  ASSUME QueueInv, Ask
  PROVE  QueueInv'
<1> DEFINE n == nextToken
           held == [q \in DOMAIN asked \cup {n} |-> IF q = n THEN Nowhere ELSE asked[q]]
           line == Append(waiting, n)
<1>1. /\ UNCHANGED <<consoles, opened, ready, busy, awaitingInput, outbox, worker, carried,
                      settled>>
      /\ n \in Tokens /\ nextToken' = n + 1
      /\ Dispatch(consoles, ready, busy, awaitingInput, held, line, inbox)
  BY DEF Ask, page
<1>2. QueueTypes /\ Placed(asked, waiting, inbox, outbox)
  BY DEF QueueInv
<1>3. n \in Nat /\ n \notin DOMAIN asked /\ n + 1 \in 1 .. MaxQuestions + 1
  BY <1>1, <1>2, AskQueueAssumption DEF QueueTypes, Tokens
<1>4. DOMAIN held = {q \in Tokens : q < n + 1} \ settled
  <2>1. DOMAIN held = DOMAIN asked \cup {n}
    OBVIOUS
  <2>2. \A q \in Tokens : q < n + 1 <=> q < n \/ q = n
    BY <1>3 DEF Tokens
  <2>3. n \notin settled
    BY <1>2, <1>3 DEF QueueTypes
  <2> HIDE DEF held, n
  <2> QED
    BY <1>1, <1>2, <2>1, <2>2, <2>3 DEF QueueTypes, n
<1>5. Placed(held, line, inbox, outbox)
  <2>1. DOMAIN held \subseteq Tokens /\ held \in [DOMAIN held -> Terminals \cup {Nowhere}]
    BY <1>1, <1>2 DEF Placed
  <2>2. \A q \in DOMAIN held :
          held[q] = Nowhere <=> q = n \/ (q \in DOMAIN asked /\ asked[q] = Nowhere)
    BY <1>3
  <2>3. \A d \in Terminals :
          {q \in DOMAIN held : held[q] = d} = {q \in DOMAIN asked : asked[q] = d}
    <3> SUFFICES ASSUME NEW d \in Terminals
                 PROVE  {q \in DOMAIN held : held[q] = d} = {q \in DOMAIN asked : asked[q] = d}
      OBVIOUS
    <3>1. d # Nowhere
      BY AskQueueAssumption DEF Nowhere
    <3> QED
      BY <1>3, <3>1
  <2>4. n \in DOMAIN held
    OBVIOUS
  <2>5. \A q \in DOMAIN held : q = n \/ q \in DOMAIN asked
    OBVIOUS
  <2>6. DOMAIN asked \subseteq DOMAIN held
    OBVIOUS
  <2>7. line \in Seq(Tokens) /\ Distinct(line) /\ Elements(line) = Elements(waiting) \cup {n}
    <3>1. /\ waiting \in Seq(Tokens) /\ Distinct(waiting)
          /\ Elements(waiting) = {q \in DOMAIN asked : asked[q] = Nowhere}
      BY <1>2 DEF Placed
    <3>2. n \notin Elements(waiting)
      BY <1>3, <3>1
    <3> HIDE DEF n, line
    <3> QED
      BY <1>1, <3>1, <3>2, JoinsLine DEF line
  <2> HIDE DEF held, line, n
  <2>8. Elements(line) = {q \in DOMAIN held : held[q] = Nowhere}
    BY <1>2, <2>2, <2>4, <2>5, <2>6, <2>7 DEF Placed
  <2> QED
    BY <1>2, <2>1, <2>3, <2>7, <2>8 DEF Placed
<1> HIDE DEF held, line
<1>6. ASSUME DOMAIN asked' = DOMAIN held PROVE QueueTypes'
  <2>1. settled' \subseteq {q \in Tokens : q < nextToken'}
    BY <1>1, <1>2, <1>3 DEF QueueTypes, Tokens
  <2> QED
    BY <1>1, <1>2, <1>3, <1>4, <1>6, <2>1 DEF QueueTypes
<1> QED
  BY <1>1, <1>5, <1>6, ConsolesAre, DispatchedKeeps

\* A run is put in a console's inbox.
LEMMA RunPostedIs ==
  ASSUME QueueInv, NEW c \in Terminals
  PROVE  LET p == Append(inbox[c], Message("run"))
         IN  /\ p \in Seq(Inward) /\ OnceEach(p) /\ Tokened(p) = Tokened(inbox[c])
             /\ \A u : u # "run" => /\ None(inbox[c], u) => None(p, u)
                                    /\ One(inbox[c], u) => One(p, u)
             /\ None(inbox[c], "run") => One(p, "run")
<1> DEFINE i == inbox[c]
           m == Message("run")
           p == Append(i, m)
<1>1. i \in Seq(Inward) /\ OnceEach(i)
  BY BoxesAre
<1>2. m \in Inward /\ m.type = "run" /\ m.token = 0
  BY MessageIs DEF Inward
<1>3. 0 \notin Tokened(i)
  BY DEF Tokened
<1> HIDE DEF i, m
<1>4. /\ p \in Seq(Inward)
      /\ OnceEach(i) /\ m.token \notin Tokened(i) => OnceEach(p)
      /\ Tokened(p) = Tokened(i) \cup ({m.token} \ {0})
      /\ \A u : None(i, u) => IF u = m.type THEN One(p, u) ELSE None(p, u)
      /\ \A u : One(i, u) /\ u # m.type => One(p, u)
  BY <1>1, <1>2, AppendKeeps
<1> HIDE DEF p
<1>5. OnceEach(p) /\ Tokened(p) = Tokened(i)
  BY <1>1, <1>2, <1>3, <1>4
<1>6. \A u : u # "run" => (None(i, u) => None(p, u)) /\ (One(i, u) => One(p, u))
  BY <1>2, <1>4
<1>7. None(i, "run") => One(p, "run")
  BY <1>2, <1>4
<1> QED
  BY <1>4, <1>5, <1>6, <1>7 DEF i, m, p

\* A command keeps its console busy from now on.
LEMMA CommandKeeps ==
  ASSUME QueueInv, NEW c \in Terminals, Command(c)
  PROVE  QueueInv'
<1> DEFINE i == inbox[c]
           o == outbox[c]
           p == Append(i, Message("run"))
<1>0. /\ UNCHANGED <<consoles, opened, ready, awaitingInput, asked, waiting, nextToken, outbox,
                     worker, carried, settled>>
      /\ Contains(consoles, c) /\ ready[c] /\ ~busy[c] /\ ~awaitingInput[c]
      /\ busy' = [busy EXCEPT ![c] = TRUE] /\ inbox' = [inbox EXCEPT ![c] = p]
  BY DEF Command, queue
<1>1. QueueTypes
  BY DEF QueueInv
<1>2. c \in Elements(consoles)
  BY <1>0, ConsolesAre, ContainsIs
<1>3. /\ OpenInv(i, o, worker[c], ready[c], busy[c], awaitingInput[c])
      /\ inbox'[c] = p /\ busy'[c] = TRUE
      /\ \A d \in Terminals : d # c => inbox'[d] = inbox[d] /\ busy'[d] = busy[d]
      /\ busy' \in [Terminals -> BOOLEAN]
  BY <1>0, <1>1, <1>2, ConsolesAre, BoxesAre DEF QueueTypes
<1>4. /\ p \in Seq(Inward) /\ OnceEach(p) /\ Tokened(p) = Tokened(i)
      /\ \A u : u # "run" => (None(i, u) => None(p, u)) /\ (One(i, u) => One(p, u))
      /\ None(i, "run") => One(p, "run")
  BY RunPostedIs
<1>5. /\ Tokened(i) \cap Tokened(o) = {} /\ o \in Seq(Outward)
      /\ OnceEach(o) /\ outbox = [outbox EXCEPT ![c] = o]
  BY BoxesAre
<1> HIDE DEF i, o, p
<1>6. OpenInv(p, o, worker[c], ready[c], TRUE, awaitingInput[c])
  BY <1>0, <1>3, <1>4 DEF OpenInv, Running, NotRunning, Asks, Boots
<1>7. QueueTypes'
  BY <1>0, <1>1, <1>3 DEF QueueTypes
<1>8. Placed(asked, waiting, inbox, outbox)'
  <2>1. Placed(asked, waiting, [inbox EXCEPT ![c] = p], [outbox EXCEPT ![c] = o])
    BY <1>4, <1>5, BoxesKeep DEF QueueInv, i, o
  <2> QED
    BY <1>0, <1>5, <2>1
<1>9. NoneWaitsBesideAFreeOne'
  <2>0. AnyFree' <=> \E d \in Elements(consoles') : ready'[d] /\ ~busy'[d] /\ ~awaitingInput'[d]
    BY DEF AnyFree, Free, Elements
  <2>1. AnyFree' => AnyFree
    BY <1>0, <1>3, <2>0, AnyFreeIs, ConsolesAre
  <2> QED
    BY <1>0, <2>1 DEF QueueInv, NoneWaitsBesideAFreeOne
<1>10. ASSUME NEW d \in Terminals PROVE ConsoleInv(d)'
  <2>1. CASE d = c
    BY <1>0, <1>2, <1>3, <1>6, <2>1 DEF ConsoleInv, o
  <2>2. CASE d # c
    <3>1. ConsoleInv(d)
      BY DEF QueueInv
    <3> QED
      BY <1>0, <1>3, <2>2, <3>1, ConsoleSame
  <2> QED
    BY <2>1, <2>2
<1> QED
  BY <1>7, <1>8, <1>9, <1>10 DEF QueueInv

\* A run that waits for a line is still a run, and goes on as one.
LEMMA TypeLineKeeps ==
  ASSUME QueueInv, NEW c \in Terminals, TypeLine(c)
  PROVE  QueueInv'
<1>0. /\ UNCHANGED <<consoles, opened, ready, busy, asked, waiting, nextToken, inbox, outbox,
                     carried, settled>>
      /\ awaitingInput[c] /\ awaitingInput' = [awaitingInput EXCEPT ![c] = FALSE]
      /\ worker' = [worker EXCEPT ![c] = "running"]
  BY DEF TypeLine, queue
<1>1. QueueTypes
  BY DEF QueueInv
<1>2. /\ c \in Elements(consoles)
      /\ OpenInv(inbox[c], outbox[c], worker[c], ready[c], busy[c], awaitingInput[c])
  BY <1>0, OpenIs
<1>3. /\ awaitingInput'[c] = FALSE /\ worker'[c] = "running"
      /\ \A d \in Terminals : d # c => /\ awaitingInput'[d] = awaitingInput[d]
                                       /\ worker'[d] = worker[d]
      /\ awaitingInput' \in [Terminals -> BOOLEAN]
      /\ worker' \in [Terminals -> {"idle", "running", "parked"}]
  BY <1>0, <1>1 DEF QueueTypes
<1>4. busy[c] /\ ready[c]
  BY <1>0, <1>2 DEF OpenInv, NotRunning, Asks, Boots
<1>5. OpenInv(inbox[c], outbox[c], "running", ready[c], busy[c], FALSE)
  BY <1>0, <1>2 DEF OpenInv, Running, NotRunning, Asks, Boots
<1>6. QueueTypes'
  BY <1>0, <1>1, <1>3 DEF QueueTypes
<1>7. Placed(asked, waiting, inbox, outbox)'
  BY <1>0 DEF QueueInv
<1>8. NoneWaitsBesideAFreeOne'
  <2>0. AnyFree' <=> \E d \in Elements(consoles') : ready'[d] /\ ~busy'[d] /\ ~awaitingInput'[d]
    BY DEF AnyFree, Free, Elements
  <2>1. AnyFree' => AnyFree
    BY <1>0, <1>3, <1>4, <2>0, AnyFreeIs, ConsolesAre
  <2> QED
    BY <1>0, <2>1 DEF QueueInv, NoneWaitsBesideAFreeOne
<1>9. ASSUME NEW d \in Terminals PROVE ConsoleInv(d)'
  <2>1. CASE d = c
    BY <1>0, <1>2, <1>3, <1>5, <2>1 DEF ConsoleInv
  <2>2. CASE d # c
    <3>1. ConsoleInv(d)
      BY DEF QueueInv
    <3> QED
      BY <1>0, <1>3, <2>2, <3>1, ConsoleSame
  <2> QED
    BY <2>1, <2>2
<1> QED
  BY <1>6, <1>7, <1>8, <1>9 DEF QueueInv

\* The page hears that the run is parked.
LEMMA HearWantInputKeeps ==
  ASSUME QueueInv, NEW c \in Terminals, HearWantInput(c)
  PROVE  QueueInv'
<1> DEFINE i == inbox[c]
           o == outbox[c]
           b == Tail(o)
<1>0. /\ UNCHANGED <<consoles, opened, ready, busy, asked, waiting, nextToken, inbox,
                     worker, carried, settled>>
      /\ Hear(c, "wantInput") /\ awaitingInput' = [awaitingInput EXCEPT ![c] = TRUE]
  BY DEF HearWantInput, queue
<1>1. QueueTypes
  BY DEF QueueInv
<1>2. /\ b \in Seq(Outward) /\ OnceEach(b) /\ outbox' = [outbox EXCEPT ![c] = b]
      /\ Tokened(b) = Tokened(o) \ {Head(o).token} /\ Head(o) \in Outward
      /\ Head(o).type = "wantInput"
      /\ ~None(o, "wantInput") /\ (One(o, "wantInput") => None(b, "wantInput"))
      /\ \A u : u # "wantInput" => (None(o, u) => None(b, u)) /\ (One(o, u) => One(b, u))
      /\ c \in Elements(consoles)
      /\ OpenInv(i, o, worker[c], ready[c], busy[c], awaitingInput[c])
  BY <1>0, HearIs
<1>3. /\ awaitingInput'[c] = TRUE /\ outbox'[c] = b
      /\ \A d \in Terminals : d # c => /\ awaitingInput'[d] = awaitingInput[d]
                                       /\ outbox'[d] = outbox[d]
      /\ awaitingInput' \in [Terminals -> BOOLEAN]
  BY <1>0, <1>1, <1>2, BoxesAre DEF QueueTypes
<1>4. /\ Tokened(i) \cap Tokened(o) = {} /\ 0 \notin Tokened(o) /\ i \in Seq(Inward)
      /\ OnceEach(i) /\ inbox = [inbox EXCEPT ![c] = i]
  BY BoxesAre DEF Tokened
<1> HIDE DEF i, o, b
<1>5. Tokened(b) = Tokened(o)
  <2>1. Head(o).token = 0
    BY <1>2, MessageIs
  <2> QED
    BY <1>2, <1>4, <2>1
<1>6. OpenInv(i, b, worker[c], ready[c], busy[c], TRUE)
  BY <1>2 DEF OpenInv, Running, NotRunning, Asks, Boots
<1>7. QueueTypes'
  BY <1>0, <1>1, <1>3 DEF QueueTypes
<1>8. Placed(asked, waiting, inbox, outbox)'
  <2>1. Placed(asked, waiting, [inbox EXCEPT ![c] = i], [outbox EXCEPT ![c] = b])
    BY <1>2, <1>4, <1>5, BoxesKeep DEF QueueInv, i, o
  <2> QED
    BY <1>0, <1>2, <1>4, <2>1
<1>9. NoneWaitsBesideAFreeOne'
  <2>0. AnyFree' <=> \E d \in Elements(consoles') : ready'[d] /\ ~busy'[d] /\ ~awaitingInput'[d]
    BY DEF AnyFree, Free, Elements
  <2>1. AnyFree' => AnyFree
    BY <1>0, <1>3, <2>0, AnyFreeIs, ConsolesAre
  <2> QED
    BY <1>0, <2>1 DEF QueueInv, NoneWaitsBesideAFreeOne
<1>10. ASSUME NEW d \in Terminals PROVE ConsoleInv(d)'
  <2>1. CASE d = c
    BY <1>0, <1>2, <1>3, <1>6, <2>1 DEF ConsoleInv, i
  <2>2. CASE d # c
    <3>1. ConsoleInv(d)
      BY DEF QueueInv
    <3> QED
      BY <1>0, <1>3, <2>2, <3>1, ConsoleSame
  <2> QED
    BY <2>1, <2>2
<1> QED
  BY <1>7, <1>8, <1>9, <1>10 DEF QueueInv

\* What the page handed out is now at one console for certain.
LEMMA HearReadyKeeps ==
  ASSUME QueueInv, NEW c \in Terminals, HearReady(c)
  PROVE  QueueInv'
<1> DEFINE i == inbox[c]
           o == outbox[c]
           b == Tail(o)
           p == Append(i, Message("run"))
           posts == [inbox EXCEPT ![c] = p]
<1>0. /\ UNCHANGED <<consoles, opened, awaitingInput, nextToken, worker, carried, settled>>
      /\ Hear(c, "ready") /\ ready' = [ready EXCEPT ![c] = TRUE]
      /\ busy' = [busy EXCEPT ![c] = TRUE]
      /\ Dispatch(consoles, ready', busy', awaitingInput, asked, waiting, posts)
  BY DEF HearReady
<1>1. QueueTypes
  BY DEF QueueInv
<1>2. /\ b \in Seq(Outward) /\ OnceEach(b) /\ outbox' = [outbox EXCEPT ![c] = b]
      /\ Tokened(b) = Tokened(o) \ {Head(o).token} /\ Head(o) \in Outward
      /\ Head(o).type = "ready"
      /\ ~None(o, "ready") /\ (One(o, "ready") => None(b, "ready"))
      /\ \A u : u # "ready" => (None(o, u) => None(b, u)) /\ (One(o, u) => One(b, u))
      /\ c \in Elements(consoles)
      /\ OpenInv(i, o, worker[c], ready[c], busy[c], awaitingInput[c])
  BY <1>0, HearIs
<1>3. /\ ready'[c] = TRUE /\ busy'[c] = TRUE /\ outbox'[c] = b /\ posts[c] = p
      /\ \A d \in Terminals : d # c => /\ ready'[d] = ready[d] /\ busy'[d] = busy[d]
                                       /\ outbox'[d] = outbox[d] /\ posts[d] = inbox[d]
      /\ ready' \in [Terminals -> BOOLEAN] /\ busy' \in [Terminals -> BOOLEAN]
  BY <1>0, <1>1, <1>2, BoxesAre DEF QueueTypes
<1>4. Tokened(i) \cap Tokened(o) = {} /\ 0 \notin Tokened(o)
  BY BoxesAre DEF Tokened
<1>5. /\ p \in Seq(Inward) /\ OnceEach(p) /\ Tokened(p) = Tokened(i)
      /\ \A u : u # "run" => (None(i, u) => None(p, u)) /\ (One(i, u) => One(p, u))
      /\ None(i, "run") => One(p, "run")
  BY RunPostedIs
<1> HIDE DEF i, o, b, p
<1>6. Tokened(b) = Tokened(o)
  <2>1. Head(o).token = 0
    BY <1>2, MessageIs
  <2> QED
    BY <1>2, <1>4, <2>1
<1>7. OpenInv(p, b, worker[c], TRUE, TRUE, awaitingInput[c])
  BY <1>2, <1>5 DEF OpenInv, Running, NotRunning, Asks, Boots
<1>8. DOMAIN asked' = DOMAIN asked => QueueTypes'
  BY <1>0, <1>1, <1>3 DEF QueueTypes
<1>9. Placed(asked, waiting, posts, outbox')
  BY <1>2, <1>4, <1>5, <1>6, BoxesKeep DEF QueueInv, i, o
<1> HIDE DEF posts
<1>10. \A d \in Terminals :
         IF d \in Elements(consoles')
         THEN OpenInv(posts[d], outbox'[d], worker'[d], ready'[d], busy'[d], awaitingInput'[d])
         ELSE ClosedInv(posts[d], outbox'[d], worker'[d], ready'[d], busy'[d], awaitingInput'[d])
  <2> SUFFICES ASSUME NEW d \in Terminals
               PROVE  IF d \in Elements(consoles')
                      THEN OpenInv(posts[d], outbox'[d], worker'[d], ready'[d], busy'[d],
                                   awaitingInput'[d])
                      ELSE ClosedInv(posts[d], outbox'[d], worker'[d], ready'[d], busy'[d],
                                     awaitingInput'[d])
    OBVIOUS
  <2>1. CASE d = c
    <3>1. OpenInv(posts[c], outbox'[c], worker'[c], ready'[c], busy'[c], awaitingInput'[c])
      <4>1. worker' = worker /\ awaitingInput' = awaitingInput
        BY <1>0
      <4> QED
        BY <1>3, <1>7, <4>1, Zenon
    <3> QED
      BY <1>0, <1>2, <2>1, <3>1
  <2>2. CASE d # c
    BY <1>0, <1>3, <2>2, ConsolesAre
  <2> QED
    BY <2>1, <2>2
<1> QED
  <2>1. /\ consoles' \in Seq(Terminals) /\ awaitingInput' = awaitingInput
        /\ Dispatch(consoles', ready', busy', awaitingInput, asked, waiting, posts)
    BY <1>0, ConsolesAre DEF posts, p, i
  <2> QED
    BY <1>8, <1>9, <1>10, <2>1, DispatchedKeeps

\* The console is free: it takes all that is in line.
LEMMA HearDoneKeeps ==
  ASSUME QueueInv, NEW c \in Terminals, HearDone(c)
  PROVE  QueueInv'
<1> DEFINE i == inbox[c]
           o == outbox[c]
           b == Tail(o)
<1>0. /\ UNCHANGED <<consoles, opened, ready, nextToken, worker, carried, settled>>
      /\ Hear(c, "done") /\ busy' = [busy EXCEPT ![c] = FALSE]
      /\ awaitingInput' = [awaitingInput EXCEPT ![c] = FALSE]
      /\ Dispatch(consoles, ready, busy', awaitingInput', asked, waiting, inbox)
  BY DEF HearDone
<1>1. QueueTypes
  BY DEF QueueInv
<1>2. /\ b \in Seq(Outward) /\ OnceEach(b) /\ outbox' = [outbox EXCEPT ![c] = b]
      /\ Tokened(b) = Tokened(o) \ {Head(o).token} /\ Head(o) \in Outward
      /\ Head(o).type = "done"
      /\ ~None(o, "done") /\ (One(o, "done") => None(b, "done"))
      /\ \A u : u # "done" => (None(o, u) => None(b, u)) /\ (One(o, u) => One(b, u))
      /\ c \in Elements(consoles)
      /\ OpenInv(i, o, worker[c], ready[c], busy[c], awaitingInput[c])
  BY <1>0, HearIs
<1>3. /\ awaitingInput'[c] = FALSE /\ busy'[c] = FALSE /\ outbox'[c] = b
      /\ \A d \in Terminals : d # c => /\ awaitingInput'[d] = awaitingInput[d]
                                       /\ busy'[d] = busy[d] /\ outbox'[d] = outbox[d]
      /\ awaitingInput' \in [Terminals -> BOOLEAN] /\ busy' \in [Terminals -> BOOLEAN]
  BY <1>0, <1>1, <1>2, BoxesAre DEF QueueTypes
<1>4. /\ Tokened(i) \cap Tokened(o) = {} /\ 0 \notin Tokened(o) /\ i \in Seq(Inward)
      /\ OnceEach(i) /\ inbox = [inbox EXCEPT ![c] = i]
  BY BoxesAre DEF Tokened
<1> HIDE DEF i, o, b
<1>5. Tokened(b) = Tokened(o)
  <2>1. Head(o).token = 0
    BY <1>2, MessageIs
  <2> QED
    BY <1>2, <1>4, <2>1
<1>6. OpenInv(i, b, worker[c], ready[c], FALSE, FALSE)
  BY <1>2 DEF OpenInv, Running, NotRunning, Asks, Boots
<1>7. DOMAIN asked' = DOMAIN asked => QueueTypes'
  BY <1>0, <1>1, <1>3 DEF QueueTypes
<1>8. Placed(asked, waiting, inbox, outbox')
  <2>1. Placed(asked, waiting, [inbox EXCEPT ![c] = i], [outbox EXCEPT ![c] = b])
    BY <1>2, <1>4, <1>5, BoxesKeep DEF QueueInv, i, o
  <2> QED
    BY <1>2, <1>4, <2>1
<1>9. ASSUME NEW d \in Terminals
      PROVE  IF d \in Elements(consoles')
             THEN OpenInv(inbox[d], outbox'[d], worker'[d], ready'[d], busy'[d], awaitingInput'[d])
             ELSE ClosedInv(inbox[d], outbox'[d], worker'[d], ready'[d], busy'[d],
                            awaitingInput'[d])
  <2>1. CASE d = c
    BY <1>0, <1>2, <1>3, <1>6, <2>1 DEF i
  <2>2. CASE d # c
    BY <1>0, <1>3, <2>2, ConsolesAre
  <2> QED
    BY <2>1, <2>2
<1> QED
  <2>1. /\ consoles' \in Seq(Terminals) /\ ready' = ready
        /\ Dispatch(consoles', ready, busy', awaitingInput', asked, waiting, inbox)
    BY <1>0, ConsolesAre
  <2> QED
    BY <1>7, <1>8, <1>9, <2>1, DispatchedKeeps

\* The question answered is the console's, and it is not out any more.
LEMMA HearAnswerSettles ==
  ASSUME QueueInv, NEW c \in Terminals, HearAnswer(c)
  PROVE  LET q == Head(outbox[c]).token
             b == Tail(outbox[c])
         IN  /\ q \in DOMAIN asked /\ asked[q] = c /\ q \in Tokened(outbox[c])
             /\ q \notin Tokened(inbox[c])
             /\ outbox' = [outbox EXCEPT ![c] = b] /\ b \in Seq(Outward) /\ OnceEach(b)
             /\ Tokened(b) = Tokened(outbox[c]) \ {q}
             /\ asked' = [r \in DOMAIN asked \ {q} |-> asked[r]] /\ settled' = settled \cup {q}
             /\ c \in Elements(consoles)
             /\ OpenInv(inbox[c], b, worker[c], ready[c], busy[c], awaitingInput[c])
<1> DEFINE i == inbox[c]
           o == outbox[c]
           q == Head(o).token
           b == Tail(o)
<1>0. /\ Hear(c, "answer") /\ asked' = [r \in DOMAIN asked \ {q} |-> asked[r]]
      /\ settled' = IF q \in DOMAIN asked THEN settled \cup {q} ELSE settled
  BY DEF HearAnswer
<1>1. /\ b \in Seq(Outward) /\ OnceEach(b) /\ outbox' = [outbox EXCEPT ![c] = b]
      /\ Tokened(b) = Tokened(o) \ {q} /\ Head(o) \in Outward
      /\ Head(o).type = "answer"
      /\ q # 0 => q \in Tokened(o)
      /\ \A u : u # "answer" => (None(o, u) => None(b, u)) /\ (One(o, u) => One(b, u))
      /\ c \in Elements(consoles)
      /\ OpenInv(i, o, worker[c], ready[c], busy[c], awaitingInput[c])
  BY <1>0, HearIs
<1>2. /\ Tokened(i) \cap Tokened(o) = {}
      /\ Tokened(i) \cup Tokened(o) = {r \in DOMAIN asked : asked[r] = c}
  BY BoxesAre
<1>3. q # 0
  BY <1>1, MessageIs
<1> HIDE DEF i, o, q, b
<1>4. q \in DOMAIN asked /\ asked[q] = c /\ q \in Tokened(o) /\ q \notin Tokened(i)
  BY <1>1, <1>2, <1>3
<1>5. OpenInv(i, b, worker[c], ready[c], busy[c], awaitingInput[c])
  BY <1>1 DEF OpenInv, Running, NotRunning, Asks, Boots
<1> QED
  BY <1>0, <1>1, <1>4, <1>5 DEF i, o, q, b

\* A question that is settled is nowhere.
LEMMA HearAnswerKeeps ==
  ASSUME QueueInv, NEW c \in Terminals, HearAnswer(c)
  PROVE  QueueInv'
<1> DEFINE i == inbox[c]
           o == outbox[c]
           q == Head(o).token
           b == Tail(o)
<1>0. UNCHANGED <<consoles, opened, ready, busy, awaitingInput, waiting, nextToken, inbox,
                  worker, carried>>
  BY DEF HearAnswer, page
<1>1. QueueTypes /\ Placed(asked, waiting, inbox, outbox)
  BY DEF QueueInv
<1>2. /\ q \in DOMAIN asked /\ asked[q] = c /\ q \in Tokened(o) /\ q \notin Tokened(i)
      /\ outbox' = [outbox EXCEPT ![c] = b] /\ b \in Seq(Outward) /\ OnceEach(b)
      /\ Tokened(b) = Tokened(o) \ {q}
      /\ asked' = [r \in DOMAIN asked \ {q} |-> asked[r]] /\ settled' = settled \cup {q}
      /\ c \in Elements(consoles)
      /\ OpenInv(i, b, worker[c], ready[c], busy[c], awaitingInput[c])
  BY HearAnswerSettles
<1>3. /\ Tokened(i) \cap Tokened(o) = {}
      /\ Tokened(i) \cup Tokened(o) = {r \in DOMAIN asked : asked[r] = c}
      /\ outbox \in [Terminals -> Seq(Outward)]
  BY BoxesAre
<1> HIDE DEF i, o, q, b
<1>4. outbox'[c] = b /\ \A d \in Terminals : d # c => outbox'[d] = outbox[d]
  BY <1>2, <1>3
<1>5. QueueTypes'
  <2>1. q \in {r \in Tokens : r < nextToken}
    BY <1>1, <1>2 DEF QueueTypes
  <2>2. DOMAIN asked' = {r \in Tokens : r < nextToken'} \ settled'
    BY <1>0, <1>1, <1>2 DEF QueueTypes
  <2> QED
    BY <1>0, <1>1, <1>2, <2>1, <2>2 DEF QueueTypes
<1>6. Placed(asked', waiting', inbox', outbox')
  <2>1. /\ DOMAIN asked' = DOMAIN asked \ {q} /\ \A r \in DOMAIN asked' : asked'[r] = asked[r]
        /\ asked' \in [DOMAIN asked' -> Terminals \cup {Nowhere}] /\ DOMAIN asked' \subseteq Tokens
    BY <1>1, <1>2 DEF Placed
  <2>2. c # Nowhere
    BY AskQueueAssumption DEF Nowhere
  <2>3. Elements(waiting) = {r \in DOMAIN asked' : asked'[r] = Nowhere}
    <3>1. Elements(waiting) = {r \in DOMAIN asked : asked[r] = Nowhere}
      BY <1>1 DEF Placed
    <3> QED
      BY <1>2, <2>1, <2>2, <3>1
  <2>4. outbox' \in [Terminals -> Seq(Outward)]
    BY <1>2, <1>3
  <2>5. ASSUME NEW d \in Terminals
        PROVE  /\ OnceEach(inbox[d]) /\ OnceEach(outbox'[d])
               /\ Tokened(inbox[d]) \cap Tokened(outbox'[d]) = {}
               /\ Tokened(inbox[d]) \cup Tokened(outbox'[d]) = {r \in DOMAIN asked' : asked'[r] = d}
    <3>1. /\ OnceEach(inbox[d]) /\ OnceEach(outbox[d])
          /\ Tokened(inbox[d]) \cap Tokened(outbox[d]) = {}
          /\ Tokened(inbox[d]) \cup Tokened(outbox[d]) = {r \in DOMAIN asked : asked[r] = d}
      BY <1>1 DEF Placed
    <3>2. CASE d = c
      <4>1. {r \in DOMAIN asked' : asked'[r] = c} = {r \in DOMAIN asked : asked[r] = c} \ {q}
        BY <2>1
      <4>2. Tokened(i) \cup Tokened(b) = (Tokened(i) \cup Tokened(o)) \ {q}
        BY <1>2
      <4> QED
        BY <1>2, <1>3, <1>4, <3>1, <3>2, <4>1, <4>2 DEF i, o
    <3>3. CASE d # c
      <4>1. {r \in DOMAIN asked' : asked'[r] = d} = {r \in DOMAIN asked : asked[r] = d}
        BY <1>2, <2>1, <3>3
      <4> QED
        BY <1>4, <3>1, <3>3, <4>1
    <3> QED
      BY <3>2, <3>3
  <2> QED
    BY <1>0, <1>1, <2>1, <2>3, <2>4, <2>5 DEF Placed
<1>7. NoneWaitsBesideAFreeOne'
  BY <1>0 DEF QueueInv, NoneWaitsBesideAFreeOne, AnyFree
<1>8. ASSUME NEW d \in Terminals PROVE ConsoleInv(d)'
  <2>1. CASE d = c
    BY <1>0, <1>2, <1>4, <2>1 DEF ConsoleInv, i
  <2>2. CASE d # c
    <3>1. ConsoleInv(d)
      BY DEF QueueInv
    <3> QED
      BY <1>0, <1>4, <2>2, <3>1, ConsoleSame
  <2> QED
    BY <2>1, <2>2
<1> QED
  BY <1>5, <1>6, <1>7, <1>8 DEF QueueInv

\* One line goes before another.
LEMMA JoinsLines ==
  ASSUME NEW D, NEW p \in Seq(D), NEW q \in Seq(D), Distinct(p), Distinct(q),
         Elements(p) \cap Elements(q) = {}
  PROVE  /\ p \o q \in Seq(D) /\ Distinct(p \o q)
         /\ Elements(p \o q) = Elements(p) \cup Elements(q)
<1> DEFINE n == Len(p)
           m == Len(q)
           r == p \o q
<1>1. /\ n \in Nat /\ m \in Nat /\ DOMAIN p = 1 .. n /\ DOMAIN q = 1 .. m /\ r \in Seq(D)
      /\ DOMAIN r = 1 .. n + m /\ \A i \in 1 .. n + m : r[i] = IF i <= n THEN p[i] ELSE q[i - n]
  OBVIOUS
<1> HIDE DEF n, m, r
<1>2. \A i \in DOMAIN p : i \in DOMAIN r /\ r[i] = p[i]
  BY <1>1
<1>3. \A i \in DOMAIN q : n + i \in DOMAIN r /\ r[n + i] = q[i]
  <2> SUFFICES ASSUME NEW i \in DOMAIN q PROVE n + i \in DOMAIN r /\ r[n + i] = q[i]
    OBVIOUS
  <2>1. n + i \in 1 .. n + m /\ ~(n + i <= n) /\ (n + i) - n = i
    BY <1>1
  <2> QED
    BY <1>1, <2>1
<1>4. \A k \in DOMAIN r : k \in DOMAIN p \/ \E i \in DOMAIN q : k = n + i
  <2> SUFFICES ASSUME NEW k \in DOMAIN r, k \notin DOMAIN p PROVE \E i \in DOMAIN q : k = n + i
    OBVIOUS
  <2>1. k - n \in 1 .. m /\ k = n + (k - n)
    BY <1>1
  <2> QED
    BY <1>1, <2>1
<1>5. \A i \in DOMAIN p, j \in DOMAIN q : p[i] # q[j]
  BY DEF Elements
<1>6. Distinct(r)
  <2> SUFFICES ASSUME NEW k \in DOMAIN r, NEW l \in DOMAIN r, r[k] = r[l] PROVE k = l
    BY DEF Distinct
  <2>1. CASE k \in DOMAIN p /\ l \in DOMAIN p
    BY <1>2, <2>1 DEF Distinct
  <2>2. ASSUME NEW i \in DOMAIN q, k = n + i, NEW j \in DOMAIN q, l = n + j PROVE k = l
    BY <1>3, <2>2 DEF Distinct
  <2>3. ASSUME NEW i \in DOMAIN q, k = n + i, l \in DOMAIN p PROVE FALSE
    BY <1>2, <1>3, <1>5, <2>3
  <2>4. ASSUME NEW i \in DOMAIN q, l = n + i, k \in DOMAIN p PROVE FALSE
    BY <1>2, <1>3, <1>5, <2>4
  <2> QED
    BY <1>4, <2>1, <2>2, <2>3, <2>4
<1>7. Elements(r) = Elements(p) \cup Elements(q)
  <2>1. ASSUME NEW x \in Elements(r) PROVE x \in Elements(p) \cup Elements(q)
    <3>1. PICK k \in DOMAIN r : x = r[k]
      BY DEF Elements
    <3> QED
      BY <1>2, <1>3, <1>4, <3>1 DEF Elements
  <2>2. ASSUME NEW x \in Elements(p) PROVE x \in Elements(r)
    BY <1>2 DEF Elements
  <2>3. ASSUME NEW x \in Elements(q) PROVE x \in Elements(r)
    <3>1. PICK i \in DOMAIN q : x = q[i]
      BY DEF Elements
    <3>2. n + i \in DOMAIN r /\ r[n + i] = x
      BY <1>3, <3>1
    <3> QED
      BY <3>2 DEF Elements
  <2> QED
    BY <2>1, <2>2, <2>3
<1> QED
  BY <1>1, <1>6, <1>7 DEF r

\* The tokens a closing console held, in order.
LEMMA OrphansAre ==
  ASSUME QueueInv, NEW c \in Terminals
  PROVE  /\ Orphans(c) \in Seq(Tokens) /\ Distinct(Orphans(c))
         /\ Elements(Orphans(c)) = {q \in DOMAIN asked : asked[q] = c}
<1> DEFINE S == {q \in DOMAIN asked : asked[q] = c}
<1>1. S \in SUBSET Tokens
  BY DEF QueueInv, Placed
<1>2. S \in SUBSET Nat /\ IsFiniteSet(S)
  <2>1. IsFiniteSet(Tokens) /\ Tokens \in SUBSET Nat
    <3>1. 1 \in Int /\ MaxQuestions \in Int /\ MaxQuestions \in Nat
      BY AskQueueAssumption
    <3>2. IsFiniteSet(1 .. MaxQuestions)
      BY <3>1, FS_Interval
    <3> QED
      BY <3>1, <3>2 DEF Tokens
  <2> QED
    BY <1>1, <2>1, FS_Subset
<1>3. Orphans(c) = InOrder(S)
  BY DEF Orphans
<1> HIDE DEF S
<1>4. InOrder(S) \in Seq(S) /\ Distinct(InOrder(S)) /\ Elements(InOrder(S)) = S
  BY <1>2, InOrderIs
<1>5. InOrder(S) \in Seq(Tokens)
  BY <1>1, <1>4, SeqWidens
<1> QED
  BY <1>3, <1>4, <1>5 DEF S

\* The consoles left.
LEMMA OthersAre ==
  ASSUME QueueInv, NEW c
  PROVE  LET others == Only(ToSet(consoles) \ {c}, consoles)
         IN  /\ others \in Seq(opened) /\ Distinct(others)
             /\ Elements(others) = Elements(consoles) \ {c}
<1> DEFINE kept == ToSet(consoles) \ {c}
           others == Only(kept, consoles)
<1>1. consoles \in Seq(opened) /\ Distinct(consoles)
  BY DEF QueueInv, QueueTypes
<1>2. kept = Elements(consoles) \ {c}
  BY DEF ToSet, Elements
<1> HIDE DEF kept
<1>3. /\ others \in Seq(opened) /\ Distinct(others)
      /\ Elements(others) = Elements(consoles) \cap kept
  BY <1>1, OnlyIs
<1> HIDE DEF others
<1>4. Elements(others) = Elements(consoles) \ {c}
  BY <1>2, <1>3
<1> QED
  BY <1>3, <1>4 DEF others, kept

\* What a console held goes ahead of what waits.
LEMMA CloseKeeps ==
  ASSUME QueueInv, NEW c \in Terminals, Close(c)
  PROVE  QueueInv'
<1> DEFINE orphans == Orphans(c)
           held == [q \in DOMAIN asked |-> IF Contains(orphans, q) THEN Nowhere ELSE asked[q]]
           posts == [inbox EXCEPT ![c] = <<>>]
           line == orphans \o waiting
<1>0. /\ UNCHANGED <<opened, nextToken, carried, settled>>
      /\ Contains(consoles, c) /\ consoles' = Only(ToSet(consoles) \ {c}, consoles)
      /\ ready' = [ready EXCEPT ![c] = FALSE] /\ busy' = [busy EXCEPT ![c] = FALSE]
      /\ awaitingInput' = [awaitingInput EXCEPT ![c] = FALSE]
      /\ worker' = [worker EXCEPT ![c] = "idle"] /\ outbox' = [outbox EXCEPT ![c] = <<>>]
      /\ \/ orphans = <<>> /\ inbox' = posts /\ asked' = asked /\ waiting' = waiting
         \/ /\ orphans # <<>>
            /\ Dispatch(consoles', ready, busy, awaitingInput, held, line, posts)
  BY DEF Close
<1>1. QueueTypes /\ Placed(asked, waiting, inbox, outbox)
  BY DEF QueueInv
<1>2. /\ consoles' \in Seq(opened) /\ Distinct(consoles')
      /\ Elements(consoles') = Elements(consoles) \ {c}
  BY <1>0, OthersAre
<1>3. /\ orphans \in Seq(Tokens) /\ Distinct(orphans)
      /\ Elements(orphans) = {q \in DOMAIN asked : asked[q] = c}
  BY OrphansAre
<1>4. /\ ready'[c] = FALSE /\ busy'[c] = FALSE /\ awaitingInput'[c] = FALSE
      /\ worker'[c] = "idle" /\ outbox'[c] = <<>> /\ posts[c] = <<>>
      /\ \A d \in Terminals : d # c =>
            /\ ready'[d] = ready[d] /\ busy'[d] = busy[d] /\ awaitingInput'[d] = awaitingInput[d]
            /\ worker'[d] = worker[d] /\ outbox'[d] = outbox[d] /\ posts[d] = inbox[d]
      /\ ready' \in [Terminals -> BOOLEAN] /\ busy' \in [Terminals -> BOOLEAN]
      /\ awaitingInput' \in [Terminals -> BOOLEAN]
      /\ worker' \in [Terminals -> {"idle", "running", "parked"}]
  BY <1>0, <1>1, BoxesAre DEF QueueTypes
<1>5. /\ posts \in [Terminals -> Seq(Inward)] /\ outbox' \in [Terminals -> Seq(Outward)]
  <2>1. <<>> \in Seq(Inward) /\ <<>> \in Seq(Outward)
    OBVIOUS
  <2> QED
    BY <1>0, <2>1, BoxesAre
<1> HIDE DEF orphans
<1>6. DOMAIN asked' = DOMAIN asked => QueueTypes'
  BY <1>0, <1>1, <1>2, <1>4 DEF QueueTypes
<1>7. ASSUME NEW d \in Terminals
      PROVE  IF d \in Elements(consoles')
             THEN OpenInv(posts[d], outbox'[d], worker'[d], ready'[d], busy'[d], awaitingInput'[d])
             ELSE ClosedInv(posts[d], outbox'[d], worker'[d], ready'[d], busy'[d],
                            awaitingInput'[d])
  <2>1. CASE d = c
    <3>1. ClosedInv(posts[c], outbox'[c], worker'[c], ready'[c], busy'[c], awaitingInput'[c])
      BY <1>4 DEF ClosedInv
    <3> QED
      BY <1>2, <2>1, <3>1
  <2>2. CASE d # c
    BY <1>2, <1>4, <2>2, ConsolesAre
  <2> QED
    BY <2>1, <2>2
<1> HIDE DEF posts
<1>8. \A d \in Elements(consoles') : /\ ready'[d] = ready[d] /\ busy'[d] = busy[d]
                                     /\ awaitingInput'[d] = awaitingInput[d]
  BY <1>2, <1>4, ConsolesAre
<1>9. CASE orphans = <<>>
  <2>1. inbox' = posts /\ asked' = asked /\ waiting' = waiting
    BY <1>0, <1>9
  <2>2. Placed(asked, waiting, inbox, outbox)'
    <3>1. Tokened(inbox[c]) = {} /\ Tokened(outbox[c]) = {}
      BY <1>3, <1>9, EmptyIs, BoxesAre
    <3>2. Placed(asked, waiting, posts, outbox')
      <4>1. <<>> \in Seq(Inward) /\ <<>> \in Seq(Outward) /\ OnceEach(<<>>) /\ Tokened(<<>>) = {}
        BY EmptyIs
      <4> QED
        BY <1>0, <1>1, <3>1, <4>1, BoxesKeep DEF posts
    <3> QED
      BY <2>1, <3>2
  <2>3. NoneWaitsBesideAFreeOne'
    <3>0. AnyFree' <=> \E d \in Elements(consoles') : ready'[d] /\ ~busy'[d] /\ ~awaitingInput'[d]
      BY DEF AnyFree, Free, Elements
    <3>1. AnyFree' => AnyFree
      BY <1>2, <1>8, <3>0, AnyFreeIs
    <3> QED
      BY <2>1, <3>1 DEF QueueInv, NoneWaitsBesideAFreeOne
  <2>4. \A d \in Terminals : ConsoleInv(d)'
    BY <1>7, <2>1 DEF ConsoleInv
  <2> QED
    BY <1>6, <2>1, <2>2, <2>3, <2>4 DEF QueueInv
<1>10. CASE orphans # <<>>
  <2>0. c # Nowhere
    BY AskQueueAssumption DEF Nowhere
  <2>1. /\ waiting \in Seq(Tokens) /\ Distinct(waiting)
        /\ Elements(waiting) = {q \in DOMAIN asked : asked[q] = Nowhere}
        /\ DOMAIN asked \subseteq Tokens /\ asked \in [DOMAIN asked -> Terminals \cup {Nowhere}]
    BY <1>1 DEF Placed
  <2>2. /\ line \in Seq(Tokens) /\ Distinct(line)
        /\ Elements(line) = Elements(orphans) \cup Elements(waiting)
    <3>1. Elements(orphans) \cap Elements(waiting) = {}
      BY <1>3, <2>0, <2>1
    <3> QED
      BY <1>3, <2>1, <3>1, JoinsLines
  <2>3. /\ DOMAIN held = DOMAIN asked
        /\ \A q \in DOMAIN asked : held[q] = IF asked[q] = c THEN Nowhere ELSE asked[q]
    <3>1. \A q \in DOMAIN asked : Contains(orphans, q) <=> asked[q] = c
      BY <1>3, ContainsIs
    <3> QED
      BY <3>1
  <2>4. held \in [DOMAIN asked -> Terminals \cup {Nowhere}]
    BY <2>1
  <2> HIDE DEF held, line
  <2>5. ASSUME NEW d \in Terminals
        PROVE  /\ OnceEach(posts[d]) /\ OnceEach(outbox'[d])
               /\ Tokened(posts[d]) \cap Tokened(outbox'[d]) = {}
               /\ Tokened(posts[d]) \cup Tokened(outbox'[d]) = {q \in DOMAIN held : held[q] = d}
    <3>0. d # Nowhere
      BY AskQueueAssumption DEF Nowhere
    <3>1. CASE d = c
      <4>1. {q \in DOMAIN held : held[q] = c} = {}
        BY <2>0, <2>3
      <4> QED
        BY <1>4, <3>1, <4>1, EmptyIs
    <3>2. CASE d # c
      <4>1. {q \in DOMAIN held : held[q] = d} = {q \in DOMAIN asked : asked[q] = d}
        BY <2>3, <3>0, <3>2
      <4> QED
        BY <1>1, <1>4, <3>2, <4>1 DEF Placed
    <3> QED
      BY <3>1, <3>2
  <2>6. Elements(line) = {q \in DOMAIN held : held[q] = Nowhere}
    BY <1>3, <2>0, <2>1, <2>2, <2>3
  <2>7. Placed(held, line, posts, outbox')
    BY <1>5, <2>1, <2>2, <2>3, <2>4, <2>5, <2>6 DEF Placed
  <2>8. /\ Dispatch(consoles', ready, busy, awaitingInput, held, line, posts)
        /\ consoles' \in Seq(Terminals) /\ (DOMAIN asked' = DOMAIN held => QueueTypes')
    BY <1>0, <1>2, <1>6, <1>10, <2>3, SeqWidens, ConsolesAre DEF held, line, posts
  <2> QED
    BY <1>7, <1>8, <2>7, <2>8, DispatchedKeeps
<1> QED
  BY <1>9, <1>10

\* A step of the page, a worker or the player keeps every question in its place.
LEMMA QueueStep ==
  ASSUME QueueInv, QueueNext
  PROVE  QueueInv'
  BY AskKeeps, OpenKeeps, CommandKeeps, TypeLineKeeps, CloseKeeps, ScriptKeeps, BootKeeps,
     StartRunKeeps, CarryOutKeeps, HearReadyKeeps, HearWantInputKeeps, HearDoneKeeps,
     HearAnswerKeeps DEF QueueNext, Worker, Page

\* Nothing is asked and nothing open at first.
LEMMA QueueStart == QueueInit => QueueInv
<1> SUFFICES ASSUME QueueInit PROVE QueueInv
  OBVIOUS
<1> USE DEF QueueInit
<1>1. /\ <<>> \in Seq(Inward) /\ <<>> \in Seq(Outward)
      /\ <<>> \in Seq(Tokens) /\ <<>> \in Seq(opened)
      /\ Elements(<<>>) = {} /\ Distinct(<<>>) /\ OnceEach(<<>>) /\ Tokened(<<>>) = {}
      /\ \A t : None(<<>>, t)
  BY EmptyIs
<1>2. QueueTypes
  <2>1. {q \in Tokens : q < 1} = {}
    BY DEF Tokens
  <2>2. 1 \in 1 .. MaxQuestions + 1
    BY AskQueueAssumption
  <2> QED
    BY <1>1, <2>1, <2>2 DEF QueueTypes
<1>3. Placed(asked, waiting, inbox, outbox)
  BY <1>1 DEF Placed
<1>4. NoneWaitsBesideAFreeOne
  BY DEF NoneWaitsBesideAFreeOne
<1>5. \A c \in Terminals : ConsoleInv(c)
  BY <1>1 DEF ConsoleInv, ClosedInv
<1> QED
  BY <1>2, <1>3, <1>4, <1>5 DEF QueueInv

-----------------------------------------------------------------------------
(* Everything in its place.                                                *)

\* The channel's part of AllInPlace.
LEMMA ChannelIsTyped == ChannelInv => ChannelTypeOK
<1> SUFFICES ASSUME ChannelInv PROVE ChannelTypeOK
  OBVIOUS
<1>1. ASSUME NEW c \in Consoles PROVE Len(port[c]) <= 1
  <2>1. port[c] \in {<<>>, <<"ask">>, <<"more">>}
    BY DEF ChannelInv, ChannelTypes
  <2>2. CASE port[c] = <<>>
    BY <2>2
  <2>3. CASE port[c] = <<"ask">>
    BY <2>3
  <2>4. CASE port[c] = <<"more">>
    BY <2>4
  <2> QED
    BY <2>1, <2>2, <2>3, <2>4
<1> QED
  BY <1>1 DEF ChannelInv, ChannelTypes, ChannelTypeOK

\* The questions' types, and that a closed console has nothing about it left.
LEMMA QueueIsTyped == QueueInv => QueueTypeOK
<1> SUFFICES ASSUME QueueInv PROVE QueueTypeOK
  OBVIOUS
<1>1. ToSet(consoles) = Elements(consoles)
  BY DEF ToSet, Elements
<1>2. DOMAIN asked \subseteq Tokens
  BY DEF QueueInv, Placed
<1>3. \A c \in Terminals : Contains(consoles, c) <=> c \in Elements(consoles)
  BY ConsolesAre, ContainsIs
<1> QED
  BY <1>1, <1>2, <1>3, ConsolesAre DEF QueueTypeOK, QueueInv, QueueTypes, ClosedInv

\* What the inbox has of a question is the question.
LEMMA QuestionsAre ==
  ASSUME QueueInv, NEW c \in Terminals, NEW i \in DOMAIN inbox[c], inbox[c][i].token # 0
  PROVE  inbox[c][i] = Question(inbox[c][i].token)
<1>1. inbox[c][i] \in Inward
  <2>1. inbox[c] \in Seq(Inward)
    BY BoxesAre
  <2> DEFINE box == inbox[c]
  <2> HIDE DEF box, Inward
  <2>2. \A k \in DOMAIN box : box[k] \in Inward
    BY <2>1 DEF box
  <2> QED
    BY <2>2 DEF box
<1>2. \A q : Question(q).token = q
  BY DEF Question
<1> QED
  BY <1>1, <1>2, MessageIs DEF Inward

\* The places a question can be.
LEMMA PlacesAre ==
  ASSUME NEW q
  PROVE  \A y : y \in Places(q) <=>
           \/ \E i \in DOMAIN waiting : waiting[i] = q /\ y = <<"line", i>>
           \/ \E c \in Terminals : \E i \in DOMAIN inbox[c] :
                inbox[c][i] = Question(q) /\ y = <<c, "in", i>>
           \/ \E c \in Terminals : \E i \in DOMAIN outbox[c] :
                outbox[c][i].token = q /\ y = <<c, "out", i>>
<1> DEFINE In(c) == {<<c, "in", i>> : i \in {i \in DOMAIN inbox[c] : inbox[c][i] = Question(q)}}
           Out(c) == {<<c, "out", i>> : i \in {i \in DOMAIN outbox[c] : outbox[c][i].token = q}}
           Line == {<<"line", i>> : i \in {i \in DOMAIN waiting : waiting[i] = q}}
<1>1. Places(q) = Line \cup UNION {In(c) \cup Out(c) : c \in Terminals}
  BY DEF Places
<1>2. \A c, y : y \in In(c) <=>
        \E i \in DOMAIN inbox[c] : inbox[c][i] = Question(q) /\ y = <<c, "in", i>>
  OBVIOUS
<1>3. \A c, y : y \in Out(c) <=>
        \E i \in DOMAIN outbox[c] : outbox[c][i].token = q /\ y = <<c, "out", i>>
  OBVIOUS
<1>4. \A y : y \in Line <=> \E i \in DOMAIN waiting : waiting[i] = q /\ y = <<"line", i>>
  OBVIOUS
<1> HIDE DEF In, Out, Line
<1>5. \A y : y \in Places(q) <=> y \in Line \/ \E c \in Terminals : y \in In(c) \/ y \in Out(c)
  BY <1>1
<1> QED
  BY <1>2, <1>3, <1>4, <1>5

\* A question that is not settled is in one place: in line, or with its console.
LEMMA OnePlace ==
  ASSUME QueueInv, NEW q \in DOMAIN asked
  PROVE  /\ Cardinality(Places(q)) = 1
         /\ asked[q] # Nowhere =>
              Contains(consoles, asked[q])
              /\ q \in Tokened(inbox[asked[q]]) \cup Tokened(outbox[asked[q]])
<1>0. /\ Distinct(waiting) /\ Elements(waiting) = {r \in DOMAIN asked : asked[r] = Nowhere}
      /\ asked[q] \in Terminals \cup {Nowhere} /\ q \in Tokens
      /\ \A c \in Terminals :
            /\ OnceEach(inbox[c]) /\ OnceEach(outbox[c])
            /\ Tokened(inbox[c]) \cap Tokened(outbox[c]) = {}
            /\ Tokened(inbox[c]) \cup Tokened(outbox[c]) = {r \in DOMAIN asked : asked[r] = c}
  BY DEF QueueInv, Placed
<1>1. q # 0
  BY <1>0 DEF Tokens
<1>2. \A c \in Terminals : \A i \in DOMAIN inbox[c] :
        inbox[c][i] = Question(q) => q \in Tokened(inbox[c]) /\ inbox[c][i].token = q
  <2>1. Question(q).token = q
    BY QuestionIs
  <2> QED
    BY <1>1, <2>1 DEF Tokened
<1>3. \A c \in Terminals : \A i \in DOMAIN outbox[c] :
        outbox[c][i].token = q => q \in Tokened(outbox[c])
  BY <1>1 DEF Tokened
<1>4. /\ Cardinality(Places(q)) = 1
      /\ asked[q] # Nowhere =>
           Contains(consoles, asked[q])
           /\ q \in Tokened(inbox[asked[q]]) \cup Tokened(outbox[asked[q]])
  <2>1. CASE asked[q] = Nowhere
    <3>1. PICK i \in DOMAIN waiting : waiting[i] = q
      BY <1>0, <2>1 DEF Elements
    <3>2. \A j \in DOMAIN waiting : waiting[j] = q => j = i
      BY <1>0, <3>1 DEF Distinct
    <3>3. \A c \in Terminals : q \notin Tokened(inbox[c]) /\ q \notin Tokened(outbox[c])
      BY <1>0, <2>1, AskQueueAssumption DEF Nowhere
    <3>4. \A y : y \in Places(q) <=> y = <<"line", i>>
      BY <1>2, <1>3, <3>1, <3>2, <3>3, PlacesAre
    <3>5. Cardinality(Places(q)) = 1
      <4>1. Places(q) = {<<"line", i>>}
        BY <3>4
      <4> QED
        BY <4>1, FS_Singleton
    <3> QED
      BY <2>1, <3>5
  <2>2. ASSUME NEW c \in Terminals, asked[q] = c
        PROVE  /\ Cardinality(Places(q)) = 1
               /\ Contains(consoles, c) /\ q \in Tokened(inbox[c]) \cup Tokened(outbox[c])
    <3>1. \A d \in Terminals : d # c => q \notin Tokened(inbox[d]) /\ q \notin Tokened(outbox[d])
      BY <1>0, <2>2
    <3>2. \A i \in DOMAIN waiting : waiting[i] # q
      BY <1>0, <2>2, AskQueueAssumption DEF Nowhere, Elements
    <3>3. q \in Tokened(inbox[c]) \cup Tokened(outbox[c])
      BY <1>0, <2>2
    <3>4. Contains(consoles, c)
      <4>1. inbox[c] # <<>> \/ outbox[c] # <<>>
        BY <3>3, EmptyIs
      <4> QED
        BY <4>1, OpenIs, ConsolesAre, ContainsIs
    <3>5. CASE q \in Tokened(inbox[c])
      <4>1. PICK i \in DOMAIN inbox[c] : inbox[c][i].token = q
        BY <3>5 DEF Tokened
      <4>2. inbox[c][i] = Question(q)
        BY <1>1, <4>1, QuestionsAre
      <4>3. \A j \in DOMAIN inbox[c] : inbox[c][j] = Question(q) => j = i
        BY <1>0, <1>1, <1>2, <4>1 DEF OnceEach
      <4>4. q \notin Tokened(outbox[c])
        BY <1>0, <3>5
      <4>5. \A y : y \in Places(q) <=> y = <<c, "in", i>>
        BY <1>2, <1>3, <3>1, <3>2, <4>2, <4>3, <4>4, PlacesAre
      <4>6. Cardinality(Places(q)) = 1
        <5>1. Places(q) = {<<c, "in", i>>}
          BY <4>5
        <5> QED
          BY <5>1, FS_Singleton
      <4> QED
        BY <3>3, <3>4, <4>6
    <3>6. CASE q \in Tokened(outbox[c])
      <4>1. PICK i \in DOMAIN outbox[c] : outbox[c][i].token = q
        BY <3>6 DEF Tokened
      <4>2. \A j \in DOMAIN outbox[c] : outbox[c][j].token = q => j = i
        BY <1>0, <1>1, <4>1 DEF OnceEach
      <4>3. q \notin Tokened(inbox[c])
        BY <1>0, <3>6
      <4>4. \A y : y \in Places(q) <=> y = <<c, "out", i>>
        BY <1>2, <1>3, <3>1, <3>2, <4>1, <4>2, <4>3, PlacesAre
      <4>5. Cardinality(Places(q)) = 1
        <5>1. Places(q) = {<<c, "out", i>>}
          BY <4>4
        <5> QED
          BY <5>1, FS_Singleton
      <4> QED
        BY <3>3, <3>4, <4>5
    <3> QED
      BY <3>3, <3>5, <3>6
  <2> QED
    BY <1>0, <2>1, <2>2
<1> QED
  BY <1>4

\* The questions' part of AllInPlace.
LEMMA QueueIsInPlace ==
  ASSUME QueueInv
  PROVE  QueueTypeOK /\ EachInOnePlace /\ NoneWaitsBesideAFreeOne
<1>1. DOMAIN asked = {q \in Tokens : q < nextToken} \ settled
  BY DEF QueueInv, QueueTypes
<1>2. \A q \in DOMAIN asked :
        /\ Cardinality(Places(q)) = 1
        /\ asked[q] # Nowhere =>
             Contains(consoles, asked[q])
             /\ q \in Tokened(inbox[asked[q]]) \cup Tokened(outbox[asked[q]])
  BY OnePlace
<1> QED
  BY <1>1, <1>2, QueueIsTyped DEF EachInOnePlace, QueueInv

-----------------------------------------------------------------------------
(* What ask() promises.                                                    *)

\* What the questions come to, by the mapping.
Shown == [q \in Tokens |-> Phase(q)]
ClosedSoFar == Cardinality(opened) - Len(consoles)

\* A sequence without repetition is as long as it has elements.
LEMMA LenIs ==
  ASSUME NEW S, NEW s \in Seq(S), Distinct(s)
  PROVE  IsFiniteSet(Elements(s)) /\ Cardinality(Elements(s)) = Len(s)
<1> DEFINE n == Len(s)
<1>1. n \in Nat /\ DOMAIN s = 1 .. n /\ s \in [1 .. n -> Elements(s)]
  BY DEF Elements
<1>2. s \in Bijection(1 .. n, Elements(s))
  <2>1. \A i, j \in 1 .. n : s[i] = s[j] => i = j
    BY <1>1 DEF Distinct
  <2>2. \A x \in Elements(s) : \E i \in 1 .. n : s[i] = x
    BY <1>1 DEF Elements
  <2>3. s \in Injection(1 .. n, Elements(s))
    BY <1>1, <2>1 DEF Injection, IsInjective
  <2>4. s \in Surjection(1 .. n, Elements(s))
    BY <1>1, <2>2 DEF Surjection
  <2> QED
    BY <2>3, <2>4 DEF Bijection
<1>3. ExistsBijection(1 .. n, Elements(s))
  BY <1>2 DEF ExistsBijection
<1> QED
  BY <1>1, <1>3, FS_CountingElements, FS_NatBijection

\* What is known of a question that is with a console.
LEMMA QuestionOf ==
  ASSUME QueueInv, NEW c \in Terminals, NEW q \in Tokened(inbox[c]) \cup Tokened(outbox[c])
  PROVE  /\ q \in Tokens /\ q < nextToken /\ q \notin settled
         /\ \A d \in Terminals : d # c => q \notin Tokened(outbox[d])
<1>1. q \in DOMAIN asked /\ asked[q] = c
  BY BoxesAre
<1>2. q \in Tokens /\ q < nextToken /\ q \notin settled
  BY <1>1 DEF QueueInv, QueueTypes
<1>3. \A d \in Terminals : Tokened(outbox[d]) \subseteq {r \in DOMAIN asked : asked[r] = d}
  BY BoxesAre
<1> QED
  BY <1>1, <1>2, <1>3

\* A step that shows of one question only.
LEMMA ShowsQuestion ==
  ASSUME NEW q \in Tokens, \A r \in Tokens : r # q => Phase(r)' = Phase(r)
  PROVE  Shown' = [Shown EXCEPT ![q] = Phase(q)']
  BY DEF Shown

\* A step that shows nothing.
LEMMA ShowsNothing ==
  ASSUME nextToken' = nextToken, settled' = settled, carried' = carried,
         ClosedSoFar' = ClosedSoFar,
         \A d \in Terminals : Tokened(outbox'[d]) = Tokened(outbox[d])
  PROVE  UNCHANGED <<Shown, carried, ClosedSoFar>>
<1>1. \A q \in Tokens : Phase(q)' = Phase(q)
  BY DEF Phase
<1> QED
  BY <1>1 DEF Shown

\* Consoles neither open nor close.
LEMMA ClosedStays ==
  ASSUME consoles' = consoles, opened' = opened
  PROVE  ClosedSoFar' = ClosedSoFar
  BY DEF ClosedSoFar

\* The consoles counted.
LEMMA CountsAre ==
  ASSUME QueueInv
  PROVE  /\ Len(consoles) \in Nat /\ Cardinality(Elements(consoles)) = Len(consoles)
         /\ IsFiniteSet(Elements(consoles)) /\ IsFiniteSet(opened)
         /\ Cardinality(opened) \in Nat /\ Cardinality(Terminals) \in Nat
         /\ Cardinality(opened) <= Cardinality(Terminals)
<1>1. consoles \in Seq(opened) /\ Distinct(consoles) /\ opened \in SUBSET Terminals
  BY DEF QueueInv, QueueTypes
<1>2. IsFiniteSet(Terminals)
  BY AskQueueAssumption
<1>3. IsFiniteSet(opened) /\ Cardinality(opened) <= Cardinality(Terminals)
  BY <1>1, <1>2, FS_Subset
<1>4. Cardinality(opened) \in Nat /\ Cardinality(Terminals) \in Nat
  BY <1>2, <1>3, FS_CardinalityType
<1>5. Len(consoles) \in Nat
  BY <1>1
<1> QED
  BY <1>1, <1>3, <1>4, <1>5, LenIs

\* A window asks.
LEMMA AskShows ==
  ASSUME QueueInv, Ask
  PROVE  Promise!Next
<1>0. PICK q : q = nextToken
  OBVIOUS
<1>1. /\ q \in Tokens /\ nextToken' = q + 1 /\ outbox' = outbox /\ settled' = settled
      /\ carried' = carried /\ consoles' = consoles /\ opened' = opened
  BY <1>0 DEF Ask, page
<1>2. q \notin settled /\ \A d \in Terminals : q \notin Tokened(outbox[d])
  <2>1. q \in Nat /\ ~(q < q)
    BY <1>1 DEF Tokens
  <2>2. q \notin settled
    BY <1>0, <2>1 DEF QueueInv, QueueTypes
  <2> QED
    BY <1>0, <2>1, <2>2, QuestionOf
<1>3. \A r \in Tokens : r # q => (r >= q <=> r >= q + 1)
  BY <1>1 DEF Tokens
<1>4. q >= q /\ ~(q >= q + 1)
  BY <1>1 DEF Tokens
<1>5. Phase(q) = "new" /\ Phase(q)' = "out"
  BY <1>0, <1>1, <1>2, <1>4 DEF Phase
<1>6. \A r \in Tokens : r # q => Phase(r)' = Phase(r)
  BY <1>0, <1>1, <1>3 DEF Phase
<1>7. Shown[q] = "new" /\ Shown' = [Shown EXCEPT ![q] = "out"]
  <2>1. Shown' = [Shown EXCEPT ![q] = Phase(q)']
    BY <1>1, <1>6, ShowsQuestion DEF Shown
  <2> QED
    BY <1>1, <1>5, <2>1 DEF Shown
<1>8. ClosedSoFar' = ClosedSoFar
  BY <1>1, ClosedStays
<1>9. Promise!Ask(q)
  BY <1>1, <1>7, <1>8 DEF Promise!Ask, Shown, ClosedSoFar
<1> QED
  BY <1>1, <1>9 DEF Promise!Next

\* A worker carries a question out.
LEMMA CarryOutShows ==
  ASSUME QueueInv, NEW c \in Terminals, CarryOut(c)
  PROVE  Promise!Next
<1> DEFINE i == inbox[c]
           o == outbox[c]
           b == Append(o, [type |-> "answer", token |-> Head(i).token])
<1>0. PICK q : q = Head(i).token
  OBVIOUS
<1>1. /\ q \in Tokens /\ q \in Tokened(i) /\ q \notin Tokened(o)
      /\ outbox' = [outbox EXCEPT ![c] = b] /\ Tokened(b) = Tokened(o) \cup {q}
  BY <1>0, CarryOutMoves
<1>2. /\ consoles' = consoles /\ opened' = opened /\ nextToken' = nextToken /\ settled' = settled
      /\ carried' = [carried EXCEPT ![q] = @ + 1]
  BY <1>0 DEF CarryOut, page, queue
<1> HIDE DEF b
<1>3. outbox'[c] = b /\ \A d \in Terminals : d # c => outbox'[d] = outbox[d]
  BY <1>1, BoxesAre
<1>4. /\ q < nextToken /\ q \notin settled
      /\ \A d \in Terminals : d # c => q \notin Tokened(outbox[d])
  BY <1>1, QuestionOf
<1>5. ~(q >= nextToken)
  <2>1. q \in Int /\ nextToken \in Int
    BY <1>1 DEF QueueInv, QueueTypes, Tokens
  <2> QED
    BY <1>4, <2>1
<1>6. Phase(q) = "out"
  BY <1>1, <1>4, <1>5 DEF Phase
<1>7. Phase(q)' = "answered"
  <2>1. q \in Tokened(outbox'[c])
    BY <1>1, <1>3
  <2> QED
    BY <1>2, <1>4, <1>5, <2>1 DEF Phase
<1>8. \A r \in Tokens : r # q => Phase(r)' = Phase(r)
  <2>1. \A d \in Terminals, r \in Tokens :
          r # q => (r \in Tokened(outbox'[d]) <=> r \in Tokened(outbox[d]))
    BY <1>1, <1>3
  <2> QED
    BY <1>2, <2>1 DEF Phase
<1>9. Shown[q] = "out" /\ Shown' = [Shown EXCEPT ![q] = "answered"]
  <2>1. Shown' = [Shown EXCEPT ![q] = Phase(q)']
    BY <1>1, <1>8, ShowsQuestion
  <2> QED
    BY <1>1, <1>6, <1>7, <2>1 DEF Shown
<1>10. ClosedSoFar' = ClosedSoFar
  BY <1>2, ClosedStays
<1>11. Promise!CarryOut(q)
  BY <1>2, <1>9, <1>10 DEF Promise!CarryOut, Shown, ClosedSoFar
<1> QED
  BY <1>1, <1>11 DEF Promise!Next

\* The page hears an answer.
LEMMA HearAnswerShows ==
  ASSUME QueueInv, NEW c \in Terminals, HearAnswer(c)
  PROVE  Promise!Next
<1> DEFINE o == outbox[c]
           b == Tail(o)
<1>0. PICK q : q = Head(o).token
  OBVIOUS
<1>1. /\ q \in Tokened(o) /\ outbox' = [outbox EXCEPT ![c] = b] /\ Tokened(b) = Tokened(o) \ {q}
      /\ settled' = settled \cup {q}
  BY <1>0, HearAnswerSettles
<1>2. /\ consoles' = consoles /\ opened' = opened /\ nextToken' = nextToken /\ carried' = carried
  BY DEF HearAnswer, page
<1> HIDE DEF b
<1>3. outbox'[c] = b /\ \A d \in Terminals : d # c => outbox'[d] = outbox[d]
  BY <1>1, BoxesAre
<1>4. q \in Tokens /\ q < nextToken /\ q \notin settled
  BY <1>1, QuestionOf
<1>5. ~(q >= nextToken)
  <2>1. q \in Int /\ nextToken \in Int
    BY <1>4 DEF QueueInv, QueueTypes, Tokens
  <2> QED
    BY <1>4, <2>1
<1>6. Phase(q) = "answered" /\ Phase(q)' = "settled"
  BY <1>1, <1>2, <1>4, <1>5 DEF Phase
<1>7. \A r \in Tokens : r # q => Phase(r)' = Phase(r)
  <2>1. \A d \in Terminals, r \in Tokens :
          r # q => (r \in Tokened(outbox'[d]) <=> r \in Tokened(outbox[d]))
    BY <1>1, <1>3
  <2>2. \A r \in Tokens : r # q => (r \in settled' <=> r \in settled)
    BY <1>1
  <2> QED
    BY <1>2, <2>1, <2>2 DEF Phase
<1>8. Shown[q] = "answered" /\ Shown' = [Shown EXCEPT ![q] = "settled"]
  <2>1. Shown' = [Shown EXCEPT ![q] = Phase(q)']
    BY <1>4, <1>7, ShowsQuestion
  <2> QED
    BY <1>4, <1>6, <2>1 DEF Shown
<1>9. ClosedSoFar' = ClosedSoFar
  BY <1>2, ClosedStays
<1>10. Promise!Settle(q)
  BY <1>2, <1>8, <1>9 DEF Promise!Settle, Shown, ClosedSoFar
<1> QED
  BY <1>4, <1>10 DEF Promise!Next

\* A console closes: the answers it had given are asked for again.
LEMMA CloseShows ==
  ASSUME QueueInv, NEW c \in Terminals, Close(c)
  PROVE  Promise!Next
<1> DEFINE lost == Tokened(outbox[c])
<1>1. /\ Contains(consoles, c) /\ consoles' = Only(ToSet(consoles) \ {c}, consoles)
      /\ outbox' = [outbox EXCEPT ![c] = <<>>] /\ opened' = opened /\ nextToken' = nextToken
      /\ carried' = carried /\ settled' = settled
  BY DEF Close
<1>2. outbox'[c] = <<>> /\ \A d \in Terminals : d # c => outbox'[d] = outbox[d]
  BY <1>1, BoxesAre
<1>3. ClosedSoFar < Cardinality(Terminals) /\ ClosedSoFar' = ClosedSoFar + 1
  <2>0. PICK others : others = consoles'
    OBVIOUS
  <2>1. /\ others \in Seq(opened) /\ Distinct(others)
        /\ Elements(others) = Elements(consoles) \ {c}
    BY <1>1, <2>0, OthersAre
  <2>2. Cardinality(Elements(others)) = Len(others) /\ Len(others) \in Nat
    <3>1. Len(others) \in Nat
      BY <2>1
    <3> QED
      BY <2>1, <3>1, LenIs
  <2>3. c \in Elements(consoles)
    BY <1>1, ConsolesAre, ContainsIs
  <2>4. Len(others) = Len(consoles) - 1
    <3>1. Cardinality(Elements(consoles) \ {c}) = Cardinality(Elements(consoles)) - 1
      BY <2>3, CountsAre, FS_RemoveElement
    <3> QED
      BY <2>1, <2>2, <3>1, CountsAre
  <2> QED
    BY <1>1, <2>0, <2>2, <2>4, CountsAre DEF ClosedSoFar
<1>4. ASSUME NEW q \in lost
      PROVE  q \in Tokens /\ Phase(q) = "answered" /\ Phase(q)' = "out"
  <2>1. /\ q \in Tokens /\ q < nextToken /\ q \notin settled
        /\ \A d \in Terminals : d # c => q \notin Tokened(outbox[d])
    BY QuestionOf
  <2>2. ~(q >= nextToken)
    <3>1. q \in Int /\ nextToken \in Int
      BY <2>1 DEF QueueInv, QueueTypes, Tokens
    <3> QED
      BY <2>1, <3>1
  <2>3. \A d \in Terminals : q \notin Tokened(outbox'[d])
    <3>1. q \notin Tokened(<<>>)
      BY EmptyIs
    <3> QED
      BY <1>2, <2>1, <3>1
  <2>4. Phase(q) = "answered"
    BY <2>1, <2>2 DEF Phase
  <2>5. Phase(q)' = "out"
    BY <1>1, <2>1, <2>2, <2>3 DEF Phase
  <2> QED
    BY <2>1, <2>4, <2>5
<1>5. ASSUME NEW q \in Tokens, q \notin lost PROVE Phase(q)' = Phase(q)
  <2>1. \A d \in Terminals : q \in Tokened(outbox'[d]) <=> q \in Tokened(outbox[d])
    <3>1. q \notin Tokened(<<>>)
      BY EmptyIs
    <3> QED
      BY <1>2, <1>5, <3>1
  <2> QED
    BY <1>1, <2>1 DEF Phase
<1> HIDE DEF lost
<1>6. lost \in SUBSET {q \in Tokens : Shown[q] = "answered"}
  BY <1>4 DEF Shown
<1>7. Shown' = [q \in Tokens |-> IF q \in lost THEN "out" ELSE Shown[q]]
  <2>1. \A q \in Tokens : Phase(q)' = IF q \in lost THEN "out" ELSE Shown[q]
    BY <1>4, <1>5 DEF Shown
  <2> QED
    BY <2>1 DEF Shown
<1>8. Promise!Close
  BY <1>1, <1>3, <1>6, <1>7 DEF Promise!Close, Shown, ClosedSoFar
<1> QED
  BY <1>8 DEF Promise!Next

\* A console opens: one more open, and one more opened.
LEMMA OpenShows ==
  ASSUME QueueInv, NEW c \in Terminals, Open(c)
  PROVE  UNCHANGED <<Shown, carried, ClosedSoFar>>
<1>1. /\ c \notin opened /\ consoles' = Append(consoles, c) /\ opened' = opened \cup {c}
      /\ nextToken' = nextToken /\ settled' = settled /\ carried' = carried /\ outbox' = outbox
  BY DEF Open, queue
<1>2. Len(consoles') = Len(consoles) + 1
  <2>1. consoles \in Seq(Terminals)
    BY ConsolesAre
  <2> QED
    BY <1>1, <2>1
<1>3. Cardinality(opened') = Cardinality(opened) + 1
  BY <1>1, CountsAre, FS_AddElement
<1>4. ClosedSoFar' = ClosedSoFar
  BY <1>2, <1>3, CountsAre DEF ClosedSoFar
<1> QED
  BY <1>1, <1>4, ShowsNothing

\* The rest of it does not show.
LEMMA OthersShow ==
  ASSUME QueueInv, NEW c \in Terminals,
         \/ Command(c) \/ TypeLine(c) \/ Script(c) \/ Boot(c) \/ StartRun(c)
         \/ HearReady(c) \/ HearWantInput(c) \/ HearDone(c)
  PROVE  UNCHANGED <<Shown, carried, ClosedSoFar>>
<1>0. outbox \in [Terminals -> Seq(Outward)] /\ 0 \notin Tokened(outbox[c])
  BY BoxesAre DEF Tokened
<1>1. UNCHANGED <<consoles, opened, nextToken, settled, carried>>
  BY DEF Command, TypeLine, Script, WantInput, EndRun, Boot, StartRun, HearReady, HearWantInput,
         HearDone, page, queue
<1>2. ASSUME NEW d \in Terminals PROVE Tokened(outbox'[d]) = Tokened(outbox[d])
  <2>1. CASE Command(c) \/ TypeLine(c) \/ StartRun(c)
    BY <2>1 DEF Command, TypeLine, StartRun
  <2>2. ASSUME NEW t \in {"ready", "wantInput", "done"}, Say(c, Message(t))
        PROVE  Tokened(outbox'[d]) = Tokened(outbox[d])
    <3> DEFINE b == Append(outbox[c], Message(t))
    <3>1. Tokened(b) = Tokened(outbox[c]) /\ outbox' = [outbox EXCEPT ![c] = b]
      BY <2>2, SayIs DEF Say
    <3> HIDE DEF b
    <3> QED
      BY <1>0, <3>1
  <2>3. ASSUME NEW t \in {"ready", "wantInput", "done"}, Hear(c, t)
        PROVE  Tokened(outbox'[d]) = Tokened(outbox[d])
    <3> DEFINE b == Tail(outbox[c])
               m == Head(outbox[c])
    <3>1. /\ outbox' = [outbox EXCEPT ![c] = b] /\ m \in Outward /\ m.type = t
          /\ Tokened(b) = Tokened(outbox[c]) \ {m.token}
      BY <2>3, HearIs
    <3> HIDE DEF b, m
    <3>2. m.token = 0
      BY <3>1, MessageIs
    <3> QED
      BY <1>0, <3>1, <3>2
  <2>4. Script(c) \/ Boot(c) => \E t \in {"ready", "wantInput", "done"} : Say(c, Message(t))
    BY DEF Script, WantInput, EndRun, Boot
  <2>5. HearReady(c) \/ HearWantInput(c) \/ HearDone(c)
          => \E t \in {"ready", "wantInput", "done"} : Hear(c, t)
    BY DEF HearReady, HearWantInput, HearDone
  <2> QED
    BY <2>1, <2>2, <2>3, <2>4, <2>5
<1>3. ClosedSoFar' = ClosedSoFar
  BY <1>1, ClosedStays
<1> QED
  BY <1>1, <1>2, <1>3, ShowsNothing

\* A step of the questions is a step of the promise, or none.
LEMMA QueueShows ==
  ASSUME QueueInv, [QueueNext]_queueVars
  PROVE  [Promise!Next]_<<Shown, carried, ClosedSoFar>>
<1>1. CASE UNCHANGED queueVars
  <2>1. UNCHANGED <<consoles, opened, nextToken, settled, carried, outbox>>
    BY <1>1 DEF queueVars, page, queue
  <2> QED
    BY <2>1, ClosedStays, ShowsNothing
<1>2. CASE QueueNext
  BY <1>2, AskShows, OpenShows, CloseShows, CarryOutShows, HearAnswerShows, OthersShow
     DEF QueueNext, Worker, Page
<1> QED
  BY <1>1, <1>2

\* Whatever the traffic, the questions make a step of their own or none.
LEMMA QueueSteps == [Next]_vars => [QueueNext]_queueVars
  BY DEF Next, TrafficNext, vars

\* Messages and questions go round as they should: each question is in line, or with the one
\* console it was handed to, before or after it is carried out; each worker has been told of
\* one run while its console is busy, and of none while it is free.
THEOREM QuestionsAreKept == FairSpec => []QueueInv
<1>1. Init => QueueInv
  BY QueueStart DEF Init
<1>2. QueueInv /\ [Next]_vars => QueueInv'
  <2> SUFFICES ASSUME QueueInv, [Next]_vars PROVE QueueInv'
    OBVIOUS
  <2>1. [QueueNext]_queueVars
    BY QueueSteps
  <2>2. CASE UNCHANGED queueVars
    <3>1. UNCHANGED <<consoles, opened, ready, busy, awaitingInput, asked, waiting, nextToken,
                      inbox, outbox, worker, carried, settled>>
      BY <2>2 DEF queueVars, page, queue
    <3>2. QueueTypes' /\ Placed(asked, waiting, inbox, outbox)' /\ NoneWaitsBesideAFreeOne'
      BY <3>1 DEF QueueInv, QueueTypes, NoneWaitsBesideAFreeOne, AnyFree
    <3>3. \A d \in Terminals : ConsoleInv(d)'
      BY <3>1 DEF QueueInv, ConsoleInv
    <3> QED
      BY <3>2, <3>3 DEF QueueInv
  <2> QED
    BY <2>1, <2>2, QueueStep
<1> QED
  BY <1>1, <1>2, PTL DEF FairSpec

\* Messages and answers are where they should be, between the consoles and the filesystem
\* as between the page and the workers: no question is lost or out twice, whatever closes.
THEOREM EverythingInPlace == FairSpec => []AllInPlace
<1>1. ChannelInv /\ QueueInv => AllInPlace
  BY ChannelIsTyped, QueueIsInPlace DEF AllInPlace
<1> QED
  BY <1>1, CallsAreWhole, QuestionsAreKept, PTL

\* What ask() promises a window is kept: a question is carried out, and again only for a
\* console that closed on its answer, and settles once. The queue implements Asking.
THEOREM QuestionsArePromised == FairSpec => AskingSpec
<1>1. Init => Promise!Init
  <2> SUFFICES ASSUME QueueInit PROVE Promise!Init
    BY DEF Init
  <2>1. \A q \in Tokens : Phase(q) = "new"
    <3>1. \A q \in Tokens : q >= 1
      BY DEF Tokens
    <3> QED
      BY <3>1 DEF QueueInit, Phase
  <2>2. Cardinality(opened) - Len(consoles) = 0
    BY FS_EmptySet DEF QueueInit
  <2>3. carried = [q \in Tokens |-> 0]
    BY DEF QueueInit
  <2> QED
    BY <2>1, <2>2, <2>3 DEF Promise!Init
<1>2. QueueInv /\ [Next]_vars => [Promise!Next]_<<Shown, carried, ClosedSoFar>>
  BY QueueSteps, QueueShows
<1>3. [Promise!Next]_<<Shown, carried, ClosedSoFar>> <=> [Promise!Next]_(Promise!vars)
  BY DEF Shown, ClosedSoFar, Promise!vars
<1> QED
  BY <1>1, <1>2, <1>3, QuestionsAreKept, PTL DEF FairSpec, AskingSpec, Promise!Spec
==============================================================================
