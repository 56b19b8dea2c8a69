------------------------------ MODULE FsChannel ------------------------------
(***************************************************************************)
(* The channels between the consoles and the filesystem worker: fsCall and   *)
(* fsRaw in worker.ts, serve, serveRaw, deliver and refuse in fsworker.ts.   *)
(* A console posts a request and parks on the state word of a buffer it      *)
(* shares with the filesystem worker; an answer longer than the buffer comes *)
(* in pieces, each asked for.  The worker serves one message at a time, but  *)
(* a read that has to reach the disk lets other messages in meanwhile.       *)
(* Threads run in parallel: each step is one access to the shared buffer.    *)
(***************************************************************************)
EXTENDS Naturals, SequencesExt

CONSTANTS
    Consoles,
    Sizes,      \* bound: the lengths of answers
    Capacity,   \* FS_ANSWER_CAPACITY
    MaxAsks     \* bound: the calls a console makes

ASSUME ChannelAssumption ==
    /\ Sizes \subseteq Nat /\ Capacity \in Nat \ {0} /\ MaxAsks \in Nat
    /\ "nobody" \notin Consoles

VARIABLES
    \* shared by one console and the filesystem worker
    state, length, bytes,
    port,       \* requests posted and not yet taken
    \* the console
    cpc, asks, more, seen, len, out, value,
    \* the filesystem worker
    up,         \* whether `fs` is there
    reading,    \* consoles whose read is waiting for the disk
    pending,    \* the tail of each console's answer
    job,        \* the answer being stored
    answer      \* observation: the whole answer to the call in progress

shared == <<state, length, bytes, port>>
console == <<cpc, asks, more, seen, len, out, value>>
fsWorker == <<up, reading, pending, job, answer>>
channelVars == <<shared, console, fsWorker>>

-----------------------------------------------------------------------------
\* An answer's bytes say which console's which call they belong to.
Answer(c, n, size) == [i \in 1..size |-> <<c, n, i>>]
Answers == {Answer(c, n, size) : c \in Consoles, n \in 1..MaxAsks, size \in Sizes}

NoAnswer == [kind |-> "none", bytes |-> <<>>]
Refused == [kind |-> "closed", bytes |-> <<>>]
Answered(b) == [kind |-> "bytes", bytes |-> b]

Idle == [to |-> "nobody"]
Delivery(c, payload) == [to |-> c, step |-> "fill", payload |-> payload, fits |-> 0]
Refusal(c) == [to |-> c, step |-> "refuse"]

ChannelInit ==
    /\ state = [c \in Consoles |-> "waiting"] /\ length = [c \in Consoles |-> 0]
    /\ bytes = [c \in Consoles |-> [i \in 1..Capacity |-> <<c, 0, 0>>]]
    /\ port = [c \in Consoles |-> <<>>]
    /\ cpc = [c \in Consoles |-> "idle"] /\ asks = [c \in Consoles |-> 0]
    /\ more = [c \in Consoles |-> FALSE] /\ seen = [c \in Consoles |-> "ready"]
    /\ len = [c \in Consoles |-> 0] /\ out = [c \in Consoles |-> <<>>]
    /\ value = [c \in Consoles |-> NoAnswer]
    /\ up = FALSE /\ reading = {} /\ pending = [c \in Consoles |-> <<>>]
    /\ job = Idle /\ answer = [c \in Consoles |-> NoAnswer]

-----------------------------------------------------------------------------
(* A console.                                                              *)

\* fsCall or fsRaw: store WAITING, before the request goes out.
Call(c) ==
    /\ cpc[c] = "idle" /\ asks[c] < MaxAsks
    /\ asks' = [asks EXCEPT ![c] = @ + 1]
    /\ more' = [more EXCEPT ![c] = FALSE]
    /\ out' = [out EXCEPT ![c] = <<>>]
    /\ state' = [state EXCEPT ![c] = "waiting"]
    /\ cpc' = [cpc EXCEPT ![c] = "post"]
    /\ answer' = [answer EXCEPT ![c] = NoAnswer]
    /\ UNCHANGED <<length, bytes, port, seen, len, value, up, reading, pending, job>>

\* The request, or FS_MORE for the rest of an answer.
Post(c) ==
    /\ cpc[c] = "post"
    /\ port' = [port EXCEPT ![c] = Append(@, IF more[c] THEN "more" ELSE "ask")]
    /\ cpc' = [cpc EXCEPT ![c] = "wait"]
    /\ UNCHANGED <<state, length, bytes, asks, more, seen, len, out, value, fsWorker>>

\* Atomics.wait returns: the call ends here if the filesystem is not there.
Wake(c) ==
    /\ cpc[c] = "wait" /\ state[c] # "waiting"
    /\ seen' = [seen EXCEPT ![c] = state[c]]
    /\ \/ state[c] = "closed"
          /\ value' = [value EXCEPT ![c] = Refused]
          /\ cpc' = [cpc EXCEPT ![c] = "idle"]
       \/ state[c] # "closed"
          /\ cpc' = [cpc EXCEPT ![c] = "length"] /\ UNCHANGED value
    /\ UNCHANGED <<shared, asks, more, len, out, fsWorker>>

LoadLength(c) ==
    /\ cpc[c] = "length"
    /\ len' = [len EXCEPT ![c] = length[c]]
    /\ cpc' = [cpc EXCEPT ![c] = "slice"]
    /\ UNCHANGED <<shared, asks, more, seen, out, value, fsWorker>>

SliceAll(c) == bytes[c]                                 \* mutant: the length ignored
\* fsBytes.slice: the part of the buffer that is this answer's.
Slice(c) == SubSeq(bytes[c], 1, len[c])

\* The piece is added to those before it; the last one ends the call.
Collect(c) ==
    /\ cpc[c] = "slice"
    /\ out' = [out EXCEPT ![c] = @ \o Slice(c)]
    /\ \/ seen[c] = "more" /\ cpc' = [cpc EXCEPT ![c] = "again"] /\ UNCHANGED value
       \/ seen[c] # "more" /\ cpc' = [cpc EXCEPT ![c] = "idle"]
          /\ value' = [value EXCEPT ![c] = Answered(out'[c])]
    /\ UNCHANGED <<shared, asks, more, seen, len, fsWorker>>

\* Round the loop: WAITING again, and FS_MORE after it.
Again(c) ==
    /\ cpc[c] = "again"
    /\ state' = [state EXCEPT ![c] = "waiting"]
    /\ more' = [more EXCEPT ![c] = TRUE]
    /\ cpc' = [cpc EXCEPT ![c] = "post"]
    /\ UNCHANGED <<length, bytes, port, asks, seen, len, out, value, fsWorker>>

\* The terminal is closed and its worker terminated, wherever it was.
Terminate(c) ==
    /\ cpc[c] # "gone"
    /\ cpc' = [cpc EXCEPT ![c] = "gone"]
    /\ UNCHANGED <<shared, asks, more, seen, len, out, value, fsWorker>>

Console(c) == Call(c) \/ Post(c) \/ Wake(c) \/ LoadLength(c) \/ Collect(c) \/ Again(c)
Waiting(c) == Post(c) \/ Wake(c) \/ LoadLength(c) \/ Collect(c) \/ Again(c)

-----------------------------------------------------------------------------
(* The filesystem worker.                                                  *)

\* `start` has opened the filesystem: `fs` is there, and questions are answered
\* from now on, while load still waits for the disk too.  What they are answered
\* is any answer here, so the end of load is no step of the channel.
Start ==
    /\ ~up /\ job = Idle
    /\ up' = TRUE
    /\ UNCHANGED <<shared, console, reading, pending, job, answer>>

\* What serve and serveRaw answer: any answer, chosen here.
Answering(c) == \E size \in Sizes :
    /\ answer' = [answer EXCEPT ![c] = Answered(Answer(c, asks[c], size))]
    /\ job' = Delivery(c, Answer(c, asks[c], size))

\* A message off a console's port: refused, the rest of an answer, a question
\* answered at once, or a read that has to wait for the disk.
Take(c) ==
    /\ job = Idle /\ port[c] # <<>>
    /\ port' = [port EXCEPT ![c] = Tail(@)]
    /\ \/ ~up /\ job' = Refusal(c)
          /\ answer' = [answer EXCEPT ![c] = Refused] /\ UNCHANGED reading
       \/ up /\ Head(port[c]) = "more" /\ job' = Delivery(c, pending[c])
          /\ UNCHANGED <<reading, answer>>
       \/ up /\ Head(port[c]) = "ask" /\ Answering(c) /\ UNCHANGED reading
       \/ up /\ Head(port[c]) = "ask" /\ reading' = reading \cup {c}
          /\ UNCHANGED <<job, answer>>
    /\ UNCHANGED <<state, length, bytes, console, up, pending>>

\* handleRaw's promise resolves.
ReadDone(c) ==
    /\ job = Idle /\ c \in reading
    /\ reading' = reading \ {c}
    /\ Answering(c)
    /\ UNCHANGED <<shared, console, up, pending>>

Smaller(m, n) == IF m < n THEN m ELSE n
NeverFits(fits, payload) == TRUE                        \* mutant: always more to come

\* What deliver leaves for the console to ask for, and whether there is any.
MoreToCome(fits, payload) == fits < Len(payload)
Rest(fits, payload) == SubSeq(payload, fits + 1, Len(payload))

\* deliver: the bytes, over whatever the buffer held.
Fill ==
    /\ job # Idle /\ job.step = "fill"
    /\ LET c == job.to
           fits == Smaller(Len(job.payload), Capacity)
       IN  /\ bytes' = [bytes EXCEPT ![c] =
                 [i \in 1..Capacity |-> IF i <= fits THEN job.payload[i] ELSE @[i]]]
           /\ pending' = [pending EXCEPT ![c] = Rest(fits, job.payload)]
           /\ job' = [job EXCEPT !.step = "length", !.fits = fits]
    /\ UNCHANGED <<state, length, port, console, up, reading, answer>>

StoreLength ==
    /\ job # Idle /\ job.step = "length"
    /\ length' = [length EXCEPT ![job.to] = job.fits]
    /\ job' = [job EXCEPT !.step = "state"]
    /\ UNCHANGED <<state, bytes, port, console, up, reading, pending, answer>>

StoreState ==
    /\ job # Idle /\ job.step = "state"
    /\ state' = [state EXCEPT ![job.to] =
                   IF MoreToCome(job.fits, job.payload) THEN "more" ELSE "ready"]
    /\ job' = Idle
    /\ UNCHANGED <<length, bytes, port, console, up, reading, pending, answer>>

\* refuse: the length, and then the state.
Refuse ==
    /\ job # Idle /\ job.step = "refuse"
    /\ length' = [length EXCEPT ![job.to] = 0]
    /\ job' = [job EXCEPT !.step = "closed"]
    /\ UNCHANGED <<state, bytes, port, console, up, reading, pending, answer>>

StoreClosed ==
    /\ job # Idle /\ job.step = "closed"
    /\ state' = [state EXCEPT ![job.to] = "closed"]
    /\ job' = Idle
    /\ UNCHANGED <<length, bytes, port, console, up, reading, pending, answer>>

\* A closed terminal's port is closed: what is still on it is not heard.
Detach(c) ==
    /\ job = Idle /\ cpc[c] = "gone" /\ port[c] # <<>>
    /\ port' = [port EXCEPT ![c] = <<>>]
    /\ UNCHANGED <<state, length, bytes, console, fsWorker>>

Storing == Fill \/ StoreLength \/ StoreState \/ Refuse \/ StoreClosed
Serving == Start \/ Storing \/ \E c \in Consoles : Take(c) \/ ReadDone(c)

-----------------------------------------------------------------------------
ChannelNext == Serving \/ \E c \in Consoles : Console(c) \/ Terminate(c) \/ Detach(c)

\* A thread that can go on does; the disk answers; each console's messages are
\* taken in turn.
ChannelFair ==
    /\ WF_channelVars(Storing)
    /\ \A c \in Consoles :
         WF_channelVars(Waiting(c)) /\ SF_channelVars(Take(c)) /\ SF_channelVars(ReadDone(c))

-----------------------------------------------------------------------------
(* Properties.                                                             *)

CallSteps == {"idle", "post", "wait", "length", "slice", "again", "gone"}

\* Types of the state words, the consoles' counters and the worker's sets.
ChannelTypeOK ==
    /\ state \in [Consoles -> {"waiting", "ready", "more", "closed"}]
    /\ length \in [Consoles -> 0..Capacity] /\ len \in [Consoles -> 0..Capacity]
    /\ cpc \in [Consoles -> CallSteps] /\ asks \in [Consoles -> 0..MaxAsks]
    /\ more \in [Consoles -> BOOLEAN] /\ up \in BOOLEAN /\ reading \subseteq Consoles
    /\ \A c \in Consoles : Len(port[c]) <= 1

\* The channel is a remote procedure call: what a call returns is the answer
\* to it, whole, in order and nothing else, however it was cut up.
CallPhase(c) == IF cpc[c] \in {"idle", "gone"} THEN cpc[c]
                ELSE IF answer[c] = NoAnswer THEN "asked" ELSE "served"
Rpc == INSTANCE FsRpc WITH
    phase <- [c \in Consoles |-> CallPhase(c)],
    answer <- [c \in Consoles |-> IF cpc[c] = "gone" THEN NoAnswer ELSE answer[c]]
RpcSpec == Rpc!Spec

\* A call returns: nobody is left parked, whoever else is asking, and a read
\* that waits for the disk holds up only its own console.
CallsReturn == \A c \in Consoles : cpc[c] = "wait" ~> cpc[c] \in {"idle", "gone"}
=============================================================================
