------------------------------ MODULE MemoryFs ------------------------------
(***************************************************************************)
(* What the in-game filesystem promises a script: MemoryFs of game/fs.rs,    *)
(* which opfs.ts names as its semantics.  A tree of files and directories;  *)
(* every operation is atomic, and either done or refused with an error that *)
(* leaves the tree alone.  A read that other operations overtake answers    *)
(* with what the file was at some moment while it was being read.           *)
(*                                                                          *)
(* A path is the sequence of its names, folded already; the root is <<>>.   *)
(***************************************************************************)
EXTENDS Naturals, SequencesExt, Functions

CONSTANTS
    Clients,        \* consoles that read
    Requests,       \* what scripts ask to be changed
    Paths,          \* paths read
    InitialTree

VARIABLES
    tree,           \* the files, by path, and the directories
    reply,          \* the last change asked for, which it was, and how it went
    reads,          \* per client: the path, and what it has been since asked
    answers         \* per client: what its last read answered, and its parity

memVars == <<tree, reply, reads, answers>>

-----------------------------------------------------------------------------
Above(p) == {SubSeq(p, 1, n) : n \in 0..(Len(p) - 1)}       \* create_parents
Children(files, dirs, p) ==
    {q \in (DOMAIN files \cup dirs) \ {<<>>} : Front(q) = p}

Put(f, p, v) == [q \in DOMAIN f \cup {p} |-> IF q = p THEN v ELSE f[q]]
Drop(f, p) == Restrict(f, DOMAIN f \ {p})

Done(files, dirs) == [err |-> "ok", tree |-> [files |-> files, dirs |-> dirs]]
Fail(t, err) == [err |-> err, tree |-> t]

Read(t, p) ==
    IF p \in t.dirs THEN [err |-> "isADirectory", bytes |-> <<>>]
    ELSE IF p \notin DOMAIN t.files THEN [err |-> "notFound", bytes |-> <<>>]
    ELSE [err |-> "ok", bytes |-> t.files[p]]

Write(t, p, bytes) ==
    IF p \in t.dirs THEN Fail(t, "isADirectory")
    ELSE Done(Put(t.files, p, bytes), t.dirs \cup Above(p))

AppendTo(t, p, bytes) ==
    LET old == IF p \in DOMAIN t.files THEN t.files[p] ELSE <<>>
    IN  Write(t, p, old \o bytes)

Delete(t, p) ==
    IF p \notin DOMAIN t.files THEN Fail(t, "notFound")
    ELSE Done(Drop(t.files, p), t.dirs)

MakeDir(t, p) ==
    IF p \in DOMAIN t.files \cup t.dirs THEN Fail(t, "alreadyExists")
    ELSE Done(t.files, t.dirs \cup Above(p) \cup {p})

RemoveDir(t, p) ==
    IF p \notin t.dirs THEN Fail(t, "notADirectory")
    ELSE IF Children(t.files, t.dirs, p) # {} THEN Fail(t, "notEmpty")
    ELSE Done(t.files, t.dirs \ {p})

Copy(t, from, to) ==
    LET data == Read(t, from)
    IN  IF data.err # "ok" THEN Fail(t, data.err) ELSE Write(t, to, data.bytes)

\* A copy followed by a delete.
Rename(t, from, to) ==
    LET copied == Copy(t, from, to)
    IN  IF copied.err # "ok" THEN copied ELSE Delete(copied.tree, from)

Apply(t, r) ==
    CASE r.op = "write"     -> Write(t, r.path, r.bytes)
      [] r.op = "append"    -> AppendTo(t, r.path, r.bytes)
      [] r.op = "delete"    -> Delete(t, r.path)
      [] r.op = "makeDir"   -> MakeDir(t, r.path)
      [] r.op = "removeDir" -> RemoveDir(t, r.path)
      [] r.op = "copy"      -> Copy(t, r.path, r.to)
      [] r.op = "rename"    -> Rename(t, r.path, r.to)

-----------------------------------------------------------------------------
NotReading == [path |-> <<>>, seen |-> {}]
NoAnswer == [err |-> "none", bytes |-> <<>>, turn |-> 0]
NothingAsked == [op |-> "none", path |-> <<>>, to |-> <<>>, bytes |-> <<>>]

Outcome(err) == IF err = "ok" THEN "ok" ELSE "failed"
Seen(data) == [err |-> Outcome(data.err), bytes |-> data.bytes]

Init ==
    /\ tree = InitialTree
    /\ reply = [number |-> 0, asked |-> NothingAsked, err |-> "ok"]
    /\ reads = [c \in Clients |-> NotReading]
    /\ answers = [c \in Clients |-> NoAnswer]

\* A file made anew is empty before it holds anything.
Fresh(before, after, p) ==
    IF p \in DOMAIN after.files \ DOMAIN before.files
      THEN {Seen([err |-> "ok", bytes |-> <<>>])} ELSE {}

\* A change is asked for: every read under way may see what comes of it.
Change(before, r) ==
    LET done == Apply(before, r)
    IN  /\ reply' = [number |-> reply.number + 1, asked |-> r, err |-> Outcome(done.err)]
        /\ tree' = done.tree
        /\ reads' = [c \in Clients |->
             IF reads[c] = NotReading THEN NotReading
             ELSE [reads[c] EXCEPT !.seen = @ \cup Fresh(before, done.tree, reads[c].path)
                                              \cup {Seen(Read(done.tree, reads[c].path))}]]
        /\ UNCHANGED answers

Answer(c, data) ==
    answers' = [answers EXCEPT ![c] =
                 [err |-> data.err, bytes |-> data.bytes, turn |-> 1 - @.turn]]

\* A read answered at once, and one that takes its time.
ReadNow(c, p) ==
    /\ reads[c] = NotReading
    /\ Answer(c, Seen(Read(tree, p)))
    /\ UNCHANGED <<tree, reply, reads>>

BeginRead(c, p) ==
    /\ reads[c] = NotReading
    /\ reads' = [reads EXCEPT ![c] = [path |-> p, seen |-> {Seen(Read(tree, p))}]]
    /\ UNCHANGED <<tree, reply, answers>>

EndRead(c) ==
    /\ reads[c] # NotReading
    /\ \E data \in reads[c].seen : Answer(c, data)
    /\ reads' = [reads EXCEPT ![c] = NotReading]
    /\ UNCHANGED <<tree, reply>>

Next ==
    \/ LET before == tree IN \E r \in Requests : Change(before, r)
    \/ \E c \in Clients : EndRead(c) \/ \E p \in Paths : ReadNow(c, p) \/ BeginRead(c, p)

Spec == Init /\ [][Next]_memVars
=============================================================================
