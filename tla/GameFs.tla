------------------------------- MODULE GameFs -------------------------------
(***************************************************************************)
(* The player's filesystem (opfs.ts, GameFs) in the filesystem worker        *)
(* (fsworker.ts).                                                           *)
(*                                                                          *)
(* The tree of names and sizes is in memory and answers at once; contents    *)
(* follow to disk through one queue, in order, and a read waits for the      *)
(* queue.  A drop from the page writes to disk beside the queue.  The worker *)
(* is an event loop: an action is one handler up to its next await.          *)
(*                                                                          *)
(* A path is the sequence of its folded names; the root is <<>>.             *)
(***************************************************************************)
EXTENDS Naturals, SequencesExt, FiniteSetsExt, Functions, Ordering

CONSTANTS
    Files,          \* paths scripts use for files
    Folders,        \* paths scripts make and remove as directories
    Pairs,          \* the <<from, to>> of copies and renames
    Shipped,        \* paths of the client's own files
    Drops,          \* paths files are dropped on
    Values,         \* contents written
    Clients,        \* consoles that read
    MaxChanges,     \* bound: changes asked for
    MaxCrashes,     \* bound: reloads
    MaxDrops,       \* bound: files dropped
    PageOpen,       \* whether a page takes the messages
    Browsers        \* browsers the game may find: with OPFS, with `move` there

ASSUME GameFsAssumption ==
    /\ MaxChanges \in Nat /\ MaxCrashes \in Nat /\ MaxDrops \in Nat
    /\ PageOpen \in BOOLEAN /\ Browsers \subseteq [opfs : BOOLEAN, move : BOOLEAN]

\* A path is the sequence of its names, and none of these is the root.
ASSUME PathsAssumption ==
    /\ Files \cup Folders \cup Shipped \cup Drops \subseteq Seq(STRING) \ {<<>>}
    /\ Pairs \subseteq Files \X Files

VARIABLES
    nodes,      \* every file, and how many bytes it holds
    dirs,
    held,       \* contents kept in memory: `shipped`, and `loose` without OPFS
    chain,      \* the changes queued for disk
    disk,       \* OPFS
    reads,      \* reads waiting for the queue: the path and how much is ahead
    drop,       \* the drop being written
    changes,    \* reported by the next announce
    reply,      \* how the last change asked for went
    answers,    \* what each client's last read answered, and its parity
    loads,      \* questions for the whole tree on their way from the page
    mail,       \* messages on their way to the page
    done,       \* changes, crashes and drops so far, and the last change asked for
    browser,    \* the one of Browsers the game runs in
    past        \* observation: what the player's files have been since loading

treeVars == <<nodes, dirs, held>>
diskVars == <<chain, disk>>
pageVars == <<changes, loads, mail>>
vars == <<treeVars, diskVars, reads, drop, reply, answers, pageVars, done, browser, past>>

\* init() finds navigator.storage, or not; GameFs.rename finds `move`, or not.
Persistent == browser.opfs
HasMove == browser.move

-----------------------------------------------------------------------------
(* Trees.                                                                  *)

Above(p) == {SubSeq(p, 1, n) : n \in 0..(Len(p) - 1)}
Put(f, p, v) == [q \in DOMAIN f \cup {p} |-> IF q = p THEN v ELSE f[q]]
Drop(f, p) == Restrict(f, DOMAIN f \ {p})
Children(names, p) == {q \in names \ {<<>>} : Front(q) = p}

(* OPFS, and what one queued change does to it.                            *)

\* Bytes put at an offset: what is beyond them stays, a gap is zeros.
Splice(old, at, bytes) ==
    [i \in 1..Max({Len(old), at + Len(bytes)}) |->
        IF i > at /\ i <= at + Len(bytes) THEN bytes[i - at]
        ELSE IF i <= Len(old) THEN old[i] ELSE "zero"]

\* fileHandle(create) finds a file where a directory should be, or a directory
\* where the file should be.
Blocked(d, p) == p \in d.dirs \/ Above(p) \cap DOMAIN d.files # {}

WriteDisk(d, p, bytes) ==
    IF Blocked(d, p) THEN d
    ELSE [files |-> Put(d.files, p, bytes), dirs |-> d.dirs \cup Above(p)]

RemoveDisk(d, p) ==
    IF p \in DOMAIN d.files THEN [d EXCEPT !.files = Drop(@, p)]
    ELSE IF Children(DOMAIN d.files \cup d.dirs, p) = {} THEN [d EXCEPT !.dirs = @ \ {p}]
    ELSE d

Entry(op, path, to, bytes, at) ==
    [op |-> op, path |-> path, to |-> to, bytes |-> bytes, at |-> at, made |-> FALSE]
Plain(op, path) == Entry(op, path, path, <<>>, 0)
Making(e) == [e EXCEPT !.made = TRUE]

MakeDirs(d, p) ==
    IF Above(p) \cap DOMAIN d.files # {} THEN d ELSE [d EXCEPT !.dirs = @ \cup Above(p)]

ApplyEntry(d, e) ==
    CASE e.op = "write"  -> WriteDisk(d, e.to, e.bytes)
      [] e.op = "append" ->
           LET old == IF e.to \in DOMAIN d.files THEN d.files[e.to] ELSE <<>>
           IN  WriteDisk(d, e.to, Splice(old, e.at, e.bytes))
      [] e.op = "remove" -> RemoveDisk(d, e.path)
      [] e.op = "makeDir" ->
           IF Blocked(d, e.path) \/ e.path \in DOMAIN d.files THEN d
           ELSE [d EXCEPT !.dirs = @ \cup Above(e.path) \cup {e.path}]
      [] e.op = "copy" ->
           IF e.path \in DOMAIN d.files THEN WriteDisk(d, e.to, d.files[e.path])
           ELSE MakeDirs(d, e.to)
      [] e.op = "rename" ->
           IF e.path \notin DOMAIN d.files \/ Blocked(d, e.to) THEN MakeDirs(d, e.to)
           ELSE IF HasMove /\ e.path = e.to THEN d
           ELSE RemoveDisk(WriteDisk(d, e.to, d.files[e.path]), e.path)

\* The disk once everything queued is on it.
Settled(d, queue) ==
    LET after[n \in 0..Len(queue)] ==
          IF n = 0 THEN d ELSE ApplyEntry(after[n - 1], queue[n])
    IN  after[Len(queue)]

-----------------------------------------------------------------------------
NotReading == [path |-> <<>>, ahead |-> 0, seen |-> {}]
NoAnswer == [err |-> "none", bytes |-> <<>>, turn |-> 0]
NothingAsked == [op |-> "none", path |-> <<>>, to |-> <<>>, bytes |-> <<>>]
NoDrop == [step |-> "none"]
ShippedBytes == <<"shipped">>
Nothing == [p \in {} |-> <<>>]

\* load: the client's files, then what is on disk, which wins.
Loaded(d) ==
    LET names == Shipped \cup DOMAIN d.files
    IN  /\ held' = [p \in Shipped \ DOMAIN d.files |-> ShippedBytes]
        /\ nodes' = [p \in names |-> IF p \in DOMAIN d.files THEN Len(d.files[p])
                                     ELSE Len(ShippedBytes)]
        /\ dirs' = {<<>>} \cup d.dirs \cup UNION {Above(p) : p \in names}

Init ==
    /\ disk = [files |-> Nothing, dirs |-> {<<>>}]
    /\ held = [p \in Shipped |-> ShippedBytes]
    /\ nodes = [p \in Shipped |-> Len(ShippedBytes)]
    /\ dirs = {<<>>} \cup UNION {Above(p) : p \in Shipped}
    /\ chain = <<>> /\ reads = [c \in Clients |-> NotReading] /\ drop = NoDrop
    /\ changes = <<>> /\ reply = "ok" /\ answers = [c \in Clients |-> NoAnswer]
    /\ loads = 0 /\ mail = <<>>
    /\ done = [changes |-> 0, crashes |-> 0, drops |-> 0, asked |-> NothingAsked]
    /\ past = {Nothing} /\ browser \in Browsers

-----------------------------------------------------------------------------
(* What a change reports, and what it leaves to be done.                   *)

FileReport(p, size) == [op |-> "file", path |-> p, size |-> size]
GoneReport(p) == [op |-> "gone", path |-> p, size |-> 0]
DirReport(p) == [op |-> "dir", path |-> p, size |-> 0]

\* makeParents: the directories above a path that are new, outermost first.
NewParents(p) ==
    LET new == InOrder({n \in 0..(Len(p) - 1) : SubSeq(p, 1, n) \notin dirs})
    IN  [i \in DOMAIN new |-> DirReport(SubSeq(p, 1, new[i]))]

\* announce: everything not yet reported goes to the page in one message.
Announce(reports) ==
    /\ changes' = <<>>
    /\ mail' = IF ~PageOpen \/ changes \o reports = <<>> THEN mail
               ELSE Append(mail, [type |-> "changed", changes |-> changes \o reports])

EnqueueNext(entry) ==                                   \* mutant: ahead of what waits
    chain' = IF ~Persistent THEN chain
             ELSE IF chain = <<>> \/ ~Head(chain).made THEN <<entry>> \o chain
             ELSE <<Head(chain), entry>> \o Tail(chain)

Enqueue(entry) == chain' = IF Persistent THEN Append(chain, entry) ELSE chain

\* store: the path stops being the client's.
Store(p, bytes) ==
    IF Persistent
      THEN /\ held' = Drop(held, p)
           /\ Enqueue(Entry("write", p, p, bytes, 0))
      ELSE held' = Put(held, p, bytes) /\ chain' = chain

\* The tree as the player would read it with everything settled.
Contents(h, d, p) ==
    IF p \in DOMAIN h THEN h[p]
    ELSE IF p \in DOMAIN d.files THEN d.files[p] ELSE <<"lost">>

View == LET d == Settled(disk, chain)
        IN  [files |-> [p \in DOMAIN nodes |-> Contents(held, d, p)], dirs |-> dirs]

ReadView(t, p) == IF p \in DOMAIN t.files /\ p \notin t.dirs
                    THEN [err |-> "ok", bytes |-> t.files[p]]
                    ELSE [err |-> "failed", bytes |-> <<>>]

Fresh(p) == IF p \in DOMAIN nodes' \ DOMAIN nodes
              THEN {[err |-> "ok", bytes |-> <<>>]} ELSE {}

\* Observation, and the counters.
Noted(asked) ==
    /\ UNCHANGED <<disk, drop, answers, loads, browser>>
    /\ reads' = [c \in Clients |-> IF reads[c] = NotReading THEN NotReading
                  ELSE [reads[c] EXCEPT !.seen = @ \cup Fresh(reads[c].path)
                                                   \cup {ReadView(View', reads[c].path)}]]
    /\ past' = past \cup {Settled(disk, chain').files}
    /\ done' = [done EXCEPT !.changes = @ + 1, !.asked = asked]

Request(op, path, to, bytes) == [op |-> op, path |-> path, to |-> to, bytes |-> bytes]

Asked == done.changes < MaxChanges

Refused ==
    /\ reply' = "failed"
    /\ Announce(<<>>)
    /\ UNCHANGED <<treeVars, chain>>

\* The change was made, and the page hears of it.
Made(reports) == reply' = "ok" /\ Announce(reports)

-----------------------------------------------------------------------------
(* What a console asks to be changed.                                      *)

WriteTo(p, bytes) ==
    /\ nodes' = Put(nodes, p, Len(bytes))
    /\ dirs' = dirs \cup Above(p)
    /\ Store(p, bytes)
    /\ Made(NewParents(p) \o <<FileReport(p, Len(bytes))>>)

Write(p, v) ==
    /\ Asked
    /\ \/ p \in dirs /\ Refused
       \/ p \notin dirs /\ WriteTo(p, <<v>>)
    /\ Noted(Request("write", p, <<>>, <<v>>))

AppendStale(p, v) ==                                    \* mutant: the offset read from disk
    /\ Asked /\ p \notin dirs
    /\ nodes' = Put(nodes, p, (IF p \in DOMAIN nodes THEN nodes[p] ELSE 0) + 1)
    /\ dirs' = dirs \cup Above(p)
    /\ Enqueue(Entry("append", p, p, <<v>>,
                 IF p \in DOMAIN disk.files THEN Len(disk.files[p]) ELSE 0))
    /\ Made(NewParents(p)) /\ UNCHANGED held
    /\ Noted(Request("append", p, <<>>, <<v>>))

\* append: in memory where the contents are held there, else at the offset
\* the tree knows.
AppendAt(p, v) ==
    LET at == IF p \in DOMAIN nodes THEN nodes[p] ELSE 0
    IN  /\ nodes' = Put(nodes, p, at + 1)
        /\ dirs' = dirs \cup Above(p) /\ UNCHANGED held
        /\ Enqueue(Entry("append", p, p, <<v>>, at))
        /\ Made(NewParents(p) \o <<FileReport(p, at + 1)>>)

AppendTo(p, v) ==
    /\ Asked
    /\ \/ p \in dirs /\ Refused
       \/ /\ p \notin dirs /\ (p \in DOMAIN held \/ ~Persistent)
          /\ WriteTo(p, (IF p \in DOMAIN held THEN held[p] ELSE <<>>) \o <<v>>)
       \/ p \notin dirs /\ p \notin DOMAIN held /\ Persistent /\ AppendAt(p, v)
    /\ Noted(Request("append", p, <<>>, <<v>>))

TakeOut(p) ==
    /\ nodes' = Drop(nodes, p) /\ held' = Drop(held, p) /\ UNCHANGED dirs
    /\ Enqueue(Plain("remove", p))
    /\ Made(<<GoneReport(p)>>)

Delete(p) ==
    /\ Asked
    /\ \/ p \notin DOMAIN nodes /\ Refused
       \/ p \in DOMAIN nodes /\ TakeOut(p)
    /\ Noted(Request("delete", p, <<>>, <<>>))

PutDir(p) ==
    /\ dirs' = dirs \cup Above(p) \cup {p} /\ UNCHANGED <<nodes, held>>
    /\ Enqueue(Plain("makeDir", p))
    /\ Made(NewParents(p) \o <<DirReport(p)>>)

MakeDir(p) ==
    /\ Asked
    /\ \/ p \in DOMAIN nodes \cup dirs /\ Refused
       \/ p \notin DOMAIN nodes \cup dirs /\ PutDir(p)
    /\ Noted(Request("makeDir", p, <<>>, <<>>))

TakeDir(p) ==
    /\ dirs' = dirs \ {p} /\ UNCHANGED <<nodes, held>>
    /\ Enqueue(Plain("remove", p))
    /\ Made(<<GoneReport(p)>>)

RemoveDir(p) ==
    /\ Asked
    /\ \/ p \notin dirs /\ Refused
       \/ p \in dirs /\ Children(DOMAIN nodes \cup dirs, p) # {} /\ Refused
       \/ p \in dirs /\ Children(DOMAIN nodes \cup dirs, p) = {} /\ TakeDir(p)
    /\ Noted(Request("removeDir", p, <<>>, <<>>))

\* copy: held contents are written, others are copied on disk.
CopyTo(from, to) ==
    /\ nodes' = Put(nodes, to, nodes[from])
    /\ dirs' = dirs \cup Above(to)
    /\ IF from \in DOMAIN held THEN Store(to, held[from])
       ELSE Enqueue(Entry("copy", from, to, <<>>, 0)) /\ UNCHANGED held
    /\ Made(NewParents(to) \o <<FileReport(to, nodes[from])>>)

Copy(from, to) ==
    /\ Asked
    /\ \/ from \notin DOMAIN nodes /\ Refused
       \/ from \in DOMAIN nodes /\ to \in dirs /\ Refused
       \/ from \in DOMAIN nodes /\ to \notin dirs /\ CopyTo(from, to)
    /\ Noted(Request("copy", from, to, <<>>))

\* rename: the same, moved; note() finds nothing to report of a file moved
\* onto itself.
MoveTo(from, to) ==
    /\ nodes' = Drop(Put(nodes, to, nodes[from]), from)
    /\ dirs' = dirs \cup Above(to)
    /\ IF from \in DOMAIN held
       THEN /\ held' = Drop(IF Persistent THEN Drop(held, to) ELSE Put(held, to, held[from]), from)
            /\ Enqueue(Entry("write", to, to, held[from], 0))
       ELSE Enqueue(Entry("rename", from, to, <<>>, 0)) /\ UNCHANGED held
    /\ Made(NewParents(to) \o (IF from = to THEN <<>> ELSE <<FileReport(to, nodes[from])>>)
            \o <<GoneReport(from)>>)

Rename(from, to) ==
    /\ Asked
    /\ \/ from \notin DOMAIN nodes /\ Refused
       \/ from \in DOMAIN nodes /\ to \in dirs /\ Refused
       \/ from \in DOMAIN nodes /\ to \notin dirs /\ MoveTo(from, to)
    /\ Noted(Request("rename", from, to, <<>>))

-----------------------------------------------------------------------------
(* Reads.                                                                  *)

StillTheSame == UNCHANGED <<treeVars, diskVars, drop, reply, pageVars, done, browser, past>>

Answer(c, data) ==
    answers' = [answers EXCEPT ![c] =
                 [err |-> data.err, bytes |-> data.bytes, turn |-> 1 - @.turn]]

\* Refused, or held in memory: answered at once.
ReadNow(c, p) ==
    /\ reads[c] = NotReading
    /\ p \in dirs \/ p \notin DOMAIN nodes \/ p \in DOMAIN held
    /\ Answer(c, IF p \notin dirs /\ p \in DOMAIN nodes THEN [err |-> "ok", bytes |-> held[p]]
                 ELSE [err |-> "failed", bytes |-> <<>>])
    /\ StillTheSame /\ UNCHANGED reads

ReadUnsettled(c, p) ==                                  \* mutant: the queue not waited for
    /\ reads[c] = NotReading
    /\ p \notin dirs /\ p \in DOMAIN nodes \ DOMAIN held
    /\ reads' = [reads EXCEPT ![c] = [path |-> p, ahead |-> 0, seen |-> {ReadView(View, p)}]]
    /\ StillTheSame /\ UNCHANGED answers

\* On disk: what is queued now has to be written first.
BeginRead(c, p) ==
    /\ reads[c] = NotReading
    /\ p \notin dirs /\ p \in DOMAIN nodes \ DOMAIN held
    /\ reads' = [reads EXCEPT ![c] =
                   [path |-> p, ahead |-> Len(chain), seen |-> {ReadView(View, p)}]]
    /\ StillTheSame /\ UNCHANGED answers

EndRead(c) ==
    /\ reads[c] # NotReading /\ reads[c].ahead = 0
    /\ Answer(c, ReadView(disk, reads[c].path))
    /\ reads' = [reads EXCEPT ![c] = NotReading]
    /\ StillTheSame

-----------------------------------------------------------------------------
(* The queue, one step on disk at a time.                                  *)

\* getFileHandle(create) leaves an empty file, which the writable it opens
\* replaces when it closes.
Creates(e) ==
    /\ e.op \in {"write", "append", "copy", "rename"} /\ ~e.made
    /\ e.op \in {"copy", "rename"} => e.path \in DOMAIN disk.files
    /\ e.op = "rename" => ~HasMove
    /\ ~Blocked(disk, e.to) /\ e.to \notin DOMAIN disk.files

QueueKept == UNCHANGED <<treeVars, drop, reply, answers, pageVars, done, browser, past>>

MakeFile ==
    /\ chain # <<>> /\ Creates(Head(chain))
    /\ disk' = WriteDisk(disk, Head(chain).to, <<>>)
    /\ chain' = [chain EXCEPT ![1] = Making(@)]
    /\ QueueKept /\ UNCHANGED reads

\* Without `move` a rename is written first, and removed after.
Splits(e) == e.op = "rename" /\ ~HasMove /\ e.path \in DOMAIN disk.files /\ ~Blocked(disk, e.to)

CommitFirst ==
    /\ chain # <<>> /\ ~Creates(Head(chain)) /\ Splits(Head(chain))
    /\ disk' = WriteDisk(disk, Head(chain).to, disk.files[Head(chain).path])
    /\ chain' = [chain EXCEPT ![1] = Plain("remove", Head(chain).path)]
    /\ QueueKept /\ UNCHANGED reads

Commit ==
    /\ chain # <<>> /\ ~Creates(Head(chain)) /\ ~Splits(Head(chain))
    /\ disk' = ApplyEntry(disk, Head(chain))
    /\ chain' = Tail(chain)
    /\ reads' = [c \in Clients |->
         IF reads[c].ahead = 0 THEN reads[c] ELSE [reads[c] EXCEPT !.ahead = @ - 1]]
    /\ QueueKept

-----------------------------------------------------------------------------
(* putFile: a file dropped on the page, written beside the queue.          *)

Beside == UNCHANGED <<chain, reads, reply, answers, loads, browser, past>>

DropStart(p, v) ==
    /\ drop = NoDrop /\ done.drops < MaxDrops /\ p \notin dirs
    /\ done' = [done EXCEPT !.drops = @ + 1]
    /\ dirs' = dirs \cup Above(p)
    /\ changes' = changes \o NewParents(p)
    /\ held' = Drop(held, p)
    /\ drop' = [step |-> "create", path |-> p, bytes |-> <<v>>]
    /\ Beside /\ UNCHANGED <<nodes, disk, mail>>

DropCreate ==
    /\ drop.step = "create"
    /\ \/ /\ ~Persistent
          /\ held' = Put(held, drop.path, drop.bytes)
          /\ drop' = [drop EXCEPT !.step = "finish"]
          /\ UNCHANGED disk
       \/ /\ Persistent /\ ~Blocked(disk, drop.path)
          /\ disk' = IF drop.path \in DOMAIN disk.files THEN disk
                     ELSE WriteDisk(disk, drop.path, <<>>)
          /\ drop' = [drop EXCEPT !.step = "write"]
          /\ UNCHANGED held
       \/ /\ Persistent /\ Blocked(disk, drop.path)
          /\ disk' = MakeDirs(disk, drop.path)
          /\ drop' = NoDrop
          /\ UNCHANGED held
    /\ Beside /\ UNCHANGED <<nodes, dirs, changes, mail, done>>

\* The bytes are written, or there is no room for them.
DropWrite ==
    /\ drop.step = "write"
    /\ \/ /\ disk' = WriteDisk(disk, drop.path, drop.bytes)
          /\ drop' = [drop EXCEPT !.step = "finish"]
       \/ drop' = NoDrop /\ UNCHANGED disk
    /\ Beside /\ UNCHANGED <<treeVars, changes, mail, done>>

DropFinish ==
    /\ drop.step = "finish"
    /\ nodes' = Put(nodes, drop.path, Len(drop.bytes))
    /\ Announce(<<FileReport(drop.path, Len(drop.bytes))>>)
    /\ drop' = NoDrop
    /\ Beside /\ UNCHANGED <<dirs, held, disk, done>>

-----------------------------------------------------------------------------
\* The whole tree, for the panel.
ListTree ==
    /\ loads > 0
    /\ loads' = loads - 1
    /\ mail' = (mail \o <<[type |-> "answer", files |-> nodes, dirs |-> dirs]>>)
              \o (IF changes = <<>> THEN <<>> ELSE <<[type |-> "changed", changes |-> changes]>>)
    /\ changes' = <<>>
    /\ UNCHANGED <<treeVars, diskVars, reads, drop, reply, answers, done, browser, past>>

\* The tab is reloaded, or the browser goes: what is queued is lost.
Crash ==
    /\ done.crashes < MaxCrashes
    /\ done' = [done EXCEPT !.crashes = @ + 1]
    /\ Loaded(disk)
    /\ chain' = <<>> /\ reads' = [c \in Clients |-> NotReading] /\ drop' = NoDrop
    /\ changes' = <<>> /\ loads' = 0 /\ mail' = <<>> /\ reply' = "ok"
    /\ answers' = [c \in Clients |-> NoAnswer]
    /\ past' = {disk.files}
    /\ UNCHANGED <<disk, browser>>

Changing ==
    \/ \E p \in Files, v \in Values : Write(p, v) \/ AppendTo(p, v)
    \/ \E p \in Files : Delete(p)
    \/ \E p \in Folders : MakeDir(p) \/ RemoveDir(p)
    \/ \E pair \in Pairs : Copy(pair[1], pair[2]) \/ Rename(pair[1], pair[2])

Reading == \E c \in Clients : EndRead(c) \/ \E p \in Files : ReadNow(c, p) \/ BeginRead(c, p)

Scripts == Changing \/ Reading

Dropping ==
    (\E p \in Drops, v \in Values : DropStart(p, v)) \/ DropCreate \/ DropWrite \/ DropFinish

\* What scripts do and the queue behind them, between two reloads.  Drops, the
\* panel's questions and reloads are added in FilePanel, where there is a page.
Next == Scripts \/ MakeFile \/ CommitFirst \/ Commit

Spec == Init /\ [][Next]_vars
-----------------------------------------------------------------------------
(* Properties.                                                             *)

\* What the properties ask of the names: no file has a name below another
\* file's (the tree takes one that the disk cannot hold), none is copied or moved
\* to itself, and none onto one of the client's own.
NamesApart ==
    /\ \A p \in Files \cup Shipped \cup Drops, q \in Files \cup Folders \cup Shipped \cup Drops :
           p \notin Above(q)
    /\ \A pair \in Pairs : pair[1] # pair[2]
ShippedApart == \A pair \in Pairs : pair[2] \notin Shipped

IsBytes(s) == Len(s) <= MaxChanges + 1 /\ Range(s) \subseteq Values \cup {"shipped", "zero", "lost"}
IsFileMap(f) == \A p \in DOMAIN f : IsBytes(f[p])

\* Type: what every variable holds.
TypeOK ==
    /\ IsFileMap(held) /\ IsFileMap(disk.files) /\ \A f \in past : IsFileMap(f)
    /\ \A p \in DOMAIN nodes : nodes[p] \in 0..(MaxChanges + 1)
    /\ DOMAIN held \subseteq DOMAIN nodes \cup Drops
    /\ <<>> \in dirs /\ <<>> \in disk.dirs
    /\ \A i \in DOMAIN chain :
           chain[i].op \in {"write", "append", "remove", "makeDir", "copy", "rename"}
    /\ \A i \in DOMAIN chain : IsBytes(chain[i].bytes) /\ (chain[i].made => i = 1)
    /\ \A c \in Clients : reads[c].ahead \in 0..Len(chain)
    /\ drop.step \in {"none", "create", "write", "finish"}
    /\ reply \in {"ok", "failed"} /\ loads \in Nat
    /\ done.changes \in 0..MaxChanges /\ done.crashes \in 0..MaxCrashes
    /\ done.drops \in 0..MaxDrops

\* From one reload to the next a script sees MemoryFs: every change is refused or done exactly
\* as there, and a read answers what the file was at some moment since it was asked,
\* although the contents reach the disk later and a read waits for them
\* (opfs.ts: "The semantics here are MemoryFs's").
Mem == INSTANCE MemoryFs WITH
    Requests <- [op : {"write", "append"}, path : Files, to : {<<>>},
                 bytes : {<<v>> : v \in Values}]
           \cup [op : {"delete"}, path : Files, to : {<<>>}, bytes : {<<>>}]
           \cup [op : {"makeDir", "removeDir"}, path : Folders, to : {<<>>}, bytes : {<<>>}]
           \cup {Request(op, pair[1], pair[2], <<>>) :
                    op \in {"copy", "rename"}, pair \in Pairs},
    Paths <- Files,
    InitialTree <- [files |-> [p \in Shipped |-> ShippedBytes],
                    dirs |-> {<<>>} \cup UNION {Above(p) : p \in Shipped}],
    tree <- View,
    reply <- [number |-> done.changes, asked |-> done.asked, err |-> reply],
    reads <- [c \in Clients |-> [path |-> reads[c].path, seen |-> reads[c].seen]]
MemSpec == Mem!Spec

\* The size the tree gives for a file is how much a read of it will find, at
\* every moment (append writes at the offset the tree names).
SizesAgree == LET files == View.files IN \A p \in DOMAIN nodes : Len(files[p]) = nodes[p]

\* With nothing queued the disk holds the files and directories of the tree,
\* but for the client's own (opfs.ts: "the thing the game calls a filesystem
\* and the thing the browser stores are the same shape").
ShippedDirs == UNION {Above(p) : p \in Shipped}
SameShape ==
    Persistent /\ chain = <<>> /\ drop = NoDrop =>
        /\ DOMAIN disk.files = DOMAIN nodes \ DOMAIN held
        /\ disk.dirs \subseteq dirs /\ dirs \ disk.dirs \subseteq ShippedDirs

\* What the tree says, the disk has: sizes at every moment, names and directories
\* once nothing is queued.
TreeMatchesDisk == TypeOK /\ SizesAgree /\ SameShape

\* What a reload would find is what the files were at some moment since the
\* last one: of the queue a prefix is on disk, never one change without the
\* one before it.  Only the change being made may show: a file that is there
\* and still empty, or one moved without `move` that is under both names.
Halfway ==
    IF chain = <<>> THEN {}
    ELSE {p \in DOMAIN disk.files :
            \/ p = Head(chain).to /\ Head(chain).made /\ disk.files[p] = <<>>
            \/ p = Head(chain).path /\ Head(chain).op = "remove"}
\* Drops do not wait for the queue (opfs.ts, putFile): of the files dropped onto, and
\* those that copies and moves carry them to, a reload may find anything.
Carries(S) == Drops \subseteq S /\ \A pair \in Pairs : pair[1] \in S => pair[2] \in S
Touched == {p \in Files \cup Drops :
              \A S \in SUBSET (Files \cup Drops) : Carries(S) => p \in S}
ScriptsOwn(f, moving) == Restrict(f, DOMAIN f \ (Touched \cup moving))
ReloadIsAPast ==
    \E f \in past, moving \in SUBSET Halfway :
        ScriptsOwn(disk.files, moving) = ScriptsOwn(f, {})
=============================================================================
