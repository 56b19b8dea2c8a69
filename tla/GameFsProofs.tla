---------------------------- MODULE GameFsProofs ----------------------------
(***************************************************************************)
(* Proofs about the player's filesystem: TypeInv, TreeMatchesDisk and      *)
(* ReloadIsAPast are invariants of module GameFs, and GameFs implements    *)
(* MemoryFs, for any paths, contents, clients, browsers and bounds.        *)
(*                                                                         *)
(* TreeMatchesDisk speaks of the disk when nothing is queued.  What every  *)
(* step keeps is that the tree matches the disk the whole queue leads to   *)
(* (TreeInv). ReloadIsAPast needs that the queue leads through what the    *)
(* files have been (PastInv), and MemoryFs that a read has, among the      *)
(* answers it may give, what it would find on each disk the queue still    *)
(* leads through (ReadsInv).                                               *)
(***************************************************************************)
EXTENDS GameFs, Induction

-----------------------------------------------------------------------------
(* The queue, carried out.                                                 *)

\* The disk once n of the changes queued are on it, for each n.
After(d, queue) ==
    CHOOSE f : f = [n \in 0..Len(queue) |->
                      IF n = 0 THEN d ELSE ApplyEntry(f[n - 1], queue[n])]

\* There is such a function, whatever the queue.
LEMMA AfterDefined ==
  ASSUME NEW d, NEW queue, Len(queue) \in Nat
  PROVE  \E f : f = [n \in 0..Len(queue) |->
                       IF n = 0 THEN d ELSE ApplyEntry(f[n - 1], queue[n])]
<1> DEFINE Defines(f, k) == f = [n \in 0..k |-> IF n = 0 THEN d ELSE ApplyEntry(f[n - 1], queue[n])]
           N == {k \in Nat : \E f : Defines(f, k)}
<1>1. 0 \in N
  <2> DEFINE f == [n \in 0..0 |-> d]
  <2>1. f = [n \in 0..0 |-> IF n = 0 THEN d ELSE ApplyEntry(f[n - 1], queue[n])]
    OBVIOUS
  <2> HIDE DEF f
  <2> QED
    BY <2>1
<1>2. ASSUME NEW k \in Nat, k \in N PROVE k + 1 \in N
  <2>1. PICK f : Defines(f, k)
    BY <1>2
  <2> DEFINE g == [n \in 0..(k + 1) |-> IF n = 0 THEN d ELSE ApplyEntry(f[n - 1], queue[n])]
  <2>2. \A n \in 0..k : g[n] = f[n]
    BY <2>1
  <2>3. \A n \in 0..(k + 1) : n # 0 => n - 1 \in 0..k
    OBVIOUS
  <2>4. g = [n \in 0..(k + 1) |-> IF n = 0 THEN d ELSE ApplyEntry(g[n - 1], queue[n])]
    <3> HIDE DEF Defines
    <3>1. \A n \in 0..(k + 1) : g[n] = IF n = 0 THEN d ELSE ApplyEntry(f[n - 1], queue[n])
      OBVIOUS
    <3>2. \A n \in 0..(k + 1) : g[n] = IF n = 0 THEN d ELSE ApplyEntry(g[n - 1], queue[n])
      BY <2>2, <2>3, <3>1
    <3>3. DOMAIN g = 0..(k + 1) /\ g = [n \in 0..(k + 1) |-> g[n]]
      OBVIOUS
    <3> HIDE DEF g
    <3> QED
      BY <3>2, <3>3
  <2> HIDE DEF g
  <2> QED
    BY <2>4
<1>3. Nat \subseteq N
  <2> HIDE DEF N
  <2> QED
    BY <1>1, <1>2, NatSetInduction
<1> QED
  BY <1>3

\* It starts from the disk, each change follows the last, and it ends at Settled.
LEMMA AfterIs ==
  ASSUME NEW d, NEW queue, Len(queue) \in Nat
  PROVE  /\ After(d, queue)[0] = d
         /\ After(d, queue)[Len(queue)] = Settled(d, queue)
         /\ \A n \in 1..Len(queue) :
              After(d, queue)[n] = ApplyEntry(After(d, queue)[n - 1], queue[n])
<1>1. After(d, queue) = [n \in 0..Len(queue) |->
          IF n = 0 THEN d ELSE ApplyEntry(After(d, queue)[n - 1], queue[n])]
  BY AfterDefined DEF After
<1>2. Settled(d, queue) = After(d, queue)[Len(queue)]
  BY DEF Settled, After
<1>3. \A n \in 1..Len(queue) : n \in 0..Len(queue) /\ n # 0
  OBVIOUS
<1>4. 0 \in 0..Len(queue)
  OBVIOUS
<1> QED
  BY <1>1, <1>2, <1>3, <1>4

\* It is the only one that does.
LEMMA AfterOnly ==
  ASSUME NEW d, NEW queue, Len(queue) \in Nat, NEW f, f[0] = d,
         \A n \in 1..Len(queue) : f[n] = ApplyEntry(f[n - 1], queue[n])
  PROVE  \A n \in 0..Len(queue) : After(d, queue)[n] = f[n]
<1> DEFINE N == {n \in Nat : n <= Len(queue) => After(d, queue)[n] = f[n]}
<1>1. 0 \in N
  BY AfterIs
<1>2. ASSUME NEW n \in Nat, n \in N PROVE n + 1 \in N
  <2> SUFFICES ASSUME n + 1 <= Len(queue) PROVE After(d, queue)[n + 1] = f[n + 1]
    OBVIOUS
  <2>1. n + 1 \in 1..Len(queue) /\ (n + 1) - 1 = n
    OBVIOUS
  <2>2. After(d, queue)[n] = f[n]
    BY <1>2
  <2>3. After(d, queue)[n + 1] = ApplyEntry(After(d, queue)[(n + 1) - 1], queue[n + 1])
    BY <2>1, AfterIs
  <2> QED
    BY <2>1, <2>2, <2>3
<1>3. Nat \subseteq N
  <2> HIDE DEF N
  <2> QED
    BY <1>1, <1>2, NatSetInduction
<1> QED
  BY <1>3

-----------------------------------------------------------------------------
(* Contents, files and disks, and what is done to them.                    *)

\* Paths, those of anything but the root, and the bytes of contents.
Paths == Seq(STRING)
Names == Paths \ {<<>>}
Bytes == Values \cup {"shipped", "zero", "lost"}
\* Contents of at most n bytes, and files and disks that hold such.
Short(n) == {s \in Seq(Bytes) : Len(s) <= n}
FileMaps(n) == UNION {[names -> Short(n)] : names \in SUBSET Names}
Disks(n) == [files : FileMaps(n), dirs : SUBSET Paths]
Entries(n) ==
    {e \in [op : {"write", "append", "remove", "makeDir", "copy", "rename"}, path : Names,
            to : Names, bytes : Short(n), at : Nat, made : BOOLEAN] : e.at + Len(e.bytes) <= n}

\* What files are, said of a function.
LEMMA FileMapIs ==
  ASSUME NEW n, NEW f
  PROVE  f \in FileMaps(n) <=> DOMAIN f \subseteq Names /\ f \in [DOMAIN f -> Short(n)]
BY DEF FileMaps

\* What is above a path is shorter.
LEMMA AboveIs ==
  ASSUME NEW p \in Paths
  PROVE  /\ Above(p) \subseteq Paths /\ p \notin Above(p)
         /\ \A q \in Above(p) : Len(q) < Len(p)
<1>1. ASSUME NEW n \in 0..(Len(p) - 1) 
      PROVE SubSeq(p, 1, n) \in Paths /\ Len(SubSeq(p, 1, n)) = n /\ n < Len(p)
  BY DEF Paths
<1>2. \A q \in Above(p) : q \in Paths /\ Len(q) < Len(p)
  BY <1>1 DEF Above
<1>3. Len(p) \in Nat
  BY DEF Paths
<1> QED
  BY <1>2, <1>3

\* Files, with one written.
LEMMA PutIs ==
  ASSUME NEW n, NEW f \in FileMaps(n), NEW p \in Names, NEW s \in Short(n)
  PROVE  Put(f, p, s) \in FileMaps(n)
<1>1. DOMAIN f \subseteq Names /\ f \in [DOMAIN f -> Short(n)]
  BY FileMapIs
<1> HIDE DEF Names, Short
<1>2. Put(f, p, s) \in [DOMAIN f \cup {p} -> Short(n)]
  BY <1>1 DEF Put
<1> QED
  BY <1>1, <1>2 DEF FileMaps

\* Files, with one taken away.
LEMMA DropIs ==
  ASSUME NEW n, NEW f \in FileMaps(n), NEW p
  PROVE  Drop(f, p) \in FileMaps(n) /\ DOMAIN Drop(f, p) = DOMAIN f \ {p}
<1>1. DOMAIN f \subseteq Names /\ f \in [DOMAIN f -> Short(n)]
  BY FileMapIs
<1>2. Drop(f, p) \in [DOMAIN f \ {p} -> Short(n)]
  BY <1>1 DEF Drop, Restrict
<1> QED
  BY <1>1, <1>2 DEF FileMaps

\* A larger bound allows more.
LEMMA ShortGrows ==
  ASSUME NEW n \in Nat, NEW m \in Nat, n <= m
  PROVE  /\ Short(n) \subseteq Short(m) /\ FileMaps(n) \subseteq FileMaps(m)
         /\ Disks(n) \subseteq Disks(m) /\ Entries(n) \subseteq Entries(m)
<1>1. Short(n) \subseteq Short(m)
  BY DEF Short
<1>2. FileMaps(n) \subseteq FileMaps(m)
  BY <1>1, FileMapIs DEF FileMaps
<1>3. Disks(n) \subseteq Disks(m)
  BY <1>2 DEF Disks
<1>4. Entries(n) \subseteq Entries(m)
  BY <1>1 DEF Entries, Short
<1> QED
  BY <1>1, <1>2, <1>3, <1>4

\* Bytes put within the bound stay within it; at the end of the old, they follow it.
LEMMA SpliceIs ==
  ASSUME NEW n \in Nat, NEW old \in Short(n), NEW at \in Nat, NEW bytes \in Short(n), at + Len(bytes) <= n
  PROVE  /\ Splice(old, at, bytes) \in Short(n)
         /\ at = Len(old) => Splice(old, at, bytes) = old \o bytes
<1> DEFINE m == IF Len(old) >= at + Len(bytes) THEN Len(old) ELSE at + Len(bytes)
<1>1. /\ Len(old) \in Nat /\ Len(bytes) \in Nat /\ old \in Seq(Bytes) /\ bytes \in Seq(Bytes)
      /\ Len(old) <= n
  BY DEF Short
<1>2. Max({Len(old), at + Len(bytes)}) = m
  BY <1>1 DEF Max
<1>3. m \in Nat /\ m <= n
  BY <1>1
<1>4. Splice(old, at, bytes) = [i \in 1..m |->
        IF i > at /\ i <= at + Len(bytes) THEN bytes[i - at]
        ELSE IF i <= Len(old) THEN old[i] ELSE "zero"]
  BY <1>2 DEF Splice
<1> HIDE DEF m
<1>5. ASSUME NEW i \in 1..m
      PROVE (IF i > at /\ i <= at + Len(bytes) THEN bytes[i - at]
             ELSE IF i <= Len(old) THEN old[i] ELSE "zero") \in Bytes
  <2>1. "zero" \in Bytes
    BY DEF Bytes
  <2> QED
    BY <1>1, <1>3, <2>1
<1>6. Splice(old, at, bytes) \in [1..m -> Bytes]
  BY <1>4, <1>5
<1>7. Splice(old, at, bytes) \in Seq(Bytes) /\ Len(Splice(old, at, bytes)) = m
  BY <1>3, <1>6
<1>8. ASSUME at = Len(old) PROVE Splice(old, at, bytes) = old \o bytes
  <2>1. m = Len(old) + Len(bytes)
    BY <1>1, <1>8 DEF m
  <2>2. old \o bytes \in Seq(Bytes) /\ Len(old \o bytes) = m
    BY <1>1, <2>1
  <2>3. \A i \in 1..m : (old \o bytes)[i] = IF i <= Len(old) THEN old[i] ELSE bytes[i - Len(old)]
    BY <1>1, <2>1
  <2>4. \A i \in 1..m : Splice(old, at, bytes)[i] = (old \o bytes)[i]
    BY <1>1, <1>3, <1>4, <1>8, <2>1, <2>3
  <2> QED
    BY <1>3, <1>7, <2>2, <2>4
<1> QED
  BY <1>3, <1>7, <1>8 DEF Short

\* The parts of a disk.
LEMMA DiskIs ==
  ASSUME NEW n, NEW d \in Disks(n)
  PROVE  /\ d = [files |-> d.files, dirs |-> d.dirs]
         /\ d.files \in FileMaps(n) /\ d.dirs \subseteq Paths
         /\ DOMAIN d.files \subseteq Names /\ d.files \in [DOMAIN d.files -> Short(n)]
BY FileMapIs DEF Disks

\* A disk written to.
LEMMA WriteDiskIs ==
  ASSUME NEW n, NEW d \in Disks(n), NEW p \in Names, NEW s \in Short(n)
  PROVE  WriteDisk(d, p, s) \in Disks(n)
<1>1. p \in Paths
  BY DEF Names
<1> QED
  BY <1>1, DiskIs, PutIs, AboveIs DEF WriteDisk, Disks

\* A disk with something removed: a file, or a directory that has nothing in it.
LEMMA RemoveDiskIs ==
  ASSUME NEW n, NEW d \in Disks(n), NEW p
  PROVE  /\ RemoveDisk(d, p) \in Disks(n)
         /\ p \in DOMAIN d.files => RemoveDisk(d, p) = [files |-> Drop(d.files, p), dirs |-> d.dirs]
         /\ p \notin DOMAIN d.files =>
              RemoveDisk(d, p) = [files |-> d.files,
                dirs |-> IF Children(DOMAIN d.files \cup d.dirs, p) = {} THEN d.dirs \ {p} ELSE d.dirs]
<1>1. d = [files |-> d.files, dirs |-> d.dirs]
  BY DiskIs
<1>2. CASE p \in DOMAIN d.files
  <2>1. RemoveDisk(d, p) = [files |-> Drop(d.files, p), dirs |-> d.dirs]
    BY <1>1, <1>2 DEF RemoveDisk
  <2> QED
    BY <1>2, <2>1, DiskIs, DropIs DEF Disks
<1>3. CASE p \notin DOMAIN d.files
  <2>1. RemoveDisk(d, p) = [files |-> d.files,
                dirs |-> IF Children(DOMAIN d.files \cup d.dirs, p) = {} THEN d.dirs \ {p} ELSE d.dirs]
    BY <1>1, <1>3 DEF RemoveDisk
  <2> QED
    BY <1>3, <2>1, DiskIs DEF Disks
<1> QED
  BY <1>2, <1>3

\* A disk with the directories above a path.
LEMMA MakeDirsIs ==
  ASSUME NEW n, NEW d \in Disks(n), NEW p \in Paths
  PROVE  /\ MakeDirs(d, p) \in Disks(n)
         /\ MakeDirs(d, p).files = d.files
BY DiskIs, AboveIs DEF MakeDirs, Disks

\* The parts of a change queued.
LEMMA EntryIs ==
  ASSUME NEW n \in Nat, NEW e \in Entries(n)
  PROVE  /\ e.op \in {"write", "append", "remove", "makeDir", "copy", "rename"}
         /\ e.path \in Names /\ e.to \in Names /\ e.path \in Paths /\ e.to \in Paths
         /\ e.bytes \in Short(n)
         /\ e.at \in Nat /\ e.at + Len(e.bytes) <= n /\ e.made \in BOOLEAN
         /\ Making(e) \in Entries(n)
         /\ \A p \in Names : Plain("remove", p) \in Entries(n) /\ Plain("makeDir", p) \in Entries(n)
<1>1. /\ e \in [op : {"write", "append", "remove", "makeDir", "copy", "rename"}, path : Names,
            to : Names, bytes : Short(n), at : Nat, made : BOOLEAN] 
      /\ e.at + Len(e.bytes) <= n
  BY DEF Entries
<1>2. Making(e) \in Entries(n)
  BY <1>1 DEF Entries, Making
<1>3. <<>> \in Short(n) /\ 0 + Len(<<>>) <= n
  BY DEF Short
<1>4. \A p \in Names : Plain("remove", p) \in Entries(n) /\ Plain("makeDir", p) \in Entries(n)
  BY <1>3 DEF Entries, Plain, Entry
<1>5. Names \subseteq Paths
  BY DEF Names
<1> QED
  BY <1>1, <1>2, <1>4, <1>5

\* A disk with a change carried out.
LEMMA ApplyEntryIs ==
  ASSUME NEW n \in Nat, NEW d \in Disks(n), NEW e \in Entries(n)
  PROVE  ApplyEntry(d, e) \in Disks(n)
<1>1. /\ e.op \in {"write", "append", "remove", "makeDir", "copy", "rename"}
      /\ e.path \in Paths /\ e.to \in Paths /\ e.to \in Names /\ e.bytes \in Short(n)
      /\ e.at \in Nat /\ e.at + Len(e.bytes) <= n
  BY EntryIs
<1>2. <<>> \in Short(n)
  BY DEF Short
<1>3. CASE e.op = "write"
  BY <1>1, <1>3, WriteDiskIs DEF ApplyEntry
<1>4. CASE e.op = "append"
  <2> DEFINE old == IF e.to \in DOMAIN d.files THEN d.files[e.to] ELSE <<>>
  <2>1. old \in Short(n)
    BY <1>2, DiskIs
  <2>2. ApplyEntry(d, e) = WriteDisk(d, e.to, Splice(old, e.at, e.bytes))
    BY <1>4 DEF ApplyEntry
  <2> HIDE DEF old
  <2> QED
    BY <1>1, <2>1, <2>2, SpliceIs, WriteDiskIs
<1>5. CASE e.op = "remove"
  BY <1>5, RemoveDiskIs DEF ApplyEntry
<1>6. CASE e.op = "makeDir"
  BY <1>1, <1>6, DiskIs, AboveIs DEF ApplyEntry, Disks
<1>7. CASE e.op = "copy"
  BY <1>1, <1>7, DiskIs, WriteDiskIs, MakeDirsIs DEF ApplyEntry
<1>8. CASE e.op = "rename"
  <2>1. e.path \in DOMAIN d.files => WriteDisk(d, e.to, d.files[e.path]) \in Disks(n)
    BY <1>1, DiskIs, WriteDiskIs
  <2> QED
    BY <1>1, <1>8, <2>1, RemoveDiskIs, MakeDirsIs DEF ApplyEntry
<1> QED
  BY <1>1, <1>3, <1>4, <1>5, <1>6, <1>7, <1>8

\* Of two writes the later one counts.
LEMMA PutTwice ==
  ASSUME NEW f, NEW p, NEW s, NEW t
  PROVE  Put(Put(f, p, s), p, t) = Put(f, p, t)
BY DEF Put

\* What is written is there, and the rest is as it was.
LEMMA PutHas ==
  ASSUME NEW f, NEW p, NEW s
  PROVE  DOMAIN Put(f, p, s) = DOMAIN f \cup {p} /\ Put(f, p, s)[p] = s
         /\ \A q \in DOMAIN f : q # p => Put(f, p, s)[q] = f[q]
BY DEF Put

\* An empty file written first makes no difference to what is written in its place.
LEMMA WriteTwice ==
  ASSUME NEW d, NEW p \in Paths, ~Blocked(d, p), NEW s, NEW t
  PROVE  WriteDisk(WriteDisk(d, p, s), p, t) = WriteDisk(d, p, t)
<1> DEFINE once == WriteDisk(d, p, s)
<1>1. once = [files |-> Put(d.files, p, s), dirs |-> d.dirs \cup Above(p)]
  BY DEF WriteDisk
<1>2. ~Blocked(once, p)
  <2>1. once.dirs = d.dirs \cup Above(p) /\ DOMAIN once.files = DOMAIN d.files \cup {p}
    BY <1>1 DEF Put
  <2>2. p \notin Above(p) /\ p \notin d.dirs /\ Above(p) \cap DOMAIN d.files = {}
    BY AboveIs DEF Blocked
  <2> HIDE DEF once
  <2> QED
    BY <2>1, <2>2 DEF Blocked
<1>3. WriteDisk(once, p, t) = [files |-> Put(once.files, p, t), dirs |-> once.dirs \cup Above(p)]
  BY <1>2 DEF WriteDisk
<1> HIDE DEF once
<1>4. WriteDisk(once, p, t) = [files |-> Put(d.files, p, t), dirs |-> d.dirs \cup Above(p)]
  BY <1>1, <1>3, PutTwice
<1> QED
  BY <1>4 DEF once, WriteDisk

\* The empty file an entry leaves first makes no difference to what it comes to.
LEMMA MadeFirst ==
  ASSUME NEW n \in Nat, NEW e \in Entries(n), Creates(e)
  PROVE  ApplyEntry(WriteDisk(disk, e.to, <<>>), Making(e)) = ApplyEntry(disk, e)
<1> DEFINE d == WriteDisk(disk, e.to, <<>>)
           m == Making(e)
<1> SUFFICES ApplyEntry(d, m) = ApplyEntry(disk, e)
  OBVIOUS
<1>1. /\ e.path \in Paths /\ e.to \in Paths /\ e.op \in {"write", "append", "copy", "rename"}
      /\ m.op = e.op /\ m.path = e.path /\ m.to = e.to /\ m.bytes = e.bytes /\ m.at = e.at
  BY EntryIs DEF Entries, Creates, Making
<1>2. ~Blocked(disk, e.to) /\ e.to \notin DOMAIN disk.files
  BY DEF Creates
<1>3. d = [files |-> Put(disk.files, e.to, <<>>), dirs |-> disk.dirs \cup Above(e.to)]
  BY <1>2 DEF WriteDisk
<1>4. \A s : WriteDisk(d, e.to, s) = WriteDisk(disk, e.to, s)
  BY <1>1, <1>2, WriteTwice
<1> HIDE DEF d
<1>5. DOMAIN d.files = DOMAIN disk.files \cup {e.to} /\ d.files[e.to] = <<>>
        /\ \A q \in DOMAIN disk.files : q # e.to => d.files[q] = disk.files[q]
  <2>1. d.files = Put(disk.files, e.to, <<>>)
    BY <1>3
  <2> QED
    BY <2>1 DEF Put
<1>6. e.path \in DOMAIN disk.files => e.path \in DOMAIN d.files /\ d.files[e.path] = disk.files[e.path]
  BY <1>2, <1>5
<1>11. ~Blocked(d, e.to)
  <2>1. d.dirs = disk.dirs \cup Above(e.to)
    BY <1>3
  <2>2. e.to \notin Above(e.to) /\ e.to \notin disk.dirs /\ Above(e.to) \cap DOMAIN disk.files = {}
    BY <1>1, <1>2, AboveIs DEF Blocked
  <2> QED
    BY <1>5, <2>1, <2>2 DEF Blocked
<1> HIDE DEF m
<1>7. CASE e.op = "write"
  BY <1>1, <1>4, <1>7 DEF ApplyEntry
<1>8. CASE e.op = "append"
  BY <1>1, <1>2, <1>4, <1>5, <1>8 DEF ApplyEntry
<1>9. CASE e.op = "copy"
  <2>1. e.path \in DOMAIN disk.files
    BY <1>9 DEF Creates
  <2> QED
    BY <1>1, <1>4, <1>6, <1>9, <2>1 DEF ApplyEntry
<1>10. CASE e.op = "rename"
  <2>1. e.path \in DOMAIN disk.files /\ ~HasMove
    BY <1>10 DEF Creates
  <2> QED
    BY <1>1, <1>2, <1>4, <1>6, <1>10, <1>11, <2>1 DEF ApplyEntry
<1> QED
  BY <1>1, <1>7, <1>8, <1>9, <1>10

\* Nor does the removal a rename without `move` leaves for later.
LEMMA RemovedAfter ==
  ASSUME NEW n \in Nat, NEW e \in Entries(n), Splits(e)
  PROVE  ApplyEntry(WriteDisk(disk, e.to, disk.files[e.path]), Plain("remove", e.path))
           = ApplyEntry(disk, e)
BY DEF Splits, ApplyEntry, Plain, Entry

\* One more change at the end of the queue.
LEMMA AfterAppend ==
  ASSUME NEW d, NEW E, NEW queue \in Seq(E), NEW e \in E
  PROVE  \A n \in 0..(Len(queue) + 1) :
           After(d, Append(queue, e))[n] = IF n <= Len(queue) THEN After(d, queue)[n]
                                           ELSE ApplyEntry(Settled(d, queue), e)
<1> DEFINE longer == Append(queue, e)
           f == [n \in 0..(Len(queue) + 1) |-> IF n <= Len(queue) THEN After(d, queue)[n]
                                               ELSE ApplyEntry(Settled(d, queue), e)]
<1>1. /\ Len(queue) \in Nat /\ Len(longer) = Len(queue) + 1
      /\ longer[Len(queue) + 1] = e /\ \A n \in 1..Len(queue) : longer[n] = queue[n]
  OBVIOUS
<1> HIDE DEF longer
<1>2. /\ After(d, queue)[0] = d /\ After(d, queue)[Len(queue)] = Settled(d, queue)
      /\ \A n \in 1..Len(queue) : After(d, queue)[n] = ApplyEntry(After(d, queue)[n - 1], queue[n])
  BY <1>1, AfterIs
<1>3. /\ \A n \in 0..Len(queue) : f[n] = After(d, queue)[n]
      /\ f[Len(queue) + 1] = ApplyEntry(Settled(d, queue), e)
  BY <1>1
<1> HIDE DEF f
<1>4. f[0] = d
  BY <1>1, <1>2, <1>3
<1>5. ASSUME NEW n \in 1..Len(longer) PROVE f[n] = ApplyEntry(f[n - 1], longer[n])
  <2>1. n - 1 \in 0..Len(queue)
    BY <1>1
  <2>2. CASE n = Len(queue) + 1
    <3>1. n - 1 = Len(queue)
      BY <1>1, <2>2
    <3> QED
      BY <1>1, <1>2, <1>3, <2>1, <2>2, <3>1
  <2>3. CASE n # Len(queue) + 1
    <3>1. n \in 1..Len(queue) /\ n \in 0..Len(queue)
      BY <1>1, <2>3
    <3> QED
      BY <1>1, <1>2, <1>3, <2>1, <3>1
  <2> QED
    BY <2>2, <2>3
<1>6. Len(longer) \in Nat
  BY <1>1
<1>7. \A n \in 0..Len(longer) : After(d, longer)[n] = f[n]
  BY <1>4, <1>5, <1>6, AfterOnly
<1>8. \A n \in 0..(Len(queue) + 1) : f[n] = IF n <= Len(queue) THEN After(d, queue)[n]
                                             ELSE ApplyEntry(Settled(d, queue), e)
  BY DEF f
<1> QED
  BY <1>1, <1>7, <1>8 DEF longer

\* One more change at the end of the queue comes last.
LEMMA SettledAppend ==
  ASSUME NEW d, NEW E, NEW queue \in Seq(E), NEW e \in E
  PROVE  Settled(d, Append(queue, e)) = ApplyEntry(Settled(d, queue), e)
<1> DEFINE longer == Append(queue, e)
<1>1. Len(longer) = Len(queue) + 1 /\ Len(queue) \in Nat /\ Len(longer) \in Nat
  OBVIOUS
<1>2. After(d, longer)[Len(queue) + 1] = ApplyEntry(Settled(d, queue), e)
  <2>1. Len(queue) + 1 \in 0..(Len(queue) + 1) /\ ~(Len(queue) + 1 <= Len(queue))
    BY <1>1
  <2> QED
    BY <2>1, AfterAppend
<1> HIDE DEF longer
<1>3. Settled(d, longer) = After(d, longer)[Len(longer)]
  BY <1>1, AfterIs
<1> QED
  BY <1>1, <1>2, <1>3 DEF longer

\* The first change carried out.
LEMMA AfterTail ==
  ASSUME NEW d, NEW E, NEW queue \in Seq(E), queue # <<>>
  PROVE  \A n \in 0..(Len(queue) - 1) :
           After(ApplyEntry(d, Head(queue)), Tail(queue))[n] = After(d, queue)[n + 1]
<1> DEFINE rest == Tail(queue)
           m == Len(queue) - 1
           f == [n \in 0..m |-> After(d, queue)[n + 1]]
           c == ApplyEntry(d, Head(queue))
<1>1. /\ m \in Nat /\ Len(rest) = m /\ Head(queue) = queue[1] /\ Len(queue) \in Nat
      /\ \A n \in 1..m : rest[n] = queue[n + 1]
  OBVIOUS
<1>2. /\ After(d, queue)[0] = d /\ After(d, queue)[Len(queue)] = Settled(d, queue)
      /\ \A n \in 1..Len(queue) : After(d, queue)[n] = ApplyEntry(After(d, queue)[n - 1], queue[n])
  BY <1>1, AfterIs
<1>3. \A n \in 0..m : f[n] = After(d, queue)[n + 1]
  OBVIOUS
<1>4. m + 1 = Len(queue)
  BY <1>1
<1> HIDE DEF f, m, rest
<1>5. f[0] = c
  <2>1. 0 \in 0..m /\ 0 + 1 \in 1..Len(queue) /\ 0 + 1 = 1 /\ (0 + 1) - 1 = 0
    BY <1>1, <1>4
  <2> QED
    BY <1>1, <1>2, <1>3, <2>1
<1>6. ASSUME NEW n \in 1..m PROVE f[n] = ApplyEntry(f[n - 1], rest[n])
  <2>1. n - 1 \in 0..m /\ n \in 0..m /\ n + 1 \in 1..Len(queue) /\ (n + 1) - 1 = n /\ (n - 1) + 1 = n
    BY <1>1, <1>4
  <2> QED
    BY <1>1, <1>2, <1>3, <2>1
<1> HIDE DEF c
<1>7. \A n \in 0..m : After(c, rest)[n] = f[n]
  <2>1. Len(rest) \in Nat /\ \A n \in 1..Len(rest) : f[n] = ApplyEntry(f[n - 1], rest[n])
    BY <1>1, <1>6
  <2>2. \A n \in 0..Len(rest) : After(c, rest)[n] = f[n]
    BY <1>5, <2>1, AfterOnly
  <2> QED
    BY <1>1, <2>2
<1> QED
  BY <1>1, <1>3, <1>7 DEF c, m, rest

\* The first change carried out, the rest leads where all did.
LEMMA SettledTail ==
  ASSUME NEW d, NEW E, NEW queue \in Seq(E), queue # <<>>
  PROVE  Settled(ApplyEntry(d, Head(queue)), Tail(queue)) = Settled(d, queue)
<1> DEFINE rest == Tail(queue)
           c == ApplyEntry(d, Head(queue))
<1>1. Len(queue) \in Nat /\ Len(rest) \in Nat /\ Len(rest) + 1 = Len(queue)
        /\ Len(rest) \in 0..(Len(queue) - 1)
  OBVIOUS
<1>2. After(c, rest)[Len(rest)] = After(d, queue)[Len(rest) + 1]
  BY <1>1, AfterTail
<1> HIDE DEF rest, c
<1>3. Settled(c, rest) = After(c, rest)[Len(rest)]
  BY <1>1, AfterIs
<1>4. Settled(d, queue) = After(d, queue)[Len(queue)]
  BY <1>1, AfterIs
<1> QED
  BY <1>1, <1>2, <1>3, <1>4 DEF rest, c

\* Another way to where the first change leads.
LEMMA AfterFirst ==
  ASSUME NEW d, NEW c, NEW queue, NEW other, Len(queue) \in Nat, Len(queue) # 0,
         Len(other) = Len(queue), \A i \in 2..Len(queue) : other[i] = queue[i],
         ApplyEntry(c, other[1]) = ApplyEntry(d, queue[1])
  PROVE  \A n \in 1..Len(queue) : After(c, other)[n] = After(d, queue)[n]
<1> DEFINE f == [n \in 0..Len(queue) |-> IF n = 0 THEN c ELSE After(d, queue)[n]]
<1>1. Len(queue) \in Nat /\ Len(queue) >= 1
  OBVIOUS
<1>2. /\ After(d, queue)[0] = d /\ After(d, queue)[Len(queue)] = Settled(d, queue)
      /\ \A n \in 1..Len(queue) : After(d, queue)[n] = ApplyEntry(After(d, queue)[n - 1], queue[n])
  BY <1>1, AfterIs
<1>3. f[0] = c /\ \A n \in 1..Len(queue) : f[n] = After(d, queue)[n]
  BY <1>1
<1> HIDE DEF f
<1>4. ASSUME NEW n \in 1..Len(other) PROVE f[n] = ApplyEntry(f[n - 1], other[n])
  <2>1. CASE n = 1
    <3>1. n - 1 = 0 /\ n \in 1..Len(queue)
      BY <1>1, <2>1
    <3> QED
      BY <1>2, <1>3, <2>1, <3>1
  <2>2. CASE n # 1
    <3>1. n - 1 \in 1..Len(queue) /\ n \in 2..Len(queue) /\ n \in 1..Len(queue)
      BY <1>1, <2>2
    <3> QED
      BY <1>2, <1>3, <3>1
  <2> QED
    BY <2>1, <2>2
<1>5. \A n \in 0..Len(other) : After(c, other)[n] = f[n]
  BY <1>1, <1>3, <1>4, AfterOnly
<1> QED
  BY <1>1, <1>3, <1>5

\* Another first change that comes to the same leads to the same.
LEMMA SettledFirst ==
  ASSUME NEW d, NEW c, NEW queue, NEW other, Len(queue) \in Nat, Len(queue) # 0,
         Len(other) = Len(queue), \A i \in 2..Len(queue) : other[i] = queue[i],
         ApplyEntry(c, other[1]) = ApplyEntry(d, queue[1])
  PROVE  Settled(c, other) = Settled(d, queue)
<1>1. Len(queue) \in Nat /\ Len(queue) \in 1..Len(queue) /\ Len(other) \in Nat
  OBVIOUS
<1>2. After(c, other)[Len(queue)] = After(d, queue)[Len(queue)]
  <2>1. \A n \in 1..Len(queue) : After(c, other)[n] = After(d, queue)[n]
    BY AfterFirst
  <2> QED
    BY <1>1, <2>1
<1>3. Settled(c, other) = After(c, other)[Len(other)]
  BY <1>1, AfterIs
<1>4. Settled(d, queue) = After(d, queue)[Len(queue)]
  BY <1>1, AfterIs
<1> QED
  BY <1>2, <1>3, <1>4

-----------------------------------------------------------------------------
(* The types.                                                              *)

\* Queued changes lead through disks.
LEMMA AfterTyped ==
  ASSUME NEW n \in Nat, NEW d \in Disks(n), NEW queue \in Seq(Entries(n))
  PROVE  /\ \A k \in 0..Len(queue) : After(d, queue)[k] \in Disks(n)
         /\ Settled(d, queue) \in Disks(n)
<1> DEFINE N == {k \in Nat : k <= Len(queue) => After(d, queue)[k] \in Disks(n)}
<1>1. Len(queue) \in Nat /\ \A k \in 1..Len(queue) : queue[k] \in Entries(n)
  OBVIOUS
<1>2. 0 \in N
  BY <1>1, AfterIs
<1>3. ASSUME NEW k \in Nat, k \in N PROVE k + 1 \in N
  <2> SUFFICES ASSUME k + 1 <= Len(queue) PROVE After(d, queue)[k + 1] \in Disks(n)
    OBVIOUS
  <2>1. k + 1 \in 1..Len(queue) /\ (k + 1) - 1 = k
    BY <1>1
  <2>2. After(d, queue)[k + 1] = ApplyEntry(After(d, queue)[k], queue[k + 1])
    BY <1>1, <2>1, AfterIs
  <2>3. After(d, queue)[k] \in Disks(n)
    BY <1>1, <1>3
  <2> QED
    BY <1>1, <2>1, <2>2, <2>3, ApplyEntryIs
<1>4. Nat \subseteq N
  <2> HIDE DEF N
  <2> QED
    BY <1>2, <1>3, NatSetInduction
<1> QED
  BY <1>1, <1>4, AfterIs

\* What every variable holds, no contents longer than n.
TreeTyped(n) ==
    /\ DOMAIN nodes \subseteq Names /\ nodes \in [DOMAIN nodes -> 0..n]
    /\ dirs \subseteq Paths /\ <<>> \in dirs
    /\ held \in FileMaps(n) /\ DOMAIN held \subseteq DOMAIN nodes \cup Drops
QueueTyped(n) ==
    /\ chain \in Seq(Entries(n)) /\ \A i \in DOMAIN chain : chain[i].made => i = 1
    /\ ~Persistent => chain = <<>>
DiskTyped(n) == disk \in Disks(n) /\ <<>> \in disk.dirs /\ past \subseteq FileMaps(n)
\* A read waits for no more than is queued.
ReadsTyped ==
    /\ DOMAIN reads = Clients /\ reads = [c \in Clients |-> reads[c]]
    /\ \A c \in Clients :
         /\ reads[c] = [path |-> reads[c].path, ahead |-> reads[c].ahead, seen |-> reads[c].seen]
         /\ reads[c].path \in Paths /\ reads[c].ahead \in 0..Len(chain)
\* A drop is of one of Drops.
DropTyped ==
    \/ drop = NoDrop
    \/ drop \in [step : {"create", "write", "finish"}, path : Drops, bytes : {<<v>> : v \in Values}]
\* Counters keep their bounds.
DoneTyped ==
    /\ done = [changes |-> done.changes, crashes |-> done.crashes, drops |-> done.drops,
               asked |-> done.asked]
    /\ done.changes \in 0..MaxChanges /\ done.crashes \in 0..MaxCrashes
    /\ done.drops \in 0..MaxDrops
\* The rest.
OthersTyped == browser \in Browsers /\ reply \in {"ok", "failed"} /\ loads \in Nat
\* All of it; a byte more at most with each change.
TypeInv ==
    /\ TreeTyped(done.changes + 1) /\ QueueTyped(done.changes + 1) /\ DiskTyped(done.changes + 1)
    /\ ReadsTyped /\ DropTyped /\ DoneTyped /\ OthersTyped

\* What the constants are (PathsAssumption).
LEMMA PathsAre ==
         /\ \A p \in Files \cup Folders \cup Shipped \cup Drops : p \in Names /\ p \in Paths
         /\ \A pair \in Pairs : pair[1] \in Files /\ pair[2] \in Files
         /\ \A n \in Nat : \A v \in Values : <<v>> \in Short(n + 1) /\ Len(<<v>>) = 1
         /\ \A n \in Nat : <<>> \in Short(n) /\ ShippedBytes \in Short(n + 1)
         /\ Names \subseteq Paths
BY PathsAssumption DEF Paths, Names, Short, Bytes, ShippedBytes

\* A sequence over some is one over more.
LEMMA SeqGrows ==
  ASSUME NEW S, NEW T, S \subseteq T, NEW s \in Seq(S)
  PROVE  s \in Seq(T)
OBVIOUS

\* A read, with a field changed.
LEMMA ReadIs ==
  ASSUME NEW r, NEW s, NEW a, r = [path |-> r.path, ahead |-> r.ahead, seen |-> r.seen]
  PROVE  /\ [r EXCEPT !.seen = s] = [path |-> r.path, ahead |-> r.ahead, seen |-> s]
         /\ [r EXCEPT !.ahead = a] = [path |-> r.path, ahead |-> a, seen |-> r.seen]
<1> DEFINE p == r.path  b == r.ahead  t == r.seen
<1>1. r = [path |-> p, ahead |-> b, seen |-> t]
  OBVIOUS
<1> HIDE DEF p, b, t
<1>2. /\ [r EXCEPT !.seen = s] = [path |-> p, ahead |-> b, seen |-> s]
      /\ [r EXCEPT !.ahead = a] = [path |-> p, ahead |-> a, seen |-> t]
  BY <1>1
<1> QED
  BY <1>2 DEF p, b, t

\* What a change does to the tree and the queue, no contents longer than n.
Changed(n) ==
    /\ TreeTyped(n)' /\ reply' \in {"ok", "failed"}
    /\ \/ chain' = chain
       \/ Persistent /\ \E e \in Entries(n) : ~e.made /\ chain' = Append(chain, e)

\* A change that leaves the tree and the queue as they should be.
LEMMA ChangeTyped ==
  ASSUME TypeInv, Asked, NEW asked, Noted(asked), NEW n \in Nat, n = done.changes + 2,
         Changed(n)
  PROVE  TypeInv'
<1>1. done' = [changes |-> done.changes + 1, crashes |-> done.crashes, drops |-> done.drops, asked |-> asked]
  BY DEF TypeInv, DoneTyped, Noted
<1>2. DoneTyped' /\ done'.changes + 1 = n /\ done.changes + 1 = n - 1 /\ n - 1 \in Nat
  BY <1>1, GameFsAssumption DEF TypeInv, DoneTyped, Asked
<1>3. Short(n - 1) \subseteq Short(n) /\ FileMaps(n - 1) \subseteq FileMaps(n)
        /\ Disks(n - 1) \subseteq Disks(n) /\ Entries(n - 1) \subseteq Entries(n)
  BY <1>2, ShortGrows
<1>4. chain \in Seq(Entries(n)) /\ disk \in Disks(n)
  BY <1>2, <1>3, SeqGrows DEF TypeInv, QueueTyped, DiskTyped
<1>5. QueueTyped(n)' /\ Len(chain') \in Nat /\ Len(chain) <= Len(chain')
  <2>1. browser' = browser
    BY DEF Noted
  <2>2. CASE chain' = chain
    BY <1>4, <2>1, <2>2 DEF TypeInv, QueueTyped, Persistent
  <2>3. CASE Persistent /\ \E e \in Entries(n) : ~e.made /\ chain' = Append(chain, e)
    <3>1. PICK e \in Entries(n) : ~e.made /\ chain' = Append(chain, e)
      BY <2>3
    <3>2. chain' \in Seq(Entries(n)) /\ Len(chain') = Len(chain) + 1
      BY <1>4, <3>1
    <3>3. \A i \in DOMAIN chain' : IF i = Len(chain) + 1 THEN chain'[i] = e
                                   ELSE i \in DOMAIN chain /\ chain'[i] = chain[i]
      BY <1>4, <3>1
    <3>4. \A i \in DOMAIN chain' : chain'[i].made => i = 1
      BY <3>1, <3>3 DEF TypeInv, QueueTyped
    <3> QED
      BY <1>4, <2>1, <2>3, <3>2, <3>4 DEF QueueTyped, Persistent
  <2> QED
    BY <2>2, <2>3 DEF Changed
<1>6. DiskTyped(n)'
  <2>1. Settled(disk, chain') \in Disks(n)
    BY <1>4, <1>5, AfterTyped DEF QueueTyped
  <2>2. Settled(disk, chain').files \in FileMaps(n)
    BY <2>1, DiskIs
  <2> QED
    BY <1>2, <1>3, <1>4, <2>2 DEF TypeInv, DiskTyped, Noted
<1>7. ReadsTyped'
  <2> DEFINE new(c) == reads[c].seen \cup Fresh(reads[c].path) \cup {ReadView(View', reads[c].path)}
             next(c) == IF reads[c] = NotReading THEN NotReading ELSE [reads[c] EXCEPT !.seen = new(c)]
  <2>1. reads' = [c \in Clients |-> next(c)]
    BY DEF Noted
  <2>2. ASSUME NEW c \in Clients
        PROVE  /\ next(c) = [path |-> reads[c].path, ahead |-> reads[c].ahead, seen |-> next(c).seen]
               /\ reads[c].path \in Paths /\ reads[c].ahead \in 0..Len(chain')
    <3>1. /\ reads[c] = [path |-> reads[c].path, ahead |-> reads[c].ahead, seen |-> reads[c].seen]
          /\ reads[c].path \in Paths /\ reads[c].ahead \in 0..Len(chain)
      BY DEF TypeInv, ReadsTyped
    <3> HIDE DEF new
    <3>2. [reads[c] EXCEPT !.seen = new(c)]
            = [path |-> reads[c].path, ahead |-> reads[c].ahead, seen |-> new(c)]
      BY <3>1, ReadIs
    <3>3. next(c) = [path |-> reads[c].path, ahead |-> reads[c].ahead, seen |-> next(c).seen]
      <4>1. CASE reads[c] = NotReading
        BY <4>1 DEF NotReading
      <4>2. CASE reads[c] # NotReading
        BY <3>2, <4>2
      <4> QED
        BY <4>1, <4>2
    <3> QED
      BY <1>4, <1>5, <3>1, <3>3
  <2> HIDE DEF next
  <2> QED
    BY <2>1, <2>2 DEF ReadsTyped
<1>8. DropTyped' /\ OthersTyped'
  BY DEF TypeInv, DropTyped, OthersTyped, Noted, Changed
<1> QED
  BY <1>2, <1>5, <1>6, <1>7, <1>8 DEF TypeInv, Changed

\* A change that is queued.
LEMMA NewEntryIs ==
  ASSUME NEW n \in Nat, NEW op \in {"write", "append", "remove", "makeDir", "copy", "rename"},
         NEW p \in Names, NEW q \in Names, NEW s \in Short(n), NEW a \in Nat, a + Len(s) <= n
  PROVE  Entry(op, p, q, s, a) \in Entries(n) /\ ~Entry(op, p, q, s, a).made
BY DEF Entries, Entry

\* The same for one of a path only.
LEMMA PlainIs ==
  ASSUME NEW n \in Nat, NEW op \in {"remove", "makeDir"}, NEW p \in Names
  PROVE  Plain(op, p) \in Entries(n) /\ ~Plain(op, p).made
BY DEF Entries, Entry, Plain, Short

\* Queueing it, where there is a disk.
LEMMA EnqueueIs ==
  ASSUME NEW n, NEW e \in Entries(n), ~e.made, Enqueue(e)
  PROVE  chain' = chain \/ (Persistent /\ \E f \in Entries(n) : ~f.made /\ chain' = Append(chain, f))
BY DEF Enqueue

\* A size put in.
LEMMA PutSizeIs ==
  ASSUME NEW S, NEW f, f \in [DOMAIN f -> S], DOMAIN f \subseteq Names, NEW p \in Names, NEW s \in S
  PROVE  /\ DOMAIN Put(f, p, s) = DOMAIN f \cup {p} /\ DOMAIN Put(f, p, s) \subseteq Names
         /\ Put(f, p, s) \in [DOMAIN Put(f, p, s) -> S]
BY DEF Put

\* A size taken out.
LEMMA DropSizeIs ==
  ASSUME NEW S, NEW f, f \in [DOMAIN f -> S], NEW p
  PROVE  /\ DOMAIN Drop(f, p) = DOMAIN f \ {p}
         /\ Drop(f, p) \in [DOMAIN Drop(f, p) -> S]
BY DEF Drop, Restrict

\* What the types say for the next change, which may add a byte.
LEMMA HeldIs ==
  ASSUME NEW n \in Nat, TypeInv, n = done.changes + 2
  PROVE  /\ n - 1 \in Nat /\ (n - 1) + 1 = n
         /\ nodes \in [DOMAIN nodes -> 0..n] /\ DOMAIN nodes \subseteq Names
         /\ held \in FileMaps(n) /\ DOMAIN held \subseteq DOMAIN nodes \cup Drops
         /\ \A p \in DOMAIN held : held[p] \in Short(n - 1)
         /\ \A p \in DOMAIN nodes : nodes[p] \in Nat /\ nodes[p] <= n - 1 /\ nodes[p] \in 0..n
         /\ dirs \subseteq Paths /\ <<>> \in dirs
<1>0. n - 1 = done.changes + 1 /\ n - 1 \in Nat
  BY DEF TypeInv, DoneTyped
<1>1. TreeTyped(n - 1)
  BY <1>0 DEF TypeInv
<1>2. FileMaps(n - 1) \subseteq FileMaps(n)
  BY <1>0, ShortGrows
<1>3. \A p \in DOMAIN held : held[p] \in Short(n - 1)
  BY <1>1, FileMapIs DEF TreeTyped
<1>4. \A p \in DOMAIN nodes : nodes[p] \in 0..(n - 1) /\ nodes[p] \in 0..n
  BY <1>0, <1>1 DEF TreeTyped
<1>5. nodes \in [DOMAIN nodes -> 0..n]
  <2>1. \A p \in DOMAIN nodes : nodes[p] \in 0..n
    BY <1>4
  <2> QED
    BY <1>1, <2>1 DEF TreeTyped
<1> QED
  BY <1>0, <1>1, <1>2, <1>3, <1>4, <1>5 DEF TreeTyped

\* A change refused.
LEMMA RefusedTyped ==
  ASSUME TypeInv, NEW n \in Nat, n = done.changes + 2, Refused
  PROVE  Changed(n)
BY HeldIs DEF Refused, Changed, TreeTyped, treeVars

\* Contents stored (store).
LEMMA StoreTyped ==
  ASSUME TypeInv, NEW n \in Nat, n = done.changes + 2, NEW p \in Names, NEW bytes \in Short(n),
         Store(p, bytes)
  PROVE  /\ held' \in FileMaps(n) /\ DOMAIN held' \subseteq DOMAIN held \cup {p}
         /\ \/ chain' = chain
            \/ Persistent /\ \E e \in Entries(n) : ~e.made /\ chain' = Append(chain, e)
<1>1. held \in FileMaps(n) /\ p \in Paths
  BY HeldIs DEF Names
<1>2. Len(bytes) \in Nat /\ 0 + Len(bytes) <= n
  BY DEF Short
<1>3. CASE Persistent
  <2>1. held' = Drop(held, p) /\ Enqueue(Entry("write", p, p, bytes, 0))
    BY <1>3 DEF Store
  <2>2. Entry("write", p, p, bytes, 0) \in Entries(n)
        /\ ~Entry("write", p, p, bytes, 0).made
    <3>1. n \in Nat /\ 0 \in Nat
      OBVIOUS
    <3> QED
      BY <1>2, <3>1, NewEntryIs
  <2> QED
    BY <1>1, <2>1, <2>2, DropIs, EnqueueIs
<1>4. CASE ~Persistent
  <2>1. held' = Put(held, p, bytes) /\ chain' = chain
    BY <1>4 DEF Store
  <2> QED
    BY <1>1, <2>1, PutIs, PutHas
<1> QED
  BY <1>3, <1>4

\* A file written.
LEMMA WriteToTyped ==
  ASSUME TypeInv, NEW n \in Nat, n = done.changes + 2, NEW p \in Names, NEW bytes \in Short(n),
         WriteTo(p, bytes)
  PROVE  Changed(n)
<1>1. Len(bytes) \in 0..n /\ n \in Nat
  BY DEF Short
<1>2. nodes' = Put(nodes, p, Len(bytes)) /\ dirs' = dirs \cup Above(p) /\ Store(p, bytes)
        /\ reply' = "ok"
  BY DEF WriteTo, Made
<1>3. Above(p) \subseteq Paths
  BY AboveIs DEF Names
<1>4. DOMAIN nodes' = DOMAIN nodes \cup {p} /\ DOMAIN nodes' \subseteq Names
        /\ nodes' \in [DOMAIN nodes' -> 0..n]
  <2>1. nodes \in [DOMAIN nodes -> 0..n] /\ DOMAIN nodes \subseteq Names
    BY HeldIs
  <2> DEFINE put == Put(nodes, p, Len(bytes))
  <2>2. DOMAIN put = DOMAIN nodes \cup {p} /\ DOMAIN put \subseteq Names
          /\ put \in [DOMAIN put -> 0..n]
    BY <1>1, <2>1, PutSizeIs
  <2>3. nodes' = put
    BY <1>2
  <2> QED
    BY <2>2, <2>3
<1>5. dirs' \subseteq Paths /\ <<>> \in dirs'
  BY <1>2, <1>3, HeldIs
<1>6. DOMAIN held \subseteq DOMAIN nodes \cup Drops
  BY HeldIs
<1> QED
  BY <1>2, <1>4, <1>5, <1>6, StoreTyped DEF Changed, TreeTyped

\* A file appended to.
LEMMA AppendAtTyped ==
  ASSUME TypeInv, NEW n \in Nat, n = done.changes + 2, NEW p \in Names, NEW v \in Values,
         AppendAt(p, v)
  PROVE  Changed(n)
<1> DEFINE at == IF p \in DOMAIN nodes THEN nodes[p] ELSE 0
<1>1. at \in Nat /\ at + 1 <= n /\ at + 1 \in 0..n /\ n \in Nat
  BY HeldIs
<1>2. nodes' = Put(nodes, p, at + 1) /\ dirs' = dirs \cup Above(p) /\ held' = held
        /\ Enqueue(Entry("append", p, p, <<v>>, at)) /\ reply' = "ok"
  BY DEF AppendAt, Made
<1> HIDE DEF at
<1>3. Above(p) \subseteq Paths
  BY AboveIs DEF Names
<1>4. DOMAIN nodes' = DOMAIN nodes \cup {p} /\ DOMAIN nodes' \subseteq Names
        /\ nodes' \in [DOMAIN nodes' -> 0..n]
  <2>1. nodes \in [DOMAIN nodes -> 0..n] /\ DOMAIN nodes \subseteq Names
    BY HeldIs
  <2> DEFINE put == Put(nodes, p, at + 1)
  <2>2. DOMAIN put = DOMAIN nodes \cup {p} /\ DOMAIN put \subseteq Names
          /\ put \in [DOMAIN put -> 0..n]
    BY <1>1, <2>1, PutSizeIs
  <2>3. nodes' = put
    BY <1>2
  <2> QED
    BY <2>2, <2>3
<1>5. dirs' \subseteq Paths /\ <<>> \in dirs'
  BY <1>2, <1>3, HeldIs
<1>6. TreeTyped(n)'
  BY <1>2, <1>4, <1>5, HeldIs DEF TreeTyped
<1>7. <<v>> \in Short(n) /\ Len(<<v>>) = 1
  <2>1. n - 1 \in Nat /\ (n - 1) + 1 = n
    BY HeldIs
  <2> QED
    BY <2>1, PathsAre
<1>8. /\ Entry("append", p, p, <<v>>, at) \in Entries(n)
      /\ ~Entry("append", p, p, <<v>>, at).made
  BY <1>1, <1>7, NewEntryIs
<1> QED
  BY <1>2, <1>6, <1>8, EnqueueIs DEF Changed

\* A file deleted.
LEMMA TakeOutTyped ==
  ASSUME TypeInv, NEW n \in Nat, n = done.changes + 2, NEW p \in Names, TakeOut(p)
  PROVE  Changed(n)
<1>1. n \in Nat /\ 0 \in 0..n /\ <<>> \in Short(n)
  BY PathsAre
<1>2. nodes' = Drop(nodes, p) /\ held' = Drop(held, p) /\ dirs' = dirs
        /\ Enqueue(Plain("remove", p)) /\ reply' = "ok"
  BY DEF TakeOut, Made
<1>3. TreeTyped(n)'
  <2>1. DOMAIN nodes' = DOMAIN nodes \ {p} /\ nodes' \in [DOMAIN nodes' -> 0..n]
    <3>1. nodes \in [DOMAIN nodes -> 0..n]
      BY HeldIs
    <3>2. DOMAIN Drop(nodes, p) = DOMAIN nodes \ {p} /\ Drop(nodes, p) \in [DOMAIN Drop(nodes, p) -> 0..n]
      BY <3>1, DropSizeIs
    <3>3. nodes' = Drop(nodes, p)
      BY <1>2
    <3> QED
      BY <3>2, <3>3
  <2>2. held' \in FileMaps(n) /\ DOMAIN held' = DOMAIN held \ {p}
    <3>1. held \in FileMaps(n)
      BY HeldIs
    <3>2. Drop(held, p) \in FileMaps(n) /\ DOMAIN Drop(held, p) = DOMAIN held \ {p}
      BY <3>1, DropIs
    <3>3. held' = Drop(held, p)
      BY <1>2
    <3> QED
      BY <3>2, <3>3
  <2>3. DOMAIN held' \subseteq DOMAIN nodes' \cup Drops
    <3>1. DOMAIN held \subseteq DOMAIN nodes \cup Drops
      BY HeldIs
    <3> QED
      BY <2>1, <2>2, <3>1
  <2>4. dirs' \subseteq Paths /\ <<>> \in dirs' /\ DOMAIN nodes' \subseteq Names
    BY <1>2, <2>1, HeldIs
  <2> QED
    BY <2>1, <2>2, <2>3, <2>4 DEF TreeTyped
<1>4. Plain("remove", p) \in Entries(n) /\ ~Plain("remove", p).made
  BY PlainIs
<1> QED
  BY <1>2, <1>3, <1>4, EnqueueIs DEF Changed

\* A directory made or removed.
LEMMA DirTyped ==
  ASSUME TypeInv, NEW n \in Nat, n = done.changes + 2, NEW p \in Names,
         PutDir(p) \/ (p # <<>> /\ TakeDir(p))
  PROVE  Changed(n)
<1>1. n \in Nat /\ <<>> \in Short(n) /\ 0 + Len(<<>>) <= n
  BY PathsAre
<1>2. nodes' = nodes /\ held' = held /\ reply' = "ok"
        /\ (dirs' = dirs \cup Above(p) \cup {p} \/ dirs' = dirs \ {p})
        /\ (Enqueue(Plain("makeDir", p)) \/ Enqueue(Plain("remove", p)))
  BY DEF PutDir, TakeDir, Made
<1>3. TreeTyped(n)'
  <2>1. Above(p) \subseteq Paths /\ p \in Paths /\ p # <<>>
    BY AboveIs DEF Names
  <2>2. dirs' \subseteq Paths /\ <<>> \in dirs'
    BY <1>2, <2>1, HeldIs
  <2> QED
    BY <1>2, <2>2, HeldIs DEF TreeTyped
<1>4. /\ Plain("remove", p) \in Entries(n) /\ ~Plain("remove", p).made
      /\ Plain("makeDir", p) \in Entries(n) /\ ~Plain("makeDir", p).made
  BY PlainIs
<1> QED
  BY <1>2, <1>3, <1>4, EnqueueIs DEF Changed

\* A file copied.
LEMMA CopyToTyped ==
  ASSUME TypeInv, NEW n \in Nat, n = done.changes + 2, NEW from \in Names, NEW to \in Names,
         from \in DOMAIN nodes, CopyTo(from, to)
  PROVE  Changed(n)
<1>1. n \in Nat /\ <<>> \in Short(n) /\ 0 + Len(<<>>) <= n
  BY PathsAre
<1>2. nodes' = Put(nodes, to, nodes[from]) /\ dirs' = dirs \cup Above(to) /\ reply' = "ok"
        /\ IF from \in DOMAIN held THEN Store(to, held[from])
           ELSE Enqueue(Entry("copy", from, to, <<>>, 0)) /\ held' = held
  BY DEF CopyTo, Made
<1>3. Above(to) \subseteq Paths
  BY AboveIs DEF Names
<1>4. DOMAIN nodes' = DOMAIN nodes \cup {to} /\ DOMAIN nodes' \subseteq Names
        /\ nodes' \in [DOMAIN nodes' -> 0..n]
  <2>1. nodes \in [DOMAIN nodes -> 0..n] /\ DOMAIN nodes \subseteq Names /\ nodes[from] \in 0..n
    BY HeldIs
  <2> DEFINE put == Put(nodes, to, nodes[from])
  <2>2. DOMAIN put = DOMAIN nodes \cup {to} /\ DOMAIN put \subseteq Names
          /\ put \in [DOMAIN put -> 0..n]
    BY <2>1, PutSizeIs
  <2>3. nodes' = put
    BY <1>2
  <2> QED
    BY <2>2, <2>3
<1>5. dirs' \subseteq Paths /\ <<>> \in dirs'
  BY <1>2, <1>3, HeldIs
<1>6. /\ held' \in FileMaps(n) /\ DOMAIN held' \subseteq DOMAIN held \cup {to}
      /\ \/ chain' = chain
         \/ Persistent /\ \E e \in Entries(n) : ~e.made /\ chain' = Append(chain, e)
  <2>1. CASE from \in DOMAIN held
    <3>1. held[from] \in Short(n)
      BY <2>1, HeldIs, FileMapIs
    <3> QED
      BY <1>2, <2>1, <3>1, StoreTyped
  <2>2. CASE from \notin DOMAIN held
    <3>1. /\ Entry("copy", from, to, <<>>, 0) \in Entries(n)
          /\ ~Entry("copy", from, to, <<>>, 0).made
      BY <1>1, NewEntryIs
    <3> QED
      BY <1>2, <2>2, <3>1, HeldIs, EnqueueIs
  <2> QED
    BY <2>1, <2>2
<1>7. DOMAIN held \subseteq DOMAIN nodes \cup Drops
  BY HeldIs
<1> QED
  BY <1>2, <1>4, <1>5, <1>6, <1>7 DEF Changed, TreeTyped

\* A file moved.
LEMMA MoveToTyped ==
  ASSUME TypeInv, NEW n \in Nat, n = done.changes + 2, NEW from \in Names, NEW to \in Names,
         from \in DOMAIN nodes, MoveTo(from, to)
  PROVE  Changed(n)
<1>1. n \in Nat /\ <<>> \in Short(n) /\ 0 + Len(<<>>) <= n
  BY PathsAre
<1> DEFINE put == Put(nodes, to, nodes[from])
<1>2. nodes' = Drop(put, from) /\ dirs' = dirs \cup Above(to) /\ reply' = "ok"
        /\ IF from \in DOMAIN held
           THEN /\ held' = Drop(IF Persistent THEN Drop(held, to) ELSE Put(held, to, held[from]), from)
                /\ Enqueue(Entry("write", to, to, held[from], 0))
           ELSE Enqueue(Entry("rename", from, to, <<>>, 0)) /\ held' = held
  BY DEF MoveTo, Made
<1>3. Above(to) \subseteq Paths
  BY AboveIs DEF Names
<1>4. DOMAIN nodes' = (DOMAIN nodes \cup {to}) \ {from} /\ DOMAIN nodes' \subseteq Names
        /\ nodes' \in [DOMAIN nodes' -> 0..n]
  <2>1. nodes[from] \in 0..n
    BY HeldIs
  <2>2. DOMAIN put = DOMAIN nodes \cup {to} /\ DOMAIN put \subseteq Names
          /\ put \in [DOMAIN put -> 0..n]
    BY <1>1, <2>1, HeldIs, PutSizeIs
  <2> HIDE DEF put
  <2>3. DOMAIN nodes' = DOMAIN put \ {from} /\ nodes' \in [DOMAIN nodes' -> 0..n]
    BY <1>1, <1>2, <2>2, DropSizeIs
  <2> QED
    BY <2>2, <2>3
<1>5. dirs' \subseteq Paths /\ <<>> \in dirs'
  BY <1>2, <1>3, HeldIs
<1>6. /\ held' \in FileMaps(n) /\ DOMAIN held' \subseteq (DOMAIN held \cup {to}) \ {from}
      /\ \/ chain' = chain
         \/ Persistent /\ \E e \in Entries(n) : ~e.made /\ chain' = Append(chain, e)
  <2>1. CASE from \in DOMAIN held
    <3> DEFINE next == IF Persistent THEN Drop(held, to) ELSE Put(held, to, held[from])
    <3>1. held[from] \in Short(n) /\ held[from] \in Short(n - 1)
      BY <2>1, HeldIs, FileMapIs
    <3>2. next \in FileMaps(n) /\ DOMAIN next \subseteq DOMAIN held \cup {to}
      <4>1. held \in FileMaps(n)
        BY HeldIs
      <4>2. Drop(held, to) \in FileMaps(n) /\ DOMAIN Drop(held, to) = DOMAIN held \ {to}
        BY <4>1, DropIs
      <4>3. Put(held, to, held[from]) \in FileMaps(n)
        BY <3>1, <4>1, PutIs
      <4>4. DOMAIN Put(held, to, held[from]) = DOMAIN held \cup {to}
        BY DEF Put
      <4> QED
        BY <4>2, <4>3, <4>4
    <3>3. held' = Drop(next, from)
      BY <1>2, <2>1
    <3> HIDE DEF next
    <3>4. held' \in FileMaps(n) /\ DOMAIN held' = DOMAIN next \ {from}
      BY <3>2, <3>3, DropIs
    <3>5. /\ Entry("write", to, to, held[from], 0) \in Entries(n)
          /\ ~Entry("write", to, to, held[from], 0).made
      <4>1. 0 + Len(held[from]) <= n /\ 0 \in Nat
        BY <3>1 DEF Short
      <4> QED
        BY <1>1, <3>1, <4>1, NewEntryIs
    <3> QED
      BY <1>2, <2>1, <3>2, <3>4, <3>5, EnqueueIs
  <2>2. CASE from \notin DOMAIN held
    <3>1. /\ Entry("rename", from, to, <<>>, 0) \in Entries(n)
          /\ ~Entry("rename", from, to, <<>>, 0).made
      BY <1>1, NewEntryIs
    <3> QED
      BY <1>2, <2>2, <3>1, HeldIs, EnqueueIs
  <2> QED
    BY <2>1, <2>2
<1>7. DOMAIN held \subseteq DOMAIN nodes \cup Drops
  BY HeldIs
<1>8. DOMAIN held' \subseteq DOMAIN nodes' \cup Drops
  <2>1. ASSUME NEW p \in DOMAIN held' PROVE p \in DOMAIN nodes' \cup Drops
    <3>1. p \in DOMAIN held \cup {to} /\ p # from
      BY <1>6
    <3> QED
      BY <1>4, <1>7, <3>1
  <2> QED
    BY <2>1
<1> HIDE DEF put
<1> QED
  BY <1>2, <1>4, <1>5, <1>6, <1>8 DEF Changed, TreeTyped

\* Every change.
LEMMA ChangesTyped ==
  ASSUME TypeInv, Changing
  PROVE  TypeInv'
<1> USE DEF Changing, Reading
<1>1. PICK n \in Nat : n = done.changes + 2
  BY DEF TypeInv, DoneTyped
<1>2. ASSUME NEW r, Asked, Noted(r), Changed(n) PROVE TypeInv'
  BY <1>1, <1>2, ChangeTyped
<1>3. ASSUME Refused PROVE Changed(n)
  BY <1>1, <1>3, RefusedTyped
<1>4. ASSUME NEW p \in Files, NEW v \in Values, Write(p, v) PROVE TypeInv'
  <2>1. p \in Names /\ <<v>> \in Short(n)
    <3>1. n - 1 \in Nat /\ (n - 1) + 1 = n
      BY <1>1, HeldIs
    <3> QED
      BY <3>1, PathsAre
  <2>2. Changed(n)
    BY <1>1, <1>3, <1>4, <2>1, WriteToTyped DEF Write
  <2> QED
    BY <1>2, <1>4, <2>2 DEF Write
<1>5. ASSUME NEW p \in Files, NEW v \in Values, AppendTo(p, v) PROVE TypeInv'
  <2>1. p \in Names
    BY PathsAre
  <2> DEFINE bytes == (IF p \in DOMAIN held THEN held[p] ELSE <<>>) \o <<v>>
  <2>2. bytes \in Short(n)
    <3>1. held \in FileMaps(n) /\ (p \in DOMAIN held => held[p] \in Short(n - 1)) /\ n - 1 \in Nat
      BY <1>1, HeldIs
    <3>2. <<>> \in Short(n - 1)
      BY <3>1, PathsAre
    <3>3. v \in Bytes
      BY DEF Bytes
    <3> QED
      BY <3>1, <3>2, <3>3 DEF Short
  <2>3. WriteTo(p, bytes) => Changed(n)
    <3> HIDE DEF bytes
    <3> QED
      BY <1>1, <2>1, <2>2, WriteToTyped
  <2>4. AppendAt(p, v) => Changed(n)
    BY <1>1, <2>1, AppendAtTyped
  <2>5. Changed(n)
    BY <1>3, <1>5, <2>3, <2>4 DEF AppendTo
  <2> QED
    BY <1>2, <1>5, <2>5 DEF AppendTo
<1>6. ASSUME NEW p \in Files, Delete(p) PROVE TypeInv'
  <2>1. p \in Names
    BY PathsAre
  <2>2. Changed(n)
    BY <1>1, <1>3, <1>6, <2>1, TakeOutTyped DEF Delete
  <2> QED
    BY <1>2, <1>6, <2>2 DEF Delete
<1>7. ASSUME NEW p \in Folders, MakeDir(p) \/ RemoveDir(p) PROVE TypeInv'
  <2>1. p \in Names /\ p # <<>>
    BY PathsAre DEF Names
  <2>2. Changed(n)
    BY <1>1, <1>3, <1>7, <2>1, DirTyped DEF MakeDir, RemoveDir
  <2>3. Asked /\ \E r : Noted(r)
    BY <1>7 DEF MakeDir, RemoveDir
  <2> QED
    BY <1>2, <2>2, <2>3
<1>8. ASSUME NEW pair \in Pairs, Copy(pair[1], pair[2]) \/ Rename(pair[1], pair[2]) PROVE TypeInv'
  <2>1. pair[1] \in Names /\ pair[2] \in Names
    BY PathsAre
  <2>2. CASE Copy(pair[1], pair[2])
    <3>1. Changed(n)
      BY <1>1, <1>3, <2>2, <2>1, CopyToTyped DEF Copy
    <3> QED
      BY <1>2, <2>2, <3>1 DEF Copy
  <2>3. CASE Rename(pair[1], pair[2])
    <3>1. Changed(n)
      BY <1>1, <1>3, <2>3, <2>1, MoveToTyped DEF Rename
    <3> QED
      BY <1>2, <2>3, <3>1 DEF Rename
  <2> QED
    BY <1>8, <2>2, <2>3
<1> QED
  BY <1>4, <1>5, <1>6, <1>7, <1>8

\* One read begun or ended.
LEMMA OneReadTyped ==
  ASSUME ReadsTyped, NEW c \in Clients, NEW p \in Paths, NEW a \in 0..Len(chain), NEW s,
         reads' = [reads EXCEPT ![c] = [path |-> p, ahead |-> a, seen |-> s]], chain' = chain
  PROVE  ReadsTyped'
<1>1. DOMAIN reads' = Clients /\ reads' = [d \in Clients |-> reads'[d]]
  BY DEF ReadsTyped
<1>2. ASSUME NEW d \in Clients
      PROVE /\ reads'[d] = [path |-> reads'[d].path, ahead |-> reads'[d].ahead, seen |-> reads'[d].seen]
            /\ reads'[d].path \in Paths /\ reads'[d].ahead \in 0..Len(chain)
  <2>1. CASE d = c
    <3>1. reads'[d] = [path |-> p, ahead |-> a, seen |-> s]
      BY <2>1 DEF ReadsTyped
    <3> QED
      BY <3>1
  <2>2. CASE d # c
    <3>1. reads'[d] = reads[d]
      BY <2>2 DEF ReadsTyped
    <3> QED
      BY <3>1 DEF ReadsTyped
  <2> QED
    BY <2>1, <2>2
<1> QED
  BY <1>1, <1>2 DEF ReadsTyped

\* Reads.
LEMMA ReadsStayTyped ==
  ASSUME TypeInv,
         \E c \in Clients : EndRead(c) \/ \E p \in Files : ReadNow(c, p) \/ BeginRead(c, p)
  PROVE  TypeInv'
<1>1. UNCHANGED <<treeVars, diskVars, drop, reply, pageVars, done, browser, past>>
  BY DEF EndRead, ReadNow, BeginRead, StillTheSame
<1>2. ReadsTyped'
  <2>1. PICK c \in Clients : EndRead(c) \/ \E p \in Files : ReadNow(c, p) \/ BeginRead(c, p)
    OBVIOUS
  <2>2. Len(chain) \in Nat /\ chain' = chain
    BY <1>1 DEF TypeInv, QueueTyped, diskVars
  <2>3. CASE EndRead(c)
    <3>1. reads' = [reads EXCEPT ![c] = NotReading]
      BY <2>3 DEF EndRead
    <3>2. 0 \in 0..Len(chain) /\ NotReading = [path |-> <<>>, ahead |-> 0, seen |-> {}] /\ <<>> \in Paths
      BY <2>2 DEF NotReading, Paths
    <3> QED
      BY <2>2, <3>1, <3>2, OneReadTyped DEF TypeInv
  <2>4. ASSUME NEW p \in Files, ReadNow(c, p) PROVE ReadsTyped'
    BY <2>2, <2>4 DEF ReadNow, TypeInv, ReadsTyped
  <2>5. ASSUME NEW p \in Files, BeginRead(c, p) PROVE ReadsTyped'
    <3>1. PICK seen : seen = {ReadView(View, p)}
      OBVIOUS
    <3>2. reads' = [reads EXCEPT ![c] = [path |-> p, ahead |-> Len(chain), seen |-> seen]]
      BY <2>5, <3>1 DEF BeginRead
    <3>3. p \in Paths /\ Len(chain) \in 0..Len(chain)
      BY <2>2, PathsAre
    <3> QED
      BY <2>2, <3>2, <3>3, OneReadTyped DEF TypeInv
  <2> QED
    BY <2>1, <2>3, <2>4, <2>5
<1> QED
  BY <1>1, <1>2 DEF TypeInv, TreeTyped, QueueTyped, DiskTyped, DropTyped, DoneTyped, OthersTyped,
     Persistent, treeVars, diskVars, pageVars

\* The queue.
LEMMA QueueStaysTyped ==
  ASSUME TypeInv, MakeFile \/ CommitFirst \/ Commit
  PROVE  TypeInv'
<1>1. PICK n \in Nat : n = done.changes + 1
  BY DEF TypeInv, DoneTyped
<1>2. disk \in Disks(n) /\ chain \in Seq(Entries(n)) /\ chain # <<>> /\ <<>> \in disk.dirs
        /\ (\A i \in DOMAIN chain : chain[i].made => i = 1) /\ Persistent
  BY <1>1 DEF TypeInv, DiskTyped, QueueTyped, MakeFile, CommitFirst, Commit
<1> DEFINE e == Head(chain)
<1>3. /\ e \in Entries(n) /\ Len(chain) \in Nat /\ Len(chain) >= 1 /\ e = chain[1]
      /\ \A i \in 1..Len(chain) : chain[i] \in Entries(n)
      /\ Tail(chain) \in Seq(Entries(n)) /\ Len(Tail(chain)) = Len(chain) - 1
      /\ \A i \in 1..(Len(chain) - 1) : Tail(chain)[i] = chain[i + 1]
  BY <1>2
<1> HIDE DEF e
<1>4. /\ e.to \in Names /\ e.path \in Names /\ Making(e) \in Entries(n) /\ <<>> \in Short(n)
      /\ Plain("remove", e.path) \in Entries(n)
  BY <1>3, EntryIs, PathsAre
<1>5. UNCHANGED <<treeVars, drop, reply, answers, pageVars, done, browser, past>>
  BY DEF MakeFile, CommitFirst, Commit, QueueKept
<1>6. ASSUME disk' \in Disks(n), <<>> \in disk'.dirs, chain' \in Seq(Entries(n)), 
             \A i \in DOMAIN chain' : chain'[i].made => i = 1, ReadsTyped'
      PROVE TypeInv'
  BY <1>1, <1>2, <1>5, <1>6 DEF TypeInv, TreeTyped, QueueTyped, DiskTyped, DropTyped, DoneTyped,
     OthersTyped, Persistent, treeVars, diskVars, pageVars
<1>7. ASSUME NEW p, NEW s PROVE <<>> \in WriteDisk(disk, p, s).dirs
  BY <1>2 DEF WriteDisk
<1>8. ASSUME Len(chain') = Len(chain), reads' = reads PROVE ReadsTyped'
  BY <1>8 DEF TypeInv, ReadsTyped
<1>9. CASE MakeFile
  <2>1. disk' = WriteDisk(disk, e.to, <<>>) /\ chain' = [chain EXCEPT ![1] = Making(e)]
          /\ reads' = reads
    BY <1>3, <1>9 DEF MakeFile, e
  <2>2. disk' \in Disks(n) /\ <<>> \in disk'.dirs
    BY <1>2, <1>4, <1>7, <2>1, WriteDiskIs
  <2>3. chain' \in Seq(Entries(n)) /\ Len(chain') = Len(chain)
          /\ \A i \in DOMAIN chain' : i # 1 => chain'[i] = chain[i] /\ i \in DOMAIN chain
    BY <1>2, <1>3, <1>4, <2>1
  <2> QED
    BY <1>2, <1>6, <1>8, <2>1, <2>2, <2>3
<1>10. CASE CommitFirst
  <2>1. disk' = WriteDisk(disk, e.to, disk.files[e.path])
        /\ chain' = [chain EXCEPT ![1] = Plain("remove", e.path)]
        /\ reads' = reads /\ e.path \in DOMAIN disk.files
    BY <1>3, <1>10 DEF CommitFirst, Splits, e
  <2>2. disk' \in Disks(n) /\ <<>> \in disk'.dirs
    <3>1. disk.files[e.path] \in Short(n)
      BY <1>2, <2>1, DiskIs
    <3> QED
      BY <1>2, <1>4, <1>7, <2>1, <3>1, WriteDiskIs
  <2>3. chain' \in Seq(Entries(n)) /\ Len(chain') = Len(chain)
          /\ \A i \in DOMAIN chain' : i # 1 => chain'[i] = chain[i] /\ i \in DOMAIN chain
    BY <1>2, <1>3, <1>4, <2>1
  <2> QED
    BY <1>2, <1>6, <1>8, <2>1, <2>2, <2>3
<1>11. CASE Commit
  <2>1. disk' = ApplyEntry(disk, e) /\ chain' = Tail(chain)
    BY <1>11 DEF Commit, e
  <2>2. disk' \in Disks(n)
    BY <1>2, <1>3, <2>1, ApplyEntryIs
  <2>3. <<>> \in disk'.dirs
    <3>1. \A p : <<>> \in MakeDirs(disk, p).dirs
      BY <1>2 DEF MakeDirs
    <3>2. ASSUME NEW d \in Disks(n), <<>> \in d.dirs PROVE <<>> \in RemoveDisk(d, e.path).dirs
      <4>1. e.path # <<>>
        BY <1>4 DEF Names
      <4>2. RemoveDisk(d, e.path).dirs \in {d.dirs, d.dirs \ {e.path}}
        <5>1. e.path \in DOMAIN d.files => RemoveDisk(d, e.path).dirs = d.dirs
          BY DiskIs DEF RemoveDisk
        <5>2. e.path \notin DOMAIN d.files => RemoveDisk(d, e.path).dirs \in {d.dirs, d.dirs \ {e.path}}
          BY DiskIs DEF RemoveDisk
        <5> QED
          BY <5>1, <5>2
      <4> QED
        BY <3>2, <4>1, <4>2
    <3>3. e.op = "makeDir" => <<>> \in ApplyEntry(disk, e).dirs
      BY <1>2 DEF ApplyEntry
    <3>4. e.op = "rename" => <<>> \in ApplyEntry(disk, e).dirs
      <4>1. e.path \in DOMAIN disk.files => WriteDisk(disk, e.to, disk.files[e.path]) \in Disks(n)
        BY <1>2, <1>4, DiskIs, WriteDiskIs
      <4> QED
        BY <1>2, <1>7, <3>1, <3>2, <4>1 DEF ApplyEntry
    <3>5. e.op \in {"write", "append", "remove", "makeDir", "copy", "rename"}
      BY <1>3, EntryIs
    <3> QED
      BY <1>2, <1>7, <2>1, <3>1, <3>2, <3>3, <3>4, <3>5 DEF ApplyEntry
  <2>4. chain' \in Seq(Entries(n)) /\ Len(chain') = Len(chain) - 1
          /\ \A i \in DOMAIN chain' : chain'[i].made => i = 1
    <3>1. ASSUME NEW i \in DOMAIN chain', chain'[i].made PROVE FALSE
      <4>1. i \in 1..(Len(chain) - 1) /\ i + 1 \in DOMAIN chain /\ i + 1 # 1
        BY <1>3, <2>1, <3>1, <1>2
      <4>2. chain'[i] = chain[i + 1]
        BY <1>3, <2>1, <4>1
      <4> QED
        BY <1>2, <3>1, <4>1, <4>2
    <3> QED
      BY <1>3, <2>1, <3>1
  <2>5. ReadsTyped'
    <3> DEFINE next(c) == IF reads[c].ahead = 0 THEN reads[c] ELSE [reads[c] EXCEPT !.ahead = reads[c].ahead - 1]
    <3>1. reads' = [c \in Clients |-> next(c)]
      BY <1>11 DEF Commit
    <3>2. ASSUME NEW c \in Clients
          PROVE /\ next(c) = [path |-> next(c).path, ahead |-> next(c).ahead, seen |-> next(c).seen]
                /\ next(c).path \in Paths /\ next(c).ahead \in 0..Len(chain')
      <4>1. /\ reads[c] = [path |-> reads[c].path, ahead |-> reads[c].ahead, seen |-> reads[c].seen]
            /\ reads[c].path \in Paths /\ reads[c].ahead \in 0..Len(chain)
        BY DEF TypeInv, ReadsTyped
      <4>2. [reads[c] EXCEPT !.ahead = reads[c].ahead - 1]
              = [path |-> reads[c].path, ahead |-> reads[c].ahead - 1, seen |-> reads[c].seen]
        BY <4>1, ReadIs
      <4>3. CASE reads[c].ahead = 0
        BY <1>3, <2>4, <4>1, <4>3
      <4>4. CASE reads[c].ahead # 0
        BY <1>3, <2>4, <4>1, <4>2, <4>4
      <4> QED
        BY <4>3, <4>4
    <3> HIDE DEF next
    <3> QED
      BY <3>1, <3>2 DEF ReadsTyped
  <2> QED
    BY <1>6, <2>2, <2>3, <2>4, <2>5
<1> QED
  BY <1>9, <1>10, <1>11

\* The counters, with one changed.
LEMMA CountIs ==
  ASSUME NEW r, NEW x, NEW y, NEW z, NEW a, NEW t,
         r = [changes |-> x, crashes |-> y, drops |-> z, asked |-> a]
  PROVE  /\ [r EXCEPT !.drops = t] = [changes |-> x, crashes |-> y, drops |-> t, asked |-> a]
         /\ [r EXCEPT !.crashes = t] = [changes |-> x, crashes |-> t, drops |-> z, asked |-> a]
OBVIOUS

\* The directories above files.
LEMMA TreeDirsAre ==
  ASSUME NEW S, S \subseteq Names
  PROVE  UNION {Above(p) : p \in S} \subseteq Paths
<1>1. \A p \in S : Above(p) \subseteq Paths
  BY AboveIs DEF Names
<1> QED
  BY <1>1

\* At first.
LEMMA InitTyped ==
  ASSUME Init
  PROVE  TypeInv
<1>1. Shipped \subseteq Names /\ \A n \in Nat : <<>> \in Short(n) /\ ShippedBytes \in Short(n + 1)
  BY PathsAre
<1>2. done = [changes |-> 0, crashes |-> 0, drops |-> 0, asked |-> NothingAsked] /\ DoneTyped
  BY GameFsAssumption DEF Init, DoneTyped
<1>3. ShippedBytes \in Short(1) /\ Len(ShippedBytes) = 1 /\ <<>> \in Paths
  <2>1. 0 + 1 = 1 /\ 0 \in Nat
    OBVIOUS
  <2> QED
    BY <1>1, <2>1 DEF ShippedBytes, Paths
<1>4. TreeTyped(1)
  <2>1. held \in FileMaps(1) /\ DOMAIN held = Shipped
    BY <1>1, <1>3, FileMapIs DEF Init, FileMaps
  <2>2. nodes \in [DOMAIN nodes -> 0..1] /\ DOMAIN nodes = Shipped
    BY <1>3 DEF Init
  <2>3. dirs \subseteq Paths /\ <<>> \in dirs
    BY <1>1, <1>3, TreeDirsAre DEF Init
  <2> QED
    BY <1>1, <2>1, <2>2, <2>3 DEF TreeTyped
<1>5. QueueTyped(1)
  BY DEF Init, QueueTyped
<1>6. DiskTyped(1)
  <2>1. Nothing \in FileMaps(1)
    BY DEF FileMaps, Nothing
  <2>2. disk = [files |-> Nothing, dirs |-> {<<>>}] /\ past = {Nothing}
    BY DEF Init
  <2> QED
    BY <1>3, <2>1, <2>2 DEF DiskTyped, Disks
<1>7. ReadsTyped
  BY <1>3 DEF Init, ReadsTyped, NotReading
<1>8. DropTyped /\ OthersTyped
  BY DEF Init, DropTyped, OthersTyped
<1> QED
  BY <1>2, <1>4, <1>5, <1>6, <1>7, <1>8 DEF TypeInv

\* A drop.
LEMMA DropsStayTyped ==
  ASSUME TypeInv, Dropping
  PROVE  TypeInv'
<1>1. PICK n \in Nat : n = done.changes + 1 /\ n # 0
  BY DEF TypeInv, DoneTyped
<1>2. UNCHANGED <<chain, reads, reply, answers, loads, browser, past>>
  BY DEF Dropping, DropStart, DropCreate, DropWrite, DropFinish, Beside
<1>3. TreeTyped(n) /\ QueueTyped(n) /\ DiskTyped(n) /\ DropTyped
  BY <1>1 DEF TypeInv
<1>4. ASSUME TreeTyped(n)', disk' \in Disks(n), <<>> \in disk'.dirs, DropTyped', DoneTyped',
             done'.changes = done.changes
      PROVE  TypeInv'
  BY <1>1, <1>2, <1>4 DEF TypeInv, QueueTyped, DiskTyped, ReadsTyped, OthersTyped, Persistent
<1>5. /\ DOMAIN nodes \subseteq Names /\ nodes \in [DOMAIN nodes -> 0..n]
      /\ dirs \subseteq Paths /\ <<>> \in dirs
      /\ held \in FileMaps(n) /\ DOMAIN held \subseteq DOMAIN nodes \cup Drops
      /\ disk \in Disks(n) /\ <<>> \in disk.dirs
  BY <1>3 DEF TreeTyped, DiskTyped
<1>6. \A v \in Values : <<v>> \in Short(n) /\ Len(<<v>>) \in 0..n /\ Len(<<v>>) = 1
  <2>1. n - 1 \in Nat /\ (n - 1) + 1 = n /\ 1 \in 0..n
    BY <1>1
  <2> QED
    BY <2>1, PathsAre
<1>7. <<>> \in Short(n) /\ \A p \in Drops : p \in Names /\ Above(p) \subseteq Paths
  BY <1>1, PathsAre, AboveIs
<1>8. ASSUME NEW p \in Drops, NEW s \in Short(n)
      PROVE  WriteDisk(disk, p, s) \in Disks(n) /\ <<>> \in WriteDisk(disk, p, s).dirs
  BY <1>5, <1>7, WriteDiskIs DEF WriteDisk
<1>9. ASSUME done' = done PROVE DoneTyped' /\ done'.changes = done.changes
  BY <1>9 DEF TypeInv, DoneTyped
<1>10. ASSUME NEW p \in Drops, NEW v \in Values, DropStart(p, v) PROVE TypeInv'
  <2>1. done' = [done EXCEPT !.drops = done.drops + 1] /\ done.drops < MaxDrops
    BY <1>10 DEF DropStart
  <2>2. done = [changes |-> done.changes, crashes |-> done.crashes, drops |-> done.drops,
                asked |-> done.asked]
    BY DEF TypeInv, DoneTyped
  <2>3. done' = [changes |-> done.changes, crashes |-> done.crashes, drops |-> done.drops + 1,
                asked |-> done.asked]
    BY <2>1, <2>2, CountIs
  <2>4. DoneTyped' /\ done'.changes = done.changes
    BY <2>1, <2>3, GameFsAssumption DEF TypeInv, DoneTyped
  <2>5. DropTyped'
    BY <1>10 DEF DropStart, DropTyped
  <2>6. TreeTyped(n)'
    <3>1. held' = Drop(held, p) /\ nodes' = nodes /\ dirs' = dirs \cup Above(p)
      BY <1>10 DEF DropStart
    <3>2. Drop(held, p) \in FileMaps(n) /\ DOMAIN Drop(held, p) = DOMAIN held \ {p}
      BY <1>5, DropIs
    <3> QED
      BY <1>5, <1>7, <3>1, <3>2 DEF TreeTyped
  <2> QED
    BY <1>4, <1>5, <1>10, <2>4, <2>5, <2>6 DEF DropStart
<1>11. ASSUME drop # NoDrop
       PROVE drop.path \in Drops /\ drop.path \in Names /\ drop.path \in Paths /\ drop.bytes \in Short(n)
             /\ drop = [step |-> drop.step, path |-> drop.path, bytes |-> drop.bytes]
             /\ drop.bytes \in {<<v>> : v \in Values} /\ Len(drop.bytes) \in 0..n
  BY <1>3, <1>6, <1>7, <1>11 DEF DropTyped, Names
<1>12. ASSUME drop # NoDrop, NEW step \in {"write", "finish"}, drop' = [drop EXCEPT !.step = step]
       PROVE  DropTyped'
  <2>1. drop' = [step |-> step, path |-> drop.path, bytes |-> drop.bytes]
    BY <1>11, <1>12
  <2> QED
    BY <1>11, <1>12, <2>1 DEF DropTyped
<1>13. ASSUME drop' = NoDrop PROVE DropTyped'
  BY <1>13 DEF DropTyped
<1>14. CASE DropCreate
  <2>1. drop # NoDrop /\ nodes' = nodes /\ dirs' = dirs /\ done' = done
    BY <1>14 DEF DropCreate, NoDrop
  <2>2. drop.path \in Drops /\ drop.bytes \in Short(n)
    BY <1>11, <2>1
  <2>3. TreeTyped(n)'
    <3>1. held' = held \/ held' = Put(held, drop.path, drop.bytes)
      BY <1>14 DEF DropCreate
    <3>2. Put(held, drop.path, drop.bytes) \in FileMaps(n)
            /\ DOMAIN Put(held, drop.path, drop.bytes) = DOMAIN held \cup {drop.path}
      BY <1>5, <1>11, <2>1, PutIs DEF Put
    <3> QED
      BY <1>5, <2>1, <2>2, <3>1, <3>2 DEF TreeTyped
  <2>4. disk' \in Disks(n) /\ <<>> \in disk'.dirs
    <3>1. disk' \in {disk, WriteDisk(disk, drop.path, <<>>), MakeDirs(disk, drop.path)}
      BY <1>14 DEF DropCreate
    <3>2. MakeDirs(disk, drop.path) \in Disks(n) /\ <<>> \in MakeDirs(disk, drop.path).dirs
      <4>1. MakeDirs(disk, drop.path) \in Disks(n)
        BY <1>5, <1>11, <2>1, MakeDirsIs
      <4> QED
        BY <1>5, <4>1 DEF MakeDirs
    <3> QED
      BY <1>5, <1>7, <1>8, <2>2, <3>1, <3>2
  <2>5. DropTyped'
    BY <1>12, <1>13, <1>14, <2>1 DEF DropCreate
  <2> QED
    BY <1>4, <1>9, <2>1, <2>3, <2>4, <2>5
<1>15. CASE DropWrite
  <2>1. drop # NoDrop /\ UNCHANGED treeVars /\ done' = done
    BY <1>15 DEF DropWrite, NoDrop
  <2>2. drop.path \in Drops /\ drop.bytes \in Short(n)
    BY <1>11, <2>1
  <2>3. TreeTyped(n)'
    BY <1>3, <2>1 DEF TreeTyped, treeVars
  <2>4. disk' \in Disks(n) /\ <<>> \in disk'.dirs
    BY <1>5, <1>8, <1>15, <2>2 DEF DropWrite
  <2>5. DropTyped'
    BY <1>12, <1>13, <1>15, <2>1 DEF DropWrite
  <2> QED
    BY <1>4, <1>9, <2>1, <2>3, <2>4, <2>5
<1>16. CASE DropFinish
  <2>1. drop # NoDrop /\ dirs' = dirs /\ held' = held /\ disk' = disk /\ done' = done
          /\ nodes' = Put(nodes, drop.path, Len(drop.bytes)) /\ drop' = NoDrop
    BY <1>16 DEF DropFinish, NoDrop
  <2>2. TreeTyped(n)'
    <3>1. DOMAIN nodes' = DOMAIN nodes \cup {drop.path} /\ DOMAIN nodes' \subseteq Names
             /\ nodes' \in [DOMAIN nodes' -> 0..n]
      <4> DEFINE put == Put(nodes, drop.path, Len(drop.bytes))
      <4>1. nodes \in [DOMAIN nodes -> 0..n] /\ DOMAIN nodes \subseteq Names /\ drop.path \in Names
              /\ Len(drop.bytes) \in 0..n
        BY <1>5, <1>11, <2>1
      <4>2. DOMAIN put = DOMAIN nodes \cup {drop.path} /\ DOMAIN put \subseteq Names
              /\ put \in [DOMAIN put -> 0..n]
        BY <4>1, PutSizeIs
      <4> QED
        BY <2>1, <4>2
    <3> QED
      BY <1>5, <2>1, <3>1 DEF TreeTyped
  <2> QED
    BY <1>4, <1>5, <1>9, <1>13, <2>1, <2>2
<1> QED
  BY <1>10, <1>14, <1>15, <1>16 DEF Dropping

\* The panel's question and answer, and whatever leaves the filesystem alone.
LEMMA ListStaysTyped ==
  ASSUME TypeInv, ListTree \/ (loads' = loads + 1 /\ UNCHANGED <<treeVars, diskVars, reads, drop, reply, done, browser, past>>)
                  \/ (loads' = loads /\ UNCHANGED <<treeVars, diskVars, reads, drop, reply, done, browser, past>>)
  PROVE  TypeInv'
<1>1. UNCHANGED <<treeVars, diskVars, reads, drop, reply, done, browser, past>> /\ loads' \in Nat
  BY DEF ListTree, TypeInv, OthersTyped
<1> QED
  BY <1>1 DEF TypeInv, TreeTyped, QueueTyped, DiskTyped, ReadsTyped, DropTyped, DoneTyped, OthersTyped,
     Persistent, treeVars, diskVars

\* A reload.
LEMMA CrashTyped ==
  ASSUME TypeInv, Crash
  PROVE  TypeInv'
<1>1. PICK n \in Nat : n = done.changes + 1 /\ n # 0
  BY DEF TypeInv, DoneTyped
<1>2. disk \in Disks(n) /\ <<>> \in disk.dirs /\ browser \in Browsers
  BY <1>1 DEF TypeInv, DiskTyped, OthersTyped
<1>3. /\ disk.files \in FileMaps(n) /\ disk.dirs \subseteq Paths
      /\ DOMAIN disk.files \subseteq Names /\ disk.files \in [DOMAIN disk.files -> Short(n)]
  BY <1>2, DiskIs
<1>4. done' = [changes |-> done.changes, crashes |-> done.crashes + 1, drops |-> done.drops,
                asked |-> done.asked] /\ DoneTyped' /\ done'.changes = done.changes
  <2>1. done' = [done EXCEPT !.crashes = done.crashes + 1] /\ done.crashes < MaxCrashes
    BY DEF Crash
  <2>2. done = [changes |-> done.changes, crashes |-> done.crashes, drops |-> done.drops,
                asked |-> done.asked]
    BY DEF TypeInv, DoneTyped
  <2>3. done' = [changes |-> done.changes, crashes |-> done.crashes + 1, drops |-> done.drops,
                asked |-> done.asked]
    BY <2>1, <2>2, CountIs
  <2> QED
    BY <2>1, <2>3, GameFsAssumption DEF TypeInv, DoneTyped
<1>5. ShippedBytes \in Short(n) /\ Len(ShippedBytes) \in 0..n /\ Shipped \subseteq Names
  <2>1. n - 1 \in Nat /\ (n - 1) + 1 = n /\ 1 \in 0..n
    BY <1>1
  <2> QED
    BY <2>1, PathsAre DEF ShippedBytes
<1>6. TreeTyped(n)'
  <2> DEFINE names == Shipped \cup DOMAIN disk.files
  <2>1. /\ held' = [p \in Shipped \ DOMAIN disk.files |-> ShippedBytes]
        /\ nodes' = [p \in names |-> IF p \in DOMAIN disk.files THEN Len(disk.files[p]) ELSE Len(ShippedBytes)]
        /\ dirs' = {<<>>} \cup disk.dirs \cup UNION {Above(p) : p \in names}
    BY DEF Crash, Loaded
  <2>2. names \subseteq Names
    BY <1>3, <1>5
  <2>3. \A p \in DOMAIN disk.files : Len(disk.files[p]) \in 0..n
    BY <1>3 DEF Short
  <2>4. nodes' \in [DOMAIN nodes' -> 0..n] /\ DOMAIN nodes' = names
    BY <1>5, <2>1, <2>3
  <2>5. held' \in FileMaps(n) /\ DOMAIN held' = Shipped \ DOMAIN disk.files
    <3>1. [p \in Shipped \ DOMAIN disk.files |-> ShippedBytes] \in FileMaps(n)
      BY <1>5, FileMapIs
    <3> QED
      BY <2>1, <3>1
  <2>6. dirs' \subseteq Paths /\ <<>> \in dirs'
    <3> HIDE DEF names
    <3>1. <<>> \in Paths
      BY DEF Paths
    <3> QED
      BY <1>3, <2>1, <2>2, <3>1, TreeDirsAre
  <2> QED
    BY <2>2, <2>4, <2>5, <2>6 DEF TreeTyped
<1>7. QueueTyped(n)' /\ DiskTyped(n)'
  BY <1>2, <1>3 DEF QueueTyped, DiskTyped, Crash
<1>8. ReadsTyped' /\ DropTyped' /\ OthersTyped'
  <2>1. <<>> \in Paths
    BY DEF Paths
  <2> QED
    BY <1>2, <2>1 DEF Crash, ReadsTyped, NotReading, DropTyped, OthersTyped
<1> QED
  BY <1>1, <1>4, <1>6, <1>7, <1>8 DEF TypeInv

\* What the runs check of the types follows.
LEMMA TypeIs ==
  ASSUME TypeInv
  PROVE  TypeOK
<1>1. PICK n \in Nat : n = done.changes + 1 /\ n <= MaxChanges + 1
  BY GameFsAssumption DEF TypeInv, DoneTyped
<1>2. TreeTyped(n) /\ QueueTyped(n) /\ DiskTyped(n) /\ ReadsTyped /\ DropTyped /\ DoneTyped /\ OthersTyped
  BY <1>1 DEF TypeInv
<1>3. ASSUME NEW s \in Short(n) PROVE IsBytes(s)
  BY <1>1, GameFsAssumption DEF Short, IsBytes, Bytes, Range
<1>4. ASSUME NEW f \in FileMaps(n) PROVE IsFileMap(f)
  BY <1>3, FileMapIs DEF IsFileMap
<1>5. IsFileMap(held) /\ IsFileMap(disk.files) /\ \A f \in past : IsFileMap(f)
  BY <1>2, <1>4, DiskIs DEF TreeTyped, DiskTyped
<1>6. \A i \in DOMAIN chain : IsBytes(chain[i].bytes) /\ chain[i].op \in {"write", "append", "remove", "makeDir", "copy", "rename"}
  <2>1. \A i \in DOMAIN chain : chain[i] \in Entries(n)
    BY <1>2 DEF QueueTyped
  <2> QED
    BY <1>3, <2>1, EntryIs
<1>7. \A p \in DOMAIN nodes : nodes[p] \in 0..(MaxChanges + 1)
  BY <1>1, <1>2, GameFsAssumption DEF TreeTyped
<1>8. drop.step \in {"none", "create", "write", "finish"}
  BY <1>2 DEF DropTyped, NoDrop
<1> QED
  BY <1>2, <1>5, <1>6, <1>7, <1>8 DEF TypeOK, TreeTyped, QueueTyped, DiskTyped, ReadsTyped, DoneTyped, OthersTyped

-----------------------------------------------------------------------------
(* The tree and the disk: each change on its own.                          *)

\* The tree kept in N (sizes), D (directories) and H (contents in memory), over
\* the disk S that everything queued leads to.
TreeOf(N, D, H, S) == [files |-> [p \in DOMAIN N |-> Contents(H, S, p)], dirs |-> D]
\* No name is both a file and a directory, and files are those of scripts or the client.
Shaped(N, D) == DOMAIN N \subseteq Files \cup Shipped /\ DOMAIN N \cap D = {}
\* With OPFS: what is not held is on the disk, at the size the tree gives, and so are
\* the directories but for the client's.
OnDisk(N, D, H, S) ==
    /\ Shaped(N, D)
    /\ \A p \in DOMAIN H : p \in DOMAIN N /\ p \in Shipped /\ Len(H[p]) = N[p]
    /\ DOMAIN S.files = DOMAIN N \ DOMAIN H
    /\ \A p \in DOMAIN S.files : Len(S.files[p]) = N[p]
    /\ S.dirs \subseteq D /\ D \ S.dirs \subseteq ShippedDirs
\* Without: everything is held.
InMemory(N, D, H) ==
    /\ Shaped(N, D)
    /\ DOMAIN H = DOMAIN N /\ \A p \in DOMAIN H : Len(H[p]) = N[p]

\* What is left when one is taken away.
LEMMA DropAt ==
  ASSUME NEW f, NEW p
  PROVE  /\ DOMAIN Drop(f, p) = DOMAIN f \ {p}
         /\ \A q \in DOMAIN f \ {p} : Drop(f, p)[q] = f[q]
         /\ p \notin DOMAIN f /\ f = [q \in DOMAIN f |-> f[q]] => Drop(f, p) = f
BY DEF Drop, Restrict

\* No file is above a name (NamesApart).
LEMMA ApartIs ==
  ASSUME NamesApart, NEW N, NEW D, Shaped(N, D), NEW p \in Files \cup Folders \cup Shipped
  PROVE  DOMAIN N \cap Above(p) = {} /\ p \notin Above(p) /\ p # <<>>
BY AboveIs, PathsAre DEF NamesApart, Shaped, Names

\* A file written keeps the tree and the disk alike, and is all that changes.
LEMMA WriteOnDisk ==
  ASSUME NamesApart, NEW N, NEW D, NEW H, NEW S, OnDisk(N, D, H, S), NEW p \in Files, p \notin D,
         NEW s
  PROVE  /\ OnDisk(Put(N, p, Len(s)), D \cup Above(p), Drop(H, p), WriteDisk(S, p, s))
         /\ TreeOf(Put(N, p, Len(s)), D \cup Above(p), Drop(H, p), WriteDisk(S, p, s))
              = [files |-> Put(TreeOf(N, D, H, S).files, p, s), dirs |-> D \cup Above(p)]
<1>1. DOMAIN N \cap Above(p) = {} /\ p \notin Above(p)
  BY ApartIs DEF OnDisk
<1> DEFINE M == Put(N, p, Len(s))  E == D \cup Above(p)  G == Drop(H, p)  T == WriteDisk(S, p, s)
<1>2. DOMAIN M = DOMAIN N \cup {p} /\ \A q \in DOMAIN M : M[q] = IF q = p THEN Len(s) ELSE N[q]
  BY DEF Put
<1>3. DOMAIN G = DOMAIN H \ {p} /\ \A q \in DOMAIN G : G[q] = H[q]
  BY DropAt
<1>4. ~Blocked(S, p)
  BY <1>1 DEF Blocked, OnDisk
<1>5. T = [files |-> Put(S.files, p, s), dirs |-> S.dirs \cup Above(p)]
  BY <1>4 DEF WriteDisk
<1>6. /\ T.dirs = S.dirs \cup Above(p) /\ DOMAIN T.files = DOMAIN S.files \cup {p}
      /\ \A q \in DOMAIN T.files : T.files[q] = IF q = p THEN s ELSE S.files[q]
  <2>1. T.files = Put(S.files, p, s) /\ T.dirs = S.dirs \cup Above(p)
    BY <1>5
  <2> HIDE DEF T
  <2> QED
    BY <2>1 DEF Put
<1> HIDE DEF M, G, T
<1>7. OnDisk(M, E, G, T)
  <2>1. Shaped(M, E)
    BY <1>1, <1>2 DEF OnDisk, Shaped
  <2>2. \A q \in DOMAIN G : q \in DOMAIN M /\ q \in Shipped /\ Len(G[q]) = M[q]
    BY <1>2, <1>3 DEF OnDisk
  <2>3. DOMAIN T.files = DOMAIN M \ DOMAIN G
    BY <1>2, <1>3, <1>6 DEF OnDisk
  <2>4. \A q \in DOMAIN T.files : Len(T.files[q]) = M[q]
    BY <1>2, <1>6 DEF OnDisk
  <2>5. T.dirs \subseteq E /\ E \ T.dirs \subseteq ShippedDirs
    BY <1>6 DEF OnDisk
  <2> QED
    BY <2>1, <2>2, <2>3, <2>4, <2>5 DEF OnDisk
<1>8. TreeOf(M, E, G, T) = [files |-> Put(TreeOf(N, D, H, S).files, p, s), dirs |-> E]
  <2> DEFINE old == [q \in DOMAIN N |-> Contents(H, S, q)]
             new == [q \in DOMAIN M |-> Contents(G, T, q)]
  <2>1. new = Put(old, p, s)
    <3>1. DOMAIN S.files = DOMAIN N \ DOMAIN H /\ DOMAIN H \subseteq DOMAIN N
      BY DEF OnDisk
    <3>2. ASSUME NEW q \in DOMAIN M PROVE Contents(G, T, q) = IF q = p THEN s ELSE Contents(H, S, q)
      BY <1>2, <1>3, <1>6, <3>1 DEF Contents
    <3> QED
      BY <1>2, <3>2 DEF Put
  <2> HIDE DEF E
  <2> QED
    BY <2>1 DEF TreeOf
<1> QED
  BY <1>7, <1>8 DEF M, G, T

\* The same in memory.
LEMMA WriteInMemory ==
  ASSUME NamesApart, NEW N, NEW D, NEW H, NEW S, InMemory(N, D, H), NEW p \in Files, p \notin D, NEW s
  PROVE  /\ InMemory(Put(N, p, Len(s)), D \cup Above(p), Put(H, p, s))
         /\ TreeOf(Put(N, p, Len(s)), D \cup Above(p), Put(H, p, s), S)
              = [files |-> Put(TreeOf(N, D, H, S).files, p, s), dirs |-> D \cup Above(p)]
<1>1. DOMAIN N \cap Above(p) = {} /\ p \notin Above(p)
  BY ApartIs DEF InMemory
<1> DEFINE M == Put(N, p, Len(s))  E == D \cup Above(p)  G == Put(H, p, s)
<1>2. DOMAIN M = DOMAIN N \cup {p} /\ \A q \in DOMAIN M : M[q] = IF q = p THEN Len(s) ELSE N[q]
  BY DEF Put
<1>3. DOMAIN G = DOMAIN H \cup {p} /\ \A q \in DOMAIN G : G[q] = IF q = p THEN s ELSE H[q]
  BY DEF Put
<1> HIDE DEF M, G
<1>4. InMemory(M, E, G)
  BY <1>1, <1>2, <1>3 DEF InMemory, Shaped
<1>5. TreeOf(M, E, G, S) = [files |-> Put(TreeOf(N, D, H, S).files, p, s), dirs |-> E]
  <2> DEFINE old == [q \in DOMAIN N |-> Contents(H, S, q)]
             new == [q \in DOMAIN M |-> Contents(G, S, q)]
  <2>1. new = Put(old, p, s)
    <3>1. DOMAIN H = DOMAIN N
      BY DEF InMemory
    <3>2. ASSUME NEW q \in DOMAIN M PROVE Contents(G, S, q) = IF q = p THEN s ELSE Contents(H, S, q)
      BY <1>2, <1>3, <3>1 DEF Contents
    <3> QED
      BY <1>2, <3>2 DEF Put
  <2> HIDE DEF E
  <2> QED
    BY <2>1 DEF TreeOf
<1> QED
  BY <1>4, <1>5 DEF M, G

\* A file removed.
LEMMA RemoveOnDisk ==
  ASSUME NEW n, NEW N, NEW D, NEW H, NEW S \in Disks(n), OnDisk(N, D, H, S), NEW p \in DOMAIN N
  PROVE  /\ OnDisk(Drop(N, p), D, Drop(H, p), RemoveDisk(S, p))
         /\ TreeOf(Drop(N, p), D, Drop(H, p), RemoveDisk(S, p))
              = [files |-> Drop(TreeOf(N, D, H, S).files, p), dirs |-> D]
         /\ p \notin DOMAIN S.files => RemoveDisk(S, p) = S
<1> DEFINE M == Drop(N, p)  G == Drop(H, p)  T == RemoveDisk(S, p)
<1>2. DOMAIN M = DOMAIN N \ {p} /\ \A q \in DOMAIN M : M[q] = N[q]
  BY DropAt
<1>3. DOMAIN G = DOMAIN H \ {p} /\ \A q \in DOMAIN G : G[q] = H[q]
  BY DropAt
<1>4. p \notin DOMAIN S.files => T = S
  <2>1. p \notin S.dirs
    BY DEF OnDisk, Shaped
  <2>2. S = [files |-> S.files, dirs |-> S.dirs]
    BY DiskIs
  <2>3. ASSUME p \notin DOMAIN S.files PROVE T = S
    <3>1. S.dirs \ {p} = S.dirs
      BY <2>1
    <3> QED
      BY <2>2, <2>3, <3>1 DEF RemoveDisk
  <2> QED
    BY <2>3
<1>6. /\ T.dirs = S.dirs /\ DOMAIN T.files = DOMAIN S.files \ {p}
      /\ \A q \in DOMAIN T.files : T.files[q] = S.files[q]
  <2>1. CASE p \in DOMAIN S.files
    <3>1. T = [files |-> Drop(S.files, p), dirs |-> S.dirs]
      BY <2>1, DiskIs DEF RemoveDisk
    <3>2. T.files = Drop(S.files, p) /\ T.dirs = S.dirs
      BY <3>1
    <3> HIDE DEF T
    <3> QED
      BY <3>2 DEF Drop, Restrict
  <2>2. CASE p \notin DOMAIN S.files
    BY <1>4, <2>2
  <2> QED
    BY <2>1, <2>2
<1> HIDE DEF M, G, T
<1>7. OnDisk(M, D, G, T)
  BY <1>2, <1>3, <1>6 DEF OnDisk, Shaped
<1>8. TreeOf(M, D, G, T) = [files |-> Drop(TreeOf(N, D, H, S).files, p), dirs |-> D]
  <2> DEFINE old == [q \in DOMAIN N |-> Contents(H, S, q)]
             new == [q \in DOMAIN M |-> Contents(G, T, q)]
  <2>1. new = Drop(old, p)
    <3>2. ASSUME NEW q \in DOMAIN M PROVE Contents(G, T, q) = Contents(H, S, q)
      BY <1>2, <1>3, <1>6 DEF Contents
    <3> QED
      BY <1>2, <3>2 DEF Drop, Restrict
  <2> QED
    BY <2>1 DEF TreeOf
<1> QED
  BY <1>4, <1>7, <1>8 DEF M, G, T

\* The same in memory.
LEMMA RemoveInMemory ==
  ASSUME NEW N, NEW D, NEW H, NEW S, InMemory(N, D, H), NEW p \in DOMAIN N
  PROVE  /\ InMemory(Drop(N, p), D, Drop(H, p))
         /\ TreeOf(Drop(N, p), D, Drop(H, p), S)
              = [files |-> Drop(TreeOf(N, D, H, S).files, p), dirs |-> D]
<1> DEFINE M == Drop(N, p)  G == Drop(H, p)
<1>2. DOMAIN M = DOMAIN N \ {p} /\ \A q \in DOMAIN M : M[q] = N[q]
  BY DropAt
<1>3. DOMAIN G = DOMAIN H \ {p} /\ \A q \in DOMAIN G : G[q] = H[q]
  BY DropAt
<1> HIDE DEF M, G
<1>7. InMemory(M, D, G)
  BY <1>2, <1>3 DEF InMemory, Shaped
<1>8. TreeOf(M, D, G, S) = [files |-> Drop(TreeOf(N, D, H, S).files, p), dirs |-> D]
  <2> DEFINE old == [q \in DOMAIN N |-> Contents(H, S, q)]
             new == [q \in DOMAIN M |-> Contents(G, S, q)]
  <2>1. new = Drop(old, p)
    <3>2. ASSUME NEW q \in DOMAIN M PROVE Contents(G, S, q) = Contents(H, S, q)
      BY <1>2, <1>3 DEF Contents
    <3> QED
      BY <1>2, <3>2 DEF Drop, Restrict
  <2> QED
    BY <2>1 DEF TreeOf
<1> QED
  BY <1>7, <1>8 DEF M, G

\* A directory made.
LEMMA MakeDirOnDisk ==
  ASSUME NamesApart, NEW n, NEW N, NEW D, NEW H, NEW S \in Disks(n), OnDisk(N, D, H, S),
         NEW p \in Folders, p \notin DOMAIN N \cup D
  PROVE  /\ OnDisk(N, D \cup Above(p) \cup {p}, H, ApplyEntry(S, Plain("makeDir", p)))
         /\ TreeOf(N, D \cup Above(p) \cup {p}, H, ApplyEntry(S, Plain("makeDir", p)))
              = [files |-> TreeOf(N, D, H, S).files, dirs |-> D \cup Above(p) \cup {p}]
<1> DEFINE T == ApplyEntry(S, Plain("makeDir", p))
<1>1. DOMAIN N \cap Above(p) = {} /\ p \notin Above(p)
  BY ApartIs DEF OnDisk
<1>2. ~Blocked(S, p) /\ p \notin DOMAIN S.files
  BY <1>1 DEF Blocked, OnDisk
<1>3. T = [S EXCEPT !.dirs = S.dirs \cup Above(p) \cup {p}]
  BY <1>2 DEF ApplyEntry, Plain, Entry
<1>4. T.files = S.files /\ T.dirs = S.dirs \cup Above(p) \cup {p}
  BY <1>3 DEF Disks
<1> HIDE DEF T
<1> QED
  BY <1>1, <1>4 DEF OnDisk, Shaped, TreeOf, Contents, T

\* The same in memory.
LEMMA MakeDirInMemory ==
  ASSUME NamesApart, NEW N, NEW D, NEW H, NEW S, InMemory(N, D, H),
         NEW p \in Folders, p \notin DOMAIN N \cup D
  PROVE  /\ InMemory(N, D \cup Above(p) \cup {p}, H)
         /\ TreeOf(N, D \cup Above(p) \cup {p}, H, S)
              = [files |-> TreeOf(N, D, H, S).files, dirs |-> D \cup Above(p) \cup {p}]
<1>1. DOMAIN N \cap Above(p) = {} /\ p \notin Above(p)
  BY ApartIs DEF InMemory
<1> QED
  BY <1>1 DEF InMemory, Shaped, TreeOf

\* A directory removed that is empty.
LEMMA RemoveDirOnDisk ==
  ASSUME NEW n, NEW N, NEW D, NEW H, NEW S \in Disks(n), OnDisk(N, D, H, S),
         NEW p \in D, Children(DOMAIN N \cup D, p) = {}
  PROVE  /\ OnDisk(N, D \ {p}, H, ApplyEntry(S, Plain("remove", p)))
         /\ TreeOf(N, D \ {p}, H, ApplyEntry(S, Plain("remove", p)))
              = [files |-> TreeOf(N, D, H, S).files, dirs |-> D \ {p}]
<1> DEFINE T == ApplyEntry(S, Plain("remove", p))
<1>1. p \notin DOMAIN S.files /\ DOMAIN S.files \cup S.dirs \subseteq DOMAIN N \cup D
  BY DEF OnDisk, Shaped
<1>2. Children(DOMAIN S.files \cup S.dirs, p) = {}
  BY <1>1 DEF Children
<1>3. T = [S EXCEPT !.dirs = S.dirs \ {p}]
  BY <1>1, <1>2 DEF ApplyEntry, Plain, Entry, RemoveDisk
<1>4. T.files = S.files /\ T.dirs = S.dirs \ {p}
  BY <1>3 DEF Disks
<1> HIDE DEF T
<1> QED
  BY <1>4 DEF OnDisk, Shaped, TreeOf, Contents, T

\* The same in memory.
LEMMA RemoveDirInMemory ==
  ASSUME NEW N, NEW D, NEW H, NEW S, InMemory(N, D, H), NEW p \in D
  PROVE  /\ InMemory(N, D \ {p}, H)
         /\ TreeOf(N, D \ {p}, H, S) = [files |-> TreeOf(N, D, H, S).files, dirs |-> D \ {p}]
BY DEF InMemory, Shaped, TreeOf

-----------------------------------------------------------------------------
(* The tree and the disk: what a change does, and what it leads to.        *)

\* Either.
Sound(N, D, H, S) == IF Persistent THEN OnDisk(N, D, H, S) ELSE InMemory(N, D, H)

\* The tree says of every file what the disk will have.
TreeInv ==
    /\ Sound(nodes, dirs, held, Settled(disk, chain))

\* What a script sees is the tree over what the queue leads to.
LEMMA ViewIs ==
         View = TreeOf(nodes, dirs, held, Settled(disk, chain))
BY DEF View, TreeOf

\* What the queue leads to after a step.
LEMMA SettledNext ==
  ASSUME browser' = browser
  PROVE  Settled(disk, chain)' = Settled(disk', chain')
BY DEF Settled, ApplyEntry, HasMove

\* The invariant after a step, and what a script sees then.
LEMMA SoundNext ==
  ASSUME browser' = browser, NEW T, T = Settled(disk', chain'),
         Sound(nodes', dirs', held', T)
  PROVE  TreeInv' /\ View' = TreeOf(nodes', dirs', held', T)
<1>1. Settled(disk, chain)' = T
  BY SettledNext
<1>2. View' = TreeOf(nodes', dirs', held', T)
  BY <1>1 DEF View, TreeOf
<1>3. Sound(nodes, dirs, held, Settled(disk, chain))'
  BY <1>1 DEF Sound, Persistent, OnDisk, InMemory, Shaped
<1> QED
  BY <1>2, <1>3 DEF TreeInv

\* What the changes queued lead to, when one more is.
LEMMA Enqueued ==
  ASSUME TypeInv, NEW n \in Nat, n = done.changes + 2, NEW e \in Entries(n), Enqueue(e)
  PROVE  /\ Settled(disk, chain) \in Disks(n)
         /\ IF Persistent THEN Settled(disk, chain') = ApplyEntry(Settled(disk, chain), e)
            ELSE chain' = chain
<1>1. n - 1 = done.changes + 1 /\ n - 1 \in Nat /\ n - 1 <= n
  BY DEF TypeInv, DoneTyped
<1>2. disk \in Disks(n) /\ chain \in Seq(Entries(n))
  <2>1. disk \in Disks(n - 1) /\ chain \in Seq(Entries(n - 1))
    BY <1>1 DEF TypeInv, DiskTyped, QueueTyped
  <2>2. Disks(n - 1) \subseteq Disks(n) /\ Entries(n - 1) \subseteq Entries(n)
    BY <1>1, ShortGrows
  <2> QED
    BY <2>1, <2>2, SeqGrows
<1>3. Settled(disk, chain) \in Disks(n)
  BY <1>2, AfterTyped
<1>4. Settled(disk, Append(chain, e)) = ApplyEntry(Settled(disk, chain), e)
  BY <1>2, SettledAppend
<1> QED
  BY <1>3, <1>4 DEF Enqueue

\* A change refused changes nothing.
LEMMA RefusedSound ==
  ASSUME TypeInv, TreeInv, Refused, disk' = disk, browser' = browser
  PROVE  TreeInv' /\ View' = View
<1> DEFINE S == Settled(disk, chain)
<1>1. nodes' = nodes /\ dirs' = dirs /\ held' = held /\ chain' = chain
  BY DEF Refused, treeVars
<1>2. S = Settled(disk', chain')
  BY <1>1
<1>3. Sound(nodes', dirs', held', S)
  BY <1>1 DEF TreeInv
<1>4. View = TreeOf(nodes', dirs', held', S)
  BY <1>1, ViewIs
<1> HIDE DEF S
<1> QED
  BY <1>2, <1>3, <1>4, SoundNext

\* A file written is what a script sees of it.
LEMMA WriteToSound ==
  ASSUME TypeInv, TreeInv, NamesApart, disk' = disk, browser' = browser,
         NEW n \in Nat, n = done.changes + 2, NEW p \in Files, p \notin dirs, NEW s \in Short(n),
         WriteTo(p, s)
  PROVE  TreeInv' /\ View' = [files |-> Put(View.files, p, s), dirs |-> View.dirs \cup Above(p)]
<1> DEFINE S == Settled(disk, chain)  T == Settled(disk, chain')
<1>1. nodes' = Put(nodes, p, Len(s)) /\ dirs' = dirs \cup Above(p) /\ Store(p, s)
  BY DEF WriteTo
<1>2. Sound(nodes, dirs, held, S) /\ View = TreeOf(nodes, dirs, held, S) /\ View.dirs = dirs
  BY ViewIs DEF TreeInv, View
<1>3. p \in Names /\ Len(s) \in Nat /\ 0 + Len(s) <= n
  BY PathsAre DEF Short
<1>4. T = Settled(disk', chain')
  OBVIOUS
<1>5. CASE Persistent
  <2>1. held' = Drop(held, p) /\ Enqueue(Entry("write", p, p, s, 0))
    BY <1>1, <1>5 DEF Store
  <2>2. Entry("write", p, p, s, 0) \in Entries(n)
    BY <1>3, NewEntryIs
  <2>3. T = ApplyEntry(S, Entry("write", p, p, s, 0))
    BY <1>5, <2>1, <2>2, Enqueued
  <2>4. T = WriteDisk(S, p, s)
    BY <2>3 DEF ApplyEntry, Entry
  <2> HIDE DEF S, T
  <2>5. /\ OnDisk(nodes', dirs', held', T)
        /\ TreeOf(nodes', dirs', held', T)
             = [files |-> Put(View.files, p, s), dirs |-> View.dirs \cup Above(p)]
    BY <1>1, <1>2, <1>5, <2>1, <2>4, WriteOnDisk DEF Sound
  <2> QED
    BY <1>4, <1>5, <2>5, SoundNext DEF Sound
<1>6. CASE ~Persistent
  <2>1. held' = Put(held, p, s) /\ chain' = chain
    BY <1>1, <1>6 DEF Store
  <2>2. T = S
    BY <2>1
  <2> HIDE DEF S, T
  <2>5. /\ InMemory(nodes', dirs', held')
        /\ TreeOf(nodes', dirs', held', T)
             = [files |-> Put(View.files, p, s), dirs |-> View.dirs \cup Above(p)]
    BY <1>1, <1>2, <1>6, <2>1, <2>2, WriteInMemory DEF Sound
  <2> QED
    BY <1>4, <1>6, <2>5, SoundNext DEF Sound
<1> QED
  BY <1>5, <1>6

\* An append on disk is at the end of what is there.
LEMMA AppendAtSound ==
  ASSUME TypeInv, TreeInv, NamesApart, disk' = disk, browser' = browser, Persistent,
         NEW n \in Nat, n = done.changes + 2, NEW p \in Files, p \notin dirs, p \notin DOMAIN held,
         NEW v \in Values, AppendAt(p, v)
  PROVE  TreeInv' /\ View' = [files |-> Put(View.files, p,
                                  (IF p \in DOMAIN View.files THEN View.files[p] ELSE <<>>) \o <<v>>),
                              dirs |-> View.dirs \cup Above(p)]
<1> DEFINE S == Settled(disk, chain)  T == Settled(disk, chain')
           at == IF p \in DOMAIN nodes THEN nodes[p] ELSE 0
           old == IF p \in DOMAIN S.files THEN S.files[p] ELSE <<>>
           s == old \o <<v>>
<1>1. nodes' = Put(nodes, p, at + 1) /\ dirs' = dirs \cup Above(p) /\ held' = held
        /\ Enqueue(Entry("append", p, p, <<v>>, at))
  BY DEF AppendAt
<1>2. OnDisk(nodes, dirs, held, S) /\ View = TreeOf(nodes, dirs, held, S) /\ View.dirs = dirs
  BY ViewIs DEF TreeInv, Sound, View
<1>3. /\ at \in Nat /\ at + 1 <= n /\ p \in Names
      /\ <<v>> \in Short(n) /\ Len(<<v>>) = 1 /\ <<>> \in Short(n)
  <2>1. n - 1 \in Nat /\ (n - 1) + 1 = n
    BY HeldIs
  <2>2. p \in Names /\ <<v>> \in Short(n) /\ Len(<<v>>) = 1 /\ <<>> \in Short(n)
    BY <2>1, PathsAre
  <2>3. \A q \in DOMAIN nodes : nodes[q] \in Nat /\ nodes[q] <= n - 1
    BY HeldIs
  <2> QED
    BY <2>1, <2>2, <2>3
<1>4. /\ Entry("append", p, p, <<v>>, at) \in Entries(n)
  <2> HIDE DEF at
  <2> QED
    BY <1>3, NewEntryIs
<1>5. T = ApplyEntry(S, Entry("append", p, p, <<v>>, at)) /\ S \in Disks(n)
  BY <1>1, <1>4, Enqueued
<1>6. p \in DOMAIN S.files <=> p \in DOMAIN nodes
  BY <1>2 DEF OnDisk
<1>7. old \in Short(n) /\ Len(old) = at
  <2> HIDE DEF S
  <2> QED
    BY <1>2, <1>3, <1>5, <1>6, DiskIs DEF OnDisk
<1>8. Splice(old, at, <<v>>) = s
  <2> DEFINE b == <<v>>
  <2>1. b \in Short(n) /\ at + Len(b) <= n /\ at \in Nat
    BY <1>3
  <2> HIDE DEF old, at, b
  <2>2. Splice(old, at, b) = old \o b
    BY <1>7, <2>1, SpliceIs
  <2> QED
    BY <2>2 DEF b
<1>9. T = WriteDisk(S, p, Splice(old, at, <<v>>))
  BY <1>5 DEF ApplyEntry, Entry
<1>10. Len(s) = at + 1
  <2> HIDE DEF old
  <2> QED
    BY <1>3, <1>7 DEF Short
<1>11. Drop(held, p) = held
  <2>1. held = [q \in DOMAIN held |-> held[q]]
    BY HeldIs, FileMapIs
  <2> QED
    BY <2>1, DropAt
<1>12. old = IF p \in DOMAIN View.files THEN View.files[p] ELSE <<>>
  <2>1. View.files = [q \in DOMAIN nodes |-> Contents(held, S, q)]
    BY <1>2 DEF TreeOf
  <2> HIDE DEF S
  <2> QED
    BY <1>6, <2>1 DEF Contents
<1>13. T = Settled(disk', chain')
  OBVIOUS
<1> HIDE DEF S, T, old, at
<1>14. /\ OnDisk(nodes', dirs', held', T)
       /\ TreeOf(nodes', dirs', held', T)
             = [files |-> Put(View.files, p, s), dirs |-> View.dirs \cup Above(p)]
  <2> HIDE DEF s
  <2> QED
    BY <1>1, <1>2, <1>8, <1>9, <1>10, <1>11, WriteOnDisk
<1>15. TreeInv' /\ View' = TreeOf(nodes', dirs', held', T)
  BY <1>13, <1>14, SoundNext DEF Sound
<1> QED
  BY <1>12, <1>14, <1>15

\* A file deleted is gone.
LEMMA TakeOutSound ==
  ASSUME TypeInv, TreeInv, disk' = disk, browser' = browser,
         NEW n \in Nat, n = done.changes + 2, NEW p \in Files, p \in DOMAIN nodes, TakeOut(p)
  PROVE  TreeInv' /\ View' = [files |-> Drop(View.files, p), dirs |-> View.dirs]
<1> DEFINE S == Settled(disk, chain)  T == Settled(disk, chain')
<1>1. nodes' = Drop(nodes, p) /\ held' = Drop(held, p) /\ dirs' = dirs
        /\ Enqueue(Plain("remove", p))
  BY DEF TakeOut
<1>2. Sound(nodes, dirs, held, S) /\ View = TreeOf(nodes, dirs, held, S) /\ View.dirs = dirs
  BY ViewIs DEF TreeInv, View
<1>3. Plain("remove", p) \in Entries(n)
  BY PathsAre, PlainIs
<1>4. S \in Disks(n) /\ IF Persistent THEN T = ApplyEntry(S, Plain("remove", p)) ELSE chain' = chain
  BY <1>1, <1>3, Enqueued
<1>5. Persistent => T = RemoveDisk(S, p)
  BY <1>4 DEF ApplyEntry, Plain, Entry
<1>6. ~Persistent => T = S
  BY <1>4
<1>7. T = Settled(disk', chain')
  OBVIOUS
<1> HIDE DEF S, T
<1>8. /\ Sound(nodes', dirs', held', T)
      /\ TreeOf(nodes', dirs', held', T) = [files |-> Drop(View.files, p), dirs |-> View.dirs]
  <2>1. CASE Persistent
    BY <1>1, <1>2, <1>4, <1>5, <2>1, RemoveOnDisk DEF Sound
  <2>2. CASE ~Persistent
    BY <1>1, <1>2, <1>6, <2>2, RemoveInMemory DEF Sound
  <2> QED
    BY <2>1, <2>2
<1> QED
  BY <1>7, <1>8, SoundNext

\* A directory made is there.
LEMMA PutDirSound ==
  ASSUME TypeInv, TreeInv, NamesApart, disk' = disk, browser' = browser,
         NEW n \in Nat, n = done.changes + 2, NEW p \in Folders, p \notin DOMAIN nodes \cup dirs,
         PutDir(p)
  PROVE  TreeInv' /\ View' = [files |-> View.files, dirs |-> View.dirs \cup Above(p) \cup {p}]
<1> DEFINE S == Settled(disk, chain)  T == Settled(disk, chain')
<1>1. nodes' = nodes /\ held' = held /\ dirs' = dirs \cup Above(p) \cup {p}
        /\ Enqueue(Plain("makeDir", p))
  BY DEF PutDir
<1>2. Sound(nodes, dirs, held, S) /\ View = TreeOf(nodes, dirs, held, S) /\ View.dirs = dirs
  BY ViewIs DEF TreeInv, View
<1>3. Plain("makeDir", p) \in Entries(n)
  BY PathsAre, PlainIs
<1>4. S \in Disks(n) /\ IF Persistent THEN T = ApplyEntry(S, Plain("makeDir", p)) ELSE chain' = chain
  BY <1>1, <1>3, Enqueued
<1>6. ~Persistent => T = S
  BY <1>4
<1>7. T = Settled(disk', chain')
  OBVIOUS
<1> HIDE DEF S, T
<1>8. /\ Sound(nodes', dirs', held', T)
      /\ TreeOf(nodes', dirs', held', T)
           = [files |-> View.files, dirs |-> View.dirs \cup Above(p) \cup {p}]
  <2>1. CASE Persistent
    BY <1>1, <1>2, <1>4, <2>1, MakeDirOnDisk DEF Sound
  <2>2. CASE ~Persistent
    BY <1>1, <1>2, <1>6, <2>2, MakeDirInMemory DEF Sound
  <2> QED
    BY <2>1, <2>2
<1> QED
  BY <1>7, <1>8, SoundNext

\* A directory removed is gone.
LEMMA TakeDirSound ==
  ASSUME TypeInv, TreeInv, disk' = disk, browser' = browser,
         NEW n \in Nat, n = done.changes + 2, NEW p \in Folders, p \in dirs,
         Children(DOMAIN nodes \cup dirs, p) = {}, TakeDir(p)
  PROVE  TreeInv' /\ View' = [files |-> View.files, dirs |-> View.dirs \ {p}]
<1> DEFINE S == Settled(disk, chain)  T == Settled(disk, chain')
<1>1. nodes' = nodes /\ held' = held /\ dirs' = dirs \ {p}
        /\ Enqueue(Plain("remove", p))
  BY DEF TakeDir
<1>2. Sound(nodes, dirs, held, S) /\ View = TreeOf(nodes, dirs, held, S) /\ View.dirs = dirs
  BY ViewIs DEF TreeInv, View
<1>3. Plain("remove", p) \in Entries(n)
  BY PathsAre, PlainIs
<1>4. S \in Disks(n) /\ IF Persistent THEN T = ApplyEntry(S, Plain("remove", p)) ELSE chain' = chain
  BY <1>1, <1>3, Enqueued
<1>6. ~Persistent => T = S
  BY <1>4
<1>7. T = Settled(disk', chain')
  OBVIOUS
<1> HIDE DEF S, T
<1>8. /\ Sound(nodes', dirs', held', T)
      /\ TreeOf(nodes', dirs', held', T) = [files |-> View.files, dirs |-> View.dirs \ {p}]
  <2>1. CASE Persistent
    BY <1>1, <1>2, <1>4, <2>1, RemoveDirOnDisk DEF Sound
  <2>2. CASE ~Persistent
    BY <1>1, <1>2, <1>6, <2>2, RemoveDirInMemory DEF Sound
  <2> QED
    BY <2>1, <2>2
<1> QED
  BY <1>7, <1>8, SoundNext

\* To stop holding what is not held is to do nothing.
LEMMA HeldDrop ==
  ASSUME TypeInv, NEW p, p \notin DOMAIN held
  PROVE  Drop(held, p) = held
<1>1. \E n : held \in FileMaps(n)
  BY DEF TypeInv, TreeTyped
<1>2. held = [q \in DOMAIN held |-> held[q]]
  BY <1>1, FileMapIs
<1> QED
  BY <1>2, DropAt

\* A copy is a write of what is there.
LEMMA CopyToSound ==
  ASSUME TypeInv, TreeInv, NamesApart, ShippedApart, disk' = disk, browser' = browser,
         NEW n \in Nat, n = done.changes + 2, NEW pair \in Pairs,
         NEW from, NEW to, from = pair[1], to = pair[2],
         from \in DOMAIN nodes, to \notin dirs, CopyTo(from, to)
  PROVE  /\ TreeInv'
         /\ View' = [files |-> Put(View.files, to, View.files[from]), dirs |-> View.dirs \cup Above(to)]
<1> DEFINE S == Settled(disk, chain)  T == Settled(disk, chain')
           s == Contents(held, S, from)
<1>1. nodes' = Put(nodes, to, nodes[from]) /\ dirs' = dirs \cup Above(to)
        /\ IF from \in DOMAIN held THEN Store(to, held[from])
           ELSE Enqueue(Entry("copy", from, to, <<>>, 0)) /\ held' = held
  BY DEF CopyTo
<1>2. Sound(nodes, dirs, held, S) /\ View = TreeOf(nodes, dirs, held, S) /\ View.dirs = dirs
  BY ViewIs DEF TreeInv, View
<1>3. /\ from \in Names /\ to \in Names /\ to \in Files /\ from # to /\ to \notin Shipped
      /\ from \in Files
  BY PathsAre DEF NamesApart, ShippedApart
<1>4. T = Settled(disk', chain')
  OBVIOUS
<1>5. View.files[from] = s
  <2>1. View.files = [q \in DOMAIN nodes |-> Contents(held, S, q)]
    BY <1>2 DEF TreeOf
  <2> HIDE DEF S
  <2> QED
    BY <2>1
<1>6. nodes[from] = Len(s)
  <2> HIDE DEF S
  <2>1. CASE Persistent
    BY <1>2, <2>1 DEF Sound, OnDisk, Contents
  <2>2. CASE ~Persistent
    BY <1>2, <2>2 DEF Sound, InMemory, Contents
  <2> QED
    BY <2>1, <2>2
<1>7. CASE Persistent
  <2>1. held' = Drop(held, to) /\ T = WriteDisk(S, to, s)
    <3>1. CASE from \in DOMAIN held
      <4>1. held[from] \in Short(n) /\ s = held[from] /\ Len(s) \in Nat /\ 0 + Len(s) <= n
        <5>1. held[from] \in Short(n - 1) /\ n - 1 \in Nat
          BY <3>1, HeldIs
        <5> QED
          BY <3>1, <5>1 DEF Short, Contents
      <4>2. held' = Drop(held, to) /\ Enqueue(Entry("write", to, to, s, 0))
        BY <1>1, <1>7, <3>1, <4>1 DEF Store
      <4>3. Entry("write", to, to, s, 0) \in Entries(n)
        <5> HIDE DEF s
        <5> QED
          BY <1>3, <4>1, NewEntryIs
      <4>4. T = ApplyEntry(S, Entry("write", to, to, s, 0))
        BY <1>7, <4>2, <4>3, Enqueued
      <4> QED
        BY <4>2, <4>4 DEF ApplyEntry, Entry
    <3>2. CASE from \notin DOMAIN held
      <4>1. to \notin DOMAIN held
        BY <1>2, <1>3, <1>7 DEF Sound, OnDisk
      <4>2. held' = Drop(held, to) /\ Enqueue(Entry("copy", from, to, <<>>, 0))
        BY <1>1, <3>2, <4>1, HeldDrop
      <4>3. Entry("copy", from, to, <<>>, 0) \in Entries(n)
        <5>1. <<>> \in Short(n) /\ 0 + Len(<<>>) <= n
          BY PathsAre
        <5> QED
          BY <1>3, <5>1, NewEntryIs
      <4>4. T = ApplyEntry(S, Entry("copy", from, to, <<>>, 0))
        BY <1>7, <4>2, <4>3, Enqueued
      <4>5. from \in DOMAIN S.files /\ s = S.files[from]
        BY <1>2, <1>7, <3>2 DEF Sound, OnDisk, Contents
      <4>6. T = WriteDisk(S, to, S.files[from])
        BY <4>4, <4>5 DEF ApplyEntry, Entry
      <4> QED
        BY <4>2, <4>5, <4>6
    <3> QED
      BY <3>1, <3>2
  <2> HIDE DEF S, T, s
  <2>2. /\ OnDisk(nodes', dirs', held', T)
        /\ TreeOf(nodes', dirs', held', T)
             = [files |-> Put(View.files, to, s), dirs |-> View.dirs \cup Above(to)]
    BY <1>1, <1>2, <1>3, <1>6, <1>7, <2>1, WriteOnDisk DEF Sound
  <2> QED
    BY <1>4, <1>5, <1>7, <2>2, SoundNext DEF Sound
<1>8. CASE ~Persistent
  <2>1. held' = Put(held, to, s) /\ chain' = chain
    BY <1>1, <1>2, <1>8 DEF Store, Sound, InMemory, Contents
  <2>2. T = S
    BY <2>1
  <2> HIDE DEF S, T, s
  <2>3. /\ InMemory(nodes', dirs', held')
        /\ TreeOf(nodes', dirs', held', T)
             = [files |-> Put(View.files, to, s), dirs |-> View.dirs \cup Above(to)]
    BY <1>1, <1>2, <1>3, <1>6, <1>8, <2>1, <2>2, WriteInMemory DEF Sound
  <2> QED
    BY <1>4, <1>5, <1>8, <2>3, SoundNext DEF Sound
<1> QED
  BY <1>7, <1>8

\* A file moved is written, and removed where it was.
LEMMA MoveToSound ==
  ASSUME TypeInv, TreeInv, NamesApart, ShippedApart, disk' = disk, browser' = browser,
         NEW n \in Nat, n = done.changes + 2, NEW pair \in Pairs,
         NEW from, NEW to, from = pair[1], to = pair[2],
         from \in DOMAIN nodes, to \notin dirs, MoveTo(from, to)
  PROVE  /\ TreeInv'
         /\ View' = [files |-> Drop(Put(View.files, to, View.files[from]), from),
                     dirs |-> View.dirs \cup Above(to)]
<1> DEFINE S == Settled(disk, chain)  T == Settled(disk, chain')
           s == Contents(held, S, from)
           N == Put(nodes, to, nodes[from])  D == dirs \cup Above(to)
<1>1. nodes' = Drop(N, from) /\ dirs' = D
        /\ IF from \in DOMAIN held
           THEN /\ held' = Drop(IF Persistent THEN Drop(held, to) ELSE Put(held, to, held[from]), from)
                /\ Enqueue(Entry("write", to, to, held[from], 0))
           ELSE Enqueue(Entry("rename", from, to, <<>>, 0)) /\ held' = held
  BY DEF MoveTo
<1>2. Sound(nodes, dirs, held, S) /\ View = TreeOf(nodes, dirs, held, S) /\ View.dirs = dirs
  BY ViewIs DEF TreeInv, View
<1>3. /\ from \in Names /\ to \in Names /\ to \in Files /\ from # to /\ to \notin Shipped
      /\ from \in Files
  BY PathsAre DEF NamesApart, ShippedApart
<1>4. T = Settled(disk', chain')
  OBVIOUS
<1>5. View.files[from] = s
  <2>1. View.files = [q \in DOMAIN nodes |-> Contents(held, S, q)]
    BY <1>2 DEF TreeOf
  <2> HIDE DEF S
  <2> QED
    BY <2>1
<1>6. nodes[from] = Len(s)
  <2> HIDE DEF S
  <2>1. CASE Persistent
    BY <1>2, <2>1 DEF Sound, OnDisk, Contents
  <2>2. CASE ~Persistent
    BY <1>2, <2>2 DEF Sound, InMemory, Contents
  <2> QED
    BY <2>1, <2>2
<1>7. from \in DOMAIN N
  BY DEF Put
<1>8. CASE Persistent
  <2> DEFINE H == Drop(held, to)  C == WriteDisk(S, to, s)
  <2>1. S \in Disks(n) /\ s \in Short(n)
    <3>1. S \in Disks(n)
      <4>1. Plain("remove", to) \in Entries(n)
        BY <1>3, PlainIs
      <4>2. n - 1 \in Nat /\ n - 1 <= n
        BY HeldIs
      <4>3. disk \in Disks(n - 1) /\ chain \in Seq(Entries(n - 1)) /\ n - 1 = done.changes + 1
        BY DEF TypeInv, DiskTyped, QueueTyped, DoneTyped
      <4>4. S \in Disks(n - 1)
        BY <4>2, <4>3, AfterTyped
      <4> HIDE DEF S
      <4> QED
        BY <4>2, <4>4, ShortGrows
    <3>2. from \in DOMAIN held => held[from] \in Short(n)
      <4>1. from \in DOMAIN held => held[from] \in Short(n - 1) /\ n - 1 \in Nat
        BY HeldIs
      <4> QED
        BY <4>1 DEF Short
    <3>3. from \notin DOMAIN held => from \in DOMAIN S.files
      BY <1>2, <1>8 DEF Sound, OnDisk
    <3> HIDE DEF S
    <3> QED
      BY <3>1, <3>2, <3>3, DiskIs DEF Contents
  <2>2. held' = Drop(H, from) /\ T = RemoveDisk(C, from)
    <3>1. CASE from \in DOMAIN held
      <4>1. s = held[from] /\ Len(s) \in Nat /\ 0 + Len(s) <= n
        BY <2>1, <3>1 DEF Short, Contents
      <4>2. held' = Drop(H, from) /\ Enqueue(Entry("write", to, to, s, 0))
        BY <1>1, <1>8, <3>1, <4>1
      <4>3. Entry("write", to, to, s, 0) \in Entries(n)
        <5> HIDE DEF s
        <5> QED
          BY <1>3, <2>1, <4>1, NewEntryIs
      <4>4. T = ApplyEntry(S, Entry("write", to, to, s, 0))
        BY <1>8, <4>2, <4>3, Enqueued
      <4>5. T = C
        BY <4>4 DEF ApplyEntry, Entry
      <4> HIDE DEF S, T, s
      <4>6. OnDisk(N, D, H, C) /\ C \in Disks(n)
        BY <1>2, <1>3, <1>6, <1>8, <2>1, WriteOnDisk, WriteDiskIs DEF Sound
      <4>7. from \notin DOMAIN C.files
        <5>1. from \in DOMAIN H
          BY <1>3, <3>1 DEF Drop, Restrict
        <5> QED
          BY <4>6, <5>1 DEF OnDisk
      <4> HIDE DEF C, N, D, H
      <4>8. RemoveDisk(C, from) = C
        BY <1>7, <4>6, <4>7, RemoveOnDisk
      <4> QED
        BY <4>2, <4>5, <4>8
    <3>2. CASE from \notin DOMAIN held
      <4>1. to \notin DOMAIN held
        BY <1>2, <1>3, <1>8 DEF Sound, OnDisk
      <4>2. held' = Drop(H, from) /\ Enqueue(Entry("rename", from, to, <<>>, 0))
        BY <1>1, <3>2, <4>1, HeldDrop
      <4>3. Entry("rename", from, to, <<>>, 0) \in Entries(n)
        <5>1. <<>> \in Short(n) /\ 0 + Len(<<>>) <= n
          BY PathsAre
        <5> QED
          BY <1>3, <5>1, NewEntryIs
      <4>4. T = ApplyEntry(S, Entry("rename", from, to, <<>>, 0))
        BY <1>8, <4>2, <4>3, Enqueued
      <4>5. from \in DOMAIN S.files /\ s = S.files[from]
        BY <1>2, <1>8, <3>2 DEF Sound, OnDisk, Contents
      <4>6. ~Blocked(S, to)
        <5>1. DOMAIN nodes \cap Above(to) = {}
          BY <1>2, <1>3, <1>8, ApartIs DEF Sound, OnDisk
        <5> QED
          BY <1>2, <1>8, <5>1 DEF Sound, OnDisk, Blocked
      <4>7. T = RemoveDisk(WriteDisk(S, to, S.files[from]), from)
        <5> HIDE DEF S
        <5> QED
          BY <1>3, <4>4, <4>5, <4>6 DEF ApplyEntry, Entry
      <4> QED
        BY <4>2, <4>5, <4>7
    <3> QED
      BY <3>1, <3>2
  <2> HIDE DEF S, T, s
  <2>3. /\ OnDisk(N, D, H, C) /\ C \in Disks(n)
        /\ TreeOf(N, D, H, C) = [files |-> Put(View.files, to, s), dirs |-> D]
    BY <1>2, <1>3, <1>6, <1>8, <2>1, WriteOnDisk, WriteDiskIs DEF Sound
  <2> HIDE DEF C, H, N, D
  <2>4. /\ OnDisk(nodes', dirs', held', T)
        /\ TreeOf(nodes', dirs', held', T) = [files |-> Drop(Put(View.files, to, s), from), dirs |-> D]
    BY <1>1, <1>7, <2>2, <2>3, RemoveOnDisk
  <2>5. D = View.dirs \cup Above(to)
    BY <1>2 DEF D
  <2> QED
    BY <1>4, <1>5, <1>8, <2>4, <2>5, SoundNext DEF Sound
<1>9. CASE ~Persistent
  <2> DEFINE H == Put(held, to, s)
  <2>1. held' = Drop(H, from) /\ chain' = chain
    BY <1>1, <1>2, <1>9 DEF Enqueue, Sound, InMemory, Contents
  <2>2. T = S
    BY <2>1
  <2> HIDE DEF S, T, s
  <2>3. /\ InMemory(N, D, H)
        /\ TreeOf(N, D, H, T) = [files |-> Put(View.files, to, s), dirs |-> D]
    BY <1>2, <1>3, <1>6, <1>9, <2>2, WriteInMemory DEF Sound
  <2> HIDE DEF H, N, D
  <2>4. /\ InMemory(nodes', dirs', held')
        /\ TreeOf(nodes', dirs', held', T) = [files |-> Drop(Put(View.files, to, s), from), dirs |-> D]
    BY <1>1, <1>7, <2>1, <2>3, RemoveInMemory
  <2>5. D = View.dirs \cup Above(to)
    BY <1>2 DEF D
  <2> QED
    BY <1>4, <1>5, <1>9, <2>4, <2>5, SoundNext DEF Sound
<1> QED
  BY <1>8, <1>9

\* The first half of a change leads where the whole of it does.
LEMMA HalvesLead ==
  ASSUME TypeInv, MakeFile \/ CommitFirst
  PROVE  /\ Len(chain') = Len(chain) /\ Len(chain) \in Nat /\ Len(chain) # 0
         /\ \A n \in 1..Len(chain) : After(disk', chain')[n] = After(disk, chain)[n]
         /\ Settled(disk', chain') = Settled(disk, chain)
<1>1. PICK n \in Nat : n = done.changes + 1
  BY DEF TypeInv, DoneTyped
<1>2. chain \in Seq(Entries(n)) /\ chain # <<>>
  BY <1>1 DEF TypeInv, QueueTyped, MakeFile, CommitFirst
<1>3. Head(chain) = chain[1] /\ chain[1] \in Entries(n) /\ Len(chain) \in Nat /\ Len(chain) # 0
  BY <1>2
<1>4. \E e : chain' = [chain EXCEPT ![1] = e] /\ ApplyEntry(disk', e) = ApplyEntry(disk, chain[1])
  <2>1. CASE MakeFile
    <3>1. chain' = [chain EXCEPT ![1] = Making(chain[1])] /\ Creates(chain[1])
            /\ disk' = WriteDisk(disk, chain[1].to, <<>>)
      BY <1>3, <2>1 DEF MakeFile
    <3>2. ApplyEntry(disk', Making(chain[1])) = ApplyEntry(disk, chain[1])
      BY <1>3, <3>1, MadeFirst
    <3> QED
      BY <3>1, <3>2
  <2>2. CASE CommitFirst
    <3>1. chain' = [chain EXCEPT ![1] = Plain("remove", chain[1].path)] /\ Splits(chain[1])
            /\ disk' = WriteDisk(disk, chain[1].to, disk.files[chain[1].path])
      BY <1>3, <2>2 DEF CommitFirst
    <3>2. ApplyEntry(disk', Plain("remove", chain[1].path)) = ApplyEntry(disk, chain[1])
      BY <1>3, <3>1, RemovedAfter
    <3> QED
      BY <3>1, <3>2
  <2> QED
    BY <2>1, <2>2
<1>5. PICK e : chain' = [chain EXCEPT ![1] = e] /\ ApplyEntry(disk', e) = ApplyEntry(disk, chain[1])
  BY <1>4
<1>6. Len(chain') = Len(chain) /\ chain'[1] = e /\ \A i \in 2..Len(chain) : chain'[i] = chain[i]
  BY <1>2, <1>3, <1>5
<1>7. PICK queue, other, d, c : queue = chain /\ other = chain' /\ d = disk /\ c = disk'
  OBVIOUS
<1>8. /\ Len(queue) \in Nat /\ Len(queue) # 0 /\ Len(other) = Len(queue)
      /\ \A i \in 2..Len(queue) : other[i] = queue[i]
      /\ ApplyEntry(c, other[1]) = ApplyEntry(d, queue[1])
  BY <1>3, <1>5, <1>6, <1>7
<1>9. \A k \in 1..Len(queue) : After(c, other)[k] = After(d, queue)[k]
  BY <1>8, AfterFirst
<1>10. Settled(c, other) = Settled(d, queue)
  BY <1>8, SettledFirst
<1> QED
  BY <1>3, <1>6, <1>7, <1>9, <1>10

\* A change carried out: the rest leads where all did.
LEMMA CommitLeads ==
  ASSUME TypeInv, Commit
  PROVE  /\ Len(chain') = Len(chain) - 1 /\ Len(chain) \in Nat /\ Len(chain) # 0
         /\ \A n \in 0..(Len(chain) - 1) : After(disk', chain')[n] = After(disk, chain)[n + 1]
         /\ Settled(disk', chain') = Settled(disk, chain)
<1>1. PICK n \in Nat : n = done.changes + 1
  BY DEF TypeInv, DoneTyped
<1> DEFINE E == Entries(n)
<1>2. chain \in Seq(E) /\ chain # <<>> /\ disk' = ApplyEntry(disk, Head(chain)) /\ chain' = Tail(chain)
  BY <1>1 DEF TypeInv, QueueTyped, Commit
<1> HIDE DEF E
<1>3. Len(chain') = Len(chain) - 1 /\ Len(chain) \in Nat /\ Len(chain) # 0
  BY <1>2
<1>4. \A k \in 0..(Len(chain) - 1) :
        After(ApplyEntry(disk, Head(chain)), Tail(chain))[k] = After(disk, chain)[k + 1]
  BY <1>2, AfterTail
<1>5. Settled(ApplyEntry(disk, Head(chain)), Tail(chain)) = Settled(disk, chain)
  BY <1>2, SettledTail
<1> QED
  BY <1>2, <1>3, <1>4, <1>5

\* The queue changes nothing a script sees.
LEMMA QueueSound ==
  ASSUME TypeInv, TreeInv, MakeFile \/ CommitFirst \/ Commit
  PROVE  TreeInv' /\ View' = View
<1>1. Settled(disk', chain') = Settled(disk, chain)
  BY HalvesLead, CommitLeads
<1>2. nodes' = nodes /\ dirs' = dirs /\ held' = held /\ browser' = browser
  BY DEF MakeFile, CommitFirst, Commit, QueueKept, treeVars
<1>3. PICK T : T = Settled(disk, chain)
  OBVIOUS
<1>4. Sound(nodes', dirs', held', T) /\ View = TreeOf(nodes', dirs', held', T)
  BY <1>2, <1>3, ViewIs DEF TreeInv
<1> QED
  BY <1>1, <1>2, <1>3, <1>4, SoundNext

\* Nor does whatever leaves the files alone.
LEMMA ReadsSound ==
  ASSUME TreeInv, UNCHANGED <<nodes, dirs, held, disk, chain, browser>>
  PROVE  TreeInv' /\ View' = View
BY SettledNext DEF TreeInv, Sound, OnDisk, InMemory, Shaped, Persistent, View

\* Every change a script makes.
LEMMA ChangesSound ==
  ASSUME TypeInv, TreeInv, NamesApart, ShippedApart, Changing
  PROVE  TreeInv'
<1> USE DEF Changing, Reading
<1>1. PICK n \in Nat : n = done.changes + 2
  BY DEF TypeInv, DoneTyped
<1>2. disk' = disk /\ browser' = browser
  BY DEF Write, AppendTo, Delete, MakeDir, RemoveDir, Copy, Rename, Noted
<1>3. ASSUME Refused PROVE TreeInv'
  BY <1>2, <1>3, RefusedSound
<1>4. ASSUME NEW p \in Files, NEW v \in Values, Write(p, v) PROVE TreeInv'
  <2>1. <<v>> \in Short(n)
    <3>1. n - 1 \in Nat /\ (n - 1) + 1 = n
      BY <1>1, HeldIs
    <3> QED
      BY <3>1, PathsAre
  <2> QED
    BY <1>1, <1>2, <1>3, <1>4, <2>1, WriteToSound DEF Write
<1>5. ASSUME NEW p \in Files, NEW v \in Values, AppendTo(p, v) PROVE TreeInv'
  <2> DEFINE bytes == (IF p \in DOMAIN held THEN held[p] ELSE <<>>) \o <<v>>
  <2>2. bytes \in Short(n)
    <3>1. held \in FileMaps(n) /\ (p \in DOMAIN held => held[p] \in Short(n - 1)) /\ n - 1 \in Nat
      BY <1>1, HeldIs
    <3>2. <<>> \in Short(n - 1)
      BY <3>1, PathsAre
    <3>3. v \in Bytes
      BY DEF Bytes
    <3> QED
      BY <3>1, <3>2, <3>3 DEF Short
  <2>3. p \notin dirs /\ WriteTo(p, bytes) => TreeInv'
    <3> HIDE DEF bytes
    <3> QED
      BY <1>1, <1>2, <2>2, WriteToSound
  <2>4. p \notin dirs /\ p \notin DOMAIN held /\ Persistent /\ AppendAt(p, v) => TreeInv'
    BY <1>1, <1>2, AppendAtSound
  <2> QED
    BY <1>3, <1>5, <2>3, <2>4 DEF AppendTo
<1>6. ASSUME NEW p \in Files, Delete(p) PROVE TreeInv'
  BY <1>1, <1>2, <1>3, <1>6, TakeOutSound DEF Delete
<1>7. ASSUME NEW p \in Folders, MakeDir(p) PROVE TreeInv'
  BY <1>1, <1>2, <1>3, <1>7, PutDirSound DEF MakeDir
<1>8. ASSUME NEW p \in Folders, RemoveDir(p) PROVE TreeInv'
  BY <1>1, <1>2, <1>3, <1>8, TakeDirSound DEF RemoveDir
<1>9. ASSUME NEW pair \in Pairs, Copy(pair[1], pair[2]) PROVE TreeInv'
  BY <1>1, <1>2, <1>3, <1>9, CopyToSound DEF Copy
<1>10. ASSUME NEW pair \in Pairs, Rename(pair[1], pair[2]) PROVE TreeInv'
  BY <1>1, <1>2, <1>3, <1>10, MoveToSound DEF Rename
<1> QED
  BY <1>4, <1>5, <1>6, <1>7, <1>8, <1>9, <1>10

\* At first.
LEMMA InitSound ==
  ASSUME Init, NamesApart
  PROVE  TreeInv
<1>1. Settled(disk, chain) = disk
  <2>1. chain = <<>> /\ Len(chain) = 0
    BY DEF Init
  <2> QED
    BY <2>1, AfterIs
<1>2. /\ disk = [files |-> Nothing, dirs |-> {<<>>}] /\ DOMAIN disk.files = {} /\ disk.dirs = {<<>>}
      /\ held = [p \in Shipped |-> ShippedBytes] /\ nodes = [p \in Shipped |-> Len(ShippedBytes)]
      /\ dirs = {<<>>} \cup ShippedDirs
  BY DEF Init, Nothing, ShippedDirs
<1>3. Shaped(nodes, dirs)
  BY <1>2, PathsAre DEF Shaped, NamesApart, ShippedDirs, Names
<1> QED
  BY <1>1, <1>2, <1>3 DEF TreeInv, Sound, OnDisk, InMemory

\* Every step keeps the types.
LEMMA TypeNext ==
  ASSUME TypeInv, [Next]_vars
  PROVE  TypeInv'
<1> USE DEF Changing, Reading
<1>1. CASE UNCHANGED vars
  BY <1>1 DEF vars, TypeInv, TreeTyped, QueueTyped, DiskTyped, ReadsTyped, DropTyped, DoneTyped,
     OthersTyped, Persistent, treeVars, diskVars, pageVars
<1>2. CASE Next
  BY <1>2, ChangesTyped, ReadsStayTyped, QueueStaysTyped DEF Next, Scripts
<1> QED
  BY <1>1, <1>2

\* Every variable holds what it should, with any paths, values, clients and bounds
\* (class GameFs).
THEOREM TypeInvHolds == Spec => []TypeInv
<1>1. Init => TypeInv
  BY InitTyped
<1>2. TypeInv /\ [Next]_vars => TypeInv'
  BY TypeNext
<1> QED
  BY <1>1, <1>2, PTL DEF Spec

\* Every step keeps the tree and the disk alike.
LEMMA TreeNext ==
  ASSUME TypeInv, TreeInv, NamesApart, ShippedApart, [Next]_vars
  PROVE  TreeInv'
<1> USE DEF Changing, Reading
<1>1. CASE UNCHANGED vars
  BY <1>1, ReadsSound DEF vars, treeVars, diskVars
<1>2. ASSUME NEW c \in Clients, EndRead(c) \/ \E p \in Files : ReadNow(c, p) \/ BeginRead(c, p)
      PROVE  TreeInv'
  BY <1>2, ReadsSound DEF EndRead, ReadNow, BeginRead, StillTheSame, treeVars, diskVars
<1>3. CASE Next
  BY <1>2, <1>3, ChangesSound, QueueSound DEF Next, Scripts
<1> QED
  BY <1>1, <1>3

\* What the runs check follows.
LEMMA TreeMatches ==
  ASSUME TypeInv, TreeInv
  PROVE  TreeMatchesDisk
<1> DEFINE S == Settled(disk, chain)
<1>1. Sound(nodes, dirs, held, S) /\ View = TreeOf(nodes, dirs, held, S)
  BY ViewIs DEF TreeInv
<1>2. SizesAgree
  <2>1. View.files = [p \in DOMAIN nodes |-> Contents(held, S, p)]
    BY <1>1 DEF TreeOf
  <2> HIDE DEF S
  <2>2. ASSUME NEW p \in DOMAIN nodes PROVE Len(Contents(held, S, p)) = nodes[p]
    <3>1. CASE Persistent
      BY <1>1, <3>1 DEF Sound, OnDisk, Contents
    <3>2. CASE ~Persistent
      BY <1>1, <3>2 DEF Sound, InMemory, Contents
    <3> QED
      BY <3>1, <3>2
  <2> QED
    BY <2>1, <2>2 DEF SizesAgree
<1>3. SameShape
  <2> SUFFICES ASSUME Persistent, chain = <<>>
               PROVE  /\ DOMAIN disk.files = DOMAIN nodes \ DOMAIN held
                      /\ disk.dirs \subseteq dirs /\ dirs \ disk.dirs \subseteq ShippedDirs
    BY DEF SameShape
  <2>1. S = disk
    <3>1. Len(chain) = 0
      OBVIOUS
    <3> QED
      BY <3>1, AfterIs
  <2> HIDE DEF S
  <2> QED
    BY <1>1, <2>1 DEF Sound, OnDisk
<1> QED
  BY <1>2, <1>3, TypeIs DEF TreeMatchesDisk

\* What the tree says the disk has, once nothing is queued, and at every moment the sizes
\* (opfs.ts: "the same shape").
THEOREM TreeMatchesDiskHolds ==
  ASSUME NamesApart, ShippedApart
  PROVE  Spec => []TreeMatchesDisk
<1>1. Init => TypeInv /\ TreeInv
  BY InitTyped, InitSound
<1>2. TypeInv /\ TreeInv /\ [Next]_vars => TypeInv' /\ TreeInv'
  BY TypeNext, TreeNext
<1>3. TypeInv /\ TreeInv => TreeMatchesDisk
  BY TreeMatches
<1> QED
  BY <1>1, <1>2, <1>3, PTL DEF Spec

-----------------------------------------------------------------------------
(* What a reload would find.                                               *)

\* The same, but for what is dropped and where that is carried.
SameFiles(f, g) == ScriptsOwn(f, {}) = ScriptsOwn(g, {})

\* Each state the queue leads through is one the files have been in.
PastInv ==
    /\ ReloadIsAPast
    /\ \A n \in 1..Len(chain) : \E f \in past : SameFiles(After(disk, chain)[n].files, f)

\* The queue carried out, after a step.
LEMMA AfterNext ==
  ASSUME browser' = browser
  PROVE  After(disk, chain)' = After(disk', chain')
BY DEF After, ApplyEntry, HasMove

\* The invariant after a step.
LEMMA PastNext ==
  ASSUME browser' = browser, ReloadIsAPast',
         \A n \in 1..Len(chain') : \E f \in past' : SameFiles(After(disk', chain')[n].files, f)
  PROVE  PastInv'
BY AfterNext DEF PastInv, SameFiles, ScriptsOwn

\* A disk that is one of the past.
LEMMA NowIs ==
  ASSUME NEW f \in past', SameFiles(disk'.files, f)
  PROVE  ReloadIsAPast'
BY DEF ReloadIsAPast, SameFiles, ScriptsOwn

\* A change that queues nothing.
LEMMA RefusedPast ==
  ASSUME TypeInv, PastInv, chain' = chain, disk' = disk, browser' = browser, past \subseteq past'
  PROVE  PastInv'
<1>1. ReloadIsAPast'
  BY DEF PastInv, ReloadIsAPast, Halfway, ScriptsOwn
<1> QED
  BY <1>1, PastNext DEF PastInv

\* A change queued: what it leads to is noted.
LEMMA AppendedPast ==
  ASSUME TypeInv, PastInv, NEW E, chain \in Seq(E), NEW e \in E, chain' = Append(chain, e),
         disk' = disk, browser' = browser, past' = past \cup {Settled(disk, chain').files}
  PROVE  PastInv'
<1>1. Len(chain') = Len(chain) + 1 /\ Len(chain) \in Nat /\ Len(chain') \in Nat
        /\ (chain # <<>> => Head(chain') = Head(chain) /\ chain' # <<>>)
  OBVIOUS
<1>2. \A n \in 0..(Len(chain) + 1) :
           After(disk, Append(chain, e))[n] = IF n <= Len(chain) THEN After(disk, chain)[n]
                                              ELSE ApplyEntry(Settled(disk, chain), e)
  BY AfterAppend
<1>3. Settled(disk, chain') = After(disk, chain')[Len(chain')]
  BY <1>1, AfterIs
<1>4. ASSUME NEW n \in 1..Len(chain') PROVE \E f \in past' : SameFiles(After(disk', chain')[n].files, f)
  <2>1. CASE n = Len(chain')
    BY <1>3, <2>1 DEF SameFiles
  <2>2. CASE n # Len(chain')
    <3>1. n \in 1..Len(chain) /\ n \in 0..(Len(chain) + 1) /\ n <= Len(chain)
      BY <1>1, <2>2
    <3>2. After(disk', chain')[n] = After(disk, chain)[n]
      BY <1>2, <3>1
    <3> QED
      BY <3>1, <3>2 DEF PastInv
  <2> QED
    BY <2>1, <2>2
<1>5. ReloadIsAPast'
  <2>1. PICK f \in past, moving \in SUBSET Halfway : ScriptsOwn(disk.files, moving) = ScriptsOwn(f, {})
    BY DEF PastInv, ReloadIsAPast
  <2>2. Halfway \subseteq Halfway'
    BY <1>1 DEF Halfway
  <2> QED
    BY <2>1, <2>2 DEF ReloadIsAPast, ScriptsOwn
<1> QED
  BY <1>4, <1>5, PastNext

\* Every change.
LEMMA ChangesPast ==
  ASSUME TypeInv, PastInv, Changing
  PROVE  PastInv'
<1> USE DEF Changing, Reading
<1>1. \E r : Noted(r)
  BY DEF Write, AppendTo, Delete, MakeDir, RemoveDir, Copy, Rename
<1>2. disk' = disk /\ browser' = browser /\ past' = past \cup {Settled(disk, chain').files}
  BY <1>1 DEF Noted
<1>3. chain' = chain \/ \E e : chain' = Append(chain, e)
  BY DEF Write, AppendTo, Delete, MakeDir, RemoveDir, Copy, Rename, Refused, WriteTo, AppendAt, TakeOut,
     PutDir, TakeDir, CopyTo, MoveTo, Store, Enqueue
<1>4. ASSUME NEW e, chain' = Append(chain, e) PROVE PastInv'
  <2>1. PICK S : chain \in Seq(S)
    BY DEF TypeInv, QueueTyped
  <2>2. chain \in Seq(S \cup {e}) /\ e \in S \cup {e}
    BY <2>1, SeqGrows
  <2> QED
    BY <1>2, <1>4, <2>2, AppendedPast
<1> QED
  BY <1>2, <1>3, <1>4, RefusedPast

\* A step of the queue goes to the next of those states, or stands halfway.
LEMMA QueuePast ==
  ASSUME TypeInv, PastInv, MakeFile \/ CommitFirst \/ Commit
  PROVE  PastInv'
<1>1. past' = past /\ browser' = browser
  BY DEF MakeFile, CommitFirst, Commit, QueueKept
<1>2. PICK n \in Nat : n = done.changes + 1
  BY DEF TypeInv, DoneTyped
<1>3. /\ chain \in Seq(Entries(n)) /\ chain # <<>> /\ Head(chain) = chain[1] /\ Len(chain) \in Nat /\ Len(chain) # 0
      /\ disk \in Disks(n) /\ Head(chain) \in Entries(n)
  BY <1>2 DEF TypeInv, QueueTyped, DiskTyped, MakeFile, CommitFirst, Commit
<1> DEFINE e == Head(chain)
<1>4. e.to \in Names /\ e.path \in Names
  BY <1>3, EntryIs
<1>5. CASE Commit
  <2>1. /\ Len(chain') = Len(chain) - 1
        /\ \A k \in 0..(Len(chain) - 1) : After(disk', chain')[k] = After(disk, chain)[k + 1]
    BY <1>5, CommitLeads
  <2>2. Len(chain') \in Nat
    BY <1>3, <2>1
  <2>3. After(disk', chain')[0] = disk'
    BY <2>2, AfterIs
  <2>4. ASSUME NEW k \in 0..Len(chain')
        PROVE  \E f \in past' : SameFiles(After(disk', chain')[k].files, f)
    <3>1. k \in 0..(Len(chain) - 1) /\ k + 1 \in 1..Len(chain)
      BY <1>3, <2>1
    <3>2. After(disk', chain')[k] = After(disk, chain)[k + 1]
      BY <2>1, <3>1
    <3> QED
      BY <1>1, <3>1, <3>2 DEF PastInv
  <2>5. \E f \in past' : SameFiles(disk'.files, f)
    <3>1. 0 \in 0..Len(chain')
      BY <2>2
    <3> QED
      BY <2>3, <2>4, <3>1
  <2>6. \A k \in 1..Len(chain') : k \in 0..Len(chain')
    BY <2>2
  <2> QED
    BY <1>1, <2>4, <2>5, <2>6, NowIs, PastNext
<1>6. CASE MakeFile \/ CommitFirst
  <2>1. /\ Len(chain') = Len(chain)
        /\ \A k \in 1..Len(chain) : After(disk', chain')[k] = After(disk, chain)[k]
    BY <1>6, HalvesLead
  <2>2. \A k \in 1..Len(chain') : \E f \in past' : SameFiles(After(disk', chain')[k].files, f)
    BY <1>1, <2>1 DEF PastInv
  <2>3. ReloadIsAPast'
    <3>1. CASE MakeFile
      <4>1. Creates(e) /\ chain' = [chain EXCEPT ![1] = Making(e)] /\ disk' = WriteDisk(disk, e.to, <<>>)
        BY <1>3, <3>1 DEF MakeFile
      <4>2. e.to \notin DOMAIN disk.files /\ disk'.files = Put(disk.files, e.to, <<>>)
        <5>1. ~Blocked(disk, e.to) /\ e.to \notin DOMAIN disk.files
          BY <4>1 DEF Creates
        <5>2. disk' = [files |-> Put(disk.files, e.to, <<>>), dirs |-> disk.dirs \cup Above(e.to)]
          BY <4>1, <5>1 DEF WriteDisk
        <5> QED
          BY <5>1, <5>2
      <4>3. chain' # <<>> /\ Head(chain') = Making(e) /\ Making(e).made /\ Making(e).to = e.to
        <5>1. Making(e).made /\ Making(e).to = e.to
          BY <1>3, EntryIs DEF Making, Entries
        <5>2. chain' # <<>> /\ Head(chain') = Making(e)
          BY <1>3, <4>1
        <5> QED
          BY <5>1, <5>2
      <4>4. e.to \in Halfway'
        BY <4>2, <4>3 DEF Halfway, Put
      <4>5. Halfway = {}
        BY <1>3, <4>1 DEF Halfway, Creates
      <4>6. PICK f \in past : ScriptsOwn(disk.files, {}) = ScriptsOwn(f, {})
        BY <4>5 DEF PastInv, ReloadIsAPast
      <4>7. ScriptsOwn(disk'.files, {e.to}) = ScriptsOwn(disk.files, {})
        <5> HIDE DEF e
        <5>1. DOMAIN disk'.files = DOMAIN disk.files \cup {e.to}
                /\ \A q \in DOMAIN disk.files : disk'.files[q] = disk.files[q]
          BY <4>2 DEF Put
        <5> QED
          BY <4>2, <5>1 DEF ScriptsOwn, Restrict
      <4> HIDE DEF e
      <4> QED
        BY <1>1, <4>4, <4>6, <4>7 DEF ReloadIsAPast, ScriptsOwn
    <3>2. CASE CommitFirst
      <4>1. /\ Splits(e) /\ chain' = [chain EXCEPT ![1] = Plain("remove", e.path)]
            /\ disk' = WriteDisk(disk, e.to, disk.files[e.path])
        BY <1>3, <3>2 DEF CommitFirst
      <4>2. e.path \in DOMAIN disk.files /\ ~Blocked(disk, e.to)
        BY <4>1 DEF Splits
      <4>3. disk'.files = Put(disk.files, e.to, disk.files[e.path]) /\ disk' \in Disks(n)
        <5>1. disk' = [files |-> Put(disk.files, e.to, disk.files[e.path]), dirs |-> disk.dirs \cup Above(e.to)]
          BY <4>1, <4>2 DEF WriteDisk
        <5>2. disk.files[e.path] \in Short(n)
          BY <1>3, <4>2, DiskIs
        <5> QED
          BY <1>3, <1>4, <4>1, <5>1, <5>2, WriteDiskIs
      <4>4. e.path \in DOMAIN disk'.files
        BY <4>2, <4>3 DEF Put
      <4>5. chain' # <<>> /\ Head(chain') = Plain("remove", e.path) /\ chain'[1] = Plain("remove", e.path)
        BY <1>3, <4>1
      <4>6. e.path \in Halfway'
        BY <4>4, <4>5 DEF Halfway, Plain, Entry
      <4>7. After(disk', chain')[1].files = Drop(disk'.files, e.path)
        <5>1. Len(chain') \in Nat /\ 1 \in 1..Len(chain') /\ 1 - 1 = 0
          BY <1>3, <2>1
        <5>2. After(disk', chain')[1] = ApplyEntry(disk', chain'[1])
          BY <5>1, AfterIs
        <5>3. ApplyEntry(disk', Plain("remove", e.path)) = RemoveDisk(disk', e.path)
          BY DEF ApplyEntry, Plain, Entry
        <5>4. RemoveDisk(disk', e.path) = [files |-> Drop(disk'.files, e.path), dirs |-> disk'.dirs]
          BY <4>3, <4>4, DiskIs DEF RemoveDisk
        <5> QED
          BY <4>5, <5>2, <5>3, <5>4
      <4>8. PICK f \in past : ScriptsOwn(After(disk', chain')[1].files, {}) = ScriptsOwn(f, {})
        <5>1. 1 \in 1..Len(chain')
          BY <1>3, <2>1
        <5> QED
          BY <1>1, <2>2, <5>1 DEF SameFiles
      <4>9. ScriptsOwn(disk'.files, {e.path}) = ScriptsOwn(Drop(disk'.files, e.path), {})
        BY DEF ScriptsOwn, Drop, Restrict
      <4> HIDE DEF e
      <4> QED
        BY <1>1, <4>6, <4>7, <4>8, <4>9 DEF ReloadIsAPast, ScriptsOwn
    <3> QED
      BY <1>6, <3>1, <3>2
  <2> QED
    BY <1>1, <2>2, <2>3, PastNext
<1> QED
  BY <1>5, <1>6

\* Every step.
LEMMA PastStays ==
  ASSUME TypeInv, PastInv, [Next]_vars
  PROVE  PastInv'
<1> USE DEF Changing, Reading
<1>1. ASSUME UNCHANGED <<disk, chain, browser, past>> PROVE PastInv'
  BY <1>1, RefusedPast
<1>2. CASE UNCHANGED vars
  BY <1>1, <1>2 DEF vars, diskVars
<1>3. ASSUME NEW c \in Clients, EndRead(c) \/ \E p \in Files : ReadNow(c, p) \/ BeginRead(c, p)
      PROVE  PastInv'
  BY <1>1, <1>3 DEF EndRead, ReadNow, BeginRead, StillTheSame, diskVars
<1>4. CASE Next
  BY <1>3, <1>4, ChangesPast, QueuePast DEF Next, Scripts
<1> QED
  BY <1>2, <1>4

\* At first.
LEMMA InitPast ==
  ASSUME Init
  PROVE  PastInv
<1>1. chain = <<>> /\ Len(chain) = 0 /\ disk.files = Nothing /\ past = {Nothing}
  BY DEF Init
<1>2. ReloadIsAPast
  <2>1. Nothing \in past /\ {} \in SUBSET Halfway
    BY <1>1
  <2>2. ScriptsOwn(disk.files, {}) = ScriptsOwn(Nothing, {})
    BY <1>1
  <2> QED
    BY <2>1, <2>2 DEF ReloadIsAPast
<1>3. 1..Len(chain) = {}
  BY <1>1
<1> QED
  BY <1>2, <1>3 DEF PastInv

\* A reload never finds a change without the one before it (opfs.ts, enqueue).
THEOREM ReloadIsAPastHolds == Spec => []ReloadIsAPast
<1>1. Init => TypeInv /\ PastInv
  BY InitTyped, InitPast
<1>2. TypeInv /\ PastInv /\ [Next]_vars => TypeInv' /\ PastInv'
  BY TypeNext, PastStays
<1>3. PastInv => ReloadIsAPast
  BY DEF PastInv
<1> QED
  BY <1>1, <1>2, <1>3, PTL DEF Spec

-----------------------------------------------------------------------------
(* Reads.                                                                  *)

\* What scripts can have queued: on paths they know, and no rename to itself.
Asks(e) ==
    /\ e.op \in {"write", "append", "copy", "rename"} => e.to \in Files
    /\ e.op \in {"copy", "rename"} => e.path \in Files /\ <<e.path, e.to>> \in Pairs
    /\ e.op = "remove" => e.path \in Files \cup Folders
    /\ e.op = "makeDir" => e.path \in Folders
    /\ e.op = "rename" => e.path # e.to
\* The queue holds no other.
QueueInv == \A i \in 1..Len(chain) : Asks(chain[i])

\* What a change queues.
LEMMA ChangesQueue ==
  ASSUME NamesApart, Changing
  PROVE  chain' = chain \/ \E e : Asks(e) /\ chain' = Append(chain, e)
<1> USE DEF Changing, Reading
<1>1. ASSUME NEW e, Asks(e), Enqueue(e)
      PROVE  chain' = chain \/ \E f : Asks(f) /\ chain' = Append(chain, f)
  BY <1>1 DEF Enqueue
<1>2. ASSUME NEW p \in Files, NEW s, Store(p, s)
      PROVE  chain' = chain \/ \E e : Asks(e) /\ chain' = Append(chain, e)
  <2>1. Asks(Entry("write", p, p, s, 0))
    BY DEF Asks, Entry
  <2> QED
    BY <1>1, <1>2, <2>1 DEF Store
<1>3. ASSUME NEW p \in Files \cup Folders
      PROVE  Asks(Plain("remove", p)) /\ (p \in Folders => Asks(Plain("makeDir", p)))
  BY DEF Asks, Plain, Entry
<1>4. ASSUME NEW p \in Files, NEW s, NEW a PROVE Asks(Entry("append", p, p, s, a))
  BY DEF Asks, Entry
<1>5. ASSUME NEW pair \in Pairs
      PROVE  /\ pair[2] \in Files /\ Asks(Entry("copy", pair[1], pair[2], <<>>, 0))
             /\ Asks(Entry("rename", pair[1], pair[2], <<>>, 0))
             /\ \A s : Asks(Entry("write", pair[2], pair[2], s, 0))
  <2>1. pair \in Files \X Files
    BY <1>5, PathsAssumption
  <2>2. <<pair[1], pair[2]>> \in Pairs
    BY <1>5, <2>1
  <2> QED
    BY <1>5, <2>2, PathsAre DEF Asks, Entry, NamesApart
<1>6. ASSUME NEW p \in Files, NEW v \in Values, Write(p, v) \/ AppendTo(p, v)
      PROVE  chain' = chain \/ \E e : Asks(e) /\ chain' = Append(chain, e)
  BY <1>1, <1>2, <1>4, <1>6 DEF Write, AppendTo, WriteTo, AppendAt, Refused
<1>7. ASSUME NEW p \in Files, Delete(p)
      PROVE  chain' = chain \/ \E e : Asks(e) /\ chain' = Append(chain, e)
  BY <1>1, <1>3, <1>7 DEF Delete, TakeOut, Refused
<1>8. ASSUME NEW p \in Folders, MakeDir(p) \/ RemoveDir(p)
      PROVE  chain' = chain \/ \E e : Asks(e) /\ chain' = Append(chain, e)
  BY <1>1, <1>3, <1>8 DEF MakeDir, RemoveDir, PutDir, TakeDir, Refused
<1>9. ASSUME NEW pair \in Pairs, Copy(pair[1], pair[2]) \/ Rename(pair[1], pair[2])
      PROVE  chain' = chain \/ \E e : Asks(e) /\ chain' = Append(chain, e)
  <2>1. CASE Copy(pair[1], pair[2])
    BY <1>1, <1>2, <1>5, <2>1 DEF Copy, CopyTo, Refused
  <2>2. CASE Rename(pair[1], pair[2])
    BY <1>1, <1>5, <2>2 DEF Rename, MoveTo, Refused
  <2> QED
    BY <1>9, <2>1, <2>2
<1> QED
  BY <1>6, <1>7, <1>8, <1>9

\* Every step keeps it so.
LEMMA QueueNext ==
  ASSUME TypeInv, QueueInv, NamesApart, [Next]_vars
  PROVE  QueueInv'
<1> USE DEF Changing, Reading
<1>1. PICK n \in Nat : n = done.changes + 1
  BY DEF TypeInv, DoneTyped
<1>2. chain \in Seq(Entries(n)) /\ Len(chain) \in Nat
  BY <1>1 DEF TypeInv, QueueTyped
<1>3. ASSUME chain' = chain PROVE QueueInv'
  BY <1>3 DEF QueueInv, Asks
<1>4. ASSUME NEW e, Asks(e), chain' = Append(chain, e) PROVE QueueInv'
  <2>1. chain \in Seq(Entries(n) \cup {e})
    BY <1>2, SeqGrows
  <2>2. \A i \in 1..Len(chain') : chain'[i] = IF i = Len(chain) + 1 THEN e ELSE chain[i]
    BY <1>4, <2>1
  <2>3. \A i \in 1..Len(chain') : i = Len(chain) + 1 \/ i \in 1..Len(chain)
    BY <1>4, <2>1
  <2> QED
    BY <1>4, <2>2, <2>3 DEF QueueInv, Asks
<1>5. CASE MakeFile \/ CommitFirst
  <2>1. chain # <<>> /\ Head(chain) = chain[1] /\ 1 \in 1..Len(chain) /\ chain[1] \in Entries(n)
    BY <1>2, <1>5 DEF MakeFile, CommitFirst
  <2>2. PICK e : Asks(e) /\ chain' = [chain EXCEPT ![1] = e]
    <3>1. CASE MakeFile
      <4>1. chain' = [chain EXCEPT ![1] = Making(chain[1])]
        BY <3>1 DEF MakeFile
      <4>2. LET e == chain[1] IN Making(e).op = e.op /\ Making(e).to = e.to /\ Making(e).path = e.path
        BY <2>1 DEF Making, Entries
      <4>3. Asks(Making(chain[1]))
        BY <2>1, <4>2 DEF QueueInv, Asks
      <4> QED
        BY <4>1, <4>3
    <3>2. CASE CommitFirst
      <4>1. chain' = [chain EXCEPT ![1] = Plain("remove", chain[1].path)] /\ Splits(chain[1])
        BY <2>1, <3>2 DEF CommitFirst
      <4>2. chain[1].op = "rename" /\ Asks(chain[1])
        BY <2>1, <4>1 DEF Splits, QueueInv
      <4>3. Asks(Plain("remove", chain[1].path))
        BY <4>2 DEF Asks, Plain, Entry
      <4> QED
        BY <4>1, <4>3
    <3> QED
      BY <1>5, <3>1, <3>2
  <2>3. Len(chain') = Len(chain) /\ \A i \in 1..Len(chain) : chain'[i] = IF i = 1 THEN e ELSE chain[i]
    BY <1>2, <2>2
  <2> QED
    BY <2>2, <2>3 DEF QueueInv, Asks
<1>6. CASE Commit
  <2>1. \A i \in 1..Len(chain') : i + 1 \in 1..Len(chain) /\ chain'[i] = chain[i + 1]
    BY <1>2, <1>6 DEF Commit
  <2> QED
    BY <2>1 DEF QueueInv, Asks
<1>7. CASE UNCHANGED vars
  BY <1>3, <1>7 DEF vars, diskVars
<1>8. ASSUME NEW c \in Clients, EndRead(c) \/ \E p \in Files : ReadNow(c, p) \/ BeginRead(c, p)
      PROVE  QueueInv'
  BY <1>3, <1>8 DEF EndRead, ReadNow, BeginRead, StillTheSame, diskVars
<1>9. CASE Next
  BY <1>3, <1>4, <1>5, <1>6, <1>8, <1>9, ChangesQueue DEF Next, Scripts
<1> QED
  BY <1>7, <1>9

\* The answer a file just made gives.
Empty == [err |-> "ok", bytes |-> <<>>]
\* What a read of p, behind the first a of len changes, will answer on each of the
\* disks A is among what it may; and so is an empty file where p is made on the way.
Sees(A, len, p, a, seen) ==
    /\ \A n \in a..len : ReadView(A[n], p) \in seen
    /\ \A n \in a..(len - 1) :
           p \notin DOMAIN A[n].files /\ p \in DOMAIN A[n + 1].files => Empty \in seen
\* A read is of what is on disk, and has among its answers whatever it may still find.
ReadsInv ==
    \A c \in Clients :
        \/ reads[c] = NotReading
        \/ /\ Persistent /\ reads[c].path \in Files \ DOMAIN held
           /\ Sees(After(disk, chain), Len(chain), reads[c].path, reads[c].ahead, reads[c].seen)

\* The invariant after a step.
LEMMA ReadsInvNext ==
  ASSUME browser' = browser,
         \A c \in Clients :
             \/ reads'[c] = NotReading
             \/ /\ Persistent /\ reads'[c].path \in Files \ DOMAIN held'
                /\ Sees(After(disk', chain'), Len(chain'), reads'[c].path, reads'[c].ahead, reads'[c].seen)
  PROVE  ReadsInv'
BY AfterNext DEF ReadsInv, Sees, Persistent, ReadView

\* What is not held reads on disk as in the tree.
LEMMA ReadsOn ==
  ASSUME NamesApart, NEW N, NEW D, NEW H, NEW S, OnDisk(N, D, H, S), NEW p \in Files, p \notin DOMAIN H
  PROVE  /\ ReadView(S, p) = ReadView(TreeOf(N, D, H, S), p)
         /\ p \in DOMAIN S.files <=> p \in DOMAIN N
<1>1. p \notin ShippedDirs
  BY DEF NamesApart, ShippedDirs
<1>2. p \in DOMAIN S.files <=> p \in DOMAIN N
  BY DEF OnDisk
<1>3. p \in S.dirs <=> p \in D
  BY <1>1 DEF OnDisk
<1> DEFINE files == [q \in DOMAIN N |-> Contents(H, S, q)]
<1>4. DOMAIN files = DOMAIN N /\ (p \in DOMAIN N => files[p] = S.files[p])
  BY <1>2 DEF Contents
<1>5. TreeOf(N, D, H, S) = [files |-> files, dirs |-> D]
  BY DEF TreeOf
<1> HIDE DEF files
<1>6. TreeOf(N, D, H, S).files = files /\ TreeOf(N, D, H, S).dirs = D
  BY <1>5
<1> QED
  BY <1>2, <1>3, <1>4, <1>6 DEF ReadView

\* With OPFS nothing is held that was not.
LEMMA HeldShrinks ==
  ASSUME Persistent, Changing
  PROVE  DOMAIN held' \subseteq DOMAIN held
<1> USE DEF Changing, Reading
<1>1. ASSUME NEW f, NEW p PROVE DOMAIN Drop(f, p) \subseteq DOMAIN f
  BY DropAt
<1>2. ASSUME NEW p, NEW q PROVE DOMAIN Drop(Drop(held, p), q) \subseteq DOMAIN held
  <2>1. DOMAIN Drop(held, p) \subseteq DOMAIN held
    BY <1>1
  <2>2. DOMAIN Drop(Drop(held, p), q) \subseteq DOMAIN Drop(held, p)
    BY <1>1
  <2> QED
    BY <2>1, <2>2
<1>3. ASSUME NEW p, NEW v, Write(p, v) \/ AppendTo(p, v) PROVE DOMAIN held' \subseteq DOMAIN held
  BY <1>1, <1>3 DEF Write, AppendTo, WriteTo, AppendAt, Refused, Store, treeVars
<1>4. ASSUME NEW p, Delete(p) \/ MakeDir(p) \/ RemoveDir(p) PROVE DOMAIN held' \subseteq DOMAIN held
  BY <1>1, <1>4 DEF Delete, TakeOut, MakeDir, PutDir, RemoveDir, TakeDir, Refused, treeVars
<1>5. ASSUME NEW p, NEW q, Copy(p, q) PROVE DOMAIN held' \subseteq DOMAIN held
  BY <1>1, <1>5 DEF Copy, CopyTo, Refused, Store, treeVars
<1>6. ASSUME NEW p, NEW q, Rename(p, q) PROVE DOMAIN held' \subseteq DOMAIN held
  BY <1>2, <1>6 DEF Rename, MoveTo, Refused, treeVars
<1> QED
  BY <1>3, <1>4, <1>5, <1>6

\* A change asked for: a read under way has what comes of it among its answers.
LEMMA ChangesRead ==
  ASSUME TypeInv, TreeInv, ReadsInv, NamesApart, ShippedApart, Changing
  PROVE  ReadsInv'
<1> USE DEF Changing, Reading
<1>1. PICK r : Noted(r)
  BY DEF Write, AppendTo, Delete, MakeDir, RemoveDir, Copy, Rename
<1>2. /\ disk' = disk /\ browser' = browser /\ Persistent' = Persistent
      /\ reads' = [c \in Clients |-> IF reads[c] = NotReading THEN NotReading
                  ELSE [reads[c] EXCEPT !.seen = @ \cup Fresh(reads[c].path)
                                                   \cup {ReadView(View', reads[c].path)}]]
  BY <1>1 DEF Noted, Persistent
<1>3. TreeInv' /\ (Persistent => DOMAIN held' \subseteq DOMAIN held)
  BY ChangesSound, HeldShrinks
<1>4. chain' = chain \/ \E e : Asks(e) /\ chain' = Append(chain, e)
  BY ChangesQueue
<1>5. SUFFICES ASSUME NEW c \in Clients, reads[c] # NotReading
               PROVE  /\ Persistent /\ reads'[c].path \in Files \ DOMAIN held'
                      /\ Sees(After(disk', chain'), Len(chain'), reads'[c].path, reads'[c].ahead, reads'[c].seen)
  BY <1>2, ReadsInvNext
<1> DEFINE p == reads[c].path  a == reads[c].ahead  seen == reads[c].seen
           more == seen \cup Fresh(p) \cup {ReadView(View', p)}
<1>6. /\ reads[c] = [path |-> p, ahead |-> a, seen |-> seen] /\ a \in 0..Len(chain) /\ Len(chain) \in Nat
  BY DEF TypeInv, ReadsTyped, QueueTyped
<1>7. reads'[c].path = p /\ reads'[c].ahead = a /\ reads'[c].seen = more
  <2>1. reads'[c] = [reads[c] EXCEPT !.seen = more]
    BY <1>2, <1>5
  <2>2. [reads[c] EXCEPT !.seen = more] = [path |-> p, ahead |-> a, seen |-> more]
    <3> HIDE DEF more
    <3> QED
      BY <1>6, ReadIs
  <2> HIDE DEF more, p, a, seen
  <2> QED
    BY <2>1, <2>2
<1>8. Persistent /\ p \in Files \ DOMAIN held /\ p \notin DOMAIN held'
        /\ Sees(After(disk, chain), Len(chain), p, a, seen)
  BY <1>3, <1>5 DEF ReadsInv
<1> DEFINE S == Settled(disk, chain)  T == Settled(disk', chain')
<1>9. /\ ReadView(T, p) = ReadView(View', p) /\ (p \in DOMAIN T.files <=> p \in DOMAIN nodes')
      /\ (p \in DOMAIN S.files <=> p \in DOMAIN nodes)
  <2>1. OnDisk(nodes, dirs, held, S)
    BY <1>8 DEF TreeInv, Sound
  <2>2. PICK U : U = Settled(disk', chain')
    OBVIOUS
  <2>3. Settled(disk, chain)' = U
    BY <1>2, <2>2, SettledNext
  <2>4. OnDisk(nodes', dirs', held', U) /\ View' = TreeOf(nodes', dirs', held', U)
    <3>1. Sound(nodes, dirs, held, Settled(disk, chain))'
      BY <1>3 DEF TreeInv
    <3>2. View' = [files |-> [q \in DOMAIN nodes' |-> Contents(held', U, q)], dirs |-> dirs']
      BY <2>3 DEF View
    <3> QED
      BY <1>2, <1>8, <2>3, <3>1, <3>2 DEF Sound, OnDisk, Shaped, TreeOf
  <2>5. ReadView(U, p) = ReadView(View', p) /\ (p \in DOMAIN U.files <=> p \in DOMAIN nodes')
    <3> HIDE DEF p
    <3> QED
      BY <1>8, <2>4, ReadsOn
  <2>6. p \in DOMAIN S.files <=> p \in DOMAIN nodes
    <3> HIDE DEF p, S
    <3> QED
      BY <1>8, <2>1, ReadsOn
  <2> QED
    BY <2>2, <2>5, <2>6
<1>10. Fresh(p) = IF p \in DOMAIN nodes' /\ p \notin DOMAIN nodes THEN {Empty} ELSE {}
  BY DEF Fresh, Empty
<1>11. Sees(After(disk', chain'), Len(chain'), p, a, more)
  <2>1. CASE chain' = chain
    <3> HIDE DEF p, a
    <3> QED
      BY <1>2, <1>8, <2>1 DEF Sees
  <2>2. CASE \E e : Asks(e) /\ chain' = Append(chain, e)
    <3>1. PICK e : chain' = Append(chain, e)
      BY <2>2
    <3>2. PICK E : chain \in Seq(E) /\ e \in E
      <4>1. PICK F : chain \in Seq(F)
        BY DEF TypeInv, QueueTyped
      <4>2. chain \in Seq(F \cup {e})
        BY <4>1, SeqGrows
      <4> QED
        BY <4>2
    <3> DEFINE A == After(disk, chain)  B == After(disk', chain')  len == Len(chain)
    <3>3. Len(chain') = len + 1 /\ len \in Nat
      BY <3>1, <3>2
    <3>4. \A n \in 0..(len + 1) :
             After(disk, Append(chain, e))[n] = IF n <= len THEN A[n] ELSE ApplyEntry(Settled(disk, chain), e)
      BY <3>2, AfterAppend
    <3>5. \A n \in 0..len : B[n] = A[n]
      <4> HIDE DEF A
      <4> QED
        BY <1>2, <3>1, <3>3, <3>4
    <3>6. A[len] = S
      BY <3>3, AfterIs
    <3>7. B[len + 1] = T
      <4>1. Len(chain') \in Nat
        BY <3>3
      <4>2. B[Len(chain')] = T
        BY <4>1, AfterIs
      <4> HIDE DEF B, T
      <4> QED
        BY <3>3, <4>2
    <3> HIDE DEF A, B, len, S, T, p, a, seen
    <3>8. Sees(A, len, p, a, seen)
      BY <1>8 DEF A, len
    <3>9. a \in 0..len
      BY <1>6 DEF len
    <3>10. ASSUME NEW n \in a..(len + 1) PROVE ReadView(B[n], p) \in more
      <4>1. CASE n = len + 1
        BY <1>9, <3>7, <4>1 DEF more
      <4>2. CASE n # len + 1
        <5>1. n \in a..len /\ n \in 0..len
          BY <3>3, <3>9, <4>2
        <5> QED
          BY <3>5, <3>8, <5>1 DEF Sees, more
      <4> QED
        BY <4>1, <4>2
    <3>11. ASSUME NEW n \in a..len, p \notin DOMAIN B[n].files, p \in DOMAIN B[n + 1].files
           PROVE  Empty \in more
      <4>1. CASE n = len
        <5>1. B[n] = S
          BY <3>3, <3>5, <3>6, <4>1
        <5> QED
          BY <1>9, <1>10, <3>7, <3>11, <4>1, <5>1 DEF more
      <4>2. CASE n # len
        <5>1. n \in a..(len - 1) /\ n \in 0..len /\ n + 1 \in 0..len
          BY <3>3, <3>9, <4>2
        <5> QED
          BY <3>5, <3>8, <3>11, <5>1 DEF Sees, more
      <4> QED
        BY <4>1, <4>2
    <3>12. (len + 1) - 1 = len
      BY <3>3
    <3>13. Sees(B, len + 1, p, a, more)
      BY <3>10, <3>11, <3>12 DEF Sees
    <3> QED
      BY <3>3, <3>13 DEF B
  <2> QED
    BY <1>4, <2>1, <2>2
<1> QED
  BY <1>7, <1>8, <1>11

\* A file written where nothing is in the way: what reads find of it and of others.
LEMMA WriteSeen ==
  ASSUME NEW d, NEW to, ~Blocked(d, to), to \notin Above(to), NEW s
  PROVE  /\ WriteDisk(d, to, s) = [files |-> Put(d.files, to, s), dirs |-> d.dirs \cup Above(to)]
         /\ WriteDisk(d, to, s).files = Put(d.files, to, s)
         /\ DOMAIN WriteDisk(d, to, s).files = DOMAIN d.files \cup {to}
         /\ ReadView(WriteDisk(d, to, s), to) = [err |-> "ok", bytes |-> s]
         /\ \A p : p # to /\ p \notin Above(to) =>
              /\ ReadView(WriteDisk(d, to, s), p) = ReadView(d, p)
              /\ p \in DOMAIN WriteDisk(d, to, s).files <=> p \in DOMAIN d.files
<1> DEFINE f == Put(d.files, to, s)  D == d.dirs \cup Above(to)
<1>1. WriteDisk(d, to, s) = [files |-> f, dirs |-> D]
  BY DEF WriteDisk
<1>2. DOMAIN f = DOMAIN d.files \cup {to} /\ \A q \in DOMAIN f : f[q] = IF q = to THEN s ELSE d.files[q]
  BY DEF Put
<1>3. to \notin d.dirs
  BY DEF Blocked
<1> HIDE DEF f
<1>4. WriteDisk(d, to, s).files = f /\ WriteDisk(d, to, s).dirs = D
  BY <1>1
<1>5. ReadView(WriteDisk(d, to, s), to) = [err |-> "ok", bytes |-> s]
  BY <1>2, <1>3, <1>4 DEF ReadView
<1>6. ASSUME NEW p, p # to, p \notin Above(to)
      PROVE  /\ ReadView(WriteDisk(d, to, s), p) = ReadView(d, p)
             /\ p \in DOMAIN WriteDisk(d, to, s).files <=> p \in DOMAIN d.files
  BY <1>2, <1>4, <1>6 DEF ReadView
<1> QED
  BY <1>1, <1>2, <1>4, <1>5, <1>6 DEF f

\* A change that makes its file has made it when it is done.
LEMMA Makes ==
  ASSUME NEW n \in Nat, NEW e \in Entries(n), disk \in Disks(n), Asks(e), Creates(e)
  PROVE  e.to \in DOMAIN ApplyEntry(disk, e).files
<1>1. ~Blocked(disk, e.to) /\ e.to \notin Above(e.to)
  BY EntryIs, AboveIs DEF Creates
<1>2. \A s : e.to \in DOMAIN WriteDisk(disk, e.to, s).files
  BY <1>1, WriteSeen
<1>3. CASE e.op \in {"write", "append"}
  BY <1>2, <1>3 DEF ApplyEntry
<1>4. CASE e.op = "copy"
  <2>1. e.path \in DOMAIN disk.files
    BY <1>4 DEF Creates
  <2> QED
    BY <1>2, <1>4, <2>1 DEF ApplyEntry
<1>5. CASE e.op = "rename"
  <2>1. e.path \in DOMAIN disk.files /\ ~HasMove /\ e.path # e.to
    BY <1>5 DEF Creates, Asks
  <2> DEFINE d == WriteDisk(disk, e.to, disk.files[e.path])
  <2>2. ApplyEntry(disk, e) = RemoveDisk(d, e.path)
    BY <1>1, <1>5, <2>1 DEF ApplyEntry
  <2>3. d \in Disks(n)
    <3>1. disk.files[e.path] \in Short(n) /\ e.to \in Names
      BY <2>1, DiskIs, EntryIs
    <3> QED
      BY <3>1, WriteDiskIs
  <2>4. DOMAIN d.files = DOMAIN disk.files \cup {e.to}
    BY <1>1, WriteSeen
  <2> HIDE DEF d
  <2>5. DOMAIN RemoveDisk(d, e.path).files = DOMAIN d.files \ {e.path}
    <3>1. RemoveDisk(d, e.path) = [files |-> Drop(d.files, e.path), dirs |-> d.dirs]
      BY <2>1, <2>3, <2>4, RemoveDiskIs
    <3>2. DOMAIN Drop(d.files, e.path) = DOMAIN d.files \ {e.path}
      BY DropAt
    <3> QED
      BY <3>1, <3>2
  <2> QED
    BY <2>1, <2>2, <2>4, <2>5
<1> QED
  BY <1>3, <1>4, <1>5 DEF Creates

\* A file moved without `move` reads, where it is moved to, as it will.
LEMMA Moves ==
  ASSUME NEW n \in Nat, NEW e \in Entries(n), disk \in Disks(n), Asks(e), Splits(e), NEW d,
         d = WriteDisk(disk, e.to, disk.files[e.path])
  PROVE  ReadView(ApplyEntry(disk, e), e.to) = ReadView(d, e.to)
<1>1. /\ e.op = "rename" /\ ~HasMove /\ e.path \in DOMAIN disk.files /\ ~Blocked(disk, e.to)
      /\ e.path # e.to
  BY DEF Splits, Asks
<1>2. e.to \notin Above(e.to)
  BY EntryIs, AboveIs
<1>3. ApplyEntry(disk, e) = RemoveDisk(d, e.path)
  BY <1>1 DEF ApplyEntry
<1>4. d \in Disks(n)
  <2>1. disk.files[e.path] \in Short(n) /\ e.to \in Names
    BY <1>1, DiskIs, EntryIs
  <2> QED
    BY <2>1, WriteDiskIs
<1>5. e.path \in DOMAIN d.files
  BY <1>1, <1>2, WriteSeen
<1>6. RemoveDisk(d, e.path) = [files |-> Drop(d.files, e.path), dirs |-> d.dirs]
  BY <1>4, <1>5, RemoveDiskIs
<1>7. DOMAIN Drop(d.files, e.path) = DOMAIN d.files \ {e.path}
        /\ (e.to \in DOMAIN d.files => Drop(d.files, e.path)[e.to] = d.files[e.to])
  <2> DEFINE f == d.files
  <2>1. /\ DOMAIN Drop(f, e.path) = DOMAIN f \ {e.path}
        /\ \A q \in DOMAIN f \ {e.path} : Drop(f, e.path)[q] = f[q]
    BY DropAt
  <2> HIDE DEF f
  <2>2. e.to \in DOMAIN f => Drop(f, e.path)[e.to] = f[e.to]
    BY <1>1, <2>1
  <2> QED
    BY <2>1, <2>2 DEF f
<1>8. RemoveDisk(d, e.path).files = Drop(d.files, e.path) /\ RemoveDisk(d, e.path).dirs = d.dirs
  BY <1>6
<1> QED
  BY <1>1, <1>3, <1>7, <1>8 DEF ReadView

\* A step of the queue: a read has one less ahead of it, and fewer answers.
LEMMA QueueReads ==
  ASSUME TypeInv, QueueInv, ReadsInv, NamesApart, MakeFile \/ CommitFirst \/ Commit
  PROVE  ReadsInv'
<1>1. browser' = browser /\ held' = held
  BY DEF MakeFile, CommitFirst, Commit, QueueKept, treeVars
<1>2. PICK n \in Nat : n = done.changes + 1
  BY DEF TypeInv, DoneTyped
<1>3. /\ chain \in Seq(Entries(n)) /\ chain # <<>> /\ Head(chain) = chain[1] /\ Len(chain) \in Nat /\ Len(chain) # 0
      /\ disk \in Disks(n) /\ chain[1] \in Entries(n) /\ 1 \in 1..Len(chain)
  BY <1>2 DEF TypeInv, QueueTyped, DiskTyped, MakeFile, CommitFirst, Commit
<1> DEFINE e == chain[1]
<1>4. Asks(e)
  BY <1>3 DEF QueueInv
<1> DEFINE A == After(disk, chain)  B == After(disk', chain')  len == Len(chain)
<1>5. CASE Commit
  <2>1. Len(chain') = len - 1 /\ \A k \in 0..(len - 1) : B[k] = A[k + 1]
    BY <1>5, CommitLeads
  <2>2. reads' = [c \in Clients |->
            IF reads[c].ahead = 0 THEN reads[c] ELSE [reads[c] EXCEPT !.ahead = @ - 1]]
    BY <1>5 DEF Commit
  <2>3. SUFFICES ASSUME NEW c \in Clients, reads'[c] # NotReading
                 PROVE  /\ Persistent /\ reads'[c].path \in Files \ DOMAIN held'
                        /\ Sees(B, Len(chain'), reads'[c].path, reads'[c].ahead, reads'[c].seen)
    BY <1>1, ReadsInvNext
  <2> DEFINE p == reads[c].path  a == reads[c].ahead  seen == reads[c].seen
             b == IF a = 0 THEN 0 ELSE a - 1
  <2>4. reads[c] = [path |-> p, ahead |-> a, seen |-> seen] /\ a \in 0..len
    BY DEF TypeInv, ReadsTyped
  <2>5. reads'[c].path = p /\ reads'[c].ahead = b /\ reads'[c].seen = seen
    <3>1. [reads[c] EXCEPT !.ahead = a - 1] = [path |-> p, ahead |-> a - 1, seen |-> seen]
      BY <2>4, ReadIs
    <3>2. CASE a = 0
      BY <2>2, <3>2
    <3>3. CASE a # 0
      <4>1. reads'[c] = [path |-> p, ahead |-> a - 1, seen |-> seen]
        BY <2>2, <3>1, <3>3
      <4> HIDE DEF p, a, seen
      <4> QED
        BY <3>3, <4>1
    <3> QED
      BY <3>2, <3>3
  <2>6. reads[c] # NotReading
    <3>1. CASE a = 0
      BY <2>2, <2>3, <3>1
    <3>2. CASE a # 0
      BY <3>2 DEF NotReading
    <3> QED
      BY <3>1, <3>2
  <2>7. Persistent /\ p \in Files \ DOMAIN held /\ Sees(A, len, p, a, seen)
    BY <2>6 DEF ReadsInv
  <2> HIDE DEF A, B, p, a, seen
  <2>8. Sees(B, len - 1, p, b, seen)
    <3>1. ASSUME NEW k \in b..(len - 1) PROVE k \in 0..(len - 1) /\ k + 1 \in a..len
      BY <1>3, <2>4
    <3>2. ASSUME NEW k \in b..((len - 1) - 1)
          PROVE  k \in b..(len - 1) /\ k + 1 \in b..(len - 1) /\ k + 1 \in a..(len - 1)
      BY <1>3, <2>4
    <3>3. ASSUME NEW k \in b..(len - 1) PROVE ReadView(B[k], p) \in seen
      BY <2>1, <2>7, <3>1 DEF Sees
    <3>4. ASSUME NEW k \in b..((len - 1) - 1), p \notin DOMAIN B[k].files, p \in DOMAIN B[k + 1].files
          PROVE  Empty \in seen
      <4>1. B[k] = A[k + 1] /\ B[k + 1] = A[(k + 1) + 1]
        BY <2>1, <3>1, <3>2
      <4> QED
        BY <2>7, <3>2, <3>4, <4>1 DEF Sees
    <3> QED
      BY <3>3, <3>4 DEF Sees
  <2> QED
    BY <1>1, <2>1, <2>5, <2>7, <2>8
<1>6. CASE MakeFile \/ CommitFirst
  <2>1. Len(chain') = len /\ \A k \in 1..len : B[k] = A[k]
    BY <1>6, HalvesLead
  <2>2. reads' = reads
    BY <1>6 DEF MakeFile, CommitFirst
  <2>3. B[0] = disk' /\ A[0] = disk /\ A[1] = ApplyEntry(disk, e)
    <3>1. Len(chain') \in Nat
      BY <1>3, <2>1
    <3>2. B[0] = disk' /\ A[0] = disk
      BY <1>3, <3>1, AfterIs
    <3>3. 1 - 1 = 0
      OBVIOUS
    <3> QED
      BY <1>3, <3>2, <3>3, AfterIs
  <2>4. SUFFICES ASSUME NEW c \in Clients, reads[c] # NotReading
                 PROVE  /\ Persistent /\ reads[c].path \in Files \ DOMAIN held
                        /\ Sees(B, len, reads[c].path, reads[c].ahead, reads[c].seen)
    BY <1>1, <2>1, <2>2, ReadsInvNext
  <2> DEFINE p == reads[c].path  a == reads[c].ahead  seen == reads[c].seen
  <2>5. Persistent /\ p \in Files \ DOMAIN held /\ Sees(A, len, p, a, seen)
    BY <2>4 DEF ReadsInv
  <2>6. a \in 0..len
    BY DEF TypeInv, ReadsTyped
  <2>7. e.to \in Files /\ e.to \in Names /\ e.to \notin Above(e.to) /\ p \notin Above(e.to)
        /\ ~Blocked(disk, e.to)
    <3>1. e.op \in {"write", "append", "copy", "rename"} /\ ~Blocked(disk, e.to)
      BY <1>3, <1>6 DEF MakeFile, CommitFirst, Creates, Splits
    <3>2. e.to \in Files
      BY <1>4, <3>1 DEF Asks
    <3> QED
      BY <2>5, <3>1, <3>2, PathsAre, AboveIs DEF NamesApart
  <2>8. PICK s : /\ disk' = WriteDisk(disk, e.to, s)
                 /\ \/ s = <<>> /\ e.to \notin DOMAIN disk.files /\ e.to \in DOMAIN A[1].files
                    \/ ReadView(A[1], e.to) = ReadView(disk', e.to)
    <3>1. CASE MakeFile
      <4>1. disk' = WriteDisk(disk, e.to, <<>>) /\ Creates(e)
        BY <1>3, <3>1 DEF MakeFile
      <4>2. e.to \in DOMAIN ApplyEntry(disk, e).files
        BY <1>3, <1>4, <4>1, Makes
      <4> QED
        BY <2>3, <4>1, <4>2 DEF Creates
    <3>2. CASE CommitFirst
      <4>1. disk' = WriteDisk(disk, e.to, disk.files[e.path]) /\ Splits(e)
        BY <1>3, <3>2 DEF CommitFirst
      <4>2. ReadView(ApplyEntry(disk, e), e.to) = ReadView(disk', e.to)
        BY <1>3, <1>4, <4>1, Moves
      <4> QED
        BY <2>3, <4>1, <4>2
    <3> QED
      BY <1>6, <3>1, <3>2
  <2>9. /\ DOMAIN disk'.files = DOMAIN disk.files \cup {e.to}
        /\ ReadView(disk', e.to) = [err |-> "ok", bytes |-> s]
        /\ p # e.to => ReadView(disk', p) = ReadView(disk, p)
    BY <2>7, <2>8, WriteSeen
  <2> HIDE DEF A, B, p, a, seen, e
  <2>10. ASSUME NEW k \in a..len PROVE ReadView(B[k], p) \in seen
    <3>1. CASE k # 0
      <4>1. k \in 1..len
        BY <1>3, <2>6, <3>1
      <4> QED
        BY <2>1, <2>5, <4>1 DEF Sees
    <3>2. CASE k = 0 /\ p # e.to
      BY <2>3, <2>5, <2>9, <3>2 DEF Sees
    <3>3. CASE k = 0 /\ p = e.to
      <4>1. a = 0 /\ 0 \in a..(len - 1) /\ 1 \in a..len /\ 0 + 1 = 1
        BY <1>3, <2>6, <3>3
      <4>2. CASE s = <<>> /\ e.to \notin DOMAIN disk.files /\ e.to \in DOMAIN A[1].files
        <5>1. Empty \in seen
          BY <2>3, <2>5, <3>3, <4>1, <4>2 DEF Sees
        <5> QED
          BY <2>3, <2>9, <3>3, <4>2, <5>1 DEF Empty
      <4>3. CASE ReadView(A[1], e.to) = ReadView(disk', e.to)
        BY <2>3, <2>5, <3>3, <4>1, <4>3 DEF Sees
      <4> QED
        BY <2>8, <4>2, <4>3
    <3> QED
      BY <3>1, <3>2, <3>3
  <2>11. ASSUME NEW k \in a..(len - 1), p \notin DOMAIN B[k].files, p \in DOMAIN B[k + 1].files
         PROVE  Empty \in seen
    <3>1. k + 1 \in 1..len /\ (k # 0 => k \in 1..len)
      BY <1>3, <2>6
    <3>2. B[k + 1] = A[k + 1] /\ p \notin DOMAIN A[k].files
      BY <2>1, <2>3, <2>9, <2>11, <3>1
    <3> QED
      BY <2>5, <2>11, <3>2 DEF Sees
  <2> QED
    BY <2>5, <2>10, <2>11 DEF Sees, p, a, seen
<1> QED
  BY <1>5, <1>6

\* Reads begun and ended.
LEMMA StillReads ==
  ASSUME TypeInv, TreeInv, ReadsInv, NamesApart, StillTheSame, NEW c \in Clients,
         \/ reads' = reads
         \/ reads' = [reads EXCEPT ![c] = NotReading]
         \/ \E p \in Files : BeginRead(c, p)
  PROVE  ReadsInv'
<1>1. /\ browser' = browser /\ held' = held /\ disk' = disk /\ chain' = chain
      /\ DOMAIN reads = Clients
  BY DEF StillTheSame, treeVars, diskVars, TypeInv, ReadsTyped
<1>2. ASSUME NEW d \in Clients, reads'[d] = reads[d]
      PROVE  \/ reads'[d] = NotReading
             \/ /\ Persistent /\ reads'[d].path \in Files \ DOMAIN held'
                /\ Sees(After(disk', chain'), Len(chain'), reads'[d].path, reads'[d].ahead, reads'[d].seen)
  BY <1>1, <1>2 DEF ReadsInv
<1>3. CASE reads' = reads
  BY <1>1, <1>2, <1>3, ReadsInvNext
<1>4. CASE reads' = [reads EXCEPT ![c] = NotReading]
  <2>1. \A d \in Clients : reads'[d] = reads[d] \/ reads'[d] = NotReading
    BY <1>1, <1>4
  <2> QED
    BY <1>1, <1>2, <2>1, ReadsInvNext
<1>5. CASE \E p \in Files : BeginRead(c, p)
  <2>1. PICK p \in Files : BeginRead(c, p)
    BY <1>5
  <2> DEFINE r == [path |-> p, ahead |-> Len(chain), seen |-> {ReadView(View, p)}]
             S == Settled(disk, chain)  A == After(disk, chain)  len == Len(chain)
  <2>2. p \in DOMAIN nodes \ DOMAIN held /\ reads' = [reads EXCEPT ![c] = r]
    BY <2>1 DEF BeginRead
  <2>3. Persistent
    BY <2>2 DEF TreeInv, Sound, InMemory
  <2>4. ReadView(S, p) = ReadView(View, p)
    <3>1. OnDisk(nodes, dirs, held, S) /\ View = TreeOf(nodes, dirs, held, S)
      BY <2>3, ViewIs DEF TreeInv, Sound
    <3> HIDE DEF S
    <3> QED
      BY <2>2, <3>1, ReadsOn
  <2>5. len \in Nat /\ A[len] = S
    <3>1. len \in Nat
      BY DEF TypeInv, QueueTyped
    <3> QED
      BY <3>1, AfterIs
  <2> HIDE DEF S, A, len
  <2>6. Sees(A, len, p, len, {ReadView(View, p)})
    BY <2>4, <2>5 DEF Sees
  <2>7. reads'[c] = r /\ r.path = p /\ r.ahead = Len(chain) /\ r.seen = {ReadView(View, p)}
    BY <1>1, <2>2
  <2>8. Sees(After(disk', chain'), Len(chain'), reads'[c].path, reads'[c].ahead, reads'[c].seen)
    BY <1>1, <2>6, <2>7 DEF A, len
  <2>9. \A d \in Clients : d # c => reads'[d] = reads[d]
    BY <1>1, <2>2
  <2> QED
    BY <1>1, <1>2, <2>2, <2>3, <2>7, <2>8, <2>9, ReadsInvNext
<1> QED
  BY <1>3, <1>4, <1>5

\* Every step.
LEMMA ReadsNext ==
  ASSUME TypeInv, TreeInv, QueueInv, ReadsInv, NamesApart, ShippedApart, [Next]_vars
  PROVE  ReadsInv'
<1> USE DEF Changing, Reading
<1>1. CASE UNCHANGED vars
  <2>1. reads' = reads /\ browser' = browser /\ held' = held /\ disk' = disk /\ chain' = chain
    BY <1>1 DEF vars, treeVars, diskVars
  <2> QED
    BY <2>1, ReadsInvNext DEF ReadsInv
<1>2. ASSUME NEW c \in Clients, EndRead(c) \/ \E p \in Files : ReadNow(c, p) \/ BeginRead(c, p)
      PROVE  ReadsInv'
  BY <1>2, StillReads DEF EndRead, ReadNow, BeginRead
<1>3. CASE Next
  BY <1>2, <1>3, ChangesRead, QueueReads DEF Next, Scripts
<1> QED
  BY <1>1, <1>3

\* At first.
LEMMA ReadsInit ==
  ASSUME Init
  PROVE  QueueInv /\ ReadsInv
<1>1. chain = <<>> /\ reads = [c \in Clients |-> NotReading]
  BY DEF Init
<1> QED
  BY <1>1 DEF QueueInv, ReadsInv

-----------------------------------------------------------------------------
(* What a script sees is MemoryFs.                                         *)

\* What MemoryFs is shown of the reads and of the reply.
MemReads == [c \in Clients |-> [path |-> reads[c].path, seen |-> reads[c].seen]]
MemReply == [number |-> done.changes, asked |-> done.asked, err |-> reply]

\* MemoryFs's operators are those of this module.
LEMMA MemIs ==
  /\ \A f, p, v : Mem!Put(f, p, v) = Put(f, p, v) /\ Mem!Drop(f, p) = Drop(f, p)
  /\ \A p : Mem!Above(p) = Above(p)
  /\ \A f, D, p : Mem!Children(f, D, p) = Children(DOMAIN f \cup D, p)
  /\ \A t, p : Mem!Seen(Mem!Read(t, p)) = ReadView(t, p)
  /\ Mem!NoAnswer = NoAnswer /\ Mem!NothingAsked = NothingAsked
  /\ Mem!NotReading = [path |-> <<>>, seen |-> {}]
<1>1. ASSUME NEW t, NEW p PROVE Mem!Seen(Mem!Read(t, p)) = ReadView(t, p)
  BY DEF Mem!Seen, Mem!Read, Mem!Outcome, ReadView
<1>2. \A f, p, v : Mem!Put(f, p, v) = Put(f, p, v) /\ Mem!Drop(f, p) = Drop(f, p)
  BY DEF Mem!Put, Put, Mem!Drop, Drop, Mem!Restrict, Restrict
<1>3. \A p : Mem!Above(p) = Above(p)
  BY DEF Mem!Above, Above
<1>4. \A f, D, p : Mem!Children(f, D, p) = Children(DOMAIN f \cup D, p)
  BY DEF Mem!Children, Children, Mem!Front, Front
<1> QED
  BY <1>1, <1>2, <1>3, <1>4 DEF Mem!NoAnswer, NoAnswer, Mem!NothingAsked, NothingAsked, Mem!NotReading

\* At first MemoryFs is what a script sees.
LEMMA MemInit ==
  ASSUME Init
  PROVE  Mem!Init
<1>1. /\ held = [p \in Shipped |-> ShippedBytes] /\ DOMAIN nodes = Shipped
      /\ dirs = {<<>>} \cup UNION {Above(p) : p \in Shipped}
  BY DEF Init
<1>2. View = [files |-> [p \in Shipped |-> ShippedBytes], dirs |-> {<<>>} \cup UNION {Above(p) : p \in Shipped}]
  <2>1. \A S : \A p \in Shipped : Contents(held, S, p) = ShippedBytes
    BY <1>1 DEF Contents
  <2> QED
    BY <1>1, <2>1 DEF View
<1>3. MemReads = [c \in Clients |-> Mem!NotReading]
  <2>1. reads = [c \in Clients |-> NotReading]
    BY DEF Init
  <2> QED
    BY <2>1, MemIs DEF MemReads, NotReading
<1>4. MemReply = [number |-> 0, asked |-> Mem!NothingAsked, err |-> "ok"]
  <2>1. done.changes = 0 /\ done.asked = NothingAsked /\ reply = "ok"
    BY DEF Init
  <2> QED
    BY <2>1, MemIs DEF MemReply
<1>5. answers = [c \in Clients |-> Mem!NoAnswer]
  BY MemIs DEF Init
<1> QED
  BY <1>2, <1>3, <1>4, <1>5 DEF Mem!Init, MemReads, MemReply

\* A client reads there when it reads here.
LEMMA ReadingIs ==
  ASSUME TypeInv, ReadsInv, NEW c \in Clients
  PROVE  /\ reads[c] = NotReading <=> MemReads[c] = Mem!NotReading
         /\ MemReads[c] = [path |-> reads[c].path, seen |-> reads[c].seen]
<1>1. MemReads[c] = [path |-> reads[c].path, seen |-> reads[c].seen]
  BY DEF MemReads
<1>2. reads[c] = NotReading => MemReads[c] = Mem!NotReading
  BY <1>1, MemIs DEF NotReading
<1>3. ASSUME reads[c] # NotReading PROVE MemReads[c] # Mem!NotReading
  <2>1. reads[c].path \in Files /\ reads[c].path # <<>>
    BY <1>3, PathsAre DEF ReadsInv, Names
  <2> QED
    BY <1>1, <2>1, MemIs
<1> QED
  BY <1>1, <1>2, <1>3

\* A change, once it is known to do to the files what MemoryFs does.
LEMMA MemChange ==
  ASSUME TypeInv, ReadsInv, NEW r, Noted(r),
         Mem!Apply(View, r).tree = View', Mem!Outcome(Mem!Apply(View, r).err) = reply'
  PROVE  Mem!Change(View, r)
<1>1. /\ answers' = answers /\ done'.asked = r /\ done'.changes = done.changes + 1
      /\ reads' = [c \in Clients |-> IF reads[c] = NotReading THEN NotReading
                  ELSE [reads[c] EXCEPT !.seen = @ \cup Fresh(reads[c].path)
                                                   \cup {ReadView(View', reads[c].path)}]]
  <2>1. done = [changes |-> done.changes, crashes |-> done.crashes, drops |-> done.drops, asked |-> done.asked]
    BY DEF TypeInv, DoneTyped
  <2>2. done' = [done EXCEPT !.changes = @ + 1, !.asked = r]
    BY DEF Noted
  <2> QED
    BY <2>1, <2>2 DEF Noted
<1>2. MemReply' = [number |-> MemReply.number + 1, asked |-> r, err |-> Mem!Outcome(Mem!Apply(View, r).err)]
  BY <1>1 DEF MemReply
<1>3. DOMAIN View.files = DOMAIN nodes /\ DOMAIN View'.files = DOMAIN nodes'
  BY DEF View
<1>4. ASSUME NEW c \in Clients
      PROVE  MemReads'[c] = IF MemReads[c] = Mem!NotReading THEN Mem!NotReading
                            ELSE [MemReads[c] EXCEPT !.seen = @ \cup Mem!Fresh(View, View', MemReads[c].path)
                                    \cup {Mem!Seen(Mem!Read(View', MemReads[c].path))}]
  <2> DEFINE p == reads[c].path  a == reads[c].ahead  seen == reads[c].seen
             more == seen \cup Fresh(p) \cup {ReadView(View', p)}
  <2>1. MemReads'[c] = [path |-> reads'[c].path, seen |-> reads'[c].seen]
    BY DEF MemReads
  <2>2. MemReads[c] = [path |-> p, seen |-> seen] /\ (reads[c] = NotReading <=> MemReads[c] = Mem!NotReading)
    BY ReadingIs
  <2>3. CASE reads[c] = NotReading
    <3>1. reads'[c] = NotReading
      BY <1>1, <2>3
    <3> QED
      BY <2>1, <2>2, <2>3, <3>1, MemIs DEF NotReading
  <2>4. CASE reads[c] # NotReading
    <3>1. reads'[c] = [reads[c] EXCEPT !.seen = more]
      BY <1>1, <2>4
    <3>2. reads[c] = [path |-> p, ahead |-> a, seen |-> seen]
      BY DEF TypeInv, ReadsTyped
    <3>3. Fresh(p) = Mem!Fresh(View, View', p)
      BY <1>3 DEF Fresh, Mem!Fresh, Mem!Seen, Mem!Outcome
    <3>4. ReadView(View', p) = Mem!Seen(Mem!Read(View', p))
      BY MemIs
    <3> HIDE DEF more
    <3>5. reads'[c] = [path |-> p, ahead |-> a, seen |-> more]
      BY <3>1, <3>2, ReadIs
    <3> HIDE DEF p, a, seen
    <3>6. MemReads'[c] = [path |-> p, seen |-> more]
      BY <2>1, <3>5
    <3>7. [MemReads[c] EXCEPT !.seen = more] = [path |-> p, seen |-> more]
      BY <2>2
    <3>8. MemReads[c].path = p /\ MemReads[c].seen = seen
      BY <2>2
    <3>9. more = MemReads[c].seen \cup Mem!Fresh(View, View', MemReads[c].path)
                   \cup {Mem!Seen(Mem!Read(View', MemReads[c].path))}
      BY <3>3, <3>4, <3>8 DEF more
    <3> QED
      BY <2>2, <2>4, <3>6, <3>7, <3>9
  <2> QED
    BY <2>3, <2>4
<1>5. MemReads' = [c \in Clients |->
            IF MemReads[c] = Mem!NotReading THEN Mem!NotReading
            ELSE [MemReads[c] EXCEPT !.seen = @ \cup Mem!Fresh(View, View', MemReads[c].path)
                                    \cup {Mem!Seen(Mem!Read(View', MemReads[c].path))}]]
  <2> DEFINE f(c) == IF MemReads[c] = Mem!NotReading THEN Mem!NotReading
            ELSE [MemReads[c] EXCEPT !.seen = @ \cup Mem!Fresh(View, View', MemReads[c].path)
                                    \cup {Mem!Seen(Mem!Read(View', MemReads[c].path))}]
  <2>1. \A c \in Clients : MemReads'[c] = f(c)
    BY <1>4
  <2>2. MemReads' = [c \in Clients |-> MemReads'[c]]
    BY DEF MemReads
  <2> HIDE DEF f
  <2>3. MemReads' = [c \in Clients |-> f(c)]
    BY <2>1, <2>2
  <2> QED
    BY <2>3 DEF f
<1> QED
  BY <1>1, <1>2, <1>5 DEF Mem!Change, MemReads, MemReply

\* A change refused in both.
LEMMA MemRefused ==
  ASSUME TypeInv, TreeInv, ReadsInv, NEW r, Noted(r), Refused,
         Mem!Apply(View, r).tree = View, Mem!Apply(View, r).err # "ok"
  PROVE  Mem!Change(View, r)
<1>1. disk' = disk /\ browser' = browser /\ reply' = "failed"
  BY DEF Noted, Refused
<1>2. View' = View
  BY <1>1, RefusedSound
<1> QED
  BY <1>1, <1>2, MemChange DEF Mem!Outcome

\* A change made in both.
LEMMA MemMade ==
  ASSUME TypeInv, ReadsInv, NEW r, Noted(r), reply' = "ok", NEW files, NEW D,
         Mem!Apply(View, r) = Mem!Done(files, D), View' = [files |-> files, dirs |-> D]
  PROVE  Mem!Change(View, r)
BY MemChange DEF Mem!Outcome, Mem!Done

\* What a script sees is of the tree's files and directories.
LEMMA ViewHas ==
  ASSUME TreeInv
  PROVE  /\ DOMAIN View.files = DOMAIN nodes /\ View.dirs = dirs
         /\ DOMAIN nodes \cap dirs = {}
         /\ \A p \in DOMAIN held : p \in DOMAIN nodes /\ View.files[p] = held[p]
         /\ ~Persistent => DOMAIN held = DOMAIN nodes
<1> DEFINE S == Settled(disk, chain)
<1>1. Sound(nodes, dirs, held, S)
  BY DEF TreeInv
<1>2. View = [files |-> [p \in DOMAIN nodes |-> Contents(held, S, p)], dirs |-> dirs]
  BY DEF View
<1> HIDE DEF S
<1>3. /\ DOMAIN nodes \cap dirs = {} /\ DOMAIN held \subseteq DOMAIN nodes
      /\ ~Persistent => DOMAIN held = DOMAIN nodes
  BY <1>1 DEF Sound, OnDisk, InMemory, Shaped
<1> QED
  BY <1>2, <1>3 DEF Contents

\* What MemoryFs does, in the words of this module.
LEMMA MemApplies ==
  ASSUME NEW t, NEW p, NEW q, NEW b
  PROVE  /\ Mem!Apply(t, Request("write", p, q, b)) = Mem!Write(t, p, b)
         /\ Mem!Apply(t, Request("append", p, q, b)) = Mem!AppendTo(t, p, b)
         /\ Mem!Apply(t, Request("delete", p, q, b)) = Mem!Delete(t, p)
         /\ Mem!Apply(t, Request("makeDir", p, q, b)) = Mem!MakeDir(t, p)
         /\ Mem!Apply(t, Request("removeDir", p, q, b)) = Mem!RemoveDir(t, p)
         /\ Mem!Apply(t, Request("copy", p, q, b)) = Mem!Copy(t, p, q)
         /\ Mem!Apply(t, Request("rename", p, q, b)) = Mem!Rename(t, p, q)
BY DEF Mem!Apply, Request

\* Refused there: with an error, and nothing done.
Fails(t, result) == result.tree = t /\ result.err # "ok"

\* What it does to write and append.
LEMMA MemWrites ==
  ASSUME NEW t, NEW p, NEW b
  PROVE  /\ p \in t.dirs => Fails(t, Mem!Write(t, p, b)) /\ Fails(t, Mem!AppendTo(t, p, b))
         /\ p \notin t.dirs => Mem!Write(t, p, b) = Mem!Done(Put(t.files, p, b), t.dirs \cup Above(p))
         /\ p \notin t.dirs => Mem!AppendTo(t, p, b) =
                Mem!Done(Put(t.files, p, (IF p \in DOMAIN t.files THEN t.files[p] ELSE <<>>) \o b),
                         t.dirs \cup Above(p))
BY MemIs DEF Mem!Write, Mem!AppendTo, Mem!Fail, Fails

\* To delete, make and remove a directory.
LEMMA MemRemoves ==
  ASSUME NEW t, NEW p
  PROVE  /\ p \notin DOMAIN t.files => Fails(t, Mem!Delete(t, p))
         /\ p \in DOMAIN t.files => Mem!Delete(t, p) = Mem!Done(Drop(t.files, p), t.dirs)
         /\ p \in DOMAIN t.files \cup t.dirs => Fails(t, Mem!MakeDir(t, p))
         /\ p \notin DOMAIN t.files \cup t.dirs =>
                Mem!MakeDir(t, p) = Mem!Done(t.files, t.dirs \cup Above(p) \cup {p})
         /\ p \notin t.dirs \/ Children(DOMAIN t.files \cup t.dirs, p) # {} => Fails(t, Mem!RemoveDir(t, p))
         /\ p \in t.dirs /\ Children(DOMAIN t.files \cup t.dirs, p) = {} =>
                Mem!RemoveDir(t, p) = Mem!Done(t.files, t.dirs \ {p})
BY MemIs DEF Mem!Delete, Mem!MakeDir, Mem!RemoveDir, Mem!Fail, Fails

\* To copy and rename.
LEMMA MemMoves ==
  ASSUME NEW t, NEW p, NEW q, DOMAIN t.files \cap t.dirs = {}
  PROVE  /\ p \notin DOMAIN t.files \/ q \in t.dirs =>
                Fails(t, Mem!Copy(t, p, q)) /\ Fails(t, Mem!Rename(t, p, q))
         /\ p \in DOMAIN t.files /\ q \notin t.dirs =>
                /\ Mem!Copy(t, p, q) = Mem!Done(Put(t.files, q, t.files[p]), t.dirs \cup Above(q))
                /\ Mem!Rename(t, p, q) = Mem!Done(Drop(Put(t.files, q, t.files[p]), p), t.dirs \cup Above(q))
<1>1. CASE p \notin DOMAIN t.files
  <2>1. Mem!Read(t, p).err # "ok"
    BY <1>1 DEF Mem!Read
  <2>2. Mem!Copy(t, p, q) = Mem!Fail(t, Mem!Read(t, p).err)
    BY <2>1 DEF Mem!Copy
  <2>3. Fails(t, Mem!Copy(t, p, q))
    BY <2>1, <2>2 DEF Mem!Fail, Fails
  <2> QED
    BY <1>1, <2>3 DEF Mem!Rename, Fails
<1>2. CASE p \in DOMAIN t.files
  <2>1. Mem!Read(t, p) = [err |-> "ok", bytes |-> t.files[p]]
    BY <1>2 DEF Mem!Read
  <2>2. Mem!Copy(t, p, q) = Mem!Write(t, q, t.files[p])
    BY <2>1 DEF Mem!Copy
  <2>3. CASE q \in t.dirs
    <3>1. Fails(t, Mem!Copy(t, p, q))
      <4> DEFINE b == t.files[p]
      <4> HIDE DEF b
      <4>1. Fails(t, Mem!Write(t, q, b))
        BY <2>3, MemWrites
      <4> QED
        BY <2>2, <4>1 DEF b
    <3> QED
      BY <2>3, <3>1 DEF Mem!Rename, Fails
  <2>4. CASE q \notin t.dirs
    <3> DEFINE files == Put(t.files, q, t.files[p])  D == t.dirs \cup Above(q)
    <3>1. Mem!Copy(t, p, q) = Mem!Done(files, D)
      BY <2>2, <2>4, MemWrites
    <3>2. p \in DOMAIN files
      BY <1>2 DEF Put
    <3> HIDE DEF files, D
    <3>3. Mem!Copy(t, p, q).err = "ok" /\ Mem!Copy(t, p, q).tree.files = files /\ Mem!Copy(t, p, q).tree.dirs = D
      BY <3>1 DEF Mem!Done
    <3>4. Mem!Rename(t, p, q) = Mem!Delete(Mem!Copy(t, p, q).tree, p)
      BY <3>3 DEF Mem!Rename
    <3>5. Mem!Rename(t, p, q) = Mem!Done(Drop(files, p), D)
      BY <3>2, <3>3, <3>4, MemRemoves
    <3> QED
      BY <1>2, <2>4, <3>1, <3>5 DEF files, D
  <2> QED
    BY <2>3, <2>4
<1> QED
  BY <1>1, <1>2

\* A change both refuse.
LEMMA MemFails ==
  ASSUME TypeInv, TreeInv, ReadsInv, NEW r, Noted(r), Refused, Fails(View, Mem!Apply(View, r))
  PROVE  Mem!Change(View, r)
BY MemRefused DEF Fails

\* Each change is the one MemoryFs makes.
LEMMA MemWrite ==
  ASSUME TypeInv, TreeInv, ReadsInv, NamesApart, NEW p \in Files, NEW v \in Values,
         Write(p, v) \/ AppendTo(p, v)
  PROVE  \E op \in {"write", "append"} : Mem!Change(View, Request(op, p, <<>>, <<v>>))
<1>1. PICK n \in Nat : n = done.changes + 2
  BY DEF TypeInv, DoneTyped
<1>2. disk' = disk /\ browser' = browser
  BY DEF Write, AppendTo, Noted
<1>3. View.dirs = dirs /\ DOMAIN View.files = DOMAIN nodes
  BY ViewHas
<1> DEFINE w == Request("write", p, <<>>, <<v>>)  a == Request("append", p, <<>>, <<v>>)
<1>4. Mem!Apply(View, w) = Mem!Write(View, p, <<v>>) /\ Mem!Apply(View, a) = Mem!AppendTo(View, p, <<v>>)
  BY MemApplies
<1>5. (Noted(w) /\ Write(p, v)) \/ (Noted(a) /\ AppendTo(p, v))
  BY DEF Write, AppendTo
<1> DEFINE made(b) == [files |-> Put(View.files, p, b), dirs |-> View.dirs \cup Above(p)]
           old == IF p \in DOMAIN View.files THEN View.files[p] ELSE <<>>
<1>6. n - 1 \in Nat /\ (n - 1) + 1 = n
  BY <1>1, HeldIs
<1> HIDE DEF w, a
<1>7. CASE p \in dirs
  <2>1. Refused
    BY <1>7 DEF Write, AppendTo
  <2>2. Fails(View, Mem!Apply(View, w)) /\ Fails(View, Mem!Apply(View, a))
    <3> DEFINE b == <<v>>
    <3>1. p \in View.dirs
      BY <1>3, <1>7
    <3> HIDE DEF b
    <3>2. Fails(View, Mem!Write(View, p, b)) /\ Fails(View, Mem!AppendTo(View, p, b))
      BY <3>1, MemWrites
    <3> QED
      BY <1>4, <3>2 DEF b
  <2>3. Mem!Change(View, w) \/ Mem!Change(View, a)
    BY <1>5, <2>1, <2>2, MemFails
  <2> QED
    BY <2>3 DEF w, a
<1>8. CASE p \notin dirs /\ Noted(w) /\ Write(p, v)
  <2>1. WriteTo(p, <<v>>) /\ reply' = "ok"
    BY <1>8 DEF Write, WriteTo, Made
  <2>2. <<v>> \in Short(n)
    BY <1>6, PathsAre
  <2>3. View' = made(<<v>>)
    BY <1>1, <1>2, <1>8, <2>1, <2>2, WriteToSound
  <2>4. Mem!Apply(View, w) = Mem!Done(Put(View.files, p, <<v>>), View.dirs \cup Above(p))
    BY <1>3, <1>4, <1>8, MemWrites
  <2>5. Mem!Change(View, w)
    BY <1>8, <2>1, <2>3, <2>4, MemMade
  <2> QED
    BY <2>5 DEF w
<1>9. CASE p \notin dirs /\ Noted(a) /\ AppendTo(p, v)
  <2>1. View' = made(old \o <<v>>) /\ reply' = "ok"
    <3> DEFINE bytes == (IF p \in DOMAIN held THEN held[p] ELSE <<>>) \o <<v>>
    <3>1. CASE (p \in DOMAIN held \/ ~Persistent) /\ WriteTo(p, bytes)
      <4>1. bytes \in Short(n)
        <5>1. (p \in DOMAIN held => held[p] \in Short(n - 1)) /\ n - 1 \in Nat
          BY <1>1, HeldIs
        <5>2. <<>> \in Short(n - 1)
          BY <5>1, PathsAre
        <5>3. v \in Bytes
          BY DEF Bytes
        <5> QED
          BY <1>6, <5>1, <5>2, <5>3 DEF Short
      <4>2. (IF p \in DOMAIN held THEN held[p] ELSE <<>>) = old
        BY <1>3, <3>1, ViewHas
      <4>3. bytes = old \o <<v>>
        BY <4>2
      <4> HIDE DEF bytes
      <4>4. View' = made(bytes)
        BY <1>1, <1>2, <1>9, <3>1, <4>1, WriteToSound
      <4> QED
        BY <3>1, <4>3, <4>4 DEF WriteTo, Made
    <3>2. CASE p \notin DOMAIN held /\ Persistent /\ AppendAt(p, v)
      <4>1. View' = made(old \o <<v>>)
        BY <1>1, <1>2, <1>9, <3>2, AppendAtSound
      <4> QED
        BY <3>2, <4>1 DEF AppendAt, Made
    <3> QED
      BY <1>9, <3>1, <3>2 DEF AppendTo
  <2>2. Mem!Apply(View, a) = Mem!Done(Put(View.files, p, old \o <<v>>), View.dirs \cup Above(p))
    BY <1>3, <1>4, <1>9, MemWrites
  <2>3. Mem!Change(View, a)
    BY <1>9, <2>1, <2>2, MemMade
  <2> QED
    BY <2>3 DEF a
<1> QED
  BY <1>5, <1>7, <1>8, <1>9

\* A delete.
LEMMA MemDelete ==
  ASSUME TypeInv, TreeInv, ReadsInv, NamesApart, NEW p \in Files, Delete(p)
  PROVE  Mem!Change(View, Request("delete", p, <<>>, <<>>))
<1>1. PICK n \in Nat : n = done.changes + 2
  BY DEF TypeInv, DoneTyped
<1> DEFINE r == Request("delete", p, <<>>, <<>>)
<1>2. disk' = disk /\ browser' = browser /\ Noted(r)
  BY DEF Delete, Noted
<1>3. Mem!Apply(View, r) = Mem!Delete(View, p) /\ DOMAIN View.files = DOMAIN nodes
  BY MemApplies, ViewHas
<1> HIDE DEF r
<1>4. CASE p \notin DOMAIN nodes
  <2>1. Fails(View, Mem!Apply(View, r)) /\ Refused
    BY <1>3, <1>4, MemRemoves DEF Delete
  <2> QED
    BY <1>2, <2>1, MemFails DEF r
<1>5. CASE p \in DOMAIN nodes
  <2>1. TakeOut(p) /\ reply' = "ok"
    BY <1>5 DEF Delete, TakeOut, Made
  <2>2. View' = [files |-> Drop(View.files, p), dirs |-> View.dirs]
    BY <1>1, <1>2, <1>5, <2>1, TakeOutSound
  <2>3. Mem!Apply(View, r) = Mem!Done(Drop(View.files, p), View.dirs)
    BY <1>3, <1>5, MemRemoves
  <2> QED
    BY <1>2, <2>1, <2>2, <2>3, MemMade DEF r
<1> QED
  BY <1>4, <1>5

\* A directory made.
LEMMA MemMakeDir ==
  ASSUME TypeInv, TreeInv, ReadsInv, NamesApart, NEW p \in Folders, MakeDir(p)
  PROVE  Mem!Change(View, Request("makeDir", p, <<>>, <<>>))
<1>1. PICK n \in Nat : n = done.changes + 2
  BY DEF TypeInv, DoneTyped
<1> DEFINE r == Request("makeDir", p, <<>>, <<>>)
<1>2. disk' = disk /\ browser' = browser /\ Noted(r)
  BY DEF MakeDir, Noted
<1>3. Mem!Apply(View, r) = Mem!MakeDir(View, p) /\ DOMAIN View.files = DOMAIN nodes /\ View.dirs = dirs
  BY MemApplies, ViewHas
<1> HIDE DEF r
<1>4. CASE p \in DOMAIN nodes \cup dirs
  <2>1. Fails(View, Mem!Apply(View, r)) /\ Refused
    BY <1>3, <1>4, MemRemoves DEF MakeDir
  <2> QED
    BY <1>2, <2>1, MemFails DEF r
<1>5. CASE p \notin DOMAIN nodes \cup dirs
  <2>1. PutDir(p) /\ reply' = "ok"
    BY <1>5 DEF MakeDir, PutDir, Made
  <2>2. View' = [files |-> View.files, dirs |-> View.dirs \cup Above(p) \cup {p}]
    BY <1>1, <1>2, <1>5, <2>1, PutDirSound
  <2>3. Mem!Apply(View, r) = Mem!Done(View.files, View.dirs \cup Above(p) \cup {p})
    BY <1>3, <1>5, MemRemoves
  <2> QED
    BY <1>2, <2>1, <2>2, <2>3, MemMade DEF r
<1> QED
  BY <1>4, <1>5

\* A directory removed.
LEMMA MemRemoveDir ==
  ASSUME TypeInv, TreeInv, ReadsInv, NamesApart, NEW p \in Folders, RemoveDir(p)
  PROVE  Mem!Change(View, Request("removeDir", p, <<>>, <<>>))
<1>1. PICK n \in Nat : n = done.changes + 2
  BY DEF TypeInv, DoneTyped
<1> DEFINE r == Request("removeDir", p, <<>>, <<>>)
<1>2. disk' = disk /\ browser' = browser /\ Noted(r)
  BY DEF RemoveDir, Noted
<1>3. Mem!Apply(View, r) = Mem!RemoveDir(View, p) /\ DOMAIN View.files = DOMAIN nodes /\ View.dirs = dirs
  BY MemApplies, ViewHas
<1> HIDE DEF r
<1>4. CASE p \notin dirs \/ Children(DOMAIN nodes \cup dirs, p) # {}
  <2>1. Fails(View, Mem!Apply(View, r)) /\ Refused
    BY <1>3, <1>4, MemRemoves DEF RemoveDir
  <2> QED
    BY <1>2, <2>1, MemFails DEF r
<1>5. CASE p \in dirs /\ Children(DOMAIN nodes \cup dirs, p) = {}
  <2>1. TakeDir(p) /\ reply' = "ok"
    BY <1>5 DEF RemoveDir, TakeDir, Made
  <2>2. View' = [files |-> View.files, dirs |-> View.dirs \ {p}]
    BY <1>1, <1>2, <1>5, <2>1, TakeDirSound
  <2>3. Mem!Apply(View, r) = Mem!Done(View.files, View.dirs \ {p})
    BY <1>3, <1>5, MemRemoves
  <2> QED
    BY <1>2, <2>1, <2>2, <2>3, MemMade DEF r
<1> QED
  BY <1>4, <1>5

\* A copy.
LEMMA MemCopy ==
  ASSUME TypeInv, TreeInv, ReadsInv, NamesApart, ShippedApart, NEW pair \in Pairs,
         NEW from, NEW to, from = pair[1], to = pair[2], Copy(from, to)
  PROVE  Mem!Change(View, Request("copy", from, to, <<>>))
<1>1. PICK n \in Nat : n = done.changes + 2
  BY DEF TypeInv, DoneTyped
<1> DEFINE r == Request("copy", from, to, <<>>)
<1>2. disk' = disk /\ browser' = browser /\ Noted(r)
  BY DEF Copy, Noted
<1>3. /\ Mem!Apply(View, r) = Mem!Copy(View, from, to)
      /\ DOMAIN View.files = DOMAIN nodes /\ View.dirs = dirs /\ DOMAIN View.files \cap View.dirs = {}
  BY MemApplies, ViewHas
<1> HIDE DEF r
<1>4. CASE from \notin DOMAIN nodes \/ to \in dirs
  <2>1. Fails(View, Mem!Apply(View, r)) /\ Refused
    BY <1>3, <1>4, MemMoves DEF Copy
  <2> QED
    BY <1>2, <2>1, MemFails DEF r
<1>5. CASE from \in DOMAIN nodes /\ to \notin dirs
  <2>1. CopyTo(from, to) /\ reply' = "ok"
    BY <1>5 DEF Copy, CopyTo, Made
  <2>2. View' = [files |-> Put(View.files, to, View.files[from]), dirs |-> View.dirs \cup Above(to)]
    BY <1>1, <1>2, <1>5, <2>1, CopyToSound
  <2>3. Mem!Apply(View, r) = Mem!Done(Put(View.files, to, View.files[from]), View.dirs \cup Above(to))
    BY <1>3, <1>5, MemMoves
  <2> QED
    BY <1>2, <2>1, <2>2, <2>3, MemMade DEF r
<1> QED
  BY <1>4, <1>5

\* A rename.
LEMMA MemRename ==
  ASSUME TypeInv, TreeInv, ReadsInv, NamesApart, ShippedApart, NEW pair \in Pairs,
         NEW from, NEW to, from = pair[1], to = pair[2], Rename(from, to)
  PROVE  Mem!Change(View, Request("rename", from, to, <<>>))
<1>1. PICK n \in Nat : n = done.changes + 2
  BY DEF TypeInv, DoneTyped
<1> DEFINE r == Request("rename", from, to, <<>>)
<1>2. disk' = disk /\ browser' = browser /\ Noted(r)
  BY DEF Rename, Noted
<1>3. /\ Mem!Apply(View, r) = Mem!Rename(View, from, to)
      /\ DOMAIN View.files = DOMAIN nodes /\ View.dirs = dirs /\ DOMAIN View.files \cap View.dirs = {}
  BY MemApplies, ViewHas
<1> HIDE DEF r
<1>4. CASE from \notin DOMAIN nodes \/ to \in dirs
  <2>1. Fails(View, Mem!Apply(View, r)) /\ Refused
    BY <1>3, <1>4, MemMoves DEF Rename
  <2> QED
    BY <1>2, <2>1, MemFails DEF r
<1>5. CASE from \in DOMAIN nodes /\ to \notin dirs
  <2>1. MoveTo(from, to) /\ reply' = "ok"
    BY <1>5 DEF Rename, MoveTo, Made
  <2>2. View' = [files |-> Drop(Put(View.files, to, View.files[from]), from), dirs |-> View.dirs \cup Above(to)]
    BY <1>1, <1>2, <1>5, <2>1, MoveToSound
  <2>3. Mem!Apply(View, r) = Mem!Done(Drop(Put(View.files, to, View.files[from]), from), View.dirs \cup Above(to))
    BY <1>3, <1>5, MemMoves
  <2> QED
    BY <1>2, <2>1, <2>2, <2>3, MemMade DEF r
<1> QED
  BY <1>4, <1>5

\* What scripts ask.
MemRequests ==
    [op : {"write", "append"}, path : Files, to : {<<>>}, bytes : {<<v>> : v \in Values}]
    \cup [op : {"delete"}, path : Files, to : {<<>>}, bytes : {<<>>}]
    \cup [op : {"makeDir", "removeDir"}, path : Folders, to : {<<>>}, bytes : {<<>>}]
    \cup {Request(op, pair[1], pair[2], <<>>) : op \in {"copy", "rename"}, pair \in Pairs}

\* Each is one of these.
LEMMA RequestsAre ==
  /\ \A op \in {"write", "append"}, p \in Files, v \in Values : Request(op, p, <<>>, <<v>>) \in MemRequests
  /\ \A p \in Files : Request("delete", p, <<>>, <<>>) \in MemRequests
  /\ \A op \in {"makeDir", "removeDir"}, p \in Folders : Request(op, p, <<>>, <<>>) \in MemRequests
  /\ \A op \in {"copy", "rename"}, pair \in Pairs : Request(op, pair[1], pair[2], <<>>) \in MemRequests
<1>1. \A op \in {"write", "append"}, p \in Files, v \in Values : Request(op, p, <<>>, <<v>>) \in MemRequests
  BY DEF MemRequests, Request
<1>2. \A p \in Files : Request("delete", p, <<>>, <<>>) \in MemRequests
  BY DEF MemRequests, Request
<1>3. \A op \in {"makeDir", "removeDir"}, p \in Folders : Request(op, p, <<>>, <<>>) \in MemRequests
  BY DEF MemRequests, Request
<1>4. ASSUME NEW op \in {"copy", "rename"}, NEW pair \in Pairs
      PROVE  Request(op, pair[1], pair[2], <<>>) \in MemRequests
  BY DEF MemRequests
<1> QED
  BY <1>1, <1>2, <1>3, <1>4

\* Every change is a step of MemoryFs.
LEMMA MemChanges ==
  ASSUME TypeInv, TreeInv, ReadsInv, NamesApart, ShippedApart, Changing
  PROVE  Mem!Next
<1> USE DEF Changing, Reading
<1>1. \E r \in MemRequests : Mem!Change(View, r)
  <2>1. ASSUME NEW p \in Files, NEW v \in Values, Write(p, v) \/ AppendTo(p, v)
        PROVE  \E r \in MemRequests : Mem!Change(View, r)
    BY <2>1, MemWrite, RequestsAre
  <2>2. ASSUME NEW p \in Files, Delete(p) PROVE \E r \in MemRequests : Mem!Change(View, r)
    BY <2>2, MemDelete, RequestsAre
  <2>3. ASSUME NEW p \in Folders, MakeDir(p) \/ RemoveDir(p)
        PROVE  \E r \in MemRequests : Mem!Change(View, r)
    BY <2>3, MemMakeDir, MemRemoveDir, RequestsAre
  <2>4. ASSUME NEW pair \in Pairs, Copy(pair[1], pair[2])
        PROVE  \E r \in MemRequests : Mem!Change(View, r)
    <3> DEFINE r == Request("copy", pair[1], pair[2], <<>>)
    <3>1. r \in MemRequests
      BY RequestsAre
    <3>2. Mem!Change(View, r)
      BY <2>4, MemCopy
    <3> QED
      BY <3>1, <3>2
  <2>5. ASSUME NEW pair \in Pairs, Rename(pair[1], pair[2])
        PROVE  \E r \in MemRequests : Mem!Change(View, r)
    <3> DEFINE r == Request("rename", pair[1], pair[2], <<>>)
    <3>1. r \in MemRequests
      BY RequestsAre
    <3>2. Mem!Change(View, r)
      BY <2>5, MemRename
    <3> QED
      BY <3>1, <3>2
  <2> QED
    BY <2>1, <2>2, <2>3, <2>4, <2>5
<1> QED
  BY <1>1 DEF Mem!Next, MemRequests

\* The queue, and reads.
LEMMA MemQueue ==
  ASSUME TypeInv, TreeInv, MakeFile \/ CommitFirst \/ Commit
  PROVE  UNCHANGED Mem!memVars
<1>1. View' = View
  BY QueueSound
<1>2. UNCHANGED <<done, reply, answers>>
  BY DEF MakeFile, CommitFirst, Commit, QueueKept
<1>3. MemReads' = MemReads
  <2>1. ASSUME NEW c \in Clients PROVE reads'[c].path = reads[c].path /\ reads'[c].seen = reads[c].seen
    <3>1. reads[c] = [path |-> reads[c].path, ahead |-> reads[c].ahead, seen |-> reads[c].seen]
      BY DEF TypeInv, ReadsTyped
    <3>2. [reads[c] EXCEPT !.ahead = reads[c].ahead - 1]
            = [path |-> reads[c].path, ahead |-> reads[c].ahead - 1, seen |-> reads[c].seen]
      BY <3>1, ReadIs
    <3>3. reads'[c] = reads[c] \/ reads'[c] = [reads[c] EXCEPT !.ahead = reads[c].ahead - 1]
      BY DEF MakeFile, CommitFirst, Commit
    <3> DEFINE p == reads[c].path  a == reads[c].ahead - 1  s == reads[c].seen
    <3>4. reads'[c] = reads[c] \/ reads'[c] = [path |-> p, ahead |-> a, seen |-> s]
      BY <3>2, <3>3
    <3>5. [path |-> p, ahead |-> a, seen |-> s].path = p /\ [path |-> p, ahead |-> a, seen |-> s].seen = s
      OBVIOUS
    <3> QED
      BY <3>4, <3>5
  <2> QED
    BY <2>1 DEF MemReads
<1> QED
  BY <1>1, <1>2, <1>3 DEF Mem!memVars, MemReads, MemReply

\* So are reads.
LEMMA MemReading ==
  ASSUME TypeInv, TreeInv, ReadsInv, NEW c \in Clients,
         EndRead(c) \/ \E p \in Files : ReadNow(c, p) \/ BeginRead(c, p)
  PROVE  Mem!Next
<1>1. View' = View /\ MemReply' = MemReply
  BY ReadsSound DEF EndRead, ReadNow, BeginRead, StillTheSame, treeVars, diskVars, MemReply
<1>2. /\ DOMAIN reads = Clients /\ reads = [d \in Clients |-> reads[d]]
      /\ reads[c] = NotReading <=> MemReads[c] = Mem!NotReading
      /\ MemReads[c] = [path |-> reads[c].path, seen |-> reads[c].seen]
  BY ReadingIs DEF TypeInv, ReadsTyped
<1>3. ASSUME NEW r, reads' = [reads EXCEPT ![c] = r]
      PROVE  MemReads' = [MemReads EXCEPT ![c] = [path |-> r.path, seen |-> r.seen]]
  <2>1. \A d \in Clients : reads'[d] = IF d = c THEN r ELSE reads[d]
    BY <1>2, <1>3
  <2>2. MemReads' = [d \in Clients |-> [path |-> reads'[d].path, seen |-> reads'[d].seen]]
    BY DEF MemReads
  <2>3. MemReads = [d \in Clients |-> [path |-> reads[d].path, seen |-> reads[d].seen]]
    BY DEF MemReads
  <2> QED
    BY <2>1, <2>2, <2>3
<1>4. ASSUME NEW p \in Files, ReadNow(c, p) PROVE Mem!ReadNow(c, p)
  <2> DEFINE data == IF p \notin dirs /\ p \in DOMAIN nodes THEN [err |-> "ok", bytes |-> held[p]]
                     ELSE [err |-> "failed", bytes |-> <<>>]
  <2>1. Answer(c, data) /\ reads[c] = NotReading /\ reads' = reads
    BY <1>4 DEF ReadNow
  <2>2. data = Mem!Seen(Mem!Read(View, p))
    <3>1. data = ReadView(View, p)
      BY <1>4, ViewHas DEF ReadNow, ReadView
    <3> QED
      BY <3>1, MemIs
  <2> HIDE DEF data
  <2>3. Mem!Answer(c, data)
    BY <2>1 DEF Answer, Mem!Answer
  <2>4. MemReads' = MemReads
    BY <2>1 DEF MemReads
  <2> QED
    BY <1>1, <1>2, <2>1, <2>2, <2>3, <2>4 DEF Mem!ReadNow, MemReads, MemReply
<1>5. ASSUME NEW p \in Files, BeginRead(c, p) PROVE Mem!BeginRead(c, p)
  <2> DEFINE seen == {ReadView(View, p)}  r == [path |-> p, ahead |-> Len(chain), seen |-> seen]
  <2>1. reads[c] = NotReading /\ answers' = answers /\ reads' = [reads EXCEPT ![c] = r]
    BY <1>5 DEF BeginRead
  <2>2. seen = {Mem!Seen(Mem!Read(View, p))}
    BY MemIs
  <2> HIDE DEF seen
  <2>3. r.path = p /\ r.seen = seen
    OBVIOUS
  <2> HIDE DEF r
  <2>4. MemReads' = [MemReads EXCEPT ![c] = [path |-> p, seen |-> seen]]
    BY <1>3, <2>1, <2>3
  <2> QED
    BY <1>1, <1>2, <2>1, <2>2, <2>4 DEF Mem!BeginRead, MemReads, MemReply
<1>6. ASSUME EndRead(c) PROVE Mem!EndRead(c)
  <2> DEFINE data == ReadView(disk, reads[c].path)
  <2>1. /\ reads[c] # NotReading /\ reads[c].ahead = 0 /\ Answer(c, data)
        /\ reads' = [reads EXCEPT ![c] = NotReading]
    BY <1>6 DEF EndRead
  <2>2. data \in reads[c].seen
    <3>1. Len(chain) \in Nat /\ 0 \in 0..Len(chain)
      BY DEF TypeInv, QueueTyped
    <3>2. After(disk, chain)[0] = disk
      BY <3>1, AfterIs
    <3>3. Sees(After(disk, chain), Len(chain), reads[c].path, reads[c].ahead, reads[c].seen)
      BY <2>1 DEF ReadsInv
    <3> QED
      BY <2>1, <3>1, <3>2, <3>3 DEF Sees
  <2> HIDE DEF data
  <2>3. data \in MemReads[c].seen
    BY <1>2, <2>2
  <2>4. Mem!Answer(c, data)
    BY <2>1 DEF Answer, Mem!Answer
  <2>5. MemReads' = [MemReads EXCEPT ![c] = Mem!NotReading]
    <3>1. NotReading.path = <<>> /\ NotReading.seen = {}
      BY DEF NotReading
    <3>2. MemReads' = [MemReads EXCEPT ![c] = [path |-> <<>>, seen |-> {}]]
      BY <1>3, <2>1, <3>1
    <3> QED
      BY <3>2, MemIs
  <2> QED
    BY <1>1, <1>2, <2>1, <2>3, <2>4, <2>5 DEF Mem!EndRead, MemReads, MemReply
<1> QED
  BY <1>4, <1>5, <1>6 DEF Mem!Next

\* Every step is one of MemoryFs, or none there.
LEMMA MemStep ==
  ASSUME TypeInv, TreeInv, ReadsInv, NamesApart, ShippedApart, [Next]_vars
  PROVE  [Mem!Next]_(Mem!memVars)
<1> USE DEF Changing, Reading
<1>1. CASE UNCHANGED vars
  <2>1. View' = View
    BY <1>1, ReadsSound DEF vars, treeVars, diskVars
  <2> QED
    BY <1>1, <2>1 DEF vars, Mem!memVars
<1>2. CASE Next
  BY <1>2, MemChanges, MemReading, MemQueue DEF Next, Scripts
<1> QED
  BY <1>1, <1>2

\* Between two reloads a script sees MemoryFs, although contents reach the disk later
\* (opfs.ts: "The semantics here are MemoryFs's").
THEOREM MemSpecHolds ==
  ASSUME NamesApart, ShippedApart
  PROVE  Spec => MemSpec
<1> DEFINE Inv == TypeInv /\ TreeInv /\ QueueInv /\ ReadsInv
<1>1. Init => Inv /\ Mem!Init
  BY InitTyped, InitSound, ReadsInit, MemInit
<1>2. Inv /\ [Next]_vars => Inv'
  BY TypeNext, TreeNext, QueueNext, ReadsNext
<1>3. Inv /\ [Next]_vars => [Mem!Next]_(Mem!memVars)
  BY MemStep
<1> HIDE DEF Inv
<1> QED
  BY <1>1, <1>2, <1>3, PTL DEF Spec, MemSpec, Mem!Spec
=============================================================================
