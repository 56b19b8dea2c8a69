-------------------------- MODULE FilePanelProofs --------------------------
(***************************************************************************)
(* Proofs about the file panel: PanelFollowsTree is an invariant of module *)
(* FilePanel, and so is ReloadIsAPast, for any paths, values, browsers and *)
(* bounds.                                                                 *)
(*                                                                         *)
(* That the panel shows the tree once all has come is not inductive:       *)
(* before that it lags behind, and while it is told the whole it is told   *)
(* some of it twice.  What every step keeps (MailInv) is that all that was *)
(* ever reported has as its last word on every path what the tree has      *)
(* there (Told), up to an answer what the answer has, so that reports      *)
(* replayed over an answer come to it again (Near); and that what the      *)
(* panel will show after each message is a tree that was.                  *)
(*                                                                         *)
(* ReloadIsAPast is what it is of the scripts and the queue alone, a drop  *)
(* on disk being beside what the queue leads through (Alike).              *)
(***************************************************************************)
EXTENDS FilePanel, GameFsProofs

-----------------------------------------------------------------------------
(* Reports, taken in one after the other.                                  *)

\* What the page shows once n of the reports are taken in, for each n.
Taken(t, list) ==
    CHOOSE f : f = [n \in 0..Len(list) |-> IF n = 0 THEN t ELSE Take(f[n - 1], list[n])]

\* There is such a function.
LEMMA TakenDefined ==
  ASSUME NEW t, NEW list, Len(list) \in Nat
  PROVE  \E f : f = [n \in 0..Len(list) |-> IF n = 0 THEN t ELSE Take(f[n - 1], list[n])]
<1> DEFINE Defines(f, k) == f = [n \in 0..k |-> IF n = 0 THEN t ELSE Take(f[n - 1], list[n])]
           N == {k \in Nat : \E f : Defines(f, k)}
<1>1. 0 \in N
  <2> DEFINE f == [n \in 0..0 |-> t]
  <2>1. f = [n \in 0..0 |-> IF n = 0 THEN t ELSE Take(f[n - 1], list[n])]
    OBVIOUS
  <2> HIDE DEF f
  <2> QED
    BY <2>1
<1>2. ASSUME NEW k \in Nat, k \in N PROVE k + 1 \in N
  <2>1. PICK f : Defines(f, k)
    BY <1>2
  <2> DEFINE g == [n \in 0..(k + 1) |-> IF n = 0 THEN t ELSE Take(f[n - 1], list[n])]
  <2>2. \A n \in 0..k : g[n] = f[n]
    BY <2>1
  <2>3. \A n \in 0..(k + 1) : n # 0 => n - 1 \in 0..k
    OBVIOUS
  <2>4. g = [n \in 0..(k + 1) |-> IF n = 0 THEN t ELSE Take(g[n - 1], list[n])]
    <3> HIDE DEF Defines
    <3>1. \A n \in 0..(k + 1) : g[n] = IF n = 0 THEN t ELSE Take(f[n - 1], list[n])
      OBVIOUS
    <3>2. \A n \in 0..(k + 1) : g[n] = IF n = 0 THEN t ELSE Take(g[n - 1], list[n])
      BY <2>2, <2>3, <3>1
    <3>3. DOMAIN g = 0..(k + 1) /\ g = [n \in 0..(k + 1) |-> g[n]]
      OBVIOUS
    <3> HIDE DEF g
    <3> QED
      BY <3>2, <3>3
  <2> HIDE DEF g
  <2> QED
    BY <2>4
<1>3. Nat \subseteq N
  <2> HIDE DEF N
  <2> QED
    BY <1>1, <1>2, NatSetInduction
<1> QED
  BY <1>3

\* It starts from the tree, each report follows the last, and it ends at TakeAll.
LEMMA TakenIs ==
  ASSUME NEW t, NEW list, Len(list) \in Nat
  PROVE  /\ Taken(t, list)[0] = t
         /\ Taken(t, list)[Len(list)] = TakeAll(t, list)
         /\ \A n \in 1..Len(list) : Taken(t, list)[n] = Take(Taken(t, list)[n - 1], list[n])
<1>1. Taken(t, list) = [n \in 0..Len(list) |->
          IF n = 0 THEN t ELSE Take(Taken(t, list)[n - 1], list[n])]
  BY TakenDefined DEF Taken
<1>2. TakeAll(t, list) = Taken(t, list)[Len(list)]
  BY DEF TakeAll, Taken
<1>3. \A n \in 1..Len(list) : n \in 0..Len(list) /\ n # 0
  OBVIOUS
<1>4. 0 \in 0..Len(list)
  OBVIOUS
<1> QED
  BY <1>1, <1>2, <1>3, <1>4

\* It is the only one that does.
LEMMA TakenOnly ==
  ASSUME NEW t, NEW list, Len(list) \in Nat, NEW f, f[0] = t,
         \A n \in 1..Len(list) : f[n] = Take(f[n - 1], list[n])
  PROVE  TakeAll(t, list) = f[Len(list)]
<1> DEFINE N == {n \in Nat : n <= Len(list) => Taken(t, list)[n] = f[n]}
<1>1. 0 \in N
  BY TakenIs
<1>2. ASSUME NEW n \in Nat, n \in N PROVE n + 1 \in N
  <2> SUFFICES ASSUME n + 1 <= Len(list) PROVE Taken(t, list)[n + 1] = f[n + 1]
    OBVIOUS
  <2>1. n + 1 \in 1..Len(list) /\ (n + 1) - 1 = n
    OBVIOUS
  <2>2. Taken(t, list)[n] = f[n]
    BY <1>2
  <2>3. Taken(t, list)[n + 1] = Take(Taken(t, list)[(n + 1) - 1], list[n + 1])
    BY <2>1, TakenIs
  <2> QED
    BY <2>1, <2>2, <2>3
<1>3. Nat \subseteq N
  <2> HIDE DEF N
  <2> QED
    BY <1>1, <1>2, NatSetInduction
<1> QED
  BY <1>3, TakenIs

\* Reports taken in one after the other, or together.
LEMMA TakeBoth ==
  ASSUME NEW E, NEW g \in Seq(E), NEW h \in Seq(E), NEW t
  PROVE  TakeAll(t, g \o h) = TakeAll(TakeAll(t, g), h)
<1> DEFINE m == Len(g)  k == Len(h)  u == TakeAll(t, g)
           f == [n \in 0..(m + k) |-> IF n <= m THEN Taken(t, g)[n] ELSE Taken(u, h)[n - m]]
<1>1. /\ m \in Nat /\ k \in Nat /\ Len(g \o h) = m + k
      /\ \A n \in 1..(m + k) : (g \o h)[n] = IF n <= m THEN g[n] ELSE h[n - m]
  OBVIOUS
<1>2. /\ Taken(t, g)[0] = t /\ Taken(t, g)[m] = u
      /\ \A n \in 1..m : Taken(t, g)[n] = Take(Taken(t, g)[n - 1], g[n])
  BY <1>1, TakenIs
<1>3. /\ Taken(u, h)[0] = u /\ Taken(u, h)[k] = TakeAll(u, h)
      /\ \A n \in 1..k : Taken(u, h)[n] = Take(Taken(u, h)[n - 1], h[n])
  <2> HIDE DEF u
  <2> QED
    BY <1>1, TakenIs
<1> HIDE DEF u, m, k
<1>4. \A n \in 0..(m + k) : f[n] = IF n <= m THEN Taken(t, g)[n] ELSE Taken(u, h)[n - m]
  OBVIOUS
<1> HIDE DEF f
<1>5. f[0] = t /\ f[m + k] = TakeAll(u, h)
  <2>1. 0 \in 0..(m + k) /\ m + k \in 0..(m + k) /\ 0 <= m
    BY <1>1
  <2>2. f[0] = t
    BY <1>2, <1>4, <2>1
  <2>3. CASE k = 0
    <3>1. m + k = m /\ m <= m
      BY <1>1, <2>3
    <3> QED
      BY <1>2, <1>3, <1>4, <2>1, <2>2, <2>3, <3>1
  <2>4. CASE k # 0
    <3>1. ~(m + k <= m) /\ (m + k) - m = k
      BY <1>1, <2>4
    <3> QED
      BY <1>3, <1>4, <2>1, <2>2, <3>1
  <2> QED
    BY <2>3, <2>4
<1>6. ASSUME NEW n \in 1..(m + k) PROVE f[n] = Take(f[n - 1], (g \o h)[n])
  <2>1. n \in 0..(m + k) /\ n - 1 \in 0..(m + k)
    BY <1>1
  <2>2. CASE n <= m
    <3>1. n \in 1..m /\ n - 1 <= m
      BY <1>1, <2>2
    <3> QED
      BY <1>1, <1>2, <1>4, <2>1, <2>2, <3>1
  <2>3. CASE ~(n <= m)
    <3>1. n - m \in 1..k /\ (n - 1) - m = (n - m) - 1
      BY <1>1, <2>3
    <3>2. f[n - 1] = Taken(u, h)[(n - m) - 1]
      <4>1. CASE n - 1 <= m
        <5>1. n - 1 = m /\ (n - m) - 1 = 0
          BY <1>1, <2>3, <4>1
        <5> QED
          BY <1>2, <1>3, <1>4, <2>1, <4>1, <5>1
      <4>2. CASE ~(n - 1 <= m)
        BY <1>4, <2>1, <3>1, <4>2
      <4> QED
        BY <4>1, <4>2
    <3> QED
      BY <1>1, <1>3, <1>4, <2>1, <2>3, <3>1, <3>2
  <2> QED
    BY <2>2, <2>3
<1> DEFINE gh == g \o h
<1>7. Len(gh) = m + k /\ Len(gh) \in Nat
  BY <1>1
<1> HIDE DEF gh
<1>8. TakeAll(t, gh) = f[Len(gh)]
  <2>1. \A n \in 1..Len(gh) : f[n] = Take(f[n - 1], gh[n])
    BY <1>6, <1>7 DEF gh
  <2> QED
    BY <1>5, <1>7, <2>1, TakenOnly
<1> QED
  BY <1>5, <1>7, <1>8 DEF gh, u

-----------------------------------------------------------------------------
(* What reports tell of a tree.                                            *)

\* What is reported of a name.
Reports == [op : {"file", "gone", "dir"}, path : Names, size : 0..(MaxChanges + 1)]

\* A tree as the panel keeps it, without whether it is loaded.
Bare(t) == [files |-> t.files, dirs |-> t.dirs]
IsTree(t) == t = Bare(t) /\ t.files = [q \in DOMAIN t.files |-> t.files[q]]

\* These are the files and directories of one, or of what the panel keeps.
Keeps(t, f, D) ==
    /\ t.files = f /\ t.dirs = D
    /\ t = [files |-> f, dirs |-> D] \/ \E l : t = [files |-> f, dirs |-> D, loaded |-> l]

\* A report does the same to both.
LEMMA TakeIs ==
  ASSUME NEW f, NEW D, NEW t, Keeps(t, f, D), NEW c \in Reports
  PROVE  /\ c.op = "file" => Bare(Take(t, c)) = [files |-> Put(f, c.path, c.size), dirs |-> D \cup Missing(D, c.path)]
         /\ c.op = "dir" => Bare(Take(t, c)) = [files |-> f, dirs |-> D \cup {c.path} \cup Missing(D, c.path)]
         /\ c.op = "gone" => Bare(Take(t, c)) = [files |-> Drop(f, c.path), dirs |-> D \ {c.path}]
<1>0. t.files = f /\ t.dirs = D
  BY DEF Keeps
<1>1. ASSUME NEW g, NEW E
      PROVE  Bare([t EXCEPT !.files = g, !.dirs = E]) = [files |-> g, dirs |-> E]
  BY DEF Bare, Keeps
<1>2. ASSUME NEW E
      PROVE  Bare([t EXCEPT !.dirs = E]) = [files |-> f, dirs |-> E]
  BY DEF Bare, Keeps
<1>3. c.op = "file" => Take(t, c) = [t EXCEPT !.files = Put(t.files, c.path, c.size),
                                             !.dirs = t.dirs \cup Missing(t.dirs, c.path)]
  BY DEF Take
<1>4. c.op = "dir" => Take(t, c) = [t EXCEPT !.dirs = t.dirs \cup {c.path} \cup Missing(t.dirs, c.path)]
  BY DEF Take
<1>5. c.op = "gone" => Take(t, c) = [t EXCEPT !.files = Drop(t.files, c.path), !.dirs = t.dirs \ {c.path}]
  BY DEF Take
<1>6. c.op = "file" => Bare(Take(t, c)) = [files |-> Put(f, c.path, c.size), dirs |-> D \cup Missing(D, c.path)]
  <2> DEFINE g == Put(t.files, c.path, c.size)  E == t.dirs \cup Missing(t.dirs, c.path)
  <2>1. c.op = "file" => Take(t, c) = [t EXCEPT !.files = g, !.dirs = E]
    BY <1>3
  <2> HIDE DEF g, E
  <2>2. c.op = "file" => Bare(Take(t, c)) = [files |-> g, dirs |-> E]
    BY <1>1, <2>1
  <2> QED
    BY <1>0, <2>2 DEF g, E
<1>7. c.op = "dir" => Bare(Take(t, c)) = [files |-> f, dirs |-> D \cup {c.path} \cup Missing(D, c.path)]
  <2> DEFINE E == t.dirs \cup {c.path} \cup Missing(t.dirs, c.path)
  <2>1. c.op = "dir" => Take(t, c) = [t EXCEPT !.dirs = E]
    BY <1>4
  <2> HIDE DEF E
  <2>2. c.op = "dir" => Bare(Take(t, c)) = [files |-> f, dirs |-> E]
    BY <1>2, <2>1
  <2> QED
    BY <1>0, <2>2 DEF E
<1>8. c.op = "gone" => Bare(Take(t, c)) = [files |-> Drop(f, c.path), dirs |-> D \ {c.path}]
  <2> DEFINE g == Drop(t.files, c.path)  E == t.dirs \ {c.path}
  <2>1. c.op = "gone" => Take(t, c) = [t EXCEPT !.files = g, !.dirs = E]
    BY <1>5
  <2> HIDE DEF g, E
  <2>2. c.op = "gone" => Bare(Take(t, c)) = [files |-> g, dirs |-> E]
    BY <1>1, <2>1
  <2> QED
    BY <1>0, <2>2 DEF g, E
<1> QED
  BY <1>6, <1>7, <1>8

\* And to a tree whose other part is not kept, it is one again.
LEMMA TakeBare ==
  ASSUME NEW f, NEW D, NEW X, X = [files |-> f, dirs |-> D], NEW c \in Reports
  PROVE  Take(X, c) = Bare(Take(X, c))
<1>0. X.files = f /\ X.dirs = D
  OBVIOUS
<1>1. ASSUME NEW g, NEW E
      PROVE  [X EXCEPT !.files = g, !.dirs = E] = [files |-> g, dirs |-> E]
  <2>1. [X EXCEPT !.files = g] = [files |-> g, dirs |-> D]
    OBVIOUS
  <2> DEFINE Z == [X EXCEPT !.files = g]
  <2>2. [Z EXCEPT !.dirs = E] = [files |-> g, dirs |-> E]
    <3>1. Z = [files |-> g, dirs |-> D]
      BY <2>1
    <3> HIDE DEF Z
    <3> QED
      BY <3>1
  <2>3. [X EXCEPT !.files = g, !.dirs = E] = [Z EXCEPT !.dirs = E]
    OBVIOUS
  <2> QED
    BY <2>2, <2>3
<1>2. ASSUME NEW E PROVE [X EXCEPT !.dirs = E] = [files |-> f, dirs |-> E]
  OBVIOUS
<1>3. \E g, E : Take(X, c) = [files |-> g, dirs |-> E]
  <2>1. CASE c.op = "file"
    <3> DEFINE g == Put(X.files, c.path, c.size)  E == X.dirs \cup Missing(X.dirs, c.path)
    <3>1. Take(X, c) = [X EXCEPT !.files = g, !.dirs = E]
      BY <2>1 DEF Take
    <3> HIDE DEF g, E
    <3> QED
      BY <1>1, <3>1
  <2>2. CASE c.op = "dir"
    <3> DEFINE E == X.dirs \cup {c.path} \cup Missing(X.dirs, c.path)
    <3>1. Take(X, c) = [X EXCEPT !.dirs = E]
      BY <2>2 DEF Take
    <3> HIDE DEF E
    <3> QED
      BY <1>2, <3>1
  <2>3. CASE c.op = "gone"
    <3> DEFINE g == Drop(X.files, c.path)  E == X.dirs \ {c.path}
    <3>1. Take(X, c) = [X EXCEPT !.files = g, !.dirs = E]
      BY <2>3 DEF Take
    <3> HIDE DEF g, E
    <3> QED
      BY <1>1, <3>1
  <2> QED
    BY <2>1, <2>2, <2>3 DEF Reports
<1> DEFINE Y == Take(X, c)
<1> HIDE DEF Y
<1> QED
  BY <1>3 DEF Bare, Y

\* Whether reports after the n-th say of a path that it is, or is not, a directory;
\* and a file.
Named(h, n, q) == \E j \in (n + 1)..Len(h) : h[j].op \in {"dir", "gone"} /\ h[j].path = q
Sized(h, n, q) == \E j \in (n + 1)..Len(h) : h[j].op \in {"file", "gone"} /\ h[j].path = q

\* The last word of the reports h on each path is what it is in the tree T.
ToldAt(h, i, T) ==
    /\ h[i].op \in {"dir", "gone"} =>
          Named(h, i, h[i].path) \/ (h[i].op = "dir" <=> h[i].path \in T.dirs)
    /\ h[i].op = "file" =>
          Sized(h, i, h[i].path) \/ (h[i].path \in DOMAIN T.files /\ T.files[h[i].path] = h[i].size)
    /\ h[i].op = "gone" => Sized(h, i, h[i].path) \/ h[i].path \notin DOMAIN T.files
    /\ h[i].op # "gone" => \A q \in Above(h[i].path) : q \in T.dirs \/ Named(h, i, q)
Told(h, T) == \A i \in 1..Len(h) : ToldAt(h, i, T)

\* X is T, but for paths of which reports after the n-th have a word to say.
Near(X, h, n, T) ==
    /\ \A q : (q \in X.dirs <=> q \in T.dirs) \/ Named(h, n, q)
    /\ \A q : \/ Sized(h, n, q)
              \/ /\ q \in DOMAIN X.files <=> q \in DOMAIN T.files
                 /\ q \in DOMAIN X.files => X.files[q] = T.files[q]

\* One report on, what is left to be said.
LEMMA NamedNext ==
  ASSUME NEW h \in Seq(Reports), NEW n \in Nat, n < Len(h), NEW q
  PROVE  /\ Named(h, n, q) =>
              Named(h, n + 1, q) \/ (h[n + 1].op \in {"dir", "gone"} /\ h[n + 1].path = q)
         /\ Sized(h, n, q) =>
              Sized(h, n + 1, q) \/ (h[n + 1].op \in {"file", "gone"} /\ h[n + 1].path = q)
<1>1. \A j \in (n + 1)..Len(h) : j = n + 1 \/ j \in ((n + 1) + 1)..Len(h)
  OBVIOUS
<1> QED
  BY <1>1 DEF Named, Sized

\* One report taken in, a tree that differs only where more will be said still does.
LEMMA NearNext ==
  ASSUME NEW h \in Seq(Reports), NEW T, Told(h, T), NEW n \in Nat, n < Len(h), NEW X, IsTree(X),
         Near(X, h, n, T)
  PROVE  LET Y == Take(X, h[n + 1]) IN IsTree(Y) /\ Near(Y, h, n + 1, T)
<1> DEFINE c == h[n + 1]  p == c.path  Y == Take(X, c)
<1>1. n + 1 \in 1..Len(h) /\ c \in Reports /\ ToldAt(h, n + 1, T)
  BY DEF Told
<1>2. X = [files |-> X.files, dirs |-> X.dirs] /\ X.files = [q \in DOMAIN X.files |-> X.files[q]]
  BY DEF IsTree, Bare
<1>3. /\ c.op = "file" => Bare(Y) = [files |-> Put(X.files, p, c.size), dirs |-> X.dirs \cup Missing(X.dirs, p)]
      /\ c.op = "dir" => Bare(Y) = [files |-> X.files, dirs |-> X.dirs \cup {p} \cup Missing(X.dirs, p)]
      /\ c.op = "gone" => Bare(Y) = [files |-> Drop(X.files, p), dirs |-> X.dirs \ {p}]
      /\ Y = Bare(Y)
  <2>1. PICK f, D, d : f = X.files /\ D = X.dirs /\ d = c
    OBVIOUS
  <2>2. X = [files |-> f, dirs |-> D] /\ d \in Reports
    BY <1>1, <1>2, <2>1
  <2>3. Take(X, d) = Bare(Take(X, d))
    BY <2>2, TakeBare
  <2>4. /\ d.op = "file" => Bare(Take(X, d)) = [files |-> Put(f, d.path, d.size), dirs |-> D \cup Missing(D, d.path)]
        /\ d.op = "dir" => Bare(Take(X, d)) = [files |-> f, dirs |-> D \cup {d.path} \cup Missing(D, d.path)]
        /\ d.op = "gone" => Bare(Take(X, d)) = [files |-> Drop(f, d.path), dirs |-> D \ {d.path}]
    <3> HIDE DEF c
    <3>1. Keeps(X, f, D)
      BY <2>1, <2>2 DEF Keeps
    <3>2. d \in Reports
      BY <2>2
    <3> QED
      BY <3>1, <3>2, TakeIs
  <2> HIDE DEF c
  <2> QED
    BY <2>1, <2>3, <2>4
<1>4. Y = Bare(Y)
  BY <1>3
<1> HIDE DEF Y
<1>5. /\ c.op = "file" => Y.files = Put(X.files, p, c.size) /\ Y.dirs = X.dirs \cup Missing(X.dirs, p)
      /\ c.op = "dir" => Y.files = X.files /\ Y.dirs = X.dirs \cup {p} \cup Missing(X.dirs, p)
      /\ c.op = "gone" => Y.files = Drop(X.files, p) /\ Y.dirs = X.dirs \ {p}
  BY <1>3, <1>4
<1>6. Y.files = [q \in DOMAIN Y.files |-> Y.files[q]]
  BY <1>1, <1>2, <1>5 DEF Put, Drop, Restrict, Reports
<1>7. ASSUME NEW q PROVE (q \in Y.dirs <=> q \in T.dirs) \/ Named(h, n + 1, q)
  <2>1. (q \in X.dirs <=> q \in T.dirs) \/ Named(h, n + 1, q) \/ (c.op \in {"dir", "gone"} /\ p = q)
    BY NamedNext DEF Near
  <2>2. c.op # "gone" /\ q \in Missing(X.dirs, p) => q \in T.dirs \/ Named(h, n + 1, q)
    BY <1>1 DEF ToldAt, Missing
  <2>3. c.op \in {"dir", "gone"} /\ p = q => Named(h, n + 1, q) \/ (c.op = "dir" <=> q \in T.dirs)
    BY <1>1 DEF ToldAt
  <2> HIDE DEF c
  <2> QED
    BY <1>1, <1>5, <2>1, <2>2, <2>3 DEF Reports
<1>8. ASSUME NEW q
      PROVE  \/ Sized(h, n + 1, q)
             \/ /\ q \in DOMAIN Y.files <=> q \in DOMAIN T.files
                /\ q \in DOMAIN Y.files => Y.files[q] = T.files[q]
  <2>1. \/ Sized(h, n + 1, q) \/ (c.op \in {"file", "gone"} /\ p = q)
        \/ /\ q \in DOMAIN X.files <=> q \in DOMAIN T.files
           /\ q \in DOMAIN X.files => X.files[q] = T.files[q]
    BY NamedNext DEF Near
  <2>2. c.op = "file" /\ p = q => Sized(h, n + 1, q) \/ (q \in DOMAIN T.files /\ T.files[q] = c.size)
    BY <1>1 DEF ToldAt
  <2>3. c.op = "gone" /\ p = q => Sized(h, n + 1, q) \/ q \notin DOMAIN T.files
    BY <1>1 DEF ToldAt
  <2> HIDE DEF c
  <2>4. CASE c.op = "file"
    <3>1. DOMAIN Y.files = DOMAIN X.files \cup {p} /\ (q \in DOMAIN Y.files => Y.files[q] = IF q = p THEN c.size ELSE X.files[q])
      BY <1>5, <2>4 DEF Put
    <3> QED
      BY <2>1, <2>2, <2>4, <3>1
  <2>5. CASE c.op = "dir"
    BY <1>5, <2>1, <2>5
  <2>6. CASE c.op = "gone"
    <3>1. DOMAIN Y.files = DOMAIN X.files \ {p} /\ (q \in DOMAIN Y.files => Y.files[q] = X.files[q])
      BY <1>5, <2>6 DEF Drop, Restrict
    <3> QED
      BY <2>1, <2>3, <2>6, <3>1
  <2> QED
    BY <1>1, <2>4, <2>5, <2>6 DEF Reports
<1> QED
  BY <1>4, <1>6, <1>7, <1>8 DEF IsTree, Near, Y

\* Reports whose last words are of T, taken in by what is T but for those words.
LEMMA Replay ==
  ASSUME NEW h \in Seq(Reports), NEW T, IsTree(T), Told(h, T), NEW X, IsTree(X), Near(X, h, 0, T)
  PROVE  TakeAll(X, h) = T
<1> DEFINE f == Taken(X, h)
           N == {n \in Nat : n <= Len(h) => IsTree(f[n]) /\ Near(f[n], h, n, T)}
<1>1. Len(h) \in Nat
  OBVIOUS
<1>2. /\ f[0] = X /\ f[Len(h)] = TakeAll(X, h)
      /\ \A n \in 1..Len(h) : f[n] = Take(f[n - 1], h[n])
  BY <1>1, TakenIs
<1> HIDE DEF f
<1>3. 0 \in N
  BY <1>2
<1>4. ASSUME NEW n \in Nat, n \in N PROVE n + 1 \in N
  <2> SUFFICES ASSUME n + 1 <= Len(h) PROVE IsTree(f[n + 1]) /\ Near(f[n + 1], h, n + 1, T)
    OBVIOUS
  <2>1. n < Len(h) /\ n + 1 \in 1..Len(h) /\ (n + 1) - 1 = n
    BY <1>1
  <2>2. IsTree(f[n]) /\ Near(f[n], h, n, T)
    BY <1>1, <1>4, <2>1
  <2>3. f[n + 1] = Take(f[n], h[n + 1])
    BY <1>2, <2>1
  <2> QED
    BY <2>1, <2>2, <2>3, NearNext
<1>5. Nat \subseteq N
  <2> HIDE DEF N
  <2> QED
    BY <1>3, <1>4, NatSetInduction
<1>6. PICK Y : Y = f[Len(h)]
  OBVIOUS
<1>7. IsTree(Y) /\ Near(Y, h, Len(h), T)
  BY <1>1, <1>5, <1>6
<1>8. \A q : ~Named(h, Len(h), q) /\ ~Sized(h, Len(h), q)
  BY <1>1 DEF Named, Sized
<1>9. Y.dirs = T.dirs
  BY <1>7, <1>8 DEF Near
<1>10. DOMAIN Y.files = DOMAIN T.files /\ \A q \in DOMAIN Y.files : Y.files[q] = T.files[q]
  BY <1>7, <1>8 DEF Near
<1>11. Y.files = T.files
  BY <1>7, <1>10 DEF IsTree
<1> QED
  BY <1>2, <1>6, <1>7, <1>9, <1>11 DEF IsTree, Bare

\* Trees, as the filesystem has them.
Sizes == UNION {[names -> 0..(MaxChanges + 1)] : names \in SUBSET Names}
Trees == [files : Sizes, dirs : SUBSET Paths]

\* What these are.
LEMMA TreesAre ==
  ASSUME NEW t
  PROVE  /\ t \in Trees => /\ IsTree(t) /\ Keeps(t, t.files, t.dirs)
                           /\ t.files \in Sizes /\ t.dirs \subseteq Paths
         /\ \A f \in Sizes, D \in SUBSET Paths : [files |-> f, dirs |-> D] \in Trees
         /\ \A f : f \in Sizes <=> DOMAIN f \subseteq Names /\ f \in [DOMAIN f -> 0..(MaxChanges + 1)]
<1>1. \A f : f \in Sizes <=> DOMAIN f \subseteq Names /\ f \in [DOMAIN f -> 0..(MaxChanges + 1)]
  BY DEF Sizes
<1>2. ASSUME t \in Trees
      PROVE  IsTree(t) /\ Keeps(t, t.files, t.dirs) /\ t.files \in Sizes /\ t.dirs \subseteq Paths
  <2>1. t.files \in Sizes /\ t.dirs \subseteq Paths /\ t = [files |-> t.files, dirs |-> t.dirs]
    <3> HIDE DEF Sizes
    <3> QED
      BY <1>2 DEF Trees
  <2>2. t.files = [q \in DOMAIN t.files |-> t.files[q]]
    BY <1>1, <2>1
  <2> QED
    BY <2>1, <2>2 DEF IsTree, Keeps, Bare
<1>3. \A f \in Sizes, D \in SUBSET Paths : [files |-> f, dirs |-> D] \in Trees
  <2> HIDE DEF Sizes
  <2> QED
    BY DEF Trees
<1> QED
  BY <1>1, <1>2, <1>3

\* A report of a file, a directory or nothing there leaves a tree.
LEMMA TakeTyped ==
  ASSUME NEW t \in Trees, NEW c \in Reports
  PROVE  Take(t, c) \in Trees /\ (<<>> \in t.dirs => <<>> \in Take(t, c).dirs)
<1> DEFINE Y == Take(t, c)
<1>1. PICK f, D : f = t.files /\ D = t.dirs
  OBVIOUS
<1>2. Keeps(t, f, D) /\ f \in Sizes /\ D \subseteq Paths
  BY <1>1, TreesAre
<1>3. t = [files |-> f, dirs |-> D]
  BY <1>1, TreesAre DEF IsTree, Bare
<1>4. Y = Bare(Y)
  BY <1>3, TakeBare
<1>5. /\ c.op = "file" => Bare(Y) = [files |-> Put(f, c.path, c.size), dirs |-> D \cup Missing(D, c.path)]
      /\ c.op = "dir" => Bare(Y) = [files |-> f, dirs |-> D \cup {c.path} \cup Missing(D, c.path)]
      /\ c.op = "gone" => Bare(Y) = [files |-> Drop(f, c.path), dirs |-> D \ {c.path}]
  BY <1>2, TakeIs
<1> HIDE DEF Y
<1>6. c.path \in Names /\ c.path \in Paths /\ c.path # <<>> /\ c.size \in 0..(MaxChanges + 1)
        /\ c.op \in {"file", "dir", "gone"}
  BY DEF Reports, Names
<1>7. Missing(D, c.path) \subseteq Paths
  BY <1>6, AboveIs DEF Missing
<1>8. Put(f, c.path, c.size) \in Sizes /\ Drop(f, c.path) \in Sizes
  <2>1. f \in [DOMAIN f -> 0..(MaxChanges + 1)] /\ DOMAIN f \subseteq Names
    BY <1>2, TreesAre
  <2> DEFINE put == Put(f, c.path, c.size)  left == Drop(f, c.path)
  <2>2. put \in [DOMAIN put -> 0..(MaxChanges + 1)] /\ DOMAIN put \subseteq Names
    BY <1>6, <2>1 DEF Put
  <2>3. left \in [DOMAIN left -> 0..(MaxChanges + 1)] /\ DOMAIN left \subseteq DOMAIN f
    BY <2>1 DEF Drop, Restrict
  <2> HIDE DEF put, left
  <2>4. put \in Sizes /\ left \in Sizes
    BY <2>1, <2>2, <2>3, TreesAre
  <2> QED
    BY <2>4 DEF put, left
<1>9. CASE c.op = "file"
  <2> DEFINE g == Put(f, c.path, c.size)  E == D \cup Missing(D, c.path)
  <2>1. Y = [files |-> g, dirs |-> E]
    BY <1>4, <1>5, <1>9
  <2>2. g \in Sizes /\ E \subseteq Paths /\ (<<>> \in D => <<>> \in E)
    BY <1>2, <1>7, <1>8
  <2> HIDE DEF g, E
  <2>3. Y \in Trees /\ Y.dirs = E
    BY <2>1, <2>2, TreesAre
  <2> QED
    BY <1>1, <2>2, <2>3 DEF Y
<1>10. CASE c.op = "dir"
  <2> DEFINE E == D \cup {c.path} \cup Missing(D, c.path)
  <2>1. Y = [files |-> f, dirs |-> E]
    BY <1>4, <1>5, <1>10
  <2>2. f \in Sizes /\ E \subseteq Paths /\ (<<>> \in D => <<>> \in E)
    BY <1>2, <1>6, <1>7, <1>8
  <2> HIDE DEF E
  <2>3. Y \in Trees /\ Y.dirs = E
    BY <2>1, <2>2, TreesAre
  <2> QED
    BY <1>1, <2>2, <2>3 DEF Y
<1>11. CASE c.op = "gone"
  <2> DEFINE g == Drop(f, c.path)  E == D \ {c.path}
  <2>1. Y = [files |-> g, dirs |-> E]
    BY <1>4, <1>5, <1>11
  <2>2. g \in Sizes /\ E \subseteq Paths /\ (<<>> \in D => <<>> \in E)
    BY <1>2, <1>6, <1>8
  <2> HIDE DEF g, E
  <2>3. Y \in Trees /\ Y.dirs = E
    BY <2>1, <2>2, TreesAre
  <2> QED
    BY <1>1, <2>2, <2>3 DEF Y
<1> QED
  BY <1>6, <1>9, <1>10, <1>11

\* What the panel keeps: a tree that has a root, and whether it is loaded.
Shown(t) ==
    /\ t = [files |-> t.files, dirs |-> t.dirs, loaded |-> t.loaded] /\ t.loaded \in BOOLEAN
    /\ Bare(t) \in Trees /\ <<>> \in t.dirs

\* A report taken in by the panel is taken in by the tree it shows.
LEMMA TakeShown ==
  ASSUME NEW t, Shown(t), NEW c \in Reports
  PROVE  /\ Bare(Take(t, c)) = Take(Bare(t), c)
         /\ Shown(Take(t, c)) /\ Take(t, c).loaded = t.loaded
<1>1. PICK f, D, l : f = t.files /\ D = t.dirs /\ l = t.loaded
  OBVIOUS
<1>2. t = [files |-> f, dirs |-> D, loaded |-> l] /\ l \in BOOLEAN /\ Bare(t) \in Trees
  BY <1>1 DEF Shown
<1> DEFINE b == Bare(t)
<1>3. b = [files |-> f, dirs |-> D]
  BY <1>1 DEF Bare
<1>4. Keeps(t, f, D)
  BY <1>1, <1>2 DEF Keeps
<1>5. Keeps(b, f, D)
  <2> HIDE DEF b
  <2> QED
    BY <1>3 DEF Keeps
<1> HIDE DEF b
<1>6. Bare(Take(t, c)) = Bare(Take(b, c))
  <2>1. /\ c.op = "file" => Bare(Take(t, c)) = [files |-> Put(f, c.path, c.size), dirs |-> D \cup Missing(D, c.path)]
        /\ c.op = "dir" => Bare(Take(t, c)) = [files |-> f, dirs |-> D \cup {c.path} \cup Missing(D, c.path)]
        /\ c.op = "gone" => Bare(Take(t, c)) = [files |-> Drop(f, c.path), dirs |-> D \ {c.path}]
    BY <1>4, TakeIs
  <2>2. /\ c.op = "file" => Bare(Take(b, c)) = [files |-> Put(f, c.path, c.size), dirs |-> D \cup Missing(D, c.path)]
        /\ c.op = "dir" => Bare(Take(b, c)) = [files |-> f, dirs |-> D \cup {c.path} \cup Missing(D, c.path)]
        /\ c.op = "gone" => Bare(Take(b, c)) = [files |-> Drop(f, c.path), dirs |-> D \ {c.path}]
    BY <1>5, TakeIs
  <2>3. c.op = "file" \/ c.op = "dir" \/ c.op = "gone"
    BY DEF Reports
  <2> QED
    BY <2>1, <2>2, <2>3
<1>7. Bare(Take(b, c)) = Take(b, c)
  BY <1>3, TakeBare
<1>8. b \in Trees /\ b.dirs = D /\ <<>> \in D
  BY <1>1, <1>2, <1>3 DEF b, Shown
<1>9. Take(b, c) \in Trees /\ <<>> \in Take(b, c).dirs
  BY <1>8, TakeTyped
<1>10. \E g, E : Take(t, c) = [files |-> g, dirs |-> E, loaded |-> l]
  <2>1. ASSUME NEW g, NEW E
        PROVE  [t EXCEPT !.files = g, !.dirs = E] = [files |-> g, dirs |-> E, loaded |-> l]
    <3> DEFINE Z == [t EXCEPT !.files = g]
    <3>1. Z = [files |-> g, dirs |-> D, loaded |-> l]
      BY <1>2
    <3>2. [t EXCEPT !.files = g, !.dirs = E] = [Z EXCEPT !.dirs = E]
      OBVIOUS
    <3>3. [Z EXCEPT !.dirs = E] = [files |-> g, dirs |-> E, loaded |-> l]
      <4> HIDE DEF Z
      <4> QED
        BY <3>1
    <3> QED
      BY <3>2, <3>3
  <2>2. ASSUME NEW E PROVE [t EXCEPT !.dirs = E] = [files |-> f, dirs |-> E, loaded |-> l]
    BY <1>2
  <2>3. CASE c.op = "file"
    <3> DEFINE g == Put(t.files, c.path, c.size)  E == t.dirs \cup Missing(t.dirs, c.path)
    <3>1. Take(t, c) = [t EXCEPT !.files = g, !.dirs = E]
      BY <2>3 DEF Take
    <3> HIDE DEF g, E
    <3> QED
      BY <2>1, <3>1
  <2>4. CASE c.op = "dir"
    <3> DEFINE E == t.dirs \cup {c.path} \cup Missing(t.dirs, c.path)
    <3>1. Take(t, c) = [t EXCEPT !.dirs = E]
      BY <2>4 DEF Take
    <3> HIDE DEF E
    <3> QED
      BY <2>2, <3>1
  <2>5. CASE c.op = "gone"
    <3> DEFINE g == Drop(t.files, c.path)  E == t.dirs \ {c.path}
    <3>1. Take(t, c) = [t EXCEPT !.files = g, !.dirs = E]
      BY <2>5 DEF Take
    <3> HIDE DEF g, E
    <3> QED
      BY <2>1, <3>1
  <2> QED
    BY <2>3, <2>4, <2>5 DEF Reports
<1> DEFINE Y == Take(t, c)  Z == Take(b, c)
<1>11. Bare(Y) = Z
  BY <1>6, <1>7
<1>12. Y.dirs = Z.dirs
  <2> HIDE DEF Y, Z
  <2> QED
    BY <1>11 DEF Bare
<1>13. Y = [files |-> Y.files, dirs |-> Y.dirs, loaded |-> Y.loaded] /\ Y.loaded = l
  <2> HIDE DEF Y
  <2> QED
    BY <1>10 DEF Y
<1> QED
  BY <1>1, <1>2, <1>9, <1>11, <1>12, <1>13 DEF Shown, b

\* Reports taken in, one after the other.
LEMMA TakeAllTyped ==
  ASSUME NEW t \in Trees, NEW h \in Seq(Reports)
  PROVE  TakeAll(t, h) \in Trees
<1> DEFINE f == Taken(t, h)  N == {n \in Nat : n <= Len(h) => f[n] \in Trees}
<1>1. /\ Len(h) \in Nat /\ f[0] = t /\ f[Len(h)] = TakeAll(t, h)
      /\ \A n \in 1..Len(h) : f[n] = Take(f[n - 1], h[n]) /\ h[n] \in Reports
  BY TakenIs
<1> HIDE DEF f
<1>2. 0 \in N
  BY <1>1
<1>3. ASSUME NEW n \in Nat, n \in N PROVE n + 1 \in N
  <2> SUFFICES ASSUME n + 1 <= Len(h) PROVE f[n + 1] \in Trees
    OBVIOUS
  <2>1. n + 1 \in 1..Len(h) /\ (n + 1) - 1 = n /\ f[n] \in Trees
    BY <1>1, <1>3
  <2>2. f[n + 1] = Take(f[n], h[n + 1]) /\ h[n + 1] \in Reports
    BY <1>1, <2>1
  <2> QED
    BY <2>1, <2>2, TakeTyped
<1>4. Nat \subseteq N
  <2> HIDE DEF N
  <2> QED
    BY <1>2, <1>3, NatSetInduction
<1> QED
  BY <1>1, <1>4

\* So are reports.
LEMMA TakeAllShown ==
  ASSUME NEW t, Shown(t), NEW h \in Seq(Reports)
  PROVE  /\ Bare(TakeAll(t, h)) = TakeAll(Bare(t), h)
         /\ Shown(TakeAll(t, h)) /\ TakeAll(t, h).loaded = t.loaded
<1> DEFINE f == Taken(t, h)  g == Taken(Bare(t), h)
           N == {n \in Nat : n <= Len(h) => Bare(f[n]) = g[n] /\ Shown(f[n]) /\ f[n].loaded = t.loaded}
<1>1. /\ Len(h) \in Nat /\ f[0] = t /\ f[Len(h)] = TakeAll(t, h)
      /\ \A n \in 1..Len(h) : f[n] = Take(f[n - 1], h[n]) /\ h[n] \in Reports
  BY TakenIs
<1>2. /\ g[0] = Bare(t) /\ g[Len(h)] = TakeAll(Bare(t), h)
      /\ \A n \in 1..Len(h) : g[n] = Take(g[n - 1], h[n])
  BY <1>1, TakenIs
<1> HIDE DEF f, g
<1>3. 0 \in N
  BY <1>1, <1>2
<1>4. ASSUME NEW n \in Nat, n \in N PROVE n + 1 \in N
  <2> SUFFICES ASSUME n + 1 <= Len(h)
               PROVE  Bare(f[n + 1]) = g[n + 1] /\ Shown(f[n + 1]) /\ f[n + 1].loaded = t.loaded
    OBVIOUS
  <2>1. n + 1 \in 1..Len(h) /\ (n + 1) - 1 = n /\ Bare(f[n]) = g[n] /\ Shown(f[n]) /\ f[n].loaded = t.loaded
    BY <1>1, <1>4
  <2>2. f[n + 1] = Take(f[n], h[n + 1]) /\ h[n + 1] \in Reports /\ g[n + 1] = Take(g[n], h[n + 1])
    BY <1>1, <1>2, <2>1
  <2> QED
    BY <2>1, <2>2, TakeShown
<1>5. Nat \subseteq N
  <2> HIDE DEF N
  <2> QED
    BY <1>3, <1>4, NatSetInduction
<1> QED
  BY <1>1, <1>2, <1>5

\* Reports of what makes T into T2, and of nothing else.
Explains(r, T, T2) == r \in Seq(Reports) /\ Told(r, T2) /\ Near(T, r, 0, T2)

\* Taken in, they make the one into the other.
LEMMA Explained ==
  ASSUME NEW r, NEW T \in Trees, NEW T2 \in Trees, Explains(r, T, T2)
  PROVE  TakeAll(T, r) = T2
BY Replay, TreesAre DEF Explains

\* No reports tell of no change.
LEMMA NothingTold ==
  ASSUME NEW T
  PROVE  Told(<<>>, T) /\ Near(T, <<>>, 0, T) /\ Explains(<<>>, T, T)
BY DEF Told, Near, Explains, Named, Sized

\* Reports, and then others.
LEMMA BothAre ==
  ASSUME NEW g \in Seq(Reports), NEW h \in Seq(Reports)
  PROVE  /\ g \o h \in Seq(Reports) /\ Len(g) \in Nat /\ Len(h) \in Nat
         /\ Len(g \o h) = Len(g) + Len(h)
         /\ \A i \in 1..Len(g) : i \in 1..Len(g \o h) /\ (g \o h)[i] = g[i]
         /\ \A i \in 1..Len(h) : Len(g) + i \in 1..Len(g \o h) /\ (g \o h)[Len(g) + i] = h[i]
         /\ \A i \in 1..Len(g \o h) : i \in 1..Len(g) \/ (i - Len(g) \in 1..Len(h) /\ i = Len(g) + (i - Len(g)))
OBVIOUS

\* What later reports say of a path.
LEMMA NamedLater ==
  ASSUME NEW g \in Seq(Reports), NEW h \in Seq(Reports), NEW q
  PROVE  /\ \A i \in 1..Len(g) : Named(g, i, q) \/ Named(h, 0, q) => Named(g \o h, i, q)
         /\ \A i \in 1..Len(g) : Sized(g, i, q) \/ Sized(h, 0, q) => Sized(g \o h, i, q)
         /\ \A i \in 1..Len(h) : Named(h, i, q) <=> Named(g \o h, Len(g) + i, q)
         /\ \A i \in 1..Len(h) : Sized(h, i, q) <=> Sized(g \o h, Len(g) + i, q)
         /\ \A i \in 1..Len(g) : Named(g \o h, i, q) => Named(g, i, q) \/ Named(h, 0, q)
         /\ \A i \in 1..Len(g) : Sized(g \o h, i, q) => Sized(g, i, q) \/ Sized(h, 0, q)
<1> DEFINE k == g \o h
<1>1. /\ Len(g) \in Nat /\ Len(h) \in Nat /\ Len(k) = Len(g) + Len(h)
      /\ \A i \in 1..Len(g) : i \in 1..Len(k) /\ k[i] = g[i]
      /\ \A i \in 1..Len(h) : Len(g) + i \in 1..Len(k) /\ k[Len(g) + i] = h[i]
      /\ \A i \in 1..Len(k) : i \in 1..Len(g) \/ (i - Len(g) \in 1..Len(h) /\ i = Len(g) + (i - Len(g)))
  BY BothAre
<1> HIDE DEF k
<1>2. ASSUME NEW i \in 1..Len(g), NEW S, NEW j \in (i + 1)..Len(g), g[j].op \in S, g[j].path = q
      PROVE  \E l \in (i + 1)..Len(k) : k[l].op \in S /\ k[l].path = q
  <2>1. j \in (i + 1)..Len(k) /\ k[j] = g[j]
    BY <1>1
  <2> QED
    BY <1>2, <2>1
<1>3. ASSUME NEW i \in 1..Len(g), NEW S, NEW j \in (0 + 1)..Len(h), h[j].op \in S, h[j].path = q
      PROVE  \E l \in (i + 1)..Len(k) : k[l].op \in S /\ k[l].path = q
  <2>1. Len(g) + j \in (i + 1)..Len(k) /\ k[Len(g) + j] = h[j]
    BY <1>1
  <2> QED
    BY <1>3, <2>1
<1>4. ASSUME NEW i \in 1..Len(h), NEW S, NEW j \in (i + 1)..Len(h), h[j].op \in S, h[j].path = q
      PROVE  \E l \in ((Len(g) + i) + 1)..Len(k) : k[l].op \in S /\ k[l].path = q
  <2>1. Len(g) + j \in ((Len(g) + i) + 1)..Len(k) /\ k[Len(g) + j] = h[j]
    BY <1>1
  <2> QED
    BY <1>4, <2>1
<1>5. ASSUME NEW i \in 1..Len(h), NEW S, NEW j \in ((Len(g) + i) + 1)..Len(k), k[j].op \in S, k[j].path = q
      PROVE  \E l \in (i + 1)..Len(h) : h[l].op \in S /\ h[l].path = q
  <2>1. j - Len(g) \in (i + 1)..Len(h) /\ k[j] = h[j - Len(g)]
    <3>1. j \in 1..Len(k) /\ j \notin 1..Len(g)
      BY <1>1
    <3>2. j - Len(g) \in 1..Len(h) /\ j = Len(g) + (j - Len(g))
      BY <1>1, <3>1
    <3>3. k[Len(g) + (j - Len(g))] = h[j - Len(g)]
      BY <1>1, <3>2
    <3> QED
      BY <1>1, <3>1, <3>2, <3>3
  <2> QED
    BY <1>5, <2>1
<1>6. ASSUME NEW i \in 1..Len(g), NEW S, NEW j \in (i + 1)..Len(k), k[j].op \in S, k[j].path = q
      PROVE  \/ \E l \in (i + 1)..Len(g) : g[l].op \in S /\ g[l].path = q
             \/ \E l \in (0 + 1)..Len(h) : h[l].op \in S /\ h[l].path = q
  <2>1. CASE j \in 1..Len(g)
    <3>1. j \in (i + 1)..Len(g) /\ k[j] = g[j]
      BY <1>1, <2>1
    <3> QED
      BY <1>6, <3>1
  <2>2. CASE j \notin 1..Len(g)
    <3>1. j \in 1..Len(k)
      BY <1>1
    <3>2. j - Len(g) \in 1..Len(h) /\ j = Len(g) + (j - Len(g))
      BY <1>1, <2>2, <3>1
    <3>3. k[j] = h[j - Len(g)] /\ j - Len(g) \in (0 + 1)..Len(h)
      BY <1>1, <3>2
    <3> QED
      BY <1>6, <3>3
  <2> QED
    BY <2>1, <2>2
<1>7. \A i \in 1..Len(g) : Named(g, i, q) \/ Named(h, 0, q) => Named(k, i, q)
  <2>1. \A i \in 1..Len(g) : Named(g, i, q) => Named(k, i, q)
    BY <1>2 DEF Named
  <2>2. \A i \in 1..Len(g) : Named(h, 0, q) => Named(k, i, q)
    BY <1>3 DEF Named
  <2> QED
    BY <2>1, <2>2
<1>8. \A i \in 1..Len(g) : Sized(g, i, q) \/ Sized(h, 0, q) => Sized(k, i, q)
  <2>1. \A i \in 1..Len(g) : Sized(g, i, q) => Sized(k, i, q)
    BY <1>2 DEF Sized
  <2>2. \A i \in 1..Len(g) : Sized(h, 0, q) => Sized(k, i, q)
    BY <1>3 DEF Sized
  <2> QED
    BY <2>1, <2>2
<1>9. \A i \in 1..Len(h) : Named(h, i, q) <=> Named(k, Len(g) + i, q)
  <2>1. \A i \in 1..Len(h) : Named(h, i, q) => Named(k, Len(g) + i, q)
    BY <1>4 DEF Named
  <2>2. \A i \in 1..Len(h) : Named(k, Len(g) + i, q) => Named(h, i, q)
    BY <1>5 DEF Named
  <2> QED
    BY <2>1, <2>2
<1>10. \A i \in 1..Len(h) : Sized(h, i, q) <=> Sized(k, Len(g) + i, q)
  <2>1. \A i \in 1..Len(h) : Sized(h, i, q) => Sized(k, Len(g) + i, q)
    BY <1>4 DEF Sized
  <2>2. \A i \in 1..Len(h) : Sized(k, Len(g) + i, q) => Sized(h, i, q)
    BY <1>5 DEF Sized
  <2> QED
    BY <2>1, <2>2
<1>11. \A i \in 1..Len(g) : Named(k, i, q) => Named(g, i, q) \/ Named(h, 0, q)
  BY <1>6 DEF Named
<1>12. \A i \in 1..Len(g) : Sized(k, i, q) => Sized(g, i, q) \/ Sized(h, 0, q)
  BY <1>6 DEF Sized
<1> QED
  BY <1>7, <1>8, <1>9, <1>10, <1>11, <1>12 DEF k

\* Reports that tell of T, and then those of a change of it to T2, tell of T2.
LEMMA ToldMore ==
  ASSUME NEW h \in Seq(Reports), NEW T, NEW T2, Told(h, T), NEW r, Explains(r, T, T2)
  PROVE  Told(h \o r, T2)
<1> DEFINE k == h \o r
<1>1. r \in Seq(Reports) /\ Told(r, T2) /\ Near(T, r, 0, T2)
  BY DEF Explains
<1>2. /\ Len(h) \in Nat /\ Len(r) \in Nat
      /\ \A i \in 1..Len(h) : k[i] = h[i] /\ h[i] \in Reports
      /\ \A i \in 1..Len(r) : k[Len(h) + i] = r[i] /\ r[i] \in Reports
      /\ \A i \in 1..Len(k) : i \in 1..Len(h) \/ (i - Len(h) \in 1..Len(r) /\ i = Len(h) + (i - Len(h)))
  BY <1>1, BothAre
<1>3. \A q : /\ \A i \in 1..Len(h) : Named(h, i, q) \/ Named(r, 0, q) => Named(k, i, q)
             /\ \A i \in 1..Len(h) : Sized(h, i, q) \/ Sized(r, 0, q) => Sized(k, i, q)
             /\ \A i \in 1..Len(r) : Named(r, i, q) => Named(k, Len(h) + i, q)
             /\ \A i \in 1..Len(r) : Sized(r, i, q) => Sized(k, Len(h) + i, q)
  BY <1>1, NamedLater
<1> HIDE DEF k
<1>4. ASSUME NEW i \in 1..Len(h) PROVE ToldAt(k, i, T2)
  <2>1. k[i] = h[i] /\ ToldAt(h, i, T)
    BY <1>2 DEF Told
  <2>2. \A q : (q \in T.dirs <=> q \in T2.dirs) \/ Named(k, i, q)
    BY <1>1, <1>3 DEF Near
  <2>3. \A q : \/ Sized(k, i, q)
               \/ /\ q \in DOMAIN T.files <=> q \in DOMAIN T2.files
                  /\ q \in DOMAIN T.files => T.files[q] = T2.files[q]
    BY <1>1, <1>3 DEF Near
  <2>4. \A q : (Named(h, i, q) => Named(k, i, q)) /\ (Sized(h, i, q) => Sized(k, i, q))
    BY <1>3
  <2> QED
    BY <2>1, <2>2, <2>3, <2>4 DEF ToldAt
<1>5. ASSUME NEW i \in 1..Len(r) PROVE ToldAt(k, Len(h) + i, T2)
  <2>1. k[Len(h) + i] = r[i] /\ ToldAt(r, i, T2)
    BY <1>1, <1>2 DEF Told
  <2>2. \A q : /\ Named(r, i, q) => Named(k, Len(h) + i, q)
               /\ Sized(r, i, q) => Sized(k, Len(h) + i, q)
    BY <1>3
  <2> QED
    BY <2>1, <2>2 DEF ToldAt
<1>6. ASSUME NEW i \in 1..Len(k) PROVE ToldAt(k, i, T2)
  BY <1>2, <1>4, <1>5, <1>6
<1> QED
  BY <1>6 DEF Told, k

\* Of what tells of T, the end does so too.
LEMMA ToldEnd ==
  ASSUME NEW h \in Seq(Reports), NEW r \in Seq(Reports), NEW T, Told(h \o r, T)
  PROVE  Told(r, T)
<1> DEFINE k == h \o r
<1>1. \A i \in 1..Len(r) : Len(h) + i \in 1..Len(k) /\ k[Len(h) + i] = r[i]
  BY BothAre
<1>2. \A q : /\ \A i \in 1..Len(r) : Named(k, Len(h) + i, q) => Named(r, i, q)
             /\ \A i \in 1..Len(r) : Sized(k, Len(h) + i, q) => Sized(r, i, q)
  BY NamedLater
<1> HIDE DEF k
<1>3. ASSUME NEW i \in 1..Len(r) PROVE ToldAt(r, i, T)
  <2>1. ToldAt(k, Len(h) + i, T) /\ k[Len(h) + i] = r[i]
    BY <1>1 DEF Told, k
  <2>2. \A q : /\ Named(k, Len(h) + i, q) => Named(r, i, q)
               /\ Sized(k, Len(h) + i, q) => Sized(r, i, q)
    BY <1>2
  <2> QED
    BY <2>1, <2>2 DEF ToldAt
<1> QED
  BY <1>3 DEF Told

\* The directories above what is dropped, which scripts leave alone.
DropDirs == UNION {Above(p) : p \in Drops}
Spares(h) == \A i \in 1..Len(h) : h[i].op = "gone" => h[i].path \notin DropDirs
OnlyDirs(h, D) == \A i \in 1..Len(h) : h[i].op = "dir" /\ h[i].path \in DropDirs \cap D

\* So are reports of such directories, which are there, no news after others.
LEMMA ToldWithout ==
  ASSUME NEW h \in Seq(Reports), NEW r \in Seq(Reports), NEW T, Told(h \o r, T),
         Spares(h), OnlyDirs(r, T.dirs)
  PROVE  Told(h, T)
<1> DEFINE k == h \o r
<1>1. \A i \in 1..Len(h) : i \in 1..Len(k) /\ k[i] = h[i] /\ h[i] \in Reports
  BY BothAre
<1>2. \A q : /\ \A i \in 1..Len(h) : Named(k, i, q) => Named(h, i, q) \/ Named(r, 0, q)
             /\ \A i \in 1..Len(h) : Sized(k, i, q) => Sized(h, i, q) \/ Sized(r, 0, q)
  BY NamedLater
<1>3. \A q : ~Sized(r, 0, q) /\ (Named(r, 0, q) => q \in DropDirs /\ q \in T.dirs)
  BY DEF OnlyDirs, Named, Sized
<1> HIDE DEF k
<1>4. ASSUME NEW i \in 1..Len(h) PROVE ToldAt(h, i, T)
  <2>1. ToldAt(k, i, T) /\ k[i] = h[i] /\ h[i] \in Reports
    BY <1>1 DEF Told, k
  <2>2. \A q : /\ Named(k, i, q) => Named(h, i, q) \/ (q \in DropDirs /\ q \in T.dirs)
               /\ Sized(k, i, q) => Sized(h, i, q)
    BY <1>2, <1>3
  <2>3. h[i].op = "gone" => h[i].path \notin DropDirs
    BY DEF Spares
  <2> QED
    BY <2>1, <2>2, <2>3 DEF ToldAt
<1> QED
  BY <1>4 DEF Told

-----------------------------------------------------------------------------
(* Messages, and what is heard and shown of them.                          *)

\* Messages on their way to the page: what they report, and what they do to the tree it
\* shows.  It knows a tree once it has one or an answer has come.
Messages == [type : {"changed"}, changes : Seq(Reports)] \cup [type : {"answer"}, files : Sizes, dirs : SUBSET Paths]
Words(msg) == IF msg.type = "changed" THEN msg.changes ELSE <<>>
Heed(X, msg) == IF msg.type = "answer" THEN Bare(msg) ELSE TakeAll(X, msg.changes)
Known(m, known, n) == known \/ \E k \in 1..n : m[k].type = "answer"

\* r[n] is all that was reported up to the n-th message, of which the panel keeps the end:
\* with what is not announced yet it tells of the tree T, and up to an answer of the answer.
Heard(m, c, kept, T, r) ==
    /\ r \in [0..Len(m) -> Seq(Reports)]
    /\ \E g \in Seq(Reports) : r[0] = g \o kept
    /\ \A n \in 1..Len(m) : r[n] = r[n - 1] \o Words(m[n])
    /\ Told(r[Len(m)] \o c, T)
    /\ \A n \in 1..Len(m) : m[n].type = "answer" => Told(r[n - 1], Bare(m[n]))
    /\ Spares(r[Len(m)])

\* s[n] is what the panel will show after the n-th message, once it knows anything: a tree
\* that was, and at last the tree T.
Shows(m, c, known, start, T, Q, s) ==
    /\ s \in [0..Len(m) -> Trees]
    /\ known => s[0] = start
    /\ \A n \in 1..Len(m) : s[n] = Heed(s[n - 1], m[n])
    /\ \A n \in 0..Len(m) : Known(m, known, n) => s[n] \in Q
    /\ Known(m, known, Len(m)) => TakeAll(s[Len(m)], c) = T

\* What a message is.
LEMMA MessageIs ==
  ASSUME NEW msg \in Messages
  PROVE  /\ Words(msg) \in Seq(Reports)
         /\ msg.type = "answer" => Bare(msg) \in Trees
         /\ msg.type = "changed" => msg.changes \in Seq(Reports)
         /\ msg.type = "changed" \/ msg.type = "answer"
         /\ \A X \in Trees : Heed(X, msg) \in Trees
<1>1. \/ msg.type = "changed" /\ msg.changes \in Seq(Reports)
      \/ msg.type = "answer" /\ msg.files \in Sizes /\ msg.dirs \in SUBSET Paths
  <2> HIDE DEF Sizes
  <2> QED
    BY DEF Messages
<1>2. msg.type = "answer" => Bare(msg) \in Trees
  <2> HIDE DEF Sizes
  <2> QED
    BY <1>1 DEF Bare, Trees
<1>3. ASSUME NEW X \in Trees PROVE Heed(X, msg) \in Trees
  <2>1. CASE msg.type = "answer"
    BY <1>2, <2>1 DEF Heed
  <2>2. CASE msg.type = "changed"
    <3>1. msg.changes \in Seq(Reports)
      BY <1>1, <2>2
    <3>2. TakeAll(X, msg.changes) \in Trees
      BY <3>1, TakeAllTyped
    <3> QED
      BY <2>2, <3>2 DEF Heed
  <2> QED
    BY <1>1, <2>1, <2>2
<1> QED
  BY <1>1, <1>2, <1>3 DEF Words

\* One message more.
LEMMA Grown ==
  ASSUME NEW m \in Seq(Messages), NEW msg \in Messages
  PROVE  /\ Append(m, msg) \in Seq(Messages) /\ Len(m) \in Nat
         /\ Len(Append(m, msg)) = Len(m) + 1
         /\ \A n \in 1..Len(m) : Append(m, msg)[n] = m[n] /\ m[n] \in Messages
         /\ Append(m, msg)[Len(m) + 1] = msg
OBVIOUS

\* One message less.
LEMMA Shorter ==
  ASSUME NEW m \in Seq(Messages), m # <<>>
  PROVE  /\ Tail(m) \in Seq(Messages) /\ Len(m) \in Nat /\ Len(m) >= 1
         /\ Len(Tail(m)) = Len(m) - 1
         /\ \A n \in 1..(Len(m) - 1) : Tail(m)[n] = m[n + 1]
         /\ Head(m) = m[1] /\ m[1] \in Messages
         /\ \A n \in 1..Len(m) : m[n] \in Messages
OBVIOUS

\* A message more.
LEMMA HeardAppend ==
  ASSUME NEW m \in Seq(Messages), NEW msg \in Messages, NEW c, NEW kept, NEW T, NEW r,
         Heard(m, c, kept, T, r), NEW c2,
         Told((r[Len(m)] \o Words(msg)) \o c2, T), Spares(r[Len(m)] \o Words(msg)),
         msg.type = "answer" => Told(r[Len(m)], Bare(msg))
  PROVE  \E r2 : Heard(Append(m, msg), c2, kept, T, r2)
<1> DEFINE k == Len(m)  m2 == Append(m, msg)  w == r[k] \o Words(msg)
           r2 == [n \in 0..(k + 1) |-> IF n = k + 1 THEN w ELSE r[n]]
<1>1. k \in Nat /\ Len(m2) = k + 1 /\ m2[k + 1] = msg /\ \A n \in 1..k : m2[n] = m[n]
  BY Grown
<1>2. r \in [0..k -> Seq(Reports)] /\ Words(msg) \in Seq(Reports)
  BY MessageIs DEF Heard
<1>3. w \in Seq(Reports)
  BY <1>1, <1>2
<1> HIDE DEF k, m2, w
<1>4. /\ r2 \in [0..(k + 1) -> Seq(Reports)]
      /\ r2[k + 1] = w /\ \A n \in 0..k : r2[n] = r[n]
  BY <1>1, <1>2, <1>3
<1> HIDE DEF r2
<1>5. \A n \in 1..(k + 1) : n = k + 1 \/ (n \in 1..k /\ n \in 0..k /\ n - 1 \in 0..k)
  BY <1>1
<1>6. k \in 0..k /\ 0 \in 0..k /\ (k + 1) - 1 = k /\ k + 1 # 0
  BY <1>1
<1>7. \E g \in Seq(Reports) : r2[0] = g \o kept
  BY <1>4, <1>6 DEF Heard
<1>8. ASSUME NEW n \in 1..(k + 1) PROVE r2[n] = r2[n - 1] \o Words(m2[n])
  <2>1. CASE n = k + 1
    BY <1>1, <1>4, <1>6, <2>1 DEF w
  <2>2. CASE n \in 1..k
    <3>1. r[n] = r[n - 1] \o Words(m[n])
      BY <2>2 DEF Heard, k
    <3>0. n \in 0..k /\ n - 1 \in 0..k
      BY <1>1, <2>2
    <3>2. r2[n] = r[n] /\ r2[n - 1] = r[n - 1] /\ m2[n] = m[n]
      BY <1>1, <1>4, <2>2, <3>0
    <3> QED
      BY <3>1, <3>2
  <2> QED
    BY <1>5, <2>1, <2>2
<1>9. ASSUME NEW n \in 1..(k + 1), m2[n].type = "answer" PROVE Told(r2[n - 1], Bare(m2[n]))
  <2>1. CASE n = k + 1
    BY <1>1, <1>4, <1>6, <1>9, <2>1 DEF k
  <2>2. CASE n \in 1..k
    <3>1. m[n].type = "answer" => Told(r[n - 1], Bare(m[n]))
      BY <2>2 DEF Heard, k
    <3>2. r2[n - 1] = r[n - 1] /\ m2[n] = m[n]
      BY <1>1, <1>4, <1>5, <2>2
    <3> QED
      BY <1>9, <3>1, <3>2
  <2> QED
    BY <1>5, <2>1, <2>2
<1>10. Told(r2[k + 1] \o c2, T) /\ Spares(r2[k + 1])
  BY <1>4 DEF w, k
<1>11. Heard(m2, c2, kept, T, r2)
  BY <1>1, <1>4, <1>7, <1>8, <1>9, <1>10 DEF Heard
<1> QED
  BY <1>11 DEF m2

\* And of what it will show.
LEMMA ShowsAppend ==
  ASSUME NEW m \in Seq(Messages), NEW msg \in Messages, NEW c, NEW known, NEW start, NEW T, NEW Q, NEW s,
         Shows(m, c, known, start, T, Q, s), NEW c2,
         Known(m, known, Len(m)) \/ msg.type = "answer" =>
             Heed(s[Len(m)], msg) \in Q /\ TakeAll(Heed(s[Len(m)], msg), c2) = T
  PROVE  \E s2 : Shows(Append(m, msg), c2, known, start, T, Q, s2)
<1> DEFINE k == Len(m)  m2 == Append(m, msg)  w == Heed(s[k], msg)
           s2 == [n \in 0..(k + 1) |-> IF n = k + 1 THEN w ELSE s[n]]
<1>1. k \in Nat /\ Len(m2) = k + 1 /\ m2[k + 1] = msg /\ \A n \in 1..k : m2[n] = m[n]
  BY Grown
<1>2. s \in [0..k -> Trees]
  BY DEF Shows
<1>3. w \in Trees
  <2>1. s[k] \in Trees
    BY <1>1, <1>2
  <2> QED
    BY <2>1, MessageIs
<1> HIDE DEF w
<1>4. Known(m, known, k) \/ msg.type = "answer" => w \in Q /\ TakeAll(w, c2) = T
  BY DEF w
<1> HIDE DEF k, m2
<1>5. /\ s2 \in [0..(k + 1) -> Trees]
      /\ s2[k + 1] = w /\ \A n \in 0..k : s2[n] = s[n]
  BY <1>1, <1>2, <1>3
<1> HIDE DEF s2
<1>6. /\ \A n \in 1..(k + 1) : n = k + 1 \/ (n \in 1..k /\ n \in 0..k /\ n - 1 \in 0..k)
      /\ \A n \in 0..(k + 1) : n = k + 1 \/ n \in 0..k
      /\ k \in 0..k /\ 0 \in 0..k /\ (k + 1) - 1 = k
  BY <1>1
<1>7. known => s2[0] = start
  BY <1>5, <1>6 DEF Shows
<1>8. ASSUME NEW n \in 1..(k + 1) PROVE s2[n] = Heed(s2[n - 1], m2[n])
  <2>1. CASE n = k + 1
    BY <1>1, <1>5, <1>6, <2>1 DEF w
  <2>2. CASE n \in 1..k
    <3>1. s[n] = Heed(s[n - 1], m[n])
      BY <2>2 DEF Shows, k
    <3>2. s2[n] = s[n] /\ s2[n - 1] = s[n - 1] /\ m2[n] = m[n]
      BY <1>1, <1>5, <1>6, <2>2
    <3> QED
      BY <3>1, <3>2
  <2> QED
    BY <1>6, <2>1, <2>2
<1>9. ASSUME NEW n \in 0..k, Known(m2, known, n) PROVE Known(m, known, n)
  <2>1. \A j \in 1..n : j \in 1..k
    BY <1>1
  <2> QED
    BY <1>1, <1>9, <2>1 DEF Known
<1>10. Known(m2, known, k + 1) => Known(m, known, k) \/ msg.type = "answer"
  BY <1>1, <1>6 DEF Known
<1>11. ASSUME NEW n \in 0..(k + 1), Known(m2, known, n) PROVE s2[n] \in Q
  <2>1. CASE n = k + 1
    BY <1>4, <1>5, <1>10, <1>11, <2>1
  <2>2. CASE n \in 0..k
    <3>1. Known(m, known, n)
      BY <1>9, <1>11, <2>2
    <3>2. s[n] \in Q
      BY <2>2, <3>1 DEF Shows, k
    <3> QED
      BY <1>5, <2>2, <3>2
  <2> QED
    BY <1>6, <2>1, <2>2
<1>12. Known(m2, known, k + 1) => TakeAll(s2[k + 1], c2) = T
  BY <1>4, <1>5, <1>10
<1>13. Shows(m2, c2, known, start, T, Q, s2)
  BY <1>1, <1>5, <1>7, <1>8, <1>11, <1>12 DEF Shows
<1> QED
  BY <1>13 DEF m2

\* The first message taken up.
LEMMA HeardTail ==
  ASSUME NEW m \in Seq(Messages), m # <<>>, NEW c, NEW kept, NEW T, NEW r,
         Heard(m, c, kept, T, r), NEW kept2, \E g \in Seq(Reports) : r[1] = g \o kept2
  PROVE  \E r2 : Heard(Tail(m), c, kept2, T, r2)
<1> DEFINE k == Len(m) - 1  m2 == Tail(m)  r2 == [n \in 0..k |-> r[n + 1]]
<1>1. k \in Nat /\ Len(m) = k + 1 /\ Len(m2) = k /\ \A n \in 1..k : m2[n] = m[n + 1]
  BY Shorter
<1> HIDE DEF k, m2
<1>2. /\ \A n \in 0..k : n + 1 \in 0..(k + 1) /\ n + 1 \in 1..(k + 1)
      /\ \A n \in 1..k : n \in 0..k /\ n - 1 \in 0..k /\ (n - 1) + 1 = n /\ (n + 1) - 1 = n /\ n + 1 \in 1..(k + 1)
      /\ 0 \in 0..k /\ k \in 0..k /\ 0 + 1 = 1
  BY <1>1
<1>3. r \in [0..(k + 1) -> Seq(Reports)]
  BY <1>1 DEF Heard
<1>4. r2 \in [0..k -> Seq(Reports)] /\ \A n \in 0..k : r2[n] = r[n + 1]
  BY <1>2, <1>3
<1> HIDE DEF r2
<1>5. \E g \in Seq(Reports) : r2[0] = g \o kept2
  BY <1>2, <1>4
<1>6. ASSUME NEW n \in 1..k PROVE r2[n] = r2[n - 1] \o Words(m2[n])
  <2>1. r[n + 1] = r[(n + 1) - 1] \o Words(m[n + 1])
    BY <1>1, <1>2 DEF Heard
  <2>2. r2[n] = r[n + 1] /\ r2[n - 1] = r[n] /\ m2[n] = m[n + 1]
    BY <1>1, <1>2, <1>4
  <2> QED
    BY <1>2, <2>1, <2>2
<1>7. ASSUME NEW n \in 1..k, m2[n].type = "answer" PROVE Told(r2[n - 1], Bare(m2[n]))
  <2>1. m[n + 1].type = "answer" => Told(r[(n + 1) - 1], Bare(m[n + 1]))
    BY <1>1, <1>2 DEF Heard
  <2>2. r2[n - 1] = r[n] /\ m2[n] = m[n + 1]
    BY <1>1, <1>2, <1>4
  <2> QED
    BY <1>2, <1>7, <2>1, <2>2
<1>8. Told(r2[k] \o c, T) /\ Spares(r2[k])
  BY <1>1, <1>2, <1>4 DEF Heard
<1>9. Heard(m2, c, kept2, T, r2)
  BY <1>1, <1>4, <1>5, <1>6, <1>7, <1>8 DEF Heard
<1> QED
  BY <1>9 DEF m2

\* And of what it will show.
LEMMA ShowsTail ==
  ASSUME NEW m \in Seq(Messages), m # <<>>, NEW c, NEW known, NEW start, NEW T, NEW Q, NEW s,
         Shows(m, c, known, start, T, Q, s), NEW known2, NEW start2,
         known2 => Known(m, known, 1) /\ s[1] = start2
  PROVE  \E s2 : Shows(Tail(m), c, known2, start2, T, Q, s2)
<1> DEFINE k == Len(m) - 1  m2 == Tail(m)  s2 == [n \in 0..k |-> s[n + 1]]
<1>1. k \in Nat /\ Len(m) = k + 1 /\ Len(m2) = k /\ \A n \in 1..k : m2[n] = m[n + 1]
  BY Shorter
<1> HIDE DEF k, m2
<1>2. /\ \A n \in 0..k : n + 1 \in 0..(k + 1) /\ n + 1 \in 1..(k + 1)
      /\ \A n \in 1..k : n \in 0..k /\ n - 1 \in 0..k /\ (n - 1) + 1 = n /\ (n + 1) - 1 = n /\ n + 1 \in 1..(k + 1)
      /\ 0 \in 0..k /\ k \in 0..k /\ 0 + 1 = 1
  BY <1>1
<1>3. s \in [0..(k + 1) -> Trees]
  BY <1>1 DEF Shows
<1>4. s2 \in [0..k -> Trees] /\ \A n \in 0..k : s2[n] = s[n + 1]
  BY <1>2, <1>3
<1> HIDE DEF s2
<1>5. known2 => s2[0] = start2
  BY <1>2, <1>4
<1>6. ASSUME NEW n \in 1..k PROVE s2[n] = Heed(s2[n - 1], m2[n])
  <2>1. s[n + 1] = Heed(s[(n + 1) - 1], m[n + 1])
    BY <1>1, <1>2 DEF Shows
  <2>2. s2[n] = s[n + 1] /\ s2[n - 1] = s[n] /\ m2[n] = m[n + 1]
    BY <1>1, <1>2, <1>4
  <2> QED
    BY <1>2, <2>1, <2>2
<1>7. ASSUME NEW n \in 0..k, Known(m2, known2, n) PROVE Known(m, known, n + 1)
  <2>1. CASE known2
    <3>1. known \/ m[1].type = "answer"
      BY <2>1 DEF Known
    <3>2. 1 \in 1..(n + 1)
      BY <1>1
    <3> QED
      BY <3>1, <3>2 DEF Known
  <2>2. CASE ~known2
    <3>1. PICK j \in 1..n : m2[j].type = "answer"
      BY <1>7, <2>2 DEF Known
    <3>2. j \in 1..k /\ j + 1 \in 1..(n + 1)
      BY <1>1
    <3> QED
      BY <1>1, <3>1, <3>2 DEF Known
  <2> QED
    BY <2>1, <2>2
<1>8. ASSUME NEW n \in 0..k, Known(m2, known2, n) PROVE s2[n] \in Q
  <2>1. Known(m, known, n + 1)
    BY <1>7, <1>8
  <2>2. s[n + 1] \in Q
    BY <1>1, <1>2, <2>1 DEF Shows
  <2> QED
    BY <1>4, <2>2
<1>9. Known(m2, known2, k) => TakeAll(s2[k], c) = T
  <2>1. Known(m2, known2, k) => Known(m, known, k + 1)
    BY <1>2, <1>7
  <2>2. Known(m, known, k + 1) => TakeAll(s[k + 1], c) = T
    BY <1>1 DEF Shows
  <2> QED
    BY <1>2, <1>4, <2>1, <2>2
<1>10. Shows(m2, c, known2, start2, T, Q, s2)
  BY <1>1, <1>4, <1>5, <1>6, <1>8, <1>9 DEF Shows
<1> QED
  BY <1>10 DEF m2

\* Sequences put together.
LEMMA Together ==
  ASSUME NEW E, NEW f \in Seq(E), NEW g \in Seq(E), NEW h \in Seq(E)
  PROVE  /\ (f \o g) \o h = f \o (g \o h)
         /\ f \o <<>> = f /\ <<>> \o f = f
         /\ f \o g \in Seq(E) /\ (f \o g = <<>> => f = <<>> /\ g = <<>>)
OBVIOUS

\* More was changed.
LEMMA HeardMore ==
  ASSUME NEW m \in Seq(Messages), NEW c \in Seq(Reports), NEW kept, NEW T, NEW r,
         Heard(m, c, kept, T, r), NEW T2, NEW rep, Explains(rep, T, T2)
  PROVE  Heard(m, c \o rep, kept, T2, r)
<1>1. PICK w : w = r[Len(m)]
  OBVIOUS
<1>2. Len(m) \in Nat /\ r \in [0..Len(m) -> Seq(Reports)]
  BY DEF Heard
<1>3. w \in Seq(Reports) /\ rep \in Seq(Reports) /\ Told(w \o c, T)
  BY <1>1, <1>2 DEF Heard, Explains
<1>4. w \o c \in Seq(Reports) /\ (w \o c) \o rep = w \o (c \o rep)
  BY <1>3, Together
<1>5. Told((w \o c) \o rep, T2)
  BY <1>3, <1>4, ToldMore
<1> QED
  BY <1>1, <1>4, <1>5 DEF Heard

\* And it will show it.
LEMMA ShowsMore ==
  ASSUME NEW m \in Seq(Messages), NEW c \in Seq(Reports), NEW known, NEW start, NEW T \in Trees, NEW Q, NEW s,
         Shows(m, c, known, start, T, Q, s), NEW T2 \in Trees, NEW rep, Explains(rep, T, T2),
         NEW Q2, Q \subseteq Q2
  PROVE  Shows(m, c \o rep, known, start, T2, Q2, s)
<1>1. PICK X : X = s[Len(m)]
  OBVIOUS
<1>2. rep \in Seq(Reports)
  BY DEF Explains
<1>3. TakeAll(X, c \o rep) = TakeAll(TakeAll(X, c), rep)
  BY <1>2, TakeBoth
<1>4. TakeAll(T, rep) = T2
  BY Explained
<1>5. Known(m, known, Len(m)) => TakeAll(X, c) = T
  BY <1>1 DEF Shows
<1> DEFINE both == TakeAll(X, c \o rep)
<1>6. Known(m, known, Len(m)) => both = T2
  BY <1>3, <1>4, <1>5
<1> QED
  BY <1>1, <1>6 DEF Shows

\* What was changed is announced.
LEMMA HeardSend ==
  ASSUME NEW m \in Seq(Messages), NEW c \in Seq(Reports), NEW kept, NEW T, NEW r,
         Heard(m, c, kept, T, r), Spares(c)
  PROVE  \E r2 : Heard(Append(m, [type |-> "changed", changes |-> c]), <<>>, kept, T, r2)
<1> DEFINE msg == [type |-> "changed", changes |-> c]
<1>1. msg \in Messages /\ Words(msg) = c /\ msg.type = "changed"
  BY DEF Messages, Words
<1> HIDE DEF msg
<1>2. PICK w : w = r[Len(m)]
  OBVIOUS
<1>3. w \in Seq(Reports) /\ Told(w \o c, T) /\ Spares(w)
  <2>1. Len(m) \in Nat /\ r \in [0..Len(m) -> Seq(Reports)]
    BY DEF Heard
  <2>2. w \in Seq(Reports)
    BY <1>2, <2>1
  <2>3. Told(w \o c, T) /\ Spares(w)
    BY <1>2 DEF Heard
  <2> QED
    BY <2>2, <2>3
<1>4. (w \o c) \o <<>> = w \o c
  BY <1>3, Together
<1>5. Spares(w \o c)
  BY <1>3, BothAre DEF Spares
<1>6. Told((r[Len(m)] \o Words(msg)) \o <<>>, T) /\ Spares(r[Len(m)] \o Words(msg))
  BY <1>1, <1>2, <1>3, <1>4, <1>5
<1>7. \E r2 : Heard(Append(m, msg), <<>>, kept, T, r2)
  BY <1>1, <1>6, HeardAppend
<1> QED
  BY <1>7 DEF msg

\* To take in nothing is to change nothing.
LEMMA TakeNone ==
  ASSUME NEW t
  PROVE  TakeAll(t, <<>>) = t
<1>1. Len(<<>>) = 0
  OBVIOUS
<1> QED
  BY <1>1, TakenIs

\* And it will show what is announced.
LEMMA ShowsSend ==
  ASSUME NEW m \in Seq(Messages), NEW c \in Seq(Reports), NEW known, NEW start, NEW T, NEW Q, NEW s,
         Shows(m, c, known, start, T, Q, s), T \in Q
  PROVE  \E s2 : Shows(Append(m, [type |-> "changed", changes |-> c]), <<>>, known, start, T, Q, s2)
<1> DEFINE msg == [type |-> "changed", changes |-> c]
<1>1. msg \in Messages /\ msg.changes = c /\ msg.type = "changed"
  BY DEF Messages
<1> HIDE DEF msg
<1>2. Heed(s[Len(m)], msg) = TakeAll(s[Len(m)], c)
  BY <1>1 DEF Heed
<1>3. Known(m, known, Len(m)) \/ msg.type = "answer" =>
          Heed(s[Len(m)], msg) \in Q /\ TakeAll(Heed(s[Len(m)], msg), <<>>) = T
  <2>1. TakeAll(T, <<>>) = T
    BY TakeNone
  <2>2. Known(m, known, Len(m)) \/ msg.type = "answer" => Heed(s[Len(m)], msg) = T
    BY <1>1, <1>2 DEF Shows
  <2> QED
    BY <2>1, <2>2
<1>4. \E s2 : Shows(Append(m, msg), <<>>, known, start, T, Q, s2)
  BY <1>1, <1>3, ShowsAppend
<1> QED
  BY <1>4 DEF msg

\* The whole tree is sent, before what was changed is.
LEMMA AnswerIs ==
  ASSUME NEW T \in Trees
  PROVE  LET msg == [type |-> "answer", files |-> T.files, dirs |-> T.dirs]
         IN  msg \in Messages /\ Words(msg) = <<>> /\ msg.type = "answer" /\ Bare(msg) = T
<1>1. T.files \in Sizes /\ T.dirs \subseteq Paths /\ T = [files |-> T.files, dirs |-> T.dirs]
  BY TreesAre DEF IsTree, Bare
<1> HIDE DEF Sizes
<1> QED
  BY <1>1 DEF Messages, Words, Bare

\* The tree is sent, before the reports that are not announced yet.
LEMMA HeardAnswer ==
  ASSUME NEW m \in Seq(Messages), NEW c \in Seq(Reports), NEW kept, NEW T \in Trees, NEW r,
         Heard(m, c, kept, T, r), OnlyDirs(c, T.dirs)
  PROVE  \E r2 : Heard(Append(m, [type |-> "answer", files |-> T.files, dirs |-> T.dirs]), c, kept, T, r2)
<1> DEFINE msg == [type |-> "answer", files |-> T.files, dirs |-> T.dirs]
<1>1. msg \in Messages /\ Words(msg) = <<>> /\ msg.type = "answer" /\ Bare(msg) = T
  BY AnswerIs
<1> HIDE DEF msg
<1>2. PICK w : w = r[Len(m)]
  OBVIOUS
<1>3. w \in Seq(Reports) /\ Told(w \o c, T) /\ Spares(w)
  <2>1. Len(m) \in Nat /\ r \in [0..Len(m) -> Seq(Reports)]
    BY DEF Heard
  <2>2. w \in Seq(Reports)
    BY <1>2, <2>1
  <2>3. Told(w \o c, T) /\ Spares(w)
    BY <1>2 DEF Heard
  <2> QED
    BY <2>2, <2>3
<1>4. w \o <<>> = w
  BY <1>3, Together
<1>5. Told(w, T)
  BY <1>3, ToldWithout
<1>6. Told((r[Len(m)] \o Words(msg)) \o c, T) /\ Spares(r[Len(m)] \o Words(msg))
        /\ Told(r[Len(m)], Bare(msg))
  BY <1>1, <1>2, <1>3, <1>4, <1>5
<1>7. \E r2 : Heard(Append(m, msg), c, kept, T, r2)
  BY <1>1, <1>6, HeardAppend
<1> QED
  BY <1>7 DEF msg

\* And it will be shown.
LEMMA ShowsAnswer ==
  ASSUME NEW m \in Seq(Messages), NEW c \in Seq(Reports), NEW known, NEW start, NEW T \in Trees, NEW Q, NEW s,
         Shows(m, c, known, start, T, Q, s), T \in Q, Told(c, T)
  PROVE  \E s2 : Shows(Append(m, [type |-> "answer", files |-> T.files, dirs |-> T.dirs]), c, known, start, T, Q, s2)
<1> DEFINE msg == [type |-> "answer", files |-> T.files, dirs |-> T.dirs]
<1>1. msg \in Messages /\ Words(msg) = <<>> /\ msg.type = "answer" /\ Bare(msg) = T
  BY AnswerIs
<1> HIDE DEF msg
<1>2. Near(T, c, 0, T)
  BY DEF Near
<1>3. TakeAll(T, c) = T
  BY <1>2, Explained DEF Explains
<1>4. Heed(s[Len(m)], msg) = T
  BY <1>1 DEF Heed
<1>5. \E s2 : Shows(Append(m, msg), c, known, start, T, Q, s2)
  BY <1>1, <1>3, <1>4, ShowsAppend
<1> QED
  BY <1>5 DEF msg

-----------------------------------------------------------------------------
(* What a change reports.                                                  *)

\* The tree the filesystem has now.
LEMMA TreeIs ==
  ASSUME TypeInv
  PROVE  /\ TreeNow \in Trees /\ TreeNow.files = nodes /\ TreeNow.dirs = dirs /\ <<>> \in dirs
         /\ \A p \in DOMAIN nodes : nodes[p] \in 0..(MaxChanges + 1)
<1>1. PICK n \in Nat : n = done.changes + 1 /\ n <= MaxChanges + 1
  BY GameFsAssumption DEF TypeInv, DoneTyped
<1>2. /\ DOMAIN nodes \subseteq Names /\ nodes \in [DOMAIN nodes -> 0..n]
      /\ dirs \subseteq Paths /\ <<>> \in dirs
  BY <1>1 DEF TypeInv, TreeTyped
<1>3. nodes \in [DOMAIN nodes -> 0..(MaxChanges + 1)]
  BY <1>1, <1>2, GameFsAssumption
<1>4. nodes \in Sizes
  BY <1>2, <1>3, TreesAre
<1>5. [files |-> nodes, dirs |-> dirs] \in Trees
  BY <1>2, <1>4, TreesAre
<1> QED
  BY <1>2, <1>3, <1>5 DEF TreeNow

\* One change and then another.
LEMMA ExplainsBoth ==
  ASSUME NEW a, NEW b, NEW T, NEW T1, NEW T2, Explains(a, T, T1), Explains(b, T1, T2)
  PROVE  Explains(a \o b, T, T2)
<1>1. a \in Seq(Reports) /\ b \in Seq(Reports) /\ Told(a, T1) /\ Near(T, a, 0, T1) /\ Near(T1, b, 0, T2)
  BY DEF Explains
<1>2. Told(a \o b, T2)
  BY <1>1, ToldMore
<1> DEFINE k == a \o b
<1>3. /\ Len(a) \in Nat /\ Len(b) \in Nat
      /\ \A i \in 1..Len(a) : i \in 1..Len(k) /\ k[i] = a[i]
      /\ \A i \in 1..Len(b) : Len(a) + i \in 1..Len(k) /\ k[Len(a) + i] = b[i]
      /\ k \in Seq(Reports)
  BY <1>1, BothAre
<1> HIDE DEF k
<1>4. ASSUME NEW q PROVE Named(a, 0, q) \/ Named(b, 0, q) => Named(k, 0, q)
  <2>1. \A h : Named(h, 0, q) <=> \E j \in 1..Len(h) : h[j].op \in {"dir", "gone"} /\ h[j].path = q
    BY DEF Named
  <2> QED
    BY <1>3, <2>1
<1>5. ASSUME NEW q PROVE Sized(a, 0, q) \/ Sized(b, 0, q) => Sized(k, 0, q)
  <2>1. \A h : Sized(h, 0, q) <=> \E j \in 1..Len(h) : h[j].op \in {"file", "gone"} /\ h[j].path = q
    BY DEF Sized
  <2> QED
    BY <1>3, <2>1
<1>6. Near(T, k, 0, T2)
  <2>1. \A q : (q \in T.dirs <=> q \in T2.dirs) \/ Named(k, 0, q)
    BY <1>1, <1>4 DEF Near
  <2>2. ASSUME NEW q
        PROVE  \/ Sized(k, 0, q)
               \/ /\ q \in DOMAIN T.files <=> q \in DOMAIN T2.files
                  /\ q \in DOMAIN T.files => T.files[q] = T2.files[q]
    BY <1>1, <1>5 DEF Near
  <2> QED
    BY <2>1, <2>2 DEF Near
<1> QED
  BY <1>2, <1>3, <1>6 DEF Explains, k

\* One report.
LEMMA OneReport ==
  ASSUME NEW c \in Reports, NEW q
  PROVE  /\ <<c>> \in Seq(Reports) /\ Len(<<c>>) = 1 /\ <<c>>[1] = c
         /\ Named(<<c>>, 0, q) <=> c.op \in {"dir", "gone"} /\ c.path = q
         /\ Sized(<<c>>, 0, q) <=> c.op \in {"file", "gone"} /\ c.path = q
BY DEF Named, Sized

\* A file was written.
LEMMA FileExplains ==
  ASSUME NEW T, NEW p \in Names, NEW n \in 0..(MaxChanges + 1), Above(p) \subseteq T.dirs,
         NEW T2, T2.files = Put(T.files, p, n), T2.dirs = T.dirs
  PROVE  Explains(<<FileReport(p, n)>>, T, T2)
<1> DEFINE c == FileReport(p, n)
<1>1. c \in Reports /\ c.op = "file" /\ c.path = p /\ c.size = n
  BY DEF Reports, FileReport
<1>2. DOMAIN T2.files = DOMAIN T.files \cup {p} /\ \A q \in DOMAIN T2.files : T2.files[q] = IF q = p THEN n ELSE T.files[q]
  BY DEF Put
<1> HIDE DEF c
<1>3. <<c>> \in Seq(Reports) /\ Len(<<c>>) = 1 /\ <<c>>[1] = c /\ \A q : Sized(<<c>>, 0, q) <=> p = q
  BY <1>1, OneReport
<1>4. Told(<<c>>, T2)
  BY <1>1, <1>2, <1>3 DEF Told, ToldAt
<1>5. Near(T, <<c>>, 0, T2)
  BY <1>2, <1>3 DEF Near
<1> QED
  BY <1>3, <1>4, <1>5 DEF Explains, c

\* A directory was made.
LEMMA DirExplains ==
  ASSUME NEW T, NEW p \in Names, 0 \in 0..(MaxChanges + 1), Above(p) \subseteq T.dirs,
         NEW T2, T2.files = T.files, T2.dirs = T.dirs \cup {p}
  PROVE  Explains(<<DirReport(p)>>, T, T2)
<1> DEFINE c == DirReport(p)
<1>1. c \in Reports /\ c.op = "dir" /\ c.path = p
  BY DEF Reports, DirReport
<1> HIDE DEF c
<1>3. <<c>> \in Seq(Reports) /\ Len(<<c>>) = 1 /\ <<c>>[1] = c /\ \A q : Named(<<c>>, 0, q) <=> p = q
  BY <1>1, OneReport
<1>4. Told(<<c>>, T2)
  BY <1>1, <1>3 DEF Told, ToldAt
<1>5. Near(T, <<c>>, 0, T2)
  BY <1>3 DEF Near
<1> QED
  BY <1>3, <1>4, <1>5 DEF Explains, c

\* A file or a directory was removed.
LEMMA GoneExplains ==
  ASSUME NEW T, NEW p \in Names, 0 \in 0..(MaxChanges + 1),
         NEW T2, T2.files = Drop(T.files, p), T2.dirs = T.dirs \ {p}
  PROVE  Explains(<<GoneReport(p)>>, T, T2)
<1> DEFINE c == GoneReport(p)
<1>1. c \in Reports /\ c.op = "gone" /\ c.path = p
  BY DEF Reports, GoneReport
<1>2. DOMAIN T2.files = DOMAIN T.files \ {p} /\ \A q \in DOMAIN T2.files : T2.files[q] = T.files[q]
  BY DEF Drop, Restrict
<1> HIDE DEF c
<1>3. /\ <<c>> \in Seq(Reports) /\ Len(<<c>>) = 1 /\ <<c>>[1] = c
      /\ \A q : Named(<<c>>, 0, q) <=> p = q
      /\ \A q : Sized(<<c>>, 0, q) <=> p = q
  BY <1>1, OneReport
<1>4. Told(<<c>>, T2)
  BY <1>1, <1>2, <1>3 DEF Told, ToldAt
<1>5. Near(T, <<c>>, 0, T2)
  BY <1>2, <1>3 DEF Near
<1> QED
  BY <1>3, <1>4, <1>5 DEF Explains, c

\* The directories above a path were made.
LEMMA ParentsExplain ==
  ASSUME TypeInv, NEW p \in Names, NEW T2, T2.files = nodes, T2.dirs = dirs \cup Above(p)
  PROVE  /\ Explains(NewParents(p), TreeNow, T2)
         /\ \A i \in 1..Len(NewParents(p)) : NewParents(p)[i].op = "dir" /\ NewParents(p)[i].path \in Above(p)
<1> DEFINE S == {n \in 0..(Len(p) - 1) : SubSeq(p, 1, n) \notin dirs}
           new == InOrder(S)  h == NewParents(p)
<1>1. p \in Paths /\ Len(p) \in Nat /\ p # <<>>
  BY DEF Names, Paths
<1>2. S \in SUBSET Nat /\ IsFiniteSet(S)
  <2>1. IsFiniteSet(0..(Len(p) - 1))
    BY <1>1, FS_Interval
  <2>2. S \subseteq 0..(Len(p) - 1) /\ S \in SUBSET Nat
    BY <1>1
  <2> HIDE DEF S
  <2> QED
    BY <2>1, <2>2, FS_Subset
<1>3. h = [i \in DOMAIN new |-> DirReport(SubSeq(p, 1, new[i]))]
  BY DEF NewParents
<1> HIDE DEF h
<1>4. new \in Seq(S) /\ Elements(new) = S
  <2> HIDE DEF S
  <2> QED
    BY <1>2, InOrderIs
<1> HIDE DEF new
<1>5. DOMAIN new = 1..Len(new) /\ Len(new) \in Nat /\ \A i \in 1..Len(new) : new[i] \in S
  <2> HIDE DEF S
  <2> QED
    BY <1>4
<1>6. ASSUME NEW n \in S
      PROVE  SubSeq(p, 1, n) \in Above(p) /\ SubSeq(p, 1, n) \in Names /\ SubSeq(p, 1, n) \notin dirs
             /\ Above(SubSeq(p, 1, n)) \subseteq Above(p)
  <2>1. n \in 0..(Len(p) - 1) /\ SubSeq(p, 1, n) \notin dirs
    OBVIOUS
  <2>2. SubSeq(p, 1, n) \in Above(p)
    BY <2>1 DEF Above
  <2>3. SubSeq(p, 1, n) \in Paths /\ SubSeq(p, 1, n) # <<>>
    BY <1>1, <2>1, <2>2, AboveIs, TreeIs
  <2>4. Len(SubSeq(p, 1, n)) = n
    BY <1>1, <2>1 DEF Paths
  <2>5. ASSUME NEW k \in 0..(n - 1) PROVE SubSeq(SubSeq(p, 1, n), 1, k) = SubSeq(p, 1, k) /\ k \in 0..(Len(p) - 1)
    BY <1>1, <2>1 DEF Paths
  <2>6. Above(SubSeq(p, 1, n)) \subseteq Above(p)
    BY <2>4, <2>5 DEF Above
  <2> QED
    BY <2>1, <2>2, <2>3, <2>6 DEF Names
<1>7. ASSUME NEW q \in Above(p) PROVE q \in dirs \/ \E n \in S : q = SubSeq(p, 1, n)
  BY <1>7 DEF Above
<1> HIDE DEF S
<1>8. 0 \in 0..(MaxChanges + 1)
  BY GameFsAssumption
<1>9. \A q \in Names : DirReport(q) \in Reports /\ DirReport(q).op = "dir" /\ DirReport(q).path = q
  BY <1>8 DEF DirReport, Reports
<1>10. /\ h \in Seq(Reports) /\ Len(h) = Len(new)
       /\ \A i \in 1..Len(h) : h[i] = DirReport(SubSeq(p, 1, new[i])) /\ h[i].op = "dir" /\ h[i].path = SubSeq(p, 1, new[i])
  <2>1. \A i \in 1..Len(new) : DirReport(SubSeq(p, 1, new[i])) \in Reports
    BY <1>5, <1>6, <1>9
  <2>2. h \in [1..Len(new) -> Reports]
    BY <1>3, <1>5, <2>1
  <2>3. h \in Seq(Reports) /\ Len(h) = Len(new)
    BY <1>5, <2>2
  <2>4. ASSUME NEW i \in 1..Len(h)
        PROVE  h[i] = DirReport(SubSeq(p, 1, new[i])) /\ h[i].op = "dir" /\ h[i].path = SubSeq(p, 1, new[i])
    <3>1. i \in 1..Len(new) /\ h[i] = DirReport(SubSeq(p, 1, new[i]))
      BY <1>3, <1>5, <2>3
    <3>2. SubSeq(p, 1, new[i]) \in Names
      BY <1>5, <1>6, <3>1
    <3> QED
      BY <1>9, <3>1, <3>2
  <2> QED
    BY <2>3, <2>4
<1>11. \A i \in 1..Len(h) : h[i].op = "dir" /\ h[i].path \in Above(p) /\ Above(h[i].path) \subseteq Above(p)
  BY <1>5, <1>6, <1>10
<1>12. ASSUME NEW q \in Above(p) PROVE q \in dirs \/ Named(h, 0, q)
  <2>1. CASE \E n \in S : q = SubSeq(p, 1, n)
    <3>0. PICK n \in S : q = SubSeq(p, 1, n)
      BY <2>1
    <3>3. n \in Elements(new)
      BY <1>4
    <3>4. PICK i \in DOMAIN new : n = new[i]
      BY <3>3 DEF Elements
    <3>1. i \in 1..Len(new) /\ q = SubSeq(p, 1, new[i])
      BY <1>5, <3>0, <3>4
    <3>2. i \in (0 + 1)..Len(h) /\ h[i].op = "dir" /\ h[i].path = q
      BY <1>10, <3>1
    <3> QED
      BY <3>2 DEF Named
  <2> QED
    BY <1>7, <2>1
<1>13. TreeNow.files = nodes /\ TreeNow.dirs = dirs
  BY TreeIs
<1>14. Told(h, T2)
  <2>1. \A i \in 1..Len(h) : h[i].op = "dir" /\ h[i].path \in T2.dirs /\ Above(h[i].path) \subseteq T2.dirs
    BY <1>11
  <2> QED
    BY <2>1 DEF Told, ToldAt
<1>15. Near(TreeNow, h, 0, T2)
  BY <1>12, <1>13 DEF Near
<1> QED
  BY <1>10, <1>11, <1>14, <1>15 DEF Explains, h

-----------------------------------------------------------------------------
(* Names.                                                                  *)

\* Where files may be, and where directories may; on the disk and in the tree no
\* name is both.
FileNames == Files \cup Shipped \cup Drops
DirNames == {<<>>} \cup Folders \cup UNION {Above(p) : p \in FileNames \cup Folders}
Unmixed(names, D) == names \subseteq FileNames /\ D \subseteq DirNames /\ names \cap D = {}

\* What the hypotheses say of these.
LEMMA NamesAre ==
  ASSUME NamesApart, DropsApart
  PROVE  /\ FileNames \subseteq Names /\ Folders \subseteq Names /\ Folders \subseteq DirNames /\ <<>> \in DirNames
         /\ \A p \in FileNames \cup Folders : Above(p) \subseteq DirNames /\ Above(p) \cap FileNames = {}
         /\ (Shipped \cup Drops) \cap DirNames = {}
         /\ Files \cap DropDirs = {} /\ Folders \cap DropDirs = {}
         /\ \A p \in Drops : Above(p) \subseteq DropDirs
         /\ DropDirs \subseteq DirNames
<1>1. FileNames \subseteq Names /\ Folders \subseteq Names
  BY PathsAre DEF FileNames
<1>2. \A p \in FileNames \cup Folders : Above(p) \subseteq DirNames /\ Above(p) \cap FileNames = {}
  <2>1. ASSUME NEW p \in FileNames \cup Folders, NEW q \in Above(p) PROVE q \in DirNames /\ q \notin FileNames
    BY <2>1 DEF DirNames, NamesApart, FileNames
  <2> QED
    BY <2>1
<1>3. (Shipped \cup Drops) \cap DirNames = {}
  <2>1. ASSUME NEW p \in Shipped \cup Drops PROVE p \notin DirNames
    <3>1. p # <<>> /\ p \in FileNames
      BY <1>1 DEF FileNames, Names
    <3>2. p \notin Folders
      BY DEF DropsApart
    <3>3. \A q \in FileNames \cup Folders : p \notin Above(q)
      BY <1>2, <3>1
    <3> QED
      BY <3>1, <3>2, <3>3 DEF DirNames
  <2> QED
    BY <2>1
<1>4. \A p \in Drops : Above(p) \subseteq DropDirs
  BY DEF DropDirs
<1>5. Files \cap DropDirs = {} /\ DropDirs \subseteq DirNames
  BY <1>2 DEF DropDirs, FileNames
<1>6. Folders \cap DropDirs = {}
  BY DEF DropDirs, DropsApart
<1> QED
  BY <1>1, <1>2, <1>3, <1>4, <1>5, <1>6 DEF DirNames

\* A file written keeps names apart on the disk.
LEMMA WriteUnmixed ==
  ASSUME NamesApart, DropsApart, NEW d, Unmixed(DOMAIN d.files, d.dirs), NEW p \in FileNames, NEW s
  PROVE  LET e == WriteDisk(d, p, s) IN Unmixed(DOMAIN e.files, e.dirs)
<1> DEFINE e == WriteDisk(d, p, s)
<1>1. CASE Blocked(d, p)
  BY <1>1 DEF WriteDisk
<1>2. CASE ~Blocked(d, p)
  <2>1. e = [files |-> Put(d.files, p, s), dirs |-> d.dirs \cup Above(p)]
    BY <1>2 DEF WriteDisk
  <2> HIDE DEF e
  <2>2. DOMAIN e.files = DOMAIN d.files \cup {p} /\ e.dirs = d.dirs \cup Above(p)
    BY <2>1 DEF Put
  <2>3. p \notin d.dirs
    BY <1>2 DEF Blocked
  <2>4. p \notin Above(p) /\ Above(p) \subseteq DirNames /\ Above(p) \cap FileNames = {}
    BY NamesAre
  <2> QED
    BY <2>2, <2>3, <2>4 DEF Unmixed, e
<1> QED
  BY <1>1, <1>2

\* So does one removed.
LEMMA RemoveUnmixed ==
  ASSUME NEW n, NEW d \in Disks(n), Unmixed(DOMAIN d.files, d.dirs), NEW p
  PROVE  LET e == RemoveDisk(d, p) IN Unmixed(DOMAIN e.files, e.dirs)
<1>1. PICK f, D : f = d.files /\ D = d.dirs /\ d = [files |-> f, dirs |-> D]
  BY DEF Disks
<1>2. DOMAIN Drop(f, p) \subseteq DOMAIN f
  BY DEF Drop, Restrict
<1> DEFINE e == RemoveDisk(d, p)
<1>3. e = d \/ e = [files |-> Drop(f, p), dirs |-> D] \/ e = [files |-> f, dirs |-> D \ {p}]
  BY <1>1 DEF RemoveDisk
<1> HIDE DEF e
<1>4. DOMAIN e.files \subseteq DOMAIN f /\ e.dirs \subseteq D
  BY <1>1, <1>2, <1>3
<1> QED
  BY <1>1, <1>4 DEF Unmixed, e

\* And the directories above a name.
LEMMA MakeDirsUnmixed ==
  ASSUME NamesApart, DropsApart, NEW n, NEW d \in Disks(n), Unmixed(DOMAIN d.files, d.dirs),
         NEW p \in FileNames \cup Folders
  PROVE  LET e == MakeDirs(d, p) IN Unmixed(DOMAIN e.files, e.dirs)
<1>1. PICK f, D : f = d.files /\ D = d.dirs /\ d = [files |-> f, dirs |-> D]
  BY DEF Disks
<1> DEFINE e == MakeDirs(d, p)
<1>3. e = d \/ e = [files |-> f, dirs |-> D \cup Above(p)]
  BY <1>1 DEF MakeDirs
<1> HIDE DEF e
<1>4. DOMAIN e.files = DOMAIN f /\ e.dirs \subseteq D \cup Above(p)
  BY <1>1, <1>3
<1>5. Above(p) \subseteq DirNames /\ Above(p) \cap FileNames = {}
  BY NamesAre
<1> QED
  BY <1>1, <1>4, <1>5 DEF Unmixed, e

\* What scripts queue keeps the disk so.
LEMMA ApplyUnmixed ==
  ASSUME NamesApart, DropsApart, NEW n \in Nat, NEW d \in Disks(n), Unmixed(DOMAIN d.files, d.dirs),
         NEW e \in Entries(n), Asks(e)
  PROVE  Unmixed(DOMAIN ApplyEntry(d, e).files, ApplyEntry(d, e).dirs)
<1> DEFINE D == ApplyEntry(d, e)
<1>0. Files \subseteq FileNames
  BY DEF FileNames
<1>1. \A p \in Files : \A s : Unmixed(DOMAIN WriteDisk(d, p, s).files, WriteDisk(d, p, s).dirs)
  BY <1>0, WriteUnmixed
<1>2. \A p \in Files : Unmixed(DOMAIN MakeDirs(d, p).files, MakeDirs(d, p).dirs)
  BY <1>0, MakeDirsUnmixed
<1>3. CASE e.op \in {"write", "append"}
  <2>1. \E s : D = WriteDisk(d, e.to, s)
    BY <1>3 DEF ApplyEntry
  <2> QED
    BY <1>1, <1>3, <2>1 DEF Asks
<1>4. CASE e.op = "remove"
  <2>1. D = RemoveDisk(d, e.path)
    BY <1>4 DEF ApplyEntry
  <2> QED
    BY <2>1, RemoveUnmixed
<1>5. CASE e.op = "makeDir"
  <2>1. PICK f, E : f = d.files /\ E = d.dirs /\ d = [files |-> f, dirs |-> E]
    BY DEF Disks
  <2>2. e.path \in Folders
    BY <1>5 DEF Asks
  <2>3. D = d \/ (D = [files |-> f, dirs |-> E \cup Above(e.path) \cup {e.path}] /\ e.path \notin DOMAIN f)
    BY <1>5, <2>1 DEF ApplyEntry
  <2> HIDE DEF D
  <2>4. Above(e.path) \subseteq DirNames /\ Above(e.path) \cap FileNames = {} /\ e.path \in DirNames
    BY <2>2, NamesAre
  <2>5. Unmixed(DOMAIN D.files, D.dirs)
    BY <2>1, <2>3, <2>4 DEF Unmixed
  <2> QED
    BY <2>5 DEF D
<1>6. CASE e.op = "copy"
  <2>1. (\E s : D = WriteDisk(d, e.to, s)) \/ D = MakeDirs(d, e.to)
    BY <1>6 DEF ApplyEntry
  <2> QED
    BY <1>1, <1>2, <1>6, <2>1 DEF Asks
<1>7. CASE e.op = "rename"
  <2>1. \/ D = MakeDirs(d, e.to) \/ D = d
        \/ D = RemoveDisk(WriteDisk(d, e.to, d.files[e.path]), e.path) /\ e.path \in DOMAIN d.files
    BY <1>7 DEF ApplyEntry
  <2>2. CASE D = RemoveDisk(WriteDisk(d, e.to, d.files[e.path]), e.path) /\ e.path \in DOMAIN d.files
    <3>1. PICK w : w = WriteDisk(d, e.to, d.files[e.path])
      OBVIOUS
    <3>2. d.files[e.path] \in Short(n) /\ e.to \in Names
      BY <2>2, DiskIs, EntryIs
    <3>3. w \in Disks(n)
      BY <3>1, <3>2, WriteDiskIs
    <3>4. Unmixed(DOMAIN w.files, w.dirs)
      BY <1>1, <1>7, <3>1 DEF Asks
    <3>5. D = RemoveDisk(w, e.path)
      BY <2>2, <3>1
    <3> HIDE DEF D
    <3>6. Unmixed(DOMAIN D.files, D.dirs)
      BY <3>3, <3>4, <3>5, RemoveUnmixed
    <3> QED
      BY <3>6 DEF D
  <2> QED
    BY <1>2, <1>7, <2>1, <2>2 DEF Asks
<1> QED
  BY <1>3, <1>4, <1>5, <1>6, <1>7, EntryIs

-----------------------------------------------------------------------------
(* Every change is reported.                                               *)

\* The tree it has after a step.
LEMMA TreeIsNext ==
  ASSUME TypeInv'
  PROVE  /\ TreeNow' \in Trees /\ TreeNow'.files = nodes' /\ TreeNow'.dirs = dirs' /\ <<>> \in dirs'
         /\ \A p \in DOMAIN nodes' : nodes'[p] \in 0..(MaxChanges + 1)
<1>1. PICK n \in Nat : n = done'.changes + 1 /\ n <= MaxChanges + 1
  BY GameFsAssumption DEF TypeInv, DoneTyped
<1>2. /\ DOMAIN nodes' \subseteq Names /\ nodes' \in [DOMAIN nodes' -> 0..n]
      /\ dirs' \subseteq Paths /\ <<>> \in dirs'
  BY <1>1 DEF TypeInv, TreeTyped
<1>3. nodes' \in [DOMAIN nodes' -> 0..(MaxChanges + 1)]
  BY <1>1, <1>2, GameFsAssumption
<1>4. nodes' \in Sizes
  BY <1>2, <1>3, TreesAre
<1>5. [files |-> nodes', dirs |-> dirs'] \in Trees
  BY <1>2, <1>4, TreesAre
<1> QED
  BY <1>2, <1>3, <1>5 DEF TreeNow

\* The page will hear of exactly what was changed.
Reported == \E rep : Announce(rep) /\ Explains(rep, TreeNow, TreeNow') /\ Spares(rep)
\* And no name becomes both a file and a directory, nor do directories of drops go.
KeepsNames == Unmixed(DOMAIN nodes', dirs') /\ dirs \cap DropDirs \subseteq dirs'

\* Neither of two takes away a directory of a drop.
LEMMA SparesBoth ==
  ASSUME NEW g \in Seq(Reports), NEW h \in Seq(Reports), Spares(g), Spares(h)
  PROVE  Spares(g \o h) /\ g \o h \in Seq(Reports)
<1> DEFINE k == g \o h
<1>1. /\ k \in Seq(Reports)
      /\ \A i \in 1..Len(g) : k[i] = g[i]
      /\ \A i \in 1..Len(h) : k[Len(g) + i] = h[i]
      /\ \A i \in 1..Len(k) : i \in 1..Len(g) \/ (i - Len(g) \in 1..Len(h) /\ i = Len(g) + (i - Len(g)))
  BY BothAre
<1> HIDE DEF k
<1>2. ASSUME NEW i \in 1..Len(k), k[i].op = "gone" PROVE k[i].path \notin DropDirs
  <2>1. CASE i \in 1..Len(g)
    BY <1>1, <1>2, <2>1 DEF Spares
  <2>2. CASE i - Len(g) \in 1..Len(h) /\ i = Len(g) + (i - Len(g))
    <3>1. PICK j \in 1..Len(h) : i = Len(g) + j
      BY <2>2
    <3>2. k[i] = h[j]
      BY <1>1, <3>1
    <3> QED
      BY <1>2, <3>2 DEF Spares
  <2> QED
    BY <1>1, <2>1, <2>2
<1>3. Spares(k)
  BY <1>2 DEF Spares
<1> QED
  BY <1>1, <1>3 DEF k

\* A change refused: there is nothing to hear.
LEMMA RefusedHeard ==
  ASSUME TypeInv, Unmixed(DOMAIN nodes, dirs), Refused
  PROVE  Reported /\ KeepsNames
<1>1. nodes' = nodes /\ dirs' = dirs /\ Announce(<<>>)
  BY DEF Refused, treeVars
<1>2. TreeNow' = TreeNow
  BY <1>1 DEF TreeNow
<1>3. Explains(<<>>, TreeNow, TreeNow) /\ Spares(<<>>)
  BY NothingTold DEF Spares
<1> QED
  BY <1>1, <1>2, <1>3 DEF Reported, KeepsNames

\* A file written, appended to or copied.
LEMMA FileHeard ==
  ASSUME TypeInv, TypeInv', NamesApart, DropsApart, Unmixed(DOMAIN nodes, dirs),
         NEW p \in Files, p \notin dirs, NEW n, nodes' = Put(nodes, p, n), dirs' = dirs \cup Above(p),
         Announce(NewParents(p) \o <<FileReport(p, n)>>)
  PROVE  Reported /\ KeepsNames
<1>1. p \in Names /\ p \in FileNames
  BY NamesAre DEF FileNames
<1> DEFINE T1 == [files |-> nodes, dirs |-> dirs \cup Above(p)]
           r1 == NewParents(p)  r2 == <<FileReport(p, n)>>
<1>2. T1.files = nodes /\ T1.dirs = dirs \cup Above(p)
  OBVIOUS
<1> HIDE DEF T1
<1>3. n \in 0..(MaxChanges + 1)
  <2>1. p \in DOMAIN nodes' /\ nodes'[p] = n
    BY DEF Put
  <2> QED
    BY <2>1, TreeIsNext
<1>4. /\ Explains(r1, TreeNow, T1)
      /\ \A i \in 1..Len(r1) : r1[i].op = "dir" /\ r1[i].path \in Above(p)
  BY <1>1, <1>2, ParentsExplain
<1> HIDE DEF r1
<1>5. PICK T2 : T2 = TreeNow' /\ T2.files = nodes' /\ T2.dirs = dirs'
  BY TreeIsNext
<1>6. Explains(r2, T1, T2)
  <2>1. T2.files = Put(T1.files, p, n) /\ T2.dirs = T1.dirs /\ Above(p) \subseteq T1.dirs
    BY <1>2, <1>5
  <2> QED
    BY <1>1, <1>3, <2>1, FileExplains
<1>7. r2[1].op = "file" /\ Len(r2) = 1 /\ r2 \in Seq(Reports) /\ r1 \in Seq(Reports)
  BY <1>4, <1>6 DEF FileReport, Explains
<1> HIDE DEF r2
<1>8. Explains(r1 \o r2, TreeNow, T2)
  BY <1>4, <1>6, ExplainsBoth
<1>9. Spares(r1 \o r2)
  <2>1. Spares(r1) /\ Spares(r2)
    BY <1>4, <1>7 DEF Spares
  <2> QED
    BY <1>7, <2>1, SparesBoth
<1>10. Reported
  <2>1. Announce(r1 \o r2)
    BY DEF r1, r2
  <2> QED
    BY <1>5, <1>8, <1>9, <2>1 DEF Reported
<1>11. KeepsNames
  <2>1. DOMAIN nodes' = DOMAIN nodes \cup {p}
    BY DEF Put
  <2>2. Above(p) \subseteq DirNames /\ Above(p) \cap FileNames = {}
    BY <1>1, NamesAre
  <2> QED
    BY <1>1, <2>1, <2>2 DEF KeepsNames, Unmixed
<1> QED
  BY <1>10, <1>11

\* A file deleted.
LEMMA TakeOutHeard ==
  ASSUME TypeInv, TypeInv', NamesApart, DropsApart, Unmixed(DOMAIN nodes, dirs),
         NEW p \in Files, p \in DOMAIN nodes, TakeOut(p)
  PROVE  Reported /\ KeepsNames
<1>1. nodes' = Drop(nodes, p) /\ dirs' = dirs /\ Announce(<<GoneReport(p)>>)
  BY DEF TakeOut, Made
<1>2. p \in Names /\ p \notin DropDirs /\ p \notin dirs /\ 0 \in 0..(MaxChanges + 1)
  BY NamesAre, GameFsAssumption DEF FileNames, Unmixed
<1>3. PICK T, T2 : T = TreeNow /\ T.files = nodes /\ T.dirs = dirs /\ T2 = TreeNow' /\ T2.files = nodes' /\ T2.dirs = dirs'
  BY TreeIs, TreeIsNext
<1>4. T2.files = Drop(T.files, p) /\ T2.dirs = T.dirs \ {p}
  BY <1>1, <1>2, <1>3
<1>5. Explains(<<GoneReport(p)>>, T, T2)
  BY <1>2, <1>4, GoneExplains
<1>6. Spares(<<GoneReport(p)>>)
  BY <1>2 DEF Spares, GoneReport
<1>7. DOMAIN nodes' \subseteq DOMAIN nodes
  BY <1>1 DEF Drop, Restrict
<1> QED
  BY <1>1, <1>3, <1>5, <1>6, <1>7 DEF Reported, KeepsNames, Unmixed

\* A directory removed.
LEMMA TakeDirHeard ==
  ASSUME TypeInv, TypeInv', NamesApart, DropsApart, Unmixed(DOMAIN nodes, dirs),
         NEW p \in Folders, p \in dirs, TakeDir(p)
  PROVE  Reported /\ KeepsNames
<1>1. nodes' = nodes /\ dirs' = dirs \ {p} /\ Announce(<<GoneReport(p)>>)
  BY DEF TakeDir, Made
<1>2. p \in Names /\ p \notin DropDirs /\ p \notin DOMAIN nodes /\ 0 \in 0..(MaxChanges + 1)
  BY NamesAre, GameFsAssumption DEF Unmixed
<1>3. PICK T, T2 : T = TreeNow /\ T.files = nodes /\ T.dirs = dirs /\ T2 = TreeNow' /\ T2.files = nodes' /\ T2.dirs = dirs'
  BY TreeIs, TreeIsNext
<1>4. Drop(nodes, p) = nodes
  <2>1. nodes = [q \in DOMAIN nodes |-> nodes[q]]
    BY DEF TypeInv, TreeTyped
  <2> QED
    BY <1>2, <2>1 DEF Drop, Restrict
<1>5. T2.files = Drop(T.files, p) /\ T2.dirs = T.dirs \ {p}
  BY <1>1, <1>3, <1>4
<1>6. Explains(<<GoneReport(p)>>, T, T2)
  BY <1>2, <1>5, GoneExplains
<1>7. Spares(<<GoneReport(p)>>)
  BY <1>2 DEF Spares, GoneReport
<1> QED
  BY <1>1, <1>2, <1>3, <1>6, <1>7 DEF Reported, KeepsNames, Unmixed

\* A directory made.
LEMMA PutDirHeard ==
  ASSUME TypeInv, TypeInv', NamesApart, DropsApart, Unmixed(DOMAIN nodes, dirs),
         NEW p \in Folders, p \notin DOMAIN nodes, PutDir(p)
  PROVE  Reported /\ KeepsNames
<1>1. nodes' = nodes /\ dirs' = dirs \cup Above(p) \cup {p} /\ Announce(NewParents(p) \o <<DirReport(p)>>)
  BY DEF PutDir, Made
<1>2. p \in Names /\ p \in DirNames /\ 0 \in 0..(MaxChanges + 1)
        /\ Above(p) \subseteq DirNames /\ Above(p) \cap FileNames = {}
  BY NamesAre, GameFsAssumption
<1> DEFINE T1 == [files |-> nodes, dirs |-> dirs \cup Above(p)]
           r1 == NewParents(p)  r2 == <<DirReport(p)>>
<1>3. T1.files = nodes /\ T1.dirs = dirs \cup Above(p)
  OBVIOUS
<1> HIDE DEF T1
<1>4. /\ Explains(r1, TreeNow, T1)
      /\ \A i \in 1..Len(r1) : r1[i].op = "dir" /\ r1[i].path \in Above(p)
  BY <1>2, <1>3, ParentsExplain
<1> HIDE DEF r1
<1>5. PICK T2 : T2 = TreeNow' /\ T2.files = nodes' /\ T2.dirs = dirs'
  BY TreeIsNext
<1>6. Explains(r2, T1, T2)
  <2>1. T2.files = T1.files /\ T2.dirs = T1.dirs \cup {p} /\ Above(p) \subseteq T1.dirs
    BY <1>1, <1>3, <1>5
  <2> QED
    BY <1>2, <2>1, DirExplains
<1>7. r2[1].op = "dir" /\ Len(r2) = 1 /\ r2 \in Seq(Reports) /\ r1 \in Seq(Reports)
  BY <1>4, <1>6 DEF DirReport, Explains
<1> HIDE DEF r2
<1>8. Explains(r1 \o r2, TreeNow, T2)
  BY <1>4, <1>6, ExplainsBoth
<1>9. Spares(r1 \o r2)
  <2>1. Spares(r1) /\ Spares(r2)
    BY <1>4, <1>7 DEF Spares
  <2> QED
    BY <1>7, <2>1, SparesBoth
<1>10. Reported
  <2>1. Announce(r1 \o r2)
    BY <1>1 DEF r1, r2
  <2> QED
    BY <1>5, <1>8, <1>9, <2>1 DEF Reported
<1>11. KeepsNames
  BY <1>1, <1>2 DEF KeepsNames, Unmixed
<1> QED
  BY <1>10, <1>11

\* A file moved.
LEMMA MoveHeard ==
  ASSUME TypeInv, TypeInv', NamesApart, DropsApart, Unmixed(DOMAIN nodes, dirs),
         NEW from \in Files, NEW to \in Files, from # to, from \in DOMAIN nodes, to \notin dirs,
         MoveTo(from, to)
  PROVE  Reported /\ KeepsNames
<1> DEFINE n == nodes[from]
           r1 == NewParents(to)  r2 == <<FileReport(to, n)>>  r3 == <<GoneReport(from)>>
           T1 == [files |-> nodes, dirs |-> dirs \cup Above(to)]
           T2 == [files |-> Put(nodes, to, n), dirs |-> dirs \cup Above(to)]
<1>1. nodes' = Drop(Put(nodes, to, n), from) /\ dirs' = dirs \cup Above(to) /\ Announce((r1 \o r2) \o r3)
  BY DEF MoveTo, Made
<1>2. /\ to \in Names /\ to \in FileNames /\ from \in Names /\ from \in FileNames /\ from \notin DropDirs
      /\ Above(to) \subseteq DirNames /\ Above(to) \cap FileNames = {} /\ 0 \in 0..(MaxChanges + 1)
      /\ from \notin dirs
  BY NamesAre, GameFsAssumption DEF FileNames, Unmixed
<1>3. T1.files = nodes /\ T1.dirs = dirs \cup Above(to) /\ T2.files = Put(nodes, to, n) /\ T2.dirs = dirs \cup Above(to)
  OBVIOUS
<1> HIDE DEF T1, T2
<1>4. n \in 0..(MaxChanges + 1)
  BY TreeIs
<1>5. /\ Explains(r1, TreeNow, T1)
      /\ \A i \in 1..Len(r1) : r1[i].op = "dir" /\ r1[i].path \in Above(to)
  BY <1>2, <1>3, ParentsExplain
<1> HIDE DEF r1, n
<1>6. Explains(r2, T1, T2)
  <2>1. T2.files = Put(T1.files, to, n) /\ T2.dirs = T1.dirs /\ Above(to) \subseteq T1.dirs
    BY <1>3
  <2> QED
    BY <1>2, <1>4, <2>1, FileExplains
<1>7. PICK T3 : T3 = TreeNow' /\ T3.files = nodes' /\ T3.dirs = dirs'
  BY TreeIsNext
<1>8. Explains(r3, T2, T3)
  <2>1. T3.files = Drop(T2.files, from) /\ T3.dirs = T2.dirs \ {from}
    BY <1>1, <1>2, <1>3, <1>7
  <2> QED
    BY <1>2, <2>1, GoneExplains
<1>9. /\ r2[1].op = "file" /\ Len(r2) = 1 /\ r2 \in Seq(Reports) /\ r1 \in Seq(Reports)
      /\ r3[1].path = from /\ Len(r3) = 1 /\ r3 \in Seq(Reports)
  BY <1>5, <1>6, <1>8 DEF FileReport, GoneReport, Explains
<1> HIDE DEF r2, r3
<1>10. Explains(r1 \o r2, TreeNow, T2)
  BY <1>5, <1>6, ExplainsBoth
<1>11. Explains((r1 \o r2) \o r3, TreeNow, T3)
  BY <1>8, <1>10, ExplainsBoth
<1>12. Spares((r1 \o r2) \o r3)
  <2>1. Spares(r1) /\ Spares(r2) /\ Spares(r3)
    BY <1>2, <1>5, <1>9 DEF Spares
  <2>2. Spares(r1 \o r2) /\ r1 \o r2 \in Seq(Reports)
    BY <1>9, <2>1, SparesBoth
  <2> QED
    BY <1>9, <2>1, <2>2, SparesBoth
<1>13. Reported
  BY <1>1, <1>7, <1>11, <1>12 DEF Reported
<1>14. KeepsNames
  <2>1. DOMAIN nodes' \subseteq DOMAIN nodes \cup {to}
    BY <1>1 DEF Put, Drop, Restrict
  <2> QED
    BY <1>1, <1>2, <2>1 DEF KeepsNames, Unmixed
<1> QED
  BY <1>13, <1>14

\* Every change a script makes.
LEMMA ChangesHeard ==
  ASSUME TypeInv, TypeInv', NamesApart, DropsApart, Unmixed(DOMAIN nodes, dirs), Changing
  PROVE  Reported /\ KeepsNames
<1> USE DEF Changing, Reading
<1>1. ASSUME Refused PROVE Reported /\ KeepsNames
  BY <1>1, RefusedHeard
<1>2. ASSUME NEW p \in Files, p \notin dirs, NEW s, WriteTo(p, s) PROVE Reported /\ KeepsNames
  <2>1. PICK n : n = Len(s)
    OBVIOUS
  <2>2. nodes' = Put(nodes, p, n) /\ dirs' = dirs \cup Above(p) /\ Announce(NewParents(p) \o <<FileReport(p, n)>>)
    BY <1>2, <2>1 DEF WriteTo, Made
  <2> QED
    BY <1>2, <2>2, FileHeard
<1>3. ASSUME NEW p \in Files, p \notin dirs, NEW v, AppendAt(p, v) PROVE Reported /\ KeepsNames
  <2>1. PICK n : n = (IF p \in DOMAIN nodes THEN nodes[p] ELSE 0) + 1
    OBVIOUS
  <2>2. nodes' = Put(nodes, p, n) /\ dirs' = dirs \cup Above(p) /\ Announce(NewParents(p) \o <<FileReport(p, n)>>)
    BY <1>3, <2>1 DEF AppendAt, Made
  <2> QED
    BY <1>3, <2>2, FileHeard
<1>4. ASSUME NEW p \in Files, NEW v \in Values, Write(p, v) \/ AppendTo(p, v) PROVE Reported /\ KeepsNames
  BY <1>1, <1>2, <1>3, <1>4 DEF Write, AppendTo
<1>5. ASSUME NEW p \in Files, Delete(p) PROVE Reported /\ KeepsNames
  BY <1>1, <1>5, TakeOutHeard DEF Delete
<1>6. ASSUME NEW p \in Folders, MakeDir(p) \/ RemoveDir(p) PROVE Reported /\ KeepsNames
  BY <1>1, <1>6, PutDirHeard, TakeDirHeard DEF MakeDir, RemoveDir
<1>7. ASSUME NEW pair \in Pairs, Copy(pair[1], pair[2]) \/ Rename(pair[1], pair[2])
      PROVE  Reported /\ KeepsNames
  <2>1. PICK from, to : from = pair[1] /\ to = pair[2]
    OBVIOUS
  <2>2. from \in Files /\ to \in Files /\ from # to
    BY <2>1, PathsAre DEF NamesApart
  <2>3. CASE Copy(pair[1], pair[2])
    <3>1. Refused \/ (to \notin dirs /\ CopyTo(from, to))
      BY <2>1, <2>3 DEF Copy
    <3>2. CASE to \notin dirs /\ CopyTo(from, to)
      <4>1. PICK n : n = nodes[from]
        OBVIOUS
      <4>2. nodes' = Put(nodes, to, n) /\ dirs' = dirs \cup Above(to) /\ Announce(NewParents(to) \o <<FileReport(to, n)>>)
        BY <3>2, <4>1 DEF CopyTo, Made
      <4> QED
        BY <2>2, <3>2, <4>2, FileHeard
    <3> QED
      BY <1>1, <3>1, <3>2
  <2>4. CASE Rename(pair[1], pair[2])
    <3>1. Refused \/ (from \in DOMAIN nodes /\ to \notin dirs /\ MoveTo(from, to))
      BY <2>1, <2>4 DEF Rename
    <3> QED
      BY <1>1, <2>2, <3>1, MoveHeard
  <2> QED
    BY <1>7, <2>3, <2>4
<1> QED
  BY <1>4, <1>5, <1>6, <1>7

\* Names are kept apart in the tree and on the disk, the queue holds what scripts ask, and
\* the directories above a drop are there until it is done.
NamesInv ==
    /\ Unmixed(DOMAIN nodes, dirs) /\ Unmixed(DOMAIN disk.files, disk.dirs) /\ QueueInv
    /\ drop # NoDrop => Above(drop.path) \subseteq dirs

\* A step of the queue.
LEMMA NamesQueue ==
  ASSUME TypeInv, NamesInv, NamesApart, DropsApart, MakeFile \/ CommitFirst \/ Commit
  PROVE  NamesInv'
<1>1. PICK n \in Nat : n = done.changes + 1
  BY DEF TypeInv, DoneTyped
<1>2. disk \in Disks(n) /\ chain \in Seq(Entries(n)) /\ chain # <<>>
  BY <1>1 DEF TypeInv, DiskTyped, QueueTyped, MakeFile, CommitFirst, Commit
<1>3. PICK e : e = Head(chain)
  OBVIOUS
<1>4. e \in Entries(n) /\ e = chain[1] /\ 1 \in 1..Len(chain)
  BY <1>2, <1>3
<1>5. Asks(e)
  BY <1>4 DEF NamesInv, QueueInv
<1>6. nodes' = nodes /\ dirs' = dirs /\ drop' = drop
  BY DEF MakeFile, CommitFirst, Commit, QueueKept, treeVars
<1>7. QueueInv'
  BY QueueNext DEF NamesInv, Next
<1>8. Unmixed(DOMAIN disk'.files, disk'.dirs)
  <2>1. CASE MakeFile \/ CommitFirst
    <3>1. e.to \in Files /\ \E s : disk' = WriteDisk(disk, e.to, s)
      BY <1>3, <1>5, <2>1 DEF MakeFile, CommitFirst, Creates, Splits, Asks
    <3>2. PICK s : disk' = WriteDisk(disk, e.to, s)
      BY <3>1
    <3>3. PICK d : d = WriteDisk(disk, e.to, s)
      OBVIOUS
    <3>4. Unmixed(DOMAIN d.files, d.dirs)
      BY <3>1, <3>3, WriteUnmixed DEF NamesInv, FileNames
    <3> QED
      BY <3>2, <3>3, <3>4
  <2>2. CASE Commit
    <3>1. disk' = ApplyEntry(disk, e)
      BY <1>3, <2>2 DEF Commit
    <3>2. Unmixed(DOMAIN ApplyEntry(disk, e).files, ApplyEntry(disk, e).dirs)
      BY <1>2, <1>4, <1>5, ApplyUnmixed DEF NamesInv
    <3> QED
      BY <3>1, <3>2
  <2> QED
    BY <2>1, <2>2
<1> QED
  BY <1>6, <1>7, <1>8 DEF NamesInv

\* A change.
LEMMA NamesChanges ==
  ASSUME TypeInv, TypeInv', NamesInv, NamesApart, DropsApart, Changing
  PROVE  NamesInv'
<1> USE DEF Changing, Reading
<1>1. disk' = disk /\ drop' = drop
  BY DEF Write, AppendTo, Delete, MakeDir, RemoveDir, Copy, Rename, Noted
<1>2. KeepsNames
  BY ChangesHeard DEF NamesInv
<1>3. QueueInv'
  BY QueueNext DEF NamesInv, Next, Scripts
<1>4. drop # NoDrop => drop.path \in Drops
  BY DEF TypeInv, DropTyped
<1>5. drop # NoDrop => Above(drop.path) \subseteq dirs'
  BY <1>2, <1>4, NamesAre DEF KeepsNames, NamesInv
<1> QED
  BY <1>1, <1>2, <1>3, <1>5 DEF NamesInv, KeepsNames

\* A drop.
LEMMA NamesDrops ==
  ASSUME TypeInv, NamesInv, NamesApart, DropsApart, Dropping
  PROVE  NamesInv'
<1>1. PICK n \in Nat : n = done.changes + 1
  BY DEF TypeInv, DoneTyped
<1>2. disk \in Disks(n) /\ chain' = chain
  BY <1>1 DEF TypeInv, DiskTyped, Dropping, DropStart, DropCreate, DropWrite, DropFinish, Beside
<1>3. QueueInv'
  BY <1>2 DEF NamesInv, QueueInv, Asks
<1>4. \A p \in Drops : p \in FileNames /\ p \notin DirNames
  BY NamesAre DEF FileNames
<1>5. CASE \E p \in Drops, v \in Values : DropStart(p, v)
  <2>1. PICK p \in Drops, v \in Values : DropStart(p, v)
    BY <1>5
  <2>2. nodes' = nodes /\ dirs' = dirs \cup Above(p) /\ disk' = disk /\ drop' = [step |-> "create", path |-> p, bytes |-> <<v>>]
    BY <2>1 DEF DropStart
  <2>3. Above(p) \subseteq DirNames /\ Above(p) \cap FileNames = {}
    BY <1>4, NamesAre
  <2>4. drop'.path = p
    BY <2>2
  <2> QED
    BY <1>3, <2>2, <2>3, <2>4 DEF NamesInv, Unmixed
<1>6. ASSUME drop # NoDrop PROVE drop.path \in Drops /\ drop.path \in FileNames /\ drop.path \notin dirs
        /\ drop = [step |-> drop.step, path |-> drop.path, bytes |-> drop.bytes]
  BY <1>4, <1>6 DEF TypeInv, DropTyped, NamesInv, Unmixed
<1>7. CASE DropCreate \/ DropWrite
  <2>1. drop # NoDrop /\ nodes' = nodes /\ dirs' = dirs
    BY <1>7 DEF DropCreate, DropWrite, NoDrop, treeVars
  <2>2. drop' = NoDrop \/ drop'.path = drop.path
    <3>1. drop' = NoDrop \/ \E s : drop' = [drop EXCEPT !.step = s]
      BY <1>7 DEF DropCreate, DropWrite
    <3> QED
      BY <1>6, <2>1, <3>1
  <2>3. disk' = disk \/ (\E s : disk' = WriteDisk(disk, drop.path, s)) \/ disk' = MakeDirs(disk, drop.path)
    BY <1>7 DEF DropCreate, DropWrite
  <2>4. Unmixed(DOMAIN disk'.files, disk'.dirs)
    <3>1. CASE \E s : disk' = WriteDisk(disk, drop.path, s)
      <4>1. PICK s, p : disk' = WriteDisk(disk, p, s) /\ p = drop.path
        BY <3>1
      <4>2. LET e == WriteDisk(disk, p, s) IN Unmixed(DOMAIN e.files, e.dirs)
        BY <1>6, <2>1, <4>1, WriteUnmixed DEF NamesInv
      <4> QED
        BY <4>1, <4>2
    <3>2. CASE disk' = MakeDirs(disk, drop.path)
      <4>1. PICK p : p = drop.path
        OBVIOUS
      <4>2. p \in FileNames \cup Folders
        BY <1>6, <2>1, <4>1
      <4>3. LET e == MakeDirs(disk, p) IN Unmixed(DOMAIN e.files, e.dirs)
        BY <1>2, <4>2, MakeDirsUnmixed DEF NamesInv
      <4> QED
        BY <3>2, <4>1, <4>3
    <3> QED
      BY <2>3, <3>1, <3>2 DEF NamesInv
  <2> QED
    BY <1>3, <2>1, <2>2, <2>4 DEF NamesInv
<1>8. CASE DropFinish
  <2>1. drop # NoDrop /\ dirs' = dirs /\ disk' = disk /\ drop' = NoDrop /\ nodes' = Put(nodes, drop.path, Len(drop.bytes))
    BY <1>8 DEF DropFinish, NoDrop
  <2>2. DOMAIN nodes' = DOMAIN nodes \cup {drop.path}
    BY <2>1 DEF Put
  <2> QED
    BY <1>3, <1>6, <2>1, <2>2 DEF NamesInv, Unmixed
<1> QED
  BY <1>5, <1>7, <1>8 DEF Dropping

\* A reload.
LEMMA NamesCrash ==
  ASSUME NamesInv, NamesApart, DropsApart, Crash
  PROVE  NamesInv'
<1> DEFINE names == Shipped \cup DOMAIN disk.files
<1>1. /\ DOMAIN nodes' = names
      /\ dirs' = {<<>>} \cup disk.dirs \cup UNION {Above(p) : p \in names}
      /\ disk' = disk /\ drop' = NoDrop /\ chain' = <<>>
  BY DEF Crash, Loaded
<1>2. names \subseteq FileNames
  BY DEF NamesInv, Unmixed, FileNames
<1>3. \A p \in names : Above(p) \subseteq DirNames /\ Above(p) \cap FileNames = {}
  BY <1>2, NamesAre
<1>4. <<>> \notin FileNames /\ <<>> \in DirNames /\ Shipped \cap DirNames = {}
  BY NamesAre DEF Names
<1> HIDE DEF names
<1>5. dirs' \subseteq DirNames
  BY <1>1, <1>3, <1>4 DEF NamesInv, Unmixed
<1>6. ASSUME NEW p \in names PROVE p \notin dirs'
  <2>1. p \notin UNION {Above(q) : q \in names} /\ p # <<>>
    BY <1>2, <1>3, <1>4
  <2>2. p \notin disk.dirs
    BY <1>4 DEF NamesInv, Unmixed, names
  <2> QED
    BY <1>1, <2>1, <2>2
<1>7. Unmixed(DOMAIN nodes', dirs')
  BY <1>1, <1>2, <1>5, <1>6 DEF Unmixed
<1>8. QueueInv'
  BY <1>1 DEF QueueInv
<1> QED
  BY <1>1, <1>7, <1>8 DEF NamesInv

-----------------------------------------------------------------------------
(* The page and its mail.                                                  *)

\* No answer is on its way, or one is.
Unanswered(m) == \A i \in 1..Len(m) : m[i].type = "changed"
AnsweredOnce(m) == \E k \in 1..Len(m) : \A i \in 1..Len(m) : m[i].type = IF i = k THEN "answer" ELSE "changed"
\* At most one question for the tree is on its way, or its answer is.
LoadsInv ==
    IF pending.loading THEN (loads = 1 /\ Unanswered(mail)) \/ (loads = 0 /\ AnsweredOnce(mail))
    ELSE loads = 0 /\ Unanswered(mail)

\* An answer has a root.
Rooted(m) == \A i \in 1..Len(m) : m[i].type = "answer" => <<>> \in m[i].dirs

\* What the page keeps.
PageTyped ==
    /\ mail \in Seq(Messages) /\ changes \in Seq(Reports)
    /\ pending.loading \in BOOLEAN /\ pending.kept \in Seq(Reports)
    /\ ~pending.loading => pending.kept = <<>>
    /\ Shown(panel) /\ asks \in 0..MaxLoads /\ Rooted(mail)

\* The page hears of all that is changed.
Following == panel.loaded /\ ~pending.loading
MailInv ==
    /\ PageTyped /\ LoadsInv /\ TreeNow \in trees /\ OnlyDirs(changes, dirs)
    /\ \E r : Heard(mail, changes, pending.kept, TreeNow, r)
    /\ \E s : Shows(mail, changes, Following, Bare(panel), TreeNow, trees, s)

\* With a message more.
LEMMA AnswersAfter ==
  ASSUME NEW m \in Seq(Messages), NEW msg \in Messages
  PROVE  /\ msg.type = "changed" /\ Unanswered(m) => Unanswered(Append(m, msg))
         /\ msg.type = "changed" /\ AnsweredOnce(m) => AnsweredOnce(Append(m, msg))
         /\ msg.type = "answer" /\ Unanswered(m) => AnsweredOnce(Append(m, msg))
<1> DEFINE a == Append(m, msg)  k == Len(m)
<1>1. k \in Nat /\ Len(a) = k + 1 /\ a[k + 1] = msg /\ \A n \in 1..k : a[n] = m[n]
  BY Grown
<1>2. \A n \in 1..(k + 1) : n = k + 1 \/ (n \in 1..k /\ n # k + 1)
  BY <1>1
<1> HIDE DEF a, k
<1>3. msg.type = "changed" /\ Unanswered(m) => Unanswered(a)
  BY <1>1, <1>2 DEF Unanswered, k
<1>4. ASSUME msg.type = "changed", AnsweredOnce(m) PROVE AnsweredOnce(a)
  <2>1. PICK j \in 1..k : \A i \in 1..k : m[i].type = IF i = j THEN "answer" ELSE "changed"
    BY <1>4 DEF AnsweredOnce, k
  <2>2. j \in 1..(k + 1) /\ j # k + 1
    BY <1>1
  <2>3. \A i \in 1..(k + 1) : a[i].type = IF i = j THEN "answer" ELSE "changed"
    BY <1>1, <1>2, <1>4, <2>1, <2>2
  <2> QED
    BY <1>1, <2>2, <2>3 DEF AnsweredOnce
<1>5. ASSUME msg.type = "answer", Unanswered(m) PROVE AnsweredOnce(a)
  <2>1. \A i \in 1..(k + 1) : a[i].type = IF i = k + 1 THEN "answer" ELSE "changed"
    BY <1>1, <1>2, <1>5 DEF Unanswered, k
  <2>2. k + 1 \in 1..(k + 1)
    BY <1>1
  <2> QED
    BY <1>1, <2>1, <2>2 DEF AnsweredOnce
<1> QED
  BY <1>3, <1>4, <1>5 DEF a

\* With a message less.
LEMMA AnswersBefore ==
  ASSUME NEW m \in Seq(Messages), m # <<>>
  PROVE  /\ Unanswered(m) => Unanswered(Tail(m)) /\ m[1].type = "changed"
         /\ AnsweredOnce(m) /\ m[1].type = "changed" => AnsweredOnce(Tail(m))
         /\ AnsweredOnce(m) /\ m[1].type = "answer" => Unanswered(Tail(m))
<1> DEFINE a == Tail(m)  k == Len(m) - 1
<1>1. k \in Nat /\ Len(m) = k + 1 /\ Len(a) = k /\ \A n \in 1..k : a[n] = m[n + 1]
  BY Shorter
<1> HIDE DEF a, k
<1>2. (\A n \in 1..k : n + 1 \in 1..(k + 1) /\ n + 1 # 1) /\ 1 \in 1..(k + 1)
  BY <1>1
<1>3. Unanswered(m) => Unanswered(a) /\ m[1].type = "changed"
  BY <1>1, <1>2 DEF Unanswered
<1>4. ASSUME AnsweredOnce(m) PROVE IF m[1].type = "changed" THEN AnsweredOnce(a) ELSE Unanswered(a)
  <2>1. PICK j \in 1..(k + 1) : \A i \in 1..(k + 1) : m[i].type = IF i = j THEN "answer" ELSE "changed"
    BY <1>1, <1>4 DEF AnsweredOnce
  <2>2. CASE j = 1
    <3>1. m[1].type = "answer" /\ \A n \in 1..k : a[n].type = "changed"
      BY <1>1, <1>2, <2>1, <2>2
    <3> QED
      BY <1>1, <3>1 DEF Unanswered
  <2>3. CASE j # 1
    <3>1. m[1].type = "changed" /\ j - 1 \in 1..k
      BY <1>1, <1>2, <2>1, <2>3
    <3>2. ASSUME NEW n \in 1..k PROVE a[n].type = IF n = j - 1 THEN "answer" ELSE "changed"
      <4>1. n + 1 = j <=> n = j - 1
        BY <1>1
      <4> QED
        BY <1>1, <1>2, <2>1, <4>1
    <3> QED
      BY <1>1, <3>1, <3>2 DEF AnsweredOnce
  <2> QED
    BY <2>2, <2>3
<1> QED
  BY <1>3, <1>4 DEF a

\* With a message more.
LEMMA RootedAfter ==
  ASSUME NEW m \in Seq(Messages), Rooted(m), NEW msg \in Messages,
         msg.type = "changed" \/ <<>> \in msg.dirs
  PROVE  Rooted(Append(m, msg))
<1> DEFINE a == Append(m, msg)  k == Len(m)
<1>1. k \in Nat /\ Len(a) = k + 1 /\ a[k + 1] = msg /\ \A n \in 1..k : a[n] = m[n]
  BY Grown
<1>2. \A n \in 1..(k + 1) : n = k + 1 \/ n \in 1..k
  BY <1>1
<1>3. \A n \in 1..(k + 1) : a[n].type = "answer" => <<>> \in a[n].dirs
  <2> HIDE DEF a, k
  <2>1. \A n \in 1..k : m[n].type = "answer" => <<>> \in m[n].dirs
    BY DEF Rooted, k
  <2>2. TAKE n \in 1..(k + 1)
  <2>3. CASE n = k + 1
    BY <1>1, <2>3
  <2>4. CASE n \in 1..k
    BY <1>1, <2>1, <2>4
  <2> QED
    BY <1>2, <2>3, <2>4
<1> QED
  BY <1>1, <1>3 DEF Rooted

\* A change that is announced.
LEMMA MailReported ==
  ASSUME TypeInv, TypeInv', MailInv, Reported, Beneath, loads' = loads
  PROVE  MailInv'
<1>1. PICK rep : Announce(rep) /\ Explains(rep, TreeNow, TreeNow') /\ Spares(rep)
  BY DEF Reported
<1>2. PICK T, T2 : T = TreeNow /\ T2 = TreeNow' /\ T \in Trees /\ T2 \in Trees
  BY TreeIs, TreeIsNext
<1>3. rep \in Seq(Reports) /\ Explains(rep, T, T2)
  BY <1>1, <1>2 DEF Explains
<1>4. mail \in Seq(Messages) /\ changes \in Seq(Reports) /\ OnlyDirs(changes, dirs)
  BY DEF MailInv, PageTyped
<1>5. PICK c : c = changes \o rep
  OBVIOUS
<1>6. c \in Seq(Reports) /\ Spares(c)
  <2>1. Spares(changes)
    BY <1>4 DEF Spares, OnlyDirs
  <2> QED
    BY <1>1, <1>3, <1>4, <1>5, <2>1, SparesBoth
<1>7. /\ changes' = <<>>
      /\ IF c = <<>> THEN mail' = mail ELSE mail' = Append(mail, [type |-> "changed", changes |-> c])
  BY <1>1, <1>5, FilePanelAssumption DEF Announce
<1>8. /\ trees' = trees \cup {T2} /\ panel' = panel /\ pending' = pending /\ asks' = asks
  BY <1>2 DEF Beneath
<1>9. PICK Q : Q = trees'
  OBVIOUS
<1>10. T2 \in Q /\ trees \subseteq Q
  BY <1>8, <1>9
<1>11. \E r : Heard(mail, c, pending.kept, T2, r)
  <2>1. PICK r : Heard(mail, changes, pending.kept, T, r)
    BY <1>2 DEF MailInv
  <2>2. Heard(mail, changes \o rep, pending.kept, T2, r)
    BY <1>3, <1>4, <2>1, HeardMore
  <2> QED
    BY <1>5, <2>2
<1>12. \E s : Shows(mail, c, Following, Bare(panel), T2, Q, s)
  <2>1. PICK s : Shows(mail, changes, Following, Bare(panel), T, trees, s)
    BY <1>2 DEF MailInv
  <2>2. Shows(mail, changes \o rep, Following, Bare(panel), T2, Q, s)
    BY <1>2, <1>3, <1>4, <1>10, <2>1, ShowsMore
  <2> QED
    BY <1>5, <2>2
<1>13. OnlyDirs(<<>>, dirs')
  BY DEF OnlyDirs
<1>14. Following' = Following
  BY <1>8 DEF Following
<1>15. CASE c = <<>>
  <2>1. mail' = mail /\ changes' = c
    BY <1>7, <1>15
  <2>2. PageTyped' /\ LoadsInv'
    BY <1>4, <1>6, <1>8, <2>1 DEF MailInv, PageTyped, LoadsInv
  <2>3. \E r : Heard(mail', changes', pending'.kept, TreeNow', r)
    BY <1>2, <1>8, <1>11, <2>1
  <2>4. \E s : Shows(mail', changes', Following', Bare(panel'), TreeNow', trees', s)
    BY <1>2, <1>8, <1>9, <1>12, <1>14, <2>1
  <2> QED
    BY <1>2, <1>7, <1>9, <1>10, <1>13, <2>2, <2>3, <2>4 DEF MailInv
<1>16. CASE c # <<>>
  <2>1. PICK msg : msg = [type |-> "changed", changes |-> c]
    OBVIOUS
  <2>2. msg \in Messages /\ msg.type = "changed" /\ mail' = Append(mail, msg) /\ changes' = <<>>
    BY <1>6, <1>7, <1>16, <2>1 DEF Messages
  <2>3. PageTyped'
    <3>1. mail' \in Seq(Messages) /\ <<>> \in Seq(Reports)
      BY <1>4, <2>2
    <3>2. Rooted(mail')
      BY <1>4, <2>2, RootedAfter DEF MailInv, PageTyped
    <3> QED
      BY <1>8, <2>2, <3>1, <3>2 DEF MailInv, PageTyped
  <2>4. LoadsInv'
    <3>1. /\ Unanswered(mail) => Unanswered(mail')
          /\ AnsweredOnce(mail) => AnsweredOnce(mail')
      BY <1>4, <2>2, AnswersAfter
    <3> QED
      BY <1>8, <3>1 DEF MailInv, LoadsInv
  <2>5. \E r : Heard(mail', changes', pending'.kept, TreeNow', r)
    <3>1. PICK r : Heard(mail, c, pending.kept, T2, r)
      BY <1>11
    <3>2. \E r2 : Heard(Append(mail, [type |-> "changed", changes |-> c]), <<>>, pending.kept, T2, r2)
      BY <1>4, <1>6, <3>1, HeardSend
    <3> QED
      BY <1>2, <1>8, <2>1, <2>2, <3>2
  <2>6. \E s : Shows(mail', changes', Following', Bare(panel'), TreeNow', trees', s)
    <3>1. PICK s : Shows(mail, c, Following, Bare(panel), T2, Q, s)
      BY <1>12
    <3>2. \E s2 : Shows(Append(mail, [type |-> "changed", changes |-> c]), <<>>, Following, Bare(panel), T2, Q, s2)
      BY <1>4, <1>6, <1>10, <3>1, ShowsSend
    <3> QED
      BY <1>2, <1>8, <1>9, <1>14, <2>1, <2>2, <3>2
  <2> QED
    BY <1>2, <1>7, <1>9, <1>10, <1>13, <2>3, <2>4, <2>5, <2>6 DEF MailInv
<1> QED
  BY <1>15, <1>16

\* A step of which there is nothing to hear.
LEMMA MailStill ==
  ASSUME MailInv, nodes' = nodes, dirs' = dirs, UNCHANGED <<panel, pending, asks>>, UNCHANGED pageVars,
         trees' = trees \/ trees' = trees \cup {TreeNow'}
  PROVE  MailInv'
<1>1. TreeNow' = TreeNow /\ trees' = trees /\ mail' = mail /\ changes' = changes /\ loads' = loads
        /\ panel' = panel /\ pending' = pending /\ asks' = asks
  BY DEF TreeNow, MailInv, pageVars
<1>2. Following' = Following
  BY <1>1 DEF Following
<1>3. PageTyped' /\ LoadsInv' /\ OnlyDirs(changes', dirs')
  BY <1>1 DEF MailInv, PageTyped, LoadsInv
<1>4. \E r : Heard(mail', changes', pending'.kept, TreeNow', r)
  BY <1>1 DEF MailInv
<1>5. \E s : Shows(mail', changes', Following', Bare(panel'), TreeNow', trees', s)
  BY <1>1, <1>2 DEF MailInv
<1> QED
  BY <1>1, <1>3, <1>4, <1>5 DEF MailInv

\* Directories that are made for a drop are not announced yet.
LEMMA MailDropStart ==
  ASSUME TypeInv, TypeInv', MailInv, NEW p \in Drops, NEW v, DropStart(p, v), Beneath
  PROVE  MailInv'
<1> DEFINE rep == NewParents(p)
<1>1. PICK T, T2 : T = TreeNow /\ T2 = TreeNow' /\ T \in Trees /\ T2 \in Trees
                   /\ T2.files = nodes' /\ T2.dirs = dirs'
  BY TreeIs, TreeIsNext
<1>2. /\ nodes' = nodes /\ dirs' = dirs \cup Above(p) /\ changes' = changes \o rep
      /\ mail' = mail /\ loads' = loads
      /\ trees' = trees \cup {T2} /\ panel' = panel /\ pending' = pending /\ asks' = asks
  BY <1>1 DEF DropStart, Beside, Beneath
<1>3. p \in Names
  BY PathsAre
<1>4. /\ Explains(rep, T, T2)
      /\ \A i \in 1..Len(rep) : rep[i].op = "dir" /\ rep[i].path \in Above(p)
  <2>1. T2.files = nodes /\ T2.dirs = dirs \cup Above(p)
    BY <1>1, <1>2
  <2> QED
    BY <1>1, <1>3, <2>1, ParentsExplain
<1> HIDE DEF rep
<1>5. rep \in Seq(Reports)
  BY <1>4 DEF Explains
<1>6. mail \in Seq(Messages) /\ changes \in Seq(Reports) /\ OnlyDirs(changes, dirs)
  BY DEF MailInv, PageTyped
<1>7. PICK c : c = changes \o rep
  OBVIOUS
<1>8. c \in Seq(Reports)
  BY <1>5, <1>6, <1>7
<1>9. OnlyDirs(c, dirs')
  <2>1. Above(p) \subseteq DropDirs
    BY DEF DropDirs
  <2>2. SUFFICES ASSUME NEW i \in 1..Len(c) PROVE c[i].op = "dir" /\ c[i].path \in DropDirs \cap dirs'
    BY DEF OnlyDirs
  <2>3. \/ i \in 1..Len(changes) /\ c[i] = changes[i]
        \/ \E j \in 1..Len(rep) : c[i] = rep[j]
    <3>1. /\ \A j \in 1..Len(changes) : c[j] = changes[j]
          /\ \A j \in 1..Len(rep) : c[Len(changes) + j] = rep[j]
          /\ i \in 1..Len(changes) \/ (i - Len(changes) \in 1..Len(rep) /\ i = Len(changes) + (i - Len(changes)))
      BY <1>5, <1>6, <1>7, BothAre
    <3> QED
      BY <3>1
  <2> QED
    BY <1>2, <1>4, <1>6, <2>1, <2>3 DEF OnlyDirs
<1>10. PICK Q : Q = trees'
  OBVIOUS
<1>11. T2 \in Q /\ trees \subseteq Q
  BY <1>2, <1>10
<1>12. \E r : Heard(mail, c, pending.kept, T2, r)
  <2>1. PICK r : Heard(mail, changes, pending.kept, T, r)
    BY <1>1 DEF MailInv
  <2>2. Heard(mail, changes \o rep, pending.kept, T2, r)
    BY <1>4, <1>6, <2>1, HeardMore
  <2> QED
    BY <1>7, <2>2
<1>13. \E s : Shows(mail, c, Following, Bare(panel), T2, Q, s)
  <2>1. PICK s : Shows(mail, changes, Following, Bare(panel), T, trees, s)
    BY <1>1 DEF MailInv
  <2>2. Shows(mail, changes \o rep, Following, Bare(panel), T2, Q, s)
    BY <1>1, <1>4, <1>6, <1>11, <2>1, ShowsMore
  <2> QED
    BY <1>7, <2>2
<1>14. Following' = Following
  BY <1>2 DEF Following
<1>15. PageTyped' /\ LoadsInv'
  BY <1>2, <1>7, <1>8 DEF MailInv, PageTyped, LoadsInv
<1>16. \E r : Heard(mail', changes', pending'.kept, TreeNow', r)
  BY <1>1, <1>2, <1>7, <1>12
<1>17. \E s : Shows(mail', changes', Following', Bare(panel'), TreeNow', trees', s)
  BY <1>1, <1>2, <1>7, <1>10, <1>13, <1>14
<1> QED
  BY <1>1, <1>2, <1>7, <1>9, <1>10, <1>11, <1>15, <1>16, <1>17 DEF MailInv

\* What was dropped is in the tree, and announced.
LEMMA DropReported ==
  ASSUME TypeInv, TypeInv', NamesInv, DropFinish
  PROVE  Reported
<1> DEFINE p == drop.path  n == Len(drop.bytes)
<1>1. /\ drop # NoDrop /\ nodes' = Put(nodes, p, n) /\ dirs' = dirs /\ Announce(<<FileReport(p, n)>>)
  BY DEF DropFinish, NoDrop
<1>2. p \in Drops /\ Above(p) \subseteq dirs
  BY <1>1 DEF TypeInv, DropTyped, NamesInv
<1>3. p \in Names
  BY <1>2, PathsAre
<1> HIDE DEF p, n
<1>4. PICK T, T2 : /\ T = TreeNow /\ T.files = nodes /\ T.dirs = dirs
                   /\ T2 = TreeNow' /\ T2.files = nodes' /\ T2.dirs = dirs'
  BY TreeIs, TreeIsNext
<1>5. n \in 0..(MaxChanges + 1)
  <2>1. p \in DOMAIN nodes' /\ nodes'[p] = n
    BY <1>1 DEF Put
  <2> QED
    BY <2>1, TreeIsNext
<1>6. Explains(<<FileReport(p, n)>>, T, T2)
  <2>1. T2.files = Put(T.files, p, n) /\ T2.dirs = T.dirs /\ Above(p) \subseteq T.dirs
    BY <1>1, <1>2, <1>4
  <2> QED
    BY <1>3, <1>5, <2>1, FileExplains
<1>7. Spares(<<FileReport(p, n)>>)
  BY DEF Spares, FileReport
<1> QED
  BY <1>1, <1>4, <1>6, <1>7 DEF Reported

\* A drop.
LEMMA MailDrops ==
  ASSUME TypeInv, TypeInv', NamesInv, MailInv, Dropping, Beneath
  PROVE  MailInv'
<1>1. CASE \E p \in Drops, v \in Values : DropStart(p, v)
  BY <1>1, MailDropStart
<1>2. CASE DropCreate \/ DropWrite
  <2>1. /\ nodes' = nodes /\ dirs' = dirs /\ UNCHANGED pageVars
        /\ UNCHANGED <<panel, pending, asks>> /\ trees' = trees \cup {TreeNow'}
    BY <1>2 DEF DropCreate, DropWrite, Beside, Beneath, pageVars, treeVars
  <2> QED
    BY <2>1, MailStill
<1>3. CASE DropFinish
  <2>1. loads' = loads
    BY <1>3 DEF DropFinish, Beside
  <2> QED
    BY <1>3, <2>1, DropReported, MailReported
<1> QED
  BY <1>1, <1>2, <1>3 DEF Dropping

\* The page asks for the tree.
LEMMA MailLoad ==
  ASSUME MailInv, Load
  PROVE  MailInv'
<1>1. /\ nodes' = nodes /\ dirs' = dirs /\ changes' = changes /\ mail' = mail
      /\ loads' = loads + 1 /\ asks' = asks + 1 /\ asks < MaxLoads /\ ~pending.loading
      /\ panel' = panel /\ trees' = trees
  BY DEF Load, fsVars, treeVars
<1>2. pending'.loading = TRUE /\ pending'.kept = <<>> /\ pending.kept = <<>>
  BY <1>1 DEF Load, Loading, MailInv, PageTyped
<1>3. TreeNow' = TreeNow
  BY <1>1 DEF TreeNow
<1>4. loads = 0 /\ Unanswered(mail)
  BY <1>1 DEF MailInv, LoadsInv
<1>5. PageTyped' /\ LoadsInv'
  <2>1. asks' \in 0..MaxLoads
    BY <1>1, FilePanelAssumption DEF MailInv, PageTyped
  <2>2. LoadsInv'
    BY <1>1, <1>2, <1>4 DEF LoadsInv
  <2>3. <<>> \in Seq(Reports)
    OBVIOUS
  <2>4. PageTyped'
    BY <1>1, <1>2, <2>1, <2>3 DEF MailInv, PageTyped
  <2> QED
    BY <2>2, <2>4
<1>6. \E r : Heard(mail', changes', pending'.kept, TreeNow', r)
  BY <1>1, <1>2, <1>3 DEF MailInv
<1>7. Following' = FALSE
  BY <1>2 DEF Following
<1>8. PICK s : Shows(mail, changes, Following, Bare(panel), TreeNow, trees, s)
  BY DEF MailInv
<1>9. ASSUME NEW n \in 0..Len(mail) PROVE ~Known(mail, FALSE, n)
  <2>1. Len(mail) \in Nat
    BY DEF MailInv, PageTyped
  <2>2. \A k \in 1..n : k \in 1..Len(mail)
    BY <2>1
  <2> QED
    BY <1>4, <2>2 DEF Known, Unanswered
<1>10. Shows(mail, changes, FALSE, Bare(panel), TreeNow, trees, s)
  <2>1. Len(mail) \in 0..Len(mail)
    BY DEF MailInv, PageTyped
  <2> QED
    BY <1>8, <1>9, <2>1 DEF Shows
<1>11. \E x : Shows(mail', changes', Following', Bare(panel'), TreeNow', trees', x)
  BY <1>1, <1>3, <1>7, <1>10
<1> QED
  BY <1>1, <1>3, <1>5, <1>6, <1>11 DEF MailInv

\* With a message less.
LEMMA RootedBefore ==
  ASSUME NEW m \in Seq(Messages), m # <<>>, Rooted(m)
  PROVE  Rooted(Tail(m)) /\ (m[1].type = "answer" => <<>> \in m[1].dirs)
<1> DEFINE k == Len(m) - 1  a == Tail(m)
<1>1. k \in Nat /\ Len(m) = k + 1 /\ Len(a) = k /\ \A n \in 1..k : a[n] = m[n + 1]
  BY Shorter
<1> HIDE DEF k, a
<1>2. (\A n \in 1..k : n + 1 \in 1..(k + 1)) /\ 1 \in 1..(k + 1)
  BY <1>1
<1> QED
  BY <1>1, <1>2 DEF Rooted, a

\* The end of what was reported.
EndsIn(s, end) == \E g \in Seq(Reports) : s = g \o end

\* What the first message brings, with what was heard before.
LEMMA HeardFirst ==
  ASSUME NEW m \in Seq(Messages), m # <<>>, NEW c, NEW kept \in Seq(Reports), NEW T, NEW r,
         Heard(m, c, kept, T, r), m[1].type = "changed"
  PROVE  EndsIn(r[1], <<>>) /\ EndsIn(r[1], kept \o m[1].changes)
<1>1. /\ Len(m) \in Nat /\ Len(m) >= 1 /\ m[1] \in Messages
      /\ 1 \in 1..Len(m) /\ 1 \in 0..Len(m) /\ 1 - 1 = 0
  BY Shorter
<1>2. r[1] \in Seq(Reports) /\ r[1] = r[0] \o Words(m[1])
  BY <1>1 DEF Heard
<1>3. PICK w : w = m[1].changes /\ w \in Seq(Reports) /\ Words(m[1]) = w
  BY <1>1, MessageIs DEF Words
<1>4. PICK g \in Seq(Reports) : r[0] = g \o kept
  BY DEF Heard
<1>5. (g \o kept) \o w = g \o (kept \o w)
  <2>1. PICK E : E = Reports
    OBVIOUS
  <2>2. g \in Seq(E) /\ kept \in Seq(E) /\ w \in Seq(E)
    BY <1>3, <2>1
  <2> QED
    BY <2>2, Together
<1>6. r[1] = g \o (kept \o w)
  BY <1>2, <1>3, <1>4, <1>5
<1>7. r[1] = r[1] \o <<>>
  BY <1>2, Together
<1> QED
  BY <1>2, <1>3, <1>6, <1>7 DEF EndsIn

\* Changes taken up, or kept.
LEMMA MailApply ==
  ASSUME MailInv, Apply
  PROVE  MailInv'
<1>1. PICK w : w = Head(mail).changes
  OBVIOUS
<1>2. /\ nodes' = nodes /\ dirs' = dirs /\ changes' = changes /\ loads' = loads /\ asks' = asks
      /\ trees' = trees /\ mail # <<>> /\ Head(mail).type = "changed" /\ mail' = Tail(mail)
  BY DEF Apply, fsVars, treeVars
<1>3. \/ pending.loading /\ pending'.loading = TRUE /\ pending'.kept = pending.kept \o w /\ panel' = panel
      \/ ~pending.loading /\ panel' = TakeAll(panel, w) /\ pending' = pending
  <2>1. IF pending.loading THEN pending' = Loading(pending.kept \o w) /\ panel' = panel
        ELSE panel' = TakeAll(panel, w) /\ pending' = pending
    BY <1>1 DEF Apply
  <2>2. \A k : Loading(k).loading = TRUE /\ Loading(k).kept = k
    BY DEF Loading
  <2>3. CASE pending.loading
    BY <2>1, <2>2, <2>3
  <2>4. CASE ~pending.loading
    BY <2>1, <2>4
  <2> QED
    BY <2>3, <2>4
<1>4. /\ mail \in Seq(Messages) /\ pending.kept \in Seq(Reports) /\ changes \in Seq(Reports)
      /\ pending.loading \in BOOLEAN /\ (~pending.loading => pending.kept = <<>>)
      /\ Shown(panel) /\ Rooted(mail) /\ asks \in 0..MaxLoads
  BY DEF MailInv, PageTyped
<1>5. TreeNow' = TreeNow
  BY <1>2 DEF TreeNow
<1>6. /\ Tail(mail) \in Seq(Messages) /\ mail[1] \in Messages /\ mail[1] = Head(mail)
      /\ Len(mail) \in Nat /\ 1 \in 1..Len(mail) /\ 0 \in 0..Len(mail) /\ 1 - 1 = 0
  BY <1>2, <1>4, Shorter
<1>7. w \in Seq(Reports) /\ mail[1].type = "changed" /\ w = mail[1].changes
  BY <1>1, <1>2, <1>6, MessageIs
<1>8. /\ Bare(TakeAll(panel, w)) = TakeAll(Bare(panel), w)
      /\ Shown(TakeAll(panel, w)) /\ TakeAll(panel, w).loaded = panel.loaded
  BY <1>4, <1>7, TakeAllShown
<1>9. pending'.loading = pending.loading /\ panel'.loaded = panel.loaded /\ Shown(panel')
  BY <1>3, <1>4, <1>8
<1>10. Following' = Following
  BY <1>9 DEF Following
<1>11. pending'.kept \in Seq(Reports) /\ (~pending'.loading => pending'.kept = <<>>)
  <2>1. pending.kept \o w \in Seq(Reports)
    BY <1>4, <1>7, Together
  <2> QED
    BY <1>3, <1>4, <2>1
<1>12. PageTyped'
  BY <1>2, <1>4, <1>6, <1>9, <1>11, RootedBefore DEF PageTyped
<1>13. LoadsInv'
  <2>1. /\ Unanswered(mail) => Unanswered(Tail(mail))
        /\ AnsweredOnce(mail) => AnsweredOnce(Tail(mail))
    BY <1>2, <1>4, <1>7, AnswersBefore
  <2> QED
    BY <1>2, <1>9, <2>1 DEF LoadsInv, MailInv
<1>14. \E r : Heard(mail', changes', pending'.kept, TreeNow', r)
  <2>1. PICK r : Heard(mail, changes, pending.kept, TreeNow, r)
    BY DEF MailInv
  <2>2. \E g \in Seq(Reports) : r[1] = g \o pending'.kept
    <3>1. PICK kept : kept = pending.kept /\ kept \in Seq(Reports)
      BY <1>4
    <3>2. Heard(mail, changes, kept, TreeNow, r)
      BY <2>1, <3>1
    <3>3. EndsIn(r[1], <<>>) /\ EndsIn(r[1], kept \o w)
      <4>1. mail[1].type = "changed"
        BY <1>7
      <4>2. EndsIn(r[1], <<>>) /\ EndsIn(r[1], kept \o mail[1].changes)
        BY <1>2, <1>4, <3>1, <3>2, <4>1, HeardFirst
      <4> QED
        BY <1>7, <4>2
    <3>4. pending'.kept = kept \o w \/ pending'.kept = <<>>
      BY <1>3, <1>4, <3>1
    <3> QED
      BY <3>3, <3>4 DEF EndsIn
  <2>3. \E r2 : Heard(Tail(mail), changes, pending'.kept, TreeNow, r2)
    BY <1>2, <1>4, <2>1, <2>2, HeardTail
  <2> QED
    BY <1>2, <1>5, <2>3
<1>15. \E s : Shows(mail', changes', Following', Bare(panel'), TreeNow', trees', s)
  <2>1. PICK s : Shows(mail, changes, Following, Bare(panel), TreeNow, trees, s)
    BY DEF MailInv
  <2>2. ASSUME Following PROVE Known(mail, Following, 1) /\ s[1] = Bare(panel')
    <3>1. s[0] = Bare(panel) /\ s[1] = Heed(s[0], mail[1])
      BY <1>6, <2>1, <2>2 DEF Shows
    <3>2. Heed(s[0], mail[1]) = TakeAll(s[0], w)
      BY <1>7 DEF Heed
    <3>3. panel' = TakeAll(panel, w)
      BY <1>3, <2>2 DEF Following
    <3> QED
      BY <1>8, <2>2, <3>1, <3>2, <3>3 DEF Known
  <2>3. PICK known, start : known = Following /\ start = Bare(panel')
    OBVIOUS
  <2>4. \E s2 : Shows(Tail(mail), changes, known, start, TreeNow, trees, s2)
    BY <1>2, <1>4, <2>1, <2>2, <2>3, ShowsTail
  <2> QED
    BY <1>2, <1>5, <1>10, <2>3, <2>4
<1> QED
  BY <1>2, <1>5, <1>12, <1>13, <1>14, <1>15 DEF MailInv

\* The answer is taken, and over it what was kept: nothing of that is news to it.
LEMMA KeptIsOld ==
  ASSUME NEW m \in Seq(Messages), m # <<>>, NEW c, NEW kept \in Seq(Reports), NEW T, NEW r,
         Heard(m, c, kept, T, r), m[1].type = "answer"
  PROVE  TakeAll(Bare(m[1]), kept) = Bare(m[1])
<1>1. /\ Len(m) \in Nat /\ Len(m) >= 1 /\ m[1] \in Messages
      /\ 1 \in 1..Len(m) /\ 1 - 1 = 0
  BY Shorter
<1>2. PICK X : X = Bare(m[1]) /\ X \in Trees
  BY <1>1, MessageIs
<1>3. Told(r[0], X)
  BY <1>1, <1>2 DEF Heard
<1>4. PICK g \in Seq(Reports) : r[0] = g \o kept
  BY DEF Heard
<1>5. Told(kept, X)
  BY <1>3, <1>4, ToldEnd
<1>6. Near(X, kept, 0, X)
  BY DEF Near
<1>7. IsTree(X)
  BY <1>2, TreesAre
<1> QED
  BY <1>2, <1>5, <1>6, <1>7, Replay

\* The page is told the tree.
LEMMA MailTake ==
  ASSUME MailInv, TakeTree
  PROVE  MailInv'
<1>1. PICK m, kept : m = mail /\ kept = pending.kept
  OBVIOUS
<1>2. /\ nodes' = nodes /\ dirs' = dirs /\ changes' = changes /\ loads' = loads /\ asks' = asks
      /\ trees' = trees /\ m # <<>> /\ Head(m).type = "answer" /\ mail' = Tail(m)
  BY <1>1 DEF TakeTree, fsVars, treeVars
<1>3. pending'.loading = FALSE /\ pending'.kept = <<>>
  BY DEF TakeTree, NotLoading
<1>4. m \in Seq(Messages) /\ kept \in Seq(Reports) /\ Rooted(m) /\ asks \in 0..MaxLoads
  BY <1>1 DEF MailInv, PageTyped
<1>5. TreeNow' = TreeNow
  BY <1>2 DEF TreeNow
<1>6. /\ Tail(m) \in Seq(Messages) /\ m[1] \in Messages /\ m[1] = Head(m)
      /\ Len(m) \in Nat /\ 1 \in 1..Len(m) /\ 0 \in 0..Len(m) /\ 1 - 1 = 0
  BY <1>2, <1>4, Shorter
<1>7. PICK a : a = m[1] /\ a \in Messages /\ a.type = "answer" /\ <<>> \in a.dirs /\ Bare(a) \in Trees
  BY <1>2, <1>4, <1>6, MessageIs, RootedBefore
<1>8. PICK L : L = [files |-> a.files, dirs |-> a.dirs \cup {<<>>}, loaded |-> TRUE]
  OBVIOUS
<1>9. panel' = TakeAll(L, kept)
  BY <1>1, <1>6, <1>7, <1>8 DEF TakeTree
<1>10. L.files = a.files /\ L.dirs = a.dirs /\ L.loaded = TRUE /\ Bare(L) = Bare(a)
  <2>1. a.dirs \cup {<<>>} = a.dirs
    BY <1>7
  <2> QED
    BY <1>8, <2>1 DEF Bare
<1>11. Shown(L)
  <2>1. L = [files |-> L.files, dirs |-> L.dirs, loaded |-> L.loaded]
    BY <1>8
  <2> QED
    BY <1>7, <1>10, <2>1 DEF Shown
<1>12. Bare(panel') = TakeAll(Bare(L), kept) /\ Shown(panel') /\ panel'.loaded = TRUE
  BY <1>4, <1>9, <1>10, <1>11, TakeAllShown
<1>13. PICK r : Heard(m, changes, kept, TreeNow, r)
  BY <1>1 DEF MailInv
<1>14. Bare(panel') = Bare(a)
  <2>1. TakeAll(Bare(m[1]), kept) = Bare(m[1])
    BY <1>2, <1>4, <1>6, <1>7, <1>13, KeptIsOld
  <2> QED
    BY <1>7, <1>10, <1>12, <2>1
<1>15. Following' = TRUE
  BY <1>3, <1>12 DEF Following
<1>16. LoadsInv'
  <2>1. ~Unanswered(m)
    BY <1>6, <1>7 DEF Unanswered
  <2>2. loads = 0 /\ AnsweredOnce(m)
    BY <1>1, <2>1 DEF MailInv, LoadsInv
  <2>3. Unanswered(Tail(m))
    BY <1>2, <1>4, <1>7, <2>2, AnswersBefore
  <2> QED
    BY <1>2, <1>3, <2>2, <2>3 DEF LoadsInv
<1>17. PageTyped'
  <2>1. Rooted(Tail(m))
    BY <1>2, <1>4, RootedBefore
  <2>2. <<>> \in Seq(Reports) /\ changes \in Seq(Reports)
    BY DEF MailInv, PageTyped
  <2> QED
    BY <1>2, <1>3, <1>4, <1>6, <1>12, <2>1, <2>2 DEF PageTyped
<1>18. \E x : Heard(mail', changes', pending'.kept, TreeNow', x)
  <2>1. \E g \in Seq(Reports) : r[1] = g \o <<>>
    <3>1. r[1] \in Seq(Reports)
      <4>1. 1 \in 0..Len(m)
        BY <1>6
      <4> QED
        BY <1>13, <4>1 DEF Heard
    <3>2. r[1] = r[1] \o <<>>
      BY <3>1, Together
    <3> QED
      BY <3>1, <3>2
  <2>2. \E r2 : Heard(Tail(m), changes, <<>>, TreeNow, r2)
    BY <1>2, <1>4, <1>13, <2>1, HeardTail
  <2> QED
    BY <1>2, <1>3, <1>5, <2>2
<1>19. \E x : Shows(mail', changes', Following', Bare(panel'), TreeNow', trees', x)
  <2>1. PICK s : Shows(m, changes, Following, Bare(panel), TreeNow, trees, s)
    BY <1>1 DEF MailInv
  <2>2. PICK start : start = Bare(panel')
    OBVIOUS
  <2>3. Known(m, Following, 1) /\ s[1] = start
    <3>1. s[1] = Heed(s[0], m[1])
      BY <1>6, <2>1 DEF Shows
    <3>2. s[1] = Bare(a)
      BY <1>7, <3>1 DEF Heed
    <3>3. 1 \in 1..1
      OBVIOUS
    <3> QED
      BY <1>7, <1>14, <2>2, <3>2, <3>3 DEF Known
  <2>4. \E s2 : Shows(Tail(m), changes, TRUE, start, TreeNow, trees, s2)
    BY <1>2, <1>4, <2>1, <2>3, ShowsTail
  <2> QED
    BY <1>2, <1>5, <1>15, <2>2, <2>4
<1>20. TreeNow \in trees /\ OnlyDirs(changes, dirs)
  BY DEF MailInv
<1> QED
  BY <1>2, <1>5, <1>16, <1>17, <1>18, <1>19, <1>20 DEF MailInv

\* Nothing is heard at first, and nothing shown.
LEMMA Silence ==
  ASSUME NEW T \in Trees, NEW Q, NEW start
  PROVE  (\E r : Heard(<<>>, <<>>, <<>>, T, r)) /\ \E s : Shows(<<>>, <<>>, FALSE, start, T, Q, s)
<1>1. /\ Len(<<>>) = 0 /\ 0..0 = {0} /\ 1..0 = {} /\ <<>> \in Seq(Reports) /\ <<>> \o <<>> = <<>>
  OBVIOUS
<1>2. Heard(<<>>, <<>>, <<>>, T, [n \in 0..0 |-> <<>>])
  <2> DEFINE r == [n \in 0..0 |-> <<>>]
  <2>1. r \in [0..0 -> Seq(Reports)] /\ r[0] = <<>>
    BY <1>1
  <2> HIDE DEF r
  <2>2. Told(<<>>, T) /\ Spares(<<>>)
    BY NothingTold DEF Spares
  <2>3. \E g \in Seq(Reports) : r[0] = g \o <<>>
    BY <1>1, <2>1
  <2>4. Heard(<<>>, <<>>, <<>>, T, r)
    BY <1>1, <2>1, <2>2, <2>3 DEF Heard
  <2> QED
    BY <2>4 DEF r
<1>3. Shows(<<>>, <<>>, FALSE, start, T, Q, [n \in 0..0 |-> T])
  <2>1. \A n \in 0..0 : ~Known(<<>>, FALSE, n)
    BY <1>1 DEF Known
  <2> QED
    BY <1>1, <2>1 DEF Shows
<1> QED
  BY <1>2, <1>3

\* The panel at first.
LEMMA EmptyIsShown ==
         /\ Shown(EmptyPanel) /\ EmptyPanel.loaded = FALSE
         /\ NotLoading.loading = FALSE /\ NotLoading.kept = <<>>
<1>1. EmptyPanel.files \in Sizes
  <2>1. DOMAIN EmptyPanel.files = {} /\ EmptyPanel.files \in [{} -> 0..(MaxChanges + 1)]
    BY DEF EmptyPanel
  <2> QED
    BY <2>1, TreesAre
<1>2. {<<>>} \subseteq Paths
  BY DEF Paths
<1>3. Bare(EmptyPanel) \in Trees
  BY <1>1, <1>2, TreesAre DEF Bare, EmptyPanel
<1> QED
  BY <1>3 DEF Shown, EmptyPanel, NotLoading

\* At first.
LEMMA MailInit ==
  ASSUME PanelInit, TypeInv
  PROVE  MailInv
<1>1. /\ panel = EmptyPanel /\ pending = NotLoading /\ asks = 0 /\ trees = {TreeNow}
      /\ changes = <<>> /\ loads = 0 /\ mail = <<>>
  BY DEF PanelInit, Init
<1>2. TreeNow \in Trees
  BY TreeIs
<1>3. Following = FALSE /\ pending.kept = <<>>
  BY <1>1, EmptyIsShown DEF Following
<1>4. PageTyped
  <2>1. <<>> \in Seq(Messages) /\ <<>> \in Seq(Reports) /\ Rooted(<<>>)
    BY DEF Rooted
  <2>2. asks \in 0..MaxLoads
    BY <1>1, FilePanelAssumption
  <2> QED
    BY <1>1, <1>3, <2>1, <2>2, EmptyIsShown DEF PageTyped
<1>5. LoadsInv /\ OnlyDirs(changes, dirs)
  BY <1>1, EmptyIsShown DEF LoadsInv, Unanswered, OnlyDirs
<1>6. \E r : Heard(mail, changes, pending.kept, TreeNow, r)
  BY <1>1, <1>2, <1>3, Silence
<1>7. \E s : Shows(mail, changes, Following, Bare(panel), TreeNow, trees, s)
  BY <1>1, <1>2, <1>3, Silence
<1> QED
  BY <1>1, <1>4, <1>5, <1>6, <1>7 DEF MailInv

\* A reload.
LEMMA MailReload ==
  ASSUME TypeInv', MailInv, Reload
  PROVE  MailInv'
<1>1. /\ panel' = EmptyPanel /\ pending' = NotLoading /\ asks' = asks /\ trees' = {TreeNow'}
      /\ changes' = <<>> /\ loads' = 0 /\ mail' = <<>>
  BY DEF Reload, Crash
<1>2. PICK T : T = TreeNow' /\ T \in Trees
  BY TreeIsNext
<1>3. Following' = FALSE /\ pending'.kept = <<>>
  BY <1>1, EmptyIsShown DEF Following
<1>4. PageTyped'
  <2>1. <<>> \in Seq(Messages) /\ <<>> \in Seq(Reports) /\ Rooted(<<>>)
    BY DEF Rooted
  <2>2. asks' \in 0..MaxLoads
    BY <1>1 DEF MailInv, PageTyped
  <2> QED
    BY <1>1, <1>3, <2>1, <2>2, EmptyIsShown DEF PageTyped
<1>5. LoadsInv' /\ OnlyDirs(changes', dirs')
  BY <1>1, EmptyIsShown DEF LoadsInv, Unanswered, OnlyDirs
<1>6. \E r : Heard(mail', changes', pending'.kept, TreeNow', r)
  BY <1>1, <1>2, <1>3, Silence
<1>7. \E s : Shows(mail', changes', Following', Bare(panel'), TreeNow', trees', s)
  <2>1. PICK Q, start : Q = trees' /\ start = Bare(panel')
    OBVIOUS
  <2>2. \E s : Shows(<<>>, <<>>, FALSE, start, T, Q, s)
    BY <1>2, Silence
  <2> QED
    BY <1>1, <1>2, <1>3, <2>1, <2>2
<1> QED
  BY <1>1, <1>4, <1>5, <1>6, <1>7 DEF MailInv

\* A message put at the end.
LEMMA OneMore ==
  ASSUME NEW E, NEW m \in Seq(E), NEW x \in E
  PROVE  m \o <<x>> = Append(m, x) /\ m \o <<>> = m /\ Append(m, x) \in Seq(E)
OBVIOUS

\* The tree is sent, and behind it what was not announced yet.
LEMMA MailList ==
  ASSUME TypeInv, MailInv, ListTree, Beneath
  PROVE  MailInv'
<1>1. PICK T, m, c, kept : T = TreeNow /\ m = mail /\ c = changes /\ kept = pending.kept
  OBVIOUS
<1>2. T \in Trees /\ T.files = nodes /\ T.dirs = dirs /\ <<>> \in dirs
  BY <1>1, TreeIs
<1>3. PICK answer, rest : /\ answer = [type |-> "answer", files |-> T.files, dirs |-> T.dirs]
                          /\ rest = [type |-> "changed", changes |-> c]
  OBVIOUS
<1>4. /\ nodes' = nodes /\ dirs' = dirs /\ changes' = <<>> /\ loads > 0 /\ loads' = loads - 1
      /\ mail' = (m \o <<answer>>) \o (IF c = <<>> THEN <<>> ELSE <<rest>>)
      /\ panel' = panel /\ pending' = pending /\ asks' = asks /\ trees' = trees \cup {TreeNow'}
  BY <1>1, <1>2, <1>3 DEF ListTree, Beneath, treeVars
<1>5. TreeNow' = T /\ trees' = trees /\ T \in trees
  <2>1. TreeNow' = TreeNow
    BY <1>4 DEF TreeNow
  <2> QED
    BY <1>1, <1>4, <2>1 DEF MailInv
<1>6. /\ m \in Seq(Messages) /\ c \in Seq(Reports) /\ Rooted(m) /\ OnlyDirs(c, T.dirs)
      /\ kept \in Seq(Reports) /\ asks \in 0..MaxLoads /\ Shown(panel)
      /\ pending.loading \in BOOLEAN /\ (~pending.loading => kept = <<>>)
  BY <1>1, <1>2 DEF MailInv, PageTyped
<1>7. /\ answer \in Messages /\ answer.type = "answer" /\ answer.dirs = dirs
      /\ rest \in Messages /\ rest.type = "changed"
  <2>1. answer \in Messages
    BY <1>2, <1>3, AnswerIs
  <2>2. rest \in Messages
    BY <1>3, <1>6 DEF Messages
  <2> QED
    BY <1>2, <1>3, <2>1, <2>2
<1>8. PICK m1 : m1 = Append(m, answer)
  OBVIOUS
<1>9. m1 \in Seq(Messages) /\ mail' = IF c = <<>> THEN m1 ELSE Append(m1, rest)
  <2>1. m \o <<answer>> = m1 /\ m1 \in Seq(Messages)
    BY <1>6, <1>7, <1>8, OneMore
  <2>2. m1 \o <<>> = m1 /\ m1 \o <<rest>> = Append(m1, rest)
    BY <1>7, <2>1, OneMore
  <2> QED
    BY <1>4, <2>1, <2>2
<1>10. mail' \in Seq(Messages) /\ Rooted(mail')
  <2>1. Rooted(m1)
    BY <1>2, <1>6, <1>7, <1>8, RootedAfter
  <2>2. Rooted(Append(m1, rest)) /\ Append(m1, rest) \in Seq(Messages)
    BY <1>7, <1>9, <2>1, RootedAfter, OneMore
  <2> QED
    BY <1>9, <2>1, <2>2
<1>11. pending.loading /\ loads = 1 /\ Unanswered(m)
  BY <1>1, <1>4 DEF MailInv, LoadsInv
<1>12. LoadsInv'
  <2>1. AnsweredOnce(m1)
    BY <1>6, <1>7, <1>8, <1>11, AnswersAfter
  <2>2. AnsweredOnce(Append(m1, rest))
    BY <1>7, <1>9, <2>1, AnswersAfter
  <2> QED
    <3>1. AnsweredOnce(mail') /\ loads' = 0 /\ pending'.loading
      <4>1. AnsweredOnce(mail')
        BY <1>9, <2>1, <2>2, Zenon
      <4>2. loads' = 0
        BY <1>4, <1>11
      <4>3. pending'.loading
        BY <1>4, <1>11
      <4> QED
        BY <4>1, <4>2, <4>3
    <3> QED
      BY <3>1 DEF LoadsInv
<1>13. PageTyped' /\ OnlyDirs(changes', dirs')
  <2>1. <<>> \in Seq(Reports) /\ OnlyDirs(<<>>, dirs')
    BY DEF OnlyDirs
  <2> QED
    BY <1>1, <1>4, <1>6, <1>10, <2>1 DEF PageTyped
<1>14. PICK r : Heard(m, c, kept, T, r)
  BY <1>1 DEF MailInv
<1>15. Spares(c) /\ Told(c, T)
  <2>1. Spares(c)
    BY <1>6 DEF Spares, OnlyDirs
  <2>2. Len(m) \in 0..Len(m)
    BY <1>6
  <2>3. r[Len(m)] \in Seq(Reports) /\ Told(r[Len(m)] \o c, T)
    BY <1>14, <2>2 DEF Heard
  <2> QED
    BY <1>6, <2>1, <2>3, ToldEnd
<1>16. \E x : Heard(mail', <<>>, kept, T, x)
  <2>1. PICK r1 : Heard(m1, c, kept, T, r1)
    BY <1>2, <1>3, <1>6, <1>8, <1>14, HeardAnswer
  <2>2. \E r2 : Heard(Append(m1, rest), <<>>, kept, T, r2)
    BY <1>3, <1>6, <1>9, <1>15, <2>1, HeardSend
  <2>3. CASE c = <<>>
    BY <1>9, <2>1, <2>3
  <2>4. CASE c # <<>>
    BY <1>9, <2>2, <2>4
  <2> QED
    BY <2>3, <2>4
<1>17. PICK known, start, Q : known = Following /\ start = Bare(panel) /\ Q = trees
  OBVIOUS
<1>18. \E x : Shows(mail', <<>>, known, start, T, Q, x)
  <2>1. PICK s : Shows(m, c, known, start, T, Q, s)
    BY <1>1, <1>17 DEF MailInv
  <2>2. PICK s1 : Shows(m1, c, known, start, T, Q, s1)
    BY <1>2, <1>3, <1>5, <1>6, <1>8, <1>15, <1>17, <2>1, ShowsAnswer
  <2>3. \E s2 : Shows(Append(m1, rest), <<>>, known, start, T, Q, s2)
    BY <1>3, <1>5, <1>6, <1>9, <1>17, <2>2, ShowsSend
  <2>4. CASE c = <<>>
    BY <1>9, <2>2, <2>4
  <2>5. CASE c # <<>>
    BY <1>9, <2>3, <2>5
  <2> QED
    BY <2>4, <2>5
<1>19. Following' = known
  BY <1>4, <1>17 DEF Following
<1>20. \E x : Heard(mail', changes', pending'.kept, TreeNow', x)
  BY <1>1, <1>4, <1>5, <1>16
<1>21. \E x : Shows(mail', changes', Following', Bare(panel'), TreeNow', trees', x)
  BY <1>4, <1>5, <1>17, <1>18, <1>19
<1> QED
  BY <1>5, <1>12, <1>13, <1>20, <1>21 DEF MailInv

-----------------------------------------------------------------------------
(* Every step, and what follows.                                           *)

\* A change asks the page nothing.
LEMMA ChangingIs ==
  ASSUME Changing
  PROVE  loads' = loads
BY DEF Changing, Write, AppendTo, Delete, MakeDir, RemoveDir, Copy, Rename, Noted

\* A step that leaves the files alone.
LEMMA NamesStill ==
  ASSUME NamesInv, UNCHANGED <<treeVars, diskVars, drop>>
  PROVE  NamesInv'
<1>1. nodes' = nodes /\ dirs' = dirs /\ disk' = disk /\ chain' = chain /\ drop' = drop
  BY DEF treeVars, diskVars
<1>2. QueueInv'
  BY <1>1 DEF NamesInv, QueueInv
<1> QED
  BY <1>1, <1>2 DEF NamesInv

\* A step of the scripts or of the queue.
LEMMA PanelFs ==
  ASSUME TypeInv, TypeInv', NamesInv, MailInv, NamesApart, DropsApart, FsStep
  PROVE  NamesInv' /\ MailInv'
<1>1. Beneath /\ (Changing \/ Reading \/ MakeFile \/ CommitFirst \/ Commit)
  BY DEF FsStep, Next, Scripts, Changing, Reading
<1>2. CASE Changing
  <2>1. Reported
    BY <1>2, ChangesHeard DEF Changing, NamesInv
  <2>2. NamesInv'
    BY <1>2, NamesChanges DEF Changing
  <2>3. MailInv'
    BY <1>1, <1>2, <2>1, ChangingIs, MailReported
  <2> QED
    BY <2>2, <2>3
<1>3. CASE Reading
  <2>1. UNCHANGED <<treeVars, diskVars, drop, pageVars>>
    BY <1>3 DEF Reading, EndRead, ReadNow, BeginRead, StillTheSame
  <2>2. nodes' = nodes /\ dirs' = dirs /\ UNCHANGED <<panel, pending, asks>> /\ trees' = trees \cup {TreeNow'}
    BY <1>1, <2>1 DEF Beneath, treeVars
  <2>3. MailInv'
    BY <2>1, <2>2, MailStill
  <2> QED
    BY <2>1, <2>3, NamesStill
<1>4. CASE MakeFile \/ CommitFirst \/ Commit
  <2>1. UNCHANGED <<treeVars, pageVars>>
    BY <1>4 DEF MakeFile, CommitFirst, Commit, QueueKept
  <2>2. nodes' = nodes /\ dirs' = dirs /\ UNCHANGED <<panel, pending, asks>> /\ trees' = trees \cup {TreeNow'}
    BY <1>1, <2>1 DEF Beneath, treeVars
  <2>3. MailInv'
    BY <2>1, <2>2, MailStill
  <2> QED
    BY <1>4, <2>3, NamesQueue
<1> QED
  BY <1>1, <1>2, <1>3, <1>4

\* Every step.
PanelInv == TypeInv /\ NamesInv /\ MailInv

\* The types.
LEMMA PanelTyped ==
  ASSUME TypeInv, PanelNext
  PROVE  TypeInv'
<1>1. CASE FsStep
  BY <1>1, TypeNext DEF FsStep
<1>2. CASE DropStep
  BY <1>2, DropsStayTyped DEF DropStep
<1>3. CASE ListStep
  BY <1>3, ListStaysTyped DEF ListStep
<1>4. CASE Load \/ Apply \/ TakeTree
  <2>1. UNCHANGED <<treeVars, diskVars, reads, drop, reply, done, browser, past>> /\ (loads' = loads + 1 \/ loads' = loads)
    BY <1>4 DEF Load, Apply, TakeTree, fsVars
  <2> QED
    BY <2>1, ListStaysTyped
<1>5. CASE Reload
  BY <1>5, CrashTyped DEF Reload
<1> QED
  BY <1>1, <1>2, <1>3, <1>4, <1>5 DEF PanelNext

\* All of it.
LEMMA PanelSteps ==
  ASSUME PanelInv, PanelNext, NamesApart, DropsApart
  PROVE  PanelInv'
<1>1. TypeInv /\ NamesInv /\ MailInv /\ TypeInv'
  BY PanelTyped DEF PanelInv
<1>2. CASE FsStep
  BY <1>1, <1>2, PanelFs DEF PanelInv
<1>3. CASE DropStep
  BY <1>1, <1>3, NamesDrops, MailDrops DEF DropStep, PanelInv
<1>4. CASE ListStep
  <2>1. UNCHANGED <<treeVars, diskVars, drop>>
    BY <1>4 DEF ListStep, ListTree
  <2> QED
    BY <1>1, <1>4, <2>1, NamesStill, MailList DEF ListStep, PanelInv
<1>5. CASE Load \/ Apply \/ TakeTree
  <2>1. UNCHANGED <<treeVars, diskVars, drop>>
    BY <1>5 DEF Load, Apply, TakeTree, fsVars
  <2> QED
    BY <1>1, <1>5, <2>1, NamesStill, MailLoad, MailApply, MailTake DEF PanelInv
<1>6. CASE Reload
  BY <1>1, <1>6, NamesCrash, MailReload DEF Reload, PanelInv
<1> QED
  BY <1>2, <1>3, <1>4, <1>5, <1>6 DEF PanelNext

\* And a step of nothing.
LEMMA PanelStutters ==
  ASSUME PanelInv, UNCHANGED <<vars, panelVars>>
  PROVE  PanelInv'
<1>1. UNCHANGED <<treeVars, diskVars, reads, drop, reply, done, browser, past, pageVars>> /\ loads' = loads
      /\ UNCHANGED panelVars
  BY DEF vars, pageVars
<1>2. TypeInv'
  BY <1>1, ListStaysTyped DEF PanelInv
<1>3. NamesInv'
  BY <1>1, NamesStill DEF PanelInv
<1>4. nodes' = nodes /\ dirs' = dirs /\ UNCHANGED <<panel, pending, asks>> /\ trees' = trees
  BY <1>1 DEF panelVars, treeVars
<1>5. MailInv'
  BY <1>1, <1>4, MailStill DEF PanelInv
<1> QED
  BY <1>2, <1>3, <1>5 DEF PanelInv

\* At first.
LEMMA NamesInit ==
  ASSUME NamesApart, DropsApart, Init
  PROVE  NamesInv
<1>1. /\ DOMAIN nodes = Shipped /\ dirs = {<<>>} \cup UNION {Above(p) : p \in Shipped}
      /\ DOMAIN disk.files = {} /\ disk.dirs = {<<>>} /\ chain = <<>> /\ drop = NoDrop
  BY DEF Init, Nothing
<1>2. Shipped \subseteq FileNames /\ <<>> \in DirNames /\ Shipped \cap DirNames = {}
  BY NamesAre DEF FileNames
<1>3. \A p \in Shipped : Above(p) \subseteq DirNames
  BY <1>2, NamesAre
<1>4. dirs \subseteq DirNames
  BY <1>1, <1>2, <1>3
<1>5. QueueInv
  BY <1>1 DEF QueueInv
<1> QED
  BY <1>1, <1>2, <1>4, <1>5 DEF NamesInv, Unmixed

\* And the start.
LEMMA PanelStarts ==
  ASSUME NamesApart, DropsApart, PanelInit
  PROVE  PanelInv
<1>1. Init
  BY DEF PanelInit
<1>2. TypeInv /\ NamesInv
  BY <1>1, InitTyped, NamesInit
<1> QED
  BY <1>1, <1>2, MailInit DEF PanelInv

\* The panel shows the tree, or what it was.
LEMMA PanelShows ==
  ASSUME PanelInv
  PROVE  PanelFollowsTree
<1>1. TypeInv /\ MailInv /\ PageTyped /\ LoadsInv /\ Shown(panel)
  BY DEF PanelInv, MailInv, PageTyped
<1>2. PICK s : Shows(mail, changes, Following, Bare(panel), TreeNow, trees, s)
  BY <1>1 DEF MailInv
<1>3. mail \in Seq(Messages) /\ Len(mail) \in Nat /\ 0 \in 0..Len(mail)
  BY <1>1 DEF PageTyped
<1>4. PanelTypeOK
  <2> DEFINE A == {i \in DOMAIN mail : mail[i].type = "answer"}
  <2>1. Bare(panel) \in Trees /\ Bare(panel).files = panel.files
    BY <1>1 DEF Shown, Bare
  <2>2. \A p \in DOMAIN panel.files : panel.files[p] \in 0..(MaxChanges + 1)
    BY <2>1, TreesAre
  <2>3. DOMAIN mail = 1..Len(mail)
    BY <1>3
  <2>4. Unanswered(mail) => Cardinality(A) = 0
    <3>1. Unanswered(mail) => A = {}
      BY <2>3 DEF Unanswered
    <3> QED
      BY <3>1, FS_EmptySet
  <2>5. AnsweredOnce(mail) => Cardinality(A) = 1
    <3>1. AnsweredOnce(mail) => \E k : A = {k}
      <4>1. SUFFICES ASSUME AnsweredOnce(mail) PROVE \E k : A = {k}
        OBVIOUS
      <4>2. PICK k \in 1..Len(mail) : \A i \in 1..Len(mail) : mail[i].type = IF i = k THEN "answer" ELSE "changed"
        BY <4>1 DEF AnsweredOnce
      <4>3. A = {k}
        BY <2>3, <4>2
      <4> QED
        BY <4>3
    <3> QED
      BY <3>1, FS_Singleton
  <2> HIDE DEF A
  <2>6. loads + Cardinality(A) = IF pending.loading THEN 1 ELSE 0
    BY <1>1, <2>4, <2>5 DEF LoadsInv
  <2>7. panel.loaded \in BOOLEAN /\ <<>> \in panel.dirs /\ asks \in 0..MaxLoads
    BY <1>1 DEF Shown, PageTyped
  <2> QED
    BY <2>2, <2>6, <2>7 DEF PanelTypeOK, A
<1>5. ASSUME Following PROVE s[0] = Bare(panel) /\ s[0] \in trees
  BY <1>2, <1>3, <1>5 DEF Shows, Known
<1>6. PanelIsAPast
  BY <1>5 DEF PanelIsAPast, Following, Bare
<1>7. PanelIsTree
  <2>1. SUFFICES ASSUME Following, mail = <<>>, changes = <<>> PROVE panel.files = nodes /\ panel.dirs = dirs
    BY DEF PanelIsTree, Following
  <2>2. Len(mail) = 0
    BY <2>1
  <2>3. TakeAll(s[0], changes) = TreeNow
    BY <1>2, <2>1, <2>2 DEF Shows, Known
  <2>4. Bare(panel) = TreeNow
    BY <1>5, <2>1, <2>3, TakeNone
  <2> QED
    BY <2>4 DEF Bare, TreeNow
<1> QED
  BY <1>4, <1>6, <1>7 DEF PanelFollowsTree

\* The panel shows the tree once everything has come, and until then what the tree was
\* (filetree.ts, FileModel: "every change is idempotent").
THEOREM PanelFollowsTreeHolds ==
  ASSUME NamesApart, DropsApart
  PROVE  PanelSpec => []PanelFollowsTree
<1>1. PanelInit => PanelInv
  BY PanelStarts
<1>2. PanelInv /\ [PanelNext]_<<vars, panelVars>> => PanelInv'
  BY PanelSteps, PanelStutters
<1>3. PanelInv => PanelFollowsTree
  BY PanelShows
<1> QED
  BY <1>1, <1>2, <1>3, PTL DEF PanelSpec

-----------------------------------------------------------------------------
(* What a second reload would find.                                        *)

\* The same disk, but for what is dropped or carries it; of directories, those that stand
\* where a file may be.
AlikeFiles(f, g) ==
    \A q : q \notin Touched => /\ q \in DOMAIN f <=> q \in DOMAIN g
                               /\ q \in DOMAIN f => f[q] = g[q]
AlikeDirs(D, E) == \A q \in Files : q \in D <=> q \in E
Alike(d, c) == AlikeFiles(d.files, c.files) /\ AlikeDirs(d.dirs, c.dirs)
WellNamed(d) == Unmixed(DOMAIN d.files, d.dirs)

\* What is dropped is touched, and so is what is copied or moved from there.
LEMMA TouchedIs ==
  /\ Drops \subseteq Touched
  /\ \A pair \in Pairs : pair[1] \in Touched => pair[2] \in Touched
<1>1. Drops \subseteq Touched
  BY DEF Touched, Carries
<1>2. ASSUME NEW pair \in Pairs, pair[1] \in Touched PROVE pair[2] \in Touched
  BY <1>2, PathsAre DEF Touched, Carries
<1> QED
  BY <1>1, <1>2

\* Alike is an equivalence.
LEMMA AlikeChain ==
  ASSUME NEW d, NEW c, NEW d2, NEW c2, Alike(d, c), Alike(d, d2), Alike(c, c2)
  PROVE  Alike(d2, c2)
<1>1. AlikeFiles(d2.files, c2.files)
  <2>1. ASSUME NEW q, q \notin Touched
        PROVE  /\ q \in DOMAIN d2.files <=> q \in DOMAIN c2.files
               /\ q \in DOMAIN d2.files => d2.files[q] = c2.files[q]
    BY <2>1 DEF Alike, AlikeFiles
  <2> QED
    BY <2>1 DEF AlikeFiles
<1>2. AlikeDirs(d2.dirs, c2.dirs)
  BY DEF Alike, AlikeDirs
<1> QED
  BY <1>1, <1>2 DEF Alike

\* The directory a file or a directory is in is above it, and above what that is above.
LEMMA OneAbove ==
  ASSUME NEW r \in Paths, r # <<>>, NEW q, q = r \/ q \in Above(r), q # <<>>
  PROVE  Front(q) \in Above(r)
<1>1. r \in Seq(STRING)
  BY DEF Paths
<1>2. PICK n \in 1..Len(r) : q = SubSeq(r, 1, n)
  <2>1. CASE q = r
    <3>1. Len(r) \in 1..Len(r) /\ r = SubSeq(r, 1, Len(r))
      BY <1>1
    <3> QED
      BY <2>1, <3>1
  <2>2. CASE q \in Above(r)
    <3>1. PICK n \in 0..(Len(r) - 1) : q = SubSeq(r, 1, n)
      BY <2>2 DEF Above
    <3>2. n # 0
      <4>1. SubSeq(r, 1, 0) = <<>>
        BY <1>1
      <4> QED
        BY <3>1, <4>1
    <3>3. n \in 1..Len(r)
      BY <1>1, <3>2
    <3> QED
      BY <3>1, <3>3
  <2> QED
    BY <2>1, <2>2
<1>3. Front(q) = SubSeq(r, 1, n - 1)
  <2>1. Len(q) = n /\ Front(q) = SubSeq(q, 1, Len(q) - 1)
    BY <1>1, <1>2 DEF Front
  <2>2. SubSeq(SubSeq(r, 1, n), 1, n - 1) = SubSeq(r, 1, n - 1)
    BY <1>1
  <2> QED
    BY <1>2, <2>1, <2>2
<1>4. n - 1 \in 0..(Len(r) - 1)
  BY <1>1
<1> QED
  BY <1>3, <1>4 DEF Above

\* Where a file is asked for no directory is above a file, and where what is dropped may be
\* there is no directory at all.
LEMMA AskedFor ==
  ASSUME NamesApart, TouchedApart, NEW d, WellNamed(d)
  PROVE  /\ \A p \in FileNames \cup Folders : Above(p) \cap Files = {} /\ Above(p) \cap DOMAIN d.files = {}
         /\ \A p \in Files \cap Touched : p \notin d.dirs
         /\ \A p \in Files : Children(DOMAIN d.files \cup d.dirs, p) = {}
<1>1. \A p \in Files, q \in FileNames \cup Folders : p \notin Above(q)
  BY DEF NamesApart, FileNames
<1>2. ASSUME NEW p \in FileNames \cup Folders
      PROVE  Above(p) \cap Files = {} /\ Above(p) \cap DOMAIN d.files = {}
  <2>1. \A q \in FileNames : q \notin Above(p)
    BY DEF NamesApart, FileNames
  <2> QED
    BY <2>1 DEF WellNamed, Unmixed, FileNames
<1>3. ASSUME NEW p \in Files \cap Touched PROVE p \notin d.dirs
  <2>1. p # <<>> /\ p \notin Folders
    BY PathsAre DEF TouchedApart, Names
  <2> QED
    BY <1>1, <2>1 DEF WellNamed, Unmixed, DirNames
<1>4. ASSUME NEW p \in Files, NEW q \in DOMAIN d.files \cup d.dirs, q # <<>>, Front(q) = p PROVE FALSE
  <2>1. q \in FileNames \cup DirNames
    BY DEF WellNamed, Unmixed
  <2>2. PICK r \in FileNames \cup Folders : q = r \/ q \in Above(r)
    BY <1>4, <2>1 DEF DirNames
  <2>3. p \in Above(r)
    <3>1. r \in Paths /\ r # <<>>
      BY <2>2, PathsAre DEF FileNames, Names
    <3>2. Front(q) \in Above(r)
      BY <1>4, <2>2, <3>1, OneAbove
    <3> QED
      BY <1>4, <3>2
  <2> QED
    BY <1>1, <2>3
<1> QED
  BY <1>2, <1>3, <1>4 DEF Children

\* A change at a touched name.
LEMMA TouchedAlike ==
  ASSUME NamesApart, TouchedApart, NEW n \in Nat, NEW d \in Disks(n), WellNamed(d),
         NEW p \in (Files \cup Drops) \cap Touched, NEW s
  PROVE  /\ Alike(d, d) /\ Alike(d, WriteDisk(d, p, s)) /\ Alike(d, MakeDirs(d, p))
         /\ p \in Files => Alike(d, RemoveDisk(d, p))
<1>1. Alike(d, d)
  BY DEF Alike, AlikeFiles, AlikeDirs
<1>2. Above(p) \cap Files = {}
  BY AskedFor DEF FileNames
<1>3. AlikeDirs(d.dirs, d.dirs \cup Above(p))
  BY <1>2 DEF AlikeDirs
<1>4. Alike(d, WriteDisk(d, p, s))
  <2>1. CASE Blocked(d, p)
    BY <1>1, <2>1 DEF WriteDisk
  <2>2. CASE ~Blocked(d, p)
    <3>1. WriteDisk(d, p, s) = [files |-> Put(d.files, p, s), dirs |-> d.dirs \cup Above(p)]
      BY <2>2 DEF WriteDisk
    <3>2. AlikeFiles(d.files, Put(d.files, p, s))
      BY DEF AlikeFiles, Put
    <3> QED
      BY <1>3, <3>1, <3>2 DEF Alike
  <2> QED
    BY <2>1, <2>2
<1>5. d = [files |-> d.files, dirs |-> d.dirs]
  BY DiskIs
<1>6. Alike(d, MakeDirs(d, p))
  <2>1. MakeDirs(d, p) = d \/ (MakeDirs(d, p).files = d.files /\ MakeDirs(d, p).dirs = d.dirs \cup Above(p))
    BY <1>5 DEF MakeDirs
  <2> QED
    BY <1>1, <1>3, <2>1 DEF Alike, AlikeFiles
<1>7. ASSUME p \in Files PROVE Alike(d, RemoveDisk(d, p))
  <2>1. p \notin d.dirs
    BY <1>7, AskedFor
  <2>2. AlikeDirs(d.dirs, d.dirs \ {p})
    BY <2>1 DEF AlikeDirs
  <2>3. AlikeFiles(d.files, Drop(d.files, p)) /\ AlikeFiles(d.files, d.files) /\ AlikeDirs(d.dirs, d.dirs)
    BY DEF AlikeFiles, AlikeDirs, Drop, Restrict
  <2>4. \/ RemoveDisk(d, p) = [files |-> Drop(d.files, p), dirs |-> d.dirs]
        \/ RemoveDisk(d, p) = [files |-> d.files, dirs |-> d.dirs \ {p}]
        \/ RemoveDisk(d, p) = [files |-> d.files, dirs |-> d.dirs]
    BY <1>5 DEF RemoveDisk
  <2> QED
    BY <2>2, <2>3, <2>4 DEF Alike
<1> QED
  BY <1>1, <1>4, <1>6, <1>7

\* A file written.
LEMMA WriteAlike ==
  ASSUME NamesApart, TouchedApart, NEW n \in Nat, NEW d \in Disks(n), NEW c \in Disks(n), WellNamed(d), WellNamed(c),
         Alike(d, c), NEW p \in Files, NEW s
  PROVE  /\ Blocked(d, p) <=> Blocked(c, p)
         /\ Alike(WriteDisk(d, p, s), WriteDisk(c, p, s))
         /\ Alike(MakeDirs(d, p), MakeDirs(c, p))
<1>1. /\ Above(p) \cap DOMAIN d.files = {} /\ Above(p) \cap DOMAIN c.files = {}
      /\ p \in d.dirs <=> p \in c.dirs
  BY AskedFor DEF FileNames, Alike, AlikeDirs
<1>2. Blocked(d, p) <=> Blocked(c, p)
  BY <1>1 DEF Blocked
<1>3. AlikeDirs(d.dirs \cup Above(p), c.dirs \cup Above(p))
  BY DEF Alike, AlikeDirs
<1>4. Alike(WriteDisk(d, p, s), WriteDisk(c, p, s))
  <2>1. CASE Blocked(d, p)
    BY <1>2, <2>1 DEF WriteDisk
  <2>2. CASE ~Blocked(d, p)
    <3>1. /\ WriteDisk(d, p, s) = [files |-> Put(d.files, p, s), dirs |-> d.dirs \cup Above(p)]
          /\ WriteDisk(c, p, s) = [files |-> Put(c.files, p, s), dirs |-> c.dirs \cup Above(p)]
      BY <1>2, <2>2 DEF WriteDisk
    <3>2. AlikeFiles(Put(d.files, p, s), Put(c.files, p, s))
      BY DEF Alike, AlikeFiles, Put
    <3> QED
      BY <1>3, <3>1, <3>2 DEF Alike
  <2> QED
    BY <2>1, <2>2
<1>5. Alike(MakeDirs(d, p), MakeDirs(c, p))
  <2>1. d = [files |-> d.files, dirs |-> d.dirs] /\ c = [files |-> c.files, dirs |-> c.dirs]
    BY DiskIs
  <2>2. /\ MakeDirs(d, p).files = d.files /\ MakeDirs(d, p).dirs = d.dirs \cup Above(p)
        /\ MakeDirs(c, p).files = c.files /\ MakeDirs(c, p).dirs = c.dirs \cup Above(p)
    BY <1>1, <2>1 DEF MakeDirs
  <2> QED
    BY <1>3, <2>2 DEF Alike
<1> QED
  BY <1>2, <1>4, <1>5

\* A file or a directory removed.
LEMMA RemoveAlike ==
  ASSUME NamesApart, TouchedApart, NEW n \in Nat, NEW d \in Disks(n), NEW c \in Disks(n), WellNamed(d), WellNamed(c),
         Alike(d, c), NEW p \in Files \cup Folders
  PROVE  Alike(RemoveDisk(d, p), RemoveDisk(c, p))
<1>1. CASE p \in Touched
  <2>1. p \in Files
    BY <1>1 DEF TouchedApart
  <2>2. Alike(d, RemoveDisk(d, p)) /\ Alike(c, RemoveDisk(c, p))
    BY <1>1, <2>1, TouchedAlike
  <2> QED
    BY <2>2, AlikeChain
<1>2. CASE p \notin Touched
  <2>1. p \in DOMAIN d.files <=> p \in DOMAIN c.files
    BY <1>2 DEF Alike, AlikeFiles
  <2>2. CASE p \in DOMAIN d.files
    <3>1. /\ RemoveDisk(d, p).files = Drop(d.files, p) /\ RemoveDisk(d, p).dirs = d.dirs
          /\ RemoveDisk(c, p).files = Drop(c.files, p) /\ RemoveDisk(c, p).dirs = c.dirs
      <4>1. /\ RemoveDisk(d, p) = [files |-> Drop(d.files, p), dirs |-> d.dirs]
            /\ RemoveDisk(c, p) = [files |-> Drop(c.files, p), dirs |-> c.dirs]
        BY <2>1, <2>2, RemoveDiskIs
      <4> QED
        BY <4>1
    <3>2. AlikeFiles(Drop(d.files, p), Drop(c.files, p))
      BY DEF Alike, AlikeFiles, Drop, Restrict
    <3> QED
      BY <3>1, <3>2 DEF Alike
  <2>3. CASE p \notin DOMAIN d.files
    <3>1. /\ RemoveDisk(d, p).files = d.files /\ RemoveDisk(c, p).files = c.files
          /\ RemoveDisk(d, p).dirs = IF Children(DOMAIN d.files \cup d.dirs, p) = {} THEN d.dirs \ {p} ELSE d.dirs
          /\ RemoveDisk(c, p).dirs = IF Children(DOMAIN c.files \cup c.dirs, p) = {} THEN c.dirs \ {p} ELSE c.dirs
      <4> DEFINE Left(a) == IF Children(DOMAIN a.files \cup a.dirs, p) = {} THEN a.dirs \ {p} ELSE a.dirs
      <4>1. /\ RemoveDisk(d, p) = [files |-> d.files, dirs |-> Left(d)]
            /\ RemoveDisk(c, p) = [files |-> c.files, dirs |-> Left(c)]
        BY <2>1, <2>3, RemoveDiskIs
      <4> QED
        BY <4>1
    <3>2. AlikeDirs(RemoveDisk(d, p).dirs, RemoveDisk(c, p).dirs)
      <4>1. CASE p \in Files
        <5>1. RemoveDisk(d, p).dirs = d.dirs \ {p} /\ RemoveDisk(c, p).dirs = c.dirs \ {p}
          BY <3>1, <4>1, AskedFor
        <5> QED
          BY <5>1 DEF Alike, AlikeDirs
      <4>2. CASE p \notin Files
        BY <3>1, <4>2 DEF Alike, AlikeDirs
      <4> QED
        BY <4>1, <4>2
    <3> QED
      BY <3>1, <3>2 DEF Alike
  <2> QED
    BY <2>2, <2>3
<1> QED
  BY <1>1, <1>2

\* What scripts queue does the same to both.
LEMMA ApplyAlike ==
  ASSUME NamesApart, DropsApart, TouchedApart, NEW n \in Nat, NEW d \in Disks(n), NEW c \in Disks(n), WellNamed(d), WellNamed(c),
         Alike(d, c), NEW e \in Entries(n), Asks(e)
  PROVE  Alike(ApplyEntry(d, e), ApplyEntry(c, e))
<1>1. e.op \in {"write", "append", "remove", "makeDir", "copy", "rename"}
  BY EntryIs
<1>2. \A p : p \notin Touched => /\ p \in DOMAIN d.files <=> p \in DOMAIN c.files
                                 /\ p \in DOMAIN d.files => d.files[p] = c.files[p]
  BY DEF Alike, AlikeFiles
<1>3. CASE e.op = "write"
  <2>1. ApplyEntry(d, e) = WriteDisk(d, e.to, e.bytes) /\ ApplyEntry(c, e) = WriteDisk(c, e.to, e.bytes)
    BY <1>3 DEF ApplyEntry
  <2>2. e.to \in Files
    BY <1>3 DEF Asks
  <2> QED
    BY <2>1, <2>2, WriteAlike
<1>4. CASE e.op = "append"
  <2>1. e.to \in Files
    BY <1>4 DEF Asks
  <2>2. PICK s : s = Splice(IF e.to \in DOMAIN d.files THEN d.files[e.to] ELSE <<>>, e.at, e.bytes)
    OBVIOUS
  <2>3. PICK t : t = Splice(IF e.to \in DOMAIN c.files THEN c.files[e.to] ELSE <<>>, e.at, e.bytes)
    OBVIOUS
  <2>4. ApplyEntry(d, e) = WriteDisk(d, e.to, s) /\ ApplyEntry(c, e) = WriteDisk(c, e.to, t)
    BY <1>4, <2>2, <2>3 DEF ApplyEntry
  <2>5. CASE e.to \in Touched
    <3>1. Alike(d, WriteDisk(d, e.to, s)) /\ Alike(c, WriteDisk(c, e.to, t))
      BY <2>1, <2>5, TouchedAlike
    <3> QED
      BY <2>4, <3>1, AlikeChain
  <2>6. CASE e.to \notin Touched
    <3>1. (IF e.to \in DOMAIN d.files THEN d.files[e.to] ELSE <<>>) = IF e.to \in DOMAIN c.files THEN c.files[e.to] ELSE <<>>
      BY <1>2, <2>6
    <3>2. s = t
      BY <2>2, <2>3, <3>1
    <3> QED
      BY <2>1, <2>4, <3>2, WriteAlike
  <2> QED
    BY <2>5, <2>6
<1>5. CASE e.op = "remove"
  <2>1. ApplyEntry(d, e) = RemoveDisk(d, e.path) /\ ApplyEntry(c, e) = RemoveDisk(c, e.path)
    BY <1>5 DEF ApplyEntry
  <2>2. e.path \in Files \cup Folders
    BY <1>5 DEF Asks
  <2> QED
    BY <2>1, <2>2, RemoveAlike
<1>6. CASE e.op = "makeDir"
  <2>1. PICK p \in Folders : p = e.path
    BY <1>6 DEF Asks
  <2>2. p \notin Touched
    BY DEF TouchedApart
  <2>3. /\ Above(p) \cap DOMAIN d.files = {} /\ Above(p) \cap DOMAIN c.files = {} /\ Above(p) \cap Files = {}
        /\ (p \in DOMAIN d.files <=> p \in DOMAIN c.files)
    BY <1>2, <2>2, AskedFor
  <2>4. d = [files |-> d.files, dirs |-> d.dirs] /\ c = [files |-> c.files, dirs |-> c.dirs]
    BY DiskIs
  <2>5. CASE p \in DOMAIN d.files
    <3>1. ApplyEntry(d, e) = d /\ ApplyEntry(c, e) = c
      BY <1>6, <2>1, <2>3, <2>5 DEF ApplyEntry
    <3> QED
      BY <3>1
  <2>6. CASE p \notin DOMAIN d.files
    <3>1. \A a \in {d, c} : \/ ApplyEntry(a, e) = a /\ p \in a.dirs
                            \/ ApplyEntry(a, e) = [a EXCEPT !.dirs = @ \cup Above(p) \cup {p}]
      BY <1>6, <2>1, <2>3, <2>6 DEF ApplyEntry, Blocked
    <3>2. \A a \in {d, c} : /\ ApplyEntry(a, e).files = a.files
                            /\ ApplyEntry(a, e).dirs \cap Files = (a.dirs \cup {p}) \cap Files
      <4>1. ASSUME NEW a \in {d, c}, ApplyEntry(a, e) = [a EXCEPT !.dirs = @ \cup Above(p) \cup {p}]
            PROVE  ApplyEntry(a, e).files = a.files /\ ApplyEntry(a, e).dirs = a.dirs \cup Above(p) \cup {p}
        BY <2>4, <4>1
      <4> QED
        BY <2>3, <3>1, <4>1
    <3> QED
      BY <3>2 DEF Alike, AlikeDirs
  <2> QED
    BY <2>5, <2>6
<1>7. CASE e.op = "copy"
  <2>1. e.path \in Files /\ e.to \in Files /\ (e.path \in Touched => e.to \in Touched)
    BY <1>7, TouchedIs DEF Asks
  <2>2. \A a : ApplyEntry(a, e) = IF e.path \in DOMAIN a.files THEN WriteDisk(a, e.to, a.files[e.path]) ELSE MakeDirs(a, e.to)
    BY <1>7 DEF ApplyEntry
  <2>3. CASE e.to \in Touched
    <3>1. Alike(d, ApplyEntry(d, e)) /\ Alike(c, ApplyEntry(c, e))
      <4>1. \A s : /\ Alike(d, WriteDisk(d, e.to, s)) /\ Alike(d, MakeDirs(d, e.to))
                   /\ Alike(c, WriteDisk(c, e.to, s)) /\ Alike(c, MakeDirs(c, e.to))
        BY <2>1, <2>3, TouchedAlike
      <4> QED
        BY <2>2, <4>1
    <3> QED
      BY <3>1, AlikeChain
  <2>4. CASE e.to \notin Touched
    <3>1. /\ e.path \in DOMAIN d.files <=> e.path \in DOMAIN c.files
          /\ e.path \in DOMAIN d.files => d.files[e.path] = c.files[e.path]
      BY <1>2, <2>1, <2>4
    <3>2. \A s : Alike(WriteDisk(d, e.to, s), WriteDisk(c, e.to, s)) /\ Alike(MakeDirs(d, e.to), MakeDirs(c, e.to))
      BY <2>1, WriteAlike
    <3> QED
      BY <2>2, <3>1, <3>2
  <2> QED
    BY <2>3, <2>4
<1>8. CASE e.op = "rename"
  <2>1. e.path \in Files /\ e.to \in Files /\ e.path # e.to /\ (e.path \in Touched => e.to \in Touched)
    BY <1>8, TouchedIs DEF Asks
  <2> DEFINE Shifts(a) == e.path \in DOMAIN a.files /\ ~Blocked(a, e.to)
  <2>2. \A a : ApplyEntry(a, e) = IF Shifts(a) THEN RemoveDisk(WriteDisk(a, e.to, a.files[e.path]), e.path) ELSE MakeDirs(a, e.to)
    BY <1>8, <2>1 DEF ApplyEntry
  <2>3. ASSUME NEW a \in Disks(n), WellNamed(a), Shifts(a)
        PROVE  /\ WriteDisk(a, e.to, a.files[e.path]) \in Disks(n)
               /\ WellNamed(WriteDisk(a, e.to, a.files[e.path]))
    <3>1. a.files[e.path] \in Short(n)
      <4>1. a.files \in [DOMAIN a.files -> Short(n)]
        BY DiskIs
      <4> HIDE DEF Short
      <4> QED
        BY <2>3, <4>1
    <3>2. e.to \in Names /\ e.to \in FileNames
      BY <2>1, EntryIs DEF FileNames
    <3>3. \A s : WellNamed(WriteDisk(a, e.to, s))
      BY <2>3, <3>2, WriteUnmixed DEF WellNamed
    <3> QED
      BY <3>1, <3>2, <3>3, WriteDiskIs
  <2>4. CASE e.path \in Touched
    <3>1. ASSUME NEW a \in Disks(n), WellNamed(a) PROVE Alike(a, ApplyEntry(a, e))
      <4>1. CASE Shifts(a)
        <5>1. PICK w : w = WriteDisk(a, e.to, a.files[e.path])
          OBVIOUS
        <5>2. w \in Disks(n) /\ WellNamed(w) /\ Alike(a, w) /\ ApplyEntry(a, e) = RemoveDisk(w, e.path)
          BY <2>1, <2>2, <2>3, <2>4, <3>1, <4>1, <5>1, TouchedAlike
        <5>3. Alike(w, RemoveDisk(w, e.path))
          BY <2>1, <2>4, <5>2, TouchedAlike
        <5>4. Alike(a, a) /\ Alike(w, a)
          BY <5>2 DEF Alike, AlikeFiles, AlikeDirs
        <5> QED
          BY <5>2, <5>3, <5>4, AlikeChain
      <4>2. CASE ~Shifts(a)
        BY <2>1, <2>2, <2>4, <3>1, <4>2, TouchedAlike
      <4> QED
        BY <4>1, <4>2
    <3>2. Alike(d, ApplyEntry(d, e)) /\ Alike(c, ApplyEntry(c, e))
      BY <3>1
    <3> QED
      BY <3>2, AlikeChain
  <2>5. CASE e.path \notin Touched
    <3>1. Shifts(d) <=> Shifts(c)
      BY <1>2, <2>1, <2>5, WriteAlike
    <3>2. CASE Shifts(d)
      <4>1. PICK s : s = d.files[e.path] /\ s = c.files[e.path]
        BY <1>2, <2>5, <3>2
      <4>2. Alike(WriteDisk(d, e.to, s), WriteDisk(c, e.to, s))
        BY <2>1, WriteAlike
      <4>3. /\ WriteDisk(d, e.to, s) \in Disks(n) /\ WellNamed(WriteDisk(d, e.to, s))
            /\ WriteDisk(c, e.to, s) \in Disks(n) /\ WellNamed(WriteDisk(c, e.to, s))
        BY <2>3, <3>1, <3>2, <4>1
      <4>4. /\ ApplyEntry(d, e) = RemoveDisk(WriteDisk(d, e.to, s), e.path)
            /\ ApplyEntry(c, e) = RemoveDisk(WriteDisk(c, e.to, s), e.path)
        BY <2>2, <3>1, <3>2, <4>1
      <4> QED
        BY <2>1, <4>2, <4>3, <4>4, RemoveAlike
    <3>3. CASE ~Shifts(d)
      <4>1. ApplyEntry(d, e) = MakeDirs(d, e.to) /\ ApplyEntry(c, e) = MakeDirs(c, e.to)
        BY <2>2, <3>1, <3>3
      <4> QED
        BY <2>1, <4>1, WriteAlike
    <3> QED
      BY <3>2, <3>3
  <2> QED
    BY <2>4, <2>5
<1> QED
  BY <1>1, <1>3, <1>4, <1>5, <1>6, <1>7, <1>8

\* And so does the whole queue.
LEMMA AfterAlike ==
  ASSUME NamesApart, DropsApart, TouchedApart, NEW n \in Nat, NEW d \in Disks(n), NEW c \in Disks(n),
         WellNamed(d), WellNamed(c), Alike(d, c),
         NEW queue \in Seq(Entries(n)), \A i \in 1..Len(queue) : Asks(queue[i])
  PROVE  \A k \in 0..Len(queue) : Alike(After(d, queue)[k], After(c, queue)[k])
<1> DEFINE D(k) == After(d, queue)[k]
           C(k) == After(c, queue)[k]
           N == {k \in Nat : k <= Len(queue) => WellNamed(D(k)) /\ WellNamed(C(k)) /\ Alike(D(k), C(k))}
<1>1. Len(queue) \in Nat /\ \A k \in 1..Len(queue) : queue[k] \in Entries(n)
  OBVIOUS
<1>2. 0 \in N
  <2>1. D(0) = d /\ C(0) = c
    BY <1>1, AfterIs
  <2> QED
    BY <2>1
<1>3. ASSUME NEW k \in Nat, k \in N PROVE k + 1 \in N
  <2> SUFFICES ASSUME k + 1 <= Len(queue)
               PROVE  WellNamed(D(k + 1)) /\ WellNamed(C(k + 1)) /\ Alike(D(k + 1), C(k + 1))
    OBVIOUS
  <2>1. k + 1 \in 1..Len(queue) /\ (k + 1) - 1 = k /\ k \in 0..Len(queue)
    BY <1>1
  <2>2. PICK x, y : x = D(k) /\ y = C(k)
    OBVIOUS
  <2>3. D(k + 1) = ApplyEntry(x, queue[k + 1]) /\ C(k + 1) = ApplyEntry(y, queue[k + 1])
    BY <1>1, <2>1, <2>2, AfterIs
  <2>4. WellNamed(x) /\ WellNamed(y) /\ Alike(x, y)
    BY <1>1, <1>3, <2>2
  <2>5. x \in Disks(n) /\ y \in Disks(n)
    BY <2>1, <2>2, AfterTyped
  <2>6. queue[k + 1] \in Entries(n) /\ Asks(queue[k + 1])
    BY <1>1, <2>1
  <2>7. Alike(ApplyEntry(x, queue[k + 1]), ApplyEntry(y, queue[k + 1]))
    BY <2>4, <2>5, <2>6, ApplyAlike
  <2>8. WellNamed(ApplyEntry(x, queue[k + 1])) /\ WellNamed(ApplyEntry(y, queue[k + 1]))
    BY <2>4, <2>5, <2>6, ApplyUnmixed DEF WellNamed
  <2> QED
    BY <2>3, <2>7, <2>8
<1>4. Nat \subseteq N
  <2> HIDE DEF N
  <2> QED
    BY <1>2, <1>3, NatSetInduction
<1> QED
  BY <1>1, <1>4

\* Of alike disks scripts' own files are the same.
LEMMA AlikeOwn ==
  ASSUME NEW f, NEW g, AlikeFiles(f, g)
  PROVE  \A moving : ScriptsOwn(f, moving) = ScriptsOwn(g, moving)
<1>1. ASSUME NEW moving PROVE ScriptsOwn(f, moving) = ScriptsOwn(g, moving)
  <2>1. DOMAIN f \ (Touched \cup moving) = DOMAIN g \ (Touched \cup moving)
    BY DEF AlikeFiles
  <2>2. \A q \in DOMAIN f \ (Touched \cup moving) : f[q] = g[q]
    BY DEF AlikeFiles
  <2> QED
    BY <2>1, <2>2 DEF ScriptsOwn, Restrict
<1> QED
  BY <1>1

\* A drop leaves what a reload would find of scripts' files.
LEMMA DropsPast ==
  ASSUME NamesApart, DropsApart, TouchedApart, TypeInv, TypeInv', NamesInv, NamesInv', PastInv, Dropping
  PROVE  PastInv'
<1>1. chain' = chain /\ browser' = browser /\ past' = past /\ done'.changes = done.changes
  BY DEF TypeInv, DoneTyped, Dropping, DropStart, DropCreate, DropWrite, DropFinish, Beside, Announce
<1>2. PICK n \in Nat : n = done.changes + 1
  BY DEF TypeInv, DoneTyped
<1>3. disk \in Disks(n) /\ disk' \in Disks(n) /\ chain \in Seq(Entries(n))
  BY <1>1, <1>2 DEF TypeInv, DiskTyped, QueueTyped
<1>4. Alike(disk, disk')
  <2>1. disk' = disk \/ (drop # NoDrop /\ \E s : disk' \in {WriteDisk(disk, drop.path, s), MakeDirs(disk, drop.path)})
    BY DEF Dropping, DropStart, DropCreate, DropWrite, DropFinish, NoDrop
  <2>2. drop # NoDrop => drop.path \in Drops
    BY DEF TypeInv, DropTyped
  <2>3. Alike(disk, disk)
    BY DEF Alike, AlikeFiles, AlikeDirs
  <2>4. WellNamed(disk)
    BY DEF NamesInv, WellNamed
  <2> QED
    BY <1>3, <2>1, <2>2, <2>3, <2>4, TouchedIs, TouchedAlike
<1>5. \A k \in 0..Len(chain) : Alike(After(disk, chain)[k], After(disk', chain)[k])
  BY <1>3, <1>4, AfterAlike DEF NamesInv, QueueInv, WellNamed
<1>6. Len(chain) \in Nat /\ \A k \in 1..Len(chain) : k \in 0..Len(chain)
  BY <1>3
<1>7. ASSUME NEW k \in 1..Len(chain') PROVE \E f \in past' : SameFiles(After(disk', chain')[k].files, f)
  <2>1. PICK f \in past : SameFiles(After(disk, chain)[k].files, f)
    BY <1>1 DEF PastInv
  <2>2. AlikeFiles(After(disk, chain)[k].files, After(disk', chain)[k].files)
    BY <1>1, <1>5, <1>6 DEF Alike
  <2>3. SameFiles(After(disk', chain)[k].files, f)
    BY <2>1, <2>2, AlikeOwn DEF SameFiles
  <2> QED
    BY <1>1, <2>3
<1>8. ReloadIsAPast'
  <2>1. PICK f \in past, moving \in SUBSET Halfway : ScriptsOwn(disk.files, moving) = ScriptsOwn(f, {})
    BY DEF PastInv, ReloadIsAPast
  <2>2. AlikeFiles(disk.files, disk'.files)
    BY <1>4 DEF Alike
  <2>3. ScriptsOwn(disk'.files, moving) = ScriptsOwn(f, {})
    BY <2>1, <2>2, AlikeOwn
  <2>4. Halfway \ Touched \subseteq Halfway'
    <3>1. ASSUME NEW p \in Halfway, p \notin Touched PROVE p \in Halfway'
      <4>1. p \in DOMAIN disk'.files /\ disk'.files[p] = disk.files[p] /\ chain # <<>>
        BY <2>2, <3>1 DEF Halfway, AlikeFiles
      <4> QED
        BY <1>1, <3>1, <4>1 DEF Halfway
    <3> QED
      BY <3>1
  <2>5. ScriptsOwn(disk'.files, moving) = ScriptsOwn(disk'.files, moving \ Touched)
    <3>1. Touched \cup moving = Touched \cup (moving \ Touched)
      OBVIOUS
    <3> QED
      BY <3>1 DEF ScriptsOwn
  <2>6. moving \ Touched \in SUBSET Halfway'
    BY <2>1, <2>4
  <2>7. f \in past' /\ ScriptsOwn(disk'.files, moving \ Touched) = ScriptsOwn(f, {})
    BY <1>1, <2>3, <2>5
  <2> QED
    BY <2>6, <2>7 DEF ReloadIsAPast, ScriptsOwn
<1> QED
  BY <1>1, <1>7, <1>8, PastNext

\* Every step of the page, the scripts, the queue, drops and reloads.
LEMMA PanelPast ==
  ASSUME NamesApart, DropsApart, TouchedApart, PanelInv, PanelInv', PastInv, [PanelNext]_<<vars, panelVars>>
  PROVE  PastInv'
<1>1. TypeInv /\ TypeInv' /\ NamesInv /\ NamesInv'
  BY DEF PanelInv
<1>2. ASSUME UNCHANGED <<disk, chain, browser, past>> PROVE PastInv'
  BY <1>1, <1>2, RefusedPast
<1>3. CASE UNCHANGED <<vars, panelVars>>
  BY <1>2, <1>3 DEF vars, diskVars
<1>4. CASE FsStep
  BY <1>1, <1>4, PastStays DEF FsStep
<1>5. CASE DropStep
  BY <1>1, <1>5, DropsPast DEF DropStep
<1>6. CASE ListStep \/ Load \/ Apply \/ TakeTree
  BY <1>2, <1>6 DEF ListStep, ListTree, Load, Apply, TakeTree, fsVars, diskVars
<1>7. CASE Reload
  <2>1. chain' = <<>> /\ past' = {disk.files} /\ disk' = disk /\ browser' = browser
    BY <1>7 DEF Reload, Crash
  <2>2. ReloadIsAPast'
    <3>1. disk.files \in past' /\ SameFiles(disk'.files, disk.files)
      BY <2>1 DEF SameFiles
    <3> QED
      BY <3>1, NowIs
  <2>3. 1..Len(chain') = {}
    <3>1. Len(chain') = 0
      BY <2>1
    <3> QED
      BY <3>1
  <2> QED
    BY <2>1, <2>2, <2>3, PastNext
<1> QED
  BY <1>3, <1>4, <1>5, <1>6, <1>7 DEF PanelNext

\* A second reload, too, finds what the files were since the first, whatever is dropped beside
\* the queue, onto files of scripts too: a drop reaches no file but those it is onto and those
\* that copies and moves carry it to (opfs.ts, enqueue and putFile).
THEOREM ReloadIsAPastAmongDrops ==
  ASSUME NamesApart, DropsApart, TouchedApart
  PROVE  PanelSpec => []ReloadIsAPast
<1>1. PanelInit => PanelInv /\ PastInv
  BY PanelStarts, InitPast DEF PanelInit
<1>2. PanelInv /\ PastInv /\ [PanelNext]_<<vars, panelVars>> => PanelInv' /\ PastInv'
  BY PanelSteps, PanelStutters, PanelPast
<1>3. PastInv => ReloadIsAPast
  BY DEF PastInv
<1> QED
  BY <1>1, <1>2, <1>3, PTL DEF PanelSpec
=============================================================================
