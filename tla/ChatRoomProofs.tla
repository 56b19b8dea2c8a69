--------------------------- MODULE ChatRoomProofs ---------------------------
(***************************************************************************)
(* Proofs about the chat room: the rate an account can reach, and that the     *)
(* panel keeps its lines, for any lines, any backlog and any limits.           *)
(*                                                                          *)
(* Neither is inductive.  The rate needs that what is recent but not committed *)
(* is a line being served, past the count; that no line is passed over needs    *)
(* that a fetch on its way has every line up to its last, but for overtaken.    *)
(***************************************************************************)
EXTENDS ChatRoom, Induction

-----------------------------------------------------------------------------
(* The panel's lines, and what is where.                                    *)

\* What add() places: what was not there.
LEMMA AddingIs ==
  ASSUME NEW ids, NEW D, ids \in Seq(D), Distinct(ids)
  PROVE  /\ Adding(ids) \in Seq(D) /\ Distinct(Adding(ids))
         /\ ToSet(Adding(ids)) = ToSet(ids) \ shown
<1>1. \A line : ToSet(line) = Elements(line)
  BY DEF ToSet, Elements
<1>2. /\ Adding(ids) \in Seq(D) /\ Distinct(Adding(ids))
      /\ Elements(Adding(ids)) = Elements(ids) \cap (ToSet(ids) \ shown)
  BY OnlyIs DEF Adding
<1> QED
  BY <1>1, <1>2

Stages == {"count", "insert", "commit"}
Phases == {"new", "out", "sent", "answered", "settled"}
Posts == [by : Says \cup Others, try : Nat, stage : Stages, id : Nat]

ServerTypes ==
    /\ nextId \in Nat \ {0} /\ committed \subseteq 1 .. nextId - 1
    /\ recent \subseteq 1 .. nextId - 1
    /\ overtaken \subseteq committed /\ echoes \subseteq committed
    /\ posts \subseteq Posts /\ IsFiniteSet(posts)
    /\ \A p \in posts : p.stage = "commit" => p.id \in 1 .. nextId - 1
SayTypes ==
    /\ phase \in [Says \cup Others -> Phases]
    /\ DOMAIN tries = Says /\ \A q \in Says : tries[q] \in Nat
    /\ DOMAIN answer = Says /\ \A q \in Says : answer[q] \in committed \cup {0}
PanelTypes ==
    /\ fetch \in {"none", "out", "answered", "failed"} /\ fetching = (fetch # "none")
    /\ lines \in Seq(committed) /\ Distinct(lines) /\ (lines # <<>> => fetch = "answered")
    /\ log \in Seq(committed) /\ Distinct(log) /\ shown = ToSet(log)
    /\ fetchedTo \in committed \cup {0} /\ first \in Nat /\ (first = 0 <=> fetchedTo = 0)
Types == ServerTypes /\ SayTypes /\ PanelTypes

\* Lines of the account that are past the count, and those whose row is not committed.
Counted == {p \in Serving : p.stage # "count"}
Inserted == {p \in Serving : p.stage = "commit"}
RecentAre ==
    /\ \A id \in recent \ committed : \E p \in Inserted : p.id = id
    /\ \A p \in posts : p.stage = "commit" /\ p.id \in recent => Account(p)
RateInv ==
    /\ RecentAre /\ Cardinality(Serving) <= MaxServing
    /\ Cardinality(recent \cap committed) + Cardinality(Counted) <= Limit - 1 + MaxServing

\* Between what was fetched and the last of the lines on their way, only what was
\* overtaken is passed over.
Begins(id) == IF fetchedTo = 0 THEN lines[1] <= id ELSE fetchedTo < id
LinesCover ==
    \A id \in committed \ overtaken :
       (\E l \in ToSet(lines) : id <= l) /\ Begins(id) => id \in ToSet(lines)

ServerQuiet == UNCHANGED <<committed, nextId, recent, posts, overtaken, echoes>>

\* A post at its next stage.
Moved(p, stage, id) == [p EXCEPT !.stage = stage, !.id = id]

\* What moving a post changes.
LEMMA MovedIs ==
  ASSUME NEW p \in Posts, NEW stage \in Stages, NEW id \in Nat
  PROVE  /\ [p EXCEPT !.stage = stage] \in Posts
         /\ [p EXCEPT !.stage = stage].by = p.by /\ [p EXCEPT !.stage = stage].stage = stage
         /\ [p EXCEPT !.stage = stage].id = p.id
         /\ Moved(p, stage, id) \in Posts
         /\ Moved(p, stage, id).by = p.by /\ Moved(p, stage, id).stage = stage
         /\ Moved(p, stage, id).id = id
BY DEF Posts, Moved

\* The requests and rows after a step.
LEMMA Finite ==
  ASSUME ServerTypes
  PROVE  /\ \A S \in SUBSET posts : IsFiniteSet(S) /\ Cardinality(S) \in Nat
         /\ \A S \in SUBSET (1 .. nextId - 1) : IsFiniteSet(S) /\ Cardinality(S) \in Nat
<1>1. IsFiniteSet(1 .. nextId - 1) /\ IsFiniteSet(posts)
  BY FS_Interval DEF ServerTypes
<1>2. \A S \in SUBSET posts : IsFiniteSet(S)
  BY <1>1, FS_Subset
<1>3. \A S \in SUBSET (1 .. nextId - 1) : IsFiniteSet(S)
  BY <1>1, FS_Subset
<1> QED
  BY <1>2, <1>3, FS_Subset, FS_CardinalityType


\* The account's lines are so many.
LEMMA SetsAre ==
  ASSUME Types
  PROVE  /\ Cardinality(Serving) \in Nat /\ Cardinality(Counted) \in Nat
         /\ Cardinality(recent \cap committed) \in Nat
         /\ Serving \in SUBSET posts /\ Counted \in SUBSET Serving
         /\ IsFiniteSet(Serving) /\ IsFiniteSet(Counted) /\ IsFiniteSet(recent \cap committed)
         /\ Limit \in Nat \ {0} /\ MaxServing \in Nat
<1>1. Serving \in SUBSET posts /\ Counted \in SUBSET posts /\ Counted \in SUBSET Serving
  BY DEF Serving, Counted
<1>2. recent \cap committed \in SUBSET (1 .. nextId - 1)
  BY DEF Types, ServerTypes
<1> QED
  BY <1>1, <1>2, Finite, ChatRoomAssumption DEF Types

\* Fewer lines of the account leave room for no more than there was.
LEMMA FewerPosts ==
  ASSUME Types, RateInv, Serving' \subseteq Serving, Counted' \subseteq Counted,
         recent' \cap committed' \subseteq recent \cap committed, RecentAre'
  PROVE  RateInv'
<1>1. /\ IsFiniteSet(Serving) /\ IsFiniteSet(Counted) /\ IsFiniteSet(recent \cap committed)
      /\ Cardinality(Serving) \in Nat /\ Cardinality(Counted) \in Nat
      /\ Cardinality(recent \cap committed) \in Nat /\ Limit \in Nat \ {0} /\ MaxServing \in Nat
  BY SetsAre
<1> DEFINE S == Serving'
           C == Counted'
           R == recent' \cap committed'
<1>2. S \in SUBSET Serving /\ C \in SUBSET Counted /\ R \in SUBSET (recent \cap committed)
  OBVIOUS
<1> HIDE DEF S, C, R
<1>3. /\ Cardinality(S) <= Cardinality(Serving) /\ Cardinality(C) <= Cardinality(Counted)
      /\ Cardinality(R) <= Cardinality(recent \cap committed)
      /\ Cardinality(S) \in Nat /\ Cardinality(C) \in Nat /\ Cardinality(R) \in Nat
  BY <1>1, <1>2, FS_Subset, FS_CardinalityType
<1>4. Cardinality(S) <= MaxServing /\ Cardinality(R) + Cardinality(C) <= Limit - 1 + MaxServing
  BY <1>1, <1>3 DEF RateInv
<1> QED
  BY <1>4 DEF RateInv, S, C, R

\* A line is past the count only if there was room: those beside it are served at once.
LEMMA RateStep ==
  ASSUME Types, RateInv, Next PROVE RateInv'
<1>1. CASE UNCHANGED <<posts, recent, committed>>
  BY <1>1 DEF RateInv, RecentAre, Serving, Counted, Inserted
<1>2. CASE Age
  <2>1. recent' \subseteq recent /\ UNCHANGED <<posts, committed>>
    BY <1>2 DEF Age
  <2>2. RecentAre' /\ Serving' = Serving /\ Counted' = Counted
    BY <2>1 DEF RateInv, RecentAre, Serving, Counted, Inserted
  <2> QED
    BY <2>1, <2>2, FewerPosts
<1>3. ASSUME NEW p \in posts, p.stage = "count", posts' = posts \ {p},
             UNCHANGED <<committed, recent>>
      PROVE  RateInv'
  <2>1. Serving' \subseteq Serving /\ Counted' = Counted /\ Inserted' = Inserted
    BY <1>3 DEF Serving, Counted, Inserted
  <2>2. RecentAre'
    BY <1>3, <2>1 DEF RateInv, RecentAre
  <2> QED
    BY <1>3, <2>1, <2>2, FewerPosts
<1>4. ASSUME NEW p \in posts, p.stage = "count", Cardinality(recent \cap committed) < Limit,
             posts' = (posts \ {p}) \cup {[p EXCEPT !.stage = "insert"]},
             UNCHANGED <<committed, recent>>
      PROVE  RateInv'
  <2> DEFINE n == [p EXCEPT !.stage = "insert"]
  <2>1. n.by = p.by /\ n.stage = "insert"
    BY MovedIs DEF Types, ServerTypes, Stages
  <2>2. posts' = (posts \ {p}) \cup {n}
    BY <1>4
  <2> HIDE DEF n
  <2>3. Account(n) <=> Account(p)
    BY <2>1 DEF Account, Own
  <2>4. Serving' \subseteq (Serving \ {p}) \cup {n} /\ (p \notin Serving => Serving' = Serving)
    BY <2>2, <2>3 DEF Serving
  <2>5. Cardinality(Serving') <= MaxServing /\ Cardinality(Serving') \in Nat
          /\ IsFiniteSet(Serving')
    <3>1. CASE p \in Serving
      <4>1. IsFiniteSet(Serving \ {p}) /\ Cardinality(Serving \ {p}) = Cardinality(Serving) - 1
        BY <3>1, SetsAre, FS_RemoveElement
      <4> DEFINE R == Serving \ {p}
                 T == R \cup {n}
      <4>2. IsFiniteSet(T) /\ Cardinality(T) <= Cardinality(Serving)
        <5> HIDE DEF R
        <5>1. /\ IsFiniteSet(R \cup {n})
              /\ Cardinality(R \cup {n}) = IF n \in R THEN Cardinality(R) ELSE Cardinality(R) + 1
          BY <4>1, FS_AddElement DEF R
        <5> QED
          BY <4>1, <5>1, SetsAre DEF R
      <4>3. Serving' \in SUBSET T
        BY <2>4
      <4> HIDE DEF T
      <4>4. IsFiniteSet(Serving') /\ Cardinality(Serving') <= Cardinality(T)
        BY <4>2, <4>3, FS_Subset
      <4>5. Cardinality(Serving') \in Nat /\ Cardinality(T) \in Nat
        BY <4>2, <4>4, FS_CardinalityType
      <4> QED
        BY <4>2, <4>4, <4>5, SetsAre DEF RateInv
    <3>2. CASE p \notin Serving
      BY <2>4, <3>2, SetsAre DEF RateInv
    <3> QED
      BY <3>1, <3>2
  <2>6. Cardinality(Counted') <= MaxServing /\ Cardinality(Counted') \in Nat
    <3> DEFINE C == Counted'
               S == Serving'
    <3>1. C \in SUBSET S
      BY DEF Counted
    <3>2. IsFiniteSet(S) /\ Cardinality(S) <= MaxServing /\ Cardinality(S) \in Nat
      BY <2>5
    <3> HIDE DEF C, S
    <3>3. Cardinality(C) <= Cardinality(S) /\ Cardinality(C) \in Nat
      BY <3>1, <3>2, FS_Subset, FS_CardinalityType
    <3>4. Cardinality(C) <= MaxServing /\ Cardinality(C) \in Nat
      BY <3>2, <3>3, SetsAre
    <3> QED
      BY <3>4 DEF C
  <2>7. Inserted' = Inserted
    BY <1>4, <2>1, <2>2 DEF Inserted, Serving
  <2>8. RecentAre'
    BY <1>4, <2>1, <2>2, <2>7 DEF RateInv, RecentAre
  <2>9. Cardinality(recent' \cap committed') + Cardinality(Counted') <= Limit - 1 + MaxServing
    BY <1>4, <2>6, SetsAre
  <2> QED
    BY <2>5, <2>8, <2>9 DEF RateInv
<1>5. ASSUME NEW p \in posts, Insert(p) PROVE RateInv'
  <2> DEFINE n == [p EXCEPT !.stage = "commit", !.id = nextId]
  <2>1. n.by = p.by /\ n.stage = "commit" /\ n.id = nextId
    <3>1. n = Moved(p, "commit", nextId)
      BY DEF Moved
    <3>2. p \in Posts /\ "commit" \in Stages /\ nextId \in Nat
      BY DEF Types, ServerTypes, Stages
    <3> HIDE DEF n
    <3>3. /\ Moved(p, "commit", nextId).by = p.by /\ Moved(p, "commit", nextId).stage = "commit"
          /\ Moved(p, "commit", nextId).id = nextId
      BY <3>2 DEF Moved, Posts
    <3> QED
      BY <3>1, <3>3
  <2>2. posts' = (posts \ {p}) \cup {n} /\ p.stage = "insert" /\ UNCHANGED committed
          /\ recent' = IF Account(p) THEN recent \cup {nextId} ELSE recent
    BY <1>5 DEF Insert
  <2> HIDE DEF n
  <2>3. Account(n) <=> Account(p)
    BY <2>1 DEF Account, Own
  <2>4. nextId \notin committed /\ nextId \notin recent
          /\ \A o \in posts : o.stage = "commit" => o.id # nextId
    BY DEF Types, ServerTypes
  <2>5. RecentAre'
    <3>1. Inserted \subseteq Inserted' /\ (Account(p) => n \in Inserted')
      BY <2>1, <2>2, <2>3 DEF Inserted, Serving
    <3>2. \A id \in recent' \ committed' : \E o \in Inserted' : o.id = id
      BY <2>1, <2>2, <3>1 DEF RateInv, RecentAre
    <3>3. \A o \in posts' : o.stage = "commit" /\ o.id \in recent' => Account(o)
      BY <2>1, <2>2, <2>3, <2>4 DEF RateInv, RecentAre
    <3> QED
      BY <3>2, <3>3 DEF RecentAre
  <2>6. recent' \cap committed' = recent \cap committed
    BY <2>2, <2>4
  <2>7. CASE ~Account(p)
    <3>1. Serving' = Serving /\ Counted' = Counted
      BY <2>2, <2>3, <2>7 DEF Serving, Counted
    <3> QED
      BY <2>5, <2>6, <3>1, FewerPosts
  <2>8. CASE Account(p)
    <3>1. p \in Counted /\ p \in Serving
      BY <2>2, <2>8 DEF Counted, Serving
    <3>2. Counted' = (Counted \ {p}) \cup {n} /\ Serving' = (Serving \ {p}) \cup {n}
      BY <2>1, <2>2, <2>3, <2>8 DEF Serving, Counted
    <3>3. /\ IsFiniteSet(Counted \ {p}) /\ Cardinality(Counted \ {p}) = Cardinality(Counted) - 1
          /\ IsFiniteSet(Serving \ {p}) /\ Cardinality(Serving \ {p}) = Cardinality(Serving) - 1
      BY <3>1, SetsAre, FS_RemoveElement
    <3>4. Cardinality(Counted') <= Cardinality(Counted) /\ Cardinality(Counted') \in Nat
      <4> DEFINE T == Counted \ {p}
      <4> HIDE DEF T
      <4>1. IsFiniteSet(T \cup {n})
            /\ Cardinality(T \cup {n}) = IF n \in T THEN Cardinality(T) ELSE Cardinality(T) + 1
        BY <3>3, FS_AddElement DEF T
      <4>2. Cardinality(T \cup {n}) \in Nat
        BY <4>1, FS_CardinalityType
      <4> QED
        BY <3>2, <3>3, <4>1, <4>2, SetsAre DEF T
    <3>5. Cardinality(Serving') <= Cardinality(Serving) /\ Cardinality(Serving') \in Nat
      <4> DEFINE T == Serving \ {p}
      <4> HIDE DEF T
      <4>1. IsFiniteSet(T \cup {n})
            /\ Cardinality(T \cup {n}) = IF n \in T THEN Cardinality(T) ELSE Cardinality(T) + 1
        BY <3>3, FS_AddElement DEF T
      <4>2. Cardinality(T \cup {n}) \in Nat
        BY <4>1, FS_CardinalityType
      <4> QED
        BY <3>2, <3>3, <4>1, <4>2, SetsAre DEF T
    <3> QED
      BY <2>5, <2>6, <3>4, <3>5, SetsAre DEF RateInv
  <2> QED
    BY <2>7, <2>8
<1>6. ASSUME NEW p \in posts, CommitRow(p) PROVE RateInv'
  <2>1. /\ p.stage = "commit" /\ posts' = posts \ {p} /\ committed' = committed \cup {p.id}
        /\ UNCHANGED recent
    BY <1>6 DEF CommitRow
  <2>2. RecentAre'
    <3>1. ASSUME NEW id \in recent' \ committed' PROVE \E o \in Inserted' : o.id = id
      <4>1. PICK o \in Inserted : o.id = id
        BY <2>1, <3>1 DEF RateInv, RecentAre
      <4>2. o # p
        BY <2>1, <3>1, <4>1
      <4> QED
        BY <2>1, <4>1, <4>2 DEF Inserted, Serving
    <3> QED
      BY <2>1, <3>1 DEF RateInv, RecentAre
  <2>3. CASE ~Account(p)
    <3>1. Serving' = Serving /\ Counted' = Counted /\ p.id \notin recent
      BY <2>1, <2>3 DEF Serving, Counted, RateInv, RecentAre
    <3> QED
      BY <2>1, <2>2, <3>1, FewerPosts
  <2>4. CASE Account(p)
    <3>1. p \in Counted /\ Counted' = Counted \ {p} /\ Serving' \subseteq Serving
      BY <2>1, <2>4 DEF Serving, Counted
    <3>2. Cardinality(Counted') = Cardinality(Counted) - 1
      BY <3>1, SetsAre, FS_RemoveElement
    <3> DEFINE R == recent \cap committed
               S == Serving'
               Q == recent' \cap committed'
    <3>3. Q \subseteq R \cup {p.id}
      BY <2>1
    <3>4. IsFiniteSet(R) /\ Cardinality(R) \in Nat /\ IsFiniteSet(Serving)
            /\ Cardinality(Serving) \in Nat
      BY SetsAre
    <3>5. S \in SUBSET Serving
      BY <3>1
    <3> HIDE DEF R, S, Q
    <3>6. IsFiniteSet(R \cup {p.id}) /\ Cardinality(R \cup {p.id}) <= Cardinality(R) + 1
      <4> DEFINE id == p.id
      <4> HIDE DEF id
      <4>1. /\ IsFiniteSet(R \cup {id})
            /\ Cardinality(R \cup {id}) = IF id \in R THEN Cardinality(R) ELSE Cardinality(R) + 1
        BY <3>4, FS_AddElement
      <4> QED
        BY <3>4, <4>1 DEF id
    <3>7. Cardinality(Q) <= Cardinality(R \cup {p.id}) /\ Cardinality(Q) \in Nat
            /\ Cardinality(R \cup {p.id}) \in Nat
      BY <3>3, <3>6, FS_Subset, FS_CardinalityType
    <3>8. Cardinality(S) <= Cardinality(Serving) /\ Cardinality(S) \in Nat
      BY <3>4, <3>5, FS_Subset, FS_CardinalityType
    <3>9. Cardinality(Q) + Cardinality(Counted') <= Limit - 1 + MaxServing
      BY <3>2, <3>4, <3>6, <3>7, SetsAre DEF RateInv, R
    <3>10. Cardinality(S) <= MaxServing
      BY <3>4, <3>8, SetsAre DEF RateInv
    <3> QED
      BY <2>2, <3>9, <3>10 DEF RateInv, Q, S
  <2> QED
    BY <2>3, <2>4
<1>7. ASSUME NEW p \in posts, Abandon(p) PROVE RateInv'
  <2>1. posts' = posts \ {p} /\ recent' = recent \ {p.id} /\ UNCHANGED committed
    BY <1>7 DEF Abandon
  <2>2. RecentAre'
    <3>1. ASSUME NEW id \in recent' \ committed' PROVE \E o \in Inserted' : o.id = id
      <4>1. PICK o \in Inserted : o.id = id
        BY <2>1, <3>1 DEF RateInv, RecentAre
      <4>2. o # p
        BY <2>1, <3>1, <4>1
      <4> QED
        BY <2>1, <4>1, <4>2 DEF Inserted, Serving
    <3> QED
      BY <2>1, <3>1 DEF RateInv, RecentAre
  <2>3. Serving' \subseteq Serving /\ Counted' \subseteq Counted
    BY <2>1 DEF Serving, Counted
  <2> QED
    BY <2>1, <2>2, <2>3, FewerPosts
<1>8. ASSUME NEW n, n.stage \in {"count", "insert"}, posts' = posts \cup {n},
             UNCHANGED <<committed, recent>>,
             Account(n) => n.stage = "count" /\ Cardinality(Serving) < MaxServing
      PROVE  RateInv'
  <2>1. Counted' = Counted /\ Inserted' = Inserted
          /\ Serving' = (IF Account(n) THEN Serving \cup {n} ELSE Serving)
    BY <1>8 DEF Counted, Inserted, Serving
  <2>2. RecentAre'
    BY <1>8, <2>1 DEF RateInv, RecentAre
  <2>3. CASE ~Account(n)
    BY <1>8, <2>1, <2>2, <2>3, FewerPosts
  <2>4. CASE Account(n)
    <3>1. IsFiniteSet(Serving \cup {n})
          /\ Cardinality(Serving \cup {n}) <= Cardinality(Serving) + 1
      BY SetsAre, FS_AddElement
    <3>2. Cardinality(Serving \cup {n}) \in Nat
      BY <3>1, FS_CardinalityType
    <3>3. Cardinality(Serving') <= MaxServing
      BY <1>8, <2>1, <2>4, <3>1, <3>2, SetsAre
    <3> QED
      BY <1>8, <2>1, <2>2, <3>3 DEF RateInv
  <2> QED
    BY <2>3, <2>4
<1>9. ASSUME NEW o \in Others, Speak(o) PROVE RateInv'
  <2> DEFINE n == [by |-> o, try |-> 0, id |-> 0,
                   stage |-> IF o \in Scripted THEN "count" ELSE "insert"]
  <2>1. n.stage \in {"count", "insert"} /\ posts' = posts \cup {n}
          /\ UNCHANGED <<committed, recent>>
    BY <1>9 DEF Speak
  <2>2. Account(n) => n.stage = "count" /\ Cardinality(Serving) < MaxServing
    BY <1>9, ChatRoomAssumption DEF Speak, Account, Own
  <2> HIDE DEF n
  <2> QED
    BY <1>8, <2>1, <2>2
<1>10. ASSUME NEW q \in Says, Send(q) PROVE RateInv'
  <2> DEFINE n == [by |-> q, try |-> tries[q] + 1, stage |-> "count", id |-> 0]
  <2>1. n.stage = "count" /\ posts' = posts \cup {n} /\ UNCHANGED <<committed, recent>>
          /\ Cardinality(Serving) < MaxServing
    BY <1>10 DEF Send
  <2> HIDE DEF n
  <2> QED
    BY <1>8, <2>1
<1>11. ASSUME NEW p \in posts, Count(p) PROVE RateInv'
  BY <1>3, <1>4, <1>11 DEF Count
<1> QED
  BY <1>1, <1>2, <1>5, <1>6, <1>7, <1>9, <1>10, <1>11 DEF Next, Serve, Say, HearSay, HearSent,
     Close, TimerFires, CarryFetch, FetchFails, HearFetch, Restart, server

\* A recent row is committed, or is that of a line past the count.
LEMMA RateIsBounded == ASSUME Types, RateInv PROVE RateBounded
<1> DEFINE A == recent \cap committed
           B == recent \ committed
           C == Counted
<1>1. /\ IsFiniteSet(A) /\ IsFiniteSet(C) /\ Cardinality(A) \in Nat /\ Cardinality(C) \in Nat
      /\ Limit \in Nat \ {0} /\ MaxServing \in Nat
      /\ Cardinality(A) + Cardinality(C) <= Limit - 1 + MaxServing
  BY SetsAre DEF RateInv
<1>2. IsFiniteSet(B) /\ Cardinality(B) <= Cardinality(C) /\ Cardinality(B) \in Nat
  <2> DEFINE f == [id \in B |-> CHOOSE p \in Inserted : p.id = id]
  <2>1. \A id \in B : f[id] \in Inserted /\ f[id].id = id
    BY DEF RateInv, RecentAre
  <2>2. Inserted \subseteq C
    BY DEF Inserted, Counted
  <2>3. f \in Injection(B, C)
    <3>1. f \in [B -> C]
      BY <2>1, <2>2
    <3>2. \A x, y \in B : f[x] = f[y] => x = y
      BY <2>1
    <3> HIDE DEF f, B, C
    <3> QED
      BY <3>1, <3>2 DEF Injection, IsInjective
  <2> HIDE DEF f, B, C
  <2> QED
    BY <1>1, <2>3, FS_Injection, FS_CardinalityType
<1>3. recent = A \cup B /\ A \cap B = {}
  OBVIOUS
<1> HIDE DEF A, B, C
<1>4. Cardinality(A \cup B) = Cardinality(A) + Cardinality(B)
  <2>1. /\ IsFiniteSet(A \cap B)
        /\ Cardinality(A \cup B) = Cardinality(A) + Cardinality(B) - Cardinality(A \cap B)
    BY <1>1, <1>2, <1>3, FS_Union, FS_EmptySet
  <2>2. Cardinality(A \cap B) = 0
    BY <1>3, FS_EmptySet
  <2> QED
    BY <1>1, <1>2, <2>1, <2>2
<1> QED
  BY <1>1, <1>2, <1>3, <1>4 DEF RateBounded

\* A request that is taken away, moved on or begun leaves finitely many.
LEMMA PostsStayFinite ==
  ASSUME Types, NEW n, posts' \subseteq posts \cup {n} PROVE IsFiniteSet(posts')
<1>1. IsFiniteSet(posts \cup {n})
  BY FS_AddElement DEF Types, ServerTypes
<1> DEFINE P == posts'
<1>2. P \in SUBSET (posts \cup {n})
  OBVIOUS
<1> HIDE DEF P
<1>3. IsFiniteSet(P)
  BY <1>1, <1>2, FS_Subset
<1> QED
  BY <1>3 DEF P

\* The server's tables keep their types, and no row goes.
LEMMA ServerTypesStep ==
  ASSUME Types, Next PROVE ServerTypes' /\ committed \subseteq committed'
<1> USE DEF Types, ServerTypes
<1>1. ASSUME UNCHANGED <<committed, nextId, recent, posts, overtaken>>, echoes' \subseteq echoes
      PROVE  ServerTypes' /\ committed \subseteq committed'
  BY <1>1
<1>2. CASE Age
  <2>1. recent' \subseteq recent /\ UNCHANGED <<committed, nextId, posts, overtaken, echoes>>
    BY <1>2 DEF Age, panel
  <2> QED
    BY <2>1
<1>3. ASSUME NEW n \in Posts, n.stage # "commit", posts' \subseteq posts \cup {n},
             UNCHANGED <<committed, nextId, overtaken, echoes>>, recent' \subseteq recent
      PROVE  ServerTypes' /\ committed \subseteq committed'
  <2>1. IsFiniteSet(posts')
    BY <1>3, PostsStayFinite
  <2> QED
    BY <1>3, <2>1
<1>4. ASSUME NEW p \in posts, posts' = posts \ {p}, recent' \subseteq recent,
             UNCHANGED <<committed, nextId, overtaken, echoes>>
      PROVE  ServerTypes' /\ committed \subseteq committed'
  <2>1. IsFiniteSet(posts')
    BY <1>4, PostsStayFinite
  <2> QED
    BY <1>4, <2>1
<1>5. ASSUME NEW p \in posts, Count(p) PROVE ServerTypes' /\ committed \subseteq committed'
  <2>1. UNCHANGED <<committed, nextId, overtaken, echoes, recent>>
    BY <1>5 DEF Count, panel
  <2>2. CASE posts' = posts \ {p}
    BY <1>4, <2>1, <2>2
  <2>3. CASE posts' = (posts \ {p}) \cup {[p EXCEPT !.stage = "insert"]}
    <3> DEFINE n == [p EXCEPT !.stage = "insert"]
    <3>1. n \in Posts /\ n.stage = "insert"
      BY MovedIs DEF Stages
    <3>2. posts' \subseteq posts \cup {n}
      BY <2>3
    <3> HIDE DEF n
    <3> QED
      BY <1>3, <2>1, <3>1, <3>2
  <2> QED
    BY <1>5, <2>2, <2>3 DEF Count
<1>6. ASSUME NEW p \in posts, Abandon(p) PROVE ServerTypes' /\ committed \subseteq committed'
  BY <1>4, <1>6 DEF Abandon, panel
<1>7. ASSUME NEW p \in posts, Insert(p) PROVE ServerTypes' /\ committed \subseteq committed'
  <2> DEFINE n == [p EXCEPT !.stage = "commit", !.id = nextId]
  <2>1. /\ nextId' = nextId + 1 /\ posts' = (posts \ {p}) \cup {n}
        /\ recent' \subseteq recent \cup {nextId} /\ UNCHANGED <<committed, overtaken, echoes>>
    BY <1>7 DEF Insert, panel
  <2>2. n \in Posts /\ n.id = nextId
    <3>1. p \in Posts /\ nextId \in Nat
      OBVIOUS
    <3> QED
      BY <3>1 DEF Posts, Stages
  <2> HIDE DEF n
  <2>3. IsFiniteSet(posts')
    BY <2>1, PostsStayFinite
  <2>4. \A q \in posts' : q.stage = "commit" => q.id \in 1 .. nextId' - 1
    BY <2>1, <2>2
  <2>5. committed' \subseteq 1 .. nextId' - 1 /\ recent' \subseteq 1 .. nextId' - 1
    BY <2>1
  <2> QED
    BY <2>1, <2>2, <2>3, <2>4, <2>5
<1>8. ASSUME NEW p \in posts, CommitRow(p) PROVE ServerTypes' /\ committed \subseteq committed'
  <2>1. /\ committed' = committed \cup {p.id} /\ overtaken' \subseteq overtaken \cup {p.id}
        /\ posts' = posts \ {p} /\ echoes' \subseteq echoes \cup {p.id}
        /\ UNCHANGED <<nextId, recent>> /\ p.stage = "commit"
    BY <1>8 DEF CommitRow
  <2>2. IsFiniteSet(posts')
    BY <2>1, PostsStayFinite
  <2> QED
    BY <2>1, <2>2
<1>9. ASSUME NEW o \in Others, Speak(o) PROVE ServerTypes' /\ committed \subseteq committed'
  <2> DEFINE n == [by |-> o, try |-> 0, id |-> 0,
                   stage |-> IF o \in Scripted THEN "count" ELSE "insert"]
  <2>1. n \in Posts /\ n.stage # "commit"
    BY DEF Posts, Stages
  <2>2. posts' = posts \cup {n} /\ UNCHANGED <<committed, nextId, overtaken, echoes, recent>>
    BY <1>9 DEF Speak, panel
  <2> HIDE DEF n
  <2> QED
    BY <1>3, <2>1, <2>2
<1>10. ASSUME NEW q \in Says, Send(q) PROVE ServerTypes' /\ committed \subseteq committed'
  <2> DEFINE n == [by |-> q, try |-> tries[q] + 1, stage |-> "count", id |-> 0]
  <2>1. n \in Posts /\ n.stage # "commit"
    BY DEF Posts, Stages, SayTypes
  <2>2. posts' = posts \cup {n} /\ UNCHANGED <<committed, nextId, overtaken, echoes, recent>>
    BY <1>10 DEF Send, panel
  <2> HIDE DEF n
  <2> QED
    BY <1>3, <2>1, <2>2
<1>11. CASE \E q \in Says : Say(q) \/ HearSay(q)
  BY <1>1, <1>11 DEF Say, HearSay, server, panel
<1>12. CASE \E id \in echoes : HearSent(id)
  BY <1>1, <1>12 DEF HearSent, server, panel
<1>13. CASE Close \/ TimerFires \/ CarryFetch \/ FetchFails \/ HearFetch
              \/ \E now \in BOOLEAN : Restart(now)
  BY <1>1, <1>13 DEF Close, TimerFires, CarryFetch, FetchFails, HearFetch, Restart, server, panel
<1> QED
  BY <1>2, <1>5, <1>6, <1>7, <1>8, <1>9, <1>10, <1>11, <1>12, <1>13 DEF Next, Serve

\* The answer a line gets is a row there is, or none.
LEMMA TellKeeps ==
  ASSUME Types, NEW p \in posts, NEW id \in committed' \cup {0}, committed \subseteq committed',
         Tell(p, id), UNCHANGED tries
  PROVE  SayTypes'
BY DEF Types, SayTypes, Tell, Current, Own, Phases

\* The lines typed keep their types.
LEMMA SayTypesStep ==
  ASSUME Types, Next PROVE SayTypes'
<1> USE DEF Types, SayTypes
<1>0. committed \subseteq committed'
  BY ServerTypesStep
<1>1. CASE UNCHANGED saying
  BY <1>0, <1>1 DEF saying
<1>2. ASSUME NEW p \in posts, Count(p) PROVE SayTypes'
  <2>1. CASE Tell(p, 0)
    BY <1>0, <1>2, <2>1, TellKeeps DEF Count
  <2>2. CASE UNCHANGED <<phase, answer>>
    BY <1>0, <1>2, <2>2 DEF Count
  <2> QED
    BY <1>2, <2>1, <2>2 DEF Count
<1>3. ASSUME NEW p \in posts, CommitRow(p) PROVE SayTypes'
  <2>1. p.id \in committed' /\ Tell(p, p.id) /\ UNCHANGED tries
    BY <1>3 DEF CommitRow
  <2> DEFINE id == p.id
  <2> HIDE DEF id
  <2>2. id \in committed' \cup {0} /\ Tell(p, id)
    BY <2>1 DEF id
  <2> QED
    BY <1>0, <2>1, <2>2, TellKeeps
<1>4. ASSUME NEW o \in Others, Speak(o) PROVE SayTypes'
  BY <1>0, <1>4 DEF Speak, Phases
<1>5. ASSUME NEW q \in Says, Say(q) \/ HearSay(q) PROVE SayTypes'
  BY <1>0, <1>5 DEF Say, HearSay, Phases
<1>6. ASSUME NEW q \in Says, Send(q) PROVE SayTypes'
  <2>1. tries[q] + 1 \in Nat
    OBVIOUS
  <2>2. phase' \in [Says \cup Others -> Phases]
    BY <1>6 DEF Send, Phases
  <2>3. DOMAIN tries' = Says /\ \A r \in Says : tries'[r] \in Nat
    BY <1>6, <2>1 DEF Send
  <2>4. UNCHANGED answer
    BY <1>6 DEF Send
  <2> QED
    BY <1>0, <2>2, <2>3, <2>4
<1>7. CASE Close
  BY <1>0, <1>7 DEF Close, Phases
<1> QED
  BY <1>1, <1>2, <1>3, <1>4, <1>5, <1>6, <1>7 DEF Next, Serve, Insert, Abandon, Age, HearSent,
     TimerFires, CarryFetch, FetchFails, HearFetch, Restart, saying

-----------------------------------------------------------------------------
(* The panel. *)

\* add() places what was not placed, once.
LEMMA AddIs ==
  ASSUME log \in Seq(committed), Distinct(log), shown = ToSet(log),
         NEW ids, ids \in Seq(committed'), Distinct(ids), committed \subseteq committed', Add(ids)
  PROVE  /\ log' \in Seq(committed') /\ Distinct(log') /\ shown' = ToSet(log')
         /\ shown' = shown \cup ToSet(ids)
<1> DEFINE new == Adding(ids)
           D == committed'
<1>1. new \in Seq(D) /\ Distinct(new) /\ ToSet(new) = ToSet(ids) \ shown
  BY AddingIs
<1>2. shown' = shown \cup ToSet(new) /\ log' = log \o new
  BY DEF Add
<1>3. log \in Seq(D)
  OBVIOUS
<1> HIDE DEF new, D
<1>4. /\ log \o new \in Seq(D) /\ Len(log \o new) = Len(log) + Len(new)
      /\ \A i \in 1 .. Len(log) : (log \o new)[i] = log[i]
      /\ \A i \in 1 .. Len(log \o new) : i > Len(log) => /\ i - Len(log) \in 1 .. Len(new)
                                                         /\ (log \o new)[i] = new[i - Len(log)]
  BY <1>1, <1>3
<1>5. Len(log) \in Nat /\ Len(new) \in Nat /\ DOMAIN log = 1 .. Len(log)
        /\ DOMAIN new = 1 .. Len(new) /\ DOMAIN (log \o new) = 1 .. Len(log) + Len(new)
  BY <1>1, <1>3, <1>4
<1> DEFINE all == log \o new
<1>6. /\ \A i \in 1 .. Len(log) : all[i] = log[i] /\ all[i] \in shown
      /\ \A i \in 1 .. Len(log) + Len(new) : i > Len(log) =>
            /\ i - Len(log) \in 1 .. Len(new) /\ all[i] = new[i - Len(log)]
            /\ all[i] \in ToSet(new)
  BY <1>4, <1>5 DEF ToSet
<1>7. \A i \in 1 .. Len(new) : all[Len(log) + i] = new[i] /\ Len(log) + i \in DOMAIN all
  <2> SUFFICES ASSUME NEW i \in 1 .. Len(new)
               PROVE  all[Len(log) + i] = new[i] /\ Len(log) + i \in DOMAIN all
    OBVIOUS
  <2>1. Len(log) + i \in 1 .. Len(log) + Len(new) /\ Len(log) + i > Len(log)
          /\ Len(log) + i - Len(log) = i
    BY <1>5
  <2> QED
    BY <1>4, <1>5, <2>1
<1>8. DOMAIN all = 1 .. Len(log) + Len(new)
  BY <1>5
<1> HIDE DEF all
<1>9. Distinct(all)
  <2> SUFFICES ASSUME NEW i \in 1 .. Len(log) + Len(new), NEW j \in 1 .. Len(log) + Len(new),
                      all[i] = all[j]
               PROVE  i = j
    BY <1>8 DEF Distinct
  <2>1. CASE i <= Len(log) /\ j <= Len(log)
    <3>1. i \in 1 .. Len(log) /\ j \in 1 .. Len(log)
      BY <1>5, <2>1
    <3> QED
      BY <1>5, <1>6, <3>1 DEF Distinct
  <2>2. CASE i > Len(log) /\ j > Len(log)
    <3>1. /\ i - Len(log) \in 1 .. Len(new) /\ j - Len(log) \in 1 .. Len(new)
          /\ new[i - Len(log)] = new[j - Len(log)]
      BY <1>6, <2>2
    <3>2. i - Len(log) = j - Len(log)
      BY <1>1, <1>5, <3>1 DEF Distinct
    <3> QED
      BY <1>5, <3>2
  <2>3. CASE (i <= Len(log) /\ j > Len(log)) \/ (j <= Len(log) /\ i > Len(log))
    BY <1>1, <1>5, <1>6, <2>3
  <2> QED
    BY <1>5, <2>1, <2>2, <2>3
<1>10. ToSet(all) = shown \cup ToSet(new)
  <2>1. \A x \in ToSet(all) : x \in shown \cup ToSet(new)
    BY <1>5, <1>6, <1>8 DEF ToSet
  <2>2. \A x \in shown : x \in ToSet(all)
    BY <1>5, <1>6, <1>8 DEF ToSet
  <2>3. \A x \in ToSet(new) : x \in ToSet(all)
    BY <1>5, <1>7 DEF ToSet
  <2> QED
    BY <2>1, <2>2, <2>3
<1> QED
  BY <1>1, <1>2, <1>4, <1>9, <1>10 DEF all, D

\* Ids that are there stay so.
LEMMA SeqGrows ==
  ASSUME NEW C, NEW D, C \subseteq D, NEW s \in Seq(C) PROVE s \in Seq(D)
OBVIOUS

\* What is brought is placed up to the highest of it.
LEMMA FetchedIs ==
  ASSUME Types
  PROVE  /\ Max(ToSet(lines) \cup {fetchedTo}) \in ToSet(lines) \cup {fetchedTo}
         /\ \A k \in ToSet(lines) \cup {fetchedTo} : k <= Max(ToSet(lines) \cup {fetchedTo})
         /\ ToSet(lines) \subseteq committed /\ committed \subseteq Nat \ {0}
<1> DEFINE S == ToSet(lines) \cup {fetchedTo}
<1>1. ToSet(lines) \subseteq committed /\ committed \subseteq Nat \ {0}
  BY DEF Types, PanelTypes, ServerTypes, ToSet
<1>2. nextId - 1 \in Nat /\ S \subseteq 0 .. nextId - 1 /\ S # {} /\ S \subseteq Nat
  <2>1. nextId - 1 \in Nat
    BY DEF Types, ServerTypes
  <2>2. committed \subseteq 0 .. nextId - 1
    BY DEF Types, ServerTypes
  <2>3. S \subseteq committed \cup {0}
    BY <1>1 DEF Types, PanelTypes
  <2> HIDE DEF S
  <2>4. S \subseteq 0 .. nextId - 1
    BY <2>1, <2>2, <2>3
  <2> QED
    BY <2>1, <2>4 DEF S
<1> HIDE DEF S
<1>3. PICK m \in S : \A k \in S : k <= m
  BY <1>2, GreatestIs
<1>4. Max(S) \in S /\ \A k \in S : Max(S) >= k
  BY <1>2, <1>3 DEF Max
<1>5. \A k \in S : k <= Max(S)
  BY <1>2, <1>4
<1> QED
  BY <1>1, <1>4, <1>5 DEF S

\* What a fetch brings, in order.
LEMMA ReadIs ==
  ASSUME Types
  PROVE  /\ Read \in SUBSET committed /\ InOrder(Read) \in Seq(committed)
         /\ Distinct(InOrder(Read)) /\ Elements(InOrder(Read)) = Read
<1>1. Read \in SUBSET committed
  BY DEF Read, NextLines, Newer, Backlogged
<1>2. Read \in SUBSET Nat /\ IsFiniteSet(Read)
  <2>1. Read \in SUBSET (1 .. nextId - 1)
    BY <1>1 DEF Types, ServerTypes
  <2> QED
    BY <2>1, Finite DEF Types
<1>3. InOrder(Read) \in Seq(Read) /\ Distinct(InOrder(Read)) /\ Elements(InOrder(Read)) = Read
  BY <1>2, InOrderIs
<1> QED
  BY <1>1, <1>3, SeqGrows

\* The panel keeps its types, and has no line twice.
LEMMA PanelTypesStep ==
  ASSUME Types, Next PROVE PanelTypes'
<1> USE DEF Types, PanelTypes
<1>0. committed \subseteq committed' /\ committed \subseteq Nat \ {0}
        /\ committed' \subseteq Nat \ {0}
  BY ServerTypesStep DEF ServerTypes
<1>1. lines \in Seq(committed') /\ log \in Seq(committed') /\ fetchedTo \in committed' \cup {0}
  BY <1>0, SeqGrows
<1>2. CASE UNCHANGED <<fetchedTo, shown, log, first, fetching, fetch, lines>>
  BY <1>1, <1>2
<1>3. ASSUME NEW ids, ids \in Seq(committed'), Distinct(ids), Add(ids),
             UNCHANGED <<fetchedTo, first, fetching, fetch, lines>>
      PROVE  PanelTypes'
  <2>1. log' \in Seq(committed') /\ Distinct(log') /\ shown' = ToSet(log')
    BY <1>0, <1>3, AddIs
  <2> QED
    BY <1>1, <1>3, <2>1
<1>4. ASSUME NEW id \in committed, Add(<<id>>),
             UNCHANGED <<fetchedTo, first, fetching, fetch, lines>>
      PROVE  PanelTypes'
  <2>1. <<id>> \in Seq(committed') /\ Distinct(<<id>>)
    BY <1>0 DEF Distinct
  <2> QED
    BY <1>3, <1>4, <2>1
<1>5. ASSUME NEW q \in Says, HearSay(q) PROVE PanelTypes'
  <2>1. UNCHANGED <<fetchedTo, first, fetching, fetch, lines>>
    BY <1>5 DEF HearSay, polling
  <2>2. CASE answer[q] = 0
    <3>1. Add(<<>>)
      BY <1>5, <2>2 DEF HearSay
    <3>2. <<>> \in Seq(committed') /\ Distinct(<<>>)
      BY DEF Distinct
    <3> QED
      BY <1>3, <2>1, <3>1, <3>2
  <2>3. CASE answer[q] # 0
    <3> DEFINE id == answer[q]
    <3>1. id \in committed /\ Add(<<id>>)
      BY <1>5, <2>3 DEF HearSay, SayTypes
    <3> HIDE DEF id
    <3> QED
      BY <1>4, <2>1, <3>1
  <2> QED
    BY <2>2, <2>3
<1>6. ASSUME NEW id \in echoes, HearSent(id) PROVE PanelTypes'
  <2>1. id \in committed
    BY DEF ServerTypes
  <2> QED
    BY <1>4, <1>6, <2>1 DEF HearSent, polling
<1>7. CASE TimerFires \/ \E now \in BOOLEAN : Restart(now)
  <2>1. UNCHANGED <<fetchedTo, shown, log, first, lines>>
    BY <1>7 DEF TimerFires, Restart, panel
  <2>2. UNCHANGED <<fetching, fetch>> \/ (fetching = FALSE /\ fetching' = TRUE /\ fetch' = "out")
    BY <1>7 DEF TimerFires, Restart, Poll
  <2> QED
    BY <1>1, <2>1, <2>2
<1>8. CASE CarryFetch
  <2>1. UNCHANGED <<fetchedTo, shown, log, first, fetching, committed>>
    BY <1>8 DEF CarryFetch, panel, server
  <2>2. fetch = "out" /\ fetch' = "answered" /\ lines' = InOrder(Read)
    BY <1>8 DEF CarryFetch
  <2>3. lines' \in Seq(committed') /\ Distinct(lines')
    BY <2>1, <2>2, ReadIs
  <2> QED
    BY <1>1, <2>1, <2>2, <2>3
<1>9. CASE FetchFails \/ Close
  <2>1. UNCHANGED <<fetchedTo, shown, log, first, fetching>>
    BY <1>9 DEF FetchFails, Close, panel
  <2>2. \/ UNCHANGED <<fetch, lines>>
        \/ fetch = "out" /\ fetch' = "failed" /\ UNCHANGED lines
        \/ fetch \in {"answered", "failed"} /\ fetch' = "out" /\ lines' = <<>>
    BY <1>9 DEF FetchFails, Close
  <2>3. <<>> \in Seq(committed') /\ Distinct(<<>>)
    BY DEF Distinct
  <2> QED
    BY <1>1, <2>1, <2>2, <2>3
<1>10. CASE HearFetch
  <2>1. /\ fetch' = "none" /\ fetching' = FALSE /\ lines' = <<>>
        /\ fetchedTo' = Max(ToSet(lines) \cup {fetchedTo}) /\ Add(lines)
        /\ first' = IF first = 0 /\ lines # <<>> THEN Head(lines) ELSE first
    BY <1>10 DEF HearFetch
  <2>2. log' \in Seq(committed') /\ Distinct(log') /\ shown' = ToSet(log')
    BY <1>0, <1>1, <2>1, AddIs
  <2>3. <<>> \in Seq(committed') /\ Distinct(<<>>)
    BY DEF Distinct
  <2>4. fetchedTo' \in committed' \cup {0} /\ fetchedTo' \in ToSet(lines) \cup {fetchedTo}
        /\ \A k \in ToSet(lines) \cup {fetchedTo} : k <= fetchedTo'
    BY <1>0, <1>1, <2>1, FetchedIs
  <2>5. first' \in Nat /\ (first' = 0 <=> fetchedTo' = 0)
    <3>1. CASE lines = <<>>
      <4>1. ToSet(lines) = {}
        BY <3>1 DEF ToSet
      <4> QED
        BY <2>1, <2>4, <3>1, <4>1
    <3>2. CASE lines # <<>>
      <4>1. Head(lines) \in committed /\ Head(lines) \in ToSet(lines)
        BY <3>2 DEF ToSet
      <4>2. Head(lines) \in Nat \ {0} /\ Head(lines) <= fetchedTo'
        BY <1>0, <2>4, <4>1
      <4>3. fetchedTo' \in Nat /\ fetchedTo' # 0
        BY <1>0, <2>4, <4>2
      <4>4. first # 0 \/ first' = Head(lines)
        BY <2>1, <3>2
      <4>5. first' \in {first, Head(lines)}
        BY <2>1
      <4> QED
        BY <2>1, <4>2, <4>3, <4>4, <4>5
    <3> QED
      BY <3>1, <3>2
  <2> QED
    BY <2>1, <2>2, <2>3, <2>4, <2>5
<1> QED
  BY <1>2, <1>5, <1>6, <1>7, <1>8, <1>9, <1>10 DEF Next, Serve, Count, Insert, CommitRow,
     Abandon, Age, Speak, Say, Send, panel, polling

-----------------------------------------------------------------------------
(* No line is passed over. *)

\* What is committed: nothing new, or a row whose id is marked when a higher one is there.
LEMMA CommittedIs ==
  ASSUME Types, Next
  PROVE  /\ overtaken \subseteq overtaken'
         /\ \A id \in committed' \ committed :
               UNCHANGED <<panel, polling>> \/ UNCHANGED <<fetchedTo, first, shown, lines>>
         /\ \A id \in committed' \ committed : id \notin overtaken' =>
               \A o \in committed : o < id
<1> USE DEF Types, ServerTypes
<1>1. ASSUME NEW p \in posts, CommitRow(p)
      PROVE  /\ overtaken \subseteq overtaken' /\ UNCHANGED <<fetchedTo, first, shown, lines>>
             /\ \A id \in committed' \ committed : id \notin overtaken' =>
                   \A o \in committed : o < id
  <2>1. /\ committed' = committed \cup {p.id} /\ p.id \in Nat
        /\ overtaken' = IF \E id \in committed : id > p.id THEN overtaken \cup {p.id} ELSE overtaken
        /\ UNCHANGED <<fetchedTo, first, shown, lines>>
    BY <1>1 DEF CommitRow, polling
  <2>2. ASSUME NEW id \in committed' \ committed, id \notin overtaken', NEW o \in committed
        PROVE  o < id
    <3>1. id = p.id /\ ~\E k \in committed : k > p.id
      BY <2>1, <2>2
    <3>2. o \in Nat /\ id \in Nat /\ o # id /\ ~(o > id)
      BY <2>1, <2>2, <3>1
    <3> QED
      BY <3>2
  <2> QED
    BY <2>1, <2>2
<1>2. CASE UNCHANGED <<committed, overtaken>>
  BY <1>2
<1> QED
  BY <1>1, <1>2 DEF Next, Serve, Count, Insert, Abandon, Age, Speak, Say, Send, HearSay,
     HearSent, Close, TimerFires, CarryFetch, FetchFails, HearFetch, Restart, server

\* A fetch brings all there is up to the last of it; what comes later below that is overtaken.
LEMMA LinesCoverStep ==
  ASSUME Types, LinesCover, Next PROVE LinesCover'
<1> USE DEF Types
<1>0. /\ committed \subseteq committed' /\ committed \subseteq Nat \ {0}
      /\ committed' \subseteq Nat \ {0}
      /\ ToSet(lines) \subseteq committed
  BY ServerTypesStep, FetchedIs DEF ServerTypes
<1>1. CASE UNCHANGED <<lines, fetchedTo>>
  <2> SUFFICES ASSUME NEW id \in committed' \ overtaken', NEW l \in ToSet(lines), id <= l,
                      Begins(id)
               PROVE  id \in ToSet(lines)
    BY <1>1 DEF LinesCover, Begins
  <2>1. CASE id \in committed
    BY <2>1, CommittedIs DEF LinesCover
  <2>2. CASE id \notin committed
    <3>1. l < id
      BY <1>0, <2>2, CommittedIs
    <3>2. l \in Nat /\ id \in Nat
      BY <1>0
    <3> QED
      BY <3>1, <3>2
  <2> QED
    BY <2>1, <2>2
<1>2. CASE lines' = <<>>
  <2>1. ToSet(lines') = {}
    BY <1>2 DEF ToSet
  <2> QED
    BY <2>1 DEF LinesCover
<1>3. CASE CarryFetch
  <2>1. UNCHANGED <<committed, overtaken, fetchedTo>> /\ lines' = InOrder(Read)
    BY <1>3 DEF CarryFetch, server, panel
  <2>2. ToSet(lines') = Read /\ lines' \in Seq(committed)
    BY <2>1, ReadIs DEF ToSet, Elements
  <2> SUFFICES ASSUME NEW id \in committed, NEW l \in Read, id <= l, Begins(id)'
               PROVE  id \in Read
    BY <2>1, <2>2 DEF LinesCover
  <2>3. l \in committed /\ id \in Nat /\ l \in Nat /\ fetchedTo \in Nat
    BY <1>0, ReadIs DEF PanelTypes
  <2>4. CASE fetchedTo = 0
    <3>1. Read = Backlogged /\ lines'[1] <= id
      BY <2>1, <2>4 DEF Read, Begins
    <3>2. lines'[1] \in Read
      <4>1. lines' # <<>>
        BY <2>2 DEF ToSet
      <4> QED
        BY <2>2, <4>1 DEF ToSet
    <3> DEFINE k == lines'[1]
               Above(n) == {o \in committed : o > n}
    <3>3. k \in committed /\ Cardinality(Above(k)) < Backlog /\ k <= id
      BY <3>1, <3>2 DEF Backlogged
    <3>4. k \in Nat
      BY <1>0, <3>3
    <3> HIDE DEF k
    <3>5. \A o \in committed : o > id => o > k
      <4> SUFFICES ASSUME NEW o \in committed, o > id PROVE o > k
        OBVIOUS
      <4>1. o \in Nat
        BY <1>0
      <4> QED
        BY <2>3, <3>3, <3>4, <4>1
    <3>6. Above(id) \in SUBSET Above(k)
      BY <3>5
    <3>7. Above(k) \in SUBSET (1 .. nextId - 1)
      BY DEF ServerTypes
    <3>8. IsFiniteSet(Above(k))
      BY <3>7, Finite
    <3> DEFINE A == Above(id)
               B == Above(k)
    <3> HIDE DEF A, B
    <3>9. Cardinality(A) <= Cardinality(B) /\ Cardinality(A) \in Nat /\ Cardinality(B) \in Nat
      BY <3>6, <3>8, FS_Subset, FS_CardinalityType DEF A, B
    <3>10. Cardinality(A) < Backlog
      BY <3>3, <3>9, ChatRoomAssumption DEF B
    <3> QED
      BY <3>1, <3>10 DEF Backlogged, A
  <2>5. CASE fetchedTo # 0
    <3>1. Read = NextLines /\ id \in Newer
      BY <2>1, <2>3, <2>5 DEF Read, Begins, Newer
    <3> DEFINE Under(n) == {o \in Newer : o < n}
    <3>2. Cardinality(Under(l)) < MaxFetch
      BY <3>1 DEF NextLines
    <3>3. \A o \in Newer : o < id => o < l
      <4> SUFFICES ASSUME NEW o \in Newer, o < id PROVE o < l
        OBVIOUS
      <4>1. o \in Nat
        BY <1>0 DEF Newer
      <4> QED
        BY <2>3, <4>1
    <3>4. Under(id) \in SUBSET Under(l)
      BY <3>3
    <3>5. Under(l) \in SUBSET (1 .. nextId - 1)
      BY DEF ServerTypes, Newer
    <3>6. IsFiniteSet(Under(l))
      BY <3>5, Finite
    <3> DEFINE A == Under(id)
               B == Under(l)
    <3> HIDE DEF A, B
    <3>7. Cardinality(A) <= Cardinality(B) /\ Cardinality(A) \in Nat /\ Cardinality(B) \in Nat
      BY <3>4, <3>6, FS_Subset, FS_CardinalityType DEF A, B
    <3>8. Cardinality(A) < MaxFetch
      BY <3>2, <3>7, ChatRoomAssumption DEF B
    <3> QED
      BY <3>1, <3>8 DEF NextLines, A
  <2> QED
    BY <2>4, <2>5
<1> QED
  BY <1>1, <1>2, <1>3 DEF Next, Serve, Count, Insert, CommitRow, Abandon, Age, Speak, Say, Send,
     HearSay, HearSent, Close, TimerFires, FetchFails, HearFetch, Restart, panel, polling

\* OnlyOvertakenAreSkipped is kept.
LEMMA SkippedStep ==
  ASSUME Types, LinesCover, OnlyOvertakenAreSkipped, Next
  PROVE  OnlyOvertakenAreSkipped'
<1> USE DEF Types, PanelTypes
<1>0. /\ committed \subseteq committed' /\ committed \subseteq Nat \ {0}
      /\ committed' \subseteq Nat \ {0}
      /\ ToSet(lines) \subseteq committed /\ fetchedTo \in Nat
  BY ServerTypesStep, FetchedIs DEF ServerTypes
<1>1. CASE UNCHANGED <<fetchedTo, first>> /\ shown \subseteq shown'
  <2> SUFFICES ASSUME NEW id \in committed' \ overtaken', first # 0, first <= id, id <= fetchedTo
               PROVE  id \in shown
    BY <1>1 DEF OnlyOvertakenAreSkipped, Past
  <2>1. CASE id \in committed
    BY <2>1, CommittedIs DEF OnlyOvertakenAreSkipped, Past
  <2>2. CASE id \notin committed
    <3>1. fetchedTo \in committed
      OBVIOUS
    <3>2. fetchedTo < id /\ id \in Nat
      BY <1>0, <2>2, <3>1, CommittedIs
    <3> QED
      BY <1>0, <3>2
  <2> QED
    BY <2>1, <2>2
<1>2. CASE HearFetch
  <2>1. /\ fetchedTo' = Max(ToSet(lines) \cup {fetchedTo}) /\ Add(lines)
        /\ first' = (IF first = 0 /\ lines # <<>> THEN Head(lines) ELSE first)
        /\ UNCHANGED <<committed, overtaken>>
    BY <1>2 DEF HearFetch, server
  <2>2. shown' = shown \cup ToSet(lines)
    <3>1. lines \in Seq(committed')
      BY <1>0, SeqGrows
    <3> QED
      BY <1>0, <2>1, <3>1, AddIs
  <2>3. fetchedTo' \in ToSet(lines) \cup {fetchedTo} /\ fetchedTo' \in Nat
    BY <1>0, <2>1, FetchedIs
  <2> SUFFICES ASSUME NEW id \in committed \ overtaken, first' # 0, first' <= id,
                      id <= fetchedTo'
               PROVE  id \in shown \cup ToSet(lines)
    BY <2>1, <2>2 DEF OnlyOvertakenAreSkipped, Past
  <2>4. id \in Nat \ {0}
    BY <1>0
  <2>5. CASE first # 0 /\ id <= fetchedTo
    BY <2>1, <2>5 DEF OnlyOvertakenAreSkipped, Past
  <2>6. CASE first # 0 /\ ~(id <= fetchedTo)
    <3>1. fetchedTo' \in ToSet(lines) /\ Begins(id)
      BY <1>0, <2>3, <2>4, <2>6 DEF Begins
    <3> QED
      BY <3>1 DEF LinesCover
  <2>7. CASE first = 0
    <3>1. fetchedTo = 0 /\ lines # <<>> /\ first' = Head(lines)
      BY <2>1, <2>7
    <3>2. Begins(id)
      BY <3>1 DEF Begins
    <3>3. fetchedTo' \in ToSet(lines)
      BY <2>3, <2>4, <3>1
    <3> QED
      BY <3>2, <3>3 DEF LinesCover
  <2> QED
    BY <2>5, <2>6, <2>7
<1>3. CASE ~HearFetch
  <2>1. UNCHANGED <<fetchedTo, first>>
    BY <1>3 DEF Next, Serve, Count, Insert, CommitRow, Abandon, Age, Speak, Say, Send,
     HearSay, HearSent, Close, TimerFires, CarryFetch, FetchFails, Restart, panel
  <2>2. shown \subseteq shown'
    BY <1>3 DEF Next, Serve, Count, Insert, CommitRow, Abandon, Age, Speak, Say, Send, Add,
     HearSay, HearSent, Close, TimerFires, CarryFetch, FetchFails, Restart, panel
  <2> QED
    BY <1>1, <2>1, <2>2
<1> QED
  BY <1>2, <1>3

-----------------------------------------------------------------------------
(* The invariant. *)

ChatInv == Types /\ RateInv /\ LinesCover /\ OnlyOvertakenAreSkipped

\* The invariant holds before anything is said.
LEMMA ChatInvInit == Init => ChatInv
<1> SUFFICES ASSUME Init PROVE ChatInv
  OBVIOUS
<1> USE DEF Init
<1>1. Types
  <2>1. ServerTypes /\ SayTypes
    BY FS_EmptySet DEF ServerTypes, SayTypes, Phases
  <2>2. PanelTypes
    <3>1. <<>> \in Seq(committed) /\ Distinct(<<>>) /\ ToSet(<<>>) = {}
      BY DEF Distinct, ToSet
    <3>2. fetching = (fetch # "none")
      OBVIOUS
    <3> QED
      BY <3>1, <3>2 DEF PanelTypes
  <2> QED
    BY <2>1, <2>2 DEF Types
<1>2. RateInv
  <2>1. Serving = {} /\ Counted = {} /\ Inserted = {} /\ recent \cap committed = {}
    BY DEF Serving, Counted, Inserted
  <2>2. Cardinality({}) = 0
    BY FS_EmptySet
  <2>3. RecentAre
    BY DEF RecentAre
  <2>4. Cardinality(Serving) = 0 /\ Cardinality(Counted) = 0
          /\ Cardinality(recent \cap committed) = 0
    BY <2>1, <2>2
  <2> QED
    BY <2>3, <2>4, ChatRoomAssumption DEF RateInv
<1> QED
  BY <1>1, <1>2 DEF ChatInv, LinesCover, OnlyOvertakenAreSkipped

\* And is kept.
LEMMA ChatInvStep == ASSUME ChatInv, [Next]_vars PROVE ChatInv'
<1>1. CASE Next
  BY <1>1, ServerTypesStep, SayTypesStep, PanelTypesStep, RateStep, LinesCoverStep, SkippedStep
     DEF ChatInv, Types
<1>2. CASE UNCHANGED vars
  <2> USE <1>2 DEF vars, server, saying, panel, polling, ChatInv
  <2>1. Types'
    BY DEF Types, ServerTypes, SayTypes, PanelTypes
  <2>2. RateInv'
    BY DEF RateInv, RecentAre, Serving, Counted, Inserted
  <2>3. LinesCover' /\ OnlyOvertakenAreSkipped'
    BY DEF LinesCover, Begins, OnlyOvertakenAreSkipped, Past
  <2> QED
    BY <2>1, <2>2, <2>3
<1> QED
  BY <1>1, <1>2

\* The invariant holds however requests, fetches, rows and closing consoles interleave.
THEOREM ChatHolds == Spec => []ChatInv
BY ChatInvInit, ChatInvStep, PTL DEF Spec

\* The count and the INSERT are apart: an account gets past CHAT_RATE_LIMIT by no more
\* than the lines of it that are served at once (chat.rs).
THEOREM RateStaysBounded == Spec => []RateBounded
<1>1. ChatInv => RateBounded
  BY RateIsBounded DEF ChatInv
<1> QED
  BY <1>1, ChatHolds, PTL

\* The log has each line shown, once.
LEMMA LogIsShownOnce == ASSUME Types PROVE ShownOnce
<1>1. log \in Seq(committed) /\ Distinct(log) /\ shown = ToSet(log)
  BY DEF Types, PanelTypes
<1>2. Len(log) \in Nat /\ DOMAIN log = 1 .. Len(log)
  BY <1>1
<1>3. log \in Bijection(1 .. Len(log), shown)
  <2>1. log \in [1 .. Len(log) -> shown]
    BY <1>1, <1>2 DEF ToSet
  <2>2. \A x \in shown : \E i \in 1 .. Len(log) : log[i] = x
    BY <1>1, <1>2 DEF ToSet
  <2> QED
    BY <1>1, <1>2, <2>1, <2>2 DEF Bijection, Injection, Surjection, IsInjective, Distinct
<1>4. ExistsBijection(1 .. Len(log), shown)
  BY <1>3 DEF ExistsBijection
<1>5. Cardinality(shown) = Len(log)
  BY <1>2, <1>4, FS_CountingElements
<1> QED
  BY <1>1, <1>5 DEF ShownOnce

\* The panel has each line once, and passes over only lines that were committed after
\* one with a higher id (chat.ts, chat.rs).
THEOREM LinesStayKept == Spec => []LinesAreKept
<1>1. ChatInv => LinesAreKept
  <2> SUFFICES ASSUME ChatInv PROVE LinesAreKept
    OBVIOUS
  <2>1. shown \subseteq committed
    BY DEF ChatInv, Types, PanelTypes, ToSet
  <2>2. TypeOK
    BY <2>1 DEF ChatInv, Types, ServerTypes, SayTypes, PanelTypes, TypeOK, Phases
  <2> QED
    BY <2>2, LogIsShownOnce DEF ChatInv, LinesAreKept
<1> QED
  BY <1>1, ChatHolds, PTL
=============================================================================
