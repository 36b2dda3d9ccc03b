------------------------ MODULE RolloutRecorderProofs ------------------------
(***************************************************************************)
(* The recorder of RolloutRecorder implements the log of RolloutLog, and a *)
(* resume loads its items in order, for any number of callers, items,      *)
(* failures and resumes, and a channel of any capacity.                    *)
(***************************************************************************)
EXTENDS RolloutRecorder, Integers, SequenceTheorems, WellFoundedInduction, TLAPS

-----------------------------------------------------------------------------
(* The items picked from a sequence.  The recursion needs an induction on its *)
(* length; it is had from the order of the natural numbers being well-founded. *)

\* A set that has 0 and the successor of each of its numbers has all of them.
LEMMA InductionOnSets ==
    ASSUME NEW X, 0 \in X, \A n \in Nat : n \in X => n + 1 \in X
    PROVE  Nat \subseteq X
<1> DEFINE T == Nat \ X
<1>1. SUFFICES ASSUME T # {} PROVE FALSE
  OBVIOUS
<1>2. PICK x \in T : \A y \in T : ~(<<y, x>> \in OpToRel(<, Nat))
  <2>1. T \subseteq Nat
    OBVIOUS
  <2> HIDE DEF T
  <2> QED BY <1>1, <2>1, NatLessThanWellFounded, WFMin
<1>3. \A y \in T : ~(y < x)
  BY <1>2 DEF OpToRel
<1>4. x # 0 /\ x - 1 \in Nat /\ x - 1 < x
  OBVIOUS
<1>5. x - 1 \in X
  BY <1>3, <1>4
<1> QED BY <1>4, <1>5

\* The equation that defines Picks(s, S).
Picking(g, s, S) ==
    g = [n \in 0 .. Len(s) |->
           IF n = 0 THEN <<>>
           ELSE IF s[n] \in S THEN Append(g[n - 1], s[n].item) ELSE g[n - 1]]

\* Picks(s, S) satisfies it once some function does.
LEMMA PicksEquation ==
    ASSUME NEW s, NEW S, NEW g, Picking(g, s, S)
    PROVE  Picking(Picks(s, S), s, S)
BY Zenon DEF Picks, Picking

\* One element more of s adds its item, if it is in S, and nothing otherwise.
Extend(q, e, S) == IF e \in S THEN Append(q, e.item) ELSE q

\* What Picks computes, step by step.
LEMMA PicksSteps ==
    ASSUME NEW R, NEW s \in Seq(R), NEW S
    PROVE  /\ Picks(s, S) \in [0 .. Len(s) -> Seq({e.item : e \in S})]
           /\ Picks(s, S)[0] = <<>>
           /\ \A n \in 1 .. Len(s) : Picks(s, S)[n] = Extend(Picks(s, S)[n - 1], s[n], S)
<1> DEFINE V == {e.item : e \in S}
<1>0. \A e \in S : e.item \in V
  OBVIOUS
<1>v. Seq(V) = Seq({e.item : e \in S})
  OBVIOUS
<1> HIDE DEF V
<1> DEFINE Steps(g, k) == /\ g \in [0 .. k -> Seq(V)]
                          /\ g[0] = <<>>
                          /\ \A n \in 1 .. k : g[n] = Extend(g[n - 1], s[n], S)
           X == {k \in Nat : k <= Len(s) => \E g : Steps(g, k)}
<1>1. Nat \subseteq X
  <2>1. 0 \in X
    <3> DEFINE z == [n \in {0} |-> <<>>]
    <3>1. <<>> \in Seq(V) /\ 0 .. 0 = {0} /\ 1 .. 0 = {}
      OBVIOUS
    <3>2. z \in [{0} -> Seq(V)] /\ z[0] = <<>>
      BY <3>1
    <3> HIDE DEF z
    <3>3. Steps(z, 0)
      BY <3>1, <3>2
    <3>4. \E g : Steps(g, 0)
      BY <3>3
    <3> HIDE DEF Steps
    <3> QED BY <3>4
  <2>2. ASSUME NEW k \in Nat, k \in X
        PROVE  k + 1 \in X
    <3> HIDE DEF Steps
    <3>1. SUFFICES ASSUME k + 1 <= Len(s) PROVE \E g : Steps(g, k + 1)
      OBVIOUS
    <3>2. PICK g : Steps(g, k)
      BY <2>2, <3>1
    <3> USE DEF Steps
    <3>3. k \in 0 .. k /\ g[k] \in Seq(V) /\ k + 1 \in 1 .. Len(s)
      BY <3>1, <3>2
    <3> DEFINE h == [n \in 0 .. k + 1 |-> IF n = k + 1 THEN Extend(g[k], s[k + 1], S) ELSE g[n]]
    <3>4. Extend(g[k], s[k + 1], S) \in Seq(V)
      BY <1>0, <3>3 DEF Extend
    <3>5. h \in [0 .. k + 1 -> Seq(V)] /\ h[0] = <<>>
      BY <3>2, <3>4
    <3>6. ASSUME NEW n \in 1 .. k + 1
          PROVE  h[n] = Extend(h[n - 1], s[n], S)
      <4>1. CASE n = k + 1
        BY <4>1
      <4>2. CASE n # k + 1
        <5>1. n \in 1 .. k /\ n - 1 \in 0 .. k /\ n - 1 # k + 1
          BY <4>2
        <5>2. h[n] = g[n] /\ h[n - 1] = g[n - 1]
          BY <5>1, <4>2
        <5> QED BY <3>2, <5>1, <5>2
      <4> QED BY <4>1, <4>2
    <3>7. Steps(h, k + 1)
      BY <3>5, <3>6
    <3> HIDE DEF Steps, h
    <3> QED BY <3>7, Zenon
  <2> HIDE DEF X
  <2> QED BY <2>1, <2>2, InductionOnSets
<1>2. Len(s) \in Nat
  OBVIOUS
<1>3. PICK g : Steps(g, Len(s))
  <2>1. Len(s) \in X
    <3> HIDE DEF X
    <3> QED BY <1>1, <1>2
  <2> HIDE DEF Steps
  <2> QED BY <2>1, <1>2
<1>4. g = [n \in 0 .. Len(s) |->
              IF n = 0 THEN <<>>
              ELSE IF s[n] \in S THEN Append(g[n - 1], s[n].item) ELSE g[n - 1]]
  <2>1. g \in [0 .. Len(s) -> Seq(V)] /\ g[0] = <<>>
    BY <1>3
  <2>2. \A n \in 1 .. Len(s) :
           g[n] = IF s[n] \in S THEN Append(g[n - 1], s[n].item) ELSE g[n - 1]
    BY <1>3 DEF Extend
  <2>3. \A n \in 0 .. Len(s) : n = 0 \/ n \in 1 .. Len(s)
    BY <1>2
  <2> HIDE DEF Steps
  <2> QED BY <2>1, <2>2, <2>3
<1> DEFINE P == Picks(s, S)
<1>5. P = [n \in 0 .. Len(s) |->
              IF n = 0 THEN <<>>
              ELSE IF s[n] \in S THEN Append(P[n - 1], s[n].item) ELSE P[n - 1]]
  <2> HIDE DEF Steps
  <2>1. Picking(g, s, S)
    BY <1>4 DEF Picking
  <2>2. Picking(P, s, S)
    BY <2>1, PicksEquation, Zenon
  <2> HIDE DEF P
  <2> QED BY <2>2 DEF Picking
<1>6. \A k \in 0 .. Len(s) : P[k] = g[k]
  <2> DEFINE Y == {k \in Nat : k <= Len(s) => P[k] = g[k]}
  <2> HIDE DEF P, Steps
  <2>1. 0 \in Y
    BY <1>5, <1>4, <1>2
  <2>2. ASSUME NEW k \in Nat, k \in Y
        PROVE  k + 1 \in Y
    <3>1. SUFFICES ASSUME k + 1 <= Len(s) PROVE P[k + 1] = g[k + 1]
      OBVIOUS
    <3>2. k + 1 \in 0 .. Len(s) /\ k + 1 # 0 /\ (k + 1) - 1 = k /\ k <= Len(s)
      BY <3>1, <1>2
    <3>3. P[k] = g[k]
      BY <2>2, <3>2
    <3>4. P[k + 1] = IF s[k + 1] \in S THEN Append(P[k], s[k + 1].item) ELSE P[k]
      BY <1>5, <3>2
    <3>5. g[k + 1] = IF s[k + 1] \in S THEN Append(g[k], s[k + 1].item) ELSE g[k]
      BY <1>4, <3>2
    <3> QED BY <3>3, <3>4, <3>5
  <2>3. Nat \subseteq Y
    <3> HIDE DEF Y
    <3> QED BY <2>1, <2>2, InductionOnSets
  <2> QED BY <2>3, <1>2
<1>7. P = g
  <2> HIDE DEF P, Steps
  <2>1. P = [n \in 0 .. Len(s) |-> P[n]] /\ g = [n \in 0 .. Len(s) |-> g[n]]
    BY <1>4, <1>5
  <2> QED BY <2>1, <1>6
<1> QED BY <1>3, <1>7, <1>v

\* An element goes to the end of the second of two sequences.
LEMMA AppendToConcat ==
    ASSUME NEW V, NEW a \in Seq(V), NEW b \in Seq(V), NEW v \in V
    PROVE  Append(a \o b, v) = a \o Append(b, v)
<1> DEFINE l == Append(a \o b, v)
           r == a \o Append(b, v)
<1>1. a \o b \in Seq(V) /\ Append(b, v) \in Seq(V)
  OBVIOUS
<1>2. l \in Seq(V) /\ r \in Seq(V)
  BY <1>1
<1>3. Len(l) = Len(r) /\ \A i \in 1 .. Len(l) : l[i] = r[i]
  BY <1>1
<1> HIDE DEF l, r
<1>4. l = r
  BY <1>2, <1>3, SeqEqual
<1> QED BY <1>4 DEF l, r

\* A sequence that grows keeps what was picked from it.
LEMMA PicksOfAppend ==
    ASSUME NEW R, NEW s \in Seq(R), NEW x \in R, NEW S
    PROVE  /\ \A n \in 0 .. Len(s) : Picks(Append(s, x), S)[n] = Picks(s, S)[n]
           /\ Picks(Append(s, x), S)[Len(s) + 1] = Extend(Picks(s, S)[Len(s)], x, S)
<1> DEFINE t == Append(s, x)
           P == Picks(s, S)
           Q == Picks(t, S)
           X == {n \in Nat : n <= Len(s) => Q[n] = P[n]}
<1>1. /\ t \in Seq(R) /\ Len(t) = Len(s) + 1 /\ Len(s) \in Nat
      /\ \A n \in 1 .. Len(s) : t[n] = s[n]
      /\ t[Len(s) + 1] = x
  OBVIOUS
<1> HIDE DEF t
<1>2. P[0] = <<>> /\ \A n \in 1 .. Len(s) : P[n] = Extend(P[n - 1], s[n], S)
  BY PicksSteps
<1>3. Q[0] = <<>> /\ \A n \in 1 .. Len(t) : Q[n] = Extend(Q[n - 1], t[n], S)
  BY <1>1, PicksSteps
<1> HIDE DEF P, Q
<1>4. 0 \in X
  BY <1>2, <1>3
<1>5. ASSUME NEW n \in Nat, n \in X
      PROVE  n + 1 \in X
  <2>1. SUFFICES ASSUME n + 1 <= Len(s) PROVE Q[n + 1] = P[n + 1]
    OBVIOUS
  <2>2. n + 1 \in 1 .. Len(s) /\ n + 1 \in 1 .. Len(t) /\ (n + 1) - 1 = n /\ n <= Len(s)
    BY <1>1, <2>1
  <2>3. Q[n] = P[n]
    BY <1>5, <2>2
  <2> QED BY <1>1, <1>2, <1>3, <2>2, <2>3
<1>6. Nat \subseteq X
  <2> HIDE DEF X
  <2> QED BY <1>4, <1>5, InductionOnSets
<1>7. \A n \in 0 .. Len(s) : Q[n] = P[n]
  BY <1>1, <1>6
<1>8. Q[Len(s) + 1] = Extend(P[Len(s)], x, S)
  <2>1. Len(s) + 1 \in 1 .. Len(t) /\ (Len(s) + 1) - 1 = Len(s) /\ Len(s) \in 0 .. Len(s)
    BY <1>1
  <2> QED BY <1>1, <1>3, <1>7, <2>1
<1> QED BY <1>7, <1>8 DEF P, Q, t

\* The first element, taken away, takes its item with it.
LEMMA PicksOfTail ==
    ASSUME NEW R, NEW s \in Seq(R), s # <<>>, NEW S
    PROVE  \A n \in 0 .. Len(Tail(s)) :
              Picks(s, S)[n + 1] = Extend(<<>>, Head(s), S) \o Picks(Tail(s), S)[n]
<1> DEFINE V == {e.item : e \in S}
<1>0. (\A e \in S : e.item \in V) /\ Seq(V) = Seq({e.item : e \in S})
  OBVIOUS
<1> HIDE DEF V
<1> DEFINE t == Tail(s)
           h == Head(s)
           P == Picks(s, S)
           Q == Picks(t, S)
           o == Extend(<<>>, h, S)
           X == {n \in Nat : n <= Len(t) => P[n + 1] = o \o Q[n]}
<1>1. /\ t \in Seq(R) /\ Len(t) + 1 = Len(s) /\ Len(t) \in Nat /\ Len(s) \in Nat
      /\ \A n \in 1 .. Len(t) : t[n] = s[n + 1]
      /\ h = s[1]
  OBVIOUS
<1> HIDE DEF t, h
<1>2. /\ P \in [0 .. Len(s) -> Seq(V)] /\ P[0] = <<>>
      /\ \A n \in 1 .. Len(s) : P[n] = Extend(P[n - 1], s[n], S)
  BY <1>0, PicksSteps
<1>3. /\ Q \in [0 .. Len(t) -> Seq(V)] /\ Q[0] = <<>>
      /\ \A n \in 1 .. Len(t) : Q[n] = Extend(Q[n - 1], t[n], S)
  BY <1>0, <1>1, PicksSteps
<1> HIDE DEF P, Q
<1>4. o \in Seq(V)
  BY <1>0 DEF Extend
<1>5. 0 \in X
  <2>1. 1 \in 1 .. Len(s) /\ 1 - 1 = 0
    BY <1>1
  <2>2. P[1] = o
    BY <1>1, <1>2, <2>1
  <2> HIDE DEF o
  <2>3. o \o Q[0] = o
    BY <1>3, <1>4
  <2> QED BY <2>2, <2>3
<1>6. ASSUME NEW n \in Nat, n \in X
      PROVE  n + 1 \in X
  <2> HIDE DEF o
  <2>1. SUFFICES ASSUME n + 1 <= Len(t) PROVE P[n + 2] = o \o Q[n + 1]
    OBVIOUS
  <2>2. /\ n + 1 \in 1 .. Len(t) /\ (n + 1) - 1 = n /\ n <= Len(t) /\ n \in 0 .. Len(t)
        /\ n + 2 \in 1 .. Len(s) /\ (n + 2) - 1 = n + 1 /\ (n + 1) + 1 = n + 2
    BY <1>1, <2>1
  <2>3. P[n + 1] = o \o Q[n]
    BY <1>6, <2>2
  <2>4. P[n + 2] = Extend(o \o Q[n], t[n + 1], S)
    <3>1. s[n + 2] = t[n + 1]
      BY <1>1, <2>2
    <3>2. P[n + 2] = Extend(P[n + 1], s[n + 2], S)
      BY <1>2, <2>2
    <3> QED BY <2>3, <3>1, <3>2
  <2>5. Q[n + 1] = Extend(Q[n], t[n + 1], S)
    BY <1>3, <2>2
  <2>6. Q[n] \in Seq(V)
    BY <1>3, <2>2
  <2>7. ASSUME NEW v \in V
        PROVE  Append(o \o Q[n], v) = o \o Append(Q[n], v)
    <3> DEFINE q == Q[n]
    <3>1. o \in Seq(V) /\ q \in Seq(V) /\ v \in V
      BY <1>4, <2>6
    <3> HIDE DEF q, X
    <3>2. Append(o \o q, v) = o \o Append(q, v)
      BY <3>1, AppendToConcat
    <3> QED BY <3>2 DEF q
  <2> QED BY <1>0, <2>4, <2>5, <2>7 DEF Extend
<1>7. Nat \subseteq X
  <2> HIDE DEF X
  <2> QED BY <1>5, <1>6, InductionOnSets
<1>8. ASSUME NEW n \in 0 .. Len(t)
      PROVE  P[n + 1] = o \o Q[n]
  <2>1. n \in Nat /\ n <= Len(t)
    BY <1>1
  <2> HIDE DEF o
  <2> QED BY <1>7, <2>1
<1> QED BY <1>8 DEF P, Q, o, t, h

-----------------------------------------------------------------------------
(* The inductive invariant. *)

Whole == {n \in 1 .. Len(file) : file[n].part = "whole"}
Taken == Picks(queue, AddItems)
AddsIn == {k \in 1 .. Len(queue) : queue[k].op = "add"}

\* Nothing is left of a task that ended, and no items are written before the
\* metadata.
JobOK ==
    /\ task = "ended" => job = NoJob /\ queue = <<>> /\ pending = <<>>
    /\ job.at = "idle" => job = NoJob
    /\ job.at = "items" => meta = FALSE
    /\ job.at \in {"meta", "items"} => exists = TRUE

\* A whole line is followed by greater items only, and none is written before
\* the metadata.
FileOK ==
    /\ meta = TRUE => Whole = {}
    /\ \A m \in Whole : \A n \in 1 .. Len(file) : m < n => file[m].item < file[n].item
    /\ \A n \in Whole : file[n].item <= count

\* The buffer continues the file, in order.
PendingOK ==
    /\ \A n \in Whole : \A i \in 1 .. Len(pending) : file[n].item < pending[i]
    /\ \A i, j \in 1 .. Len(pending) : i < j => pending[i] < pending[j]
    /\ \A i \in 1 .. Len(pending) : pending[i] <= count

\* The channel continues the buffer, in order.
QueueOK ==
    /\ \A k \in AddsIn : queue[k].item \in 1 .. count
    /\ \A n \in Whole : \A k \in AddsIn : file[n].item < queue[k].item
    /\ \A i \in 1 .. Len(pending) : \A k \in AddsIn : pending[i] < queue[k].item
    /\ \A k, l \in AddsIn : k < l => queue[k].item < queue[l].item

\* A barrier asks for what was accepted before it: what is written, buffered and
\* in the channel ahead of it.
BarriersOK ==
    /\ \A k \in 1 .. Len(queue) :
          queue[k].upto <= Len(Written) + Len(pending) + Len(Taken[k - 1])
    /\ job.upto <= Len(Written) + Len(pending)
    /\ confirmed <= Len(Written)
    /\ Len(Written) + Len(pending) + Len(Queued) <= count

IInv == TypeOK /\ JobOK /\ FileOK /\ PendingOK /\ QueueOK /\ BarriersOK

-----------------------------------------------------------------------------
(* How the written and the queued items change with the file and the channel. *)

Numbers == 1 .. MaxItems

\* Only items are picked.
LEMMA Pickable ==
    /\ \A s \in Seq({e.item : e \in ItemLines}) : s \in Seq(Numbers)
    /\ \A s \in Seq({e.item : e \in AddItems}) : s \in Seq(Numbers)
<1>1. {e.item : e \in ItemLines} \subseteq Numbers /\ {e.item : e \in AddItems} \subseteq Numbers
  BY DEF ItemLines, AddItems, Numbers
<1>2. /\ Seq({e.item : e \in ItemLines}) \subseteq Seq(Numbers)
      /\ Seq({e.item : e \in AddItems}) \subseteq Seq(Numbers)
  BY <1>1, SeqMonotonic
<1> QED BY <1>2

\* They are sequences of items.
LEMMA PickTypes ==
    ASSUME TypeOK
    PROVE  /\ Written \in Seq(Numbers) /\ Queued \in Seq(Numbers)
           /\ Taken \in [0 .. Len(queue) -> Seq(Numbers)] /\ Taken[0] = <<>>
           /\ Queued = Taken[Len(queue)]
           /\ Len(queue) \in Nat /\ Len(file) \in Nat
<1>1. file \in Seq([item : 0 .. MaxItems, part : Parts]) /\ queue \in Seq(Command)
  BY DEF TypeOK
<1>2. Len(file) \in 0 .. Len(file) /\ Len(queue) \in 0 .. Len(queue) /\ Len(queue) \in Nat /\ Len(file) \in Nat
  BY <1>1
<1>3. Picks(file, ItemLines) \in [0 .. Len(file) -> Seq(Numbers)]
  <2> DEFINE R == [item : 0 .. MaxItems, part : Parts]
  <2>1. file \in Seq(R)
    BY <1>1
  <2> HIDE DEF R
  <2>2. Picks(file, ItemLines) \in [0 .. Len(file) -> Seq({e.item : e \in ItemLines})]
    BY <2>1, PicksSteps
  <2> QED BY <2>2, Pickable
<1>4. Taken \in [0 .. Len(queue) -> Seq(Numbers)] /\ Taken[0] = <<>>
  <2>1. Taken \in [0 .. Len(queue) -> Seq({e.item : e \in AddItems})] /\ Taken[0] = <<>>
    BY <1>1, PicksSteps DEF Taken
  <2> QED BY <2>1, Pickable
<1> QED BY <1>2, <1>3, <1>4 DEF Written, Queued, Taken

\* A line in the file counts when it is whole and has an item.
LEMMA FileGrows ==
    ASSUME TypeOK, NEW x \in 0 .. MaxItems, NEW p \in Parts, file' = Append(file, Line(x, p))
    PROVE  Written' = IF p = "whole" /\ x # Meta THEN Append(Written, x) ELSE Written
<1> DEFINE R == [item : 0 .. MaxItems, part : Parts]
           l == Line(x, p)
<1>1. file \in Seq(R) /\ l \in R
  BY DEF TypeOK, Line
<1>2. Len(file') = Len(file) + 1
  BY <1>1
<1>3. Picks(file', ItemLines)[Len(file) + 1] = Extend(Picks(file, ItemLines)[Len(file)], l, ItemLines)
  <2> HIDE DEF R, l
  <2>1. file' = Append(file, l)
    BY DEF l
  <2> QED BY <1>1, <2>1, PicksOfAppend
<1>4. Written' = Extend(Written, l, ItemLines)
  BY <1>2, <1>3 DEF Written
<1>5. (l \in ItemLines <=> p = "whole" /\ x # Meta) /\ l.item = x
  BY BoundsAreNaturals DEF ItemLines, Line, Meta
<1> QED BY <1>4, <1>5 DEF Extend

\* A command at the end of the channel adds its item behind the others.
LEMMA QueueGrows ==
    ASSUME TypeOK, NEW m \in Command, queue' = Append(queue, m)
    PROVE  /\ Len(queue') = Len(queue) + 1
           /\ \A k \in 0 .. Len(queue) : Taken'[k] = Taken[k]
           /\ Queued' = IF m \in AddItems THEN Append(Queued, m.item) ELSE Queued
<1>1. queue \in Seq(Command)
  BY DEF TypeOK
<1>2. Len(queue') = Len(queue) + 1
  BY <1>1
<1>3. /\ \A n \in 0 .. Len(queue) : Picks(queue', AddItems)[n] = Picks(queue, AddItems)[n]
      /\ Picks(queue', AddItems)[Len(queue) + 1] = Extend(Picks(queue, AddItems)[Len(queue)], m, AddItems)
  BY <1>1, PicksOfAppend
<1> QED BY <1>2, <1>3 DEF Queued, Taken, Extend

\* The first command takes its item out of the channel.
LEMMA QueueShrinks ==
    ASSUME TypeOK, queue # <<>>, queue' = Tail(queue)
    PROVE  /\ Len(queue') + 1 = Len(queue)
           /\ \A k \in 0 .. Len(queue') :
                 Taken[k + 1] = IF Head(queue) \in AddItems THEN <<Head(queue).item>> \o Taken'[k] ELSE Taken'[k]
           /\ Queued = IF Head(queue) \in AddItems THEN <<Head(queue).item>> \o Queued' ELSE Queued'
<1>1. queue \in Seq(Command) /\ queue' \in Seq(Command)
  BY DEF TypeOK
<1>2. Len(queue') + 1 = Len(queue) /\ Len(queue') \in Nat
  BY <1>1
<1>3. ASSUME NEW k \in 0 .. Len(queue')
      PROVE  Taken[k + 1] = IF Head(queue) \in AddItems THEN <<Head(queue).item>> \o Taken'[k] ELSE Taken'[k]
  <2>1. Picks(queue, AddItems)[k + 1] = Extend(<<>>, Head(queue), AddItems) \o Picks(queue', AddItems)[k]
    BY <1>1, PicksOfTail
  <2>2. Picks(queue', AddItems)[k] \in Seq(Numbers)
    <3>1. Picks(queue', AddItems) \in [0 .. Len(queue') -> Seq({e.item : e \in AddItems})]
      BY <1>1, PicksSteps
    <3> QED BY <3>1, Pickable
  <2>3. <<>> \o Picks(queue', AddItems)[k] = Picks(queue', AddItems)[k]
    BY <2>2
  <2>4. Extend(<<>>, Head(queue), AddItems) = IF Head(queue) \in AddItems THEN <<Head(queue).item>> ELSE <<>>
    BY DEF Extend
  <2> QED BY <2>1, <2>3, <2>4 DEF Taken
<1> QED BY <1>2, <1>3 DEF Queued, Taken

-----------------------------------------------------------------------------
(* What the shared parts of the actions do. *)

Lines == [item : 0 .. MaxItems, part : Parts]
Jobs == [at : {"idle", "open", "meta", "items"}, op : {"none", "add"} \cup Barriers,
         by : Clients \cup {None}, upto : 0 .. MaxItems, attempt : 0 .. 2]

\* A new line follows those of the file.
LEMMA LineAdded ==
    ASSUME TypeOK, NEW x \in 0 .. MaxItems, NEW p \in Parts, file' = Append(file, Line(x, p))
    PROVE  /\ file' \in Seq(Lines) /\ Len(file') = Len(file) + 1 /\ Len(file) \in Nat
           /\ \A n \in 1 .. Len(file) : file'[n] = file[n]
           /\ file'[Len(file) + 1].item = x /\ file'[Len(file) + 1].part = p
<1>1. file \in Seq(Lines) /\ Line(x, p) \in Lines
  BY DEF TypeOK, Line, Lines
<1>2. Line(x, p).item = x /\ Line(x, p).part = p
  BY DEF Line
<1> HIDE DEF Line, Lines
<1> QED BY <1>1, <1>2

\* A write that does not complete leaves no whole line and writes no item.
LEMMA LeavingsForm ==
    ASSUME TypeOK, NEW x \in 0 .. MaxItems, file' \in Leavings(x)
    PROVE  /\ file' \in Seq(Lines) /\ Len(file) \in Nat /\ Len(file') \in Nat /\ Len(file) <= Len(file')
           /\ Written' = Written
           /\ Whole' = Whole
           /\ \A n \in 1 .. Len(file) : file'[n] = file[n]
           /\ \A n \in 1 .. Len(file') : n \in 1 .. Len(file) \/ file'[n].item = x
<1>1. CASE file' = file
  <2>1. file \in Seq(Lines) /\ Len(file) \in Nat
    BY DEF TypeOK, Lines
  <2> QED BY <1>1, <2>1 DEF Written, Whole
<1>2. ASSUME NEW p \in {"bare", "torn"}, file' = Append(file, Line(x, p))
      PROVE  /\ file' \in Seq(Lines) /\ Len(file) \in Nat /\ Len(file') \in Nat /\ Len(file) <= Len(file')
             /\ Written' = Written
             /\ Whole' = Whole
             /\ \A n \in 1 .. Len(file) : file'[n] = file[n]
             /\ \A n \in 1 .. Len(file') : n \in 1 .. Len(file) \/ file'[n].item = x
  <2>1. p \in Parts /\ p # "whole"
    BY <1>2 DEF Parts
  <2>2. Written' = Written
    BY <1>2, <2>1, FileGrows
  <2>3. /\ file' \in Seq(Lines) /\ Len(file') = Len(file) + 1 /\ Len(file) \in Nat
        /\ \A n \in 1 .. Len(file) : file'[n] = file[n]
        /\ file'[Len(file) + 1].item = x /\ file'[Len(file) + 1].part = p
    BY <1>2, <2>1, LineAdded
  <2>4. Whole' = Whole
    BY <2>1, <2>3 DEF Whole
  <2> QED BY <2>2, <2>3, <2>4
<1>3. file' = file \/ file' = Append(file, Line(x, "bare")) \/ file' = Append(file, Line(x, "torn"))
  BY DEF Leavings
<1> QED BY <1>1, <1>2, <1>3

\* An empty channel has no items.
LEMMA EmptyQueue ==
    ASSUME queue' = <<>>
    PROVE  Queued' = <<>> /\ Len(queue') = 0
<1>1. <<>> \in Seq(Command) /\ Len(<<>>) = 0
  OBVIOUS
<1>2. Picks(<<>>, AddItems)[0] = <<>>
  BY <1>1, PicksSteps
<1>3. Queued' = Picks(queue', AddItems)[Len(queue')]
  BY DEF Queued
<1> QED BY <1>1, <1>2, <1>3

\* The greater of two numbers.
LEMMA MaxOfTwo ==
    ASSUME NEW a \in Nat, NEW b \in Nat
    PROVE  Max({a, b}) = IF a >= b THEN a ELSE b
BY DEF Max

\* The answer to a command confirms what it asked for, or nothing.
LEMMA AnswerForm ==
    ASSUME TypeOK, NEW m, m.upto \in 0 .. MaxItems, NEW ok \in BOOLEAN, Answer(m, ok)
    PROVE  /\ client' \in [Clients -> {"idle", "flushing", "waiting"}]
           /\ confirmed' = confirmed \/ (ok = TRUE /\ confirmed' = m.upto /\ confirmed <= m.upto)
           /\ task' = task \/ (ok = TRUE /\ task' = "ended")
           /\ task' \in {"running", "ended"}
<1>1. /\ confirmed \in Nat /\ m.upto \in Nat /\ task \in {"running", "ended"}
      /\ client \in [Clients -> {"idle", "flushing", "waiting"}]
  BY BoundsAreNaturals DEF TypeOK
<1>2. Max({confirmed, m.upto}) = IF confirmed >= m.upto THEN confirmed ELSE m.upto
  BY <1>1, MaxOfTwo
<1> QED BY <1>1, <1>2 DEF Answer

\* A failed attempt ends the command or starts it again; it confirms nothing.
LEMMA FailsForm ==
    ASSUME TypeOK, JobOK, job.at # "idle", Fails
    PROVE  /\ UNCHANGED <<task, queue, confirmed>> /\ task = "running"
           /\ job' = NoJob \/ job' = Retries(job)
           /\ client' \in [Clients -> {"idle", "flushing", "waiting"}]
           /\ open' = FALSE /\ failures' \in 0 .. MaxFailures
<1>1. task = "running" /\ job.upto \in 0 .. MaxItems
  BY DEF TypeOK, JobOK, NoJob
<1>2. failures' \in 0 .. MaxFailures
  BY BoundsAreNaturals DEF TypeOK, Fails
<1>3. CASE job.attempt = 1
  BY <1>1, <1>2, <1>3 DEF Fails, TypeOK
<1>4. CASE job.attempt # 1
  <2>1. Answer(job, FALSE) /\ job' = NoJob /\ queue' = Rest(task' = "ended", queue) /\ open' = FALSE
    BY <1>4 DEF Fails
  <2>2. client' \in [Clients -> {"idle", "flushing", "waiting"}] /\ confirmed' = confirmed /\ task' = task
    BY <1>1, <2>1, AnswerForm
  <2> QED BY <1>1, <1>2, <2>1, <2>2 DEF Rest
<1> QED BY <1>3, <1>4

-----------------------------------------------------------------------------
(* Every step keeps every part of the invariant. *)

\* How many items were accepted.
LEMMA AcceptedLength ==
    ASSUME TypeOK
    PROVE  /\ Len(Accepted) = Len(Written) + Len(pending) + Len(Queued)
           /\ Len(Written) \in Nat /\ Len(pending) \in Nat /\ Len(Queued) \in Nat
<1>1. Written \in Seq(Numbers) /\ Queued \in Seq(Numbers) /\ pending \in Seq(Numbers)
  BY PickTypes DEF TypeOK, Numbers
<1> HIDE DEF Numbers
<1>2. Written \o pending \in Seq(Numbers) /\ Len(Written \o pending) = Len(Written) + Len(pending)
  BY <1>1, ConcatProperties
<1> QED BY <1>1, <1>2, ConcatProperties DEF Accepted

\* What a caller sends.
LEMMA SendForm ==
    ASSUME TypeOK, BarriersOK, NEW c \in Clients, NEW op \in Barriers, Send(c, op)
    PROVE  \E m \in Command :
              /\ queue' = Append(queue, m) /\ m.op = op /\ m.item = 0
              /\ m.upto = Len(Written) + Len(pending) + Len(Queued)
              /\ m \notin AddItems
<1> DEFINE m == [op |-> op, by |-> c, item |-> 0, upto |-> Len(Accepted)]
<1>1. Len(Accepted) \in 0 .. MaxItems
  BY AcceptedLength, BoundsAreNaturals DEF BarriersOK, TypeOK
<1>2. m \in Command
  BY <1>1, BoundsAreNaturals DEF Command
<1>3. m.op = op /\ m.item = 0 /\ m.upto = Len(Written) + Len(pending) + Len(Queued) /\ m \notin AddItems
  BY AcceptedLength DEF AddItems
<1>4. queue' = Append(queue, m)
  BY DEF Send
<1> HIDE DEF m
<1> QED BY <1>2, <1>3, <1>4

\* The first command in the channel.
LEMMA HeadForm ==
    ASSUME TypeOK, queue # <<>>
    PROVE  /\ Head(queue) \in Command /\ Head(queue) = queue[1] /\ 1 \in 1 .. Len(queue)
           /\ Tail(queue) \in Seq(Command) /\ Len(Tail(queue)) + 1 = Len(queue) /\ Len(queue) \in Nat
           /\ \A k \in 1 .. Len(Tail(queue)) : Tail(queue)[k] = queue[k + 1]
<1>1. queue \in Seq(Command)
  BY DEF TypeOK
<1> HIDE DEF Command
<1> QED BY <1>1

\* The first item in the buffer.
LEMMA PendingForm ==
    ASSUME TypeOK, pending # <<>>
    PROVE  /\ Head(pending) \in 1 .. MaxItems /\ Head(pending) = pending[1] /\ 1 \in 1 .. Len(pending)
           /\ Tail(pending) \in Seq(1 .. MaxItems) /\ Len(Tail(pending)) + 1 = Len(pending) /\ Len(pending) \in Nat
           /\ \A k \in 1 .. Len(Tail(pending)) : Tail(pending)[k] = pending[k + 1]
<1>1. pending \in Seq(Numbers)
  BY DEF TypeOK, Numbers
<1> HIDE DEF Numbers
<1>2. /\ Head(pending) \in Numbers /\ Head(pending) = pending[1] /\ 1 \in 1 .. Len(pending)
      /\ Tail(pending) \in Seq(Numbers) /\ Len(Tail(pending)) + 1 = Len(pending) /\ Len(pending) \in Nat
      /\ \A k \in 1 .. Len(Tail(pending)) : Tail(pending)[k] = pending[k + 1]
  BY <1>1
<1> QED BY <1>2 DEF Numbers

\* A command that starts, or is retried, is a job; so is none.
LEMMA JobTypes ==
    /\ NoJob \in Jobs
    /\ \A m \in Command : Starts(m) \in Jobs
    /\ \A j \in Jobs : Retries(j) \in Jobs
<1>1. NoJob \in Jobs
  BY BoundsAreNaturals DEF NoJob, Jobs
<1>2. \A m \in Command : Starts(m) \in Jobs
  BY DEF Command, Jobs, Starts
<1>3. \A j \in Jobs : Retries(j) \in Jobs
  BY DEF Jobs, Retries
<1> QED BY <1>1, <1>2, <1>3

\* The variables stay in their sets.
LEMMA TypeStep ==
    ASSUME IInv, [Next]_vars
    PROVE  TypeOK'
<1> USE BoundsAreNaturals
<1>0. TypeOK /\ JobOK /\ QueueOK /\ BarriersOK
  BY DEF IInv
<1>j. job \in Jobs
  BY <1>0 DEF TypeOK, Jobs
<1>q. queue \in Seq(Command) /\ Len(queue) \in 0 .. QueueLimit
  BY <1>0 DEF TypeOK
<1>1. ASSUME NEW c \in Clients, AppendItems(c) PROVE TypeOK'
  <2> DEFINE m == [op |-> "add", by |-> None, item |-> count + 1, upto |-> 0]
  <2>1. count + 1 \in 1 .. MaxItems /\ queue' = Append(queue, m) /\ count' = count + 1
    BY <1>0, <1>1 DEF AppendItems, TypeOK
  <2>2. m \in Command
    BY <2>1 DEF Command
  <2>3. Len(queue) < QueueLimit
    BY <1>1 DEF AppendItems, CanSend
  <2> HIDE DEF m
  <2>4. queue' \in Seq(Command) /\ Len(queue') <= QueueLimit
    <3> HIDE DEF Command
    <3> QED BY <1>q, <2>1, <2>2, <2>3
  <2> QED BY <1>0, <1>1, <2>1, <2>4 DEF AppendItems, TypeOK, writerVars, fileVars, boundVars
<1>2. ASSUME NEW c \in Clients, NEW op \in Barriers, Send(c, op) PROVE TypeOK'
  <2>1. PICK m \in Command : queue' = Append(queue, m)
    BY <1>0, <1>2, SendForm
  <2>2. Len(queue) < QueueLimit
    BY <1>2 DEF Send, CanSend
  <2>3. queue' \in Seq(Command) /\ Len(queue') <= QueueLimit
    <3> HIDE DEF Command
    <3> QED BY <1>q, <2>1, <2>2
  <2> QED BY <1>0, <1>2, <2>3 DEF Send, TypeOK, writerVars, fileVars, boundVars
<1>3. ASSUME TakeItems PROVE TypeOK'
  <2>1. queue # <<>> /\ Head(queue).op = "add"
    BY <1>3 DEF TakeItems
  <2>2. Head(queue).item \in 1 .. MaxItems
    <3>1. queue[1].item \in 1 .. count
      BY <1>0, <2>1, HeadForm DEF QueueOK, AddsIn
    <3> QED BY <1>0, <2>1, <3>1, HeadForm DEF TypeOK
  <2>3. pending' \in Seq(1 .. MaxItems)
    BY <1>0, <1>3, <2>2 DEF TakeItems, TypeOK
  <2>4. queue' \in Seq(Command) /\ Len(queue') <= QueueLimit
    BY <1>0, <1>3, <1>q, <2>1, HeadForm DEF TakeItems
  <2>5. job' \in Jobs
    BY <1>0, <1>3, <2>1, HeadForm, JobTypes DEF TakeItems
  <2> QED BY <1>0, <1>3, <2>3, <2>4, <2>5 DEF TakeItems, TypeOK, Jobs, fileVars, boundVars
<1>4. ASSUME TakeBarrier PROVE TypeOK'
  <2> DEFINE m == Head(queue)
  <2>1. queue # <<>> /\ m.upto \in 0 .. MaxItems /\ m \in Command
    BY <1>0, <1>4, HeadForm DEF TakeBarrier, Command
  <2>2. /\ client' \in [Clients -> {"idle", "flushing", "waiting"}] /\ confirmed' \in 0 .. MaxItems
        /\ task' \in {"running", "ended"} /\ job' \in Jobs
    <3>1. CASE NothingToDo(m)
      <4>1. Answer(m, TRUE) /\ job' = NoJob
        BY <1>4, <3>1 DEF TakeBarrier
      <4> HIDE DEF m
      <4> QED BY <1>0, <2>1, <4>1, AnswerForm, JobTypes DEF TypeOK
    <3>2. CASE ~NothingToDo(m)
      <4>1. job' = Starts(m) /\ UNCHANGED <<client, confirmed, task>>
        BY <1>4, <3>2 DEF TakeBarrier
      <4> QED BY <1>0, <2>1, <4>1, JobTypes DEF TypeOK
    <3> QED BY <3>1, <3>2
  <2>3. queue' \in Seq(Command) /\ Len(queue') <= QueueLimit
    <3>1. queue' = <<>> \/ queue' = Tail(queue)
      BY <1>4 DEF TakeBarrier, Rest
    <3>2. <<>> \in Seq(Command) /\ Len(<<>>) = 0
      OBVIOUS
    <3>3. Tail(queue) \in Seq(Command) /\ Len(Tail(queue)) <= QueueLimit
      BY <1>0, <1>q, <2>1, HeadForm
    <3>4. 0 <= QueueLimit
      OBVIOUS
    <3>5. CASE queue' = <<>>
      BY <3>2, <3>4, <3>5
    <3> QED BY <3>1, <3>3, <3>5
  <2> QED BY <1>0, <1>4, <2>2, <2>3 DEF TakeBarrier, TypeOK, Jobs, fileVars, boundVars
<1>5. ASSUME OpenFile PROVE TypeOK'
  <2>1. job' \in Jobs
    BY <1>5, <1>j DEF OpenFile, Jobs
  <2> QED BY <1>0, <1>5, <2>1 DEF OpenFile, TypeOK, Jobs, boundVars
<1>6. ASSUME OpenFails PROVE TypeOK'
  <2>1. job.at # "idle" /\ Fails
    BY <1>6 DEF OpenFails
  <2>2. job' \in Jobs
    BY <1>0, <1>j, <2>1, FailsForm, JobTypes
  <2> QED BY <1>0, <1>6, <2>1, <2>2, FailsForm DEF OpenFails, TypeOK, Jobs, fileVars
<1>7. ASSUME WriteMeta PROVE TypeOK'
  <2>1. job' \in Jobs
    BY <1>7, <1>j DEF WriteMeta, Jobs
  <2>2. file' \in Seq(Lines) /\ exists = TRUE
    <3>1. exists = TRUE /\ 0 \in 0 .. MaxItems /\ "whole" \in Parts
      BY <1>0, <1>7 DEF WriteMeta, JobOK, Parts
    <3>2. CASE file' = file
      BY <1>0, <3>1, <3>2 DEF TypeOK, Lines
    <3>3. CASE file' = Append(file, Line(0, "whole"))
      BY <1>0, <3>1, <3>3, LineAdded
    <3> QED BY <1>7, <3>2, <3>3 DEF WriteMeta, Meta
  <2> QED BY <1>0, <1>7, <2>1, <2>2 DEF WriteMeta, TypeOK, Jobs, Lines, boundVars
<1>8. ASSUME MetaFails PROVE TypeOK'
  <2>1. job.at = "meta" /\ job.at # "idle" /\ Fails /\ exists = TRUE /\ 0 \in 0 .. MaxItems
    BY <1>0, <1>8 DEF MetaFails, JobOK
  <2>2. job' \in Jobs
    BY <1>0, <1>j, <2>1, FailsForm, JobTypes
  <2>3. file' \in Seq(Lines)
    BY <1>0, <1>8, <2>1, LeavingsForm DEF MetaFails, Meta
  <2> QED BY <1>0, <1>8, <2>1, <2>2, <2>3, FailsForm DEF MetaFails, TypeOK, Jobs, Lines
<1>9. ASSUME WriteItem PROVE TypeOK'
  <2>1. pending # <<>> /\ exists = TRUE /\ "whole" \in Parts
    BY <1>0, <1>9 DEF WriteItem, JobOK, Parts
  <2>2. Head(pending) \in 0 .. MaxItems /\ Tail(pending) \in Seq(1 .. MaxItems)
    BY <1>0, <2>1, PendingForm
  <2>3. file' \in Seq(Lines)
    BY <1>0, <1>9, <2>1, <2>2, LineAdded DEF WriteItem
  <2> QED BY <1>0, <1>9, <2>1, <2>2, <2>3 DEF WriteItem, TypeOK, Lines, boundVars
<1>10. ASSUME ItemFails PROVE TypeOK'
  <2>1. job.at = "items" /\ job.at # "idle" /\ Fails /\ exists = TRUE /\ pending # <<>>
    BY <1>0, <1>10 DEF ItemFails, JobOK
  <2>2. job' \in Jobs
    BY <1>0, <1>j, <2>1, FailsForm, JobTypes
  <2>3. Head(pending) \in 0 .. MaxItems
    BY <1>0, <2>1, PendingForm
  <2>4. file' \in Seq(Lines)
    BY <1>0, <1>10, <2>3, LeavingsForm DEF ItemFails
  <2> QED BY <1>0, <1>10, <2>1, <2>2, <2>4, FailsForm DEF ItemFails, TypeOK, Jobs, Lines
<1>11. ASSUME Done PROVE TypeOK'
  <2>1. job.upto \in 0 .. MaxItems /\ Answer(job, TRUE) /\ job' = NoJob
    BY <1>11, <1>j DEF Done, Jobs
  <2>2. queue' \in Seq(Command) /\ Len(queue') <= QueueLimit
    <3>1. queue' = <<>> \/ queue' = queue
      BY <1>11 DEF Done, Rest
    <3>2. <<>> \in Seq(Command) /\ Len(<<>>) = 0
      OBVIOUS
    <3>3. 0 <= QueueLimit
      OBVIOUS
    <3>4. CASE queue' = <<>>
      BY <3>2, <3>3, <3>4
    <3> QED BY <1>q, <3>1, <3>4
  <2>3. /\ client' \in [Clients -> {"idle", "flushing", "waiting"}] /\ confirmed' \in 0 .. MaxItems
        /\ task' \in {"running", "ended"} /\ job' \in Jobs
    BY <1>0, <2>1, AnswerForm, JobTypes DEF TypeOK
  <2> QED BY <1>0, <1>11, <2>2, <2>3 DEF Done, TypeOK, Jobs, fileVars, boundVars
<1>12. ASSUME Crash PROVE TypeOK'
  <2>1. file' \in Seq(Lines) /\ (file' # <<>> => exists = TRUE)
    <3>1. CASE file' = file
      BY <1>0, <3>1 DEF TypeOK, Lines
    <3>2. CASE job.at = "meta" /\ meta /\ file' \in Leavings(Meta)
      <4>1. 0 \in 0 .. MaxItems /\ exists = TRUE
        BY <1>0, <3>2 DEF JobOK
      <4> QED BY <1>0, <3>2, <4>1, LeavingsForm DEF Meta
    <3>3. CASE job.at = "items" /\ pending # <<>> /\ file' \in Leavings(Head(pending))
      <4>1. Head(pending) \in 0 .. MaxItems /\ exists = TRUE
        BY <1>0, <3>3, PendingForm DEF JobOK
      <4> QED BY <1>0, <3>3, <4>1, LeavingsForm
    <3> QED BY <1>12, <3>1, <3>2, <3>3 DEF Crash
  <2>2. job' \in Jobs /\ queue' = <<>> /\ pending' = <<>>
    BY <1>12, JobTypes DEF Crash
  <2> QED BY <1>0, <1>12, <2>1, <2>2 DEF Crash, TypeOK, Jobs, Lines, boundVars
<1>13. ASSUME Resume PROVE TypeOK'
  <2>1. /\ UNCHANGED <<client, queue, job, pending, exists, file, count, confirmed, failures>>
        /\ task' = "running" /\ open' = TRUE /\ deferred' = FALSE /\ meta' = FALSE
    BY <1>13 DEF Resume, fileVars
  <2>2. resumes' \in 0 .. MaxResumes
    BY <1>0, <1>13 DEF Resume, TypeOK
  <2> QED BY <1>0, <2>1, <2>2 DEF TypeOK
<1>14. CASE UNCHANGED vars
  BY <1>0, <1>14 DEF vars, writerVars, fileVars, boundVars, TypeOK
<1> QED
  BY <1>1, <1>2, <1>3, <1>4, <1>5, <1>6, <1>7, <1>8, <1>9, <1>10, <1>11, <1>12, <1>13, <1>14
     DEF Next, WriterStep, AppendFlushes, Barrier, Barriers

\* An ended task has nothing left, and the file exists while it is written.
LEMMA JobStep ==
    ASSUME IInv, [Next]_vars
    PROVE  JobOK'
<1>0. TypeOK /\ JobOK
  BY DEF IInv
<1>f. ASSUME job.at # "idle", Fails, UNCHANGED <<pending, meta, exists>>
      PROVE  JobOK'
  <2>1. task' = "running" /\ (job' = NoJob \/ job' = Retries(job))
    BY <1>0, <1>f, FailsForm
  <2>2. NoJob.at = "idle" /\ Retries(job).at = "open"
    BY DEF NoJob, Retries
  <2> QED BY <2>1, <2>2 DEF JobOK
<1>1. ASSUME NEW c \in Clients, AppendItems(c) PROVE JobOK'
  BY <1>0, <1>1 DEF AppendItems, CanSend, JobOK, writerVars, fileVars
<1>2. ASSUME NEW c \in Clients, NEW op \in Barriers, Send(c, op) PROVE JobOK'
  BY <1>0, <1>2 DEF Send, CanSend, JobOK, writerVars, fileVars
<1>3. ASSUME TakeItems PROVE JobOK'
  BY <1>0, <1>3 DEF TakeItems, JobOK, Starts, NoJob, fileVars
<1>4. ASSUME TakeBarrier PROVE JobOK'
  <2> DEFINE m == Head(queue)
  <2>1. UNCHANGED <<pending, meta, exists>> /\ task = "running"
    BY <1>4 DEF TakeBarrier, fileVars
  <2>2. CASE NothingToDo(m)
    <3>1. job' = NoJob /\ pending = <<>> /\ (task' = "ended" => queue' = <<>>)
      BY <1>4, <2>2 DEF TakeBarrier, NothingToDo, Rest
    <3> QED BY <2>1, <3>1 DEF JobOK, NoJob
  <2>3. CASE ~NothingToDo(m)
    <3>1. job' = Starts(m) /\ task' = task
      BY <1>4, <2>3 DEF TakeBarrier
    <3> QED BY <2>1, <3>1 DEF JobOK, Starts
  <2> QED BY <2>2, <2>3
<1>5. ASSUME OpenFile PROVE JobOK'
  <2>1. job' = [job EXCEPT !.at = "meta"] /\ job.at = "open" /\ exists' = TRUE /\ UNCHANGED <<task, meta>>
    BY <1>5 DEF OpenFile
  <2>2. job'.at = "meta"
    BY <1>0, <2>1 DEF TypeOK
  <2>3. task = "running"
    BY <1>0, <2>1 DEF JobOK, TypeOK, NoJob
  <2> QED BY <2>1, <2>2, <2>3 DEF JobOK
<1>6. ASSUME OpenFails PROVE JobOK'
  <2>1. job.at # "idle" /\ Fails /\ UNCHANGED <<pending, meta, exists>>
    BY <1>6 DEF OpenFails, fileVars
  <2> QED BY <1>f, <2>1
<1>7. ASSUME WriteMeta PROVE JobOK'
  <2>1. job' = [job EXCEPT !.at = "items"] /\ job.at = "meta" /\ meta' = FALSE /\ UNCHANGED <<task, exists>>
    BY <1>7 DEF WriteMeta
  <2>2. job'.at = "items"
    BY <1>0, <2>1 DEF TypeOK
  <2>3. task = "running" /\ exists = TRUE
    BY <1>0, <2>1 DEF JobOK, TypeOK, NoJob
  <2> QED BY <2>1, <2>2, <2>3 DEF JobOK
<1>8. ASSUME MetaFails PROVE JobOK'
  <2>1. job.at # "idle" /\ Fails /\ UNCHANGED <<pending, meta, exists>>
    BY <1>8 DEF MetaFails
  <2> QED BY <1>f, <2>1
<1>9. ASSUME WriteItem PROVE JobOK'
  <2>1. job.at = "items" /\ UNCHANGED <<task, job, meta, exists, queue>>
    BY <1>9 DEF WriteItem
  <2>2. task = "running"
    BY <1>0, <2>1 DEF JobOK, TypeOK, NoJob
  <2> QED BY <1>0, <2>1, <2>2 DEF JobOK
<1>10. ASSUME ItemFails PROVE JobOK'
  <2>1. job.at # "idle" /\ Fails /\ UNCHANGED <<pending, meta, exists>>
    BY <1>10 DEF ItemFails
  <2> QED BY <1>f, <2>1
<1>11. ASSUME Done PROVE JobOK'
  <2>1. job' = NoJob /\ pending' = <<>> /\ (task' = "ended" => queue' = <<>>)
    BY <1>11 DEF Done, Rest
  <2> QED BY <2>1 DEF JobOK, NoJob
<1>12. ASSUME Crash PROVE JobOK'
  BY <1>12 DEF Crash, JobOK, NoJob
<1>13. ASSUME Resume PROVE JobOK'
  BY <1>0, <1>13 DEF Resume, JobOK, fileVars
<1>14. CASE UNCHANGED vars
  BY <1>0, <1>14 DEF vars, writerVars, fileVars, JobOK
<1> QED
  BY <1>1, <1>2, <1>3, <1>4, <1>5, <1>6, <1>7, <1>8, <1>9, <1>10, <1>11, <1>12, <1>13, <1>14
     DEF Next, WriterStep, AppendFlushes, Barrier, Barriers

\* A line is added behind smaller ones only.
LEMMA FileStep ==
    ASSUME IInv, [Next]_vars
    PROVE  FileOK'
<1>0. TypeOK /\ JobOK /\ FileOK /\ PendingOK
  BY DEF IInv
<1>c. count \in Nat /\ \A n \in 1 .. Len(file) : file[n].item \in Nat
  <2>1. file \in Seq(Lines) /\ count \in Nat
    BY <1>0, BoundsAreNaturals DEF TypeOK, Lines
  <2>2. \A l \in Lines : l.item \in Nat
    BY BoundsAreNaturals DEF Lines
  <2> QED BY <2>1, <2>2
<1>u. ASSUME UNCHANGED file, count' = count \/ count' = count + 1, meta' = meta \/ meta' = FALSE
      PROVE  FileOK'
  BY <1>0, <1>c, <1>u DEF FileOK, Whole
<1>l. ASSUME NEW x \in 0 .. MaxItems, file' \in Leavings(x), UNCHANGED <<count, meta>>,
             \A n \in Whole : file[n].item < x
      PROVE  FileOK'
  <2>1. /\ Whole' = Whole /\ Whole \subseteq 1 .. Len(file)
        /\ \A n \in 1 .. Len(file) : file'[n] = file[n]
        /\ \A n \in 1 .. Len(file') : n \in 1 .. Len(file) \/ file'[n].item = x
    BY <1>0, <1>l, LeavingsForm DEF Whole
  <2>2. \A m \in Whole' : \A n \in 1 .. Len(file') : m < n => file'[m].item < file'[n].item
    BY <1>0, <1>l, <2>1 DEF FileOK
  <2> QED BY <1>0, <1>l, <2>1, <2>2 DEF FileOK
<1>w. ASSUME NEW x \in 0 .. MaxItems, file' = Append(file, Line(x, "whole")), UNCHANGED count,
             meta' = FALSE, x <= count, \A n \in Whole : file[n].item < x
      PROVE  FileOK'
  <2>1. /\ Len(file') = Len(file) + 1 /\ Len(file) \in Nat
        /\ \A n \in 1 .. Len(file) : file'[n] = file[n]
        /\ file'[Len(file) + 1].item = x
    BY <1>0, <1>w, LineAdded DEF Parts
  <2>2. \A n \in Whole' : n \in Whole \/ n = Len(file) + 1
    BY <2>1 DEF Whole
  <2>3. Whole \subseteq 1 .. Len(file)
    BY DEF Whole
  <2>4. ASSUME NEW m \in Whole', NEW n \in 1 .. Len(file'), m < n
        PROVE  file'[m].item < file'[n].item
    <3>1. m \in Whole
      BY <2>1, <2>2, <2>4
    <3>2. CASE n \in 1 .. Len(file)
      BY <1>0, <2>1, <2>3, <2>4, <3>1, <3>2 DEF FileOK
    <3>3. CASE n = Len(file) + 1
      BY <1>w, <2>1, <2>3, <3>1, <3>3
    <3> QED BY <2>1, <3>2, <3>3
  <2>5. \A n \in Whole' : file'[n].item <= count'
    BY <1>0, <1>w, <2>1, <2>2, <2>3 DEF FileOK
  <2> QED BY <1>w, <2>4, <2>5 DEF FileOK
<1>1. ASSUME NEW c \in Clients, AppendItems(c) PROVE FileOK'
  BY <1>1, <1>u DEF AppendItems, writerVars, fileVars
<1>2. ASSUME NEW c \in Clients, NEW op \in Barriers, Send(c, op) PROVE FileOK'
  BY <1>2, <1>u DEF Send, writerVars, fileVars
<1>3. ASSUME TakeItems PROVE FileOK'
  BY <1>3, <1>u DEF TakeItems, fileVars
<1>4. ASSUME TakeBarrier PROVE FileOK'
  BY <1>4, <1>u DEF TakeBarrier, fileVars
<1>5. ASSUME OpenFile PROVE FileOK'
  BY <1>5, <1>u DEF OpenFile
<1>6. ASSUME OpenFails PROVE FileOK'
  BY <1>6, <1>u DEF OpenFails, fileVars
<1>7. ASSUME WriteMeta PROVE FileOK'
  <2>1. meta \in BOOLEAN /\ meta' = FALSE /\ count' = count
    BY <1>0, <1>7 DEF WriteMeta, TypeOK
  <2>2. CASE meta = FALSE
    BY <1>7, <1>u, <2>1, <2>2 DEF WriteMeta
  <2>3. CASE meta = TRUE
    <3>1. file' = Append(file, Line(0, "whole")) /\ Whole = {}
      BY <1>0, <1>7, <2>3 DEF WriteMeta, Meta, FileOK
    <3>2. 0 \in 0 .. MaxItems /\ 0 <= count /\ \A n \in Whole : file[n].item < 0
      BY <1>c, <3>1, BoundsAreNaturals
    <3> QED BY <1>w, <2>1, <3>1, <3>2
  <2> QED BY <2>1, <2>2, <2>3
<1>8. ASSUME MetaFails PROVE FileOK'
  <2>1. file' \in Leavings(0) /\ UNCHANGED <<count, meta>> /\ Whole = {}
    BY <1>0, <1>8 DEF MetaFails, Meta, FileOK
  <2> QED BY <1>l, <2>1, BoundsAreNaturals
<1>9. ASSUME WriteItem PROVE FileOK'
  <2> DEFINE x == Head(pending)
  <2>1. pending # <<>> /\ meta = FALSE /\ UNCHANGED <<count, meta>> /\ file' = Append(file, Line(x, "whole"))
    BY <1>0, <1>9 DEF WriteItem, JobOK
  <2>2. x \in 0 .. MaxItems /\ x <= count /\ \A n \in Whole : file[n].item < x
    BY <1>0, <2>1, PendingForm DEF PendingOK
  <2> HIDE DEF x
  <2> QED BY <1>w, <2>1, <2>2
<1>10. ASSUME ItemFails PROVE FileOK'
  <2> DEFINE x == Head(pending)
  <2>1. pending # <<>> /\ UNCHANGED <<count, meta>> /\ file' \in Leavings(x)
    BY <1>10 DEF ItemFails
  <2>2. x \in 0 .. MaxItems /\ \A n \in Whole : file[n].item < x
    BY <1>0, <2>1, PendingForm DEF PendingOK
  <2> HIDE DEF x
  <2> QED BY <1>l, <2>1, <2>2
<1>11. ASSUME Done PROVE FileOK'
  BY <1>11, <1>u DEF Done, fileVars
<1>12. ASSUME Crash PROVE FileOK'
  <2>0. UNCHANGED <<count, meta>>
    BY <1>12 DEF Crash
  <2>1. CASE file' = file
    BY <1>u, <2>0, <2>1
  <2>2. CASE job.at = "meta" /\ meta /\ file' \in Leavings(Meta)
    <3>1. file' \in Leavings(0) /\ Whole = {}
      BY <1>0, <2>2 DEF Meta, FileOK, TypeOK
    <3> QED BY <1>l, <2>0, <3>1, BoundsAreNaturals
  <2>3. CASE job.at = "items" /\ pending # <<>> /\ file' \in Leavings(Head(pending))
    <3>1. Head(pending) \in 0 .. MaxItems /\ \A n \in Whole : file[n].item < Head(pending)
      BY <1>0, <2>3, PendingForm DEF PendingOK
    <3> QED BY <1>l, <2>0, <2>3, <3>1
  <2> QED BY <1>12, <2>1, <2>2, <2>3 DEF Crash
<1>13. ASSUME Resume PROVE FileOK'
  BY <1>13, <1>u DEF Resume, fileVars
<1>14. CASE UNCHANGED vars
  BY <1>14, <1>u DEF vars, writerVars, fileVars
<1> QED
  BY <1>1, <1>2, <1>3, <1>4, <1>5, <1>6, <1>7, <1>8, <1>9, <1>10, <1>11, <1>12, <1>13, <1>14
     DEF Next, WriterStep, AppendFlushes, Barrier, Barriers

\* The buffer stays in order, behind the file.
LEMMA PendingStep ==
    ASSUME IInv, [Next]_vars
    PROVE  PendingOK'
<1>0. TypeOK /\ JobOK /\ FileOK /\ PendingOK /\ QueueOK
  BY DEF IInv
<1>c. /\ count \in Nat /\ Len(pending) \in Nat /\ \A i \in 1 .. Len(pending) : pending[i] \in Nat
      /\ \A n \in 1 .. Len(file) : file[n].item \in Nat
  <2>1. file \in Seq(Lines) /\ count \in Nat /\ pending \in Seq(Numbers)
    BY <1>0, BoundsAreNaturals DEF TypeOK, Lines, Numbers
  <2>2. (\A l \in Lines : l.item \in Nat) /\ (\A x \in Numbers : x \in Nat)
    BY BoundsAreNaturals DEF Lines, Numbers
  <2> HIDE DEF Lines, Numbers
  <2> QED BY <2>1, <2>2
<1>u. ASSUME UNCHANGED <<file, pending>>, count' = count \/ count' = count + 1
      PROVE  PendingOK'
  BY <1>0, <1>c, <1>u DEF PendingOK, Whole
<1>l. ASSUME NEW x \in 0 .. MaxItems, file' \in Leavings(x), UNCHANGED <<count, pending>>
      PROVE  PendingOK'
  <2>1. Whole' = Whole /\ \A n \in Whole : file'[n] = file[n]
    BY <1>0, <1>l, LeavingsForm DEF Whole
  <2> QED BY <1>0, <1>l, <2>1 DEF PendingOK
<1>1. ASSUME NEW c \in Clients, AppendItems(c) PROVE PendingOK'
  BY <1>1, <1>u DEF AppendItems, writerVars, fileVars
<1>2. ASSUME NEW c \in Clients, NEW op \in Barriers, Send(c, op) PROVE PendingOK'
  BY <1>2, <1>u DEF Send, writerVars, fileVars
<1>3. ASSUME TakeItems PROVE PendingOK'
  <2> DEFINE h == Head(queue).item
  <2>1. queue # <<>> /\ Head(queue).op = "add" /\ pending' = Append(pending, h) /\ UNCHANGED <<file, count>>
    BY <1>3 DEF TakeItems, fileVars
  <2>2. 1 \in AddsIn /\ h = queue[1].item
    BY <1>0, <2>1, HeadForm DEF AddsIn
  <2>3. /\ h \in Nat /\ h <= count /\ \A n \in Whole : file[n].item < h
        /\ \A i \in 1 .. Len(pending) : pending[i] < h
    BY <1>0, <1>c, <2>2 DEF QueueOK
  <2> HIDE DEF h
  <2>4. /\ Len(pending') = Len(pending) + 1 /\ pending'[Len(pending) + 1] = h
        /\ \A i \in 1 .. Len(pending) : pending'[i] = pending[i]
    <3>1. pending \in Seq(Nat)
      BY <1>0, BoundsAreNaturals DEF TypeOK
    <3> QED BY <2>1, <2>3, <3>1
  <2>5. \A i \in 1 .. Len(pending') : i \in 1 .. Len(pending) \/ i = Len(pending) + 1
    BY <1>c, <2>4
  <2>6. Whole' = Whole
    BY <2>1 DEF Whole
  <2>7. \A n \in Whole' : \A i \in 1 .. Len(pending') : file'[n].item < pending'[i]
    BY <1>0, <2>1, <2>3, <2>4, <2>5, <2>6 DEF PendingOK
  <2>8. ASSUME NEW i \in 1 .. Len(pending'), NEW j \in 1 .. Len(pending'), i < j
        PROVE  pending'[i] < pending'[j]
    <3>1. i \in 1 .. Len(pending)
      BY <1>c, <2>4, <2>8
    <3>2. CASE j \in 1 .. Len(pending)
      BY <1>0, <2>4, <2>8, <3>1, <3>2 DEF PendingOK
    <3>3. CASE j = Len(pending) + 1
      BY <2>3, <2>4, <3>1, <3>3
    <3> QED BY <2>5, <3>2, <3>3
  <2>9. \A i \in 1 .. Len(pending') : pending'[i] <= count'
    BY <1>0, <2>1, <2>3, <2>4, <2>5 DEF PendingOK
  <2> QED BY <2>7, <2>8, <2>9 DEF PendingOK
<1>4. ASSUME TakeBarrier PROVE PendingOK'
  BY <1>4, <1>u DEF TakeBarrier, fileVars
<1>5. ASSUME OpenFile PROVE PendingOK'
  BY <1>5, <1>u DEF OpenFile
<1>6. ASSUME OpenFails PROVE PendingOK'
  BY <1>6, <1>u DEF OpenFails, fileVars
<1>7. ASSUME WriteMeta PROVE PendingOK'
  <2>1. UNCHANGED <<count, pending>>
    BY <1>7 DEF WriteMeta
  <2>2. CASE file' = file
    BY <1>u, <2>1, <2>2
  <2>3. CASE file' = Append(file, Line(0, "whole"))
    <3>1. /\ Len(file') = Len(file) + 1 /\ Len(file) \in Nat
          /\ \A n \in 1 .. Len(file) : file'[n] = file[n]
          /\ file'[Len(file) + 1].item = 0
      BY <1>0, <2>3, LineAdded, BoundsAreNaturals DEF Parts
    <3>2. \A n \in Whole' : (n \in Whole /\ file'[n] = file[n]) \/ file'[n].item = 0
      BY <3>1 DEF Whole
    <3>3. \A i \in 1 .. Len(pending) : 0 < pending[i]
      <4>1. pending \in Seq(Numbers) /\ \A x \in Numbers : 0 < x
        BY <1>0 DEF TypeOK, Numbers
      <4> HIDE DEF Numbers
      <4> QED BY <4>1
    <3> QED BY <1>0, <2>1, <3>2, <3>3 DEF PendingOK
  <2> QED BY <1>7, <2>2, <2>3 DEF WriteMeta, Meta
<1>8. ASSUME MetaFails PROVE PendingOK'
  BY <1>8, <1>l, BoundsAreNaturals DEF MetaFails, Meta
<1>9. ASSUME WriteItem PROVE PendingOK'
  <2> DEFINE x == Head(pending)
  <2>1. pending # <<>> /\ count' = count /\ file' = Append(file, Line(x, "whole")) /\ pending' = Tail(pending)
    BY <1>9 DEF WriteItem
  <2>2. /\ x \in 0 .. MaxItems /\ x = pending[1] /\ 1 \in 1 .. Len(pending) /\ Len(pending') + 1 = Len(pending)
        /\ \A k \in 1 .. Len(pending') : pending'[k] = pending[k + 1]
        /\ \A k \in 1 .. Len(pending') : k + 1 \in 1 .. Len(pending) /\ 1 < k + 1
    BY <1>0, <1>c, <2>1, PendingForm
  <2> HIDE DEF x
  <2>3. /\ Len(file') = Len(file) + 1 /\ Len(file) \in Nat
        /\ \A n \in 1 .. Len(file) : file'[n] = file[n]
        /\ file'[Len(file) + 1].item = x
    BY <1>0, <2>1, <2>2, LineAdded DEF Parts
  <2>4. \A n \in Whole' : (n \in Whole /\ file'[n] = file[n]) \/ file'[n].item = x
    BY <2>3 DEF Whole
  <2>5. \A k \in 1 .. Len(pending') : x < pending'[k]
    BY <1>0, <2>2 DEF PendingOK
  <2>6. \A n \in Whole' : \A k \in 1 .. Len(pending') : file'[n].item < pending'[k]
    BY <1>0, <2>2, <2>4, <2>5 DEF PendingOK
  <2>7. \A i, j \in 1 .. Len(pending') : i < j => pending'[i] < pending'[j]
    BY <1>0, <1>c, <2>2 DEF PendingOK
  <2>8. \A i \in 1 .. Len(pending') : pending'[i] <= count'
    BY <1>0, <2>1, <2>2 DEF PendingOK
  <2> QED BY <2>6, <2>7, <2>8 DEF PendingOK
<1>10. ASSUME ItemFails PROVE PendingOK'
  <2>1. pending # <<>> /\ file' \in Leavings(Head(pending)) /\ UNCHANGED <<count, pending>>
    BY <1>10 DEF ItemFails
  <2>2. Head(pending) \in 0 .. MaxItems
    BY <1>0, <2>1, PendingForm
  <2> QED BY <1>l, <2>1, <2>2
<1>11. ASSUME Done PROVE PendingOK'
  BY <1>11, <1>u DEF Done, fileVars
<1>12. ASSUME Crash PROVE PendingOK'
  <2>1. pending' = <<>>
    BY <1>12 DEF Crash
  <2> QED BY <2>1 DEF PendingOK
<1>13. ASSUME Resume PROVE PendingOK'
  BY <1>13, <1>u DEF Resume, fileVars
<1>14. CASE UNCHANGED vars
  BY <1>14, <1>u DEF vars, writerVars, fileVars
<1> QED
  BY <1>1, <1>2, <1>3, <1>4, <1>5, <1>6, <1>7, <1>8, <1>9, <1>10, <1>11, <1>12, <1>13, <1>14
     DEF Next, WriterStep, AppendFlushes, Barrier, Barriers

\* The channel stays in order, behind the buffer.
LEMMA QueueStep ==
    ASSUME IInv, [Next]_vars
    PROVE  QueueOK'
<1>0. TypeOK /\ JobOK /\ FileOK /\ PendingOK /\ QueueOK /\ BarriersOK
  BY DEF IInv
<1>c. /\ count \in Nat /\ Len(pending) \in Nat /\ Len(queue) \in Nat
      /\ \A i \in 1 .. Len(pending) : pending[i] \in Nat
      /\ \A n \in Whole : file[n].item \in Nat
  <2>1. file \in Seq(Lines) /\ count \in Nat /\ pending \in Seq(Numbers) /\ Len(queue) \in Nat
    BY <1>0, BoundsAreNaturals DEF TypeOK, Lines, Numbers
  <2>2. (\A l \in Lines : l.item \in Nat) /\ (\A x \in Numbers : x \in Nat)
    BY BoundsAreNaturals DEF Lines, Numbers
  <2> HIDE DEF Lines, Numbers
  <2> QED BY <2>1, <2>2 DEF Whole
<1>u. ASSUME UNCHANGED <<file, pending, queue, count>>
      PROVE  QueueOK'
  BY <1>0, <1>u DEF QueueOK, Whole, AddsIn
<1>e. ASSUME queue' = <<>>
      PROVE  QueueOK'
  BY <1>e DEF QueueOK, AddsIn
<1>l. ASSUME NEW x \in 0 .. MaxItems, file' \in Leavings(x), UNCHANGED <<count, pending, queue>>
      PROVE  QueueOK'
  <2>1. Whole' = Whole /\ \A n \in Whole : file'[n] = file[n]
    BY <1>0, <1>l, LeavingsForm DEF Whole
  <2> QED BY <1>0, <1>l, <2>1 DEF QueueOK, AddsIn
<1>1. ASSUME NEW c \in Clients, AppendItems(c) PROVE QueueOK'
  <2> DEFINE m == [op |-> "add", by |-> None, item |-> count + 1, upto |-> 0]
  <2>1. queue' = Append(queue, m) /\ count' = count + 1 /\ UNCHANGED <<file, pending>>
    BY <1>1 DEF AppendItems, writerVars, fileVars
  <2>2. m \in Command /\ m.item = count + 1
    BY <1>0, <1>1, BoundsAreNaturals DEF AppendItems, TypeOK, Command
  <2> HIDE DEF m
  <2>3. /\ Len(queue') = Len(queue) + 1 /\ queue'[Len(queue) + 1] = m
        /\ \A k \in 1 .. Len(queue) : queue'[k] = queue[k]
    <3>1. queue \in Seq(Command)
      BY <1>0 DEF TypeOK
    <3> QED BY <2>1, <2>2, <3>1
  <2>4. \A k \in AddsIn' : (k \in AddsIn /\ queue'[k] = queue[k]) \/ (k = Len(queue) + 1 /\ queue'[k].item = count + 1)
    BY <1>c, <2>2, <2>3 DEF AddsIn
  <2>5. Whole' = Whole
    BY <2>1 DEF Whole
  <2>6. \A k \in AddsIn : k <= Len(queue) /\ k \in Nat
    BY <1>c DEF AddsIn
  <2>7. ASSUME NEW k \in AddsIn'
        PROVE  /\ queue'[k].item \in 1 .. count'
               /\ \A n \in Whole : file[n].item < queue'[k].item
               /\ \A i \in 1 .. Len(pending) : pending[i] < queue'[k].item
    <3>1. CASE k \in AddsIn /\ queue'[k] = queue[k]
      <4>1. queue[k].item \in 1 .. count
        BY <1>0, <3>1 DEF QueueOK
      <4>2. queue[k].item \in 1 .. count + 1
        BY <1>c, <4>1
      <4> QED BY <1>0, <2>1, <3>1, <4>2 DEF QueueOK
    <3>2. CASE queue'[k].item = count + 1
      <4>1. \A n \in Whole : file[n].item < count + 1
        BY <1>0, <1>c DEF FileOK
      <4>2. \A i \in 1 .. Len(pending) : pending[i] < count + 1
        BY <1>0, <1>c DEF PendingOK
      <4>3. count + 1 \in 1 .. count'
        BY <1>c, <2>1
      <4> QED BY <3>2, <4>1, <4>2, <4>3
    <3> QED BY <2>4, <3>1, <3>2
  <2>10. ASSUME NEW k \in AddsIn', NEW l \in AddsIn', k < l
         PROVE  queue'[k].item < queue'[l].item
    <3>1. k \in AddsIn /\ queue'[k] = queue[k]
      BY <1>c, <2>4, <2>6, <2>10
    <3>2. CASE l \in AddsIn /\ queue'[l] = queue[l]
      BY <1>0, <2>10, <3>1, <3>2 DEF QueueOK
    <3>3. CASE queue'[l].item = count + 1
      BY <1>0, <1>c, <3>1, <3>3 DEF QueueOK
    <3> QED BY <2>4, <3>2, <3>3
  <2> QED BY <2>1, <2>5, <2>7, <2>10 DEF QueueOK
<1>2. ASSUME NEW c \in Clients, NEW op \in Barriers, Send(c, op) PROVE QueueOK'
  <2>1. PICK m \in Command : queue' = Append(queue, m) /\ m.op = op
    BY <1>0, <1>2, SendForm
  <2>2. UNCHANGED <<file, pending, count>>
    BY <1>2 DEF Send, writerVars, fileVars
  <2>3. /\ Len(queue') = Len(queue) + 1 /\ queue'[Len(queue) + 1] = m
        /\ \A k \in 1 .. Len(queue) : queue'[k] = queue[k]
    <3>1. queue \in Seq(Command)
      BY <1>0 DEF TypeOK
    <3> HIDE DEF Command
    <3> QED BY <2>1, <3>1
  <2>4. m.op # "add"
    BY <2>1 DEF Barriers
  <2>5. AddsIn' = AddsIn /\ \A k \in AddsIn : queue'[k] = queue[k]
    BY <1>c, <2>3, <2>4 DEF AddsIn
  <2> QED BY <1>0, <2>2, <2>5 DEF QueueOK, Whole
<1>t. ASSUME queue # <<>>, queue' = Tail(queue), UNCHANGED <<file, count>>,
             \/ UNCHANGED pending
             \/ Head(queue).op = "add" /\ pending' = Append(pending, Head(queue).item)
      PROVE  QueueOK'
  <2>1. /\ Len(queue') + 1 = Len(queue) /\ Head(queue) = queue[1] /\ 1 \in 1 .. Len(queue)
        /\ \A k \in 1 .. Len(queue') : queue'[k] = queue[k + 1]
    BY <1>0, <1>t, HeadForm
  <2>2. \A k \in AddsIn' : k \in Nat /\ k > 0 /\ k + 1 \in AddsIn /\ queue'[k] = queue[k + 1]
    BY <1>c, <2>1 DEF AddsIn
  <2>3. Whole' = Whole
    BY <1>t DEF Whole
  <2>4. \A k \in AddsIn' : queue'[k].item \in 1 .. count'
    BY <1>0, <1>t, <2>2 DEF QueueOK
  <2>5. \A n \in Whole' : \A k \in AddsIn' : file'[n].item < queue'[k].item
    BY <1>0, <1>t, <2>2, <2>3 DEF QueueOK
  <2>6. \A k, l \in AddsIn' : k < l => queue'[k].item < queue'[l].item
    BY <1>0, <2>2 DEF QueueOK
  <2>7. \A i \in 1 .. Len(pending') : \A k \in AddsIn' : pending'[i] < queue'[k].item
    <3>1. CASE UNCHANGED pending
      BY <1>0, <2>2, <3>1 DEF QueueOK
    <3>2. CASE Head(queue).op = "add" /\ pending' = Append(pending, Head(queue).item)
      <4> DEFINE h == Head(queue).item
      <4>1. 1 \in AddsIn /\ h = queue[1].item /\ h \in Nat
        BY <1>0, <1>c, <2>1, <3>2 DEF AddsIn, QueueOK
      <4>2. \A k \in AddsIn' : h < queue'[k].item
        BY <1>0, <2>2, <4>1 DEF QueueOK
      <4>3. pending' = Append(pending, h) /\ pending \in Seq(Nat)
        BY <1>0, <3>2, BoundsAreNaturals DEF TypeOK
      <4> HIDE DEF h
      <4>4. \A i \in 1 .. Len(pending') : (i \in 1 .. Len(pending) /\ pending'[i] = pending[i]) \/ pending'[i] = h
        BY <4>1, <4>3
      <4> QED BY <1>0, <2>2, <4>2, <4>4 DEF QueueOK
    <3> QED BY <1>t, <3>1, <3>2
  <2> QED BY <2>4, <2>5, <2>6, <2>7 DEF QueueOK
<1>3. ASSUME TakeItems PROVE QueueOK'
  BY <1>3, <1>t DEF TakeItems, fileVars
<1>4. ASSUME TakeBarrier PROVE QueueOK'
  <2>1. queue # <<>> /\ UNCHANGED <<file, count, pending>> /\ (queue' = <<>> \/ queue' = Tail(queue))
    BY <1>4 DEF TakeBarrier, Rest, fileVars
  <2> QED BY <1>e, <1>t, <2>1
<1>5. ASSUME OpenFile PROVE QueueOK'
  BY <1>5, <1>u DEF OpenFile
<1>6. ASSUME OpenFails PROVE QueueOK'
  <2>1. job.at # "idle" /\ Fails /\ UNCHANGED <<file, pending, count>>
    BY <1>6 DEF OpenFails, fileVars
  <2> QED BY <1>0, <1>u, <2>1, FailsForm
<1>7. ASSUME WriteMeta PROVE QueueOK'
  <2>1. UNCHANGED <<count, pending, queue>>
    BY <1>7 DEF WriteMeta
  <2>2. CASE file' = file
    BY <1>u, <2>1, <2>2
  <2>3. CASE file' = Append(file, Line(0, "whole"))
    <3>1. /\ Len(file') = Len(file) + 1 /\ Len(file) \in Nat
          /\ \A n \in 1 .. Len(file) : file'[n] = file[n]
          /\ file'[Len(file) + 1].item = 0
      BY <1>0, <2>3, LineAdded, BoundsAreNaturals DEF Parts
    <3>2. \A n \in Whole' : (n \in Whole /\ file'[n] = file[n]) \/ file'[n].item = 0
      BY <3>1 DEF Whole
    <3>3. \A k \in AddsIn : 0 < queue[k].item
      BY <1>0, <1>c DEF QueueOK
    <3> QED BY <1>0, <2>1, <3>2, <3>3 DEF QueueOK, AddsIn
  <2> QED BY <1>7, <2>2, <2>3 DEF WriteMeta, Meta
<1>8. ASSUME MetaFails PROVE QueueOK'
  <2>1. job.at # "idle" /\ Fails /\ UNCHANGED <<pending, count>> /\ file' \in Leavings(0)
    BY <1>8 DEF MetaFails, Meta
  <2> QED BY <1>0, <1>l, <2>1, FailsForm, BoundsAreNaturals
<1>9. ASSUME WriteItem PROVE QueueOK'
  <2> DEFINE x == Head(pending)
  <2>1. /\ pending # <<>> /\ UNCHANGED <<count, queue>>
        /\ file' = Append(file, Line(x, "whole")) /\ pending' = Tail(pending)
    BY <1>9 DEF WriteItem
  <2>2. /\ x \in 0 .. MaxItems /\ x = pending[1] /\ 1 \in 1 .. Len(pending)
        /\ \A k \in 1 .. Len(pending') : k + 1 \in 1 .. Len(pending) /\ pending'[k] = pending[k + 1]
    BY <1>0, <1>c, <2>1, PendingForm
  <2> HIDE DEF x
  <2>3. /\ Len(file') = Len(file) + 1 /\ Len(file) \in Nat
        /\ \A n \in 1 .. Len(file) : file'[n] = file[n]
        /\ file'[Len(file) + 1].item = x
    BY <1>0, <2>1, <2>2, LineAdded DEF Parts
  <2>4. \A n \in Whole' : (n \in Whole /\ file'[n] = file[n]) \/ file'[n].item = x
    BY <2>3 DEF Whole
  <2>5. AddsIn' = AddsIn
    BY <2>1 DEF AddsIn
  <2> QED BY <1>0, <2>1, <2>2, <2>4, <2>5 DEF QueueOK
<1>10. ASSUME ItemFails PROVE QueueOK'
  <2>1. job.at # "idle" /\ Fails /\ pending # <<>> /\ file' \in Leavings(Head(pending)) /\ UNCHANGED <<count, pending>>
    BY <1>10 DEF ItemFails
  <2>2. Head(pending) \in 0 .. MaxItems
    BY <1>0, <2>1, PendingForm
  <2> QED BY <1>0, <1>l, <2>1, <2>2, FailsForm
<1>11. ASSUME Done PROVE QueueOK'
  <2>1. UNCHANGED <<file, count, pending>> /\ (queue' = <<>> \/ queue' = queue)
    BY <1>11 DEF Done, Rest, fileVars
  <2> QED BY <1>e, <1>u, <2>1
<1>12. ASSUME Crash PROVE QueueOK'
  BY <1>12, <1>e DEF Crash
<1>13. ASSUME Resume PROVE QueueOK'
  BY <1>13, <1>u DEF Resume, fileVars
<1>14. CASE UNCHANGED vars
  BY <1>14, <1>u DEF vars, writerVars, fileVars
<1> QED
  BY <1>1, <1>2, <1>3, <1>4, <1>5, <1>6, <1>7, <1>8, <1>9, <1>10, <1>11, <1>12, <1>13, <1>14
     DEF Next, WriterStep, AppendFlushes, Barrier, Barriers

\* What a barrier confirms is in the file.
LEMMA BarriersStep ==
    ASSUME IInv, [Next]_vars
    PROVE  BarriersOK'
<1>0. TypeOK /\ JobOK /\ QueueOK /\ BarriersOK
  BY DEF IInv
<1>t. TypeOK'
  BY TypeStep
<1> DEFINE W == Len(Written)
           P == Len(pending)
           K == Len(Queued)
<1>c. /\ W \in Nat /\ P \in Nat /\ K \in Nat /\ count \in Nat /\ confirmed \in Nat
      /\ job.upto \in Nat /\ Len(queue) \in Nat
      /\ \A k \in 1 .. Len(queue) : queue[k].upto \in Nat
      /\ \A k \in 0 .. Len(queue) : Taken[k] \in Seq(Numbers) /\ Len(Taken[k]) \in Nat
  <2>1. /\ count \in Nat /\ confirmed \in Nat /\ job.upto \in Nat /\ queue \in Seq(Command)
    BY <1>0, BoundsAreNaturals DEF TypeOK
  <2>2. \A m \in Command : m.upto \in Nat
    BY BoundsAreNaturals DEF Command
  <2>3. \A k \in 1 .. Len(queue) : queue[k].upto \in Nat
    BY <2>1, <2>2
  <2>4. \A k \in 0 .. Len(queue) : Taken[k] \in Seq(Numbers) /\ Len(Taken[k]) \in Nat
    <3>1. Taken \in [0 .. Len(queue) -> Seq(Numbers)]
      BY <1>0, PickTypes
    <3> HIDE DEF Numbers
    <3> QED BY <3>1
  <2> QED BY <1>0, <2>1, <2>3, <2>4, AcceptedLength
<1>b. /\ \A k \in 1 .. Len(queue) : queue[k].upto <= W + P + Len(Taken[k - 1])
      /\ job.upto <= W + P /\ confirmed <= W /\ W + P + K <= count
  BY <1>0 DEF BarriersOK
<1> HIDE DEF W, P, K
<1>n. W \in Nat /\ P \in Nat /\ K \in Nat /\ count \in Nat /\ confirmed \in Nat /\ job.upto \in Nat
  BY <1>c
<1>m. job.upto <= W + P /\ confirmed <= W /\ W + P + K <= count
  BY <1>b
<1>h. ASSUME queue # <<>>
      PROVE  Head(queue).upto <= W + P /\ Head(queue).upto \in Nat
  <2>1. Head(queue) = queue[1] /\ 1 \in 1 .. Len(queue) /\ 1 - 1 = 0
    BY <1>0, <1>h, HeadForm
  <2>2. Len(Taken[0]) = 0
    BY <1>0, PickTypes
  <2>3. queue[1].upto <= W + P + Len(Taken[0]) /\ queue[1].upto \in Nat
    BY <1>b, <1>c, <2>1
  <2> QED BY <1>n, <2>1, <2>2, <2>3
<1>u. ASSUME UNCHANGED <<pending, queue, count>>, Written' = Written, job'.upto <= W + P, confirmed' <= W
      PROVE  BarriersOK'
  BY <1>b, <1>u DEF BarriersOK, Taken, Queued, W, P, K
<1>e. ASSUME queue' = <<>>, Written' = Written, UNCHANGED count, job'.upto = 0, confirmed' <= W,
             pending' = pending \/ pending' = <<>>
      PROVE  BarriersOK'
  <2>1. Len(Queued') = 0 /\ Len(queue') = 0
    BY <1>e, EmptyQueue
  <2>2. Len(pending') \in Nat /\ Len(pending') <= P
    BY <1>c, <1>e DEF P
  <2>3. Len(Written') = W /\ job'.upto <= W + Len(pending') /\ W + Len(pending') + 0 <= count'
    BY <1>b, <1>c, <1>e, <2>2 DEF W
  <2> QED BY <1>e, <2>1, <2>3 DEF BarriersOK
<1>f. ASSUME job.at # "idle", Fails, UNCHANGED <<pending, count>>, Written' = Written
      PROVE  BarriersOK'
  <2>1. UNCHANGED <<queue, confirmed>> /\ (job' = NoJob \/ job' = Retries(job))
    BY <1>0, <1>f, FailsForm
  <2>2. NoJob.upto = 0 /\ Retries(job).upto = job.upto
    BY DEF NoJob, Retries
  <2>3. job'.upto <= W + P
    BY <1>b, <1>c, <2>1, <2>2
  <2> QED BY <1>b, <1>f, <1>u, <2>1, <2>3
<1>1. ASSUME NEW c \in Clients, AppendItems(c) PROVE BarriersOK'
  <2> DEFINE m == [op |-> "add", by |-> None, item |-> count + 1, upto |-> 0]
  <2>1. queue' = Append(queue, m) /\ count' = count + 1 /\ UNCHANGED <<file, pending, job, confirmed>>
    BY <1>1 DEF AppendItems, writerVars, fileVars
  <2>2. m \in Command /\ m \in AddItems /\ m.upto = 0 /\ m.item \in Numbers
    BY <1>0, <1>1, BoundsAreNaturals DEF AppendItems, TypeOK, Command, AddItems, Numbers
  <2> HIDE DEF m
  <2>3. /\ Len(queue') = Len(queue) + 1 /\ queue'[Len(queue) + 1] = m
        /\ \A k \in 1 .. Len(queue) : queue'[k] = queue[k]
    <3>1. queue \in Seq(Command)
      BY <1>0 DEF TypeOK
    <3> QED BY <2>1, <2>2, <3>1
  <2>4. (\A k \in 0 .. Len(queue) : Taken'[k] = Taken[k]) /\ Queued' = Append(Queued, m.item)
    BY <1>0, <2>1, <2>2, QueueGrows
  <2>5. Len(Queued') = K + 1
    <3>1. Queued \in Seq(Numbers)
      BY <1>0, PickTypes
    <3> HIDE DEF Numbers
    <3> QED BY <2>2, <2>4, <3>1 DEF K
  <2>6. Len(Written') = W /\ Len(pending') = P
    BY <2>1 DEF Written, W, P
  <2>7. ASSUME NEW k \in 1 .. Len(queue')
        PROVE  queue'[k].upto <= W + P + Len(Taken'[k - 1])
    <3>1. k - 1 \in 0 .. Len(queue) /\ (k \in 1 .. Len(queue) \/ k = Len(queue) + 1)
      BY <1>c, <2>3
    <3>2. Taken'[k - 1] = Taken[k - 1] /\ Len(Taken[k - 1]) \in Nat
      BY <1>c, <2>4, <3>1
    <3>3. CASE k \in 1 .. Len(queue)
      BY <1>b, <2>3, <3>2, <3>3
    <3>4. CASE k = Len(queue) + 1
      <4> DEFINE L == Len(Taken'[k - 1])
      <4>1. queue'[k].upto = 0 /\ L \in Nat
        BY <2>2, <2>3, <3>2, <3>4
      <4> HIDE DEF L
      <4>2. 0 <= W + P + L
        BY <1>n, <4>1
      <4> QED BY <4>1, <4>2 DEF L
    <3> QED BY <3>1, <3>3, <3>4
  <2>8. W + P + (K + 1) <= count'
    BY <1>b, <1>c, <2>1
  <2> QED BY <1>b, <2>1, <2>5, <2>6, <2>7, <2>8 DEF BarriersOK
<1>2. ASSUME NEW c \in Clients, NEW op \in Barriers, Send(c, op) PROVE BarriersOK'
  <2>1. PICK m \in Command : /\ queue' = Append(queue, m) /\ m \notin AddItems
                             /\ m.upto = Len(Written) + Len(pending) + Len(Queued)
    BY <1>0, <1>2, SendForm
  <2>2. UNCHANGED <<file, pending, job, confirmed, count>>
    BY <1>2 DEF Send, writerVars, fileVars
  <2>3. /\ Len(queue') = Len(queue) + 1 /\ queue'[Len(queue) + 1] = m
        /\ \A k \in 1 .. Len(queue) : queue'[k] = queue[k]
    <3>1. queue \in Seq(Command)
      BY <1>0 DEF TypeOK
    <3> QED BY <2>1, <3>1
  <2>4. (\A k \in 0 .. Len(queue) : Taken'[k] = Taken[k]) /\ Queued' = Queued /\ Queued = Taken[Len(queue)]
    BY <1>0, <2>1, QueueGrows, PickTypes
  <2>5. Len(Written') = W /\ Len(pending') = P /\ Len(Queued') = K /\ m.upto = W + P + K /\ K = Len(Taken[Len(queue)])
    BY <2>1, <2>2, <2>4 DEF Written, W, P, K
  <2>6. ASSUME NEW k \in 1 .. Len(queue')
        PROVE  queue'[k].upto <= W + P + Len(Taken'[k - 1])
    <3>1. k - 1 \in 0 .. Len(queue) /\ (k \in 1 .. Len(queue) \/ k = Len(queue) + 1)
      BY <1>c, <2>3
    <3>2. Taken'[k - 1] = Taken[k - 1] /\ Len(Taken[k - 1]) \in Nat
      BY <1>c, <2>4, <3>1
    <3>3. CASE k \in 1 .. Len(queue)
      BY <1>b, <2>3, <3>2, <3>3
    <3>4. CASE k = Len(queue) + 1
      <4>1. k - 1 = Len(queue)
        BY <1>c, <3>4
      <4> QED BY <1>c, <2>3, <2>5, <3>2, <3>4, <4>1
    <3> QED BY <3>1, <3>3, <3>4
  <2> QED BY <1>b, <2>2, <2>5, <2>6 DEF BarriersOK
<1>3. ASSUME TakeItems PROVE BarriersOK'
  <2> DEFINE h == Head(queue)
  <2>1. /\ queue # <<>> /\ h.op = "add" /\ queue' = Tail(queue) /\ pending' = Append(pending, h.item)
        /\ UNCHANGED <<file, confirmed, count>> /\ (job' = NoJob \/ job' = Starts(h))
    BY <1>3 DEF TakeItems, fileVars
  <2>2. /\ h \in Command /\ h = queue[1] /\ 1 \in 1 .. Len(queue)
        /\ \A k \in 1 .. Len(queue') : queue'[k] = queue[k + 1]
    BY <1>0, <2>1, HeadForm
  <2>3. h.item \in Numbers /\ h \in AddItems
    <3>1. h.item \in 1 .. count
      BY <1>0, <2>1, <2>2 DEF QueueOK, AddsIn
    <3>2. h.item \in 1 .. MaxItems
      BY <1>0, <3>1, BoundsAreNaturals DEF TypeOK
    <3> HIDE DEF h
    <3> QED BY <2>1, <2>2, <3>2 DEF Command, AddItems, Numbers
  <2> HIDE DEF h
  <2>4. /\ Len(queue') + 1 = Len(queue)
        /\ \A k \in 0 .. Len(queue') : Taken[k + 1] = <<h.item>> \o Taken'[k]
        /\ Queued = <<h.item>> \o Queued'
    BY <1>0, <2>1, <2>3, QueueShrinks DEF h
  <2>5. /\ Taken' \in [0 .. Len(queue') -> Seq(Numbers)] /\ Queued' \in Seq(Numbers) /\ Len(queue') \in Nat
    <3>1. ASSUME TypeOK'
          PROVE  (Taken \in [0 .. Len(queue) -> Seq(Numbers)] /\ Queued \in Seq(Numbers) /\ Len(queue) \in Nat)'
      BY <3>1, PickTypes, PTL
    <3> QED BY <1>t, <3>1
  <2>6. ASSUME NEW q \in Seq(Numbers)
        PROVE  Len(<<h.item>> \o q) = 1 + Len(q) /\ Len(q) \in Nat
    <3>1. <<h.item>> \in Seq(Numbers) /\ Len(<<h.item>>) = 1
      BY <2>3
    <3> HIDE DEF Numbers
    <3> QED BY <3>1, ConcatProperties
  <2>7. K = 1 + Len(Queued') /\ Len(Queued') \in Nat
    BY <2>4, <2>5, <2>6 DEF K
  <2>8. Len(pending') = P + 1
    <3>1. pending \in Seq(Numbers)
      BY <1>0 DEF TypeOK, Numbers
    <3> HIDE DEF Numbers
    <3> QED BY <2>1, <2>3, <3>1 DEF P
  <2>9. ASSUME NEW k \in 1 .. Len(queue')
        PROVE  queue'[k].upto <= W + (P + 1) + Len(Taken'[k - 1])
    <3>1. k - 1 \in 0 .. Len(queue') /\ (k - 1) + 1 = k /\ k + 1 \in 1 .. Len(queue) /\ (k + 1) - 1 = k
      BY <1>c, <2>4, <2>5
    <3>2. Taken'[k - 1] \in Seq(Numbers)
      BY <2>5, <3>1
    <3>3. Len(Taken[k]) = 1 + Len(Taken'[k - 1]) /\ Len(Taken'[k - 1]) \in Nat
      BY <2>4, <2>6, <3>1, <3>2
    <3>4. queue[k + 1].upto <= W + P + Len(Taken[k]) /\ queue[k + 1].upto \in Nat
      BY <1>b, <1>c, <3>1
    <3>5. queue'[k] = queue[k + 1]
      BY <2>2
    <3> DEFINE L == Len(Taken'[k - 1])
               u == queue'[k].upto
    <3>6. L \in Nat /\ u \in Nat /\ u <= W + P + (1 + L)
      BY <3>3, <3>4, <3>5
    <3> HIDE DEF L, u
    <3>7. u <= W + (P + 1) + L
      BY <1>n, <3>6
    <3> QED BY <3>7 DEF L, u
  <2>10. job'.upto <= W + (P + 1)
    <3>1. NoJob.upto = 0 /\ Starts(h).upto = h.upto
      BY DEF NoJob, Starts
    <3>2. h.upto <= W + P /\ h.upto \in Nat
      BY <1>h, <2>1 DEF h
    <3> QED BY <1>n, <2>1, <3>1, <3>2
  <2>11. Len(Written') = W /\ W + (P + 1) + Len(Queued') <= count'
    <3>1. Len(Written') = W /\ count' = count
      BY <2>1 DEF Written, W
    <3> QED BY <1>m, <1>n, <2>7, <3>1
  <2> QED BY <1>b, <2>1, <2>8, <2>9, <2>10, <2>11 DEF BarriersOK
<1>4. ASSUME TakeBarrier PROVE BarriersOK'
  <2> DEFINE m == Head(queue)
  <2>1. queue # <<>> /\ m.op \in Barriers /\ UNCHANGED <<file, pending, count>>
    BY <1>4 DEF TakeBarrier, fileVars
  <2>2. /\ m \in Command /\ m = queue[1] /\ 1 \in 1 .. Len(queue)
    BY <1>0, <2>1, HeadForm
  <2>3. m.upto <= W + P /\ m.upto \in Nat /\ m.upto \in 0 .. MaxItems
    <3>1. m.upto \in 0 .. MaxItems
      BY <2>2 DEF Command
    <3> QED BY <1>h, <2>1, <3>1
  <2>4. Len(Written') = W /\ Len(pending') = P /\ Written' = Written
    BY <2>1 DEF Written, W, P
  <2>5. job'.upto <= W + P /\ job'.upto \in Nat /\ confirmed' <= W /\ (queue' = <<>> => job'.upto = 0 \/ queue' = Tail(queue))
    <3>1. CASE NothingToDo(m)
      <4>1. Answer(m, TRUE) /\ job' = NoJob /\ pending = <<>>
        BY <1>4, <3>1 DEF TakeBarrier, NothingToDo
      <4>2. P = 0 /\ job'.upto = 0
        BY <4>1 DEF P, NoJob
      <4> HIDE DEF m
      <4>3. confirmed' = confirmed \/ confirmed' = m.upto
        BY <1>0, <2>3, <4>1, AnswerForm
      <4> QED BY <1>b, <1>c, <2>3, <4>2, <4>3
    <3>2. CASE ~NothingToDo(m)
      <4>1. job' = Starts(m) /\ UNCHANGED <<confirmed, task>> /\ task = "running"
        BY <1>4, <3>2 DEF TakeBarrier
      <4>2. queue' = Tail(queue)
        BY <1>4, <4>1 DEF TakeBarrier, Rest
      <4>3. job'.upto = m.upto
        BY <4>1 DEF Starts
      <4> HIDE DEF m
      <4> QED BY <1>b, <2>3, <4>1, <4>2, <4>3
    <3> QED BY <3>1, <3>2
  <2>6. CASE queue' = Tail(queue)
    <3>1. m \notin AddItems
      BY <2>1 DEF AddItems, Barriers
    <3>2. /\ Len(queue') + 1 = Len(queue) /\ Queued = Queued'
          /\ \A k \in 0 .. Len(queue') : Taken[k + 1] = Taken'[k]
      BY <1>0, <2>1, <2>6, <3>1, QueueShrinks
    <3>3. \A k \in 1 .. Len(queue') : queue'[k] = queue[k + 1]
      BY <1>0, <2>1, <2>6, HeadForm
    <3> HIDE DEF m
    <3>4. ASSUME NEW k \in 1 .. Len(queue')
          PROVE  queue'[k].upto <= W + P + Len(Taken'[k - 1])
      <4>1. k - 1 \in 0 .. Len(queue') /\ (k - 1) + 1 = k /\ k + 1 \in 1 .. Len(queue) /\ (k + 1) - 1 = k
        BY <1>c, <3>2
      <4>2. Taken'[k - 1] = Taken[k]
        BY <3>2, <4>1
      <4> QED BY <1>b, <3>3, <4>1, <4>2
    <3>5. W + P + Len(Queued') <= count'
      BY <1>b, <2>1, <3>2 DEF K
    <3> QED BY <2>4, <2>5, <3>4, <3>5 DEF BarriersOK
  <2>7. CASE queue' = <<>> /\ queue' # Tail(queue)
    <3>1. job'.upto = 0
      BY <2>5, <2>7
    <3> QED BY <1>e, <2>1, <2>4, <2>5, <2>7, <3>1
  <2> QED BY <1>4, <2>6, <2>7 DEF TakeBarrier, Rest
<1>5. ASSUME OpenFile PROVE BarriersOK'
  <2>1. job' = [job EXCEPT !.at = "meta"] /\ UNCHANGED <<queue, pending, file, count, confirmed>>
    BY <1>5 DEF OpenFile
  <2>2. job'.upto = job.upto
    BY <1>0, <2>1 DEF TypeOK
  <2> QED BY <1>b, <1>u, <2>1, <2>2 DEF Written
<1>6. ASSUME OpenFails PROVE BarriersOK'
  <2>1. job.at # "idle" /\ Fails /\ UNCHANGED <<pending, count, file>>
    BY <1>6 DEF OpenFails, fileVars
  <2> QED BY <1>f, <2>1 DEF Written
<1>7. ASSUME WriteMeta PROVE BarriersOK'
  <2>1. job' = [job EXCEPT !.at = "items"] /\ UNCHANGED <<queue, pending, count, confirmed>>
    BY <1>7 DEF WriteMeta
  <2>2. job'.upto = job.upto
    BY <1>0, <2>1 DEF TypeOK
  <2>3. Written' = Written
    <3>1. CASE file' = file
      BY <3>1 DEF Written
    <3>2. CASE file' = Append(file, Line(0, "whole"))
      BY <1>0, <3>2, FileGrows, BoundsAreNaturals DEF Parts, Meta
    <3> QED BY <1>7, <3>1, <3>2 DEF WriteMeta, Meta
  <2> QED BY <1>b, <1>u, <2>1, <2>2, <2>3
<1>8. ASSUME MetaFails PROVE BarriersOK'
  <2>1. job.at # "idle" /\ Fails /\ UNCHANGED <<pending, count>> /\ file' \in Leavings(0)
    BY <1>8 DEF MetaFails, Meta
  <2>2. Written' = Written
    BY <1>0, <2>1, LeavingsForm, BoundsAreNaturals
  <2> QED BY <1>f, <2>1, <2>2
<1>9. ASSUME WriteItem PROVE BarriersOK'
  <2> DEFINE x == Head(pending)
  <2>1. /\ pending # <<>> /\ UNCHANGED <<job, confirmed, count, queue>>
        /\ file' = Append(file, Line(x, "whole")) /\ pending' = Tail(pending)
    BY <1>9 DEF WriteItem
  <2>2. x \in Numbers /\ x # Meta /\ x \in 0 .. MaxItems /\ Len(pending') + 1 = P /\ Len(pending') \in Nat
    BY <1>0, <2>1, PendingForm DEF Numbers, Meta, P
  <2> HIDE DEF x
  <2>3. Written' = Append(Written, x)
    BY <1>0, <2>1, <2>2, FileGrows DEF Parts
  <2>4. Len(Written') = W + 1
    <3>1. Written \in Seq(Numbers)
      BY <1>0, PickTypes
    <3> HIDE DEF Numbers
    <3> QED BY <2>2, <2>3, <3>1 DEF W
  <2>5. W + P = (W + 1) + Len(pending') /\ confirmed <= W + 1
    BY <1>m, <1>n, <2>2
  <2>6. Taken' = Taken /\ Queued' = Queued
    BY <2>1 DEF Taken, Queued
  <2> QED BY <1>b, <2>1, <2>4, <2>5, <2>6 DEF BarriersOK, K
<1>10. ASSUME ItemFails PROVE BarriersOK'
  <2>1. job.at # "idle" /\ Fails /\ pending # <<>> /\ file' \in Leavings(Head(pending)) /\ UNCHANGED <<count, pending>>
    BY <1>10 DEF ItemFails
  <2>2. Head(pending) \in 0 .. MaxItems
    BY <1>0, <2>1, PendingForm
  <2>3. Written' = Written
    BY <1>0, <2>1, <2>2, LeavingsForm
  <2> QED BY <1>f, <2>1, <2>3
<1>11. ASSUME Done PROVE BarriersOK'
  <2>1. /\ UNCHANGED <<file, pending, count>> /\ pending = <<>> /\ Answer(job, TRUE) /\ job' = NoJob
        /\ (queue' = queue \/ queue' = <<>>)
    BY <1>11 DEF Done, fileVars, Rest
  <2>2. P = 0 /\ job'.upto = 0 /\ Written' = Written
    BY <2>1 DEF P, NoJob, Written
  <2>3. job.upto \in 0 .. MaxItems
    BY <1>0 DEF TypeOK
  <2>4. confirmed' = confirmed \/ confirmed' = job.upto
    BY <1>0, <2>1, <2>3, AnswerForm
  <2>5. confirmed' <= W /\ 0 <= W + P
    BY <1>b, <1>c, <2>2, <2>4
  <2> QED BY <1>e, <1>u, <2>1, <2>2, <2>5
<1>12. ASSUME Crash PROVE BarriersOK'
  <2>1. queue' = <<>> /\ pending' = <<>> /\ job' = NoJob /\ UNCHANGED <<count, confirmed>>
    BY <1>12 DEF Crash
  <2>2. Written' = Written
    <3>1. CASE file' = file
      BY <3>1 DEF Written
    <3>2. CASE file' \in Leavings(Meta)
      BY <1>0, <3>2, LeavingsForm, BoundsAreNaturals DEF Meta
    <3>3. CASE pending # <<>> /\ file' \in Leavings(Head(pending))
      <4>1. Head(pending) \in 0 .. MaxItems
        BY <1>0, <3>3, PendingForm
      <4> QED BY <1>0, <3>3, <4>1, LeavingsForm
    <3> QED BY <1>12, <3>1, <3>2, <3>3 DEF Crash
  <2>3. job'.upto = 0
    BY <2>1 DEF NoJob
  <2> QED BY <1>b, <1>e, <2>1, <2>2, <2>3
<1>13. ASSUME Resume PROVE BarriersOK'
  BY <1>b, <1>13, <1>u DEF Resume, fileVars, Written
<1>14. CASE UNCHANGED vars
  BY <1>b, <1>14, <1>u DEF vars, writerVars, fileVars, Written
<1> QED
  BY <1>1, <1>2, <1>3, <1>4, <1>5, <1>6, <1>7, <1>8, <1>9, <1>10, <1>11, <1>12, <1>13, <1>14
     DEF Next, WriterStep, AppendFlushes, Barrier, Barriers

-----------------------------------------------------------------------------
\* The initial state satisfies the invariant.
LEMMA InitInv == Init => IInv
<1> SUFFICES ASSUME Init PROVE IInv
  OBVIOUS
<1> USE BoundsAreNaturals
<1>1. <<>> \in Seq(Command) /\ <<>> \in Seq(1 .. MaxItems) /\ <<>> \in Seq(Lines) /\ Len(<<>>) = 0
  OBVIOUS
<1>2. NoJob \in Jobs /\ NoJob.at = "idle" /\ NoJob.upto = 0
  BY JobTypes DEF NoJob
<1>3. queue = <<>> /\ pending = <<>> /\ file = <<>> /\ job = NoJob
  BY DEF Init
<1>4. TypeOK
  <2>1. client \in [Clients -> {"idle", "flushing", "waiting"}] /\ job \in Jobs
    BY <1>2 DEF Init
  <2>2. queue \in Seq(Command) /\ Len(queue) <= QueueLimit /\ pending \in Seq(1 .. MaxItems) /\ file \in Seq(Lines)
    <3>1. 0 <= QueueLimit
      OBVIOUS
    <3> QED BY <1>1, <1>3, <3>1
  <2>3. task = "running" /\ meta = TRUE /\ deferred = TRUE /\ open = FALSE /\ exists = FALSE
    BY DEF Init
  <2>4. /\ count \in 0 .. MaxItems /\ confirmed \in 0 .. MaxItems
        /\ failures \in 0 .. MaxFailures /\ resumes \in 0 .. MaxResumes
    BY DEF Init
  <2> QED BY <1>3, <2>1, <2>2, <2>3, <2>4 DEF TypeOK, Jobs, Lines
<1>5. JobOK
  BY <1>2 DEF Init, JobOK
<1>6. Whole = {} /\ AddsIn = {} /\ 1 .. Len(pending) = {} /\ 1 .. Len(queue) = {}
  BY <1>1, <1>3 DEF Whole, AddsIn
<1>7. FileOK /\ PendingOK /\ QueueOK
  BY <1>6 DEF FileOK, PendingOK, QueueOK
<1>8. Written = <<>> /\ Queued = <<>>
  <2>1. Picks(<<>>, ItemLines)[0] = <<>>
    BY <1>1, PicksSteps
  <2>2. Picks(<<>>, AddItems)[0] = <<>>
    BY <1>1, PicksSteps
  <2> QED BY <1>1, <1>3, <2>1, <2>2 DEF Written, Queued
<1>9. BarriersOK
  BY <1>1, <1>2, <1>3, <1>6, <1>8 DEF Init, BarriersOK
<1> QED BY <1>4, <1>5, <1>7, <1>9 DEF IInv

\* The inductive invariant holds in every reachable state.
THEOREM Invariance == Spec => []IInv
<1>1. IInv /\ [Next]_vars => IInv'
  <2> SUFFICES ASSUME IInv, [Next]_vars PROVE IInv'
    OBVIOUS
  <2>1. TypeOK' /\ JobOK' /\ FileOK'
    BY TypeStep, JobStep, FileStep
  <2>2. PendingOK' /\ QueueOK' /\ BarriersOK'
    BY PendingStep, QueueStep, BarriersStep
  <2> QED BY <2>1, <2>2 DEF IInv
<1> QED BY <1>1, InitInv, PTL DEF Spec

\* The variables stay in the sets they range over.
THEOREM TypeCorrect == Spec => []TypeOK
<1>1. IInv => TypeOK
  BY DEF IInv
<1> QED BY <1>1, Invariance, PTL

\* A resume never loads an item twice nor out of order, whatever failed or was
\* cut short before.
THEOREM LoadsInOrder == Spec => []LoadedInOrder
<1>1. IInv => LoadedInOrder
  <2> SUFFICES ASSUME IInv, NEW m \in Loaded, NEW n \in Loaded, m < n
               PROVE  file[m].item < file[n].item
    BY DEF LoadedInOrder
  <2>1. file \in Seq(Lines)
    BY DEF IInv, TypeOK, Lines
  <2>2. DOMAIN file = 1 .. Len(file) /\ Len(file) \in Nat
    BY <2>1
  <2>3. m \in 1 .. Len(file) /\ n \in 1 .. Len(file) /\ Loads(m)
    BY <2>2 DEF Loaded
  <2>4. m < Len(file)
    BY <2>2, <2>3
  <2>5. m \in Whole
    BY <2>3, <2>4 DEF Loads, Whole
  <2> QED BY <2>3, <2>5 DEF IInv, FileOK
<1> QED BY <1>1, Invariance, PTL

-----------------------------------------------------------------------------
(* The recorder implements the log. *)

\* An item accepted is the last of those accepted.
LEMMA AcceptingKeepsOrder ==
    ASSUME NEW w \in Seq(Numbers), NEW p \in Seq(Numbers), NEW q \in Seq(Numbers), NEW x \in Numbers
    PROVE  (w \o p) \o Append(q, x) = Append((w \o p) \o q, x)
<1>1. w \o p \in Seq(Numbers)
  OBVIOUS
<1> QED BY <1>1, AppendToConcat

\* The initial state is one of the log.
LEMMA InitImplements == Init => Log!Init
<1> SUFFICES ASSUME Init PROVE Log!Init
  OBVIOUS
<1>1. queue = <<>> /\ pending = <<>> /\ file = <<>> /\ confirmed = 0 /\ task = "running"
  BY DEF Init
<1>2. <<>> \in Seq(Command) /\ <<>> \in Seq(Lines) /\ Len(<<>>) = 0
  OBVIOUS
<1>3. Written = <<>> /\ Queued = <<>>
  <2>1. Picks(<<>>, ItemLines)[0] = <<>>
    BY <1>2, PicksSteps
  <2>2. Picks(<<>>, AddItems)[0] = <<>>
    BY <1>2, PicksSteps
  <2> QED BY <1>1, <1>2, <2>1, <2>2 DEF Written, Queued
<1>4. Accepted = <<>>
  BY <1>1, <1>3 DEF Accepted
<1> QED BY <1>1, <1>3, <1>4 DEF Log!Init

\* Every step is one of the log, or leaves the log alone.
LEMMA StepImplements ==
    ASSUME IInv, [Next]_vars
    PROVE  [Log!Next]_Log!vars
<1>0. TypeOK /\ JobOK /\ QueueOK /\ BarriersOK /\ BarriersOK'
  BY BarriersStep DEF IInv
<1>t. /\ Written \in Seq(Numbers) /\ pending \in Seq(Numbers) /\ Queued \in Seq(Numbers)
      /\ Len(Written) \in Nat /\ confirmed \in Nat /\ confirmed <= Len(Written)
  BY <1>0, PickTypes, AcceptedLength, BoundsAreNaturals DEF TypeOK, Numbers, BarriersOK
<1>u. ASSUME UNCHANGED <<task, confirmed>>, Written' = Written, Accepted' = Accepted
      PROVE  UNCHANGED Log!vars
  BY <1>u DEF Log!vars
<1>v. ASSUME UNCHANGED <<pending, queue>>, Written' = Written
      PROVE  Accepted' = Accepted
  BY <1>v DEF Accepted, Queued
<1>e. ASSUME queue' = <<>>, pending' = <<>>, Written' = Written
      PROVE  Accepted' = Written'
  <2>1. Queued' = <<>>
    BY <1>e, EmptyQueue
  <2>2. (Written \o <<>>) \o <<>> = Written
    <3> HIDE DEF Numbers
    <3> QED BY <1>t
  <2> QED BY <1>e, <2>1, <2>2 DEF Accepted
<1>f. ASSUME job.at # "idle", Fails, UNCHANGED pending, Written' = Written
      PROVE  UNCHANGED Log!vars
  BY <1>0, <1>f, <1>u, <1>v, FailsForm
<1>k. ASSUME task = "running", Written' = Written, confirmed' \in Nat,
             confirmed <= confirmed', confirmed' <= Len(Written),
             \/ task' = task /\ Accepted' = Accepted
             \/ task' = "ended" /\ Accepted' = Written
      PROVE  Log!Confirm
  <2>1. confirmed' \in confirmed .. Len(Written)
    BY <1>t, <1>k
  <2> QED BY <1>k, <2>1 DEF Log!Confirm
<1>1. ASSUME NEW c \in Clients, AppendItems(c) PROVE Log!Accept
  <2> DEFINE m == [op |-> "add", by |-> None, item |-> count + 1, upto |-> 0]
  <2>1. queue' = Append(queue, m) /\ UNCHANGED <<file, pending, confirmed, task>> /\ task = "running"
    BY <1>1 DEF AppendItems, CanSend, writerVars, fileVars
  <2>2. m \in Command /\ m \in AddItems /\ m.item = count + 1 /\ count + 1 \in 1 .. MaxItems
    BY <1>0, <1>1, BoundsAreNaturals DEF AppendItems, TypeOK, Command, AddItems
  <2> HIDE DEF m
  <2>3. Queued' = Append(Queued, count + 1) /\ Written' = Written
    BY <1>0, <2>1, <2>2, QueueGrows DEF Written
  <2>4. Accepted' = Append(Accepted, count + 1)
    <3> DEFINE x == count + 1
    <3>1. x \in Numbers
      BY <2>2 DEF Numbers
    <3> HIDE DEF x, Numbers
    <3>2. (Written \o pending) \o Append(Queued, x) = Append((Written \o pending) \o Queued, x)
      BY <1>t, <3>1, AcceptingKeepsOrder
    <3> QED BY <2>1, <2>3, <3>2 DEF Accepted, x
  <2> QED BY <2>1, <2>2, <2>3, <2>4 DEF Log!Accept
<1>2. ASSUME NEW c \in Clients, NEW op \in Barriers, Send(c, op) PROVE UNCHANGED Log!vars
  <2>1. PICK m \in Command : queue' = Append(queue, m) /\ m \notin AddItems
    BY <1>0, <1>2, SendForm
  <2>2. UNCHANGED <<file, pending, confirmed, task>>
    BY <1>2 DEF Send, writerVars, fileVars
  <2>3. Queued' = Queued /\ Written' = Written
    BY <1>0, <2>1, <2>2, QueueGrows DEF Written
  <2> QED BY <1>u, <2>2, <2>3 DEF Accepted
<1>3. ASSUME TakeItems PROVE UNCHANGED Log!vars
  <2> DEFINE h == Head(queue)
  <2>1. /\ queue # <<>> /\ h.op = "add" /\ queue' = Tail(queue) /\ pending' = Append(pending, h.item)
        /\ UNCHANGED <<file, confirmed, task>>
    BY <1>3 DEF TakeItems, fileVars
  <2>2. h \in Command /\ h = queue[1] /\ 1 \in 1 .. Len(queue) /\ queue' \in Seq(Command)
    BY <1>0, <2>1, HeadForm
  <2>3. h.item \in Numbers /\ h \in AddItems
    <3>1. h.item \in 1 .. count
      BY <1>0, <2>1, <2>2 DEF QueueOK, AddsIn
    <3>2. h.item \in 1 .. MaxItems
      BY <1>0, <3>1, BoundsAreNaturals DEF TypeOK
    <3> HIDE DEF h
    <3> QED BY <2>1, <2>2, <3>2 DEF Command, AddItems, Numbers
  <2>4. Queued = <<h.item>> \o Queued' /\ Written' = Written
    BY <1>0, <2>1, <2>3, QueueShrinks DEF Written
  <2>5. Queued' \in Seq(Numbers)
    <3>1. ASSUME TypeOK' PROVE (Queued \in Seq(Numbers))'
      BY <3>1, PickTypes, PTL
    <3> QED BY <3>1, TypeStep
  <2> HIDE DEF h, Numbers
  <2>6. Accepted' = Accepted
    <3> DEFINE q == Queued'
               y == h.item
    <3>1. q \in Seq(Numbers) /\ y \in Numbers /\ Queued = <<y>> \o q /\ pending' = Append(pending, y)
      BY <2>1, <2>3, <2>4, <2>5
    <3>2. Accepted' = (Written \o pending') \o q
      BY <2>4 DEF Accepted
    <3> HIDE DEF q, y
    <3>3. (Written \o Append(pending, y)) \o q = (Written \o pending) \o Queued
      <4>1. <<y>> \in Seq(Numbers) /\ Written \o pending \in Seq(Numbers) /\ Written \in Seq(Numbers) /\ pending \in Seq(Numbers)
        BY <1>t, <3>1
      <4>2. Append(pending, y) = pending \o <<y>>
        BY <3>1, <4>1, AppendIsConcat
      <4>3. Written \o (pending \o <<y>>) = (Written \o pending) \o <<y>>
        BY <4>1, ConcatAssociative
      <4>4. ((Written \o pending) \o <<y>>) \o q = (Written \o pending) \o (<<y>> \o q)
        BY <3>1, <4>1, ConcatAssociative
      <4> QED BY <3>1, <4>2, <4>3, <4>4
    <3> QED BY <3>1, <3>2, <3>3 DEF Accepted
  <2> QED BY <1>u, <2>1, <2>4, <2>6
<1>4. ASSUME TakeBarrier PROVE Log!Confirm \/ UNCHANGED Log!vars
  <2> DEFINE m == Head(queue)
  <2>1. /\ queue # <<>> /\ m.op \in Barriers /\ UNCHANGED <<file, pending>> /\ task = "running"
        /\ queue' = Rest(task' = "ended", Tail(queue))
    BY <1>4 DEF TakeBarrier, fileVars
  <2>2. m \in Command /\ m.upto \in 0 .. MaxItems
    BY <1>0, <2>1, HeadForm DEF Command
  <2>3. Written' = Written
    BY <2>1 DEF Written
  <2>4. ASSUME queue' = Tail(queue)
        PROVE  Accepted' = Accepted
    <3>1. m \notin AddItems
      BY <2>1 DEF AddItems, Barriers
    <3>2. Queued = Queued'
      BY <1>0, <2>1, <2>4, <3>1, QueueShrinks
    <3> QED BY <2>1, <2>3, <3>2 DEF Accepted
  <2>5. CASE NothingToDo(m)
    <3>1. Answer(m, TRUE) /\ pending = <<>>
      BY <1>4, <2>5 DEF TakeBarrier, NothingToDo
    <3> HIDE DEF m
    <3>2. /\ confirmed' = confirmed \/ (confirmed' = m.upto /\ confirmed <= m.upto)
          /\ task' = task \/ task' = "ended"
      BY <1>0, <2>2, <3>1, AnswerForm
    <3>3. confirmed <= confirmed' /\ confirmed' \in Nat /\ confirmed' <= Len(Written)
      <4>1. confirmed' \in Nat /\ confirmed <= confirmed'
        BY <1>t, <2>2, <3>2, BoundsAreNaturals
      <4> QED BY <1>0, <2>3, <4>1 DEF BarriersOK
    <3>4. CASE task' = "ended"
      <4>1. queue' = <<>> /\ pending' = <<>>
        BY <2>1, <3>1, <3>4 DEF Rest
      <4> QED BY <1>e, <1>k, <2>1, <2>3, <3>3, <3>4, <4>1
    <3>5. CASE task' # "ended"
      <4>1. queue' = Tail(queue) /\ task' = task
        BY <2>1, <3>2, <3>5 DEF Rest
      <4> QED BY <1>k, <2>1, <2>3, <2>4, <3>3, <4>1
    <3> QED BY <3>4, <3>5
  <2>6. CASE ~NothingToDo(m)
    <3>1. UNCHANGED <<confirmed, task>>
      BY <1>4, <2>6 DEF TakeBarrier
    <3>2. queue' = Tail(queue)
      BY <2>1, <3>1 DEF Rest
    <3> QED BY <1>u, <2>3, <2>4, <3>1, <3>2
  <2> QED BY <2>5, <2>6
<1>5. ASSUME OpenFile PROVE UNCHANGED Log!vars
  BY <1>5, <1>u, <1>v DEF OpenFile, Written
<1>6. ASSUME OpenFails PROVE UNCHANGED Log!vars
  BY <1>6, <1>f DEF OpenFails, fileVars, Written
<1>7. ASSUME WriteMeta PROVE UNCHANGED Log!vars
  <2>1. UNCHANGED <<queue, pending, confirmed, task>>
    BY <1>7 DEF WriteMeta
  <2>2. Written' = Written
    <3>1. CASE file' = file
      BY <3>1 DEF Written
    <3>2. CASE file' = Append(file, Line(0, "whole"))
      BY <1>0, <3>2, FileGrows, BoundsAreNaturals DEF Parts, Meta
    <3> QED BY <1>7, <3>1, <3>2 DEF WriteMeta, Meta
  <2> QED BY <1>u, <1>v, <2>1, <2>2
<1>8. ASSUME MetaFails PROVE UNCHANGED Log!vars
  <2>1. job.at # "idle" /\ Fails /\ UNCHANGED pending /\ file' \in Leavings(0)
    BY <1>8 DEF MetaFails, Meta
  <2>2. Written' = Written
    BY <1>0, <2>1, LeavingsForm, BoundsAreNaturals
  <2> QED BY <1>f, <2>1, <2>2
<1>9. ASSUME WriteItem PROVE Log!Write
  <2> DEFINE x == Head(pending)
  <2>1. /\ pending # <<>> /\ UNCHANGED <<task, confirmed, queue>> /\ job.at = "items"
        /\ file' = Append(file, Line(x, "whole")) /\ pending' = Tail(pending)
    BY <1>9 DEF WriteItem
  <2>2. x \in Numbers /\ x # Meta /\ x \in 0 .. MaxItems /\ pending' \in Seq(Numbers)
    BY <1>0, <2>1, PendingForm DEF Numbers, Meta
  <2>3. pending = <<x>> \o pending'
    <3> HIDE DEF Numbers
    <3> QED BY <1>t, <2>1
  <2> HIDE DEF x
  <2>4. Written' = Append(Written, x)
    BY <1>0, <2>1, <2>2, FileGrows DEF Parts
  <2>5. Queued' = Queued
    BY <2>1 DEF Queued
  <2> HIDE DEF Numbers
  <2>6. Accepted' = Accepted
    <3> DEFINE p == pending'
    <3>1. p \in Seq(Numbers) /\ pending = <<x>> \o p
      BY <2>2, <2>3
    <3>2. Accepted' = (Append(Written, x) \o p) \o Queued
      BY <2>4, <2>5 DEF Accepted
    <3> HIDE DEF p
    <3>3. Append(Written, x) \o p = Written \o pending
      <4>1. <<x>> \in Seq(Numbers) /\ Written \in Seq(Numbers)
        BY <1>t, <2>2
      <4>2. Append(Written, x) = Written \o <<x>>
        BY <2>2, <4>1, AppendIsConcat
      <4>3. (Written \o <<x>>) \o p = Written \o (<<x>> \o p)
        BY <3>1, <4>1, ConcatAssociative
      <4> QED BY <3>1, <4>2, <4>3
    <3> QED BY <3>2, <3>3 DEF Accepted
  <2>7. Len(Written) < Len(Accepted) /\ Accepted[Len(Written) + 1] = x
    <3>1. /\ Len(pending) > 0 /\ pending[1] = x /\ Len(pending) \in Nat
      BY <1>t, <2>1 DEF x
    <3>2. /\ Written \o pending \in Seq(Numbers) /\ Len(Written \o pending) = Len(Written) + Len(pending)
          /\ (Written \o pending)[Len(Written) + 1] = pending[1]
      BY <1>t, <3>1
    <3>3. /\ Len((Written \o pending) \o Queued) = Len(Written \o pending) + Len(Queued)
          /\ ((Written \o pending) \o Queued)[Len(Written) + 1] = (Written \o pending)[Len(Written) + 1]
      BY <1>t, <3>1, <3>2
    <3>4. Len(Queued) \in Nat
      BY <1>t
    <3> QED BY <1>t, <3>1, <3>2, <3>3, <3>4 DEF Accepted
  <2>8. task = "running"
    BY <1>0, <2>1 DEF JobOK, TypeOK, NoJob
  <2> QED BY <2>1, <2>4, <2>6, <2>7, <2>8 DEF Log!Write
<1>10. ASSUME ItemFails PROVE UNCHANGED Log!vars
  <2>1. job.at # "idle" /\ Fails /\ pending # <<>> /\ file' \in Leavings(Head(pending)) /\ UNCHANGED pending
    BY <1>10 DEF ItemFails
  <2>2. Head(pending) \in 0 .. MaxItems
    BY <1>0, <2>1, PendingForm
  <2>3. Written' = Written
    BY <1>0, <2>1, <2>2, LeavingsForm
  <2> QED BY <1>f, <2>1, <2>3
<1>11. ASSUME Done PROVE Log!Confirm
  <2>1. /\ UNCHANGED <<file, pending>> /\ pending = <<>> /\ Answer(job, TRUE) /\ job.at = "items"
        /\ queue' = Rest(task' = "ended", queue)
    BY <1>11 DEF Done, fileVars
  <2>2. job.upto \in 0 .. MaxItems /\ Written' = Written /\ task = "running"
    BY <1>0, <2>1 DEF TypeOK, Written, JobOK, NoJob
  <2>3. /\ confirmed' = confirmed \/ (confirmed' = job.upto /\ confirmed <= job.upto)
        /\ task' = task \/ task' = "ended"
    BY <1>0, <2>1, <2>2, AnswerForm
  <2>4. confirmed <= confirmed' /\ confirmed' \in Nat /\ confirmed' <= Len(Written)
    <3>1. confirmed' \in Nat /\ confirmed <= confirmed'
      BY <1>t, <2>2, <2>3, BoundsAreNaturals
    <3> QED BY <1>0, <2>2, <3>1 DEF BarriersOK
  <2>5. CASE task' = "ended"
    <3>1. queue' = <<>> /\ pending' = <<>>
      BY <2>1, <2>5 DEF Rest
    <3> QED BY <1>e, <1>k, <2>2, <2>4, <2>5, <3>1
  <2>6. CASE task' # "ended"
    <3>1. queue' = queue /\ task' = task
      BY <2>1, <2>3, <2>6 DEF Rest
    <3> QED BY <1>k, <1>v, <2>1, <2>2, <2>4, <3>1
  <2> QED BY <2>5, <2>6
<1>12. ASSUME Crash PROVE Log!Crash
  <2>1. queue' = <<>> /\ pending' = <<>> /\ task = "running" /\ task' = "ended" /\ UNCHANGED confirmed
    BY <1>12 DEF Crash
  <2>2. Written' = Written
    <3>1. CASE file' = file
      BY <3>1 DEF Written
    <3>2. CASE file' \in Leavings(Meta)
      BY <1>0, <3>2, LeavingsForm, BoundsAreNaturals DEF Meta
    <3>3. CASE pending # <<>> /\ file' \in Leavings(Head(pending))
      <4>1. Head(pending) \in 0 .. MaxItems
        BY <1>0, <3>3, PendingForm
      <4> QED BY <1>0, <3>3, <4>1, LeavingsForm
    <3> QED BY <1>12, <3>1, <3>2, <3>3 DEF Crash
  <2>3. Accepted' = Written
    BY <1>e, <2>1, <2>2
  <2> QED BY <2>1, <2>2, <2>3 DEF Log!Crash
<1>13. ASSUME Resume PROVE Log!Resume
  <2>1. UNCHANGED <<queue, pending, file, confirmed>> /\ task = "ended" /\ task' = "running"
    BY <1>13 DEF Resume, fileVars
  <2>2. Written' = Written
    BY <2>1 DEF Written
  <2> QED BY <1>v, <2>1, <2>2 DEF Log!Resume
<1>14. CASE UNCHANGED vars
  BY <1>14, <1>u, <1>v DEF vars, writerVars, fileVars, Written
<1> QED
  BY <1>1, <1>2, <1>3, <1>4, <1>5, <1>6, <1>7, <1>8, <1>9, <1>10, <1>11, <1>12, <1>13, <1>14
     DEF Next, WriterStep, AppendFlushes, Barrier, Barriers, Log!Next

\* The recorder implements the log: whatever fails, is retried, ends or crashes,
\* items reach the file in order, once and none skipped, and a barrier that
\* succeeds confirms only what is there.
THEOREM RecorderImplementsLog == Spec => LogSpec
<1>1. IInv /\ [Next]_vars => [Log!Next]_Log!vars
  BY StepImplements
<1> QED BY <1>1, InitImplements, Invariance, PTL DEF Spec, LogSpec, Log!Spec

=============================================================================
