------------------------ MODULE NetworkApprovalProofs ------------------------
(***************************************************************************)
(* Proofs about NetworkApproval.  The inductive invariant IInv describes    *)
(* the programs a handler can be left with (ProgramsOK), who holds the      *)
(* ticket of a pending approval (TicketsOK), how far the owner is with the  *)
(* two caches (CachesOK), the requests the caches answer (SettledOK), and   *)
(* the step between recording a denial and cancelling its call (CallsOK).   *)
(***************************************************************************)
EXTENDS NetworkApproval, FiniteSetTheorems, TLAPS

\* The steps of a handler that is not, or not yet, told a decision as an owner.
Early == {"start", "checkApproved", "join", "listen", "look", "sleep", "gate", "ask"}

RecordSteps == {"recordUser", "recordPolicy"}

\* The steps only the owner of a pending approval has.
OwnerSteps == {"recordUser", "undeny", "approve", "unapprove", "deny", "decide", "notify", "remove"}

Has(s, x) == \E i \in 1..Len(s) : s[i] = x

(* The shape of what a handler has left to do: an early step is alone, a       *)
(* record is followed by its cancel and a cancel comes after a record, the     *)
(* steps of an owner end with its "remove", and a host leaves one cache before *)
(* it enters the other.                                                        *)
Shape(s) ==
    /\ \A i \in 1..Len(s) : s[i] \in Early => Len(s) = 1
    /\ \A i \in 1..Len(s) : s[i] \in RecordSteps => i < Len(s) /\ s[i + 1] = "cancel"
    /\ \A i \in 2..Len(s) : s[i] = "cancel" => s[i - 1] \in RecordSteps
    /\ \A i \in 1..Len(s) : s[i] \in OwnerSteps => Has(s, "remove")
    /\ \A i, j \in 1..Len(s) : s[i] = "remove" /\ s[j] \in OwnerSteps => j <= i
    /\ \A i \in 1..Len(s) : s[i] = "undeny" => Has(s, "approve")
    /\ \A i, j \in 1..Len(s) : s[i] = "undeny" /\ s[j] = "approve" => i < j
    /\ \A i \in 1..Len(s) : s[i] = "unapprove" => Has(s, "deny")
    /\ \A i, j \in 1..Len(s) : s[i] = "unapprove" /\ s[j] = "deny" => i < j

-----------------------------------------------------------------------------
(* Programs. *)

\* The elements of a concatenation, as Plan builds its programs.
LEMMA ConcatOf ==
    ASSUME NEW S, NEW s \in Seq(S), NEW t \in Seq(S)
    PROVE  /\ s \o t \in Seq(S)
           /\ Len(s \o t) = Len(s) + Len(t)
           /\ \A i \in 1..Len(s) : (s \o t)[i] = s[i]
           /\ \A i \in 1..Len(t) : (s \o t)[Len(s) + i] = t[i]
<1>1. s \o t \in Seq(S) /\ Len(s \o t) = Len(s) + Len(t)
  OBVIOUS
<1>2. \A i \in 1..Len(s) : (s \o t)[i] = s[i]
  OBVIOUS
<1>3. \A i \in 1..Len(t) : (s \o t)[Len(s) + i] = t[i]
  OBVIOUS
<1> QED BY <1>1, <1>2, <1>3

\* Publish and Blocked have three steps each: what appending one of them gives.
LEMMA Append3 ==
    ASSUME NEW s \in Seq(Steps), NEW t \in Seq(Steps), Len(t) = 3
    PROVE  /\ s \o t \in Seq(Steps) /\ Len(s \o t) = Len(s) + 3
           /\ \A i \in 1..Len(s) : (s \o t)[i] = s[i]
           /\ (s \o t)[Len(s) + 1] = t[1] /\ (s \o t)[Len(s) + 2] = t[2] /\ (s \o t)[Len(s) + 3] = t[3]
<1>1. Len(s) \in Nat
  OBVIOUS
<1>2. s \o t \in Seq(Steps) /\ Len(s \o t) = Len(s) + Len(t)
  BY ConcatOf
<1>3. /\ \A i \in 1..Len(s) : (s \o t)[i] = s[i]
      /\ \A i \in 1..Len(t) : (s \o t)[Len(s) + i] = t[i]
  BY ConcatOf
<1>4. 1 \in 1..Len(t) /\ 2 \in 1..Len(t) /\ 3 \in 1..Len(t)
  OBVIOUS
<1>5. (s \o t)[Len(s) + 1] = t[1]
  BY <1>3, <1>4
<1>6. (s \o t)[Len(s) + 2] = t[2]
  BY <1>3, <1>4
<1>7. (s \o t)[Len(s) + 3] = t[3]
  BY <1>3, <1>4
<1> QED BY <1>1, <1>2, <1>3, <1>5, <1>6, <1>7

\* The first step of a program and the ones behind it.
LEMMA TailOf ==
    ASSUME NEW s \in Seq(Steps), s # <<>>
    PROVE  /\ Tail(s) \in Seq(Steps)
           /\ Len(s) \in Nat /\ Len(s) >= 1 /\ Len(Tail(s)) = Len(s) - 1
           /\ \A i \in 1..Len(Tail(s)) : Tail(s)[i] = s[i + 1]
           /\ Head(s) = s[1] /\ Head(s) \in Steps
           /\ \A i \in 1..Len(s) : s[i] \in Steps
  OBVIOUS

\* The steps of set_decision and of the removal of the pending approval.
LEMMA PublishIs ==
    /\ Publish \in Seq(Steps) /\ Len(Publish) = 3 /\ Publish # <<>> /\ Head(Publish) = "decide"
    /\ Publish[1] = "decide" /\ Publish[2] = "notify" /\ Publish[3] = "remove"
  BY DEF Publish, Steps

\* The steps of record_blocked_request.
LEMMA BlockedIs ==
    /\ Blocked \in Seq(Steps) /\ Len(Blocked) = 3
    /\ Blocked[1] = "single" /\ Blocked[2] = "recordPolicy" /\ Blocked[3] = "cancel"
  BY DEF Blocked, Steps

\* A handler that is denied as a waiter, or by a cache, has no step of an owner.
LEMMA BlockedShape ==
    /\ Shape(Blocked) /\ Blocked # <<>> /\ Head(Blocked) = "single"
    /\ \A x \in OwnerSteps : ~Has(Blocked, x)
<1>1. Shape(Blocked)
  BY BlockedIs DEF Shape, Has, Early, OwnerSteps, RecordSteps
<1>2. Blocked # <<>> /\ Head(Blocked) = "single"
  BY BlockedIs
<1>3. \A x \in OwnerSteps : ~Has(Blocked, x)
  BY BlockedIs DEF Has, OwnerSteps
<1> QED BY <1>1, <1>2, <1>3

\* A finished or dropped handler.
LEMMA EmptyShape ==
    <<>> \in Seq(Steps) /\ Shape(<<>>) /\ \A x : ~Has(<<>>, x)
<1>1. <<>> \in Seq(Steps) /\ Len(<<>>) = 0
  OBVIOUS
<1> QED BY <1>1 DEF Shape, Has

\* A handler at one of the steps before it is told a decision.
LEMMA EarlyShape ==
    ASSUME NEW x \in Early
    PROVE  /\ <<x>> \in Seq(Steps) /\ Shape(<<x>>) /\ <<x>> # <<>> /\ Head(<<x>>) = x
           /\ \A y : Has(<<x>>, y) <=> y = x
<1> DEFINE s == <<x>>
<1>1. s \in Seq(Steps) /\ Len(s) = 1 /\ s[1] = x /\ s # <<>> /\ Head(s) = x
  BY DEF Early, Steps
<1> HIDE DEF s
<1>2. Shape(s)
  BY <1>1 DEF Shape, Has, Early, OwnerSteps, RecordSteps
<1>3. \A y : Has(s, y) <=> y = x
  BY <1>1 DEF Has
<1> QED BY <1>1, <1>2, <1>3 DEF s

\* What the answer to the owner leaves it to do.
LEMMA PlanShape ==
    ASSUME NEW a \in Answers
    PROVE  /\ Plan(a) \in Seq(Steps) /\ Shape(Plan(a)) /\ Has(Plan(a), "remove")
           /\ Has(Plan(a), "approve") <=> a = "session"
           /\ Has(Plan(a), "undeny") <=> a = "session"
           /\ Has(Plan(a), "deny") <=> a = "denySession"
           /\ Has(Plan(a), "unapprove") <=> a = "denySession"
           /\ Plan(a) # <<>> /\ Head(Plan(a)) \notin Early \cup {"cancel"}
<1>1. CASE a = "once"
  <2>5. Plan(a) = Publish
    BY <1>1 DEF Plan
  <2>6. Shape(Publish)
    BY PublishIs DEF Shape, Has, Early, OwnerSteps, RecordSteps
  <2>7. /\ Has(Publish, "remove") /\ ~Has(Publish, "approve") /\ ~Has(Publish, "undeny")
        /\ ~Has(Publish, "deny") /\ ~Has(Publish, "unapprove")
    BY PublishIs DEF Has
  <2>8. Publish # <<>> /\ Head(Publish) = "decide"
    BY PublishIs
  <2> QED BY <1>1, PublishIs, <2>5, <2>6, <2>7, <2>8 DEF Early
<1>2. CASE a = "session"
  <2> DEFINE s == <<"undeny", "approve">>
  <2>1. /\ s \in Seq(Steps) /\ Len(s) = 2
        /\ s[1] = "undeny" /\ s[2] = "approve"
    BY DEF Steps
  <2> HIDE DEF s
  <2> DEFINE u == s \o Publish
  <2>2. /\ u \in Seq(Steps) /\ Len(u) = 5
        /\ u[1] = "undeny" /\ u[2] = "approve" /\ u[3] = "decide" /\ u[4] = "notify"
        /\ u[5] = "remove"
    <3>1. /\ u \in Seq(Steps) /\ Len(u) = Len(s) + 3
          /\ \A i \in 1..Len(s) : u[i] = s[i]
          /\ u[Len(s) + 1] = Publish[1] /\ u[Len(s) + 2] = Publish[2] /\ u[Len(s) + 3] = Publish[3]
      BY <2>1, PublishIs, Append3
    <3> HIDE DEF u
    <3> QED BY <3>1, <2>1, PublishIs
  <2> HIDE DEF u
  <2>5. Plan(a) = u
    BY <1>2 DEF Plan, s, u
  <2>6. Shape(u)
    BY <2>2 DEF Shape, Has, Early, OwnerSteps, RecordSteps
  <2>7. /\ Has(u, "remove") /\ Has(u, "approve") /\ Has(u, "undeny")
        /\ ~Has(u, "deny") /\ ~Has(u, "unapprove")
    BY <2>2 DEF Has
  <2>8. u # <<>> /\ Head(u) = "undeny"
    BY <2>2
  <2> QED BY <1>2, <2>2, <2>5, <2>6, <2>7, <2>8 DEF Early
<1>3. CASE a = "denySession"
  <2> DEFINE s == <<"recordUser", "cancel", "unapprove", "deny">>
  <2>1. /\ s \in Seq(Steps) /\ Len(s) = 4
        /\ s[1] = "recordUser" /\ s[2] = "cancel" /\ s[3] = "unapprove" /\ s[4] = "deny"
    BY DEF Steps
  <2> HIDE DEF s
  <2> DEFINE u == s \o Publish
  <2>2. /\ u \in Seq(Steps) /\ Len(u) = 7
        /\ u[1] = "recordUser" /\ u[2] = "cancel" /\ u[3] = "unapprove" /\ u[4] = "deny"
        /\ u[5] = "decide" /\ u[6] = "notify" /\ u[7] = "remove"
    <3>1. /\ u \in Seq(Steps) /\ Len(u) = Len(s) + 3
          /\ \A i \in 1..Len(s) : u[i] = s[i]
          /\ u[Len(s) + 1] = Publish[1] /\ u[Len(s) + 2] = Publish[2] /\ u[Len(s) + 3] = Publish[3]
      BY <2>1, PublishIs, Append3
    <3> HIDE DEF u
    <3> QED BY <3>1, <2>1, PublishIs
  <2> HIDE DEF u
  <2> DEFINE v == u \o Blocked
  <2>3. /\ v \in Seq(Steps) /\ Len(v) = 10
        /\ v[1] = "recordUser" /\ v[2] = "cancel" /\ v[3] = "unapprove" /\ v[4] = "deny"
        /\ v[5] = "decide" /\ v[6] = "notify" /\ v[7] = "remove" /\ v[8] = "single"
        /\ v[9] = "recordPolicy" /\ v[10] = "cancel"
    <3>1. /\ v \in Seq(Steps) /\ Len(v) = Len(u) + 3
          /\ \A i \in 1..Len(u) : v[i] = u[i]
          /\ v[Len(u) + 1] = Blocked[1] /\ v[Len(u) + 2] = Blocked[2] /\ v[Len(u) + 3] = Blocked[3]
      BY <2>2, BlockedIs, Append3
    <3> HIDE DEF v
    <3> QED BY <3>1, <2>2, BlockedIs
  <2> HIDE DEF v
  <2>5. Plan(a) = v
    BY <1>3 DEF Plan, s, u, v
  <2>6. Shape(v)
    BY <2>3 DEF Shape, Has, Early, OwnerSteps, RecordSteps
  <2>7. /\ Has(v, "remove") /\ ~Has(v, "approve") /\ ~Has(v, "undeny")
        /\ Has(v, "deny") /\ Has(v, "unapprove")
    BY <2>3 DEF Has
  <2>8. v # <<>> /\ Head(v) = "recordUser"
    BY <2>3
  <2> QED BY <1>3, <2>3, <2>5, <2>6, <2>7, <2>8 DEF Early
<1>4. CASE a = "denyUser"
  <2> DEFINE s == <<"recordUser", "cancel">>
  <2>1. /\ s \in Seq(Steps) /\ Len(s) = 2
        /\ s[1] = "recordUser" /\ s[2] = "cancel"
    BY DEF Steps
  <2> HIDE DEF s
  <2> DEFINE u == s \o Publish
  <2>2. /\ u \in Seq(Steps) /\ Len(u) = 5
        /\ u[1] = "recordUser" /\ u[2] = "cancel" /\ u[3] = "decide" /\ u[4] = "notify"
        /\ u[5] = "remove"
    <3>1. /\ u \in Seq(Steps) /\ Len(u) = Len(s) + 3
          /\ \A i \in 1..Len(s) : u[i] = s[i]
          /\ u[Len(s) + 1] = Publish[1] /\ u[Len(s) + 2] = Publish[2] /\ u[Len(s) + 3] = Publish[3]
      BY <2>1, PublishIs, Append3
    <3> HIDE DEF u
    <3> QED BY <3>1, <2>1, PublishIs
  <2> HIDE DEF u
  <2> DEFINE v == u \o Blocked
  <2>3. /\ v \in Seq(Steps) /\ Len(v) = 8
        /\ v[1] = "recordUser" /\ v[2] = "cancel" /\ v[3] = "decide" /\ v[4] = "notify"
        /\ v[5] = "remove" /\ v[6] = "single" /\ v[7] = "recordPolicy" /\ v[8] = "cancel"
    <3>1. /\ v \in Seq(Steps) /\ Len(v) = Len(u) + 3
          /\ \A i \in 1..Len(u) : v[i] = u[i]
          /\ v[Len(u) + 1] = Blocked[1] /\ v[Len(u) + 2] = Blocked[2] /\ v[Len(u) + 3] = Blocked[3]
      BY <2>2, BlockedIs, Append3
    <3> HIDE DEF v
    <3> QED BY <3>1, <2>2, BlockedIs
  <2> HIDE DEF v
  <2>5. Plan(a) = v
    BY <1>4 DEF Plan, s, u, v
  <2>6. Shape(v)
    BY <2>3 DEF Shape, Has, Early, OwnerSteps, RecordSteps
  <2>7. /\ Has(v, "remove") /\ ~Has(v, "approve") /\ ~Has(v, "undeny")
        /\ ~Has(v, "deny") /\ ~Has(v, "unapprove")
    BY <2>3 DEF Has
  <2>8. v # <<>> /\ Head(v) = "recordUser"
    BY <2>3
  <2> QED BY <1>4, <2>3, <2>5, <2>6, <2>7, <2>8 DEF Early
<1>5. CASE a = "denyPolicy"
  <2> DEFINE s == <<"recordPolicy", "cancel">>
  <2>1. /\ s \in Seq(Steps) /\ Len(s) = 2
        /\ s[1] = "recordPolicy" /\ s[2] = "cancel"
    BY DEF Steps
  <2> HIDE DEF s
  <2> DEFINE u == s \o Publish
  <2>2. /\ u \in Seq(Steps) /\ Len(u) = 5
        /\ u[1] = "recordPolicy" /\ u[2] = "cancel" /\ u[3] = "decide" /\ u[4] = "notify"
        /\ u[5] = "remove"
    <3>1. /\ u \in Seq(Steps) /\ Len(u) = Len(s) + 3
          /\ \A i \in 1..Len(s) : u[i] = s[i]
          /\ u[Len(s) + 1] = Publish[1] /\ u[Len(s) + 2] = Publish[2] /\ u[Len(s) + 3] = Publish[3]
      BY <2>1, PublishIs, Append3
    <3> HIDE DEF u
    <3> QED BY <3>1, <2>1, PublishIs
  <2> HIDE DEF u
  <2> DEFINE v == u \o Blocked
  <2>3. /\ v \in Seq(Steps) /\ Len(v) = 8
        /\ v[1] = "recordPolicy" /\ v[2] = "cancel" /\ v[3] = "decide" /\ v[4] = "notify"
        /\ v[5] = "remove" /\ v[6] = "single" /\ v[7] = "recordPolicy" /\ v[8] = "cancel"
    <3>1. /\ v \in Seq(Steps) /\ Len(v) = Len(u) + 3
          /\ \A i \in 1..Len(u) : v[i] = u[i]
          /\ v[Len(u) + 1] = Blocked[1] /\ v[Len(u) + 2] = Blocked[2] /\ v[Len(u) + 3] = Blocked[3]
      BY <2>2, BlockedIs, Append3
    <3> HIDE DEF v
    <3> QED BY <3>1, <2>2, BlockedIs
  <2> HIDE DEF v
  <2>5. Plan(a) = v
    BY <1>5 DEF Plan, s, u, v
  <2>6. Shape(v)
    BY <2>3 DEF Shape, Has, Early, OwnerSteps, RecordSteps
  <2>7. /\ Has(v, "remove") /\ ~Has(v, "approve") /\ ~Has(v, "undeny")
        /\ ~Has(v, "deny") /\ ~Has(v, "unapprove")
    BY <2>3 DEF Has
  <2>8. v # <<>> /\ Head(v) = "recordPolicy"
    BY <2>3
  <2> QED BY <1>5, <2>3, <2>5, <2>6, <2>7, <2>8 DEF Early
<1>6. CASE a = "refused"
  <2> DEFINE u == Publish \o Blocked
  <2>2. /\ u \in Seq(Steps) /\ Len(u) = 6
        /\ u[1] = "decide" /\ u[2] = "notify" /\ u[3] = "remove" /\ u[4] = "single"
        /\ u[5] = "recordPolicy" /\ u[6] = "cancel"
    <3>1. /\ u \in Seq(Steps) /\ Len(u) = Len(Publish) + 3
          /\ \A i \in 1..Len(Publish) : u[i] = Publish[i]
          /\ u[Len(Publish) + 1] = Blocked[1] /\ u[Len(Publish) + 2] = Blocked[2] /\ u[Len(Publish) + 3] = Blocked[3]
      BY PublishIs, BlockedIs, Append3
    <3> HIDE DEF u
    <3> QED BY <3>1, PublishIs, BlockedIs
  <2> HIDE DEF u
  <2> DEFINE v == u \o Blocked
  <2>3. /\ v \in Seq(Steps) /\ Len(v) = 9
        /\ v[1] = "decide" /\ v[2] = "notify" /\ v[3] = "remove" /\ v[4] = "single"
        /\ v[5] = "recordPolicy" /\ v[6] = "cancel" /\ v[7] = "single" /\ v[8] = "recordPolicy"
        /\ v[9] = "cancel"
    <3>1. /\ v \in Seq(Steps) /\ Len(v) = Len(u) + 3
          /\ \A i \in 1..Len(u) : v[i] = u[i]
          /\ v[Len(u) + 1] = Blocked[1] /\ v[Len(u) + 2] = Blocked[2] /\ v[Len(u) + 3] = Blocked[3]
      BY <2>2, BlockedIs, Append3
    <3> HIDE DEF v
    <3> QED BY <3>1, <2>2, BlockedIs
  <2> HIDE DEF v
  <2>5. Plan(a) = v
    BY <1>6 DEF Plan, u, v
  <2>6. Shape(v)
    BY <2>3 DEF Shape, Has, Early, OwnerSteps, RecordSteps
  <2>7. /\ Has(v, "remove") /\ ~Has(v, "approve") /\ ~Has(v, "undeny")
        /\ ~Has(v, "deny") /\ ~Has(v, "unapprove")
    BY <2>3 DEF Has
  <2>8. v # <<>> /\ Head(v) = "decide"
    BY <2>3
  <2> QED BY <1>6, <2>3, <2>5, <2>6, <2>7, <2>8 DEF Early
<1> QED BY <1>1, <1>2, <1>3, <1>4, <1>5, <1>6 DEF Answers


\* What a handler loses when it takes a step.
LEMMA TailHas ==
    ASSUME NEW s \in Seq(Steps), s # <<>>, NEW x
    PROVE  /\ Has(Tail(s), x) => Has(s, x)
           /\ Has(s, x) => Has(Tail(s), x) \/ Head(s) = x
           /\ Has(s, Head(s))
<1>1. Has(Tail(s), x) => Has(s, x)
  BY TailOf DEF Has
<1>2. ASSUME Has(s, x), Head(s) # x PROVE Has(Tail(s), x)
  <2>1. PICK i \in 1..Len(s) : s[i] = x
    BY <1>2 DEF Has
  <2>2. i # 1 /\ i - 1 \in 1..Len(Tail(s)) /\ Tail(s)[i - 1] = s[(i - 1) + 1]
    BY <1>2, <2>1, TailOf
  <2> QED BY <2>1, <2>2, TailOf DEF Has
<1>3. Has(s, Head(s))
  BY TailOf DEF Has
<1> QED BY <1>1, <1>2, <1>3

\* The programs that occur are closed under taking a step.
LEMMA TailShape ==
    ASSUME NEW s \in Seq(Steps), s # <<>>, Shape(s)
    PROVE  Shape(Tail(s))
<1> DEFINE t == Tail(s)
<1>1. /\ Len(s) \in Nat /\ Len(t) \in Nat /\ Len(t) = Len(s) - 1
      /\ \A i \in 1..Len(t) : t[i] = s[i + 1] /\ i + 1 \in 1..Len(s)
  BY TailOf
<1>a. \A x : /\ Has(t, x) => Has(s, x)
             /\ Has(s, x) => Has(t, x) \/ Head(s) = x
  BY TailHas
<1>h. Head(s) = s[1] /\ 1 \in 1..Len(s)
  BY TailOf
<1> HIDE DEF t
<1>2. \A i \in 1..Len(t) : t[i] \in Early => Len(t) = 1
  BY <1>1 DEF Shape
<1>3. \A i \in 1..Len(t) : t[i] \in RecordSteps => i < Len(t) /\ t[i + 1] = "cancel"
  BY <1>1 DEF Shape
<1>4. \A i \in 2..Len(t) : t[i] = "cancel" => t[i - 1] \in RecordSteps
  <2> SUFFICES ASSUME NEW i \in 2..Len(t), t[i] = "cancel" PROVE t[i - 1] \in RecordSteps
    OBVIOUS
  <2>1. t[i] = s[i + 1] /\ i + 1 \in 2..Len(s) /\ t[i - 1] = s[(i - 1) + 1]
    BY <1>1
  <2>2. s[(i + 1) - 1] \in RecordSteps
    BY <2>1 DEF Shape
  <2> QED BY <2>1, <2>2
<1>5. ASSUME NEW i \in 1..Len(t), NEW j \in 1..Len(t)
      PROVE  /\ t[i] = "remove" /\ t[j] \in OwnerSteps => j <= i
             /\ t[i] = "undeny" /\ t[j] = "approve" => i < j
             /\ t[i] = "unapprove" /\ t[j] = "deny" => i < j
  <2>1. t[i] = s[i + 1] /\ t[j] = s[j + 1] /\ i + 1 \in 1..Len(s) /\ j + 1 \in 1..Len(s)
    BY <1>1
  <2>2. /\ s[i + 1] = "remove" /\ s[j + 1] \in OwnerSteps => j + 1 <= i + 1
        /\ s[i + 1] = "undeny" /\ s[j + 1] = "approve" => i + 1 < j + 1
        /\ s[i + 1] = "unapprove" /\ s[j + 1] = "deny" => i + 1 < j + 1
    BY <2>1 DEF Shape
  <2> QED BY <2>1, <2>2
<1>6. ASSUME NEW i \in 1..Len(t)
      PROVE  /\ t[i] \in OwnerSteps => Has(t, "remove")
             /\ t[i] = "undeny" => Has(t, "approve")
             /\ t[i] = "unapprove" => Has(t, "deny")
  <2>1. t[i] = s[i + 1] /\ i + 1 \in 1..Len(s) /\ i + 1 > 1
    BY <1>1
  <2>2. /\ s[i + 1] \in OwnerSteps => Has(s, "remove") /\ s[1] # "remove"
        /\ s[i + 1] = "undeny" => Has(s, "approve") /\ s[1] # "approve"
        /\ s[i + 1] = "unapprove" => Has(s, "deny") /\ s[1] # "deny"
    BY <2>1, <1>h DEF Shape
  <2> QED BY <2>1, <2>2, <1>a, <1>h
<1> QED BY <1>2, <1>3, <1>4, <1>5, <1>6 DEF Shape, t

\* Every step of a handler, in terms of its first step and of what is left.
LEMMA TakeStep ==
    ASSUME NEW s \in Seq(Steps), s # <<>>, Shape(s)
    PROVE  /\ Tail(s) \in Seq(Steps) /\ Shape(Tail(s))
           /\ \A x : /\ Has(Tail(s), x) => Has(s, x)
                     /\ Has(s, x) => Has(Tail(s), x) \/ Head(s) = x
           /\ Head(s) \in OwnerSteps => Has(s, "remove")
           /\ Head(s) = "remove" => \A x \in OwnerSteps : ~Has(Tail(s), x)
           /\ Head(s) = "undeny" => Has(Tail(s), "approve")
           /\ Head(s) = "approve" => ~Has(Tail(s), "undeny")
           /\ Head(s) = "unapprove" => Has(Tail(s), "deny")
           /\ Head(s) = "deny" => ~Has(Tail(s), "unapprove")
           /\ Head(s) \in RecordSteps => Tail(s) # <<>> /\ Head(Tail(s)) = "cancel"
           /\ Tail(s) # <<>> => /\ Head(Tail(s)) \notin Early
                                /\ Head(Tail(s)) = "cancel" => Head(s) \in RecordSteps
           /\ Head(s) \in Early => Tail(s) = <<>> /\ \A x : Has(s, x) <=> x = Head(s)
<1> DEFINE t == Tail(s)
<1>1. /\ t \in Seq(Steps) /\ Len(s) \in Nat /\ Len(s) >= 1 /\ Len(t) \in Nat /\ Len(t) = Len(s) - 1
      /\ \A i \in 1..Len(t) : t[i] = s[i + 1] /\ i + 1 \in 1..Len(s)
      /\ Head(s) = s[1] /\ 1 \in 1..Len(s)
  BY TailOf
<1>2. \A x : /\ Has(t, x) => Has(s, x)
             /\ Has(s, x) => Has(t, x) \/ Head(s) = x
  BY TailHas
<1>3. Shape(t)
  BY TailShape
<1>4. /\ t # <<>> <=> Len(t) > 0
      /\ Len(t) > 0 => Head(t) = t[1] /\ t[1] = s[2] /\ 2 \in 2..Len(s)
  <2>1. t # <<>> => Head(t) = t[1] /\ Len(t) > 0
    BY <1>1, TailOf
  <2>2. Len(<<>>) = 0
    OBVIOUS
  <2>3. Len(t) > 0 => 1 \in 1..Len(t) /\ t[1] = s[1 + 1] /\ 2 \in 2..Len(s)
    BY <1>1
  <2> HIDE DEF t
  <2>4. t # <<>> <=> Len(t) > 0
    BY <2>1, <2>2
  <2> QED BY <2>1, <2>3, <2>4
<1> HIDE DEF t
<1>5. Head(s) \in OwnerSteps => Has(s, "remove")
  BY <1>1 DEF Shape
<1>6. Head(s) = "remove" => \A x \in OwnerSteps : ~Has(t, x)
  <2> SUFFICES ASSUME s[1] = "remove", NEW x \in OwnerSteps, Has(t, x) PROVE FALSE
    BY <1>1
  <2>1. PICK i \in 1..Len(t) : t[i] = x
    BY DEF Has
  <2>2. s[i + 1] = x /\ i + 1 \in 1..Len(s) /\ i + 1 > 1
    BY <1>1, <2>1
  <2> QED BY <1>1, <2>2 DEF Shape
<1>7. /\ Head(s) = "undeny" => Has(t, "approve")
      /\ Head(s) = "unapprove" => Has(t, "deny")
  BY <1>1, <1>2 DEF Shape
<1>8. /\ Head(s) = "approve" => ~Has(t, "undeny")
      /\ Head(s) = "deny" => ~Has(t, "unapprove")
  <2>1. ASSUME NEW i \in 1..Len(t), t[i] = "undeny", s[1] = "approve" PROVE FALSE
    <3>1. s[i + 1] = "undeny" /\ i + 1 \in 1..Len(s) /\ i + 1 > 1
      BY <1>1, <2>1
    <3> QED BY <1>1, <2>1, <3>1 DEF Shape
  <2>2. ASSUME NEW i \in 1..Len(t), t[i] = "unapprove", s[1] = "deny" PROVE FALSE
    <3>1. s[i + 1] = "unapprove" /\ i + 1 \in 1..Len(s) /\ i + 1 > 1
      BY <1>1, <2>2
    <3> QED BY <1>1, <2>2, <3>1 DEF Shape
  <2> QED BY <1>1, <2>1, <2>2 DEF Has
<1>9. Head(s) \in RecordSteps => t # <<>> /\ Head(t) = "cancel"
  <2> SUFFICES ASSUME s[1] \in RecordSteps PROVE t # <<>> /\ Head(t) = "cancel"
    BY <1>1
  <2>1. 1 < Len(s) /\ s[1 + 1] = "cancel"
    BY <1>1 DEF Shape
  <2> QED BY <1>1, <1>4, <2>1
<1>10. t # <<>> => /\ Head(t) \notin Early
                   /\ Head(t) = "cancel" => Head(s) \in RecordSteps
  <2> SUFFICES ASSUME t # <<>>
               PROVE  Head(t) \notin Early /\ (Head(t) = "cancel" => Head(s) \in RecordSteps)
    OBVIOUS
  <2>1. Head(t) = s[2] /\ 2 \in 2..Len(s) /\ 2 \in 1..Len(s) /\ Len(s) # 1
    BY <1>1, <1>4
  <2>2. s[2] \notin Early
    BY <2>1 DEF Shape
  <2>3. s[2] = "cancel" => s[2 - 1] \in RecordSteps
    BY <2>1 DEF Shape
  <2> QED BY <1>1, <2>1, <2>2, <2>3
<1>11. Head(s) \in Early => t = <<>> /\ \A x : Has(s, x) <=> x = Head(s)
  <2> SUFFICES ASSUME s[1] \in Early PROVE t = <<>> /\ \A x : Has(s, x) <=> x = s[1]
    BY <1>1
  <2>1. Len(s) = 1
    BY <1>1 DEF Shape
  <2> QED BY <1>1, <1>4, <2>1 DEF Has
<1> QED BY <1>1, <1>2, <1>3, <1>5, <1>6, <1>7, <1>8, <1>9, <1>10, <1>11 DEF t

-----------------------------------------------------------------------------
(* Type correctness and the shape of the programs. *)

(* Every handler has a program of one of the shapes above, a dropped one has   *)
(* nothing left to do.                                                         *)
ProgramsOK == \A r \in Requests : Shape(todo[r]) /\ (r \in dropped => todo[r] = <<>>)

\* resolve_single_active_call returns a registered call or nothing.
LEMMA SingleActiveCallIsACall ==
    ASSUME active \subseteq Calls
    PROVE  SingleActiveCall \in Calls \cup {None}
<1>1. Cardinality(active) = 1 => active # {}
  BY FS_EmptySet
<1> QED BY <1>1 DEF SingleActiveCall

\* Before any request comes, every handler is at its start.
LEMMA TypeInit == Init => TypeOK /\ ProgramsOK
<1> SUFFICES ASSUME Init PROVE TypeOK /\ ProgramsOK
  OBVIOUS
<1>1. <<"start">> \in Seq(Steps) /\ Shape(<<"start">>)
  BY EarlyShape DEF Early
<1>2. \A r \in Requests : todo[r] = <<"start">>
  BY DEF Init
<1>3. TypeOK
  <2>1. todo \in [Requests -> Seq(Steps)]
    BY <1>1 DEF Init
  <2> QED BY <2>1, BoundsAreNaturals DEF Init, TypeOK, Decisions, Outcomes
<1> QED BY <1>1, <1>2, <1>3 DEF Init, ProgramsOK

\* The program of one handler changes, to one of the shapes.
LEMMA GotoShape ==
    ASSUME TypeOK, ProgramsOK, NEW r \in Requests, NEW s \in Seq(Steps), Shape(s), Goto(r, s),
           dropped' = dropped, todo[r] # <<>>
    PROVE  /\ todo' \in [Requests -> Seq(Steps)] /\ ProgramsOK'
           /\ todo'[r] = s /\ r \notin dropped
           /\ \A q \in Requests : q # r => todo'[q] = todo[q]
<1>1. /\ todo' \in [Requests -> Seq(Steps)] /\ todo'[r] = s
      /\ \A q \in Requests : q # r => todo'[q] = todo[q]
  BY DEF Goto, TypeOK
<1>2. r \notin dropped
  BY DEF ProgramsOK
<1> QED BY <1>1, <1>2 DEF ProgramsOK

-----------------------------------------------------------------------------
(* The inductive invariant. *)

\* The handler owns a pending approval and has not removed it.
Engaged(r) == At(r, "gate") \/ At(r, "ask") \/ Has(todo[r], "remove")

\* The handler waits for the decision of another one.
Waits(r) == At(r, "listen") \/ At(r, "look") \/ At(r, "sleep")

(* The owner of a host's pending approval holds its own ticket, a waiter that  *)
(* of another handler, every other handler none.                               *)
TicketsOK ==
    /\ \A r \in Requests : At(r, "start") <=> host[r] = None
    /\ \A r \in Requests : ticket[r] = r => host[r] # None /\ pending[host[r]] = r
    /\ \A h \in Hosts : pending[h] # None => host[pending[h]] = h /\ ticket[pending[h]] = pending[h]
    /\ \A r \in Requests : Engaged(r) => ticket[r] = r
    /\ \A r \in Requests : Waits(r) => ticket[r] \notin {r, None}
    /\ \A r \in Requests : ticket[r] = None \/ Engaged(r) \/ Waits(r) \/ r \in dropped

Agree(h) ==
    /\ h \in approved <=> session[h] = "allow"
    /\ h \in denied <=> session[h] = "deny"

(* The caches agree with the session's answer, except while the owner that was *)
(* given it has yet to enter the host in one cache, after removing it from the *)
(* other.                                                                      *)
CachesOK ==
    /\ \A h \in Hosts : pending[h] = None => Agree(h)
    /\ \A r \in Requests : Owns(r) =>
         /\ Has(todo[r], "approve") =>
              session[host[r]] = "allow" /\ (Has(todo[r], "undeny") \/ host[r] \notin denied)
         /\ Has(todo[r], "deny") =>
              session[host[r]] = "deny" /\ (Has(todo[r], "unapprove") \/ host[r] \notin approved)
         /\ Has(todo[r], "approve") \/ Has(todo[r], "deny") \/ Agree(host[r])

(* A request that came to a host with an answer is answered by the caches.     *)
SettledOK ==
    /\ \A r \in Requests : settled[r] =>
         /\ host[r] # None /\ session[host[r]] # None /\ ticket[r] = None
         /\ res[r] \in {None, session[host[r]]}
         /\ At(r, "checkApproved") => host[r] \in approved /\ session[host[r]] = "allow"
         /\ ~At(r, "join")
    /\ \A r \in Requests : host[r] = None => res[r] = None

(* A handler about to cancel has a call to cancel, and every recorded denial   *)
(* has been or is about to be followed by its cancel.                          *)
CallsOK ==
    /\ \A r \in Requests : At(r, "cancel") => owner_call[r] \in Calls
    /\ DenialStopsCall

IInv == TypeOK /\ ProgramsOK /\ TicketsOK /\ CachesOK /\ SettledOK /\ CallsOK

-----------------------------------------------------------------------------
(* What a step of one handler leaves alone. *)

Others(r) ==
    \A q \in Requests : q # r =>
        /\ todo'[q] = todo[q] /\ host'[q] = host[q] /\ ticket'[q] = ticket[q]
        /\ owner_call'[q] = owner_call[q] /\ res'[q] = res[q]

CacheSteps == {"undeny", "approve", "unapprove", "deny"}

\* The others stay where they are.
LEMMA OthersStay ==
    ASSUME NEW r \in Requests, Others(r)
    PROVE  \A q \in Requests : q # r =>
             /\ \A x : At(q, x)' <=> At(q, x)
             /\ Engaged(q)' <=> Engaged(q)
             /\ Waits(q)' <=> Waits(q)
  BY DEF Others, At, Engaged, Waits

\* A step that neither takes nor gives back a ticket.
LEMMA TicketsFrame ==
    ASSUME IInv, NEW r \in Requests, Others(r),
           host' = host, ticket' = ticket, pending' = pending, dropped' = dropped,
           At(r, "start")' <=> At(r, "start"), Engaged(r)' <=> Engaged(r), Waits(r)' <=> Waits(r)
    PROVE  TicketsOK'
<1>1. \A q \in Requests : /\ At(q, "start")' <=> At(q, "start")
                          /\ Engaged(q)' <=> Engaged(q)
                          /\ Waits(q)' <=> Waits(q)
  BY DEF Others, At, Engaged, Waits
<1> QED BY <1>1 DEF IInv, TicketsOK

\* A step that leaves the caches and the owner's work on them alone.
LEMMA CachesFrame ==
    ASSUME IInv, NEW r \in Requests, Others(r),
           host' = host, ticket' = ticket, pending' = pending, dropped' = dropped,
           approved' = approved, denied' = denied, session' = session,
           \A x \in CacheSteps : Has(todo'[r], x) <=> Has(todo[r], x)
    PROVE  CachesOK'
<1>1. \A q \in Requests : \A x \in CacheSteps : Has(todo'[q], x) <=> Has(todo[q], x)
  BY DEF Others
<1>2. \A h \in Hosts : Agree(h)' <=> Agree(h)
  BY DEF Agree
<1>3. \A q \in Requests : ticket[q] = q => host[q] \in Hosts
  BY DEF IInv, TypeOK, TicketsOK
<1>4. \A q \in Requests : Owns(q)' <=> Owns(q)
  BY DEF Owns
<1> QED BY <1>1, <1>2, <1>3, <1>4 DEF IInv, CachesOK, CacheSteps, Owns

\* A step of a handler that the caches did not answer, or of its observer.
LEMMA SettledFrame ==
    ASSUME IInv, NEW r \in Requests, Others(r),
           host' = host, session' = session, settled' = settled, approved' = approved, host[r] # None,
           settled[r] => /\ ticket'[r] = ticket[r] /\ res'[r] = res[r]
                         /\ ~At(r, "checkApproved")' /\ ~At(r, "join")'
    PROVE  SettledOK'
<1>1. \A q \in Requests : q # r => /\ At(q, "checkApproved")' <=> At(q, "checkApproved")
                                   /\ At(q, "join")' <=> At(q, "join")
  BY DEF Others, At
<1> QED BY <1>1 DEF IInv, SettledOK, Others

\* A step of a handler that records no denial and cancels no call.
LEMMA CallsFrame ==
    ASSUME IInv, NEW r \in Requests, Others(r),
           outcomes' = outcomes, cancelled' = cancelled,
           ~At(r, "cancel"), ~At(r, "cancel")'
    PROVE  CallsOK'
<1>1. \A q \in Requests : At(q, "cancel")' <=> At(q, "cancel")
  BY DEF Others, At
<1>2. \A q \in Requests : At(q, "cancel") => owner_call'[q] = owner_call[q]
  BY DEF Others
<1> QED BY <1>1, <1>2 DEF IInv, CallsOK, DenialStopsCall

-----------------------------------------------------------------------------
(* The steps of a handler before it is told a decision. *)

\* get_or_create_pending_approval: a handler becomes the owner or a waiter.
LEMMA JoinKeeps ==
    ASSUME IInv, NEW r \in Requests, Join(r)
    PROVE  IInv'
<1>1. todo[r] # <<>> /\ Head(todo[r]) = "join" /\ todo[r] \in Seq(Steps) /\ Shape(todo[r])
  BY DEF IInv, TypeOK, ProgramsOK, Join, At
<1>2. \A x : Has(todo[r], x) <=> x = "join"
  BY <1>1, TakeStep DEF Early
<1>3. host[r] \in Hosts /\ ticket[r] = None /\ r \notin dropped /\ ~settled[r] /\ r # None
  <2>1. ~At(r, "start") /\ At(r, "join") /\ ~Engaged(r) /\ ~Waits(r)
    BY <1>1, <1>2 DEF At, Engaged, Waits
  <2>2. r \notin dropped /\ r # None
    BY <1>1, NoneIsOutside DEF IInv, ProgramsOK
  <2> QED BY <2>1, <2>2 DEF IInv, TypeOK, TicketsOK, SettledOK
<1> DEFINE x == IF pending[host[r]] = None THEN "gate" ELSE "listen"
<1>4. /\ <<x>> \in Seq(Steps) /\ Shape(<<x>>) /\ <<x>> # <<>> /\ Head(<<x>>) = x
      /\ \A y : Has(<<x>>, y) <=> y = x
  BY EarlyShape DEF Early
<1>5. /\ todo' \in [Requests -> Seq(Steps)] /\ ProgramsOK' /\ todo'[r] = <<x>>
      /\ \A q \in Requests : q # r => todo'[q] = todo[q]
  BY <1>1, <1>4, GotoShape DEF IInv, Join, boundVars
<1>6. TypeOK'
  <2>1. ticket' = [ticket EXCEPT ![r] = r] \/ ticket' = [ticket EXCEPT ![r] = pending[host[r]]]
    BY DEF Join
  <2>2. pending' = [pending EXCEPT ![host[r]] = r] \/ pending' = pending
    BY DEF Join
  <2>3. ticket' \in [Requests -> Requests \cup {None}]
    BY <1>3, <2>1 DEF IInv, TypeOK
  <2>4. pending' \in [Hosts -> Requests \cup {None}]
    BY <1>3, <2>2 DEF IInv, TypeOK
  <2> QED BY <1>5, <2>3, <2>4 DEF IInv, TypeOK, Join, cacheVars, callVars, ghostVars, boundVars
<1>7. Others(r)
  BY <1>5 DEF Others, Join, IInv, TypeOK
<1>8. TicketsOK'
  <2>1. \A q \in Requests : q # r => /\ At(q, "start")' <=> At(q, "start")
                                     /\ Engaged(q)' <=> Engaged(q)
                                     /\ Waits(q)' <=> Waits(q)
    BY <1>7, OthersStay
  <2>2. CASE pending[host[r]] = None
    <3>1. ~At(r, "start")' /\ Engaged(r)' /\ ~Waits(r)'
      BY <1>4, <1>5, <2>2 DEF At, Engaged, Waits
    <3>2. /\ pending' = [pending EXCEPT ![host[r]] = r] /\ ticket' = [ticket EXCEPT ![r] = r]
          /\ host' = host /\ dropped' = dropped
      BY <2>2 DEF Join, boundVars
    <3>3. \A q \in Requests : ticket'[q] = q => host'[q] # None /\ pending'[host'[q]] = q
      <4>1. \A q \in Requests : q # r /\ ticket[q] = q =>
               host[q] \in Hosts /\ pending[host[q]] = q /\ host[q] # host[r]
        BY <2>2, NoneIsOutside DEF IInv, TypeOK, TicketsOK
      <4>2. pending'[host[r]] = r /\ \A h \in Hosts : h # host[r] => pending'[h] = pending[h]
        BY <1>3, <3>2 DEF IInv, TypeOK
      <4> QED BY <1>3, <3>2, <4>1, <4>2, NoneIsOutside DEF IInv, TypeOK
    <3>4. \A h \in Hosts : pending'[h] # None =>
             host'[pending'[h]] = h /\ ticket'[pending'[h]] = pending'[h]
      BY <1>3, <2>2, <3>2 DEF IInv, TypeOK, TicketsOK
    <3>5. \A q \in Requests : q # r => ticket'[q] = ticket[q]
      BY <3>2 DEF IInv, TypeOK
    <3>6. ticket'[r] = r
      BY <3>2 DEF IInv, TypeOK
    <3> QED BY <1>3, <2>1, <3>1, <3>2, <3>3, <3>4, <3>5, <3>6 DEF IInv, TicketsOK
  <2>3. CASE pending[host[r]] # None
    <3>1. ~At(r, "start")' /\ ~Engaged(r)' /\ Waits(r)'
      BY <1>4, <1>5, <2>3 DEF At, Engaged, Waits
    <3>2. /\ pending' = pending /\ ticket' = [ticket EXCEPT ![r] = pending[host[r]]]
          /\ host' = host /\ dropped' = dropped
      BY <2>3 DEF Join, boundVars
    <3>3. pending[host[r]] # r
      BY <1>3, <2>3 DEF IInv, TicketsOK
    <3> QED BY <1>3, <2>1, <2>3, <3>1, <3>2, <3>3 DEF IInv, TypeOK, TicketsOK
  <2> QED BY <2>2, <2>3
<1>9. CachesOK'
  <2>1. ~Has(todo'[r], "approve") /\ ~Has(todo'[r], "deny")
    BY <1>4, <1>5
  <2>2. \A h \in Hosts : Agree(h)' <=> Agree(h)
    BY DEF Join, Agree, cacheVars, ghostVars
  <2>3. \A q \in Requests : q # r => (Owns(q)' <=> Owns(q)) /\ host'[q] = host[q] /\ todo'[q] = todo[q]
    BY <1>5, <1>7 DEF Join, Owns, Others, boundVars
  <2>4. host'[r] = host[r] /\ (Owns(r)' => pending[host[r]] = None)
    BY <1>3 DEF IInv, TypeOK, Join, Owns, TicketsOK
  <2>5. \A h \in Hosts : pending'[h] = None => pending[h] = None
    BY <1>3 DEF IInv, TypeOK, Join
  <2>6. \A q \in Requests : Owns(q) => host[q] \in Hosts
    BY DEF IInv, TypeOK, TicketsOK, Owns
  <2>7. denied' = denied /\ approved' = approved /\ session' = session
    BY DEF Join, cacheVars, ghostVars
  <2> QED BY <1>3, <2>1, <2>2, <2>3, <2>4, <2>5, <2>6, <2>7 DEF IInv, CachesOK
<1>10. SettledOK'
  BY <1>3, <1>7, SettledFrame, NoneIsOutside DEF Join, cacheVars, ghostVars
<1>11. CallsOK'
  <2>1. ~At(r, "cancel") /\ ~At(r, "cancel")'
    BY <1>1, <1>4, <1>5 DEF At
  <2> QED BY <1>7, <2>1, CallsFrame DEF Join, callVars
<1> QED BY <1>5, <1>6, <1>8, <1>9, <1>10, <1>11 DEF IInv

\* A handler that does not own its host's approval is given its decision.
LEMMA ReturnKeeps ==
    ASSUME IInv, NEW r \in Requests, NEW d \in {"allow", "deny"}, Return(r, d), todo[r] # <<>>,
           ~Engaged(r), ~At(r, "start"), ~At(r, "cancel"), settled[r] => d = session[host[r]],
           UNCHANGED <<host, owner_call, pending, cacheVars, outcomes, cancelled, session, settled, dropped>>
    PROVE  /\ todo' \in [Requests -> Seq(Steps)]
           /\ ticket' \in [Requests -> Requests \cup {None}] /\ res' \in [Requests -> {"allow", "deny", None}]
           /\ ProgramsOK' /\ TicketsOK' /\ CachesOK' /\ SettledOK' /\ CallsOK'
<1> DEFINE s == IF d = "deny" THEN Blocked ELSE <<>>
<1>1. /\ s \in Seq(Steps) /\ Shape(s) /\ \A x \in OwnerSteps : ~Has(s, x)
      /\ s # <<>> => Head(s) = "single"
  BY BlockedIs, BlockedShape, EmptyShape
<1>2. /\ todo' \in [Requests -> Seq(Steps)] /\ ProgramsOK' /\ todo'[r] = s /\ r \notin dropped
      /\ \A q \in Requests : q # r => todo'[q] = todo[q]
  <2>1. Goto(r, s) /\ dropped' = dropped
    BY DEF Return
  <2> HIDE DEF s
  <2> QED BY <1>1, <2>1, GotoShape DEF IInv
<1> HIDE DEF s
<1>3. /\ ticket' = [ticket EXCEPT ![r] = None] /\ res' = [res EXCEPT ![r] = d]
      /\ host' = host /\ pending' = pending /\ approved' = approved /\ denied' = denied
      /\ session' = session /\ settled' = settled /\ dropped' = dropped
  BY DEF Return, cacheVars
<1>4. /\ ticket' \in [Requests -> Requests \cup {None}] /\ res' \in [Requests -> {"allow", "deny", None}]
      /\ ticket'[r] = None /\ res'[r] = d
      /\ \A q \in Requests : q # r => ticket'[q] = ticket[q] /\ res'[q] = res[q]
  BY <1>3 DEF IInv, TypeOK
<1>5. Others(r)
  BY <1>2, <1>3, <1>4 DEF Others
<1>6. /\ ~At(r, "start")' /\ ~Engaged(r)' /\ ~Waits(r)' /\ ~At(r, "cancel")'
      /\ ~At(r, "checkApproved")' /\ ~At(r, "join")'
  BY <1>1, <1>2 DEF At, Engaged, Waits, OwnerSteps
<1>7. ticket[r] # r /\ r # None /\ host[r] # None
  BY <1>2, NoneIsOutside DEF IInv, TicketsOK
<1>8. TicketsOK'
  <2>1. \A q \in Requests : q # r => /\ At(q, "start")' <=> At(q, "start")
                                     /\ Engaged(q)' <=> Engaged(q)
                                     /\ Waits(q)' <=> Waits(q)
    BY <1>5, OthersStay
  <2>2. \A h \in Hosts : pending[h] # r
    BY <1>7 DEF IInv, TicketsOK
  <2>3. \A h \in Hosts : pending'[h] # None =>
           host'[pending'[h]] = h /\ ticket'[pending'[h]] = pending'[h]
    BY <1>3, <1>4, <2>2 DEF IInv, TypeOK, TicketsOK
  <2>4. \A q \in Requests : At(q, "start")' <=> host'[q] = None
    BY <1>3, <1>6, <2>1 DEF IInv, TicketsOK
  <2> QED BY <1>3, <1>4, <1>6, <1>7, <2>1, <2>3, <2>4 DEF IInv, TicketsOK
<1>9. CachesOK'
  <2>1. \A h \in Hosts : Agree(h)' <=> Agree(h)
    BY <1>3 DEF Agree
  <2>2. \A q \in Requests : Owns(q)' => q # r /\ Owns(q) /\ host[q] \in Hosts /\ todo'[q] = todo[q]
    BY <1>2, <1>3, <1>4, <1>7 DEF Owns, IInv, TypeOK, TicketsOK
  <2> QED BY <1>3, <2>1, <2>2 DEF IInv, CachesOK
<1>10. SettledOK'
  <2>1. \A q \in Requests : q # r => /\ At(q, "checkApproved")' <=> At(q, "checkApproved")
                                     /\ At(q, "join")' <=> At(q, "join")
    BY <1>5, OthersStay
  <2> QED BY <1>3, <1>4, <1>6, <1>7, <2>1 DEF IInv, SettledOK
<1>11. CallsOK'
  BY <1>5, <1>6, CallsFrame
<1> QED BY <1>2, <1>4, <1>8, <1>9, <1>10, <1>11

\* The second cache answers, or the handler goes on to the pending approvals.
LEMMA CheckApprovedKeeps ==
    ASSUME IInv, NEW r \in Requests, CheckApproved(r)
    PROVE  IInv'
<1>1. todo[r] # <<>> /\ Head(todo[r]) = "checkApproved" /\ todo[r] \in Seq(Steps) /\ Shape(todo[r])
  BY DEF IInv, TypeOK, ProgramsOK, CheckApproved, At
<1>2. \A x : Has(todo[r], x) <=> x = "checkApproved"
  BY <1>1, TakeStep DEF Early
<1>3. /\ ~At(r, "start") /\ ~Engaged(r) /\ ~Waits(r) /\ ~At(r, "cancel") /\ host[r] # None
      /\ settled[r] => host[r] \in approved /\ session[host[r]] = "allow"
  BY <1>1, <1>2 DEF At, Engaged, Waits, IInv, TicketsOK, SettledOK
<1>4. CASE host[r] \in approved
  <2>1. Return(r, "allow")
    BY <1>4 DEF CheckApproved
  <2>2. /\ todo' \in [Requests -> Seq(Steps)]
        /\ ticket' \in [Requests -> Requests \cup {None}] /\ res' \in [Requests -> {"allow", "deny", None}]
        /\ ProgramsOK' /\ TicketsOK' /\ CachesOK' /\ SettledOK' /\ CallsOK'
    BY <1>1, <1>3, <2>1, ReturnKeeps
       DEF CheckApproved, pendingVars, cacheVars, callVars, ghostVars, boundVars
  <2>3. TypeOK'
    BY <2>2 DEF IInv, TypeOK, CheckApproved, pendingVars, cacheVars, callVars, ghostVars, boundVars
  <2> QED BY <2>2, <2>3 DEF IInv
<1>5. CASE host[r] \notin approved
  <2>1. /\ Goto(r, <<"join">>) /\ ~settled[r]
        /\ UNCHANGED <<host, ticket, owner_call, answer, res, pendingVars, cacheVars, callVars, ghostVars, boundVars>>
    BY <1>3, <1>5 DEF CheckApproved
  <2>2. /\ <<"join">> \in Seq(Steps) /\ Shape(<<"join">>) /\ <<"join">> # <<>> /\ Head(<<"join">>) = "join"
        /\ \A y : Has(<<"join">>, y) <=> y = "join"
    BY EarlyShape DEF Early
  <2>3. /\ todo' \in [Requests -> Seq(Steps)] /\ ProgramsOK' /\ todo'[r] = <<"join">>
        /\ \A q \in Requests : q # r => todo'[q] = todo[q]
    BY <1>1, <2>1, <2>2, GotoShape DEF IInv, boundVars
  <2>4. Others(r)
    BY <2>1, <2>3 DEF Others
  <2>5. ~At(r, "start")' /\ ~Engaged(r)' /\ ~Waits(r)' /\ ~At(r, "cancel")'
    BY <2>2, <2>3 DEF At, Engaged, Waits
  <2>6. \A x \in CacheSteps : Has(todo'[r], x) <=> Has(todo[r], x)
    BY <1>2, <2>2, <2>3 DEF CacheSteps
  <2>7. TypeOK'
    BY <2>1, <2>3 DEF IInv, TypeOK, pendingVars, cacheVars, callVars, ghostVars, boundVars
  <2>8. TicketsOK'
    BY <1>3, <2>1, <2>4, <2>5, TicketsFrame DEF pendingVars, boundVars
  <2>9. CachesOK'
    BY <2>1, <2>4, <2>6, CachesFrame DEF pendingVars, cacheVars, ghostVars, boundVars
  <2>10. SettledOK'
    BY <1>3, <2>1, <2>4, SettledFrame DEF cacheVars, ghostVars
  <2>11. CallsOK'
    BY <1>3, <2>1, <2>4, <2>5, CallsFrame DEF callVars
  <2> QED BY <2>3, <2>7, <2>8, <2>9, <2>10, <2>11 DEF IInv
<1> QED BY <1>4, <1>5

(* The steps of a waiter that leave it waiting, and the one in which the       *)
(* owner's gate lets the question through.                                     *)
LEMMA EarlyMoveKeeps ==
    ASSUME IInv, NEW r \in Requests, todo[r] # <<>>, NEW x \in Early, Goto(r, <<x>>),
           \/ Head(todo[r]) \in {"listen", "look", "sleep"} /\ x \in {"listen", "look", "sleep"}
           \/ Head(todo[r]) = "gate" /\ x = "ask",
           owner_call' \in [Requests -> Calls \cup {None}],
           \A q \in Requests : q # r => owner_call'[q] = owner_call[q],
           listeners' \in [Requests -> SUBSET Requests],
           UNCHANGED <<host, ticket, answer, res, pending, decision, cacheVars, callVars, ghostVars, boundVars>>
    PROVE  IInv'
<1>1. todo[r] \in Seq(Steps) /\ Shape(todo[r]) /\ Head(todo[r]) \in Early /\ Head(todo[r]) # "start"
  BY DEF IInv, TypeOK, ProgramsOK, Early
<1>2. \A y : Has(todo[r], y) <=> y = Head(todo[r])
  BY <1>1, TakeStep
<1>3. /\ <<x>> \in Seq(Steps) /\ Shape(<<x>>) /\ <<x>> # <<>> /\ Head(<<x>>) = x
      /\ \A y : Has(<<x>>, y) <=> y = x
  BY EarlyShape
<1>4. /\ todo' \in [Requests -> Seq(Steps)] /\ ProgramsOK' /\ todo'[r] = <<x>> /\ r \notin dropped
      /\ \A q \in Requests : q # r => todo'[q] = todo[q]
  BY <1>1, <1>3, GotoShape DEF IInv, boundVars
<1>5. Others(r)
  BY <1>4 DEF Others
<1>6. /\ ~At(r, "start") /\ ~At(r, "start")' /\ ~At(r, "cancel") /\ ~At(r, "cancel")'
      /\ Engaged(r)' <=> Engaged(r)
      /\ Waits(r)' <=> Waits(r)
      /\ Engaged(r) \/ Waits(r)
      /\ ~At(r, "checkApproved")' /\ ~At(r, "join")'
  BY <1>1, <1>2, <1>3, <1>4 DEF At, Engaged, Waits, Early
<1>7. ~settled[r] /\ host[r] # None
  BY <1>6, NoneIsOutside DEF IInv, TypeOK, TicketsOK, SettledOK
<1>8. \A y \in CacheSteps : Has(todo'[r], y) <=> Has(todo[r], y)
  BY <1>1, <1>2, <1>3, <1>4 DEF CacheSteps, Early
<1>9. TypeOK'
  BY <1>4 DEF IInv, TypeOK, cacheVars, callVars, ghostVars, boundVars
<1>10. TicketsOK'
  BY <1>5, <1>6, TicketsFrame DEF boundVars
<1>11. CachesOK'
  BY <1>5, <1>8, CachesFrame DEF cacheVars, ghostVars, boundVars
<1>12. SettledOK'
  BY <1>5, <1>7, SettledFrame DEF cacheVars, ghostVars
<1>13. CallsOK'
  BY <1>5, <1>6, CallsFrame DEF callVars
<1> QED BY <1>4, <1>9, <1>10, <1>11, <1>12, <1>13 DEF IInv

\* A waiter registers with the owner's notification.
LEMMA ListenKeeps ==
    ASSUME IInv, NEW r \in Requests, Listen(r)
    PROVE  IInv'
<1>1. todo[r] # <<>> /\ Head(todo[r]) = "listen" /\ ticket[r] \in Requests
  BY DEF IInv, TypeOK, TicketsOK, Waits, Listen, At
<1>2. listeners' \in [Requests -> SUBSET Requests]
  BY <1>1 DEF IInv, TypeOK, Listen
<1> QED BY <1>1, <1>2, EarlyMoveKeeps DEF Listen, Early, IInv, TypeOK

\* A notified waiter looks again.
LEMMA WakeKeeps ==
    ASSUME IInv, NEW r \in Requests, Wake(r)
    PROVE  IInv'
<1>1. todo[r] # <<>> /\ Head(todo[r]) = "sleep"
  BY DEF Wake, At
<1> QED BY <1>1, EarlyMoveKeeps DEF Wake, Early, IInv, TypeOK, pendingVars

\* A waiter takes the decision, or goes to sleep.
LEMMA LookKeeps ==
    ASSUME IInv, NEW r \in Requests, Look(r)
    PROVE  IInv'
<1>1. todo[r] # <<>> /\ Head(todo[r]) = "look" /\ todo[r] \in Seq(Steps) /\ Shape(todo[r])
  BY DEF IInv, TypeOK, ProgramsOK, Look, At
<1>2. \A x : Has(todo[r], x) <=> x = "look"
  BY <1>1, TakeStep DEF Early
<1>3. ~At(r, "start") /\ ~Engaged(r) /\ Waits(r) /\ ~At(r, "cancel")
  BY <1>1, <1>2 DEF At, Engaged, Waits
<1>4. ~settled[r] /\ ticket[r] \in Requests
  BY <1>3, NoneIsOutside DEF IInv, TypeOK, TicketsOK, SettledOK
<1>5. CASE decision[ticket[r]] # None
  <2> DEFINE d == ToNetworkDecision(decision[ticket[r]])
  <2>1. Return(r, d) /\ d \in {"allow", "deny"}
    BY <1>5 DEF Look, ToNetworkDecision
  <2>2. listeners' \in [Requests -> SUBSET Requests]
    <3>1. listeners' = [listeners EXCEPT ![ticket[r]] = listeners[ticket[r]] \ {r}]
      BY <1>5 DEF Look
    <3> QED BY <1>4, <3>1 DEF IInv, TypeOK
  <2>3. UNCHANGED <<host, owner_call, answer, pending, decision, cacheVars, callVars, ghostVars, boundVars>>
    BY DEF Look
  <2> HIDE DEF d
  <2>4. /\ todo' \in [Requests -> Seq(Steps)]
        /\ ticket' \in [Requests -> Requests \cup {None}] /\ res' \in [Requests -> {"allow", "deny", None}]
        /\ ProgramsOK' /\ TicketsOK' /\ CachesOK' /\ SettledOK' /\ CallsOK'
    BY <1>1, <1>3, <1>4, <2>1, <2>3, ReturnKeeps DEF cacheVars, callVars, ghostVars, boundVars
  <2>5. TypeOK'
    BY <2>2, <2>3, <2>4 DEF IInv, TypeOK, cacheVars, callVars, ghostVars, boundVars
  <2> QED BY <2>4, <2>5 DEF IInv
<1>6. CASE decision[ticket[r]] = None
  BY <1>1, <1>6, EarlyMoveKeeps DEF Look, Early, IInv, TypeOK
<1> QED BY <1>5, <1>6

\* The owner resolves the call to blame and asks.
LEMMA ResolveOwnerCallKeeps ==
    ASSUME IInv, NEW r \in Requests, ResolveOwnerCall(r)
    PROVE  IInv'
<1>1. todo[r] # <<>> /\ Head(todo[r]) = "gate"
  BY DEF ResolveOwnerCall, At
<1>2. owner_call' \in [Requests -> Calls \cup {None}] /\ \A q \in Requests : q # r => owner_call'[q] = owner_call[q]
  BY SingleActiveCallIsACall DEF ResolveOwnerCall, IInv, TypeOK
<1>3. Goto(r, <<"ask">>) /\ listeners' \in [Requests -> SUBSET Requests]
  BY DEF ResolveOwnerCall, IInv, TypeOK, pendingVars
<1> QED BY <1>1, <1>2, <1>3, EarlyMoveKeeps DEF ResolveOwnerCall, Early, pendingVars

(* A request comes: the proxy's lists deny it, or the service looks at its     *)
(* first cache.                                                                *)
LEMMA StartKeeps ==
    ASSUME IInv, NEW r \in Requests, NEW h \in Hosts, BaselineBlock(r, h) \/ CheckDenied(r, h)
    PROVE  IInv'
<1>1. todo[r] # <<>> /\ Head(todo[r]) = "start" /\ todo[r] \in Seq(Steps) /\ Shape(todo[r])
  BY DEF IInv, TypeOK, ProgramsOK, BaselineBlock, CheckDenied, At
<1>2. /\ r \notin dropped /\ r # None /\ h # None /\ host[r] = None /\ ~settled[r] /\ ticket[r] # r
      /\ ~At(r, "cancel") /\ ~Engaged(r) /\ ~Waits(r)
  <2>1. \A x : Has(todo[r], x) <=> x = "start"
    BY <1>1, TakeStep DEF Early
  <2> QED BY <1>1, <2>1, NoneIsOutside DEF IInv, ProgramsOK, TicketsOK, SettledOK, At, Engaged, Waits
<1>t. ticket[r] = None
  BY <1>2 DEF IInv, TicketsOK
<1> DEFINE denies == BaselineBlock(r, h) \/ h \in denied
           s == IF denies THEN Blocked ELSE <<"checkApproved">>
<1>3. /\ s \in Seq(Steps) /\ Shape(s) /\ \A x \in OwnerSteps : ~Has(s, x)
      /\ s # <<>> /\ Head(s) \in {"single", "checkApproved"}
      /\ denies => Head(s) = "single"
  <2>1. /\ <<"checkApproved">> \in Seq(Steps) /\ Shape(<<"checkApproved">>)
        /\ <<"checkApproved">> # <<>> /\ Head(<<"checkApproved">>) = "checkApproved"
        /\ \A x \in OwnerSteps : ~Has(<<"checkApproved">>, x)
    BY EarlyShape DEF Early, OwnerSteps
  <2> QED BY <2>1, BlockedIs, BlockedShape
<1>4. Goto(r, s) /\ dropped' = dropped
  BY DEF BaselineBlock, CheckDenied, Return, boundVars
<1>5. /\ host' = [host EXCEPT ![r] = h]
      /\ UNCHANGED <<owner_call, answer, pendingVars, cacheVars, callVars, session, boundVars>>
  BY DEF BaselineBlock, CheckDenied, ghostVars
<1>6. /\ denies => res' = [res EXCEPT ![r] = "deny"] /\ ticket' = [ticket EXCEPT ![r] = None]
      /\ ~denies => res' = res /\ ticket' = ticket
  BY DEF BaselineBlock, CheckDenied, Return
<1>7. /\ settled' \in [Requests -> BOOLEAN]
      /\ \A q \in Requests : q # r => settled'[q] = settled[q]
      /\ settled'[r] => session[h] # None /\ pending[h] = None /\ (denies => h \in denied)
  <2>1. CASE BaselineBlock(r, h)
    BY <1>2, <2>1 DEF BaselineBlock, ghostVars, IInv, TypeOK
  <2>2. CASE CheckDenied(r, h) /\ ~BaselineBlock(r, h)
    BY <2>2 DEF CheckDenied, IInv, TypeOK
  <2> QED BY <2>1, <2>2
<1> HIDE DEF s, denies
<1>8. /\ todo' \in [Requests -> Seq(Steps)] /\ ProgramsOK' /\ todo'[r] = s
      /\ \A q \in Requests : q # r => todo'[q] = todo[q]
  BY <1>1, <1>3, <1>4, GotoShape DEF IInv
<1>9. /\ host' \in [Requests -> Hosts \cup {None}] /\ host'[r] = h
      /\ ticket' \in [Requests -> Requests \cup {None}] /\ ticket'[r] = None
      /\ res' \in [Requests -> {"allow", "deny", None}] /\ res'[r] = (IF denies THEN "deny" ELSE res[r])
      /\ \A q \in Requests : q # r => /\ host'[q] = host[q] /\ ticket'[q] = ticket[q] /\ res'[q] = res[q]
  BY <1>5, <1>6, <1>t DEF IInv, TypeOK
<1>10. TypeOK'
  BY <1>5, <1>7, <1>8, <1>9 DEF IInv, TypeOK, pendingVars, cacheVars, callVars, boundVars
<1>11. Others(r)
  BY <1>5, <1>8, <1>9 DEF Others
<1>12. ~At(r, "start")' /\ ~Engaged(r)' /\ ~Waits(r)' /\ ~At(r, "cancel")' /\ ~At(r, "join")'
  BY <1>3, <1>8 DEF At, Engaged, Waits, OwnerSteps
<1>13. TicketsOK'
  <2>1. \A q \in Requests : q # r => /\ At(q, "start")' <=> At(q, "start")
                                     /\ Engaged(q)' <=> Engaged(q)
                                     /\ Waits(q)' <=> Waits(q)
    BY <1>11, OthersStay
  <2>2. \A g \in Hosts : pending[g] # r
    BY <1>2 DEF IInv, TicketsOK
  <2>3. \A g \in Hosts : pending'[g] # None =>
           host'[pending'[g]] = g /\ ticket'[pending'[g]] = pending'[g]
    BY <1>5, <1>9, <2>2 DEF IInv, TypeOK, TicketsOK, pendingVars
  <2>4. \A q \in Requests : At(q, "start")' <=> host'[q] = None
    BY <1>2, <1>9, <1>12, <2>1 DEF IInv, TicketsOK
  <2>5. pending' = pending /\ dropped' = dropped
    BY <1>4, <1>5 DEF pendingVars
  <2> QED BY <1>2, <1>9, <1>12, <2>1, <2>3, <2>4, <2>5 DEF IInv, TicketsOK
<1>14. CachesOK'
  <2>1. \A g \in Hosts : Agree(g)' <=> Agree(g)
    BY <1>5 DEF Agree, cacheVars
  <2>2. \A q \in Requests : Owns(q)' =>
           /\ q # r /\ Owns(q) /\ host[q] \in Hosts /\ host'[q] = host[q] /\ todo'[q] = todo[q]
    BY <1>2, <1>4, <1>8, <1>9 DEF Owns, IInv, TypeOK, TicketsOK
  <2>3. pending' = pending /\ session' = session /\ approved' = approved /\ denied' = denied
    BY <1>5 DEF pendingVars, cacheVars
  <2> QED BY <2>1, <2>2, <2>3 DEF IInv, CachesOK
<1>15. SettledOK'
  <2>1. \A q \in Requests : q # r => /\ At(q, "checkApproved")' <=> At(q, "checkApproved")
                                     /\ At(q, "join")' <=> At(q, "join")
    BY <1>11, OthersStay
  <2>2. session' = session /\ approved' = approved
    BY <1>5 DEF cacheVars
  <2>3. settled'[r] => Agree(h)
    BY <1>7 DEF IInv, CachesOK
  <2>4. denies => ~At(r, "checkApproved")'
    BY <1>3, <1>8 DEF At
  <2>5. res[r] = None
    BY <1>2 DEF IInv, SettledOK
  <2>6. settled'[r] => /\ host'[r] # None /\ session'[host'[r]] # None /\ ticket'[r] = None
                       /\ res'[r] \in {None, session'[host'[r]]}
                       /\ At(r, "checkApproved")' => host'[r] \in approved' /\ session'[host'[r]] = "allow"
    BY <1>2, <1>7, <1>9, <2>2, <2>3, <2>4, <2>5 DEF Agree, IInv, TypeOK, denies
  <2>7. \A q \in Requests : host'[q] = None => res'[q] = None
    BY <1>2, <1>9 DEF IInv, SettledOK
  <2>8. ASSUME NEW q \in Requests, settled'[q], q # r
        PROVE  /\ host'[q] # None /\ session'[host'[q]] # None /\ ticket'[q] = None
               /\ res'[q] \in {None, session'[host'[q]]}
               /\ At(q, "checkApproved")' => host'[q] \in approved' /\ session'[host'[q]] = "allow"
               /\ ~At(q, "join")'
    BY <1>7, <1>9, <2>1, <2>2, <2>8 DEF IInv, SettledOK
  <2> QED BY <1>12, <2>6, <2>7, <2>8 DEF SettledOK
<1>16. CallsOK'
  BY <1>2, <1>5, <1>11, <1>12, CallsFrame DEF callVars
<1> QED BY <1>8, <1>10, <1>13, <1>14, <1>15, <1>16 DEF IInv

-----------------------------------------------------------------------------
(* The steps of an owner and of the observer. *)

\* A step behind the early ones: what is left, and that it is well shaped.
LEMMA AdvanceMove ==
    ASSUME IInv, NEW r \in Requests, todo[r] # <<>>, Advance(r), dropped' = dropped
    PROVE  /\ todo' \in [Requests -> Seq(Steps)] /\ ProgramsOK'
           /\ todo'[r] = Tail(todo[r]) /\ r \notin dropped
           /\ \A q \in Requests : q # r => todo'[q] = todo[q]
<1>1. todo[r] \in Seq(Steps) /\ Shape(todo[r])
  BY DEF IInv, TypeOK, ProgramsOK
<1>2. Tail(todo[r]) \in Seq(Steps) /\ Shape(Tail(todo[r]))
  BY <1>1, TakeStep
<1>3. Goto(r, Tail(todo[r]))
  BY DEF Advance
<1> QED BY <1>2, <1>3, GotoShape DEF IInv

(* A step that is neither early nor a write to a cache nor the removal of the  *)
(* pending approval changes what no other handler can see.                     *)
LEMMA LaterMove ==
    ASSUME IInv, NEW r \in Requests, todo[r] # <<>>, Head(todo[r]) \notin Early, Others(r),
           todo'[r] # <<>> => Head(todo'[r]) \notin Early,
           \A x \in CacheSteps \cup {"remove"} : Has(todo'[r], x) <=> Has(todo[r], x),
           UNCHANGED <<host, ticket, res, pending, dropped, approved, denied, session, settled>>
    PROVE  TicketsOK' /\ CachesOK' /\ SettledOK'
<1>1. /\ ~At(r, "start") /\ ~At(r, "start")' /\ ~At(r, "checkApproved")' /\ ~At(r, "join")'
      /\ ~Waits(r) /\ ~Waits(r)'
      /\ Engaged(r)' <=> Engaged(r)
  BY DEF At, Waits, Engaged, Early
<1>2. host[r] # None
  BY <1>1 DEF IInv, TicketsOK
<1>3. TicketsOK'
  BY <1>1, TicketsFrame
<1>4. CachesOK'
  BY CachesFrame
<1>5. SettledOK'
  BY <1>1, <1>2, SettledFrame
<1> QED BY <1>3, <1>4, <1>5

\* set_decision, in its two steps.
LEMMA PublishKeeps ==
    ASSUME IInv, NEW r \in Requests, Decide(r) \/ NotifyWaiters(r)
    PROVE  IInv'
<1>1. todo[r] # <<>> /\ Head(todo[r]) \in {"decide", "notify"} /\ todo[r] \in Seq(Steps) /\ Shape(todo[r])
  BY DEF IInv, TypeOK, ProgramsOK, Decide, NotifyWaiters, At
<1>2. /\ todo' \in [Requests -> Seq(Steps)] /\ ProgramsOK' /\ todo'[r] = Tail(todo[r])
      /\ \A q \in Requests : q # r => todo'[q] = todo[q]
  BY <1>1, AdvanceMove DEF Decide, NotifyWaiters, boundVars
<1>3. UNCHANGED <<host, ticket, owner_call, answer, res, pending, cacheVars, callVars, ghostVars, boundVars>>
  BY DEF Decide, NotifyWaiters
<1>4. Others(r)
  BY <1>2, <1>3 DEF Others
<1>5. decision' \in [Requests -> Decisions \cup {None}] /\ listeners' \in [Requests -> SUBSET Requests]
  BY DEF Decide, NotifyWaiters, IInv, TypeOK, DecisionOf, Decisions
<1>6. TypeOK'
  BY <1>2, <1>3, <1>5 DEF IInv, TypeOK, cacheVars, callVars, ghostVars, boundVars
<1>7. /\ \A x \in CacheSteps \cup {"remove"} : Has(todo'[r], x) <=> Has(todo[r], x)
      /\ todo'[r] # <<>> => Head(todo'[r]) \notin Early \cup {"cancel"}
  <2>1. Head(todo[r]) \notin CacheSteps \cup {"remove"} /\ Head(todo[r]) \notin RecordSteps
    BY <1>1 DEF CacheSteps, RecordSteps
  <2> QED BY <1>1, <1>2, <2>1, TakeStep
<1>8. TicketsOK' /\ CachesOK' /\ SettledOK'
  BY <1>1, <1>3, <1>4, <1>7, LaterMove DEF Early, cacheVars, ghostVars, boundVars
<1>9. CallsOK'
  BY <1>1, <1>3, <1>4, <1>7, CallsFrame DEF At, callVars
<1> QED BY <1>2, <1>6, <1>8, <1>9 DEF IInv

\* The turn or the policy rules the flow out: the owner publishes a denial.
LEMMA RefuseKeeps ==
    ASSUME IInv, NEW r \in Requests, Refuse(r)
    PROVE  IInv'
<1>1. todo[r] # <<>> /\ Head(todo[r]) = "gate" /\ todo[r] \in Seq(Steps) /\ Shape(todo[r])
  BY DEF IInv, TypeOK, ProgramsOK, Refuse, At
<1>2. \A x : Has(todo[r], x) <=> x = "gate"
  BY <1>1, TakeStep DEF Early
<1> DEFINE s == Plan("refused")
<1>3. /\ s \in Seq(Steps) /\ Shape(s) /\ Has(s, "remove") /\ s # <<>> /\ Head(s) \notin Early \cup {"cancel"}
      /\ \A x \in CacheSteps : ~Has(s, x)
  BY PlanShape DEF Answers, CacheSteps
<1>4. Goto(r, s) /\ answer' = [answer EXCEPT ![r] = "refused"]
  BY DEF Refuse, Tell
<1> HIDE DEF s
<1>5. UNCHANGED <<host, ticket, owner_call, res, pendingVars, cacheVars, callVars, ghostVars, boundVars>>
  BY DEF Refuse
<1>6. /\ todo' \in [Requests -> Seq(Steps)] /\ ProgramsOK' /\ todo'[r] = s
      /\ \A q \in Requests : q # r => todo'[q] = todo[q]
  BY <1>1, <1>3, <1>4, <1>5, GotoShape DEF IInv, boundVars
<1>7. Others(r)
  BY <1>5, <1>6 DEF Others
<1>8. TypeOK'
  <2>1. answer' \in [Requests -> Answers \cup {None}]
    BY <1>4 DEF IInv, TypeOK, Answers
  <2> QED BY <1>5, <1>6, <2>1 DEF IInv, TypeOK, pendingVars, cacheVars, callVars, ghostVars, boundVars
<1>9. /\ ~At(r, "start") /\ ~At(r, "start")' /\ ~At(r, "cancel") /\ ~At(r, "cancel")'
      /\ Engaged(r) /\ Engaged(r)' /\ ~Waits(r) /\ ~Waits(r)'
      /\ ~At(r, "checkApproved")' /\ ~At(r, "join")' /\ host[r] # None
  BY <1>1, <1>2, <1>3, <1>6 DEF At, Engaged, Waits, Early, IInv, TicketsOK
<1>10. TicketsOK'
  BY <1>5, <1>7, <1>9, TicketsFrame DEF pendingVars, boundVars
<1>11. CachesOK'
  <2>1. \A x \in CacheSteps : Has(todo'[r], x) <=> Has(todo[r], x)
    BY <1>2, <1>3, <1>6 DEF CacheSteps
  <2> QED BY <1>5, <1>7, <2>1, CachesFrame DEF pendingVars, cacheVars, ghostVars, boundVars
<1>12. SettledOK'
  BY <1>5, <1>7, <1>9, SettledFrame DEF cacheVars, ghostVars
<1>13. CallsOK'
  BY <1>5, <1>7, <1>9, CallsFrame DEF callVars
<1> QED BY <1>6, <1>8, <1>10, <1>11, <1>12, <1>13 DEF IInv

\* The owner is told the answer; one for the session becomes the host's.
LEMMA AnswerKeeps ==
    ASSUME IInv, NEW r \in Requests, NEW a \in Answers, Answer(r, a)
    PROVE  IInv'
<1>1. todo[r] # <<>> /\ Head(todo[r]) = "ask" /\ todo[r] \in Seq(Steps) /\ Shape(todo[r])
  BY DEF IInv, TypeOK, ProgramsOK, Answer, At
<1>2. \A x : Has(todo[r], x) <=> x = "ask"
  BY <1>1, TakeStep DEF Early
<1> DEFINE s == Plan(a)
<1>3. /\ s \in Seq(Steps) /\ Shape(s) /\ Has(s, "remove") /\ s # <<>> /\ Head(s) \notin Early \cup {"cancel"}
      /\ Has(s, "approve") <=> a = "session"
      /\ Has(s, "undeny") <=> a = "session"
      /\ Has(s, "deny") <=> a = "denySession"
      /\ Has(s, "unapprove") <=> a = "denySession"
  BY PlanShape
<1>4. Goto(r, s) /\ answer' = [answer EXCEPT ![r] = a]
  BY DEF Answer, Tell
<1> HIDE DEF s
<1>5. UNCHANGED <<host, ticket, owner_call, res, pendingVars, cacheVars, callVars, boundVars>>
  BY DEF Answer
<1>6. /\ todo' \in [Requests -> Seq(Steps)] /\ ProgramsOK' /\ todo'[r] = s /\ r \notin dropped
      /\ \A q \in Requests : q # r => todo'[q] = todo[q]
  BY <1>1, <1>3, <1>4, <1>5, GotoShape DEF IInv, boundVars
<1>7. Others(r)
  BY <1>5, <1>6 DEF Others
<1>8. /\ ~At(r, "start") /\ ~At(r, "start")' /\ ~At(r, "cancel") /\ ~At(r, "cancel")'
      /\ Engaged(r) /\ Engaged(r)' /\ ~Waits(r) /\ ~Waits(r)'
      /\ ~At(r, "checkApproved")' /\ ~At(r, "join")' /\ ticket[r] = r /\ host[r] \in Hosts
  BY <1>1, <1>2, <1>3, <1>6 DEF At, Engaged, Waits, Early, IInv, TypeOK, TicketsOK
<1>9. /\ a = "session" => session' = [session EXCEPT ![host[r]] = "allow"]
      /\ a = "denySession" => session' = [session EXCEPT ![host[r]] = "deny"]
      /\ a \in {"session", "denySession"} => settled' = [q \in Requests |-> settled[q] /\ host[q] # host[r]]
      /\ a \notin {"session", "denySession"} => session' = session /\ settled' = settled
  BY DEF Answer, ghostVars
<1>10. TypeOK'
  <2>1. answer' \in [Requests -> Answers \cup {None}]
    BY <1>4 DEF IInv, TypeOK
  <2>2. session' \in [Hosts -> {"allow", "deny", None}] /\ settled' \in [Requests -> BOOLEAN]
    BY <1>9 DEF IInv, TypeOK
  <2> QED BY <1>5, <1>6, <2>1, <2>2 DEF IInv, TypeOK, pendingVars, cacheVars, callVars, boundVars
<1>11. TicketsOK'
  BY <1>5, <1>7, <1>8, TicketsFrame DEF pendingVars, boundVars
<1>12. /\ \A h \in Hosts : h # host[r] => session'[h] = session[h]
       /\ a = "session" => session'[host[r]] = "allow"
       /\ a = "denySession" => session'[host[r]] = "deny"
       /\ a \notin {"session", "denySession"} => session' = session
  BY <1>8, <1>9 DEF IInv, TypeOK
<1>13. CachesOK'
  <2>1. \A h \in Hosts : h # host[r] => (Agree(h)' <=> Agree(h))
    BY <1>5, <1>12 DEF Agree, cacheVars
  <2>2. \A h \in Hosts : pending[h] = None => h # host[r]
    BY <1>8, NoneIsOutside DEF IInv, TicketsOK
  <2>3. \A q \in Requests : q # r /\ Owns(q)' =>
           Owns(q) /\ todo'[q] = todo[q] /\ host[q] \in Hosts /\ host[q] # host[r]
    BY <1>5, <1>6, <1>8 DEF Owns, IInv, TypeOK, TicketsOK, boundVars
  <2>4. pending' = pending /\ host' = host /\ approved' = approved /\ denied' = denied
    BY <1>5 DEF pendingVars, cacheVars
  <2>5. a \notin {"session", "denySession"} => Agree(host[r])'
    <3>1. Owns(r) /\ ~Has(todo[r], "approve") /\ ~Has(todo[r], "deny")
      BY <1>2, <1>6, <1>8 DEF Owns
    <3>2. Agree(host[r])
      BY <3>1 DEF IInv, CachesOK
    <3> QED BY <1>12, <2>4, <3>2 DEF Agree
  <2>6. \A h \in Hosts : pending'[h] = None => Agree(h)'
    BY <2>1, <2>2, <2>4 DEF IInv, CachesOK
  <2>7. /\ Has(todo'[r], "approve") =>
             session'[host'[r]] = "allow" /\ (Has(todo'[r], "undeny") \/ host'[r] \notin denied')
        /\ Has(todo'[r], "deny") =>
             session'[host'[r]] = "deny" /\ (Has(todo'[r], "unapprove") \/ host'[r] \notin approved')
        /\ Has(todo'[r], "approve") \/ Has(todo'[r], "deny") \/ Agree(host[r])'
    BY <1>3, <1>6, <1>12, <2>4, <2>5
  <2>8. ASSUME NEW q \in Requests, q # r, Owns(q)'
        PROVE  /\ Has(todo'[q], "approve") =>
                    session'[host'[q]] = "allow" /\ (Has(todo'[q], "undeny") \/ host'[q] \notin denied')
               /\ Has(todo'[q], "deny") =>
                    session'[host'[q]] = "deny" /\ (Has(todo'[q], "unapprove") \/ host'[q] \notin approved')
               /\ Has(todo'[q], "approve") \/ Has(todo'[q], "deny") \/ Agree(host[q])'
    BY <1>12, <2>1, <2>3, <2>4, <2>8 DEF IInv, CachesOK
  <2> QED BY <2>6, <2>7, <2>8 DEF CachesOK
<1>14. SettledOK'
  <2>1. \A q \in Requests : /\ At(q, "checkApproved")' => At(q, "checkApproved")
                            /\ At(q, "join")' => At(q, "join")
    BY <1>7, <1>8, OthersStay
  <2>2. \A q \in Requests : settled'[q] =>
           settled[q] /\ (a \in {"session", "denySession"} => host[q] # host[r])
    BY <1>9 DEF IInv, TypeOK
  <2>3. host' = host /\ ticket' = ticket /\ res' = res /\ approved' = approved
    BY <1>5 DEF cacheVars
  <2>4. \A q \in Requests : settled'[q] => host[q] \in Hosts /\ session'[host[q]] = session[host[q]]
    BY <1>12, <2>2 DEF IInv, TypeOK, SettledOK
  <2> QED BY <2>1, <2>2, <2>3, <2>4 DEF IInv, SettledOK
<1>15. CallsOK'
  BY <1>5, <1>7, <1>8, CallsFrame DEF callVars
<1> QED BY <1>6, <1>10, <1>11, <1>13, <1>14, <1>15 DEF IInv

\* The owner alone writes its host's entries, after it was given the answer.
LEMMA WriteCacheKeeps ==
    ASSUME IInv, NEW r \in Requests, WriteCache(r)
    PROVE  IInv'
<1>1. todo[r] # <<>> /\ Head(todo[r]) \in CacheSteps /\ todo[r] \in Seq(Steps) /\ Shape(todo[r])
  BY DEF IInv, TypeOK, ProgramsOK, WriteCache, At, CacheSteps
<1>2. /\ todo' \in [Requests -> Seq(Steps)] /\ ProgramsOK' /\ todo'[r] = Tail(todo[r]) /\ r \notin dropped
      /\ \A q \in Requests : q # r => todo'[q] = todo[q]
  BY <1>1, AdvanceMove DEF WriteCache, boundVars
<1>3. UNCHANGED <<host, ticket, owner_call, answer, res, pendingVars, callVars, ghostVars, boundVars>>
  BY DEF WriteCache
<1>4. Others(r)
  BY <1>2, <1>3 DEF Others
<1> DEFINE s == todo[r]
           t == Tail(todo[r])
<1>5. /\ Has(s, "remove") /\ Has(t, "remove") /\ Has(s, Head(s))
      /\ \A x \in CacheSteps : /\ Has(t, x) => Has(s, x)
                               /\ Has(s, x) => Has(t, x) \/ Head(s) = x
      /\ Head(s) = "undeny" => Has(t, "approve")
      /\ Head(s) = "approve" => ~Has(t, "undeny")
      /\ Head(s) = "unapprove" => Has(t, "deny")
      /\ Head(s) = "deny" => ~Has(t, "unapprove")
      /\ t # <<>> => Head(t) \notin Early \cup {"cancel"}
  BY <1>1, TakeStep, TailHas DEF CacheSteps, OwnerSteps, RecordSteps
<1>6. /\ ~At(r, "start") /\ ~At(r, "start")' /\ ~At(r, "cancel") /\ ~At(r, "cancel")'
      /\ Engaged(r) /\ Engaged(r)' /\ ~Waits(r) /\ ~Waits(r)'
      /\ ~At(r, "checkApproved")' /\ ~At(r, "join")'
  BY <1>1, <1>2, <1>5 DEF At, Engaged, Waits, Early, CacheSteps
<1>7. Owns(r) /\ ticket[r] = r /\ host[r] \in Hosts /\ pending[host[r]] = r
  BY <1>2, <1>6 DEF IInv, TypeOK, TicketsOK, Owns
<1>8. /\ Head(s) = "undeny" => denied' = denied \ {host[r]} /\ approved' = approved
      /\ Head(s) = "approve" => approved' = approved \cup {host[r]} /\ denied' = denied
      /\ Head(s) = "unapprove" => approved' = approved \ {host[r]} /\ denied' = denied
      /\ Head(s) = "deny" => denied' = denied \cup {host[r]} /\ approved' = approved
  BY DEF WriteCache, At
<1>9. TypeOK'
  <2>1. approved' \subseteq Hosts /\ denied' \subseteq Hosts
    BY <1>1, <1>7, <1>8 DEF IInv, TypeOK, CacheSteps
  <2> QED BY <1>2, <1>3, <2>1 DEF IInv, TypeOK, pendingVars, callVars, ghostVars, boundVars
<1>10. TicketsOK'
  BY <1>3, <1>4, <1>6, TicketsFrame DEF pendingVars, boundVars
<1>11. /\ host' = host /\ pending' = pending /\ session' = session /\ settled' = settled
       /\ ticket' = ticket /\ res' = res /\ dropped' = dropped
  BY <1>3 DEF pendingVars, ghostVars, boundVars
<1>12. \A h \in Hosts : h # host[r] => /\ h \in approved' <=> h \in approved
                                       /\ h \in denied' <=> h \in denied
  BY <1>1, <1>8 DEF CacheSteps
<1>13. /\ Has(s, "approve") => session[host[r]] = "allow" /\ (Has(s, "undeny") \/ host[r] \notin denied)
       /\ Has(s, "deny") => session[host[r]] = "deny" /\ (Has(s, "unapprove") \/ host[r] \notin approved)
  BY <1>7 DEF IInv, CachesOK
<1> HIDE DEF s, t
<1>14. CachesOK'
  <2>1. \A h \in Hosts : h # host[r] => (Agree(h)' <=> Agree(h))
    BY <1>11, <1>12 DEF Agree
  <2>2. \A h \in Hosts : pending'[h] = None => Agree(h)'
    BY <1>7, <1>11, <2>1, NoneIsOutside DEF IInv, CachesOK
  <2>3. ASSUME NEW q \in Requests, q # r, Owns(q)'
        PROVE  /\ Has(todo'[q], "approve") =>
                    session'[host'[q]] = "allow" /\ (Has(todo'[q], "undeny") \/ host'[q] \notin denied')
               /\ Has(todo'[q], "deny") =>
                    session'[host'[q]] = "deny" /\ (Has(todo'[q], "unapprove") \/ host'[q] \notin approved')
               /\ Has(todo'[q], "approve") \/ Has(todo'[q], "deny") \/ Agree(host[q])'
    <3>1. Owns(q) /\ todo'[q] = todo[q] /\ host[q] \in Hosts /\ host[q] # host[r]
      BY <1>2, <1>7, <1>11, <2>3 DEF Owns, IInv, TypeOK, TicketsOK
    <3> QED BY <1>11, <1>12, <2>1, <3>1 DEF IInv, CachesOK
  <2>4. CASE Head(s) = "undeny" \/ Head(s) = "approve"
    <3>1. Has(s, "approve") /\ session[host[r]] = "allow" /\ ~Has(s, "deny") /\ ~Has(t, "deny")
      BY <1>5, <1>13, <2>4 DEF CacheSteps
    <3>2. Has(t, "undeny") \/ host[r] \notin denied'
      BY <1>5, <1>8, <1>13, <2>4, <3>1 DEF CacheSteps
    <3>3. Has(t, "approve") \/ (host[r] \in approved' /\ host[r] \notin denied')
      BY <1>5, <1>8, <2>4, <3>1, <3>2 DEF CacheSteps
    <3>4. Has(t, "approve") \/ Agree(host[r])'
      BY <1>11, <3>1, <3>3 DEF Agree
    <3>5. /\ Has(todo'[r], "approve") =>
               session'[host'[r]] = "allow" /\ (Has(todo'[r], "undeny") \/ host'[r] \notin denied')
          /\ Has(todo'[r], "deny") =>
               session'[host'[r]] = "deny" /\ (Has(todo'[r], "unapprove") \/ host'[r] \notin approved')
          /\ Has(todo'[r], "approve") \/ Has(todo'[r], "deny") \/ Agree(host[r])'
      BY <1>2, <1>11, <3>1, <3>2, <3>4 DEF t
    <3> QED BY <2>2, <2>3, <3>5 DEF CachesOK
  <2>5. CASE Head(s) = "unapprove" \/ Head(s) = "deny"
    <3>1. Has(s, "deny") /\ session[host[r]] = "deny" /\ ~Has(s, "approve") /\ ~Has(t, "approve")
      BY <1>5, <1>13, <2>5 DEF CacheSteps
    <3>2. Has(t, "unapprove") \/ host[r] \notin approved'
      BY <1>5, <1>8, <1>13, <2>5, <3>1 DEF CacheSteps
    <3>3. Has(t, "deny") \/ (host[r] \in denied' /\ host[r] \notin approved')
      BY <1>5, <1>8, <2>5, <3>1, <3>2 DEF CacheSteps
    <3>4. Has(t, "deny") \/ Agree(host[r])'
      BY <1>11, <3>1, <3>3 DEF Agree
    <3>5. /\ Has(todo'[r], "approve") =>
               session'[host'[r]] = "allow" /\ (Has(todo'[r], "undeny") \/ host'[r] \notin denied')
          /\ Has(todo'[r], "deny") =>
               session'[host'[r]] = "deny" /\ (Has(todo'[r], "unapprove") \/ host'[r] \notin approved')
          /\ Has(todo'[r], "approve") \/ Has(todo'[r], "deny") \/ Agree(host[r])'
      BY <1>2, <1>11, <3>1, <3>2, <3>4 DEF t
    <3> QED BY <2>2, <2>3, <3>5 DEF CachesOK
  <2> QED BY <1>1, <2>4, <2>5 DEF CacheSteps, s
<1>15. SettledOK'
  <2>1. \A q \in Requests : /\ At(q, "checkApproved")' => At(q, "checkApproved")
                            /\ At(q, "join")' => At(q, "join")
    BY <1>4, <1>6, OthersStay
  <2>2. session[host[r]] = "allow" => approved \subseteq approved'
    BY <1>1, <1>5, <1>8, <1>13 DEF CacheSteps, s
  <2>3. \A q \in Requests : settled[q] => host[q] \in Hosts
    BY DEF IInv, TypeOK, SettledOK
  <2> QED BY <1>11, <1>12, <2>1, <2>2, <2>3 DEF IInv, SettledOK
<1>16. CallsOK'
  BY <1>3, <1>4, <1>6, CallsFrame DEF callVars
<1> QED BY <1>2, <1>9, <1>10, <1>14, <1>15, <1>16 DEF IInv

\* The pending approval goes when the caches are written.
LEMMA RemovePendingKeeps ==
    ASSUME IInv, NEW r \in Requests, RemovePending(r)
    PROVE  IInv'
<1>1. todo[r] # <<>> /\ Head(todo[r]) = "remove" /\ todo[r] \in Seq(Steps) /\ Shape(todo[r])
  BY DEF IInv, TypeOK, ProgramsOK, RemovePending, At
<1>2. /\ todo' \in [Requests -> Seq(Steps)] /\ ProgramsOK' /\ todo'[r] = Tail(todo[r]) /\ r \notin dropped
      /\ \A q \in Requests : q # r => todo'[q] = todo[q]
  BY <1>1, AdvanceMove DEF RemovePending, boundVars
<1>3. /\ Has(todo[r], "remove") /\ \A x \in OwnerSteps : ~Has(todo'[r], x)
      /\ ~Has(todo[r], "approve") /\ ~Has(todo[r], "deny")
      /\ todo'[r] # <<>> => Head(todo'[r]) \notin Early \cup {"cancel"}
  BY <1>1, <1>2, TakeStep, TailHas DEF OwnerSteps, RecordSteps
<1>4. /\ ~At(r, "start") /\ ~At(r, "start")' /\ ~At(r, "cancel") /\ ~At(r, "cancel")'
      /\ Engaged(r) /\ ~Engaged(r)' /\ ~Waits(r)'
      /\ ~At(r, "checkApproved")' /\ ~At(r, "join")'
  BY <1>1, <1>3 DEF At, Engaged, Waits, Early, OwnerSteps
<1>5. /\ Owns(r) /\ ticket[r] = r /\ host[r] \in Hosts /\ pending[host[r]] = r /\ r # None /\ ~settled[r]
      /\ Agree(host[r])
  BY <1>2, <1>3, <1>4, NoneIsOutside DEF IInv, TypeOK, TicketsOK, CachesOK, SettledOK, Owns
<1>6. /\ pending' = [pending EXCEPT ![host[r]] = None] /\ ticket' = [ticket EXCEPT ![r] = None]
      /\ host' = host /\ dropped' = dropped /\ approved' = approved /\ denied' = denied
      /\ session' = session /\ settled' = settled
  BY DEF RemovePending, cacheVars, ghostVars, boundVars
<1>7. /\ pending' \in [Hosts -> Requests \cup {None}] /\ pending'[host[r]] = None
      /\ \A h \in Hosts : h # host[r] => pending'[h] = pending[h]
      /\ ticket' \in [Requests -> Requests \cup {None}] /\ ticket'[r] = None
      /\ \A q \in Requests : q # r => ticket'[q] = ticket[q]
  BY <1>5, <1>6 DEF IInv, TypeOK
<1>8. TypeOK'
  <2>1. res' \in [Requests -> {"allow", "deny", None}]
    BY DEF RemovePending, IInv, TypeOK, ToNetworkDecision
  <2>2. answer' \in [Requests -> Answers \cup {None}] /\ owner_call' \in [Requests -> Calls \cup {None}]
    BY DEF RemovePending, IInv, TypeOK
  <2> QED BY <1>2, <1>7, <2>1, <2>2 DEF IInv, TypeOK, RemovePending, cacheVars, callVars, ghostVars, boundVars
<1>9. Others(r)
  BY <1>2, <1>7 DEF Others, RemovePending, IInv, TypeOK
<1>10. TicketsOK'
  <2>1. \A q \in Requests : q # r => /\ At(q, "start")' <=> At(q, "start")
                                     /\ Engaged(q)' <=> Engaged(q)
                                     /\ Waits(q)' <=> Waits(q)
    BY <1>9, OthersStay
  <2>2. \A q \in Requests : q # r /\ ticket[q] = q =>
           host[q] \in Hosts /\ pending[host[q]] = q /\ host[q] # host[r]
    BY <1>5 DEF IInv, TypeOK, TicketsOK
  <2>3. \A q \in Requests : ticket'[q] = q => host'[q] # None /\ pending'[host'[q]] = q
    BY <1>5, <1>6, <1>7, <2>2, NoneIsOutside
  <2>4. \A h \in Hosts : pending'[h] # None => h # host[r] /\ pending[h] # r /\ pending[h] \in Requests
    BY <1>7 DEF IInv, TypeOK, TicketsOK
  <2>5. \A h \in Hosts : pending'[h] # None =>
           host'[pending'[h]] = h /\ ticket'[pending'[h]] = pending'[h]
    BY <1>6, <1>7, <2>4 DEF IInv, TicketsOK
  <2> QED BY <1>4, <1>5, <1>6, <1>7, <2>1, <2>3, <2>5, NoneIsOutside DEF IInv, TicketsOK
<1>11. CachesOK'
  <2>1. \A h \in Hosts : Agree(h)' <=> Agree(h)
    BY <1>6 DEF Agree
  <2>2. \A q \in Requests : Owns(q)' => q # r /\ Owns(q) /\ host[q] \in Hosts /\ todo'[q] = todo[q]
    BY <1>2, <1>5, <1>6, <1>7 DEF Owns, IInv, TypeOK, TicketsOK
  <2> QED BY <1>5, <1>6, <1>7, <2>1, <2>2 DEF IInv, CachesOK
<1>12. SettledOK'
  BY <1>5, <1>6, <1>9, SettledFrame, NoneIsOutside
<1>13. CallsOK'
  BY <1>4, <1>9, CallsFrame DEF RemovePending, callVars
<1> QED BY <1>2, <1>8, <1>10, <1>11, <1>12, <1>13 DEF IInv

\* The observer looks for the call to blame.
LEMMA ResolveSingleKeeps ==
    ASSUME IInv, NEW r \in Requests, ResolveSingle(r)
    PROVE  IInv'
<1>1. todo[r] # <<>> /\ Head(todo[r]) = "single" /\ todo[r] \in Seq(Steps) /\ Shape(todo[r])
  BY DEF IInv, TypeOK, ProgramsOK, ResolveSingle, At
<1>2. /\ todo' \in [Requests -> Seq(Steps)] /\ ProgramsOK' /\ todo'[r] = Tail(todo[r])
      /\ \A q \in Requests : q # r => todo'[q] = todo[q]
  BY <1>1, AdvanceMove DEF ResolveSingle, boundVars
<1>3. owner_call' \in [Requests -> Calls \cup {None}] /\ \A q \in Requests : q # r => owner_call'[q] = owner_call[q]
  BY SingleActiveCallIsACall DEF ResolveSingle, IInv, TypeOK
<1>4. UNCHANGED <<host, ticket, answer, res, pendingVars, cacheVars, callVars, ghostVars, boundVars>>
  BY DEF ResolveSingle
<1>5. Others(r)
  BY <1>2, <1>3, <1>4 DEF Others
<1>6. TypeOK'
  BY <1>2, <1>3, <1>4 DEF IInv, TypeOK, pendingVars, cacheVars, callVars, ghostVars, boundVars
<1>7. /\ \A x \in CacheSteps \cup {"remove"} : Has(todo'[r], x) <=> Has(todo[r], x)
      /\ todo'[r] # <<>> => Head(todo'[r]) \notin Early \cup {"cancel"}
  <2>1. Head(todo[r]) \notin CacheSteps \cup {"remove"} /\ Head(todo[r]) \notin RecordSteps
    BY <1>1 DEF CacheSteps, RecordSteps
  <2> QED BY <1>1, <1>2, <2>1, TakeStep
<1>8. TicketsOK' /\ CachesOK' /\ SettledOK'
  BY <1>1, <1>4, <1>5, <1>7, LaterMove DEF Early, pendingVars, cacheVars, ghostVars, boundVars
<1>9. CallsOK'
  BY <1>1, <1>4, <1>5, <1>7, CallsFrame DEF At, callVars
<1> QED BY <1>2, <1>6, <1>8, <1>9 DEF IInv

\* A denial is recorded, and the recording handler comes to its cancel; or it is not.
LEMMA RecordOutcomeKeeps ==
    ASSUME IInv, NEW r \in Requests, RecordOutcome(r)
    PROVE  IInv'
<1>1. todo[r] # <<>> /\ Head(todo[r]) \in RecordSteps /\ todo[r] \in Seq(Steps) /\ Shape(todo[r])
  BY DEF IInv, TypeOK, ProgramsOK, RecordOutcome, RecordSteps, At
<1> DEFINE s == todo[r]
           t == Tail(s)
           u == Tail(t)
<1>2. /\ t \in Seq(Steps) /\ Shape(t) /\ t # <<>> /\ Head(t) = "cancel"
      /\ \A x \in CacheSteps \cup {"remove"} : Has(t, x) <=> Has(s, x)
  BY <1>1, TakeStep DEF RecordSteps, CacheSteps
<1>3. /\ u \in Seq(Steps) /\ Shape(u)
      /\ u # <<>> => Head(u) \notin Early \cup {"cancel"}
      /\ \A x \in CacheSteps \cup {"remove"} : Has(u, x) <=> Has(s, x)
  <2> HIDE DEF t
  <2> QED BY <1>2, TakeStep DEF RecordSteps, CacheSteps
<1>4. UNCHANGED <<host, ticket, answer, res, pendingVars, cacheVars,
                  active, cancelled, phase, result, ghostVars, boundVars>>
  BY DEF RecordOutcome
<1> DEFINE c == owner_call[r]
<1>5. CASE Records(c)
  <2>1. PICK o \in Outcomes : outcomes' = [outcomes EXCEPT ![c] = o]
    BY <1>5 DEF RecordOutcome
  <2>2. Goto(r, t) /\ owner_call' = owner_call
    BY <1>5 DEF RecordOutcome, Advance
  <2>3. c \in Calls
    BY <1>5 DEF Records, IInv, TypeOK
  <2> HIDE DEF t, c
  <2>4. /\ todo' \in [Requests -> Seq(Steps)] /\ ProgramsOK' /\ todo'[r] = t
        /\ \A q \in Requests : q # r => todo'[q] = todo[q]
    BY <1>1, <1>2, <1>4, <2>2, GotoShape DEF IInv, boundVars
  <2>5. Others(r)
    BY <1>4, <2>2, <2>4 DEF Others
  <2>6. TypeOK'
    <3>1. outcomes' \in [Calls -> Outcomes \cup {None}]
      BY <2>1, <2>3 DEF IInv, TypeOK
    <3> QED BY <1>4, <2>2, <2>4, <3>1 DEF IInv, TypeOK, pendingVars, cacheVars, ghostVars, boundVars
  <2>7. TicketsOK' /\ CachesOK' /\ SettledOK'
    BY <1>1, <1>2, <1>4, <2>4, <2>5, LaterMove
       DEF Early, RecordSteps, pendingVars, cacheVars, ghostVars, boundVars
  <2>8. CallsOK'
    <3>1. At(r, "cancel")' /\ ~At(r, "cancel") /\ \A q \in Requests : q # r => (At(q, "cancel")' <=> At(q, "cancel"))
      BY <1>1, <1>2, <2>4 DEF At, RecordSteps
    <3>2. \A d \in Calls : d # c => outcomes'[d] = outcomes[d]
      BY <2>1 DEF IInv, TypeOK
    <3>3. cancelled' = cancelled /\ owner_call[r] = c
      BY <1>4 DEF c
    <3> QED BY <2>2, <2>3, <3>1, <3>2, <3>3 DEF IInv, CallsOK, DenialStopsCall
  <2> QED BY <2>4, <2>6, <2>7, <2>8 DEF IInv
<1>6. CASE ~Records(c)
  <2>1. Goto(r, u) /\ owner_call' = [owner_call EXCEPT ![r] = None] /\ outcomes' = outcomes
    BY <1>6 DEF RecordOutcome
  <2> HIDE DEF u, c
  <2>2. /\ todo' \in [Requests -> Seq(Steps)] /\ ProgramsOK' /\ todo'[r] = u
        /\ \A q \in Requests : q # r => todo'[q] = todo[q]
    BY <1>1, <1>3, <1>4, <2>1, GotoShape DEF IInv, boundVars
  <2>3. Others(r)
    BY <1>4, <2>1, <2>2 DEF Others, IInv, TypeOK
  <2>4. TypeOK'
    <3>1. owner_call' \in [Requests -> Calls \cup {None}]
      BY <2>1 DEF IInv, TypeOK
    <3> QED BY <1>4, <2>1, <2>2, <3>1 DEF IInv, TypeOK, pendingVars, cacheVars, ghostVars, boundVars
  <2>5. TicketsOK' /\ CachesOK' /\ SettledOK'
    BY <1>1, <1>3, <1>4, <2>2, <2>3, LaterMove
       DEF Early, RecordSteps, pendingVars, cacheVars, ghostVars, boundVars
  <2>6. CallsOK'
    BY <1>1, <1>3, <1>4, <2>1, <2>2, <2>3, CallsFrame DEF At, RecordSteps
  <2> QED BY <2>2, <2>4, <2>5, <2>6 DEF IInv
<1> QED BY <1>5, <1>6

\* The token of the call a denial was recorded for is cancelled.
LEMMA CancelTokenKeeps ==
    ASSUME IInv, NEW r \in Requests, CancelToken(r)
    PROVE  IInv'
<1>1. /\ todo[r] # <<>> /\ Head(todo[r]) = "cancel" /\ todo[r] \in Seq(Steps) /\ Shape(todo[r])
      /\ owner_call[r] \in Calls
  BY DEF IInv, TypeOK, ProgramsOK, CallsOK, CancelToken, At
<1>2. /\ todo' \in [Requests -> Seq(Steps)] /\ ProgramsOK' /\ todo'[r] = Tail(todo[r])
      /\ \A q \in Requests : q # r => todo'[q] = todo[q]
  BY <1>1, AdvanceMove DEF CancelToken, boundVars
<1>3. /\ owner_call' = [owner_call EXCEPT ![r] = None] /\ cancelled' = cancelled \cup {owner_call[r]}
      /\ UNCHANGED <<host, ticket, answer, res, pendingVars, cacheVars,
                     active, outcomes, phase, result, ghostVars, boundVars>>
  BY DEF CancelToken
<1>4. owner_call' \in [Requests -> Calls \cup {None}] /\ \A q \in Requests : q # r => owner_call'[q] = owner_call[q]
  BY <1>3 DEF IInv, TypeOK
<1>5. Others(r)
  BY <1>2, <1>3, <1>4 DEF Others
<1>6. TypeOK'
  BY <1>1, <1>2, <1>3, <1>4 DEF IInv, TypeOK, pendingVars, cacheVars, ghostVars, boundVars
<1>7. /\ \A x \in CacheSteps \cup {"remove"} : Has(todo'[r], x) <=> Has(todo[r], x)
      /\ todo'[r] # <<>> => Head(todo'[r]) \notin Early \cup {"cancel"}
  <2>1. Head(todo[r]) \notin CacheSteps \cup {"remove"} /\ Head(todo[r]) \notin RecordSteps
    BY <1>1 DEF CacheSteps, RecordSteps
  <2> QED BY <1>1, <1>2, <2>1, TakeStep
<1>8. TicketsOK' /\ CachesOK' /\ SettledOK'
  BY <1>1, <1>3, <1>5, <1>7, LaterMove DEF Early, pendingVars, cacheVars, ghostVars, boundVars
<1>9. CallsOK'
  <2>1. ~At(r, "cancel")' /\ \A q \in Requests : q # r => (At(q, "cancel")' <=> At(q, "cancel"))
    BY <1>2, <1>7 DEF At
  <2> QED BY <1>3, <1>4, <2>1 DEF IInv, CallsOK, DenialStopsCall
<1> QED BY <1>2, <1>6, <1>8, <1>9 DEF IInv

-----------------------------------------------------------------------------
(* A dropped handler, and the calls. *)

\* The client of a handler goes away; an owner leaves its pending approval behind.
LEMMA DropHandlerKeeps ==
    ASSUME IInv, NEW r \in Requests, DropHandler(r)
    PROVE  IInv'
<1>1. todo[r] # <<>> /\ ~At(r, "start") /\ ~At(r, "cancel")
  BY DEF DropHandler, At
<1>2. /\ todo' = [todo EXCEPT ![r] = <<>>] /\ dropped' = dropped \cup {r}
      /\ UNCHANGED <<host, ticket, owner_call, answer, res, pending, decision, cacheVars, callVars, ghostVars, aborts>>
  BY DEF DropHandler, Goto
<1>3. /\ todo' \in [Requests -> Seq(Steps)] /\ todo'[r] = <<>>
      /\ \A q \in Requests : q # r => todo'[q] = todo[q]
  BY <1>2, EmptyShape DEF IInv, TypeOK
<1>4. ProgramsOK'
  BY <1>2, <1>3, EmptyShape DEF IInv, ProgramsOK
<1>5. TypeOK'
  <2>1. listeners' \in [Requests -> SUBSET Requests]
    BY DEF DropHandler, IInv, TypeOK
  <2> QED BY <1>2, <1>3, <2>1 DEF IInv, TypeOK, cacheVars, callVars, ghostVars
<1>6. Others(r)
  BY <1>2, <1>3 DEF Others
<1>7. \A x : ~At(r, x)'
  BY <1>3 DEF At
<1>8. ~Engaged(r)' /\ ~Waits(r)'
  BY <1>3, <1>7, EmptyShape DEF Engaged, Waits
<1>9. \A q \in Requests : q # r => /\ At(q, "start")' <=> At(q, "start")
                                   /\ Engaged(q)' <=> Engaged(q)
                                   /\ Waits(q)' <=> Waits(q)
  BY <1>6, OthersStay
<1>10. TicketsOK'
  BY <1>1, <1>2, <1>7, <1>8, <1>9 DEF IInv, TicketsOK
<1>11. CachesOK'
  <2>1. \A h \in Hosts : Agree(h)' <=> Agree(h)
    BY <1>2 DEF Agree, cacheVars, ghostVars
  <2>2. \A q \in Requests : Owns(q)' => q # r /\ Owns(q) /\ host[q] \in Hosts /\ todo'[q] = todo[q]
    BY <1>2, <1>3 DEF Owns, IInv, TypeOK, TicketsOK
  <2>3. host' = host /\ pending' = pending /\ session' = session /\ approved' = approved /\ denied' = denied
    BY <1>2 DEF cacheVars, ghostVars
  <2> QED BY <2>1, <2>2, <2>3 DEF IInv, CachesOK
<1>12. SettledOK'
  <2>1. host[r] # None
    BY <1>1 DEF IInv, TicketsOK
  <2> QED BY <1>2, <1>6, <1>7, <2>1, SettledFrame DEF cacheVars, ghostVars
<1>13. CallsOK'
  BY <1>1, <1>2, <1>6, <1>7, CallsFrame DEF callVars
<1> QED BY <1>4, <1>5, <1>10, <1>11, <1>12, <1>13 DEF IInv

\* A step that touches no handler.
LEMMA HandlersFrame ==
    ASSUME IInv, UNCHANGED <<handlerVars, pending, cacheVars, ghostVars, dropped>>
    PROVE  ProgramsOK' /\ TicketsOK' /\ CachesOK' /\ SettledOK'
<1>1. \A r \in Requests : /\ \A x : At(r, x)' <=> At(r, x)
                          /\ Engaged(r)' <=> Engaged(r)
                          /\ Waits(r)' <=> Waits(r)
                          /\ Owns(r)' <=> Owns(r)
  BY DEF At, Engaged, Waits, Owns, handlerVars
<1>2. ProgramsOK'
  BY DEF IInv, ProgramsOK, handlerVars
<1>3. TicketsOK'
  BY <1>1 DEF IInv, TicketsOK, handlerVars
<1>4. CachesOK'
  BY <1>1 DEF IInv, CachesOK, Agree, handlerVars, cacheVars, ghostVars
<1>5. SettledOK'
  BY <1>1 DEF IInv, SettledOK, handlerVars, cacheVars, ghostVars
<1> QED BY <1>2, <1>3, <1>4, <1>5

\* register_call, finish_call, and a call whose future is dropped.
LEMMA CallStepKeeps ==
    ASSUME IInv, NEW c \in Calls, RegisterCall(c) \/ FinishCall(c) \/ AbortCall(c)
    PROVE  IInv'
<1>1. ProgramsOK' /\ TicketsOK' /\ CachesOK' /\ SettledOK'
  BY HandlersFrame DEF RegisterCall, FinishCall, AbortCall, pendingVars, boundVars
<1>2. TypeOK'
  <2>1. CASE RegisterCall(c)
    BY <2>1 DEF IInv, TypeOK, RegisterCall, handlerVars, pendingVars, cacheVars, ghostVars, boundVars
  <2>2. CASE FinishCall(c)
    BY <2>2 DEF IInv, TypeOK, FinishCall, handlerVars, pendingVars, cacheVars, ghostVars, boundVars
  <2>3. CASE AbortCall(c)
    BY <2>3, BoundsAreNaturals DEF IInv, TypeOK, AbortCall, handlerVars, pendingVars, cacheVars, ghostVars
  <2> QED BY <2>1, <2>2, <2>3
<1>3. CallsOK'
  <2>1. \A r \in Requests : At(r, "cancel")' <=> At(r, "cancel")
    BY DEF At, RegisterCall, FinishCall, AbortCall, handlerVars
  <2>2. \A d \in Calls : outcomes'[d] \in {outcomes[d], None}
    BY DEF RegisterCall, FinishCall, AbortCall, IInv, TypeOK
  <2>3. cancelled' = cancelled /\ owner_call' = owner_call
    BY DEF RegisterCall, FinishCall, AbortCall, handlerVars
  <2> QED BY <2>1, <2>2, <2>3 DEF IInv, CallsOK, DenialStopsCall
<1> QED BY <1>1, <1>2, <1>3 DEF IInv

-----------------------------------------------------------------------------
(* The theorems. *)

\* The invariant holds before any request comes.
LEMMA InitIInv == Init => IInv
<1> SUFFICES ASSUME Init PROVE IInv
  OBVIOUS
<1>1. TypeOK /\ ProgramsOK
  BY TypeInit
<1>2. /\ <<"start">> # <<>> /\ Head(<<"start">>) = "start"
      /\ \A y : Has(<<"start">>, y) <=> y = "start"
  BY EarlyShape DEF Early
<1>3. \A r \in Requests : /\ At(r, "start") /\ ~Engaged(r) /\ ~Waits(r)
                          /\ ~At(r, "cancel")
  BY <1>2 DEF Init, At, Engaged, Waits
<1>4. TicketsOK
  BY <1>3, NoneIsOutside DEF Init, TicketsOK
<1>5. CachesOK
  BY NoneIsOutside DEF Init, CachesOK, Agree, Owns
<1>6. SettledOK
  BY DEF Init, SettledOK
<1>7. CallsOK
  BY <1>3 DEF Init, CallsOK, DenialStopsCall
<1> QED BY <1>1, <1>4, <1>5, <1>6, <1>7 DEF IInv

\* No step of the service, of the observer or of a call leaves the invariant.
LEMMA NextIInv == IInv /\ [Next]_vars => IInv'
<1> SUFFICES ASSUME IInv, [Next]_vars PROVE IInv'
  OBVIOUS
<1>1. ASSUME NEW r \in Requests, NEW h \in Hosts, BaselineBlock(r, h) \/ CheckDenied(r, h) PROVE IInv'
  BY <1>1, StartKeeps
<1>2. ASSUME NEW r \in Requests, HandlerStep(r) PROVE IInv'
  <2>1. CASE CheckApproved(r) \/ Join(r) \/ Listen(r) \/ Look(r) \/ Wake(r)
    BY <2>1, CheckApprovedKeeps, JoinKeeps, ListenKeeps, LookKeeps, WakeKeeps
  <2>2. CASE Refuse(r) \/ ResolveOwnerCall(r)
    BY <2>2, RefuseKeeps, ResolveOwnerCallKeeps
  <2>3. CASE \E a \in Answers \ {"refused"} : Answer(r, a)
    BY <2>3, AnswerKeeps
  <2>4. CASE WriteCache(r) \/ Decide(r) \/ NotifyWaiters(r) \/ RemovePending(r)
    BY <2>4, WriteCacheKeeps, PublishKeeps, RemovePendingKeeps
  <2>5. CASE ResolveSingle(r) \/ RecordOutcome(r) \/ CancelToken(r)
    BY <2>5, ResolveSingleKeeps, RecordOutcomeKeeps, CancelTokenKeeps
  <2> QED BY <1>2, <2>1, <2>2, <2>3, <2>4, <2>5 DEF HandlerStep
<1>3. ASSUME NEW r \in Requests, DropHandler(r) PROVE IInv'
  BY <1>3, DropHandlerKeeps
<1>4. ASSUME NEW c \in Calls, RegisterCall(c) \/ FinishCall(c) \/ AbortCall(c) PROVE IInv'
  BY <1>4, CallStepKeeps
<1>5. CASE UNCHANGED vars
  <2>1. ProgramsOK' /\ TicketsOK' /\ CachesOK' /\ SettledOK'
    BY <1>5, HandlersFrame DEF vars, pendingVars, boundVars
  <2>2. TypeOK'
    BY <1>5 DEF IInv, TypeOK, vars, handlerVars, pendingVars, cacheVars, callVars, ghostVars, boundVars
  <2>3. CallsOK'
    BY <1>5 DEF IInv, CallsOK, DenialStopsCall, At, vars, handlerVars, callVars
  <2> QED BY <2>1, <2>2, <2>3 DEF IInv
<1> QED BY <1>1, <1>2, <1>3, <1>4, <1>5 DEF Next

(* The invariant holds in every state of the service: whatever hosts, requests *)
(* and calls there are, however the handlers interleave and are dropped.       *)
THEOREM Invariance == Spec => []IInv
<1>1. Init => IInv
  BY InitIInv
<1>2. IInv /\ [Next]_vars => IInv'
  BY NextIInv
<1> QED BY <1>1, <1>2, PTL DEF Spec

(* The variables keep their types: in particular only known calls are ever     *)
(* cancelled by CancelToken.                                                   *)
THEOREM TypeCorrect == Spec => []TypeOK
<1>1. IInv => TypeOK
  BY DEF IInv
<1> QED BY <1>1, Invariance, PTL

(* get_or_create_pending_approval makes at most one handler per host the       *)
(* owner: two handlers that own the approval of the same host are the same.    *)
THEOREM OneOwner == Spec => []OneOwnerPerHost
<1>1. IInv => OneOwnerPerHost
  BY DEF IInv, TicketsOK, OneOwnerPerHost, Owns
<1> QED BY <1>1, Invariance, PTL

(* session_approved_hosts and session_denied_hosts hold the last answer for    *)
(* the session whenever no approval of the host is pending.                    *)
THEOREM SessionAnswerKept == Spec => []SessionAnswerIsKept
<1>1. IInv => SessionAnswerIsKept
  BY DEF IInv, CachesOK, Agree, SessionAnswerIsKept
<1> QED BY <1>1, Invariance, PTL

(* A request to a host that has a session answer is decided by the caches      *)
(* with that answer: it never joins a pending approval.                        *)
THEOREM SettledHostNotAsked == Spec => []SettledHostIsNotAskedAgain
<1>1. IInv => SettledHostIsNotAskedAgain
  BY DEF IInv, SettledOK, SettledHostIsNotAskedAgain
<1> QED BY <1>1, Invariance, PTL

(* record_call_outcome and the cancellation behind it: a call with a recorded  *)
(* denial is cancelled, or its recording handler is at the cancel.             *)
THEOREM DenialStops == Spec => []DenialStopsCall
<1>1. IInv => DenialStopsCall
  BY DEF IInv, CallsOK
<1> QED BY <1>1, Invariance, PTL
=============================================================================
