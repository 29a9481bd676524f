--------------------------- MODULE MainLoopProofs ---------------------------
(***************************************************************************)
(* What is proved of the things the main loop drives: the order of the     *)
(* shell tasks and their audit (TaskPrio), the datagrams that reach their  *)
(* pollers through the card and the slots of net.c (UdpDemux), the lines   *)
(* lsh executes, typed or put aside (Shell), the user programs, which the  *)
(* main loop stands still for (UserMode), and what it renders (Present).   *)
(***************************************************************************)
EXTENDS TaskPrio, UdpDemux, Shell, UserMode, Present, SequenceTheorems, FiniteSetTheorems,
        WellFoundedInduction, TLAPS

\* Dropping one element leaves a sequence one shorter.
LEMMA RemoveAtType ==
  ASSUME NEW S, NEW s \in Seq(S), NEW i \in 1 .. Len(s)
  PROVE  /\ RemoveAt(s, i) \in Seq(S)
         /\ Len(RemoveAt(s, i)) = Len(s) - 1
         /\ \A k \in 1 .. Len(s) - 1 : RemoveAt(s, i)[k] = IF k < i THEN s[k] ELSE s[k + 1]
<1> DEFINE n == Len(s) - 1
<1>1. n \in Nat /\ Len(s) \in Nat
  OBVIOUS
<1>2. \A k \in 1 .. n : (IF k < i THEN s[k] ELSE s[k + 1]) \in S
  BY <1>1
<1>3. RemoveAt(s, i) \in [1 .. n -> S]
  BY <1>2 DEF RemoveAt
<1> HIDE DEF n
<1>4. RemoveAt(s, i) \in Seq(S) /\ Len(RemoveAt(s, i)) = n
  BY <1>1, <1>3
<1> QED
  BY <1>4 DEF RemoveAt, n

\* Aging keeps the queue's length, and changes nothing of a task but its wait.
LEMMA AllAgedType ==
  ASSUME NEW s \in Seq(Tasks)
  PROVE  /\ AllAged(s) \in Seq(Tasks)
         /\ Len(AllAged(s)) = Len(s)
         /\ \A k \in 1 .. Len(s) : AllAged(s)[k] = Aged(s[k])
<1>1. Len(s) \in Nat /\ DOMAIN s = 1 .. Len(s)
  OBVIOUS
<1>2. \A t \in Tasks : Aged(t) \in Tasks
  BY AgeAssumption DEF Aged, Tasks, LeastOf
<1>3. AllAged(s) \in [1 .. Len(s) -> Tasks]
  BY <1>1, <1>2 DEF AllAged
<1> QED
  BY <1>1, <1>3 DEF AllAged

LEMMA LogType ==
  ASSUME TypeOK, NEW old, NEW new, NEW actor \in Actors, Log(old, new, actor)
  PROVE  /\ history' \in [HistorySlots -> Grants]
         /\ historyCount' \in 0 .. HistoryMax
         /\ historyNext' \in Seqs
         /\ granted' \in Seq(Grants)
<1>1. CASE ~IsGrant(old, new)
  BY <1>1 DEF Log, historyVars, TypeOK
<1>2. CASE IsGrant(old, new)
  <2> DEFINE e == [seq |-> historyNext, actor |-> actor]
  <2>1. e \in Grants
    BY DEF Grants, TypeOK
  <2>2. history' \in [HistorySlots -> Grants]
    BY <1>2, <2>1 DEF Log, TypeOK
  <2>3. historyCount' \in 0 .. HistoryMax
    BY <1>2, SizeAssumption DEF Log, LeastOf, TypeOK
  <2>4. historyNext' \in Seqs
    BY <1>2, SizeAssumption DEF Log, After, Seqs, TypeOK
  <2>5. Append(granted, e) \in Seq(Grants)
    BY <2>1 DEF TypeOK
  <2>6. \A s \in Seq(Grants) : LastOf(s, HistoryMax) \in Seq(Grants)
    <3> TAKE s \in Seq(Grants)
    <3>1. CASE Len(s) <= HistoryMax
      BY <3>1 DEF LastOf
    <3>2. CASE Len(s) > HistoryMax
      <4>1. Len(s) - HistoryMax + 1 \in 1 .. Len(s) + 1 /\ Len(s) \in 0 .. Len(s)
        BY <3>2, SizeAssumption
      <4>2. SubSeq(s, Len(s) - HistoryMax + 1, Len(s)) \in Seq(Grants)
        BY <4>1, SubSeqProperties
      <4> QED
        BY <3>2, <4>2, SizeAssumption DEF LastOf
    <3> QED
      BY <3>1, <3>2, SizeAssumption
  <2>7. granted' = LastOf(Append(granted, e), HistoryMax)
    BY <1>2 DEF Log
  <2> QED
    BY <2>2, <2>3, <2>4, <2>5, <2>6, <2>7
<1> QED
  BY <1>1, <1>2

LEMMA InitType == Init => TypeOK
  BY SizeAssumption, LevelAssumption
     DEF Init, TypeOK, Ids, Seqs, Levels, HistorySlots, BlankGrant, Grants, Actors

LEMMA EnqueueType ==
  ASSUME TypeOK, NEW p \in Levels, NEW actor \in Actors, Enqueue(p, actor)
  PROVE  TypeOK'
<1>1. PICK id \in Issued :
        /\ tasks' = Append(tasks, [id |-> id, priority |-> p, wait |-> 0,
                                   paused |-> FALSE, reprioritized |-> FALSE])
        /\ nextId' = After(id, IdModulus)
  BY DEF Enqueue
<1>2. id \in Ids
  BY DEF Issued
<1> DEFINE t == [id |-> id, priority |-> p, wait |-> 0,
                 paused |-> FALSE, reprioritized |-> FALSE]
<1>3. t \in Tasks
  BY <1>2, AgeAssumption DEF Tasks
<1>4. tasks' \in Seq(Tasks) /\ Len(tasks') <= MaxTasks
  BY <1>1, <1>3, SizeAssumption DEF Enqueue, TypeOK
<1>5. nextId' \in Ids /\ default' \in Levels
  BY <1>1, <1>2, SizeAssumption DEF Enqueue, TypeOK, After, Ids
<1> QED
  BY <1>4, <1>5, LogType DEF Enqueue, TypeOK

LEMMA SetLevelType ==
  ASSUME TypeOK, NEW i \in Indices, NEW p \in Levels, NEW resume \in BOOLEAN,
         NEW actor \in Actors, SetLevel(i, p, resume, actor)
  PROVE  TypeOK'
<1> DEFINE t == [tasks[i] EXCEPT !.priority = p, !.wait = 0,
                                 !.paused = @ /\ ~resume, !.reprioritized = TRUE]
<1>1. tasks[i] \in Tasks
  BY DEF TypeOK, Indices
<1>2. t \in Tasks
  <2>1. (tasks[i].paused /\ ~resume) \in BOOLEAN
    OBVIOUS
  <2>2. 0 \in 0 .. WaitMax
    BY AgeAssumption
  <2>3. t = [tasks[i] EXCEPT !.priority = p, !.wait = 0,
                             !.paused = tasks[i].paused /\ ~resume, !.reprioritized = TRUE]
    BY <1>1 DEF Tasks
  <2> QED
    BY ONLY <1>1, <2>1, <2>2, <2>3, p \in Levels, Zenon DEF Tasks
<1>3. tasks' = [tasks EXCEPT ![i] = t]
  BY DEF SetLevel
<1>4. tasks' \in Seq(Tasks) /\ Len(tasks') = Len(tasks)
  BY <1>2, <1>3 DEF TypeOK, Indices
<1> QED
  BY <1>4, LogType DEF SetLevel, TypeOK

LEMMA ClampType == \A p \in Int : Clamp(p) \in Levels
  BY LevelAssumption DEF Clamp, Levels

\* Which queues a step can leave: one action per conjunct of the case split.
LEMMA TypeStep == TypeOK /\ [Next]_vars => TypeOK'
<1> SUFFICES ASSUME TypeOK, [Next]_vars PROVE TypeOK'
  OBVIOUS
<1>1. CASE EnqueueUser \/ EnqueueOs
  <2>1. OsLevel \in Levels
    BY LevelAssumption DEF Levels
  <2> QED
    BY <1>1, <2>1, EnqueueType DEF EnqueueUser, EnqueueOs, Actors
<1>2. CASE DequeueNext
  <2>1. PICK i \in Indices : Dispatch(i)
    BY <1>2 DEF DequeueNext
  <2>2. RemoveAt(tasks, i) \in Seq(Tasks) /\ Len(RemoveAt(tasks, i)) = Len(tasks) - 1
    BY RemoveAtType DEF Indices, TypeOK
  <2>3. tasks' \in Seq(Tasks) /\ Len(tasks') = Len(tasks) - 1
    BY <2>1, <2>2, AllAgedType DEF Dispatch
  <2>4. Len(tasks') <= MaxTasks
    BY <2>3, SizeAssumption DEF TypeOK
  <2> QED
    BY <2>1, <2>3, <2>4 DEF Dispatch, TypeOK, historyVars
<1>3. CASE DequeueNothing
  BY <1>3, AllAgedType DEF DequeueNothing, TypeOK, historyVars
<1>4. CASE SetPriority
  BY <1>4, SetLevelType DEF SetPriority, At, Actors
<1>5. CASE AdjustPriority
  <2>1. PICK id \in Ids, delta \in {-1, 1} : \E i \in At(id) :
          SetLevel(i, Clamp(tasks[i].priority + delta), FALSE, "user")
    BY <1>5 DEF AdjustPriority
  <2>2. PICK i \in Indices : SetLevel(i, Clamp(tasks[i].priority + delta), FALSE, "user")
    BY <2>1 DEF At
  <2>3. tasks[i].priority + delta \in Int
    <3>1. tasks[i] \in Tasks
      BY DEF TypeOK, Indices
    <3>2. tasks[i].priority \in Int
      BY <3>1, LevelAssumption DEF Tasks, Levels
    <3> QED
      BY <3>2
  <2> QED
    BY <2>2, <2>3, ClampType, SetLevelType DEF Actors
<1>6. CASE GrantUrgent
  <2>1. OsLevel \in Levels
    BY LevelAssumption DEF Levels
  <2> QED
    BY <1>6, <2>1, SetLevelType DEF GrantUrgent, At
<1>7. CASE Pause
  <2>1. PICK i \in Indices, pause \in BOOLEAN :
          tasks' = [tasks EXCEPT ![i] = [tasks[i] EXCEPT !.paused = pause]]
    BY <1>7 DEF Pause, At
  <2>2. [tasks[i] EXCEPT !.paused = pause] \in Tasks
    <3>1. tasks[i] \in Tasks
      BY DEF TypeOK, Indices
    <3> QED
      BY <3>1 DEF Tasks
  <2>3. tasks' \in Seq(Tasks) /\ Len(tasks') = Len(tasks)
    BY <2>1, <2>2 DEF TypeOK, Indices
  <2> QED
    BY <1>7, <2>3 DEF Pause, TypeOK, historyVars
<1>8. CASE Remove
  <2>1. PICK i \in Indices : tasks' = RemoveAt(tasks, i)
    BY <1>8 DEF Remove, At
  <2>2. tasks' \in Seq(Tasks) /\ Len(tasks') = Len(tasks) - 1
    BY <2>1, RemoveAtType DEF Indices, TypeOK
  <2>3. Len(tasks') <= MaxTasks
    BY <2>2, SizeAssumption DEF TypeOK
  <2> QED
    BY <1>8, <2>2, <2>3 DEF Remove, TypeOK, historyVars
<1>9. CASE SetDefault
  BY <1>9, LogType DEF SetDefault, TypeOK, queueVars, Actors
<1>10. CASE HistoryClear
  BY <1>10, InitType, SizeAssumption
     DEF HistoryClear, TypeOK, queueVars, HistorySlots, BlankGrant, Grants, Actors, Seqs
<1>11. CASE UNCHANGED vars
  BY <1>11 DEF vars, queueVars, historyVars, TypeOK, Indices
<1> QED
  BY <1>1, <1>2, <1>3, <1>4, <1>5, <1>6, <1>7, <1>8, <1>9, <1>10, <1>11 DEF Next, CmdTask, Dequeue

\* The queue never outgrows its array and every variable keeps its range.
THEOREM TypeCorrect == Spec => []TypeOK
  BY InitType, TypeStep, PTL DEF Spec
-----------------------------------------------------------------------------
(***************************************************************************)
(* Levels come before ages.                                                *)
(***************************************************************************)
\* One level is worth more than any age that counts.
LEMMA LevelOutweighsAge ==
  ASSUME NEW t \in Tasks, NEW u \in Tasks, t.priority < u.priority
  PROVE  Score(t) < Score(u)
<1> DEFINE p == t.priority
           q == u.priority
           a == LeastOf(t.wait, AgeCap)
           b == LeastOf(u.wait, AgeCap)
<1>1. p \in Nat /\ q \in Nat /\ p + 1 <= q
  BY LevelAssumption DEF Tasks, Levels
<1>2. a \in Nat /\ b \in Nat /\ a < AgeSpan
  BY AgeAssumption DEF Tasks, LeastOf
<1>3. Score(t) = p * AgeSpan + a /\ Score(u) = q * AgeSpan + b
  BY DEF Score
<1> HIDE DEF p, q, a, b
<1>4. (p + 1) * AgeSpan <= q * AgeSpan
  BY <1>1, AgeAssumption
<1>5. (p + 1) * AgeSpan = p * AgeSpan + AgeSpan
  BY <1>1, AgeAssumption
<1>6. p * AgeSpan \in Nat /\ q * AgeSpan \in Nat
  BY <1>1, AgeAssumption
<1> QED
  BY <1>2, <1>3, <1>4, <1>5, <1>6, AgeAssumption

\* A dequeue takes a task of the highest level that may run, for every weight
\* of aging below one level and every queue.
THEOREM HighestLevelFirstHolds == Spec => HighestLevelFirst
<1>1. ASSUME TypeOK, NEW i \in Indices, NEW j \in Runnable, Dispatch(i)
      PROVE  tasks[j].priority <= tasks[i].priority
  <2>1. tasks[i] \in Tasks /\ tasks[j] \in Tasks
    BY <1>1 DEF TypeOK, Indices, Runnable
  <2>2. \A t \in Tasks : t.priority \in Int /\ t.priority <= OsLevel /\ Score(t) \in Int
    BY LevelAssumption, AgeAssumption DEF Tasks, Levels, Score, LeastOf
  <2>3. Best(i)
    BY <1>1 DEF Dispatch
  <2>4. CASE Urgent # {}
    <3>1. tasks[i].priority = OsLevel
      BY <2>3, <2>4 DEF Best, Urgent, IsUrgent
    <3> QED
      BY <2>1, <2>2, <3>1
  <2>5. CASE Urgent = {}
    <3>1. Score(tasks[j]) <= Score(tasks[i])
      BY <1>1, <2>1, <2>2, <2>3, <2>5 DEF Best, Normal
    <3> SUFFICES ASSUME tasks[i].priority < tasks[j].priority PROVE FALSE
      BY <2>1, <2>2
    <3>2. Score(tasks[i]) < Score(tasks[j])
      BY <2>1, LevelOutweighsAge
    <3> QED
      BY <2>1, <2>2, <3>1, <3>2
  <2> QED
    BY <2>4, <2>5
<1>2. TypeOK => [\A i \in Indices : Dispatch(i) =>
                   \A j \in Runnable : tasks[j].priority <= tasks[i].priority]_vars
  BY <1>1
<1> QED
  BY <1>2, TypeCorrect, PTL DEF HighestLevelFirst

-----------------------------------------------------------------------------
(***************************************************************************)
(* First come first served within a level.                                 *)
(***************************************************************************)
\* Aging a queue moves two tasks of a level alike.
LEMMA AgedKeepsOrder ==
  ASSUME NEW t \in Tasks, NEW u \in Tasks, t.priority = u.priority, u.wait <= t.wait
  PROVE  Aged(u).wait <= Aged(t).wait
  BY AgeAssumption DEF Aged, IsUrgent, Tasks, LeastOf

LEMMA AgedKeepsRest ==
  ASSUME NEW t \in Tasks
  PROVE  /\ Aged(t).priority = t.priority
         /\ Aged(t).reprioritized = t.reprioritized
         /\ IsUrgent(t) => Aged(t) = t
  BY DEF Aged, Tasks

\* The order survives dropping one task and aging the rest.
LEMMA OrderAfterRemove ==
  ASSUME TypeOK, EarlierWaitedLonger, NEW i \in Indices, tasks' = RemoveAt(tasks, i)
  PROVE  EarlierWaitedLonger'
<1> DEFINE old(k) == IF k < i THEN k ELSE k + 1
<1>1. /\ Len(tasks) \in Nat
      /\ Len(tasks') = Len(tasks) - 1
      /\ \A k \in 1 .. Len(tasks) - 1 : tasks'[k] = tasks[old(k)] /\ old(k) \in Indices
  BY RemoveAtType DEF TypeOK, Indices
<1>2. \A k \in Indices' : tasks'[k] = tasks[old(k)] /\ old(k) \in Indices
  BY <1>1 DEF Indices
<1>3. \A k, l \in Indices' : k < l => old(k) < old(l)
  BY <1>1 DEF Indices
<1> HIDE DEF old
<1> QED
  BY <1>2, <1>3 DEF EarlierWaitedLonger, IsUrgent

LEMMA OrderAfterAging ==
  ASSUME NEW s \in Seq(Tasks), tasks' = AllAged(s),
         \A k \in 1 .. Len(s) : IsUrgent(s[k]) => s[k].wait = 0,
         \A k, l \in 1 .. Len(s) :
           k < l /\ s[k].priority = s[l].priority /\ ~s[k].reprioritized
             => s[l].wait <= s[k].wait
  PROVE  EarlierWaitedLonger'
<1>1. Len(tasks') = Len(s) /\ \A k \in 1 .. Len(s) : tasks'[k] = Aged(s[k]) /\ s[k] \in Tasks
  BY AllAgedType
<1>2. \A k \in 1 .. Len(s) : IsUrgent(tasks'[k]) => tasks'[k].wait = 0
  BY <1>1, AgedKeepsRest DEF IsUrgent
<1>3. ASSUME NEW k \in 1 .. Len(s), NEW l \in 1 .. Len(s), k < l,
             tasks'[k].priority = tasks'[l].priority, ~tasks'[k].reprioritized
      PROVE  tasks'[l].wait <= tasks'[k].wait
  <2>1. s[k].priority = s[l].priority /\ ~s[k].reprioritized
    BY <1>1, <1>3, AgedKeepsRest
  <2>2. s[l].wait <= s[k].wait
    BY <1>3, <2>1
  <2> QED
    BY <1>1, <2>1, <2>2, AgedKeepsOrder
<1> QED
  BY <1>1, <1>2, <1>3 DEF EarlierWaitedLonger, Indices

LEMMA OrderAfterDispatch ==
  ASSUME TypeOK, EarlierWaitedLonger, NEW i \in Indices, tasks' = AllAged(RemoveAt(tasks, i))
  PROVE  EarlierWaitedLonger'
<1> DEFINE s == RemoveAt(tasks, i)
           old(k) == IF k < i THEN k ELSE k + 1
<1>a. tasks \in Seq(Tasks) /\ Len(tasks) \in Nat /\ i \in 1 .. Len(tasks)
  BY DEF TypeOK, Indices
<1>b. /\ s \in Seq(Tasks) /\ Len(s) = Len(tasks) - 1
      /\ \A k \in 1 .. Len(s) : s[k] = IF k < i THEN tasks[k] ELSE tasks[k + 1]
  BY <1>a, RemoveAtType
<1> HIDE DEF s
<1>c. \A k \in 1 .. Len(s) : s[k] = tasks[old(k)]
  BY <1>b
<1>d. \A k \in 1 .. Len(s) : old(k) \in Indices
  BY <1>a, <1>b DEF Indices
<1>1. /\ s \in Seq(Tasks)
      /\ \A k \in 1 .. Len(s) : s[k] = tasks[old(k)] /\ old(k) \in Indices
  BY <1>b, <1>c, <1>d
<1>2. \A k, l \in 1 .. Len(s) : k < l => old(k) < old(l)
  BY <1>1 DEF Indices
<1> HIDE DEF s, old
<1>3. /\ \A k \in 1 .. Len(s) : IsUrgent(s[k]) => s[k].wait = 0
      /\ \A k, l \in 1 .. Len(s) :
           k < l /\ s[k].priority = s[l].priority /\ ~s[k].reprioritized
             => s[l].wait <= s[k].wait
  BY <1>1, <1>2 DEF EarlierWaitedLonger
<1>4. tasks' = AllAged(s)
  BY DEF s
<1> QED
  BY <1>1, <1>3, <1>4, OrderAfterAging

\* A new level restarts the wait, so it never lets a task overtake.
LEMMA OrderAfterSetLevel ==
  ASSUME TypeOK, EarlierWaitedLonger, NEW i \in Indices, NEW p \in Levels,
         NEW resume \in BOOLEAN, NEW actor \in Actors, SetLevel(i, p, resume, actor)
  PROVE  EarlierWaitedLonger'
<1>1. \A k \in Indices : tasks[k] \in Tasks
  BY DEF TypeOK, Indices
<1>2. /\ Indices' = Indices
      /\ tasks'[i].wait = 0 /\ tasks'[i].reprioritized = TRUE
      /\ \A k \in Indices : k # i => tasks'[k] = tasks[k]
  <2>1. DOMAIN tasks = Indices
    BY DEF TypeOK, Indices
  <2>2. Len(tasks') = Len(tasks)
    BY DEF SetLevel, TypeOK
  <2> QED
    BY <1>1, <2>1, <2>2 DEF SetLevel, Tasks, Indices
<1>3. \A k \in Indices : tasks[k].wait \in Nat
  BY <1>1, AgeAssumption DEF Tasks
<1> QED
  BY <1>2, <1>3 DEF EarlierWaitedLonger, IsUrgent

LEMMA OrderAfterEnqueue ==
  ASSUME TypeOK, EarlierWaitedLonger, NEW p \in Levels, NEW actor \in Actors, Enqueue(p, actor)
  PROVE  EarlierWaitedLonger'
<1>1. /\ Len(tasks) \in Nat /\ Len(tasks') = Len(tasks) + 1
      /\ \A k \in Indices : tasks'[k] = tasks[k] /\ tasks[k] \in Tasks
      /\ tasks'[Len(tasks) + 1].wait = 0
  <2>1. PICK id \in Issued :
          tasks' = Append(tasks, [id |-> id, priority |-> p, wait |-> 0,
                                  paused |-> FALSE, reprioritized |-> FALSE])
    BY DEF Enqueue
  <2> QED
    BY <2>1 DEF TypeOK, Indices
<1>2. \A k \in Indices : tasks[k].wait \in Nat
  BY <1>1, AgeAssumption DEF Tasks
<1>3. Indices' = Indices \cup {Len(tasks) + 1}
  BY <1>1 DEF Indices
<1>5. \A k \in Indices' : IsUrgent(tasks'[k]) => tasks'[k].wait = 0
  BY <1>1, <1>3 DEF EarlierWaitedLonger, IsUrgent
<1>6. ASSUME NEW k \in Indices', NEW l \in Indices', k < l,
             tasks'[k].priority = tasks'[l].priority, ~tasks'[k].reprioritized
      PROVE  tasks'[l].wait <= tasks'[k].wait
  <2>1. k \in Indices
    BY <1>1, <1>3, <1>6 DEF Indices
  <2>2. CASE l \in Indices
    BY <1>1, <1>6, <2>1, <2>2 DEF EarlierWaitedLonger
  <2>3. CASE l = Len(tasks) + 1
    BY <1>1, <1>2, <2>1, <2>3
  <2> QED
    BY <1>3, <2>2, <2>3
<1> QED
  BY <1>5, <1>6 DEF EarlierWaitedLonger, Indices, IsUrgent

LEMMA OrderStep == TypeOK /\ EarlierWaitedLonger /\ [Next]_vars => EarlierWaitedLonger'
<1> SUFFICES ASSUME TypeOK, EarlierWaitedLonger, [Next]_vars PROVE EarlierWaitedLonger'
  OBVIOUS
<1>0. OsLevel \in Levels
  BY LevelAssumption DEF Levels
<1>1. CASE EnqueueUser \/ EnqueueOs
  BY <1>0, <1>1, OrderAfterEnqueue DEF EnqueueUser, EnqueueOs, Actors
<1>2. CASE DequeueNext
  BY <1>2, OrderAfterDispatch DEF DequeueNext, Dispatch
<1>3. CASE DequeueNothing
  BY <1>3, OrderAfterAging DEF DequeueNothing, TypeOK, EarlierWaitedLonger, Indices
<1>4. CASE SetPriority
  BY <1>4, OrderAfterSetLevel DEF SetPriority, At, Actors
<1>5. CASE AdjustPriority
  <2>1. PICK i \in Indices, delta \in {-1, 1} :
          SetLevel(i, Clamp(tasks[i].priority + delta), FALSE, "user")
    BY <1>5 DEF AdjustPriority, At
  <2>2. tasks[i] \in Tasks
    BY DEF TypeOK, Indices
  <2>3. tasks[i].priority + delta \in Int
    BY <2>2, LevelAssumption DEF Tasks, Levels
  <2> QED
    BY <2>1, <2>3, ClampType, OrderAfterSetLevel DEF Actors
<1>6. CASE GrantUrgent
  BY <1>0, <1>6, OrderAfterSetLevel DEF GrantUrgent, At
<1>7. CASE Pause
  <2>1. PICK i \in Indices, pause \in BOOLEAN :
          tasks' = [tasks EXCEPT ![i] = [tasks[i] EXCEPT !.paused = pause]]
    BY <1>7 DEF Pause, At
  <2>2. \A k \in Indices : tasks[k] \in Tasks
    BY DEF TypeOK, Indices
  <2>3. Len(tasks') = Len(tasks) /\ \A k \in Indices :
          tasks'[k].priority = tasks[k].priority /\ tasks'[k].wait = tasks[k].wait
            /\ tasks'[k].reprioritized = tasks[k].reprioritized
    BY <2>1, <2>2 DEF TypeOK, Indices, Tasks
  <2> QED
    BY <2>3 DEF EarlierWaitedLonger, Indices, IsUrgent
<1>8. CASE Remove
  BY <1>8, OrderAfterRemove DEF Remove, At
<1>9. CASE SetDefault \/ HistoryClear \/ UNCHANGED vars
  BY <1>9 DEF SetDefault, HistoryClear, vars, queueVars, EarlierWaitedLonger, Indices
<1> QED
  BY <1>1, <1>2, <1>3, <1>4, <1>5, <1>6, <1>7, <1>8, <1>9 DEF Next, CmdTask, Dequeue

\* Tasks of one level run in the order they came, unless the user meddles with
\* the level of the earlier one.
THEOREM FifoWithinLevelHolds == Spec => FifoWithinLevel
<1>1. Init => EarlierWaitedLonger
  BY DEF Init, EarlierWaitedLonger, Indices
<1>2. Spec => []EarlierWaitedLonger
  BY <1>1, TypeCorrect, OrderStep, PTL DEF Spec
<1>3. ASSUME TypeOK, EarlierWaitedLonger, NEW i \in Indices, Dispatch(i),
             NEW j \in Runnable, j < i, tasks[j].priority = tasks[i].priority
      PROVE  tasks[j].reprioritized
  <2>1. j \in Indices /\ Best(i)
    BY <1>3 DEF Runnable, Dispatch
  <2>2. tasks[i] \in Tasks /\ tasks[j] \in Tasks /\ i \in Int /\ j \in Int
    BY <1>3, <2>1 DEF TypeOK, Indices
  <2>3. CASE Urgent # {}
    BY <1>3, <2>1, <2>2, <2>3 DEF Best, Urgent, IsUrgent
  <2>4. CASE Urgent = {}
    <3> SUFFICES ASSUME ~tasks[j].reprioritized PROVE FALSE
      BY <2>2 DEF Tasks
    <3>1. tasks[i].wait <= tasks[j].wait
      BY <1>3, <2>1 DEF EarlierWaitedLonger
    <3>2. tasks[i].wait \in Nat /\ tasks[j].wait \in Nat
      BY <2>2, AgeAssumption DEF Tasks
    <3>3. tasks[i].priority * AgeSpan \in Int
      BY <2>2, AgeAssumption, LevelAssumption DEF Tasks, Levels
    <3>4. /\ Score(tasks[i]) <= Score(tasks[j])
          /\ Score(tasks[i]) \in Int /\ Score(tasks[j]) \in Int
      BY <1>3, <3>1, <3>2, <3>3, AgeAssumption DEF Score, LeastOf
    <3>5. \/ Score(tasks[j]) < Score(tasks[i])
          \/ Score(tasks[j]) = Score(tasks[i]) /\ i <= j
      BY <1>3, <2>1, <2>4 DEF Best, Normal
    <3> QED
      BY <1>3, <2>2, <3>4, <3>5
  <2> QED
    BY <2>3, <2>4
<1>4. TypeOK /\ EarlierWaitedLonger =>
        [\A i \in Indices : Dispatch(i) =>
           \A j \in Runnable : j < i /\ tasks[j].priority = tasks[i].priority
                                 => tasks[j].reprioritized]_vars
  BY <1>3
<1> QED
  BY <1>2, <1>4, TypeCorrect, PTL DEF FifoWithinLevel

\* No level is passed over and none is served out of order.
THEOREM ServiceOrderHolds == Spec => ServiceOrder
  BY HighestLevelFirstHolds, FifoWithinLevelHolds DEF ServiceOrder
-----------------------------------------------------------------------------
(***************************************************************************)
(* The audit of lev.10: the ring and the list of the last grants agree, for*)
(* every size of the ring, as long as history_next does not wrap round.    *)
(***************************************************************************)
Wrap(x) == x % HistoryMax

\* Where the next record goes, and where the oldest one is.
WriteAt == Wrap(historyNext - 1)
OldestAt == IF historyCount < HistoryMax THEN 0 ELSE WriteAt

AuditInv ==
  /\ historyCount < HistoryMax => historyNext - 1 = historyCount
  /\ historyNext - 1 >= historyCount
  /\ Len(granted) = historyCount
  /\ \A i \in 0 .. historyCount - 1 : history[Wrap(OldestAt + i)] = granted[i + 1]

LEMMA WrapOnce ==
  ASSUME NEW x \in 0 .. 2 * HistoryMax - 1
  PROVE  Wrap(x) = IF x < HistoryMax THEN x ELSE x - HistoryMax
<1>1. HistoryMax \in Nat \ {0}
  BY SizeAssumption
<1>2. PICK d \in Nat \ {0} : d = HistoryMax
  BY <1>1
<1>3. x % d = IF x < d THEN x ELSE x - d
  <2>1. CASE x < d
    BY <1>2, <2>1, SMT
  <2>2. CASE ~(x < d)
    BY <1>2, <2>2, SMT
  <2> QED
    BY <2>1, <2>2
<1> QED
  BY <1>2, <1>3 DEF Wrap

LEMMA TimesApart ==
  ASSUME NEW d \in Nat \ {0}, NEW k \in Int, NEW l \in Int, k < l
  PROVE  d * k + d <= d * l
<1> DEFINE e == l - k - 1
<1>1. e \in Nat /\ l = k + 1 + e
  OBVIOUS
<1>2. d * l = d * k + d + d * e /\ d * e \in Nat
  BY <1>1
<1> QED
  BY <1>2

\* The place after the place of n.
LEMMA WrapNext ==
  ASSUME NEW n \in Nat
  PROVE  /\ Wrap(n) \in 0 .. HistoryMax - 1
         /\ Wrap(n + 1) = IF Wrap(n) + 1 = HistoryMax THEN 0 ELSE Wrap(n) + 1
<1>1. HistoryMax \in Nat \ {0}
  BY SizeAssumption
<1>2. PICK d \in Nat \ {0} : d = HistoryMax
  BY <1>1
<1>3. PICK q \in Int, r \in 0 .. d - 1 : r = n % d /\ n = d * q + r
  <2> DEFINE q == n \div d
  <2>1. q \in Int /\ n = d * q + (n % d) /\ n % d \in 0 .. d - 1
    BY SMT
  <2> QED
    BY <2>1
<1>4. PICK p \in Int, s \in 0 .. d - 1 : s = (n + 1) % d /\ n + 1 = d * p + s
  <2> DEFINE p == (n + 1) \div d
  <2>1. p \in Int /\ n + 1 = d * p + ((n + 1) % d) /\ (n + 1) % d \in 0 .. d - 1
    BY SMT
  <2> QED
    BY <2>1
<1>5. PICK a \in Int, b \in Int : a = d * q /\ b = d * p
  OBVIOUS
<1>6. a + r + 1 = b + s
  BY <1>3, <1>4, <1>5
<1>7. q < p => a + d <= b
  BY <1>5, TimesApart
<1>8. p < q => b + d <= a
  BY <1>5, TimesApart
<1>9. p = q => a = b
  BY <1>5
<1>10. q + 1 < p => a + d + d <= b
  <2>1. ASSUME q + 1 < p PROVE d * (q + 1) + d <= d * p
    BY <2>1, TimesApart
  <2>2. d * (q + 1) = d * q + d
    OBVIOUS
  <2> QED
    BY <1>5, <2>1, <2>2
<1>11. s = IF r + 1 = d THEN 0 ELSE r + 1
  BY <1>6, <1>7, <1>8, <1>9, <1>10
<1> QED
  BY <1>2, <1>3, <1>4, <1>11 DEF Wrap

LEMMA LastAppended ==
  ASSUME NEW s \in Seq(Grants), NEW e \in Grants, Len(s) <= HistoryMax
  PROVE  LastOf(Append(s, e), HistoryMax) =
           IF Len(s) < HistoryMax THEN Append(s, e)
           ELSE [i \in 1 .. HistoryMax |-> IF i < HistoryMax THEN s[i + 1] ELSE e]
<1> DEFINE t == Append(s, e)
<1>1. /\ HistoryMax \in Nat \ {0} /\ Len(s) \in Nat
      /\ t \in Seq(Grants) /\ Len(t) = Len(s) + 1
      /\ \A i \in 1 .. Len(s) : t[i] = s[i]
      /\ t[Len(s) + 1] = e
  BY SizeAssumption
<1> HIDE DEF t
<1>2. CASE Len(s) < HistoryMax
  BY <1>1, <1>2 DEF LastOf, t
<1>3. CASE Len(s) = HistoryMax
  <2>1. LastOf(t, HistoryMax) = SubSeq(t, 2, HistoryMax + 1)
    BY <1>1, <1>3 DEF LastOf
  <2>2. /\ SubSeq(t, 2, HistoryMax + 1) \in Seq(Grants)
        /\ Len(SubSeq(t, 2, HistoryMax + 1)) = HistoryMax
        /\ \A i \in 1 .. HistoryMax : SubSeq(t, 2, HistoryMax + 1)[i] = t[i + 1]
    BY <1>1, <1>3
  <2>3. SubSeq(t, 2, HistoryMax + 1) = [i \in 1 .. HistoryMax |-> t[i + 1]]
    BY <2>2
  <2>4. \A i \in 1 .. HistoryMax : t[i + 1] = IF i < HistoryMax THEN s[i + 1] ELSE e
    BY <1>1, <1>3
  <2>5. [i \in 1 .. HistoryMax |-> t[i + 1]] = [i \in 1 .. HistoryMax |-> IF i < HistoryMax THEN s[i + 1] ELSE e]
    BY <2>4
  <2> QED
    BY <1>3, <2>1, <2>3, <2>5 DEF t
<1> QED
  BY <1>1, <1>2, <1>3

\* history_log keeps the ring and the list in step.
LEMMA LogKeeps ==
  ASSUME TypeOK, AuditInv, ~LogWraps, NEW old, NEW new, NEW actor \in Actors, Log(old, new, actor)
  PROVE  AuditInv'
<1>1. CASE ~IsGrant(old, new)
  BY <1>1 DEF Log, historyVars, AuditInv, OldestAt, WriteAt
<1>2. CASE IsGrant(old, new)
  <2>1. PICK e \in Grants : e = [seq |-> historyNext, actor |-> actor]
    BY DEF Grants, TypeOK
  <2>2. PICK c \in 0 .. HistoryMax, n \in Nat, w \in Nat, h \in Nat, m \in Nat \ {0} :
          /\ c = historyCount /\ n = historyNext - 1 /\ w = WriteAt /\ h = OldestAt /\ m = HistoryMax
          /\ w \in 0 .. m - 1 /\ n >= c
    <3>1. historyNext - 1 \in Nat /\ HistoryMax \in Nat \ {0} /\ historyCount \in 0 .. HistoryMax
      BY SizeAssumption DEF TypeOK, Seqs
    <3>2. WriteAt \in 0 .. HistoryMax - 1
      BY <3>1, WrapNext DEF WriteAt
    <3>3. OldestAt \in Nat /\ WriteAt \in Nat
      BY <3>1, <3>2 DEF OldestAt
    <3> QED
      BY <3>1, <3>2, <3>3 DEF AuditInv
  <2>3. /\ w = Wrap(n) /\ h = (IF c < m THEN 0 ELSE w)
        /\ c < m => n = c
    BY <2>2 DEF WriteAt, OldestAt, AuditInv
  <2>4. /\ history' = [history EXCEPT ![w] = e]
        /\ historyNext' = n + 2 /\ historyCount' = (IF c < m THEN c + 1 ELSE m)
        /\ granted' = LastOf(Append(granted, e), HistoryMax)
    <3>1. historyNext + 1 < SeqModulus /\ historyNext \in Nat /\ SeqModulus \in Nat
      BY <1>2, SizeAssumption DEF Log, CanLog, TypeOK, Seqs
    <3>2. historyNext' = historyNext + 1
      BY <1>2, <3>1 DEF Log, After
    <3>3. historyCount' = IF c < m THEN c + 1 ELSE m
      BY <1>2, <2>2, SizeAssumption DEF Log, LeastOf
    <3>4. history' = [history EXCEPT ![(historyNext - 1) % HistoryMax] = e] /\ granted' = LastOf(Append(granted, e), HistoryMax)
      BY <1>2, <2>1 DEF Log
    <3> QED
      BY <2>2, <3>1, <3>2, <3>3, <3>4 DEF WriteAt, Wrap
  <2>5. /\ history \in [0 .. m - 1 -> Grants] /\ granted \in Seq(Grants) /\ Len(granted) = c
        /\ \A i \in 0 .. c - 1 : history[Wrap(h + i)] = granted[i + 1]
    BY <2>2 DEF TypeOK, HistorySlots, AuditInv
  <2>6. history'[w] = e /\ \A x \in 0 .. m - 1 : x # w => history'[x] = history[x]
    BY <2>2, <2>4, <2>5
  <2>7. historyNext' - 1 = n + 1 /\ WriteAt' = Wrap(n + 1) /\ Wrap(n + 1) = (IF w + 1 = m THEN 0 ELSE w + 1)
    <3>1. WriteAt' = Wrap(historyNext' - 1)
      BY DEF WriteAt, Wrap
    <3>2. historyNext' - 1 = n + 1
      BY <2>2, <2>4
    <3> QED
      BY <2>2, <2>3, <3>1, <3>2, WrapNext
  <2>8. \A x \in 0 .. 2 * m - 1 : Wrap(x) = IF x < m THEN x ELSE x - m
    BY <2>2, WrapOnce
  <2>9. CASE c < m
    <3>1. w = c /\ h = 0
      BY <2>2, <2>3, <2>8, <2>9
    <3>2. OldestAt' = 0
      BY <2>2, <2>4, <2>7, <2>9, <3>1 DEF OldestAt
    <3>3. granted' = Append(granted, e)
      BY <2>2, <2>4, <2>5, <2>9, LastAppended, SMTT(30)
    <3>4. /\ Len(granted') = c + 1 /\ granted'[c + 1] = e
          /\ \A i \in 1 .. c : granted'[i] = granted[i]
      BY <2>2, <2>5, <3>3
    <3>5. ASSUME NEW i \in 0 .. c PROVE history'[Wrap(i)] = granted'[i + 1]
      <4>1. Wrap(i) = i /\ i \in 0 .. m - 1
        BY <2>2, <2>8, <2>9
      <4>2. CASE i = c
        BY <2>6, <3>1, <3>4, <4>1, <4>2
      <4>3. CASE i # c
        <5>1. i \in 0 .. c - 1 /\ i + 1 \in 1 .. c /\ h + i = i
          BY <2>2, <3>1, <4>3
        <5>2. history[Wrap(i)] = granted[i + 1]
          BY <2>5, <5>1
        <5> QED
          BY <2>6, <3>1, <3>4, <4>1, <4>3, <5>1, <5>2
      <4> QED
        BY <4>2, <4>3
    <3>6. historyCount' = c + 1 /\ historyNext' - 1 = c + 1
      BY <2>2, <2>3, <2>4, <2>9
    <3>7. ASSUME NEW i \in 0 .. historyCount' - 1 PROVE history'[Wrap(OldestAt' + i)] = granted'[i + 1]
      <4>1. i \in 0 .. c /\ OldestAt' + i = i
        BY <2>2, <3>2, <3>6
      <4> QED
        BY <3>5, <4>1
    <3>8. /\ historyCount' < HistoryMax => historyNext' - 1 = historyCount'
          /\ historyNext' - 1 >= historyCount' /\ Len(granted') = historyCount'
      BY <2>2, <3>4, <3>6
    <3> QED
      BY <3>7, <3>8 DEF AuditInv, Wrap
  <2>10. CASE c = m
    <3>1. historyCount' = m /\ h = w /\ ~(historyCount' < HistoryMax)
      BY <2>2, <2>3, <2>4, <2>10
    <3>2. PICK k \in 0 .. m - 1 : k = OldestAt' /\ k = IF w + 1 = m THEN 0 ELSE w + 1
      BY <2>2, <2>7, <3>1 DEF OldestAt
    <3>3. granted' = [i \in 1 .. m |-> IF i < m THEN granted[i + 1] ELSE e]
      BY <2>2, <2>4, <2>5, <2>10, LastAppended
    <3>4. Len(granted') = m
      BY <2>2, <3>3
    <3>5. ASSUME NEW i \in 0 .. m - 1 PROVE history'[Wrap(k + i)] = granted'[i + 1]
      <4>1. CASE i = m - 1
        <5>1. Wrap(k + i) = w /\ granted'[i + 1] = e
          BY <2>2, <2>8, <3>2, <3>3, <4>1
        <5> QED
          BY <2>6, <5>1
      <4>2. CASE i # m - 1
        <5>1. Wrap(k + i) = Wrap(w + (i + 1)) /\ Wrap(k + i) # w /\ Wrap(k + i) \in 0 .. m - 1
          BY <2>2, <2>8, <3>2, <4>2
        <5>2. i + 1 \in 0 .. c - 1 /\ granted'[i + 1] = granted[(i + 1) + 1]
          BY <2>2, <2>10, <3>3, <4>2
        <5>3. history[Wrap(h + (i + 1))] = granted[(i + 1) + 1]
          BY <2>5, <5>2
        <5> QED
          BY <2>6, <3>1, <5>1, <5>2, <5>3
      <4> QED
        BY <4>1, <4>2
    <3>6. ASSUME NEW i \in 0 .. historyCount' - 1 PROVE history'[Wrap(OldestAt' + i)] = granted'[i + 1]
      BY <3>1, <3>2, <3>5
    <3>7. historyNext' - 1 >= historyCount' /\ Len(granted') = historyCount'
      BY <2>2, <2>7, <2>10, <3>1, <3>4
    <3> QED
      BY <3>1, <3>6, <3>7 DEF AuditInv, Wrap
  <2> QED
    BY <2>2, <2>9, <2>10
<1> QED
  BY <1>1, <1>2

LEMMA AuditStep == TypeOK /\ AuditInv /\ ~LogWraps /\ [Next]_vars => AuditInv'
<1> SUFFICES ASSUME TypeOK, AuditInv, ~LogWraps, [Next]_vars PROVE AuditInv'
  OBVIOUS
<1>1. ASSUME UNCHANGED historyVars PROVE AuditInv'
  BY <1>1 DEF historyVars, AuditInv, OldestAt, WriteAt
<1>2. CASE UNCHANGED vars
  BY <1>1, <1>2 DEF vars
<1>3. ASSUME NEW p \in Levels, NEW actor \in Actors, Enqueue(p, actor) PROVE AuditInv'
  BY <1>3, LogKeeps DEF Enqueue
<1>4. ASSUME NEW i, NEW p, NEW resume, NEW actor \in Actors, SetLevel(i, p, resume, actor) PROVE AuditInv'
  BY <1>4, LogKeeps DEF SetLevel
<1>5. "user" \in Actors /\ "os" \in Actors /\ OsLevel \in Levels
  BY LevelAssumption DEF Actors, Levels
<1>6. CASE HistoryClear
  <2>1. historyCount' = 0 /\ historyNext' = 1 /\ Len(granted') = 0
    BY <1>6 DEF HistoryClear
  <2> QED
    BY <2>1, SizeAssumption DEF AuditInv
<1>7. CASE EnqueueUser \/ EnqueueOs
  BY <1>3, <1>5, <1>7 DEF EnqueueUser, EnqueueOs
<1>8. CASE Dequeue
  BY <1>1, <1>8 DEF Dequeue, DequeueNext, Dispatch, DequeueNothing
<1>9. CASE SetPriority \/ AdjustPriority \/ GrantUrgent
  BY <1>4, <1>5, <1>9 DEF SetPriority, AdjustPriority, GrantUrgent
<1>10. CASE Pause \/ Remove
  BY <1>1, <1>10 DEF Pause, Remove
<1>11. CASE SetDefault
  BY <1>5, <1>11, LogKeeps DEF SetDefault
<1> QED
  BY <1>2, <1>6, <1>7, <1>8, <1>9, <1>10, <1>11 DEF Next, CmdTask

\* What "task history" lists is the last grants of lev.10 in their order, through
\* overwrites of the ring and clears of it, for every size of the ring, until
\* history_next wraps round.
THEOREM HistoryIsAuditHolds == Spec => [](~LogWraps => HistoryIsAudit)
<1>1. Init => AuditInv
  <2> SUFFICES ASSUME Init PROVE AuditInv
    OBVIOUS
  <2>1. historyCount = 0 /\ historyNext = 1 /\ Len(granted) = 0
    BY DEF Init
  <2> QED
    BY <2>1, SizeAssumption DEF AuditInv
<1>2. AuditInv => HistoryIsAudit
  <2> SUFFICES ASSUME AuditInv PROVE HistoryIsAudit
    OBVIOUS
  <2>1. \A i \in 0 .. historyCount - 1 : HistoryAt(i) = history[Wrap(OldestAt + i)]
    BY DEF HistoryAt, OldestAt, WriteAt, Wrap
  <2> QED
    BY <2>1 DEF AuditInv, HistoryIsAudit
<1>3. CASE LogWraps
  BY <1>3, PTL
<1>4. CASE ~LogWraps
  <2>1. TypeOK /\ AuditInv /\ [Next]_vars => AuditInv'
    BY <1>4, AuditStep
  <2> QED
    BY <1>1, <1>2, <2>1, TypeCorrect, PTL DEF Spec
<1> QED
  BY <1>3, <1>4

\* The order in which tasks are served and in which the grants of lev.10 are listed.
THEOREM TasksInOrderHolds == Spec => TasksInOrder
  BY ServiceOrderHolds, HistoryIsAuditHolds, PTL DEF TasksInOrder

-----------------------------------------------------------------------------
(***************************************************************************)
(* Datagrams, for every number of them, every budget of at least two       *)
(* receives and every set of ports: the numbers of those that left the card*)
(* are told apart from those that wait in it, and what waits in the slots  *)
(* is later than what was delivered.                                       *)
(***************************************************************************)

\* The numbers of the datagrams that are no longer in the card.
Past == {n \in 1 .. arrived : \A k \in DOMAIN card : n < card[k].id}

CardOK ==
  /\ arrived \in 0 .. MaxArrivals
  /\ \A k \in DOMAIN card : card[k].id <= arrived
  /\ Increasing(card)

\* No datagram is in two places, and none was delivered twice.
Apart(past, slots, given) ==
  /\ \A i \in Slots : slots[i] # NoPacket => slots[i].id \in past
  /\ slots[1] # NoPacket /\ slots[2] # NoPacket => slots[1].id # slots[2].id
  /\ \A p \in Pollers : \A n \in DOMAIN given[p] :
       /\ given[p][n].port = p /\ given[p][n].id \in past
       /\ \A i \in Slots : slots[i] # NoPacket => slots[i].id # given[p][n].id
       /\ \A k \in DOMAIN given[p] : k # n => given[p][k].id # given[p][n].id

Waits(slots, i, port) == slots[i] # NoPacket /\ slots[i].port = port
Deliverable(slots, i, port) == Waits(slots, i, port) /\ FitsBuffer(port, slots[i].size)

\* Why the slots keep the order: never do both pollers have something in them, and
\* the first slot is not free while the second holds what a later poll will take.
Orderly(slots, given, p, n) ==
  /\ \A i, j \in Slots : ~(Waits(slots, i, "oslink") /\ Waits(slots, j, "lconnect"))
  /\ \A port \in Pollers : Deliverable(slots, 2, port) /\ slots[1] = NoPacket => p = port
  /\ \A port \in Pollers : p = port /\ Waits(slots, 1, port) /\ Waits(slots, 2, port) => n >= 2
  /\ \A port \in Pollers :
       Waits(slots, 1, port) /\ Deliverable(slots, 2, port) => slots[1].id < slots[2].id
  /\ \A port \in Pollers, i \in Slots :
       Deliverable(slots, i, port) => \A k \in DOMAIN given[port] : given[port][k].id < slots[i].id
  /\ \A port \in Pollers : Increasing(given[port])

UdpInv ==
  /\ UdpTypeOK
  /\ CardOK
  /\ Apart(Past, pending, got)
  /\ ~EmptyPossible => Orderly(pending, got, poll, left)

SlotStates == [Slots -> Packets \cup {NoPacket}]
Histories == [Pollers -> Seq(Packets)]

LEMMA TwoSlots == Slots = {1, 2} /\ 1 \in Slots /\ 2 \in Slots
  BY DEF Slots, SlotCount

LEMMA PacketType ==
  /\ NoPacket \notin Packets
  /\ \A m \in Packets : m.id \in Nat /\ m.id >= 1 /\ m.id <= MaxArrivals /\ m.port \in Ports /\ m.size \in Sizes
  BY UdpAssumption DEF Packets

LEMMA FirstOf ==
  ASSUME NEW S \in SUBSET Slots, S # {}
  PROVE  Min(S) = IF 1 \in S THEN 1 ELSE 2
<1>1. S \subseteq {1, 2}
  BY TwoSlots
<1>2. CASE 1 \in S
  <2>1. \A y \in S : 1 <= y
    BY <1>1
  <2>2. \A x \in S : (\A y \in S : x <= y) => x = 1
    BY <1>1, <1>2
  <2> QED
    BY <1>2, <2>1, <2>2 DEF Min
<1>3. CASE 1 \notin S
  <2>1. S = {2}
    BY <1>1, <1>3
  <2> QED
    BY <2>1 DEF Min
<1> QED
  BY <1>2, <1>3

LEMMA StoredSlots ==
  ASSUME NEW s, NEW m
  PROVE  Stored(s, m) = IF s[1] = NoPacket THEN [s EXCEPT ![1] = m]
                        ELSE IF s[2] = NoPacket THEN [s EXCEPT ![2] = m] ELSE s
<1> DEFINE free == {i \in Slots : s[i] = NoPacket}
<1>1. free \in SUBSET Slots
  OBVIOUS
<1>2. free # {} => Min(free) = IF 1 \in free THEN 1 ELSE 2
  BY <1>1, FirstOf
<1>3. /\ 1 \in free <=> s[1] = NoPacket
      /\ 2 \in free <=> s[2] = NoPacket
      /\ free = {} <=> 1 \notin free /\ 2 \notin free
  BY TwoSlots
<1>4. Stored(s, m) = IF free = {} THEN s ELSE [s EXCEPT ![Min(free)] = m]
  BY DEF Stored
<1> HIDE DEF free
<1> QED
  BY <1>2, <1>3, <1>4

LEMMA ApartGrows ==
  ASSUME NEW past, NEW more, past \subseteq more, NEW s, NEW g, Apart(past, s, g)
  PROVE  Apart(more, s, g)
  BY DEF Apart

LEMMA ApartReleased ==
  ASSUME NEW past, NEW s \in SlotStates, NEW g, NEW i \in Slots, Apart(past, s, g)
  PROVE  /\ Released(s, i) \in SlotStates
         /\ Apart(past, Released(s, i), g)
  BY TwoSlots DEF Apart, Released, SlotStates

LEMMA ApartStored ==
  ASSUME NEW past, NEW more, past \subseteq more, NEW s \in SlotStates, NEW g, Apart(past, s, g),
         NEW m \in Packets, m.id \in more, m.id \notin past
  PROVE  /\ Stored(s, m) \in SlotStates
         /\ Apart(more, Stored(s, m), g)
<1>1. CASE s[1] = NoPacket
  BY <1>1, TwoSlots, StoredSlots, PacketType DEF Apart, SlotStates
<1>2. CASE s[1] # NoPacket /\ s[2] = NoPacket
  BY <1>2, TwoSlots, StoredSlots, PacketType DEF Apart, SlotStates
<1>3. CASE s[1] # NoPacket /\ s[2] # NoPacket
  BY <1>3, StoredSlots, ApartGrows
<1> QED
  BY <1>1, <1>2, <1>3

LEMMA Appended ==
  ASSUME NEW s \in Seq(Packets), NEW m \in Packets
  PROVE  /\ Append(s, m) \in Seq(Packets) /\ Len(s) \in Nat
         /\ DOMAIN s = 1 .. Len(s) /\ DOMAIN Append(s, m) = 1 .. Len(s) + 1
         /\ \A k \in 1 .. Len(s) : Append(s, m)[k] = s[k] /\ s[k] \in Packets
         /\ Append(s, m)[Len(s) + 1] = m
  OBVIOUS

LEMMA ApartGiven ==
  ASSUME NEW past, NEW s, NEW g \in Histories, Apart(past, s, g),
         NEW p \in Pollers, NEW m \in Packets, m.port = p, m.id \in past,
         \A i \in Slots : s[i] # NoPacket => s[i].id # m.id,
         \A k \in DOMAIN g[p] : g[p][k].id # m.id
  PROVE  /\ [g EXCEPT ![p] = Append(@, m)] \in Histories
         /\ Apart(past, s, [g EXCEPT ![p] = Append(@, m)])
<1> DEFINE h == [g EXCEPT ![p] = Append(@, m)]
<1>1. g[p] \in Seq(Packets)
  BY DEF Histories
<1>2. h \in Histories /\ h[p] = Append(g[p], m) /\ \A q \in Pollers : q # p => h[q] = g[q]
  BY <1>1, Appended DEF Histories
<1>3. /\ Len(g[p]) \in Nat /\ DOMAIN g[p] = 1 .. Len(g[p]) /\ DOMAIN h[p] = 1 .. Len(g[p]) + 1
      /\ \A k \in 1 .. Len(g[p]) : h[p][k] = g[p][k]
      /\ h[p][Len(g[p]) + 1] = m
  BY <1>1, <1>2, Appended
<1>4. ASSUME NEW n \in DOMAIN h[p]
      PROVE  /\ h[p][n].port = p /\ h[p][n].id \in past
             /\ \A i \in Slots : s[i] # NoPacket => s[i].id # h[p][n].id
             /\ \A k \in DOMAIN h[p] : k # n => h[p][k].id # h[p][n].id
  <2>1. CASE n = Len(g[p]) + 1
    BY <1>3, <2>1
  <2>2. CASE n # Len(g[p]) + 1
    <3>1. n \in DOMAIN g[p] /\ h[p][n] = g[p][n]
      BY <1>3, <2>2
    <3>2. \A k \in DOMAIN h[p] : k # n => h[p][k].id # h[p][n].id
      BY <1>3, <3>1 DEF Apart
    <3> QED
      BY <3>1, <3>2 DEF Apart
  <2> QED
    BY <2>1, <2>2
<1> HIDE DEF h
<1>5. ASSUME NEW q \in Pollers, NEW n \in DOMAIN h[q]
      PROVE  /\ h[q][n].port = q /\ h[q][n].id \in past
             /\ \A i \in Slots : s[i] # NoPacket => s[i].id # h[q][n].id
             /\ \A k \in DOMAIN h[q] : k # n => h[q][k].id # h[q][n].id
  <2>1. CASE q = p
    BY <1>4, <2>1
  <2>2. CASE q # p
    <3>1. h[q] = g[q]
      BY <1>2, <2>2
    <3> QED
      BY <1>5, <3>1 DEF Apart
  <2> QED
    BY <2>1, <2>2
<1>6. Apart(past, s, h)
  BY <1>5 DEF Apart
<1> QED
  BY <1>2, <1>6 DEF h

LEMMA Distinct == "oslink" # "lconnect" /\ "none" \notin Pollers /\ Pollers = {"oslink", "lconnect"}
  BY DEF Pollers

LEMMA FirstMatching ==
  ASSUME NEW p, Matching(p) # {}
  PROVE  /\ Min(Matching(p)) \in Matching(p)
         /\ Min(Matching(p)) = IF Waits(pending, 1, p) THEN 1 ELSE 2
         /\ \A i \in Slots : i \in Matching(p) <=> Waits(pending, i, p)
<1>1. \A i \in Slots : i \in Matching(p) <=> Waits(pending, i, p)
  BY DEF Matching, Waits
<1>2. Matching(p) \in SUBSET Slots /\ (1 \in Matching(p) \/ 2 \in Matching(p))
  BY TwoSlots DEF Matching
<1>3. Min(Matching(p)) = IF 1 \in Matching(p) THEN 1 ELSE 2
  BY <1>2, FirstOf
<1> QED
  BY <1>1, <1>2, <1>3, TwoSlots

\* Nothing waits for the port: a poll of it that stops leaves the slots in order.
LEMMA OrderlyStops ==
  ASSUME NEW s, NEW g, NEW p, NEW n, Orderly(s, g, p, n),
         \A port \in Pollers : p = port => ~(Deliverable(s, 2, port) /\ s[1] = NoPacket)
  PROVE  Orderly(s, g, "none", 0)
  BY Distinct DEF Orderly

LEMMA OrderlyBegins ==
  ASSUME NEW s, NEW g, NEW n \in Nat, Orderly(s, g, "none", n), NEW p, NEW b \in Nat, b >= 2
  PROVE  Orderly(s, g, p, b)
  BY Distinct DEF Orderly

\* A receive that has put aside what another port is to have.
LEMMA OrderlyStored ==
  ASSUME NEW s \in SlotStates, NEW g \in Histories, NEW p \in Pollers, NEW n \in Nat, Orderly(s, g, p, n),
         ~Waits(s, 1, p), ~Waits(s, 2, p),
         NEW m \in Packets, m.port # p,
         \A i \in Slots : s[i] # NoPacket => s[i].id < m.id,
         \A port \in Pollers : \A k \in DOMAIN g[port] : g[port][k].id < m.id
  PROVE  Orderly(Stored(s, m), g, "none", 0)
<1>1. Orderly(s, g, "none", 0)
  BY OrderlyStops DEF Deliverable
<1>2. CASE s[1] = NoPacket
  <2> DEFINE t == [s EXCEPT ![1] = m]
  <2>1. t[1] = m /\ t[2] = s[2] /\ m # NoPacket
    BY TwoSlots, PacketType DEF SlotStates
  <2>2. \A port \in Pollers : ~Deliverable(s, 2, port)
    BY <1>1, <1>2, Distinct DEF Orderly
  <2>3. \A port \in Pollers : ~Deliverable(t, 2, port)
    BY <2>1, <2>2 DEF Deliverable, Waits
  <2>4. \A i, j \in Slots : ~(Waits(t, i, "oslink") /\ Waits(t, j, "lconnect"))
    BY <2>1, <1>1, TwoSlots, Distinct DEF Orderly, Waits
  <2>5. ASSUME NEW port \in Pollers, NEW i \in Slots, Deliverable(t, i, port), NEW k \in DOMAIN g[port]
        PROVE  g[port][k].id < t[i].id
    BY <2>1, <2>3, <2>5, TwoSlots
  <2> HIDE DEF t
  <2>6. Orderly(t, g, "none", 0)
    BY <1>1, <2>1, <2>3, <2>4, <2>5, Distinct DEF Orderly
  <2> QED
    BY <1>2, <2>6, StoredSlots DEF t
<1>3. CASE s[1] # NoPacket /\ s[2] = NoPacket
  <2> DEFINE t == [s EXCEPT ![2] = m]
  <2>1. t[2] = m /\ t[1] = s[1] /\ m # NoPacket
    BY TwoSlots, PacketType DEF SlotStates
  <2>4. \A i, j \in Slots : ~(Waits(t, i, "oslink") /\ Waits(t, j, "lconnect"))
    BY <2>1, <1>1, TwoSlots, Distinct DEF Orderly, Waits
  <2>5. ASSUME NEW port \in Pollers, NEW i \in Slots, Deliverable(t, i, port), NEW k \in DOMAIN g[port]
        PROVE  g[port][k].id < t[i].id
    BY <1>1, <2>1, <2>5, TwoSlots DEF Orderly, Deliverable, Waits
  <2> HIDE DEF t
  <2>6. Orderly(t, g, "none", 0)
    BY <1>1, <1>3, <2>1, <2>4, <2>5, TwoSlots, Distinct DEF Orderly
  <2> QED
    BY <1>3, <2>6, StoredSlots DEF t
<1>4. CASE s[1] # NoPacket /\ s[2] # NoPacket
  BY <1>1, <1>4, StoredSlots
<1> QED
  BY <1>2, <1>3, <1>4

\* A delivery of what is later than all deliveries, and earlier than what waits.
LEMMA OrderlyGiven ==
  ASSUME NEW s, NEW g \in Histories, NEW p \in Pollers, NEW now, NEW n, Orderly(s, g, now, n),
         NEW m \in Packets,
         \A k \in DOMAIN g[p] : g[p][k].id < m.id,
         \A i \in Slots : Deliverable(s, i, p) => m.id < s[i].id
  PROVE  Orderly(s, [g EXCEPT ![p] = Append(@, m)], now, n)
<1> DEFINE h == [g EXCEPT ![p] = Append(@, m)]
<1>1. g[p] \in Seq(Packets)
  BY DEF Histories
<1>2. h[p] = Append(g[p], m) /\ \A q \in Pollers : q # p => h[q] = g[q]
  BY DEF Histories
<1>3. /\ Len(g[p]) \in Nat /\ DOMAIN g[p] = 1 .. Len(g[p]) /\ DOMAIN h[p] = 1 .. Len(g[p]) + 1
      /\ \A k \in 1 .. Len(g[p]) : h[p][k] = g[p][k]
      /\ h[p][Len(g[p]) + 1] = m
  BY <1>1, <1>2, Appended
<1> HIDE DEF h
<1>4. ASSUME NEW q \in Pollers PROVE Increasing(h[q])
  <2>1. CASE q = p
    <3>1. Increasing(g[p])
      BY DEF Orderly
    <3>2. ASSUME NEW i \in 1 .. Len(g[p]) + 1, NEW j \in 1 .. Len(g[p]) + 1, i < j
          PROVE  h[p][i].id < h[p][j].id
      <4>1. i \in DOMAIN g[p] /\ h[p][i] = g[p][i]
        BY <1>3, <3>2
      <4>2. CASE j = Len(g[p]) + 1
        BY <1>3, <4>1, <4>2
      <4>3. CASE j # Len(g[p]) + 1
        <5>1. j \in DOMAIN g[p] /\ h[p][j] = g[p][j]
          BY <1>3, <4>3
        <5> QED
          BY <3>1, <3>2, <4>1, <5>1 DEF Increasing
      <4> QED
        BY <4>2, <4>3
    <3> QED
      BY <1>3, <2>1, <3>2 DEF Increasing
  <2>2. CASE q # p
    BY <1>2, <2>2 DEF Orderly
  <2> QED
    BY <2>1, <2>2
<1>5. ASSUME NEW q \in Pollers, NEW i \in Slots, Deliverable(s, i, q), NEW k \in DOMAIN h[q]
      PROVE  h[q][k].id < s[i].id
  <2>1. CASE q = p
    BY <1>3, <1>5, <2>1, SMTT(30) DEF Orderly
  <2>2. CASE q # p
    BY <1>2, <1>5, <2>2 DEF Orderly
  <2> QED
    BY <2>1, <2>2
<1>6. Orderly(s, h, now, n)
  BY <1>4, <1>5 DEF Orderly
<1> QED
  BY <1>6 DEF h

\* A datagram comes in, or leaves the card: what had left it stays behind it.
LEMMA PastArrives ==
  ASSUME UdpInv, Arrive
  PROVE  CardOK' /\ Past \subseteq Past' /\ (card \in Seq(Packets) /\ Len(card) <= RxRing)'
<1>1. /\ card \in Seq(Packets) /\ arrived \in 0 .. MaxArrivals /\ arrived' = arrived + 1 /\ MaxArrivals \in Nat
      /\ arrived < MaxArrivals /\ Len(card) \in Nat /\ DOMAIN card = 1 .. Len(card) /\ RxRing \in Nat
  BY UdpAssumption DEF UdpInv, UdpTypeOK, CardOK, Arrive
<1>2. PICK port \in Ports, size \in Sizes :
        card' = Append(card, [id |-> arrived + 1, port |-> port, size |-> size])
  BY DEF Arrive
<1> DEFINE m == [id |-> arrived + 1, port |-> port, size |-> size]
<1>3. m \in Packets /\ m.id = arrived + 1
  BY <1>1 DEF Packets
<1> HIDE DEF m
<1>4. /\ card' \in Seq(Packets) /\ DOMAIN card' = 1 .. Len(card) + 1 /\ Len(card') = Len(card) + 1
      /\ \A k \in 1 .. Len(card) : card'[k] = card[k]
      /\ card'[Len(card) + 1] = m
  BY <1>1, <1>2, <1>3, Appended DEF m
<1>5. Len(card') <= RxRing
  BY <1>1, <1>4 DEF Arrive
<1>6. \A k \in DOMAIN card : card[k].id <= arrived /\ card[k].id \in Nat
  BY <1>1, PacketType DEF UdpInv, CardOK
<1>7. \A k \in DOMAIN card' :
        \/ k \in DOMAIN card /\ card'[k] = card[k]
        \/ k = Len(card) + 1 /\ card'[k] = m
  BY <1>1, <1>4
<1>8. CardOK'
  <2>1. \A k \in DOMAIN card' : card'[k].id <= arrived'
    BY <1>1, <1>3, <1>6, <1>7
  <2>2. ASSUME NEW i \in DOMAIN card', NEW j \in DOMAIN card', i < j PROVE card'[i].id < card'[j].id
    <3>1. i \in DOMAIN card /\ card'[i] = card[i]
      BY <1>1, <1>4, <1>7, <2>2
    <3>2. CASE card'[j] = m
      BY <1>1, <1>3, <1>6, <3>1, <3>2
    <3>3. CASE j \in DOMAIN card /\ card'[j] = card[j]
      BY <2>2, <3>1, <3>3 DEF UdpInv, CardOK, Increasing
    <3> QED
      BY <1>7, <3>2, <3>3
  <2>3. arrived' \in 0 .. MaxArrivals
    BY <1>1
  <2> QED
    BY <2>1, <2>2, <2>3 DEF CardOK, Increasing
<1>9. Past \subseteq Past'
  <2> SUFFICES ASSUME NEW n \in Past PROVE n \in Past'
    OBVIOUS
  <2>1. n \in 1 .. arrived /\ \A k \in DOMAIN card : n < card[k].id
    BY DEF Past
  <2>2. n \in 1 .. arrived' /\ n < arrived + 1
    BY <1>1, <2>1
  <2>3. \A k \in DOMAIN card' : n < card'[k].id
    BY <1>3, <1>7, <2>1, <2>2
  <2> QED
    BY <2>2, <2>3 DEF Past
<1> QED
  BY <1>4, <1>5, <1>8, <1>9

LEMMA PastLeaves ==
  ASSUME UdpInv, card # <<>>, card' = Tail(card), arrived' = arrived
  PROVE  /\ CardOK' /\ Past \subseteq Past' /\ (card \in Seq(Packets) /\ Len(card) <= RxRing)'
         /\ Head(card) \in Packets /\ Head(card).id \in Past' /\ \A n \in Past : n < Head(card).id
<1>1. /\ card \in Seq(Packets) /\ arrived \in 0 .. MaxArrivals /\ MaxArrivals \in Nat
      /\ Len(card) \in Nat /\ DOMAIN card = 1 .. Len(card) /\ RxRing \in Nat /\ Len(card) <= RxRing
  BY UdpAssumption DEF UdpInv, UdpTypeOK, CardOK
<1>2. /\ Len(card) >= 1 /\ card' \in Seq(Packets) /\ Len(card') = Len(card) - 1 /\ DOMAIN card' = 1 .. Len(card) - 1
      /\ \A k \in 1 .. Len(card) - 1 : card'[k] = card[k + 1]
      /\ Head(card) = card[1] /\ card[1] \in Packets
  BY <1>1
<1>3. \A i, j \in DOMAIN card : i < j => card[i].id < card[j].id
  BY DEF UdpInv, CardOK, Increasing
<1>4. \A k \in DOMAIN card : card[k].id <= arrived /\ card[k].id \in Nat /\ card[k].id >= 1
  BY <1>1, PacketType DEF UdpInv, CardOK
<1>5. \A k \in DOMAIN card' : k \in Nat /\ k >= 1 /\ k + 1 \in DOMAIN card /\ card'[k] = card[k + 1]
  BY <1>1, <1>2
<1>6. CardOK'
  <2>1. \A k \in DOMAIN card' : card'[k].id <= arrived'
    BY <1>4, <1>5
  <2>2. ASSUME NEW i \in DOMAIN card', NEW j \in DOMAIN card', i < j PROVE card'[i].id < card'[j].id
    BY <1>3, <1>5, <2>2
  <2> QED
    BY <1>1, <2>1, <2>2 DEF CardOK, Increasing
<1>7. Past \subseteq Past' /\ \A n \in Past : n < Head(card).id
  BY <1>1, <1>2, <1>5 DEF Past
<1>8. Head(card).id \in Past'
  <2>1. card[1].id \in 1 .. arrived'
    BY <1>1, <1>2, <1>4
  <2>2. \A k \in DOMAIN card' : card[1].id < card'[k].id
    BY <1>1, <1>2, <1>3, <1>5
  <2> QED
    BY <1>2, <2>1, <2>2 DEF Past
<1>9. Len(card') <= RxRing
  BY <1>1, <1>2
<1> QED
  BY <1>2, <1>6, <1>7, <1>8, <1>9

LEMMA UdpTypes ==
  ASSUME UdpInv
  PROVE  /\ card \in Seq(Packets) /\ pending \in SlotStates /\ got \in Histories /\ left \in Nat
         /\ arrived \in Nat /\ (poll # "none" => poll \in Pollers /\ left <= PollBudget[poll])
         /\ (poll = "none") = (left = 0) /\ RxRing \in Nat
         /\ \A p \in Pollers : PollBudget[p] \in Nat /\ PollBudget[p] >= 2
  BY UdpAssumption DEF UdpInv, UdpTypeOK, CardOK, SlotStates, Histories, SlotCount

LEMMA ArriveKeeps == UdpInv /\ Arrive => UdpInv'
<1> SUFFICES ASSUME UdpInv, Arrive PROVE UdpInv'
  OBVIOUS
<1>1. CardOK' /\ Past \subseteq Past' /\ (card \in Seq(Packets) /\ Len(card) <= RxRing)'
  BY PastArrives
<1>2. pending' = pending /\ got' = got /\ poll' = poll /\ left' = left /\ turn' = turn
  BY DEF Arrive
<1>3. UdpTypeOK'
  BY <1>1, <1>2 DEF UdpInv, UdpTypeOK
<1>4. Apart(Past', pending, got)
  BY <1>1, ApartGrows DEF UdpInv
<1> QED
  BY <1>1, <1>2, <1>3, <1>4 DEF UdpInv

LEMMA DiscardKeeps == UdpInv /\ Discard => UdpInv'
<1> SUFFICES ASSUME UdpInv, Discard PROVE UdpInv'
  OBVIOUS
<1>1. CardOK' /\ Past \subseteq Past' /\ (card \in Seq(Packets) /\ Len(card) <= RxRing)'
  BY PastLeaves DEF Discard
<1>2. pending' = pending /\ got' = got /\ poll' = poll /\ left' = left /\ turn' = turn
  BY DEF Discard
<1>3. UdpTypeOK'
  BY <1>1, <1>2 DEF UdpInv, UdpTypeOK
<1>4. Apart(Past', pending, got)
  BY <1>1, ApartGrows DEF UdpInv
<1> QED
  BY <1>1, <1>2, <1>3, <1>4 DEF UdpInv

\* A step that begins or ends a poll, or changes nothing.
LEMMA TurnKeeps == UdpInv /\ (MainLoop \/ ShellPoll) => UdpInv'
<1> SUFFICES ASSUME UdpInv, MainLoop \/ ShellPoll PROVE UdpInv'
  OBVIOUS
<1>1. card' = card /\ arrived' = arrived /\ pending' = pending /\ got' = got
  BY DEF MainLoop, ShellPoll
<1>2. poll = "none"
  BY DEF MainLoop, ShellPoll, Begin
<1>3. \/ poll' = poll /\ left' = left /\ turn' = "shell"
      \/ /\ poll' \in Pollers /\ left' = PollBudget[poll']
         /\ turn' = "shell" \/ turn' = poll'
  <2>1. CASE MainLoop
    <3>1. CASE turn = "lconnect"
      BY <2>1, <3>1 DEF MainLoop
    <3>2. CASE turn # "lconnect"
      BY <2>1, <3>2, Distinct DEF MainLoop, Begin
    <3> QED
      BY <3>1, <3>2
  <2>2. CASE ShellPoll
    BY <2>2 DEF ShellPoll, Begin
  <2> QED
    BY <2>1, <2>2
<1>4. CardOK' /\ Past' = Past
  BY <1>1 DEF UdpInv, CardOK, Past
<1>5. UdpTypeOK'
  <2>1. poll' \in {"none"} \cup Pollers /\ left' \in Nat /\ turn' \in {"shell"} \cup Pollers
    BY <1>2, <1>3, UdpTypes, Distinct
  <2>2. (poll' = "none") = (left' = 0)
    <3>1. CASE poll' = poll /\ left' = left
      BY <3>1, UdpTypes
    <3>2. CASE poll' \in Pollers /\ left' = PollBudget[poll']
      <4>1. left' # 0
        BY <3>2, UdpTypes
      <4> QED
        BY <3>2, <4>1, Distinct
    <3> QED
      BY <1>3, <3>1, <3>2
  <2>3. poll' # "none" => left' <= PollBudget[poll']
    BY <1>2, <1>3, UdpTypes
  <2>4. turn' # "shell" => poll' \in {"none", turn'}
    BY <1>2, <1>3
  <2> QED
    BY <1>1, <2>1, <2>2, <2>3, <2>4 DEF UdpInv, UdpTypeOK
<1>6. ~EmptyPossible => Orderly(pending, got, poll', left')
  <2>1. CASE poll' = poll /\ left' = left
    BY <2>1 DEF UdpInv
  <2>2. CASE poll' \in Pollers /\ left' = PollBudget[poll']
    BY <1>2, <2>2, UdpTypes, OrderlyBegins DEF UdpInv
  <2> QED
    BY <1>3, <2>1, <2>2
<1> QED
  BY <1>1, <1>4, <1>5, <1>6 DEF UdpInv, EmptyPossible

\* A datagram with a payload is taken from its slot.
LEMMA TakePendingKeeps == UdpInv /\ TakePending => UdpInv'
<1> SUFFICES ASSUME UdpInv, TakePending PROVE UdpInv'
  OBVIOUS
<1> DEFINE i == Min(Matching(poll))
           m == pending[i]
<1>1. /\ poll # "none" /\ Matching(poll) # {}
      /\ card' = card /\ arrived' = arrived /\ turn' = turn
  BY DEF TakePending
<1>2. /\ poll \in Pollers /\ pending \in SlotStates /\ got \in Histories /\ left \in Nat
      /\ left <= PollBudget[poll] /\ PollBudget[poll] \in Nat /\ left # 0
  BY <1>1, UdpTypes
<1>3. /\ i \in Slots /\ Waits(pending, i, poll) /\ i = IF Waits(pending, 1, poll) THEN 1 ELSE 2
      /\ m \in Packets /\ m # NoPacket /\ m.port = poll
  <2>1. i \in Matching(poll) /\ i = IF Waits(pending, 1, poll) THEN 1 ELSE 2
    BY <1>1, FirstMatching
  <2> HIDE DEF i
  <2>2. i \in Slots /\ pending[i] # NoPacket /\ pending[i].port = poll
    BY <2>1 DEF Matching
  <2> QED
    BY <1>2, <2>1, <2>2 DEF Waits, SlotStates
<1>4. \/ /\ FitsBuffer(poll, m.size) /\ Give(poll, m) /\ pending' = Released(pending, i) /\ GoOn
      \/ ~FitsBuffer(poll, m.size) /\ Stop /\ pending' = pending /\ got' = got
  BY DEF TakePending
<1> HIDE DEF i, m
<1>5. CardOK' /\ Past' = Past
  BY <1>1 DEF UdpInv, CardOK, Past
<1>6. CASE /\ FitsBuffer(poll, m.size) /\ Give(poll, m) /\ pending' = Released(pending, i) /\ GoOn
  <2>1. got' = [got EXCEPT ![poll] = Append(@, m)]
    BY <1>6 DEF Give
  <2>2. pending' \in SlotStates /\ Apart(Past, pending', got)
    BY <1>2, <1>3, <1>6, ApartReleased DEF UdpInv
  <2>3. m.id \in Past /\ \A k \in DOMAIN got[poll] : got[poll][k].id # m.id
    BY <1>2, <1>3 DEF UdpInv, Apart, m
  <2>4. /\ pending'[i] = NoPacket
        /\ \A j \in Slots : pending'[j] # NoPacket => j # i /\ pending'[j] = pending[j] /\ pending[j] # NoPacket
    BY <1>2, <1>3, <1>6 DEF Released, SlotStates
  <2>5. \A j \in Slots : pending'[j] # NoPacket => pending'[j].id # m.id
    BY <1>3, <2>4, TwoSlots DEF UdpInv, Apart, m
  <2>6. got' \in Histories /\ Apart(Past, pending', got')
    BY <1>2, <1>3, <2>1, <2>2, <2>3, <2>5, ApartGiven
  <2>7. left' = left - 1 /\ poll' = IF left = 1 THEN "none" ELSE poll
    BY <1>6 DEF GoOn
  <2>8. UdpTypeOK'
    <3>1. left' \in Nat /\ left' <= PollBudget[poll] /\ (left' = 0 <=> left = 1)
      BY <1>2, <2>7
    <3>2. (poll' = "none") = (left' = 0)
      BY <1>1, <2>7, <3>1
    <3>3. poll' # "none" => left' <= PollBudget[poll']
      BY <2>7, <3>1
    <3>4. poll' \in {"none"} \cup Pollers /\ (turn' # "shell" => poll' \in {"none", turn'})
      BY <1>1, <1>2, <2>7 DEF UdpInv, UdpTypeOK
    <3>5. card' \in Seq(Packets) /\ Len(card') <= RxRing /\ turn' \in {"shell"} \cup Pollers
      BY <1>1 DEF UdpInv, UdpTypeOK
    <3> QED
      BY <2>2, <2>6, <3>1, <3>2, <3>3, <3>4, <3>5 DEF UdpTypeOK, SlotStates, Histories
  <2>9. ASSUME ~EmptyPossible PROVE Orderly(pending', got', poll', left')
    <3>1. Orderly(pending, got, poll, left)
      BY <2>9 DEF UdpInv
    <3>2. \A k \in DOMAIN got[poll] : got[poll][k].id < m.id
      BY <1>2, <1>3, <1>6, <3>1 DEF Orderly, Deliverable, m
    <3>3. ASSUME NEW j \in Slots, Deliverable(pending', j, poll) PROVE m.id < pending'[j].id
      <4>1. j # i /\ Deliverable(pending, j, poll) /\ pending'[j] = pending[j]
        BY <2>4, <3>3 DEF Deliverable, Waits
      <4>2. i = 1 /\ j = 2 /\ Waits(pending, 1, poll)
        BY <1>3, <4>1, TwoSlots DEF Deliverable
      <4> QED
        BY <1>2, <3>1, <4>1, <4>2 DEF Orderly, m
    <3>4. \A j \in Slots, port \in Pollers :
            /\ Waits(pending', j, port) => Waits(pending, j, port) /\ j # i
            /\ Deliverable(pending', j, port) => Deliverable(pending, j, port) /\ pending'[j] = pending[j]
      BY <2>4 DEF Deliverable, Waits
    <3>5. ASSUME NEW port \in Pollers, Deliverable(pending', 2, port), pending'[1] = NoPacket
          PROVE  poll' = port
      <4>1. i # 2 /\ Waits(pending, 2, port)
        BY <3>4, <3>5, TwoSlots DEF Deliverable
      <4>2. i = 1 /\ Waits(pending, 1, poll)
        BY <1>3, <4>1
      <4>3. port = poll
        BY <1>2, <3>1, <4>1, <4>2, TwoSlots, Distinct DEF Orderly
      <4>4. left >= 2
        BY <1>2, <3>1, <4>1, <4>2, <4>3 DEF Orderly
      <4> QED
        BY <1>2, <2>7, <4>3, <4>4
    <3>6. Orderly(pending', got, poll', left')
      <4>1. \A port \in Pollers : ~(Waits(pending', 1, port) /\ Waits(pending', 2, port))
        BY <1>3, <3>4, TwoSlots
      <4>2. \A j, k \in Slots : ~(Waits(pending', j, "oslink") /\ Waits(pending', k, "lconnect"))
        BY <3>1, <3>4, Distinct DEF Orderly
      <4>3. \A port \in Pollers, j \in Slots :
              Deliverable(pending', j, port) => \A k \in DOMAIN got[port] : got[port][k].id < pending'[j].id
        BY <3>1, <3>4 DEF Orderly
      <4> QED
        BY <3>1, <3>5, <4>1, <4>2, <4>3 DEF Orderly, Deliverable
    <3>7. Orderly(pending', [got EXCEPT ![poll] = Append(@, m)], poll', left')
      BY <1>2, <1>3, <3>2, <3>3, <3>6, <2>7, OrderlyGiven
    <3> QED
      BY <2>1, <3>7
  <2> QED
    BY <1>5, <2>6, <2>8, <2>9 DEF UdpInv, EmptyPossible
<1>7. CASE ~FitsBuffer(poll, m.size) /\ Stop /\ pending' = pending /\ got' = got
  <2>1. poll' = "none" /\ left' = 0
    BY <1>7 DEF Stop
  <2>2. UdpTypeOK'
    BY <1>1, <1>7, <2>1 DEF UdpInv, UdpTypeOK
  <2>3. ~(Deliverable(pending, 2, poll) /\ pending[1] = NoPacket)
    BY <1>3, <1>7 DEF Deliverable, Waits, m
  <2>4. ~EmptyPossible => Orderly(pending', got', poll', left')
    BY <1>7, <2>1, <2>3, OrderlyStops DEF UdpInv
  <2> QED
    BY <1>5, <1>7, <2>2, <2>4 DEF UdpInv, EmptyPossible
<1> QED
  BY <1>4, <1>6, <1>7

\* Nothing with a payload waits for the port: the card is looked at, once a slot
\* with an empty datagram has been freed.
LEMMA ReadCardKeeps == UdpInv /\ ReadCard => UdpInv'
<1> SUFFICES ASSUME UdpInv, ReadCard PROVE UdpInv'
  OBVIOUS
<1> DEFINE empty == {i \in Matching(poll) : pending[i].size = "empty"}
           slots == IF empty = {} THEN pending ELSE Released(pending, Min(Matching(poll)))
           m == Head(card)
<1>1. /\ poll # "none" /\ turn' = turn /\ arrived' = arrived
      /\ Matching(poll) # {} => Min(Matching(poll)) \in empty
  BY DEF ReadCard
<1>2. /\ poll \in Pollers /\ pending \in SlotStates /\ got \in Histories /\ left \in Nat
      /\ left <= PollBudget[poll] /\ PollBudget[poll] \in Nat /\ left # 0
  BY <1>1, UdpTypes
<1>3. slots \in SlotStates /\ Apart(Past, slots, got)
  <2>1. CASE empty = {}
    BY <1>2, <2>1 DEF UdpInv
  <2>2. CASE empty # {}
    <3>1. Min(Matching(poll)) \in Slots
      BY <1>1, <2>2, FirstMatching DEF Matching
    <3> QED
      BY <1>2, <2>2, <3>1, ApartReleased DEF UdpInv
  <2> QED
    BY <2>1, <2>2
<1>4. ~EmptyPossible => slots = pending /\ ~Waits(pending, 1, poll) /\ ~Waits(pending, 2, poll)
  <2> SUFFICES ASSUME ~EmptyPossible
               PROVE  slots = pending /\ ~Waits(pending, 1, poll) /\ ~Waits(pending, 2, poll)
    OBVIOUS
  <2>1. ASSUME NEW i \in empty PROVE FALSE
    <3>1. pending[i] \in Packets /\ pending[i].size = "empty"
      BY <1>2 DEF Matching, SlotStates
    <3> QED
      BY <2>1, <3>1, PacketType DEF EmptyPossible
  <2>2. empty = {} /\ Matching(poll) = {}
    BY <1>1, <2>1
  <2> HIDE DEF empty
  <2> QED
    BY <2>2, TwoSlots DEF Matching, Waits
<1>5. \/ card = <<>> /\ card' = card /\ pending' = slots /\ Stop /\ got' = got
      \/ /\ card # <<>> /\ card' = Tail(card)
         /\ \/ m.port # poll /\ pending' = Stored(slots, m) /\ Stop /\ got' = got
            \/ m.port = poll /\ pending' = slots /\ Stop /\ got' = got
            \/ m.port = poll /\ pending' = slots /\ GoOn /\ Give(poll, m)
  BY DEF ReadCard
<1> HIDE DEF empty, slots, m
<1>6. ASSUME Stop PROVE /\ poll' = "none" /\ left' = 0 /\ poll' \in {"none"} \cup Pollers /\ left' \in Nat
                        /\ (poll' = "none") = (left' = 0)
                        /\ (poll' # "none" => left' <= PollBudget[poll'])
                        /\ (turn' # "shell" => poll' \in {"none", turn'})
  BY <1>6 DEF Stop
<1>7. ASSUME GoOn PROVE /\ poll' \in {"none"} \cup Pollers /\ left' \in Nat
                        /\ (poll' = "none") = (left' = 0)
                        /\ (poll' # "none" => left' <= PollBudget[poll'])
                        /\ (turn' # "shell" => poll' \in {"none", turn'})
  <2>1. left' = left - 1 /\ poll' = IF left = 1 THEN "none" ELSE poll
    BY <1>7 DEF GoOn
  <2>2. left' \in Nat /\ left' <= PollBudget[poll] /\ (left' = 0 <=> left = 1)
    BY <1>2, <2>1
  <2>3. (poll' = "none") = (left' = 0)
    BY <1>1, <2>1, <2>2
  <2>4. poll' # "none" => left' <= PollBudget[poll']
    BY <2>1, <2>2
  <2>5. poll' \in {"none"} \cup Pollers /\ (turn' # "shell" => poll' \in {"none", turn'})
    BY <1>1, <1>2, <2>1 DEF UdpInv, UdpTypeOK
  <2> QED
    BY <2>2, <2>3, <2>4, <2>5
<1>8. turn' \in {"shell"} \cup Pollers
  BY <1>1 DEF UdpInv, UdpTypeOK
<1>9. ~EmptyPossible => Orderly(slots, got, poll, left)
  BY <1>4 DEF UdpInv
<1>10. CASE card = <<>> /\ card' = card /\ pending' = slots /\ Stop /\ got' = got
  <2>1. CardOK' /\ Past' = Past
    BY <1>1, <1>10 DEF UdpInv, CardOK, Past
  <2>2. UdpTypeOK'
    BY <1>1, <1>3, <1>6, <1>8, <1>10 DEF UdpInv, UdpTypeOK, SlotStates
  <2>3. ~EmptyPossible => Orderly(pending', got', poll', left')
    BY <1>4, <1>6, <1>9, <1>10, OrderlyStops DEF Deliverable
  <2> QED
    BY <1>3, <1>10, <2>1, <2>2, <2>3 DEF UdpInv, EmptyPossible
<1>11. ASSUME card # <<>>, card' = Tail(card)
       PROVE  /\ CardOK' /\ Past \subseteq Past' /\ (card \in Seq(Packets) /\ Len(card) <= RxRing)'
              /\ m \in Packets /\ m.id \in Past' /\ m.id \notin Past /\ \A n \in Past : n < m.id
              /\ Apart(Past', slots, got)
  <2>1. /\ CardOK' /\ Past \subseteq Past' /\ (card \in Seq(Packets) /\ Len(card) <= RxRing)'
        /\ m \in Packets /\ m.id \in Past' /\ \A n \in Past : n < m.id
    BY <1>1, <1>11, PastLeaves DEF m
  <2>2. m.id \in Nat
    BY <2>1, PacketType
  <2>3. m.id \notin Past
    BY <2>1, <2>2
  <2> QED
    BY <1>3, <2>1, <2>3, ApartGrows
<1>12. /\ \A i \in Slots : slots[i] # NoPacket => slots[i].id \in Past
       /\ \A port \in Pollers : \A k \in DOMAIN got[port] : got[port][k].id \in Past
  BY <1>3 DEF Apart
<1>13. CASE /\ card # <<>> /\ card' = Tail(card)
            /\ m.port # poll /\ pending' = Stored(slots, m) /\ Stop /\ got' = got
  <2>1. pending' \in SlotStates /\ Apart(Past', pending', got)
    BY <1>3, <1>11, <1>13, ApartStored
  <2>2. UdpTypeOK'
    BY <1>6, <1>8, <1>11, <1>13, <2>1 DEF UdpInv, UdpTypeOK, SlotStates
  <2>3. ASSUME ~EmptyPossible PROVE Orderly(pending', got', poll', left')
    BY <1>2, <1>3, <1>4, <1>6, <1>9, <1>11, <1>12, <1>13, <2>3, OrderlyStored
  <2> QED
    BY <1>11, <1>13, <2>1, <2>2, <2>3 DEF UdpInv, EmptyPossible
<1>14. CASE /\ card # <<>> /\ card' = Tail(card)
            /\ m.port = poll /\ pending' = slots /\ Stop /\ got' = got
  <2>1. UdpTypeOK'
    BY <1>3, <1>6, <1>8, <1>11, <1>14 DEF UdpInv, UdpTypeOK, SlotStates
  <2>2. ~EmptyPossible => Orderly(pending', got', poll', left')
    BY <1>4, <1>6, <1>9, <1>14, OrderlyStops DEF Deliverable
  <2> QED
    BY <1>11, <1>14, <2>1, <2>2 DEF UdpInv, EmptyPossible
<1>15. CASE /\ card # <<>> /\ card' = Tail(card)
            /\ m.port = poll /\ pending' = slots /\ GoOn /\ Give(poll, m)
  <2>1. got' = [got EXCEPT ![poll] = Append(@, m)]
    BY <1>15 DEF Give
  <2>2. /\ \A i \in Slots : slots[i] # NoPacket => slots[i].id # m.id
        /\ \A k \in DOMAIN got[poll] : got[poll][k].id # m.id /\ got[poll][k].id < m.id
    BY <1>2, <1>11, <1>12, <1>15
  <2>3. got' \in Histories /\ Apart(Past', slots, got')
    BY <1>2, <1>11, <1>15, <2>1, <2>2, ApartGiven
  <2>4. UdpTypeOK'
    BY <1>3, <1>7, <1>8, <1>11, <1>15, <2>3 DEF UdpInv, UdpTypeOK, SlotStates, Histories
  <2>5. ASSUME ~EmptyPossible PROVE Orderly(pending', got', poll', left')
    <3>1. ~Waits(slots, 1, poll) /\ ~Waits(slots, 2, poll) /\ Orderly(slots, got, poll, left)
      BY <1>4, <1>9, <2>5
    <3>2. \A i \in Slots : ~Deliverable(slots, i, poll)
      BY <3>1, TwoSlots DEF Deliverable
    <3>3. poll' = "none" \/ poll' = poll
      BY <1>15 DEF GoOn
    <3>4. Orderly(slots, got, poll', left')
      BY <1>2, <3>1, <3>2, <3>3, TwoSlots, Distinct DEF Orderly
    <3> QED
      BY <1>2, <1>11, <1>15, <2>1, <2>2, <3>2, <3>4, OrderlyGiven
  <2> QED
    BY <1>11, <1>15, <2>3, <2>4, <2>5 DEF UdpInv, EmptyPossible
<1> QED
  BY <1>5, <1>10, <1>13, <1>14, <1>15

LEMMA UdpStart == UdpInit => UdpInv
<1> SUFFICES ASSUME UdpInit PROVE UdpInv
  OBVIOUS
<1>1. /\ card = <<>> /\ pending = [i \in Slots |-> NoPacket] /\ poll = "none" /\ left = 0 /\ turn = "shell"
      /\ got = [p \in Pollers |-> <<>>] /\ arrived = 0
  BY DEF UdpInit
<1>2. card \in Seq(Packets) /\ Len(card) = 0 /\ DOMAIN card = {}
  BY <1>1
<1>3. pending \in SlotStates /\ \A i \in Slots : pending[i] = NoPacket
  BY <1>1 DEF SlotStates
<1>4. got \in Histories /\ \A p \in Pollers : DOMAIN got[p] = {}
  BY <1>1 DEF Histories
<1>5. UdpTypeOK
  <2>1. Len(card) <= RxRing
    BY <1>2, UdpAssumption
  <2>2. left \in Nat /\ (poll = "none") = (left = 0)
    BY <1>1
  <2> QED
    BY <1>1, <1>2, <1>3, <1>4, <2>1, <2>2 DEF UdpTypeOK, SlotStates, Histories
<1>6. CardOK
  BY <1>1, <1>2, UdpAssumption DEF CardOK, Increasing
<1>7. Apart(Past, pending, got)
  BY <1>3, <1>4, TwoSlots DEF Apart
<1>8. Orderly(pending, got, poll, left)
  BY <1>3, <1>4, TwoSlots DEF Orderly, Waits, Deliverable, Increasing
<1> QED
  BY <1>5, <1>6, <1>7, <1>8 DEF UdpInv

LEMMA UdpStep == UdpInv /\ [UdpNext]_udpVars => UdpInv'
<1> SUFFICES ASSUME UdpInv, [UdpNext]_udpVars PROVE UdpInv'
  OBVIOUS
<1>1. CASE UNCHANGED udpVars
  BY <1>1 DEF udpVars, UdpInv, UdpTypeOK, CardOK, Past, EmptyPossible
<1> QED
  BY <1>1, ArriveKeeps, TurnKeeps, TakePendingKeeps, ReadCardKeeps, DiscardKeeps DEF UdpNext

\* The receive path of net.c keeps its two slots, a poll never makes more
\* receives than its budget, and only the poller whose turn it is polls.
THEOREM UdpTyping == UdpSpec => []UdpTypeOK
<1>1. UdpInv => UdpTypeOK
  BY DEF UdpInv
<1> QED
  BY <1>1, UdpStart, UdpStep, PTL DEF UdpSpec

\* However many datagrams come, for whatever ports and of whatever sizes: a
\* poller is given those of its port, each once, and without empty ones in the
\* order in which the card received them.
THEOREM DeliveredInOrderHolds == UdpSpec => []DeliveredInOrder
<1>1. ASSUME UdpInv PROVE DeliveredInOrder
  <2> SUFFICES ASSUME NEW p \in Pollers
               PROVE  /\ \A m \in Range(got[p]) : m.port = p
                      /\ IsInjective(got[p])
                      /\ ~EmptyPossible => Increasing(got[p])
    BY DEF DeliveredInOrder
  <2>1. \A n \in DOMAIN got[p] :
          got[p][n].port = p /\ \A k \in DOMAIN got[p] : k # n => got[p][k].id # got[p][n].id
    BY <1>1 DEF UdpInv, Apart
  <2>2. \A m \in Range(got[p]) : m.port = p
    BY <2>1 DEF Range
  <2>3. IsInjective(got[p])
    BY <2>1 DEF IsInjective
  <2>4. ~EmptyPossible => Increasing(got[p])
    BY <1>1 DEF UdpInv, Orderly
  <2> QED
    BY <2>2, <2>3, <2>4
<1> QED
  BY <1>1, UdpStart, UdpStep, PTL DEF UdpSpec

\* ------------------------------- the shell ---------------------------------

\* A stack is a sequence, its items have something to do.
LEMMA StackSeq ==
  ASSUME NEW s, IsStack(s)
  PROVE  /\ s \in Seq({s[i] : i \in 1 .. Len(s)}) /\ Len(s) \in Nat /\ DOMAIN s = 1 .. Len(s)
         /\ \A i \in 1 .. Len(s) : s[i].do \in Doings
  BY DEF IsStack

On(a, s) == <<a>> \o s

\* As many commands are open as the items of a kind, one more below a new one.
LEMMA OpenedCons ==
  ASSUME NEW s, IsStack(s), NEW a, a.do \in Doings, NEW t, t = On(a, s)
  PROVE  /\ IsStack(t)
         /\ \A w : /\ Opened(s, w) \in Nat /\ Opened(t, w) \in Nat
                   /\ a.do = w => Opened(t, w) = Opened(s, w) + 1
                   /\ a.do # w => Opened(t, w) = Opened(s, w)
<1> USE DEF On
<1> DEFINE S == {s[i] : i \in 1 .. Len(s)} \cup {a}
           l == Len(s)
<1>1. /\ s \in Seq(S) /\ l \in Nat /\ DOMAIN s = 1 .. l /\ \A i \in 1 .. l : s[i].do \in Doings
  <2>1. s \in Seq({s[i] : i \in 1 .. Len(s)}) /\ {s[i] : i \in 1 .. Len(s)} \subseteq S
    BY StackSeq
  <2>2. s \in Seq(S)
    <3> HIDE DEF S
    <3> QED
      BY <2>1, SeqMonotonic
  <2> QED
    BY <2>2, StackSeq
<1>2. <<a>> \in Seq(S) /\ Len(<<a>>) = 1 /\ <<a>>[1] = a
  OBVIOUS
<1>3. /\ t \in Seq(S) /\ Len(t) = l + 1 /\ DOMAIN t = 1 .. l + 1
      /\ t[1] = a /\ \A i \in 1 .. l : t[i + 1] = s[i]
  <2>1. /\ t \in Seq(S) /\ Len(t) = l + 1
        /\ \A i \in 1 .. l + 1 : t[i] = IF i <= 1 THEN <<a>>[i] ELSE s[i - 1]
    <3>1. /\ <<a>> \o s \in Seq(S) /\ Len(<<a>> \o s) = Len(<<a>>) + Len(s)
          /\ \A i \in 1 .. Len(<<a>>) + Len(s) :
               (<<a>> \o s)[i] = IF i <= Len(<<a>>) THEN <<a>>[i] ELSE s[i - Len(<<a>>)]
      BY <1>1, <1>2, ConcatProperties
    <3> HIDE DEF S
    <3> QED
      BY <1>1, <1>2, <3>1
  <2>2. DOMAIN t = 1 .. Len(t)
    BY <2>1, LenProperties
  <2> QED
    BY <1>1, <1>2, <2>1, <2>2
<1>4. IsStack(t)
  <2>1. t = [i \in 1 .. Len(t) |-> t[i]]
    BY <1>3
  <2>2. ASSUME NEW i \in DOMAIN t PROVE t[i].do \in Doings
    <3>1. i = 1 \/ (i - 1 \in 1 .. l /\ t[i] = s[i - 1])
      <4>1. i = 1 \/ (i - 1 \in 1 .. l /\ i = (i - 1) + 1)
        BY <1>1, <1>3
      <4> QED
        BY <4>1, <1>3
    <3> QED
      BY <3>1, <1>1, <1>3
  <2> QED
    BY <1>1, <1>3, <2>1, <2>2 DEF IsStack
<1>5. ASSUME NEW w
      PROVE  /\ Opened(s, w) \in Nat /\ Opened(t, w) \in Nat
             /\ a.do = w => Opened(t, w) = Opened(s, w) + 1
             /\ a.do # w => Opened(t, w) = Opened(s, w)
  <2> DEFINE O == {i \in DOMAIN s : s[i].do = w}
             P == {j \in 2 .. l + 1 : t[j].do = w}
             f == [i \in O |-> i + 1]
  <2>1. IsFiniteSet(O) /\ Cardinality(O) \in Nat
    <3>1. IsFiniteSet(1 .. l)
      BY <1>1, FS_Interval
    <3>2. O \in SUBSET (1 .. l)
      BY <1>1
    <3> HIDE DEF O, l
    <3>3. IsFiniteSet(O)
      BY <3>1, <3>2, FS_Subset
    <3> QED
      BY <3>3, FS_CardinalityType
  <2>2. IsFiniteSet(P) /\ Cardinality(P) = Cardinality(O)
    <3>1. f \in [O -> P]
      BY <1>1, <1>3
    <3>2. \A i, j \in O : f[i] = f[j] => i = j
      BY <1>1
    <3>3. ASSUME NEW j \in P PROVE \E i \in O : f[i] = j
      <4>1. j - 1 \in 1 .. l /\ t[(j - 1) + 1] = s[j - 1] /\ (j - 1) + 1 = j
        BY <1>1, <1>3
      <4>2. j - 1 \in O
        BY <1>1, <4>1
      <4> QED
        BY <4>1, <4>2
    <3> HIDE DEF f, O, P
    <3>4. DOMAIN f = O
      BY <3>1
    <3>5. f \in Bijection(O, P)
      BY <3>1, <3>2, <3>3, <3>4 DEF Bijection, Injection, Surjection, IsInjective
    <3> QED
      BY <2>1, <3>5, FS_Bijection DEF ExistsBijection
  <2>3. 1 \notin P
    OBVIOUS
  <2>4. a.do = w => {j \in DOMAIN t : t[j].do = w} = P \cup {1}
    BY <1>1, <1>3
  <2>5. a.do # w => {j \in DOMAIN t : t[j].do = w} = P
    BY <1>1, <1>3
  <2>6. Cardinality(P \cup {1}) = Cardinality(P) + 1
    BY <2>2, <2>3, FS_AddElement
  <2> HIDE DEF P, O
  <2>7. CASE a.do = w
    <3>1. Opened(t, w) = Cardinality(P) + 1 /\ Opened(s, w) = Cardinality(P)
      BY <2>2, <2>4, <2>6, <2>7 DEF Opened, O
    <3> QED
      BY <2>1, <2>2, <2>7, <3>1
  <2>8. CASE a.do # w
    <3>1. Opened(t, w) = Cardinality(P) /\ Opened(s, w) = Cardinality(P)
      BY <2>2, <2>5, <2>8 DEF Opened, O
    <3> QED
      BY <2>1, <2>2, <2>8, <3>1
  <2> QED
    BY <2>7, <2>8
<1> QED
  BY <1>4, <1>5

\* The next thing to be done is taken off the stack.
LEMMA PopStack ==
  ASSUME NEW s, IsStack(s), s # <<>>
  PROVE  /\ IsStack(Tail(s)) /\ Head(s).do \in Doings
         /\ \A w : /\ Opened(s, w) \in Nat /\ Opened(Tail(s), w) \in Nat
                   /\ Head(s).do = w => Opened(s, w) = Opened(Tail(s), w) + 1
                   /\ Head(s).do # w => Opened(s, w) = Opened(Tail(s), w)
<1> DEFINE S == {s[i] : i \in 1 .. Len(s)}
           r == Tail(s)
           h == Head(s)
<1>1. s \in Seq(S) /\ \A i \in 1 .. Len(s) : s[i].do \in Doings
  BY StackSeq
<1> HIDE DEF S
<1>2. /\ r \in Seq(S) /\ Len(r) = Len(s) - 1 /\ h = s[1] /\ Len(s) \in Nat /\ Len(s) > 0
      /\ \A i \in 1 .. Len(r) : r[i] = s[i + 1]
      /\ s = On(h, r)
  <2>1. Len(s) \in Nat /\ Len(s) > 0
    BY <1>1, EmptySeq
  <2>2. /\ r \in Seq(S) /\ Len(r) = Len(s) - 1 /\ h = s[1]
        /\ \A i \in 1 .. Len(r) : r[i] = s[i + 1]
    BY <1>1, <2>1, HeadTailProperties
  <2>3. s = <<h>> \o r
    BY <1>1, ConcatSimplifications
  <2> QED
    BY <2>1, <2>2, <2>3 DEF On
<1>3. IsStack(r)
  <2>1. Len(r) \in Nat /\ DOMAIN r = 1 .. Len(r) /\ r = [i \in 1 .. Len(r) |-> r[i]]
    BY <1>2, LenProperties
  <2>2. \A i \in DOMAIN r : r[i].do \in Doings
    BY <1>1, <1>2, <2>1
  <2> QED
    BY <2>1, <2>2 DEF IsStack
<1>4. h.do \in Doings
  BY <1>1, <1>2
<1> HIDE DEF r, h
<1>5. ASSUME NEW w
      PROVE  /\ Opened(s, w) \in Nat /\ Opened(r, w) \in Nat
             /\ h.do = w => Opened(s, w) = Opened(r, w) + 1
             /\ h.do # w => Opened(s, w) = Opened(r, w)
  BY <1>2, <1>3, <1>4, OpenedCons
<1> QED
  BY <1>3, <1>4, <1>5 DEF r, h

\* Two items on a stack are one on top of the other.
LEMMA OnTwo ==
  ASSUME NEW s, IsStack(s), NEW a, NEW b
  PROVE  <<a, b>> \o s = On(a, On(b, s))
<1> DEFINE S == {s[i] : i \in 1 .. Len(s)} \cup {a, b}
<1>1. s \in Seq({s[i] : i \in 1 .. Len(s)}) /\ {s[i] : i \in 1 .. Len(s)} \subseteq S /\ a \in S /\ b \in S
  BY StackSeq
<1>2. s \in Seq(S) /\ a \in S /\ b \in S
  <2> HIDE DEF S
  <2> QED
    BY <1>1, SeqMonotonic
<1> HIDE DEF S
<1>3. <<a>> \in Seq(S) /\ <<b>> \in Seq(S)
  BY <1>2
<1>4. (<<a>> \o <<b>>) \o s = <<a>> \o (<<b>> \o s)
  BY <1>2, <1>3, ConcatAssociative
<1>5. <<a>> \o <<b>> = <<a, b>>
  <2> DEFINE p == <<a>> \o <<b>>
             q == <<a, b>>
  <2>1. q \in Seq(S) /\ Len(q) = 2 /\ q[1] = a /\ q[2] = b
    BY <1>2
  <2>2. p \in Seq(S) /\ Len(p) = 2 /\ p[1] = a /\ p[2] = b
    <3>1. Len(<<a>>) = 1 /\ Len(<<b>>) = 1 /\ <<a>>[1] = a /\ <<b>>[1] = b
      OBVIOUS
    <3>2. /\ p \in Seq(S) /\ Len(p) = Len(<<a>>) + Len(<<b>>)
          /\ \A i \in 1 .. Len(<<a>>) + Len(<<b>>) :
               p[i] = IF i <= Len(<<a>>) THEN <<a>>[i] ELSE <<b>>[i - Len(<<a>>)]
      BY <1>3, ConcatProperties
    <3> HIDE DEF p
    <3> QED
      BY <3>1, <3>2
  <2> HIDE DEF p, q
  <2>3. \A i \in 1 .. Len(p) : p[i] = q[i]
    BY <2>1, <2>2
  <2> QED
    BY <2>1, <2>2, <2>3, SeqEqual DEF p, q
<1> QED
  BY <1>4, <1>5 DEF On

\* One thing is put on the stack.
LEMMA PushOne ==
  ASSUME NEW s, IsStack(s), NEW v, v \in Doings, NEW x, NEW t, t = On(Do(v, x), s)
  PROVE  /\ IsStack(t)
         /\ \A w : /\ Opened(t, w) \in Nat
                   /\ w = v => Opened(t, w) = Opened(s, w) + 1
                   /\ w # v => Opened(t, w) = Opened(s, w)
<1> DEFINE a == Do(v, x)
<1>1. a.do = v
  BY DEF Do
<1>2. t = On(a, s)
  OBVIOUS
<1> HIDE DEF a
<1> QED
  BY <1>1, <1>2, OpenedCons

\* Two things are put on the stack, the first of them on top.
LEMMA PushTwo ==
  ASSUME NEW s, IsStack(s), NEW v, v \in Doings, NEW x, NEW u, u \in Doings, NEW y, v # u,
         NEW t, t = On(Do(v, x), On(Do(u, y), s))
  PROVE  /\ IsStack(t)
         /\ \A w : /\ Opened(t, w) \in Nat
                   /\ w \in {v, u} => Opened(t, w) = Opened(s, w) + 1
                   /\ w \notin {v, u} => Opened(t, w) = Opened(s, w)
<1> DEFINE m == On(Do(u, y), s)
<1>1. t = On(Do(v, x), m)
  OBVIOUS
<1>2. /\ IsStack(m)
      /\ \A w : /\ Opened(m, w) \in Nat
                /\ w = u => Opened(m, w) = Opened(s, w) + 1
                /\ w # u => Opened(m, w) = Opened(s, w)
  BY PushOne
<1> HIDE DEF m
<1>3. /\ IsStack(t)
      /\ \A w : /\ Opened(t, w) \in Nat
                /\ w = v => Opened(t, w) = Opened(m, w) + 1
                /\ w # v => Opened(t, w) = Opened(m, w)
  BY <1>1, <1>2, PushOne
<1> QED
  BY <1>2, <1>3

\* What a command leaves to be done, and what it counts.
Counts(m, d) == magic' = m /\ depth' = d

Returns == todo' = Rest /\ Counts(magic, depth)

BeginsMagic == /\ ~(magic > 0) /\ Counts(magic + 1, depth)
               /\ \E c, d : todo' = <<Do("segment", c), Do("magicEnd", d)>> \o Rest

BeginsModule == /\ ~(depth > DepthMax) /\ Counts(magic, depth + 1)
                /\ \E l, i : todo' = <<Do("line", l), Do("kmoEnd", i)>> \o Rest

LeavesDos == /\ Counts(magic, depth)
             /\ \E c, was : todo' = <<Do("segment", c), Do("dosBack", was)>> \o Rest

RunsFile == Counts(magic, depth) /\ \E l : todo' = <<Do("line", l)>> \o Rest

\* A command does one of these five things, and leaves the flags of a pipe alone.
LEMMA SegmentEffects ==
  ASSUME NEW cmd, Segment(cmd)
  PROVE  /\ redirect' = redirect /\ hasInput' = hasInput
         /\ Returns \/ BeginsMagic \/ BeginsModule \/ LeavesDos \/ RunsFile
<1> DEFINE Goal == /\ redirect' = redirect /\ hasInput' = hasInput
                   /\ Returns \/ BeginsMagic \/ BeginsModule \/ LeavesDos \/ RunsFile
<1>0. todo' = Rest /\ UNCHANGED flags => Goal
  BY DEF flags, Returns, Counts
<1>1. ASSUME NEW c, InCfg(c) PROVE Goal
  BY <1>0, <1>1 DEF InCfg, Return
<1>2. ASSUME NEW c, DosDispatch(c) PROVE Goal
  <2>1. CASE c.op = "lsh"
    BY <1>2, <2>1 DEF DosDispatch, Push, LeavesDos, Counts, flags
  <2>2. CASE c.op # "lsh"
    BY <1>0, <1>2, <2>2 DEF DosDispatch, Return
  <2> QED
    BY <2>1, <2>2
<1>3. ASSUME NEW c, Native(c) PROVE Goal
  <2>1. CASE c.op = "magic"
    <3>1. RunMagic(c)
      BY <1>3, <2>1 DEF Native
    <3> QED
      BY <1>0, <3>1 DEF RunMagic, Push, BeginsMagic, Counts
  <2>2. CASE c.op = "dosRun"
    <3>1. DosDispatch(c.inner)
      BY <1>3, <2>2 DEF Native
    <3> QED
      BY <1>2, <3>1
  <2>3. CASE c.op = "rollback"
    BY <1>0, <1>3, <2>3 DEF Native, Return
  <2>4. CASE c.op \in {"kmoCreate", "kmoSet", "kmoDelete", "kmoLoad", "kmoReload"}
    <3>1. KmoCommand(c)
      BY <1>3, <2>4 DEF Native
    <3> QED
      BY <1>0, <3>1 DEF KmoCommand, Return
  <2>5. CASE c.op = "kmoRun"
    <3>1. KmoRun(c.file)
      BY <1>3, <2>5 DEF Native
    <3> QED
      BY <1>0, <3>1 DEF KmoRun, Push, RunsFile, Counts, flags
  <2>6. CASE c.op = "bound"
    <3>1. RunBound(c.name)
      BY <1>3, <2>6 DEF Native
    <3> QED
      BY <1>0, <3>1 DEF RunBound, Push, BeginsModule, Counts
  <2>7. CASE c.op \notin {"magic", "dosRun", "rollback", "kmoCreate", "kmoSet", "kmoDelete",
                          "kmoLoad", "kmoReload", "kmoRun", "bound"}
    <3>1. Switch(c)
      BY <1>3, <2>7 DEF Native
    <3> QED
      BY <1>0, <3>1 DEF Switch, Return
  <2> QED
    BY <2>1, <2>2, <2>3, <2>4, <2>5, <2>6, <2>7
<1> QED
  <2> HIDE DEF Goal
  <2>1. Goal
    BY <1>1, <1>2, <1>3 DEF Segment
  <2> QED
    BY <2>1 DEF Goal

\* The invariant says of the stack only how many of each kind are on it.
LEMMA CountsSuffice ==
  ASSUME IsStack(todo'),
         depth' = Opened(todo', "kmoEnd"), depth' <= DepthMax + 1,
         magic' = Opened(todo', "magicEnd"), magic' <= 1,
         redirect' => Opened(todo', "second") > 0,
         hasInput' => Opened(todo', "pipeEnd") > 0
  PROVE  ShellInv'
BY DEF ShellInv, NestingIsCounted, PipesAreOpen

\* The invariant holds of a step from a state in which something is to be done.
LEMMA StepKeeps ==
  ASSUME ShellInv, Step
  PROVE  ShellInv'
<1> DEFINE d == Head(todo).do
           c == Head(todo).cmd
           r == Tail(todo)
           n(w) == Opened(r, w)
<1>0. {"line", "segment", "second", "pipeEnd", "magicEnd", "dosBack", "kmoEnd"} \subseteq Doings
  BY DEF Doings
<1>1. IsStack(todo) /\ todo # <<>>
  BY DEF ShellInv, Step
<1>2. /\ IsStack(r) /\ d \in Doings
      /\ \A w : /\ n(w) \in Nat
                /\ d = w => Opened(todo, w) = n(w) + 1
                /\ d # w => Opened(todo, w) = n(w)
  BY <1>1, PopStack
<1>3. /\ DepthMax \in Nat
      /\ depth = Opened(todo, "kmoEnd") /\ depth <= DepthMax + 1
      /\ magic = Opened(todo, "magicEnd") /\ magic <= 1
  BY ShellAssumption DEF ShellInv, NestingIsCounted
<1>4. /\ redirect => Opened(todo, "second") > 0
      /\ hasInput => Opened(todo, "pipeEnd") > 0
  BY DEF ShellInv, PipesAreOpen
<1>5. Rest = r
  BY DEF Rest
<1>6. /\ d = "line" => Exec(c)
      /\ d = "impl" => ExecLine(c)
      /\ d = "segment" => Segment(c)
      /\ d = "second" => Second(c)
      /\ d = "pipeEnd" => PipeEnd
      /\ d = "magicEnd" => magic' = magic - 1 /\ todo' = Rest /\ UNCHANGED <<redirect, hasInput, depth>>
      /\ d = "dosBack" => DosBack(c) /\ UNCHANGED flags
      /\ d = "kmoEnd" => KmoEnd
  BY DEF Step
<1> HIDE DEF d, c, r
<1>7. ASSUME NEW l, ExecLine(l), d \in {"line", "impl"} PROVE ShellInv'
  <2>1. /\ magic = n("magicEnd") /\ depth = n("kmoEnd")
    BY <1>2, <1>3, <1>7
  <2>2. UNCHANGED <<magic, depth>> /\ hasInput' = FALSE /\ redirect' = (Len(l.cmds) = 2)
    BY <1>7 DEF ExecLine
  <2>3. CASE Len(l.cmds) = 1
    <3>1. todo' = <<Do("segment", l.cmds[1])>> \o r
      BY <1>5, <1>7, <2>3 DEF ExecLine, Push
    <3>2. todo' = On(Do("segment", l.cmds[1]), r)
      BY <3>1 DEF On
    <3>3. /\ IsStack(todo')
          /\ \A w : w # "segment" => Opened(todo', w) = n(w)
      BY <1>0, <1>2, <3>2, PushOne
    <3>4. ~redirect' /\ ~hasInput'
      <4>1. Len(l.cmds) # 2
        BY <2>3
      <4> QED
        BY <2>2, <4>1
    <3>5. magic' = Opened(todo', "magicEnd") /\ depth' = Opened(todo', "kmoEnd")
      BY <2>1, <2>2, <3>3
    <3>6. magic' <= 1 /\ depth' <= DepthMax + 1
      BY <1>3, <2>2
    <3> QED
      BY <3>3, <3>4, <3>5, <3>6, CountsSuffice
  <2>4. CASE Len(l.cmds) # 1
    <3>1. todo' = <<Do("segment", l.cmds[1]), Do("second", l.cmds[2])>> \o r
      BY <1>5, <1>7, <2>4 DEF ExecLine, Push
    <3>2. todo' = On(Do("segment", l.cmds[1]), On(Do("second", l.cmds[2]), r))
      BY <1>2, <3>1, OnTwo
    <3>3. /\ IsStack(todo') /\ Opened(todo', "second") = n("second") + 1
          /\ \A w : w \notin {"segment", "second"} => Opened(todo', w) = n(w)
      BY <1>0, <1>2, <3>2, PushTwo
    <3>4. Opened(todo', "second") > 0 /\ ~hasInput'
      BY <1>2, <2>2, <3>3
    <3>5. magic' = Opened(todo', "magicEnd") /\ depth' = Opened(todo', "kmoEnd")
      BY <2>1, <2>2, <3>3
    <3>6. magic' <= 1 /\ depth' <= DepthMax + 1
      BY <1>3, <2>2
    <3> QED
      BY <3>3, <3>4, <3>5, <3>6, CountsSuffice
  <2> QED
    BY <2>3, <2>4
\* What is taken off the stack and leaves the counters as they are.
<1>8. ASSUME todo' = r, UNCHANGED <<redirect, magic, depth>>,
             hasInput' = FALSE \/ (UNCHANGED hasInput /\ d # "pipeEnd"),
             d \in {"line", "segment", "pipeEnd", "dosBack"}
      PROVE  ShellInv'
  <2>1. /\ depth' = Opened(todo', "kmoEnd") /\ depth' <= DepthMax + 1
        /\ magic' = Opened(todo', "magicEnd") /\ magic' <= 1
    BY <1>2, <1>3, <1>8
  <2>2. redirect' => Opened(todo', "second") > 0
    <3>1. Opened(todo', "second") = Opened(todo, "second")
      BY <1>2, <1>8
    <3> QED
      BY <1>4, <1>8, <3>1
  <2>3. hasInput' => Opened(todo', "pipeEnd") > 0
    <3>1. CASE hasInput' = FALSE
      BY <3>1
    <3>2. CASE UNCHANGED hasInput /\ d # "pipeEnd"
      <4>1. Opened(todo', "pipeEnd") = Opened(todo, "pipeEnd")
        BY <1>2, <1>8, <3>2
      <4> QED
        BY <1>4, <3>2, <4>1
    <3> QED
      BY <1>8, <3>1, <3>2
  <2> QED
    BY <1>2, <1>8, <2>1, <2>2, <2>3, CountsSuffice
<1>9. CASE d = "line"
  <2>1. CASE c.back
    <3>1. todo' = r /\ UNCHANGED flags
      BY <1>5, <1>6, <1>9, <2>1 DEF Exec
    <3> QED
      BY <1>8, <1>9, <3>1 DEF flags
  <2>2. CASE ~c.back
    BY <1>6, <1>7, <1>9, <2>2 DEF Exec
  <2> QED
    BY <2>1, <2>2
<1>10. CASE d = "impl"
  BY <1>6, <1>7, <1>10
<1>11. CASE d = "segment"
  <2>1. /\ redirect' = redirect /\ hasInput' = hasInput
        /\ Returns \/ BeginsMagic \/ BeginsModule \/ LeavesDos \/ RunsFile
    BY <1>6, <1>11, SegmentEffects
  <2>2. /\ depth = n("kmoEnd") /\ magic = n("magicEnd")
        /\ redirect' => n("second") > 0
        /\ hasInput' => n("pipeEnd") > 0
    <3>1. /\ Opened(todo, "second") = n("second") /\ Opened(todo, "pipeEnd") = n("pipeEnd")
          /\ Opened(todo, "kmoEnd") = n("kmoEnd") /\ Opened(todo, "magicEnd") = n("magicEnd")
      BY <1>2, <1>11
    <3> QED
      BY <1>3, <1>4, <2>1, <3>1
  <2>3. CASE Returns
    BY <1>5, <1>8, <1>11, <2>1, <2>3 DEF Returns, Counts
  <2>4. ASSUME NEW v, NEW x, NEW u, NEW y, v \in {"segment", "line"},
               u \in {"magicEnd", "kmoEnd", "dosBack"},
               todo' = <<Do(v, x), Do(u, y)>> \o Rest
        PROVE  /\ IsStack(todo') /\ Opened(todo', u) = n(u) + 1
               /\ \A w \in {"magicEnd", "kmoEnd", "second", "pipeEnd"} :
                    w # u => Opened(todo', w) = n(w)
    <3>1. todo' = On(Do(v, x), On(Do(u, y), r))
      BY <1>2, <1>5, <2>4, OnTwo
    <3> QED
      <4>1. v \in Doings /\ u \in Doings /\ v # u
        BY <2>4 DEF Doings
      <4>2. /\ IsStack(todo')
            /\ \A w : /\ w \in {v, u} => Opened(todo', w) = n(w) + 1
                      /\ w \notin {v, u} => Opened(todo', w) = n(w)
        BY <1>2, <3>1, <4>1, PushTwo
      <4> QED
        BY <2>4, <4>2
  <2>5. CASE BeginsMagic
    <3>1. /\ IsStack(todo') /\ Opened(todo', "magicEnd") = n("magicEnd") + 1
          /\ Opened(todo', "kmoEnd") = n("kmoEnd")
          /\ Opened(todo', "second") = n("second") /\ Opened(todo', "pipeEnd") = n("pipeEnd")
      <4>1. PICK x, y : todo' = <<Do("segment", x), Do("magicEnd", y)>> \o Rest
        BY <2>5 DEF BeginsMagic
      <4> QED
        BY <2>4, <4>1, SMTT(30)
    <3>2. magic' = magic + 1 /\ depth' = depth /\ ~(magic > 0)
      BY <2>5 DEF BeginsMagic, Counts
    <3>3. magic' = Opened(todo', "magicEnd") /\ magic' <= 1
      BY <1>2, <2>2, <3>1, <3>2
    <3>4. depth' = Opened(todo', "kmoEnd") /\ depth' <= DepthMax + 1
      BY <1>3, <2>2, <3>1, <3>2
    <3> QED
      BY <2>2, <3>1, <3>3, <3>4, CountsSuffice
  <2>6. CASE BeginsModule
    <3>1. /\ IsStack(todo') /\ Opened(todo', "kmoEnd") = n("kmoEnd") + 1
          /\ Opened(todo', "magicEnd") = n("magicEnd")
          /\ Opened(todo', "second") = n("second") /\ Opened(todo', "pipeEnd") = n("pipeEnd")
      <4>1. PICK x, y : todo' = <<Do("line", x), Do("kmoEnd", y)>> \o Rest
        BY <2>6 DEF BeginsModule
      <4> QED
        BY <2>4, <4>1, SMTT(30)
    <3>2. magic' = magic /\ depth' = depth + 1 /\ ~(depth > DepthMax)
      BY <2>6 DEF BeginsModule, Counts
    <3>3. magic' = Opened(todo', "magicEnd") /\ magic' <= 1
      BY <1>3, <2>2, <3>1, <3>2
    <3>4. depth' = Opened(todo', "kmoEnd") /\ depth' <= DepthMax + 1
      BY <1>2, <1>3, <2>2, <3>1, <3>2
    <3> QED
      BY <2>2, <3>1, <3>3, <3>4, CountsSuffice
  <2>7. CASE LeavesDos
    <3>1. /\ IsStack(todo') /\ Opened(todo', "kmoEnd") = n("kmoEnd")
          /\ Opened(todo', "magicEnd") = n("magicEnd")
          /\ Opened(todo', "second") = n("second") /\ Opened(todo', "pipeEnd") = n("pipeEnd")
      BY <2>4, <2>7, SMTT(30) DEF LeavesDos
    <3>2. magic' = magic /\ depth' = depth
      BY <2>7 DEF LeavesDos, Counts
    <3> QED
      BY <1>3, <2>2, <3>1, <3>2, CountsSuffice
  <2>8. CASE RunsFile
    <3>1. PICK l : todo' = <<Do("line", l)>> \o r
      BY <1>5, <2>8 DEF RunsFile
    <3>2. todo' = On(Do("line", l), r)
      BY <3>1 DEF On
    <3>3. IsStack(todo') /\ \A w : w # "line" => Opened(todo', w) = n(w)
      BY <1>0, <1>2, <3>2, PushOne
    <3>4. magic' = magic /\ depth' = depth
      BY <2>8 DEF RunsFile, Counts
    <3> QED
      BY <1>3, <2>2, <3>3, <3>4, CountsSuffice
  <2> QED
    BY <2>1, <2>3, <2>5, <2>6, <2>7, <2>8
<1>12. CASE d = "second"
  <2>1. /\ ~redirect' /\ UNCHANGED <<magic, depth>>
        /\ todo' = <<Do("segment", c), Do("pipeEnd", c)>> \o r
    BY <1>5, <1>6, <1>12 DEF Second, Push
  <2>2. todo' = On(Do("segment", c), On(Do("pipeEnd", c), r))
    BY <1>2, <2>1, OnTwo
  <2>3. /\ IsStack(todo') /\ Opened(todo', "pipeEnd") = n("pipeEnd") + 1
        /\ Opened(todo', "kmoEnd") = n("kmoEnd") /\ Opened(todo', "magicEnd") = n("magicEnd")
    BY <1>0, <1>2, <2>2, PushTwo
  <2>4. /\ depth' = Opened(todo', "kmoEnd") /\ depth' <= DepthMax + 1
        /\ magic' = Opened(todo', "magicEnd") /\ magic' <= 1
        /\ Opened(todo', "pipeEnd") > 0
    BY <1>2, <1>3, <1>12, <2>1, <2>3
  <2> QED
    BY <2>1, <2>3, <2>4, CountsSuffice
<1>13. CASE d = "pipeEnd"
  BY <1>5, <1>6, <1>8, <1>13 DEF PipeEnd
<1>14. CASE d = "magicEnd"
  <2>1. /\ magic' = magic - 1 /\ todo' = r /\ UNCHANGED <<redirect, hasInput, depth>>
    BY <1>5, <1>6, <1>14
  <2>2. /\ Opened(todo, "second") = n("second") /\ Opened(todo, "pipeEnd") = n("pipeEnd")
        /\ Opened(todo, "kmoEnd") = n("kmoEnd") /\ Opened(todo, "magicEnd") = n("magicEnd") + 1
    BY <1>2, <1>14
  <2>3. /\ depth' = n("kmoEnd") /\ depth' <= DepthMax + 1
        /\ magic' = n("magicEnd") /\ magic' <= 1
    BY <1>2, <1>3, <2>1, <2>2
  <2> QED
    BY <1>2, <1>4, <2>1, <2>2, <2>3, CountsSuffice
<1>15. CASE d = "dosBack"
  BY <1>5, <1>6, <1>8, <1>15 DEF DosBack, Return, flags
<1>16. CASE d = "kmoEnd"
  <2>1. /\ depth' = depth - 1 /\ todo' = r /\ UNCHANGED <<redirect, hasInput, magic>>
    BY <1>5, <1>6, <1>16 DEF KmoEnd
  <2>2. /\ Opened(todo, "second") = n("second") /\ Opened(todo, "pipeEnd") = n("pipeEnd")
        /\ Opened(todo, "magicEnd") = n("magicEnd") /\ Opened(todo, "kmoEnd") = n("kmoEnd") + 1
    BY <1>2, <1>16
  <2>3. /\ depth' = n("kmoEnd") /\ depth' <= DepthMax + 1
        /\ magic' = n("magicEnd") /\ magic' <= 1
    BY <1>2, <1>3, <2>1, <2>2
  <2> QED
    BY <1>2, <1>4, <2>1, <2>2, <2>3, CountsSuffice
<1> QED
  BY <1>2, <1>9, <1>10, <1>11, <1>12, <1>13, <1>14, <1>15, <1>16 DEF Doings

\* Nothing is open on the empty stack.
LEMMA NothingOpen ==
  IsStack(<<>>) /\ \A w : Opened(<<>>, w) = 0
<1>1. IsStack(<<>>)
  BY DEF IsStack
<1>2. ASSUME NEW w PROVE Opened(<<>>, w) = 0
  <2>1. {i \in DOMAIN <<>> : <<>>[i].do = w} = {}
    OBVIOUS
  <2> QED
    BY <2>1, FS_EmptySet DEF Opened
<1> QED
  BY <1>1, <1>2

\* The shell starts with nothing to be done.
LEMMA ShellInitInv == ShellInit => ShellInv
<1> SUFFICES ASSUME ShellInit PROVE ShellInv
  OBVIOUS
<1>1. todo = <<>> /\ redirect = FALSE /\ hasInput = FALSE /\ magic = 0 /\ depth = 0
  BY DEF ShellInit
<1>2. IsStack(todo) /\ Opened(todo, "kmoEnd") = 0 /\ Opened(todo, "magicEnd") = 0
  BY <1>1, NothingOpen
<1> QED
  BY <1>1, <1>2, ShellAssumption DEF ShellInv, NestingIsCounted, PipesAreOpen

\* An idle shell has no flag set and nothing counted.
LEMMA IdleShell ==
  ASSUME ShellInv, todo = <<>>
  PROVE  ~redirect /\ ~hasInput /\ magic = 0 /\ depth = 0
<1>1. \A w : Opened(todo, w) = 0
  BY NothingOpen
<1>2. /\ depth = Opened(todo, "kmoEnd") /\ magic = Opened(todo, "magicEnd")
      /\ redirect => Opened(todo, "second") > 0
      /\ hasInput => Opened(todo, "pipeEnd") > 0
  BY DEF ShellInv, NestingIsCounted, PipesAreOpen
<1>3. ~(Opened(todo, "second") > 0) /\ ~(Opened(todo, "pipeEnd") > 0)
  BY <1>1
<1> QED
  BY <1>1, <1>2, <1>3

\* Every step of the shell keeps the invariant.
LEMMA ShellNextInv == ShellInv /\ [ShellNext]_shellVars => ShellInv'
<1> SUFFICES ASSUME ShellInv, [ShellNext]_shellVars PROVE ShellInv'
  OBVIOUS
<1>0. DepthMax \in Nat
  BY ShellAssumption
<1>1. ASSUME NEW w \in Doings, NEW c, w \in {"line", "impl"}, todo = <<>>,
             todo' = <<Do(w, c)>>, UNCHANGED flags
      PROVE  ShellInv'
  <2>1. ~redirect /\ ~hasInput /\ magic = 0 /\ depth = 0
    BY <1>1, IdleShell
  <2>2. <<Do(w, c)>> = On(Do(w, c), <<>>)
    <3>1. <<Do(w, c)>> \in Seq({Do(w, c)})
      OBVIOUS
    <3> QED
      BY <3>1, ConcatEmptySeq DEF On
  <2>3. /\ IsStack(todo')
        /\ \A k : k # w => Opened(todo', k) = Opened(<<>>, k)
    BY <1>1, <2>2, NothingOpen, PushOne
  <2>4. Opened(todo', "kmoEnd") = 0 /\ Opened(todo', "magicEnd") = 0
    BY <1>1, <2>3, NothingOpen
  <2>5. ~redirect' /\ ~hasInput' /\ magic' = 0 /\ depth' = 0
    BY <1>1, <2>1 DEF flags
  <2> QED
    BY <1>0, <2>3, <2>4, <2>5, CountsSuffice
<1>2. CASE TypeLine
  BY <1>1, <1>2 DEF TypeLine, Doings
<1>3. CASE PollBackground
  BY <1>1, <1>3 DEF PollBackground, Doings
<1>4. CASE Step
  BY <1>4, StepKeeps
<1>5. CASE UNCHANGED shellVars
  BY <1>5 DEF shellVars, ShellInv, NestingIsCounted, PipesAreOpen
<1> QED
  BY <1>2, <1>3, <1>4, <1>5 DEF ShellNext

\* Between two lines the shell is in no pipe, redirection or magic command; the
\* depth kmo_run_command counts is the number of module commands on the kernel's
\* stack, and those nest no deeper than its guard allows: whatever lines are typed
\* or put aside, whatever the .kmo files hold.
THEOREM LinesEndCleanHolds == ShellSpec => []LinesEndClean
<1>1. ShellInv => LinesEndClean
  BY IdleShell DEF LinesEndClean, IdleIsClean, ShellInv
<1> QED
  BY ShellInitInv, ShellNextInv, <1>1, PTL DEF ShellSpec

(***************************************************************************)
(* UserMode: rights, descriptors, keys and messages of the user programs,  *)
(* for any containers, programs, files and limits.                         *)
(***************************************************************************)

\* An index runs over the end of a ring once at most.
Round(x, d) == IF x < d THEN x ELSE x - d

LEMMA ModOnce ==
  ASSUME NEW d \in Nat \ {0}, NEW x \in 0 .. 2 * d - 1
  PROVE  x % d = Round(x, d)
<1>1. CASE x < d
  BY <1>1, SMT DEF Round
<1>2. CASE ~(x < d)
  BY <1>2, SMT DEF Round
<1> QED
  BY <1>1, <1>2

\* A ring holds a sequence of as many elements as wait in it.
LEMMA RingIndex ==
  ASSUME NEW size \in Nat \ {0}, NEW head \in 0 .. size - 1, NEW count \in 0 .. size, NEW k \in 1 .. count
  PROVE  head + k - 1 \in 0 .. 2 * size - 1 /\ (head + k - 1) % size \in 0 .. size - 1
<1>1. head + k - 1 \in 0 .. 2 * size - 1
  OBVIOUS
<1>2. (head + k - 1) % size \in 0 .. size - 1
  BY <1>1, ModOnce DEF Round
<1> QED
  BY <1>1, <1>2

LEMMA RingPlace ==
  ASSUME NEW size \in Nat \ {0}, NEW head \in 0 .. size - 1, NEW count \in 0 .. size
  PROVE  (head + count) % size \in 0 .. size - 1
<1>1. head + count \in 0 .. 2 * size - 1
  OBVIOUS
<1> QED
  BY <1>1, ModOnce DEF Round

LEMMA RingAt ==
  ASSUME NEW size \in Nat \ {0}, NEW q, NEW head \in 0 .. size - 1, NEW count \in 0 .. size, NEW k \in 1 .. count
  PROVE  Ring(q, head, count, size)[k] = q[1 + ((head + k - 1) % size)]
  BY DEF Ring

LEMMA RingType ==
  ASSUME NEW S, NEW size \in Nat \ {0}, NEW q, \A i \in 1 .. size : q[i] \in S,
         NEW head \in 0 .. size - 1, NEW count \in 0 .. size
  PROVE  Ring(q, head, count, size) \in [1 .. count -> S]
<1> DEFINE at(k) == (head + k - 1) % size
<1>1. \A k \in 1 .. count : at(k) \in 0 .. size - 1
  BY RingIndex, Zenon
<1>2. Ring(q, head, count, size) = [k \in 1 .. count |-> q[1 + at(k)]]
  BY DEF Ring
<1> HIDE DEF at
<1>3. \A k \in 1 .. count : 1 + at(k) \in 1 .. size
  BY <1>1
<1> QED
  BY <1>2, <1>3

SameBut(p, q, place, size) == \A i \in 1 .. size : i # place => p[i] = q[i]
Longer(p, q, head, count, size) ==
  Ring(p, head, count + 1, size) = Append(Ring(q, head, count, size), p[((head + count) % size) + 1])

\* What is put at the tail comes last,
LEMMA RingPuts ==
  ASSUME NEW size \in Nat \ {0}, NEW q, NEW p, NEW head \in 0 .. size - 1, NEW count \in 0 .. size - 1,
         SameBut(p, q, ((head + count) % size) + 1, size)
  PROVE  Longer(p, q, head, count, size)
<1>0. PICK tail, x : tail = (head + count) % size /\ x = p[tail + 1]
  OBVIOUS
<1> DEFINE S == {q[i] : i \in 1 .. size} \cup {x}
           a == Ring(p, head, count + 1, size)
           b == Ring(q, head, count, size)
<1>1. tail = Round(head + count, size)
  <2>1. head + count \in 0 .. 2 * size - 1
    OBVIOUS
  <2> QED
    BY <1>0, <2>1, ModOnce, Zenon
<1>2. tail \in 0 .. size - 1
  BY <1>1 DEF Round
<1>4a. x \in S /\ (\A i \in 1 .. size : q[i] \in S) /\ \A i \in 1 .. size : p[i] \in S
  BY <1>0, <1>2 DEF SameBut
<1> HIDE DEF S
<1>5. count + 1 \in 0 .. size /\ count \in 0 .. size /\ count + 1 \in Nat
  OBVIOUS
<1>6. a \in [1 .. count + 1 -> S]
  BY <1>4a, <1>5, RingType, Zenon
<1>6a. \A k \in 1 .. count + 1 : a[k] = p[1 + ((head + k - 1) % size)]
  BY <1>5, RingAt, Zenon
<1>7. b \in [1 .. count -> S]
  BY <1>4a, <1>5, RingType, Zenon
<1>7a. \A k \in 1 .. count : b[k] = q[1 + ((head + k - 1) % size)]
  BY <1>5, RingAt, Zenon
<1> HIDE DEF a, b
<1>8. ASSUME NEW k \in 1 .. count PROVE a[k] = b[k]
  <2>0. head + k - 1 \in 0 .. 2 * size - 1 /\ (head + k - 1) % size \in 0 .. size - 1
    BY <1>5, RingIndex, Zenon
  <2>1. (head + k - 1) % size = Round(head + k - 1, size)
    BY <2>0, ModOnce, Zenon
  <2>2. Round(head + k - 1, size) # Round(head + count, size)
    BY DEF Round
  <2>2a. (head + k - 1) % size # tail
    BY <1>1, <2>1, <2>2, Zenon
  <2> DEFINE i == 1 + ((head + k - 1) % size)
  <2>3. i \in 1 .. size /\ i # tail + 1
    BY <1>2, <2>0, <2>2a
  <2>4. k \in 1 .. count + 1
    OBVIOUS
  <2>5. a[k] = p[i] /\ b[k] = q[i]
    BY <1>6a, <1>7a, <2>4
  <2> QED
    BY <1>0, <2>3, <2>5 DEF SameBut
<1>9. a[count + 1] = x
  <2>1. a[count + 1] = p[1 + ((head + count) % size)]
    <3>1. count + 1 \in 1 .. count + 1 /\ head + (count + 1) - 1 = head + count
      OBVIOUS
    <3> QED
      BY <1>6a, <3>1
  <2> QED
    BY <1>0, <1>2, <2>1
<1>10. Append(b, x) \in Seq(S) /\ Len(Append(b, x)) = count + 1
       /\ (\A k \in 1 .. count : Append(b, x)[k] = b[k]) /\ Append(b, x)[count + 1] = x
  <2>1. b \in Seq(S) /\ Len(b) = count
    BY <1>5, <1>7
  <2> QED
    BY <1>4a, <1>5, <2>1
<1>11. \A k \in 1 .. count + 1 : k \in 1 .. count \/ k = count + 1
  OBVIOUS
<1>12. \A k \in 1 .. count + 1 : a[k] = Append(b, x)[k]
  BY <1>8, <1>9, <1>10, <1>11
<1>13. a = Append(b, x)
  BY <1>5, <1>6, <1>10, <1>12
<1> QED
  BY <1>0, <1>13 DEF a, b, Longer

\* and what is taken from the head is what came first.
LEMMA RingTakes ==
  ASSUME NEW size \in Nat \ {0}, NEW q, NEW head \in 0 .. size - 1, NEW count \in 1 .. size
  PROVE  /\ (head + 1) % size \in 0 .. size - 1
         /\ (((head + 1) % size) + (count - 1)) % size = (head + count) % size
         /\ Ring(q, head, count, size) = <<q[head + 1]>> \o Ring(q, (head + 1) % size, count - 1, size)
<1> DEFINE S == {q[i] : i \in 1 .. size}
           next == (head + 1) % size
           a == Ring(q, head, count, size)
           b == Ring(q, next, count - 1, size)
<1>1. next = Round(head + 1, size)
  <2>1. head + 1 \in 0 .. 2 * size - 1
    OBVIOUS
  <2> QED
    BY <2>1, ModOnce, Zenon
<1>1a. \A i \in 1 .. size : q[i] \in S
  OBVIOUS
<1> HIDE DEF next, S
<1>2. next \in 0 .. size - 1 /\ count - 1 \in 0 .. size /\ head + 1 \in 1 .. size
  BY <1>1 DEF Round
<1>3. (next + (count - 1)) % size = (head + count) % size
  <2>1. next + (count - 1) \in 0 .. 2 * size - 1 /\ head + count \in 0 .. 2 * size - 1
    BY <1>1 DEF Round
  <2>2. /\ (next + (count - 1)) % size = Round(next + (count - 1), size)
        /\ (head + count) % size = Round(head + count, size)
    BY <2>1, ModOnce, Zenon
  <2>3. Round(next + (count - 1), size) = Round(head + count, size)
    BY <1>1 DEF Round
  <2> QED
    BY <2>2, <2>3, Zenon
<1>4. count \in 0 .. size
  OBVIOUS
<1>4a. a \in [1 .. count -> S]
  BY <1>1a, <1>4, RingType, Zenon
<1>4b. \A k \in 1 .. count : a[k] = q[1 + ((head + k - 1) % size)]
  BY <1>4, RingAt, Zenon
<1>5. b \in [1 .. count - 1 -> S]
  BY <1>1a, <1>2, RingType, Zenon
<1>5a. \A k \in 1 .. count - 1 : b[k] = q[1 + ((next + k - 1) % size)]
  BY <1>2, RingAt, Zenon
<1> HIDE DEF a, b
<1>6. a[1] = q[head + 1]
  <2>1. 1 \in 1 .. count /\ head + 1 - 1 = head /\ head \in 0 .. 2 * size - 1 /\ head < size
    OBVIOUS
  <2>2. head % size = head
    BY <2>1, ModOnce DEF Round
  <2>3. a[1] = q[1 + (head % size)]
    BY <1>4b, <2>1
  <2> QED
    BY <2>2, <2>3
<1>7. ASSUME NEW k \in 1 .. count - 1 PROVE a[k + 1] = b[k]
  <2>1. k + 1 \in 1 .. count /\ head + (k + 1) - 1 = head + k
    OBVIOUS
  <2>2. a[k + 1] = q[1 + ((head + k) % size)] /\ head + k \in 0 .. 2 * size - 1
    BY <1>4b, <2>1
  <2>3. b[k] = q[1 + ((next + k - 1) % size)] /\ next + k - 1 \in 0 .. 2 * size - 1
    BY <1>2, <1>5a, RingIndex, Zenon
  <2>4. (head + k) % size = Round(head + k, size) /\ (next + k - 1) % size = Round(next + k - 1, size)
    BY <2>2, <2>3, ModOnce, Zenon
  <2>5. Round(next + k - 1, size) = Round(head + k, size)
    BY <1>1 DEF Round
  <2> QED
    BY <2>2, <2>3, <2>4, <2>5
<1>8. q[head + 1] \in S
  BY <1>1a, <1>2
<1> DEFINE c == <<q[head + 1]>> \o b
<1>9. c \in Seq(S) /\ Len(c) = count /\ c[1] = q[head + 1] /\ \A k \in 1 .. count - 1 : c[k + 1] = b[k]
  BY <1>5, <1>8
<1> HIDE DEF c
<1>10. ASSUME NEW k \in 1 .. count PROVE a[k] = c[k]
  <2>1. CASE k = 1
    BY <1>6, <1>9, <2>1
  <2>2. CASE k # 1
    <3>1. PICK l \in 1 .. count - 1 : k = l + 1
      <4>1. k - 1 \in 1 .. count - 1 /\ k = (k - 1) + 1
        BY <2>2
      <4> QED
        BY <4>1
    <3> QED
      BY <1>7, <1>9, <3>1
  <2> QED
    BY <2>1, <2>2
<1>11. a = c
  BY <1>4, <1>4a, <1>9, <1>10
<1> QED
  BY <1>2, <1>3, <1>11 DEF a, b, c, next

LEMMA RingNext ==
  ASSUME NEW size \in Nat \ {0}, NEW head \in 0 .. size - 1, NEW count \in 0 .. size - 1
  PROVE  /\ (((head + count) % size) + 1) % size = (head + (count + 1)) % size
         /\ (head + (count + 1)) % size \in 0 .. size - 1
<1>1. head + count \in 0 .. 2 * size - 1 /\ head + (count + 1) \in 0 .. 2 * size - 1
  OBVIOUS
<1>2. PICK t : t = Round(head + count, size)
  OBVIOUS
<1>3. t \in 0 .. size - 1 /\ t + 1 \in 0 .. 2 * size - 1
  BY <1>2 DEF Round
<1>4. (head + count) % size = t
  BY <1>1, <1>2, ModOnce, Zenon
<1>5. (t + 1) % size = Round(t + 1, size) /\ (head + (count + 1)) % size = Round(head + (count + 1), size)
  BY <1>1, <1>3, ModOnce, Zenon
<1>6. Round(t + 1, size) = Round(head + (count + 1), size)
  BY <1>2 DEF Round
<1>7. Round(head + (count + 1), size) \in 0 .. size - 1
  BY DEF Round
<1> QED
  BY <1>4, <1>5, <1>6, <1>7, Zenon

\* A ring of which a sequence `into` is told that went in and `out` that came out.
Keeps(S, size, q, head, count, into, out) ==
  /\ size \in Nat \ {0} /\ q \in [1 .. size -> S] /\ head \in 0 .. size - 1 /\ count \in 0 .. size
  /\ into \in Seq(S) /\ out \in Seq(S)
  /\ into = out \o Ring(q, head, count, size)

LEMMA KeepsPuts ==
  ASSUME NEW S, NEW size, NEW q, NEW head, NEW count, NEW into, NEW out, NEW x \in S,
         Keeps(S, size, q, head, count, into, out), count < size
  PROVE  Keeps(S, size, [q EXCEPT ![((head + count) % size) + 1] = x], head, count + 1, Append(into, x), out)
<1>1. /\ size \in Nat \ {0} /\ q \in [1 .. size -> S] /\ head \in 0 .. size - 1
      /\ count \in 0 .. size - 1 /\ count \in 0 .. size
      /\ into \in Seq(S) /\ out \in Seq(S) /\ into = out \o Ring(q, head, count, size)
  BY DEF Keeps
<1>2. PICK tail : tail = (head + count) % size
  OBVIOUS
<1>3. PICK p : p = [q EXCEPT ![tail + 1] = x]
  OBVIOUS
<1>4. p \in [1 .. size -> S]
  BY <1>1, <1>3
<1>4a. Ring(p, head, count + 1, size) = Append(Ring(q, head, count, size), x)
  <2>1. tail \in 0 .. size - 1
    BY <1>1, <1>2, RingPlace, Zenon
  <2>2. p[tail + 1] = x /\ \A i \in 1 .. size : i # tail + 1 => p[i] = q[i]
    BY <1>1, <1>3, <2>1
  <2>3. SameBut(p, q, ((head + count) % size) + 1, size)
    BY <1>2, <2>2, Zenon DEF SameBut
  <2>4. Longer(p, q, head, count, size)
    BY <1>1, <2>3, RingPuts, Zenon
  <2> QED
    BY <1>2, <2>2, <2>4, Zenon DEF Longer
<1>5. Ring(q, head, count, size) \in [1 .. count -> S]
  <2>1. \A i \in 1 .. size : q[i] \in S
    BY <1>1
  <2> QED
    BY <1>1, <2>1, RingType, Zenon
<1>6. Ring(q, head, count, size) \in Seq(S)
  BY <1>1, <1>5
<1>7. PICK r \in Seq(S) : r = Ring(q, head, count, size)
  BY <1>6
<1>8. Append(out \o r, x) = out \o Append(r, x) /\ Append(into, x) \in Seq(S)
  <2>1. <<x>> \in Seq(S) /\ out \in Seq(S)
    BY <1>1
  <2>2. (out \o r) \o <<x>> = out \o (r \o <<x>>)
    BY <1>7, <2>1, ConcatAssociative
  <2>3. out \o r \in Seq(S)
    BY <1>7, <2>1
  <2>4. Append(out \o r, x) = (out \o r) \o <<x>> /\ Append(r, x) = r \o <<x>>
    BY <1>7, <2>3
  <2> QED
    BY <1>1, <2>2, <2>4
<1>9. Append(into, x) = out \o Ring(p, head, count + 1, size)
  BY <1>1, <1>4a, <1>7, <1>8, Zenon
<1>10. count + 1 \in 0 .. size
  BY <1>1
<1>11. p = [q EXCEPT ![((head + count) % size) + 1] = x]
  BY <1>2, <1>3
<1>12. Keeps(S, size, p, head, count + 1, Append(into, x), out)
  BY <1>1, <1>4, <1>8, <1>9, <1>10 DEF Keeps
<1> QED
  BY <1>11, <1>12, Zenon

LEMMA KeepsTakes ==
  ASSUME NEW S, NEW size, NEW q, NEW head, NEW count, NEW into, NEW out,
         Keeps(S, size, q, head, count, into, out), count # 0
  PROVE  /\ Keeps(S, size, q, (head + 1) % size, count - 1, into, Append(out, q[head + 1]))
         /\ (((head + 1) % size) + (count - 1)) % size = (head + count) % size
         /\ q[head + 1] \in S
<1>1. /\ size \in Nat \ {0} /\ q \in [1 .. size -> S] /\ head \in 0 .. size - 1
      /\ count \in 1 .. size /\ count \in 0 .. size
      /\ into \in Seq(S) /\ out \in Seq(S) /\ into = out \o Ring(q, head, count, size)
  BY DEF Keeps
<1>2. PICK h, m : h = (head + 1) % size /\ m = q[head + 1]
  OBVIOUS
<1>3. /\ h \in 0 .. size - 1
      /\ (h + (count - 1)) % size = (head + count) % size
      /\ Ring(q, head, count, size) = <<m>> \o Ring(q, h, count - 1, size)
  BY <1>1, <1>2, RingTakes, Zenon
<1>3a. m \in S
  BY <1>1, <1>2
<1>4. count - 1 \in 0 .. size /\ count - 1 \in Nat
  BY <1>1
<1>5. Ring(q, h, count - 1, size) \in [1 .. count - 1 -> S]
  <2>1. \A i \in 1 .. size : q[i] \in S
    BY <1>1
  <2> QED
    BY <1>1, <1>3, <1>4, <2>1, RingType, Zenon
<1>6. Ring(q, h, count - 1, size) \in Seq(S)
  BY <1>4, <1>5
<1>7. PICK r \in Seq(S) : r = Ring(q, h, count - 1, size)
  BY <1>6
<1>8. out \o (<<m>> \o r) = Append(out, m) \o r
  <2>1. <<m>> \in Seq(S) /\ out \in Seq(S) /\ Append(out, m) = out \o <<m>>
    BY <1>1, <1>3a
  <2>2. (out \o <<m>>) \o r = out \o (<<m>> \o r)
    BY <1>7, <2>1, ConcatAssociative
  <2> QED
    BY <2>1, <2>2
<1>9. into = Append(out, m) \o Ring(q, h, count - 1, size)
  BY <1>1, <1>3, <1>7, <1>8, Zenon
<1>10. Append(out, m) \in Seq(S)
  BY <1>1, <1>3a
<1>11. Keeps(S, size, q, h, count - 1, into, Append(out, m))
  BY <1>1, <1>3, <1>4, <1>9, <1>10 DEF Keeps
<1> QED
  BY <1>2, <1>3, <1>3a, <1>11, Zenon

PortSound(c, into, out) ==
  /\ c \in Port /\ c.tail = (c.head + c.count) % Depth
  /\ Keeps(Message, Depth, c.q, c.head, c.count, into, out)

LEMMA PortPuts ==
  ASSUME NEW c, NEW into, NEW out, PortSound(c, into, out), c.count < Depth, NEW m \in Message,
         NEW q, NEW head, NEW tail, NEW count, c = [q |-> q, head |-> head, tail |-> tail, count |-> count],
         NEW p, NEW t, p = [q EXCEPT ![tail + 1] = m], t = (tail + 1) % Depth
  PROVE  PortSound([q |-> p, head |-> head, tail |-> t, count |-> count + 1], Append(into, m), out)
<1>1. q = c.q /\ head = c.head /\ tail = c.tail /\ count = c.count
  OBVIOUS
<1>2. /\ Depth \in Nat \ {0} /\ head \in 0 .. Depth - 1 /\ count \in 0 .. Depth - 1
      /\ tail = (head + count) % Depth
  BY <1>1, UserAssumption DEF PortSound, Port
<1>3. Keeps(Message, Depth, q, head, count, into, out) /\ count < Depth
  BY <1>1 DEF PortSound
<1>5. PICK d : d = [q |-> p, head |-> head, tail |-> t, count |-> count + 1]
  OBVIOUS
<1>6. Keeps(Message, Depth, [q EXCEPT ![((head + count) % Depth) + 1] = m], head, count + 1, Append(into, m), out)
  BY <1>3, KeepsPuts, Zenon
<1>7. Keeps(Message, Depth, p, head, count + 1, Append(into, m), out)
  BY <1>2, <1>6
<1>8. t = (head + (count + 1)) % Depth /\ t \in 0 .. Depth - 1
  BY <1>2, RingNext, Zenon
<1>9. p \in [1 .. Depth -> Message] /\ count + 1 \in 0 .. Depth
  BY <1>7 DEF Keeps
<1>10. d.q = p /\ d.head = head /\ d.tail = t /\ d.count = count + 1
  BY <1>5
<1>11. d \in Port
  BY <1>2, <1>5, <1>8, <1>9 DEF Port
<1>12. d.tail = (d.head + d.count) % Depth /\ Keeps(Message, Depth, d.q, d.head, d.count, Append(into, m), out)
  BY <1>7, <1>8, <1>10, Zenon
<1> QED
  BY <1>5, <1>11, <1>12, Zenon DEF PortSound

LEMMA PortTakes ==
  ASSUME NEW c, NEW into, NEW out, PortSound(c, into, out), c.count # 0,
         NEW q, NEW head, NEW tail, NEW count, c = [q |-> q, head |-> head, tail |-> tail, count |-> count],
         NEW h, h = (head + 1) % Depth
  PROVE  /\ PortSound([q |-> q, head |-> h, tail |-> tail, count |-> count - 1], into, Append(out, q[head + 1]))
         /\ q[head + 1] \in Message
<1>1. q = c.q /\ head = c.head /\ tail = c.tail /\ count = c.count
  OBVIOUS
<1>2. /\ tail = (head + count) % Depth /\ tail \in 0 .. Depth - 1
  BY <1>1 DEF PortSound, Port
<1>3. Keeps(Message, Depth, q, head, count, into, out) /\ count # 0
  BY <1>1 DEF PortSound
<1>5. PICK d : d = [q |-> q, head |-> h, tail |-> tail, count |-> count - 1]
  OBVIOUS
<1>6. Keeps(Message, Depth, q, (head + 1) % Depth, count - 1, into, Append(out, q[head + 1]))
  BY <1>3, KeepsTakes, Zenon
<1>6a. (((head + 1) % Depth) + (count - 1)) % Depth = (head + count) % Depth
  BY <1>3, KeepsTakes
<1>6b. q[head + 1] \in Message
  BY <1>3, KeepsTakes, Zenon
<1>7. Keeps(Message, Depth, q, h, count - 1, into, Append(out, q[head + 1])) /\ (h + (count - 1)) % Depth = tail
  BY <1>2, <1>6, <1>6a
<1>8. q \in [1 .. Depth -> Message] /\ h \in 0 .. Depth - 1 /\ count - 1 \in 0 .. Depth
  BY <1>7 DEF Keeps
<1>9. d.q = q /\ d.head = h /\ d.tail = tail /\ d.count = count - 1
  BY <1>5
<1>10. d \in Port
  BY <1>2, <1>5, <1>8 DEF Port
<1>11. d.tail = (d.head + d.count) % Depth /\ Keeps(Message, Depth, d.q, d.head, d.count, into, Append(out, q[head + 1]))
  BY <1>7, <1>9, Zenon
<1> QED
  BY <1>5, <1>6b, <1>10, <1>11, Zenon DEF PortSound

PortInv ==
  /\ ports \in [PortIds -> Port] /\ sent \in [PortIds -> Seq(Message)] /\ taken \in [PortIds -> Seq(Message)]
  /\ \A p \in PortIds : PortSound(ports[p], sent[p], taken[p])

LEMMA PortInvIsFifo ==
  ASSUME PortInv
  PROVE  PortsAreFifo
  BY DEF PortInv, PortSound, Keeps, PortsAreFifo

LEMMA SendKeeps ==
  ASSUME PortInv, NEW p \in PortIds, NEW len \in Messages \cup {0}, Send(p, len)
  PROVE  PortInv'
<1>1. CASE UNCHANGED portVars
  BY <1>1 DEF PortInv, portVars
<1>2. CASE ~UNCHANGED portVars
  <2>1. ~(len = 0 \/ len > PayloadMax \/ ports[p].count >= Depth) /\ taken' = taken
    BY <1>2, Zenon DEF Send, portVars
  <2>2. PICK m : m = [n |-> Len(sent[p]), len |-> len]
    OBVIOUS
  <2>3. sent' = [sent EXCEPT ![p] = Append(sent[p], m)]
    BY <2>1, <2>2, Zenon DEF Send
  <2>4. ports' = [ports EXCEPT ![p] = [ports[p] EXCEPT !.q[ports[p].tail + 1] = m,
                     !.tail = (ports[p].tail + 1) % Depth, !.count = ports[p].count + 1]]
    BY <2>1, <2>2 DEF Send
  <2>5. PICK c : c = ports[p]
    OBVIOUS
  <2>6. PortSound(c, sent[p], taken[p]) /\ c \in Port /\ sent[p] \in Seq(Message)
    BY <2>5 DEF PortInv
  <2>7. m \in Message
    <3>1. len \in Nat
      <4>1. Messages \subseteq Nat
        BY UserAssumption, Zenon
      <4> QED
        BY <4>1
    <3>2. Len(sent[p]) \in Nat
      BY <2>6
    <3> QED
      BY <2>2, <3>1, <3>2 DEF Message
  <2>8. c.count < Depth
    BY <2>1, <2>5, <2>6, UserAssumption DEF Port
  <2>9. PICK q, head, tail, count : c = [q |-> q, head |-> head, tail |-> tail, count |-> count]
    BY <2>6 DEF Port
  <2>10. PICK w, t : w = [q EXCEPT ![tail + 1] = m] /\ t = (tail + 1) % Depth
    OBVIOUS
  <2>11. PICK x : x = [q |-> w, head |-> head, tail |-> t, count |-> count + 1]
    OBVIOUS
  <2>12. PortSound(x, Append(sent[p], m), taken[p])
    BY <2>6, <2>7, <2>8, <2>9, <2>10, <2>11, PortPuts
  <2>13. ports' = [ports EXCEPT ![p] = x]
    <3>1. PICK u : u = [c EXCEPT !.q[c.tail + 1] = m, !.tail = (c.tail + 1) % Depth, !.count = c.count + 1]
      OBVIOUS
    <3>2. c.q = q /\ c.head = head /\ c.tail = tail /\ c.count = count
      BY <2>9
    <3>3. PICK n : n = count + 1
      OBVIOUS
    <3>4. u = [c EXCEPT !.q[tail + 1] = m, !.tail = t, !.count = n]
      BY <2>10, <3>1, <3>2, <3>3, Zenon
    <3>5. u = [q |-> w, head |-> head, tail |-> t, count |-> n]
      BY <2>9, <2>10, <3>4
    <3>6. u = x
      BY <2>11, <3>3, <3>5, Zenon
    <3> QED
      BY <2>4, <2>5, <3>1, <3>6, Zenon
  <2>14. x \in Port /\ Append(sent[p], m) \in Seq(Message)
    BY <2>6, <2>7, <2>12 DEF PortSound
  <2> QED
    BY <2>1, <2>3, <2>12, <2>13, <2>14 DEF PortInv
<1> QED
  BY <1>1, <1>2

LEMMA RecvKeeps ==
  ASSUME PortInv, NEW p \in PortIds, NEW len \in Messages \cup {0}, Recv(p, len)
  PROVE  PortInv'
<1>1. CASE UNCHANGED portVars
  BY <1>1 DEF PortInv, portVars
<1>2. CASE ~UNCHANGED portVars
  <2>1. ~(len = 0 \/ ports[p].count = 0 \/ ports[p].q[ports[p].head + 1].len > len) /\ sent' = sent
    BY <1>2, Zenon DEF Recv, portVars
  <2>2. PICK m : m = ports[p].q[ports[p].head + 1]
    OBVIOUS
  <2>3. taken' = [taken EXCEPT ![p] = Append(taken[p], m)]
    BY <2>1, <2>2, Zenon DEF Recv
  <2>4. ports' = [ports EXCEPT ![p] = [ports[p] EXCEPT !.head = (ports[p].head + 1) % Depth, !.count = ports[p].count - 1]]
    BY <2>1 DEF Recv
  <2>5. PICK c : c = ports[p]
    OBVIOUS
  <2>6. PortSound(c, sent[p], taken[p]) /\ c \in Port /\ taken[p] \in Seq(Message)
    BY <2>5 DEF PortInv
  <2>7. c.count # 0
    BY <2>1, <2>5
  <2>8. PICK q, head, tail, count : c = [q |-> q, head |-> head, tail |-> tail, count |-> count]
    BY <2>6 DEF Port
  <2>9. PICK h : h = (head + 1) % Depth
    OBVIOUS
  <2>10. PICK x : x = [q |-> q, head |-> h, tail |-> tail, count |-> count - 1]
    OBVIOUS
  <2>11. m = q[head + 1]
    BY <2>2, <2>5, <2>8
  <2>12. PortSound(x, sent[p], Append(taken[p], m)) /\ m \in Message
    BY <2>6, <2>7, <2>8, <2>9, <2>10, <2>11, PortTakes
  <2>13. ports' = [ports EXCEPT ![p] = x]
    <3>1. PICK u : u = [c EXCEPT !.head = (c.head + 1) % Depth, !.count = c.count - 1]
      OBVIOUS
    <3>2. c.q = q /\ c.head = head /\ c.tail = tail /\ c.count = count
      BY <2>8
    <3>3. PICK n : n = count - 1
      OBVIOUS
    <3>4. u = [c EXCEPT !.head = h, !.count = n]
      BY <2>9, <3>1, <3>2, <3>3, Zenon
    <3>5. u = [q |-> q, head |-> h, tail |-> tail, count |-> n]
      BY <2>8, <3>4
    <3>6. u = x
      BY <2>10, <3>3, <3>5, Zenon
    <3> QED
      BY <2>4, <2>5, <3>1, <3>6, Zenon
  <2>14. x \in Port /\ Append(taken[p], m) \in Seq(Message)
    BY <2>6, <2>12 DEF PortSound
  <2> QED
    BY <2>1, <2>3, <2>12, <2>13, <2>14 DEF PortInv
<1> QED
  BY <1>1, <1>2

LEMMA PortsStart == UserInit => PortInv
<1> SUFFICES ASSUME UserInit PROVE PortInv
  OBVIOUS
<1> DEFINE c == [q |-> [i \in 1 .. Depth |-> [n |-> 0, len |-> 0]], head |-> 0, tail |-> 0, count |-> 0]
<1>1. Depth \in Nat \ {0}
  BY UserAssumption
<1>2. [n |-> 0, len |-> 0] \in Message /\ <<>> \in Seq(Message)
  BY DEF Message
<1>3. c \in Port
  BY <1>1, <1>2 DEF Port
<1>4. (0 + 0) % Depth = 0
  BY <1>1, ModOnce DEF Round
<1>5. Ring(c.q, 0, 0, Depth) = <<>>
  BY DEF Ring
<1>6. Keeps(Message, Depth, c.q, 0, 0, <<>>, <<>>)
  BY <1>1, <1>2, <1>3, <1>5 DEF Keeps, Port
<1>7. PortSound(c, <<>>, <<>>)
  BY <1>3, <1>4, <1>6 DEF PortSound
<1>8. ports = [p \in PortIds |-> c] /\ sent = [p \in PortIds |-> <<>>] /\ taken = [p \in PortIds |-> <<>>]
  BY DEF UserInit
<1> HIDE DEF c
<1> QED
  BY <1>2, <1>3, <1>7, <1>8 DEF PortInv

\* How far the tail is ahead of the head.
Ahead(x, d) == IF x < 0 THEN x + d ELSE x

LEMMA AheadIsMod ==
  ASSUME NEW d \in Nat \ {0}, NEW x \in -d + 1 .. d - 1
  PROVE  x % d = Ahead(x, d)
<1>1. CASE x < 0
  BY <1>1, SMT DEF Ahead
<1>2. CASE ~(x < 0)
  BY <1>2, SMT DEF Ahead
<1> QED
  BY <1>1, <1>2

\* With n keys between head h and tail t: where the next one goes and is taken from.
Between(d, t, h, n) ==
  /\ n \in 0 .. d - 1 /\ t - 1 = ((h - 1) + n) % d
  /\ (t % d) + 1 \in 1 .. d /\ (h % d) + 1 \in 1 .. d /\ ((h - 1) + 1) % d = ((h % d) + 1) - 1
  /\ (t % d) + 1 # h => n < d - 1 /\ (((t % d) + 1) - h) % d = n + 1
  /\ n # 0 => (t - ((h % d) + 1)) % d = n - 1

LEMMA KeyPlaces ==
  ASSUME NEW d \in Nat \ {0}, NEW t \in 1 .. d, NEW h \in 1 .. d
  PROVE  Between(d, t, h, (t - h) % d)
<1>0. PICK n : n = (t - h) % d
  OBVIOUS
<1>1. n = Ahead(t - h, d)
  <2>1. t - h \in -d + 1 .. d - 1
    OBVIOUS
  <2> QED
    BY <1>0, <2>1, AheadIsMod, Zenon
<1>2. n \in 0 .. d - 1 /\ (h - 1) + n \in 0 .. 2 * d - 1 /\ Round((h - 1) + n, d) = t - 1
  BY <1>1 DEF Ahead, Round
<1>3. t - 1 = ((h - 1) + n) % d
  BY <1>2, ModOnce, Zenon
<1>4. PICK u, g : u = Round(t, d) /\ g = Round(h, d)
  OBVIOUS
<1>5. u \in 0 .. d - 1 /\ g \in 0 .. d - 1
  BY <1>4 DEF Round
<1>6. t % d = u /\ h % d = g
  <2>1. t \in 0 .. 2 * d - 1 /\ h \in 0 .. 2 * d - 1
    OBVIOUS
  <2> QED
    BY <1>4, <2>1, ModOnce, Zenon
<1>7. ((h - 1) + 1) % d = (g + 1) - 1
  <2>1. (h - 1) + 1 = h /\ (g + 1) - 1 = g
    BY <1>5
  <2> QED
    BY <1>6, <2>1
<1>8. ASSUME u + 1 # h PROVE n < d - 1 /\ ((u + 1) - h) % d = n + 1
  <2>1. (u + 1) - h \in -d + 1 .. d - 1
    BY <1>5
  <2>2. ((u + 1) - h) % d = Ahead((u + 1) - h, d)
    BY <2>1, AheadIsMod, Zenon
  <2>3. n < d - 1 /\ Ahead((u + 1) - h, d) = n + 1
    BY <1>1, <1>4, <1>8 DEF Ahead, Round
  <2> QED
    BY <2>2, <2>3
<1>9. ASSUME n # 0 PROVE (t - (g + 1)) % d = n - 1
  <2>1. t - (g + 1) \in -d + 1 .. d - 1
    BY <1>5
  <2>2. (t - (g + 1)) % d = Ahead(t - (g + 1), d)
    BY <2>1, AheadIsMod, Zenon
  <2>3. Ahead(t - (g + 1), d) = n - 1
    BY <1>1, <1>4, <1>9 DEF Ahead, Round
  <2> QED
    BY <2>2, <2>3
<1>10. (t % d) + 1 \in 1 .. d /\ (h % d) + 1 \in 1 .. d
  BY <1>5, <1>6
<1>11. (t % d) + 1 # h => n < d - 1 /\ (((t % d) + 1) - h) % d = n + 1
  BY <1>6, <1>8
<1>12. n # 0 => (t - ((h % d) + 1)) % d = n - 1
  BY <1>6, <1>9
<1>13. ((h - 1) + 1) % d = ((h % d) + 1) - 1
  BY <1>6, <1>7
<1> QED
  BY <1>0, <1>2, <1>3, <1>10, <1>11, <1>12, <1>13, Zenon DEF Between

KeyValues == Keys \cup {None}

KeyInv ==
  /\ keys \in [q : [1 .. KeyMax -> KeyValues], head : 1 .. KeyMax, tail : 1 .. KeyMax]
  /\ typed \in Seq(KeyValues)
  /\ Keeps(KeyValues, KeyMax, keys.q, keys.head - 1, Pressed, typed, <<>>)

LEMMA KeyInvIsInOrder ==
  ASSUME KeyInv
  PROVE  KeysAreInOrder
<1>1. keys.q \in [1 .. KeyMax -> KeyValues] /\ typed = <<>> \o Ring(keys.q, keys.head - 1, Pressed, KeyMax)
      /\ keys.head - 1 \in 0 .. KeyMax - 1 /\ Pressed \in 0 .. KeyMax /\ KeyMax \in Nat \ {0}
  BY DEF KeyInv, Keeps
<1>2. \A i \in 1 .. KeyMax : keys.q[i] \in KeyValues
  BY <1>1
<1>3. Ring(keys.q, keys.head - 1, Pressed, KeyMax) \in [1 .. Pressed -> KeyValues]
  BY <1>1, <1>2, RingType, Zenon
<1>4. Ring(keys.q, keys.head - 1, Pressed, KeyMax) \in Seq(KeyValues)
  BY <1>1, <1>3
<1>5. PICK r \in Seq(KeyValues) : r = Ring(keys.q, keys.head - 1, Pressed, KeyMax)
  BY <1>4
<1>6. <<>> \o r = r
  OBVIOUS
<1> QED
  BY <1>1, <1>5, <1>6 DEF KeysAreInOrder

\* An empty queue, wherever its head is.
LEMMA KeysClear ==
  ASSUME KeyInv, keys' = [keys EXCEPT !.head = 1, !.tail = 1], typed' = <<>>
  PROVE  KeyInv'
<1>1. KeyMax \in Nat \ {0} /\ 1 \in 1 .. KeyMax
  BY UserAssumption
<1>2. /\ keys' \in [q : [1 .. KeyMax -> KeyValues], head : 1 .. KeyMax, tail : 1 .. KeyMax]
      /\ keys'.q = keys.q /\ keys'.head = 1 /\ keys'.tail = 1 /\ keys.q \in [1 .. KeyMax -> KeyValues]
  BY <1>1 DEF KeyInv
<1>3. (1 - 1) % KeyMax = 0
  BY <1>1, ModOnce DEF Round
<1>4. Pressed' = 0
  BY <1>2, <1>3 DEF Pressed
<1>5. Ring(keys.q, 0, 0, KeyMax) = <<>>
  BY DEF Ring
<1>6. Keeps(KeyValues, KeyMax, keys.q, 0, 0, <<>>, <<>>)
  BY <1>1, <1>2, <1>5 DEF Keeps
<1>7. keys'.head - 1 = 0
  BY <1>2
<1>8. Keeps(KeyValues, KeyMax, keys'.q, keys'.head - 1, Pressed', typed', <<>>)
  BY <1>2, <1>4, <1>6, <1>7
<1> QED
  BY <1>2, <1>8 DEF KeyInv

LEMMA PushKeeps ==
  ASSUME KeyInv, NEW k \in Keys, PushKey(k)
  PROVE  KeyInv'
<1>1. CASE UNCHANGED <<keys, typed>>
  BY <1>1 DEF KeyInv, Pressed
<1>2. CASE ~UNCHANGED <<keys, typed>>
  <2>1. PICK next : next = (keys.tail % KeyMax) + 1
    OBVIOUS
  <2>2. next # keys.head /\ keys' = [keys EXCEPT !.q[keys.tail] = k, !.tail = next] /\ typed' = Append(typed, k)
    BY <1>2, <2>1, Zenon DEF PushKey
  <2>3. PICK q, h, t : keys = [q |-> q, head |-> h, tail |-> t] /\ q \in [1 .. KeyMax -> KeyValues]
                       /\ h \in 1 .. KeyMax /\ t \in 1 .. KeyMax
    BY DEF KeyInv
  <2>4. PICK n : n = (t - h) % KeyMax
    OBVIOUS
  <2>5. Pressed = n
    BY <2>3, <2>4 DEF Pressed
  <2>6. KeyMax \in Nat \ {0} /\ k \in KeyValues
    BY UserAssumption DEF KeyValues
  <2>7. /\ n \in 0 .. KeyMax - 1 /\ t - 1 = ((h - 1) + n) % KeyMax
        /\ (t % KeyMax) + 1 \in 1 .. KeyMax
        /\ (t % KeyMax) + 1 # h => n < KeyMax - 1 /\ (((t % KeyMax) + 1) - h) % KeyMax = n + 1
    <3>1. Between(KeyMax, t, h, n)
      BY <2>3, <2>4, <2>6, KeyPlaces
    <3> QED
      BY <3>1, Zenon DEF Between
  <2>8. next = (t % KeyMax) + 1 /\ next # h
    BY <2>1, <2>2, <2>3
  <2>9. next \in 1 .. KeyMax /\ n < KeyMax - 1 /\ (next - h) % KeyMax = n + 1
    BY <2>7, <2>8
  <2>10. PICK p : p = [q EXCEPT ![t] = k]
    OBVIOUS
  <2>11. keys' = [q |-> p, head |-> h, tail |-> next]
    BY <2>2, <2>3, <2>10
  <2>12. Keeps(KeyValues, KeyMax, q, h - 1, n, typed, <<>>) /\ typed \in Seq(KeyValues)
    BY <2>3, <2>5 DEF KeyInv
  <2>13. n < KeyMax
    BY <2>6, <2>7
  <2>14. Keeps(KeyValues, KeyMax, [q EXCEPT ![(((h - 1) + n) % KeyMax) + 1] = k], h - 1, n + 1, Append(typed, k), <<>>)
    BY <2>6, <2>12, <2>13, KeepsPuts, Zenon
  <2>15. (((h - 1) + n) % KeyMax) + 1 = t
    BY <2>3, <2>7
  <2>16. Keeps(KeyValues, KeyMax, p, h - 1, n + 1, Append(typed, k), <<>>)
    BY <2>10, <2>14, <2>15
  <2>17. Pressed' = n + 1
    BY <2>9, <2>11 DEF Pressed
  <2>18. p \in [1 .. KeyMax -> KeyValues]
    BY <2>16 DEF Keeps
  <2>19. keys' \in [q : [1 .. KeyMax -> KeyValues], head : 1 .. KeyMax, tail : 1 .. KeyMax]
    BY <2>3, <2>9, <2>11, <2>18
  <2>20. Keeps(KeyValues, KeyMax, keys'.q, keys'.head - 1, Pressed', typed', <<>>)
    <3>1. keys'.q = p /\ keys'.head = h
      BY <2>11
    <3> QED
      BY <2>2, <2>16, <2>17, <3>1, Zenon
  <2>21. typed' \in Seq(KeyValues)
    BY <2>2, <2>6, <2>12
  <2> QED
    BY <2>19, <2>20, <2>21 DEF KeyInv
<1> QED
  BY <1>1, <1>2

LEMMA GetKeeps ==
  ASSUME KeyInv, GetKey
  PROVE  KeyInv'
<1>1. CASE UNCHANGED <<keys, typed>>
  BY <1>1 DEF KeyInv, Pressed
<1>2. CASE ~UNCHANGED <<keys, typed>>
  <2>1. Pressed # 0 /\ keys' = [keys EXCEPT !.head = (keys.head % KeyMax) + 1] /\ typed' = Tail(typed)
    BY <1>2, Zenon DEF GetKey
  <2>2. PICK q, h, t : keys = [q |-> q, head |-> h, tail |-> t] /\ q \in [1 .. KeyMax -> KeyValues]
                       /\ h \in 1 .. KeyMax /\ t \in 1 .. KeyMax
    BY DEF KeyInv
  <2>3. PICK n : n = (t - h) % KeyMax
    OBVIOUS
  <2>4. Pressed = n /\ n # 0
    BY <2>1, <2>2, <2>3 DEF Pressed
  <2>5. KeyMax \in Nat \ {0}
    BY UserAssumption
  <2>6. PICK g : g = (h % KeyMax) + 1
    OBVIOUS
  <2>7. g \in 1 .. KeyMax /\ ((h - 1) + 1) % KeyMax = g - 1 /\ (t - g) % KeyMax = n - 1
    <3>1. Between(KeyMax, t, h, n)
      BY <2>2, <2>3, <2>5, KeyPlaces
    <3> QED
      BY <2>4, <2>6, <3>1, Zenon DEF Between
  <2>8. keys' = [q |-> q, head |-> g, tail |-> t]
    BY <2>1, <2>2, <2>6
  <2>9. Keeps(KeyValues, KeyMax, q, h - 1, n, typed, <<>>) /\ typed \in Seq(KeyValues)
    BY <2>2, <2>4 DEF KeyInv
  <2>10. Keeps(KeyValues, KeyMax, q, ((h - 1) + 1) % KeyMax, n - 1, typed, Append(<<>>, q[(h - 1) + 1]))
    BY <2>4, <2>9, KeepsTakes, Zenon
  <2>11. PICK k : k = q[h]
    OBVIOUS
  <2>12. (h - 1) + 1 = h /\ Append(<<>>, k) = <<k>>
    BY <2>2
  <2>13. Keeps(KeyValues, KeyMax, q, g - 1, n - 1, typed, <<k>>)
    BY <2>7, <2>10, <2>11, <2>12
  <2>14. PICK r : r = Ring(q, g - 1, n - 1, KeyMax)
    OBVIOUS
  <2>15. /\ typed = <<k>> \o r /\ k \in KeyValues /\ g - 1 \in 0 .. KeyMax - 1 /\ n - 1 \in 0 .. KeyMax
         /\ n - 1 \in Nat
    BY <2>2, <2>5, <2>11, <2>13, <2>14 DEF Keeps
  <2>16. r \in Seq(KeyValues)
    <3>1. \A i \in 1 .. KeyMax : q[i] \in KeyValues
      BY <2>2
    <3>2. r \in [1 .. n - 1 -> KeyValues]
      BY <2>5, <2>14, <2>15, <3>1, RingType, Zenon
    <3>3. n - 1 \in Nat
      BY <2>15
    <3> QED
      BY <3>2, <3>3
  <2>17. Tail(<<k>> \o r) = r
    BY <2>15, <2>16
  <2>18. typed' = r /\ <<>> \o r = r
    BY <2>1, <2>15, <2>16, <2>17
  <2>19. Keeps(KeyValues, KeyMax, q, g - 1, n - 1, r, <<>>)
    BY <2>2, <2>5, <2>14, <2>15, <2>16, <2>18 DEF Keeps
  <2>20. Pressed' = n - 1
    BY <2>7, <2>8 DEF Pressed
  <2>21. keys' \in [q : [1 .. KeyMax -> KeyValues], head : 1 .. KeyMax, tail : 1 .. KeyMax]
    BY <2>2, <2>7, <2>8
  <2>22. Keeps(KeyValues, KeyMax, keys'.q, keys'.head - 1, Pressed', typed', <<>>)
    BY <2>8, <2>18, <2>19, <2>20
  <2> QED
    BY <2>16, <2>18, <2>21, <2>22 DEF KeyInv
<1> QED
  BY <1>1, <1>2

LEMMA KeysStart == UserInit => KeyInv
<1> SUFFICES ASSUME UserInit PROVE KeyInv
  OBVIOUS
<1>1. KeyMax \in Nat \ {0} /\ None \in KeyValues
  BY UserAssumption DEF KeyValues
<1>2. PICK q \in [1 .. KeyMax -> KeyValues] : keys = [q |-> q, head |-> 1, tail |-> 1]
  BY <1>1 DEF UserInit
<1>3. (1 - 1) % KeyMax = 0
  BY <1>1, ModOnce DEF Round
<1>4. Pressed = 0
  BY <1>2, <1>3 DEF Pressed
<1>5. Ring(q, 0, 0, KeyMax) = <<>>
  BY DEF Ring
<1>6. Keeps(KeyValues, KeyMax, q, 0, 0, <<>>, <<>>)
  BY <1>1, <1>2, <1>5 DEF Keeps
<1>7. keys.q = q /\ keys.head - 1 = 0 /\ typed = <<>>
  BY <1>2 DEF UserInit
<1>8. Keeps(KeyValues, KeyMax, keys.q, keys.head - 1, Pressed, typed, <<>>)
  BY <1>4, <1>6, <1>7
<1>9. keys \in [q : [1 .. KeyMax -> KeyValues], head : 1 .. KeyMax, tail : 1 .. KeyMax]
  BY <1>1, <1>2
<1> QED
  BY <1>7, <1>8, <1>9 DEF KeyInv

\* The first of some numbers up to n, of which there are any.
LEMMA First ==
  ASSUME NEW n \in Nat, NEW S \in SUBSET (1 .. n), S # {}
  PROVE  (CHOOSE i \in S : \A j \in S : i <= j) \in S
<1> DEFINE T == {1 .. k : k \in S}
<1>1. IsFiniteSet(1 .. n)
  BY FS_Interval
<1>2. T \subseteq FiniteSubsetsOf(1 .. n) /\ T # {}
  <2>1. ASSUME NEW k \in S PROVE 1 .. k \in FiniteSubsetsOf(1 .. n)
    <3>1. 1 .. k \subseteq 1 .. n
      OBVIOUS
    <3> QED
      BY <3>1, <1>1, FS_Subset DEF FiniteSubsetsOf
  <2> QED
    BY <2>1
<1>3. IsWellFoundedOn(StrictSubsetOrdering(1 .. n), FiniteSubsetsOf(1 .. n))
  BY <1>1, FS_StrictSubsetOrderingWellFounded
<1>4. PICK x \in T : \A y \in T : ~ (<<y, x>> \in StrictSubsetOrdering(1 .. n))
  <2> HIDE DEF T
  <2> QED
    BY <1>2, <1>3, WFMin
<1>5. PICK m \in S : x = 1 .. m
  BY <1>4
<1>6. ASSUME NEW l \in S, l < m PROVE FALSE
  <2>1. 1 .. l \in T /\ 1 .. l \subseteq 1 .. m /\ m \in 1 .. m /\ m \notin 1 .. l
    BY <1>6
  <2>2. <<1 .. l, 1 .. m>> \in StrictSubsetOrdering(1 .. n)
    BY <2>1 DEF StrictSubsetOrdering
  <2> QED
    BY <1>4, <1>5, <2>1, <2>2
<1>7. \E i \in S : \A j \in S : i <= j
  BY <1>6
<1> QED
  BY <1>7, Zenon

RightsInv ==
  /\ boxes \in [1 .. BoxMax -> Boxes] /\ active \in 0 .. BoxMax /\ sandbox \in BOOLEAN
  /\ caps \in SUBSET All /\ prog \in Running
  /\ RightsAreGivenBack /\ BoxesAreSound
  /\ prog.as # None => prog.old = All

LEMMA CreateKeeps ==
  ASSUME RightsInv, NEW name \in BoxNames, NEW profile \in DOMAIN Profiles, Create(name, profile)
  PROVE  RightsInv'
<1>1. prog.as = None /\ active' = active /\ sandbox' = sandbox /\ caps' = caps /\ prog' = prog
  BY DEF Create
<1>2. RightsAreGivenBack'
  BY <1>1 DEF RightsInv, RightsAreGivenBack
<1>3. CASE boxes' = boxes
  BY <1>1, <1>2, <1>3 DEF RightsInv, BoxesAreSound
<1>4. CASE boxes' # boxes
  <2> DEFINE free == {i \in 1 .. BoxMax : ~boxes[i].used}
  <2>1. PICK first : first = CHOOSE i \in free : \A j \in free : i <= j
    OBVIOUS
  <2>2. PICK b : b = [used |-> TRUE, name |-> name, caps |-> Profiles[profile], runs |-> 0]
    OBVIOUS
  <2>3. Box(name) = {} /\ free # {} /\ boxes' = [boxes EXCEPT ![first] = b]
    BY <1>4, <2>1, <2>2, Zenon DEF Create
  <2>4. first \in free
    <3>1. free \in SUBSET (1 .. BoxMax) /\ free # {} /\ BoxMax \in Nat
      BY <2>3, UserAssumption
    <3> HIDE DEF free
    <3> QED
      BY <2>1, <3>1, First
  <2>5. first \in 1 .. BoxMax /\ ~boxes[first].used
    BY <2>4
  <2>6. b \in Boxes
    BY <2>2, UserAssumption DEF Boxes
  <2>7. boxes' \in [1 .. BoxMax -> Boxes]
    BY <2>3, <2>5, <2>6 DEF RightsInv
  <2>8. \A i \in 1 .. BoxMax : boxes'[i] = IF i = first THEN b ELSE boxes[i]
    BY <2>3, <2>5 DEF RightsInv
  <2>9. \A i \in 1 .. BoxMax : boxes[i].used => boxes[i].name # name
    BY <2>3 DEF Box
  <2>10. b.used /\ b.name = name
    BY <2>2
  <2>11. active # 0 => boxes'[active].used
    BY <2>8, <2>10 DEF RightsInv, BoxesAreSound
  <2>12. ASSUME NEW i \in 1 .. BoxMax, NEW j \in 1 .. BoxMax,
                boxes'[i].used, boxes'[j].used, boxes'[i].name = boxes'[j].name
         PROVE  i = j
    BY <2>8, <2>9, <2>10, <2>12 DEF RightsInv, BoxesAreSound
  <2>13. BoxesAreSound'
    BY <1>1, <2>11, <2>12 DEF BoxesAreSound
  <2> QED
    BY <1>1, <1>2, <2>7, <2>13 DEF RightsInv
<1> QED
  BY <1>3, <1>4

LEMMA RemoveBoxKeeps ==
  ASSUME RightsInv, NEW name \in BoxNames, RemoveBox(name)
  PROVE  RightsInv'
<1>1. prog.as = None /\ sandbox' = sandbox /\ caps' = caps /\ prog' = prog
  BY DEF RemoveBox
<1>2. RightsAreGivenBack'
  BY <1>1 DEF RightsInv, RightsAreGivenBack
<1>3. PICK gone : gone = Box(name)
  OBVIOUS
<1>4. /\ boxes' = [i \in 1 .. BoxMax |-> IF i \in gone THEN NoBox ELSE boxes[i]]
      /\ active' = IF active \in gone THEN 0 ELSE active
  BY <1>3 DEF RemoveBox
<1>5. NoBox \in Boxes /\ NoBox.used = FALSE
  BY DEF NoBox, Boxes
<1>6. boxes' \in [1 .. BoxMax -> Boxes] /\ active' \in 0 .. BoxMax
  BY <1>4, <1>5, UserAssumption DEF RightsInv
<1>7. \A i \in 1 .. BoxMax : boxes'[i] = IF i \in gone THEN NoBox ELSE boxes[i]
  BY <1>4
<1>8. active' # 0 => boxes'[active'].used
  BY <1>4, <1>7 DEF RightsInv, BoxesAreSound
<1>9. ASSUME NEW i \in 1 .. BoxMax, NEW j \in 1 .. BoxMax,
             boxes'[i].used, boxes'[j].used, boxes'[i].name = boxes'[j].name
      PROVE  i = j
  BY <1>5, <1>7, <1>9 DEF RightsInv, BoxesAreSound
<1>10. BoxesAreSound'
  BY <1>8, <1>9 DEF BoxesAreSound
<1> QED
  BY <1>1, <1>2, <1>6, <1>10 DEF RightsInv

\* Which container is the active one, and the sandbox, change no rights.
LEMMA ChoiceKeeps ==
  ASSUME RightsInv, UNCHANGED <<boxes, caps, prog>>, sandbox' \in BOOLEAN,
         active' \in 0 .. BoxMax, active' # 0 => boxes[active'].used
  PROVE  RightsInv'
<1>1. boxes' = boxes /\ caps' = caps /\ prog' = prog
  OBVIOUS
<1>2. RightsAreGivenBack'
  BY <1>1 DEF RightsInv, RightsAreGivenBack
<1>3. BoxesAreSound'
  BY <1>1 DEF RightsInv, BoxesAreSound
<1> QED
  BY <1>1, <1>2, <1>3 DEF RightsInv

\* A program that starts has the rights it is started with and keeps those of the shell.
LEMMA StartKeeps ==
  ASSUME RightsInv, prog.as = None, UNCHANGED <<boxes, active, sandbox>>,
         NEW as \in {"box", "sandbox", "plain"}, NEW box \in 0 .. BoxMax, NEW rights \in SUBSET All,
         as = "sandbox" => rights = {}, as = "plain" => rights = All,
         as = "box" => box # 0 /\ boxes[box].used /\ rights = boxes[box].caps,
         NEW file \in DOMAIN Programs, Start(as, box, rights, file)
  PROVE  RightsInv'
<1>1. boxes' = boxes /\ active' = active /\ sandbox' = sandbox
  OBVIOUS
<1>2. BoxesAreSound'
  BY <1>1 DEF RightsInv, BoxesAreSound
<1>3. CASE caps' = caps /\ prog' = prog
  BY <1>1, <1>2, <1>3 DEF RightsInv, RightsAreGivenBack
<1>4. CASE ~(caps' = caps /\ prog' = prog)
  <2>1. caps' = rights /\ prog' = [as |-> as, box |-> box, old |-> caps]
    BY <1>4, Zenon DEF Start
  <2>2. caps = All
    BY DEF RightsInv, RightsAreGivenBack
  <2>3. prog'.as = as /\ prog'.box = box /\ prog'.old = All
    BY <2>1, <2>2
  <2>4. prog' \in Running /\ caps' \in SUBSET All
    BY <2>1, <2>2 DEF Running
  <2>5. as # None
    BY DEF None
  <2>6. RightsAreGivenBack'
    BY <1>1, <2>1, <2>3, <2>5 DEF RightsAreGivenBack
  <2> QED
    BY <1>1, <1>2, <2>3, <2>4, <2>6 DEF RightsInv
<1> QED
  BY <1>3, <1>4

LEMMA RunKeeps ==
  ASSUME RightsInv, NEW file \in DOMAIN Programs, Run(file)
  PROVE  RightsInv'
<1>1. prog.as = None /\ UNCHANGED <<boxes, active, sandbox>>
  BY DEF Run, boxVars
<1>2. caps = All /\ 0 \in 0 .. BoxMax
  BY <1>1, UserAssumption DEF RightsInv, RightsAreGivenBack
<1>3. CASE sandbox
  <2>1. Start("sandbox", 0, {}, file)
    BY <1>3 DEF Run
  <2> QED
    BY <1>1, <1>2, <2>1, StartKeeps
<1>4. CASE ~sandbox /\ HasActive
  <2>1. Start("box", active, boxes[active].caps, file)
    BY <1>4 DEF Run
  <2>2. active # 0 /\ active \in 0 .. BoxMax /\ boxes[active].used /\ boxes[active].caps \in SUBSET All
    BY <1>4 DEF HasActive, RightsInv, Boxes
  <2> QED
    BY <1>1, <2>1, <2>2, StartKeeps
<1>5. CASE ~sandbox /\ ~HasActive
  <2>1. Start("plain", 0, caps, file)
    BY <1>5 DEF Run
  <2> QED
    BY <1>1, <1>2, <2>1, StartKeeps
<1> QED
  BY <1>3, <1>4, <1>5 DEF RightsInv

LEMMA RunInKeeps ==
  ASSUME RightsInv, NEW name \in BoxNames, NEW file \in DOMAIN Programs, RunIn(name, file)
  PROVE  RightsInv'
<1>1. prog.as = None /\ UNCHANGED <<boxes, active, sandbox>>
  BY DEF RunIn, boxVars
<1>2. PICK i \in Box(name) : Start("box", i, boxes[i].caps, file)
  BY DEF RunIn
<1>3. i # 0 /\ i \in 0 .. BoxMax /\ boxes[i].used /\ boxes[i].caps \in SUBSET All
  BY DEF Box, RightsInv, Boxes
<1> QED
  BY <1>1, <1>2, <1>3, StartKeeps

LEMMA ExitKeeps ==
  ASSUME RightsInv, Exit
  PROVE  RightsInv'
<1>1. /\ prog.as # None /\ prog' = [as |-> None, box |-> 0, old |-> All] /\ caps' = prog.old
      /\ active' = active /\ sandbox' = sandbox
  BY DEF Exit
<1>2. caps' = All /\ prog'.as = None
  BY <1>1 DEF RightsInv
<1>3. RightsAreGivenBack'
  BY <1>2 DEF RightsAreGivenBack
<1>4. prog' \in Running
  BY <1>1, UserAssumption DEF Running
<1>5. CASE prog.as # "box"
  <2>1. boxes' = boxes
    BY <1>5 DEF Exit
  <2> QED
    BY <1>1, <1>2, <1>3, <1>4, <2>1 DEF RightsInv, BoxesAreSound
<1>6. CASE prog.as = "box"
  <2>1. PICK k : k = prog.box
    OBVIOUS
  <2>2. boxes' = [boxes EXCEPT ![k].runs = boxes[k].runs + 1]
    BY <1>6, <2>1 DEF Exit
  <2>3. PICK b : b = [boxes[k] EXCEPT !.runs = boxes[k].runs + 1]
    OBVIOUS
  <2>4. k # 0 /\ prog.box \in 0 .. BoxMax
    BY <1>6, <2>1 DEF RightsInv, RightsAreGivenBack, Running, None
  <2>5. k \in 1 .. BoxMax /\ boxes[k] \in Boxes
    BY <2>1, <2>4, UserAssumption DEF RightsInv
  <2>6. b \in Boxes /\ b.used = boxes[k].used /\ b.name = boxes[k].name
    BY <2>3, <2>5 DEF Boxes
  <2>7. boxes' = [boxes EXCEPT ![k] = b]
    BY <2>2, <2>3
  <2>8. boxes' \in [1 .. BoxMax -> Boxes]
    BY <2>5, <2>6, <2>7 DEF RightsInv
  <2>9. \A i \in 1 .. BoxMax : boxes'[i].used = boxes[i].used /\ boxes'[i].name = boxes[i].name
    BY <2>5, <2>6, <2>7 DEF RightsInv
  <2>10. BoxesAreSound'
    BY <1>1, <2>9 DEF RightsInv, BoxesAreSound
  <2> QED
    BY <1>1, <1>2, <1>3, <1>4, <2>8, <2>10 DEF RightsInv
<1> QED
  BY <1>5, <1>6

LEMMA RightsStart == UserInit => RightsInv
<1> SUFFICES ASSUME UserInit PROVE RightsInv
  OBVIOUS
<1>1. /\ active = 0 /\ sandbox = FALSE /\ caps = All /\ prog = [as |-> None, box |-> 0, old |-> All]
      /\ boxes = [i \in 1 .. BoxMax |-> IF i > Len(Defaults) THEN NoBox
                    ELSE [used |-> TRUE, name |-> Defaults[i][1], caps |-> Defaults[i][2], runs |-> 0]]
  BY DEF UserInit
<1>2. prog \in Running /\ prog.as = None
  BY <1>1, UserAssumption DEF Running
<1>3. RightsAreGivenBack
  BY <1>1, <1>2 DEF RightsAreGivenBack
<1>4. PICK n \in Nat : n = Len(Defaults) /\ DOMAIN Defaults = 1 .. n
  BY UserAssumption
<1>5. \A i \in 1 .. n : Defaults[i][1] \in BoxNames /\ Defaults[i][2] \in SUBSET All
  BY <1>4, UserAssumption
<1>6. NoBox \in Boxes /\ NoBox.used = FALSE
  BY DEF NoBox, Boxes
<1>7. PICK D : D = [i \in 1 .. n |-> [used |-> TRUE, name |-> Defaults[i][1], caps |-> Defaults[i][2], runs |-> 0]]
  OBVIOUS
<1>8. \A i \in 1 .. n : D[i] \in Boxes /\ D[i].used /\ D[i].name = Defaults[i][1]
  BY <1>5, <1>7 DEF Boxes
<1>9. \A i \in 1 .. BoxMax : IF i > n THEN boxes[i] = NoBox ELSE i \in 1 .. n /\ boxes[i] = D[i]
  BY <1>1, <1>4, <1>7, UserAssumption
<1>10. boxes \in [1 .. BoxMax -> Boxes]
  BY <1>1, <1>6, <1>8, <1>9
<1>11. ASSUME NEW i \in 1 .. BoxMax, NEW j \in 1 .. BoxMax,
              boxes[i].used, boxes[j].used, boxes[i].name = boxes[j].name
       PROVE  i = j
  <2>1. i \in 1 .. n /\ j \in 1 .. n /\ Defaults[i][1] = Defaults[j][1]
    BY <1>6, <1>8, <1>9, <1>11
  <2> QED
    BY <1>4, <2>1, UserAssumption
<1>12. BoxesAreSound
  BY <1>1, <1>11 DEF BoxesAreSound
<1>13. active \in 0 .. BoxMax
  <2>1. BoxMax \in Nat /\ active = 0
    BY <1>1, UserAssumption
  <2> QED
    BY <2>1
<1>14. sandbox \in BOOLEAN /\ caps \in SUBSET All
  <2>1. sandbox = FALSE /\ caps = All
    BY <1>1
  <2> QED
    BY <2>1, Zenon
<1> QED
  BY <1>2, <1>3, <1>10, <1>12, <1>13, <1>14 DEF RightsInv

FilesTypeOK ==
  /\ fds \in [1 .. FdMax -> [of : Contents, off : Nat]] /\ slot \in [Range(Place) -> Contents]
  /\ libs \in [1 .. HandleMax -> [used : BOOLEAN, of : Contents]] /\ base \in Contents
  /\ opened \in [fd : [1 .. FdMax -> Contents], lib : [1 .. HandleMax -> Contents]]

FilesInv == FilesTypeOK /\ DescriptorsAreLawful

\* What is opened takes the place of what was opened of its kind, which leaves
\* every name lawful.
LEMMA SlotTaken ==
  ASSUME slot \in [Range(Place) -> Contents], NEW file \in Files, slot' = [slot EXCEPT ![Place[file]] = file]
  PROVE  /\ slot' \in [Range(Place) -> Contents] /\ Lawful(file)'
         /\ \A ref \in Contents : Lawful(ref) => Lawful(ref)'
<1>1. Place[file] \in Range(Place) /\ file \in Contents /\ file # None
  BY UserAssumption DEF Files, Range, Contents
<1>2. slot' \in [Range(Place) -> Contents] /\ slot'[Place[file]] = file
  BY <1>1
<1>3. ASSUME NEW ref \in Contents, Lawful(ref), ref # None PROVE Lawful(ref)'
  <2>1. ref \in Files /\ Place[ref] \in Range(Place)
    BY <1>3 DEF Contents, Files, Range
  <2>2. CASE Place[ref] = "rom"
    BY <2>1, <2>2 DEF Lawful, Behind
  <2>3. CASE Place[ref] # "rom" /\ Place[ref] = Place[file]
    BY <1>2, <2>1, <2>3 DEF Lawful, Behind
  <2>4. CASE Place[ref] # "rom" /\ Place[ref] # Place[file]
    <3>1. slot'[Place[ref]] = slot[Place[ref]]
      BY <2>1, <2>4
    <3> QED
      BY <1>3, <2>4, <3>1 DEF Lawful, Behind
  <2> QED
    BY <2>2, <2>3, <2>4
<1>4. Lawful(file)'
  BY <1>2 DEF Lawful, Behind
<1>5. ASSUME NEW ref \in Contents, ref = None PROVE Lawful(ref)'
  BY <1>5 DEF Lawful
<1> QED
  BY <1>2, <1>3, <1>4, <1>5

LEMMA FilesOpen ==
  ASSUME FilesInv, NEW file \in Files, slot' = [slot EXCEPT ![Place[file]] = file],
         fds' \in [1 .. FdMax -> [of : Contents, off : Nat]],
         libs' \in [1 .. HandleMax -> [used : BOOLEAN, of : Contents]], base' \in Contents,
         opened' \in [fd : [1 .. FdMax -> Contents], lib : [1 .. HandleMax -> Contents]],
         \A i \in 1 .. FdMax : fds'[i].of \in {fds[i].of, file, None},
         \A h \in 1 .. HandleMax : libs'[h].of \in {libs[h].of, file},
         prog'.as # None /\ Blocked("FS")' => \A i \in 1 .. FdMax : fds'[i].of = None
  PROVE  FilesInv'
<1>1. /\ slot' \in [Range(Place) -> Contents] /\ Lawful(file)'
      /\ \A ref \in Contents : Lawful(ref) => Lawful(ref)'
  BY SlotTaken DEF FilesInv, FilesTypeOK
<1>2. Lawful(None)'
  BY DEF Lawful
<1>3. ASSUME NEW i \in 1 .. FdMax PROVE Lawful(fds[i].of)'
  <2>1. PICK ref \in Contents : ref = fds'[i].of
    OBVIOUS
  <2>2. fds[i].of \in Contents /\ Lawful(fds[i].of)
    BY DEF FilesInv, FilesTypeOK, DescriptorsAreLawful
  <2>3. PICK old \in Contents : old = fds[i].of
    BY <2>2
  <2>4. Lawful(old)'
    BY <1>1, <2>2, <2>3
  <2>5. ref = old \/ ref = file \/ ref = None
    BY <2>1, <2>3
  <2>6. Lawful(ref)'
    BY <1>1, <1>2, <2>4, <2>5
  <2> QED
    BY <2>1, <2>6 DEF Lawful, Behind
<1>4. ASSUME NEW h \in 1 .. HandleMax PROVE Lawful(libs[h].of)'
  <2>1. PICK ref \in Contents : ref = libs'[h].of
    OBVIOUS
  <2>2. libs[h].of \in Contents /\ Lawful(libs[h].of)
    BY DEF FilesInv, FilesTypeOK, DescriptorsAreLawful
  <2>3. PICK old \in Contents : old = libs[h].of
    BY <2>2
  <2>4. Lawful(old)'
    BY <1>1, <2>2, <2>3
  <2>5. ref = old \/ ref = file
    BY <2>1, <2>3
  <2>6. Lawful(ref)'
    BY <1>1, <2>4, <2>5
  <2> QED
    BY <2>1, <2>6 DEF Lawful, Behind
<1>5. DescriptorsAreLawful'
  BY <1>3, <1>4 DEF DescriptorsAreLawful
<1> QED
  BY <1>1, <1>5 DEF FilesInv, FilesTypeOK

\* Without opening anything names only go.
LEMMA FilesStay ==
  ASSUME FilesInv, slot' = slot,
         fds' \in [1 .. FdMax -> [of : Contents, off : Nat]],
         libs' \in [1 .. HandleMax -> [used : BOOLEAN, of : Contents]], base' \in Contents,
         opened' \in [fd : [1 .. FdMax -> Contents], lib : [1 .. HandleMax -> Contents]],
         \A i \in 1 .. FdMax : fds'[i].of \in {fds[i].of, None},
         \A h \in 1 .. HandleMax : libs'[h].of = libs[h].of,
         prog'.as # None /\ Blocked("FS")' => \A i \in 1 .. FdMax : fds'[i].of = None
  PROVE  FilesInv'
<1>1. ASSUME NEW i \in 1 .. FdMax PROVE Lawful(fds[i].of)'
  <2>1. Lawful(fds[i].of)
    BY DEF FilesInv, DescriptorsAreLawful
  <2> QED
    BY <2>1 DEF Lawful, Behind
<1>2. ASSUME NEW h \in 1 .. HandleMax PROVE Lawful(libs[h].of)'
  <2>1. Lawful(libs[h].of)
    BY DEF FilesInv, DescriptorsAreLawful
  <2> QED
    BY <2>1 DEF Lawful, Behind
<1>3. DescriptorsAreLawful'
  BY <1>1, <1>2 DEF DescriptorsAreLawful
<1> QED
  BY <1>3 DEF FilesInv, FilesTypeOK

LEMMA FilesRest ==
  ASSUME FilesInv, UNCHANGED callVars, UNCHANGED <<caps, prog>>
  PROVE  FilesInv'
<1>1. FilesTypeOK'
  BY DEF FilesInv, FilesTypeOK, callVars
<1>2. DescriptorsAreLawful'
  BY DEF FilesInv, DescriptorsAreLawful, Lawful, Behind, Blocked, callVars
<1> QED
  BY <1>1, <1>2 DEF FilesInv

LEMMA FilesAtStart ==
  ASSUME FilesInv, prog.as = None, NEW file \in DOMAIN Programs, NEW as, NEW box, NEW rights,
         Start(as, box, rights, file), UNCHANGED <<libs, base>>
  PROVE  FilesInv'
<1>1. file \in Files /\ slot' = [slot EXCEPT ![Place[file]] = file] /\ libs' = libs /\ base' = base
  BY UserAssumption DEF Start
<1>2. CASE Programs[file] # 0
  <2>1. prog' = prog /\ fds' = fds /\ opened' = opened
    BY <1>2 DEF Start
  <2> QED
    BY <1>1, <2>1, FilesOpen DEF FilesInv, FilesTypeOK
<1>3. CASE Programs[file] = 0
  <2>1. /\ fds' = [i \in 1 .. FdMax |-> [of |-> None, off |-> 0]]
        /\ opened' = [fd |-> [i \in 1 .. FdMax |-> None], lib |-> opened.lib]
    BY <1>3 DEF Start
  <2>2. None \in Contents
    BY DEF Contents
  <2>3. fds' \in [1 .. FdMax -> [of : Contents, off : Nat]] /\ \A i \in 1 .. FdMax : fds'[i].of = None
    BY <2>1, <2>2
  <2>4. opened' \in [fd : [1 .. FdMax -> Contents], lib : [1 .. HandleMax -> Contents]]
    BY <2>1, <2>2 DEF FilesInv, FilesTypeOK
  <2> QED
    BY <1>1, <2>3, <2>4, FilesOpen DEF FilesInv, FilesTypeOK
<1> QED
  BY <1>2, <1>3

LEMMA SampleKeepsFiles ==
  ASSUME FilesInv, NEW library \in Libs, NEW boxed \in BOOLEAN, Sample(library, boxed)
  PROVE  FilesInv'
<1>1. prog.as = None /\ prog' = prog /\ fds' = fds /\ libs' = libs /\ opened' = opened
  BY DEF Sample
<1>2. library \in Files /\ library \in Contents
  BY UserAssumption DEF Contents
<1>3. base' \in Contents
  <2>1. base' \in {base, library}
    BY DEF Sample
  <2> QED
    BY <1>2, <2>1 DEF FilesInv, FilesTypeOK
<1>4. CASE boxed
  <2>1. slot' = slot
    BY <1>4 DEF Sample
  <2> QED
    BY <1>1, <1>3, <2>1, FilesStay DEF FilesInv, FilesTypeOK
<1>5. CASE ~boxed
  <2>1. slot' = [slot EXCEPT ![Place[library]] = library]
    BY <1>5 DEF Sample
  <2> QED
    BY <1>1, <1>2, <1>3, <2>1, FilesOpen DEF FilesInv, FilesTypeOK
<1> QED
  BY <1>4, <1>5

LEMMA ExitKeepsFiles ==
  ASSUME FilesInv, Exit
  PROVE  FilesInv'
<1>1. prog' = [as |-> None, box |-> 0, old |-> All]
  BY DEF Exit
<1>2. prog'.as = None /\ slot' = slot /\ fds' = fds /\ libs' = libs /\ base' = base /\ opened' = opened
  BY <1>1 DEF Exit, callVars
<1> QED
  BY <1>2, FilesStay DEF FilesInv, FilesTypeOK

LEMMA OpenKeepsFiles ==
  ASSUME FilesInv, NEW file \in Files, Open(file)
  PROVE  FilesInv'
<1> DEFINE free == {i \in 1 .. FdMax : fds[i].of = None}
<1>1. PICK first : first = CHOOSE i \in free : \A j \in free : i <= j
  OBVIOUS
<1>2. /\ free # {} /\ slot' = [slot EXCEPT ![Place[file]] = file]
      /\ fds' = [fds EXCEPT ![first] = [of |-> file, off |-> 0]]
      /\ opened' = [opened EXCEPT !.fd[first] = file]
  BY <1>1, Zenon DEF Open
<1>3. ~Blocked("FS") /\ caps' = caps /\ libs' = libs /\ base' = base
  BY DEF Open
<1>4. first \in 1 .. FdMax
  <2>1. free \in SUBSET (1 .. FdMax) /\ FdMax \in Nat
    BY UserAssumption
  <2> HIDE DEF free
  <2> QED
    BY <1>1, <1>2, <2>1, First
<1>5. file \in Contents
  BY DEF Contents
<1>6. fds' \in [1 .. FdMax -> [of : Contents, off : Nat]] /\ \A i \in 1 .. FdMax : fds'[i].of \in {fds[i].of, file, None}
  BY <1>2, <1>4, <1>5 DEF FilesInv, FilesTypeOK
<1>7. opened' \in [fd : [1 .. FdMax -> Contents], lib : [1 .. HandleMax -> Contents]]
  BY <1>2, <1>4, <1>5 DEF FilesInv, FilesTypeOK
<1>8. ~Blocked("FS")'
  BY <1>3 DEF Blocked
<1> QED
  BY <1>2, <1>3, <1>6, <1>7, <1>8, FilesOpen DEF FilesInv, FilesTypeOK

LEMMA ReadKeepsFiles ==
  ASSUME FilesInv, NEW i \in 1 .. FdMax, Read(i)
  PROVE  FilesInv'
<1>1. fds' = [fds EXCEPT ![i].off = fds[i].off + 1]
  BY DEF Read
<1>2. ~Blocked("FS") /\ caps' = caps /\ slot' = slot /\ libs' = libs /\ base' = base /\ opened' = opened
  BY DEF Read
<1>3. ~Blocked("FS")'
  BY <1>2 DEF Blocked
<1>4. fds[i] \in [of : Contents, off : Nat]
  BY DEF FilesInv, FilesTypeOK
<1>5. fds' \in [1 .. FdMax -> [of : Contents, off : Nat]] /\ \A k \in 1 .. FdMax : fds'[k].of = fds[k].of
  BY <1>1, <1>4 DEF FilesInv, FilesTypeOK
<1> QED
  BY <1>2, <1>3, <1>5, FilesStay DEF FilesInv, FilesTypeOK

LEMMA CloseKeepsFiles ==
  ASSUME FilesInv, NEW i \in 1 .. FdMax, Close(i)
  PROVE  FilesInv'
<1>1. fds' = [fds EXCEPT ![i].of = None] /\ opened' = [opened EXCEPT !.fd[i] = None]
  BY DEF Close
<1>2. caps' = caps /\ prog' = prog /\ slot' = slot /\ libs' = libs /\ base' = base
  BY DEF Close
<1>3. None \in Contents
  BY DEF Contents
<1>4. /\ fds' \in [1 .. FdMax -> [of : Contents, off : Nat]]
      /\ \A k \in 1 .. FdMax : fds'[k].of \in {fds[k].of, None}
  BY <1>1, <1>3 DEF FilesInv, FilesTypeOK
<1>5. opened' \in [fd : [1 .. FdMax -> Contents], lib : [1 .. HandleMax -> Contents]]
  BY <1>1, <1>3 DEF FilesInv, FilesTypeOK
<1>6. prog'.as # None /\ Blocked("FS")' => \A k \in 1 .. FdMax : fds'[k].of = None
  <2>1. prog.as # None /\ Blocked("FS") => \A k \in 1 .. FdMax : fds[k].of = None
    BY DEF FilesInv, DescriptorsAreLawful
  <2> QED
    BY <1>2, <1>4, <2>1 DEF Blocked
<1> QED
  BY <1>2, <1>4, <1>5, <1>6, FilesStay DEF FilesInv, FilesTypeOK

LEMMA LoadLibKeepsFiles ==
  ASSUME FilesInv, NEW file \in Files, LoadLib(file)
  PROVE  FilesInv'
<1> DEFINE free == {h \in 1 .. HandleMax : ~libs[h].used}
<1>1. PICK first : first = CHOOSE h \in free : \A k \in free : h <= k
  OBVIOUS
<1>2. slot' = [slot EXCEPT ![Place[file]] = file] /\ caps' = caps /\ prog' = prog /\ fds' = fds
  BY DEF LoadLib
<1>3. prog'.as # None /\ Blocked("FS")' => \A i \in 1 .. FdMax : fds'[i].of = None
  BY <1>2 DEF FilesInv, DescriptorsAreLawful, Blocked
<1>4. CASE libs' = libs /\ base' = base /\ opened' = opened
  BY <1>2, <1>3, <1>4, FilesOpen DEF FilesInv, FilesTypeOK
<1>5. CASE ~(libs' = libs /\ base' = base /\ opened' = opened)
  <2>1. /\ free # {} /\ libs' = [libs EXCEPT ![first] = [used |-> TRUE, of |-> file]] /\ base' = file
        /\ opened' = [opened EXCEPT !.lib[first] = file]
    BY <1>1, <1>5, Zenon DEF LoadLib
  <2>2. first \in 1 .. HandleMax
    <3>1. free \in SUBSET (1 .. HandleMax) /\ HandleMax \in Nat
      BY UserAssumption
    <3> HIDE DEF free
    <3> QED
      BY <1>1, <2>1, <3>1, First
  <2>3. file \in Contents
    BY DEF Contents
  <2>4. /\ libs' \in [1 .. HandleMax -> [used : BOOLEAN, of : Contents]]
        /\ \A h \in 1 .. HandleMax : libs'[h].of \in {libs[h].of, file}
    BY <2>1, <2>2, <2>3 DEF FilesInv, FilesTypeOK
  <2>5. opened' \in [fd : [1 .. FdMax -> Contents], lib : [1 .. HandleMax -> Contents]]
    BY <2>1, <2>2, <2>3 DEF FilesInv, FilesTypeOK
  <2> QED
    BY <1>2, <1>3, <2>1, <2>3, <2>4, <2>5, FilesOpen DEF FilesInv, FilesTypeOK
<1> QED
  BY <1>4, <1>5

LEMMA CloseLibKeepsFiles ==
  ASSUME FilesInv, NEW h \in 1 .. HandleMax, CloseLib(h)
  PROVE  FilesInv'
<1>1. libs' = [libs EXCEPT ![h].used = FALSE] /\ opened' = [opened EXCEPT !.lib[h] = None]
  BY DEF CloseLib
<1>2. caps' = caps /\ prog' = prog /\ slot' = slot /\ fds' = fds /\ base' = base
  BY DEF CloseLib
<1>3. None \in Contents
  BY DEF Contents
<1>4. /\ libs' \in [1 .. HandleMax -> [used : BOOLEAN, of : Contents]]
      /\ \A k \in 1 .. HandleMax : libs'[k].of = libs[k].of
  BY <1>1 DEF FilesInv, FilesTypeOK
<1>5. opened' \in [fd : [1 .. FdMax -> Contents], lib : [1 .. HandleMax -> Contents]]
  BY <1>1, <1>3 DEF FilesInv, FilesTypeOK
<1>6. prog'.as # None /\ Blocked("FS")' => \A k \in 1 .. FdMax : fds'[k].of = None
  BY <1>2 DEF FilesInv, DescriptorsAreLawful, Blocked
<1> QED
  BY <1>2, <1>4, <1>5, <1>6, FilesStay DEF FilesInv, FilesTypeOK

LEMMA FilesStart == UserInit => FilesInv
<1> SUFFICES ASSUME UserInit PROVE FilesInv
  OBVIOUS
<1>1. /\ fds = [i \in 1 .. FdMax |-> [of |-> None, off |-> 0]] /\ slot = [k \in Range(Place) |-> None]
      /\ libs = [h \in 1 .. HandleMax |-> [used |-> FALSE, of |-> None]] /\ base = None
      /\ opened = [fd |-> [i \in 1 .. FdMax |-> None], lib |-> [h \in 1 .. HandleMax |-> None]]
  BY DEF UserInit
<1>2. None \in Contents
  BY DEF Contents
<1>3. FilesTypeOK
  BY <1>1, <1>2 DEF FilesTypeOK
<1>4. Lawful(None)
  BY DEF Lawful
<1>5. (\A i \in 1 .. FdMax : fds[i].of = None) /\ \A h \in 1 .. HandleMax : libs[h].of = None
  BY <1>1
<1>6. DescriptorsAreLawful
  BY <1>4, <1>5 DEF DescriptorsAreLawful
<1> QED
  BY <1>3, <1>6 DEF FilesInv

UserInv == RightsInv /\ FilesInv /\ KeyInv /\ PortInv /\ used \in Nat

LEMMA UserStart == UserInit => UserInv
<1>1. UserInit => used \in Nat
  BY DEF UserInit
<1> QED
  BY <1>1, RightsStart, FilesStart, KeysStart, PortsStart DEF UserInv

\* What an action leaves alone.
LEMMA RightsRest ==
  ASSUME RightsInv, UNCHANGED boxVars, UNCHANGED <<caps, prog>>
  PROVE  RightsInv'
  BY DEF RightsInv, RightsAreGivenBack, BoxesAreSound, boxVars

LEMMA KeysRest ==
  ASSUME KeyInv, UNCHANGED <<keys, typed>>
  PROVE  KeyInv'
  BY DEF KeyInv, Pressed

LEMMA PortsRest ==
  ASSUME PortInv, UNCHANGED portVars
  PROVE  PortInv'
  BY DEF PortInv, portVars

LEMMA KeysAtStart ==
  ASSUME KeyInv, NEW file, NEW as, NEW box, NEW rights, Start(as, box, rights, file)
  PROVE  KeyInv'
<1>1. CASE Programs[file] # 0
  BY <1>1, KeysRest DEF Start
<1>2. CASE Programs[file] = 0
  BY <1>2, KeysClear DEF Start
<1> QED
  BY <1>1, <1>2

LEMMA CountRest ==
  ASSUME used \in Nat, Free
  PROVE  used' \in Nat
  BY DEF Free

LEMMA BoxStep ==
  ASSUME UserInv, BoxNext
  PROVE  UserInv'
<1>0. RightsInv /\ FilesInv /\ KeyInv /\ PortInv /\ used \in Nat
  BY DEF UserInv
<1>1. ASSUME NEW name \in BoxNames, NEW profile \in DOMAIN Profiles, Create(name, profile) PROVE UserInv'
  <2>1. Free /\ UNCHANGED callVars /\ UNCHANGED <<caps, prog>> /\ UNCHANGED <<keys, typed>> /\ UNCHANGED portVars
    BY <1>1 DEF Create
  <2> QED
    BY <1>0, <1>1, <2>1, CreateKeeps, FilesRest, KeysRest, PortsRest, CountRest DEF UserInv
<1>2. ASSUME NEW name \in BoxNames, RemoveBox(name) PROVE UserInv'
  <2>1. Free /\ UNCHANGED callVars /\ UNCHANGED <<caps, prog>> /\ UNCHANGED <<keys, typed>> /\ UNCHANGED portVars
    BY <1>2 DEF RemoveBox
  <2> QED
    BY <1>0, <1>2, <2>1, RemoveBoxKeeps, FilesRest, KeysRest, PortsRest, CountRest DEF UserInv
<1>3. ASSUME NEW name \in BoxNames, Use(name) PROVE UserInv'
  <2>1. /\ Free /\ UNCHANGED callVars /\ UNCHANGED <<caps, prog>> /\ UNCHANGED <<keys, typed>> /\ UNCHANGED portVars
        /\ UNCHANGED <<boxes, caps, prog>> /\ sandbox' = sandbox /\ active' \in Box(name)
    BY <1>3 DEF Use
  <2>2. active' \in 0 .. BoxMax /\ boxes[active'].used /\ sandbox' \in BOOLEAN
    BY <1>0, <2>1 DEF Box, RightsInv
  <2> QED
    BY <1>0, <2>1, <2>2, ChoiceKeeps, FilesRest, KeysRest, PortsRest, CountRest DEF UserInv
<1>4. ASSUME Leave PROVE UserInv'
  <2>1. /\ Free /\ UNCHANGED callVars /\ UNCHANGED <<caps, prog>> /\ UNCHANGED <<keys, typed>> /\ UNCHANGED portVars
        /\ UNCHANGED <<boxes, caps, prog>> /\ sandbox' = sandbox /\ active' = 0
    BY <1>4 DEF Leave
  <2>2. active' \in 0 .. BoxMax /\ sandbox' \in BOOLEAN
    BY <1>0, <2>1, UserAssumption DEF RightsInv
  <2> QED
    BY <1>0, <2>1, <2>2, ChoiceKeeps, FilesRest, KeysRest, PortsRest, CountRest DEF UserInv
<1>5. ASSUME NEW on \in BOOLEAN, SetSandbox(on) PROVE UserInv'
  <2>1. /\ Free /\ UNCHANGED callVars /\ UNCHANGED <<caps, prog>> /\ UNCHANGED <<keys, typed>> /\ UNCHANGED portVars
        /\ UNCHANGED <<boxes, caps, prog>> /\ sandbox' \in BOOLEAN /\ active' = active
    BY <1>5 DEF SetSandbox
  <2>2. active' \in 0 .. BoxMax /\ (active' # 0 => boxes[active'].used)
    BY <1>0, <2>1 DEF RightsInv, BoxesAreSound
  <2> QED
    BY <1>0, <2>1, <2>2, ChoiceKeeps, FilesRest, KeysRest, PortsRest, CountRest DEF UserInv
<1>6. ASSUME NEW file \in DOMAIN Programs, Run(file) PROVE UserInv'
  <2>1. Free /\ prog.as = None /\ UNCHANGED <<libs, base>> /\ UNCHANGED portVars
    BY <1>6 DEF Run
  <2>2. PICK as, box, rights : Start(as, box, rights, file)
    BY <1>6, Zenon DEF Run
  <2> QED
    BY <1>0, <1>6, <2>1, <2>2, RunKeeps, FilesAtStart, KeysAtStart, PortsRest, CountRest DEF UserInv
<1>7. ASSUME NEW file \in DOMAIN Programs, NEW name \in BoxNames, RunIn(name, file) PROVE UserInv'
  <2>1. Free /\ prog.as = None /\ UNCHANGED <<libs, base>> /\ UNCHANGED portVars
    BY <1>7 DEF RunIn
  <2>2. PICK as, box, rights : Start(as, box, rights, file)
    BY <1>7, Zenon DEF RunIn
  <2> QED
    BY <1>0, <1>7, <2>1, <2>2, RunInKeeps, FilesAtStart, KeysAtStart, PortsRest, CountRest DEF UserInv
<1>8. ASSUME NEW library \in Libs, NEW boxed \in BOOLEAN, Sample(library, boxed) PROVE UserInv'
  <2>1. Free /\ UNCHANGED boxVars /\ UNCHANGED <<caps, prog>> /\ UNCHANGED <<keys, typed>> /\ UNCHANGED portVars
    BY <1>8 DEF Sample
  <2> QED
    BY <1>0, <1>8, <2>1, RightsRest, SampleKeepsFiles, KeysRest, PortsRest, CountRest DEF UserInv
<1> QED
  BY <1>1, <1>2, <1>3, <1>4, <1>5, <1>6, <1>7, <1>8 DEF BoxNext

LEMMA CallStep ==
  ASSUME UserInv, CallNext
  PROVE  UserInv'
<1>0. RightsInv /\ FilesInv /\ KeyInv /\ PortInv /\ used \in Nat
  BY DEF UserInv
<1>1. ASSUME Exit PROVE UserInv'
  <2>1. Free /\ UNCHANGED <<keys, typed>> /\ UNCHANGED portVars
    BY <1>1 DEF Exit
  <2> QED
    BY <1>0, <1>1, <2>1, ExitKeeps, ExitKeepsFiles, KeysRest, PortsRest, CountRest DEF UserInv
<1>2. ASSUME NEW file \in Files, Open(file) PROVE UserInv'
  <2>1. Free /\ UNCHANGED boxVars /\ UNCHANGED <<caps, prog>> /\ UNCHANGED <<keys, typed>> /\ UNCHANGED portVars
    BY <1>2, Zenon DEF Open
  <2> QED
    BY <1>0, <1>2, <2>1, RightsRest, OpenKeepsFiles, KeysRest, PortsRest, CountRest DEF UserInv
<1>3. ASSUME NEW file \in Files, LoadLib(file) PROVE UserInv'
  <2>1. Free /\ UNCHANGED boxVars /\ UNCHANGED <<caps, prog>> /\ UNCHANGED <<keys, typed>> /\ UNCHANGED portVars
    BY <1>3 DEF LoadLib
  <2> QED
    BY <1>0, <1>3, <2>1, RightsRest, LoadLibKeepsFiles, KeysRest, PortsRest, CountRest DEF UserInv
<1>4. ASSUME NEW i \in 1 .. FdMax, Read(i) PROVE UserInv'
  <2>1. Free /\ UNCHANGED boxVars /\ UNCHANGED <<caps, prog>> /\ UNCHANGED <<keys, typed>> /\ UNCHANGED portVars
    BY <1>4 DEF Read
  <2> QED
    BY <1>0, <1>4, <2>1, RightsRest, ReadKeepsFiles, KeysRest, PortsRest, CountRest DEF UserInv
<1>5. ASSUME NEW i \in 1 .. FdMax, Close(i) PROVE UserInv'
  <2>1. Free /\ UNCHANGED boxVars /\ UNCHANGED <<caps, prog>> /\ UNCHANGED <<keys, typed>> /\ UNCHANGED portVars
    BY <1>5 DEF Close
  <2> QED
    BY <1>0, <1>5, <2>1, RightsRest, CloseKeepsFiles, KeysRest, PortsRest, CountRest DEF UserInv
<1>6. ASSUME NEW h \in 1 .. HandleMax, Sym(h) PROVE UserInv'
  <2>1. /\ Free /\ UNCHANGED boxVars /\ UNCHANGED <<caps, prog>> /\ UNCHANGED callVars
        /\ UNCHANGED <<keys, typed>> /\ UNCHANGED portVars
    BY <1>6 DEF Sym
  <2> QED
    BY <1>0, <2>1, RightsRest, FilesRest, KeysRest, PortsRest, CountRest DEF UserInv
<1>7. ASSUME NEW h \in 1 .. HandleMax, CloseLib(h) PROVE UserInv'
  <2>1. Free /\ UNCHANGED boxVars /\ UNCHANGED <<caps, prog>> /\ UNCHANGED <<keys, typed>> /\ UNCHANGED portVars
    BY <1>7 DEF CloseLib
  <2> QED
    BY <1>0, <1>7, <2>1, RightsRest, CloseLibKeepsFiles, KeysRest, PortsRest, CountRest DEF UserInv
<1>8. ASSUME NEW k \in Keys, PushKey(k) PROVE UserInv'
  <2>1. /\ Free /\ UNCHANGED boxVars /\ UNCHANGED <<caps, prog>> /\ UNCHANGED callVars /\ UNCHANGED portVars
    BY <1>8 DEF PushKey
  <2> QED
    BY <1>0, <1>8, <2>1, RightsRest, FilesRest, PushKeeps, PortsRest, CountRest DEF UserInv
<1>9. ASSUME GetKey PROVE UserInv'
  <2>1. /\ Free /\ UNCHANGED boxVars /\ UNCHANGED <<caps, prog>> /\ UNCHANGED callVars /\ UNCHANGED portVars
    BY <1>9 DEF GetKey
  <2> QED
    BY <1>0, <1>9, <2>1, RightsRest, FilesRest, GetKeeps, PortsRest, CountRest DEF UserInv
<1> QED
  BY <1>1, <1>2, <1>3, <1>4, <1>5, <1>6, <1>7, <1>8, <1>9 DEF CallNext

LEMMA PortStep ==
  ASSUME UserInv, PortNext
  PROVE  UserInv'
<1>0. RightsInv /\ FilesInv /\ KeyInv /\ PortInv /\ used \in Nat
  BY DEF UserInv
<1>1. ASSUME NEW p \in PortIds, NEW len \in Messages \cup {0}, Send(p, len) PROVE UserInv'
  <2>1. Free /\ UNCHANGED boxVars /\ UNCHANGED <<caps, prog>> /\ UNCHANGED callVars /\ UNCHANGED <<keys, typed>>
    BY <1>1 DEF Send
  <2> QED
    BY <1>0, <1>1, <2>1, RightsRest, FilesRest, KeysRest, SendKeeps, CountRest DEF UserInv
<1>2. ASSUME NEW p \in PortIds, NEW len \in Messages \cup {0}, Recv(p, len) PROVE UserInv'
  <2>1. Free /\ UNCHANGED boxVars /\ UNCHANGED <<caps, prog>> /\ UNCHANGED callVars /\ UNCHANGED <<keys, typed>>
    BY <1>2 DEF Recv
  <2> QED
    BY <1>0, <1>2, <2>1, RightsRest, FilesRest, KeysRest, RecvKeeps, CountRest DEF UserInv
<1> QED
  BY <1>1, <1>2 DEF PortNext

LEMMA UserStep == UserInv /\ [UserNext]_userVars => UserInv'
<1> SUFFICES ASSUME UserInv, [UserNext]_userVars PROVE UserInv'
  OBVIOUS
<1>1. CASE UNCHANGED userVars
  <2>1. RightsInv /\ FilesInv /\ KeyInv /\ PortInv /\ used \in Nat
    BY DEF UserInv
  <2>2. /\ UNCHANGED boxVars /\ UNCHANGED <<caps, prog>> /\ UNCHANGED callVars /\ UNCHANGED <<keys, typed>>
        /\ UNCHANGED portVars /\ used' = used
    BY <1>1 DEF userVars
  <2> QED
    BY <2>1, <2>2, RightsRest, FilesRest, KeysRest, PortsRest DEF UserInv
<1> QED
  BY <1>1, BoxStep, CallStep, PortStep DEF UserNext

\* The containers, the running program, its descriptors and libraries, the key
\* queue and the ports keep their types (lcontainer.c, syscall.c, ldll.c,
\* lipc.c), with any limits, programs and default containers.
THEOREM UserTypeCorrect == UserSpec => []UserTypeOK
<1>1. UserInv => UserTypeOK
  BY DEF UserInv, RightsInv, FilesInv, FilesTypeOK, KeyInv, KeyValues, PortInv, UserTypeOK
<1> QED
  BY <1>1, UserStart, UserStep, PTL DEF UserSpec

\* A program is held to its rights and files and gives the rights back, and keys
\* and messages come out in the order they went in, whatever is run, refused,
\* opened, closed, sent and received between (lcontainer_run, lardx_run_sandbox,
\* cap_blocks, SYS_OPEN, ldll_load, syscall_key_push, lipc_send, lipc_recv).
THEOREM ProgramsAreConfinedHolds == UserSpec => []ProgramsAreConfined
<1>1. UserInv => ProgramsAreConfined
  BY PortInvIsFifo, KeyInvIsInOrder DEF UserInv, RightsInv, FilesInv, ProgramsAreConfined
<1> QED
  BY <1>1, UserStart, UserStep, PTL DEF UserSpec

-----------------------------------------------------------------------------
(* Present: what gui_render puts on the screen. *)

\* A length of at least 4, in n bands: each is of one at least, and they follow
\* one another.
LEMMA Bands ==
  ASSUME NEW len \in Nat, len >= 4, NEW n \in 1 .. 4, NEW k \in 0 .. n - 1
  PROVE  /\ (len * k) \div n \in Nat /\ (len * (k + 1)) \div n \in Nat
         /\ (len * k) \div n < (len * (k + 1)) \div n /\ (len * (k + 1)) \div n <= len
<1>1. CASE n = 1
  <2>1. k = 0
    BY <1>1
  <2> QED
    BY <1>1, <2>1
<1>2. CASE n = 2
  <2>1. k = 0 \/ k = 1
    BY <1>2
  <2>2. /\ (len * 0) \div 2 = 0 /\ (len * 1) \div 2 \in Nat /\ (len * 1) \div 2 >= 1 /\ (len * 1) \div 2 < len
        /\ (len * 2) \div 2 = len
    OBVIOUS
  <2>3. CASE k = 0
    BY <1>2, <2>2, <2>3
  <2>4. CASE k = 1
    BY <1>2, <2>2, <2>4
  <2> QED
    BY <2>1, <2>3, <2>4
<1>3. CASE n = 3
  <2>1. k = 0 \/ k = 1 \/ k = 2
    BY <1>3
  <2>2. /\ (len * 0) \div 3 = 0 /\ (len * 1) \div 3 \in Nat /\ (len * 2) \div 3 \in Nat
        /\ (len * 1) \div 3 >= 1 /\ (len * 1) \div 3 < (len * 2) \div 3 /\ (len * 2) \div 3 < len
        /\ (len * 3) \div 3 = len
    OBVIOUS
  <2>3. CASE k = 0
    BY <1>3, <2>2, <2>3
  <2>4. CASE k = 1
    BY <1>3, <2>2, <2>4
  <2>5. CASE k = 2
    BY <1>3, <2>2, <2>5
  <2> QED
    BY <2>1, <2>3, <2>4, <2>5
<1>4. CASE n = 4
  <2>1. k = 0 \/ k = 1 \/ k = 2 \/ k = 3
    BY <1>4
  <2>2. /\ (len * 0) \div 4 = 0 /\ (len * 1) \div 4 \in Nat /\ (len * 2) \div 4 \in Nat /\ (len * 3) \div 4 \in Nat
        /\ (len * 1) \div 4 >= 1 /\ (len * 1) \div 4 < (len * 2) \div 4 /\ (len * 2) \div 4 < (len * 3) \div 4
        /\ (len * 3) \div 4 < len /\ (len * 4) \div 4 = len
    OBVIOUS
  <2>3. CASE k = 0
    BY <1>4, <2>2, <2>3
  <2>4. CASE k = 1
    BY <1>4, <2>2, <2>4
  <2>5. CASE k = 2
    BY <1>4, <2>2, <2>5
  <2>6. CASE k = 3
    BY <1>4, <2>2, <2>6
  <2> QED
    BY <2>1, <2>3, <2>4, <2>5, <2>6
<1> QED
  BY <1>1, <1>2, <1>3, <1>4

LEMMA RectsHave ==
  ASSUME NEW x \in Nat, NEW y \in Nat, NEW w \in Nat, NEW h \in Nat, x + w <= Width, y + h <= Height
  PROVE  Rect(x, y, w, h) \in Rects
BY PresentAssumption DEF Rects, Rect

\* Every monitor lies on the screen and has room for a bar and a row.
LEMMA MonitorsFit ==
  ASSUME NEW m \in MonitorSets, NEW i \in MonitorIndices(m)
  PROVE  MonitorRect(m, i) \in Rects /\ MonitorRect(m, i).w >= 1 /\ MonitorRect(m, i).h >= 1
<1> PICK c : c = Count(m)
  OBVIOUS
<1>1. c \in 1 .. 4 /\ i \in 0 .. c - 1 /\ i \in 0 .. 3
  BY DEF Count, MonitorSets, MonitorIndices, MaxMonitors
<1> DEFINE part(len, k, n) == (len * k) \div n
           band(k, n, len) == part(len, k + 1, n) - part(len, k, n)
           rows == (c + 1) \div 2
<1>2. Width \in Nat /\ Width >= 4 /\ Height \in Nat /\ Height >= 4
  BY PresentAssumption
<1>3. MonitorRect(m, i) = 
        IF m.layout \in {"single", "mirror"} \/ c = 1 THEN Screen
        ELSE CASE m.layout = "hstack" -> Rect(part(Width, i, c), 0, band(i, c, Width), Height)
        [] m.layout = "vstack" -> Rect(0, part(Height, i, c), Width, band(i, c, Height))
        [] m.layout = "grid" -> Rect(part(Width, i % 2, 2), part(Height, i \div 2, rows),
                                     band(i % 2, 2, Width), band(i \div 2, rows, Height))
  BY DEF MonitorRect
<1>4. m.layout \in Layouts
  BY DEF MonitorSets
<1>5. CASE m.layout \in {"single", "mirror"} \/ c = 1
  <2>1. MonitorRect(m, i) = Screen
    BY <1>3, <1>5
  <2> QED
    BY <2>1, <1>2, RectsHave DEF Screen, Rect
<1>6. CASE m.layout = "hstack" /\ c # 1
  <2> PICK a : a = part(Width, i, c)
    OBVIOUS
  <2> PICK b : b = part(Width, i + 1, c)
    OBVIOUS
  <2>1. a \in Nat /\ b \in Nat /\ a < b /\ b <= Width
    BY <1>1, <1>2, Bands
  <2>2. MonitorRect(m, i) = Rect(a, 0, b - a, Height)
    BY <1>3, <1>6
  <2> QED
    BY <2>1, <2>2, <1>2, RectsHave DEF Rect
<1>7. CASE m.layout = "vstack" /\ c # 1
  <2> PICK a : a = part(Height, i, c)
    OBVIOUS
  <2> PICK b : b = part(Height, i + 1, c)
    OBVIOUS
  <2>1. a \in Nat /\ b \in Nat /\ a < b /\ b <= Height
    BY <1>1, <1>2, Bands
  <2>2. MonitorRect(m, i) = Rect(0, a, Width, b - a)
    BY <1>3, <1>7
  <2> QED
    BY <2>1, <2>2, <1>2, RectsHave DEF Rect
<1>8. CASE m.layout = "grid" /\ c # 1
  <2> PICK k : k = i % 2
    OBVIOUS
  <2> PICK l : l = i \div 2
    OBVIOUS
  <2> PICK n : n = rows
    OBVIOUS
  <2>1. k \in 0 .. 1 /\ n \in 1 .. 4 /\ l \in 0 .. n - 1
    BY <1>1
  <2> PICK a : a = part(Width, k, 2)
    OBVIOUS
  <2> PICK b : b = part(Width, k + 1, 2)
    OBVIOUS
  <2> PICK d : d = part(Height, l, n)
    OBVIOUS
  <2> PICK e : e = part(Height, l + 1, n)
    OBVIOUS
  <2>2. a \in Nat /\ b \in Nat /\ a < b /\ b <= Width
    <3>1. 2 \in 1 .. 4 /\ k \in 0 .. 2 - 1
      BY <2>1
    <3> QED
      BY <3>1, <1>2, Bands
  <2>3. d \in Nat /\ e \in Nat /\ d < e /\ e <= Height
    BY <2>1, <1>2, Bands
  <2>4. MonitorRect(m, i) = Rect(a, d, b - a, e - d)
    BY <1>3, <1>8
  <2> QED
    BY <2>2, <2>3, <2>4, <1>2, RectsHave DEF Rect
<1> QED
  BY <1>4, <1>5, <1>6, <1>7, <1>8 DEF Layouts

LEMMA ActiveFits ==
  ASSUME NEW m \in MonitorSets
  PROVE  ActiveRect(m) \in Rects /\ ActiveRect(m).w >= 1 /\ ActiveRect(m).h >= 1
<1>1. 0 \in MonitorIndices(m)
  BY DEF MonitorIndices, Count, MonitorSets, MaxMonitors
<1>2. CASE m.active \in MonitorIndices(m)
  <2>1. ActiveRect(m) = MonitorRect(m, m.active)
    BY <1>2, Zenon DEF ActiveRect
  <2> QED
    BY <1>2, <2>1, MonitorsFit
<1>3. CASE m.active \notin MonitorIndices(m)
  <2>1. ActiveRect(m) = MonitorRect(m, 0)
    BY <1>3, Zenon DEF ActiveRect
  <2> QED
    BY <1>1, <2>1, MonitorsFit
<1> QED
  BY <1>2, <1>3

LEMMA MonitorAtIsOne ==
  ASSUME NEW m \in MonitorSets, NEW at
  PROVE  MonitorAt(m, at) \in 0 .. MaxMonitors - 1
<1> DEFINE there == {i \in MonitorIndices(m) : at \in Inside(MonitorRect(m, i))}
<1>1. there \subseteq {0, 1, 2, 3}
  BY DEF MonitorIndices, Count, MonitorSets, MaxMonitors
<1>2. MonitorAt(m, at) = IF there = {} THEN m.active ELSE CHOOSE i \in there : \A j \in there : i <= j
  BY Zenon DEF MonitorAt
<1> HIDE DEF there
<1>3. ASSUME there # {} PROVE \E i \in there : \A j \in there : i <= j
  <2>1. CASE 0 \in there
    BY <1>1, <2>1
  <2>2. CASE 0 \notin there /\ 1 \in there
    BY <1>1, <2>2
  <2>3. CASE 0 \notin there /\ 1 \notin there /\ 2 \in there
    BY <1>1, <2>3
  <2>4. CASE 0 \notin there /\ 1 \notin there /\ 2 \notin there
    <3>1. there = {3}
      BY <1>1, <1>3, <2>4
    <3> QED
      BY <3>1
  <2> QED
    BY <2>1, <2>2, <2>3, <2>4
<1>4. m.active \in 0 .. 3
  BY DEF MonitorSets, MaxMonitors
<1>5. CASE there # {}
  <2>1. MonitorAt(m, at) = CHOOSE i \in there : \A j \in there : i <= j
    BY <1>2, <1>5, Zenon
  <2>2. MonitorAt(m, at) \in there
    BY <1>3, <1>5, <2>1, Zenon
  <2> PICK v : v = MonitorAt(m, at)
    OBVIOUS
  <2>3. v \in {0, 1, 2, 3}
    BY ONLY <1>1, <2>2, v = MonitorAt(m, at)
  <2>4. v \in 0 .. MaxMonitors - 1
    BY <2>3 DEF MaxMonitors
  <2> QED
    BY <2>4
<1>6. CASE there = {}
  BY <1>2, <1>4, <1>6 DEF MaxMonitors
<1> QED
  BY <1>5, <1>6

\* Clamping brings a window onto the screen, wherever it was.
LEMMA ClampedFits ==
  ASSUME NEW w, NEW m \in MonitorSets, NEW s \in BOOLEAN, NEW f \in BOOLEAN, NEW back \in Rects,
         NEW x \in Int, NEW y \in Int, NEW wide \in Nat, NEW high \in Nat,
         w = [shown |-> s, rect |-> Rect(x, y, wide, high), restore |-> back, full |-> f]
  PROVE  Clamped(w, m) \in WindowRecords
<1>1. Width \in Nat /\ Height \in Nat
  BY PresentAssumption
<1>2. CASE f
  <2>1. Clamped(w, m) = [w EXCEPT !.rect = ActiveRect(m)]
    BY <1>2 DEF Clamped
  <2> QED
    BY <2>1, ActiveFits DEF WindowRecords
<1>3. CASE ~f
  <2> DEFINE into(v, most) == IF v < 0 THEN 0 ELSE IF v > most THEN most ELSE v
             c == IF w.rect.w > Width THEN Width ELSE w.rect.w
             d == IF w.rect.h > Height THEN Height ELSE w.rect.h
             a == into(w.rect.x, Width - c)
             b == into(w.rect.y, Height - d)
  <2>1. Clamped(w, m) = [w EXCEPT !.rect = Rect(a, b, c, d)]
    <3>1. ~w.full
      BY <1>3
    <3> QED
      BY <3>1, Zenon DEF Clamped
  <2>2. w.rect.x = x /\ w.rect.y = y /\ w.rect.w = wide /\ w.rect.h = high
    BY DEF Rect
  <2>3. c \in Nat /\ d \in Nat /\ c <= Width /\ d <= Height
    BY <1>1, <2>2
  <2> HIDE DEF c, d
  <2>4. a \in Nat /\ b \in Nat /\ a + c <= Width /\ b + d <= Height
    BY <1>1, <2>2, <2>3
  <2> HIDE DEF a, b
  <2>5. Rect(a, b, c, d) \in Rects
    BY <2>3, <2>4, RectsHave
  <2> QED
    BY <2>1, <2>5 DEF WindowRecords
<1> QED
  BY <1>2, <1>3

LEMMA WindowClamped ==
  ASSUME NEW w \in WindowRecords, NEW m \in MonitorSets
  PROVE  Clamped(w, m) \in WindowRecords
<1>1. /\ w = [shown |-> w.shown, rect |-> w.rect, restore |-> w.restore, full |-> w.full]
      /\ w.shown \in BOOLEAN /\ w.full \in BOOLEAN /\ w.restore \in Rects /\ w.rect \in Rects
  BY DEF WindowRecords
<1>2. /\ w.rect = Rect(w.rect.x, w.rect.y, w.rect.w, w.rect.h)
      /\ w.rect.x \in Nat /\ w.rect.y \in Nat /\ w.rect.w \in Nat /\ w.rect.h \in Nat
  BY <1>1, PresentAssumption DEF Rects, Rect
<1> PICK x \in Nat, y \in Nat, wide \in Nat, high \in Nat : w.rect = Rect(x, y, wide, high)
  BY <1>2
<1>3. w = [shown |-> w.shown, rect |-> Rect(x, y, wide, high), restore |-> w.restore, full |-> w.full]
  BY <1>1
<1> QED
  BY <1>1, <1>3, ClampedFits

LEMMA CentredRect ==
  ASSUME NEW m \in MonitorSets, Win \in WindowRecords
  PROVE  \E x \in Int, y \in Int, w \in Nat, h \in Nat : Centred(m) = Rect(x, y, w, h)
<1> PICK a \in Rects : a = ActiveRect(m) /\ a.w >= 1 /\ a.h >= 1
  BY ActiveFits
<1>1. a.x \in Nat /\ a.y \in Nat /\ a.w \in Nat /\ a.h \in Nat
  BY PresentAssumption DEF Rects
<1>2. Win.rect.w \in Nat /\ Win.rect.h \in Nat
  BY PresentAssumption DEF WindowRecords, Rects
<1> PICK w : w = IF Win.rect.w > a.w THEN a.w ELSE Win.rect.w
  OBVIOUS
<1> PICK h : h = IF Win.rect.h > a.h - 1 THEN a.h - 1 ELSE Win.rect.h
  OBVIOUS
<1>3. w \in Nat /\ h \in Nat
  BY <1>1, <1>2
<1> DEFINE p == (a.w - w) \div 2
           q == (a.h - 1 - h) \div 2
           x == a.x + p
           y == a.y + 1 + q
           z == IF y < a.y THEN a.y ELSE y
<1>4. p \in Int /\ q \in Int
  BY <1>1, <1>3
<1> HIDE DEF p, q
<1>5. x \in Int /\ z \in Int
  BY <1>1, <1>4
<1>6. Centred(m) = Rect(x, z, w, h)
  BY Zenon DEF Centred, p, q
<1> HIDE DEF x, z
<1> QED
  BY <1>3, <1>5, <1>6

LEMMA ParsedIsASet ==
  ASSUME NEW f, f.count \in Nat, f.active \in Nat, f.layout \in Layouts
  PROVE  Parsed(f) \in MonitorSets
<1> PICK most : most = IF f.count > MaxMonitors THEN MaxMonitors ELSE IF f.count < 1 THEN 1 ELSE f.count
  OBVIOUS
<1> PICK n : n = IF f.layout = "single" THEN 1 ELSE most
  OBVIOUS
<1> PICK a : a = IF f.active >= n THEN n - 1 ELSE f.active
  OBVIOUS
<1>1. n \in 1 .. MaxMonitors
  BY DEF MaxMonitors
<1>2. a \in 0 .. MaxMonitors - 1
  BY <1>1 DEF MaxMonitors
<1>3. Parsed(f) = [count |-> n, layout |-> f.layout, active |-> a]
  BY Zenon DEF Parsed
<1> QED
  BY <1>1, <1>2, <1>3 DEF MonitorSets

LEMMA ConfigsParse ==
  ASSUME NEW f \in MonitorSets \cup UserFiles
  PROVE  Parsed(f) \in MonitorSets
<1>1. f.count \in Nat /\ f.active \in Nat /\ f.layout \in Layouts
  BY DEF MonitorSets, UserFiles, Layouts, MaxMonitors
<1> QED
  BY <1>1, ParsedIsASet

LEMMA CommandsKeepMonitors ==
  ASSUME monitors \in MonitorSets
  PROVE  /\ \A n \in 1 .. MaxMonitors : WithCount(n) \in MonitorSets
         /\ \A l \in Layouts : WithLayout(l) \in MonitorSets
         /\ \A i \in MonitorIndices(monitors) : [monitors EXCEPT !.active = i] \in MonitorSets
         /\ \A at : [monitors EXCEPT !.active = MonitorAt(monitors, at)] \in MonitorSets
<1>1. ASSUME NEW n \in 1 .. MaxMonitors PROVE WithCount(n) \in MonitorSets
  <2> PICK a : a = IF monitors.active >= n THEN n - 1 ELSE monitors.active
    OBVIOUS
  <2> PICK l : l = IF n = 1 THEN "single" ELSE IF monitors.layout = "single" THEN "hstack" ELSE monitors.layout
    OBVIOUS
  <2>1. a \in 0 .. MaxMonitors - 1
    BY DEF MonitorSets, MaxMonitors
  <2>2. l \in Layouts
    BY DEF MonitorSets, Layouts
  <2>3. WithCount(n) = [count |-> n, active |-> a, layout |-> l]
    BY Zenon DEF WithCount
  <2> QED
    BY <2>1, <2>2, <2>3 DEF MonitorSets
<1>2. ASSUME NEW l \in Layouts PROVE WithLayout(l) \in MonitorSets
  <2>1. CASE l = "single"
    BY <2>1 DEF WithLayout, MonitorSets, MaxMonitors
  <2>2. CASE l # "single"
    <3> PICK n : n = IF monitors.count < 2 THEN 2 ELSE monitors.count
      OBVIOUS
    <3>1. n \in 1 .. MaxMonitors
      BY DEF MonitorSets, MaxMonitors
    <3>2. WithLayout(l) = [monitors EXCEPT !.layout = l, !.count = n]
      BY <2>2 DEF WithLayout, MonitorSets
    <3> QED
      BY <3>1, <3>2 DEF MonitorSets
  <2> QED
    BY <2>1, <2>2
<1>3. ASSUME NEW i \in MonitorIndices(monitors) PROVE [monitors EXCEPT !.active = i] \in MonitorSets
  <2>1. i \in 0 .. MaxMonitors - 1
    BY DEF MonitorIndices, Count, MonitorSets, MaxMonitors
  <2> QED
    BY <2>1 DEF MonitorSets
<1>4. ASSUME NEW at PROVE [monitors EXCEPT !.active = MonitorAt(monitors, at)] \in MonitorSets
  <2>1. MonitorAt(monitors, at) \in 0 .. MaxMonitors - 1
    BY MonitorAtIsOne
  <2> QED
    BY <2>1 DEF MonitorSets
<1> QED
  BY <1>1, <1>2, <1>3, <1>4

LEMMA AppliedFits ==
  ASSUME DesktopOK, NEW m \in MonitorSets, Applied(m)
  PROVE  monitors' \in MonitorSets /\ windows' \in [Applications -> WindowRecords]
<1>1. ui.app \in Applications
  BY DEF DesktopOK, UiRecords
<1>2. Clamped(Win, m) \in WindowRecords
  BY <1>1, WindowClamped DEF DesktopOK, Win
<1> QED
  BY <1>1, <1>2 DEF DesktopOK, Applied

\* A window is put in place of another, the rest of the desktop as it was.
LEMMA WindowsKeep ==
  ASSUME DesktopOK
  PROVE  /\ ui.app \in Applications /\ 1 - ui.app \in Applications /\ Win \in WindowRecords
         /\ \A a \in Applications, w \in WindowRecords : [windows EXCEPT ![a] = w] \in [Applications -> WindowRecords]
         /\ \A r \in Rects : [windows EXCEPT ![ui.app].rect = r] \in [Applications -> WindowRecords]
<1>1. ui.app \in Applications /\ 1 - ui.app \in Applications
  BY DEF DesktopOK, UiRecords, Applications
<1>2. windows \in [Applications -> WindowRecords]
  BY DEF DesktopOK
<1>3. ASSUME NEW r \in Rects PROVE [windows EXCEPT ![ui.app].rect = r] \in [Applications -> WindowRecords]
  <2>1. [windows[ui.app] EXCEPT !.rect = r] \in WindowRecords
    BY <1>1, <1>2 DEF WindowRecords
  <2> QED
    BY <1>1, <1>2, <2>1
<1> QED
  BY <1>1, <1>2, <1>3 DEF Win

LEMMA CellsAndPlaces ==
  /\ \A p \in Spots : p \in Cells
  /\ \A r \in Places \cup {Store} : r \in Rects
BY PresentAssumption

LEMMA MouseKeepsDesktop ==
  ASSUME DesktopOK, Mouse
  PROVE  DesktopOK'
<1>1. /\ ui \in UiRecords /\ windows \in [Applications -> WindowRecords]
      /\ monitors \in MonitorSets /\ conf \subseteq MonitorSets /\ sram \in SramRecords
  BY DEF DesktopOK
<1>2. /\ ui.app \in Applications /\ 1 - ui.app \in Applications /\ Win \in WindowRecords
      /\ \A a \in Applications, w \in WindowRecords : [windows EXCEPT ![a] = w] \in [Applications -> WindowRecords]
      /\ \A r \in Rects : [windows EXCEPT ![ui.app].rect = r] \in [Applications -> WindowRecords]
  BY WindowsKeep
<1>3. CASE \E p \in Spots : MovePointer(p) \/ \E r \in Places : MoveWindow(p, r)
  <2> PICK p \in Spots : MovePointer(p) \/ \E r \in Places : MoveWindow(p, r)
    BY <1>3
  <2>1. p \in Cells
    BY CellsAndPlaces
  <2>2. ASSUME PointAt(p) PROVE monitors' \in MonitorSets
    BY <2>2, <1>1, CommandsKeepMonitors DEF PointAt
  <2>3. [ui EXCEPT !.at = p] \in UiRecords
    BY <1>1, <2>1 DEF UiRecords
  <2>4. CASE MovePointer(p)
    BY <1>1, <2>2, <2>3, <2>4 DEF MovePointer, DesktopOK
  <2>5. CASE \E r \in Places : MoveWindow(p, r)
    <3> PICK r \in Places : MoveWindow(p, r)
      BY <2>5
    <3>1. r \in Rects
      BY CellsAndPlaces
    <3>2. [ui EXCEPT !.at = p, !.preview = r] \in UiRecords
      BY <1>1, <2>1, <3>1 DEF UiRecords
    <3>3. monitors' \in MonitorSets /\ UNCHANGED <<conf, sram>>
      BY <2>2 DEF MoveWindow
    <3>4. CASE Stretching(ui)
      BY <1>1, <3>2, <3>3, <3>4 DEF MoveWindow, DesktopOK
    <3>5. CASE ~Stretching(ui)
      BY <1>1, <1>2, <2>3, <3>1, <3>3, <3>5 DEF MoveWindow, DesktopOK
    <3> QED
      BY <3>4, <3>5
  <2> QED
    BY <2>4, <2>5
<1>4. CASE Resize
  <2>1. ui.preview \in Rects /\ Win.rect \in Rects
    BY <1>1, <1>2 DEF UiRecords, WindowRecords
  <2>2. [ui EXCEPT !.resizing = FALSE] \in UiRecords /\ [ui EXCEPT !.resizing = TRUE, !.preview = Win.rect] \in UiRecords
    BY <1>1, <2>1 DEF UiRecords
  <2>3. windows' \in [Applications -> WindowRecords]
    BY <1>1, <1>2, <1>4, <2>1 DEF Resize
  <2> QED
    BY <1>1, <1>4, <2>2, <2>3 DEF Resize, DesktopOK
<1>5. CASE ToggleSettings
  <2>1. ui' = [ui EXCEPT !.settings = ~ui.settings] /\ UNCHANGED <<windows, monitors, conf, sram>>
    BY <1>5 DEF ToggleSettings
  <2>2. ui' \in UiRecords
    BY <1>1, <2>1 DEF UiRecords
  <2> QED
    BY <1>1, <2>1, <2>2 DEF DesktopOK
<1>6. CASE Fullscreen
  <2> DEFINE r == Win.rect
             n == MonitorAt(monitors, <<r.x + r.w \div 2, r.y + r.h \div 2>>)
             m == IF Win.full \/ Count(monitors) = 1 THEN monitors ELSE [monitors EXCEPT !.active = n]
             w == IF Win.full THEN [Win EXCEPT !.full = FALSE, !.rect = Win.restore]
                  ELSE [Win EXCEPT !.full = TRUE, !.restore = r]
  <2>1. [monitors EXCEPT !.active = n] \in MonitorSets
    BY <1>1, CommandsKeepMonitors
  <2>2. m \in MonitorSets
    BY <1>1, <2>1
  <2>3. w \in WindowRecords
    BY <1>2 DEF WindowRecords
  <2>4. monitors' = m /\ windows' = [windows EXCEPT ![ui.app] = Clamped(w, m)] /\ UNCHANGED <<ui, conf, sram>>
    BY <1>6, Zenon DEF Fullscreen
  <2> HIDE DEF m, w
  <2>5. Clamped(w, m) \in WindowRecords
    BY <2>2, <2>3, WindowClamped
  <2>6. windows' \in [Applications -> WindowRecords]
    BY <1>2, <2>4, <2>5
  <2> QED
    BY <1>1, <2>2, <2>4, <2>6 DEF DesktopOK
<1>7. CASE CloseWindow
  <2>1. [windows[ui.app] EXCEPT !.shown = FALSE] \in WindowRecords
    BY <1>1, <1>2 DEF WindowRecords
  <2>2. windows' \in [Applications -> WindowRecords]
    BY <1>1, <1>2, <1>7, <2>1 DEF CloseWindow
  <2> PICK a \in Applications : a = IF windows[1 - ui.app].shown THEN 1 - ui.app ELSE ui.app
    BY <1>2
  <2>3. ui' = [ui EXCEPT !.settings = FALSE, !.app = a] /\ UNCHANGED <<monitors, conf, sram>>
    BY <1>7 DEF CloseWindow
  <2>4. ui' \in UiRecords
    BY <1>1, <2>3 DEF UiRecords
  <2> QED
    BY <1>1, <2>2, <2>3, <2>4 DEF DesktopOK
<1>8. CASE \E a \in Applications : Select(a)
  <2> PICK a \in Applications : Select(a)
    BY <1>8
  <2>1. [windows[a] EXCEPT !.shown = TRUE] \in WindowRecords
    BY <1>1 DEF WindowRecords
  <2>2. Clamped([windows[a] EXCEPT !.shown = TRUE], monitors) \in WindowRecords
    BY <1>1, <2>1, WindowClamped
  <2>3. windows' \in [Applications -> WindowRecords]
    BY <1>2, <2>2 DEF Select
  <2>4. ui' = [ui EXCEPT !.app = a, !.settings = FALSE] /\ UNCHANGED <<monitors, conf, sram>>
    BY DEF Select
  <2>5. ui' \in UiRecords
    BY <1>1, <2>4 DEF UiRecords
  <2> QED
    BY <1>1, <2>3, <2>4, <2>5 DEF DesktopOK
<1>9. CASE \E keep \in BOOLEAN : DragItem(keep)
  <2> PICK keep \in BOOLEAN : DragItem(keep)
    BY <1>9
  <2> PICK k \in BOOLEAN : k = IF ui.drag THEN keep ELSE ui.icon
    BY <1>1 DEF UiRecords
  <2>1. ui' = [ui EXCEPT !.drag = ~ui.drag, !.icon = k] /\ UNCHANGED <<windows, monitors, conf, sram>>
    BY DEF DragItem
  <2>2. ui' \in UiRecords
    BY <1>1, <2>1 DEF UiRecords
  <2> QED
    BY <1>1, <2>1, <2>2 DEF DesktopOK
<1> QED
  BY <1>3, <1>4, <1>5, <1>6, <1>7, <1>8, <1>9, Zenon DEF Mouse

LEMMA CommandKeepsDesktop ==
  ASSUME DesktopOK, CmdMonitor
  PROVE  DesktopOK'
<1>1. /\ ui \in UiRecords /\ windows \in [Applications -> WindowRecords]
      /\ monitors \in MonitorSets /\ conf \subseteq MonitorSets /\ sram \in SramRecords
  BY DEF DesktopOK
<1>2. /\ ui.app \in Applications /\ Win \in WindowRecords
      /\ \A a \in Applications, w \in WindowRecords : [windows EXCEPT ![a] = w] \in [Applications -> WindowRecords]
  BY WindowsKeep
<1>3. UNCHANGED <<ui, sram>>
  BY DEF CmdMonitor, SetCount, SetLayout, SetActive, MoveTo, UseFile, ReloadMonitors, SaveMonitors, Command
<1>4. ASSUME NEW m \in MonitorSets, Written(m) PROVE conf' \subseteq MonitorSets
  BY <1>1, <1>4 DEF Written
<1>5. ASSUME NEW m \in MonitorSets, Applied(m), conf' \subseteq MonitorSets PROVE DesktopOK'
  BY <1>1, <1>3, <1>5, AppliedFits DEF DesktopOK
<1>6. CASE \E n \in 1 .. MaxMonitors : SetCount(n)
  <2> PICK n \in 1 .. MaxMonitors : SetCount(n)
    BY <1>6
  <2>1. WithCount(n) \in MonitorSets
    BY <1>1, CommandsKeepMonitors
  <2> QED
    BY <2>1, <1>4, <1>5 DEF SetCount
<1>7. CASE \E l \in Layouts : SetLayout(l)
  <2> PICK l \in Layouts : SetLayout(l)
    BY <1>7
  <2>1. WithLayout(l) \in MonitorSets
    BY <1>1, CommandsKeepMonitors
  <2> QED
    BY <2>1, <1>4, <1>5 DEF SetLayout
<1>8. CASE \E i \in MonitorIndices(monitors) : SetActive(i) \/ MoveTo(i)
  <2> PICK i \in MonitorIndices(monitors) : SetActive(i) \/ MoveTo(i)
    BY <1>8
  <2> DEFINE m == [monitors EXCEPT !.active = i]
  <2>1. m \in MonitorSets
    BY <1>1, CommandsKeepMonitors
  <2>2. CASE SetActive(i)
    <3>1. /\ monitors' = m /\ Written(m)
          /\ windows' = IF Win.full THEN [windows EXCEPT ![ui.app] = Clamped(Win, m)] ELSE windows
      BY <2>2 DEF SetActive
    <3> HIDE DEF m
    <3>2. Clamped(Win, m) \in WindowRecords
      BY <1>2, <2>1, WindowClamped
    <3>3. windows' \in [Applications -> WindowRecords]
      BY <1>1, <1>2, <3>1, <3>2
    <3> QED
      BY <1>1, <1>3, <1>4, <2>1, <3>1, <3>3 DEF DesktopOK
  <2>3. CASE MoveTo(i)
    <3> DEFINE w == [Win EXCEPT !.rect = IF Win.full THEN Win.rect ELSE Centred(m)]
    <3>1. /\ monitors' = m /\ conf' = {m}
          /\ windows' = IF ~Win.shown THEN windows ELSE [windows EXCEPT ![ui.app] = Clamped(w, m)]
      BY <2>3 DEF MoveTo
    <3> HIDE DEF m
    <3>2. Clamped(w, m) \in WindowRecords
      <4>1. Win = [shown |-> Win.shown, rect |-> Win.rect, restore |-> Win.restore, full |-> Win.full]
            /\ Win.shown \in BOOLEAN /\ Win.full \in BOOLEAN /\ Win.restore \in Rects /\ Win.rect \in Rects
        BY <1>2 DEF WindowRecords
      <4>2. CASE Win.full
        <5>1. w = Win
          BY <4>1, <4>2
        <5> QED
          BY <1>2, <2>1, <5>1, WindowClamped
      <4>3. CASE ~Win.full
        <5> PICK x \in Int, y \in Int, wide \in Nat, high \in Nat : Centred(m) = Rect(x, y, wide, high)
          BY <1>2, <2>1, CentredRect
        <5>1. w = [shown |-> Win.shown, rect |-> Rect(x, y, wide, high), restore |-> Win.restore, full |-> Win.full]
          BY <4>1, <4>3
        <5> HIDE DEF w
        <5> QED
          BY <2>1, <4>1, <5>1, ClampedFits
      <4> QED
        BY <4>2, <4>3
    <3> HIDE DEF w
    <3>3. windows' \in [Applications -> WindowRecords]
      BY <1>1, <1>2, <3>1, <3>2
    <3> QED
      BY <1>1, <1>3, <2>1, <3>1, <3>3 DEF DesktopOK
  <2> QED
    BY <2>2, <2>3
<1>9. CASE \E f \in UserFiles : UseFile(f)
  <2> PICK f \in UserFiles : UseFile(f)
    BY <1>9
  <2>1. Parsed(f) \in MonitorSets
    BY ConfigsParse
  <2> QED
    BY <2>1, <1>4, <1>5 DEF UseFile
<1>10. CASE ReloadMonitors
  <2>1. [count |-> 1, layout |-> "single", active |-> 0] \in MonitorSets
    BY DEF MonitorSets, MaxMonitors, Layouts
  <2>2. ASSUME conf # {} PROVE Parsed(FileLines) \in MonitorSets
    <3>1. FileLines \in conf
      BY <2>2, Zenon DEF FileLines
    <3> QED
      BY <1>1, <3>1, ConfigsParse
  <2> PICK m : m = IF conf = {} THEN [count |-> 1, layout |-> "single", active |-> 0] ELSE Parsed(FileLines)
    OBVIOUS
  <2>3. m \in MonitorSets
    BY <2>1, <2>2
  <2>4. Applied(m) /\ conf' = conf
    BY <1>10, Zenon DEF ReloadMonitors
  <2> QED
    BY <1>1, <1>5, <2>3, <2>4
<1>11. CASE SaveMonitors
  BY <1>1, <1>3, <1>11 DEF SaveMonitors, DesktopOK
<1> QED
  BY <1>6, <1>7, <1>8, <1>9, <1>10, <1>11 DEF CmdMonitor

\* The keys, the looks, the screen store and the clock.
LEMMA OthersKeepDesktop ==
  ASSUME DesktopOK, Wake \/ TickIdle \/ TypeText \/ Looks \/ CmdSram
  PROVE  DesktopOK'
<1>1. /\ ui \in UiRecords /\ windows \in [Applications -> WindowRecords]
      /\ monitors \in MonitorSets /\ conf \subseteq MonitorSets /\ sram \in SramRecords
  BY DEF DesktopOK
<1>2. CASE Wake \/ TickIdle \/ TypeText \/ Looks
  <2>1. /\ [ui EXCEPT !.saver = TRUE] \in UiRecords /\ [ui EXCEPT !.saver = FALSE] \in UiRecords
        /\ [ui EXCEPT !.text = ui.text + 1] \in UiRecords /\ [ui EXCEPT !.look = 1 - ui.look] \in UiRecords
        /\ [ui EXCEPT !.stretch = ~ui.stretch] \in UiRecords
    <3>1. ui.text + 1 \in Nat /\ 1 - ui.look \in 0 .. 1
      BY <1>1 DEF UiRecords
    <3>2. [ui EXCEPT !.saver = TRUE] \in UiRecords /\ [ui EXCEPT !.saver = FALSE] \in UiRecords
      BY <1>1 DEF UiRecords
    <3>3. [ui EXCEPT !.stretch = ~ui.stretch] \in UiRecords
      BY <1>1 DEF UiRecords
    <3>4. \A n \in Nat : [ui EXCEPT !.text = n] \in UiRecords
      BY <1>1 DEF UiRecords
    <3>5. \A k \in 0 .. 1 : [ui EXCEPT !.look = k] \in UiRecords
      BY <1>1 DEF UiRecords
    <3> QED
      BY <3>1, <3>2, <3>3, <3>4, <3>5
  <2>2. UNCHANGED <<windows, monitors, conf, sram>>
    BY <1>2 DEF Wake, TickIdle, TypeText, Looks
  <2>3. ui' \in UiRecords
    BY <1>2, <2>1 DEF Wake, TickIdle, TypeText, Looks
  <2> QED
    BY <1>1, <2>2, <2>3 DEF DesktopOK
<1>3. CASE CmdSram
  <2>1. \A r \in Places \cup {Store} : [sram EXCEPT !.on = TRUE, !.rect = r] \in SramRecords
    BY <1>1, CellsAndPlaces DEF SramRecords
  <2>2. [sram EXCEPT !.data = sram.data + 1] \in SramRecords /\ [sram EXCEPT !.on = FALSE] \in SramRecords
    <3> PICK d \in Nat : d = sram.data + 1
      BY <1>1 DEF SramRecords
    <3>1. [sram EXCEPT !.data = d] \in SramRecords
      BY <1>1 DEF SramRecords
    <3>2. [sram EXCEPT !.on = FALSE] \in SramRecords
      BY <1>1 DEF SramRecords
    <3> QED
      BY <3>1, <3>2
  <2>3. sram' \in SramRecords
    BY <1>3, <2>1, <2>2 DEF CmdSram, StoreWrite, StoreOff, StoreAt
  <2>4. UNCHANGED <<ui, windows, monitors, conf>>
    BY <1>3 DEF CmdSram, StoreWrite, StoreOff, StoreAt
  <2> QED
    BY <1>1, <2>3, <2>4 DEF DesktopOK
<1> QED
  BY <1>2, <1>3

\* Every step but a render leaves the frame buffer and the snapshot alone.
LEMMA InputsLeaveScreen ==
  ASSUME Wake \/ TickIdle \/ Mouse \/ TypeText \/ Looks \/ CmdSram \/ CmdMonitor
  PROVE  front' = front /\ snap' = snap /\ steps' = steps + 1 /\ due' \in {due, TRUE}
<1>1. CASE Wake \/ TickIdle
  BY <1>1 DEF Wake, TickIdle, OnDesktop
<1>2. ASSUME Input PROVE front' = front /\ snap' = snap /\ steps' = steps + 1 /\ due' \in {due, TRUE}
  BY <1>2 DEF Input, OnDesktop
<1>3. CASE Mouse
  BY <1>2, <1>3, Zenon DEF Mouse, MovePointer, MoveWindow, Resize, ToggleSettings, Fullscreen, CloseWindow, Select, DragItem
<1>4. CASE TypeText \/ Looks \/ CmdSram
  BY <1>2, <1>4, Zenon DEF TypeText, Looks, CmdSram, StoreAt, StoreWrite, StoreOff
<1>5. CASE CmdMonitor
  BY <1>2, <1>5, Zenon DEF CmdMonitor, Command, SetCount, SetLayout, SetActive, MoveTo, UseFile, ReloadMonitors, SaveMonitors
<1> QED
  BY <1>1, <1>3, <1>4, <1>5

LEMMA DrawnIsARect ==
  ASSUME DesktopOK
  PROVE  Drawn(ui, Win) \in Rects
<1>1. Nowhere \in Rects
  BY PresentAssumption, RectsHave DEF Nowhere
<1>2. ui.preview \in Rects /\ Win.rect \in Rects
  BY WindowsKeep DEF DesktopOK, UiRecords, WindowRecords
<1> QED
  BY <1>1, <1>2, Zenon DEF Drawn

LEMMA ScreenTypeStep ==
  ASSUME ScreenTypeOK, [ScreenNext]_screenVars
  PROVE  ScreenTypeOK'
<1>1. DesktopOK /\ DOMAIN front = Cells /\ snap \in SnapRecords /\ due \in BOOLEAN /\ steps \in Nat
  BY DEF ScreenTypeOK
<1>2. CASE Wake \/ TickIdle \/ Mouse \/ TypeText \/ Looks \/ CmdSram \/ CmdMonitor
  <2>1. DesktopOK'
    BY <1>1, <1>2, MouseKeepsDesktop, CommandKeepsDesktop, OthersKeepDesktop
  <2>2. front' = front /\ snap' = snap /\ steps' = steps + 1 /\ due' \in {due, TRUE}
    BY <1>2, InputsLeaveScreen
  <2>3. (DOMAIN front = Cells)'
    BY <1>1, <2>2 DEF Cells
  <2>4. (snap \in SnapRecords)'
    BY <1>1, <2>2 DEF SnapRecords
  <2>5. due' \in BOOLEAN /\ steps' \in Nat
    <3>1. due' \in BOOLEAN
      BY <1>1, <2>2, Zenon
    <3>2. steps' \in Nat
      BY <1>1, <2>2
    <3> QED
      BY <3>1, <3>2
  <2> QED
    BY <2>1, <2>3, <2>4, <2>5, Zenon DEF ScreenTypeOK
<1>3. CASE Render
  <2>1. DesktopOK'
    BY <1>1, <1>3 DEF Render, DesktopOK
  <2>2. DOMAIN front' = Cells
    BY <1>3 DEF Render, Blit
  <2>3. Snapshot \in SnapRecords
    <3>1. ui \in UiRecords /\ Win \in WindowRecords /\ monitors \in MonitorSets
      BY <1>1, WindowsKeep DEF DesktopOK
    <3>2. Drawn(ui, Win) \in Rects
      BY <1>1, DrawnIsARect
    <3>3. monitors.count \in 0 .. MaxMonitors
      BY <3>1 DEF MonitorSets, MaxMonitors
    <3> QED
      BY <3>1, <3>2, <3>3 DEF Snapshot, UiRecords, WindowRecords, MonitorSets, SnapRecords
  <2>4. snap' \in SnapRecords /\ due' \in BOOLEAN /\ steps' = steps
    BY <1>3, <2>3 DEF Render
  <2> QED
    BY <1>1, <2>1, <2>2, <2>4 DEF ScreenTypeOK
<1>4. CASE UNCHANGED screenVars
  BY <1>1, <1>4 DEF screenVars, ScreenTypeOK, DesktopOK
<1> QED
  BY <1>2, <1>3, <1>4 DEF ScreenNext

LEMMA ScreenTypeStart ==
  ASSUME ScreenInit
  PROVE  ScreenTypeOK
<1>1. Width \in Nat /\ Height \in Nat /\ Width >= 4 /\ Height >= 4
  BY PresentAssumption
<1>2. <<Width \div 2, Height \div 2>> \in Cells /\ <<0, 0>> \in Cells
  BY <1>1 DEF Cells, Inside, Screen, Rect
<1>3. Nowhere \in Rects
  BY <1>1, RectsHave DEF Nowhere
<1>4. ui \in UiRecords
  BY <1>2, <1>3 DEF ScreenInit, UiRecords, Applications
<1>5. windows \in [Applications -> WindowRecords]
  <2> PICK r \in Places : windows = [a \in Applications |-> [shown |-> a = 0, rect |-> r, restore |-> r, full |-> FALSE]]
    BY DEF ScreenInit
  <2>1. r \in Rects
    BY CellsAndPlaces
  <2> QED
    BY <2>1 DEF Applications, WindowRecords
<1>6. monitors \in MonitorSets /\ conf \subseteq MonitorSets
  BY DEF ScreenInit, MonitorSets, MaxMonitors, Layouts
<1>7. sram \in SramRecords
  BY CellsAndPlaces DEF ScreenInit, SramRecords
<1>8. DOMAIN front = Cells
  BY DEF ScreenInit
<1>9. snap \in SnapRecords
  BY <1>2, <1>3 DEF ScreenInit, SnapRecords, Applications, Layouts, MaxMonitors
<1>10. due \in BOOLEAN /\ steps \in Nat
  BY DEF ScreenInit
<1> QED
  BY <1>4, <1>5, <1>6, <1>7, <1>8, <1>9, <1>10 DEF ScreenTypeOK, DesktopOK

\* The desktop, the monitors, the screen store and the snapshot stay in range:
\* clamping puts every window on the screen whatever a command asks for.
THEOREM ScreenTypeCorrect == ScreenSpec => []ScreenTypeOK
<1>1. ScreenInit => ScreenTypeOK
  BY ScreenTypeStart
<1>2. ScreenTypeOK /\ [ScreenNext]_screenVars => ScreenTypeOK'
  BY ScreenTypeStep
<1> QED
  BY <1>1, <1>2, PTL DEF ScreenSpec

LEMMA InInside ==
  ASSUME NEW c \in Cells, NEW r \in Rects
  PROVE  c \in Inside(r) <=> c[1] \in r.x .. r.x + r.w - 1 /\ c[2] \in r.y .. r.y + r.h - 1
<1>1. c = <<c[1], c[2]>>
  BY DEF Cells, Inside, Screen, Rect
<1> QED
  BY <1>1 DEF Inside

\* What a composed picture shows without the screensaver: the pointer where it
\* is, and the window where it is drawn and something does not cover it.
LEMMA PictureTells ==
  ASSUME NEW u \in UiRecords, NEW ws, NEW m, NEW s, ~u.saver, Drawn(u, ws[u.app]) \in Rects, NEW c \in Cells,
         NEW k, k = Picture(u, ws, m, s)[c][2][1]
  PROVE  /\ k = "pointer" <=> c = u.at
         /\ k = "window" => c \in Inside(Drawn(u, ws[u.app]))
         /\ c \in Inside(Drawn(u, ws[u.app])) => k \in {"window"} \cup Covering
<1> DEFINE w == ws[u.app]
           drawn == Drawn(u, w)
           behind == ws[1 - u.app]
           panel == IF w.shown /\ u.settings THEN PanelRect(drawn) ELSE Nowhere
           lit == w.shown /\ u.app = 0
           dock == DockRect(m)
           bars == [i \in MonitorIndices(m) |-> BarRect(MonitorRect(m, i))]
           In(d, r) == d[1] \in r.x .. r.x + r.w - 1 /\ d[2] \in r.y .. r.y + r.h - 1
           last(d) == CHOOSE i \in DOMAIN bars : In(d, bars[i]) /\ \A j \in DOMAIN bars : In(d, bars[j]) => j <= i
           ground(d) ==
             IF behind.shown /\ In(d, behind.rect) THEN WindowBehind(1 - u.app)
             ELSE IF In(d, dock) THEN Launcher("dock", lit)
             ELSE IF u.icon /\ d = Icon THEN Launcher("icon", lit)
             ELSE IF \E i \in DOMAIN bars : In(d, bars[i])
               THEN LET i == last(d) IN Bar(i, i = m.active /\ u.at[2] = bars[i].y)
             ELSE Wallpaper
           shown(d) ==
             IF d = u.at /\ ~u.saver THEN Pointer
             ELSE IF s.on /\ In(d, s.rect) THEN StoreDrawn(s)
             ELSE IF u.saver THEN Saver
             ELSE IF In(d, panel) THEN Settings
             ELSE IF In(d, drawn) THEN Content(u)
             ELSE ground(d)
<1>1. Picture(u, ws, m, s) = [d \in Cells |-> <<u.look, shown(d)>>]
  BY Zenon DEF Picture
<1>2. In(c, drawn) <=> c \in Inside(drawn)
  BY InInside
<1>3. ground(c)[1] \in {"behind", "dock", "icon", "bar", "wallpaper"}
  <2> HIDE DEF behind, dock, bars, In, lit, last
  <2>1. CASE behind.shown /\ In(c, behind.rect)
    <3>1. ground(c) = WindowBehind(1 - u.app)
      BY <2>1, Zenon
    <3> QED
      BY <3>1 DEF WindowBehind
  <2>2. CASE ~(behind.shown /\ In(c, behind.rect)) /\ In(c, dock)
    <3>1. ground(c) = Launcher("dock", lit)
      BY <2>2, Zenon
    <3> QED
      BY <3>1 DEF Launcher
  <2>3. CASE ~(behind.shown /\ In(c, behind.rect)) /\ ~In(c, dock) /\ u.icon /\ c = Icon
    <3>1. ground(c) = Launcher("icon", lit)
      BY <2>3, Zenon
    <3> QED
      BY <3>1 DEF Launcher
  <2>4. CASE /\ ~(behind.shown /\ In(c, behind.rect)) /\ ~In(c, dock) /\ ~(u.icon /\ c = Icon)
             /\ \E i \in DOMAIN bars : In(c, bars[i])
    <3>1. ground(c) = Bar(last(c), last(c) = m.active /\ u.at[2] = bars[last(c)].y)
      BY <2>4, Zenon
    <3> QED
      BY <3>1 DEF Bar
  <2>5. CASE /\ ~(behind.shown /\ In(c, behind.rect)) /\ ~In(c, dock) /\ ~(u.icon /\ c = Icon)
             /\ ~ \E i \in DOMAIN bars : In(c, bars[i])
    <3>1. ground(c) = Wallpaper
      BY <2>5, Zenon
    <3> QED
      BY <3>1 DEF Wallpaper
  <2> QED
    BY <2>1, <2>2, <2>3, <2>4, <2>5, Zenon
<1> HIDE DEF ground, panel, drawn, In
<1>4. Pointer[1] = "pointer" /\ StoreDrawn(s)[1] = "store" /\ Settings[1] = "settings" /\ Content(u)[1] = "window"
  BY DEF Pointer, StoreDrawn, Settings, Content
<1> PICK t : t = shown(c)
  OBVIOUS
<1>5. k = t[1]
  <2>1. Picture(u, ws, m, s)[c] = <<u.look, t>>
    BY <1>1, Zenon
  <2>2. <<u.look, t>>[2] = t
    OBVIOUS
  <2> QED
    BY <2>1, <2>2, Zenon
<1> USE DEF Covering
<1>6. CASE c = u.at
  <2>1. t = Pointer
    BY <1>6, Zenon
  <2> QED
    BY <1>4, <1>5, <1>6, <2>1
<1>7. CASE c # u.at /\ s.on /\ In(c, s.rect)
  <2>1. t = StoreDrawn(s)
    BY <1>7, Zenon
  <2> QED
    BY <1>4, <1>5, <1>7, <2>1
<1>8. CASE c # u.at /\ ~(s.on /\ In(c, s.rect)) /\ In(c, panel)
  <2>1. t = Settings
    BY <1>8, Zenon
  <2> QED
    BY <1>4, <1>5, <1>8, <2>1
<1>9. CASE c # u.at /\ ~(s.on /\ In(c, s.rect)) /\ ~In(c, panel) /\ In(c, drawn)
  <2>1. t = Content(u)
    BY <1>9, Zenon
  <2>2. c \in Inside(Drawn(u, ws[u.app]))
    BY <1>2, <1>9, Zenon DEF drawn
  <2> QED
    BY <1>4, <1>5, <1>9, <2>1, <2>2
<1>10. CASE c # u.at /\ ~(s.on /\ In(c, s.rect)) /\ ~In(c, panel) /\ ~In(c, drawn)
  <2>1. t = ground(c)
    BY <1>10, Zenon
  <2>2. c \notin Inside(Drawn(u, ws[u.app]))
    BY <1>2, <1>10, Zenon DEF drawn
  <2>3. k \in {"behind", "dock", "icon", "bar", "wallpaper"}
    BY <1>3, <1>5, <2>1, Zenon
  <2> QED
    BY <1>10, <2>2, <2>3
<1> QED
  BY <1>6, <1>7, <1>8, <1>9, <1>10, Zenon

\* The dirty rectangle holds each of those it is put around.
LEMMA AroundHolds ==
  ASSUME NEW S, NEW r \in S, NEW c \in Cells, c \in Inside(r)
  PROVE  c \in Around(S)
<1> DEFINE cells == {d \in Cells : \E q \in S : d \in Inside(q)}
           between(i, v) == (\E d \in cells : d[i] <= v) /\ (\E d \in cells : v <= d[i])
<1>1. c \in cells
  BY Zenon
<1>2. c[1] \in Int /\ c[2] \in Int
  BY PresentAssumption DEF Cells, Inside, Screen, Rect
<1>3. between(1, c[1]) /\ between(2, c[2])
  BY <1>1, <1>2
<1>4. Around(S) = IF cells = {} THEN Cells ELSE {d \in Cells : between(1, d[1]) /\ between(2, d[2])}
  BY Zenon DEF Around
<1> QED
  BY <1>1, <1>3, <1>4, Zenon

LEMMA AreaHolds ==
  ASSUME NEW c \in Cells
  PROVE  c \in Inside(Area(c))
BY PresentAssumption DEF Cells, Inside, Screen, Rect, Area

\* What a render leaves alone holds neither the window nor the pointer, as they
\* were and as they are.
LEMMA OutsideIsClear ==
  ASSUME ScreenTypeOK, NEW c \in Cells, c \notin Dirty
  PROVE  c # ui.at /\ c # snap.at /\ c \notin Inside(snap.drawn) /\ c \notin Inside(Drawn(ui, Win)) /\ ~WholeScreen
<1>1. ~WholeScreen
  BY DEF Dirty
<1>2. ui.at \in Cells /\ snap.at \in Cells
  BY DEF ScreenTypeOK, DesktopOK, UiRecords, SnapRecords
<1> DEFINE S == {snap.drawn, Drawn(ui, Win), Area(snap.at), Area(ui.at)}
              \cup Lights
              \cup (IF ~Win.shown \/ ~snap.shown THEN {Rect(0, 1, 2, 3)} ELSE {})
              \cup (IF sram.on THEN {sram.rect} ELSE {})
<1>3. Dirty = Around(S)
  BY <1>1, Zenon DEF Dirty
<1>4. snap.drawn \in S /\ Drawn(ui, Win) \in S /\ Area(snap.at) \in S /\ Area(ui.at) \in S
  BY Zenon
<1> HIDE DEF S
<1>5. ASSUME NEW r \in S PROVE c \notin Inside(r)
  BY <1>3, AroundHolds
<1> QED
  BY <1>1, <1>2, <1>4, <1>5, AreaHolds

LEMMA RememberedStep ==
  ASSUME ScreenTypeOK, ScreenIsAsRemembered, [ScreenNext]_screenVars
  PROVE  ScreenIsAsRemembered'
<1>1. CASE front' = front /\ snap' = snap
  BY <1>1, Zenon DEF ScreenIsAsRemembered, Kind, Inside, Cells
<1>2. CASE Render
  <2>1. front' = Blit(Dirty, PictureNow) /\ snap' = Snapshot
    BY <1>2 DEF Render
  <2>2. snap'.at = ui.at /\ snap'.drawn = Drawn(ui, Win) /\ snap'.saver = ui.saver
    BY <2>1 DEF Snapshot
  <2>3. CASE ui.saver
    BY <2>2, <2>3 DEF ScreenIsAsRemembered
  <2>4. CASE ~ui.saver
    <3>1. ui \in UiRecords /\ Drawn(ui, Win) \in Rects
      BY DrawnIsARect DEF ScreenTypeOK, DesktopOK
    <3>2. ASSUME NEW c \in Cells
          PROVE  /\ Kind(c)' = "pointer" <=> c = ui.at
                 /\ Kind(c)' = "window" => c \in Inside(Drawn(ui, Win))
                 /\ c \in Inside(Drawn(ui, Win)) => Kind(c)' \in {"window"} \cup Covering
      <4>1. CASE c \in Dirty
        <5>1. Kind(c)' = PictureNow[c][2][1]
          BY <2>1, <4>1 DEF Kind, Blit
        <5>2. PictureNow = Picture(ui, windows, monitors, sram) /\ Win = windows[ui.app]
          BY DEF PictureNow, Win
        <5> PICK k : k = Kind(c)'
          OBVIOUS
        <5>3. k = Picture(ui, windows, monitors, sram)[c][2][1]
          BY <5>1, <5>2, Zenon
        <5>4. /\ k = "pointer" <=> c = ui.at
              /\ k = "window" => c \in Inside(Drawn(ui, windows[ui.app]))
              /\ c \in Inside(Drawn(ui, windows[ui.app])) => k \in {"window"} \cup Covering
          BY <2>4, <3>1, <5>2, <5>3, PictureTells
        <5> QED
          BY <5>2, <5>4, Zenon
      <4>2. CASE c \notin Dirty
        <5>1. c # ui.at /\ c # snap.at /\ c \notin Inside(snap.drawn) /\ c \notin Inside(Drawn(ui, Win)) /\ ~WholeScreen
          BY <4>2, OutsideIsClear
        <5>2. Kind(c)' = Kind(c)
          BY <2>1, <4>2 DEF Kind, Blit
        <5>3. snap.valid /\ ~snap.saver
          BY <5>1 DEF WholeScreen
        <5>4. Kind(c) # "window" /\ Kind(c) # "pointer"
          BY <5>1, <5>3, Zenon DEF ScreenIsAsRemembered
        <5> QED
          BY <5>1, <5>2, <5>4, Zenon
      <4> QED
        BY <4>1, <4>2
    <3>3. Inside(snap.drawn)' = Inside(Drawn(ui, Win)) /\ (snap.at)' = ui.at /\ Cells' = Cells
      BY <2>2, Zenon DEF Inside, Cells
    <3>4. Inside(Drawn(ui, Win)) \subseteq Cells
      BY <3>1, PresentAssumption DEF Rects, Inside, Cells, Screen, Rect
    <3> QED
      BY <3>2, <3>3, <3>4, Zenon DEF ScreenIsAsRemembered
  <2> QED
    BY <2>3, <2>4
<1>3. CASE UNCHANGED screenVars
  BY <1>1, <1>3 DEF screenVars
<1> QED
  BY <1>1, <1>2, <1>3, InputsLeaveScreen DEF ScreenNext

\* With one monitor the bar and the dock span all rows but the last.
LEMMA MovedStep ==
  ASSUME ScreenTypeOK, Render, ui.at # snap.at, monitors.count = 1, monitors.layout = "single",
         NEW c \in Cells, c[2] < Height - 1
  PROVE  front'[c] = PictureNow[c]
<1> SUFFICES c \in Dirty
  BY DEF Render, Blit
<1> SUFFICES ASSUME ~WholeScreen PROVE c \in Dirty
  BY DEF Dirty
<1>1. Width \in Nat /\ Height \in Nat /\ Width >= 4 /\ Height >= 4
  BY PresentAssumption
<1>2. MonitorIndices(monitors) = {0} /\ MonitorRect(monitors, 0) = Screen
  BY DEF MonitorIndices, Count, MonitorRect
<1>3. Rect(0, 0, Width, 1) \in Bars
  BY <1>2 DEF Bars, BarRect, Screen, Rect
<1>4. ActiveRect(monitors) = Screen
  BY <1>2 DEF ActiveRect
<1> PICK p : p = (Width - 2) \div 2
  OBVIOUS
<1>5. p \in Nat /\ p + 2 <= Width
  BY <1>1
<1>6. DockRect(monitors) = Rect(p, Height - 2, 2, 1)
  BY <1>1, <1>4, <1>5 DEF DockRect, Screen, Rect
<1> DEFINE S == {snap.drawn, Drawn(ui, Win), Area(snap.at), Area(ui.at)}
              \cup Lights
              \cup (IF ~Win.shown \/ ~snap.shown THEN {Rect(0, 1, 2, 3)} ELSE {})
              \cup (IF sram.on THEN {sram.rect} ELSE {})
           cells == {d \in Cells : \E q \in S : d \in Inside(q)}
           between(i, v) == (\E d \in cells : d[i] <= v) /\ (\E d \in cells : v <= d[i])
<1>7. Dirty = Around(S)
  BY Zenon DEF Dirty
<1>8. Around(S) = IF cells = {} THEN Cells ELSE {d \in Cells : between(1, d[1]) /\ between(2, d[2])}
  BY Zenon DEF Around
<1>9. Rect(0, 0, Width, 1) \in S /\ Rect(p, Height - 2, 2, 1) \in S
  BY <1>3, <1>6, Zenon DEF Lights
<1> HIDE DEF S
<1>10. /\ <<0, 0>> \in Inside(Rect(0, 0, Width, 1)) /\ <<Width - 1, 0>> \in Inside(Rect(0, 0, Width, 1))
       /\ <<p, Height - 2>> \in Inside(Rect(p, Height - 2, 2, 1))
  BY <1>1, <1>5 DEF Inside, Rect
<1>11. <<0, 0>> \in Cells /\ <<Width - 1, 0>> \in Cells /\ <<p, Height - 2>> \in Cells
  BY <1>1, <1>5 DEF Cells, Screen, Inside, Rect
<1>12. <<0, 0>> \in cells /\ <<Width - 1, 0>> \in cells /\ <<p, Height - 2>> \in cells
  BY <1>9, <1>10, <1>11, Zenon
<1> HIDE DEF cells
<1>13. c[1] \in Nat /\ c[2] \in Nat /\ 0 <= c[1] /\ c[1] <= Width - 1 /\ 0 <= c[2] /\ c[2] <= Height - 2
  BY <1>1 DEF Cells, Screen, Inside, Rect
<1>14. between(1, c[1]) /\ between(2, c[2])
  <2>1. <<0, 0>>[1] = 0 /\ <<0, 0>>[2] = 0 /\ <<Width - 1, 0>>[1] = Width - 1 /\ <<p, Height - 2>>[2] = Height - 2
    OBVIOUS
  <2> QED
    BY <1>12, <1>13, <2>1
<1> QED
  BY <1>7, <1>8, <1>14, Zenon

\* The screen and the snapshot never disagree: wherever a window or the pointer
\* was drawn and is no more, the dirty rectangle reaches, and on one monitor a
\* moved pointer brings all of the screen above the dock's lower edge up to date.
THEOREM ScreenIsTrueHolds == ScreenSpec => ScreenIsTrue
<1>1. ScreenInit => ScreenTypeOK /\ ScreenIsAsRemembered
  BY ScreenTypeStart DEF ScreenInit, ScreenIsAsRemembered
<1>2. ScreenTypeOK /\ ScreenIsAsRemembered /\ [ScreenNext]_screenVars => (ScreenTypeOK /\ ScreenIsAsRemembered)'
  BY ScreenTypeStep, RememberedStep
<1>3. ScreenTypeOK /\ [ScreenNext]_screenVars =>
        [Render /\ ui.at # snap.at /\ monitors.count = 1 /\ monitors.layout = "single"
          => LET picture == PictureNow IN \A c \in Cells : c[2] < Height - 1 => front'[c] = picture[c]]_screenVars
  BY MovedStep, Zenon
<1> QED
  BY <1>1, <1>2, <1>3, PTL DEF ScreenSpec, ScreenIsTrue, MovedPointerRepaints

=============================================================================
