------------------------------ MODULE TaskPrio ------------------------------
(***************************************************************************)
(* The priority queue of shell tasks, src/os/kernel/taskprio.c.  The shell *)
(* and OSLink queue commands in it; gui_tick takes one out per turn of the *)
(* main loop.  Everything runs on one thread, so every call is one action. *)
(* Names, commands and the counters that are only printed are left out.    *)
(***************************************************************************)
EXTENDS Integers, Sequences

CONSTANTS
  MaxTasks,    \* TASKPRIO_MAX_TASKS: 8
  OsLevel,     \* TASKPRIO_OS_LEVEL = TASKPRIO_MAX: 10
  DefaultLevel,\* TASKPRIO_DEFAULT: 5
  AgeCap,      \* how much of wait_ticks counts: 15
  AgeSpan,     \* score of one level: 16
  WaitMax,     \* wait_ticks saturates: 255
  HistoryMax,  \* TASKPRIO_HISTORY_MAX: 16
  IdModulus,   \* 2^32: task ids are uint32_t
  SeqModulus,  \* 2^32: so is history_next
  LogWraps     \* bound: FALSE stops logging before history_next wraps

ASSUME SizeAssumption ==
  /\ MaxTasks \in Nat \ {0} /\ HistoryMax \in Nat \ {0}
  /\ IdModulus \in Nat /\ IdModulus > 2
  /\ SeqModulus \in Nat /\ SeqModulus > 2
  /\ LogWraps \in BOOLEAN
ASSUME LevelAssumption == OsLevel \in Nat \ {0} /\ DefaultLevel \in 0 .. OsLevel
ASSUME AgeAssumption ==
  AgeCap \in Nat /\ AgeSpan \in Nat /\ WaitMax \in Nat /\ AgeCap < AgeSpan

Levels == 0 .. OsLevel
Ids == 1 .. IdModulus - 1
Seqs == 1 .. SeqModulus - 1
Actors == {"user", "os"}
HistorySlots == 0 .. HistoryMax - 1

\* reprioritized is history: has the level been set since the task was queued?
Tasks == [id : Ids, priority : Levels, wait : 0 .. WaitMax, paused : BOOLEAN,
          reprioritized : BOOLEAN]

\* One record of the lev.10 audit; the task's name and old level are left out.
Grants == [seq : Seqs, actor : Actors]

NewTask == -1  \* the old level history_log is given for a new task

VARIABLES
  tasks,        \* the queue, oldest first
  nextId,
  default,      \* default_priority
  history,      \* the ring of the audit
  historyCount,
  historyNext,
  granted       \* history variable: the last HistoryMax grants, oldest first

queueVars == <<tasks, nextId>>
historyVars == <<history, historyCount, historyNext, granted>>
vars == <<queueVars, default, historyVars>>

-----------------------------------------------------------------------------
LeastOf(m, n) == IF m < n THEN m ELSE n

Clamp(p) == IF p < 0 THEN 0 ELSE IF p > OsLevel THEN OsLevel ELSE p

\* A bug to catch: 0 is not skipped.
AfterWithZero(n, modulus) == (n + 1) % modulus

\* uint32_t increment; 0 is skipped.
After(n, modulus) == IF n + 1 = modulus THEN 1 ELSE n + 1

IsUrgent(t) == t.priority = OsLevel
Indices == 1 .. Len(tasks)

\* find_index: the first task with this id.
At(id) == {i \in Indices : tasks[i].id = id /\ \A j \in 1 .. i - 1 : tasks[j].id # id}

RemoveAt(s, i) == [j \in 1 .. Len(s) - 1 |-> IF j < i THEN s[j] ELSE s[j + 1]]

\* A bug to catch: ages up to a whole level count.
UncappedScore(t) == t.priority * AgeSpan + t.wait

Score(t) == t.priority * AgeSpan + LeastOf(t.wait, AgeCap)

Runnable == {i \in Indices : ~tasks[i].paused}
Urgent == {i \in Runnable : IsUrgent(tasks[i])}
Normal == Runnable \ Urgent

\* A bug to catch: the scans keep the last of several equals.
LastBest(i) ==
  IF Urgent # {} THEN i \in Urgent /\ \A j \in Urgent : j <= i
  ELSE i \in Normal /\ \A j \in Normal :
         \/ Score(tasks[j]) < Score(tasks[i])
         \/ Score(tasks[j]) = Score(tasks[i]) /\ j <= i

\* The task taskprio_dequeue_next picks: the first urgent one, else the first
\* of the best score.
Best(i) ==
  IF Urgent # {} THEN i \in Urgent /\ \A j \in Urgent : i <= j
  ELSE i \in Normal /\ \A j \in Normal :
         \/ Score(tasks[j]) < Score(tasks[i])
         \/ Score(tasks[j]) = Score(tasks[i]) /\ i <= j

Aged(t) ==
  IF IsUrgent(t) THEN t ELSE [t EXCEPT !.wait = LeastOf(@ + 1, WaitMax)]

AllAged(s) == [i \in DOMAIN s |-> Aged(s[i])]

-----------------------------------------------------------------------------
\* history_log: only a change to lev.10 from below is recorded.
IsGrant(old, new) == new = OsLevel /\ old # OsLevel
CanLog == LogWraps \/ historyNext + 1 < SeqModulus

LastOf(s, n) == IF Len(s) <= n THEN s ELSE SubSeq(s, Len(s) - n + 1, Len(s))

Log(old, new, actor) ==
  LET e == [seq |-> historyNext, actor |-> actor]
  IN  IF ~IsGrant(old, new) THEN UNCHANGED historyVars
      ELSE /\ CanLog
           /\ history' = [history EXCEPT ![(historyNext - 1) % HistoryMax] = e]
           /\ historyNext' = After(historyNext, SeqModulus)
           /\ historyCount' = LeastOf(historyCount + 1, HistoryMax)
           /\ granted' = LastOf(Append(granted, e), HistoryMax)

\* taskprio_history_at, for i < historyCount.
HistoryAt(i) ==
  LET start == IF historyCount < HistoryMax THEN 0 ELSE (historyNext - 1) % HistoryMax
  IN  history[(start + i) % HistoryMax]

BlankGrant == [seq |-> 1, actor |-> "user"]

\* taskprio_init
Init ==
  /\ tasks = <<>>
  /\ nextId = 1
  /\ default = DefaultLevel
  /\ history = [s \in HistorySlots |-> BlankGrant]
  /\ historyCount = 0
  /\ historyNext = 1
  /\ granted = <<>>

\* Bound: ids that wrap round pass over that of a task still queued.
IsFree(id) == \A i \in Indices : tasks[i].id # id
Issued == {id \in Ids : IsFree(id) /\ (id = nextId \/ ~IsFree(nextId))}

\* enqueue_with_priority: taskprio_enqueue for the user, taskprio_enqueue_os.
Enqueue(p, actor) ==
  /\ Len(tasks) < MaxTasks
  /\ \E id \in Issued :
       /\ tasks' = Append(tasks, [id |-> id, priority |-> p, wait |-> 0,
                                  paused |-> FALSE, reprioritized |-> FALSE])
       /\ nextId' = After(id, IdModulus)
  /\ Log(NewTask, p, actor)
  /\ UNCHANGED default

EnqueueUser == \E p \in Levels : Enqueue(p, "user")
EnqueueOs == Enqueue(OsLevel, "os")

\* taskprio_dequeue_next hands out task i.
Dispatch(i) ==
  /\ Best(i)
  /\ tasks' = AllAged(RemoveAt(tasks, i))
  /\ UNCHANGED <<nextId, default, historyVars>>

DequeueNext == \E i \in Indices : Dispatch(i)

\* The same when every task is paused: they age all the same.
DequeueNothing ==
  /\ Len(tasks) > 0
  /\ Runnable = {}
  /\ tasks' = AllAged(tasks)
  /\ UNCHANGED <<nextId, default, historyVars>>

Dequeue == DequeueNext \/ DequeueNothing

\* A new level restarts the wait; a grant also resumes the task.
SetLevel(i, p, resume, actor) ==
  /\ tasks' = [tasks EXCEPT ![i].priority = p, ![i].wait = 0,
                            ![i].paused = @ /\ ~resume, ![i].reprioritized = TRUE]
  /\ Log(tasks[i].priority, p, actor)
  /\ UNCHANGED <<nextId, default>>

SetPriority == \E id \in Ids, p \in Levels : \E i \in At(id) : SetLevel(i, p, FALSE, "user")

AdjustPriority ==
  \E id \in Ids, delta \in {-1, 1} : \E i \in At(id) :
    SetLevel(i, Clamp(tasks[i].priority + delta), FALSE, "user")

GrantUrgent ==
  \E id \in Ids, actor \in Actors : \E i \in At(id) : SetLevel(i, OsLevel, TRUE, actor)

Pause ==
  \E id \in Ids, pause \in BOOLEAN : \E i \in At(id) :
    /\ tasks' = [tasks EXCEPT ![i].paused = pause]
    /\ UNCHANGED <<nextId, default, historyVars>>

\* taskprio_remove: "task drop", and PanicRoom for the first task.
Remove ==
  \E id \in Ids : \E i \in At(id) :
    /\ tasks' = RemoveAt(tasks, i)
    /\ UNCHANGED <<nextId, default, historyVars>>

SetDefault ==
  \E p \in Levels :
    /\ default' = p
    /\ Log(default, p, "user")
    /\ UNCHANGED queueVars

HistoryClear ==
  /\ history' = [s \in HistorySlots |-> BlankGrant]
  /\ historyCount' = 0
  /\ historyNext' = 1
  /\ granted' = <<>>
  /\ UNCHANGED <<queueVars, default>>

\* cmd_task
CmdTask ==
  \/ EnqueueUser
  \/ SetPriority
  \/ AdjustPriority
  \/ GrantUrgent
  \/ Pause
  \/ Remove
  \/ SetDefault
  \/ HistoryClear

Next ==
  \/ CmdTask
  \/ EnqueueOs
  \/ Dequeue

Spec == Init /\ [][Next]_vars

\* The main loop calls gui_tick, which dequeues, on every turn.
FairSpec == Spec /\ WF_vars(Dequeue)

-----------------------------------------------------------------------------
\* Why the queue is fair within a level: of two tasks of a level the earlier
\* one, unless its wait was restarted, has waited at least as long.
EarlierWaitedLonger ==
  /\ \A i \in Indices : IsUrgent(tasks[i]) => tasks[i].wait = 0
  /\ \A i, j \in Indices :
       i < j /\ tasks[i].priority = tasks[j].priority /\ ~tasks[i].reprioritized
         => tasks[j].wait <= tasks[i].wait

\* The queue holds at most MaxTasks tasks and every counter is in its range.
TypeOK ==
  /\ tasks \in Seq(Tasks) /\ Len(tasks) <= MaxTasks
  /\ nextId \in Ids
  /\ default \in Levels
  /\ history \in [HistorySlots -> Grants]
  /\ historyCount \in 0 .. HistoryMax
  /\ historyNext \in Seqs
  /\ granted \in Seq(Grants)

\* Aging orders tasks within a level and never across levels: no runnable task
\* of a higher level, aged or not, is left in the queue by a dequeue.
HighestLevelFirst ==
  [][\A i \in Indices :
       Dispatch(i) => \A j \in Runnable : tasks[j].priority <= tasks[i].priority]_vars

\* Two tasks of one level run in the order they were queued, whatever others
\* come and go or are paused meanwhile, unless the first one's level was set.
FifoWithinLevel ==
  [][\A i \in Indices :
       Dispatch(i) =>
         \A j \in Runnable : j < i /\ tasks[j].priority = tasks[i].priority
                               => tasks[j].reprioritized]_vars

\* The order in which tasks are served, within levels and between them.
ServiceOrder == HighestLevelFirst /\ FifoWithinLevel

\* What "task history" lists is the last grants of lev.10, in their order,
\* through overwrites of the ring and clears of it.
HistoryIsAudit ==
  /\ historyCount = Len(granted)
  /\ \A i \in 0 .. historyCount - 1 : HistoryAt(i) = granted[i + 1]

\* Tasks are served in their order, and so are their grants listed until
\* history_next wraps round and leaves out a slot of the ring.
TasksInOrder == ServiceOrder /\ [](~LogWraps => HistoryIsAudit)

UrgentRunnable(id) == \E i \in Urgent : tasks[i].id = id

\* An urgent task runs, however many tasks, urgent ones too, keep coming in,
\* unless the user pauses it, lowers it or drops it.
UrgentRuns == \A id \in Ids : UrgentRunnable(id) ~> ~UrgentRunnable(id)
=============================================================================
