----------------------------- MODULE MCMainLoop -----------------------------
(***************************************************************************)
(* What the main loop of kernel64.c hands out: shell tasks (TaskPrio) and  *)
(* datagrams (UdpDemux).  The two share no state, so one behaviour explores*)
(* one of them while the other stays as it is initialised; `part` says     *)
(* which.  The tasks are explored with three levels for the order of       *)
(* dispatch, and with two levels and more ids for urgent ones being served;*)
(* the datagrams with some too big for a buffer, and with empty ones.      *)
(***************************************************************************)
EXTENDS TaskPrio, UdpDemux

VARIABLES
  busyTasks, busyNextId, busyDefault,  \* the second task queue
  busyRing, busyCount, busyNext, busyGranted,
  servedCard, servedPending, servedTurn, servedPoll,  \* the second receive path
  servedLeft, servedGot, servedTruncated, servedArrived,
  part

\* Two tasks, urgent or not: one can wait while others come and go in its turn.
Busy == INSTANCE TaskPrio WITH
             MaxTasks <- 2, OsLevel <- 1, DefaultLevel <- 0, AgeCap <- 0, AgeSpan <- 1, WaitMax <- 0,
             HistoryMax <- 1, IdModulus <- 3, SeqModulus <- 3, LogWraps <- TRUE,
             tasks <- busyTasks, nextId <- busyNextId, default <- busyDefault,
             history <- busyRing, historyCount <- busyCount,
             historyNext <- busyNext, granted <- busyGranted

MCBudget == [p \in Pollers |-> IF p = "oslink" THEN 2 ELSE 3]
MCOthers == {"other"}
MCSizes == {"small", "big"}

\* Empty datagrams instead of big ones.
Served == INSTANCE UdpDemux WITH
            Sizes <- {"small", "empty"}, MaxArrivals <- 3,
            card <- servedCard, pending <- servedPending, turn <- servedTurn, poll <- servedPoll,
            left <- servedLeft, got <- servedGot, truncated <- servedTruncated, arrived <- servedArrived

busyVars == <<busyTasks, busyNextId, busyDefault,
              busyRing, busyCount, busyNext, busyGranted>>
servedVars == <<servedCard, servedPending, servedTurn, servedPoll,
                servedLeft, servedGot, servedTruncated, servedArrived>>

MCInit ==
  /\ Init /\ Busy!Init /\ UdpInit /\ Served!UdpInit
  /\ part \in {"tasks", "busy", "ordered", "served"}

MCNext ==
  /\ UNCHANGED part
  /\ \/ part = "tasks" /\ Next /\ UNCHANGED <<busyVars, udpVars, servedVars>>
     \/ part = "busy" /\ Busy!Next /\ UNCHANGED <<vars, udpVars, servedVars>>
     \/ part = "ordered" /\ UdpNext /\ UNCHANGED <<vars, busyVars, servedVars>>
     \/ part = "served" /\ Served!UdpNext /\ UNCHANGED <<vars, busyVars, udpVars>>

MCSpec ==
  /\ MCInit /\ [][MCNext]_<<vars, busyVars, udpVars, servedVars, part>>
  /\ WF_busyVars(part = "busy" /\ Busy!Dequeue)
  /\ SF_servedVars(part = "served" /\ Served!MainLoop)
  /\ WF_servedVars(part = "served" /\ Served!TakePending)
  /\ WF_servedVars(part = "served" /\ Served!ReadCard)

\* What waits is served: the most urgent task under aging, and, once, the datagram
\* in a pending slot whose port is polled.
WaitingIsServed ==
  /\ part = "busy" => Busy!UrgentRuns
  /\ part = "served" => Served!PendingServed /\ []Served!DeliveredInOrder
=============================================================================
