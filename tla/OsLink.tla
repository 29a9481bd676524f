------------------------------- MODULE OsLink -------------------------------
(***************************************************************************)
(* OSLink, src/os/kernel/oslink.c: LardOS machines exchanging datagrams.   *)
(* Every machine polls its UDP port from the main loop, files what it gets *)
(* in an inbox of fixed depth and answers it; the shell sends messages,    *)
(* reads the inbox and posts local ones.  The network loses, duplicates    *)
(* and reorders, and damages nothing: a datagram that does not parse,      *)
(* which no LardOS machine sends, would only be counted as dropped.  A     *)
(* text is kept only where the handler looks at it: an EXEC command is one *)
(* of Safe or Unsafe, an answer is what it says.  Task run-outs are those  *)
(* of taskprio.c (module TaskPrio).                                        *)
(***************************************************************************)
EXTENDS Naturals, Sequences, FiniteSets, SequencesExt

CONSTANTS
  Nodes,       \* the machines; a node is identified by its address
  InboxDepth,  \* OSLINK_INBOX_DEPTH: 8
  PeerMax,     \* OSLINK_PEER_MAX: 8
  MaxTasks,    \* TASKPRIO_MAX_TASKS: 8
  MaxUserSends,\* bound: messages the users send, local ones included
  MaxDuplicates\* bound: datagrams the network delivers twice

ASSUME OsLinkAssumption ==
  /\ InboxDepth \in Nat \ {0} /\ PeerMax \in Nat /\ MaxTasks \in Nat
  /\ MaxUserSends \in Nat /\ MaxDuplicates \in Nat

Requests == {"HELLO", "PING", "TEXT", "EXEC"}
Answers == {"ACK", "PONG"}
Commands == {"safe", "unsafe"}
Slots == 0 .. InboxDepth - 1

VARIABLES
  seq,        \* seq counter of each node
  inbox,      \* [slot, head, tail, count] of each node
  dropped,    \* inbox overwrites of each node
  peers,      \* the peer table of each node
  tasks,      \* tasks queued at each node
  net,        \* datagrams in flight
  userSends,  \* bounded counters
  duplicates,
  filed,      \* history variable: every message filed in the inbox of a node
  taken       \* history variable: how many of them oslink_recv handed out

vars == <<seq, inbox, dropped, peers, tasks, net, userSends, duplicates, filed, taken>>

-----------------------------------------------------------------------------
\* A bug to catch: a full inbox moves its head but keeps its count.
QueuedUncounted(box, m) ==
  LET full == box.count >= InboxDepth
  IN  [slot  |-> [box.slot EXCEPT ![box.tail] = m],
       head  |-> IF full THEN (box.head + 1) % InboxDepth ELSE box.head,
       tail  |-> (box.tail + 1) % InboxDepth,
       count |-> IF full THEN box.count - 1 ELSE box.count + 1]

\* queue_msg: the oldest message makes room for the new one.
Queued(box, m) ==
  LET full == box.count >= InboxDepth
  IN  [slot  |-> [box.slot EXCEPT ![box.tail] = m],
       head  |-> IF full THEN (box.head + 1) % InboxDepth ELSE box.head,
       tail  |-> (box.tail + 1) % InboxDepth,
       count |-> IF full THEN box.count ELSE box.count + 1]

\* A bug to catch: the head runs off the end of the ring.
PoppedPastEnd(box) == [box EXCEPT !.head = @ + 1, !.count = @ - 1]

\* oslink_recv, for count > 0
Oldest(box) == box.slot[box.head]
Popped(box) ==
  [box EXCEPT !.head = (@ + 1) % InboxDepth, !.count = @ - 1]

\* The messages in the order oslink_recv will hand them out.
Contents(box) ==
  [i \in 1 .. box.count |-> box.slot[(box.head + i - 1) % InboxDepth]]

\* A bug to catch: a peer already known is entered again.
RememberAgain(table, ip) ==
  IF Len(table) >= PeerMax THEN table ELSE Append(table, ip)

\* remember_peer: a full table forgets nobody and learns nobody.
Remember(table, ip) ==
  IF ip \in Range(table) \/ Len(table) >= PeerMax THEN table ELSE Append(table, ip)

\* What oslink_poll answers; NoAnswer for ACK and PONG themselves.
NoAnswer == "none"
Answer(m, room) ==
  CASE m.type \in {"HELLO", "TEXT"} -> "ACK"
    [] m.type = "PING" -> "PONG"
    [] m.type = "EXEC" -> "ACK"
    [] OTHER -> NoAnswer

\* The text of the answer.
Says(m, room) ==
  CASE m.type = "EXEC" /\ m.text = "unsafe" -> "exec denied"
    [] m.type = "EXEC" /\ m.text = "safe" /\ room -> "exec queued"
    [] m.type = "EXEC" /\ m.text = "safe" /\ ~room -> "exec queue full"
    [] OTHER -> "text"

-----------------------------------------------------------------------------
\* A blank slot is never read.
Blank == [src |-> "nobody", type |-> "LOCAL", seq |-> 0, text |-> "text"]

\* oslink_init
Init ==
  /\ seq = [n \in Nodes |-> 0]
  /\ inbox = [n \in Nodes |-> [slot |-> [s \in Slots |-> Blank],
                               head |-> 0, tail |-> 0, count |-> 0]]
  /\ dropped = [n \in Nodes |-> 0]
  /\ peers = [n \in Nodes |-> <<>>]
  /\ tasks = [n \in Nodes |-> 0]
  /\ net = {}
  /\ userSends = 0
  /\ duplicates = 0
  /\ filed = [n \in Nodes |-> <<>>]
  /\ taken = [n \in Nodes |-> 0]

UserMaySend == userSends < MaxUserSends /\ userSends' = userSends + 1

\* send_type: the number is used up even when the stack cannot send.
Sends(n, packets) ==
  /\ seq' = [seq EXCEPT ![n] = @ + 1]
  /\ net' \in {net, net \cup packets}

File(n, m) ==
  /\ inbox' = [inbox EXCEPT ![n] = Queued(@, m)]
  /\ dropped' = [dropped EXCEPT ![n] = IF inbox[n].count >= InboxDepth THEN @ + 1 ELSE @]
  /\ filed' = [filed EXCEPT ![n] = Append(@, m)]

\* oslink_send_hello, _ping, _text, _exec
Send(n) ==
  /\ UserMaySend
  /\ \E dst \in Nodes \ {n}, type \in Requests :
       \E text \in IF type = "EXEC" THEN Commands ELSE {"text"} :
         Sends(n, {[src |-> n, dst |-> dst, type |-> type, seq |-> seq[n] + 1, text |-> text]})
  /\ UNCHANGED <<inbox, dropped, peers, tasks, duplicates, filed, taken>>

\* oslink_emit_local
EmitLocal(n) ==
  /\ UserMaySend
  /\ seq' = [seq EXCEPT ![n] = @ + 1]
  /\ File(n, [src |-> n, type |-> "LOCAL", seq |-> seq[n] + 1, text |-> "text"])
  /\ UNCHANGED <<peers, tasks, net, duplicates, taken>>

\* cmd_oslink; its `recv` is Recv and its `poll` is Poll.
CmdOslink(n) == Send(n) \/ EmitLocal(n)

\* A bug to catch: every datagram is acknowledged under its own number, an
\* acknowledgement too.
HandleAcksAcks(n, m, rest) ==
  LET room == tasks[n] < MaxTasks
  IN  /\ peers' = [peers EXCEPT ![n] = Remember(@, m.src)]
      /\ IF m.type \in Requests
           THEN File(n, [src |-> m.src, type |-> m.type, seq |-> m.seq, text |-> m.text])
           ELSE UNCHANGED <<inbox, dropped, filed>>
      /\ net' \in {rest, rest \cup {[src |-> n, dst |-> m.src, type |-> "ACK",
                                     seq |-> m.seq, text |-> Says(m, room)]}}
      /\ UNCHANGED <<seq, tasks>>

\* oslink_poll for one datagram m: remember the peer, file requests, queue the
\* task of a safe EXEC, answer.  `rest` is what the network still holds of it.
Handle(n, m, rest) ==
  LET room == tasks[n] < MaxTasks
  IN  /\ peers' = [peers EXCEPT ![n] = Remember(@, m.src)]
      /\ IF m.type \in Requests
           THEN File(n, [src |-> m.src, type |-> m.type, seq |-> m.seq, text |-> m.text])
           ELSE UNCHANGED <<inbox, dropped, filed>>
      /\ tasks' = [tasks EXCEPT ![n] =
                     IF m.type = "EXEC" /\ m.text = "safe" /\ room THEN @ + 1 ELSE @]
      /\ IF Answer(m, room) = NoAnswer
           THEN net' = rest /\ UNCHANGED seq
           ELSE /\ seq' = [seq EXCEPT ![n] = @ + 1]
                /\ net' \in {rest, rest \cup {[src |-> n, dst |-> m.src, type |-> Answer(m, room),
                                               seq |-> seq[n] + 1, text |-> Says(m, room)]}}

Poll(n) ==
  \E m \in net :
    /\ m.dst = n
    /\ Handle(n, m, net \ {m})
    /\ UNCHANGED <<userSends, duplicates, taken>>

\* The network delivers a copy and keeps the original.
Duplicate(n) ==
  \E m \in net :
    /\ m.dst = n
    /\ duplicates < MaxDuplicates
    /\ duplicates' = duplicates + 1
    /\ Handle(n, m, net)
    /\ UNCHANGED <<userSends, taken>>

Lose ==
  /\ \E m \in net : net' = net \ {m}
  /\ UNCHANGED <<seq, inbox, dropped, peers, tasks, userSends, duplicates, filed, taken>>

\* "oslink recv"
Recv(n) ==
  /\ inbox[n].count > 0
  /\ inbox' = [inbox EXCEPT ![n] = Popped(@)]
  /\ taken' = [taken EXCEPT ![n] = @ + 1]
  /\ UNCHANGED <<seq, dropped, peers, tasks, net, userSends, duplicates, filed>>

\* gui_tick takes a task out of the queue.
RunTask(n) ==
  /\ tasks[n] > 0
  /\ tasks' = [tasks EXCEPT ![n] = @ - 1]
  /\ UNCHANGED <<seq, inbox, dropped, peers, net, userSends, duplicates, filed, taken>>

Next ==
  \/ \E n \in Nodes : CmdOslink(n) \/ Poll(n) \/ Duplicate(n) \/ Recv(n) \/ RunTask(n)
  \/ Lose

Spec == Init /\ [][Next]_vars

\* The main loop of every machine polls for ever.
FairSpec == Spec /\ \A n \in Nodes : WF_vars(Poll(n))

-----------------------------------------------------------------------------
Texts == Commands \cup {"text", "exec denied", "exec queued", "exec queue full"}
Messages == [src : Nodes \cup {"nobody"}, type : Requests \cup {"LOCAL"}, seq : Nat,
             text : Commands \cup {"text"}]
Datagrams == [src : Nodes, dst : Nodes, type : Requests \cup Answers, seq : Nat, text : Texts]

Latest(s, n) == SubSeq(s, Len(s) - n + 1, Len(s))

Boxes == [slot : [Slots -> Messages], head : Slots, tail : Slots, count : 0 .. InboxDepth]

\* Head, tail and count of every inbox fit together, no table outgrows its
\* array, and only requests carry the text of one.
TypeOK ==
  /\ seq \in [Nodes -> Nat]
  /\ inbox \in [Nodes -> Boxes]
  /\ \A n \in Nodes : inbox[n].tail = (inbox[n].head + inbox[n].count) % InboxDepth
  /\ peers \in [Nodes -> Seq(Nodes)]
  /\ \A n \in Nodes : Len(peers[n]) <= PeerMax
  /\ tasks \in [Nodes -> 0 .. MaxTasks]
  /\ net \subseteq Datagrams
  /\ \A m \in net : m.type \in Requests => m.text \in Commands \cup {"text"}

\* The inbox holds the newest messages in the order they came, and what is not
\* there any more was read or is counted in dropped: nothing is lost in silence
\* and nothing is handed out twice or out of turn.
InboxIsFifo ==
  \A n \in Nodes :
    /\ Contents(inbox[n]) = Latest(filed[n], inbox[n].count)
    /\ dropped[n] + taken[n] + inbox[n].count = Len(filed[n])

\* A machine enters a peer once, and only peers that wrote to it.
PeersOnce ==
  \A n \in Nodes : IsInjective(peers[n]) /\ n \notin Range(peers[n])

\* Two machines that answer each other fall silent: an answer is never answered,
\* whatever is lost, doubled or full.
Quiesces == <>[](net = {})
=============================================================================
