------------------------------ MODULE UdpDemux ------------------------------
(***************************************************************************)
(* How the datagrams of one card reach two pollers, src/os/kernel/net.c:   *)
(* net_udp_recv looks for one port, and what it meets for another port is  *)
(* put aside in one of two slots.  The pollers are oslink_poll and         *)
(* lconnect_poll, called in turn by the main loop of kernel64.c and, in    *)
(* between, by shell commands.  The loops of net.c that wait for ARP, DNS, *)
(* DHCP or TCP read the same card and throw away what they do not expect.  *)
(***************************************************************************)
EXTENDS Naturals, Sequences, FiniteSets, FiniteSetsExt, Functions

CONSTANTS
  PollBudget,   \* receives per poll: 2 in oslink_poll, 3 in lconnect_poll
  Others,       \* ports nobody polls
  Sizes,        \* of the datagrams sent: a subset of {"empty", "small", "big"}
  NoPacket,     \* a slot that is not used
  MaxArrivals,  \* bound: datagrams that arrive
  RxRing        \* bound: frames waiting in the card

Pollers == {"oslink", "lconnect"}
Ports == Pollers \cup Others
SlotCount == 2
Slots == 1 .. SlotCount
Packets == [id : 1 .. MaxArrivals, port : Ports, size : Sizes]

\* A poll can empty both slots: with a smaller budget a later datagram of a port
\* could be put into the first slot while an earlier one waits in the second.
ASSUME UdpAssumption ==
  /\ PollBudget \in [Pollers -> Nat] /\ \A p \in Pollers : PollBudget[p] >= SlotCount
  /\ Sizes \subseteq {"empty", "small", "big"}
  /\ MaxArrivals \in Nat /\ RxRing \in Nat
  /\ NoPacket \notin Packets

VARIABLES
  card,       \* frames in the receive ring of the card, oldest first
  pending,    \* s->pending: a datagram or NoPacket
  turn,       \* where the main loop is: "shell", "oslink" or "lconnect"
  poll,       \* the port whose poll is running, or "none"
  left,       \* receives it may still make
  got,        \* history: the datagrams each poller was given, in order
  truncated,  \* history: how often a receive returned -1 for it, 2 meaning again
  arrived     \* number of datagrams that arrived: the identity of the next

udpVars == <<card, pending, turn, poll, left, got, truncated, arrived>>

-----------------------------------------------------------------------------
\* data[256] of oslink_poll and data[768] of lconnect_poll: a big datagram has
\* 257 to 768 bytes.
FitsBuffer(port, size) == size # "big" \/ port = "lconnect"

\* A bug to catch: only the first slot is looked at.
MatchingFirstSlot(port) == {i \in Slots : i = 1 /\ pending[i] # NoPacket /\ pending[i].port = port}

\* The slots udp_pending_take would take from.
Matching(port) == {i \in Slots : pending[i] # NoPacket /\ pending[i].port = port}

Released(slots, i) == [slots EXCEPT ![i] = NoPacket]

\* udp_pending_store: with every slot in use the datagram is dropped.
Stored(slots, m) ==
  LET free == {i \in Slots : slots[i] = NoPacket}
  IN  IF free = {} THEN slots ELSE [slots EXCEPT ![Min(free)] = m]

Give(port, m) == got' = [got EXCEPT ![port] = Append(@, m)]

CutShort(m) == truncated' = [truncated EXCEPT ![m.id] = IF @ = 0 THEN 1 ELSE 2]

\* A bug to catch: a poll is over after one datagram.
GoOnOnce == poll' = "none" /\ left' = 0

\* A poll goes on after a datagram, up to its budget; a result <= 0 ends it.
GoOn ==
  /\ left' = left - 1
  /\ poll' = IF left = 1 THEN "none" ELSE poll

Stop == poll' = "none" /\ left' = 0

-----------------------------------------------------------------------------
UdpInit ==
  /\ card = <<>>
  /\ pending = [i \in Slots |-> NoPacket]
  /\ turn = "shell"
  /\ poll = "none"
  /\ left = 0
  /\ got = [p \in Pollers |-> <<>>]
  /\ truncated = [id \in 1 .. MaxArrivals |-> 0]
  /\ arrived = 0

Arrive ==
  /\ arrived < MaxArrivals
  /\ Len(card) < RxRing
  /\ arrived' = arrived + 1
  /\ \E port \in Ports, size \in Sizes :
       card' = Append(card, [id |-> arrived + 1, port |-> port, size |-> size])
  /\ UNCHANGED <<pending, turn, poll, left, got, truncated>>

Begin(port) ==
  /\ poll = "none"
  /\ poll' = port
  /\ left' = PollBudget[port]

\* kernel64.c: gui_tick, oslink_poll, lconnect_poll, and round again.
MainLoop ==
  /\ IF turn = "lconnect"
       THEN turn' = "shell" /\ poll = "none" /\ UNCHANGED <<poll, left>>
       ELSE /\ turn' = IF turn = "shell" THEN "oslink" ELSE "lconnect"
            /\ Begin(turn')
  /\ UNCHANGED <<card, pending, got, truncated, arrived>>

\* "oslink poll", "oslink recv", "lconnect poll"
ShellPoll ==
  /\ turn = "shell"
  /\ \E port \in Pollers : Begin(port)
  /\ UNCHANGED <<card, pending, turn, got, truncated, arrived>>

\* net_udp_recv when udp_pending_take finds a datagram with a payload.
TakePending ==
  /\ poll # "none"
  /\ Matching(poll) # {}
  /\ LET i == Min(Matching(poll))
     IN  /\ pending[i].size # "empty"
         /\ IF FitsBuffer(poll, pending[i].size)
              THEN /\ Give(poll, pending[i])
                   /\ pending' = Released(pending, i)
                   /\ GoOn
                   /\ UNCHANGED truncated
              ELSE /\ CutShort(pending[i])
                   /\ Stop
                   /\ UNCHANGED <<pending, got>>
  /\ UNCHANGED <<card, turn, arrived>>

\* net_udp_recv when it goes on to the card: an empty datagram taken from a
\* slot returns 0 like no datagram at all.
ReadCard ==
  LET empty == {i \in Matching(poll) : pending[i].size = "empty"}
      slots == IF empty = {} THEN pending ELSE Released(pending, Min(Matching(poll)))
  IN  /\ poll # "none"
      /\ Matching(poll) # {} => Min(Matching(poll)) \in empty
      /\ \/ card = <<>> /\ pending' = slots /\ Stop /\ UNCHANGED <<card, got, truncated>>
         \/ /\ card # <<>>
            /\ card' = Tail(card)
            /\ LET m == Head(card)
               IN  \/ /\ m.port # poll
                      /\ pending' = Stored(slots, m)
                      /\ Stop
                      /\ UNCHANGED <<got, truncated>>
                   \/ /\ m.port = poll /\ ~FitsBuffer(poll, m.size)
                      /\ pending' = slots
                      /\ CutShort(m)
                      /\ Stop
                      /\ UNCHANGED got
                   \/ /\ m.port = poll /\ FitsBuffer(poll, m.size)
                      /\ pending' = slots
                      /\ IF m.size = "empty" THEN Stop /\ UNCHANGED got
                                             ELSE GoOn /\ Give(poll, m)
                      /\ UNCHANGED truncated
      /\ UNCHANGED <<turn, arrived>>

\* A loop that waits for something else reads the card: a shell command that
\* fetches or resolves, or the answer of a poller that has to resolve first.
Discard ==
  /\ card # <<>>
  /\ card' = Tail(card)
  /\ UNCHANGED <<pending, turn, poll, left, got, truncated, arrived>>

UdpNext == Arrive \/ MainLoop \/ ShellPoll \/ TakePending \/ ReadCard \/ Discard

UdpSpec == UdpInit /\ [][UdpNext]_udpVars

\* A poll that was begun goes on, and so does the main loop, between whose
\* rounds the shell may poll any number of times.
UdpFairSpec == UdpSpec /\ SF_udpVars(MainLoop) /\ WF_udpVars(TakePending) /\ WF_udpVars(ReadCard)

-----------------------------------------------------------------------------
Increasing(s) == \A i, j \in DOMAIN s : i < j => s[i].id < s[j].id

\* Two slots, a budget, and polls that only run when the loop is at them.
UdpTypeOK ==
  /\ card \in Seq(Packets) /\ Len(card) <= RxRing
  /\ pending \in [Slots -> Packets \cup {NoPacket}]
  /\ turn \in {"shell"} \cup Pollers
  /\ poll \in {"none"} \cup Pollers /\ left \in Nat
  /\ (poll = "none") = (left = 0)
  /\ poll # "none" => left <= PollBudget[poll]
  /\ turn # "shell" => poll \in {"none", turn}
  /\ got \in [Pollers -> Seq(Packets)]

\* A poller is given datagrams of its own port only, each at most once, and in
\* the order the card received them although some waited in a slot and others
\* did not.  An empty datagram ends a poll early, and then a slot that was
\* filled later may be read first.
EmptyPossible == "empty" \in Sizes
DeliveredInOrder ==
  \A p \in Pollers :
    /\ \A m \in Range(got[p]) : m.port = p
    /\ IsInjective(got[p])
    /\ ~EmptyPossible => Increasing(got[p])

\* A datagram put aside for a port somebody polls does not stay put aside: as
\* long as every datagram fits its poller's buffer the slot is freed.
PendingServed ==
  \A m \in Packets : m.port \in Pollers =>
    (m \in Range(pending) ~> m \notin Range(pending))

\* net.h:35: a call polls one datagram and says -1 when it was cut short, so
\* no datagram is reported so twice.
TruncatedOnce == \A id \in DOMAIN truncated : truncated[id] <= 1
=============================================================================
