------------------------------ MODULE Lconnect ------------------------------
(***************************************************************************)
(* LardConnect, src/os/kernel/lconnect.c: machines that lend each other    *)
(* resources over UDP.  Sharing is off until the user turns it on, a       *)
(* request is answered at once only when the user asked for that, and      *)
(* keyboard and mouse cannot be named before "deprecated lconnect input on *)
(* confirm".  The network loses, duplicates and reorders.                  *)
(*                                                                         *)
(* A resource mask is the set of its bits.  Left out: the counters that    *)
(* only lconnect_info shows, and the texts.                                *)
(***************************************************************************)
EXTENDS Naturals, Sequences, FiniteSets, SequencesExt, TLAPS

CONSTANTS
  Nodes,
  Plain,        \* LCONNECT_RES_ALL: megaclip, cpu, gpu, storage, peripheral
  Input,        \* LCONNECT_RES_INPUT: keyboard, mouse
  Clip,         \* LCONNECT_RES_MEGACLIP, one of Plain
  PeerMax,      \* LCONNECT_PEER_MAX: 8
  LogDepth,     \* LCONNECT_LOG_DEPTH: 12
  MaxCommands,  \* bound: shell commands of each node
  MaxDuplicates \* bound: packets the network delivers twice

Resources == Plain \cup Input
Masks == SUBSET Resources

ASSUME ResourceAssumption == Clip \in Plain /\ Plain \cap Input = {}
ASSUME SizeAssumption == PeerMax \in Nat /\ LogDepth \in Nat \ {0}
ASSUME BoundsAssumption == MaxCommands \in [Nodes -> Nat] /\ MaxDuplicates \in Nat

VARIABLES
  enabled, autoGrant, quiet, armed,  \* flags; quiet and armed are deprecated_quiet, _input
  resources,   \* the mask each node shares
  peers,       \* peer table: a sequence of [ip, resources]
  log,         \* [slot, head, count] of each node
  net,         \* packets in flight
  commands,    \* bounded counters
  duplicates,
  recent,      \* history: the latest LogDepth events of a node
  everArmed    \* history: the nodes that have ever confirmed input

flags == <<enabled, autoGrant, quiet, armed, resources>>
vars == <<flags, peers, log, net, commands, duplicates, recent, everArmed>>

Actions == {"hello", "offer", "clip-in", "clip-deny", "deny", "quiet-grant", "grant", "pending",
            "lease", "release", "deprecated-input", "deprecated-quiet"}
Events == [ip : Nodes, action : Actions, resource : Masks]
Slots == 0 .. LogDepth - 1

-----------------------------------------------------------------------------
\* The places of the ring, in turn.
Place(k) == k % LogDepth

\* A bug to catch: the oldest event is overwritten and stays the first.
LoggedStuck(ring, e) ==
  IF ring.count < LogDepth
    THEN [ring EXCEPT !.slot = [@ EXCEPT ![Place(ring.head + ring.count)] = e], !.count = @ + 1]
    ELSE [ring EXCEPT !.slot = [@ EXCEPT ![ring.head] = e]]

\* log_event
Logged(ring, e) ==
  IF ring.count < LogDepth
    THEN [ring EXCEPT !.slot = [@ EXCEPT ![Place(ring.head + ring.count)] = e], !.count = @ + 1]
    ELSE [ring EXCEPT !.slot = [@ EXCEPT ![ring.head] = e], !.head = Place(@ + 1)]

\* lconnect_log_at, from 0 to log_count - 1
LogContents(ring) ==
  [i \in 1 .. ring.count |-> ring.slot[Place(ring.head + i - 1)]]

\* A bug to catch: a packet of a known peer enters it again.
RememberAgain(table, ip, mask) ==
  IF Len(table) < PeerMax THEN Append(table, [ip |-> ip, resources |-> mask]) ELSE table

\* remember_peer: a known peer's mask is replaced, a full table learns nobody.
Remember(table, ip, mask) ==
  IF \E i \in DOMAIN table : table[i].ip = ip
    THEN [i \in DOMAIN table |-> IF table[i].ip = ip THEN [table[i] EXCEPT !.resources = mask]
                                                     ELSE table[i]]
    ELSE IF Len(table) < PeerMax THEN Append(table, [ip |-> ip, resources |-> mask]) ELSE table

\* A bug to catch: everything may always be named.
AllowAll(n) == Resources

\* allowed_resource_mask
Allowed(n) == IF armed[n] THEN Resources ELSE Plain

Named(n, r) == r # {} /\ r \subseteq Allowed(n)

\* A bug to catch: a request is looked up in what may be named, not in what is shared.
GrantsNamed(n, r) == enabled[n] /\ Named(n, r)

\* The test of handle_request.
Grants(n, r) == enabled[n] /\ Named(n, r) /\ r \subseteq resources[n]

\* build_packet
Packet(n, dst, type, r) ==
  [src |-> n, dst |-> dst, type |-> type, resource |-> r,
   resources |-> IF enabled[n] THEN resources[n] ELSE {}]

\* send_packet: the stack may fail to send.
Send(p) == net' \in {net, net \cup {p}}

Newest(s, k) == IF Len(s) <= k THEN s ELSE SubSeq(s, Len(s) - k + 1, Len(s))

Log(n, ip, action, r) ==
  LET e == [ip |-> ip, action |-> action, resource |-> r]
  IN  /\ log' = [log EXCEPT ![n] = Logged(@, e)]
      /\ recent' = [recent EXCEPT ![n] = Newest(Append(@, e), LogDepth)]

Command(n) ==
  /\ commands[n] < MaxCommands[n]
  /\ commands' = [commands EXCEPT ![n] = @ + 1]
  /\ UNCHANGED duplicates

-----------------------------------------------------------------------------
\* lconnect_init
Blank(n) == [ip |-> n, action |-> "hello", resource |-> {}]
Init ==
  /\ enabled = [n \in Nodes |-> FALSE]
  /\ autoGrant = [n \in Nodes |-> FALSE]
  /\ quiet = [n \in Nodes |-> FALSE]
  /\ armed = [n \in Nodes |-> FALSE]
  /\ resources = [n \in Nodes |-> {Clip}]
  /\ peers = [n \in Nodes |-> <<>>]
  /\ log = [n \in Nodes |-> [slot |-> [s \in Slots |-> Blank(n)], head |-> 0, count |-> 0]]
  /\ net = {}
  /\ commands = [n \in Nodes |-> 0]
  /\ duplicates = 0
  /\ recent = [n \in Nodes |-> <<>>]
  /\ everArmed = {}

\* lconnect_enable, lconnect_set_auto
SetFlags(n) ==
  /\ Command(n)
  /\ \E on \in BOOLEAN :
       \/ enabled' = [enabled EXCEPT ![n] = on] /\ UNCHANGED autoGrant
       \/ autoGrant' = [autoGrant EXCEPT ![n] = on] /\ UNCHANGED enabled
  /\ UNCHANGED <<quiet, armed, resources, peers, log, net, recent, everArmed>>

\* lconnect_set_share of a set of resources that the command can name
SetShare(n, rs) ==
  /\ Command(n)
  /\ \E r \in rs :
       /\ Named(n, r)
       /\ resources' = [resources EXCEPT ![n] = @ \cup r] \/ resources' = [resources EXCEPT ![n] = @ \ r]
  /\ UNCHANGED <<enabled, autoGrant, quiet, armed, peers, log, net, recent, everArmed>>

\* A bug to catch: disarming leaves keyboard and mouse shared.
DisarmShared(n) == resources[n]

\* What lconnect_deprecated_set_input leaves shared when it turns input off.
Disarmed(n) == resources[n] \ Input

\* lconnect_deprecated_set_input, confirmed
SetInput(n) ==
  /\ Command(n)
  /\ \E on \in BOOLEAN :
       /\ armed' = [armed EXCEPT ![n] = on]
       /\ resources' = [resources EXCEPT ![n] = IF on THEN @ ELSE Disarmed(n)]
       /\ everArmed' = IF on THEN everArmed \cup {n} ELSE everArmed
  /\ Log(n, n, "deprecated-input", Input)
  /\ UNCHANGED <<enabled, autoGrant, quiet, peers, net>>

\* lconnect_deprecated_set_quiet, confirmed
SetQuiet(n) ==
  /\ Command(n)
  /\ \E on \in BOOLEAN : quiet' = [quiet EXCEPT ![n] = on]
  /\ Log(n, n, "deprecated-quiet", {})
  /\ UNCHANGED <<enabled, autoGrant, armed, resources, peers, net, everArmed>>

\* lconnect_discover and lconnect_send_clip
Greet(n) ==
  /\ Command(n)
  /\ \E dst \in Nodes \ {n} :
       \/ Send(Packet(n, dst, "HELLO", resources[n]))
       \/ Send(Packet(n, dst, "CLIP", {Clip}))
  /\ UNCHANGED <<flags, peers, log, recent, everArmed>>

\* lconnect_request, _grant and _deny: a manual grant needs neither a request nor
\* a shared resource.
UserSend(n, rs) ==
  /\ Command(n)
  /\ \E dst \in Nodes \ {n}, type \in {"REQUEST", "GRANT", "DENY"}, r \in rs :
       Named(n, r) /\ Send(Packet(n, dst, type, r))
  /\ UNCHANGED <<flags, peers, log, recent, everArmed>>

\* cmd_lconnect names no keyboard and no mouse; its `poll` is Poll.
PlainNames == {r \in Masks : r \cap Input = {}}
CmdLconnect(n) ==
  SetFlags(n) \/ SetShare(n, PlainNames) \/ Greet(n) \/ UserSend(n, PlainNames)

\* cmd_deprecated_lconnect, confirmed; the plain names it also takes are above.
InputNames == Masks \ PlainNames
CmdDeprecatedLconnect(n) ==
  SetInput(n) \/ SetQuiet(n) \/ SetShare(n, InputNames) \/ UserSend(n, InputNames)

\* lconnect_poll for one packet p; `rest` is what the network still holds.
Answer(n, rest, dst, type, r) ==
  net' \in {rest, rest \cup {Packet(n, dst, type, r)}}

HandleRequest(n, p, rest) ==
  IF ~Grants(n, p.resource)
    THEN Answer(n, rest, p.src, "DENY", p.resource) /\ Log(n, p.src, "deny", p.resource)
    ELSE IF autoGrant[n] \/ quiet[n]
      THEN /\ Answer(n, rest, p.src, "GRANT", p.resource)
           /\ Log(n, p.src, IF quiet[n] THEN "quiet-grant" ELSE "grant", p.resource)
      ELSE net' = rest /\ Log(n, p.src, "pending", p.resource)

HandleHello(n, p, rest) ==
  /\ Log(n, p.src, "hello", p.resource)
  /\ IF enabled[n] THEN Answer(n, rest, p.src, "OFFER", resources[n]) ELSE net' = rest

\* A bug to catch: an offer is greeted in its turn.
HandleQuietlyGreets(n, p, rest) ==
  IF p.type = "OFFER" THEN Answer(n, rest, p.src, "HELLO", {}) /\ Log(n, p.src, "offer", p.resources)
  ELSE net' = rest /\ UNCHANGED <<log, recent>>

\* The packets that are not answered.
HandleQuietly(n, p, rest) ==
  /\ net' = rest
  /\ CASE p.type = "OFFER" -> Log(n, p.src, "offer", p.resources)
       [] p.type = "GRANT" -> Log(n, p.src, "lease", p.resource)
       [] p.type = "DENY" -> Log(n, p.src, "deny", p.resource)
       [] p.type = "CLIP" ->
            IF enabled[n] /\ Clip \in resources[n]
              THEN \/ Log(n, p.src, "clip-in", {Clip})
                   \/ UNCHANGED <<log, recent>>  \* megaclip_push refused it
              ELSE Log(n, p.src, "clip-deny", {Clip})

Handle(n, p, rest) ==
  /\ peers' = [peers EXCEPT ![n] = Remember(@, p.src, p.resources)]
  /\ CASE p.type = "REQUEST" -> HandleRequest(n, p, rest)
       [] p.type = "HELLO" -> HandleHello(n, p, rest)
       [] OTHER -> HandleQuietly(n, p, rest)
  /\ UNCHANGED <<flags, commands, everArmed>>

Poll(n) == \E p \in net : p.dst = n /\ Handle(n, p, net \ {p}) /\ UNCHANGED duplicates

\* The network delivers a copy and keeps the original.
Duplicate(n) ==
  /\ duplicates < MaxDuplicates
  /\ duplicates' = duplicates + 1
  /\ \E p \in net : p.dst = n /\ Handle(n, p, net)

Lose ==
  /\ \E p \in net : net' = net \ {p}
  /\ UNCHANGED <<flags, peers, log, commands, duplicates, recent, everArmed>>

Next ==
  \/ \E n \in Nodes : CmdLconnect(n) \/ CmdDeprecatedLconnect(n) \/ Poll(n) \/ Duplicate(n)
  \/ Lose

Spec == Init /\ [][Next]_vars

\* Every machine polls for ever.
FairSpec == Spec /\ \A n \in Nodes : WF_vars(Poll(n))

-----------------------------------------------------------------------------
PacketTypes == {"HELLO", "OFFER", "CLIP", "REQUEST", "GRANT", "DENY"}
Packets == [src : Nodes, dst : Nodes, type : PacketTypes, resource : Masks, resources : Masks]
Rings == [slot : [Slots -> Events], head : Slots, count : 0 .. LogDepth]

\* The tables keep their size and a peer has one entry.
TypeOK ==
  /\ enabled \in [Nodes -> BOOLEAN] /\ autoGrant \in [Nodes -> BOOLEAN]
  /\ quiet \in [Nodes -> BOOLEAN] /\ armed \in [Nodes -> BOOLEAN]
  /\ resources \in [Nodes -> Masks]
  /\ peers \in [Nodes -> Seq([ip : Nodes, resources : Masks])]
  /\ \A n \in Nodes :
       /\ Len(peers[n]) <= PeerMax
       /\ \A i, j \in DOMAIN peers[n] : peers[n][i].ip = peers[n][j].ip => i = j
  /\ log \in [Nodes -> Rings]
  /\ net \subseteq Packets

\* Keyboard and mouse are shared only while the confirmed input switch is on,
\* in whatever order the switch and the shares are set and cleared.
InputNeedsArming == \A n \in Nodes : resources[n] \cap Input # {} => armed[n]

\* From a machine whose user never confirmed deprecated input no peer hears of
\* keyboard or mouse: no greeting or offer advertises them, no request asks
\* for them and no grant, by hand or automatic, gives them, whatever it is
\* asked for.  Only a denial repeats the names of the request.
NonInputByDefault ==
  \A p \in net :
    (p.resource \cup p.resources) \cap Input # {} =>
      \/ p.src \in everArmed
      \/ p.type = "DENY" /\ p.resources \cap Input = {}

\* Keyboard and mouse stay where they are until their user confirms them.
InputIsGuarded == InputNeedsArming /\ NonInputByDefault

\* The log shows the latest events in their order: no grant scrolls away
\* before an older event does.
LogIsLatest == \A n \in Nodes : LogContents(log[n]) = recent[n]

\* What automatic grants may be: every one that a step adds to the network was
\* asked for by that peer, of a machine that is on, shares all of it and has
\* automatic or quiet granting on; every other grant is a command of the user.
GrantStep ==
  \A p \in net' \ net :
    p.type = "GRANT" =>
      \/ commands'[p.src] > commands[p.src]
      \/ /\ enabled[p.src] /\ p.resource \subseteq resources[p.src]
         /\ autoGrant[p.src] \/ quiet[p.src]
         /\ \E q \in net : q.type = "REQUEST" /\ q.src = p.dst /\ q.resource = p.resource
GrantsAreShared == [][GrantStep]_vars

\* An answer is never answered: the network falls silent.
Quiesces == <>[](net = {})

-----------------------------------------------------------------------------
(***************************************************************************)
(* Keyboard and mouse stay out of LardConnect until the user confirms      *)
(* them, and no grant is given that was not asked for, for every number    *)
(* of machines, every set of resources and every behaviour of the network. *)
(***************************************************************************)

\* A packet that a machine may have sent, given what its user has confirmed.
Harmless(p) ==
  (p.resource \cup p.resources) \cap Input # {} =>
    \/ p.src \in everArmed
    \/ p.type = "DENY" /\ p.resources \cap Input = {}

\* What is shared or armed was confirmed at some time.
IInv ==
  /\ armed \in [Nodes -> BOOLEAN]
  /\ resources \in [Nodes -> Masks]
  /\ \A n \in Nodes : armed[n] => n \in everArmed
  /\ InputNeedsArming
  /\ \A p \in net : Harmless(p)

LEMMA InitIInv == Init => IInv
  BY ResourceAssumption DEF Init, IInv, InputNeedsArming, Harmless, Masks, Resources

\* Names that pass the mask are not keyboard or mouse unless the node is armed.
LEMMA NamedPlain ==
  ASSUME NEW n \in Nodes, NEW r, Named(n, r), ~armed[n]
  PROVE  r \cap Input = {}
  BY ResourceAssumption DEF Named, Allowed

\* What build_packet puts into the header of a packet.
LEMMA PacketHarmless ==
  ASSUME IInv, NEW n \in Nodes, NEW dst, NEW type, NEW r,
         armed[n] \/ r \cap Input = {} \/ type = "DENY"
  PROVE  Harmless(Packet(n, dst, type, r))
<1> DEFINE p == Packet(n, dst, type, r)
<1>1. p.src = n /\ p.type = type /\ p.resource = r /\ p.resources \subseteq resources[n]
  BY DEF Packet
<1> HIDE DEF p
<1>2. ASSUME armed[n] PROVE Harmless(p)
  <2>1. n \in everArmed
    BY <1>2 DEF IInv
  <2>2. p.src \in everArmed
    BY <1>1, <2>1
  <2> QED
    BY <2>2 DEF Harmless
<1>3. ASSUME ~armed[n] PROVE Harmless(p)
  <2>1. resources[n] \cap Input = {}
    BY <1>3 DEF IInv, InputNeedsArming
  <2>2. p.resources \cap Input = {}
    BY <1>1, <2>1
  <2>3. r \cap Input = {} \/ type = "DENY"
    BY <1>3
  <2>4. CASE type = "DENY"
    BY <1>1, <2>2, <2>4 DEF Harmless
  <2>5. CASE r \cap Input = {}
    <3>1. (p.resource \cup p.resources) \cap Input = {}
      BY <1>1, <2>2, <2>5
    <3> QED
      BY <3>1 DEF Harmless
  <2> QED
    BY <2>3, <2>4, <2>5
<1> QED
  BY <1>2, <1>3 DEF p

\* The flags and the confirmations are those of the step before.
LEMMA NetStep ==
  ASSUME IInv, UNCHANGED <<flags, everArmed>>, \A p \in net' : Harmless(p)
  PROVE  IInv'
  BY DEF IInv, flags, InputNeedsArming, Harmless

\* lconnect_poll: the answers are packets of this machine.
LEMMA HandleHarmless ==
  ASSUME IInv, NEW n \in Nodes, NEW p \in net, NEW rest \in SUBSET net, Handle(n, p, rest)
  PROVE  IInv'
<1>1. UNCHANGED <<flags, everArmed>>
  BY DEF Handle
<1>2. \A q \in rest : Harmless(q)
  BY DEF IInv
<1>3. \A q \in net' : Harmless(q)
  <2>1. CASE p.type = "REQUEST"
    <3>1. HandleRequest(n, p, rest)
      BY <2>1 DEF Handle
    <3>2. CASE ~Grants(n, p.resource)
      <4>1. net' \subseteq rest \cup {Packet(n, p.src, "DENY", p.resource)}
        BY <3>1, <3>2 DEF HandleRequest, Answer
      <4>2. Harmless(Packet(n, p.src, "DENY", p.resource))
        BY PacketHarmless
      <4> QED
        BY <1>2, <4>1, <4>2
    <3>3. CASE Grants(n, p.resource)
      <4>1. net' \subseteq rest \cup {Packet(n, p.src, "GRANT", p.resource)}
        BY <3>1, <3>3 DEF HandleRequest, Answer
      <4>2. armed[n] \/ p.resource \cap Input = {}
        BY <3>3, NamedPlain DEF Grants
      <4>3. Harmless(Packet(n, p.src, "GRANT", p.resource))
        BY <4>2, PacketHarmless
      <4> QED
        BY <1>2, <4>1, <4>3
    <3> QED
      BY <3>2, <3>3
  <2>2. CASE p.type = "HELLO"
    <3>1. net' \subseteq rest \cup {Packet(n, p.src, "OFFER", resources[n])}
      BY <2>2 DEF Handle, HandleHello, Answer
    <3>2. armed[n] \/ resources[n] \cap Input = {}
      BY DEF IInv, InputNeedsArming
    <3>3. Harmless(Packet(n, p.src, "OFFER", resources[n]))
      BY <3>2, PacketHarmless
    <3> QED
      BY <1>2, <3>1, <3>3
  <2>3. CASE p.type \notin {"REQUEST", "HELLO"}
    <3>1. net' = rest
      BY <2>3 DEF Handle, HandleQuietly
    <3> QED
      BY <1>2, <3>1
  <2> QED
    BY <2>1, <2>2, <2>3
<1> QED
  BY <1>1, <1>3, NetStep

LEMMA NextIInv == IInv /\ [Next]_vars => IInv'
<1> SUFFICES ASSUME IInv, [Next]_vars PROVE IInv'
  OBVIOUS
<1>1. ASSUME NEW n \in Nodes, SetFlags(n) PROVE IInv'
  BY <1>1 DEF SetFlags, IInv, InputNeedsArming, Harmless
<1>2. ASSUME NEW n \in Nodes, NEW rs \in SUBSET Masks, SetShare(n, rs) PROVE IInv'
  <2>1. PICK r \in Masks : /\ Named(n, r)
                           /\ \/ resources' = [resources EXCEPT ![n] = resources[n] \cup r]
                              \/ resources' = [resources EXCEPT ![n] = resources[n] \ r]
    BY <1>2 DEF SetShare
  <2>2. UNCHANGED <<armed, net, everArmed>>
    BY <1>2 DEF SetShare
  <2>3. resources' \in [Nodes -> Masks]
    BY <2>1 DEF IInv, Masks
  <2>4. InputNeedsArming'
    <3>1. armed[n] \/ r \cap Input = {}
      BY <2>1, NamedPlain
    <3>2. resources'[n] \subseteq resources[n] \cup r /\ \A k \in Nodes \ {n} : resources'[k] = resources[k]
      BY <2>1 DEF IInv
    <3> QED
      BY <2>2, <3>1, <3>2 DEF IInv, InputNeedsArming
  <2> QED
    BY <2>2, <2>3, <2>4 DEF IInv, Harmless
<1>3. ASSUME NEW n \in Nodes, SetInput(n) PROVE IInv'
  <2>1. PICK on \in BOOLEAN :
          /\ armed' = [armed EXCEPT ![n] = on]
          /\ resources' = [resources EXCEPT ![n] = IF on THEN resources[n] ELSE Disarmed(n)]
          /\ everArmed' = IF on THEN everArmed \cup {n} ELSE everArmed
    BY <1>3 DEF SetInput
  <2>2. net' = net
    BY <1>3 DEF SetInput
  <2>3. CASE on = TRUE
    <3>1. armed' = [armed EXCEPT ![n] = TRUE] /\ everArmed' = everArmed \cup {n} /\ resources' = resources
      BY <2>1, <2>3 DEF IInv
    <3> QED
      BY <2>2, <3>1 DEF IInv, InputNeedsArming, Harmless
  <2>4. CASE on = FALSE
    <3>1. armed' = [armed EXCEPT ![n] = FALSE] /\ everArmed' = everArmed
          /\ resources' = [resources EXCEPT ![n] = resources[n] \ Input]
      BY <2>1, <2>4 DEF Disarmed
    <3>2. resources' \in [Nodes -> Masks]
      BY <3>1 DEF IInv, Masks
    <3>3. InputNeedsArming'
      BY <3>1 DEF IInv, InputNeedsArming
    <3>4. armed' \in [Nodes -> BOOLEAN] /\ \A k \in Nodes : armed'[k] => k \in everArmed'
      BY <3>1 DEF IInv
    <3> QED
      BY <2>2, <3>1, <3>2, <3>3, <3>4 DEF IInv, Harmless
  <2> QED
    BY <2>3, <2>4
<1>4. ASSUME NEW n \in Nodes, SetQuiet(n) PROVE IInv'
  BY <1>4 DEF SetQuiet, IInv, InputNeedsArming, Harmless
<1>5. ASSUME NEW n \in Nodes, Greet(n) PROVE IInv'
  <2>1. PICK dst \in Nodes \ {n} :
          Send(Packet(n, dst, "HELLO", resources[n])) \/ Send(Packet(n, dst, "CLIP", {Clip}))
    BY <1>5 DEF Greet
  <2>2. UNCHANGED <<flags, everArmed>>
    BY <1>5 DEF Greet
  <2>3. ASSUME NEW p, Harmless(p), Send(p) PROVE IInv'
    <3>1. \A q \in net' : Harmless(q)
      BY <2>3 DEF Send, IInv
    <3> QED
      BY <2>2, <3>1, NetStep
  <2>4. CASE Send(Packet(n, dst, "HELLO", resources[n]))
    <3>1. armed[n] \/ resources[n] \cap Input = {}
      BY DEF IInv, InputNeedsArming
    <3> QED
      BY <2>3, <2>4, <3>1, PacketHarmless
  <2>5. CASE Send(Packet(n, dst, "CLIP", {Clip}))
    <3>1. {Clip} \cap Input = {}
      BY ResourceAssumption
    <3> QED
      BY <2>3, <2>5, <3>1, PacketHarmless
  <2> QED
    BY <2>1, <2>4, <2>5
<1>10. ASSUME NEW n \in Nodes, NEW rs \in SUBSET Masks, UserSend(n, rs) PROVE IInv'
  <2>1. PICK dst \in Nodes \ {n}, type \in {"REQUEST", "GRANT", "DENY"}, r \in rs :
          Named(n, r) /\ Send(Packet(n, dst, type, r))
    BY <1>10 DEF UserSend
  <2>2. UNCHANGED <<flags, everArmed>>
    BY <1>10 DEF UserSend
  <2>3. Harmless(Packet(n, dst, type, r))
    <3>1. armed[n] \/ r \cap Input = {}
      BY <2>1, NamedPlain
    <3> QED
      BY <2>1, <3>1, PacketHarmless
  <2>4. \A q \in net' : Harmless(q)
    BY <2>1, <2>3 DEF Send, IInv
  <2> QED
    BY <2>2, <2>4, NetStep
<1>6. ASSUME NEW n \in Nodes, Poll(n) PROVE IInv'
  <2>1. PICK p \in net : Handle(n, p, net \ {p})
    BY <1>6 DEF Poll
  <2> QED
    BY <2>1, HandleHarmless
<1>7. ASSUME NEW n \in Nodes, Duplicate(n) PROVE IInv'
  <2>1. PICK p \in net : Handle(n, p, net)
    BY <1>7 DEF Duplicate
  <2> QED
    BY <2>1, HandleHarmless
<1>8. CASE Lose
  BY <1>8 DEF Lose, flags, IInv, InputNeedsArming, Harmless
<1>9. CASE UNCHANGED vars
  BY <1>9 DEF vars, flags, IInv, InputNeedsArming, Harmless
<1> QED
  BY <1>1, <1>2, <1>3, <1>4, <1>5, <1>6, <1>7, <1>8, <1>9, <1>10
     DEF Next, CmdLconnect, CmdDeprecatedLconnect, PlainNames, InputNames

LEMMA IInvHolds == Spec => []IInv
  BY InitIInv, NextIInv, PTL DEF Spec

\* Keyboard and mouse are shared only while the confirmed input switch is on.
THEOREM InputNeedsArmingHolds == Spec => []InputNeedsArming
<1>1. IInv => InputNeedsArming
  BY DEF IInv
<1> QED
  BY <1>1, IInvHolds, PTL

\* A machine whose user never confirmed input never offers, requests or grants it.
THEOREM NonInputByDefaultHolds == Spec => []NonInputByDefault
<1>1. IInv => NonInputByDefault
  BY DEF IInv, Harmless, NonInputByDefault
<1> QED
  BY <1>1, IInvHolds, PTL

\* Neither the switches nor the packets lead around the confirmation of input.
THEOREM InputIsGuardedHolds == Spec => []InputIsGuarded
<1>1. InputNeedsArming /\ NonInputByDefault => InputIsGuarded
  BY DEF InputIsGuarded
<1> QED
  BY <1>1, InputNeedsArmingHolds, NonInputByDefaultHolds, PTL

\* A command of the user is counted.
Counted == commands \in [Nodes -> Nat]

LEMMA CountedHolds == Spec => []Counted
<1>1. Init => Counted
  BY DEF Init, Counted
<1>2. Counted /\ [Next]_vars => Counted'
  <2> SUFFICES ASSUME Counted, [Next]_vars PROVE Counted'
    OBVIOUS
  <2>1. ASSUME NEW n \in Nodes, Command(n) PROVE Counted'
    BY <2>1 DEF Command, Counted
  <2>2. CASE UNCHANGED commands
    BY <2>2 DEF Counted
  <2>3. ASSUME NEW n \in Nodes, CmdLconnect(n) \/ CmdDeprecatedLconnect(n) PROVE Counted'
    BY <2>1, <2>3 DEF CmdLconnect, CmdDeprecatedLconnect, SetFlags, SetShare, SetInput, SetQuiet,
                      Greet, UserSend
  <2>4. ASSUME NEW n \in Nodes, Poll(n) \/ Duplicate(n) PROVE UNCHANGED commands
    BY <2>4 DEF Poll, Duplicate, Handle
  <2>5. CASE Lose \/ UNCHANGED vars
    BY <2>2, <2>5 DEF Lose, vars
  <2> QED
    BY <2>2, <2>3, <2>4, <2>5 DEF Next
<1> QED
  BY <1>1, <1>2, PTL DEF Spec

\* The grants that a poll adds are answers to the request it took.
LEMMA HandleGrants ==
  ASSUME NEW n \in Nodes, NEW p \in net, NEW rest \in SUBSET net, Handle(n, p, rest)
  PROVE  GrantStep
<1> SUFFICES ASSUME NEW q \in net', q \notin net, q.type = "GRANT"
             PROVE  /\ enabled[q.src] /\ q.resource \subseteq resources[q.src]
                    /\ autoGrant[q.src] \/ quiet[q.src]
                    /\ \E r \in net : r.type = "REQUEST" /\ r.src = q.dst /\ r.resource = q.resource
  BY DEF GrantStep
<1>1. CASE p.type = "REQUEST"
  <2>1. HandleRequest(n, p, rest)
    BY <1>1 DEF Handle
  <2>2. CASE ~Grants(n, p.resource)
    <3>1. q = Packet(n, p.src, "DENY", p.resource)
      BY <2>1, <2>2 DEF HandleRequest, Answer
    <3> QED
      BY <3>1 DEF Packet
  <2>3. CASE Grants(n, p.resource)
    <3>1. autoGrant[n] \/ quiet[n]
      BY <2>1, <2>3 DEF HandleRequest
    <3>2. q = Packet(n, p.src, "GRANT", p.resource)
      BY <2>1, <2>3, <3>1 DEF HandleRequest, Answer
    <3>3. q.src = n /\ q.dst = p.src /\ q.resource = p.resource
      BY <3>2 DEF Packet
    <3> QED
      BY <1>1, <2>3, <3>1, <3>3 DEF Grants
  <2> QED
    BY <2>2, <2>3
<1>2. CASE p.type = "HELLO"
  <2>1. q = Packet(n, p.src, "OFFER", resources[n])
    BY <1>2 DEF Handle, HandleHello, Answer
  <2> QED
    BY <2>1 DEF Packet
<1>3. CASE p.type \notin {"REQUEST", "HELLO"}
  BY <1>3 DEF Handle, HandleQuietly
<1> QED
  BY <1>1, <1>2, <1>3

\* A machine grants by itself only what it was asked for, shares and may grant
\* without its user; every other grant is a command.
THEOREM GrantsAreSharedHolds == Spec => GrantsAreShared
<1>1. Counted /\ [Next]_vars => [GrantStep]_vars
  <2> SUFFICES ASSUME Counted, Next PROVE GrantStep
    OBVIOUS
  <2>1. CASE net' \subseteq net
    BY <2>1 DEF GrantStep
  <2>2. ASSUME NEW n \in Nodes, NEW dst, NEW type, NEW r, type # "GRANT" \/ Command(n),
               Send(Packet(n, dst, type, r))
        PROVE  GrantStep
    <3>1. ASSUME NEW q \in net' \ net, q.type = "GRANT" PROVE commands'[q.src] > commands[q.src]
      <4>1. q = Packet(n, dst, type, r)
        BY <2>2, <3>1 DEF Send
      <4>2. q.src = n /\ Command(n)
        BY <2>2, <3>1, <4>1 DEF Packet
      <4>3. commands'[n] = commands[n] + 1 /\ commands[n] \in Nat
        BY <4>2 DEF Command, Counted
      <4> QED
        BY <4>2, <4>3
    <3> QED
      BY <3>1 DEF GrantStep
  <2>3. ASSUME NEW n \in Nodes, NEW rs \in SUBSET Masks, UserSend(n, rs) PROVE GrantStep
    BY <2>2, <2>3 DEF UserSend
  <2>4. ASSUME NEW n \in Nodes, Greet(n) PROVE GrantStep
    BY <2>2, <2>4 DEF Greet
  <2>5. ASSUME NEW n \in Nodes, Poll(n) \/ Duplicate(n) PROVE GrantStep
    BY <2>5, HandleGrants DEF Poll, Duplicate
  <2>6. ASSUME NEW n \in Nodes, NEW rs \in SUBSET Masks,
               SetFlags(n) \/ SetShare(n, rs) \/ SetInput(n) \/ SetQuiet(n)
        PROVE  GrantStep
    BY <2>1, <2>6 DEF SetFlags, SetShare, SetInput, SetQuiet
  <2>7. CASE Lose
    BY <2>1, <2>7 DEF Lose
  <2>8. PlainNames \in SUBSET Masks /\ InputNames \in SUBSET Masks
    BY DEF PlainNames, InputNames
  <2> QED
    BY <2>3, <2>4, <2>5, <2>6, <2>7, <2>8 DEF Next, CmdLconnect, CmdDeprecatedLconnect
<1> QED
  BY <1>1, CountedHolds, PTL DEF Spec, GrantsAreShared

-----------------------------------------------------------------------------
(***************************************************************************)
(* The tables keep their form, a peer has one entry, and the ring of the   *)
(* log holds the latest events in their order, for every size of both.     *)
(***************************************************************************)

\* The places in the ring are at most one turn ahead.
LEMMA OneTurn ==
  ASSUME NEW x \in 0 .. 2 * LogDepth - 1
  PROVE  Place(x) = IF x < LogDepth THEN x ELSE x - LogDepth
<1>1. LogDepth \in Nat \ {0}
  BY SizeAssumption
<1>2. PICK d \in Nat \ {0} : d = LogDepth
  BY <1>1
<1>3. x % d = IF x < d THEN x ELSE x - d
  <2>1. CASE x < d
    BY <1>2, <2>1, SMT
  <2>2. CASE ~(x < d)
    BY <1>2, <2>2, SMT
  <2> QED
    BY <2>1, <2>2
<1> QED
  BY <1>2, <1>3 DEF Place

\* The next event of a ring that is not full goes to a place of its own.
LEMMA PlaceOfNext ==
  ASSUME NEW h \in 0 .. LogDepth - 1, NEW c \in 0 .. LogDepth - 1
  PROVE  /\ Place(h + c) \in 0 .. LogDepth - 1
         /\ \A i \in 1 .. c : Place(h + i - 1) \in 0 .. LogDepth - 1 /\ Place(h + i - 1) # Place(h + c)
<1>0. LogDepth \in Nat \ {0}
  BY SizeAssumption
<1>1. Place(h + c) = IF h + c < LogDepth THEN h + c ELSE h + c - LogDepth
  BY <1>0, OneTurn
<1>2. ASSUME NEW i \in 1 .. c
      PROVE  Place(h + i - 1) = IF h + i - 1 < LogDepth THEN h + i - 1 ELSE h + i - 1 - LogDepth
  BY <1>0, OneTurn
<1> QED
  BY <1>0, <1>1, <1>2

\* In a full ring that is turned by one, every event moves up by one and the
\* place of the oldest is the last.
LEMMA PlacesTurned ==
  ASSUME NEW h \in 0 .. LogDepth - 1
  PROVE  /\ Place(h + 1) \in 0 .. LogDepth - 1
         /\ Place(Place(h + 1) + LogDepth - 1) = h
         /\ \A i \in 1 .. LogDepth : i < LogDepth =>
              /\ Place(Place(h + 1) + i - 1) = Place(h + (i + 1) - 1)
              /\ Place(h + (i + 1) - 1) \in 0 .. LogDepth - 1 /\ Place(h + (i + 1) - 1) # h
<1>0. LogDepth \in Nat \ {0}
  BY SizeAssumption
<1>1. Place(h + 1) = IF h + 1 < LogDepth THEN h + 1 ELSE h + 1 - LogDepth
  BY <1>0, OneTurn
<1>2. PICK k \in 0 .. LogDepth - 1 : k = Place(h + 1)
  BY <1>0, <1>1
<1>3. Place(k + LogDepth - 1) = IF k + LogDepth - 1 < LogDepth THEN k + LogDepth - 1 ELSE k - 1
  BY <1>0, OneTurn
<1>4. Place(k + LogDepth - 1) = h
  BY <1>0, <1>1, <1>2, <1>3
<1>5. ASSUME NEW i \in 1 .. LogDepth, i < LogDepth
      PROVE  /\ Place(k + i - 1) = Place(h + (i + 1) - 1)
             /\ Place(h + (i + 1) - 1) \in 0 .. LogDepth - 1 /\ Place(h + (i + 1) - 1) # h
  <2>1. Place(k + i - 1) = IF k + i - 1 < LogDepth THEN k + i - 1 ELSE k + i - 1 - LogDepth
    BY <1>0, <1>5, OneTurn
  <2>2. h + (i + 1) - 1 \in 0 .. 2 * LogDepth - 1 /\ h + (i + 1) - 1 = h + i
    BY <1>0, <1>5
  <2>3. Place(h + (i + 1) - 1) = IF h + i < LogDepth THEN h + i ELSE h + i - LogDepth
    BY <1>0, <2>2, OneTurn
  <2> QED
    BY <1>0, <1>1, <1>2, <1>5, <2>1, <2>3
<1> QED
  BY <1>2, <1>4, <1>5

LEMMA RingParts ==
  ASSUME NEW ring \in Rings
  PROVE  /\ ring.slot \in [0 .. LogDepth - 1 -> Events] /\ ring.head \in 0 .. LogDepth - 1
         /\ ring.count \in 0 .. LogDepth /\ LogDepth \in Nat \ {0}
         /\ ring = [slot |-> ring.slot, head |-> ring.head, count |-> ring.count]
BY SizeAssumption DEF Rings, Slots

\* log_event on a ring that is not full.
LEMMA LoggedInto ==
  ASSUME NEW ring \in Rings, NEW s \in Seq(Events), LogContents(ring) = s, NEW e \in Events,
         ring.count < LogDepth
  PROVE  Logged(ring, e) \in Rings /\ LogContents(Logged(ring, e)) = Append(s, e)
<1>1. PICK slot \in [0 .. LogDepth - 1 -> Events], h \in 0 .. LogDepth - 1, c \in 0 .. LogDepth - 1 :
        ring = [slot |-> slot, head |-> h, count |-> c]
  BY RingParts
<1>2. LogDepth \in Nat \ {0}
  BY SizeAssumption
<1>3. PICK p \in 0 .. LogDepth - 1 :
        /\ p = Place(h + c)
        /\ \A i \in 1 .. c : Place(h + i - 1) \in 0 .. LogDepth - 1 /\ Place(h + i - 1) # p
  BY PlaceOfNext
<1>4. PICK new \in [0 .. LogDepth - 1 -> Events] : new = [slot EXCEPT ![p] = e]
  OBVIOUS
<1>5. Logged(ring, e) = [slot |-> new, head |-> h, count |-> c + 1]
  BY <1>1, <1>2, <1>3, <1>4 DEF Logged
<1>6. Logged(ring, e) \in Rings
  BY <1>2, <1>5 DEF Rings, Slots
<1>7. new[p] = e /\ \A q \in 0 .. LogDepth - 1 : q # p => new[q] = slot[q]
  BY <1>4
<1>8. s = [i \in 1 .. c |-> slot[Place(h + i - 1)]]
  BY <1>1 DEF LogContents
<1>9. Append(s, e) = [i \in 1 .. c + 1 |-> IF i \in 1 .. c THEN s[i] ELSE e]
  <2>1. Len(s) = c /\ DOMAIN s = 1 .. c
    BY <1>8
  <2>0. Append(s, e) \in Seq(Events)
    OBVIOUS
  <2>2. PICK t \in Seq(Events) : t = Append(s, e)
    BY <2>0
  <2>3. Len(t) = c + 1 /\ t[c + 1] = e /\ \A i \in 1 .. c : t[i] = s[i]
    BY <2>1, <2>2
  <2>4. t = [i \in 1 .. c + 1 |-> t[i]]
    BY <2>3
  <2>5. \A i \in 1 .. c + 1 : t[i] = IF i \in 1 .. c THEN s[i] ELSE e
    BY <2>3
  <2> QED
    BY <2>2, <2>4, <2>5, Zenon
<1>10. LogContents(Logged(ring, e)) = [i \in 1 .. c + 1 |-> new[Place(h + i - 1)]]
  BY <1>5 DEF LogContents
<1>11. ASSUME NEW i \in 1 .. c + 1
       PROVE  new[Place(h + i - 1)] = IF i \in 1 .. c THEN s[i] ELSE e
  <2>1. CASE i \in 1 .. c
    BY <1>3, <1>7, <1>8, <2>1
  <2>2. CASE i = c + 1
    <3>1. h + i - 1 = h + c /\ i \notin 1 .. c
      BY <2>2
    <3> QED
      BY <1>3, <1>7, <3>1
  <2> QED
    BY <2>1, <2>2
<1> QED
  BY <1>6, <1>9, <1>10, <1>11, Zenon

\* log_event on a full ring: the oldest event makes room.
LEMMA LoggedOver ==
  ASSUME NEW ring \in Rings, NEW s \in Seq(Events), LogContents(ring) = s, NEW e \in Events,
         ring.count = LogDepth
  PROVE  /\ Logged(ring, e) \in Rings
         /\ LogContents(Logged(ring, e)) =
              [i \in 1 .. LogDepth |-> IF i < LogDepth THEN s[i + 1] ELSE e]
<1>1. PICK slot \in [0 .. LogDepth - 1 -> Events], h \in 0 .. LogDepth - 1 :
        ring = [slot |-> slot, head |-> h, count |-> LogDepth]
  BY RingParts
<1>2. LogDepth \in Nat \ {0}
  BY SizeAssumption
<1>3. PICK k \in 0 .. LogDepth - 1 :
         /\ k = Place(h + 1)
         /\ Place(k + LogDepth - 1) = h
         /\ \A i \in 1 .. LogDepth : i < LogDepth =>
              /\ Place(k + i - 1) = Place(h + (i + 1) - 1)
              /\ Place(h + (i + 1) - 1) \in 0 .. LogDepth - 1
              /\ Place(h + (i + 1) - 1) # h
  BY PlacesTurned
<1>4. PICK new \in [0 .. LogDepth - 1 -> Events] : new = [slot EXCEPT ![h] = e]
  OBVIOUS
<1>5. Logged(ring, e) = [slot |-> new, head |-> k, count |-> LogDepth]
  BY <1>1, <1>2, <1>3, <1>4 DEF Logged
<1>6. Logged(ring, e) \in Rings
  BY <1>2, <1>5 DEF Rings, Slots
<1>7. new[h] = e /\ \A q \in 0 .. LogDepth - 1 : q # h => new[q] = slot[q]
  BY <1>4
<1>8. s = [i \in 1 .. LogDepth |-> slot[Place(h + i - 1)]]
  BY <1>1 DEF LogContents
<1>9. LogContents(Logged(ring, e)) = [i \in 1 .. LogDepth |-> new[Place(k + i - 1)]]
  BY <1>5 DEF LogContents
<1>10. ASSUME NEW i \in 1 .. LogDepth
       PROVE  new[Place(k + i - 1)] = IF i < LogDepth THEN s[i + 1] ELSE e
  <2>1. CASE i < LogDepth
    <3>1. i + 1 \in 1 .. LogDepth
      BY <1>2, <2>1
    <3>2. s[i + 1] = slot[Place(h + (i + 1) - 1)]
      BY <1>8, <3>1
    <3> QED
      BY <1>3, <1>7, <2>1, <3>2
  <2>2. CASE ~(i < LogDepth)
    <3>1. i = LogDepth
      BY <1>2, <2>2
    <3> QED
      BY <1>3, <1>7, <2>2, <3>1
  <2> QED
    BY <2>1, <2>2
<1> QED
  BY <1>6, <1>9, <1>10, Zenon

\* The ring and the latest events agree after a log_event.
LEMMA LoggedLatest ==
  ASSUME NEW ring \in Rings, NEW s \in Seq(Events), LogContents(ring) = s, NEW e \in Events
  PROVE  /\ Logged(ring, e) \in Rings
         /\ Newest(Append(s, e), LogDepth) \in Seq(Events)
         /\ LogContents(Logged(ring, e)) = Newest(Append(s, e), LogDepth)
<1>1. /\ ring.count \in 0 .. LogDepth /\ LogDepth \in Nat \ {0}
      /\ Append(s, e) \in Seq(Events) /\ Len(Append(s, e)) = Len(s) + 1
  BY RingParts
<1>2. Len(s) = ring.count
  <2>1. DOMAIN s = 1 .. ring.count
    BY DEF LogContents
  <2> QED
    BY <1>1, <2>1
<1>3. CASE ring.count < LogDepth
  <2>1. Newest(Append(s, e), LogDepth) = Append(s, e)
    BY <1>1, <1>2, <1>3 DEF Newest
  <2> QED
    BY <1>1, <1>3, <2>1, LoggedInto
<1>4. CASE ring.count = LogDepth
  <2>1. PICK t \in Seq(Events) : t = Append(s, e)
    BY <1>1
  <2>2. Len(t) = LogDepth + 1 /\ ~(Len(t) <= LogDepth) /\ Len(t) - LogDepth + 1 = 2
    BY <1>1, <1>2, <1>4, <2>1
  <2>3. Newest(t, LogDepth) = SubSeq(t, 2, LogDepth + 1)
    BY <2>2 DEF Newest
  <2>4. /\ SubSeq(t, 2, LogDepth + 1) \in Seq(Events)
        /\ SubSeq(t, 2, LogDepth + 1) = [i \in 1 .. LogDepth |-> t[i + 1]]
    BY <1>1, <2>2
  <2>5. ASSUME NEW i \in 1 .. LogDepth PROVE t[i + 1] = IF i < LogDepth THEN s[i + 1] ELSE e
    BY <1>1, <1>2, <1>4, <2>1
  <2>6. /\ Logged(ring, e) \in Rings
        /\ LogContents(Logged(ring, e)) =
             [i \in 1 .. LogDepth |-> IF i < LogDepth THEN s[i + 1] ELSE e]
    BY <1>4, LoggedOver
  <2>7. [i \in 1 .. LogDepth |-> t[i + 1]] = [i \in 1 .. LogDepth |-> IF i < LogDepth THEN s[i + 1] ELSE e]
    BY <2>5, Zenon
  <2> QED
    BY <2>1, <2>3, <2>4, <2>6, <2>7
<1> QED
  BY <1>1, <1>3, <1>4

LEMMA PacketTyped ==
  ASSUME TypeOK, NEW n \in Nodes, NEW dst \in Nodes, NEW type \in PacketTypes, NEW r \in Masks
  PROVE  Packet(n, dst, type, r) \in Packets
<1>1. resources[n] \in Masks /\ {} \in Masks
  BY DEF TypeOK, Masks
<1> QED
  BY <1>1 DEF Packet, Packets

Peer == [ip : Nodes, resources : Masks]
OnePerPeer(table) ==
  /\ table \in Seq(Peer)
  /\ Len(table) <= PeerMax
  /\ \A i, j \in DOMAIN table : table[i].ip = table[j].ip => i = j

\* A known peer is not entered again and a full table takes no more.
LEMMA RememberKeeps ==
  ASSUME NEW table, OnePerPeer(table), NEW ip \in Nodes, NEW mask \in Masks
  PROVE  OnePerPeer(Remember(table, ip, mask))
<1>0. PeerMax \in Nat /\ table \in Seq(Peer) /\ Len(table) \in Nat /\ DOMAIN table = 1 .. Len(table)
  BY SizeAssumption DEF OnePerPeer
<1>1. CASE \E i \in DOMAIN table : table[i].ip = ip
  <2> DEFINE new(i) == IF table[i].ip = ip THEN [table[i] EXCEPT !.resources = mask] ELSE table[i]
  <2>1. Remember(table, ip, mask) = [i \in 1 .. Len(table) |-> new(i)]
    BY <1>0, <1>1 DEF Remember
  <2>2. ASSUME NEW i \in 1 .. Len(table) PROVE new(i) \in Peer /\ new(i).ip = table[i].ip
    <3>1. table[i] \in Peer
      BY <1>0
    <3>2. table[i] = [ip |-> table[i].ip, resources |-> table[i].resources] /\ table[i].ip \in Nodes
      BY <3>1 DEF Peer
    <3> QED
      BY <3>1, <3>2 DEF Peer
  <2> HIDE DEF new
  <2>3. PICK t : t = [i \in 1 .. Len(table) |-> new(i)]
    OBVIOUS
  <2>4. t \in Seq(Peer) /\ Len(t) = Len(table) /\ DOMAIN t = 1 .. Len(table)
    BY <1>0, <2>2, <2>3
  <2>5. \A i \in DOMAIN t : t[i].ip = table[i].ip
    BY <2>2, <2>3
  <2>6. OnePerPeer(t)
    BY <1>0, <2>4, <2>5 DEF OnePerPeer
  <2> QED
    BY <2>1, <2>3, <2>6, SMTT(30)
<1>2. CASE ~(\E i \in DOMAIN table : table[i].ip = ip) /\ Len(table) < PeerMax
  <2> DEFINE p == [ip |-> ip, resources |-> mask]
  <2>1. p \in Peer /\ p.ip = ip
    BY DEF Peer
  <2> HIDE DEF p
  <2>2. Append(table, p) \in Seq(Peer)
    BY <1>0, <2>1
  <2>3. PICK t \in Seq(Peer) : t = Append(table, p)
    BY <2>2
  <2>4. /\ Len(t) = Len(table) + 1 /\ DOMAIN t = 1 .. Len(table) + 1
        /\ t[Len(table) + 1] = p /\ \A i \in 1 .. Len(table) : t[i] = table[i]
    BY <1>0, <2>3
  <2>5. \A i, j \in DOMAIN t : t[i].ip = t[j].ip => i = j
    <3>1. \A i \in DOMAIN t : i = Len(table) + 1 \/ (i \in DOMAIN table /\ t[i] = table[i] /\ t[i].ip # ip)
      BY <1>0, <1>2, <2>4
    <3>2. t[Len(table) + 1].ip = ip
      BY <2>1, <2>4
    <3> QED
      BY <3>1, <3>2 DEF OnePerPeer
  <2>6. OnePerPeer(t)
    BY <1>0, <1>2, <2>4, <2>5 DEF OnePerPeer
  <2>7. Remember(table, ip, mask) = t
    BY <1>2, <2>3 DEF Remember, p
  <2> QED
    BY <2>6, <2>7
<1>3. CASE ~(\E i \in DOMAIN table : table[i].ip = ip) /\ ~(Len(table) < PeerMax)
  BY <1>3 DEF Remember
<1> QED
  BY <1>1, <1>2, <1>3

\* The log and its latest events.
LogInv ==
  /\ log \in [Nodes -> Rings] /\ recent \in [Nodes -> Seq(Events)]
  /\ LogIsLatest

LEMMA LogStep ==
  ASSUME LogInv, NEW n \in Nodes, NEW ip \in Nodes, NEW action \in Actions, NEW r \in Masks,
         Log(n, ip, action, r)
  PROVE  LogInv'
<1>1. PICK e \in Events : e = [ip |-> ip, action |-> action, resource |-> r]
  BY DEF Events
<1>2. /\ log' = [log EXCEPT ![n] = Logged(log[n], e)]
      /\ recent' = [recent EXCEPT ![n] = Newest(Append(recent[n], e), LogDepth)]
  BY <1>1 DEF Log
<1>3. log[n] \in Rings /\ recent[n] \in Seq(Events) /\ LogContents(log[n]) = recent[n]
  BY DEF LogInv, LogIsLatest
<1>4. /\ Logged(log[n], e) \in Rings
      /\ Newest(Append(recent[n], e), LogDepth) \in Seq(Events)
      /\ LogContents(Logged(log[n], e)) = Newest(Append(recent[n], e), LogDepth)
  BY <1>3, LoggedLatest
<1>5. log' \in [Nodes -> Rings] /\ recent' \in [Nodes -> Seq(Events)]
  BY <1>2, <1>4 DEF LogInv
<1>6. ASSUME NEW k \in Nodes PROVE LogContents(log'[k]) = recent'[k]
  <2>1. CASE k = n
    BY <1>2, <1>4, <2>1 DEF LogInv
  <2>2. CASE k # n
    BY <1>2, <2>2 DEF LogInv, LogIsLatest
  <2> QED
    BY <2>1, <2>2
<1>7. LogIsLatest'
  BY <1>6 DEF LogIsLatest, LogContents
<1> QED
  BY <1>5, <1>7 DEF LogInv

LEMMA LogStays == LogInv /\ UNCHANGED <<log, recent>> => LogInv'
  BY DEF LogInv, LogIsLatest, LogContents

\* lconnect_poll
LEMMA HandleTypes ==
  ASSUME TypeOK, LogInv, NEW n \in Nodes, NEW p \in net, NEW rest \in SUBSET net, Handle(n, p, rest)
  PROVE  TypeOK' /\ LogInv'
<1>1. /\ p \in Packets /\ p.src \in Nodes /\ p.type \in PacketTypes
      /\ p.resource \in Masks /\ p.resources \in Masks
  BY DEF TypeOK, Packets
<1>2. rest \subseteq Packets
  BY DEF TypeOK
<1>3. peers' \in [Nodes -> Seq(Peer)] /\ \A k \in Nodes : OnePerPeer(peers'[k])
  <2>1. peers' = [peers EXCEPT ![n] = Remember(peers[n], p.src, p.resources)]
    BY DEF Handle
  <2>2. peers \in [Nodes -> Seq(Peer)] /\ \A k \in Nodes : OnePerPeer(peers[k])
    BY DEF TypeOK, OnePerPeer, Peer
  <2>3. OnePerPeer(Remember(peers[n], p.src, p.resources))
    BY <1>1, <2>2, RememberKeeps
  <2> QED
    BY <2>1, <2>2, <2>3 DEF OnePerPeer
<1>4. {Clip} \in Masks
  BY ResourceAssumption DEF Masks, Resources
<1>5. ASSUME NEW action \in Actions, NEW r \in Masks, Log(n, p.src, action, r) PROVE LogInv'
  BY <1>1, <1>5, LogStep
<1>6. ASSUME NEW type \in PacketTypes, NEW r \in Masks, Answer(n, rest, p.src, type, r) PROVE net' \subseteq Packets
  BY <1>1, <1>2, <1>6, PacketTyped DEF Answer
<1>7. net' \subseteq Packets /\ LogInv'
  <2>1. CASE p.type = "REQUEST"
    <3>1. HandleRequest(n, p, rest)
      BY <2>1 DEF Handle
    <3>2. \/ Answer(n, rest, p.src, "DENY", p.resource)
          \/ Answer(n, rest, p.src, "GRANT", p.resource)
          \/ net' = rest
      BY <3>1 DEF HandleRequest
    <3>3. \E action \in {"deny", "quiet-grant", "grant", "pending"} : Log(n, p.src, action, p.resource)
      BY <3>1 DEF HandleRequest
    <3> QED
      BY <1>1, <1>2, <1>5, <1>6, <3>2, <3>3 DEF Actions, PacketTypes
  <2>2. CASE p.type = "HELLO"
    <3>1. HandleHello(n, p, rest)
      BY <2>2 DEF Handle
    <3>2. resources[n] \in Masks
      BY DEF TypeOK
    <3>3. Answer(n, rest, p.src, "OFFER", resources[n]) \/ net' = rest
      BY <3>1 DEF HandleHello
    <3> QED
      BY <1>1, <1>2, <1>5, <1>6, <3>1, <3>2, <3>3 DEF HandleHello, Actions, PacketTypes
  <2>3. CASE p.type \notin {"REQUEST", "HELLO"}
    <3>1. HandleQuietly(n, p, rest)
      BY <2>3 DEF Handle
    <3>2. net' = rest
      BY <3>1 DEF HandleQuietly
    <3>3. \/ Log(n, p.src, "offer", p.resources)
          \/ Log(n, p.src, "lease", p.resource)
          \/ Log(n, p.src, "deny", p.resource)
          \/ Log(n, p.src, "clip-in", {Clip})
          \/ Log(n, p.src, "clip-deny", {Clip})
          \/ UNCHANGED <<log, recent>>
      BY <1>1, <2>3, <3>1 DEF HandleQuietly, PacketTypes
    <3> QED
      BY <1>1, <1>2, <1>4, <1>5, <3>2, <3>3, LogStays DEF Actions
  <2> QED
    BY <2>1, <2>2, <2>3
<1>8. UNCHANGED flags
  BY DEF Handle
<1> QED
  BY <1>3, <1>7, <1>8 DEF TypeOK, flags, LogInv, OnePerPeer, Peer

LEMMA TypesStep == TypeOK /\ LogInv /\ [Next]_vars => TypeOK' /\ LogInv'
<1> SUFFICES ASSUME TypeOK, LogInv, [Next]_vars PROVE TypeOK' /\ LogInv'
  OBVIOUS
<1>0. Input \in Masks /\ {} \in Masks /\ {Clip} \in Masks
  BY ResourceAssumption DEF Masks, Resources
<1>1. ASSUME NEW n \in Nodes, SetFlags(n) PROVE TypeOK' /\ LogInv'
  <2>1. UNCHANGED <<log, recent>>
    BY <1>1 DEF SetFlags
  <2>2. UNCHANGED <<quiet, armed, resources, peers, log, net>>
    BY <1>1 DEF SetFlags
  <2>3. enabled' \in [Nodes -> BOOLEAN] /\ autoGrant' \in [Nodes -> BOOLEAN]
    BY <1>1 DEF SetFlags, TypeOK
  <2> QED
    BY <2>1, <2>2, <2>3, LogStays DEF TypeOK
<1>2. ASSUME NEW n \in Nodes, NEW rs \in SUBSET Masks, SetShare(n, rs) PROVE TypeOK' /\ LogInv'
  <2>1. UNCHANGED <<enabled, autoGrant, quiet, armed, peers, log, net, recent>>
    BY <1>2 DEF SetShare
  <2>2. PICK r \in Masks : \/ resources' = [resources EXCEPT ![n] = resources[n] \cup r]
                           \/ resources' = [resources EXCEPT ![n] = resources[n] \ r]
    BY <1>2 DEF SetShare
  <2>3. resources[n] \cup r \in Masks /\ resources[n] \ r \in Masks
    BY DEF TypeOK, Masks
  <2>4. resources' \in [Nodes -> Masks]
    BY <2>2, <2>3 DEF TypeOK
  <2> QED
    BY <2>1, <2>4, LogStays DEF TypeOK
<1>3. ASSUME NEW n \in Nodes, SetInput(n) PROVE TypeOK' /\ LogInv'
  <2>1. UNCHANGED <<enabled, autoGrant, quiet, peers, net>>
    BY <1>3 DEF SetInput
  <2>2. LogInv'
    BY <1>0, <1>3, LogStep DEF SetInput, Actions
  <2>3. Disarmed(n) \in Masks
    BY DEF Disarmed, TypeOK, Masks
  <2>4. armed' \in [Nodes -> BOOLEAN] /\ resources' \in [Nodes -> Masks]
    BY <1>3, <2>3 DEF SetInput, TypeOK
  <2> QED
    BY <2>1, <2>2, <2>4 DEF TypeOK, LogInv
<1>4. ASSUME NEW n \in Nodes, SetQuiet(n) PROVE TypeOK' /\ LogInv'
  <2>1. UNCHANGED <<enabled, autoGrant, armed, resources, peers, net>>
    BY <1>4 DEF SetQuiet
  <2>2. LogInv'
    BY <1>0, <1>4, LogStep DEF SetQuiet, Actions
  <2>3. quiet' \in [Nodes -> BOOLEAN]
    BY <1>4 DEF SetQuiet, TypeOK
  <2> QED
    BY <2>1, <2>2, <2>3 DEF TypeOK, LogInv
<1>5. ASSUME net' \subseteq Packets, UNCHANGED <<flags, peers, log, recent>> PROVE TypeOK' /\ LogInv'
  BY <1>5, LogStays DEF TypeOK, flags
<1>6. ASSUME NEW n \in Nodes, NEW dst \in Nodes, NEW type \in PacketTypes, NEW r \in Masks,
             Send(Packet(n, dst, type, r))
      PROVE  net' \subseteq Packets
  <2>1. Packet(n, dst, type, r) \in Packets
    BY PacketTyped
  <2>2. net \subseteq Packets
    BY DEF TypeOK
  <2> QED
    BY <1>6, <2>1, <2>2 DEF Send
<1>7. ASSUME NEW n \in Nodes, Greet(n) PROVE TypeOK' /\ LogInv'
  <2>1. resources[n] \in Masks
    BY DEF TypeOK
  <2>2. net' \subseteq Packets
    BY <1>0, <1>6, <1>7, <2>1 DEF Greet, PacketTypes
  <2> QED
    BY <1>5, <1>7, <2>2 DEF Greet
<1>8. ASSUME NEW n \in Nodes, NEW rs \in SUBSET Masks, UserSend(n, rs) PROVE TypeOK' /\ LogInv'
  <2>1. net' \subseteq Packets
    BY <1>6, <1>8 DEF UserSend, PacketTypes
  <2> QED
    BY <1>5, <1>8, <2>1 DEF UserSend
<1>9. ASSUME NEW n \in Nodes, Poll(n) \/ Duplicate(n) PROVE TypeOK' /\ LogInv'
  BY <1>9, HandleTypes DEF Poll, Duplicate
<1>10. CASE Lose \/ UNCHANGED vars
  <2>1. net' \subseteq Packets /\ UNCHANGED <<flags, peers, log, recent>>
    BY <1>10 DEF Lose, vars, TypeOK
  <2> QED
    BY <1>5, <2>1
<1>11. PlainNames \in SUBSET Masks /\ InputNames \in SUBSET Masks
  BY DEF PlainNames, InputNames
<1> QED
  BY <1>1, <1>2, <1>3, <1>4, <1>7, <1>8, <1>9, <1>10, <1>11 DEF Next, CmdLconnect, CmdDeprecatedLconnect

LEMMA TypesInit == Init => TypeOK /\ LogInv
<1> SUFFICES ASSUME Init PROVE TypeOK /\ LogInv
  OBVIOUS
<1>1. {} \in Masks /\ {Clip} \in Masks
  BY ResourceAssumption DEF Masks, Resources
<1>2. LogDepth \in Nat \ {0} /\ PeerMax \in Nat
  BY SizeAssumption
<1>3. ASSUME NEW n \in Nodes PROVE Blank(n) \in Events
  BY <1>1 DEF Blank, Events, Actions
<1>4. log \in [Nodes -> Rings]
  BY <1>2, <1>3 DEF Init, Rings, Slots
<1>5. recent \in [Nodes -> Seq(Events)] /\ LogIsLatest
  BY DEF Init, LogIsLatest, LogContents
<1>6. peers \in [Nodes -> Seq([ip : Nodes, resources : Masks])]
  BY DEF Init
<1>7. \A n \in Nodes : peers[n] = <<>>
  BY DEF Init
<1> QED
  BY <1>1, <1>2, <1>4, <1>5, <1>6, <1>7 DEF Init, TypeOK, LogInv

LEMMA TypesHold == Spec => [](TypeOK /\ LogInv)
  BY TypesInit, TypesStep, PTL DEF Spec

\* However full the tables are: no peer is entered twice and none beyond the
\* table, and only packets of the right form are ever sent.
THEOREM LconnectTyping == Spec => []TypeOK
  BY TypesHold, PTL

\* The ring of the log shows the latest events in their order, for every depth.
THEOREM LogIsLatestHolds == Spec => []LogIsLatest
<1>1. LogInv => LogIsLatest
  BY DEF LogInv
<1> QED
  BY <1>1, TypesHold, PTL
=============================================================================
