--------------------------- MODULE NetworkProofs ----------------------------
(***************************************************************************)
(* The inbox of OsLink, a ring with head, tail and count, hands out what   *)
(* was filed in order and accounts for every loss, for every depth, every  *)
(* number of machines and every behaviour of the network, and a machine    *)
(* never enters a peer twice, nor itself.  What the TCP client has is a    *)
(* beginning of the answer, and it acknowledges no more.  The address the  *)
(* machine goes by was granted to it, the gateway is the one in force, and *)
(* a request goes to the machine its name stands for.                      *)
(***************************************************************************)
EXTENDS OsLink, Tcp, NetSetup, SequenceTheorems, FiniteSetTheorems, TLAPS

\* x % InboxDepth for the x the ring computes, without the division.
Wrap(x) == IF x < InboxDepth THEN x ELSE x - InboxDepth

\* The ring holds the last box.count elements of s.
Holds(box, s) ==
  /\ box.count <= Len(s)
  /\ \A i \in 0 .. box.count - 1 :
       box.slot[Wrap(box.head + i)] = s[Len(s) - box.count + 1 + i]

\* Every index of the ring is below twice the depth: the remainder is one subtraction.
LEMMA WrapIsMod ==
  ASSUME NEW x \in 0 .. 2 * InboxDepth - 1
  PROVE  x % InboxDepth = Wrap(x) /\ Wrap(x) \in Slots
  BY OsLinkAssumption DEF Wrap, Slots

\* The slots behind a head are all different, and advancing the head by one
\* or the tail by one slides the window by one.
LEMMA Window ==
  ASSUME NEW h \in Slots, NEW c \in 0 .. InboxDepth
  PROVE  /\ Wrap(h + c) \in Slots /\ Wrap(h + 1) \in Slots
         /\ h + c \in 0 .. 2 * InboxDepth - 1 /\ h + 1 \in 0 .. 2 * InboxDepth - 1
         /\ c = InboxDepth => Wrap(h + c) = h
         /\ c < InboxDepth => Wrap(Wrap(h + c) + 1) = Wrap(h + (c + 1))
         /\ c > 0 => Wrap(Wrap(h + 1) + (c - 1)) = Wrap(h + c)
         /\ Wrap(Wrap(h + 1) + InboxDepth) = Wrap(h + 1)
         /\ Wrap(Wrap(h + 1) + (InboxDepth - 1)) = h
         /\ \A i \in 0 .. InboxDepth - 1 :
              i + 1 < InboxDepth => /\ Wrap(Wrap(h + 1) + i) = Wrap(h + (i + 1))
                                    /\ Wrap(Wrap(h + 1) + i) # h
  BY OsLinkAssumption DEF Wrap, Slots

LEMMA SlotsDiffer ==
  ASSUME NEW h \in Slots, NEW c \in 0 .. InboxDepth, c < InboxDepth, NEW i \in 0 .. InboxDepth, i < c
  PROVE  Wrap(h + i) # Wrap(h + c)
  BY OsLinkAssumption DEF Wrap, Slots

\* queue_msg, in linear arithmetic.
LEMMA QueuedBox ==
  ASSUME NEW box \in Boxes, box.tail = Wrap(box.head + box.count), NEW m \in Messages
  PROVE  /\ Queued(box, m).slot = [box.slot EXCEPT ![box.tail] = m]
         /\ box.count < InboxDepth => /\ Queued(box, m).head = box.head
                                      /\ Queued(box, m).count = box.count + 1
         /\ box.count = InboxDepth => /\ Queued(box, m).head = Wrap(box.head + 1)
                                      /\ Queued(box, m).count = InboxDepth
                                      /\ box.tail = box.head
         /\ Queued(box, m) \in Boxes
         /\ Queued(box, m).tail = Wrap(Queued(box, m).head + Queued(box, m).count)
<1> DEFINE q == Queued(box, m)
<1>1. /\ box.head \in Slots /\ box.tail \in Slots /\ box.count \in 0 .. InboxDepth
      /\ box.slot \in [Slots -> Messages]
  BY DEF Boxes
<1>2. /\ (box.head + 1) % InboxDepth = Wrap(box.head + 1) /\ Wrap(box.head + 1) \in Slots
      /\ (box.tail + 1) % InboxDepth = Wrap(box.tail + 1) /\ Wrap(box.tail + 1) \in Slots
  BY <1>1, Window, WrapIsMod
<1>3. /\ q.slot = [box.slot EXCEPT ![box.tail] = m]
      /\ q.tail = Wrap(box.tail + 1)
      /\ box.count >= InboxDepth => q.head = Wrap(box.head + 1) /\ q.count = box.count
      /\ ~(box.count >= InboxDepth) => q.head = box.head /\ q.count = box.count + 1
      /\ q = [slot |-> q.slot, head |-> q.head, tail |-> q.tail, count |-> q.count]
  BY <1>2 DEF Queued
<1> HIDE DEF q
<1>4. InboxDepth \in Nat \ {0}
  BY OsLinkAssumption
<1>5. CASE box.count < InboxDepth
  <2>1. q.head = box.head /\ q.count = box.count + 1
    BY <1>1, <1>3, <1>4, <1>5
  <2>2. q.count \in 0 .. InboxDepth /\ q.head \in Slots /\ q.slot \in [Slots -> Messages]
    BY <1>1, <1>3, <1>4, <1>5, <2>1
  <2>3. q.tail = Wrap(q.head + q.count)
    <3>1. box.count < InboxDepth => Wrap(Wrap(box.head + box.count) + 1) = Wrap(box.head + (box.count + 1))
      BY <1>1, Window, ZenonT(30)
    <3> QED
      BY <1>3, <1>5, <2>1, <3>1
  <2>4. q \in Boxes
    BY <1>2, <1>3, <2>2 DEF Boxes
  <2> QED
    BY <1>3, <1>5, <1>1, <1>4, <2>1, <2>3, <2>4 DEF q
<1>6. CASE box.count = InboxDepth
  <2>1. q.head = Wrap(box.head + 1) /\ q.count = InboxDepth /\ box.tail = box.head
    BY <1>1, <1>3, <1>4, <1>6, Window
  <2>2. q.count \in 0 .. InboxDepth /\ q.head \in Slots /\ q.slot \in [Slots -> Messages]
    BY <1>1, <1>2, <1>3, <1>4, <2>1
  <2>3. q.tail = Wrap(q.head + q.count)
    BY <1>1, <1>3, <2>1, Window
  <2>4. q \in Boxes
    BY <1>2, <1>3, <2>2 DEF Boxes
  <2> QED
    BY <1>3, <1>6, <1>1, <1>4, <2>1, <2>3, <2>4 DEF q
<1> QED
  BY <1>1, <1>4, <1>5, <1>6

\* A message filed is the newest; a full inbox forgets its oldest.
LEMMA QueuedHolds ==
  ASSUME NEW box \in Boxes, box.tail = Wrap(box.head + box.count), NEW m \in Messages,
         NEW s \in Seq(Messages), Holds(box, s)
  PROVE  Holds(Queued(box, m), Append(s, m))
<1> DEFINE q == Queued(box, m)
           t == Append(s, m)
<1>1. /\ box.head \in Slots /\ box.tail \in Slots /\ box.count \in 0 .. InboxDepth
      /\ box.slot \in [Slots -> Messages] /\ InboxDepth \in Nat \ {0} /\ Len(s) \in Nat
  BY OsLinkAssumption, LenProperties DEF Boxes
<1>2. Len(t) = Len(s) + 1 /\ t[Len(s) + 1] = m /\ \A k \in 1 .. Len(s) : t[k] = s[k]
  BY AppendProperties, <1>1
<1>3. \A i \in 0 .. box.count - 1 :
        box.slot[Wrap(box.head + i)] = s[Len(s) - box.count + 1 + i]
  BY DEF Holds
<1>4. box.count <= Len(s)
  BY DEF Holds
<1>5. q.slot = [box.slot EXCEPT ![box.tail] = m]
  BY QueuedBox
<1>6. CASE box.count < InboxDepth
  <2>1. q.head = box.head /\ q.count = box.count + 1
    BY <1>6, QueuedBox
  <2>2. ASSUME NEW i \in 0 .. box.count
        PROVE  q.slot[Wrap(q.head + i)] = t[Len(t) - q.count + 1 + i]
    <3>1. Len(t) - q.count + 1 + i = Len(s) - box.count + 1 + i
      <4>1. q.count = box.count + 1 /\ Len(t) = Len(s) + 1
        BY <1>2, <2>1
      <4>2. box.count \in Nat /\ Len(s) \in Nat /\ i \in Nat
        BY <1>1
      <4> HIDE DEF q, t
      <4> QED
        BY <4>1, <4>2
    <3>2. CASE i = box.count
      <4>1. q.slot[box.tail] = m
        BY <1>1, <1>5
      <4>2. Len(s) - box.count + 1 + i = Len(s) + 1
        BY <1>1, <3>2
      <4> QED
        BY <1>2, <2>1, <3>1, <3>2, <4>1, <4>2
    <3>3. CASE i # box.count
      <4>1. i \in 0 .. InboxDepth - 1 /\ i \in 0 .. box.count - 1 /\ i < box.count
            /\ Len(s) - box.count + 1 + i \in 1 .. Len(s) /\ i \in 0 .. InboxDepth
        BY <1>1, <1>4, <3>3, <1>6
      <4>2. Wrap(box.head + i) # box.tail
        <5>1. Wrap(box.head + i) # Wrap(box.head + box.count)
          BY <1>1, <1>6, <4>1, SlotsDiffer
        <5> QED
          BY <5>1
      <4>3. Wrap(box.head + i) \in Slots
        BY <1>1, <4>1, Window
      <4>4. q.slot[Wrap(box.head + i)] = box.slot[Wrap(box.head + i)]
        BY <1>1, <1>5, <4>2, <4>3
      <4>5. t[Len(s) - box.count + 1 + i] = s[Len(s) - box.count + 1 + i]
        BY <1>2, <4>1
      <4> QED
        BY <1>3, <2>1, <3>1, <4>1, <4>4, <4>5
    <3> QED
      BY <3>2, <3>3
  <2>3. q.count - 1 = box.count /\ q.count <= Len(t)
    BY <1>1, <1>2, <1>4, <2>1
  <2> QED
    BY <2>2, <2>3 DEF Holds
<1>7. CASE box.count = InboxDepth
  <2>1. /\ q.head = Wrap(box.head + 1) /\ q.count = InboxDepth /\ box.tail = box.head
        /\ Len(t) = Len(s) + 1 /\ q.slot = [box.slot EXCEPT ![box.head] = m]
    BY <1>2, <1>5, <1>7, QueuedBox
  <2>2. /\ InboxDepth \in Nat /\ InboxDepth > 0 /\ Len(s) \in Nat /\ InboxDepth <= Len(s)
        /\ box.head \in Slots /\ box.slot \in [Slots -> Messages]
    BY <1>1, <1>4, <1>7
  <2>3. /\ t[Len(s) + 1] = m /\ \A k \in 1 .. Len(s) : t[k] = s[k]
        /\ \A i \in 0 .. InboxDepth - 1 : box.slot[Wrap(box.head + i)] = s[Len(s) - InboxDepth + 1 + i]
    BY <1>2, <1>3, <1>7
  <2> HIDE DEF q, t
  <2>4. ASSUME NEW i \in 0 .. InboxDepth - 1
        PROVE  q.slot[Wrap(q.head + i)] = t[Len(t) - q.count + 1 + i]
    <3>1. i \in Nat /\ Len(t) - q.count + 1 + i = Len(s) - InboxDepth + 1 + (i + 1)
      BY <2>1, <2>2
    <3>2. CASE i = InboxDepth - 1
      <4>1. q.slot[box.head] = m
        BY <2>1, <2>2
      <4>2. Len(s) - InboxDepth + 1 + (i + 1) = Len(s) + 1
        BY <2>2, <3>2
      <4>3. Wrap(q.head + i) = box.head
        BY <2>1, <2>2, <3>2, Window
      <4> QED
        BY <2>3, <3>1, <4>1, <4>2, <4>3
    <3>3. CASE i # InboxDepth - 1
      <4>1. /\ i + 1 \in 0 .. InboxDepth - 1 /\ i + 1 < InboxDepth /\ i + 1 \in 0 .. InboxDepth
            /\ Len(s) - InboxDepth + 1 + (i + 1) \in 1 .. Len(s)
        BY <2>2, <3>1, <3>3
      <4>2. Wrap(q.head + i) = Wrap(box.head + (i + 1)) /\ Wrap(q.head + i) # box.head
        BY <2>1, <2>2, <4>1, Window, SMTT(30)
      <4>3. Wrap(box.head + (i + 1)) \in Slots
        BY <2>2, <4>1, Window
      <4>4. q.slot[Wrap(q.head + i)] = box.slot[Wrap(box.head + (i + 1))]
        BY <2>1, <2>2, <4>2, <4>3
      <4>5. t[Len(s) - InboxDepth + 1 + (i + 1)] = s[Len(s) - InboxDepth + 1 + (i + 1)]
        BY <2>3, <4>1
      <4>6. box.slot[Wrap(box.head + (i + 1))] = s[Len(s) - InboxDepth + 1 + (i + 1)]
        BY <2>3, <4>1
      <4> QED
        BY <3>1, <4>4, <4>5, <4>6
    <3> QED
      BY <3>2, <3>3
  <2>5. q.count <= Len(t)
    BY <2>1, <2>2
  <2> QED
    BY <2>1, <2>4, <2>5 DEF Holds, q, t
<1> QED
  BY <1>1, <1>6, <1>7

\* oslink_recv takes the oldest and leaves the others in their order.
LEMMA PoppedHolds ==
  ASSUME NEW box \in Boxes, box.tail = Wrap(box.head + box.count), box.count > 0,
         NEW s \in Seq(Messages), Holds(box, s)
  PROVE  /\ Popped(box) \in Boxes
         /\ Popped(box).tail = Wrap(Popped(box).head + Popped(box).count)
         /\ Popped(box).count = box.count - 1
         /\ Holds(Popped(box), s)
<1> DEFINE p == Popped(box)
<1>1. /\ box.head \in Slots /\ box.tail \in Slots /\ box.count \in 1 .. InboxDepth
      /\ box.slot \in [Slots -> Messages] /\ InboxDepth \in Nat \ {0} /\ Len(s) \in Nat
  BY OsLinkAssumption, LenProperties DEF Boxes
<1>2. (box.head + 1) % InboxDepth = Wrap(box.head + 1) /\ Wrap(box.head + 1) \in Slots
  <2>1. box.head + 1 \in 0 .. 2 * InboxDepth - 1
    BY <1>1 DEF Slots
  <2> QED
    BY <2>1, WrapIsMod
<1>3. /\ p.head = Wrap(box.head + 1) /\ p.count = box.count - 1
      /\ p.slot = box.slot /\ p.tail = box.tail
  <2>1. p.slot = box.slot /\ p.tail = box.tail
    BY DEF Popped, Boxes
  <2>2. p.head = (box.head + 1) % InboxDepth
    BY DEF Popped, Boxes
  <2>3. p.count = box.count - 1
    BY DEF Popped, Boxes
  <2> QED
    BY <1>2, <2>1, <2>2, <2>3
<1>4. p \in Boxes
  <2>1. box.count - 1 \in 0 .. InboxDepth /\ (box.head + 1) % InboxDepth \in Slots
    BY <1>1, <1>2
  <2> QED
    BY <2>1 DEF Popped, Boxes
<1> HIDE DEF p
<1>5. p.tail = Wrap(p.head + p.count)
  BY <1>1, <1>3, Window
<1>6. ASSUME NEW i \in 0 .. p.count - 1
      PROVE  p.slot[Wrap(p.head + i)] = s[Len(s) - p.count + 1 + i]
  <2>1. i + 1 \in 0 .. box.count - 1 /\ i \in 0 .. InboxDepth - 1 /\ i + 1 < InboxDepth
        /\ Len(s) - p.count + 1 + i = Len(s) - box.count + 1 + (i + 1)
    BY <1>1, <1>3
  <2>2. Wrap(p.head + i) = Wrap(box.head + (i + 1))
    BY <1>1, <1>3, <2>1, Window
  <2> QED
    BY <1>3, <2>1, <2>2 DEF Holds
<1>7. p.count <= Len(s)
  BY <1>1, <1>3 DEF Holds
<1> QED
  BY <1>3, <1>4, <1>5, <1>6, <1>7 DEF Holds, p

-----------------------------------------------------------------------------
\* What TypeOK says of the inboxes.
InboxesTyped ==
  /\ inbox \in [Nodes -> Boxes]
  /\ \A n \in Nodes : inbox[n].tail = (inbox[n].head + inbox[n].count) % InboxDepth

\* The inbox holds the last messages filed, and each other one was counted.
Accounted ==
  /\ filed \in [Nodes -> Seq(Messages)]
  /\ dropped \in [Nodes -> Nat]
  /\ taken \in [Nodes -> Nat]
  /\ \A n \in Nodes :
       /\ Holds(inbox[n], filed[n])
       /\ dropped[n] + taken[n] + inbox[n].count = Len(filed[n])

\* Nobody writes to himself, so nobody is his own peer.
NoSelfTalk == PeersOnce /\ \A m \in net : m.src # m.dst

LEMMA TailWraps ==
  ASSUME NEW box \in Boxes
  PROVE  (box.head + box.count) % InboxDepth = Wrap(box.head + box.count)
<1>1. box.head \in Slots /\ box.count \in 0 .. InboxDepth
  BY DEF Boxes
<1>2. box.head + box.count \in 0 .. 2 * InboxDepth - 1
  BY <1>1, Window
<1> QED
  BY <1>2, WrapIsMod

\* The part of a step that files a message.
LEMMA FileStep ==
  ASSUME InboxesTyped, Accounted, NEW n \in Nodes, NEW m \in Messages, File(n, m), taken' = taken
  PROVE  InboxesTyped' /\ Accounted'
<1> DEFINE q == Queued(inbox[n], m)
<1>1. /\ inbox[n] \in Boxes /\ inbox[n].tail = Wrap(inbox[n].head + inbox[n].count)
      /\ filed[n] \in Seq(Messages) /\ Holds(inbox[n], filed[n])
  BY TailWraps DEF InboxesTyped, Accounted
<1>2. /\ q \in Boxes /\ q.tail = (q.head + q.count) % InboxDepth
      /\ Holds(q, Append(filed[n], m))
  <2>1. q \in Boxes /\ q.tail = Wrap(q.head + q.count)
    BY <1>1, QueuedBox
  <2>2. Holds(q, Append(filed[n], m))
    BY <1>1, QueuedHolds
  <2> QED
    BY <2>1, <2>2, TailWraps
<1>3. /\ inbox' = [inbox EXCEPT ![n] = q]
      /\ dropped' = [dropped EXCEPT ![n] = IF inbox[n].count >= InboxDepth
                                             THEN dropped[n] + 1 ELSE dropped[n]]
      /\ filed' = [filed EXCEPT ![n] = Append(filed[n], m)]
  BY DEF File
<1>4. dropped'[n] + taken'[n] + q.count = Len(filed'[n])
  <2>0. \A c, d, t, l \in Nat : d + t + c = l => /\ d + t + (c + 1) = l + 1
                                                 /\ (d + 1) + t + c = l + 1
    OBVIOUS
  <2>1. /\ inbox[n].count \in 0 .. InboxDepth /\ inbox[n].count \in Nat /\ dropped[n] \in Nat /\ taken[n] \in Nat
        /\ InboxDepth \in Nat /\ Len(filed[n]) \in Nat
        /\ dropped[n] + taken[n] + inbox[n].count = Len(filed[n])
    BY <1>1, OsLinkAssumption DEF Boxes, Accounted
  <2>2. Len(filed'[n]) = Len(filed[n]) + 1 /\ taken'[n] = taken[n]
    BY <1>1, <1>3, AppendProperties DEF Accounted
  <2>3. CASE inbox[n].count < InboxDepth
    <3>1. q.count = inbox[n].count + 1
      BY <1>1, <2>3, QueuedBox
    <3>2. dropped'[n] = dropped[n]
      BY <1>3, <2>1, <2>3 DEF Accounted
    <3>3. dropped[n] + taken[n] + (inbox[n].count + 1) = Len(filed[n]) + 1
      <4>1. \A l \in Nat : dropped[n] + taken[n] + inbox[n].count = l => dropped[n] + taken[n] + (inbox[n].count + 1) = l + 1
        BY <2>0, <2>1
      <4> QED
        BY <2>1, <4>1
    <3> QED
      BY <2>2, <3>1, <3>2, <3>3, Zenon
  <2>4. CASE inbox[n].count = InboxDepth
    <3>1. q.count = inbox[n].count
      BY <1>1, <2>4, QueuedBox
    <3>2. dropped'[n] = dropped[n] + 1
      BY <1>3, <2>1, <2>4 DEF Accounted
    <3>3. (dropped[n] + 1) + taken[n] + inbox[n].count = Len(filed[n]) + 1
      <4>1. \A l \in Nat : dropped[n] + taken[n] + inbox[n].count = l => (dropped[n] + 1) + taken[n] + inbox[n].count = l + 1
        BY <2>0, <2>1
      <4> QED
        BY <2>1, <4>1
    <3> QED
      BY <2>2, <3>1, <3>2, <3>3, Zenon
  <2> QED
    BY <2>1, <2>3, <2>4
<1>5. InboxesTyped'
  BY <1>2, <1>3 DEF InboxesTyped
<1>6. Accounted'
  <2>1. filed' \in [Nodes -> Seq(Messages)]
    <3>1. Append(filed[n], m) \in Seq(Messages)
      BY <1>1, AppendProperties
    <3> QED
      BY <1>3, <3>1 DEF Accounted
  <2>2. dropped' \in [Nodes -> Nat] /\ taken' \in [Nodes -> Nat]
    BY <1>3 DEF Accounted
  <2>3. ASSUME NEW k \in Nodes
        PROVE  /\ Holds(inbox'[k], filed'[k])
               /\ dropped'[k] + taken'[k] + inbox'[k].count = Len(filed'[k])
    <3>1. CASE k = n
      BY <1>2, <1>3, <1>4, <3>1 DEF InboxesTyped, Accounted
    <3>2. CASE k # n
      BY <1>3, <3>2 DEF InboxesTyped, Accounted
    <3> QED
      BY <3>1, <3>2
  <2> QED
    BY <2>1, <2>2, <2>3 DEF Accounted
<1> QED
  BY <1>5, <1>6

\* The part of a step that enters a peer.
LEMMA RememberStep ==
  ASSUME NEW table \in Seq(Nodes), NEW n \in Nodes, NEW ip \in Nodes, ip # n,
         IsInjective(table), n \notin Range(table), Len(table) <= PeerMax
  PROVE  /\ Remember(table, ip) \in Seq(Nodes)
         /\ Len(Remember(table, ip)) <= PeerMax
         /\ IsInjective(Remember(table, ip))
         /\ n \notin Range(Remember(table, ip))
<1>1. CASE ip \in Range(table) \/ Len(table) >= PeerMax
  BY <1>1 DEF Remember
<1>2. CASE ~(ip \in Range(table) \/ Len(table) >= PeerMax)
  <2> DEFINE t == Append(table, ip)
  <2>1. /\ t \in Seq(Nodes) /\ Len(t) = Len(table) + 1 /\ Len(table) \in Nat
        /\ t[Len(table) + 1] = ip /\ \A i \in 1 .. Len(table) : t[i] = table[i]
        /\ DOMAIN t = 1 .. Len(table) + 1 /\ DOMAIN table = 1 .. Len(table)
    BY AppendProperties, LenProperties
  <2> HIDE DEF t
  <2>2. \A i \in 1 .. Len(table) : t[i] \in Range(table)
    BY <2>1 DEF Range
  <2>3. IsInjective(t)
    <3> SUFFICES ASSUME NEW i \in DOMAIN t, NEW j \in DOMAIN t, t[i] = t[j] PROVE i = j
      BY DEF IsInjective
    <3>1. CASE i \in 1 .. Len(table) /\ j \in 1 .. Len(table)
      BY <2>1, <3>1 DEF IsInjective
    <3>2. CASE i = Len(table) + 1 /\ j = Len(table) + 1
      BY <3>2
    <3>3. CASE i \in 1 .. Len(table) /\ j = Len(table) + 1
      BY <1>2, <2>1, <2>2, <3>3
    <3>4. CASE i = Len(table) + 1 /\ j \in 1 .. Len(table)
      BY <1>2, <2>1, <2>2, <3>4
    <3> QED
      BY <2>1, <3>1, <3>2, <3>3, <3>4
  <2>4. n \notin Range(t)
    <3> SUFFICES ASSUME NEW i \in DOMAIN t PROVE t[i] # n
      BY DEF Range
    <3>1. CASE i \in 1 .. Len(table)
      BY <2>2, <3>1
    <3>2. CASE i = Len(table) + 1
      BY <2>1, <3>2
    <3> QED
      BY <2>1, <3>1, <3>2
  <2>5. Len(t) <= PeerMax
    BY <1>2, <2>1, OsLinkAssumption
  <2> QED
    BY <1>2, <2>1, <2>3, <2>4, <2>5 DEF Remember, t
<1> QED
  BY <1>1, <1>2

-----------------------------------------------------------------------------
IInv == TypeOK /\ Accounted /\ NoSelfTalk

LEMMA InitIInv == Init => IInv
<1> SUFFICES ASSUME Init PROVE IInv
  OBVIOUS
<1>1. InboxDepth \in Nat \ {0} /\ PeerMax \in Nat /\ MaxTasks \in Nat
  BY OsLinkAssumption
<1>2. Blank \in Messages
  BY DEF Blank, Messages, Commands
<1> DEFINE box == [slot |-> [s \in Slots |-> Blank], head |-> 0, tail |-> 0, count |-> 0]
<1>3. box \in Boxes /\ box.tail = (box.head + box.count) % InboxDepth
  <2>1. 0 \in Slots /\ 0 \in 0 .. InboxDepth /\ [s \in Slots |-> Blank] \in [Slots -> Messages]
    BY <1>1, <1>2 DEF Slots
  <2>2. (0 + 0) % InboxDepth = 0
    BY <1>1
  <2> QED
    BY <2>1, <2>2 DEF Boxes
<1>4. TypeOK
  BY <1>1, <1>3 DEF Init, TypeOK
<1>5. Accounted
  <2>1. \A n \in Nodes : inbox[n].count = 0 /\ filed[n] = <<>> /\ dropped[n] = 0 /\ taken[n] = 0
    BY DEF Init
  <2>2. \A n \in Nodes : Holds(inbox[n], filed[n])
    BY <2>1 DEF Holds
  <2> QED
    BY <2>1, <2>2 DEF Init, Accounted
<1>6. NoSelfTalk
  BY DEF Init, NoSelfTalk, PeersOnce, IsInjective, Range
<1> QED
  BY <1>4, <1>5, <1>6 DEF IInv

LEMMA AcceptStep ==
  ASSUME IInv, NEW n \in Nodes, NEW m \in net, NEW rest \in SUBSET net,
         m.dst = n, Handle(n, m, rest), taken' = taken
  PROVE  IInv'
<1> DEFINE room == tasks[n] < MaxTasks
           reply == [src |-> n, dst |-> m.src, type |-> Answer(m, room),
                     seq |-> seq[n] + 1, text |-> Says(m, room)]
<1>0. TypeOK /\ Accounted /\ NoSelfTalk
  BY DEF IInv
<1>1. m \in Datagrams /\ m.src \in Nodes /\ m.src # n
  BY <1>0 DEF TypeOK, Datagrams, NoSelfTalk
<1>2. InboxesTyped' /\ Accounted'
  <2>1. InboxesTyped
    BY <1>0 DEF TypeOK, InboxesTyped
  <2>2. CASE m.type \in Requests
    <3>1. [src |-> m.src, type |-> m.type, seq |-> m.seq, text |-> m.text] \in Messages
      BY <1>0, <1>1, <2>2 DEF TypeOK, Messages, Datagrams
    <3>2. File(n, [src |-> m.src, type |-> m.type, seq |-> m.seq, text |-> m.text])
      BY <2>2 DEF Handle
    <3> QED
      BY <1>0, <2>1, <3>1, <3>2, FileStep
  <2>3. CASE m.type \notin Requests
    <3>1. UNCHANGED <<inbox, dropped, filed, taken>>
      BY <2>3 DEF Handle
    <3> QED
      BY <1>0, <2>1, <3>1 DEF InboxesTyped, Accounted
  <2> QED
    BY <2>2, <2>3
<1>3. /\ peers' \in [Nodes -> Seq(Nodes)]
      /\ \A k \in Nodes : Len(peers'[k]) <= PeerMax
      /\ PeersOnce'
  <2>1. peers' = [peers EXCEPT ![n] = Remember(peers[n], m.src)]
    BY DEF Handle
  <2>2. /\ Remember(peers[n], m.src) \in Seq(Nodes)
        /\ Len(Remember(peers[n], m.src)) <= PeerMax
        /\ IsInjective(Remember(peers[n], m.src))
        /\ n \notin Range(Remember(peers[n], m.src))
    BY <1>0, <1>1, RememberStep DEF TypeOK, NoSelfTalk, PeersOnce
  <2> QED
    BY <1>0, <2>1, <2>2 DEF TypeOK, NoSelfTalk, PeersOnce
<1>4. tasks' \in [Nodes -> 0 .. MaxTasks]
  <2>1. tasks \in [Nodes -> 0 .. MaxTasks] /\ MaxTasks \in Nat
    BY <1>0, OsLinkAssumption DEF TypeOK
  <2>2. tasks' = [tasks EXCEPT ![n] = IF m.type = "EXEC" /\ m.text = "safe" /\ tasks[n] < MaxTasks
                                        THEN tasks[n] + 1 ELSE tasks[n]]
    BY DEF Handle
  <2>3. CASE m.type = "EXEC" /\ m.text = "safe" /\ tasks[n] < MaxTasks
    <3>1. tasks' = [tasks EXCEPT ![n] = tasks[n] + 1]
      BY <2>2, <2>3
    <3>2. tasks[n] + 1 \in 0 .. MaxTasks
      BY <2>1, <2>3
    <3> QED
      BY <2>1, <3>1, <3>2
  <2>4. CASE ~(m.type = "EXEC" /\ m.text = "safe" /\ tasks[n] < MaxTasks)
    <3>1. tasks' = [tasks EXCEPT ![n] = tasks[n]]
      BY <2>2, <2>4
    <3> QED
      BY <2>1, <3>1
  <2> QED
    BY <2>3, <2>4
<1>5. seq' \in [Nodes -> Nat]
  <2>1. seq' = seq \/ seq' = [seq EXCEPT ![n] = seq[n] + 1]
    BY DEF Handle
  <2>2. seq \in [Nodes -> Nat]
    BY <1>0 DEF TypeOK
  <2> QED
    BY <2>1, <2>2
<1>6. /\ net' \subseteq Datagrams
      /\ \A d \in net' : d.type \in Requests => d.text \in Commands \cup {"text"}
      /\ \A d \in net' : d.src # d.dst
  <2>1. CASE Answer(m, room) = NoAnswer
    <3>1. net' = rest
      BY <2>1 DEF Handle
    <3> QED
      BY <1>0, <3>1 DEF TypeOK, NoSelfTalk
  <2>2. CASE Answer(m, room) # NoAnswer
    <3>1. net' \subseteq rest \cup {reply}
      BY <2>2 DEF Handle
    <3>2. Answer(m, room) \in Answers
      BY <2>2 DEF Answer, NoAnswer, Answers
    <3>3. Says(m, room) \in Texts
      BY DEF Says, Texts, Commands
    <3>4. seq[n] + 1 \in Nat
      BY <1>0 DEF TypeOK
    <3>5. reply \in Datagrams /\ reply.type \notin Requests /\ reply.src # reply.dst
      BY <1>1, <3>2, <3>3, <3>4 DEF Datagrams, Answers, Requests
    <3> QED
      BY <1>0, <3>1, <3>5 DEF TypeOK, NoSelfTalk
  <2> QED
    BY <2>1, <2>2
<1> QED
  BY <1>2, <1>3, <1>4, <1>5, <1>6 DEF IInv, TypeOK, InboxesTyped, NoSelfTalk

LEMMA NextIInv == IInv /\ [Next]_vars => IInv'
<1> SUFFICES ASSUME IInv, [Next]_vars PROVE IInv'
  OBVIOUS
<1>0. TypeOK /\ Accounted /\ NoSelfTalk /\ InboxesTyped
  BY DEF IInv, TypeOK, InboxesTyped
<1>1. ASSUME NEW n \in Nodes, Send(n) PROVE IInv'
  <2>1. PICK dst \in Nodes \ {n}, type \in Requests :
          \E text \in IF type = "EXEC" THEN Commands ELSE {"text"} :
            Sends(n, {[src |-> n, dst |-> dst, type |-> type, seq |-> seq[n] + 1, text |-> text]})
    BY <1>1 DEF Send
  <2>2. PICK text \in IF type = "EXEC" THEN Commands ELSE {"text"} :
          Sends(n, {[src |-> n, dst |-> dst, type |-> type, seq |-> seq[n] + 1, text |-> text]})
    BY <2>1
  <2> DEFINE d == [src |-> n, dst |-> dst, type |-> type, seq |-> seq[n] + 1, text |-> text]
  <2>3. seq' = [seq EXCEPT ![n] = seq[n] + 1] /\ net' \subseteq net \cup {d}
    BY <2>2 DEF Sends
  <2>4. seq[n] + 1 \in Nat /\ text \in Commands \cup {"text"}
    BY <1>0 DEF TypeOK
  <2>5. d \in Datagrams /\ d.text \in Commands \cup {"text"} /\ d.src # d.dst
    BY <2>4 DEF Datagrams, Texts
  <2>6. UNCHANGED <<inbox, dropped, peers, tasks, filed, taken>>
    BY <1>1 DEF Send
  <2>7. TypeOK'
    BY <1>0, <2>3, <2>4, <2>5, <2>6 DEF TypeOK
  <2>8. Accounted'
    BY <1>0, <2>6 DEF Accounted
  <2>9. NoSelfTalk'
    BY <1>0, <2>3, <2>5, <2>6 DEF NoSelfTalk, PeersOnce
  <2> QED
    BY <2>7, <2>8, <2>9 DEF IInv
<1>2. ASSUME NEW n \in Nodes, EmitLocal(n) PROVE IInv'
  <2> DEFINE m == [src |-> n, type |-> "LOCAL", seq |-> seq[n] + 1, text |-> "text"]
  <2>1. m \in Messages /\ seq' \in [Nodes -> Nat]
    BY <1>0, <1>2 DEF Messages, TypeOK, EmitLocal
  <2>2. File(n, m) /\ UNCHANGED <<peers, tasks, net, taken>>
    BY <1>2 DEF EmitLocal
  <2>3. InboxesTyped' /\ Accounted'
    BY <1>0, <2>1, <2>2, FileStep
  <2>4. TypeOK'
    BY <1>0, <2>1, <2>2, <2>3 DEF TypeOK, InboxesTyped
  <2>5. NoSelfTalk'
    BY <1>0, <2>2 DEF NoSelfTalk, PeersOnce
  <2> QED
    BY <2>3, <2>4, <2>5 DEF IInv
<1>3. ASSUME NEW n \in Nodes, Poll(n) PROVE IInv'
  <2>1. PICK m \in net : m.dst = n /\ Handle(n, m, net \ {m}) /\ taken' = taken
    BY <1>3 DEF Poll
  <2> QED
    BY <2>1, AcceptStep
<1>4. ASSUME NEW n \in Nodes, Duplicate(n) PROVE IInv'
  <2>1. PICK m \in net : m.dst = n /\ Handle(n, m, net) /\ taken' = taken
    BY <1>4 DEF Duplicate
  <2> QED
    BY <2>1, AcceptStep
<1>5. ASSUME NEW n \in Nodes, Recv(n) PROVE IInv'
  <2>1. /\ inbox' = [inbox EXCEPT ![n] = Popped(inbox[n])]
        /\ taken' = [taken EXCEPT ![n] = taken[n] + 1]
        /\ inbox[n].count > 0
        /\ UNCHANGED <<seq, dropped, peers, tasks, net, filed>>
    BY <1>5 DEF Recv
  <2>2. /\ inbox[n] \in Boxes /\ inbox[n].tail = Wrap(inbox[n].head + inbox[n].count)
        /\ filed[n] \in Seq(Messages) /\ Holds(inbox[n], filed[n])
    BY <1>0, TailWraps DEF InboxesTyped, Accounted
  <2>3. /\ Popped(inbox[n]) \in Boxes
        /\ Popped(inbox[n]).tail = Wrap(Popped(inbox[n]).head + Popped(inbox[n]).count)
        /\ Popped(inbox[n]).count = inbox[n].count - 1
        /\ Holds(Popped(inbox[n]), filed[n])
    BY <2>1, <2>2, PoppedHolds
  <2>4. Popped(inbox[n]).tail = (Popped(inbox[n]).head + Popped(inbox[n]).count) % InboxDepth
    BY <2>3, TailWraps
  <2>5. TypeOK'
    BY <1>0, <2>1, <2>3, <2>4 DEF TypeOK
  <2>6. Accounted'
    <3>1. inbox[n].count \in Nat /\ dropped[n] \in Nat /\ taken[n] \in Nat
          /\ dropped[n] + taken[n] + inbox[n].count = Len(filed[n])
      BY <1>0, <2>2 DEF Accounted, Boxes
    <3>2. dropped[n] + (taken[n] + 1) + (inbox[n].count - 1) = Len(filed[n])
      BY <3>1, SMTT(60)
    <3>3. taken' \in [Nodes -> Nat]
      BY <1>0, <2>1 DEF Accounted
    <3>4. ASSUME NEW k \in Nodes
          PROVE  /\ Holds(inbox'[k], filed'[k])
                 /\ dropped'[k] + taken'[k] + inbox'[k].count = Len(filed'[k])
      <4>1. CASE k = n
        BY <1>0, <2>1, <2>3, <3>2, <4>1 DEF InboxesTyped, Accounted
      <4>2. CASE k # n
        BY <1>0, <2>1, <4>2 DEF InboxesTyped, Accounted
      <4> QED
        BY <4>1, <4>2
    <3> QED
      BY <1>0, <2>1, <3>3, <3>4 DEF Accounted
  <2>7. NoSelfTalk'
    BY <1>0, <2>1 DEF NoSelfTalk, PeersOnce
  <2> QED
    BY <2>5, <2>6, <2>7 DEF IInv
<1>6. ASSUME NEW n \in Nodes, RunTask(n) PROVE IInv'
  <2>1. tasks' = [tasks EXCEPT ![n] = tasks[n] - 1] /\ tasks[n] > 0
        /\ UNCHANGED <<seq, inbox, dropped, peers, net, filed, taken>>
    BY <1>6 DEF RunTask
  <2>2. tasks[n] - 1 \in 0 .. MaxTasks /\ tasks \in [Nodes -> 0 .. MaxTasks]
    BY <1>0, <2>1, OsLinkAssumption DEF TypeOK
  <2>3. TypeOK'
    BY <1>0, <2>1, <2>2 DEF TypeOK
  <2> QED
    BY <1>0, <2>1, <2>3 DEF IInv, Accounted, NoSelfTalk, PeersOnce
<1>7. CASE Lose
  <2>1. net' \subseteq net /\ UNCHANGED <<seq, inbox, dropped, peers, tasks, filed, taken>>
    BY <1>7 DEF Lose
  <2> QED
    BY <1>0, <2>1 DEF IInv, TypeOK, Accounted, NoSelfTalk, PeersOnce
<1>8. CASE UNCHANGED vars
  BY <1>0, <1>8 DEF IInv, TypeOK, Accounted, NoSelfTalk, PeersOnce, vars
<1> QED
  BY <1>1, <1>2, <1>3, <1>4, <1>5, <1>6, <1>7, <1>8 DEF Next, CmdOslink

\* What the invariant says of the ring is that its contents are the newest messages.
LEMMA HoldsIsFifo ==
  ASSUME NEW box \in Boxes, NEW s \in Seq(Messages), Holds(box, s)
  PROVE  Contents(box) = Latest(s, box.count)
<1>1. /\ box.head \in Slots /\ box.count \in 0 .. InboxDepth /\ Len(s) \in Nat
      /\ box.count <= Len(s) /\ InboxDepth \in Nat \ {0} /\ box.slot \in [Slots -> Messages]
  BY OsLinkAssumption, LenProperties DEF Boxes, Holds
<1> DEFINE lo == Len(s) - box.count + 1
<1>2. \A i \in 1 .. box.count : Contents(box)[i] = s[lo + i - 1] /\ s[lo + i - 1] \in Messages
  <2> TAKE i \in 1 .. box.count
  <2>0. /\ box.head \in Nat /\ box.head < InboxDepth /\ box.count \in Nat /\ InboxDepth \in Nat
        /\ box.count <= InboxDepth /\ i \in Nat /\ 1 <= i /\ i <= box.count
    BY <1>1, SMTT(30) DEF Slots
  <2>1. i - 1 \in 0 .. box.count - 1 /\ box.head + i - 1 = box.head + (i - 1)
        /\ box.head + (i - 1) \in 0 .. 2 * InboxDepth - 1
        /\ Len(s) - box.count + 1 + (i - 1) = lo + i - 1 /\ lo + i - 1 \in 1 .. Len(s)
    BY <1>1, <2>0, SMTT(30)
  <2>2. (box.head + (i - 1)) % InboxDepth = Wrap(box.head + (i - 1))
    BY <2>1, WrapIsMod
  <2>3. Contents(box)[i] = box.slot[(box.head + i - 1) % InboxDepth]
    BY <1>1 DEF Contents
  <2>4. box.slot[Wrap(box.head + (i - 1))] = s[Len(s) - box.count + 1 + (i - 1)]
    BY <2>1 DEF Holds
  <2>5. s[lo + i - 1] \in Messages
    BY <2>1, ElementOfSeq
  <2> QED
    BY <2>1, <2>2, <2>3, <2>4, <2>5
<1>3. Contents(box) \in Seq(Messages) /\ Len(Contents(box)) = box.count
  <2>1. Contents(box) \in [1 .. box.count -> Messages]
    BY <1>2 DEF Contents
  <2> QED
    BY <1>1, <2>1
<1>4. /\ Latest(s, box.count) \in Seq(Messages) /\ Len(Latest(s, box.count)) = box.count
      /\ \A i \in 1 .. box.count : Latest(s, box.count)[i] = s[lo + i - 1]
  <2>1. lo \in Int /\ Len(s) \in Int /\ Len(s) - lo + 1 = box.count /\ lo >= 1
        /\ (lo <= Len(s) <=> box.count > 0)
    BY <1>1
  <2>2. \A i \in lo .. Len(s) : s[i] \in Messages
    BY <2>1, ElementOfSeq
  <2> HIDE DEF lo
  <2>3. /\ SubSeq(s, lo, Len(s)) \in Seq(Messages)
        /\ Len(SubSeq(s, lo, Len(s))) = IF lo <= Len(s) THEN Len(s) - lo + 1 ELSE 0
        /\ \A i \in 1 .. Len(s) - lo + 1 : SubSeq(s, lo, Len(s))[i] = s[lo + i - 1]
    BY <2>1, <2>2, SubSeqProperties
  <2> QED
    <3>1. Latest(s, box.count) = SubSeq(s, lo, Len(s))
      BY DEF Latest, lo
    <3>2. Len(SubSeq(s, lo, Len(s))) = box.count
      BY <1>1, <2>1, <2>3
    <3> QED
      BY <2>1, <2>3, <3>1, <3>2
<1> HIDE DEF lo
<1> QED
  BY <1>2, <1>3, <1>4, SeqEqual, ZenonT(30)

LEMMA IInvHolds == Spec => []IInv
  BY InitIInv, NextIInv, PTL DEF Spec

\* Head, tail and count of every inbox fit together and no table outgrows its
\* array, whatever arrives.
THEOREM TypeCorrect == Spec => []TypeOK
<1>1. IInv => TypeOK
  BY DEF IInv
<1> QED
  BY <1>1, IInvHolds, PTL

\* oslink_recv hands out what queue_msg filed, in order, and dropped counts
\* exactly what a full inbox lost.
THEOREM InboxIsFifoHolds == Spec => []InboxIsFifo
<1>1. IInv => InboxIsFifo
  <2> SUFFICES ASSUME IInv, NEW n \in Nodes
               PROVE  /\ Contents(inbox[n]) = Latest(filed[n], inbox[n].count)
                      /\ dropped[n] + taken[n] + inbox[n].count = Len(filed[n])
    BY DEF InboxIsFifo
  <2>1. inbox[n] \in Boxes /\ filed[n] \in Seq(Messages) /\ Holds(inbox[n], filed[n])
        /\ dropped[n] + taken[n] + inbox[n].count = Len(filed[n])
    BY DEF IInv, TypeOK, Accounted
  <2> QED
    BY <2>1, HoldsIsFifo
<1> QED
  BY <1>1, IInvHolds, PTL

\* remember_peer enters every machine at most once and never the machine itself.
THEOREM PeersOnceHolds == Spec => []PeersOnce
<1>1. IInv => PeersOnce
  BY DEF IInv, NoSelfTalk
<1> QED
  BY <1>1, IInvHolds, PTL

-----------------------------------------------------------------------------
(***************************************************************************)
(* What the buffer holds and what is acknowledged, for every length of     *)
(* request and answer, every size of segments and of the receive buffer,   *)
(* every number of requests and any number of faults.                      *)
(***************************************************************************)

LEMMA Sizes ==
  /\ MaxRequests \in Nat \ {0} /\ ReqLen \in Nat \ {0} /\ RespLen \in Nat \ {0} /\ PeerMss \in Nat \ {0}
  /\ RecvCap \in Nat \ {0} /\ Attempts \in Nat \ {0} /\ CloseTries \in Nat \ {0} /\ MaxFlight \in Nat \ {0}
  /\ IdleMax \in Nat /\ MaxFaults \in Nat
  /\ Stride \in Nat /\ Stride >= ReqLen + RespLen + 4
  BY TcpAssumption DEF Stride

\* The numbers of two connections do not meet.
LEMMA Apart ==
  ASSUME NEW S \in Nat, NEW k \in Nat, NEW l \in Nat, k < l
  PROVE  k * S + S <= l * S
<1> DEFINE d == l - k - 1
<1>1. d \in Nat /\ l = k + 1 + d
  OBVIOUS
<1>2. l * S = k * S + S + d * S /\ d * S \in Nat
  BY <1>1
<1> QED
  BY <1>2

LEMMA IssType == ASSUME NEW k \in Nat PROVE Iss(k) \in Nat /\ PeerIss(k) = Iss(k)
  BY Sizes DEF Iss, PeerIss

LEMMA IssApart ==
  ASSUME NEW k \in Nat, NEW l \in Nat, k < l
  PROVE  Iss(k) + Stride <= Iss(l)
  BY Sizes, Apart DEF Iss

LEMMA ConnOfType ==
  ASSUME NEW n \in Nat
  PROVE  ConnOf(n) \in Nat /\ Iss(ConnOf(n)) <= n /\ n < Iss(ConnOf(n)) + Stride
<1> DEFINE q == n \div Stride
<1>1. Stride \in Nat /\ Stride > 0
  BY Sizes
<1>2. q \in Nat /\ n = Stride * q + (n % Stride) /\ 0 <= n % Stride /\ n % Stride < Stride
  BY <1>1
<1>3. Stride * q = q * Stride /\ Stride * q \in Nat
  BY <1>1, <1>2
<1> HIDE DEF q
<1>4. n % Stride \in Nat
  BY <1>1
<1>5. q * Stride <= n /\ n < q * Stride + Stride
  BY <1>1, <1>2, <1>3, <1>4
<1> QED
  BY <1>2, <1>5 DEF ConnOf, Iss, q

LEMMA ConnOfIss ==
  ASSUME NEW k \in Nat, NEW r \in Nat, r < Stride
  PROVE  ConnOf(Iss(k) + r) = k
<1> DEFINE n == Iss(k) + r
           q == ConnOf(n)
<1>1. n \in Nat /\ Iss(k) \in Nat /\ Stride \in Nat
  BY IssType, Sizes
<1>2. q \in Nat /\ Iss(q) \in Nat /\ Iss(q) <= n /\ n < Iss(q) + Stride
  BY <1>1, ConnOfType, IssType
<1>3. ~(q < k)
  BY <1>1, <1>2, IssApart
<1>4. ~(k < q)
  BY <1>1, <1>2, IssApart
<1> QED
  BY <1>2, <1>3, <1>4

LEMMA SameUnit ==
  ASSUME NEW k \in Nat, NEW l \in Nat, NEW i \in Nat, NEW j \in Nat, i < Stride, j < Stride,
         Iss(k) + i = Iss(l) + j
  PROVE  k = l /\ i = j
<1>1. k = l
  BY ConnOfIss
<1> QED
  BY <1>1, IssType

LEMMA MinOfTwo ==
  ASSUME NEW a \in Nat, NEW b \in Nat
  PROVE  Min({a, b}) = IF a <= b THEN a ELSE b
  BY DEF Min

LEMMA MaxOfTwo ==
  ASSUME NEW a \in Nat, NEW b \in Nat
  PROVE  Max({a, b}) = IF a >= b THEN a ELSE b
  BY DEF Max

LEMMA RemovedType ==
  ASSUME NEW S, NEW s \in Seq(S), NEW i \in DOMAIN s
  PROVE  RemoveAt(s, i) \in Seq(S) /\ s[i] \in S
<1>1. i \in 1 .. Len(s) /\ Len(s) \in Nat
  OBVIOUS
<1>2. SubSeq(s, 1, i - 1) \in Seq(S) /\ SubSeq(s, i + 1, Len(s)) \in Seq(S)
  BY <1>1
<1> QED
  BY <1>1, <1>2 DEF RemoveAt

LEMMA PeerNextType == ASSUME NEW p PROVE PeerNext(p) \in Nat
<1> DEFINE C == {n \in 1 .. ReqLen + 1 : 1 .. n \subseteq p.got}
<1>1. IsFiniteSet(1 .. ReqLen + 1)
  BY Sizes, FS_Interval
<1>2. IsFiniteSet(C)
  BY <1>1, FS_Subset
<1> QED
  BY <1>2, FS_CardinalityType DEF PeerNext

\* A segment of the peer is numbered by the units it carries, and only what
\* carries none opens or resets a connection.
FromPeer(m) ==
  LET k == ConnOf(m.seq)
      j == m.seq - PeerIss(k)
  IN  /\ m.data # <<>> =>
           /\ "SYN" \notin m.flags /\ "RST" \notin m.flags
           /\ j > 0 /\ j + Len(m.data) <= RespLen + 1
           /\ m.data = [i \in 1 .. Len(m.data) |-> Unit(k, j - 1 + i)]
      /\ "SYN" \in m.flags => m.seq = PeerIss(k) /\ m.ack = Iss(k) + 1
PeerSent == {m \in PeerSegments : FromPeer(m)}

\* What the client has sent when it has n units of connection k.
ClientSent(k, n) ==
  {m \in ClientSegments :
     /\ ConnOf(m.seq) <= k
     /\ "SYN" \notin m.flags /\ ConnOf(m.seq) = k => m.ack <= PeerIss(k) + 1 + n}

\* The receive loop knows how much of the request is sent and of the answer came.
Receiving ==
  /\ snd_nxt = RequestEnd(conn) /\ lastTx.seq = RequestEnd(conn) - 1
  /\ rcv_nxt = PeerIss(conn) + 1 + Len(received)

TcpInv ==
  /\ TcpTypeOK /\ PrefixDelivered /\ AckedIsDelivered
  /\ toPeer \in Seq(ClientSent(conn, Len(received)))
  /\ toClient \in Seq(PeerSent)
  /\ phase = "connecting" => received = <<>>
  /\ phase = "receiving" => Receiving
  /\ phase = "closing" => tries < CloseTries

LEMMA ClientSentGrows ==
  ASSUME NEW k \in Nat, NEW n \in Nat, NEW l \in Nat, NEW o \in Nat, k < l \/ (k = l /\ n <= o)
  PROVE  ClientSent(k, n) \subseteq ClientSent(l, o)
<1> SUFFICES ASSUME NEW m \in ClientSent(k, n) PROVE m \in ClientSent(l, o)
  OBVIOUS
<1>1. m \in ClientSegments /\ m.seq \in Nat /\ m.ack \in Nat
  BY DEF ClientSent, ClientSegments
<1>2. ConnOf(m.seq) \in Nat /\ PeerIss(k) \in Nat
  BY <1>1, ConnOfType, IssType
<1> QED
  BY <1>1, <1>2 DEF ClientSent

LEMMA ClientSentSeq ==
  ASSUME NEW k \in Nat, NEW n \in Nat, NEW l \in Nat, NEW o \in Nat, k < l \/ (k = l /\ n <= o),
         NEW s \in Seq(ClientSent(k, n))
  PROVE  s \in Seq(ClientSent(l, o)) /\ s \in Seq(ClientSegments)
<1>1. ClientSent(k, n) \subseteq ClientSent(l, o) /\ ClientSent(k, n) \subseteq ClientSegments
  BY ClientSentGrows DEF ClientSent
<1> QED
  BY <1>1

\* What the client sends now.
LEMMA SentNow ==
  ASSUME NEW k \in Nat, NEW r \in Nat, r < Stride, NEW n \in Nat,
         NEW flags \in SUBSET Flags, NEW ack \in Nat, ack <= PeerIss(k) + 1 + n, NEW data \in Seq(Nat)
  PROVE  Segment(flags, Iss(k) + r, ack, data) \in ClientSent(k, n)
<1>0. ConnOf(Iss(k) + r) = k
  BY ConnOfIss
<1>1. Iss(k) \in Nat
  BY IssType
<1> DEFINE m == Segment(flags, Iss(k) + r, ack, data)
<1>2. m.seq = Iss(k) + r /\ m.ack = ack /\ m \in ClientSegments
  BY <1>1 DEF Segment, ClientSegments
<1> HIDE DEF m
<1>3. m \in ClientSent(k, n)
  BY <1>0, <1>2 DEF ClientSent
<1> QED
  BY <1>3 DEF m

LEMMA SynSent ==
  ASSUME NEW k \in Nat, NEW n \in Nat
  PROVE  Empty({"SYN"}, Iss(k), 0) \in ClientSent(k, n)
<1>1. Iss(k) + 0 = Iss(k) /\ Iss(k) \in Nat /\ PeerIss(k) = Iss(k) /\ 0 < Stride
  BY IssType, Sizes
<1>2. {"SYN"} \in SUBSET Flags /\ <<>> \in Seq(Nat) /\ 0 <= PeerIss(k) + 1 + n
  BY <1>1 DEF Flags
<1>3. Segment({"SYN"}, Iss(k) + 0, 0, <<>>) \in ClientSent(k, n)
  BY <1>1, <1>2, SentNow
<1> QED
  BY <1>1, <1>3 DEF Empty

\* What a segment of the peer carries.
LEMMA PeerSentParts ==
  ASSUME NEW m \in PeerSent
  PROVE  /\ m.seq \in Nat /\ m.ack \in Nat /\ m.flags \in SUBSET Flags /\ m.data \in Seq(Units)
         /\ Len(m.data) \in Nat /\ FromPeer(m)
  BY DEF PeerSent, PeerSegments

LEMMA FromPeerNow ==
  ASSUME NEW k \in Nat, NEW j \in Nat, NEW flags \in SUBSET Flags, "SYN" \notin flags,
         NEW ack \in Nat, NEW n \in Nat, n > 0 => j + n <= RespLen /\ "RST" \notin flags
  PROVE  Segment(flags, PeerIss(k) + 1 + j, ack, [i \in 1 .. n |-> Unit(k, j + i)]) \in PeerSent
<1> DEFINE data == [i \in 1 .. n |-> Unit(k, j + i)]
           m == Segment(flags, PeerIss(k) + 1 + j, ack, data)
<1>1. data \in Seq(Units) /\ Len(data) = n
  BY DEF Unit, Units
<1>2. PeerIss(k) + 1 + j \in Nat /\ PeerIss(k) + 1 + j = Iss(k) + (j + 1) /\ Iss(k) \in Nat /\ PeerIss(k) = Iss(k)
  BY IssType
<1>3. /\ m.flags = flags /\ m.seq = Iss(k) + (j + 1) /\ m.ack = ack /\ m.data = data
      /\ m \in PeerSegments
  BY <1>1, <1>2 DEF Segment, PeerSegments
<1> HIDE DEF m
<1>4. FromPeer(m)
  <2>1. CASE n = 0
    <3>1. m.data = <<>>
      BY <1>1, <1>3, <2>1
    <3> QED
      BY <1>3, <3>1 DEF FromPeer
  <2>2. CASE n > 0
    <3>1. j + 1 < Stride
      BY <2>2, Sizes
    <3>2. ConnOf(m.seq) = k
      BY <1>3, <3>1, ConnOfIss
    <3>3. m.seq - PeerIss(k) = j + 1
      BY <1>2, <1>3
    <3>4. data = [i \in 1 .. Len(m.data) |-> Unit(k, (j + 1) - 1 + i)]
      <4>1. \A i \in 1 .. n : j + i = (j + 1) - 1 + i
        OBVIOUS
      <4> QED
        BY <1>1, <1>3, <4>1
    <3> HIDE DEF data
    <3> QED
      BY <1>1, <1>3, <2>2, <3>2, <3>3, <3>4, Sizes DEF FromPeer
  <2> QED
    BY <2>1, <2>2
<1> QED
  BY <1>3, <1>4 DEF PeerSent, m

LEMMA EmptyFromPeer ==
  ASSUME NEW num \in Nat, NEW flags \in SUBSET Flags, "SYN" \notin flags, NEW ack \in Nat
  PROVE  Empty(flags, num, ack) \in PeerSent
<1> DEFINE m == Empty(flags, num, ack)
<1>1. m \in PeerSegments /\ m.data = <<>> /\ m.flags = flags
  BY DEF Empty, Segment, PeerSegments
<1> HIDE DEF m
<1> QED
  BY <1>1 DEF PeerSent, FromPeer, m

LEMMA SynAckFromPeer ==
  ASSUME NEW k \in Nat
  PROVE  Empty({"SYN", "ACK"}, PeerIss(k), Iss(k) + 1) \in PeerSent
<1> DEFINE m == Empty({"SYN", "ACK"}, PeerIss(k), Iss(k) + 1)
<1>1. Iss(k) \in Nat /\ PeerIss(k) = Iss(k) /\ Iss(k) + 0 = Iss(k) /\ 0 < Stride
  BY IssType, Sizes
<1>2. m \in PeerSegments /\ m.data = <<>> /\ m.seq = PeerIss(k) /\ m.ack = Iss(k) + 1
  BY <1>1 DEF Empty, Segment, PeerSegments, Flags
<1>3. ConnOf(PeerIss(k)) = k
  <2>1. ConnOf(Iss(k) + 0) = k
    BY <1>1, ConnOfIss
  <2> QED
    BY <1>1, <2>1
<1> HIDE DEF m
<1> QED
  BY <1>2, <1>3 DEF PeerSent, FromPeer, m

\* What tcp_recv_some puts into the buffer is what comes next of this answer.
LEMMA AcceptNext ==
  ASSUME TcpTypeOK, PrefixDelivered, Receiving, NEW m \in PeerSent
  PROVE  LET r == received \o Accepted(m)
         IN  /\ r \in Seq(Units) /\ Len(r) \in Nat /\ Len(received) <= Len(r) /\ Len(r) <= RespLen
             /\ r = [i \in 1 .. Len(r) |-> Unit(conn, i)]
             /\ NextExpected(m) = PeerIss(conn) + 1 + Len(r)
             /\ Len(Accepted(m)) \in Nat
             /\ "RST" \in m.flags => r = received
<1> DEFINE r == received \o Accepted(m)
           l == Len(received)
<1>1. /\ conn \in Nat /\ received \in Seq(Units) /\ l \in Nat /\ l <= RespLen
      /\ received = [i \in 1 .. l |-> Unit(conn, i)]
  BY Sizes DEF TcpTypeOK, ClientTypeOK, PrefixDelivered
<1>2. rcv_nxt = Iss(conn) + (1 + l) /\ rcv_nxt = PeerIss(conn) + 1 + l /\ Iss(conn) \in Nat /\ PeerIss(conn) = Iss(conn)
  BY <1>1, IssType DEF Receiving
<1>3. m.seq \in Nat /\ m.data \in Seq(Units) /\ Len(m.data) \in Nat /\ FromPeer(m)
  BY PeerSentParts
<1>4. CASE Accepted(m) = <<>>
  <2>1. r = received /\ NextExpected(m) = rcv_nxt /\ Len(Accepted(m)) = 0
    BY <1>1, <1>4 DEF NextExpected
  <2> QED
    BY <1>1, <1>2, <2>1
<1>5. CASE Accepted(m) # <<>>
  <2> DEFINE n == Min({Len(m.data), RecvCap})
  <2>1. m.seq = rcv_nxt /\ Accepted(m) = SubSeq(m.data, 1, n)
    BY <1>5 DEF Accepted, Taken
  <2>2. n \in Nat /\ n <= Len(m.data) /\ (Len(m.data) > 0 => n > 0)
    BY <1>3, Sizes, MinOfTwo
  <2> HIDE DEF n
  <2>3. Len(m.data) > 0 /\ m.data # <<>>
    BY <1>3, <1>5, <2>1, <2>2
  <2>4. ConnOf(m.seq) = conn
    BY <1>1, <1>2, <2>1, Sizes, ConnOfIss
  <2>5. m.seq - PeerIss(conn) = l + 1
    BY <1>1, <1>2, <2>1
  <2>6. /\ "RST" \notin m.flags /\ l + 1 + Len(m.data) <= RespLen + 1
        /\ m.data = [i \in 1 .. Len(m.data) |-> Unit(conn, (l + 1) - 1 + i)]
    BY <1>3, <2>3, <2>4, <2>5 DEF FromPeer
  <2> DEFINE t == Accepted(m)
  <2>7. t \in Seq(Units) /\ Len(t) = n /\ \A i \in 1 .. n : t[i] = Unit(conn, l + i)
    <3>1. t \in Seq(Units) /\ Len(t) = n /\ \A i \in 1 .. n : t[i] = m.data[i]
      BY <1>3, <2>1, <2>2
    <3>2. \A i \in 1 .. n : (l + 1) - 1 + i = l + i /\ i \in 1 .. Len(m.data)
      BY <1>1, <1>3, <2>2
    <3> QED
      BY <2>6, <3>1, <3>2
  <2>8. NextExpected(m) = rcv_nxt + n
    BY <1>5, <2>1, <2>7 DEF NextExpected
  <2> HIDE DEF t
  <2>9. r = received \o t
    BY DEF t
  <2> HIDE DEF r, l
  <2>10. /\ r \in Seq(Units) /\ Len(r) = l + n
         /\ \A i \in 1 .. l + n : r[i] = IF i <= l THEN received[i] ELSE t[i - l]
    <3>1. l = Len(received) /\ l \in Nat
      BY <1>1 DEF l
    <3>0. received \in Seq(Units) /\ t \in Seq(Units)
      BY <1>1, <2>7
    <3>2. Len(r) = Len(received) + Len(t) /\ r \in Seq(Units)
      BY <2>9, <3>0
    <3>3. \A i \in 1 .. Len(received) + Len(t) :
            r[i] = IF i <= Len(received) THEN received[i] ELSE t[i - Len(received)]
      BY <2>9, <3>0
    <3> QED
      BY <2>7, <3>1, <3>2, <3>3
  <2>11. ASSUME NEW i \in 1 .. l + n PROVE r[i] = Unit(conn, i)
    <3>1. CASE i <= l
      <4>1. i \in 1 .. l /\ r[i] = received[i]
        BY <1>1, <2>10, <3>1
      <4> QED
        BY <1>1, <4>1
    <3>2. CASE i > l
      <4>1. i - l \in 1 .. n /\ l + (i - l) = i /\ r[i] = t[i - l]
        BY <1>1, <2>2, <2>10, <3>2
      <4> QED
        BY <2>7, <4>1
    <3> QED
      BY <1>1, <2>2, <3>1, <3>2
  <2>12. r = [i \in 1 .. Len(r) |-> Unit(conn, i)]
    BY <2>10, <2>11
  <2>13. Len(r) \in Nat /\ l <= Len(r) /\ Len(r) <= RespLen /\ NextExpected(m) = PeerIss(conn) + 1 + Len(r)
    <3>1. Len(r) = l + n /\ l \in Nat /\ n \in Nat /\ n <= Len(m.data) /\ Len(m.data) \in Nat
      BY <1>1, <1>3, <2>2, <2>10
    <3>2. l + 1 + Len(m.data) <= RespLen + 1 /\ RespLen \in Nat
      BY <2>6, Sizes
    <3>3. NextExpected(m) = (PeerIss(conn) + 1 + l) + n /\ PeerIss(conn) \in Nat
      BY <1>2, <2>8
    <3>4. Len(r) \in Nat /\ l <= Len(r)
      BY <3>1
    <3>5. Len(r) <= RespLen
      <4>1. l + n <= l + Len(m.data)
        BY <3>1
      <4>2. l + Len(m.data) <= RespLen
        <5>1. \A a, b, c \in Nat : a + 1 + b <= c + 1 => a + b <= c
          OBVIOUS
        <5> QED
          BY <3>1, <3>2, <5>1
      <4> QED
        BY <3>1, <3>2, <4>1, <4>2
    <3>6. NextExpected(m) = PeerIss(conn) + 1 + Len(r)
      BY <3>1, <3>3
    <3> QED
      BY <3>4, <3>5, <3>6
  <2> QED
    BY <2>2, <2>6, <2>7, <2>10, <2>12, <2>13 DEF r, l, t
<1> QED
  BY <1>4, <1>5

\* The loop sends acknowledgements of what the buffer holds.
LEMMA LoopSends ==
  ASSUME TcpTypeOK, Receiving, NEW n \in Nat, rcv_nxt' = PeerIss(conn) + 1 + n
  PROVE  /\ AckNow \in ClientSent(conn, n)
         /\ Empty({"FIN", "ACK"}, snd_nxt, rcv_nxt') \in ClientSent(conn, n)
         /\ Segment({"PSH", "ACK"}, lastTx.seq, rcv_nxt', <<lastTx.seq - Iss(conn)>>) \in ClientSent(conn, n)
<1>1. conn \in Nat /\ Iss(conn) \in Nat /\ PeerIss(conn) \in Nat /\ rcv_nxt' \in Nat
  <2>1. conn \in Nat
    BY Sizes DEF TcpTypeOK, ClientTypeOK
  <2> QED
    BY <2>1, IssType
<1>2. snd_nxt = Iss(conn) + (1 + ReqLen) /\ lastTx.seq = Iss(conn) + ReqLen
  BY <1>1, Sizes, SMTT(30) DEF Receiving, RequestEnd
<1>3. 1 + ReqLen \in Nat /\ 1 + ReqLen < Stride /\ ReqLen \in Nat /\ ReqLen < Stride
  BY Sizes
<1>4. {"ACK"} \in SUBSET Flags /\ {"FIN", "ACK"} \in SUBSET Flags /\ {"PSH", "ACK"} \in SUBSET Flags
  BY DEF Flags
<1>5. <<>> \in Seq(Nat) /\ <<lastTx.seq - Iss(conn)>> \in Seq(Nat)
  BY <1>1, <1>2, <1>3
<1>6. rcv_nxt' <= PeerIss(conn) + 1 + n
  BY <1>1
<1>7. Segment({"ACK"}, Iss(conn) + (1 + ReqLen), rcv_nxt', <<>>) \in ClientSent(conn, n)
  BY <1>1, <1>3, <1>4, <1>5, <1>6, SentNow
<1>8. Segment({"FIN", "ACK"}, Iss(conn) + (1 + ReqLen), rcv_nxt', <<>>) \in ClientSent(conn, n)
  BY <1>1, <1>3, <1>4, <1>5, <1>6, SentNow
<1>9. Segment({"PSH", "ACK"}, Iss(conn) + ReqLen, rcv_nxt', <<lastTx.seq - Iss(conn)>>) \in ClientSent(conn, n)
  BY <1>1, <1>3, <1>4, <1>5, <1>6, SentNow
<1> QED
  BY <1>2, <1>7, <1>8, <1>9 DEF AckNow, Empty

\* net_sock_close and the rest of a round leave the counters within their bounds.
LoopKept(n) ==
  /\ toPeer' \in Seq(ClientSent(conn, n))
  /\ phase' \in {"receiving", "closing"}
  /\ phase' = "receiving" => snd_nxt' = snd_nxt /\ lastTx' = lastTx
  /\ snd_nxt' \in Nat /\ lastTx' \in [seq : Nat, len : {0, 1}]
  /\ phase' = "closing" => tries' < CloseTries
  /\ tries' \in 0 .. CloseTries /\ result' \in {"none", "ok", "error"}

LEMMA ClosingKept ==
  ASSUME TcpTypeOK, Receiving, NEW n \in Nat, rcv_nxt' = PeerIss(conn) + 1 + n,
         toPeer \in Seq(ClientSent(conn, n)), NEW first \in Seq(ClientSent(conn, n)),
         NEW outcome \in {"ok", "error"}, StartClosing(first, outcome)
  PROVE  LoopKept(n)
<1> DEFINE fin == Empty({"FIN", "ACK"}, snd_nxt, rcv_nxt')
<1>1. fin \in ClientSent(conn, n)
  BY LoopSends
<1>2. toPeer' = toPeer \o (first \o <<fin>>)
  BY DEF StartClosing, Transmit
<1> HIDE DEF fin
<1>3. toPeer' \in Seq(ClientSent(conn, n))
  BY <1>1, <1>2
<1>4. phase' = "closing" /\ tries' = 0 /\ result' = outcome /\ lastTx' = [seq |-> snd_nxt, len |-> 0] /\ snd_nxt' = snd_nxt + 1
  BY DEF StartClosing
<1>5. snd_nxt \in Nat
  BY DEF TcpTypeOK, ClientTypeOK
<1> QED
  BY <1>3, <1>4, <1>5, Sizes DEF LoopKept

LEMMA EndRoundKept ==
  ASSUME TcpTypeOK, phase = "receiving", Receiving, NEW n \in Nat, rcv_nxt' = PeerIss(conn) + 1 + n,
         toPeer \in Seq(ClientSent(conn, n)), NEW first \in Seq(ClientSent(conn, n)),
         NEW cap \in Nat, EndRound(first, cap)
  PROVE  LoopKept(n) /\ did_retx' \in BOOLEAN /\ idle' \in 0 .. IdleMax + 1
<1> DEFINE quiet == IF cap = 0 THEN idle + 1 ELSE 0
           again == MayRetransmit(quiet)
           retx == IF again
                     THEN <<Segment({"PSH", "ACK"}, lastTx.seq, rcv_nxt', <<lastTx.seq - Iss(conn)>>), AckNow>>
                     ELSE <<>>
           sends == first \o retx
<1>1. /\ did_retx' = (did_retx \/ again)
      /\ idle' = IF again THEN 0 ELSE Min({quiet, IdleMax + 1})
      /\ \/ StartClosing(sends, "ok")
         \/ Transmit(sends) /\ UNCHANGED <<phase, tries, result, lastTx, snd_nxt>>
  BY DEF EndRound
<1>2. quiet \in Nat
  BY DEF TcpTypeOK, ClientTypeOK
<1>3. retx \in Seq(ClientSent(conn, n))
  <2> DEFINE data == Segment({"PSH", "ACK"}, lastTx.seq, rcv_nxt', <<lastTx.seq - Iss(conn)>>)
  <2>1. data \in ClientSent(conn, n) /\ AckNow \in ClientSent(conn, n)
    BY LoopSends
  <2> HIDE DEF data
  <2>2. <<data, AckNow>> \in Seq(ClientSent(conn, n)) /\ <<>> \in Seq(ClientSent(conn, n))
    BY <2>1
  <2> QED
    BY <2>2 DEF data
<1>4. again \in BOOLEAN
  BY DEF MayRetransmit
<1> HIDE DEF quiet, again, retx
<1>5. sends \in Seq(ClientSent(conn, n))
  BY <1>3
<1> HIDE DEF sends
<1>6. did_retx' \in BOOLEAN
  BY <1>1
<1>7. idle' \in 0 .. IdleMax + 1
  BY <1>1, <1>2, Sizes, MinOfTwo
<1>8. CASE StartClosing(sends, "ok")
  BY <1>5, <1>6, <1>7, <1>8, ClosingKept
<1>9. CASE Transmit(sends) /\ UNCHANGED <<phase, tries, result, lastTx, snd_nxt>>
  <2>1. toPeer' \in Seq(ClientSent(conn, n))
    BY <1>5, <1>9 DEF Transmit
  <2> QED
    BY <1>6, <1>7, <1>9, <2>1 DEF LoopKept, TcpTypeOK, ClientTypeOK
<1> QED
  BY <1>1, <1>8, <1>9

LEMMA InvTypes ==
  ASSUME TcpInv
  PROVE  /\ conn \in Nat /\ conn <= MaxRequests /\ Len(received) \in Nat /\ received \in Seq(Units)
         /\ Iss(conn) \in Nat /\ PeerIss(conn) = Iss(conn)
         /\ peer \in PeerStates /\ peer.conn \in Nat /\ peer.conn <= conn
         /\ Iss(peer.conn) \in Nat /\ PeerIss(peer.conn) = Iss(peer.conn)
<1>1. conn \in Nat /\ conn <= MaxRequests /\ Len(received) \in Nat /\ received \in Seq(Units)
  BY Sizes DEF TcpInv, TcpTypeOK, ClientTypeOK
<1>2. peer \in PeerStates /\ peer.conn \in Nat /\ peer.conn <= conn
  BY DEF TcpInv, TcpTypeOK, PeerStates
<1> QED
  BY <1>1, <1>2, IssType

\* A step of the client keeps the invariant if its own part of it is kept.
LEMMA ClientStep ==
  ASSUME TcpInv, ClientTypeOK', PrefixDelivered', peer' = peer, faults' = faults, goneForGood' \in BOOLEAN,
         conn <= conn', peer.conn = conn' => peer.una <= Len(received'),
         toPeer' \in Seq(ClientSent(conn', Len(received'))), toClient' \in Seq(PeerSent),
         phase' = "connecting" => received' = <<>>,
         phase' = "receiving" => Receiving',
         phase' = "closing" => tries' < CloseTries
  PROVE  TcpInv'
<1>1. toPeer' \in Seq(ClientSegments) /\ toClient' \in Seq(PeerSegments)
  <2>1. ClientSent(conn', Len(received')) \subseteq ClientSegments /\ PeerSent \subseteq PeerSegments
    BY DEF ClientSent, PeerSent
  <2> QED
    BY <2>1
<1>2. conn' \in Nat
  BY Sizes DEF ClientTypeOK
<1>3. peer' \in PeerStates /\ peer'.conn <= conn'
  BY <1>2, InvTypes
<1>4. TcpTypeOK'
  BY <1>1, <1>3 DEF TcpInv, TcpTypeOK
<1> QED
  BY <1>4 DEF TcpInv, AckedIsDelivered

\* So does a step of the peer or of the network.
LEMMA PeerStep ==
  ASSUME TcpInv, UNCHANGED client, faults' \in 0 .. MaxFaults, goneForGood' \in BOOLEAN,
         peer' \in PeerStates, peer'.conn <= conn, peer'.conn = conn => peer'.una <= Len(received),
         toPeer' \in Seq(ClientSent(conn, Len(received))), toClient' \in Seq(PeerSent)
  PROVE  TcpInv'
<1>1. toPeer' \in Seq(ClientSegments) /\ toClient' \in Seq(PeerSegments)
  <2>1. ClientSent(conn, Len(received)) \subseteq ClientSegments /\ PeerSent \subseteq PeerSegments
    BY DEF ClientSent, PeerSent
  <2> QED
    BY <2>1
<1>2. UNCHANGED <<phase, conn, attempt, snd_nxt, snd_una, rcv_nxt, lastTx, idle, did_retx, saw_fin,
                  sized, received, tries, result>>
  BY DEF client, connVars, loopVars
<1>3. ClientTypeOK' /\ PrefixDelivered' /\ (phase' = "receiving" => Receiving')
  BY <1>2 DEF TcpInv, TcpTypeOK, ClientTypeOK, PrefixDelivered, Receiving
<1>4. TcpTypeOK' /\ AckedIsDelivered'
  BY <1>1, <1>2, <1>3 DEF TcpTypeOK, AckedIsDelivered
<1> QED
  BY <1>2, <1>3, <1>4 DEF TcpInv

LEMMA ReadSegment ==
  ASSUME TcpInv, Reads
  PROVE  Read \in PeerSent /\ toClient' \in Seq(PeerSent)
  BY DEF TcpInv, Reads, Read

LEMMA RequestKeeps == TcpInv /\ Request => TcpInv'
<1> SUFFICES ASSUME TcpInv, Request PROVE TcpInv'
  OBVIOUS
<1>1. /\ conn' = conn + 1 /\ conn < MaxRequests /\ attempt' = 1 /\ phase' = "connecting" /\ result' = "none"
      /\ received' = <<>> /\ sized' \in BOOLEAN /\ goneForGood' = FALSE
      /\ UNCHANGED <<snd_nxt, snd_una, rcv_nxt, lastTx, idle, did_retx, saw_fin, tries, peer, toClient, faults>>
      /\ toPeer' = toPeer \o <<Syn>>
  BY DEF Request, Transmit
<1>2. conn' \in Nat /\ conn' \in 0 .. MaxRequests /\ conn <= conn' /\ peer.conn # conn'
  BY <1>1, InvTypes, Sizes
<1>3. received' \in Seq(Units) /\ Len(received') = 0
  BY <1>1
<1>4. ClientTypeOK'
  BY <1>1, <1>2, <1>3, Sizes DEF TcpInv, TcpTypeOK, ClientTypeOK
<1>5. PrefixDelivered'
  BY <1>1 DEF PrefixDelivered
<1>6. toPeer' \in Seq(ClientSent(conn', Len(received')))
  <2>1. toPeer \in Seq(ClientSent(conn + 1, 0))
    <3>1. toPeer \in Seq(ClientSent(conn, Len(received)))
      BY DEF TcpInv
    <3>2. conn < conn + 1 /\ conn + 1 \in Nat /\ conn \in Nat /\ Len(received) \in Nat
      BY InvTypes
    <3> QED
      BY <3>1, <3>2, ClientSentSeq
  <2>2. Syn \in ClientSent(conn + 1, 0)
    BY <1>1, <1>2, SynSent DEF Syn
  <2> QED
    BY <1>1, <1>3, <2>1, <2>2
<1> QED
  BY <1>1, <1>2, <1>4, <1>5, <1>6, ClientStep DEF TcpInv

LEMMA NextAttemptKeeps ==
  ASSUME TcpInv, phase = "connecting", NextAttempt, toClient' \in Seq(PeerSent),
         UNCHANGED <<peer, faults, goneForGood>>
  PROVE  TcpInv'
<1>1. UNCHANGED <<conn, snd_nxt, snd_una, rcv_nxt, lastTx, idle, did_retx, saw_fin, sized, received, tries>>
  BY DEF NextAttempt, loopVars
<1>2. /\ phase' \in {"connecting", "idle"} /\ result' \in {"none", "ok", "error"} /\ attempt' \in 0 .. Attempts
      /\ toPeer' = toPeer \/ toPeer' = toPeer \o <<Empty({"SYN"}, Iss(conn), 0)>>
  BY Sizes DEF NextAttempt, Transmit, TcpInv, TcpTypeOK, ClientTypeOK
<1>3. ClientTypeOK' /\ PrefixDelivered'
  BY <1>1, <1>2 DEF TcpInv, TcpTypeOK, ClientTypeOK, PrefixDelivered
<1>4. toPeer' \in Seq(ClientSent(conn', Len(received')))
  <2>1. Empty({"SYN"}, Iss(conn), 0) \in ClientSent(conn, Len(received))
    BY InvTypes, SynSent
  <2>2. toPeer \in Seq(ClientSent(conn, Len(received)))
    BY DEF TcpInv
  <2>3. toPeer' \in Seq(ClientSent(conn, Len(received)))
    BY <1>2, <2>1, <2>2, SMTT(30)
  <2> QED
    BY <1>1, <2>3
<1> QED
  BY <1>1, <1>2, <1>3, <1>4, InvTypes, ClientStep DEF TcpInv, TcpTypeOK, AckedIsDelivered

LEMMA SendRequestKeeps ==
  ASSUME TcpInv, phase = "connecting", NEW m \in PeerSent, Connected(m), SendRequest(m),
         toClient' \in Seq(PeerSent), UNCHANGED <<peer, faults, goneForGood>>
  PROVE  TcpInv'
<1>1. ClientTypeOK
  BY DEF TcpInv, TcpTypeOK
<1>2. received = <<>> /\ Len(received) = 0 /\ UNCHANGED <<conn, attempt, sized, received>>
  BY DEF TcpInv, SendRequest
<1>3. PrefixDelivered'
  BY <1>2 DEF PrefixDelivered
<1>4. conn \in Nat /\ Iss(conn) \in Nat /\ PeerIss(conn) = Iss(conn)
  BY InvTypes
<1>5. m.seq = PeerIss(conn)
  <2> DEFINE k == ConnOf(m.seq)
  <2>1. k \in Nat /\ m.seq = PeerIss(k) /\ m.ack = Iss(k) + 1
    BY PeerSentParts, ConnOfType DEF FromPeer, Connected
  <2>2. Iss(k) \in Nat /\ PeerIss(k) = Iss(k)
    BY <2>1, IssType
  <2> QED
    BY <1>4, <2>1, <2>2 DEF Connected
<1>6. rcv_nxt' = PeerIss(conn) + 1 /\ rcv_nxt' \in Nat /\ rcv_nxt' <= PeerIss(conn) + 1 + 0
  BY <1>4, <1>5 DEF SendRequest
<1>7. 1 + ReqLen \in Nat /\ 1 + ReqLen < Stride /\ 1 < Stride
  BY Sizes
<1>8. {"ACK"} \in SUBSET Flags /\ {"FIN", "ACK"} \in SUBSET Flags /\ {"PSH", "ACK"} \in SUBSET Flags /\ <<>> \in Seq(Nat)
  BY DEF Flags
<1>9. /\ Empty({"ACK"}, Iss(conn) + 1, rcv_nxt') \in ClientSent(conn, 0)
      /\ Empty({"FIN", "ACK"}, Iss(conn) + 1, rcv_nxt') \in ClientSent(conn, 0)
  BY <1>4, <1>6, <1>7, <1>8, SentNow DEF Empty
<1>10. RequestSegments \in Seq(ClientSent(conn, 0))
  <2>1. ASSUME NEW i \in 1 .. ReqLen
        PROVE  Segment({"PSH", "ACK"}, Iss(conn) + i, rcv_nxt', <<i>>) \in ClientSent(conn, 0)
    <3>1. i \in Nat /\ i < Stride /\ <<i>> \in Seq(Nat)
      BY Sizes
    <3> QED
      BY <1>4, <1>6, <1>8, <3>1, SentNow
  <2> QED
    BY <2>1, Sizes DEF RequestSegments
<1>11. toPeer \in Seq(ClientSent(conn, 0))
  BY <1>2 DEF TcpInv
<1>12. snd_una' = Iss(conn) + 1 /\ idle' = 0 /\ did_retx' = FALSE /\ saw_fin' = FALSE
  BY DEF SendRequest
<1>13. idle' \in 0 .. IdleMax + 1 /\ did_retx' \in BOOLEAN /\ saw_fin' \in BOOLEAN /\ snd_una' \in Nat /\ rcv_nxt' \in Nat
  <2>1. did_retx' \in BOOLEAN /\ saw_fin' \in BOOLEAN
    BY <1>12
  <2>2. idle' \in 0 .. IdleMax + 1
    BY <1>12, Sizes
  <2>3. snd_una' \in Nat /\ rcv_nxt' \in Nat
    BY <1>4, <1>6, <1>12
  <2> QED
    BY <2>1, <2>2, <2>3
<1>14. CASE /\ snd_nxt' = RequestEnd(conn) /\ lastTx' = [seq |-> RequestEnd(conn) - 1, len |-> 1]
            /\ phase' = "receiving" /\ UNCHANGED <<result, tries>>
            /\ Transmit(<<Empty({"ACK"}, Iss(conn) + 1, rcv_nxt')>> \o RequestSegments)
  <2>1. toPeer' \in Seq(ClientSent(conn, 0))
    BY <1>9, <1>10, <1>11, <1>14 DEF Transmit
  <2>2. RequestEnd(conn) \in Nat /\ RequestEnd(conn) - 1 \in Nat
    BY <1>4, Sizes DEF RequestEnd
  <2>3. ClientTypeOK'
    <3>1. snd_nxt' \in Nat /\ lastTx' \in [seq : Nat, len : {0, 1}] /\ phase' = "receiving" /\ UNCHANGED <<result, tries>>
      BY <1>14, <2>2
    <3> QED
      BY <1>1, <1>2, <1>13, <3>1 DEF ClientTypeOK
  <2>4. Receiving'
    BY <1>2, <1>4, <1>6, <1>14 DEF Receiving, RequestEnd, PeerIss, Iss
  <2> QED
    BY <1>2, <1>3, <1>14, <2>1, <2>3, <2>4, InvTypes, ClientStep DEF TcpInv, TcpTypeOK, AckedIsDelivered
<1>15. CASE /\ snd_nxt' = Iss(conn) + 2 /\ lastTx' = [seq |-> Iss(conn) + 1, len |-> 0]
            /\ phase' = "closing" /\ tries' = 0 /\ result' = "error"
            /\ Transmit(<<Empty({"ACK"}, Iss(conn) + 1, rcv_nxt'), Empty({"FIN", "ACK"}, Iss(conn) + 1, rcv_nxt')>>)
  <2>1. toPeer' \in Seq(ClientSent(conn, 0))
    BY <1>9, <1>11, <1>15 DEF Transmit
  <2>2. ClientTypeOK'
    <3>1. /\ snd_nxt' \in Nat /\ lastTx' \in [seq : Nat, len : {0, 1}] /\ phase' = "closing"
          /\ tries' \in 0 .. CloseTries /\ result' = "error"
      BY <1>4, <1>15, Sizes
    <3> QED
      BY <1>1, <1>2, <1>13, <3>1 DEF ClientTypeOK
  <2>3. phase' = "closing" /\ tries' < CloseTries
    BY <1>15, Sizes
  <2> QED
    BY <1>2, <1>3, <1>15, <2>1, <2>2, <2>3, InvTypes, ClientStep DEF TcpInv, TcpTypeOK, AckedIsDelivered
<1> QED
  BY <1>14, <1>15 DEF SendRequest

LEMMA ConnectRoundKeeps == TcpInv /\ ConnectRound => TcpInv'
<1> SUFFICES ASSUME TcpInv, ConnectRound PROVE TcpInv'
  OBVIOUS
<1>1. phase = "connecting" /\ UNCHANGED <<peer, faults, goneForGood>>
  BY DEF ConnectRound
<1>2. CASE toClient' = toClient /\ NextAttempt
  BY <1>1, <1>2, NextAttemptKeeps DEF TcpInv
<1>3. CASE Reads /\ Connected(Read) /\ SendRequest(Read)
  BY <1>1, <1>3, ReadSegment, SendRequestKeeps
<1>4. CASE Reads /\ NextAttempt
  BY <1>1, <1>4, ReadSegment, NextAttemptKeeps
<1> QED
  BY <1>2, <1>3, <1>4 DEF ConnectRound

LEMMA RoundKeeps ==
  ASSUME TcpInv, phase = "receiving", NEW n \in Nat, n = Len(received'),
         UNCHANGED <<conn, attempt, sized, peer, faults, goneForGood>>,
         received' \in Seq(Units), PrefixDelivered', Len(received) <= n, n <= RespLen,
         rcv_nxt' = PeerIss(conn) + 1 + n, snd_una' \in Nat, LoopKept(n),
         did_retx' \in BOOLEAN, idle' \in 0 .. IdleMax + 1, saw_fin' \in BOOLEAN, toClient' \in Seq(PeerSent)
  PROVE  TcpInv'
<1>1. conn \in Nat /\ Len(received) \in Nat /\ PeerIss(conn) \in Nat /\ rcv_nxt' \in Nat
  BY InvTypes
<1>2. ClientTypeOK'
  BY <1>1 DEF TcpInv, TcpTypeOK, ClientTypeOK, LoopKept
<1>3. phase' = "receiving" => Receiving'
  <2>1. Receiving
    BY DEF TcpInv
  <2> QED
    BY <2>1 DEF LoopKept, Receiving, RequestEnd, Iss, PeerIss
<1>4. toPeer' \in Seq(ClientSent(conn', Len(received'))) /\ phase' # "connecting"
  BY DEF LoopKept
<1>5. peer.conn = conn' => peer.una <= Len(received')
  <2>1. ASSUME peer.conn = conn PROVE peer.una <= n
    <3>1. peer.una <= Len(received) /\ peer.una \in Nat
      BY <2>1, InvTypes, Sizes DEF TcpInv, AckedIsDelivered, PeerStates
    <3> QED
      BY <1>1, <3>1
  <2> QED
    BY <2>1
<1>6. goneForGood' \in BOOLEAN
  BY DEF TcpInv, TcpTypeOK
<1>7. phase' = "closing" => tries' < CloseTries
  BY DEF LoopKept
<1> QED
  BY <1>1, <1>2, <1>3, <1>4, <1>5, <1>6, <1>7, ClientStep

LEMMA AcknowledgedType ==
  ASSUME TcpInv, NEW m \in PeerSent
  PROVE  Acknowledged(m) \in Nat
  BY PeerSentParts DEF Acknowledged, TcpInv, TcpTypeOK, ClientTypeOK

LEMMA ReceiveSegmentKeeps == TcpInv /\ ReceiveSegment => TcpInv'
<1> SUFFICES ASSUME TcpInv, ReceiveSegment PROVE TcpInv'
  OBVIOUS
<1>1. PICK m \in PeerSent : m = Read /\ toClient' \in Seq(PeerSent)
  BY ReadSegment DEF ReceiveSegment
<1>2. /\ phase = "receiving" /\ Receiving /\ TcpTypeOK /\ PrefixDelivered
      /\ UNCHANGED <<conn, attempt, sized, peer, faults, goneForGood>>
      /\ rcv_nxt' = NextExpected(m) /\ snd_una' = Acknowledged(m)
  BY <1>1 DEF ReceiveSegment, TcpInv
<1>3. snd_una' \in Nat
  BY <1>2, AcknowledgedType
<1> DEFINE r == received \o Accepted(m)
<1>4. /\ r \in Seq(Units) /\ Len(r) \in Nat /\ Len(received) <= Len(r) /\ Len(r) <= RespLen
      /\ r = [i \in 1 .. Len(r) |-> Unit(conn, i)]
      /\ rcv_nxt' = PeerIss(conn) + 1 + Len(r) /\ Len(Accepted(m)) \in Nat
      /\ "RST" \in m.flags => r = received
  BY <1>2, AcceptNext, SMTT(30)
<1> HIDE DEF r
<1>5. PICK n \in Nat : n = Len(r)
  BY <1>4
<1>6. conn \in Nat /\ Len(received) \in Nat
  BY InvTypes
<1>7. toPeer \in Seq(ClientSent(conn, n))
  <2>1. toPeer \in Seq(ClientSent(conn, Len(received)))
    BY DEF TcpInv
  <2> QED
    BY <1>4, <1>5, <1>6, <2>1, ClientSentSeq
<1>8. <<AckNow>> \in Seq(ClientSent(conn, n))
  <2>1. AckNow \in ClientSent(conn, n)
    BY <1>2, <1>4, <1>5, LoopSends
  <2> QED
    BY <2>1
<1>9. ASSUME received' = r PROVE PrefixDelivered' /\ received' \in Seq(Units) /\ n = Len(received')
  BY <1>2, <1>4, <1>5, <1>9, SMTT(30) DEF PrefixDelivered, Unit
<1>10. CASE "RST" \in m.flags
  <2>1. StartClosing(<<AckNow>>, "error") /\ UNCHANGED <<idle, did_retx, saw_fin, received>>
    BY <1>1, <1>10 DEF ReceiveSegment
  <2>2. received' = r
    BY <1>4, <1>10, <2>1
  <2>3. LoopKept(n)
    BY <1>2, <1>4, <1>5, <1>7, <1>8, <2>1, ClosingKept
  <2>4. did_retx' \in BOOLEAN /\ idle' \in 0 .. IdleMax + 1 /\ saw_fin' \in BOOLEAN
    BY <2>1 DEF TcpInv, TcpTypeOK, ClientTypeOK
  <2> QED
    BY <1>1, <1>2, <1>3, <1>4, <1>5, <1>9, <2>2, <2>3, <2>4, RoundKeeps
<1>11. CASE "RST" \notin m.flags
  <2>1. /\ saw_fin' = (saw_fin \/ "FIN" \in m.flags) /\ received' = r
        /\ EndRound(<<AckNow>>, Len(Accepted(m)))
    BY <1>1, <1>11 DEF ReceiveSegment, r
  <2>2. saw_fin' \in BOOLEAN
    BY <2>1
  <2>3. LoopKept(n) /\ did_retx' \in BOOLEAN /\ idle' \in 0 .. IdleMax + 1
    <3>1. PICK cap \in Nat : cap = Len(Accepted(m))
      BY <1>4
    <3> QED
      BY <1>2, <1>4, <1>5, <1>7, <1>8, <2>1, <3>1, EndRoundKept
  <2> QED
    BY <1>1, <1>2, <1>3, <1>4, <1>5, <1>9, <2>1, <2>2, <2>3, RoundKeeps
<1> QED
  BY <1>10, <1>11

LEMMA ReceiveNothingKeeps == TcpInv /\ ReceiveNothing => TcpInv'
<1> SUFFICES ASSUME TcpInv, ReceiveNothing PROVE TcpInv'
  OBVIOUS
<1>1. /\ phase = "receiving" /\ EndRound(<<>>, 0)
      /\ UNCHANGED <<rcv_nxt, saw_fin, received, conn, attempt, snd_una, sized, peer, toClient, faults, goneForGood>>
  BY DEF ReceiveNothing
<1>2. Receiving /\ TcpTypeOK /\ PrefixDelivered /\ toPeer \in Seq(ClientSent(conn, Len(received))) /\ toClient \in Seq(PeerSent)
  BY <1>1 DEF TcpInv
<1>3. PICK n \in Nat : n = Len(received)
  BY InvTypes
<1>4. <<>> \in Seq(ClientSent(conn, n)) /\ rcv_nxt' = PeerIss(conn) + 1 + n /\ toPeer \in Seq(ClientSent(conn, n))
  BY <1>1, <1>2, <1>3 DEF Receiving
<1>5. LoopKept(n) /\ did_retx' \in BOOLEAN /\ idle' \in 0 .. IdleMax + 1
  BY <1>1, <1>2, <1>4, EndRoundKept
<1>6. PrefixDelivered' /\ snd_una' \in Nat /\ saw_fin' \in BOOLEAN /\ received' \in Seq(Units) /\ n <= RespLen
  BY <1>1, <1>2, <1>3 DEF PrefixDelivered, TcpTypeOK, ClientTypeOK
<1> QED
  BY <1>1, <1>2, <1>3, <1>4, <1>5, <1>6, RoundKeeps

LEMMA CloseRoundKeeps == TcpInv /\ CloseRound => TcpInv'
<1> SUFFICES ASSUME TcpInv, CloseRound PROVE TcpInv'
  OBVIOUS
<1>1. /\ phase = "closing" /\ phase' \in {"idle", "closing"} /\ tries' = tries + 1
      /\ phase' = "closing" => tries' # CloseTries
      /\ UNCHANGED <<conn, attempt, snd_nxt, rcv_nxt, lastTx, idle, did_retx, saw_fin, sized, received,
                     result, peer, toPeer, faults, goneForGood>>
  BY DEF CloseRound, loopVars
<1>2. snd_una' \in Nat /\ toClient' \in Seq(PeerSent)
  BY ReadSegment, AcknowledgedType DEF CloseRound, TcpInv, TcpTypeOK, ClientTypeOK
<1>3. tries' \in 0 .. CloseTries /\ (phase' = "closing" => tries' < CloseTries)
  BY <1>1, Sizes DEF TcpInv, TcpTypeOK, ClientTypeOK
<1>4. ClientTypeOK' /\ PrefixDelivered'
  BY <1>1, <1>2, <1>3 DEF TcpInv, TcpTypeOK, ClientTypeOK, PrefixDelivered
<1> QED
  BY <1>1, <1>2, <1>3, <1>4, InvTypes, ClientStep DEF TcpInv, TcpTypeOK, AckedIsDelivered

LEMMA DropStrayKeeps == TcpInv /\ DropStray => TcpInv'
<1> SUFFICES ASSUME TcpInv, DropStray PROVE TcpInv'
  OBVIOUS
<1>1. UNCHANGED <<client, peer, toPeer, faults, goneForGood>> /\ toClient' \in Seq(PeerSent)
  BY ReadSegment DEF DropStray
<1> QED
  BY <1>1, InvTypes, PeerStep DEF TcpInv, TcpTypeOK, AckedIsDelivered

LEMMA PeerAckType == ASSUME TcpInv, NEW p \in PeerStates PROVE PeerAck(p) \in Nat /\ PeerSeq(p) \in Nat
<1>1. p.conn \in Nat /\ p.nxt \in Nat
  BY Sizes DEF PeerStates
<1>2. PeerNext(p) \in Nat /\ Iss(p.conn) \in Nat /\ PeerIss(p.conn) \in Nat
  BY <1>1, PeerNextType, IssType
<1> QED
  BY <1>1, <1>2 DEF PeerAck, PeerSeq

LEMMA ReplyType ==
  ASSUME TcpInv, NEW m \in PeerSent, Reply(<<m>>)
  PROVE  toClient' \in Seq(PeerSent)
  BY DEF Reply, TcpInv

LEMMA HandleSynKeeps ==
  ASSUME TcpInv, NEW m \in ClientSent(conn, Len(received)), HandleSyn(m)
  PROVE  /\ peer' \in PeerStates /\ peer'.conn <= conn /\ (peer'.conn = conn => peer'.una <= Len(received))
         /\ toClient' \in Seq(PeerSent)
<1> DEFINE k == ConnOf(m.seq)
           fresh == [conn |-> k, synced |-> FALSE, got |-> {}, una |-> 0, nxt |-> 0, up |-> TRUE]
<1>1. k \in Nat /\ k <= conn
  BY ConnOfType DEF ClientSent, ClientSegments
<1>2. fresh \in PeerStates /\ fresh.conn = k /\ fresh.una = 0
  BY <1>1, Sizes DEF PeerStates
<1> HIDE DEF fresh
<1>3. Empty({"SYN", "ACK"}, PeerIss(k), Iss(k) + 1) \in PeerSent
  BY <1>1, SynAckFromPeer
<1>4. Empty({"ACK"}, PeerSeq(peer), PeerAck(peer)) \in PeerSent
  <2>1. {"ACK"} \in SUBSET Flags /\ "SYN" \notin {"ACK"}
    BY DEF Flags
  <2> QED
    BY <2>1, InvTypes, PeerAckType, EmptyFromPeer
<1>5. peer' = peer \/ (peer' = fresh /\ k > peer.conn)
  BY DEF HandleSyn, fresh
<1>6. \/ toClient' = toClient
      \/ Reply(<<Empty({"SYN", "ACK"}, PeerIss(k), Iss(k) + 1)>>)
      \/ Reply(<<Empty({"ACK"}, PeerSeq(peer), PeerAck(peer))>>)
  BY DEF HandleSyn
<1>7. toClient' \in Seq(PeerSent)
  BY <1>3, <1>4, <1>6, ReplyType DEF TcpInv
<1> QED
  BY <1>1, <1>2, <1>5, <1>7, InvTypes DEF TcpInv, AckedIsDelivered

LEMMA HandleOtherKeeps ==
  ASSUME TcpInv, NEW m \in ClientSent(conn, Len(received)), "SYN" \notin m.flags, HandleOther(m)
  PROVE  /\ peer' \in PeerStates /\ peer'.conn <= conn /\ (peer'.conn = conn => peer'.una <= Len(received))
         /\ toClient' \in Seq(PeerSent)
<1> DEFINE gain == m.ack - PeerIss(peer.conn) - 1
           units == ToSet(m.data) \cup (IF "FIN" \in m.flags THEN {m.seq - Iss(peer.conn)} ELSE {})
           una == IF m.ack > PeerIss(peer.conn) /\ gain <= RespLen + 1
                    THEN Max({peer.una, gain}) ELSE peer.una
           p == [peer EXCEPT !.synced = TRUE, !.got = @ \cup units, !.una = una, !.nxt = Max({@, una})]
<1>1. /\ m.seq \in Nat /\ m.ack \in Nat /\ m.data \in Seq(Nat) /\ m.flags \in SUBSET Flags
      /\ ConnOf(m.seq) = conn => m.ack <= PeerIss(conn) + 1 + Len(received)
  BY DEF ClientSent, ClientSegments
<1>2. /\ peer \in PeerStates /\ peer.conn \in Nat /\ peer.conn <= conn /\ Iss(peer.conn) \in Nat
      /\ PeerIss(peer.conn) = Iss(peer.conn) /\ Len(received) \in Nat /\ conn \in Nat
  BY InvTypes
<1>3. peer.una \in 0 .. RespLen + 1 /\ peer.nxt \in 0 .. RespLen + 1 /\ peer.got \in SUBSET Nat
  BY <1>2 DEF PeerStates
<1>4. ASSUME ConnOf(m.seq) = peer.conn PROVE p \in PeerStates /\ p.conn = peer.conn /\ (p.conn = conn => p.una <= Len(received))
  <2>1. units \subseteq Nat
    <3>1. ToSet(m.data) \subseteq Nat
      BY <1>1 DEF ToSet
    <3>2. m.seq - Iss(peer.conn) \in Nat
      <4>1. Iss(ConnOf(m.seq)) <= m.seq
        BY <1>1, ConnOfType
      <4>2. Iss(peer.conn) <= m.seq
        BY <4>1, <1>4
      <4> QED
        BY <1>1, <1>2, <4>2
    <3> QED
      BY <3>1, <3>2
  <2>2. una \in 0 .. RespLen + 1 /\ (peer.conn = conn => una <= Len(received))
    <3>1. peer.conn = conn => peer.una <= Len(received)
      BY DEF TcpInv, AckedIsDelivered
    <3>2. CASE m.ack > PeerIss(peer.conn) /\ gain <= RespLen + 1
      <4>1. gain \in Nat
        BY <1>1, <1>2, <3>2
      <4>2. peer.conn = conn => gain <= Len(received)
        BY <1>1, <1>2, <1>4
      <4>3. peer.una \in Nat /\ una = IF peer.una >= gain THEN peer.una ELSE gain
        BY <1>3, <3>2, <4>1, Sizes, MaxOfTwo, SMTT(30)
      <4> HIDE DEF gain, una
      <4> QED
        BY <1>3, <3>1, <3>2, <4>1, <4>2, <4>3, Sizes
    <3>3. CASE ~(m.ack > PeerIss(peer.conn) /\ gain <= RespLen + 1)
      BY <1>3, <3>1, <3>3
    <3> QED
      BY <3>2, <3>3
  <2> HIDE DEF units, una
  <2>3. Max({peer.nxt, una}) \in 0 .. RespLen + 1
    BY <1>3, <2>2, Sizes, MaxOfTwo
  <2> QED
    BY <1>2, <1>3, <2>1, <2>2, <2>3 DEF PeerStates
<1>5. \/ UNCHANGED <<peer, toClient>>
      \/ peer' = peer /\ Reply(<<Empty({"RST"}, m.ack, 0)>>)
      \/ /\ ConnOf(m.seq) = peer.conn /\ peer' = p
         /\ toClient' = toClient \/ Reply(<<Empty({"ACK"}, PeerSeq(p), PeerAck(p))>>)
  BY DEF HandleOther
<1> HIDE DEF p
<1>6. Empty({"RST"}, m.ack, 0) \in PeerSent
  <2>1. {"RST"} \in SUBSET Flags /\ "SYN" \notin {"RST"}
    BY DEF Flags
  <2> QED
    BY <1>1, <2>1, EmptyFromPeer
<1>7. ASSUME ConnOf(m.seq) = peer.conn PROVE Empty({"ACK"}, PeerSeq(p), PeerAck(p)) \in PeerSent
  <2>1. {"ACK"} \in SUBSET Flags /\ "SYN" \notin {"ACK"}
    BY DEF Flags
  <2> QED
    BY <1>4, <1>7, <2>1, PeerAckType, EmptyFromPeer
<1>8. toClient' \in Seq(PeerSent)
  BY <1>5, <1>6, <1>7, ReplyType DEF TcpInv
<1> QED
  BY <1>2, <1>4, <1>5, <1>8 DEF TcpInv, AckedIsDelivered

LEMMA PeerReceivesKeeps == TcpInv /\ PeerReceives => TcpInv'
<1> SUFFICES ASSUME TcpInv, PeerReceives PROVE TcpInv'
  OBVIOUS
<1>1. PICK m \in ClientSent(conn, Len(received)) : m = Head(toPeer)
  BY DEF TcpInv, PeerReceives
<1>2. toPeer' \in Seq(ClientSent(conn, Len(received))) /\ UNCHANGED <<client, faults, goneForGood>>
  BY DEF TcpInv, PeerReceives
<1>3. HandleSyn(m) \/ ("SYN" \notin m.flags /\ HandleOther(m))
  BY <1>1 DEF PeerReceives
<1>4. /\ peer' \in PeerStates /\ peer'.conn <= conn /\ (peer'.conn = conn => peer'.una <= Len(received))
      /\ toClient' \in Seq(PeerSent)
  BY <1>3, HandleSynKeeps, HandleOtherKeeps
<1> QED
  BY <1>2, <1>4, PeerStep DEF TcpInv, TcpTypeOK

LEMMA PeerSendsKeeps == TcpInv /\ PeerSends => TcpInv'
<1> SUFFICES ASSUME TcpInv, PeerSends PROVE TcpInv'
  OBVIOUS
<1>1. peer \in PeerStates /\ peer.conn \in Nat /\ peer.nxt \in Nat /\ peer.nxt <= RespLen
  BY InvTypes, Sizes DEF PeerSends, PeerStates
<1>2. PICK n \in 0 .. Min({PeerMss, RespLen - peer.nxt}), fin \in BOOLEAN :
        LET data == [i \in 1 .. n |-> Unit(peer.conn, peer.nxt + i)]
        IN  /\ fin => peer.nxt + n = RespLen
            /\ n > 0 \/ fin
            /\ Reply(<<Segment({"ACK"} \cup (IF fin THEN {"FIN"} ELSE {}), PeerSeq(peer), PeerAck(peer), data)>>)
            /\ peer' = [peer EXCEPT !.nxt = @ + n + (IF fin THEN 1 ELSE 0)]
  BY DEF PeerSends
<1>3. n \in Nat /\ peer.nxt + n <= RespLen
  <2>1. RespLen - peer.nxt \in Nat /\ PeerMss \in Nat
    BY <1>1, Sizes
  <2>2. Min({PeerMss, RespLen - peer.nxt}) <= RespLen - peer.nxt /\ Min({PeerMss, RespLen - peer.nxt}) \in Nat
    BY <2>1, MinOfTwo
  <2> QED
    BY <1>1, <2>1, <2>2, Sizes
<1> DEFINE flags == {"ACK"} \cup (IF fin THEN {"FIN"} ELSE {})
           m == Segment(flags, PeerIss(peer.conn) + 1 + peer.nxt, PeerAck(peer),
                        [i \in 1 .. n |-> Unit(peer.conn, peer.nxt + i)])
<1>4. flags \in SUBSET Flags /\ "SYN" \notin flags /\ "RST" \notin flags
  BY DEF Flags
<1> HIDE DEF flags
<1>5. m \in PeerSent
  BY <1>1, <1>3, <1>4, PeerAckType, FromPeerNow
<1>6. Reply(<<m>>)
  BY <1>2 DEF PeerSeq, flags
<1> HIDE DEF m
<1>7. toClient' \in Seq(PeerSent)
  BY <1>5, <1>6, ReplyType
<1>8. peer' \in PeerStates /\ peer'.conn = peer.conn /\ peer'.una = peer.una
  <2>1. peer.nxt + n + (IF fin THEN 1 ELSE 0) \in 0 .. RespLen + 1
    BY <1>1, <1>3, Sizes
  <2> QED
    BY <1>1, <1>2, <2>1 DEF PeerStates
<1>9. UNCHANGED <<client, toPeer, faults, goneForGood>>
  BY DEF PeerSends
<1> QED
  BY <1>7, <1>8, <1>9, InvTypes, PeerStep DEF TcpInv, TcpTypeOK, AckedIsDelivered

LEMMA PeerRestKeeps == TcpInv /\ (PeerTimesOut \/ PeerResets) => TcpInv'
<1> SUFFICES ASSUME TcpInv, PeerTimesOut \/ PeerResets PROVE TcpInv'
  OBVIOUS
<1>1. peer' \in PeerStates /\ peer'.conn = peer.conn /\ peer'.una = peer.una
  BY InvTypes DEF PeerTimesOut, PeerResets, PeerStates
<1>2. UNCHANGED <<client, toPeer, faults, goneForGood>>
  BY DEF PeerTimesOut, PeerResets
<1>3. toClient' \in Seq(PeerSent)
  <2>1. {"RST"} \in SUBSET Flags /\ "SYN" \notin {"RST"} /\ 0 \in Nat
    BY DEF Flags
  <2>2. Empty({"RST"}, PeerSeq(peer), 0) \in PeerSent
    BY <2>1, InvTypes, PeerAckType, EmptyFromPeer
  <2> QED
    BY <2>2, ReplyType DEF PeerTimesOut, PeerResets, TcpInv
<1> QED
  BY <1>1, <1>2, <1>3, InvTypes, PeerStep DEF TcpInv, TcpTypeOK, AckedIsDelivered

LEMMA NetworkKeeps == TcpInv /\ (LoseSegment \/ Delay) => TcpInv'
<1> SUFFICES ASSUME TcpInv, LoseSegment \/ Delay PROVE TcpInv'
  OBVIOUS
<1>1. toPeer \in Seq(ClientSent(conn, Len(received))) /\ toClient \in Seq(PeerSent)
  BY DEF TcpInv
<1>2. UNCHANGED <<client, peer>> /\ faults' \in 0 .. MaxFaults
  BY Sizes DEF LoseSegment, Delay, Fault, TcpInv, TcpTypeOK
<1>3. goneForGood' \in BOOLEAN
  BY DEF LoseSegment, Delay, TcpInv, TcpTypeOK
<1>4. ASSUME NEW S, NEW s \in Seq(S), NEW i \in DOMAIN s
      PROVE  /\ RemoveAt(s, i) \in Seq(S) /\ Append(s, s[i]) \in Seq(S)
             /\ Append(RemoveAt(s, i), s[i]) \in Seq(S)
  BY RemovedType
<1>5. toPeer' \in Seq(ClientSent(conn, Len(received))) /\ toClient' \in Seq(PeerSent)
  BY <1>1, <1>4 DEF LoseSegment, Delay
<1> QED
  BY <1>2, <1>3, <1>5, InvTypes, PeerStep DEF TcpInv, AckedIsDelivered

LEMMA TcpStep == TcpInv /\ [TcpNext]_tcpVars => TcpInv'
<1> SUFFICES ASSUME TcpInv, [TcpNext]_tcpVars PROVE TcpInv'
  OBVIOUS
<1>1. CASE UNCHANGED tcpVars
  BY <1>1, InvTypes, PeerStep DEF tcpVars, TcpInv, TcpTypeOK, AckedIsDelivered
<1> QED
  BY <1>1, RequestKeeps, ConnectRoundKeeps, ReceiveSegmentKeeps, ReceiveNothingKeeps, CloseRoundKeeps,
     DropStrayKeeps, PeerReceivesKeeps, PeerSendsKeeps, PeerRestKeeps, NetworkKeeps DEF TcpNext

LEMMA TcpStart == TcpInit => TcpInv
<1> SUFFICES ASSUME TcpInit PROVE TcpInv
  OBVIOUS
<1>1. received = <<>> /\ <<>> \in Seq(Units) /\ Len(<<>>) = 0
  BY DEF TcpInit
<1>2. ClientTypeOK
  <2>1. phase \in {"idle", "connecting", "receiving", "closing"} /\ result \in {"none", "ok", "error"}
    BY DEF TcpInit
  <2>2. did_retx \in BOOLEAN /\ saw_fin \in BOOLEAN /\ sized \in BOOLEAN
    BY DEF TcpInit
  <2>3. /\ conn = 0 /\ attempt = 0 /\ idle = 0 /\ tries = 0
        /\ snd_nxt = 0 /\ snd_una = 0 /\ rcv_nxt = 0
    BY DEF TcpInit
  <2>4. lastTx \in [seq : Nat, len : {0, 1}]
    BY DEF TcpInit
  <2>5. /\ conn \in 0 .. MaxRequests /\ attempt \in 0 .. Attempts
        /\ idle \in 0 .. IdleMax + 1 /\ tries \in 0 .. CloseTries
    BY <2>3, Sizes
  <2>6. snd_nxt \in Nat /\ snd_una \in Nat /\ rcv_nxt \in Nat
    BY <2>3
  <2>7. received \in Seq(Units) /\ Len(received) <= RespLen
    BY <1>1, Sizes
  <2> QED
    BY <2>1, <2>2, <2>4, <2>5, <2>6, <2>7 DEF ClientTypeOK
<1>3. peer \in PeerStates /\ peer.conn = 0 /\ peer.una = 0
  BY Sizes DEF TcpInit, PeerStates
<1>4. TcpTypeOK
  <2>1. conn = 0 /\ faults = 0 /\ toPeer = <<>> /\ toClient = <<>>
    BY DEF TcpInit
  <2>2. goneForGood \in BOOLEAN
    BY DEF TcpInit
  <2>3. peer.conn <= conn /\ faults \in 0 .. MaxFaults
    BY <1>3, <2>1, Sizes
  <2>4. toPeer \in Seq(ClientSegments) /\ toClient \in Seq(PeerSegments)
    BY <2>1
  <2> QED
    BY <1>2, <1>3, <2>2, <2>3, <2>4 DEF TcpTypeOK
<1> QED
  BY <1>1, <1>3, <1>4 DEF TcpInit, TcpInv, PrefixDelivered, AckedIsDelivered

LEMMA TcpHolds == TcpSpec => []TcpInv
<1> QED
  BY TcpStart, TcpStep, PTL DEF TcpSpec

\* The client of net.c and its peer keep their counters within their bounds, and
\* the peer is at no connection that the client has not begun.
THEOREM TcpTyping == TcpSpec => []TcpTypeOK
<1>1. TcpInv => TcpTypeOK
  BY DEF TcpInv
<1> QED
  BY <1>1, TcpHolds, PTL

\* Whatever the network loses, doubles and reorders, and although connections
\* share their port: the caller of tcp_recv_some has a beginning of the answer to
\* its own request, each byte once, and has acknowledged no byte beyond it.
THEOREM AnswerIsKeptHolds == TcpSpec => []AnswerIsKept
<1>1. TcpInv => AnswerIsKept
  BY DEF TcpInv, AnswerIsKept
<1> QED
  BY <1>1, TcpHolds, PTL

-----------------------------------------------------------------------------
(***************************************************************************)
(* NetSetup: the address, the gateway and the target of a request, for any *)
(* servers, stations and names, and however frames come.                   *)
(***************************************************************************)

\* The frames a station, a name server and the DHCP servers send.
LEMMA FrameTypes ==
  /\ \A o \in Stations, a \in Nat : [k |-> "arp", owner |-> o, to |-> a] \in Frames
  /\ \A r \in Seq(Nat) : [k |-> "dns", records |-> r] \in Frames
  /\ \A w \in {"offer", "ack", "nak"}, s \in Servers : [k |-> w, from |-> s] \in Frames
BY DEF Frames

\* What a frame says of itself.
LEMMA FrameParts ==
  ASSUME NEW f \in Frames
  PROVE  /\ f.k = "arp" => f.owner \in Stations /\ f.owner \in Nat /\ f.to \in Nat
         /\ f.k = "dns" => f.records \in Seq(Nat)
         /\ f.k \in {"offer", "ack", "nak"} => f.from \in Servers
         /\ f.k \in {"arp", "dns", "offer", "ack", "nak"}
BY NetSetupAssumption DEF Frames

\* The configuration in force.
LEMMA CfgType ==
  ASSUME SetupTypeOK
  PROVE  Cfg.ip \in Nat /\ Cfg.gw \in Nat /\ Cfg.dns \in Nat
<1>1. stack.cfg \subseteq Configs
  BY DEF SetupTypeOK
<1>2. stack.cfg # {} => (CHOOSE c \in stack.cfg : TRUE) \in Configs
  BY <1>1
<1>3. Defaults.ip \in Nat /\ Defaults.gw \in Nat
  BY NetSetupAssumption
<1> QED
  BY <1>2, <1>3 DEF Cfg, Configs, Zero

LEMMA KernelCfgType ==
  ASSUME SetupTypeOK, copies.kernel # {}
  PROVE  KernelCfg \in Configs
<1>1. copies.kernel \subseteq Configs
  BY DEF SetupTypeOK
<1> QED
  BY <1>1 DEF KernelCfg

\* What dhcp_parse makes of a server's answer.
LEMMA ParsedType ==
  ASSUME NEW s \in Servers
  PROVE  DhcpParse(s) \in Configs
<1>1. s.ip \in Nat /\ s.gw \subseteq Nat /\ s.dns \subseteq Nat /\ Defaults.gw \in Nat
  BY NetSetupAssumption
<1>2. PICK gw : gw = IF s.gw = {} THEN Defaults.gw ELSE CHOOSE g \in s.gw : TRUE
  OBVIOUS
<1>3. gw \in Nat
  BY <1>1, <1>2
<1>4. PICK dns : dns = IF s.dns = {} THEN gw ELSE CHOOSE d \in s.dns : TRUE
  OBVIOUS
<1>5. dns \in Nat
  BY <1>1, <1>3, <1>4
<1>6. DhcpParse(s) = [ip |-> s.ip, gw |-> gw, dns |-> dns]
  BY <1>2, <1>4 DEF DhcpParse
<1> QED
  BY <1>1, <1>3, <1>5, <1>6 DEF Configs

\* The address of a name is the first record of its answer that is one.
LEMMA FirstAddressIsOne ==
  ASSUME NEW records \in Seq(Nat), NEW a \in FirstAddress(records)
  PROVE  a \in Nat /\ a # Alias /\ \E i \in DOMAIN records : a = records[i]
BY DEF FirstAddress

LEMMA NamesAddress ==
  ASSUME NEW host \in DOMAIN Records, NEW a \in FirstAddress(Records[host])
  PROVE  a \in AddressesOf(host)
<1>1. Records[host] \in Seq(Nat)
  BY NetSetupAssumption
<1>2. a # Alias /\ \E i \in DOMAIN Records[host] : a = Records[host][i]
  BY <1>1, FirstAddressIsOne
<1>3. host \notin DOMAIN Literals
  BY NetSetupAssumption
<1> QED
  BY <1>2, <1>3 DEF AddressesOf

\* What asking may leave: the answers under way, the task and the request, with
\* the configuration, the gateway and the servers that granted as they are.
Asking(A, T, S, p) ==
  /\ A \subseteq Frames /\ T \in Tasks /\ S \subseteq Asks
  /\ \A f \in A : f.k = "ack" => f.from \in acked
  /\ T.job # "boot" /\ T.wait \in {"none", "arp", "dns", "tcp"} /\ (T.job = "none" => T.wait = "none")
  /\ T.job = "test" => copies.kernel # {}
  /\ T.wait = "arp" => /\ T.then # "none"
                       /\ T.target = Cfg.gw \/ (T.then = "udp" /\ SameSubnet(Cfg.ip, T.dst))
  /\ p => /\ WellAimed(T)
          /\ \A f \in A : f.k = "dns" => OwnDns(T, f)
          /\ \A s \in S : s.host # "" => s.ip \in AddressesOf(s.host)

\* A task that is about to ask, of a job, with no old answer under way.
Ready(t) ==
  /\ t \in Tasks /\ t.job \notin {"none", "boot"} /\ t.then \in {"dns", "tcp", "udp"}
  /\ t.job = "test" => copies.kernel # {}
  /\ punctual => /\ t.then = "tcp" /\ t.host # "" => t.dst \in AddressesOf(t.host)
                 /\ \A f \in asked : f.k # "dns"

LEMMA OnwardAsks ==
  ASSUME SetupInv, NEW t, Ready(t), NEW mac \in Nat, Onward(t, mac)
  PROVE  Asking(asked', task', sent', punctual)
<1>1. SetupTypeOK /\ t \in Tasks
  BY DEF SetupInv, Ready
<1>2. asked \subseteq Frames /\ sent \subseteq Asks /\ \A f \in asked : f.k = "ack" => f.from \in acked
  BY DEF SetupInv, SetupTypeOK, AcksAreOwn
<1>3. punctual => \A s \in sent : s.host # "" => s.ip \in AddressesOf(s.host)
  BY DEF SetupInv, SetupIsOurs, RequestsReachTheNamed
<1>4. CASE t.then = "dns"
  <2>1. asked' = asked \cup DnsAnswers(mac, t) /\ task' = [t EXCEPT !.wait = "dns"] /\ sent' = sent
    BY <1>4 DEF Onward
  <2>2. task' \in Tasks /\ task'.wait = "dns" /\ task'.job = t.job /\ task'.host = t.host /\ task'.then = "dns"
    BY <1>1, <1>4, <2>1 DEF Tasks
  <2>3. \A f \in DnsAnswers(mac, t) : f.k = "dns" /\ f \in Frames /\ t.host \in DOMAIN Records /\ f.records = Records[t.host]
    BY FrameTypes, NetSetupAssumption DEF DnsAnswers
  <2>4. asked' \subseteq Frames /\ \A f \in asked' : f.k = "ack" => f.from \in acked
    BY <1>2, <2>1, <2>3
  <2>5. punctual => \A f \in asked' : f.k = "dns" => OwnDns(task', f)
    BY <2>1, <2>2, <2>3 DEF Ready, OwnDns
  <2>6. WellAimed(task')
    BY <2>2 DEF WellAimed
  <2> QED
    BY <1>2, <1>3, <2>1, <2>2, <2>4, <2>5, <2>6 DEF Asking, Ready
<1>5. CASE t.then = "tcp"
  <2>1. sent' = {BuildRequest(t, mac)} /\ task' = [t EXCEPT !.wait = "tcp"] /\ asked' = asked
    BY <1>5 DEF Onward
  <2>2. task' \in Tasks /\ task'.wait = "tcp" /\ task'.job = t.job /\ task'.host = t.host /\ task'.dst = t.dst
    BY <1>1, <2>1 DEF Tasks
  <2>3. BuildRequest(t, mac) \in Asks /\ BuildRequest(t, mac).host = t.host /\ BuildRequest(t, mac).ip = t.dst
    BY <1>1 DEF BuildRequest, Asks, Tasks
  <2>4. sent' \subseteq Asks /\ (punctual => \A s \in sent' : s.host # "" => s.ip \in AddressesOf(s.host))
    BY <1>5, <2>1, <2>3 DEF Ready
  <2>5. punctual => WellAimed(task')
    BY <1>5, <2>2 DEF WellAimed, Ready
  <2> QED
    BY <1>2, <2>1, <2>2, <2>4, <2>5 DEF Asking, Ready
<1>6. CASE t.then = "udp"
  <2>1. /\ sent' = {[host |-> "", ip |-> t.dst, mac |-> mac, tls |-> FALSE, port |-> 0]}
        /\ task' = Off /\ asked' = asked
    BY <1>6 DEF Onward
  <2>2. Off \in Tasks /\ Off.wait = "none" /\ Off.job = "none"
    BY DEF Off, Tasks, Names, Zero
  <2>3. sent' \subseteq Asks /\ \A s \in sent' : s.host = ""
    <3>1. t.dst \in Nat /\ "" \in Names
      BY <1>1 DEF Tasks, Names
    <3>2. PICK r : r = [host |-> "", ip |-> t.dst, mac |-> mac, tls |-> FALSE, port |-> 0]
      OBVIOUS
    <3>3. r \in Asks /\ r.host = ""
      BY <3>1, <3>2 DEF Asks
    <3>4. sent' = {r}
      BY <2>1, <3>2
    <3> QED
      BY <3>3, <3>4
  <2>4. WellAimed(task')
    BY <2>1, <2>2 DEF WellAimed
  <2> QED
    BY <1>2, <2>1, <2>2, <2>3, <2>4 DEF Asking, Ready
<1> QED
  BY <1>4, <1>5, <1>6 DEF Ready

LEMMA ArpAsks ==
  ASSUME SetupInv, NEW t, Ready(t), NEW target \in Nat, AskArp(t, target),
         target = Cfg.gw \/ (t.then = "udp" /\ SameSubnet(Cfg.ip, t.dst))
  PROVE  Asking(asked', task', sent', punctual) /\ stack' = stack
<1>1. SetupTypeOK /\ t \in Tasks
  BY DEF SetupInv, Ready
<1>2. asked \subseteq Frames /\ sent \subseteq Asks /\ \A f \in asked : f.k = "ack" => f.from \in acked
  BY DEF SetupInv, SetupTypeOK, AcksAreOwn
<1>3. punctual => \A s \in sent : s.host # "" => s.ip \in AddressesOf(s.host)
  BY DEF SetupInv, SetupIsOurs, RequestsReachTheNamed
<1>4. /\ asked' = asked \cup ArpAnswers(target)
      /\ task' = [t EXCEPT !.wait = "arp", !.target = target] /\ stack' = stack /\ sent' = sent
  BY DEF AskArp
<1>5. /\ task' \in Tasks /\ task'.wait = "arp" /\ task'.target = target
      /\ task'.job = t.job /\ task'.then = t.then /\ task'.host = t.host /\ task'.dst = t.dst
  <2>1. PICK u : u = [t EXCEPT !.wait = "arp"]
    OBVIOUS
  <2>2. u \in Tasks /\ u.wait = "arp" /\ u.job = t.job /\ u.then = t.then /\ u.host = t.host /\ u.dst = t.dst
    BY <1>1, <2>1 DEF Tasks
  <2>3. task' = [u EXCEPT !.target = target]
    BY <1>4, <2>1
  <2>4. task' \in Tasks /\ task'.target = target
    BY <2>2, <2>3 DEF Tasks
  <2>5. /\ task'.wait = u.wait /\ task'.job = u.job /\ task'.then = u.then
        /\ task'.host = u.host /\ task'.dst = u.dst
    BY <2>2, <2>3 DEF Tasks
  <2> QED
    BY <2>2, <2>4, <2>5
<1>6. \A f \in ArpAnswers(target) : f \in Frames /\ f.k = "arp"
  BY <1>1, CfgType, FrameTypes DEF ArpAnswers
<1>7. asked' \subseteq Frames /\ \A f \in asked' : f.k = "ack" => f.from \in acked
  BY <1>2, <1>4, <1>6
<1>8. punctual => (\A f \in asked' : f.k # "dns") /\ WellAimed(task')
  BY <1>4, <1>5, <1>6 DEF Ready, WellAimed
<1> QED
  BY <1>2, <1>3, <1>4, <1>5, <1>7, <1>8 DEF Asking, Ready

LEMMA GatewayAsks ==
  ASSUME SetupInv, NEW t, Ready(t), ByGateway(t)
  PROVE  Asking(asked', task', sent', punctual) /\ stack' = stack
<1>1. SetupTypeOK /\ stack.gw_mac \in Nat
  BY DEF SetupInv, SetupTypeOK
<1> QED
  BY <1>1, CfgType, OnwardAsks, ArpAsks DEF ByGateway

\* A question asked keeps the invariant: no answer of the name service is in the
\* card, and the gateway is known only by its own answer.
LEMMA AskedStep ==
  ASSUME SetupInv, Asking(asked', task', sent', punctual'),
         stack'.cfg = stack.cfg, stack' \in [cfg : SUBSET Configs, gw_mac : Nat], GatewayIsOurs',
         copies' = copies, acked' = acked,
         rx' \in Seq(Frames), \A i \in DOMAIN rx' : rx'[i].k = "ack" => rx'[i].from \in acked,
         punctual' \in BOOLEAN, punctual' => \A i \in DOMAIN rx' : rx'[i].k # "dns",
         jobs' \in 0..MaxJobs, doubles' \in 0..MaxDoubles
  PROVE  SetupInv'
<1>1. Cfg' = Cfg
  BY DEF Cfg
<1>2. SetupTypeOK'
  BY DEF Asking, SetupInv, SetupTypeOK
<1>3. SetupIsOurs'
  BY DEF Asking, SetupInv, SetupIsOurs, AddressWasAcked, RequestsReachTheNamed
<1>4. WaitsAreSane'
  BY <1>1 DEF Asking, SetupInv, WaitsAreSane
<1>5. AcksAreOwn'
  BY DEF Asking, AcksAreOwn
<1>6. AnswersArePunctual'
  BY DEF Asking, AnswersArePunctual
<1> QED
  BY <1>2, <1>3, <1>4, <1>5, <1>6 DEF SetupInv

\* The frames that stay when the first is taken.
LEMMA RestOfFrames ==
  ASSUME SetupTypeOK, rx # <<>>, rx' = Tail(rx)
  PROVE  /\ rx' \in Seq(Frames) /\ \A i \in DOMAIN rx' : i + 1 \in DOMAIN rx /\ i + 1 # 1 /\ rx'[i] = rx[i + 1]
         /\ 1 \in DOMAIN rx /\ Received = rx[1] /\ Received \in Frames
<1> DEFINE F == Frames
<1>1. rx \in Seq(F)
  BY DEF SetupTypeOK
<1> HIDE DEF F
<1>2. /\ Tail(rx) \in Seq(F) /\ Len(Tail(rx)) = Len(rx) - 1 /\ Len(rx) \in Nat \ {0}
      /\ \A i \in 1..Len(Tail(rx)) : Tail(rx)[i] = rx[i + 1]
  BY <1>1
<1>3. 1 \in DOMAIN rx /\ Head(rx) = rx[1] /\ rx[1] \in F
  BY <1>1, <1>2
<1>4. \A i \in DOMAIN rx' : i + 1 \in DOMAIN rx /\ i + 1 # 1 /\ rx'[i] = rx[i + 1]
  BY <1>1, <1>2
<1> QED
  BY <1>2, <1>3, <1>4 DEF F, Received

LEMMA NoOldDns ==
  ASSUME SetupInv, task.wait # "dns", punctual
  PROVE  (\A f \in asked : f.k # "dns") /\ \A i \in DOMAIN rx : rx[i].k # "dns"
BY DEF SetupInv, AnswersArePunctual, OwnDns

\* A frame nobody waits for is thrown away.
LEMMA DropStep ==
  ASSUME SetupInv, rx # <<>>, rx' = Tail(rx),
         UNCHANGED <<stack, copies, asked, task, sent, acked, punctual, jobs, doubles>>
  PROVE  SetupInv'
<1>1. /\ rx' \in Seq(Frames) /\ \A i \in DOMAIN rx' : i + 1 \in DOMAIN rx /\ rx'[i] = rx[i + 1]
      /\ DOMAIN rx \subseteq Int /\ DOMAIN rx' \subseteq Int
  <2>1. rx \in Seq(Frames)
    BY DEF SetupInv, SetupTypeOK
  <2>2. rx' \in Seq(Frames) /\ \A i \in DOMAIN rx' : i + 1 \in DOMAIN rx /\ rx'[i] = rx[i + 1]
    BY RestOfFrames DEF SetupInv
  <2>3. \A s \in Seq(Frames) : DOMAIN s \subseteq Int
    OBVIOUS
  <2> QED
    BY <2>1, <2>2, <2>3
<1>2. SetupTypeOK'
  BY <1>1 DEF SetupInv, SetupTypeOK
<1>3. SetupIsOurs' /\ WaitsAreSane'
  <2>1. Cfg' = Cfg
    BY DEF Cfg
  <2>2. SetupIsOurs'
    BY <2>1 DEF SetupInv, SetupIsOurs, GatewayIsOurs, AddressWasAcked, RequestsReachTheNamed
  <2>3. WaitsAreSane'
    BY <2>1 DEF SetupInv, WaitsAreSane
  <2> QED
    BY <2>2, <2>3
<1>4. AcksAreOwn'
  BY <1>1 DEF SetupInv, AcksAreOwn
<1>5. AnswersArePunctual'
  <2> SUFFICES ASSUME punctual PROVE AnswersArePunctual'
    BY DEF AnswersArePunctual
  <2>1. \A f \in asked' : f.k = "dns" => OwnDns(task', f) /\ \A i \in DOMAIN rx' : rx'[i].k # "dns"
    BY <1>1 DEF SetupInv, AnswersArePunctual
  <2>2. ASSUME NEW i \in DOMAIN rx', rx'[i].k = "dns"
        PROVE  OwnDns(task', rx'[i]) /\ \A j \in DOMAIN rx' : rx'[j].k = "dns" => i = j
    <3>1. OwnDns(task, rx[i + 1]) /\ \A j \in DOMAIN rx : rx[j].k = "dns" => i + 1 = j
      BY <1>1, <2>2 DEF SetupInv, AnswersArePunctual
    <3>2. \A j \in DOMAIN rx' : rx'[j].k = "dns" => i + 1 = j + 1
      BY <1>1, <3>1
    <3>3. \A j \in DOMAIN rx' : i + 1 = j + 1 => i = j
      BY <1>1
    <3> QED
      BY <1>1, <3>1, <3>2, <3>3
  <2>3. WellAimed(task')
    BY DEF SetupInv, AnswersArePunctual
  <2> QED
    BY <2>1, <2>2, <2>3 DEF AnswersArePunctual
<1> QED
  BY <1>2, <1>3, <1>4, <1>5 DEF SetupInv

\* The state while nothing is taken from the card.
LEMMA CardAsItIs ==
  ASSUME SetupInv
  PROVE  /\ stack \in [cfg : SUBSET Configs, gw_mac : Nat] /\ rx \in Seq(Frames)
         /\ \A i \in DOMAIN rx : rx[i].k = "ack" => rx[i].from \in acked
         /\ punctual \in BOOLEAN /\ jobs \in 0..MaxJobs /\ doubles \in 0..MaxDoubles
         /\ task \in Tasks /\ asked \subseteq Frames /\ sent \subseteq Asks /\ acked \subseteq Servers
         /\ \A f \in asked : f.k = "ack" => f.from \in acked
         /\ punctual => \A s \in sent : s.host # "" => s.ip \in AddressesOf(s.host)
BY DEF SetupInv, SetupTypeOK, AcksAreOwn, SetupIsOurs, RequestsReachTheNamed

LEMMA OffIsTask == Off \in Tasks /\ Off.wait = "none" /\ Off.job = "none"
BY DEF Off, Tasks, Names, Zero

\* The gateway is ours as long as the stack is.
LEMMA SameStack ==
  ASSUME SetupInv, stack' = stack
  PROVE  GatewayIsOurs'
BY DEF SetupInv, SetupIsOurs, GatewayIsOurs, Cfg

\* The boot asks the DHCP servers, and takes what one of them grants.
LEMMA BootAsks ==
  ASSUME SetupInv, Boot
  PROVE  SetupInv'
<1>1. task.job = "boot" /\ task.wait = "none" /\ UNCHANGED <<stack, rx, sent, acked, punctual, jobs, doubles>>
  BY DEF Boot
<1>2. /\ stack.gw_mac = NoMac /\ Cfg' = Cfg
  BY <1>1 DEF SetupInv, WaitsAreSane, Cfg
<1>3. PICK b \in BOOLEAN :
        /\ task' = IF b THEN [task EXCEPT !.wait = "offer"] ELSE Off
        /\ copies' = IF b THEN [copies EXCEPT !.net = TRUE] ELSE copies
        /\ asked' = IF b THEN asked \cup {[k |-> "offer", from |-> s] : s \in Servers} ELSE asked
  <2>1. CASE task' = Off /\ UNCHANGED <<copies, asked>>
    BY <2>1
  <2>2. CASE ~(task' = Off /\ UNCHANGED <<copies, asked>>)
    BY <2>2 DEF Boot
  <2> QED
    BY <2>1, <2>2
<1>4. /\ task' \in Tasks /\ task'.wait \in {"none", "offer"} /\ task'.job \in {"none", "boot"}
      /\ task'.job = "none" => task'.wait = "none"
      /\ task'.wait = "offer" => task'.job = "boot"
  <2>1. task \in Tasks
    BY CardAsItIs
  <2>2. PICK u : u = [task EXCEPT !.wait = "offer"]
    OBVIOUS
  <2>3. u \in Tasks /\ u.wait = "offer" /\ u.job = "boot"
    BY <1>1, <2>1, <2>2 DEF Tasks
  <2>4. CASE b
    BY <1>3, <2>2, <2>3, <2>4
  <2>5. CASE ~b
    BY <1>3, <2>5, OffIsTask
  <2> QED
    BY <2>4, <2>5
<1>5. /\ asked' \subseteq Frames
      /\ \A f \in asked' : f.k = "offer" \/ f \in asked
  <2>1. \A s \in Servers : [k |-> "offer", from |-> s] \in Frames /\ [k |-> "offer", from |-> s].k = "offer"
    BY FrameTypes
  <2> QED
    BY <1>3, <2>1, CardAsItIs
<1>6. copies' \in [kernel : SUBSET Configs, oslink : SUBSET Configs, lconnect : SUBSET Configs,
                   net : BOOLEAN, ready : BOOLEAN]
      /\ copies'.kernel = copies.kernel /\ copies'.ready = copies.ready
  <2> DEFINE C == SUBSET Configs
  <2>1. copies \in [kernel : C, oslink : C, lconnect : C, net : BOOLEAN, ready : BOOLEAN]
    BY DEF SetupInv, SetupTypeOK
  <2> HIDE DEF C
  <2>2. /\ copies' \in [kernel : C, oslink : C, lconnect : C, net : BOOLEAN, ready : BOOLEAN]
        /\ copies'.kernel = copies.kernel /\ copies'.ready = copies.ready
    BY <1>3, <2>1
  <2> QED
    BY <2>2 DEF C
<1>7. SetupTypeOK'
  BY <1>1, <1>4, <1>5, <1>6 DEF SetupInv, SetupTypeOK
<1>8. SetupIsOurs'
  BY <1>1, <1>2, <1>6 DEF SetupInv, SetupIsOurs, GatewayIsOurs, AddressWasAcked, RequestsReachTheNamed
<1>9. WaitsAreSane'
  BY <1>1, <1>2, <1>4, <1>6 DEF SetupInv, WaitsAreSane
<1>10. AcksAreOwn'
  BY <1>1, <1>5 DEF SetupInv, AcksAreOwn
<1>11. AnswersArePunctual'
  <2>1. punctual => (\A f \in asked' : f.k # "dns") /\ \A i \in DOMAIN rx' : rx'[i].k # "dns"
    BY <1>1, <1>5, NoOldDns
  <2>2. WellAimed(task')
    BY <1>4 DEF WellAimed
  <2> QED
    BY <1>1, <2>1, <2>2 DEF AnswersArePunctual
<1> QED
  BY <1>7, <1>8, <1>9, <1>10, <1>11 DEF SetupInv

LEMMA OfferStep ==
  ASSUME SetupInv, TakeOffer
  PROVE  SetupInv'
<1>1. task.wait = "offer" /\ rx # <<>> /\ rx' = Tail(rx) /\ UNCHANGED <<stack, copies, sent, punctual, jobs, doubles>>
  BY DEF TakeOffer, Waiting
<1>2. CASE Received.k # "offer"
  BY <1>1, <1>2, DropStep DEF TakeOffer
<1>3. CASE Received.k = "offer"
  <2> DEFINE s == Received.from
  <2>1. /\ asked' = asked \cup {[k |-> "ack", from |-> s]} \cup {[k |-> "nak", from |-> o] : o \in Servers \ {s}}
        /\ acked' = acked \cup {s} /\ task' = [task EXCEPT !.wait = "ack"]
    BY <1>3 DEF TakeOffer
  <2>2. /\ rx' \in Seq(Frames) /\ \A i \in DOMAIN rx' : i + 1 \in DOMAIN rx /\ rx'[i] = rx[i + 1]
        /\ Received \in Frames
    BY <1>1, RestOfFrames DEF SetupInv
  <2>3. s \in Servers
    BY <1>3, <2>2, FrameParts
  <2> HIDE DEF s
  <2>4. /\ \A o \in Servers : [k |-> "nak", from |-> o] \in Frames /\ [k |-> "nak", from |-> o].k = "nak"
        /\ [k |-> "ack", from |-> s] \in Frames
    BY <2>3, FrameTypes
  <2>5. asked' \subseteq Frames /\ \A f \in asked' : f \in asked \/ f.k = "nak" \/ (f.k = "ack" /\ f.from = s)
    <3>1. PICK granted : granted = [k |-> "ack", from |-> s]
      OBVIOUS
    <3>2. granted \in Frames /\ granted.k = "ack" /\ granted.from = s
      BY <2>4, <3>1
    <3>3. asked' = asked \cup {granted} \cup {[k |-> "nak", from |-> o] : o \in Servers \ {s}}
      BY <2>1, <3>1
    <3> QED
      BY <2>4, <3>2, <3>3, CardAsItIs
  <2>6. task' \in Tasks /\ task'.wait = "ack" /\ task'.job = "boot" /\ stack.gw_mac = NoMac
    <3>1. task \in Tasks /\ task.job = "boot" /\ stack.gw_mac = NoMac
      BY <1>1, CardAsItIs DEF SetupInv, WaitsAreSane
    <3> QED
      BY <2>1, <3>1 DEF Tasks
  <2>7. SetupTypeOK'
    BY <1>1, <2>1, <2>2, <2>3, <2>5, <2>6 DEF SetupInv, SetupTypeOK
  <2>8. SetupIsOurs'
    BY <1>1, <2>1, <2>6 DEF SetupInv, SetupIsOurs, GatewayIsOurs, AddressWasAcked, RequestsReachTheNamed
  <2>9. WaitsAreSane'
    BY <1>1, <2>6 DEF SetupInv, WaitsAreSane
  <2>10. AcksAreOwn'
    BY <2>1, <2>2, <2>5 DEF SetupInv, AcksAreOwn
  <2>11. AnswersArePunctual'
    <3>1. punctual => (\A f \in asked' : f.k # "dns") /\ \A i \in DOMAIN rx' : rx'[i].k # "dns"
      BY <1>1, <2>2, <2>5, NoOldDns
    <3>2. WellAimed(task')
      BY <2>6 DEF WellAimed
    <3> QED
      BY <1>1, <3>1, <3>2 DEF AnswersArePunctual
  <2> QED
    BY <2>7, <2>8, <2>9, <2>10, <2>11 DEF SetupInv
<1> QED
  BY <1>2, <1>3

LEMMA AckStep ==
  ASSUME SetupInv, TakeAck
  PROVE  SetupInv'
<1>1. task.wait = "ack" /\ rx # <<>> /\ rx' = Tail(rx) /\ UNCHANGED <<sent, acked, punctual, jobs, doubles>>
  BY DEF TakeAck, Waiting
<1>2. CASE Received.k # "ack"
  BY <1>1, <1>2, DropStep DEF TakeAck, IsAck
<1>3. CASE Received.k = "ack"
  <2> DEFINE c == DhcpParse(Received.from)
  <2>1. /\ stack' = [stack EXCEPT !.cfg = {c}] /\ copies' = Configured(c)
        /\ task' = [Off EXCEPT !.job = "test"] /\ asked' = {}
    BY <1>3 DEF TakeAck, IsAck
  <2>2. /\ rx' \in Seq(Frames) /\ \A i \in DOMAIN rx' : i + 1 \in DOMAIN rx /\ rx'[i] = rx[i + 1]
        /\ 1 \in DOMAIN rx /\ Received = rx[1] /\ Received \in Frames
    BY <1>1, RestOfFrames DEF SetupInv
  <2>3. Received.from \in Servers /\ Received.from \in acked
    BY <1>3, <2>2, FrameParts DEF SetupInv, AcksAreOwn
  <2>4. c \in Configs
    BY <2>3, ParsedType
  <2>5. \E s \in acked : c = DhcpParse(s)
    BY <2>3
  <2> HIDE DEF c
  <2>6. task' \in Tasks /\ task'.job = "test" /\ task'.wait = "none"
    BY <2>1, OffIsTask DEF Tasks
  <2>7. stack' \in [cfg : SUBSET Configs, gw_mac : Nat] /\ stack'.gw_mac = stack.gw_mac /\ stack.gw_mac = NoMac
    <3>1. stack.gw_mac = NoMac /\ {c} \in SUBSET Configs /\ stack \in [cfg : SUBSET Configs, gw_mac : Nat]
      BY <1>1, <2>4, CardAsItIs DEF SetupInv, WaitsAreSane
    <3> DEFINE C == SUBSET Configs
    <3>2. stack \in [cfg : C, gw_mac : Nat] /\ {c} \in C
      BY <3>1
    <3> HIDE DEF C
    <3>3. stack' \in [cfg : C, gw_mac : Nat] /\ stack'.gw_mac = stack.gw_mac
      BY <2>1, <3>2
    <3> QED
      BY <3>1, <3>3 DEF C
  <2>8. copies'.kernel = {c} /\ copies' \in [kernel : SUBSET Configs, oslink : SUBSET Configs,
                                            lconnect : SUBSET Configs, net : BOOLEAN, ready : BOOLEAN]
    BY <2>1, <2>4 DEF Configured
  <2>9. SetupTypeOK'
    BY <1>1, <2>1, <2>2, <2>6, <2>7, <2>8 DEF SetupInv, SetupTypeOK
  <2>10. SetupIsOurs'
    BY <1>1, <2>5, <2>7, <2>8 DEF SetupInv, SetupIsOurs, GatewayIsOurs, AddressWasAcked, RequestsReachTheNamed
  <2>11. WaitsAreSane'
    BY <2>6, <2>8 DEF WaitsAreSane
  <2>12. AcksAreOwn'
    BY <1>1, <2>1, <2>2 DEF SetupInv, AcksAreOwn
  <2>13. AnswersArePunctual'
    <3>1. punctual => \A i \in DOMAIN rx' : rx'[i].k # "dns"
      BY <1>1, <2>2, NoOldDns
    <3>2. WellAimed(task')
      BY <2>6 DEF WellAimed
    <3> QED
      BY <1>1, <2>1, <3>1, <3>2 DEF AnswersArePunctual
  <2> QED
    BY <2>9, <2>10, <2>11, <2>12, <2>13 DEF SetupInv
<1> QED
  BY <1>2, <1>3

\* A task on its way to a name or to a page.
ToName(t, h, a) == [t EXCEPT !.then = "dns", !.host = h, !.dns = a]
ToPage(t, h, a) == [t EXCEPT !.then = "tcp", !.host = h, !.dst = a]
LEMMA TaskAsks ==
  ASSUME NEW t \in Tasks, NEW h \in Names, NEW a \in Nat
  PROVE  /\ ToName(t, h, a) \in Tasks /\ ToName(t, h, a).job = t.job /\ ToName(t, h, a).then = "dns"
         /\ ToName(t, h, a).host = h
         /\ ToPage(t, h, a) \in Tasks /\ ToPage(t, h, a).job = t.job /\ ToPage(t, h, a).then = "tcp"
         /\ ToPage(t, h, a).host = h /\ ToPage(t, h, a).dst = a
<1>5. ASSUME NEW r, r = [t EXCEPT !.then = "dns", !.host = h, !.dns = a]
      PROVE  r \in Tasks /\ r.job = t.job /\ r.then = "dns" /\ r.host = h
  <2>1. PICK u : u = [t EXCEPT !.then = "dns"]
    OBVIOUS
  <2>2. PICK v : v = [u EXCEPT !.host = h]
    OBVIOUS
  <2>3. r = [v EXCEPT !.dns = a]
    BY <1>5, <2>1, <2>2
  <2>4. u \in Tasks /\ u.job = t.job /\ u.then = "dns"
    BY <2>1 DEF Tasks
  <2>5. v \in Tasks /\ v.job = u.job /\ v.then = u.then /\ v.host = h
    BY <2>2, <2>4 DEF Tasks
  <2>6. r \in Tasks /\ r.job = v.job /\ r.then = v.then /\ r.host = v.host
    BY <2>3, <2>5 DEF Tasks
  <2> QED
    BY <2>4, <2>5, <2>6
<1>6. ASSUME NEW r, r = [t EXCEPT !.then = "tcp", !.host = h, !.dst = a]
      PROVE  r \in Tasks /\ r.job = t.job /\ r.then = "tcp" /\ r.host = h /\ r.dst = a
  <2>1. PICK u : u = [t EXCEPT !.then = "tcp"]
    OBVIOUS
  <2>2. PICK v : v = [u EXCEPT !.host = h]
    OBVIOUS
  <2>3. r = [v EXCEPT !.dst = a]
    BY <1>6, <2>1, <2>2
  <2>4. u \in Tasks /\ u.job = t.job /\ u.then = "tcp"
    BY <2>1 DEF Tasks
  <2>5. v \in Tasks /\ v.job = u.job /\ v.then = u.then /\ v.host = h
    BY <2>2, <2>4 DEF Tasks
  <2>6. r \in Tasks /\ r.job = v.job /\ r.then = v.then /\ r.host = v.host /\ r.dst = a
    BY <2>3, <2>5 DEF Tasks
  <2> QED
    BY <2>4, <2>5, <2>6
<1> QED
  <2>1. PICK x : x = ToName(t, h, a)
    OBVIOUS
  <2>2. PICK y : y = ToPage(t, h, a)
    OBVIOUS
  <2>3. x \in Tasks /\ x.job = t.job /\ x.then = "dns" /\ x.host = h
    BY <2>1, <1>5 DEF ToName
  <2>4. y \in Tasks /\ y.job = t.job /\ y.then = "tcp" /\ y.host = h /\ y.dst = a
    BY <2>2, <1>6 DEF ToPage
  <2> QED
    BY <2>1, <2>2, <2>3, <2>4

\* A question asked while the card stays as it is.
LEMMA AskedMeanwhile ==
  ASSUME SetupInv, Asking(asked', task', sent', punctual), jobs' \in 0..MaxJobs,
         UNCHANGED <<stack, copies, rx, acked, punctual, doubles>>,
         punctual => \A i \in DOMAIN rx : rx[i].k # "dns"
  PROVE  SetupInv'
<1>1. /\ stack'.cfg = stack.cfg /\ stack' \in [cfg : SUBSET Configs, gw_mac : Nat]
      /\ rx' \in Seq(Frames) /\ \A i \in DOMAIN rx' : rx'[i].k = "ack" => rx'[i].from \in acked
      /\ punctual' \in BOOLEAN /\ doubles' \in 0..MaxDoubles
  BY CardAsItIs
<1>2. punctual' => \A i \in DOMAIN rx' : rx'[i].k # "dns"
  OBVIOUS
<1>3. Asking(asked', task', sent', punctual')
  OBVIOUS
<1> QED
  BY <1>1, <1>2, <1>3, SameStack, AskedStep

\* What the main loop and the test of the boot ask.
LEMMA TestStep ==
  ASSUME SetupInv, Test
  PROVE  SetupInv'
<1>1. /\ task.job = "test" /\ task.wait = "none"
      /\ Resolve([task EXCEPT !.left = 1], "test", KernelCfg.dns)
      /\ UNCHANGED <<copies, rx, acked, punctual, jobs, doubles>>
  BY DEF Test
<1>2. PICK u : u = [task EXCEPT !.left = 1]
  OBVIOUS
<1>3. u \in Tasks /\ u.job = "test" /\ copies.kernel # {}
  <2>1. task \in Tasks /\ copies.kernel # {}
    BY <1>1, CardAsItIs DEF SetupInv, WaitsAreSane
  <2> QED
    BY <1>1, <1>2, <2>1 DEF Tasks
<1>4. KernelCfg.dns \in Nat /\ "test" \in Names
  BY <1>3, KernelCfgType DEF SetupInv, Configs, Names
<1>5. PICK t : t = [u EXCEPT !.then = "dns", !.host = "test", !.dns = KernelCfg.dns]
  OBVIOUS
<1>6. t \in Tasks /\ t.job = "test" /\ t.then = "dns"
  <2>1. t = ToName(u, "test", KernelCfg.dns)
    BY <1>5 DEF ToName
  <2> QED
    BY <1>3, <1>4, <2>1, TaskAsks
<1>7. Ready(t) /\ ByGateway(t)
  BY <1>1, <1>2, <1>3, <1>5, <1>6, NoOldDns DEF Ready, Resolve
<1>8. Asking(asked', task', sent', punctual) /\ stack' = stack
  BY <1>7, GatewayAsks
<1>9. punctual => \A i \in DOMAIN rx : rx[i].k # "dns"
  BY <1>1, NoOldDns
<1>10. jobs' \in 0..MaxJobs
  BY <1>1, CardAsItIs
<1> QED
  BY <1>1, <1>8, <1>9, <1>10, AskedMeanwhile

\* A task the main loop starts.
LEMMA StartsIdle ==
  ASSUME SetupInv, Start
  PROVE  /\ task.job = "none" /\ task.wait = "none" /\ UNCHANGED <<rx, acked, punctual, doubles>>
         /\ jobs' \in 0..MaxJobs
         /\ punctual => (\A f \in asked : f.k # "dns") /\ \A i \in DOMAIN rx : rx[i].k # "dns"
<1>1. task.job = "none" /\ jobs < MaxJobs /\ jobs' = jobs + 1 /\ UNCHANGED <<rx, acked, punctual, doubles>>
  BY DEF Start
<1>2. jobs' \in 0..MaxJobs
  <2>1. jobs \in 0..MaxJobs /\ MaxJobs \in Nat
    BY CardAsItIs, NetSetupAssumption
  <2> QED
    BY <1>1, <2>1
<1>3. task.wait = "none"
  BY <1>1 DEF SetupInv, WaitsAreSane
<1> QED
  BY <1>1, <1>2, <1>3, NoOldDns

LEMMA FetchStep ==
  ASSUME SetupInv, NEW host \in Hosts, NEW tls \in BOOLEAN, NEW m \in {"GET", "POST"}, Fetch(host, tls, m)
  PROVE  SetupInv'
<1>1. Start /\ copies.ready /\ copies' = copies
  BY DEF Fetch
<1>2. copies.kernel # {}
  BY <1>1 DEF SetupInv, WaitsAreSane
<1>3. PICK u : u = ParsedUrl(tls, m)
  OBVIOUS
<1>4. u \in Tasks /\ u.job = "fetch" /\ host \in Names
  <2>1. u = [job |-> "fetch", wait |-> "none", then |-> "none", target |-> 0, host |-> "", dst |-> 0,
             tls |-> tls, port |-> IF tls THEN 443 ELSE 80, method |-> m, left |-> 1, dns |-> 0]
    BY <1>3, ZenonT(30) DEF ParsedUrl, Off, Zero
  <2>2. (IF tls THEN 443 ELSE 80) \in {80, 443}
    OBVIOUS
  <2> QED
    BY <2>1, <2>2 DEF Tasks, Names
<1>5. Asking(asked', task', sent', punctual) /\ stack' = stack
  <2>1. CASE InFigures(host)
    <3>1. PICK a : a = Literals[host]
      OBVIOUS
    <3>2. a \in Nat /\ a \in AddressesOf(host)
      BY <2>1, <3>1, NetSetupAssumption DEF InFigures, AddressesOf
    <3>3. PICK t : t = [u EXCEPT !.then = "tcp", !.host = host, !.dst = a]
      OBVIOUS
    <3>a. t = ToPage(u, host, a)
      BY <3>3 DEF ToPage
    <3>4. t \in Tasks /\ t.job = "fetch" /\ t.then = "tcp" /\ t.host = host /\ t.dst = a
      BY <1>4, <3>2, <3>a, TaskAsks
    <3>5. Ready(t) /\ ByGateway(t)
      BY <1>1, <1>3, <2>1, <3>1, <3>2, <3>3, <3>4, StartsIdle DEF Ready, Fetch, AskPage
    <3> QED
      BY <3>5, GatewayAsks
  <2>2. CASE ~InFigures(host)
    <3>1. PICK d : d = KernelCfg.dns
      OBVIOUS
    <3>2. d \in Nat
      BY <1>2, <3>1, KernelCfgType DEF SetupInv, Configs
    <3>3. PICK t : t = [u EXCEPT !.then = "dns", !.host = host, !.dns = d]
      OBVIOUS
    <3>a. t = ToName(u, host, d)
      BY <3>3 DEF ToName
    <3>4. t \in Tasks /\ t.job = "fetch" /\ t.then = "dns"
      BY <1>4, <3>2, <3>a, TaskAsks
    <3>5. Ready(t) /\ ByGateway(t)
      BY <1>1, <1>3, <2>2, <3>1, <3>3, <3>4, StartsIdle DEF Ready, Fetch, Resolve
    <3> QED
      BY <3>5, GatewayAsks
  <2> QED
    BY <2>1, <2>2
<1> QED
  BY <1>1, <1>5, StartsIdle, AskedMeanwhile

LEMMA SendStep ==
  ASSUME SetupInv, NEW dst \in Peers \cup {Broadcast}, SendTo(dst)
  PROVE  SetupInv'
<1>1. Start /\ copies' = copies /\ UdpSend([Off EXCEPT !.job = "udp"], dst)
  BY DEF SendTo
<1>2. dst \in Nat /\ Broadcast \in Nat
  BY NetSetupAssumption DEF Broadcast
<1>3. PICK t : t = [[Off EXCEPT !.job = "udp"] EXCEPT !.then = "udp", !.dst = dst]
  OBVIOUS
<1>4. t \in Tasks /\ t.job = "udp" /\ t.then = "udp" /\ t.dst = dst
  <2>1. t = [job |-> "udp", wait |-> "none", then |-> "udp", target |-> 0, host |-> "", dst |-> dst,
             tls |-> FALSE, port |-> 80, method |-> "GET", left |-> 0, dns |-> 0]
    BY <1>3 DEF Off, Zero
  <2> QED
    BY <1>2, <2>1 DEF Tasks, Names
<1>5. Ready(t)
  BY <1>1, <1>4, StartsIdle DEF Ready
<1>6. Asking(asked', task', sent', punctual) /\ stack' = stack
  <2>1. CASE dst = Broadcast
    BY <1>1, <1>2, <1>3, <1>5, <2>1, OnwardAsks DEF UdpSend
  <2>2. CASE dst # Broadcast /\ SameSubnet(Cfg.ip, dst)
    <3>1. AskArp(t, dst)
      BY <1>1, <1>3, <2>2 DEF UdpSend
    <3> QED
      BY <1>2, <1>4, <1>5, <2>2, <3>1, ArpAsks
  <2>3. CASE dst # Broadcast /\ ~SameSubnet(Cfg.ip, dst)
    <3>1. ByGateway(t)
      BY <1>1, <1>3, <2>3 DEF UdpSend
    <3> QED
      BY <1>5, <3>1, GatewayAsks
  <2> QED
    BY <2>1, <2>2, <2>3
<1> QED
  BY <1>1, <1>6, StartsIdle, AskedMeanwhile

\* The answers that a question waits for.
LEMMA ArpStep ==
  ASSUME SetupInv, TakeArp
  PROVE  SetupInv'
<1>1. task.wait = "arp" /\ rx # <<>> /\ rx' = Tail(rx) /\ UNCHANGED <<copies, acked, punctual, jobs, doubles>>
  BY DEF TakeArp, Waiting
<1> DEFINE Ours == Received.k = "arp" /\ Received.owner = task.target /\ Received.to = Cfg.ip
<1>2. CASE ~Ours
  BY <1>1, <1>2, DropStep DEF TakeArp
<1>3. CASE Ours
  <2>1. /\ Onward(task, Received.owner)
        /\ stack' = IF task.then = "udp" /\ SameSubnet(Cfg.ip, task.dst) THEN stack
                    ELSE [stack EXCEPT !.gw_mac = Received.owner]
    BY <1>3 DEF TakeArp
  <2>2. /\ rx' \in Seq(Frames) /\ \A i \in DOMAIN rx' : i + 1 \in DOMAIN rx /\ rx'[i] = rx[i + 1]
        /\ Received \in Frames
    BY <1>1, RestOfFrames DEF SetupInv
  <2>3. Received.owner \in Nat
    BY <1>3, <2>2, FrameParts
  <2>4. Ready(task)
    <3>1. task.job \notin {"none", "boot"} /\ task.then # "none" /\ (task.job = "test" => copies.kernel # {})
      BY <1>1 DEF SetupInv, WaitsAreSane
    <3>2. punctual => WellAimed(task) /\ \A f \in asked : f.k # "dns"
      BY <1>1, NoOldDns DEF SetupInv, AnswersArePunctual
    <3>3. task \in Tasks
      BY CardAsItIs
    <3>4. task.then \in {"dns", "tcp", "udp"}
      BY <3>1, <3>3 DEF Tasks
    <3> QED
      BY <1>1, <3>1, <3>2, <3>3, <3>4 DEF Ready, WellAimed
  <2>5. Asking(asked', task', sent', punctual')
    BY <1>1, <2>1, <2>3, <2>4, OnwardAsks
  <2>6. stack'.cfg = stack.cfg /\ stack' \in [cfg : SUBSET Configs, gw_mac : Nat]
    <3> DEFINE C == SUBSET Configs
    <3>1. stack \in [cfg : C, gw_mac : Nat]
      BY CardAsItIs
    <3> HIDE DEF C
    <3>2. stack'.cfg = stack.cfg /\ stack' \in [cfg : C, gw_mac : Nat]
      BY <2>1, <2>3, <3>1
    <3> QED
      BY <3>2 DEF C
  <2>7. GatewayIsOurs'
    <3>1. Cfg' = Cfg
      BY <2>6 DEF Cfg
    <3>2. CASE task.then = "udp" /\ SameSubnet(Cfg.ip, task.dst)
      BY <2>1, <3>2, SameStack
    <3>3. CASE ~(task.then = "udp" /\ SameSubnet(Cfg.ip, task.dst))
      <4>1. task.target = Cfg.gw
        BY <1>1, <3>3 DEF SetupInv, WaitsAreSane
      <4>2. stack'.gw_mac = Received.owner
        BY <2>1, <3>3, CardAsItIs
      <4> QED
        BY <1>3, <3>1, <4>1, <4>2 DEF GatewayIsOurs
    <3> QED
      BY <3>2, <3>3
  <2>8. /\ \A i \in DOMAIN rx' : rx'[i].k = "ack" => rx'[i].from \in acked
        /\ punctual' => \A i \in DOMAIN rx' : rx'[i].k # "dns"
    BY <1>1, <2>2, NoOldDns, CardAsItIs, ZenonT(30)
  <2> QED
    BY <1>1, <2>2, <2>5, <2>6, <2>7, <2>8, CardAsItIs, AskedStep
<1> QED
  BY <1>2, <1>3

LEMMA DnsStep ==
  ASSUME SetupInv, TakeDns
  PROVE  SetupInv'
<1>1. task.wait = "dns" /\ rx # <<>> /\ rx' = Tail(rx) /\ UNCHANGED <<copies, acked, punctual, jobs, doubles>>
  BY DEF TakeDns, Waiting
<1> DEFINE Ours == Received.k = "dns" /\ FirstAddress(Received.records) # {}
<1>2. CASE ~Ours
  BY <1>1, <1>2, DropStep DEF TakeDns
<1>3. CASE Ours
  <2>1. PICK a : a = CHOOSE b \in FirstAddress(Received.records) : TRUE
    OBVIOUS
  <2>2. a \in FirstAddress(Received.records)
    BY <1>3, <2>1
  <2>3. /\ rx' \in Seq(Frames) /\ \A i \in DOMAIN rx' : i + 1 \in DOMAIN rx /\ i + 1 # 1 /\ rx'[i] = rx[i + 1]
        /\ 1 \in DOMAIN rx /\ Received = rx[1] /\ Received \in Frames
    BY <1>1, RestOfFrames DEF SetupInv
  <2>4. a \in Nat
    BY <1>3, <2>2, <2>3, FrameParts, FirstAddressIsOne
  <2>5. PICK t : t = [task EXCEPT !.then = "tcp", !.host = task.host, !.dst = a]
    OBVIOUS
  <2>6. t \in Tasks /\ t.job = task.job /\ t.then = "tcp" /\ t.host = task.host /\ t.dst = a
    <3>1. task \in Tasks
      BY CardAsItIs
    <3>2. PICK h \in Names : h = task.host
      BY <3>1 DEF Tasks
    <3>3. t = ToPage(task, h, a)
      BY <2>5, <3>2 DEF ToPage
    <3> QED
      BY <2>4, <3>1, <3>2, <3>3, TaskAsks
  <2>7. ByGateway(t)
    BY <1>3, <2>1, <2>5 DEF TakeDns, AskPage
  <2>8. punctual => /\ task.host \in DOMAIN Records /\ Received.records = Records[task.host]
                    /\ \A f \in asked : f.k # "dns"
                    /\ \A i \in DOMAIN rx : rx[i].k = "dns" => 1 = i
    BY <1>3, <2>3 DEF SetupInv, AnswersArePunctual, OwnDns
  <2>9. punctual => a \in AddressesOf(task.host)
    BY <2>2, <2>8, NamesAddress
  <2>10. task.job \notin {"none", "boot"} /\ (task.job = "test" => copies.kernel # {})
    BY <1>1 DEF SetupInv, WaitsAreSane
  <2>11. Ready(t)
    BY <2>6, <2>8, <2>9, <2>10 DEF Ready
  <2>12. Asking(asked', task', sent', punctual') /\ stack' = stack
    BY <1>1, <2>7, <2>11, GatewayAsks
  <2>13. /\ \A i \in DOMAIN rx' : rx'[i].k = "ack" => rx'[i].from \in acked
         /\ punctual' => \A i \in DOMAIN rx' : rx'[i].k # "dns"
    BY <1>1, <2>3, <2>8, CardAsItIs, ZenonT(30)
  <2> QED
    BY <1>1, <2>3, <2>12, <2>13, SameStack, CardAsItIs, AskedStep
<1> QED
  BY <1>2, <1>3

\* The end of a request, and the redirect it may follow.
LEMMA OffAsks ==
  ASSUME SetupInv, NEW p \in BOOLEAN, p => punctual /\ \A f \in asked : f.k # "dns"
  PROVE  Asking(asked, Off, sent, p)
<1>1. WellAimed(Off)
  BY OffIsTask DEF WellAimed
<1> QED
  BY <1>1, OffIsTask, CardAsItIs DEF Asking

LEMMA ReplyStep ==
  ASSUME SetupInv, TakeReply
  PROVE  SetupInv'
<1>1. /\ task.wait = "tcp" /\ rx' = <<>> /\ UNCHANGED <<copies, acked, punctual, jobs, doubles>>
      /\ End \/ \E l \in Locations : Follow(l)
  BY DEF TakeReply
<1>2. /\ task \in Tasks /\ task.job \notin {"none", "boot"} /\ (task.job = "test" => copies.kernel # {})
      /\ punctual => WellAimed(task) /\ \A f \in asked : f.k # "dns"
  BY <1>1, CardAsItIs, NoOldDns DEF SetupInv, WaitsAreSane, AnswersArePunctual
<1>3. End => Asking(asked', task', sent', punctual) /\ stack' = stack
  <2> SUFFICES ASSUME End PROVE Asking(asked', task', sent', punctual) /\ stack' = stack
    OBVIOUS
  <2>1. task' = Off /\ UNCHANGED <<stack, asked, sent>>
    BY DEF End
  <2>2. Asking(asked, Off, sent, punctual)
    BY <1>2, OffAsks, CardAsItIs
  <2> QED
    BY <2>1, <2>2
<1>4. ASSUME NEW l \in Locations, Follow(l)
      PROVE  Asking(asked', task', sent', punctual) /\ stack' = stack
  <2>1. PICK u : u = [task EXCEPT !.left = 0]
    OBVIOUS
  <2>2. u \in Tasks /\ u.job = task.job
    BY <1>2, <2>1 DEF Tasks
  <2>3. CASE task.left = 0 \/ (Preserve(task.method) /\ ~l.keep)
    <3>1. ~(task.left > 0 /\ (Preserve(task.method) => l.keep))
      <4>1. task.left = 0 => ~(task.left > 0)
        OBVIOUS
      <4> QED
        BY <2>3, <4>1, Zenon
    <3>2. End
      BY <1>4, <2>3, <3>1, Zenon DEF Follow
    <3> QED
      BY <1>3, <3>2
  <2>4. CASE ~(task.left = 0 \/ (Preserve(task.method) /\ ~l.keep)) /\ l.host = ""
    <3>1. task.left > 0 /\ (Preserve(task.method) => l.keep)
      <4>1. task.left \in {0, 1}
        BY <1>2 DEF Tasks
      <4>2. task.left # 0 /\ (Preserve(task.method) => l.keep)
        BY <2>4, Zenon
      <4>3. task.left > 0
        BY <4>1, <4>2
      <4> QED
        BY <4>2, <4>3, Zenon
    <3>2. AskPage(u, task.host, task.dst)
      BY <1>4, <2>1, <2>4, <3>1 DEF Follow
    <3>3. PICK h \in Names : h = task.host
      BY <1>2 DEF Tasks
    <3>4. PICK a \in Nat : a = task.dst
      BY <1>2 DEF Tasks
    <3>5. PICK t : t = ToPage(u, h, a)
      OBVIOUS
    <3>6. t \in Tasks /\ t.job = task.job /\ t.then = "tcp" /\ t.host = task.host /\ t.dst = task.dst
      BY <2>2, <3>3, <3>4, <3>5, TaskAsks
    <3>7. ByGateway(t)
      BY <3>2, <3>3, <3>4, <3>5 DEF AskPage, ToPage
    <3>8. Ready(t)
      BY <1>1, <1>2, <3>6 DEF Ready, WellAimed
    <3> QED
      BY <3>7, <3>8, GatewayAsks
  <2>5. CASE ~(task.left = 0 \/ (Preserve(task.method) /\ ~l.keep)) /\ l.host # ""
    <3>1. PICK v : v = [u EXCEPT !.port = IF l.tls THEN 443 ELSE 80]
      OBVIOUS
    <3>2. v \in Tasks /\ v.job = task.job
      <4>1. (IF l.tls THEN 443 ELSE 80) \in {80, 443}
        OBVIOUS
      <4> QED
        BY <2>2, <3>1, <4>1 DEF Tasks
    <3>3. Resolve(v, l.host, Cfg.dns)
      BY <1>4, <2>1, <2>5, <3>1 DEF Follow
    <3>4. PICK h \in Names : h = l.host
      <4>1. l.host \in Hosts \cup {""}
        BY DEF Locations
      <4> QED
        BY <4>1 DEF Names
    <3>5. PICK a \in Nat : a = Cfg.dns
      BY CfgType DEF SetupInv
    <3>6. PICK t : t = ToName(v, h, a)
      OBVIOUS
    <3>7. t \in Tasks /\ t.job = task.job /\ t.then = "dns"
      BY <3>2, <3>4, <3>5, <3>6, TaskAsks
    <3>8. ByGateway(t)
      BY <3>3, <3>4, <3>5, <3>6 DEF Resolve, ToName
    <3>9. Ready(t)
      BY <1>2, <3>7 DEF Ready
    <3> QED
      BY <3>8, <3>9, GatewayAsks
  <2> QED
    BY <2>3, <2>4, <2>5
<1>5. Asking(asked', task', sent', punctual') /\ stack' = stack
  BY <1>1, <1>3, <1>4
<1>6. rx' \in Seq(Frames) /\ \A i \in DOMAIN rx' : FALSE
  BY <1>1
<1> QED
  BY <1>1, <1>5, <1>6, SameStack, CardAsItIs, AskedStep

\* A wait that ends without an answer.
LEMMA GiveUpStep ==
  ASSUME SetupInv, GiveUp
  PROVE  SetupInv'
<1>1. /\ task' = Off /\ punctual' = (punctual /\ task.wait # "dns")
      /\ UNCHANGED <<stack, asked, sent, copies, rx, acked, jobs, doubles>>
  BY DEF GiveUp, End
<1>2. PICK p \in BOOLEAN : p = (punctual /\ task.wait # "dns")
  BY CardAsItIs
<1>3. p => punctual /\ (\A f \in asked : f.k # "dns") /\ \A i \in DOMAIN rx : rx[i].k # "dns"
  BY <1>2, NoOldDns
<1>4. Asking(asked, Off, sent, p)
  BY <1>3, OffAsks
<1>5. punctual' = p
  BY <1>1, <1>2
<1>6. Asking(asked', task', sent', punctual')
  BY <1>1, <1>4, <1>5
<1>7. punctual' => \A i \in DOMAIN rx' : rx'[i].k # "dns"
  BY <1>1, <1>3, <1>5
<1>8. punctual' \in BOOLEAN
  BY <1>5
<1> QED
  BY <1>1, <1>6, <1>7, <1>8, SameStack, CardAsItIs, AskedStep

\* A frame comes into the card, once or twice.
LEMMA ArriveStep ==
  ASSUME SetupInv, NEW f \in asked, Arrive(f)
  PROVE  SetupInv'
<1>1. rx' = Append(rx, f) /\ UNCHANGED <<stack, copies, task, sent, acked, jobs>>
  BY DEF Arrive
<1>2. f \in Frames /\ rx \in Seq(Frames)
  BY CardAsItIs
<1>3. /\ rx' \in Seq(Frames) /\ DOMAIN rx' = 1..(Len(rx) + 1) /\ DOMAIN rx = 1..Len(rx) /\ Len(rx) \in Nat
      /\ \A i \in DOMAIN rx' : rx'[i] = IF i = Len(rx) + 1 THEN f ELSE rx[i]
  <2> DEFINE F == Frames
  <2>1. f \in F /\ rx \in Seq(F)
    BY <1>2
  <2> HIDE DEF F
  <2>2. /\ rx' \in Seq(F) /\ DOMAIN rx' = 1..(Len(rx) + 1) /\ DOMAIN rx = 1..Len(rx) /\ Len(rx) \in Nat
        /\ \A i \in 1..(Len(rx) + 1) : rx'[i] = IF i = Len(rx) + 1 THEN f ELSE rx[i]
    BY <1>1, <2>1
  <2> QED
    BY <2>2 DEF F
<1>4. \A i \in DOMAIN rx' : i = Len(rx) + 1 \/ i \in DOMAIN rx
  BY <1>3
<1>5. /\ asked' \subseteq asked /\ doubles' \in 0..MaxDoubles /\ punctual' \in BOOLEAN /\ (punctual' => punctual)
      /\ punctual' => f.k # "dns" \/ asked' = asked \ {f}
  <2>1. CASE asked' = asked \ {f} /\ UNCHANGED <<punctual, doubles>>
    BY <2>1, CardAsItIs
  <2>2. CASE doubles < MaxDoubles /\ doubles' = doubles + 1 /\ asked' = asked /\ punctual' = (punctual /\ f.k # "dns")
    <3>1. doubles' \in 0..MaxDoubles
      <4>1. doubles \in 0..MaxDoubles /\ MaxDoubles \in Nat
        BY CardAsItIs, NetSetupAssumption
      <4> QED
        BY <2>2, <4>1
    <3>2. punctual' \in BOOLEAN /\ (punctual' => punctual /\ f.k # "dns")
      BY <2>2
    <3> QED
      BY <2>2, <3>1, <3>2
  <2> QED
    BY <2>1, <2>2 DEF Arrive
<1>6. SetupTypeOK'
  BY <1>1, <1>3, <1>5 DEF SetupInv, SetupTypeOK
<1>7. Cfg' = Cfg
  BY <1>1 DEF Cfg
<1>8. SetupIsOurs'
  BY <1>1, <1>5, <1>7 DEF SetupInv, SetupIsOurs, GatewayIsOurs, AddressWasAcked, RequestsReachTheNamed
<1>9. WaitsAreSane'
  BY <1>1, <1>7 DEF SetupInv, WaitsAreSane
<1>10. AcksAreOwn'
  BY <1>1, <1>3, <1>4, <1>5 DEF SetupInv, AcksAreOwn
<1>11. AnswersArePunctual'
  <2> SUFFICES ASSUME punctual' PROVE AnswersArePunctual'
    BY DEF AnswersArePunctual
  <2>1. /\ punctual /\ WellAimed(task)
        /\ \A g \in asked : g.k = "dns" => OwnDns(task, g) /\ \A i \in DOMAIN rx : rx[i].k # "dns"
        /\ \A i \in DOMAIN rx : rx[i].k = "dns" =>
             OwnDns(task, rx[i]) /\ \A j \in DOMAIN rx : rx[j].k = "dns" => i = j
    BY <1>5 DEF SetupInv, AnswersArePunctual
  <2>2. CASE f.k # "dns"
    <3>1. \A i \in DOMAIN rx' : rx'[i].k = "dns" => i \in DOMAIN rx /\ rx'[i] = rx[i]
      BY <1>3, <1>4, <2>2
    <3> QED
      BY <1>1, <1>5, <2>1, <3>1 DEF AnswersArePunctual
  <2>3. CASE f.k = "dns"
    <3>1. OwnDns(task, f) /\ \A i \in DOMAIN rx : rx[i].k # "dns"
      BY <2>1, <2>3
    <3>2. asked' = asked \ {f}
      BY <1>5, <2>3
    <3>3. ASSUME NEW g \in asked', g.k = "dns" PROVE FALSE
      <4>1. g \in Frames /\ OwnDns(task, g) /\ g # f
        BY <2>1, <3>2, <3>3, CardAsItIs
      <4>2. g.records = f.records
        BY <3>1, <4>1 DEF OwnDns
      <4>3. g = [k |-> "dns", records |-> g.records]
        BY <3>3, <4>1 DEF Frames
      <4>4. f = [k |-> "dns", records |-> f.records]
        BY <1>2, <2>3 DEF Frames
      <4> QED
        BY <4>1, <4>2, <4>3, <4>4
    <3>4. \A i \in DOMAIN rx' : rx'[i].k = "dns" => i = Len(rx) + 1 /\ rx'[i] = f
      BY <1>3, <1>4, <3>1
    <3> QED
      BY <1>1, <2>1, <3>1, <3>3, <3>4 DEF AnswersArePunctual
  <2> QED
    BY <2>2, <2>3
<1> QED
  BY <1>6, <1>8, <1>9, <1>10, <1>11 DEF SetupInv

\* A cable in place of the network: the gateway of before is forgotten.
LEMMA DirectStep ==
  ASSUME SetupInv, Direct
  PROVE  SetupInv'
<1> DEFINE c == [ip |-> DirectTo, gw |-> Zero, dns |-> Zero]
<1>1. /\ Start /\ stack' = [cfg |-> {c}, gw_mac |-> NoMac] /\ copies' = [copies EXCEPT !.lconnect = {c}]
      /\ UNCHANGED <<asked, task, sent>>
  BY DEF Direct, SetCfg
<1>2. c \in Configs
  BY NetSetupAssumption DEF Configs, Zero
<1> HIDE DEF c
<1>3. /\ task.job = "none" /\ task.wait = "none" /\ UNCHANGED <<rx, acked, punctual, doubles>>
      /\ jobs' \in 0..MaxJobs
  BY <1>1, StartsIdle
<1>4. stack' \in [cfg : SUBSET Configs, gw_mac : Nat] /\ stack'.gw_mac = NoMac
  BY <1>1, <1>2 DEF NoMac
<1>5. /\ copies' \in [kernel : SUBSET Configs, oslink : SUBSET Configs, lconnect : SUBSET Configs,
                      net : BOOLEAN, ready : BOOLEAN]
      /\ copies'.kernel = copies.kernel /\ copies'.ready = copies.ready
  <2> DEFINE C == SUBSET Configs
  <2>1. copies \in [kernel : C, oslink : C, lconnect : C, net : BOOLEAN, ready : BOOLEAN] /\ {c} \in C
    BY <1>2 DEF SetupInv, SetupTypeOK
  <2> HIDE DEF C
  <2>2. /\ copies' \in [kernel : C, oslink : C, lconnect : C, net : BOOLEAN, ready : BOOLEAN]
        /\ copies'.kernel = copies.kernel /\ copies'.ready = copies.ready
    BY <1>1, <2>1
  <2> QED
    BY <2>2 DEF C
<1>6. SetupTypeOK'
  BY <1>1, <1>3, <1>4, <1>5 DEF SetupInv, SetupTypeOK
<1>7. SetupIsOurs'
  BY <1>1, <1>3, <1>4, <1>5 DEF SetupInv, SetupIsOurs, GatewayIsOurs, AddressWasAcked, RequestsReachTheNamed
<1>8. WaitsAreSane'
  BY <1>1, <1>3, <1>4, <1>5 DEF SetupInv, WaitsAreSane
<1>9. AcksAreOwn' /\ AnswersArePunctual'
  BY <1>1, <1>3 DEF SetupInv, AcksAreOwn, AnswersArePunctual, WellAimed, OwnDns
<1> QED
  BY <1>6, <1>7, <1>8, <1>9 DEF SetupInv

LEMMA SetupInitInv == SetupInit => SetupInv
<1> SUFFICES ASSUME SetupInit PROVE SetupInv
  OBVIOUS
<1>1. /\ stack = [cfg |-> {}, gw_mac |-> NoMac]
      /\ copies = [kernel |-> {}, oslink |-> {}, lconnect |-> {}, net |-> FALSE, ready |-> FALSE]
      /\ rx = <<>> /\ asked = {} /\ task = [Off EXCEPT !.job = "boot"]
      /\ sent = {} /\ acked = {} /\ punctual = TRUE /\ jobs = 0 /\ doubles = 0
  BY DEF SetupInit
<1>2. task \in Tasks /\ task.job = "boot" /\ task.wait = "none"
  BY <1>1, OffIsTask DEF Tasks
<1>3. SetupTypeOK
  <2>1. jobs \in 0..MaxJobs /\ doubles \in 0..MaxDoubles
    BY <1>1, NetSetupAssumption
  <2>2. stack \in [cfg : SUBSET Configs, gw_mac : Nat]
    BY <1>1 DEF NoMac
  <2>3. copies \in [kernel : SUBSET Configs, oslink : SUBSET Configs, lconnect : SUBSET Configs,
                    net : BOOLEAN, ready : BOOLEAN]
    BY <1>1
  <2> QED
    BY <1>1, <1>2, <2>1, <2>2, <2>3 DEF SetupTypeOK
<1>4. SetupIsOurs
  BY <1>1 DEF SetupIsOurs, GatewayIsOurs, AddressWasAcked, RequestsReachTheNamed
<1>5. WaitsAreSane
  BY <1>1, <1>2 DEF WaitsAreSane
<1>6. AcksAreOwn /\ AnswersArePunctual
  <2>1. asked = {} /\ \A i \in DOMAIN rx : FALSE
    BY <1>1
  <2>2. WellAimed(task)
    BY <1>2 DEF WellAimed
  <2> QED
    BY <2>1, <2>2 DEF AcksAreOwn, AnswersArePunctual
<1> QED
  BY <1>3, <1>4, <1>5, <1>6 DEF SetupInv

LEMMA SetupStep == SetupInv /\ [SetupNext]_setupVars => SetupInv'
<1> SUFFICES ASSUME SetupInv, [SetupNext]_setupVars PROVE SetupInv'
  OBVIOUS
<1>1. CASE UNCHANGED setupVars
  <2>1. UNCHANGED <<stack, copies, rx, asked, task, sent, acked, punctual, jobs, doubles>>
    BY <1>1 DEF setupVars
  <2>2. Cfg' = Cfg
    BY <2>1 DEF Cfg
  <2>3. SetupTypeOK' /\ SetupIsOurs'
    BY <2>1, <2>2 DEF SetupInv, SetupTypeOK, SetupIsOurs, GatewayIsOurs, AddressWasAcked, RequestsReachTheNamed
  <2>4. WaitsAreSane' /\ AcksAreOwn'
    BY <2>1, <2>2 DEF SetupInv, WaitsAreSane, AcksAreOwn
  <2>5. AnswersArePunctual'
    BY <2>1 DEF SetupInv, AnswersArePunctual, WellAimed, OwnDns
  <2> QED
    BY <2>3, <2>4, <2>5 DEF SetupInv
<1>2. CASE SetupNext
  <2>1. CASE ThrowAway
    BY <2>1, DropStep DEF ThrowAway
  <2>2. CASE Boot \/ TakeOffer \/ TakeAck \/ Test
    BY <2>2, BootAsks, OfferStep, AckStep, TestStep
  <2>3. CASE TakeArp \/ TakeDns \/ TakeReply \/ GiveUp \/ Direct
    BY <2>3, ArpStep, DnsStep, ReplyStep, GiveUpStep, DirectStep
  <2> QED
    BY <1>2, <2>1, <2>2, <2>3, ArriveStep, FetchStep, SendStep DEF SetupNext
<1> QED
  BY <1>1, <1>2

\* The tables, frames and waits of the set-up are of their kinds in every
\* reachable state (net.c, boot_network_start).
THEOREM SetupTypeCorrect == SetupSpec => []SetupTypeOK
<1>1. SetupInv => SetupTypeOK
  BY DEF SetupInv
<1> QED
  BY <1>1, SetupInitInv, SetupStep, PTL DEF SetupSpec

\* The address and the gateway come from one server that granted them, and a
\* request goes to the machine its name stands for, for any servers, stations,
\* names and redirects (net_dhcp, arp_resolve, net_dns_a, net_http_request).
THEOREM SetupIsOursHolds == SetupSpec => []SetupIsOurs
<1>1. SetupInv => SetupIsOurs
  BY DEF SetupInv
<1> QED
  BY <1>1, SetupInitInv, SetupStep, PTL DEF SetupSpec
=============================================================================
