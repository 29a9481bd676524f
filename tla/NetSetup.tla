------------------------------ MODULE NetSetup ------------------------------
(***************************************************************************)
(* How the machine gets an address, finds the gateway and turns names into *)
(* addresses: net_dhcp, arp_resolve, net_dns_a, net_udp_send and the       *)
(* requests of the browser with their one redirect (src/os/kernel/net.c),  *)
(* boot_network_start and the fetch of the main loop (kernel64.c), and the *)
(* `lconnect direct` command (lconnect.c).  Each of them sends a question  *)
(* and polls the card for its answer; a frame that does not answer is      *)
(* thrown away, and nothing else of the system runs meanwhile.             *)
(*                                                                         *)
(* An address is 10 * network + station, and a station's card is named by  *)
(* its address.  Frames are answered now, late, twice or never.            *)
(***************************************************************************)
EXTENDS Naturals, Sequences, FiniteSets

CONSTANTS
  Servers,     \* DHCP servers: [ip |-> what it hands out, gw, dns |-> its options, {} if it sends none]
  Stations,    \* the addresses that answer ARP
  Routers,     \* of those, the ones that forward
  Resolvers,   \* the addresses that answer DNS through a router
  Records,     \* of each name, the records of its answer: an address, or Alias
  Literals,    \* of each host that is an address in figures, the address
  Defaults,    \* [ip, gw]: what the code falls back on
  DirectTo,    \* the address of `lconnect direct`
  Peers,       \* where LardConnect and OSLink send
  RxMax,       \* frames the card holds
  MaxJobs,     \* bounds the fetches, sends and commands
  MaxDoubles   \* bounds the frames that come twice

Zero == 0
Alias == 0
Broadcast == 255
NoMac == 0
Hosts == DOMAIN Records \cup DOMAIN Literals

ASSUME NetSetupAssumption ==
  /\ \A s \in Servers : s.ip \in Nat /\ s.gw \subseteq Nat /\ s.dns \subseteq Nat
  /\ Stations \cup Peers \cup {DirectTo, Defaults.ip, Defaults.gw} \subseteq Nat
  /\ Records \in [DOMAIN Records -> Seq(Nat)] /\ Literals \in [DOMAIN Literals -> Nat]
  /\ DOMAIN Records \cap DOMAIN Literals = {}
  /\ Routers \subseteq Stations /\ Zero \notin Stations
  /\ \A s \in Servers : Cardinality(s.gw) < 2 /\ Cardinality(s.dns) < 2
  /\ RxMax \in Nat \ {0} /\ {MaxJobs, MaxDoubles} \subseteq Nat

VARIABLES
  stack,     \* the stack: its configuration, {} if not cfg_valid, and gw_mac
  copies,    \* the configuration as s_cfg, OSLink and LardConnect have it, and s_net_ready
  rx,        \* the frames in the card
  asked,     \* the answers under way
  task,      \* what runs, and which wait it is in
  sent,      \* the last request: to which host, which address, which card
  acked,     \* the servers that gave the machine their address
  punctual,  \* no DNS answer came late or twice so far
  jobs,      \* how many were started
  doubles    \* how many frames came twice

setupVars == <<stack, copies, rx, asked, task, sent, acked, punctual, jobs, doubles>>

Off == [job |-> "none", wait |-> "none", then |-> "none", target |-> Zero, host |-> "", dst |-> Zero,
        tls |-> FALSE, port |-> 80, method |-> "GET", left |-> 0, dns |-> Zero]

Cfg == IF stack.cfg = {} THEN [ip |-> Defaults.ip, gw |-> Defaults.gw, dns |-> Zero]
       ELSE CHOOSE c \in stack.cfg : TRUE
KernelCfg == CHOOSE c \in copies.kernel : TRUE
SameSubnet(a, b) == a \div 10 = b \div 10

SetupInit ==
  /\ stack = [cfg |-> {}, gw_mac |-> NoMac]
  /\ copies = [kernel |-> {}, oslink |-> {}, lconnect |-> {}, net |-> FALSE, ready |-> FALSE]
  /\ rx = <<>> /\ asked = {} /\ task = [Off EXCEPT !.job = "boot"]
  /\ sent = {} /\ acked = {} /\ punctual = TRUE /\ jobs = 0 /\ doubles = 0

-----------------------------------------------------------------------------
(* Questions *)

\* arp_resolve: only the station itself answers.
ArpAnswers(target) == {[k |-> "arp", owner |-> o, to |-> Cfg.ip] : o \in Stations \cap {target}}

\* The message goes to the router, and on to the resolver.
DnsAnswers(mac, t) ==
  IF mac \in Routers /\ t.dns \in Resolvers /\ t.host \in DOMAIN Records
    THEN {[k |-> "dns", records |-> Records[t.host]]} ELSE {}

AskArp(t, target) ==
  /\ asked' = asked \cup ArpAnswers(target)
  /\ task' = [t EXCEPT !.wait = "arp", !.target = target] /\ UNCHANGED <<stack, sent>>

\* build_http_request: the header names the host.
BuildRequest(t, mac) == [host |-> t.host, ip |-> t.dst, mac |-> mac, tls |-> t.tls, port |-> t.port]

\* What follows once the card to send to is known.
Onward(t, mac) ==
  CASE t.then = "dns" ->
         asked' = asked \cup DnsAnswers(mac, t) /\ task' = [t EXCEPT !.wait = "dns"] /\ UNCHANGED sent
    [] t.then = "tcp" ->
         /\ sent' = {BuildRequest(t, mac)}
         /\ task' = [t EXCEPT !.wait = "tcp"] /\ UNCHANGED asked
    [] t.then = "udp" ->
         /\ sent' = {[host |-> "", ip |-> t.dst, mac |-> mac, tls |-> FALSE, port |-> 0]}
         /\ task' = Off /\ UNCHANGED asked

\* net_dns_a and net_sock_connect: by the gateway, whose card is remembered.
ByGateway(t) ==
  IF stack.gw_mac # NoMac THEN Onward(t, stack.gw_mac) /\ UNCHANGED stack ELSE AskArp(t, Cfg.gw)

Resolve(t, host, dns) == ByGateway([t EXCEPT !.then = "dns", !.host = host, !.dns = dns])
AskPage(t, host, dst) == ByGateway([t EXCEPT !.then = "tcp", !.host = host, !.dst = dst])

\* net_udp_send: to the station itself if it is near.
UdpSend(t, dst) ==
  LET u == [t EXCEPT !.then = "udp", !.dst = dst]
  IN  CASE dst = Broadcast -> Onward(u, Broadcast) /\ UNCHANGED stack
        [] dst # Broadcast /\ SameSubnet(Cfg.ip, dst) -> AskArp(u, dst)
        [] OTHER -> ByGateway(u)

-----------------------------------------------------------------------------
(* The network *)

Arrive(f) ==
  /\ Len(rx) < RxMax /\ rx' = Append(rx, f)
  /\ \/ asked' = asked \ {f} /\ UNCHANGED <<punctual, doubles>>
     \/ /\ doubles < MaxDoubles /\ doubles' = doubles + 1
        /\ UNCHANGED asked /\ punctual' = (punctual /\ f.k # "dns")
  /\ UNCHANGED <<stack, copies, task, sent, acked, jobs>>

Waiting(w) == task.wait = w /\ rx # <<>> /\ rx' = Tail(rx)
Received == Head(rx)

-----------------------------------------------------------------------------
(* Boot: net_dhcp and what follows it *)

\* dhcp_parse: the options, and what is assumed where the server sends none.
DhcpParse(s) ==
  LET gw == IF s.gw = {} THEN Defaults.gw ELSE CHOOSE g \in s.gw : TRUE
  IN  [ip |-> s.ip, gw |-> gw, dns |-> IF s.dns = {} THEN gw ELSE CHOOSE d \in s.dns : TRUE]

\* boot_network_start: net_init, unless there is no card, and the DISCOVER.
Boot ==
  /\ task.job = "boot" /\ task.wait = "none"
  /\ \/ task' = Off /\ UNCHANGED <<copies, asked>>
     \/ /\ copies' = [copies EXCEPT !.net = TRUE]
        /\ asked' = asked \cup {[k |-> "offer", from |-> s] : s \in Servers}
        /\ task' = [task EXCEPT !.wait = "offer"]
  /\ UNCHANGED <<stack, rx, sent, acked, punctual, jobs, doubles>>

\* The REQUEST names the address and not the server: the others refuse it.
TakeOffer ==
  /\ Waiting("offer")
  /\ IF Received.k = "offer"
       THEN LET s == Received.from
            IN  /\ asked' = asked \cup {[k |-> "ack", from |-> s]}
                                  \cup {[k |-> "nak", from |-> o] : o \in Servers \ {s}}
                /\ acked' = acked \cup {s}
                /\ task' = [task EXCEPT !.wait = "ack"]
       ELSE UNCHANGED <<asked, acked, task>>
  /\ UNCHANGED <<stack, copies, sent, punctual, jobs, doubles>>

\* oslink_init and lconnect_set_cfg take copies of their own.
Configured(c) == [kernel |-> {c}, oslink |-> {c}, lconnect |-> {c}, net |-> TRUE, ready |-> TRUE]

\* A bug to catch: the second wait takes any message of a server.
AnyMessage == Received.k \in {"offer", "ack", "nak"}

IsAck == Received.k = "ack"

TakeAck ==
  /\ Waiting("ack")
  /\ IF IsAck
       THEN LET c == DhcpParse(Received.from)
            IN  /\ stack' = [stack EXCEPT !.cfg = {c}]
                /\ copies' = Configured(c)
                /\ task' = [Off EXCEPT !.job = "test"]
                /\ asked' = {}  \* no later wait takes what a server sends
       ELSE UNCHANGED <<stack, copies, task, asked>>
  /\ UNCHANGED <<sent, acked, punctual, jobs, doubles>>

\* The rest of boot_network_start: a name is looked up and its page fetched.
Test ==
  /\ task.job = "test" /\ task.wait = "none"
  /\ Resolve([task EXCEPT !.left = 1], "test", KernelCfg.dns)
  /\ UNCHANGED <<copies, rx, acked, punctual, jobs, doubles>>

-----------------------------------------------------------------------------
(* Answers *)

\* arp_resolve looks at both addresses of the answer.
TakeArp ==
  /\ Waiting("arp")
  /\ IF Received.k = "arp" /\ Received.owner = task.target /\ Received.to = Cfg.ip
       THEN /\ Onward(task, Received.owner)
            /\ stack' = IF task.then = "udp" /\ SameSubnet(Cfg.ip, task.dst) THEN stack
                      ELSE [stack EXCEPT !.gw_mac = Received.owner]
       ELSE UNCHANGED <<stack, asked, task, sent>>
  /\ UNCHANGED <<copies, acked, punctual, jobs, doubles>>

\* A bug to catch: the type of a record is not looked at.
FirstRecord(records) == {records[i] : i \in 1 .. Len(records)} \cap {Head(records)}

\* net_dns_a: the first record of the answer that is an address, if any.
FirstAddress(records) ==
  {records[i] : i \in {i \in DOMAIN records :
                         records[i] # Alias /\ \A j \in 1..(i - 1) : records[j] = Alias}}

\* Every question has the same id and port, and the name is not compared.
TakeDns ==
  /\ Waiting("dns")
  /\ IF Received.k = "dns" /\ FirstAddress(Received.records) # {}
       THEN AskPage(task, task.host, CHOOSE a \in FirstAddress(Received.records) : TRUE)
       ELSE UNCHANGED <<stack, asked, task, sent>>
  /\ UNCHANGED <<copies, acked, punctual, jobs, doubles>>

-----------------------------------------------------------------------------
(* Requests: net_http_request and net_https_request *)

\* http_method_redirect_needs_preserve
Preserve(method) == method # "GET"

End == task' = Off /\ UNCHANGED <<stack, asked, sent>>

\* The redirect of an answer; earlier frames are dropped.  `keep` is status 307
\* or 308.  It is not followed for a method with a body unless the status says
\* so, nor a second time; its scheme gives the port, and nothing else.
Follow(l) ==
  LET t == [task EXCEPT !.left = 0]
  IN  CASE task.left = 0 \/ (Preserve(task.method) /\ ~l.keep) -> End
        [] task.left > 0 /\ (Preserve(task.method) => l.keep) /\ l.host = "" ->
             AskPage(t, task.host, task.dst)
        [] OTHER -> Resolve([t EXCEPT !.port = IF l.tls THEN 443 ELSE 80], l.host, Cfg.dns)

Locations == [host : Hosts \cup {""}, tls : BOOLEAN, keep : BOOLEAN]

\* A request over TLS fails once it is sent: what lard_tls_write returns is
\* taken for an error.
TakeReply ==
  /\ task.wait = "tcp" /\ sent # {} /\ rx' = <<>>
  /\ \A s \in sent : s.mac \in Routers
  /\ End \/ (~task.tls /\ \E l \in Locations : Follow(l))
  /\ UNCHANGED <<copies, acked, punctual, jobs, doubles>>

\* The tries run out.
GiveUp ==
  /\ task.wait # "none" /\ End
  /\ punctual' = (punctual /\ task.wait # "dns")
  /\ UNCHANGED <<copies, rx, acked, jobs, doubles>>

-----------------------------------------------------------------------------
(* What the main loop starts *)

Start == task.job = "none" /\ jobs < MaxJobs /\ jobs' = jobs + 1 /\ UNCHANGED <<rx, acked, punctual, doubles>>

\* parse_url, and parse_ipv4_host.
ParsedUrl(tls, method) == [Off EXCEPT !.job = "fetch", !.tls = tls, !.port = IF tls THEN 443 ELSE 80, !.method = method, !.left = 1]
InFigures(host) == host \in DOMAIN Literals

\* A submitted URL: an address in figures needs no name service.
Fetch(host, tls, method) ==
  /\ Start /\ copies.ready
  /\ LET t == ParsedUrl(tls, method)
     IN  IF InFigures(host) THEN AskPage(t, host, Literals[host])
         ELSE Resolve(t, host, KernelCfg.dns)
  /\ UNCHANGED copies

\* send_packet of lconnect.c and oslink.c.
SendTo(dst) == Start /\ stack.cfg # {} /\ UdpSend([Off EXCEPT !.job = "udp"], dst) /\ UNCHANGED copies

\* A bug to catch: the card of the gateway before is kept.
SetCfgOnly(c) == stack' = [stack EXCEPT !.cfg = {c}]

\* net_set_cfg
SetCfg(c) == stack' = [cfg |-> {c}, gw_mac |-> NoMac]

\* lconnect_direct: there is no gateway and no name service on the cable.
Direct ==
  /\ Start /\ copies.net
  /\ LET c == [ip |-> DirectTo, gw |-> Zero, dns |-> Zero]
     IN  SetCfg(c) /\ copies' = [copies EXCEPT !.lconnect = {c}]
  /\ UNCHANGED <<asked, task, sent>>

\* net_udp_poll of the main loop drops what is not for OSLink or LardConnect.
ThrowAway == task.job = "none" /\ rx # <<>> /\ rx' = Tail(rx) /\ UNCHANGED <<stack, copies, asked, task, sent, acked, punctual, jobs, doubles>>

SetupNext ==
  \/ Boot \/ TakeOffer \/ TakeAck \/ Test \/ TakeArp \/ TakeDns \/ TakeReply \/ GiveUp \/ ThrowAway \/ Direct
  \/ \E f \in asked : Arrive(f)
  \/ \E h \in Hosts, tls \in BOOLEAN, m \in {"GET", "POST"} : Fetch(h, tls, m)
  \/ \E p \in Peers \cup {Broadcast} : SendTo(p)

SetupSpec == SetupInit /\ [][SetupNext]_setupVars

-----------------------------------------------------------------------------
(* Properties *)

\* The card remembered for the gateway is that of the gateway of the
\* configuration in force, whatever answers were late and however often the
\* configuration changed.
GatewayIsOurs == stack.gw_mac # NoMac => stack.gw_mac = Cfg.gw

\* The address the system goes by was asked of a server and granted by it,
\* however the offers of several servers come.
AddressWasAcked == \A c \in copies.kernel : \E s \in acked : c = DhcpParse(s)

\* A request goes to the address of the host its header names, redirects and
\* their failures included, as long as no answer of the name service came
\* after its wait had ended, or twice.
AddressesOf(host) ==
  IF host \in DOMAIN Literals THEN {Literals[host]} ELSE {Records[host][i] : i \in DOMAIN Records[host]} \ {Alias}

RequestsReachTheNamed == punctual => \A s \in sent : s.host # "" => s.ip \in AddressesOf(s.host)

\* The address and the gateway come from one server that granted them, and a
\* request goes to the machine its name stands for (net_dhcp, arp_resolve,
\* net_dns_a, net_http_request).
SetupIsOurs == GatewayIsOurs /\ AddressWasAcked /\ RequestsReachTheNamed

-----------------------------------------------------------------------------
(* The inductive invariant *)

Configs  == [ip : Nat, gw : Nat, dns : Nat]
Frames   == [k : {"arp"}, owner : Stations, to : Nat] \cup [k : {"dns"}, records : Seq(Nat)]
            \cup [k : {"offer", "ack", "nak"}, from : Servers]
Names    == Hosts \cup {"", "test"}
Tasks    == [job : {"none", "boot", "test", "fetch", "udp"},
             wait : {"none", "offer", "ack", "arp", "dns", "tcp"}, then : {"none", "dns", "tcp", "udp"},
             target : Nat, host : Names, dst : Nat, tls : BOOLEAN, port : {80, 443},
             method : {"GET", "POST"}, left : {0, 1}, dns : Nat]
Asks     == [host : Names, ip : Nat, mac : Nat, tls : BOOLEAN, port : {0, 80, 443}]

SetupTypeOK ==
  /\ stack \in [cfg : SUBSET Configs, gw_mac : Nat]
  /\ copies \in [kernel : SUBSET Configs, oslink : SUBSET Configs, lconnect : SUBSET Configs,
                 net : BOOLEAN, ready : BOOLEAN]
  /\ rx \in Seq(Frames) /\ asked \subseteq Frames /\ task \in Tasks /\ sent \subseteq Asks
  /\ acked \subseteq Servers /\ punctual \in BOOLEAN /\ jobs \in 0..MaxJobs /\ doubles \in 0..MaxDoubles

\* A wait belongs to a job; while the boot asks for an address no gateway is
\* known, and an ARP wait is for the gateway unless a neighbour is looked for.
WaitsAreSane ==
  /\ task.job = "none" => task.wait = "none"
  /\ task.wait \in {"offer", "ack"} => task.job = "boot"
  /\ task.job = "boot" => task.wait \in {"none", "offer", "ack"} /\ stack.gw_mac = NoMac
  /\ task.wait = "arp" => /\ task.then # "none"
                          /\ task.target = Cfg.gw \/ (task.then = "udp" /\ SameSubnet(Cfg.ip, task.dst))
  /\ (task.job = "test" \/ copies.ready) => copies.kernel # {}

\* Who says that an address is granted was asked for it.
AcksAreOwn ==
  /\ \A f \in asked : f.k = "ack" => f.from \in acked
  /\ \A i \in DOMAIN rx : rx[i].k = "ack" => rx[i].from \in acked

\* What is looked up or asked for is at the address it has.
WellAimed(t) == ((t.wait = "arp" /\ t.then = "tcp") \/ t.wait = "tcp") /\ t.host # "" => t.dst \in AddressesOf(t.host)

\* The answer of the name service to what is asked now.
OwnDns(t, f) == t.wait = "dns" /\ t.host \in DOMAIN Records /\ f.records = Records[t.host]

\* Without late or doubled answers one answer of the name service at most is
\* under way or in the card, and it is to the question that waits.
AnswersArePunctual ==
  punctual =>
    /\ WellAimed(task)
    /\ \A f \in asked : f.k = "dns" => OwnDns(task, f) /\ \A i \in DOMAIN rx : rx[i].k # "dns"
    /\ \A i \in DOMAIN rx : rx[i].k = "dns" => OwnDns(task, rx[i]) /\ \A j \in DOMAIN rx : rx[j].k = "dns" => i = j

SetupInv == SetupTypeOK /\ SetupIsOurs /\ WaitsAreSane /\ AcksAreOwn /\ AnswersArePunctual

-----------------------------------------------------------------------------
(* What the code does not keep *)

\* The same with late answers: the next name gets the address of the last one.
AnswersAreOwn == \A s \in sent : s.host # "" => s.ip \in AddressesOf(s.host)

\* All parts have the configuration of the stack: not after `lconnect direct`,
\* when the browser goes on asking the name server of before.
CopiesAgree == copies.ready => copies.kernel = stack.cfg /\ copies.oslink = stack.cfg /\ copies.lconnect = stack.cfg

\* A page that was moved to a TLS address is not asked for in plain text.
PlainStaysOnItsPort == \A s \in sent : s.port = 443 => s.tls
=============================================================================
