-------------------------------- MODULE Tls --------------------------------
(***************************************************************************)
(* The TLS client (src/os/kernel/lard_tls.c) and its one caller, the HTTPS *)
(* request of net.c: the handshake over RSA key exchange, the certificate  *)
(* chain, and the records of the session.  The server is an honest one of  *)
(* whatever configuration; the records may be cut and joined anywhere, and *)
(* a few are lost, doubled, swapped or changed on their way.               *)
(*                                                                         *)
(* Keys and digests are terms: two are equal only if made from the same.   *)
(* A handshake message is two units, its header and its body.              *)
(***************************************************************************)
EXTENDS Naturals, Sequences, SequencesExt

CONSTANTS
  Anchors,     \* lard_tls_trust_anchors: a sequence of [subject, key]
  Host,        \* server_name, a sequence of labels
  Chains,      \* the chains servers present, each a sequence of certificates
  Servers,     \* of each server: [chain, key, ver, suite, kex, ask]
  Fragments,   \* how many units a server puts into a record
  Clocks,      \* what rtc_unix_seconds may say; 0 if it fails
  Callers,     \* "https", net_https_request_once, or "other"
  MaxCerts,    \* the size of g_tls_certs: 8
  WriteMax,    \* 2048: what one lard_tls_write takes
  MaxData,     \* bounds what each side sends
  MaxFaults    \* bounds what happens to records

Suites == {"AES_128_CBC_SHA", "AES_128_CBC_SHA256"}
Nobody == "nobody"

TlsAssumption ==
  /\ Clocks \subseteq Nat /\ {MaxCerts, WriteMax} \subseteq Nat \ {0}
  /\ \A i, j \in DOMAIN Anchors : i # j => Anchors[i].subject # Anchors[j].subject
  /\ \A s \in Servers : s.chain \in Chains

VARIABLES
  c,         \* lard_tls_client_t, where the calls are, and what they return
  server,    \* the server
  toServer,  \* records under way
  toClient,
  caller,    \* who uses the client
  clock,
  faults

vars == <<c, server, toServer, toClient, caller, clock, faults>>

-----------------------------------------------------------------------------
(* Certificates *)

\* host_match_name: a star stands for one label.
HostMatch(name) ==
  \/ name = Host
  \/ name # <<>> /\ Head(name) = "*" /\ Len(name) = Len(Host) /\ Tail(name) = Tail(Host)

\* The names of the extension, and the common name only if there are none.
NamesHost(cert) ==
  IF cert.names # {} THEN \E n \in cert.names : HostMatch(n) ELSE HostMatch(cert.cn)

InWindow(cert) == clock > 0 /\ clock >= cert.from /\ clock <= cert.until

\* parse_x509_cert, in its order.
ParseCert(cert, leaf) ==
  CASE ~cert.algKnown -> "unsupported"
    [] cert.algKnown /\ ~cert.algAgree -> "verify"
    [] cert.algKnown /\ cert.algAgree /\ ~InWindow(cert) -> "verify"
    [] cert.algKnown /\ cert.algAgree /\ InWindow(cert) /\ leaf /\ ~NamesHost(cert) -> "verify"
    [] OTHER -> IF cert.key = Nobody THEN "unsupported" ELSE "ok"

\* cert_is_usable_ca: `usage` is "absent", "sign" or "other".
UsableCa(cert) == cert.ca /\ cert.usage # "other"

IsAnchor(cert) == \E i \in DOMAIN Anchors : Anchors[i] = [subject |-> cert.subject, key |-> cert.key]

\* verify_cert_with_anchor, over the anchors in their order: the first error
\* other than a name that differs ends the search.
AnchorVerdict(last) ==
  LET named == SelectSeq(Anchors, LAMBDA a : a.subject = last.issuer)
  IN  CASE named = <<>> -> "untrusted"
        [] named # <<>> -> IF Head(named).key = last.signer THEN "ok" ELSE "signature"

\* verify_x509_chain: every issuer may sign, every link holds, and the last
\* certificate is an anchor or signed by one.
LinkVerdict(chain, i) ==
  CASE chain[i].issuer # chain[i + 1].subject -> "verify"
    [] chain[i].issuer = chain[i + 1].subject ->
         IF chain[i].signer = chain[i + 1].key THEN "ok" ELSE "signature"

\* A bug to catch: only the last certificate must be allowed to sign.
MaySignLastOnly(chain) == Len(chain) = 1 \/ UsableCa(Last(chain)) \/ IsAnchor(Last(chain))

MaySign(chain) == \A i \in 2 .. Len(chain) : UsableCa(chain[i]) \/ IsAnchor(chain[i])

VerifyChain(chain) ==
  LET broken == SelectInSeq([i \in 1 .. Len(chain) - 1 |-> LinkVerdict(chain, i)], LAMBDA v : v # "ok")
  IN  CASE ~MaySign(chain) -> "verify"
        [] MaySign(chain) /\ broken # 0 -> LinkVerdict(chain, broken)
        [] OTHER -> IF Len(chain) > 1 /\ IsAnchor(Last(chain)) THEN "ok" ELSE AnchorVerdict(Last(chain))

\* parse_certificate_msg
ChainVerdict(chain) ==
  LET bad == SelectInSeq([i \in DOMAIN chain |-> ParseCert(chain[i], i = 1)], LAMBDA v : v # "ok")
  IN  CASE chain = <<>> -> "record"
        [] bad \in 1 .. MaxCerts -> ParseCert(chain[bad], bad = 1)
        [] bad \notin 1 .. MaxCerts /\ Len(chain) > MaxCerts -> "unsupported"
        [] OTHER -> VerifyChain(chain)

-----------------------------------------------------------------------------
(* Records *)

\* tls_prf_sha256 and derive_keys, and tls_record_mac.
KeysOf(secret, suite) == <<"keys", secret, suite>>

\* A bug to catch: the number of the record is not in its code.
MacWithoutSeq(keys, from, seq, ct, data) == <<"mac", keys, from, ct, data>>

Mac(keys, from, seq, ct, data) == <<"mac", keys, from, seq, ct, data>>

Sealed(keys, from, seq, ct, data) == [ct |-> ct, data |-> data, mac |-> Mac(keys, from, seq, ct, data)]
Plain(ct, data) == [ct |-> ct, data |-> data, mac |-> <<>>]

Finished(keys, who, trans) == [t |-> "finished", keys |-> keys, who |-> who, trans |-> trans]
Data(from, n) == [i \in 1 .. n |-> [t |-> "data", i |-> from + i]]

ClientHello == [t |-> "client hello", suites |-> Suites]

Init ==
  /\ c = [at |-> "start", code |-> "none", suite |-> "", key |-> Nobody, certs |-> <<>>, verified |-> FALSE,
          secret |-> "", pending |-> <<>>, part |-> <<>>, trans |-> <<>>, out |-> 0, in |-> 0,
          plain |-> <<>>, read |-> <<>>, written |-> <<>>]
  /\ server \in [is : Servers, at : {"wait"}, suite : {""}, secret : {""}, trans : {<<>>}, out : {0}, in : {0},
                 sent : {<<>>}, heard : {<<>>}, per : Fragments]
  /\ toServer = <<>> /\ toClient = <<>>
  /\ caller \in Callers /\ clock \in Clocks /\ faults = 0

Failed(why) == c' = [c EXCEPT !.at = "failed", !.code = why]
ClientKeys == KeysOf(c.secret, c.suite)

\* lard_tls_client_init, build_client_hello
Connect ==
  /\ c.at = "start"
  /\ toServer' = Append(toServer, Plain("hs", <<ClientHello>>))
  /\ c' = [c EXCEPT !.at = "hello", !.trans = <<ClientHello>>]
  /\ UNCHANGED <<server, toClient, caller, clock, faults>>

\* parse_server_hello
HelloVerdict(m) ==
  CASE m.t # "hello" -> "unexpected"
    [] m.t = "hello" -> IF m.ver # "1.2" \/ m.suite \notin Suites THEN "cipher" ELSE "ok"

\* build_client_key_exchange, derive_keys, send_change_cipher, send_finished.
\* The secret goes out under the key of the leaf.
ExchangeKeys(trans) ==
  LET keys == KeysOf("premaster", c.suite)
      exchange == [t |-> "exchange", under |-> c.key, secret |-> "premaster"]
      fin == Finished(keys, "client", Append(trans, exchange))
  IN  /\ toServer' = toServer \o <<Plain("hs", <<exchange>>), Plain("ccs", <<>>), Sealed(keys, "client", 0, "hs", <<fin>>)>>
      /\ c' = [c EXCEPT !.at = "ccs", !.secret = "premaster", !.trans = trans \o <<exchange, fin>>,
                        !.out = 1, !.part = <<>>, !.pending = Tail(@)]

\* A message of the server's part of the handshake is complete.
HandleMessage(m) ==
  LET trans == Append(c.trans, m)
      on == [c EXCEPT !.part = <<>>, !.pending = Tail(@), !.trans = trans]
  IN  CASE c.at = "hello" ->
             /\ IF HelloVerdict(m) = "ok" THEN c' = [on EXCEPT !.at = "certs", !.suite = m.suite]
                                          ELSE Failed(HelloVerdict(m))
             /\ UNCHANGED toServer
        [] c.at = "certs" /\ m.t = "certs" ->
             /\ IF ChainVerdict(m.chain) = "ok"
                  THEN c' = [on EXCEPT !.certs = m.chain, !.verified = TRUE, !.key = m.chain[1].key]
                  ELSE Failed(ChainVerdict(m.chain))
             /\ UNCHANGED toServer
        [] c.at = "certs" /\ m.t = "done" ->
             IF c.certs # <<>> /\ c.verified THEN ExchangeKeys(trans) ELSE Failed("verify") /\ UNCHANGED toServer
        [] OTHER ->
             Failed(IF m.t \in {"kex", "ask"} THEN "cipher" ELSE "unexpected") /\ UNCHANGED toServer

\* read_handshake_msg: the header, then the body, from as many records as it
\* takes.  Parts of two messages make none that can be parsed.
TakeUnit ==
  /\ c.at \in {"hello", "certs"} /\ c.pending # <<>>
  /\ LET u == Head(c.pending)
     IN  CASE c.part = <<>> /\ u.n = 1 -> c' = [c EXCEPT !.part = <<u>>, !.pending = Tail(@)] /\ UNCHANGED toServer
           [] c.part # <<>> /\ u.n = 2 /\ u.m = Head(c.part).m -> HandleMessage(u.m)
           [] OTHER -> Failed("record") /\ UNCHANGED toServer
  /\ UNCHANGED <<server, toClient, caller, clock, faults>>

Receiving == toClient # <<>> /\ toClient' = Tail(toClient) /\ UNCHANGED <<server, toServer, caller, clock, faults>>

\* read_handshake_bytes, when the record before is used up.
ReadHandshake ==
  /\ c.at \in {"hello", "certs"} /\ c.pending = <<>> /\ Receiving
  /\ LET r == Head(toClient)
     IN  CASE r.ct = "alert" -> Failed("alert")
           [] r.ct = "hs" -> IF r.mac = <<>> THEN c' = [c EXCEPT !.pending = r.data] ELSE Failed("record")
           [] OTHER -> Failed("unexpected")

\* The first half of read_server_finished; what is left of a record before it
\* is not looked at again.
ReadChange ==
  /\ c.at = "ccs" /\ Receiving
  /\ LET r == Head(toClient)
     IN  CASE r.ct = "ccs" -> c' = [c EXCEPT !.at = "fin"]
           [] r.ct = "alert" -> Failed("alert")
           [] OTHER -> Failed("unexpected")

\* read_encrypted_record
Opens(r) == r.mac = Mac(ClientKeys, "server", c.in, r.ct, r.data)

FinishedMatches(r) == r.ct = "hs" /\ r.data = <<Finished(ClientKeys, "server", c.trans)>>

ReadFinished ==
  /\ c.at = "fin" /\ Receiving
  /\ LET r == Head(toClient)
     IN  CASE ~Opens(r) -> Failed("decrypt")
           [] Opens(r) /\ ~FinishedMatches(r) -> Failed("finished")
           [] OTHER -> c' = [c EXCEPT !.at = "open", !.in = @ + 1, !.trans = Append(@, Head(r.data))]

-----------------------------------------------------------------------------
(* lard_tls_write and lard_tls_read *)

\* One call with `data`: it takes so much of it, and returns the count.
Write(data) ==
  /\ c.at = "open" /\ caller = "other"
  /\ LET n == IF Len(data) > WriteMax THEN WriteMax ELSE Len(data)
         part == SubSeq(data, 1, n)
     IN  /\ toServer' = Append(toServer, Sealed(ClientKeys, "client", c.out, "app", part))
         /\ c' = [c EXCEPT !.out = @ + 1, !.written = @ \o part]
  /\ UNCHANGED <<server, toClient, caller, clock, faults>>

\* net_https_request_once: any count but 0 is taken for an error.
Request ==
  /\ c.at = "open" /\ caller = "https"
  /\ toServer' = Append(toServer, Sealed(ClientKeys, "client", c.out, "app", Data(0, 1)))
  /\ c' = [c EXCEPT !.at = "failed", !.code = "unknown", !.out = @ + 1, !.written = @ \o Data(0, 1)]
  /\ UNCHANGED <<server, toClient, caller, clock, faults>>

\* What is left of the last record, up to `cap`.
ReadLeft(cap) ==
  /\ c.at = "open" /\ caller = "other" /\ c.plain # <<>>
  /\ LET n == IF Len(c.plain) > cap THEN cap ELSE Len(c.plain)
     IN  c' = [c EXCEPT !.read = @ \o SubSeq(c.plain, 1, n), !.plain = SubSeq(@, n + 1, Len(@))]
  /\ UNCHANGED <<server, toServer, toClient, caller, clock, faults>>

\* The next record.  Handshake records are passed over, and a call whose record
\* is empty returns nothing; any alert is an error.
ReadRecord(cap) ==
  /\ c.at = "open" /\ caller = "other" /\ c.plain = <<>> /\ Receiving
  /\ LET r == Head(toClient)
         n == IF Len(r.data) > cap THEN cap ELSE Len(r.data)
     IN  CASE ~Opens(r) -> Failed("decrypt")
           [] Opens(r) /\ r.ct = "app" ->
                c' = [c EXCEPT !.in = @ + 1, !.read = @ \o SubSeq(r.data, 1, n), !.plain = SubSeq(r.data, n + 1, Len(r.data))]
           [] Opens(r) /\ r.ct = "hs" -> c' = [c EXCEPT !.in = @ + 1]
           [] OTHER -> Failed(IF r.ct = "alert" THEN "alert" ELSE "unexpected")

\* read_exact gives up: nothing comes any more.
GiveUp ==
  /\ c.at \in {"hello", "certs", "ccs", "fin", "open"} /\ c.pending = <<>>
  /\ Failed("io") /\ UNCHANGED <<server, toServer, toClient, caller, clock, faults>>

-----------------------------------------------------------------------------
(* The server *)

Units(m) == <<[m |-> m, n |-> 1], [m |-> m, n |-> 2]>>

\* Units joined into records.
Records(us) ==
  LET per == server.per
  IN  [i \in 1 .. (Len(us) + per - 1) \div per |->
         Plain("hs", SubSeq(us, (i - 1) * per + 1, IF i * per > Len(us) THEN Len(us) ELSE i * per))]

Flight ==
  <<[t |-> "hello", ver |-> server.is.ver, suite |-> server.is.suite], [t |-> "certs", chain |-> server.is.chain]>>
  \o (IF server.is.kex THEN <<[t |-> "kex"]>> ELSE <<>>)
  \o (IF server.is.ask THEN <<[t |-> "ask"]>> ELSE <<>>)
  \o <<[t |-> "done"]>>

Served == toServer # <<>> /\ toServer' = Tail(toServer) /\ UNCHANGED <<c, caller, clock, faults>>
Alert == server' = [server EXCEPT !.at = "closed"] /\ toClient' = Append(toClient, Plain("alert", <<>>))
ServerKeys == KeysOf(server.secret, server.suite)

ServeHello ==
  /\ server.at = "wait" /\ Served
  /\ LET m == Head(Head(toServer).data)
     IN  IF server.is.suite \in m.suites
           THEN /\ server' = [server EXCEPT !.at = "exchange", !.suite = server.is.suite, !.trans = <<m>> \o Flight]
                /\ toClient' = toClient \o Records(FlattenSeq([i \in DOMAIN Flight |-> Units(Flight[i])]))
           ELSE Alert

\* Without the key of its certificate the server gets another secret.
ServeExchange ==
  /\ server.at = "exchange" /\ Served /\ UNCHANGED toClient
  /\ LET m == Head(Head(toServer).data)
     IN  server' = [server EXCEPT !.at = "ccs", !.trans = Append(@, m),
                                  !.secret = IF m.under = server.is.key THEN m.secret ELSE "another"]

ServeChange == server.at = "ccs" /\ Served /\ server' = [server EXCEPT !.at = "fin"] /\ UNCHANGED toClient

ServeFinished ==
  /\ server.at = "fin" /\ Served
  /\ LET r == Head(toServer)
         fin == Finished(ServerKeys, "server", Append(server.trans, Head(r.data)))
     IN  IF r = Sealed(ServerKeys, "client", 0, "hs", <<Finished(ServerKeys, "client", server.trans)>>)
           THEN /\ server' = [server EXCEPT !.at = "open", !.trans = @ \o <<Head(r.data), fin>>, !.in = 1, !.out = 1]
                /\ toClient' = toClient \o <<Plain("ccs", <<>>), Sealed(ServerKeys, "server", 0, "hs", <<fin>>)>>
           ELSE Alert

ServeData ==
  /\ server.at = "open" /\ Served /\ UNCHANGED toClient
  /\ LET r == Head(toServer)
     IN  server' = IF r = Sealed(ServerKeys, "client", server.in, "app", r.data)
                     THEN [server EXCEPT !.heard = @ \o r.data, !.in = @ + 1] ELSE [server EXCEPT !.at = "closed"]

\* Data in pieces, and the other records a session may have.
ServerSends ==
  /\ server.at = "open" /\ server.out <= MaxData
  /\ LET from == Len(server.sent)
     IN  \E ct \in {"app", "hs", "alert"}, n \in 0 .. 2 :
           LET data == Data(from, n)
           IN  /\ ct # "app" => n = 0
               /\ toClient' = Append(toClient, Sealed(ServerKeys, "server", server.out, ct, data))
               /\ server' = [server EXCEPT !.out = @ + 1, !.sent = @ \o data]
  /\ UNCHANGED <<c, toServer, caller, clock, faults>>

-----------------------------------------------------------------------------
(* The way between them *)

\* What a changed record may look like.
Changed(r) ==
  {[r EXCEPT !.ct = x] : x \in {"hs", "ccs", "app", "alert"} \ {r.ct}}
  \cup (IF r.ct = "app" /\ r.data # <<>> THEN {[r EXCEPT !.data[1].i = 99]} ELSE {})
  \cup (IF r.ct = "hs" /\ r.mac = <<>>
          THEN {[r EXCEPT !.data = [i \in DOMAIN r.data |->
                   IF r.data[i].m.t = "hello" THEN [r.data[i] EXCEPT !.m.suite = s] ELSE r.data[i]]] : s \in Suites}
          ELSE {})

Disturb ==
  /\ faults < MaxFaults /\ faults' = faults + 1 /\ toClient # <<>>
  /\ \/ toClient' = Tail(toClient)
     \/ toClient' = <<Head(toClient)>> \o toClient
     \/ Len(toClient) > 1 /\ toClient' = <<toClient[2], toClient[1]>> \o SubSeq(toClient, 3, Len(toClient))
     \/ \E r \in Changed(Head(toClient)) \ {Head(toClient)} : toClient' = <<r>> \o Tail(toClient)
  /\ UNCHANGED <<c, server, toServer, caller, clock>>

\* The same on the other way, where the client's hello offers less.
DisturbHello ==
  /\ faults < MaxFaults /\ faults' = faults + 1 /\ server.at = "wait" /\ toServer # <<>>
  /\ \E s \in Suites : toServer' = <<Plain("hs", <<[ClientHello EXCEPT !.suites = {s}]>>)>>
  /\ UNCHANGED <<c, server, toClient, caller, clock>>

DisturbData ==
  /\ faults < MaxFaults /\ faults' = faults + 1 /\ server.at = "open" /\ toServer # <<>>
  /\ \/ toServer' = Tail(toServer)
     \/ toServer' = <<Head(toServer)>> \o toServer
     \/ Len(toServer) > 1 /\ toServer' = <<toServer[2], toServer[1]>> \o SubSeq(toServer, 3, Len(toServer))
  /\ UNCHANGED <<c, server, toClient, caller, clock>>

Next ==
  \/ Connect \/ TakeUnit \/ ReadHandshake \/ ReadChange \/ ReadFinished \/ Request \/ GiveUp
  \/ \E n \in 1 .. 2 : Len(c.written) < MaxData /\ Write(Data(Len(c.written), n))
  \/ \E cap \in 1 .. 2 : ReadLeft(cap) \/ ReadRecord(cap)
  \/ ServeHello \/ ServeExchange \/ ServeChange \/ ServeFinished \/ ServeData \/ ServerSends
  \/ Disturb \/ DisturbHello \/ DisturbData

Spec == Init /\ [][Next]_vars

-----------------------------------------------------------------------------
(* Properties *)

\* The keys a chain vouches for: those of the anchors, and of what a vouched
\* key that may sign has signed.
Vouched(chain) ==
  LET good(x) == clock > 0 /\ x.from <= clock /\ clock <= x.until /\ x.algKnown
      more(known) == known \cup {[subject |-> x.subject, key |-> x.key] :
                                   x \in {y \in ToSet(chain) : good(y) /\ UsableCa(y) /\ [subject |-> y.issuer, key |-> y.signer] \in known}}
      closure[n \in 0 .. Len(chain)] == IF n = 0 THEN ToSet(Anchors) ELSE more(closure[n - 1])
  IN  closure[Len(chain)]

\* A leaf is trusted if it is in its window, names the host, and a vouched key
\* has signed it.
TrustedLeaf(chain, x) ==
  /\ x.from <= clock /\ clock <= x.until
  /\ IF x.names = {} THEN HostMatch(x.cn) ELSE \E n \in x.names : HostMatch(n)
  /\ [subject |-> x.issuer, key |-> x.signer] \in Vouched(chain)

\* The secret of a session is given only to the key of a trusted leaf for the
\* host that was asked for, whatever chain came, in however many pieces.
SecretGoesToTheNamed ==
  c.secret # "" => c.key = c.certs[1].key /\ TrustedLeaf(c.certs, c.certs[1])

\* Who finishes the handshake has a peer who has seen the same messages and has
\* the same keys.
PeersAgree ==
  c.at = "open" => /\ ServerKeys = ClientKeys
                   /\ IsPrefix(c.trans, server.trans)

\* What each side gets is a beginning of what the other sent, whatever happens
\* to the records.
RecordsInOrder == IsPrefix(c.read, server.sent) /\ IsPrefix(server.heard, c.written)

SessionIsShared == PeersAgree /\ RecordsInOrder

-----------------------------------------------------------------------------
(* What the code does not keep *)

\* A request to a server of the supported kind fails only for a reason that
\* lard_tls_status_text knows.
HttpsSucceeds == c.at = "failed" => c.code # "unknown"
=============================================================================
