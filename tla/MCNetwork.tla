----------------------------- MODULE MCNetwork -----------------------------
(***************************************************************************)
(* What the machine does on the network: OSLink between two machines, the  *)
(* TCP client under its HTTP requests (Tcp), the making of an answer out   *)
(* of what that receives (HttpBody), and the TLS client of the HTTPS       *)
(* requests (Tls).  `part` says which of them a behaviour explores while   *)
(* the others rest.  HttpBody takes the stream as Tcp delivers it, a       *)
(* beginning of what the peer sent, in any pieces: that is AnswerIsKept.   *)
(***************************************************************************)
EXTENDS OsLink, Tcp

CONSTANTS left, right
MCNodes == {left, right}

VARIABLES
  answer, wire, cut, dec, returned,
  tlsClient, tlsServer, toTlsServer, toTlsClient, caller, clock, tlsFaults,
  part

\* Bodies with what looks like framing in them; one larger than the buffer.
Body == INSTANCE HttpBody WITH
          Bodies <- {<<>>, << <<"x">> >>, << <<"x", "LF", "1">> >>, << <<"0", "LF", "x", "y", "z">> >>,
                     << <<"x", "1">>, <<"y">> >>},
          OutCap <- 6, BufSize <- 4, LineSize <- 4, NoLength <- 255,
          result <- returned

\* Certificates: two roots, an authority below one of them, and the chains of
\* servers: good ones, and ones with every single thing wrong.
Www == <<"www", "lardos">>
Cert(subject, issuer, signer, key) ==
  [subject |-> subject, issuer |-> issuer, signer |-> signer, key |-> key, names |-> {}, cn |-> <<>>, ca |-> FALSE,
   usage |-> "absent", from |-> 1, until |-> 5, algKnown |-> TRUE, algAgree |-> TRUE]
RootA == Cert("RootA", "RootA", "kA", "kA")
Mid == [Cert("Mid", "RootA", "kA", "kM") EXCEPT !.ca = TRUE, !.usage = "sign"]
Site == [Cert("site", "RootA", "kA", "kS") EXCEPT !.cn = Www]
Below == [Cert("site", "Mid", "kM", "kS") EXCEPT !.names = {<<"*", "lardos">>, <<"lardos">>}]

MCChains ==
  {<<Site>>, <<Site, RootA>>, <<Below, Mid>>, <<Below, Mid, RootA>>,
   <<>>, <<Below>>, <<Below, RootA>>, <<Below, Mid, RootA, RootA>>, <<Mid>>,
   <<[Site EXCEPT !.until = 2]>>, <<[Site EXCEPT !.algKnown = FALSE]>>, <<[Site EXCEPT !.algAgree = FALSE]>>,
   <<[Site EXCEPT !.key = "nobody"]>>, <<[Site EXCEPT !.cn = <<"www", "other">>]>>,
   <<[Site EXCEPT !.names = {<<"www", "other">>, <<"*", "www", "lardos">>}]>>,
   <<[Site EXCEPT !.signer = "kX"]>>, <<Site, [RootA EXCEPT !.key = "kX"]>>,
   <<[Site EXCEPT !.signer = "kX"], [RootA EXCEPT !.key = "kX", !.signer = "kX"]>>,
   <<Below, [Mid EXCEPT !.ca = FALSE]>>, <<Below, [Mid EXCEPT !.usage = "other"], RootA>>,
   <<Below, [Mid EXCEPT !.issuer = "Nowhere"]>>, <<Below, [Mid EXCEPT !.from = 4]>>}
OfKind(chain) == [chain |-> chain, key |-> "kS", ver |-> "1.2", suite |-> "AES_128_CBC_SHA", kex |-> FALSE, ask |-> FALSE]

Session == INSTANCE Tls WITH
             Anchors <- <<[subject |-> "RootB", key |-> "kB"], [subject |-> "RootA", key |-> "kA"]>>,
             Host <- Www, Chains <- MCChains,
             Servers <- {OfKind(ch) : ch \in MCChains}
               \cup {[OfKind(<<Site>>) EXCEPT !.key = "kX"], [OfKind(<<Site>>) EXCEPT !.ver = "1.1"],
                     [OfKind(<<Site>>) EXCEPT !.suite = "GCM"], [OfKind(<<Site>>) EXCEPT !.suite = "AES_128_CBC_SHA256"],
                     [OfKind(<<Site>>) EXCEPT !.kex = TRUE], [OfKind(<<Site>>) EXCEPT !.ask = TRUE]},
             Fragments <- {1, 3, 6}, Clocks <- {0, 3}, Callers <- {"https", "other"},
             MaxCerts <- 3, WriteMax <- 1, MaxData <- 2, MaxFaults <- 1,
             c <- tlsClient, server <- tlsServer, toServer <- toTlsServer, toClient <- toTlsClient, faults <- tlsFaults

ASSUME Body!HttpAssumption /\ Session!TlsAssumption

httpVars == <<answer, wire, cut, dec, returned>>
tlsVars == <<tlsClient, tlsServer, toTlsServer, toTlsClient, caller, clock, tlsFaults>>

RestBody == Body!Init /\ answer = [framing |-> "close", body |-> <<>>]
RestSession == Session!Init /\ caller = "https" /\ clock = 0 /\ tlsServer.is = OfKind(<<>>) /\ tlsServer.per = 1

MCInit ==
  /\ Init /\ TcpInit
  /\ \/ part \in {"oslink", "tcp"} /\ RestBody /\ RestSession
     \/ part = "http" /\ Body!Init /\ RestSession
     \* After the handshake all servers are alike: one has a caller who reads.
     \/ /\ part = "tls" /\ RestBody /\ Session!Init
        /\ caller = "other" => tlsServer.is = OfKind(<<Below, Mid>>)

MCNext ==
  /\ UNCHANGED part
  /\ \/ part = "oslink" /\ Next /\ UNCHANGED <<tcpVars, httpVars, tlsVars>>
     \/ part = "tcp" /\ TcpNext /\ UNCHANGED <<vars, httpVars, tlsVars>>
     \/ part = "http" /\ Body!Next /\ UNCHANGED <<vars, tcpVars, tlsVars>>
     \/ part = "tls" /\ Session!Next /\ UNCHANGED <<vars, tcpVars, httpVars>>

MCSpec == MCInit /\ [][MCNext]_<<vars, tcpVars, httpVars, tlsVars, part>>

\* The fairness of OsLink and of Tcp, each in its part.
MCFairSpec ==
  /\ MCSpec
  /\ \A n \in Nodes : WF_vars(part = "oslink" /\ Poll(n))
  /\ WF_tcpVars(part = "tcp" /\ ConnectRound)
  /\ WF_tcpVars(part = "tcp" /\ ReceiveSegment)
  /\ WF_tcpVars(part = "tcp" /\ ReceiveNothing)
  /\ WF_tcpVars(part = "tcp" /\ CloseRound)
  /\ WF_tcpVars(part = "tcp" /\ PeerReceives)
  /\ WF_tcpVars(part = "tcp" /\ PeerSends)
  /\ WF_tcpVars(part = "tcp" /\ PeerTimesOut)

\* The machines fall silent, and a request comes to an end unless a segment is
\* lost that nobody sends again.
WaitsEnd == Quiesces /\ RequestEnds
BodyIsDecoded == Body!BodyIsDecoded
\* The secret goes to the machine that was named, and both ends of a session
\* count the same records.
SessionIsSafe == Session!SecretGoesToTheNamed /\ Session!SessionIsShared

\* What the documentation says of HTTPS, and the code does not do.
HttpsSucceeds == Session!HttpsSucceeds
=============================================================================
