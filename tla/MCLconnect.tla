----------------------------- MODULE MCLconnect -----------------------------
(***************************************************************************)
(* LardConnect between one machine that shares and one that asks, and the  *)
(* configuration it stands on: how a machine gets an address, finds the    *)
(* gateway and turns names into addresses (NetSetup), `lconnect direct`    *)
(* included.  `part` says which of the two a behaviour explores.           *)
(***************************************************************************)
EXTENDS Lconnect, NetSetup

CONSTANTS lender, borrower, LenderCommands, BorrowerCommands

MCCommands == [n \in Nodes |-> IF n = lender THEN LenderCommands ELSE BorrowerCommands]

VARIABLE part

\* Two DHCP servers on two networks, one of which names neither router nor
\* name server; a name with an alias before its address; a neighbour, and a
\* machine on a direct cable.
MCServers == {[ip |-> 15, gw |-> {12}, dns |-> {31}], [ip |-> 25, gw |-> {}, dns |-> {}]}
MCRecords == [test |-> <<43>>, moved |-> <<0, 42>>]
MCLiterals == [figures |-> 44]
MCDefaults == [ip |-> 15, gw |-> 12]

MCInit == Init /\ SetupInit /\ part \in {"lconnect", "setup"}

MCNext ==
  /\ UNCHANGED part
  /\ \/ part = "lconnect" /\ Next /\ UNCHANGED setupVars
     \/ part = "setup" /\ SetupNext /\ UNCHANGED vars

\* The fairness of Lconnect, in its part.
MCSpec ==
  /\ MCInit /\ [][MCNext]_<<vars, setupVars, part>>
  /\ \A n \in Nodes : WF_vars(part = "lconnect" /\ Poll(n))
=============================================================================
