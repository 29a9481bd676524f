---------------------------- MODULE MCLpstStore -----------------------------
(***************************************************************************)
(* The saved file store (LpstStore: two files, two contents each), what    *)
(* the system records in its files about itself (Reports), and how code    *)
(* and versions of files get in (Updates: live updates, the version store, *)
(* the installer).  `part` says which a behaviour explores while the       *)
(* others rest.                                                            *)
(***************************************************************************)
EXTENDS LpstStore, Updates, TLC

CONSTANTS v1, v2

VARIABLES part,
  replay, trace, net, trust, traceOn, netOn, eye, caps, next, post, room, view,
  files, unsaved, saved, online, phase, results, event, left

MCCompiled == [f \in Files |-> v2]
MCDefaults == [f \in Files |-> v1]
MCFitting == Images \ {[f \in Files |-> IF f = 1 THEN v1 ELSE v2]}

R == INSTANCE Reports WITH
       RingMax <- [replay |-> 2, trace |-> 2, net |-> 2, trust |-> 2],
       JournalCap <- 2, BaselineMax <- 3, Checks <- <<"a", "kit", "b", "c">>,
       Subjects <- {"shell", "sum"}, Caps <- {"raw"},
       Docs <- {"home", "guide"}, Home <- "home", NotesCap <- 1, KitStops <- {0, 4}, MaxCommands <- 3,
       dirty <- unsaved, disk <- saved

\* One file of each kind that is loaded on its own, or with all of its kind.
MCScopes == ("k.kmo" :> "kmo") @@ ("fstwt.fstwts" :> "fstwt") @@ ("t.fstwts" :> "fstwt")
            @@ ("x.drfl" :> "drivers") @@ ("hello.txt" :> "file")

MCNames == <<"k.kmo", "fstwt.fstwts", "t.fstwts", "x.drfl", "hello.txt">>
MCSeeds == ("fstwt.fstwts" :> <<"a">>) @@ ("hello.txt" :> <<"a", "b", "c">>)
MCTexts == {<<"b">>, <<"bad">>}

ASSUME R!ReportsAssumption

reportVars == <<replay, trace, net, trust, traceOn, netOn, eye, caps, next, post, room,
                view, files, unsaved, saved, online, phase, results, event, left>>

MCInit ==
  /\ part \in {"store", "reports", "live", "versions", "disk"} /\ Init /\ R!Init /\ UpdatesInit
  /\ part # "reports" => online = TRUE /\ files.base = <<>>

MCNext ==
  /\ UNCHANGED part
  /\ \/ part = "store" /\ Next /\ UNCHANGED <<reportVars, updateVars>>
     \/ part = "reports" /\ R!Next /\ UNCHANGED <<vars, updateVars>>
     \/ /\ UNCHANGED <<vars, reportVars>>
        /\ \/ part = "live" /\ LiveNext
           \/ part = "versions" /\ VcsNext
           \/ part = "disk" /\ DiskNext

MCSpec == MCInit /\ [][MCNext]_<<vars, reportVars, updateVars, part>>

\* What is on record is what happened, a check that got worse is told, and a
\* repair leaves the user's files alone.
RecordsAreKept == part = "reports" => R!RecordsAreKept
ReportsAreTrue == []RecordsAreKept /\ R!RegressionsAreTold /\ R!RepairKeepsFiles

\* What the documentation says and the code does not do: runs of their own.
NotesStay == R!NotesStay
JournalIsOrdered == part = "reports" => R!JournalIsOrdered
RepairRefreshes == R!RepairRefreshes
=============================================================================
