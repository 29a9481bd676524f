------------------------------- MODULE Reports --------------------------------
(***************************************************************************)
(* What the system records about itself (lardkit.c): the rings of screen   *)
(* scans, trace events, network events and trust changes, the journal, the *)
(* baseline of the power-on self-test (post.c), the notes, the document    *)
(* viewer, the panic room and the doctor of the saved files, with the      *)
(* commands of lsh.c that read and clear them.                             *)
(*                                                                         *)
(* A self-test is one call, but a long one: it is a step per check, so     *)
(* that a panic may cut it.  Texts of the reports are left out, and a boot *)
(* restores what was saved: a build whose file table fits the loader       *)
(* (LpstStore).                                                            *)
(***************************************************************************)
EXTENDS Integers, Sequences, FiniteSets, SequencesExt

CONSTANTS
  RingMax,      \* LARDKIT_BUGREPLAY_MAX, _TRACE_MAX, _NETWATCH_MAX, _TRUST_HISTORY_MAX
  JournalCap,   \* events that fit in journal.lardd
  BaselineMax,  \* LARDKIT_POST_BASELINE_MAX
  Checks,       \* the names of post_check, in their order; one is "kit"
  Subjects, Caps,
  Docs, Home,   \* documents of the viewer, and the one it starts with
  NotesCap,     \* notes that fit in notes.lardd
  KitStops,     \* bound: steps the test of the kit has done when it fails
  MaxCommands   \* bound on the commands of a run

Observed == IF Len(Checks) < BaselineMax THEN Len(Checks) ELSE BaselineMax

ReportsAssumption ==
  /\ RingMax \in [{"replay", "trace", "net", "trust"} -> Nat \ {0}]
  /\ JournalCap \in Nat \ {0} /\ BaselineMax \in Nat \ {0}
  /\ "kit" \in ToSet(Checks) /\ IsInjective(Checks)
  /\ KitStops \subseteq 0 .. 10
  /\ Home \in Docs /\ NotesCap \in Nat /\ MaxCommands \in Nat

VARIABLES
  replay, trace, net, trust,  \* the rings
  traceOn, netOn,             \* trace_enabled, netwatch_enabled
  eye,       \* bugeye: enabled, scans, bug_count
  caps,      \* trust: the capabilities of a subject
  next,      \* journal_next
  post,      \* post_prev, post_cur, post_info
  room,      \* panicroom_active, panicroom_entries, panic_capsules
  view,      \* larsview, with the documents shown so far
  files,     \* journal.lardd, postbaseline.lardd, notes.lardd and .txt, userlaw.lardd
  dirty,     \* s_fs_dirty
  disk,      \* the files as they were saved
  online,    \* a block device is there
  phase,     \* the check a self-test is at; 0 when none runs
  results,   \* history: what the checks of this self-test said
  event,     \* history: what the last step was
  left       \* commands left, see MaxCommands

rings == <<replay, trace, net, trust>>
kit   == <<traceOn, netOn, eye, caps, room, view>>
test  == <<post, phase, results>>
saved == <<disk, online>>
vars  == <<rings, kit, next, test, files, dirty, saved, event, left>>

\* --------------------------------- the rings --------------------------------

\* slot i holds an event and its number; told is all that was recorded.
EmptyRing(r) == [name |-> r, next |-> 1, count |-> 0, told |-> <<>>,
                 slot |-> [i \in 0..(RingMax[r] - 1) |-> [seq |-> 0, what |-> <<>>]]]

\* bugreplay_record, lardkit_trace_event, lardkit_netwatch_record, trust_history_log
Rec(r, what) ==
  [r EXCEPT !.slot[(r.next - 1) % RingMax[r.name]] = [seq |-> r.next, what |-> what],
            !.next = @ + 1,
            !.count = IF @ < RingMax[r.name] THEN @ + 1 ELSE @,
            !.told = Append(@, what)]

\* A bug to catch: a full ring is listed from its first slot.
FirstStart(r) == 0
\* ring_start: the oldest event.
RingStart(r) == IF r.count < RingMax[r.name] THEN 0 ELSE (r.next - 1) % RingMax[r.name]
Listing(r) == [i \in 1..r.count |-> r.slot[(RingStart(r) + i - 1) % RingMax[r.name]]]

LastOf(n, s) == SubSeq(s, Len(s) - n + 1, Len(s))

\* The trace after the events es, each a tuple.
Traced(es) == IF traceOn THEN FoldLeft(Rec, trace, es) ELSE trace

\* -------------------------------- the journal --------------------------------

\* A full journal starts again, before the event goes in.
Line(j, n, what) ==
  [lines |-> Append(IF Len(j.lines) >= JournalCap THEN <<>> ELSE j.lines,
                    [n |-> n, what |-> what]),
   told  |-> Append(j.told, what)]
Noted(j, n, es) == FoldLeftDomain(LAMBDA k, i : Line(k, n + i - 1, es[i]), j, es)

\* The files f after the events es; the numbers go on.
Journalled(f, es) ==
  /\ files' = [f EXCEPT !.journal = Noted(@, next, es)]
  /\ next' = next + Len(es)
  /\ dirty' = TRUE

\* --------------------------------- commands ----------------------------------

Idle == phase = 0
\* A command line: parse_and_run traces it, then its own events come.
Command(name, es) ==
  /\ Idle /\ left > 0 /\ left' = left - 1
  /\ event' = IF name \in {"notes", "repair"} THEN name ELSE "command"
  /\ trace' = Traced(<<<<"shell", name>>>> \o es)

\* What most commands leave alone.
Rest == UNCHANGED <<test, saved>>
SameFiles == UNCHANGED <<files, next>>
Wrote == SameFiles /\ dirty' = TRUE         \* reports whose text is left out

\* lardkit_bugeye_scan: the probe fails, or finds a number of bad tiles.
Scanned(probe) ==
  [eye EXCEPT !.scans = @ + 1,
              !.bugs  = IF probe = "failed" THEN @ + 1 ELSE IF probe = "bad" THEN 1 ELSE 0]
BugeyeScan(probe, on) ==
  /\ Command("bugeye", <<>>)
  /\ eye' = [Scanned(probe) EXCEPT !.on = @ \/ on]
  /\ replay' = Rec(replay, <<eye'.scans, eye'.bugs>>)
  /\ Wrote /\ Rest
  /\ UNCHANGED <<net, trust, traceOn, netOn, caps, room, view>>
BugeyeOff ==
  /\ Command("bugeye", <<>>)
  /\ eye' = [eye EXCEPT !.on = FALSE]
  /\ SameFiles /\ Rest
  /\ UNCHANGED <<replay, net, trust, traceOn, netOn, caps, room, view, dirty>>
CmdBugeye == BugeyeOff \/ \E probe \in {"failed", "bad", "clean"}, on \in BOOLEAN : BugeyeScan(probe, on)

BugreplayClear ==
  /\ Command("bugreplay", <<>>)
  /\ replay' = EmptyRing("replay")
  /\ Wrote /\ Rest
  /\ UNCHANGED <<net, trust, kit>>
\* bugreplay, trace and netwatch show: the listing goes to its file.
WriteReport(name) ==
  /\ Command(name, <<>>)
  /\ Wrote /\ Rest
  /\ UNCHANGED <<replay, net, trust, kit>>
CmdBugreplay == BugreplayClear \/ WriteReport("bugreplay")

\* lardkit_trace_enable: on is itself an event.
TraceSwitch(on) ==
  /\ Idle /\ left > 0 /\ left' = left - 1 /\ event' = "command"
  /\ traceOn' = on
  /\ LET t == Traced(<<<<"shell", "trace">>>>)
     IN trace' = IF on THEN Rec(t, <<"trace", "enabled">>) ELSE t
  /\ Journalled(files, <<"trace">>)
  /\ Rest /\ UNCHANGED <<replay, net, trust, netOn, eye, caps, room, view>>
TraceClear ==
  /\ Idle /\ left > 0 /\ left' = left - 1 /\ event' = "command"
  /\ trace' = EmptyRing("trace")
  /\ SameFiles /\ Rest
  /\ UNCHANGED <<replay, net, trust, kit, dirty>>
CmdTrace == TraceClear \/ WriteReport("trace") \/ \E on \in BOOLEAN : TraceSwitch(on)

NetwatchSwitch(on) ==
  /\ Command("netwatch", <<>>)
  /\ netOn' = on
  /\ Journalled(files, <<"netwatch">>)
  /\ Rest /\ UNCHANGED <<replay, net, trust, traceOn, eye, caps, room, view>>
NetwatchClear ==
  /\ Command("netwatch", <<>>)
  /\ net' = EmptyRing("net")
  /\ SameFiles /\ Rest
  /\ UNCHANGED <<replay, trust, kit, dirty>>
CmdNetwatch == NetwatchClear \/ WriteReport("netwatch") \/ \E on \in BOOLEAN : NetwatchSwitch(on)

\* A request of http or https is seen by both; a packet by the net ring only.
\* It counts as a command: the bound is the same.
NetworkEvent(kind) ==
  /\ Idle /\ left > 0 /\ left' = left - 1 /\ event' = "command"
  /\ net' = IF netOn THEN Rec(net, <<kind>>) ELSE net
  /\ trace' = IF kind = "http" THEN Traced(<<<<"net", kind>>>>) ELSE trace
  /\ SameFiles /\ Rest
  /\ UNCHANGED <<replay, trust, kit, dirty>>

\* lardkit_trust_set; an unknown subject or capability changes nothing.
TrustSet(s, cap, allow) ==
  /\ Command("trust", <<<<"trust", cap>>>>)
  /\ caps' = [caps EXCEPT ![s] = IF allow THEN @ \cup {cap} ELSE @ \ {cap}]
  /\ trust' = Rec(trust, <<s, cap, allow, caps'[s]>>)
  /\ Journalled(files, <<"trust">>)
  /\ Rest /\ UNCHANGED <<replay, net, traceOn, netOn, eye, room, view>>
TrustHistoryClear ==
  /\ Command("trust", <<>>)
  /\ trust' = EmptyRing("trust")
  /\ SameFiles /\ Rest
  /\ UNCHANGED <<replay, net, kit, dirty>>
CmdTrust == \E s \in Subjects, cap \in Caps, allow \in BOOLEAN : TrustSet(s, cap, allow)

\* journal add and clear: a clear starts the numbers again.
JournalAdd ==
  /\ Command("journal", <<>>)
  /\ Journalled(files, <<"user">>)
  /\ Rest /\ UNCHANGED <<replay, net, trust, kit>>
JournalClear ==
  /\ Command("journal", <<>>)
  /\ files' = [files EXCEPT !.journal = [lines |-> <<>>, told |-> <<>>]]
  /\ next' = 1 /\ dirty' = TRUE
  /\ Rest /\ UNCHANGED <<replay, net, trust, kit>>
CmdJournal == JournalAdd \/ JournalClear

CmdBootreplay ==
  /\ Command("bootreplay", <<>>)
  /\ Journalled(files, <<"bootreplay">>)
  /\ Rest /\ UNCHANGED <<replay, net, trust, kit>>

\* panicroom enter and exit; a capsule writes the reports it links to.
PanicRoom(on) ==
  /\ Command("panicroom", <<>>)
  /\ room' = [room EXCEPT !.active = on, !.entries = IF on THEN @ + 1 ELSE @]
  /\ SameFiles /\ Rest
  /\ UNCHANGED <<replay, net, trust, traceOn, netOn, eye, caps, view, dirty>>
Capsule ==
  /\ Command("capsule", <<>>)
  /\ room' = [room EXCEPT !.capsules = @ + 1]
  /\ Wrote /\ Rest
  /\ UNCHANGED <<replay, net, trust, traceOn, netOn, eye, caps, view>>
CmdPanicroom == Capsule \/ \E on \in BOOLEAN : PanicRoom(on)

\* userlaw reset; the user edits the file as any other.
UserlawReset ==
  /\ Command("userlaw", <<>>)
  /\ files' = [files EXCEPT !.law = "default"] /\ dirty' = TRUE
  /\ Rest /\ UNCHANGED <<replay, net, trust, kit, next>>
UserlawEdit ==
  /\ Command("edit", <<>>)
  /\ files' = [files EXCEPT !.law = "edited"] /\ dirty' = TRUE
  /\ Rest /\ UNCHANGED <<replay, net, trust, kit, next>>

\* lardkit_notes_append: a note too long for notes.lardd leaves what fits of
\* it there and does not reach notes.txt.
NoNotes == [doc |-> <<>>, txt |-> <<>>]
NotesAdd(n, text) ==
  IF Len(n.doc) < NotesCap THEN [doc |-> Append(n.doc, text), txt |-> Append(n.txt, text)]
  ELSE [n EXCEPT !.doc = [@ EXCEPT ![Len(@)] = "note and a part"]]
CmdLarddnotes ==
  /\ Command("notes", <<>>)
  /\ \E n \in {NotesAdd(files.notes, "note"), NoNotes} : files' = [files EXCEPT !.notes = n]
  /\ dirty' = TRUE
  /\ Rest /\ UNCHANGED <<replay, net, trust, kit, next>>

\* lardkit_larsview_open: the same document again keeps the one before it.
Opened(v, d) ==
  [v EXCEPT !.path = d, !.prev = IF v.path = d THEN @ ELSE v.path,
            !.shown = IF v.path = d THEN @ ELSE Append(@, d)]
ViewOpen(d) ==
  /\ Command("larsview", <<>>)
  /\ view' = Opened(view, d)
  /\ SameFiles /\ Rest
  /\ UNCHANGED <<replay, net, trust, traceOn, netOn, eye, caps, room, dirty>>
ViewBack == view.prev # "" /\ ViewOpen(view.prev)
CmdLarsview == ViewBack \/ \E d \in Docs : ViewOpen(d)

\* ----------------------------- the self-test ---------------------------------

\* post_baseline_parse_file
Previous(f) == SubSeq(f.base, 1, IF Len(f.base) < BaselineMax THEN Len(f.base) ELSE BaselineMax)
Begin(f) == [prev |-> Previous(f), cur |-> <<>>, changes |-> 0, regressions |-> 0]

\* lardkit_post_baseline_observe: against the first of that name; nothing
\* more is observed when the table is full.
Observe(p, name, ok) ==
  LET i == SelectInSeq(p.prev, LAMBDA e : e.name = name)
      differs == i > 0 /\ p.prev[i].ok # ok
  IN IF Len(p.cur) >= BaselineMax THEN p
     ELSE [p EXCEPT !.cur = Append(@, [name |-> name, ok |-> ok]),
                    !.changes = IF differs THEN @ + 1 ELSE @,
                    !.regressions = IF differs /\ ~ok THEN @ + 1 ELSE @]

PostStart ==
  /\ Command("post", <<>>)
  /\ post' = Begin(files)
  /\ phase' = 1 /\ results' = <<>>
  /\ UNCHANGED <<replay, net, trust, kit, files, next, dirty, saved>>

\* post_check, with the baseline as p
Check(name, ok, p) ==
  /\ phase \in DOMAIN Checks /\ Checks[phase] = name
  /\ post' = Observe(p, name, ok)
  /\ results' = Append(results, ok)
  /\ phase' = phase + 1
  /\ event' = "check"
PlainCheck(name, ok) ==
  /\ name # "kit"
  /\ Check(name, ok, post)
  /\ UNCHANGED <<rings, kit, files, next, dirty, saved, left>>

\* A bug to catch: what the kit's test of the baseline did is kept.
KeptKit(ok) ==
  /\ Check("kit", ok, Observe(Begin(files), "selftest", TRUE))
  /\ files' = [files EXCEPT !.base = <<[name |-> "selftest", ok |-> TRUE]>>]
  /\ dirty' = TRUE
  /\ UNCHANGED <<rings, kit, next, saved, left>>

\* lardkit_selftest: it tries the kit on the user's own files, then puts
\* s_lardkit back, with the baseline of the test that called it, and the
\* files stay.  The first step that fails ends it, with the files as they are;
\* in the last one the files are those of a test that passes.
KitSteps == <<"trace", "netwatch", "selftest", "base", "bootreplay", "rollback", "trust",
              "cfgprof", "law", "notes">>
KitFiles(n) ==
  LET done == SubSeq(KitSteps, 1, n)
      events == SelectSeq(done, LAMBDA s : s \notin {"base", "law", "notes"})
      Did(step, new, old) == IF step \in Range(done) THEN new ELSE old
  IN [files EXCEPT
       !.journal = Noted(@, next, events),
       !.base  = Did("base", <<[name |-> "selftest", ok |-> TRUE]>>, @),
       !.law   = Did("law", "default", @),
       !.notes = Did("notes", NotesAdd(NoNotes, "selftest note"), @)]
KitCheck(ok) ==
  /\ Check("kit", ok, post)
  /\ \E n \in KitStops \cup {Len(KitSteps)} : (ok => n = Len(KitSteps)) /\ files' = KitFiles(n)
  /\ dirty' = TRUE
  /\ UNCHANGED <<rings, kit, next, saved, left>>

\* lardkit_post_baseline_finish
PostFinish ==
  /\ phase = Len(Checks) + 1
  /\ phase' = 0 /\ event' = "posted" /\ results' = <<>>
  /\ LET f == [files EXCEPT !.base = post.cur,
                            !.truth = [i \in DOMAIN Checks |-> IF results[i] THEN "pass" ELSE "fail"]]
     IN Journalled(f, IF post.regressions > 0 THEN <<"post">> ELSE <<>>)
  /\ UNCHANGED <<rings, kit, post, saved, left>>

\* ------------------------------ saving, booting ------------------------------

Sync ==
  /\ Command("sync", <<>>) /\ online
  /\ disk' = files /\ dirty' = FALSE
  /\ SameFiles /\ UNCHANGED <<replay, net, trust, kit, test, online>>

\* A bug to catch: what was not saved is read back.
LoadFirst == [files |-> IF online THEN disk ELSE files, disk |-> disk]
\* lardkit_lfsdoctor_scan(1): it saves what is not saved, else reads back.
Repaired == IF ~online THEN [files |-> files, disk |-> disk]
            ELSE IF dirty THEN [files |-> files, disk |-> files]
            ELSE [files |-> disk, disk |-> disk]
\* The report of a scan or a repair is written after it.
CmdLfsdoctor(repair) ==
  /\ Command(IF repair THEN "repair" ELSE "lfsdoctor", <<>>)
  /\ files' = IF repair THEN Repaired.files ELSE files
  /\ disk' = IF repair THEN Repaired.disk ELSE disk
  /\ dirty' = TRUE
  /\ UNCHANGED <<replay, net, trust, kit, test, next, online>>
\* oldcheck only counts
CmdOldcheck ==
  /\ Command("oldcheck", <<>>)
  /\ SameFiles /\ Rest
  /\ UNCHANGED <<replay, net, trust, kit, dirty>>

\* lardkit_init
Fresh ==
  /\ replay' = EmptyRing("replay") /\ trace' = EmptyRing("trace")
  /\ net' = EmptyRing("net") /\ trust' = EmptyRing("trust")
  /\ traceOn' = FALSE /\ netOn' = FALSE
  /\ eye' = [on |-> FALSE, scans |-> 0, bugs |-> 0]
  /\ caps' = [s \in Subjects |-> {}]
  /\ next' = 1
  /\ post' = [prev |-> <<>>, cur |-> <<>>, changes |-> 0, regressions |-> 0]
  /\ room' = [active |-> FALSE, entries |-> 0, capsules |-> 0]
  /\ view' = [path |-> Home, prev |-> "", shown |-> <<Home>>]
  /\ phase' = 0 /\ results' = <<>>

\* The machine starts again, from a command or from a panic in a self-test.
\* A panic may save the files first; the baseline among them is the kit's own
\* when the check of the kit is done and the test is not.
Boot ==
  /\ left > 0 /\ left' = left - 1 /\ event' = "boot"
  /\ disk' = disk /\ files' = disk
  /\ dirty' = FALSE /\ Fresh /\ UNCHANGED online
NoTruth == [i \in DOMAIN Checks |-> "none"]
PanicInTest ==
  /\ ~Idle /\ online /\ left > 0 /\ left' = left - 1 /\ event' = "boot"
  /\ disk' = [files EXCEPT !.truth = IF Len(files.base) = 1 /\ files.base[1].name = "selftest"
                                     THEN NoTruth ELSE @]
  /\ files' = disk'
  /\ dirty' = FALSE /\ Fresh /\ UNCHANGED online

\* The files of a new disk, or with the baseline of an earlier self-test.
BaseOf(truth) == IF truth = NoTruth THEN <<>>
                 ELSE [i \in 1..Observed |-> [name |-> Checks[i], ok |-> truth[i] = "pass"]]
Init ==
  /\ replay = EmptyRing("replay") /\ trace = EmptyRing("trace")
  /\ net = EmptyRing("net") /\ trust = EmptyRing("trust")
  /\ traceOn = FALSE /\ netOn = FALSE
  /\ eye = [on |-> FALSE, scans |-> 0, bugs |-> 0]
  /\ caps = [s \in Subjects |-> {}]
  /\ next = 1
  /\ post = [prev |-> <<>>, cur |-> <<>>, changes |-> 0, regressions |-> 0]
  /\ room = [active |-> FALSE, entries |-> 0, capsules |-> 0]
  /\ view = [path |-> Home, prev |-> "", shown |-> <<Home>>]
  /\ \E truth \in {NoTruth, [i \in DOMAIN Checks |-> "pass"]} :
       files = [journal |-> [lines |-> <<>>, told |-> <<>>], base |-> BaseOf(truth),
                notes |-> NoNotes, law |-> "default", truth |-> truth]
  /\ disk = files /\ dirty = FALSE /\ online \in BOOLEAN
  /\ phase = 0 /\ results = <<>>
  /\ event = "boot" /\ left = MaxCommands

Next ==
  \/ CmdBugeye \/ CmdBugreplay \/ CmdTrace \/ CmdNetwatch
  \/ \E kind \in {"http", "udp-recv"} : NetworkEvent(kind)
  \/ CmdTrust \/ TrustHistoryClear
  \/ CmdJournal \/ CmdBootreplay \/ CmdPanicroom
  \/ UserlawReset \/ UserlawEdit \/ CmdLarddnotes \/ CmdLarsview
  \/ PostStart \/ PostFinish
  \/ \E name \in ToSet(Checks), ok \in BOOLEAN : PlainCheck(name, ok)
  \/ \E ok \in BOOLEAN : KitCheck(ok)
  \/ Sync \/ CmdOldcheck \/ \E repair \in BOOLEAN : CmdLfsdoctor(repair)
  \/ Boot \/ PanicInTest

Spec == Init /\ [][Next]_vars

\* -------------------------------- properties ---------------------------------

TypeOK ==
  /\ \A r \in {replay, trace, net, trust} : r.count \in 0..RingMax[r.name] /\ r.next > r.count
  /\ traceOn \in BOOLEAN /\ netOn \in BOOLEAN /\ dirty \in BOOLEAN /\ online \in BOOLEAN
  /\ caps \in [Subjects -> SUBSET Caps]
  /\ Len(post.cur) <= BaselineMax /\ Len(post.prev) <= BaselineMax
  /\ view.path \in Docs /\ phase \in 0..(Len(Checks) + 1)
  /\ left \in 0..MaxCommands

\* A ring lists the latest events, oldest first, with their numbers in a row.
RingIsLatest(r) ==
  /\ [i \in 1..r.count |-> Listing(r)[i].what] = LastOf(r.count, r.told)
  /\ \A i \in 2..r.count : Listing(r)[i].seq = Listing(r)[i - 1].seq + 1
  /\ r.count = Len(r.told) \/ r.count = RingMax[r.name]

\* Each record tells what happened last, however long it went on, whatever
\* was cleared and whatever a self-test did: the rings, the journal, which
\* never loses the event that made it start again, the trust history, whose
\* latest entry for a subject says what the subject may do, and the viewer,
\* whose back leads to the document shown before (lardkit.c).
RecordsAreKept ==
  /\ \A r \in {replay, trace, net, trust} : RingIsLatest(r)
  /\ \A s \in Subjects :
       LET mine == SelectSeq(Listing(trust), LAMBDA e : e.what[1] = s)
       IN mine # <<>> => Last(mine).what[4] = caps[s]
  /\ LET j == files.journal
     IN /\ [i \in DOMAIN j.lines |-> j.lines[i].what] = LastOf(Len(j.lines), j.told)
        /\ j.told # <<>> => j.lines # <<>>
  /\ Len(view.shown) > 1 => view.prev = view.shown[Len(view.shown) - 1]

\* The regressions a self-test reports are the checks, among the first
\* BaselineMax, that passed in the self-test before and fail now, although the
\* test of the kit writes a baseline of its own in between, and after boots
\* (lardkit_post_baseline_observe, lardkit_selftest).
RegressionsAreTold ==
  [][event' = "posted" =>
       post.regressions = Cardinality({i \in 1..Observed : files.truth[i] = "pass" /\ ~results[i]})]_vars

\* A repair loses no change of a file (lardkit_lfsdoctor_scan).
RepairKeepsFiles == [][event' = "repair" => files' = files]_vars

\* os/README.md: "notes show|add|clear edits the writable notes.lardd
\* document": nothing but a clear, a boot or a read from disk takes a note away.
NotesStay ==
  [][ToSet(files.notes.txt) \ ToSet(files'.notes.txt) # {} => event' \in {"notes", "boot", "repair"}]_vars

\* os/ARCHITECTURE.md: journal.lardd captures "ordered" events: its numbers grow.
JournalIsOrdered ==
  \A i, k \in DOMAIN files.journal.lines :
    i < k => files.journal.lines[i].n < files.journal.lines[k].n

\* lardkit.c, in the report: where nothing is unsaved a "repair refreshes from
\* LPST": a repair of clean files leaves them clean.
RepairRefreshes == [][event' = "repair" /\ ~dirty => ~dirty']_vars

=============================================================================
