------------------------------- MODULE Devices -------------------------------
(***************************************************************************)
(* The small devices and what the user sets about them: the clock (rtc.c)  *)
(* and its calendars and settings (lardtime.c), the speaker (lsound.c) and *)
(* the table of Bluetooth devices (bluetooth.c); and what comes in by the  *)
(* PS/2 controller (ps2.c) and the receive ring of the network card        *)
(* (rtl8139.c).  Times are in hours, zones in minutes; a saved file is the *)
(* sequence of its settings, a packet the sequence of its bytes.           *)
(***************************************************************************)
EXTENDS Integers, Sequences, SequencesExt, FiniteSets

CONSTANTS
  Zones,      \* what the user gives for a zone, in minutes
  ClockFiles, \* what the user writes into timecfg.lardd
  SoundLines, \* the sounds: name -> its lines
  BootSounds, \* names of boot sounds, as the sequences of their words
  EventMax,   \* LSOUND_EVENT_MAX
  Addresses,  \* of Bluetooth devices; "bad" is none
  DeviceMax, LogMax, \* LBT_DEVICE_MAX, LBT_LOG_MAX
  Starts,     \* dates the chip may show when it is read first
  Ring, Buffer, \* sizes of the card's ring and of RX_BUF_SIZE
  MaxMoves,   \* bound: what the user does at keyboard and mouse
  MaxSteps    \* bound: steps of a behaviour

DevicesAssumption ==
  /\ Zones \subseteq Int /\ {EventMax, DeviceMax, LogMax, Ring, Buffer, MaxMoves, MaxSteps} \subseteq Nat
  /\ LogMax > 0 /\ Ring > 0 /\ Buffer >= Ring /\ \A s \in Starts : DOMAIN s = {"y", "m", "d", "h"}

VARIABLES
  chip,     \* what the clock chip shows
  regs,     \* what has been read of it, and when that began
  clock,    \* s_timecfg
  timecfg,  \* timecfg.lardd
  sound,    \* the settings of lsound.c and what it says it played last
  soundcfg, \* sound.lardd
  heard,    \* ghost: the events of the last play, in order
  bt,       \* s_lbt
  report,   \* bt.lardd
  events,   \* ghost: all that has been logged since boot
  wire,     \* bytes in the PS/2 controller, oldest first
  kbd,      \* the statics of ps2_kbd_poll
  aux,    \* the mouse, and what ps2.c knows of it
  boot,     \* where ps2_mouse_init is
  down, made, came, \* ghosts: keys that are down, what the user did, what was handed on
  card,     \* the ring in memory, where the card writes and the driver reads
  frames,   \* ghosts: the frames that came, and those handed on
  did,      \* ghost: what the last step was
  used      \* steps so far
clockVars == <<chip, regs, clock, timecfg>>
soundVars == <<sound, soundcfg, heard>>
btVars == <<bt, report, events>>
inputVars == <<wire, kbd, aux, boot, down, made, came>>
cardVars == <<card, frames>>
vars == <<clockVars, soundVars, btVars, inputVars, cardVars, did, used>>

Counted(what) == used < MaxSteps /\ used' = used + 1 /\ did' = what

\* --------------------------------- calendar ---------------------------------

\* civil_is_leap, civil_month_days
Leap(y) == (y % 4 = 0 /\ y % 100 # 0) \/ y % 400 = 0
MonthDays(y, m) == IF m = 2 /\ Leap(y) THEN 29 ELSE <<31, 28, 31, 30, 31, 30, 31, 31, 30, 31, 30, 31>>[m]

\* days_before_month
BeforeMonth(y, m) == FoldLeft(LAMBDA n, k : n + MonthDays(y, k), 0, [k \in 1 .. m - 1 |-> k])

\* days_before_year: the leap day of year y itself is among them.
BeforeYear(y) == y * 365 + y \div 4 - y \div 100 + y \div 400

\* lardtime_from_civil, in days; a day the month does not have is refused.
FromCivil(d) ==
  IF d.d > MonthDays(d.y, d.m) THEN -1 ELSE BeforeYear(d.y) + BeforeMonth(d.y, d.m) + d.d - 1

\* lardtime_to_civil: December takes what the other months leave.
ToCivil(n) ==
  LET y == CHOOSE k \in n \div 365 - 3 .. n \div 365 + 1 : BeforeYear(k) <= n /\ n < BeforeYear(k + 1)
      yday == n - BeforeYear(y)
      m == CHOOSE k \in 1 .. 12 : /\ k = 12 \/ yday < BeforeMonth(y, k + 1)
                                  /\ yday >= BeforeMonth(y, k)
  IN [y |-> y, m |-> m, d |-> yday - BeforeMonth(y, m) + 1]

\* civil_to_unix, in days: what rtc.c makes of a date, with the years it counts.
UnixDays(d) ==
  365 * (d.y - 1970) + Cardinality({k \in 1970 .. d.y - 1 : Leap(k)}) + BeforeMonth(d.y, d.m) + d.d - 1

\* lardtime_unix_to_ticks
Ticks(unix) == unix + FromCivil([y |-> 1970, m |-> 1, d |-> 1])

\* lunar_year_has_leap6, lunar_month_len
LeapSixth(y) == y % 19 \in {0, 3, 6, 8, 11, 14, 17}
MoonDays(l) == IF (l.y + l.m + (IF l.leap THEN 5 ELSE 0)) % 2 = 1 THEN 29 ELSE 30

Moon(y, m, leap) == [y |-> y, m |-> m, leap |-> leap]
\* lunar_next, lunar_prev
NextMoon(l) ==
  IF ~l.leap /\ l.m = 6 /\ LeapSixth(l.y) THEN Moon(l.y, 6, TRUE)
  ELSE IF l.m = 12 THEN Moon(l.y + 1, 1, FALSE) ELSE Moon(l.y, l.m + 1, FALSE)
PrevMoon(l) ==
  IF l.leap THEN Moon(l.y, l.m, FALSE)
  ELSE IF l.m = 1 THEN Moon(IF l.y > 0 THEN l.y - 1 ELSE 0, 12, FALSE)
  ELSE IF l.m = 7 /\ LeapSixth(l.y) THEN Moon(l.y, 6, TRUE) ELSE Moon(l.y, l.m - 1, FALSE)

\* lardtime_lunar_from_civil: month by month from the day it is anchored to.
RECURSIVE LunarFrom(_, _)
LunarFrom(l, delta) ==
  IF delta < 0 THEN LunarFrom(PrevMoon(l), delta + MoonDays(PrevMoon(l)))
  ELSE IF delta >= MoonDays(l) THEN LunarFrom(NextMoon(l), delta - MoonDays(l))
  ELSE [moon |-> l, d |-> delta + 1]
Lunar(d) == LunarFrom(Moon(2026, 1, FALSE), FromCivil(d) - FromCivil([y |-> 2026, m |-> 2, d |-> 17]))

\* ----------------------------------- clock -----------------------------------

\* An hour passes in the chip: the only other party to a reading.
NextHour(c) ==
  LET day == c.h = 23
      month == day /\ c.d = MonthDays(c.y, c.m)
      year == month /\ c.m = 12
  IN [h |-> IF day THEN 0 ELSE c.h + 1,
      d |-> IF month THEN 1 ELSE IF day THEN c.d + 1 ELSE c.d,
      m |-> IF year THEN 1 ELSE IF month THEN c.m + 1 ELSE c.m,
      y |-> IF year THEN c.y + 1 ELSE c.y]
Tick ==
  /\ Counted("tick") /\ chip' = NextHour(chip)
  /\ UNCHANGED <<regs, clock, timecfg, soundVars, btVars>>

Hours(c) == UnixDays(c) * 24 + c.h

\* A bug to catch: the year is read first.
ReadDownwards ==
  LET n == Len(regs.read)
      field == <<"y", "m", "d", "h">>[n + 1]
  IN /\ n < 4 /\ Counted("read")
     /\ regs' = [read |-> Append(regs.read, chip[field]), since |-> IF n = 0 THEN Hours(chip) ELSE regs.since,
                 got |-> IF n < 3 THEN -1
                         ELSE Hours([y |-> regs.read[1], m |-> regs.read[2], d |-> regs.read[3], h |-> chip.h])]
     /\ UNCHANGED <<chip, clock, timecfg, soundVars, btVars>>

\* rtc_unix_seconds: register after register, from the seconds up, without a
\* look at whether the chip is changing them.
ReadRegister ==
  LET n == Len(regs.read)
      field == <<"h", "d", "m", "y">>[n + 1]
  IN /\ n < 4 /\ Counted("read")
     /\ regs' = [read |-> Append(regs.read, chip[field]), since |-> IF n = 0 THEN Hours(chip) ELSE regs.since,
                 got |-> IF n < 3 THEN -1
                         ELSE Hours([h |-> regs.read[1], d |-> regs.read[2], m |-> regs.read[3], y |-> chip.y])]
     /\ UNCHANGED <<chip, clock, timecfg, soundVars, btVars>>

\* cfg_defaults
Defaults == [zone |-> 540, dst |-> 0, default |-> 0, topbar |-> 1, battery |-> 1]
Allows(key, val) ==
  IF key = "zone" THEN val \in -1439 .. 1439 ELSE IF key = "default" THEN val \in 0 .. 2 ELSE val \in {0, 1}

\* apply_cfg_word: a value that does not parse changes nothing.
ApplyWord(c, line) ==
  IF line.key \in DOMAIN c /\ Allows(line.key, line.val) THEN [c EXCEPT ![line.key] = line.val] ELSE c

\* load_cfg_from_file: behind an empty line the next one is skipped.
Loaded(lines) ==
  FoldLeft(LAMBDA s, l : IF s.skip THEN [s EXCEPT !.skip = FALSE]
                         ELSE IF l.key = "" THEN [s EXCEPT !.skip = TRUE]
                         ELSE [s EXCEPT !.cfg = ApplyWord(@, l)],
           [cfg |-> Defaults, skip |-> FALSE], lines).cfg

\* lardtime_config_save
Line(key, val) == [key |-> key, val |-> val]
Saved(c) == <<Line("zone", c.zone), Line("dst", c.dst), Line("default", c.default),
              Line("topbar", c.topbar), Line("battery", c.battery)>>

\* timecfg zone, dst, default, topbar, battery: a zone below -23:00 is refused
\* here, and taken from the file.
SetClock(key, val) ==
  LET refused == key = "zone" /\ val < -1380 IN
  /\ Counted(IF refused THEN "refused" ELSE "set") /\ Allows(key, val)
  /\ IF refused THEN UNCHANGED <<clock, timecfg>>
     ELSE clock' = [clock EXCEPT ![key] = val] /\ timecfg' = Saved(clock')
  /\ UNCHANGED <<chip, regs, soundVars, btVars>>

\* lardtime_config_reload, and lardtime_config_init at boot
ReloadClock ==
  /\ Counted("load") /\ clock' = Loaded(timecfg)
  /\ UNCHANGED <<chip, regs, timecfg, soundVars, btVars>>
EditClock(lines) ==
  /\ Counted("edit") /\ timecfg' = lines /\ UNCHANGED <<chip, regs, clock, soundVars, btVars>>

\* lardtime_now_configured and lardtime_format_topbar at an hour of the RTC.
Local(unix) == Ticks(unix \div 24) * 24 + (unix % 24) + clock.zone \div 60 + clock.dst
View(unix) ==
  LET d == ToCivil(Local(unix) \div 24)
  IN IF clock.default = 2 THEN <<"lunar", Lunar(d)>> ELSE IF clock.default = 1 THEN <<"solar", d>>
     ELSE <<"dangun", [d EXCEPT !.y = @ + 2333]>>

ClockInit ==
  /\ chip \in Starts /\ regs = [read |-> <<>>, since |-> 0, got |-> -1]
  /\ clock = Defaults /\ timecfg = Saved(Defaults)
RtcNext == Tick \/ ReadRegister
ClockNext ==
  \/ \E zone \in Zones : SetClock("zone", zone)
  \/ \E key \in {"dst", "topbar", "battery"}, on \in {0, 1} : SetClock(key, on)
  \/ \E view \in 0 .. 2 : SetClock("default", view)
  \/ \E lines \in ClockFiles : EditClock(lines)
  \/ ReloadClock

\* ----------------------------------- sound -----------------------------------

\* write_config; read_word ends a value at the first space.
SoundFile(s) == <<Line("SOUND", <<s.on>>), Line("BOOT", <<s.boot>>), Line("FX", <<s.fx>>), Line("BOOTFILE", s.file)>>
ParseSound(s, lines) ==
  FoldLeft(LAMBDA t, l : CASE l.key = "SOUND" -> [t EXCEPT !.on = l.val[1]]
                           [] l.key = "BOOT" -> [t EXCEPT !.boot = l.val[1]]
                           [] l.key = "FX" -> [t EXCEPT !.fx = l.val[1]]
                           [] l.key = "BOOTFILE" -> [t EXCEPT !.file = <<l.val[1]>>]
                           [] OTHER -> t, s, lines)

\* lsound_set_enabled, _set_boot_enabled, _set_fx_enabled, _set_boot_file
SetSound(s) ==
  /\ Counted("sound") /\ sound' = s /\ soundcfg' = SoundFile(s)
  /\ UNCHANGED <<heard, clockVars, btVars>>

\* lsound_reload: without a file one is written, and what the file does not say
\* stays as it is.
ReloadSound ==
  /\ Counted("reload")
  /\ IF soundcfg = <<>> THEN soundcfg' = SoundFile(sound) /\ UNCHANGED sound
     ELSE sound' = [ParseSound(sound, soundcfg) EXCEPT !.err = 0] /\ UNCHANGED soundcfg
  /\ UNCHANGED <<heard, clockVars, btVars>>
EditSound(n) ==
  /\ Counted("edit") /\ n <= Len(soundcfg) /\ soundcfg' = SubSeq(soundcfg, 1, n)
  /\ UNCHANGED <<sound, heard, clockVars, btVars>>

Sounding == {"NOTE", "REST", "SWEEP"}
\* parse_lsnd_text with play set: each event is played as it is read.
Play(lines) ==
  FoldLeft(LAMBDA t, l : IF t.err # 0 THEN t
                         ELSE IF Len(t.heard) >= EventMax THEN [t EXCEPT !.left = TRUE]
                         ELSE CASE l = "LSND" -> [t EXCEPT !.seen = TRUE]
                                [] l \in Sounding -> [t EXCEPT !.heard = Append(@, l)]
                                [] l = "END" -> t
                                [] OTHER -> [t EXCEPT !.err = 15],
           [seen |-> FALSE, left |-> FALSE, heard |-> <<>>, err |-> 0], lines)
Verdict(t) == IF t.err # 0 THEN t.err ELSE IF ~t.seen THEN 16 ELSE IF t.left THEN 17 ELSE 0

\* lsound_play_file: with sound off the name is recorded all the same.
PlayFile(name) ==
  LET t == Play(SoundLines[name]) IN
  /\ IF ~sound.on THEN sound' = [sound EXCEPT !.last = name, !.err = 0] /\ heard' = <<>>
     ELSE IF name \notin DOMAIN SoundLines THEN sound' = [sound EXCEPT !.err = 21] /\ heard' = <<>>
     ELSE /\ heard' = t.heard
          /\ sound' = IF Verdict(t) # 0 THEN [sound EXCEPT !.err = Verdict(t)]
                      ELSE [sound EXCEPT !.last = name, !.err = 0, !.events = Len(t.heard)]
  /\ UNCHANGED <<soundcfg, clockVars, btVars>>

\* lsound_play_effect and lsound_boot
PlayEffect(name) ==
  IF (name = "boot" /\ ~sound.boot) \/ (name # "boot" /\ ~sound.fx)
  THEN heard' = <<>> /\ UNCHANGED <<sound, soundcfg, clockVars, btVars>>
  ELSE PlayFile(IF name = "boot" THEN sound.file ELSE <<name>>)

SoundInit ==
  /\ sound = [on |-> TRUE, boot |-> TRUE, fx |-> TRUE, file |-> <<"boot.lsnd">>, last |-> <<>>, err |-> 0, events |-> 0]
  /\ soundcfg = <<>> /\ heard = <<>>
SoundNext ==
  \/ \E on \in BOOLEAN : SetSound([sound EXCEPT !.on = on])
  \/ \E on \in BOOLEAN : SetSound([sound EXCEPT !.boot = on])
  \/ \E on \in BOOLEAN : SetSound([sound EXCEPT !.fx = on])
  \/ \E name \in BootSounds : SetSound([sound EXCEPT !.file = name])
  \/ ReloadSound
  \/ \E n \in 0 .. 4 : EditSound(n)
  \/ \E name \in DOMAIN SoundLines \cup BootSounds : Counted("play") /\ PlayFile(name)
  \/ \E name \in {"boot", "ok.lsnd"} : Counted("play") /\ PlayEffect(name)

\* --------------------------------- Bluetooth ---------------------------------

\* find_device
At(b, a) == {i \in DOMAIN b.dev : b.dev[i].addr = a}

\* A bug to catch: a full log overwrites its newest entry.
LogOverNewest(b, action) ==
  LET full == b.count >= LogMax
      i == (b.head + (IF full THEN b.count - 1 ELSE b.count)) % LogMax
  IN [b EXCEPT !.log[i + 1] = [seq |-> b.seq + 1, action |-> action], !.seq = @ + 1,
               !.count = IF full THEN @ ELSE @ + 1]

\* log_event
Logged(b, action) ==
  LET full == b.count >= LogMax
      i == IF full THEN b.head ELSE (b.head + b.count) % LogMax
  IN [b EXCEPT !.log[i + 1] = [seq |-> b.seq + 1, action |-> action], !.seq = @ + 1,
               !.count = IF full THEN @ ELSE @ + 1, !.head = IF full THEN (@ + 1) % LogMax ELSE @]

\* lbt_log_at, for all of the log
Log(b) == [k \in 1 .. b.count |-> b.log[1 + ((b.head + k - 1) % LogMax)]]

\* lbt_write_report
Report(b) == [on |-> b.on, ctl |-> b.ctl, disc |-> b.disc, hid |-> b.hid, dev |-> b.dev,
              scans |-> b.scans, sent |-> b.sent, recv |-> b.recv, err |-> b.err, log |-> Log(b)]

\* A step is either refused, which leaves a reason and no report, or is logged
\* and reported.
Refused(err) ==
  /\ bt' = [bt EXCEPT !.err = err] /\ did' = "refused" /\ UNCHANGED <<report, events>>
Reported(b, action) ==
  /\ bt' = Logged(b, action) /\ report' = Report(bt')
  /\ events' = Append(events, [seq |-> b.seq + 1, action |-> action]) /\ did' = action
Free == used < MaxSteps /\ used' = used + 1 /\ UNCHANGED <<clockVars, soundVars>>

Enable(on) == Free /\ Reported([bt EXCEPT !.on = on, !.err = 0], IF on THEN "on" ELSE "off")
SetDiscoverable(on) ==
  /\ Free
  /\ IF ~bt.on /\ on THEN Refused(1)
     ELSE Reported([bt EXCEPT !.disc = on], IF on THEN "discoverable" ELSE "hidden")
SetHid(on) == Free /\ Reported([bt EXCEPT !.hid = on], IF on THEN "hid-on" ELSE "hid-off")

\* lbt_scan: also a scan that cannot be done is counted, logged and reported.
Scan ==
  Free /\ Reported([bt EXCEPT !.scans = @ + 1, !.err = IF ~bt.on THEN 1 ELSE IF ~bt.ctl THEN 2 ELSE 0], "scan")

\* lbt_add_manual: a known address keeps whether it is paired and trusted.
Added(b, a) ==
  IF At(b, a) = {} THEN [b EXCEPT !.dev = Append(@, [addr |-> a, paired |-> FALSE, trusted |-> FALSE, seen |-> 1])]
  ELSE [b EXCEPT !.dev = [i \in DOMAIN @ |-> IF i \in At(b, a) THEN [@[i] EXCEPT !.seen = @ + 1] ELSE @[i]]]
AddDevice(a) ==
  /\ Free
  /\ IF a = "bad" THEN Refused(3)
     ELSE IF At(bt, a) = {} /\ Len(bt.dev) >= DeviceMax THEN Refused(4)
     ELSE Reported([Added(bt, a) EXCEPT !.err = 0], "add")

Marked(b, a, key, on) ==
  [b EXCEPT !.dev = [i \in DOMAIN @ |-> IF i \in At(b, a) THEN [@[i] EXCEPT ![key] = on] ELSE @[i]]]

\* lbt_pair, lbt_unpair, lbt_trust
Pair(a) ==
  /\ Free
  /\ IF At(bt, a) = {} THEN Refused(5)
     ELSE Reported([Marked(bt, a, "paired", TRUE) EXCEPT !.err = 0], "pair")
Unpair(a) ==
  /\ Free
  /\ IF At(bt, a) = {} THEN Refused(5)
     ELSE Reported(Marked(Marked(bt, a, "paired", FALSE), a, "trusted", FALSE), "unpair")
Trust(a, on) ==
  /\ Free
  /\ IF At(bt, a) = {} THEN Refused(5)
     ELSE IF on /\ \E i \in At(bt, a) : ~bt.dev[i].paired THEN Refused(6)
     ELSE Reported([Marked(bt, a, "trusted", on) EXCEPT !.err = 0], "trust")

\* lbt_send: what no controller takes counts as sent, too.
Send(a, force) ==
  /\ Free
  /\ IF ~bt.on THEN Refused(1) ELSE IF At(bt, a) = {} THEN Refused(5)
     ELSE IF ~force /\ \E i \in At(bt, a) : ~(bt.dev[i].paired /\ bt.dev[i].trusted) THEN Refused(7)
     ELSE Reported([bt EXCEPT !.sent = @ + 1, !.err = IF bt.ctl THEN 0 ELSE 2], "send")

\* lbt_init at boot, which leaves the file as it was saved; and lbt_selftest,
\* which puts all back as it was.
BtInit == [on |-> FALSE, ctl |-> FALSE, disc |-> FALSE, hid |-> FALSE, scans |-> 0, sent |-> 0, recv |-> 0,
           err |-> 0, seq |-> 0, dev |-> <<>>, log |-> [i \in 1 .. LogMax |-> [seq |-> 0, action |-> ""]],
           count |-> 0, head |-> 0]
BtBoot == Free /\ bt' = BtInit /\ events' = <<>> /\ did' = "boot" /\ UNCHANGED report
Selftest == Free /\ report' = Report(bt) /\ did' = "test" /\ UNCHANGED <<bt, events>>

BluetoothInit == bt = BtInit /\ report = Report(BtInit) /\ events = <<>>
BluetoothNext ==
  \/ \E on \in BOOLEAN : Enable(on) \/ SetDiscoverable(on) \/ SetHid(on)
  \/ Scan
  \/ \E a \in Addresses : AddDevice(a) \/ Pair(a) \/ Unpair(a)
  \/ \E a \in Addresses, on \in BOOLEAN : Trust(a, on) \/ Send(a, on)
  \/ BtBoot
  \/ Selftest

\* ---------------------------- keyboard and mouse ----------------------------

\* The keys: y, an arrow (whose code behind the prefix is the pad's 8 without
\* it), shift and the right Ctrl.
KeySet == {"y", "up", "shift", "rctrl"}
Prefixed == {"up", "rctrl"}
CodeOf == [y |-> "y", up |-> "48", shift |-> "shift", rctrl |-> "ctrl"]
KeyByte(b, make) == [from |-> "key", b |-> b, make |-> make]
MouseByte(b, sync) == [from |-> "mouse", b |-> b, make |-> sync]

\* scancode_to_ascii, with nothing for what it does not know
Ascii == [y |-> <<"y", "Y">>]

\* What a key is for while others are held.
Meant(k) ==
  IF k = "y" /\ "rctrl" \in down THEN <<"CTRL_Y">> ELSE IF k = "up" THEN <<"UP">>
  ELSE IF k = "y" THEN <<Ascii[k][IF "shift" \in down THEN 2 ELSE 1]>> ELSE <<>>

\* The user at the keyboard and the mouse.
UserStep ==
  /\ used < MaxMoves /\ used' = used + 1
  /\ UNCHANGED <<clockVars, soundVars, btVars, cardVars, did, kbd, boot, came>>
KeyStep == UserStep /\ UNCHANGED aux
PressKey(k) ==
  /\ KeyStep /\ k \notin down /\ down' = down \cup {k}
  /\ wire' = wire \o (IF k \in Prefixed THEN <<KeyByte("E0", TRUE)>> ELSE <<>>) \o <<KeyByte(CodeOf[k], TRUE)>>
  /\ made' = [made EXCEPT !.keys = @ \o Meant(k), !.raced = @ \/ boot # 0]
ReleaseKey(k) ==
  /\ KeyStep /\ k \in down /\ down' = down \ {k}
  /\ wire' = wire \o (IF k \in Prefixed THEN <<KeyByte("E0", TRUE)>> ELSE <<>>) \o <<KeyByte(CodeOf[k], FALSE)>>
  /\ made' = [made EXCEPT !.raced = @ \/ boot # 0]
MoveMouse ==
  LET n == IF aux.wheel THEN 4 ELSE 3
      packet == [i \in 1 .. n |-> <<Len(made.moves) + 1, i>>]
  IN /\ UserStep /\ aux.stream
     /\ wire' = wire \o [i \in 1 .. n |-> MouseByte(packet[i], i = 1)]
     /\ made' = [made EXCEPT !.moves = Append(@, packet)] /\ UNCHANGED <<aux, down>>

\* ps2_mouse_init, one mouse_write after the other; it takes what comes next for
\* the answer, also a key.  The mouse sends a fourth byte once it was knocked.
Script == <<"F6", "F3", "200", "F3", "100", "F3", "80", "F2", "ID", "F4">>
MouseInit ==
  LET cmd == Script[boot]
      answer == IF cmd = "F2" THEN <<MouseByte("FA", TRUE), MouseByte(IF aux.can THEN "3" ELSE "0", FALSE)>>
                ELSE IF cmd = "ID" THEN <<>> ELSE <<MouseByte("FA", TRUE)>>
      in == wire \o answer
      ok == in[1].b = "FA"
  IN /\ boot \in DOMAIN Script /\ in # <<>> /\ wire' = Tail(in)
     /\ aux' = [aux EXCEPT !.wheel = @ \/ (cmd = "80" /\ aux.can), !.stream = @ \/ cmd = "F4",
                               !.size = IF cmd = "ID" /\ in[1].b = "3" THEN 4 ELSE @]
     /\ boot' = IF cmd = "F4" \/ (cmd = "F6" /\ ~ok) THEN 0
                ELSE IF cmd = "ID" \/ ~ok THEN Len(Script) ELSE boot + 1
     /\ UNCHANGED <<kbd, down, made, came, clockVars, soundVars, btVars, cardVars, did, used>>

\* A bug to catch: a byte of the keyboard is taken as one of the packet.
TakeAny == boot = 0 /\ wire # <<>>

\* Whether the next byte is one for ps2_mouse_poll
TakeMouse == boot = 0 /\ wire # <<>> /\ wire[1].from = "mouse"

\* ps2_mouse_poll, as often as pump_mouse_input calls it: a first byte without
\* its bit is dropped, a full packet is handed on.
MousePoll ==
  LET pkt == Append(aux.pkt, wire[1].b) IN
  /\ TakeMouse /\ wire' = Tail(wire)
  /\ IF aux.pkt = <<>> /\ ~wire[1].make THEN UNCHANGED <<aux, came>>
     ELSE IF Len(pkt) < aux.size THEN aux' = [aux EXCEPT !.pkt = pkt] /\ UNCHANGED came
     ELSE aux' = [aux EXCEPT !.pkt = <<>>] /\ came' = [came EXCEPT !.moves = Append(@, pkt)]
  /\ UNCHANGED <<kbd, boot, down, made, clockVars, soundVars, btVars, cardVars, did, used>>

\* ps2_kbd_poll: the prefix is forgotten with the key it comes before, but not
\* when that key is let go.
KbdPoll ==
  LET b == wire[1].b
      make == wire[1].make
      Set(k) == kbd' = k /\ UNCHANGED came
      Hand(key) == kbd' = [kbd EXCEPT !.ext = FALSE] /\ came' = [came EXCEPT !.keys = Append(@, key)]
  IN /\ boot = 0 /\ wire # <<>> /\ wire[1].from = "key" /\ wire' = Tail(wire)
     /\ IF b = "E0" THEN Set([kbd EXCEPT !.ext = TRUE])
        ELSE IF b = "shift" THEN Set([kbd EXCEPT !.shift = make, !.ext = FALSE])
        ELSE IF b = "ctrl" THEN Set([kbd EXCEPT !.ctrl = make, !.ext = FALSE])
        ELSE IF ~make THEN Set(kbd)
        ELSE IF kbd.ctrl /\ b = "y" THEN Hand("CTRL_Y")
        ELSE IF kbd.ext THEN (IF b = "48" THEN Hand("UP") ELSE Set([kbd EXCEPT !.ext = FALSE]))
        ELSE IF b = "48" THEN Set(kbd) ELSE Hand(Ascii[b][IF kbd.shift THEN 2 ELSE 1])
     /\ UNCHANGED <<aux, boot, down, made, clockVars, soundVars, btVars, cardVars, did, used>>

\* The mouse has been set up, or is about to be.
InputInit ==
  /\ wire = <<>> /\ kbd = [shift |-> FALSE, ctrl |-> FALSE, ext |-> FALSE] /\ down = {}
  /\ boot \in {0, 1}
  /\ \E can \in BOOLEAN :
       aux = [can |-> can, wheel |-> can /\ boot = 0, stream |-> boot = 0, pkt |-> <<>>,
                size |-> IF can /\ boot = 0 THEN 4 ELSE 3]
  /\ made = [keys |-> <<>>, moves |-> <<>>, raced |-> FALSE] /\ came = [keys |-> <<>>, moves |-> <<>>]
InputNext ==
  \/ \E k \in KeySet : PressKey(k) \/ ReleaseKey(k)
  \/ MoveMouse
  \/ MouseInit \/ MousePoll \/ KbdPoll

\* ------------------------------- network card --------------------------------

\* The card, whose ring is the smallest since rtl8139_init leaves its size bits
\* zero, writes a frame where there is room up to where the driver reads, and
\* goes on behind it; with RCR_WRAP it writes the last one past the end.  A frame
\* is a header and units that show its number; none looks like a header.
CardWrites(len) ==
  LET n == Len(frames.came) + 1
      room == (card.off - card.to) % Ring
  IN /\ used < MaxSteps /\ used' = used + 1 /\ (room = 0 \/ len + 1 < room)
     /\ card' = [card EXCEPT !.mem = [i \in DOMAIN @ |-> IF i = card.to THEN <<"ROK", len>>
                                         ELSE IF i - card.to \in 1 .. len THEN <<"data", n>> ELSE @[i]],
                             !.to = (card.to + 1 + len) % Ring]
     /\ frames' = [frames EXCEPT !.came = Append(@, <<n, len>>)]
     /\ UNCHANGED <<clockVars, soundVars, btVars, inputVars, did>>

\* A bug to catch: the driver goes on from its own place without the header.
AdvanceShort(len) == (card.off + len) % Buffer
\* Where rtl8139_poll_rx reads next
Advance(len) == (card.off + 1 + len) % Buffer
HasFrame == card.mem[card.off][1] = "ROK"

\* rtl8139_poll_rx: equal registers, of which CAPR lags 16 bytes, here a unit,
\* are taken for an empty ring.  A header that is not one is refused, and stays,
\* as would one of a length no card writes or no caller has room for.
PollRx ==
  LET header == card.mem[card.off] IN
  /\ card.to # card.off - 1
  /\ HasFrame
  /\ frames' = [frames EXCEPT !.given = Append(@, <<card.mem[(card.off + 1) % Buffer][2], header[2]>>)]
  /\ card' = [card EXCEPT !.off = Advance(header[2])]
  /\ UNCHANGED <<clockVars, soundVars, btVars, inputVars, did, used>>

CardInit ==
  /\ card = [mem |-> [i \in 0 .. Buffer - 1 |-> <<"none", 0>>], to |-> 0, off |-> 0]
  /\ frames = [came |-> <<>>, given |-> <<>>]
CardNext == (\E len \in {1, 2} : CardWrites(len)) \/ PollRx

Init == ClockInit /\ SoundInit /\ BluetoothInit /\ InputInit /\ CardInit /\ did = "" /\ used = 0

\* -------------------------------- properties ---------------------------------

\* From one day of the RTC to the next the date that is shown goes on: it never
\* stays or goes back, in a common year it is the RTC's own, and the lunar date
\* goes on by a day from every date that exists.
Before(a, b) == a.y < b.y \/ (a.y = b.y /\ (a.m < b.m \/ (a.m = b.m /\ a.d < b.d)))
CalendarGoesOn(d) ==
  LET shown == ToCivil(Ticks(UnixDays(d)))
      after == ToCivil(Ticks(UnixDays(d) + 1))
      moon == Lunar(shown)
  IN /\ Before(shown, after)
     /\ ~Leap(d.y) => shown = d
     /\ FromCivil(shown) # -1 /\ FromCivil(after) # -1 =>
          \/ Lunar(after) = [moon EXCEPT !.d = @ + 1]
          \/ Lunar(after) = [moon |-> NextMoon(moon.moon), d |-> 1] /\ moon.d = MoonDays(moon.moon)

\* A reading of the clock is never before the time it began at, whatever rolls
\* over between two registers.
ReadingIsNotBehind == regs.got # -1 => regs.got >= regs.since

\* What the user sets about the clock or the sound is what the next reload or
\* boot finds in the file.
SettingsAreRestored ==
  /\ did = "set" => Loaded(timecfg) = clock
  /\ did = "sound" => LET back == ParseSound(sound, soundcfg) IN
       /\ back = [sound EXCEPT !.file = <<@[1]>>]
       /\ ParseSound([back EXCEPT !.on = ~@, !.boot = ~@, !.fx = ~@], soundcfg) = back

\* A sound that was accepted was heard whole, and with sound off none is heard.
PlayedIsHeard ==
  did = "play" =>
    /\ ~sound.on => heard = <<>>
    /\ sound.err = 0 /\ heard # <<>> => heard = SelectSeq(SoundLines[sound.last], LAMBDA l : l \in Sounding)

\* Only paired devices are trusted, the log holds the latest events in order,
\* and the report shows what is so, but for the reason of a refusal.
BluetoothIsSound ==
  /\ \A i \in DOMAIN bt.dev : bt.dev[i].trusted => bt.dev[i].paired
  /\ \A i, j \in DOMAIN bt.dev : bt.dev[i].addr = bt.dev[j].addr => i = j
  /\ Log(bt) = SubSeq(events, Len(events) - bt.count + 1, Len(events)) /\ (bt.count = LogMax \/ bt.count = Len(events))
  /\ events # <<>> => [report EXCEPT !.err = bt.err] = Report(bt)

\* If no key came while the mouse was being set up: it is set up, its packets
\* are handed on whole and in order, whatever keys come in between, and once all
\* has been read the modifiers are those that are held.
InputIsSound ==
  boot = 0 /\ ~made.raced =>
    /\ aux.stream /\ aux.size = (IF aux.wheel THEN 4 ELSE 3)
    /\ IsPrefix(came.moves, made.moves)
    /\ wire = <<>> => /\ came.moves = made.moves /\ aux.pkt = <<>>
                      /\ kbd.shift = ("shift" \in down) /\ kbd.ctrl = ("rctrl" \in down)

\* rtl8139.c:32: "Use 16K for safety": the driver finds every frame the card
\* has written.
FramesGoOn == ~HasFrame => frames.given = frames.came

\* What the driver hands on are the frames that came, in order, none cut; and
\* all of them as long as the card has not gone round its ring.
FramesAreInOrder ==
  /\ IsPrefix(frames.given, frames.came)
  /\ FoldLeft(LAMBDA n, f : n + 1 + f[2], 0, frames.came) < Ring => FramesGoOn

\* What the documentation or the code says and the code does not do.
\* os/README.md:1008: "`time`, `date` ... show LardOS Time", whose source is the
\* RTC: a date that is shown is the RTC's.
DateIsReal(d) == ToCivil(Ticks(UnixDays(d))) = d
\* A reading lies between the times it began and ended.
ReadingIsNotAhead == regs.got # -1 /\ did = "read" => regs.got <= Hours(chip)
\* fs.c:1136: "timecfg.lardd so the user can edit it directly": every line counts.
EveryLineCounts ==
  did = "load" => clock = Loaded(SelectSeq(timecfg, LAMBDA l : l.key # ""))
\* lang/LSH.md:131: "editable `LSND` events": a file that is refused is not played.
RefusedIsSilent == did = "play" /\ sound.err # 0 => heard = <<>>
\* os/README.md:136: the policy "lives in writable `sound.lardd`".
NamesAreKept == did = "sound" => ParseSound(sound, soundcfg).file = sound.file
\* lsh.c:7451: "bt: turn bluetooth on first."
DiscoverableMeansOn == bt.disc => bt.on
\* lang/LSH.md:61: "`bt.lardd` keeps visible state/logs."
ReportIsCurrent == report = Report(bt)
\* ps2.c:319: "Extended keys (E0 prefix)": a key without it is an ordinary one,
\* and what is typed is handed on.
KeysAreDecoded ==
  ~made.raced => IsPrefix(came.keys, made.keys) /\ (wire = <<>> => came.keys = made.keys)
\* ps2.c:137: "Fall back to the plain 3-byte packet path if the mouse does not
\* support it": what is sent is what is read.
MouseSizeAgrees == boot = 0 => aux.size = (IF aux.wheel THEN 4 ELSE 3)
=============================================================================
