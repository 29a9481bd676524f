------------------------------ MODULE MCDesktop ------------------------------
(***************************************************************************)
(* What the user holds in gui.c: where windows lie (WindowRects), which    *)
(* program they belong to (Windows), the items of desktop and dock         *)
(* (Desktop) and the Hangul of an input line (Hangul); and the clock, the  *)
(* speaker and the Bluetooth table (Devices).  They share no state here, so*)
(* one behaviour explores one of them; `part` says which.                  *)
(***************************************************************************)
EXTENDS WindowRects, TLC

VARIABLES
  app, winVisible, shown, opened, stack, tb, focused, view, saved, buttonDown, submit, phase,
  desktop, dock, selected, drag, pressed,
  text, cur, input, composing, jamo, at,
  chip, regs, clock, timecfg, sound, soundcfg, heard, bt, report, events,
  wire, kbd, aux, boot, down, made, came, card, frames, did, used,
  day,
  part

MCMonitors == {Interval(0, 2), Interval(2, 1)}
MCFirstRect == ("a" :> Interval(0, 3)) @@ ("b" :> Interval(1, 2))

\* One program of each kind: the browser, the notes and the shell.
Stack == INSTANCE Windows WITH
              Apps <- {"browser", "notes", "shell"}, Browser <- "browser",
              Clearing <- {"shell"}, Sending <- {"shell", "notes"}

\* A dock that can fill up; one program asks for an item.
Icons == INSTANCE Desktop WITH
              Apps <- {"a", "b", "c"}, Shown <- <<"c">>, Labels <- {"f", "g"},
              FirstDock <- <<"a", "b">>, DesktopMax <- 2, DockMax <- 3

\* G and S, which make a double final; O and A, which make a double vowel.
Line == INSTANCE Hangul WITH
             Initials <- {0, 9}, Vowels <- {8, 0}, Cap <- 8, active <- composing

\* The clock chip about to begin a day, a month, and a leap year.
Date(y, m, d) == [y |-> y, m |-> m, d |-> d]
MCStarts == {Date(2023, 12, 31), Date(2024, 2, 29), Date(2025, 6, 14)}
MCClockFile == <<[key |-> "zone", val |-> -1439], [key |-> "", val |-> 0], [key |-> "dst", val |-> 1],
                 [key |-> "topbar", val |-> 7]>>
MCSounds == (<<"boot.lsnd">> :> <<"LSND", "NOTE", "REST", "END">>) @@ (<<"ok.lsnd">> :> <<"LSND", "SWEEP">>)
            @@ (<<"late">> :> <<"NOTE", "END">>) @@ (<<"long">> :> <<"LSND", "NOTE", "NOTE", "NOTE", "END">>)
            @@ (<<"odd">> :> <<"LSND", "NOTE", "?">>)

D == INSTANCE Devices WITH
          Zones <- {-1439, -600, 540}, ClockFiles <- {MCClockFile, <<>>}, SoundLines <- MCSounds,
          BootSounds <- {<<"late">>, <<"my", "tune">>}, EventMax <- 3, Addresses <- {"a", "b", "bad"},
          DeviceMax <- 1, LogMax <- 2, Ring <- 4, Buffer <- 8, MaxMoves <- 4, MaxSteps <- 5,
          Starts <- {[y |-> s.y, m |-> s.m, d |-> s.d, h |-> 23] : s \in MCStarts}

\* Every day of 2023, 2024 and 2025.
MCDays == {Date(y, m, d) : y \in 2023 .. 2025, m \in 1 .. 12, d \in 1 .. 31} 
MCDates == {d \in MCDays : d.d <= D!MonthDays(d.y, d.m)}

ASSUME D!DevicesAssumption
ASSUME WindowRectsAssumption /\ Stack!WindowsAssumption /\ Icons!DesktopAssumption

stackVars == <<app, winVisible, shown, opened, stack, tb, focused, view, saved, buttonDown, submit, phase>>
iconVars == <<desktop, dock, selected, drag, pressed>>
lineVars == <<text, cur, input, composing, jamo, at>>
clockVars == <<chip, regs, clock, timecfg>>
inputVars == <<wire, kbd, aux, boot, down, made, came>>
cardVars == <<card, frames>>
deviceVars == <<clockVars, sound, soundcfg, heard, bt, report, events, inputVars, cardVars, did, used, day>>

MCInit ==
  /\ Init /\ Stack!Init /\ Icons!Init /\ Line!Init /\ D!Init
  /\ part \in {"rects", "stack", "icons", "line", "calendar", "rtc", "clock", "sound", "bluetooth",
                "input", "card"}
  /\ part # "rects" => active = "a"
  /\ IF part = "calendar" THEN day \in MCDates ELSE day = Date(2024, 1, 1)
  /\ part # "rtc" => chip.y = 2025
  /\ part # "input" => boot = 0 /\ aux.can

MCNext ==
  /\ UNCHANGED part
  /\ \/ part = "rects" /\ Next /\ UNCHANGED <<stackVars, iconVars, lineVars, deviceVars>>
     \/ part = "stack" /\ Stack!Next /\ UNCHANGED <<vars, iconVars, lineVars, deviceVars>>
     \/ part = "icons" /\ Icons!Next /\ UNCHANGED <<vars, stackVars, lineVars, deviceVars>>
     \/ part = "line" /\ Line!Next /\ UNCHANGED <<vars, stackVars, iconVars, deviceVars>>
     \/ /\ UNCHANGED <<vars, stackVars, iconVars, lineVars, day>>
        /\ \/ /\ UNCHANGED <<inputVars, cardVars>>
              /\ \/ part = "rtc" /\ D!RtcNext
                 \/ part = "clock" /\ D!ClockNext
                 \/ part = "sound" /\ D!SoundNext
                 \/ part = "bluetooth" /\ D!BluetoothNext
           \/ part = "input" /\ D!InputNext
           \/ part = "card" /\ D!CardNext
           \* Behaviours of a bounded part end here.
           \/ /\ part \in {"calendar", "card", "input"} \/ (part \in {"rtc", "clock", "sound", "bluetooth"} /\ used = 5)
              /\ UNCHANGED deviceVars

MCSpec == MCInit /\ [][MCNext]_<<vars, stackVars, iconVars, lineVars, deviceVars, part>>

\* The window that takes the keys is the one on top; the item under the pointer
\* is the one that was pressed, wherever reordering moves it, and the dock holds
\* a program once.
DesktopIsKept ==
  /\ part = "stack" => Stack!ActiveIsTop
  /\ part = "icons" => Icons!DraggedIsPressed /\ Icons!DockHoldsAppOnce
FinalsAreKept == Line!FinalsAreKept
\* Dates go on, a reading of the clock is not behind, settings come back, what
\* is accepted is heard, and the Bluetooth table, log and report are sound.
DevicesAreSound ==
  /\ part = "calendar" => D!CalendarGoesOn(day)
  /\ part = "rtc" => D!ReadingIsNotBehind
  /\ part \in {"clock", "sound"} => D!SettingsAreRestored /\ D!PlayedIsHeard
  /\ part = "bluetooth" => D!BluetoothIsSound
  /\ part = "input" => D!InputIsSound
  /\ part = "card" => D!FramesAreInOrder

\* What the documentation says and the code does not do: a run of its own each.
LineFollowsApp == Stack!LineFollowsApp
DropMovesTheItem == Icons!DropMovesTheItem
KeysAreKept == Line!KeysAreKept
DateIsReal == part = "calendar" => D!DateIsReal(day)
ReadingIsNotAhead == part = "rtc" => D!ReadingIsNotAhead
EveryLineCounts == part = "clock" => D!EveryLineCounts
RefusedIsSilent == part = "sound" => D!RefusedIsSilent
NamesAreKept == part = "sound" => D!NamesAreKept
DiscoverableMeansOn == part = "bluetooth" => D!DiscoverableMeansOn
ReportIsCurrent == part = "bluetooth" => D!ReportIsCurrent
KeysAreDecoded == part = "input" => D!KeysAreDecoded
MouseSizeAgrees == part = "input" => D!MouseSizeAgrees
FramesGoOn == part = "card" => D!FramesGoOn
=============================================================================
