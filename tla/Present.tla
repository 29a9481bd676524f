------------------------------- MODULE Present -------------------------------
(***************************************************************************)
(* What gui_render puts on the screen.  The picture is composed afresh     *)
(* from the windows, the pointer, the monitors and the screen store, but   *)
(* only the pixels in one dirty rectangle reach the frame buffer.  That    *)
(* rectangle is computed from what differs between the desktop now and the *)
(* snapshot the last render took of it (g_present_state).                  *)
(*                                                                         *)
(* The screen is a few cells, each showing the top thing there.  Margins   *)
(* of the dirty rectangles smaller than a cell are left out, so no more is *)
(* painted here than by the code.  The dock stands one row above the       *)
(* bottom, for the six pixels below it.  The assistant is off.             *)
(***************************************************************************)
EXTENDS Integers, Sequences

CONSTANTS
  Width, Height,        \* of the frame buffer, in cells
  HasBackbuffer,        \* g_have_bb: the screen is at most 1024 x 768
  Spots,                \* where the pointer is moved to
  Places,               \* where windows are put
  Store,                \* the default corner of the screen store
  MaxInputs             \* bounds what happens to the desktop

Rect(x, y, w, h) == [x |-> x, y |-> y, w |-> w, h |-> h]
Screen == Rect(0, 0, Width, Height)
Nowhere == Rect(0, 0, 0, 0)
Inside(r) == (r.x .. r.x + r.w - 1) \X (r.y .. r.y + r.h - 1)
Cells == Inside(Screen)
Area(c) == Rect(c[1], c[2], 1, 1)

\* The rectangles of the screen, empty ones among them.
Rects == {r \in [x : 0 .. Width, y : 0 .. Height, w : 0 .. Width, h : 0 .. Height] :
            r.x + r.w <= Width /\ r.y + r.h <= Height}

ASSUME PresentAssumption ==
  /\ Width \in Nat /\ Width >= 4 /\ Height \in Nat /\ Height >= 4
  /\ HasBackbuffer \in BOOLEAN /\ Spots \subseteq Cells /\ MaxInputs \in Nat
  /\ Places \subseteq Rects /\ Store \in Rects /\ \A r \in Places \cup {Store} : r.w > 0 /\ r.h > 0

VARIABLES
  ui,             \* g: pointer, active program, settings, drag, resize, saver, looks
  windows,        \* g_windows, with the fields of g for the active one
  monitors,       \* g_monitor_count, g_monitor_layout, g_monitor_active
  conf,           \* monitors.lardd: the set of what it says, empty if there is no file
  sram,           \* the screen store: on, where, what
  front,          \* the frame buffer
  snap,           \* g_present_state
  due,            \* an input came that gui_render has not followed
  steps

screenVars == <<ui, windows, monitors, conf, sram, front, snap, due, steps>>
desktop == <<ui, windows, monitors, conf, sram>>

Applications == 0 .. 1
Layouts == {"single", "hstack", "vstack", "grid", "mirror"}
MaxMonitors == 4
Win == windows[ui.app]

-----------------------------------------------------------------------------
(* Monitors *)

Count(m) == IF m.layout = "single" THEN 1 ELSE m.count

\* gui_monitor_recompute: monitor i of 0 .. Count - 1.
MonitorRect(m, i) ==
  LET c == Count(m)
      part(len, k, n) == (len * k) \div n
      band(k, n, len) == part(len, k + 1, n) - part(len, k, n)
      rows == (c + 1) \div 2
  IN  IF m.layout \in {"single", "mirror"} \/ c = 1 THEN Screen
      ELSE CASE m.layout = "hstack" -> Rect(part(Width, i, c), 0, band(i, c, Width), Height)
             [] m.layout = "vstack" -> Rect(0, part(Height, i, c), Width, band(i, c, Height))
             [] m.layout = "grid" -> Rect(part(Width, i % 2, 2), part(Height, i \div 2, rows),
                                          band(i % 2, 2, Width), band(i \div 2, rows, Height))

MonitorIndices(m) == 0 .. Count(m) - 1
ActiveRect(m) == MonitorRect(m, IF m.active \in MonitorIndices(m) THEN m.active ELSE 0)

\* gui_monitor_index_for_point: the first monitor there; the active one if none.
MonitorAt(m, at) ==
  LET there == {i \in MonitorIndices(m) : at \in Inside(MonitorRect(m, i))}
  IN  IF there = {} THEN m.active ELSE CHOOSE i \in there : \A j \in there : i <= j

\* gui_clamp_window, and gui_apply_fullscreen for a window that fills.
Clamped(w, m) ==
  IF w.full THEN [w EXCEPT !.rect = ActiveRect(m)]
  ELSE LET r == w.rect
           wide == IF r.w > Width THEN Width ELSE r.w
           high == IF r.h > Height THEN Height ELSE r.h
           into(v, most) == IF v < 0 THEN 0 ELSE IF v > most THEN most ELSE v
       IN  [w EXCEPT !.rect = Rect(into(r.x, Width - wide), into(r.y, Height - high), wide, high)]

-----------------------------------------------------------------------------
(* The picture *)

\* gui_dock_rect, two programs wide.
DockRect(m) == LET a == ActiveRect(m) IN Rect(a.x + (a.w - 2) \div 2, a.y + a.h - 2, 2, 1)
BarRect(r) == Rect(r.x, r.y, r.w, 1)
\* gui_settings_panel_rect, in the upper right of the window.
PanelRect(r) == Rect(r.x + r.w - 1, r.y, 1, IF r.h > 1 THEN 2 ELSE 1)
Icon == <<0, 1>>

\* gui_current_window_dirty_rect, and where gui_render draws the window.
Stretching(u) == u.resizing /\ u.stretch /\ HasBackbuffer
Drawn(u, w) == IF ~w.shown THEN Nowhere ELSE IF Stretching(u) THEN u.preview ELSE w.rect

(* The things on the screen, each drawn by a function of its own. *)
Pointer == <<"pointer">>
StoreDrawn(s) == <<"store", s.data>>
Saver == <<"saver">>
Settings == <<"settings">>
Content(u) == <<"window", u.app, u.text>>
WindowBehind(a) == <<"behind", a>>
Launcher(where, lit) == <<where, lit>>
Bar(i, lit) == <<"bar", i, lit>>
Wallpaper == <<"wallpaper">>

\* What gui_render leaves in each cell: what it draws last is uppermost.
\* Launchers light up under the program they are for, the buttons of a bar
\* under the pointer.  Brightness, anti-aliasing or wallpaper show everywhere.
Picture(u, ws, m, s) ==
  LET w == ws[u.app]
      drawn == Drawn(u, w)
      behind == ws[1 - u.app]
      panel == IF w.shown /\ u.settings THEN PanelRect(drawn) ELSE Nowhere
      lit == w.shown /\ u.app = 0
      dock == DockRect(m)
      bars == [i \in MonitorIndices(m) |-> BarRect(MonitorRect(m, i))]
      In(c, r) == c[1] \in r.x .. r.x + r.w - 1 /\ c[2] \in r.y .. r.y + r.h - 1
      last(c) == CHOOSE i \in DOMAIN bars : In(c, bars[i]) /\ \A j \in DOMAIN bars : In(c, bars[j]) => j <= i
      shown(c) ==
        IF c = u.at /\ ~u.saver THEN Pointer
        ELSE IF s.on /\ In(c, s.rect) THEN StoreDrawn(s)
        ELSE IF u.saver THEN Saver
        ELSE IF In(c, panel) THEN Settings
        ELSE IF In(c, drawn) THEN Content(u)
        ELSE IF behind.shown /\ In(c, behind.rect) THEN WindowBehind(1 - u.app)
        ELSE IF In(c, dock) THEN Launcher("dock", lit)
        ELSE IF u.icon /\ c = Icon THEN Launcher("icon", lit)
        ELSE IF \E i \in DOMAIN bars : In(c, bars[i])
          THEN LET i == last(c) IN Bar(i, i = m.active /\ u.at[2] = bars[i].y)
        ELSE Wallpaper
  IN  [c \in Cells |-> <<u.look, shown(c)>>]

PictureNow == Picture(ui, windows, monitors, sram)
Kind(c) == front[c][2][1]

-----------------------------------------------------------------------------
(* The dirty rectangle *)

\* gui_dirty_union with gui_rect_clamp: the smallest rectangle around all, as
\* the cells in it.
Around(rects) ==
  LET cells == {c \in Cells : \E r \in rects : c \in Inside(r)}
      between(i, v) == (\E c \in cells : c[i] <= v) /\ (\E c \in cells : v <= c[i])
  IN  IF cells = {} THEN Cells ELSE {c \in Cells : between(1, c[1]) /\ between(2, c[2])}

Bars == {BarRect(MonitorRect(monitors, i)) : i \in MonitorIndices(monitors)}

\* gui_dirty_compute
WholeScreen ==
  \/ ~HasBackbuffer \/ ~snap.valid
  \/ snap.look # ui.look \/ snap.count # monitors.count \/ snap.layout # monitors.layout
  \/ ui.saver \/ snap.saver
  \/ ui.drag \/ snap.drag

\* A bug to catch: the launchers and bars follow the program, not the pointer.
LightsByProgram == IF snap.app # ui.app \/ snap.settings # ui.settings THEN Bars \cup {DockRect(monitors)} ELSE {}

Lights ==
  IF snap.at # ui.at \/ snap.app # ui.app \/ snap.settings # ui.settings
    THEN Bars \cup {DockRect(monitors)} ELSE {}

\* A bug to catch: where the window was is forgotten.
DirtyNowOnly ==
  IF WholeScreen THEN Cells ELSE Around({Drawn(ui, Win), Area(snap.at), Area(ui.at)} \cup Lights)

Dirty ==
  IF WholeScreen THEN Cells
  ELSE Around({snap.drawn, Drawn(ui, Win), Area(snap.at), Area(ui.at)}
              \cup Lights
              \cup (IF ~Win.shown \/ ~snap.shown THEN {Rect(0, 1, 2, 3)} ELSE {})
              \cup (IF sram.on THEN {sram.rect} ELSE {}))

\* gui_present_snapshot
Snapshot ==
  [valid |-> TRUE, at |-> ui.at, shown |-> Win.shown, app |-> ui.app, drawn |-> Drawn(ui, Win),
   settings |-> ui.settings, drag |-> ui.drag, saver |-> ui.saver, look |-> ui.look,
   count |-> monitors.count, layout |-> monitors.layout]

\* gui_present_backbuffer copies the rectangle and no more.
Blit(d, picture) == [c \in Cells |-> IF c \in d THEN picture[c] ELSE front[c]]

Render ==
  /\ due \/ ui.saver
  /\ front' = Blit(Dirty, PictureNow)
  /\ snap' = Snapshot /\ due' = FALSE
  /\ UNCHANGED <<ui, windows, monitors, conf, sram, steps>>

-----------------------------------------------------------------------------
(* What happens to the desktop.  The main loop renders after each input.   *)

\* gui_init
ScreenInit ==
  /\ ui = [at |-> <<Width \div 2, Height \div 2>>, app |-> 0, settings |-> FALSE, drag |-> FALSE,
           resizing |-> FALSE, preview |-> Nowhere, stretch |-> TRUE, look |-> 0, text |-> 0,
           icon |-> TRUE, saver |-> FALSE]
  /\ windows \in {[a \in Applications |-> [shown |-> a = 0, rect |-> r, restore |-> r, full |-> FALSE]] : r \in Places}
  /\ monitors = [count |-> 1, layout |-> "single", active |-> 0] /\ conf = {}
  /\ sram = [on |-> FALSE, rect |-> Store, data |-> 0]
  /\ front = [c \in Cells |-> <<0, <<"clear">>>>]
  /\ snap = [valid |-> FALSE, at |-> <<0, 0>>, shown |-> FALSE, app |-> 0, drawn |-> Nowhere,
             settings |-> FALSE, drag |-> FALSE, saver |-> FALSE, look |-> 0, count |-> 0, layout |-> "single"]
  /\ due = TRUE /\ steps = 0

OnDesktop == steps < MaxInputs /\ steps' = steps + 1 /\ UNCHANGED <<front, snap>>
Input == ~due /\ ~ui.saver /\ OnDesktop /\ due' = TRUE

\* The first input only ends the screensaver.
Wake ==
  /\ ~due /\ ui.saver /\ OnDesktop /\ due' = TRUE
  /\ ui' = [ui EXCEPT !.saver = FALSE] /\ UNCHANGED <<windows, monitors, conf, sram>>

\* gui_handle_mouse: the monitor under the pointer becomes the active one.
PointAt(p) == monitors' = [monitors EXCEPT !.active = MonitorAt(monitors, p)]

MovePointer(p) ==
  /\ Input /\ PointAt(p) /\ ui' = [ui EXCEPT !.at = p] /\ UNCHANGED <<windows, conf, sram>>

\* The title bar is dragged, or a corner with the window following it.
MoveWindow(p, r) ==
  /\ Input /\ Win.shown /\ ~Win.full /\ PointAt(p)
  /\ IF Stretching(ui)
       THEN ui' = [ui EXCEPT !.at = p, !.preview = r] /\ UNCHANGED windows
       ELSE ui' = [ui EXCEPT !.at = p] /\ windows' = [windows EXCEPT ![ui.app].rect = r]
  /\ UNCHANGED <<conf, sram>>

Resize ==
  /\ Input /\ Win.shown /\ ~Win.full
  /\ IF ui.resizing
       THEN /\ windows' = IF ui.stretch /\ HasBackbuffer THEN [windows EXCEPT ![ui.app].rect = ui.preview] ELSE windows
            /\ ui' = [ui EXCEPT !.resizing = FALSE]
       ELSE ui' = [ui EXCEPT !.resizing = TRUE, !.preview = Win.rect] /\ UNCHANGED windows
  /\ UNCHANGED <<monitors, conf, sram>>

ToggleSettings ==
  /\ Input /\ Win.shown /\ ~ui.resizing /\ ui' = [ui EXCEPT !.settings = ~@]
  /\ UNCHANGED <<windows, monitors, conf, sram>>

\* gui_toggle_fullscreen: on the monitor the window's middle is on.
Fullscreen ==
  /\ Input /\ Win.shown /\ ~ui.resizing
  /\ LET r == Win.rect
         m == IF Win.full \/ Count(monitors) = 1 THEN monitors
              ELSE [monitors EXCEPT !.active = MonitorAt(monitors, <<r.x + r.w \div 2, r.y + r.h \div 2>>)]
         w == IF Win.full THEN [Win EXCEPT !.full = FALSE, !.rect = Win.restore]
              ELSE [Win EXCEPT !.full = TRUE, !.restore = r]
     IN monitors' = m /\ windows' = [windows EXCEPT ![ui.app] = Clamped(w, m)]
  /\ UNCHANGED <<ui, conf, sram>>

\* gui_select_app
Select(a) ==
  /\ Input /\ a # ui.app /\ ~ui.resizing
  /\ windows' = [windows EXCEPT ![a] = Clamped([@ EXCEPT !.shown = TRUE], monitors)]
  /\ ui' = [ui EXCEPT !.app = a, !.settings = FALSE] /\ UNCHANGED <<monitors, conf, sram>>

\* The close box, and gui_activate_top_window_or_none.
CloseWindow ==
  /\ Input /\ Win.shown /\ ~ui.resizing
  /\ windows' = [windows EXCEPT ![ui.app].shown = FALSE]
  /\ ui' = [ui EXCEPT !.settings = FALSE, !.app = IF windows[1 - ui.app].shown THEN 1 - ui.app ELSE ui.app]
  /\ UNCHANGED <<monitors, conf, sram>>

\* A launcher is dragged, or its icon put away or back when it is let go.
DragItem(keep) ==
  /\ Input /\ ~ui.resizing
  /\ ui' = [ui EXCEPT !.drag = ~@, !.icon = IF ui.drag THEN keep ELSE ui.icon]
  /\ (~ui.drag => keep)
  /\ UNCHANGED <<windows, monitors, conf, sram>>

\* A key changes what the window shows; a command the looks or the store.
TypeText == Input /\ Win.shown /\ ui' = [ui EXCEPT !.text = @ + 1] /\ UNCHANGED <<windows, monitors, conf, sram>>

Looks ==
  /\ Input /\ ~ui.resizing
  /\ ui' \in {[ui EXCEPT !.look = 1 - @], [ui EXCEPT !.stretch = ~@]}
  /\ UNCHANGED <<windows, monitors, conf, sram>>

\* cmd_sram: on, corner or rect, write.
StoreAt(r) ==
  /\ Input /\ ~ui.resizing /\ sram' = [sram EXCEPT !.on = TRUE, !.rect = r]
  /\ UNCHANGED <<ui, windows, monitors, conf>>

StoreWrite ==
  /\ Input /\ ~ui.resizing /\ sram.on /\ sram' = [sram EXCEPT !.data = @ + 1]
  /\ UNCHANGED <<ui, windows, monitors, conf>>

StoreOff ==
  /\ Input /\ ~ui.resizing /\ sram.on /\ sram' = [sram EXCEPT !.on = FALSE]
  /\ UNCHANGED <<ui, windows, monitors, conf>>

\* gui_tick, between two inputs: nothing renders but for the screensaver.
TickIdle ==
  /\ ~due /\ ~ui.saver /\ OnDesktop /\ UNCHANGED <<due, windows, monitors, conf, sram>>
  /\ \/ ui' = [ui EXCEPT !.saver = TRUE]
     \/ ui' = [ui EXCEPT !.text = @ + 1]

-----------------------------------------------------------------------------
(* cmd_monitor *)

\* gui_monitor_write_config, or no room for the file.
Written(m) == conf' \in {conf, {m}}

Applied(m) ==
  /\ monitors' = m
  /\ windows' = [windows EXCEPT ![ui.app] = Clamped(Win, m)]

Command == Input /\ ~ui.resizing /\ UNCHANGED <<ui, sram>>

\* A bug to catch: the active monitor may be one that is gone.
CountKeepActive(n) ==
  [count |-> n, active |-> monitors.active,
   layout |-> IF n = 1 THEN "single" ELSE IF monitors.layout = "single" THEN "hstack" ELSE monitors.layout]

WithCount(n) ==
  [count |-> n, active |-> IF monitors.active >= n THEN n - 1 ELSE monitors.active,
   layout |-> IF n = 1 THEN "single" ELSE IF monitors.layout = "single" THEN "hstack" ELSE monitors.layout]

SetCount(n) == Command /\ Applied(WithCount(n)) /\ Written(WithCount(n))

WithLayout(l) ==
  IF l = "single" THEN [count |-> 1, layout |-> l, active |-> 0]
  ELSE [monitors EXCEPT !.layout = l, !.count = IF @ < 2 THEN 2 ELSE @]

SetLayout(l) == Command /\ Applied(WithLayout(l)) /\ Written(WithLayout(l))

SetActive(i) ==
  /\ Command /\ i \in MonitorIndices(monitors)
  /\ LET m == [monitors EXCEPT !.active = i]
     IN  /\ monitors' = m /\ Written(m)
         /\ windows' = IF Win.full THEN [windows EXCEPT ![ui.app] = Clamped(Win, m)] ELSE windows

\* gui_monitor_move_active_window: made to fit, and put in the middle.
Centred(m) ==
  LET a == ActiveRect(m)
      w == IF Win.rect.w > a.w THEN a.w ELSE Win.rect.w
      h == IF Win.rect.h > a.h - 1 THEN a.h - 1 ELSE Win.rect.h
      y == a.y + 1 + (a.h - 1 - h) \div 2
  IN  Rect(a.x + (a.w - w) \div 2, IF y < a.y THEN a.y ELSE y, w, h)

MoveTo(i) ==
  /\ Command /\ i \in MonitorIndices(monitors)
  /\ LET m == [monitors EXCEPT !.active = i]
     IN  /\ monitors' = m /\ conf' = {m}
         /\ windows' = IF ~Win.shown THEN windows
                       ELSE [windows EXCEPT ![ui.app] = Clamped([Win EXCEPT !.rect = IF Win.full THEN @ ELSE Centred(m)], m)]

\* gui_monitor_parse_config_text: what a file with these lines says.
Parsed(f) ==
  LET most == IF f.count > MaxMonitors THEN MaxMonitors ELSE IF f.count < 1 THEN 1 ELSE f.count
      n == IF f.layout = "single" THEN 1 ELSE most
  IN  [count |-> n, layout |-> f.layout, active |-> IF f.active >= n THEN n - 1 ELSE f.active]

FileLines == CHOOSE f \in conf : TRUE

\* `monitor reload`, and `monitor use` of a file of the user's own.
ReloadMonitors ==
  /\ Command /\ UNCHANGED conf
  /\ Applied(IF conf = {} THEN [count |-> 1, layout |-> "single", active |-> 0] ELSE Parsed(FileLines))

UseFile(f) == Command /\ Applied(Parsed(f)) /\ Written(Parsed(f))
SaveMonitors == Command /\ conf' = {monitors} /\ UNCHANGED <<windows, monitors>>

UserFiles == {[count |-> 9, layout |-> "grid", active |-> 3], [count |-> 1, layout |-> "vstack", active |-> 2]}

CmdMonitor ==
  \/ \E n \in 1 .. MaxMonitors : SetCount(n)
  \/ \E l \in Layouts : SetLayout(l)
  \/ \E i \in MonitorIndices(monitors) : SetActive(i) \/ MoveTo(i)
  \/ \E f \in UserFiles : UseFile(f)
  \/ ReloadMonitors \/ SaveMonitors

CmdSram == StoreWrite \/ StoreOff \/ \E r \in Places \cup {Store} : StoreAt(r)

Mouse ==
  \/ \E p \in Spots : MovePointer(p) \/ \E r \in Places : MoveWindow(p, r)
  \/ Resize \/ ToggleSettings \/ Fullscreen \/ CloseWindow
  \/ (\E a \in Applications : Select(a)) \/ \E keep \in BOOLEAN : DragItem(keep)

ScreenNext == Render \/ Wake \/ TickIdle \/ Mouse \/ TypeText \/ Looks \/ CmdSram \/ CmdMonitor
ScreenSpec == ScreenInit /\ [][ScreenNext]_screenVars /\ WF_screenVars(Render)

-----------------------------------------------------------------------------
(* Properties *)

Covering == {"pointer", "store", "settings"}

\* A state of the monitors, in force or in a file.
MonitorSets == [count : 1 .. MaxMonitors, layout : Layouts, active : 0 .. MaxMonitors - 1]

UiRecords ==
  [at : Cells, app : Applications, settings : BOOLEAN, drag : BOOLEAN, resizing : BOOLEAN,
   preview : Rects, stretch : BOOLEAN, look : 0 .. 1, text : Nat, icon : BOOLEAN, saver : BOOLEAN]
WindowRecords == [shown : BOOLEAN, rect : Rects, restore : Rects, full : BOOLEAN]
SramRecords == [on : BOOLEAN, rect : Rects, data : Nat]
SnapRecords ==
  [valid : BOOLEAN, at : Cells, shown : BOOLEAN, app : Applications, drawn : Rects, settings : BOOLEAN,
   drag : BOOLEAN, saver : BOOLEAN, look : 0 .. 1, count : 0 .. MaxMonitors, layout : Layouts]

DesktopOK ==
  /\ ui \in UiRecords /\ windows \in [Applications -> WindowRecords]
  /\ monitors \in MonitorSets /\ conf \subseteq MonitorSets /\ sram \in SramRecords

ScreenTypeOK ==
  DesktopOK /\ DOMAIN front = Cells /\ snap \in SnapRecords /\ due \in BOOLEAN /\ steps \in Nat

\* The screen and the snapshot never disagree: the window is where the
\* snapshot says it was drawn, whole, and nowhere else, and so is the
\* pointer, whatever moved, was closed, resized or changed monitors since.
ScreenIsAsRemembered ==
  snap.valid /\ ~snap.saver =>
    /\ \A c \in Cells : Kind(c) = "window" => c \in Inside(snap.drawn)
    /\ \A c \in Inside(snap.drawn) : Kind(c) \in {"window"} \cup Covering
    /\ \A c \in Cells : Kind(c) = "pointer" <=> c = snap.at

\* On one monitor a render after the pointer moved leaves nothing stale above
\* the dock's lower edge: bars and dock span all between.
MovedPointerRepaints ==
  [][Render /\ ui.at # snap.at /\ monitors.count = 1 /\ monitors.layout = "single"
       => LET picture == PictureNow IN \A c \in Cells : c[2] < Height - 1 => front'[c] = picture[c]]_screenVars

\* The active monitor is one of those in force, and reading the file back
\* that was written last gives the monitors it was written for.
MonitorsAgree ==
  /\ monitors.active \in MonitorIndices(monitors) /\ monitors.count \in 1 .. MaxMonitors
  /\ \A f \in conf : Parsed(f) = f

\* What a render leaves out was not there, and a pointer that moved is drawn.
ScreenIsTrue == []ScreenIsAsRemembered /\ MovedPointerRepaints

-----------------------------------------------------------------------------
(* What the code does not keep *)

\* After a render the screen shows the desktop.  It does not after a screen
\* store was put away, a launcher pinned or the last window closed by a click,
\* with the pointer still.
NothingIsStale == [][Render => front' = PictureNow]_screenVars

\* A window that fills the screen fills a monitor now in force: not one that
\* was behind while the monitors changed, and comes up as another is closed.
WindowFitsMonitors ==
  Win.shown /\ Win.full => \E i \in MonitorIndices(monitors) : Win.rect = MonitorRect(monitors, i)
=============================================================================
