----------------------------- MODULE WindowRects -----------------------------
(***************************************************************************)
(* Where the windows of gui.c lie, along one axis: the code treats x with  *)
(* the width and y with the height alike.  The mouse drags a window by its *)
(* title, resizes it by its corner and makes it fill a monitor; a click or *)
(* the wheel makes another window the active one, also while the button is *)
(* held, and a gesture then goes on with the window that is active by then.*)
(***************************************************************************)
EXTENDS Integers, TLAPS

CONSTANTS
  Apps,
  Screen,        \* g_fb.w, or g_fb.h
  MinSize,       \* GUI_WINDOW_MIN_W, GUI_WINDOW_MIN_H
  Corner,        \* GUI_RESIZE_HIT
  Monitors,      \* g_monitors: intervals [x, w] of the screen
  FirstRect,     \* gui_default_window_rect for each program
  Stretch        \* g.resize_visual_mode: the window follows at the end only

Interval(x, w) == [x |-> x, w |-> w]
OnScreen(r) == r.x \in Int /\ r.w \in Int /\ 0 <= r.x /\ 0 < r.w /\ r.x + r.w <= Screen

WindowRectsAssumption ==
  /\ Screen \in Nat /\ MinSize \in Nat \ {0} /\ MinSize <= Screen /\ Corner \in Nat
  /\ Stretch \in BOOLEAN
  /\ \A m \in Monitors : m = Interval(m.x, m.w) /\ OnScreen(m)
  /\ Monitors # {}
  /\ FirstRect \in [Apps -> {Interval(x, w) : x \in 0 .. Screen, w \in MinSize .. Screen}]
  /\ \A a \in Apps : OnScreen(FirstRect[a])

VARIABLES
  rect,         \* x and w of each window
  full,         \* fullscreen of each window
  restore,      \* restore_x and restore_w
  active,       \* g.app_id
  mouse,        \* g.mx
  gesture,      \* g.dragging, g.resizing
  grip,         \* g.drag_off_x, or g.resize_start_mx
  start,        \* g.resize_start_x and g.resize_start_w
  preview       \* g.resize_preview_x and g.resize_preview_w

vars == <<rect, full, restore, active, mouse, gesture, grip, start, preview>>

Least(a, b) == IF a < b THEN a ELSE b
Greatest(a, b) == IF a < b THEN b ELSE a

\* A bug to catch: a window is kept from the left edge only.
ClampedLeft(r) == Interval(Greatest(r.x, 0), Greatest(Least(r.w, Screen), MinSize))

\* gui_clamp_window of a window that is not full.
Clamped(r) ==
  LET w == Greatest(Least(r.w, Screen), MinSize)
  IN  Interval(Least(Greatest(r.x, 0), Greatest(Screen - w, 0)), w)

\* gui_compute_resize_rect: the corner moves with the mouse.
Resized(r, delta) ==
  LET right == Least(r.x + r.w + delta, Screen)
      grown == IF right - r.x < MinSize THEN r.x + MinSize ELSE right
      end   == Least(grown, Screen)
      left  == Greatest(IF grown > Screen THEN Least(r.x, end - MinSize) ELSE r.x, 0)
  IN  Interval(left, end - left)

Over(r) == r.x <= mouse /\ mouse < r.x + r.w

\* The monitor the pointer is on; none when the layout leaves a gap there.
Pointed == IF \E m \in Monitors : Over(m) THEN {m \in Monitors : Over(m)} ELSE Monitors

\* gui_clamp_window
Fit(a, r) == IF full[a] THEN Pointed ELSE {Clamped(r)}

-----------------------------------------------------------------------------
Init ==
  /\ rect = FirstRect /\ full = [a \in Apps |-> FALSE] /\ restore = FirstRect
  /\ active \in Apps /\ mouse = 0 /\ gesture = "none" /\ grip = 0
  /\ start = rect[active] /\ preview = rect[active]

\* gui_select_app, by a press, the wheel or a launcher.
Switch(a) ==
  /\ active' = a
  /\ \E r \in Fit(a, rect[a]) : rect' = [rect EXCEPT ![a] = r]
  /\ UNCHANGED <<full, restore, mouse, gesture, grip, start, preview>>

Press(a) == gesture = "none" /\ a = active /\ Over(rect[a])

DragTitle(a) ==
  /\ Press(a) /\ ~full[a]
  /\ gesture' = "drag" /\ grip' = mouse - rect[a].x
  /\ UNCHANGED <<rect, full, restore, active, mouse, start, preview>>

GrabCorner(a) ==
  /\ Press(a) /\ ~full[a] /\ mouse >= rect[a].x + rect[a].w - Corner
  /\ gesture' = "resize" /\ grip' = mouse /\ start' = rect[a] /\ preview' = rect[a]
  /\ UNCHANGED <<rect, full, restore, active, mouse>>

\* gui_toggle_fullscreen
ToggleFullscreen(a) ==
  /\ Press(a) /\ full' = [full EXCEPT ![a] = ~@]
  /\ IF ~full[a]
       THEN /\ restore' = [restore EXCEPT ![a] = rect[a]]
            /\ \E m \in Monitors : rect' = [rect EXCEPT ![a] = m]
       ELSE /\ rect' = [rect EXCEPT ![a] = Clamped(IF restore[a].w > 0 THEN restore[a] ELSE rect[a])]
            /\ UNCHANGED restore
  /\ UNCHANGED <<active, mouse, gesture, grip, start, preview>>

\* gui_handle_mouse with the button held: what the mouse holds follows it.
MouseTo(x) ==
  /\ mouse' = x
  /\ IF gesture = "drag"
       THEN \E r \in Fit(active, Interval(x - grip, rect[active].w)) :
              rect' = [rect EXCEPT ![active] = r] /\ UNCHANGED preview
     ELSE IF gesture = "resize" /\ ~full[active]
       THEN /\ preview' = Resized(start, x - grip)
            /\ rect' = IF Stretch THEN rect ELSE [rect EXCEPT ![active] = Clamped(preview')]
     ELSE UNCHANGED <<rect, preview>>
  /\ UNCHANGED <<full, restore, active, gesture, grip, start>>

\* gui_commit_resize_preview, or the end of a drag.
Release ==
  /\ gesture # "none" /\ gesture' = "none"
  /\ rect' = IF gesture = "resize" /\ ~full[active]
               THEN [rect EXCEPT ![active] = Clamped(IF Stretch THEN preview ELSE @)]
               ELSE rect
  /\ UNCHANGED <<full, restore, active, mouse, grip, start, preview>>

Next ==
  \/ \E a \in Apps : Switch(a) \/ DragTitle(a) \/ GrabCorner(a) \/ ToggleFullscreen(a)
  \/ \E x \in 0 .. Screen - 1 : MouseTo(x)
  \/ Release

Spec == Init /\ [][Next]_vars

-----------------------------------------------------------------------------
\* gui_post_check reports window_inside when the active window is on the screen.
\* Every window always is, and no smaller than the least size unless it fills
\* a monitor, whichever window a gesture ends on.
WindowsInside ==
  \A a \in Apps : OnScreen(rect[a]) /\ (~full[a] => rect[a].w >= MinSize)
-----------------------------------------------------------------------------
(***************************************************************************)
(* Every window lies on the screen, for every screen, least size, set of   *)
(* monitors and number of windows.  The strengthening is that what a       *)
(* gesture, a preview or a restored rectangle holds are integers at all:   *)
(* whatever they are, gui_clamp_window brings them onto the screen.        *)
(***************************************************************************)

Rects == [x : Int, w : Int]

\* Integers wherever a rectangle or a position is kept, and the property.
Inside ==
  /\ rect \in [Apps -> Rects] /\ full \in [Apps -> BOOLEAN] /\ restore \in [Apps -> Rects]
  /\ active \in Apps /\ mouse \in Int /\ grip \in Int /\ start \in Rects /\ preview \in Rects
  /\ WindowsInside

\* gui_clamp_window: whatever the rectangle, the result is on the screen and
\* not too small.
LEMMA ClampedFits ==
  ASSUME WindowRectsAssumption, NEW r \in Rects
  PROVE  Clamped(r) \in Rects /\ OnScreen(Clamped(r)) /\ Clamped(r).w >= MinSize
BY DEF Rects, WindowRectsAssumption, Clamped, OnScreen, Interval, Least, Greatest

\* gui_compute_resize_rect gives integers.
LEMMA ResizedTyped ==
  ASSUME WindowRectsAssumption, NEW r \in Rects, NEW d \in Int
  PROVE  Resized(r, d) \in Rects
BY DEF Rects, WindowRectsAssumption, Resized, Interval, Least, Greatest

\* A monitor is an interval of the screen.
LEMMA MonitorsFit ==
  ASSUME WindowRectsAssumption, NEW m \in Monitors
  PROVE  m \in Rects /\ OnScreen(m)
<1>1. m = Interval(m.x, m.w) /\ OnScreen(m)
  BY DEF WindowRectsAssumption
<1> QED
  BY <1>1 DEF OnScreen, Interval, Rects

\* What gui_clamp_window may leave a window as.
LEMMA FitFits ==
  ASSUME WindowRectsAssumption, Inside, NEW a \in Apps, NEW r \in Rects, NEW s \in Fit(a, r)
  PROVE  s \in Rects /\ OnScreen(s) /\ (~full[a] => s.w >= MinSize)
<1>1. CASE full[a]
  <2>1. s \in Monitors
    BY <1>1 DEF Fit, Pointed
  <2> QED
    BY <2>1, <1>1, MonitorsFit
<1>2. CASE ~full[a]
  <2>1. s = Clamped(r)
    BY <1>2 DEF Fit
  <2> QED
    BY <2>1, ClampedFits
<1> QED
  BY <1>1, <1>2

\* One rectangle changes to one that fits: all windows are still inside.
LEMMA OneChanges ==
  ASSUME Inside, full' = full, NEW a \in Apps, NEW s \in Rects, rect' = [rect EXCEPT ![a] = s],
         OnScreen(s), ~full[a] => s.w >= MinSize
  PROVE  rect' \in [Apps -> Rects] /\ WindowsInside'
<1>1. rect' \in [Apps -> Rects]
  BY DEF Inside
<1>2. ASSUME NEW b \in Apps PROVE OnScreen(rect'[b]) /\ (~full'[b] => rect'[b].w >= MinSize)
  <2>1. CASE b = a
    <3>1. rect'[b] = s
      BY <2>1 DEF Inside
    <3> QED
      BY <3>1, <2>1
  <2>2. CASE b # a
    <3>1. rect'[b] = rect[b]
      BY <2>2 DEF Inside
    <3> QED
      BY <3>1 DEF Inside, WindowsInside
  <2> QED
    BY <2>1, <2>2
<1> QED
  BY <1>1, <1>2 DEF WindowsInside, OnScreen

LEMMA InitInside == ASSUME WindowRectsAssumption, Init PROVE Inside
<1>1. ASSUME NEW a \in Apps
      PROVE FirstRect[a] \in Rects /\ OnScreen(FirstRect[a]) /\ FirstRect[a].w >= MinSize
  <2>1. FirstRect[a] \in {Interval(x, w) : x \in 0 .. Screen, w \in MinSize .. Screen} /\ OnScreen(FirstRect[a])
    BY DEF WindowRectsAssumption
  <2>2. PICK x \in 0 .. Screen, w \in MinSize .. Screen : FirstRect[a] = Interval(x, w)
    BY <2>1
  <2>3. FirstRect[a].w = w /\ FirstRect[a] \in Rects
    BY <2>2 DEF Interval, Rects, WindowRectsAssumption
  <2> QED
    BY <2>1, <2>3 DEF WindowRectsAssumption
<1>2. FirstRect \in [Apps -> Rects]
  BY <1>1 DEF WindowRectsAssumption
<1> QED
  BY <1>1, <1>2 DEF Init, Inside, WindowsInside

\* Every operation of the mouse keeps it.
LEMMA StepInside == ASSUME WindowRectsAssumption, Inside, [Next]_vars PROVE Inside'
<1> USE DEF Inside
<1>1. ASSUME NEW a \in Apps, Switch(a) PROVE Inside'
  <2>1. PICK r \in Fit(a, rect[a]) : rect' = [rect EXCEPT ![a] = r]
    BY <1>1 DEF Switch
  <2>2. rect' \in [Apps -> Rects] /\ WindowsInside'
    <3>1. r \in Rects /\ OnScreen(r) /\ (~full[a] => r.w >= MinSize)
      BY FitFits, <2>1
    <3>2. full' = full
      BY <1>1 DEF Switch
    <3> QED
      BY <3>1, <3>2, <2>1, OneChanges
  <2> QED
    BY <2>2, <1>1 DEF Switch
<1>2. ASSUME NEW a \in Apps, DragTitle(a) PROVE Inside'
  BY <1>2 DEF DragTitle, WindowsInside, Rects
<1>3. ASSUME NEW a \in Apps, GrabCorner(a) PROVE Inside'
  BY <1>3 DEF GrabCorner, WindowsInside
<1>4. ASSUME NEW a \in Apps, ToggleFullscreen(a) PROVE Inside'
  <2>1. full' = [full EXCEPT ![a] = ~full[a]] /\ full' \in [Apps -> BOOLEAN]
    BY <1>4 DEF ToggleFullscreen
  <2>2. PICK s \in Rects : /\ rect' = [rect EXCEPT ![a] = s]
                           /\ OnScreen(s) /\ (~full'[a] => s.w >= MinSize)
    <3>1. CASE ~full[a]
      <4>1. PICK m \in Monitors : rect' = [rect EXCEPT ![a] = m]
        BY <1>4, <3>1 DEF ToggleFullscreen
      <4>2. full'[a]
        BY <2>1, <3>1
      <4> QED
        BY <4>1, <4>2, MonitorsFit
    <3>2. CASE full[a]
      <4> DEFINE r == IF restore[a].w > 0 THEN restore[a] ELSE rect[a]
      <4>1. r \in Rects /\ rect' = [rect EXCEPT ![a] = Clamped(r)]
        BY <1>4, <3>2 DEF ToggleFullscreen
      <4> QED
        BY <4>1, ClampedFits
    <3> QED
      BY <3>1, <3>2
  <2>3. rect' \in [Apps -> Rects]
    BY <2>2
  <2>4. restore' \in [Apps -> Rects]
    BY <1>4 DEF ToggleFullscreen
  <2>5. ASSUME NEW b \in Apps PROVE OnScreen(rect'[b]) /\ (~full'[b] => rect'[b].w >= MinSize)
    <3>1. CASE b = a
      <4>1. rect'[b] = s
        BY <3>1, <2>2
      <4> QED
        BY <4>1, <3>1, <2>2
    <3>2. CASE b # a
      <4>1. rect'[b] = rect[b] /\ full'[b] = full[b]
        BY <3>2, <2>1, <2>2
      <4> QED
        BY <4>1 DEF WindowsInside
    <3> QED
      BY <3>1, <3>2
  <2>6. WindowsInside'
    BY <2>5 DEF WindowsInside, OnScreen
  <2> QED
    BY <2>1, <2>3, <2>4, <2>6, <1>4 DEF ToggleFullscreen
<1>5. ASSUME NEW x \in 0 .. Screen - 1, MouseTo(x) PROVE Inside'
  <2>0. x \in Int /\ full' = full
    BY <1>5 DEF MouseTo, WindowRectsAssumption
  <2>1. rect' \in [Apps -> Rects] /\ WindowsInside' /\ preview' \in Rects
    <3>1. CASE gesture = "drag"
      <4>1. PICK r \in Fit(active, Interval(x - grip, rect[active].w)) :
                rect' = [rect EXCEPT ![active] = r] /\ preview' = preview
        BY <1>5, <3>1 DEF MouseTo
      <4>2. Interval(x - grip, rect[active].w) \in Rects
        BY <2>0 DEF Interval, Rects
      <4>3. r \in Rects /\ OnScreen(r) /\ (~full[active] => r.w >= MinSize)
        BY <4>1, <4>2, FitFits
      <4> QED
        BY <4>1, <4>3, <2>0, OneChanges
    <3>2. CASE gesture = "resize" /\ ~full[active]
      <4>1. /\ preview' = Resized(start, x - grip)
            /\ rect' = IF Stretch THEN rect ELSE [rect EXCEPT ![active] = Clamped(preview')]
        BY <1>5, <3>2 DEF MouseTo
      <4>2. preview' \in Rects
        BY <4>1, <2>0, ResizedTyped
      <4>3. Clamped(preview') \in Rects /\ OnScreen(Clamped(preview')) /\ Clamped(preview').w >= MinSize
        BY <4>2, ClampedFits
      <4>4. CASE Stretch
        BY <4>1, <4>2, <4>4, <2>0 DEF WindowsInside
      <4>5. CASE ~Stretch
        BY <4>1, <4>2, <4>3, <4>5, <2>0, OneChanges
      <4> QED
        BY <4>4, <4>5
    <3>3. CASE gesture # "drag" /\ ~(gesture = "resize" /\ ~full[active])
      BY <1>5, <3>3, <2>0 DEF MouseTo, WindowsInside
    <3> QED
      BY <3>1, <3>2, <3>3
  <2> QED
    BY <2>0, <2>1, <1>5 DEF MouseTo
<1>6. ASSUME Release PROVE Inside'
  <2>0. full' = full
    BY <1>6 DEF Release
  <2>1. rect' \in [Apps -> Rects] /\ WindowsInside'
    <3>1. CASE gesture = "resize" /\ ~full[active]
      <4> DEFINE r == IF Stretch THEN preview ELSE rect[active]
      <4>1. r \in Rects /\ rect' = [rect EXCEPT ![active] = Clamped(r)]
        BY <1>6, <3>1 DEF Release
      <4>2. Clamped(r) \in Rects /\ OnScreen(Clamped(r)) /\ Clamped(r).w >= MinSize
        BY <4>1, ClampedFits
      <4> QED
        BY <4>1, <4>2, <2>0, OneChanges
    <3>2. CASE ~(gesture = "resize" /\ ~full[active])
      BY <1>6, <3>2 DEF Release, WindowsInside
    <3> QED
      BY <3>1, <3>2
  <2> QED
    BY <2>0, <2>1, <1>6 DEF Release
<1>7. CASE UNCHANGED vars
  BY <1>7 DEF vars, WindowsInside
<1> QED
  BY <1>1, <1>2, <1>3, <1>4, <1>5, <1>6, <1>7 DEF Next

\* Every window lies on the screen in every state that the mouse can bring
\* about, for any screen at least as large as the least window.
THEOREM WindowsInsideHolds == ASSUME WindowRectsAssumption PROVE Spec => []WindowsInside
<1>1. Init => Inside
  BY InitInside
<1>2. Inside /\ [Next]_vars => Inside'
  BY StepInside
<1>3. Inside => WindowsInside
  BY DEF Inside
<1> QED
  BY <1>1, <1>2, <1>3, PTL DEF Spec
=============================================================================
