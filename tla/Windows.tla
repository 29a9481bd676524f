------------------------------- MODULE Windows -------------------------------
(***************************************************************************)
(* The windows of gui.c: one per program, in a stacking order, with one    *)
(* set of working buffers `g` for the active one and a saved view for each *)
(* of the others.  Closing, minimising, clicking, the wheel and the        *)
(* launchers change which program is active; keys go to the buffers.       *)
(*                                                                         *)
(* A press may hit any visible window: where windows lie is WindowRects.   *)
(* A text is the program it was last typed for.  Of the buffers only the   *)
(* input line g.tb is kept; the others are saved and loaded with it.       *)
(***************************************************************************)
EXTENDS Naturals, SequencesExt

CONSTANTS
  Apps,
  Browser,        \* program 0, open when the desktop starts
  Clearing,       \* programs whose first opening empties the input line
  Sending         \* programs whose Enter or button empties it: the shell, the notes

WindowsAssumption == Browser \in Apps /\ Clearing \subseteq Apps /\ Sending \subseteq Apps

VARIABLES
  app,            \* g.app_id
  winVisible,     \* g.win_visible
  shown,          \* w->visible of each window
  opened,         \* w->opened_once
  stack,          \* the windows by w->z, the front one last
  tb,             \* g.tb
  focused,        \* g.tb_focused
  view,           \* v->tb of each program
  saved,          \* v->saved
  buttonDown,     \* g.btn_pressed
  submit,         \* g.submit_pending
  phase           \* what the main loop looks at: the mouse, a key, the network

vars == <<app, winVisible, shown, opened, stack, tb, focused, view, saved, buttonDown, submit, phase>>

Empty == "empty"
Texts == Apps \cup {Empty}
\* A bug to catch: a window that has a place keeps it.
RaiseNever(s, a) == IF \E i \in DOMAIN s : s[i] = a THEN s ELSE Append(s, a)

Raise(s, a) == Append(SelectSeq(s, LAMBDA b : b # a), a)

\* gui_top_visible_window
Top(s, shownNow) == LET visible == SelectSeq(s, LAMBDA a : shownNow[a]) IN Last(visible)

-----------------------------------------------------------------------------
Init ==
  /\ app = Browser /\ winVisible = TRUE
  /\ shown = [a \in Apps |-> a = Browser] /\ opened = shown /\ saved = shown
  /\ stack = <<Browser>> /\ tb = Empty /\ focused = FALSE
  /\ view = [a \in Apps |-> Empty]
  /\ buttonDown = FALSE /\ submit = FALSE /\ phase = "mouse"

\* gui_sync_active_window, then gui_select_app: save the view of the program
\* that was active, raise the other, load its view or set up its first one.
Select(a) ==
  LET kept == [view EXCEPT ![app] = tb]
      line == IF opened[a] /\ saved[a] THEN kept[a]
              ELSE IF a \in Clearing THEN Empty
              ELSE IF saved[a] \/ a = app THEN kept[a] ELSE tb
  IN  /\ shown' = [shown EXCEPT ![app] = winVisible, ![a] = TRUE]
      /\ opened' = [opened EXCEPT ![a] = TRUE]
      /\ saved' = [saved EXCEPT ![app] = TRUE, ![a] = TRUE]
      /\ stack' = Raise(stack, a)
      /\ app' = a /\ winVisible' = TRUE
      /\ tb' = line /\ view' = [kept EXCEPT ![a] = line]

Selected(a) ==
  IF a = app THEN UNCHANGED <<app, winVisible, shown, opened, stack, tb, view, saved>> ELSE Select(a)

\* gui_handle_mouse, the pointer over window a.
Mouse(a) == phase = "mouse" /\ shown[a]

\* A press inside: on the input line, on a button, or beside them.
PressInside(a) ==
  /\ Mouse(a) /\ Selected(a)
  /\ focused' \in BOOLEAN /\ buttonDown' \in {buttonDown, TRUE} /\ (focused' => buttonDown' = buttonDown)
  /\ UNCHANGED <<submit, phase>>

Wheel(a) == Mouse(a) /\ a # app /\ Select(a) /\ UNCHANGED <<focused, buttonDown, submit, phase>>

\* A launcher of the desktop or the dock, which no window covers there.
Launch(a) == phase = "mouse" /\ Select(a) /\ UNCHANGED <<focused, buttonDown, submit, phase>>

\* Outside every window and item.
PressNothing ==
  /\ phase = "mouse" /\ focused' = FALSE
  /\ UNCHANGED <<app, winVisible, shown, opened, stack, tb, view, saved, buttonDown, submit, phase>>

\* gui_activate_top_window_or_none: geometry of the next window is loaded,
\* its view is not.
ActivateTop(shownNow, now) ==
  IF \E a \in Apps : shownNow[a]
    THEN app' = Top(stack, shownNow) /\ winVisible' = TRUE
    ELSE app' = now /\ winVisible' = FALSE

\* The close or minimise box of the active window.
Close ==
  /\ phase = "mouse" /\ winVisible
  /\ view' = [view EXCEPT ![app] = tb] /\ saved' = [saved EXCEPT ![app] = TRUE]
  /\ shown' = [shown EXCEPT ![app] = FALSE]
  /\ ActivateTop(shown', app)
  /\ focused' = FALSE
  /\ UNCHANGED <<opened, stack, tb, buttonDown, submit, phase>>

\* A press on the box of a window behind raises it first.
CloseOther(a) ==
  /\ Mouse(a) /\ a # app
  /\ view' = [view EXCEPT ![app] = tb] /\ saved' = [saved EXCEPT ![app] = TRUE]
  /\ stack' = Raise(stack, a)
  /\ shown' = [shown EXCEPT ![a] = FALSE]
  /\ IF \E b \in Apps : shown'[b]
       THEN app' = Top(stack', shown') /\ winVisible' = TRUE
       ELSE app' = a /\ winVisible' = FALSE
  /\ tb' = view[a] /\ focused' = FALSE
  /\ UNCHANGED <<opened, buttonDown, submit, phase>>

\* The button comes up over the button of the active program, or beside it.
Release ==
  /\ phase = "mouse" /\ buttonDown /\ buttonDown' = FALSE
  /\ \/ UNCHANGED <<tb, submit>>
     \/ winVisible /\ app = Browser /\ submit' = TRUE /\ tb' = tb
     \/ winVisible /\ app \in Sending /\ tb' = Empty /\ submit' = submit
  /\ UNCHANGED <<app, winVisible, shown, opened, stack, focused, view, saved, phase>>

MouseDone ==
  /\ phase = "mouse" /\ phase' = "key"
  /\ UNCHANGED <<app, winVisible, shown, opened, stack, tb, focused, view, saved, buttonDown, submit>>

\* gui_handle_key: at most one a turn; without a focused line it does nothing.
Type ==
  /\ phase = "key" /\ phase' = "net" /\ winVisible /\ focused /\ tb' = app
  /\ UNCHANGED <<app, winVisible, shown, opened, stack, focused, view, saved, buttonDown, submit>>

Enter ==
  /\ phase = "key" /\ phase' = "net" /\ winVisible /\ focused
  /\ submit' = (submit \/ app = Browser)
  /\ tb' = IF app \in Sending THEN Empty ELSE tb
  /\ UNCHANGED <<app, winVisible, shown, opened, stack, focused, view, saved, buttonDown>>

NoKey ==
  /\ phase = "key" /\ phase' = "net"
  /\ UNCHANGED <<app, winVisible, shown, opened, stack, tb, focused, view, saved, buttonDown, submit>>

\* gui_take_submit and the request, which the main loop waits for.
TakeSubmit ==
  /\ phase = "net" /\ phase' = "mouse" /\ submit' = FALSE
  /\ UNCHANGED <<app, winVisible, shown, opened, stack, tb, focused, view, saved, buttonDown>>

Next ==
  \/ PressNothing \/ Close \/ Release \/ MouseDone \/ Type \/ Enter \/ NoKey \/ TakeSubmit
  \/ \E a \in Apps : PressInside(a) \/ Wheel(a) \/ Launch(a) \/ CloseOther(a)

Spec == Init /\ [][Next]_vars

-----------------------------------------------------------------------------
\* The variables keep their types.
TypeOK ==
  /\ app \in Apps /\ winVisible \in BOOLEAN /\ focused \in BOOLEAN /\ buttonDown \in BOOLEAN
  /\ shown \in [Apps -> BOOLEAN] /\ opened \in [Apps -> BOOLEAN] /\ saved \in [Apps -> BOOLEAN]
  /\ stack \in Seq(Apps) /\ tb \in Texts /\ view \in [Apps -> Texts]
  /\ submit \in BOOLEAN /\ phase \in {"mouse", "key", "net"}

\* Keys and buttons go to the window the user sees in front: after any closing,
\* raising and wheeling the active program is that of the top window, and there
\* is an active window whenever one is visible.
ActiveIsTop ==
  /\ winVisible <=> \E a \in Apps : shown[a]
  /\ winVisible => app = Top(stack, shown)

\* os/ARCHITECTURE.md:370-372 gives every program its own saved view text: when
\* another program becomes active, the line shows what was saved for it.
LineFollowsApp == [][app' # app /\ saved[app'] => tb' = view[app']]_vars
=============================================================================
