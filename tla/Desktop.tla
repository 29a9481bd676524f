------------------------------- MODULE Desktop -------------------------------
(***************************************************************************)
(* The items of the desktop and of the dock (gui.c): two tables that the   *)
(* mouse changes by dragging, the top bar by its buttons, and the shell by *)
(* reloading programs and renaming labels.  A dragged or selected item is  *)
(* remembered by its index, and every change moves indexes.                *)
(*                                                                         *)
(* Where things are drawn is left out: a press may hit any item, and the   *)
(* pointer may be over any slot of the dock.  Indexes count from 1.        *)
(***************************************************************************)
EXTENDS Naturals, SequencesExt

CONSTANTS
  Apps,            \* programs with a window
  Shown,           \* the programs whose file asks for an item in both tables, in order
  Labels,          \* what a folder may be called
  FirstDock,       \* s_dock_launchers: the programs the dock starts with
  DesktopMax,      \* GUI_DESKTOP_ITEM_MAX
  DockMax          \* GUI_DOCK_ITEM_MAX

DesktopAssumption ==
  /\ DesktopMax \in Nat \ {0} /\ DockMax \in Nat \ {0} /\ Len(FirstDock) <= DockMax
  /\ ToSet(Shown) \subseteq Apps /\ ToSet(FirstDock) \subseteq Apps /\ IsInjective(FirstDock)

VARIABLES
  desktop, dock,   \* g_desktop_items, g_dock_items
  selected,        \* g.selected_area and g.selected_index
  drag,            \* g.item_drag_area, g.item_drag_index and g.item_drag_moved
  pressed          \* history: the item the button went down on

vars == <<desktop, dock, selected, drag, pressed>>

App(a) == [kind |-> "app", app |-> a, name |-> "label"]
Folder(n) == [kind |-> "folder", app |-> "none", name |-> n]
Items == {App(a) : a \in Apps} \cup {Folder(n) : n \in Labels}

Unselected == [area |-> "none", index |-> 0]
NoDrag == [area |-> "none", index |-> 0, moved |-> FALSE]

Table(area) == IF area = "desktop" THEN desktop ELSE dock
Holds(table, a) == \E i \in DOMAIN table : table[i].kind = "app" /\ table[i].app = a

\* A bug to catch: no two items are the same.
SameNever(item, other) == FALSE

\* gui_dock_find_equivalent: a program by its number, a folder by its label.
Same(item, other) ==
  item.kind = other.kind /\ IF item.kind = "app" THEN item.app = other.app ELSE item.name = other.name

\* The first item from `index` on is moved to `target`, those between close up.
Moved(table, index, target) == InsertAt(RemoveAt(table, index), target, table[index])

-----------------------------------------------------------------------------
Init ==
  /\ desktop = <<>> /\ dock = [i \in DOMAIN FirstDock |-> App(FirstDock[i])]
  /\ selected = Unselected /\ drag = NoDrag /\ pressed = Unselected

\* gui_model_has_app: one item of a program is enough.
AddToDesktop(table, a) ==
  IF Len(table) < DesktopMax /\ ~Holds(table, a) THEN Append(table, App(a)) ELSE table
AddToDock(table, a) ==
  IF Len(table) < DockMax /\ ~Holds(table, a) THEN Append(table, App(a)) ELSE table

\* The top bar, while nothing is dragged.
NewFolder ==
  /\ drag = NoDrag /\ selected' = Unselected
  /\ IF Len(desktop) < DesktopMax
       THEN \E n \in Labels : desktop' = Append(desktop, Folder(n))
       ELSE desktop' = desktop
  /\ UNCHANGED <<dock, drag, pressed>>

PinDesktop(a) ==
  /\ drag = NoDrag /\ selected' = Unselected
  /\ desktop' = IF Len(desktop) < DesktopMax THEN Append(desktop, App(a)) ELSE desktop
  /\ UNCHANGED <<dock, drag, pressed>>

PinDock(a) ==
  /\ drag = NoDrag /\ selected' = Unselected /\ dock' = AddToDock(dock, a)
  /\ UNCHANGED <<desktop, drag, pressed>>

\* gui_fix_selection_after_remove
FixedSelection(sel, area, index) ==
  IF sel.area # area \/ sel.index < index THEN sel
  ELSE IF sel.index = index THEN Unselected ELSE [sel EXCEPT !.index = @ - 1]

\* An index past the end removes nothing.
Without(table, index) == IF index \in DOMAIN table THEN RemoveAt(table, index) ELSE table

RemoveItem(area, index, sel) ==
  /\ desktop' = IF area = "desktop" THEN Without(desktop, index) ELSE desktop
  /\ dock' = IF area = "dock" THEN Without(dock, index) ELSE dock
  /\ selected' = IF index \in DOMAIN Table(area) THEN FixedSelection(sel, area, index) ELSE sel

IsSelected == selected.area # "none" /\ selected.index \in DOMAIN Table(selected.area)

DeleteSelected ==
  /\ drag = NoDrag /\ IsSelected
  /\ RemoveItem(selected.area, selected.index, selected)
  /\ UNCHANGED <<drag, pressed>>

\* The label of a program is that of its file again at the next reload, and
\* nothing is found by it: only folders' labels are kept here.
RenameSelected(n) ==
  /\ drag = NoDrag /\ IsSelected /\ Table(selected.area)[selected.index].kind = "folder"
  /\ IF selected.area = "desktop"
       THEN desktop' = [desktop EXCEPT ![selected.index].name = n] /\ UNCHANGED dock
       ELSE dock' = [dock EXCEPT ![selected.index].name = n] /\ UNCHANGED desktop
  /\ UNCHANGED <<selected, drag, pressed>>

-----------------------------------------------------------------------------
(* The mouse. *)

Press(area, index) ==
  /\ drag = NoDrag /\ index \in DOMAIN Table(area)
  /\ selected' = [area |-> area, index |-> index]
  /\ drag' = [area |-> area, index |-> index, moved |-> FALSE]
  /\ pressed' = Table(area)[index]
  /\ UNCHANGED <<desktop, dock>>

\* A window or the empty desktop.
PressElsewhere ==
  /\ drag = NoDrag /\ selected' = Unselected /\ UNCHANGED <<desktop, dock, drag, pressed>>

\* A bug to catch: the index of the drag stays behind.
ReorderedUntracked(table, index, target, sel, held) ==
  [dock |-> Moved(table, index, target), selected |-> sel, drag |-> held]

\* gui_reorder_dock_item: also the index of the drag follows.
Reordered(table, index, target, sel, held) ==
  IF target = index
    THEN [dock |-> table, selected |-> sel, drag |-> held]
    ELSE [dock |-> Moved(table, index, target),
          selected |-> IF sel.area = "dock" THEN [sel EXCEPT !.index = target] ELSE sel,
          drag |-> [held EXCEPT !.index = target]]

\* Past the threshold: a dock item trades places at once, one of the desktop
\* only changes where it is drawn.
Move ==
  /\ drag # NoDrag
  /\ IF drag.area = "dock"
       THEN \E target \in DOMAIN dock :
              LET next == Reordered(dock, drag.index, target, selected, [drag EXCEPT !.moved = TRUE])
              IN  dock' = next.dock /\ selected' = next.selected /\ drag' = next.drag
       ELSE drag' = [drag EXCEPT !.moved = TRUE] /\ UNCHANGED <<dock, selected>>
  /\ UNCHANGED <<desktop, pressed>>

\* The button comes up where it went down: the program or folder opens.
Click == drag # NoDrag /\ ~drag.moved /\ drag' = NoDrag /\ UNCHANGED <<desktop, dock, selected, pressed>>

DropOnDelete ==
  /\ drag # NoDrag
  /\ RemoveItem(drag.area, drag.index, [area |-> drag.area, index |-> drag.index])
  /\ drag' = NoDrag /\ UNCHANGED pressed

\* gui_dock_add_or_move_item: the place of an equal item, or a new last one.
DockPlaces(item) ==
  LET equal == {i \in DOMAIN dock : Same(item, dock[i])}
  IN  IF equal # {} THEN [table |-> dock, at |-> {CHOOSE i \in equal : \A j \in equal : i <= j}]
      ELSE IF Len(dock) < DockMax THEN [table |-> Append(dock, item), at |-> {Len(dock) + 1}]
      ELSE [table |-> dock, at |-> {}]

\* A desktop item let go over the dock.  The item to take off the desktop is
\* the one at the index of the drag, which the reordering has changed.
DropOnDock ==
  /\ drag.area = "desktop" /\ drag' = NoDrag /\ UNCHANGED pressed
  /\ LET places == DockPlaces(desktop[drag.index])
     IN  IF places.at = {}
           THEN selected' = [area |-> "desktop", index |-> drag.index] /\ UNCHANGED <<desktop, dock>>
           ELSE \E at \in places.at, target \in DOMAIN places.table :
                  LET next == Reordered(places.table, at, target, selected, drag)
                  IN  /\ dock' = next.dock
                      /\ desktop' = Without(desktop, next.drag.index)
                      /\ selected' = [area |-> "dock", index |-> target]

\* Let go anywhere else: a dock item outside the dock is copied to the desktop.
DropElsewhere ==
  /\ drag # NoDrag /\ drag' = NoDrag /\ UNCHANGED <<dock, pressed>>
  /\ \/ desktop' = desktop /\ selected' = [area |-> drag.area, index |-> drag.index]
     \/ /\ drag.area = "dock"
        /\ IF Len(desktop) < DesktopMax
             THEN /\ desktop' = Append(desktop, dock[drag.index])
                  /\ selected' = [area |-> "desktop", index |-> Len(desktop) + 1]
             ELSE desktop' = desktop /\ selected' = [area |-> "dock", index |-> drag.index]

-----------------------------------------------------------------------------
(* The shell, by a key pressed while the mouse may be dragging. *)

\* gui_reload_sysrxe_apps: programs that ask for an item and have none get one.
Reload ==
  /\ desktop' = FoldLeft(AddToDesktop, desktop, Shown)
  /\ dock' = FoldLeft(AddToDock, dock, Shown)
  /\ UNCHANGED <<selected, drag, pressed>>

\* gui_rename_item_label: every folder of that label, in both tables.
RenameFolders(old, new) ==
  LET Renamed(i) == IF Same(i, Folder(old)) THEN Folder(new) ELSE i
  IN  /\ \E i \in DOMAIN desktop : Same(desktop[i], Folder(old))
      /\ desktop' = [i \in DOMAIN desktop |-> Renamed(desktop[i])]
      /\ dock' = [i \in DOMAIN dock |-> Renamed(dock[i])]
      /\ pressed' = IF drag # NoDrag THEN Renamed(pressed) ELSE pressed
      /\ UNCHANGED <<selected, drag>>

Next ==
  \/ NewFolder \/ DeleteSelected \/ PressElsewhere \/ Move \/ Click
  \/ DropOnDelete \/ DropOnDock \/ DropElsewhere \/ Reload
  \/ \E a \in Apps : PinDesktop(a) \/ PinDock(a)
  \/ \E n \in Labels : RenameSelected(n) \/ \E old \in Labels : RenameFolders(old, n)
  \/ \E area \in {"desktop", "dock"} : \E index \in DOMAIN Table(area) : Press(area, index)

Spec == Init /\ [][Next]_vars

-----------------------------------------------------------------------------
\* The tables keep within their arrays and hold items; indexes count from 1.
TypeOK ==
  /\ Len(desktop) <= DesktopMax /\ ToSet(desktop) \subseteq Items
  /\ Len(dock) <= DockMax /\ ToSet(dock) \subseteq Items
  /\ selected.area \in {"none", "desktop", "dock"} /\ selected.index \in Nat
  /\ drag.area \in {"none", "desktop", "dock"} /\ drag.moved \in BOOLEAN

\* Whatever is reordered, added or renamed while the button is down, the index
\* of the drag is that of the item the button went down on.
DraggedIsPressed ==
  drag # NoDrag => drag.index \in DOMAIN Table(drag.area) /\ Table(drag.area)[drag.index] = pressed

\* No program is in the dock twice, by whatever way it came there.
DockHoldsAppOnce ==
  \A i, j \in DOMAIN dock : dock[i].kind = "app" /\ dock[j].kind = "app" /\ dock[i].app = dock[j].app => i = j

\* os/README.md:799-801 lets a desktop item be dragged into the dock: it leaves
\* the desktop, and no other item does.
DropMovesTheItem ==
  [][drag.area = "desktop" /\ drag' = NoDrag /\ Len(desktop') < Len(desktop)
       => desktop' = RemoveAt(desktop, drag.index)]_vars
=============================================================================
