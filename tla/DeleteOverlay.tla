---------------------------- MODULE DeleteOverlay ----------------------------
(***************************************************************************)
(* Hiding and deleting built-in files, src/os/kernel/fs.c.  The files stay *)
(* in the kernel; two tables of names keep them out of sight, "hidden"     *)
(* ones until RESTORE and "deleted" ones until TOMB DROP.  Every change is *)
(* recorded in fsdelete.lardd, a writable file that a boot loads with the  *)
(* others and replays.  A user who edits that file by hand is left out.    *)
(***************************************************************************)
EXTENDS Naturals, Sequences, SequencesExt

CONSTANTS
  BuiltIn,    \* the files of the kernel image
  HiddenMax,  \* FS_HIDDEN_READONLY_MAX: 32
  DeletedMax, \* FS_DELETED_READONLY_MAX: 32
  LogMax      \* bound: records that fsdelete.lardd holds, 62 of the longest name

\* 64 records of the longest names of this build take 1399 of the 1888 bytes
\* that fsdelete.lardd has besides its heading.
OverlayAssumption ==
  /\ HiddenMax \in Nat /\ DeletedMax \in Nat
  /\ LogMax \in Nat /\ LogMax > HiddenMax + DeletedMax

Records == [op : {"HIDE", "SHOW", "DELETE"}, name : BuiltIn]

VARIABLES
  tables,   \* [hidden, deleted]: s_hidden_readonly and s_deleted_readonly
  log,      \* the records of fsdelete.lardd
  saved,    \* those of the copy in the LPST store
  strayed   \* history variable: has a delete shown a hidden file and then failed
            \* for want of room, since the tables were last made from the log?

vars == <<tables, log, saved, strayed>>

-----------------------------------------------------------------------------
Empty == [hidden |-> <<>>, deleted |-> <<>>]

Has(s, n) == n \in Range(s)

Without(s, n) == SelectSeq(s, LAMBDA m : m # n)

\* fs_track_hide_readonly: refused for a deleted file and by a full table.
MayHide(t, n) == ~Has(t.deleted, n) /\ (Has(t.hidden, n) \/ Len(t.hidden) < HiddenMax)
Hidden(t, n) ==
  IF ~MayHide(t, n) \/ Has(t.hidden, n) THEN t ELSE [t EXCEPT !.hidden = Append(@, n)]

\* fs_track_show_readonly
Shown(t, n) == [t EXCEPT !.hidden = Without(@, n)]

\* fs_track_delete_readonly: what it hid is shown first, whether or not there
\* is room to delete it.
MayDelete(t, n) == Has(t.deleted, n) \/ Len(t.deleted) < DeletedMax
Deleted(t, n) ==
  IF Has(t.deleted, n) \/ ~MayDelete(t, n) THEN Shown(t, n)
  ELSE [Shown(t, n) EXCEPT !.deleted = Append(@, n)]

\* fs_track_purge_readonly_delete
Purged(t, n) == [hidden |-> Without(t.hidden, n), deleted |-> Without(t.deleted, n)]

Effect(t, r) ==
  CASE r.op = "HIDE" -> Hidden(t, r.name)
    [] r.op = "SHOW" -> Shown(t, r.name)
    [] r.op = "DELETE" -> Deleted(t, r.name)

\* fs_apply_delete_log
Replayed(records) == FoldLeft(Effect, Empty, records)

\* fsdelete_rewrite_from_state
Rewritten(t) ==
  [i \in DOMAIN t.hidden |-> [op |-> "HIDE", name |-> t.hidden[i]]]
    \o [i \in DOMAIN t.deleted |-> [op |-> "DELETE", name |-> t.deleted[i]]]

\* A bug to catch: a full log is rewritten from the tables as they were.
LoggedEarly(old, new, r) ==
  IF Len(log) >= LogMax THEN Rewritten(old) ELSE Append(log, r)

\* fsdelete_append_record: the tables are changed already, and a full log is
\* rewritten from them in place of the record.
Logged(old, new, r) ==
  IF Len(log) >= LogMax THEN Rewritten(new) ELSE Append(log, r)

Init == tables = Empty /\ log = <<>> /\ saved = <<>> /\ strayed = FALSE

Change(t, r) == tables' = t /\ log' = Logged(tables, t, r) /\ UNCHANGED <<saved, strayed>>

\* fs_hide_readonly, "tomb hide"
Hide(n) ==
  /\ MayHide(tables, n)
  /\ Change(Hidden(tables, n), [op |-> "HIDE", name |-> n])

\* fs_delete_readonly, "del -f"
Delete(n) ==
  /\ MayDelete(tables, n)
  /\ Change(Deleted(tables, n), [op |-> "DELETE", name |-> n])

\* The same with a full table: nothing is recorded, but a hidden file shows.
DeleteFails(n) ==
  /\ ~MayDelete(tables, n)
  /\ tables' = Deleted(tables, n)
  /\ strayed' = (strayed \/ tables' # tables)
  /\ UNCHANGED <<log, saved>>

\* A bug to catch: a deleted file is restored as a hidden one is.
UnhideDeleted(n) == Change(Purged(tables, n), [op |-> "SHOW", name |-> n])

\* fs_unhide_readonly, "restore": refused for a deleted file.
Unhide(n) ==
  /\ ~Has(tables.deleted, n)
  /\ Change(Shown(tables, n), [op |-> "SHOW", name |-> n])

\* fs_purge_readonly_tombstone, "tomb drop" and "del -t"
Purge(n) ==
  /\ tables' = Purged(tables, n)
  /\ log' = Rewritten(tables')
  /\ strayed' = FALSE
  /\ UNCHANGED saved

\* fs_purge_all_readonly_tombstones, "tomb clear"
PurgeAll ==
  /\ tables' = Empty
  /\ log' = <<>>
  /\ strayed' = FALSE
  /\ UNCHANGED saved

\* fs_persist_save, whose store keeps the copy whole
Save == saved' = log /\ UNCHANGED <<tables, log, strayed>>

\* A boot, or "fsload": the store's copy, replayed.
Reload ==
  /\ log' = saved
  /\ tables' = Replayed(saved)
  /\ strayed' = FALSE
  /\ UNCHANGED saved

Next ==
  \/ \E n \in BuiltIn : Hide(n) \/ Delete(n) \/ DeleteFails(n) \/ Unhide(n) \/ Purge(n)
  \/ PurgeAll
  \/ Save
  \/ Reload

Spec == Init /\ [][Next]_vars

-----------------------------------------------------------------------------
\* Neither table outgrows its array or holds a name twice, no name is in both,
\* and the log fits its file.
TypeOK ==
  /\ tables.hidden \in Seq(BuiltIn) /\ Len(tables.hidden) <= HiddenMax
  /\ tables.deleted \in Seq(BuiltIn) /\ Len(tables.deleted) <= DeletedMax
  /\ IsInjective(tables.hidden) /\ IsInjective(tables.deleted)
  /\ Range(tables.hidden) \cap Range(tables.deleted) = {}
  /\ log \in Seq(Records) /\ Len(log) <= LogMax

\* The log tells the tables, after any number of records and rewrites: what is
\* out of sight now is out of sight after a save and a boot, and nothing else.
\* The one exception is a delete that found its table full.
LogTellsTables == ~strayed => Replayed(log) = tables

\* README.md:635: "RESTORE file / UNDELETE file only restores soft TOMB HIDE
\* records": a deleted file comes back only when its record is dropped, or by
\* loading a store that was saved before.
DeletedStaysDeleted ==
  [][\A n \in BuiltIn :
       Has(tables.deleted, n) /\ ~Has(tables'.deleted, n)
         => Purge(n) \/ PurgeAll \/ (Reload /\ ~Has(Replayed(saved).deleted, n))]_vars
=============================================================================
