------------------------------ MODULE MCStores -------------------------------
(***************************************************************************)
(* What the system keeps: the file stores on the media (Media) and the     *)
(* settings with their profiles, snapshot and pack (Settings).  `part`     *)
(* says which a behaviour explores while the other rests.                  *)
(***************************************************************************)
EXTENDS Media, Settings, TLC

VARIABLE part

MCTexts == {<<"x">>, <<"y", "z">>}

\* The settings come into being with the stores: they are at rest in the part
\* that explores those.
MCInit == part \in {"media", "settings"} /\ Init /\ SettingsInit

MCNext ==
  /\ UNCHANGED part
  /\ \/ part = "media" /\ Next /\ UNCHANGED settingsVars
     \/ part = "settings" /\ SettingsNext /\ UNCHANGED vars

MCSpec ==
  /\ MCInit /\ [][MCNext]_<<vars, settingsVars, part>>
  /\ WF_settingsVars(part = "settings" /\ Poll)
=============================================================================
