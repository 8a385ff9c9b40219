--------------------------------- MODULE Studio ---------------------------------
(***************************************************************************)
(* The backend seen by the one who sets it up from the headset: settings   *)
(* and authoring, which change the one Agent all the connections share and *)
(* the files it is built from, and the process, which may end at any time. *)
(***************************************************************************)
EXTENDS Settings, Authoring

vars == <<processVars, settingsVars, authoringVars>>

Init ==
  /\ NotServing
  /\ SettingsInit
  /\ AuthoringInit

\* jarvis-backend serve.
Start ==
  /\ Serve
  /\ SettingsStart
  /\ AuthoringStart

\* The process ends: what is on disk stays.  (An end between the writing of the file and
\* the change of the Config is a change followed by an end.)
Stop ==
  /\ Exit
  /\ SettingsStop
  /\ AuthoringStop

Next ==
  \/ Start
  \/ Stop
  \/ "settings" \in panels /\ SettingsStep /\ UNCHANGED authoringVars
  \/ "authoring" \in panels /\ AuthoringStep /\ UNCHANGED settingsVars
  \/ "authoring" \in panels /\ Activation /\ UNCHANGED settingsVars

Spec == Init /\ [][Next]_vars
=================================================================================
