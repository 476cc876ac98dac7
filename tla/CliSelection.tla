---------------------------- MODULE CliSelection ----------------------------
(***************************************************************************)
(* What the CLI store promises the rest of the app, whatever crashes: there  *)
(* is at most one selected version and one fallback, both installed; a new   *)
(* version is selected only when the selected one has become the fallback;   *)
(* and the only other way to change the selection is back to the fallback.   *)
(***************************************************************************)
CONSTANTS Version, NoVersion

VARIABLES
  installed,  \* versions that can be run
  selected,   \* the version agent work runs on, or NoVersion
  fallback    \* the version a failed update returns to, or NoVersion

vars == <<installed, selected, fallback>>

Init ==
  /\ installed = {}
  /\ selected = NoVersion
  /\ fallback = NoVersion

Install(v) ==
  /\ installed' = installed \cup {v}
  /\ UNCHANGED <<selected, fallback>>

Retire(v) ==
  /\ v \notin {selected, fallback}
  /\ installed' = installed \ {v}
  /\ UNCHANGED <<selected, fallback>>

KeepAsFallback ==
  /\ fallback' = selected
  /\ UNCHANGED <<installed, selected>>

Upgrade(v) ==
  /\ selected \in {NoVersion, fallback}
  /\ v \in installed
  /\ selected' = v
  /\ UNCHANGED <<installed, fallback>>

Revert ==
  /\ fallback \in installed
  /\ selected' = fallback
  /\ UNCHANGED <<installed, fallback>>

Next ==
  \/ \E v \in Version : Install(v) \/ Retire(v) \/ Upgrade(v)
  \/ KeepAsFallback
  \/ Revert

Spec == Init /\ [][Next]_vars
=============================================================================
