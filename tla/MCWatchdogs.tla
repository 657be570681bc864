---------------------------- MODULE MCWatchdogs -----------------------------
(***************************************************************************)
(* Instances of the watchdogs for TLC, with the times cut down so that all *)
(* of their orders occur.                                                  *)
(***************************************************************************)
EXTENDS Watchdogs

UpdateControls ==
  {{"WDOGEN", "ALLOWUPDATE"}, {"WDOGEN", "IRQRSTEN", "WINEN"}, {"ALLOWUPDATE", "DBGEN"}}
UpdateFeatures == {"REFRESH", "BYTES", "wait", "HALT", "STEP"}
BothFeatures == UpdateFeatures \cup {"EWM"}

LiveControls == {{"WDOGEN", "IRQRSTEN", "ALLOWUPDATE"}, {"ALLOWUPDATE"}}
LiveFeatures == {"REFRESH", "HALT", "stop", "HOST_TICKS"}

MonitorControls == {{"EWMEN", "INTEN"}, {"EWMEN", "INEN", "ASSIN", "INTEN"}, {"EWMEN", "INEN", "ASSIN"}}

(* The run on both watchdogs looks at each at the full while the other is simple:
   the monitor is used once the watchdog is configured to warn before it resets, with
   no debugger, no sequence under way and its deadlines over but that of a reset. *)
MonitorUnused == [wd.ewm EXCEPT !.service_left = 0] = AfterReset(FALSE).ewm
OneAtATime ==
  \/ MonitorUnused
  \/ /\ "IRQRSTEN" \in wd.config.ctrl
     /\ wd.config.timeout = ResetTimeout /\ wd.config.window = ResetWindow
     /\ ~wd.unlock_stage /\ ~wd.refresh_stage /\ ~wd.update_open /\ ~wd.halted
     /\ wd.refresh = Word("second") /\ wd.unlock = Word("second")
     /\ wd.sequence_left < 0 /\ wd.ready_left < 0 /\ wd.update_left < 0
     /\ wd.initial_debug_remaining = 0
=============================================================================
