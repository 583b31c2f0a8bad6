---------------------- MODULE IceMakerWaterFillMonitor ----------------------
(***************************************************************************)
(* The monitor that ends a fill of an ice maker's tray                     *)
(* (src/src/Application/IceMaker/IceMakerWaterFillMonitor.c): it runs two  *)
(* timers against the flow meter.  The timed fill ends a fill whose flow   *)
(* meter never reports, the maximum fill one whose meter reports too       *)
(* little.                                                                 *)
(*                                                                         *)
(* The monitor is a record; a handler is an operator on it.  An ERD write  *)
(* that changes nothing publishes nothing.                                 *)
(***************************************************************************)
EXTENDS Integers

MonitorRequests == {"Stop", "Start", "Pause", "Resume"}
TimerStates == {"stopped", "running", "paused"}

Monitor == [request : MonitorRequests, timedFill : TimerStates,
            maxFill : TimerStates, listening : BOOLEAN]

InitialMonitor == [request |-> "Stop", timedFill |-> "stopped",
                   maxFill |-> "stopped", listening |-> FALSE]

\* TimerModule_Pause and TimerModule_Resume leave any other timer alone.
Paused(t) == IF t = "running" THEN "paused" ELSE t
Resumed(t) == IF t = "paused" THEN "running" ELSE t

StartMonitoring(f) ==
    [f EXCEPT !.timedFill = "running", !.maxFill = "running", !.listening = TRUE]

PauseMonitoring(f) ==
    [f EXCEPT !.timedFill = Paused(@), !.maxFill = Paused(@), !.listening = FALSE]

\* Mutant: only the timed fill goes on.
ResumeForgetsMaxFill(f) ==
    [f EXCEPT !.timedFill = Resumed(@), !.listening = TRUE]

ResumeMonitoring(f) ==
    [f EXCEPT !.timedFill = Resumed(@), !.maxFill = Resumed(@), !.listening = TRUE]

\* OnFillMonitorRequestChange: a Stop does nothing.
RequestMonitor(f, request) ==
    LET g == [f EXCEPT !.request = request] IN
    CASE request = f.request -> f
      [] request = "Start" /\ request # f.request -> StartMonitoring(g)
      [] request = "Pause" /\ request # f.request -> PauseMonitoring(g)
      [] request = "Resume" /\ request # f.request -> ResumeMonitoring(g)
      [] request = "Stop" /\ request # f.request -> g

\* What StopMonitoring does to the monitor; it also sends the stop fill
\* signal, which its caller's action models.
StopMonitoring(f) ==
    [f EXCEPT !.timedFill = "stopped", !.maxFill = "stopped", !.listening = FALSE]

\* OnFlowMeterWaterDispensedChange below the precise amount.
FlowSeen(f) == [f EXCEPT !.timedFill = "stopped"]
=============================================================================
