------------------------------ MODULE Dispenser ------------------------------
(***************************************************************************)
(* The water and ice dispenser: DispensingRequestHandler.c (Idle,          *)
(* RequestingDispense), DispenseController.c (NotDispensing, Dispensing)   *)
(* and the two DoorInhibitDispensingResolvers.  The handler and the        *)
(* controller call each other through ERDs that publish synchronously, so  *)
(* a request runs through both before the next event: the operators nest   *)
(* as the calls do.  autofillSensorErrorErd is Erd_Invalid in the only     *)
(* configuration (SideBySideDispensePlugin.c:29) and is left out.          *)
(***************************************************************************)
EXTENDS Integers

CONSTANTS
    Doors,                  \* the doors of doorsThatInhibitDispense
    WaterDoors, IceDoors,   \* the doors each parametric table enables
    ContinueWait,           \* dispensingRequestContinueWaitTimer, in ticks
    MaximumDispenseTime     \* maxDispenseTimer, in ticks

ASSUME DispenserAssumption ==
    /\ WaterDoors \subseteq Doors /\ IceDoors \subseteq Doors
    /\ ContinueWait \in Nat \ {0} /\ MaximumDispenseTime \in Nat \ {0}

Stopped == -1       \* a timer that does not run; one at 0 is due

WaterSelections == {"Water", "Autofill"}
IceSelections == {"CubedIce", "CrushedIce"}
\* "Bad" stands for the values above Autofill that are not None.
Selections == WaterSelections \cup IceSelections \cup {"None", "Bad"}
Actions == {"Stop", "Start", "Continue", "None", "Bad"}
Reasons == {"WaterDueToDoorOpen", "IceDueToDoorOpen", "WaterDueToRfidFilter"}
Refusals == {"DisabledOrBlocked", "DoorOpen", "Rfid", "HitMaxTime"}
DispenseStatuses ==
    Refusals \cup {"CompletedSuccessfully", "Dispensing", "NoHeartbeat", "BadCommand"}

Dispensers ==
    [handler : {"Idle", "RequestingDispense"},
     current : Selections,          \* currentPrivateDispensingRequest
     wait : Stopped .. ContinueWait,
     controller : {"NotDispensing", "Dispensing"},
     max : Stopped .. MaximumDispenseTime,
     request : [action : {"Stop", "Start"}, selection : Selections],
     result : Refusals \cup {"CompletedSuccessfully", "Reset"},
     status : [selection : Selections, status : DispenseStatuses],
     water : BOOLEAN,               \* both valve votes are On
     auger : IceSelections \cup {"Off"},
     timeFault : BOOLEAN]

InitialDispenser ==
    [handler |-> "Idle", current |-> "Water", wait |-> Stopped,
     controller |-> "NotDispensing", max |-> Stopped,
     request |-> [action |-> "Stop", selection |-> "Water"],
     result |-> "CompletedSuccessfully",
     status |-> [selection |-> "Water", status |-> "CompletedSuccessfully"],
     water |-> FALSE, auger |-> "Off", timeFault |-> FALSE]

-----------------------------------------------------------------------------
(* The end of a dispense, from the controller outwards.                    *)

\* Signal_StopDispensingRequested: the timer stops, every vote goes Off.
StopDispensing(d) ==
    IF d.controller = "Dispensing"
    THEN [d EXCEPT !.controller = "NotDispensing", !.max = Stopped,
                   !.water = FALSE, !.auger = "Off"]
    ELSE d

\* UpdatePrivateDispensingRequestAction: the selection is the current one,
\* which later requests may have overwritten.
PrivateRequest(d, action) ==
    [d EXCEPT !.request = [action |-> action, selection |-> d.current]]

\* Mutant: the exit of RequestingDispense does not stop its timer.
LeaveRequestingDispenseKeepsWaiting(d) ==
    StopDispensing(PrivateRequest([d EXCEPT !.handler = "Idle"], "Stop"))

\* The transition RequestingDispense -> Idle.
LeaveRequestingDispense(d) ==
    StopDispensing(PrivateRequest([d EXCEPT !.handler = "Idle", !.wait = Stopped], "Stop"))

\* The handler's UpdateDispensingRequestStatus.
UpdateStatus(d, status) ==
    [d EXCEPT !.status = [selection |-> d.current, status |-> status]]

\* Mutant: the handler does not clear the result it has copied.
SetDispensingResultStatusIsNotCleared(d, result) ==
    IF d.result = result THEN d
    ELSE LET published == [d EXCEPT !.result = result] IN
         IF d.handler = "RequestingDispense"
         THEN LeaveRequestingDispense(
                [published EXCEPT !.status =
                   [selection |-> d.request.selection, status |-> result]])
         ELSE published

\* privateDispensingResultStatusErd is written: the handler copies it under
\* the selection of the private request, ends, and clears it.
SetDispensingResultStatus(d, result) ==
    IF d.result = result THEN d
    ELSE LET published == [d EXCEPT !.result = result]
             handled ==
                 IF d.handler = "RequestingDispense"
                 THEN LeaveRequestingDispense(
                        [published EXCEPT !.status =
                           [selection |-> d.request.selection, status |-> result]])
                 ELSE published
         IN [handled EXCEPT !.result = "Reset"]

-----------------------------------------------------------------------------
(* The start of a dispense.                                                *)

InhibitedByDoor(selection, inhibited) ==
    \/ selection \in WaterSelections /\ "WaterDueToDoorOpen" \in inhibited
    \/ selection \in IceSelections /\ "IceDueToDoorOpen" \in inhibited

InhibitedByRfid(selection, inhibited) ==
    selection \in WaterSelections /\ "WaterDueToRfidFilter" \in inhibited

\* Mutant: seconds are converted to milliseconds twice.
EnterDispensingForTooLong(d) ==
    [d EXCEPT !.controller = "Dispensing",
              !.timeFault = FALSE,
              !.status = [selection |-> d.request.selection, status |-> "Dispensing"],
              !.max = MaximumDispenseTime * 1000,
              !.water = @ \/ d.request.selection \in WaterSelections,
              !.auger = IF d.request.selection \in IceSelections
                        THEN d.request.selection ELSE @]

\* State_Dispensing's entry.
EnterDispensing(d) ==
    [d EXCEPT !.controller = "Dispensing",
              !.timeFault = FALSE,
              !.status = [selection |-> d.request.selection, status |-> "Dispensing"],
              !.max = MaximumDispenseTime,
              !.water = @ \/ d.request.selection \in WaterSelections,
              !.auger = IF d.request.selection \in IceSelections
                        THEN d.request.selection ELSE @]

\* Signal_StartDispensingRequested, which only State_NotDispensing handles.
StartDispensing(d, inhibited, disabled) ==
    IF d.controller = "Dispensing" THEN d
    ELSE IF InhibitedByDoor(d.request.selection, inhibited)
    THEN SetDispensingResultStatus(d, "DoorOpen")
    ELSE IF InhibitedByRfid(d.request.selection, inhibited)
    THEN SetDispensingResultStatus(d, "Rfid")
    ELSE IF disabled THEN SetDispensingResultStatus(d, "DisabledOrBlocked")
    ELSE EnterDispensing(d)

\* State_RequestingDispense's entry.
EnterRequestingDispense(d, inhibited, disabled) ==
    StartDispensing(
        PrivateRequest([d EXCEPT !.handler = "RequestingDispense",
                                 !.wait = ContinueWait], "Start"),
        inhibited, disabled)

\* Mutant: a continue request prolongs the dispense as well.
HandlerSignalContinueRestartsAll(d, action, inhibited, disabled) ==
    LET requesting == d.handler = "RequestingDispense" IN
    CASE action = "Start" /\ ~requesting ->
            EnterRequestingDispense(d, inhibited, disabled)
      [] action = "Continue" /\ requesting ->
            [d EXCEPT !.wait = ContinueWait, !.max = MaximumDispenseTime]
      [] action = "Stop" ->
            LET told == UpdateStatus(d, "CompletedSuccessfully") IN
            IF requesting THEN LeaveRequestingDispense(told) ELSE told
      [] action = "Bad" -> UpdateStatus(d, "BadCommand")
      [] OTHER -> d

\* The signal each action of a request sends to the handler.
HandlerSignal(d, action, inhibited, disabled) ==
    LET requesting == d.handler = "RequestingDispense" IN
    CASE action = "Start" /\ ~requesting ->
            EnterRequestingDispense(d, inhibited, disabled)
      [] action = "Continue" /\ requesting -> [d EXCEPT !.wait = ContinueWait]
      [] action = "Stop" ->
            LET told == UpdateStatus(d, "CompletedSuccessfully") IN
            IF requesting THEN LeaveRequestingDispense(told) ELSE told
      [] action = "Bad" -> UpdateStatus(d, "BadCommand")
      [] OTHER -> d

\* dispensingRequestErd changes; the ERD is cleared at the end, which
\* publishes a request with neither action nor selection.
HandleRequest(d, action, selection, inhibited, disabled) ==
    LET acted == IF action = "None" THEN d
                 ELSE HandlerSignal([d EXCEPT !.current = selection],
                                    action, inhibited, disabled)
    IN IF selection = "Bad" THEN HandlerSignal(acted, "Bad", inhibited, disabled)
       ELSE acted

-----------------------------------------------------------------------------
(* Changes of what inhibits a dispense, and the timers.                    *)

\* Mutant: the doors' bits are looked at only when the filter's changes.
HandleInhibitionByFilterOnly(d, inhibited) ==
    IF "WaterDueToRfidFilter" \in inhibited
    THEN SetDispensingResultStatus(d, "Rfid") ELSE d

\* dispensingInhibitedErd changes: with the filter's bit set the doors' are
\* not looked at, and the selection is.
HandleInhibition(d, inhibited) ==
    CASE "WaterDueToRfidFilter" \in inhibited -> SetDispensingResultStatus(d, "Rfid")
      [] /\ "WaterDueToRfidFilter" \notin inhibited
         /\ InhibitedByDoor(d.request.selection, inhibited) ->
            SetDispensingResultStatus(d, "DoorOpen")
      [] OTHER -> d

\* Signal_MaxDispenseTimerExpired in State_Dispensing.
HandleMaxDispenseTime(d) ==
    [SetDispensingResultStatus([d EXCEPT !.max = Stopped], "HitMaxTime")
        EXCEPT !.timeFault = TRUE]

\* Mutant: the missing heartbeat is not reported.
HandleContinueWaitSilently(d) == LeaveRequestingDispense([d EXCEPT !.wait = Stopped])

\* The continue request has not come in time.
HandleContinueWait(d) ==
    LeaveRequestingDispense(UpdateStatus([d EXCEPT !.wait = Stopped], "NoHeartbeat"))
=============================================================================
