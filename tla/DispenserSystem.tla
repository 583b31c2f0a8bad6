--------------------------- MODULE DispenserSystem ---------------------------
(***************************************************************************)
(* The dispenser among its inputs: requests from the user interface, doors *)
(* (each watched by both DoorInhibitDispensingResolvers), the filter's bit *)
(* of the inhibition bitmap (DispensingDisabler.c), the disabling ERD      *)
(* (written by Enhanced Sabbath) and time.                                 *)
(***************************************************************************)
EXTENDS Dispenser

VARIABLES
    d,                      \* the handler, the controller and their ERDs
    open,                   \* the doors that are open
    waterDoors, iceDoors,   \* doorInhibitStatus of each resolver
    inhibited,              \* dispensingInhibitedErd
    disabled                \* dispensingDisabledErd

vars == <<d, open, waterDoors, iceDoors, inhibited, disabled>>

\* Every value is of its type.
TypeOK ==
    /\ d \in Dispensers
    /\ open \subseteq Doors
    /\ waterDoors \subseteq WaterDoors /\ iceDoors \subseteq IceDoors
    /\ inhibited \subseteq Reasons
    /\ disabled \in BOOLEAN

\* A resolver's bit, from its doorInhibitStatus.
WithBit(bitmap, reason, doors) ==
    IF doors # {} THEN bitmap \cup {reason} ELSE bitmap \ {reason}

\* doorInhibitStatus after a change of one door.
WithDoor(status, watched, door, isOpen) ==
    CASE door \notin watched -> status
      [] door \in watched /\ isOpen -> status \cup {door}
      [] door \in watched /\ ~isOpen -> status \ {door}

Init ==
    /\ d = InitialDispenser
    /\ open \in SUBSET Doors
    /\ waterDoors = open \cap WaterDoors
    /\ iceDoors = open \cap IceDoors
    /\ inhibited = WithBit(WithBit({}, "WaterDueToDoorOpen", waterDoors),
                           "IceDueToDoorOpen", iceDoors)
    /\ disabled = FALSE

\* dispensingInhibitedErd is written; nothing is published if it is the same.
Published(dispenser, old, new) ==
    IF old = new THEN dispenser ELSE HandleInhibition(dispenser, new)

\* Mutant: the ice resolver writes the bitmap it read before the water resolver.
DoorChangesSharesBits(door) ==
    /\ open' = IF door \in open THEN open \ {door} ELSE open \cup {door}
    /\ waterDoors' = WithDoor(waterDoors, WaterDoors, door, door \in open')
    /\ iceDoors' = WithDoor(iceDoors, IceDoors, door, door \in open')
    /\ LET ice == WithBit(inhibited, "IceDueToDoorOpen", iceDoors') IN
        /\ inhibited' = ice
        /\ d' = Published(d, inhibited, ice)
    /\ UNCHANGED disabled

\* A door opens or closes: the water resolver, then the ice resolver.
DoorChanges(door) ==
    /\ open' = IF door \in open THEN open \ {door} ELSE open \cup {door}
    /\ waterDoors' = WithDoor(waterDoors, WaterDoors, door, door \in open')
    /\ iceDoors' = WithDoor(iceDoors, IceDoors, door, door \in open')
    /\ LET water == IF door \in WaterDoors
                    THEN WithBit(inhibited, "WaterDueToDoorOpen", waterDoors')
                    ELSE inhibited
           ice == IF door \in IceDoors
                  THEN WithBit(water, "IceDueToDoorOpen", iceDoors')
                  ELSE water
       IN /\ inhibited' = ice
          /\ d' = Published(Published(d, inhibited, water), water, ice)
    /\ UNCHANGED disabled

\* The filter reports a leak or an error, or no longer does.
FilterChanges ==
    /\ inhibited' = IF "WaterDueToRfidFilter" \in inhibited
                    THEN inhibited \ {"WaterDueToRfidFilter"}
                    ELSE inhibited \cup {"WaterDueToRfidFilter"}
    /\ d' = HandleInhibition(d, inhibited')
    /\ UNCHANGED <<open, waterDoors, iceDoors, disabled>>

\* State_Global: Signal_DispensingDisabled in either state.
DisabledChanges ==
    /\ disabled' = ~disabled
    /\ d' = IF disabled' THEN SetDispensingResultStatus(d, "DisabledOrBlocked") ELSE d
    /\ UNCHANGED <<open, waterDoors, iceDoors, inhibited>>

\* A request with neither action nor selection is the cleared one.
Request(action, selection) ==
    /\ <<action, selection>> # <<"None", "None">>
    /\ d' = HandleRequest(d, action, selection, inhibited, disabled)
    /\ UNCHANGED <<open, waterDoors, iceDoors, inhibited, disabled>>

\* A tick of the timers.  The loop serves a timer that is due before the
\* next tick, with other events in between.
Tick ==
    /\ d.wait # 0 /\ d.max # 0
    /\ d.wait # Stopped \/ d.max # Stopped
    /\ d' = [d EXCEPT !.wait = IF @ = Stopped THEN @ ELSE @ - 1,
                      !.max = IF @ = Stopped THEN @ ELSE @ - 1]
    /\ UNCHANGED <<open, waterDoors, iceDoors, inhibited, disabled>>

ContinueWaitExpires ==
    /\ d.wait = 0
    /\ d' = HandleContinueWait(d)
    /\ UNCHANGED <<open, waterDoors, iceDoors, inhibited, disabled>>

MaxDispenseTimeExpires ==
    /\ d.max = 0
    /\ d' = HandleMaxDispenseTime(d)
    /\ UNCHANGED <<open, waterDoors, iceDoors, inhibited, disabled>>

Next ==
    \/ \E door \in Doors : DoorChanges(door)
    \/ FilterChanges
    \/ DisabledChanges
    \/ \E action \in Actions, selection \in Selections : Request(action, selection)
    \/ Tick
    \/ ContinueWaitExpires
    \/ MaxDispenseTimeExpires

\* Time passes and the main loop serves its timers; nothing is assumed of
\* the user, the doors or the filter.
Fairness ==
    /\ WF_vars(Tick)
    /\ WF_vars(ContinueWaitExpires)
    /\ WF_vars(MaxDispenseTimeExpires)

Spec == Init /\ [][Next]_vars /\ Fairness

-----------------------------------------------------------------------------
\* A load runs only in a dispense of its kind that nothing forbids: not with
\* the door it needs shut open, not water through a leaking filter, not
\* while dispensing is disabled; and it is bounded by a running timer.
LoadsRunOnlyWhenAllowed ==
    d.water \/ d.auger # "Off" =>
        /\ d.controller = "Dispensing"
        /\ d.water <=> d.request.selection \in WaterSelections
        /\ d.auger = (IF d.request.selection \in IceSelections
                      THEN d.request.selection ELSE "Off")
        /\ ~disabled
        /\ d.water => open \cap WaterDoors = {} /\ "WaterDueToRfidFilter" \notin inhibited
        /\ d.auger # "Off" => open \cap IceDoors = {}
        /\ d.max # Stopped

\* Between events the two machines agree, each with its timer: neither waits
\* for a heartbeat of a dispense that is over, nor dispenses without one.
MachinesAgree ==
    LET requesting == d.handler = "RequestingDispense" IN
    /\ requesting <=> d.controller = "Dispensing"
    /\ requesting <=> d.request.action = "Start"
    /\ requesting <=> d.wait # Stopped
    /\ requesting <=> d.max # Stopped

\* Every result has been taken and cleared, so that the same result of the
\* next dispense is a change and is published.
ResultsAreCleared == d.result \in {"Reset", "CompletedSuccessfully"}

\* Whoever reads the public status never sees a dispense that is over: the
\* ice maker delays its fill on it.
StatusIsNotStale ==
    d.status.status = "Dispensing" =>
        /\ d.controller = "Dispensing"
        /\ d.status.selection = d.request.selection

\* The inhibition bitmap follows the doors through both resolvers, which
\* share it.
BitmapFollowsDoors ==
    /\ "WaterDueToDoorOpen" \in inhibited <=> open \cap WaterDoors # {}
    /\ "IceDueToDoorOpen" \in inhibited <=> open \cap IceDoors # {}

\* Every dispense ends, however often the user interface says to continue.
EveryDispenseEnds == d.controller = "Dispensing" ~> d.controller = "NotDispensing"

\* What the tests say of doors (DispenseController_Test.cpp:684, 694): a door
\* that inhibits only water leaves a dispense of ice alone.
WaterDoorsLeaveIceAlone ==
    [][\A door \in WaterDoors \ IceDoors :
          DoorChanges(door) /\ d.auger # "Off" => d'.auger = d.auger]_vars

\* Between two events the request handler, the controller, the loads, the public
\* status and the inhibitions tell the same story.
DispenseIsConsistent ==
    /\ TypeOK
    /\ LoadsRunOnlyWhenAllowed
    /\ MachinesAgree
    /\ ResultsAreCleared
    /\ StatusIsNotStale
    /\ BitmapFollowsDoors
=============================================================================
