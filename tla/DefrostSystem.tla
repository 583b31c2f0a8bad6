---------------------------- MODULE DefrostSystem ----------------------------
(***************************************************************************)
(* The defrost machine with the components that drive it: the minute       *)
(* timers of the DefrostHeaterOnTimeCounters, DefrostHeaterMaxOnTime,      *)
(* DefrostTestRequestHandler.c, CoolingSystemRequestHandler.c, the sensors *)
(* and sabbath flags it watches, and the loss of power.  One action is one *)
(* event of the main loop, run to completion.  The constants choose which  *)
(* of the inputs move in an instance.                                      *)
(***************************************************************************)
EXTENDS Defrost

CONSTANTS
    TestRequests,       \* the DefrostTestRequest values that are made
    FailingThermistors, \* the thermistors whose validity changes
    MovingFlags,        \* the flags that change
    CoolingCanStop,     \* Erd_CoolingOffRequest is written
    PowerCanFail,       \* the power can be lost
    CountBound          \* bound of the model on the secondary only defrosts

HeatedRequests == {"Defrost", "SecondaryOnlyDefrost", "Prechill", "SecondaryOnlyPrechill"}
AhamRequests == {"AhamPrechill", "AhamSecondaryOnlyPrechill"}

ASSUME DefrostSystemAssumption ==
    /\ TestRequests \subseteq HeatedRequests \cup AhamRequests \cup
          {"Disable", "Enable", "Idle", "ExitDefrostHeaterOnState"}
    /\ FailingThermistors \subseteq Thermistors
    /\ MovingFlags \subseteq Flags
    /\ CoolingCanStop \in BOOLEAN /\ PowerCanFail \in BOOLEAN
    /\ CountBound \in Nat

VARIABLES
    defrost,    \* Defrost_t with the ERDs it writes
    erds,       \* the ERDs it reads
    since       \* heatings without the primary evaporators since a full one

vars == <<defrost, erds, since>>

-----------------------------------------------------------------------------

\* A heating is complete when HeaterOn is left, and one of all the evaporators
\* starts a new count when HeaterOn is entered.  since stops at CountBound + 1,
\* and no step takes the machine's own count past CountBound.
Becomes(m) ==
    /\ m.count <= CountBound
    /\ defrost' = m
    /\ since' = CASE defrost.hsm # "HeaterOn" /\ m.hsm = "HeaterOn" /\ m.type = "Full" -> 0
                  [] /\ defrost.hsm = "HeaterOn" /\ m.hsm # "HeaterOn"
                     /\ defrost.type = "SecondaryOnly" ->
                        IF since > CountBound THEN since ELSE since + 1
                  [] OTHER -> since

AllValid == [t \in Thermistors |->
                IF t \in FailingThermistors THEN "Undiscovered" ELSE "Valid"]

Init ==
    /\ erds = [thermistor |-> AllValid, flags |-> {},
               convertible |-> "FreshFood", coolingStatus |-> FALSE, coolingOff |-> FALSE]
    /\ \E warm \in Thermistors \cup {"None"} :
          defrost = Start(DefaultSettings, erds, warm)
    /\ since = 0

-----------------------------------------------------------------------------
(* The timers.                                                             *)

TimerExpires ==
    /\ defrost.timer
    /\ UNCHANGED erds
    /\ \E m \in {DefrostTimerExpired(defrost, erds, now) : now \in Readings} : Becomes(m)

Minute(e) ==
    /\ e \in defrost.counting
    /\ UNCHANGED erds
    /\ \E m \in {DefrostHeaterOnTime(defrost, erds, e)} : Becomes(m)

-----------------------------------------------------------------------------
(* The ERDs DataModelChanged watches.                                      *)

\* readyToDefrostErd, the sabbath modes and their readiness.
WriteFlag(f) ==
    /\ f \in MovingFlags
    /\ LET set == f \notin erds.flags
           x == [erds EXCEPT !.flags = IF set THEN @ \cup {f} ELSE @ \ {f}]
       IN /\ erds' = x
          /\ \E m \in
                CASE \/ f = "ready" /\ set
                     \/ f \in {"sabbath", "enhanced"} /\ ~set ->
                        {ReadyToDefrost(defrost, x, now) : now \in Readings}
                  [] f # "ready" /\ set ->
                        {SabbathReadyToDefrost(defrost, x, now) : now \in Readings}
                  [] f \notin {"sabbath", "enhanced"} /\ ~set -> {defrost} :
                Becomes(m)

\* compressorIsOnErd and coolingModeErd.
CoolingModeChanges ==
    /\ defrost.hsm = "PrechillPrep"
    /\ \E m \in {EndPrechillPrep(defrost, erds, now) : now \in Readings} : Becomes(m)
    /\ UNCHANGED erds

\* The filtered temperatures of the cabinets, at a prechill exit condition.
CabinetTemperatureChanges ==
    /\ defrost.hsm = "Prechill"
    /\ \E now \in Readings : now.past \notin Evaporators \cup {"Time"}
                            /\ PrechillExitConditionMet(erds, now)
    /\ Becomes(EndPrechill(defrost, erds, {"Prechill"}))
    /\ UNCHANGED erds

\* The filtered temperature of an evaporator: hot ends its heating, cold ends
\* a prechill or a post dwell if the evaporator is a primary one.
EvaporatorTemperatureChanges(e) ==
    /\ Valid(erds, e)
    /\ \/ defrost.hsm = "HeaterOn" /\ Becomes(TerminationTemperature(defrost, erds, e))
       \/ /\ e \in Primary(erds) /\ defrost.hsm \in {"Prechill", "PostDwell"}
          /\ \E m \in {PrimaryIsCold(defrost, erds, now) : now \in Readings} : Becomes(m)
    /\ UNCHANGED erds

\* The validity of a thermistor; the maximum on time follows it.
ThermistorChanges(t) ==
    /\ t \in FailingThermistors
    /\ LET valid == Valid(erds, t)
           x == [erds EXCEPT !.thermistor[t] = IF valid THEN "Invalid" ELSE "Valid"]
       IN /\ erds' = x
          /\ Becomes(IF valid THEN EndPrechill(defrost, x, Prechills) ELSE defrost)

\* convertibleCompartmentStateErd: the evaporators are assigned again, and
\* the signal for a primary one carries the temperature as it is.
ConvertibleCompartmentStateChanges ==
    /\ "Convertible" \in Evaporators
    /\ LET x == [erds EXCEPT !.convertible =
                    IF @ = "Freezer" THEN "FreshFood" ELSE "Freezer"]
       IN /\ erds' = x
          /\ \/ Becomes(defrost)
             \/ /\ x.convertible = "Freezer"
                /\ \E m \in {PrimaryIsCold(defrost, x, now) : now \in Readings} : Becomes(m)

\* The sealed system valve manager answers the homing request.
ValveHomes ==
    /\ defrost.homing
    /\ Becomes([defrost EXCEPT !.homing = FALSE])
    /\ UNCHANGED erds

-----------------------------------------------------------------------------
(* The components that control the defrost.                                *)

\* HandleDefrostTestRequest.
Handle(r, now) ==
    LET type == IF r \in {"Defrost", "Prechill", "AhamPrechill"}
                THEN "Full" ELSE "SecondaryOnly"
    IN CASE r = "Disable" -> SetDisableDefrost(defrost, erds, TRUE, now)
         [] r = "Enable" ->
               IF defrost.hsm = "Disabled"
               THEN SetDisableDefrost(
                      [defrost EXCEPT !.override = "Full"], erds, FALSE, now)
               ELSE defrost
         [] r \notin {"Disable", "Enable"} ->
               IF defrost.hsm = "Disabled" THEN defrost
               ELSE IF r \in AhamRequests
               THEN [defrost EXCEPT !.dontSkipPrechill = TRUE, !.override = type, !.aham = TRUE]
               ELSE IF r \in HeatedRequests
               THEN RequestDefrostTestState(
                      [defrost EXCEPT !.override = type], erds,
                      IF r \in {"Defrost", "SecondaryOnlyDefrost"} THEN "Defrost" ELSE "Prechill",
                      now)
               ELSE RequestDefrostTestState(defrost, erds, r, now)

DefrostTestRequest(r) ==
    /\ \E m \in {Handle(r, now) : now \in Readings} : Becomes(m)
    /\ UNCHANGED erds

\* CoolingSystemRequestHandler: every load of its list gets the vote for off,
\* with or without care.
VoteOffForAllTheLoads(x, care) == [x EXCEPT !.coolingOff = care]

VoteBasedOnStatus(x) == VoteOffForAllTheLoads(x, x.coolingStatus)

\* The loads' votes, then disableDefrostErd, which the defrost hears at once
\* (it counts its heaters first, as their votes lose), then the status.  The
\* turbo modes that are turned off belong to the set points.
CoolingOffRequest(off) ==
    /\ CoolingCanStop
    /\ LET x == VoteOffForAllTheLoads(erds, off) IN
       /\ erds' = [x EXCEPT !.coolingStatus = off]
       /\ \E m \in {SetDisableDefrost(CountHeaters(defrost, x), x, off, now) :
                      now \in Readings} : Becomes(m)

\* The power fails and returns.  The non-volatile settings survive unless the
\* EEPROM was blank, the sabbath modes and the cooling status among them.
PowerCycle ==
    /\ PowerCanFail
    /\ \E wiped \in BOOLEAN, warm \in Thermistors \cup {"None"} :
          LET x == VoteBasedOnStatus([erds EXCEPT
                      !.flags = IF wiped THEN {} ELSE @ \cap {"sabbath", "enhanced"},
                      !.coolingStatus = @ /\ ~wiped]) IN
          /\ erds' = x
          /\ defrost' = Start(IF wiped THEN DefaultSettings ELSE Settings(defrost),
                              x, warm)
          /\ since' = IF wiped THEN 0 ELSE since

Next ==
    \/ TimerExpires
    \/ \E e \in Evaporators : Minute(e)
    \/ \E f \in Flags : WriteFlag(f)
    \/ CoolingModeChanges
    \/ CabinetTemperatureChanges
    \/ \E e \in Evaporators : EvaporatorTemperatureChanges(e)
    \/ \E t \in Thermistors : ThermistorChanges(t)
    \/ ConvertibleCompartmentStateChanges
    \/ ValveHomes
    \/ \E r \in TestRequests : DefrostTestRequest(r)
    \/ \E off \in BOOLEAN : CoolingOffRequest(off)
    \/ PowerCycle

Spec == Init /\ [][Next]_vars

\* A running timer expires: the main loop runs the timer module for ever.
Fairness ==
    /\ WF_vars(TimerExpires)
    /\ \A e \in Evaporators : WF_vars(Minute(e))

FairSpec == Spec /\ Fairness

-----------------------------------------------------------------------------
(* Properties.                                                             *)

\* defrost and erds have the types of the ERDs they stand for.
TypeOK ==
    /\ defrost \in Machines
    /\ erds \in Erds
    /\ since \in Nat

\* A heater is voted on only in HeaterOn, while the compressor and the fans are
\* voted off: no path out of HeaterOn forgets one of the heaters it turned on,
\* whatever the type and the evaporators are by then.
HeatersAreOnOnlyInHeaterOn ==
    \A e \in Evaporators : defrost.heater[e] = "On" =>
        /\ defrost.hsm = "HeaterOn"
        /\ \A load \in Fans \cup {"Compressor"} : LoadVote(defrost.loads, load) = "Off"

\* A heater that is really on is being timed, and one that is not being heated
\* has no time left over from an earlier defrost: the maximum on time always
\* applies to this heating.
HeatingIsTimed ==
    \A e \in Evaporators :
        /\ HeaterIsOn(defrost, erds, e) <=> e \in defrost.counting
        /\ DefrostState(defrost.hsm) # "HeaterOn" => defrost.onTime[e] = 0

\* Also across a change of the thermistor's validity, no heater is on for
\* longer than the largest of its maxima.
OnTimeIsBounded ==
    \A e \in Evaporators :
        \E t \in {MaxOnTime, MaxOnTimeInvalid, AsFreezerMaxOnTimeInvalid} :
            defrost.onTime[e] <= t

\* No state leaves a vote or the timer behind it: in Idle nothing is voted and
\* no timer runs, and a timed state always has the timer that ends it.
NothingIsLeftBehind ==
    /\ defrost.timer <=> defrost.hsm \in TimedStates
    /\ defrost.loads = (CASE defrost.hsm \in {"Idle", "PrechillPrep", "Disabled"} -> "None"
                          [] defrost.hsm = "HeaterOnEntry" -> "HeaterOn"
                          [] OTHER -> defrost.hsm)
    /\ defrost.request = "None"
    /\ defrost.waiting <=> defrost.hsm \in WaitingStates
    /\ defrost.defrosting <=> defrost.hsm \notin WaitingStates \cup {"Disabled"}

\* Once the heating has ended by itself no heater vote outlives the defrost.
NoHeaterVoteInIdle ==
    defrost.hsm = "Idle" => \A e \in Evaporators : defrost.heater[e] = "DontCare"

\* The primary evaporators are never passed over more often than the largest
\* limit allows, though the defrost that was to heat them may be disabled,
\* interrupted by a power failure or cut short: the count is reset when a full
\* defrost is chosen, long before it heats.
SecondaryOnlyDefrostsAreBounded ==
    \E limit \in {NormalLimit, AbnormalLimit, SabbathLimit} : since <= limit

\* The type a test request asks for is the type that heats: no override is
\* waiting while the heaters are on.
OverrideIsUsed == defrost.hsm = "HeaterOn" => defrost.override = "DontCare"

\* A model with one evaporator only has full defrosts.
OneEvaporatorDefrostsFully ==
    Cardinality(Evaporators) = 1 => defrost.type = "Full"

\* While the cooling system is off the defrost is disabled.
CoolingOffDisablesDefrost == erds.coolingOff => defrost.hsm = "Disabled"

\* A defrost ends (or is disabled), unless the cooling system is off.
EveryDefrostEnds ==
    defrost.defrosting ~> (~defrost.defrosting \/ erds.coolingOff)

\* A heating that a power failure interrupts, with nothing too warm and the
\* settings intact, is taken up again by a defrost of the same type.
InterruptedHeatingIsResumed ==
    [][ (/\ defrost.hsm \in Prechills \cup {"HeaterOnEntry", "HeaterOn"}
         /\ ~defrost'.tooWarm /\ ~defrost'.cleared
         /\ ~(defrost'.defrosting /\ defrost'.type = defrost.type))
        => ~PowerCycle ]_vars

\* Every heater is timed while it is really on, its time is bounded and ends
\* with it, also when the evaporators are assigned again during the heating.
HeatersAreTimed ==
    TypeOK /\ HeatingIsTimed /\ OnTimeIsBounded /\ NoHeaterVoteInIdle

\* No path out of a state, test requests included, leaves a heater, a vote, a
\* timer or a request behind.
StatesAreLeftClean == HeatersAreOnOnlyInHeaterOn /\ NothingIsLeftBehind
=============================================================================
