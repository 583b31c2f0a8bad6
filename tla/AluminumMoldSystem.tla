------------------------- MODULE AluminumMoldSystem -------------------------
(***************************************************************************)
(* The aluminum mold ice maker among the ERDs it watches: one action for   *)
(* each branch of DataModelChanged, each timer, and each event of the      *)
(* rake, the feeler arm, the mold heater and the fill monitor.             *)
(***************************************************************************)
EXTENDS AluminumMoldIceMaker

CONSTANTS
    Temperatures,
    MaximumHarvestTemperature   \* freezeData

ASSUME MoldTemperatures == Temperatures \subseteq Int /\ MaximumHarvestTemperature \in Int

VARIABLES
    mold,               \* the ice maker
    home, armFull,      \* rakePositionErd, feelerArmPositionErd
    temp, valid,        \* the mold's temperature and its thermistor
    inhibited,          \* is a bit of iceMakerFillInhibitedReasonErd set?
    status              \* dispensingRequestStatusErd: what is dispensed

moldWorld == <<home, armFull, temp, valid, inhibited, status>>
moldVars == <<mold, moldWorld>>

MoldTypeOK ==
    /\ mold \in Mold
    /\ home \in BOOLEAN /\ armFull \in BOOLEAN /\ valid \in BOOLEAN
    /\ temp \in Temperatures /\ inhibited \in BOOLEAN
    /\ status \in {"nothing", "water", "ice"}

IceMakerTemperatureIsReadyToHarvest(t) == t < MaximumHarvestTemperature

\* What a handler reads once the ERDs have their new values: met are the
\* conditions of a harvest that hold.
MoldReads(met) ==
    [home |-> home', full |-> armFull', temp |-> temp', valid |-> valid',
     inhibited |-> inhibited',
     ready |-> HarvestConditions \subseteq met /\ IceMakerTemperatureIsReadyToHarvest(temp'),
     makesIce |-> {"IceMakerIsEnabled", "SabbathModeDisabled"} \subseteq met]

MoldInit ==
    /\ home \in BOOLEAN /\ valid \in BOOLEAN
    /\ armFull = FALSE /\ inhibited = FALSE /\ status = "nothing"
    /\ temp \in Temperatures
    /\ mold = InitialMold([home |-> home, full |-> armFull, temp |-> temp,
                           valid |-> valid, inhibited |-> inhibited,
                           ready |-> FALSE, makesIce |-> FALSE])

\* What may be read when the conditions in known hold.
PossibleReads(known) ==
    {MoldReads(met) : met \in {C \in SUBSET HarvestConditions : known \subseteq C}}

Send(m, signal) == \E e \in PossibleReads({}) : mold' = SendToMold(m, signal, e)

\* A handler of the rake leaves it as r.
SendRake(r) == \E e \in PossibleReads({}) : mold' = RakeTo(mold, r, e)

-----------------------------------------------------------------------------
MoldThermistorChanges ==
    /\ valid' = ~valid
    /\ UNCHANGED <<home, armFull, temp, inhibited, status>>
    /\ Send(mold, IF valid' THEN "MoldThermistorIsValid" ELSE "MoldThermistorIsInvalid")

\* The heater's controller is told before the ice maker.
MoldTemperatureChanges ==
    /\ temp' \in Temperatures \ {temp}
    /\ UNCHANGED <<home, armFull, valid, inhibited, status>>
    /\ LET m == [mold EXCEPT !.heater = HeaterTemperatureChanged(@, temp')] IN
       IF IceMakerTemperatureIsReadyToHarvest(temp')
       THEN Send(m, "TemperatureIsReady") ELSE mold' = m

FillInhibitionChanges ==
    /\ inhibited' = ~inhibited
    /\ UNCHANGED <<home, armFull, temp, valid, status>>
    /\ Send(mold, IF inhibited' THEN "IceMakerFillIsInhibited"
                  ELSE "IceMakerFillIsNotInhibited")

DispensingStarts ==
    /\ status = "nothing"
    /\ status' \in {"water", "ice"}
    /\ UNCHANGED <<home, armFull, temp, valid, inhibited>>
    /\ IF status' = "water" THEN Send(mold, "DispensingActive") ELSE UNCHANGED mold

\* Every status but Dispensing, a refusal of a dispense that never began too.
DispensingEnds ==
    /\ status' = "nothing"
    /\ UNCHANGED <<home, armFull, temp, valid, inhibited>>
    /\ Send(mold, "DispensingInactive")

HarvestConditionChanges ==
    /\ UNCHANGED moldWorld
    /\ \E condition \in HarvestConditions : \E e \in PossibleReads({condition}) :
        mold' = SendToMold(mold, condition, e)

MoldTestRequested ==
    /\ UNCHANGED moldWorld
    /\ \E signal \in {"TestRequest_Fill", "TestRequest_Harvest"} : Send(mold, signal)

RakeMoves ==
    /\ home' = ~home
    /\ UNCHANGED <<armFull, temp, valid, inhibited, status>>
    /\ SendRake(RakePositionUpdated(mold.rake, home'))

FeelerArmMoves ==
    /\ armFull' = ~armFull
    /\ UNCHANGED <<home, temp, valid, inhibited, status>>
    /\ mold' = [mold EXCEPT !.arm = UpdateFeelerArm(@, armFull'),
                            !.rake = FeelerArmPositionUpdated(@, armFull')]

-----------------------------------------------------------------------------
MoldTimerExpires(t) ==
    /\ t \in mold.timers
    /\ UNCHANGED moldWorld
    /\ Send(StopTimers(mold, {t}),
            CASE t = "fillTubeHeater" -> "FillTubeHeaterTimerExpired"
              [] t = "maxHarvest" -> "MaxHarvestTimeReached"
              [] t = "minimumHeaterOn" -> "MinimumHeaterOnTimeReached"
              [] t = "maxHarvestFix" -> "MaxHarvestFixTimeReached"
              [] t = "rakeOn" -> "RakeOnTimerExpired"
              [] t = "rakeOff" -> "RakeOffTimerExpired"
              [] t = "harvestFaultMax" -> "HarvestFaultMaxTimerExpired")

RakeNotHomeTimerExpires ==
    /\ mold.rake.notHomeTimer
    /\ mold' = [mold EXCEPT !.rake = RakeNotHomeTestTimerExpired(@)]
    /\ UNCHANGED moldWorld

ArmFullTimerExpires ==
    /\ mold.rake.fullTimer
    /\ UNCHANGED moldWorld
    /\ SendRake(FeelerArmBucketFullTestTimerExpired(mold.rake, home))

ArmDelayExpires ==
    /\ mold.arm.delayTimer
    /\ UNCHANGED moldWorld
    /\ Send([mold EXCEPT !.arm = FeelerArmDelayTimerExpired(@)], "FeelerArmIsReady")

HeaterTimerExpires ==
    /\ mold.heater.state = "InitialMoldHeaterOn"
    /\ mold' = [mold EXCEPT !.heater = HeaterTimerExpired(@, temp)]
    /\ UNCHANGED moldWorld

IceRateEnds ==
    /\ mold.iceRate
    /\ UNCHANGED moldWorld
    /\ Send([mold EXCEPT !.iceRate = FALSE], "FreezerIceRateIsInactive")

\* One of the monitor's timers, or enough water through the flow meter.
MoldIsFilled ==
    /\ \/ mold.fill.timedFill = "running" \/ mold.fill.maxFill = "running"
       \/ mold.fill.listening
    /\ UNCHANGED moldWorld
    /\ Send([mold EXCEPT !.fill = StopMonitoring(@)], "StopFill")

WaterFlows ==
    /\ mold.fill.listening
    /\ mold' = [mold EXCEPT !.fill = FlowSeen(@)]
    /\ UNCHANGED moldWorld

MoldNext ==
    \/ MoldThermistorChanges \/ MoldTemperatureChanges \/ FillInhibitionChanges
    \/ DispensingStarts \/ DispensingEnds \/ HarvestConditionChanges
    \/ MoldTestRequested \/ RakeMoves \/ FeelerArmMoves
    \/ (\E t \in MoldTimers : MoldTimerExpires(t))
    \/ RakeNotHomeTimerExpires \/ ArmFullTimerExpires \/ ArmDelayExpires
    \/ HeaterTimerExpires \/ IceRateEnds \/ MoldIsFilled \/ WaterFlows

MoldSpec == MoldInit /\ [][MoldNext]_moldVars

-----------------------------------------------------------------------------
(***************************************************************************)
(* Properties.                                                             *)
(***************************************************************************)
\* A load runs only in the states that may run it, whatever event ended the
\* state before: water in Fill, the rake on its request in a harvest state
\* and never past a completed revolution, the mold heater on a request of
\* Harvest or HarvestFix, the fill tube heater against its own timer.
MoldLoadsBelongToTheirState ==
    /\ mold.valves <=> mold.state = "Fill"
    /\ mold.rake.run => mold.rake.request /\ ~mold.rake.completedRevolution
    /\ mold.rake.request => mold.state \in {"Harvest", "HarvestFix", "HarvestFault"}
    /\ HeaterIsOn(mold.heater) => mold.heater.enable
    /\ mold.heater.enable <=> mold.state \in {"Harvest", "HarvestFix"}
    /\ mold.tubeHeater <=> "fillTubeHeater" \in mold.timers
    /\ mold.tubeHeater => mold.state = "Harvest"
    /\ mold.counting <=> mold.state = "Freeze"

\* No timer of a state is left to fire into another one, and the evidence of
\* a revolution (its flags, its test timers) is gone with the request that
\* asked for it, so that an old revolution never ends a new harvest.
MoldStateEndsWithItsTimers ==
    /\ "maxHarvest" \in mold.timers <=> mold.state = "Harvest"
    /\ "maxHarvestFix" \in mold.timers <=> mold.state = "HarvestFix"
    /\ "harvestFaultMax" \in mold.timers <=> mold.state = "HarvestFault"
    /\ (mold.timers \cap {"rakeOn", "rakeOff"} # {}) <=>
            mold.state \in {"HarvestFix", "HarvestFault"}
    /\ ~mold.rake.request => mold.rake = InitialRake
    /\ mold.revolutionInFix => mold.state = "HarvestFix"
    /\ mold.arm.request <=> mold.state = "Freeze"

\* While water runs, the fill's maximum time runs and the flow meter is
\* heard, after any number of pauses; and a heater below its band is not
\* kept on above it.
MoldFillAndHeatAreBounded ==
    /\ mold.valves => mold.fill.maxFill = "running" /\ mold.fill.listening
    /\ mold.heater.state = "MoldHeaterOn" => temp < OffTemperature[mold.heater.band]
    /\ mold.heater.state = "MoldHeaterOff" => temp > OnTemperature[mold.heater.band]

\* "ShouldPauseFillMonitoringAndTransitionToIdleFillStateWhenIceMakerFillIs-
\* InhibitedDueToNewFilterWhileInFillState" (AluminumMoldIceMaker_Test.cpp):
\* no water into the mold while the fill is inhibited.
InhibitedMoldIsNotFilled == mold.valves => ~inhibited

\* "ShouldNotDelayFillMonitoringIfWaterDispensingFinishesBeforeFillStateIs-
\* Entered" (AluminumMoldIceMaker_Test.cpp): a fill is delayed only for a
\* dispense that still goes on.
MoldDelayMeansDispensing == mold.delayFill => status = "water"

\* What a state of the ice maker starts, it ends: its loads, its requests, its
\* timers and the evidence it has collected.
MoldStateOwnsWhatItStarts ==
    MoldTypeOK /\ MoldLoadsBelongToTheirState /\ MoldStateEndsWithItsTimers
=============================================================================
