-------------------------------- MODULE Grid --------------------------------
(***************************************************************************)
(* The cooling grids.  Temperatures select a block of a grid whose lines   *)
(* move with the set points (GridLineCalculator.c, GridBlockCalculator.c); *)
(* the grid function of the platform runs once a period, or on a signal    *)
(* while the grid is overridden (Grid.c), and turns the block and what it  *)
(* decided before into cooling modes and votes (Grid_DualEvap.c,           *)
(* Grid_FeaturePan.c, Grid_IceCabinet.c; Grid_SingleEvap.c;                *)
(* Grid_SingleDoorSingleEvap.c).                                           *)
(***************************************************************************)
EXTENDS ControlUnits, Integers, Sequences, FiniteSets

CONSTANTS
    GridLineData,       \* dimension -> mode -> line -> [temperature, correction]
    NumberOfPreviousGridBlocksToStore,
    InvalidThermistorIndex, \* column and row that an invalid thermistor stands for
    GridTemperatures,   \* readings of a thermistor
    SetpointShifts      \* values of adjusted set points, offsets and hysteresis

ASSUME GridAssumption ==
    /\ NumberOfPreviousGridBlocksToStore \in Nat \ {0}
    /\ GridTemperatures \subseteq Int /\ SetpointShifts \subseteq Int

\* The fields of w, and of s those that w leaves alone.
w ++ s ==
    [f \in DOMAIN w \union DOMAIN s |-> IF f \in DOMAIN w THEN w[f] ELSE s[f]]

CoolingSpeeds == {"Off", "Low", "Mid", "High", "PullDown"}

\* The speed of a table's entry for a cooling speed; pulldown has its own.
VotedSpeed(speed, pulldown) ==
    CASE speed = "Mid" -> "Medium" [] speed = "PullDown" -> pulldown [] OTHER -> speed

-----------------------------------------------------------------------------
(* Grid_DualEvap, together with the feature pan's and the ice cabinet's    *)
(* grids, which read what it publishes.  A block sets the ERDs of one      *)
(* record and leaves the rest of st alone.                                 *)

Clear == [coolBeforeOff |-> FALSE, useDelayedSpeed |-> FALSE]

\* Blocks of pulldown: no ice makers, no ice cabinet fan.
Pulldown(fan) ==
    [lowAmbientValve |-> FALSE, pulldownFan |-> fan, pulldownValve |-> FALSE,
     antiSweat |-> FALSE, iceMakers |-> FALSE, highSpeed |-> FALSE, fanOff |-> TRUE,
     maxTimeInValveA |-> FALSE, delayConvertible |-> FALSE] ++ Clear

\* Blocks of high cooling, which leave the ice cabinet fan as it is.
HighCooling(valveA, pulldownValve) ==
    [lowAmbientValve |-> FALSE, pulldownFan |-> FALSE, pulldownValve |-> pulldownValve,
     highSpeed |-> TRUE, maxTimeInValveA |-> valveA, delayConvertible |-> FALSE] ++ Clear

Normal(lowAmbient, valveA, delay) ==
    [lowAmbientValve |-> lowAmbient, pulldownFan |-> FALSE, pulldownValve |-> FALSE,
     highSpeed |-> FALSE, fanOff |-> FALSE, maxTimeInValveA |-> valveA,
     delayConvertible |-> delay]

\* Mutant: the fresh food offset survives a warm freezer.
FreezerColumnsKeepOffset == [iceMakers |-> TRUE]

\* The three warm columns of the freezer end a fresh food pulldown.
FreezerColumns == [pulldownOffset |-> FALSE, iceMakers |-> TRUE]

Cooling(mode, speed) == [mode |-> mode, speed |-> speed]
FreezerOrFreshFood(s) == IF s.mode = "Freezer" THEN "Freezer" ELSE "FreshFood"
HighOrMid(s) == IF s.speed = "High" THEN "High" ELSE "Mid"
AtLeastLow(s) == IF s.speed = "Off" THEN "Low" ELSE s.speed

\* Mutant: a block that only slows the compressor down starts it.
AtMostLowStarts(s) == "Low"
AtMostLow(s) == IF s.speed = "Off" THEN "Off" ELSE "Low"

\* Blocks 0 to 13 and 19.
DualEvapExtremeBlocks(s, b) ==
    CASE b \in 0..2 -> Cooling("Freezer", "PullDown") ++ Pulldown(FALSE)
                       ++ [pulldownOffset |-> FALSE] ++ s
      [] b \in 3..4 -> Cooling("FreshFood", "PullDown") ++ Pulldown(TRUE) ++ s
      [] b \in 5..6 -> Cooling("FreshFood", "PullDown") ++ Pulldown(TRUE)
                       ++ [pulldownOffset |-> TRUE] ++ s
      [] b \in 7..9 -> Cooling("Freezer", "High") ++ HighCooling(FALSE, FALSE)
                       ++ FreezerColumns ++ s
      [] b \in 10..11 -> Cooling(FreezerOrFreshFood(s), "High") ++ HighCooling(TRUE, FALSE) ++ s
      [] b \in {12, 19} -> Cooling("FreshFood", "High") ++ HighCooling(TRUE, FALSE) ++ s
      [] b = 13 -> Cooling("FreshFood", "High") ++ HighCooling(FALSE, TRUE) ++ s

\* Blocks 14 to 18, 20 to 27 and 32.
DualEvapWarmBlocks(s, b) ==
    CASE b \in 14..16 -> Cooling("Freezer", HighOrMid(s)) ++ Normal(FALSE, FALSE, TRUE)
                         ++ Clear ++ FreezerColumns ++ s
      [] b \in 17..18 -> Cooling(FreezerOrFreshFood(s), HighOrMid(s))
                         ++ Normal(FALSE, TRUE, TRUE) ++ Clear ++ s
      [] b \in {20, 27} -> Cooling("FreshFood", "High") ++ HighCooling(FALSE, FALSE) ++ s
      [] b \in 21..23 -> Cooling("Freezer", AtLeastLow(s)) ++ Normal(FALSE, FALSE, TRUE)
                         ++ Clear ++ FreezerColumns ++ s
      [] b \in {24, 25, 32} -> Cooling(FreezerOrFreshFood(s), AtLeastLow(s))
                               ++ Normal(FALSE, TRUE, TRUE) ++ Clear ++ s
      [] b = 26 -> Cooling("FreshFood", HighOrMid(s)) ++ Normal(FALSE, TRUE, FALSE) ++ Clear ++ s

\* Blocks 28 to 31 and 33 to 41.
DualEvapColdBlocks(s, b) ==
    CASE b \in 28..30 -> [mode |-> IF s.mode = "Off" THEN "Off" ELSE "Freezer", antiSweat |-> TRUE]
                         ++ Normal(TRUE, FALSE, TRUE) ++ Clear ++ FreezerColumns ++ s
      [] b = 31 -> Normal(TRUE, TRUE, TRUE) ++ Clear ++ s
      [] b \in {33, 40} -> Cooling("FreshFood", HighOrMid(s)) ++ Normal(FALSE, TRUE, FALSE) ++ Clear ++ s
      [] b \in {34, 41} -> Cooling("FreshFood", "High") ++ HighCooling(FALSE, FALSE) ++ s
      [] b \in 35..37 -> (IF s.mode = "Off" THEN Cooling("Off", "Off") ELSE Cooling("Freezer", "Low"))
                         ++ [antiSweat |-> TRUE] ++ Normal(TRUE, FALSE, TRUE)
                         ++ Clear ++ FreezerColumns ++ s
      [] b = 38 -> [speed |-> AtMostLow(s),
                    coolBeforeOff |-> s.coolBeforeOff /\ s.panBlock <= 4,
                    useDelayedSpeed |-> IF s.coolBeforeOff THEN s.panBlock <= 4
                                        ELSE s.useDelayedSpeed]
                   ++ Normal(TRUE, TRUE, TRUE) ++ s
      [] b = 39 -> Cooling("FreshFood", AtLeastLow(s)) ++ Normal(FALSE, TRUE, FALSE) ++ Clear ++ s

\* Whether a satisfied freezer goes on cooling the convertible compartment.
CoolsBeforeOff(s) ==
    (s.coolBeforeOff \/ (s.delayConvertible /\ s.panBlock <= 2)) /\ s.panBlock <= 4

\* Blocks 42 to 48.
DualEvapFreezingBlocks(s, b) ==
    CASE b \in 42..45 ->
            (CASE CoolsBeforeOff(s) -> Cooling("Freezer", "Low")
               [] ~CoolsBeforeOff(s) /\ b = 45 /\ s.mode = "FreshFood" -> Cooling("FreshFood", "Low")
               [] OTHER -> Cooling("Off", "Off"))
            ++ [coolBeforeOff |-> CoolsBeforeOff(s), useDelayedSpeed |-> CoolsBeforeOff(s), antiSweat |-> TRUE]
            ++ Normal(TRUE, FALSE, FALSE) ++ (IF b = 45 THEN s ELSE FreezerColumns ++ s)
      [] b = 46 -> Cooling("FreshFood", AtLeastLow(s)) ++ Normal(FALSE, TRUE, FALSE) ++ Clear ++ s
      [] b = 47 -> Cooling("FreshFood", HighOrMid(s)) ++ Normal(FALSE, TRUE, FALSE) ++ Clear ++ s
      [] b = 48 -> Cooling("FreshFood", "High") ++ Normal(FALSE, FALSE, FALSE) ++ Clear ++ s

\* The entries of the four door table; a key without one finds zeros.
FourDoorDualEvapTable == {<<"Off", "Off">>} \union {"Freezer", "FreshFood"} \X CoolingSpeeds

DualVotes(s) ==
    IF <<s.mode, s.speed>> \notin FourDoorDualEvapTable
    THEN [compressor |-> "Off", condenser |-> "Off", freezer |-> "Off", freshFood |-> "Off", valve |-> "none"]
    ELSE [compressor |-> VotedSpeed(s.speed, "SuperLow"), condenser |-> VotedSpeed(s.speed, "SuperHigh"),
          freezer |-> VotedSpeed(s.speed, "Low"),
          freshFood |-> IF s.mode = "FreshFood" THEN VotedSpeed(s.speed, "Low") ELSE "Off",
          valve |-> CASE s.mode = "Off" -> "D" [] s.mode = "Freezer" -> "B" [] s.mode = "FreshFood" -> "A"]

\* ApplyGridBlockOverrides.  The fan speeds are those voted in the run before.
DualEvapOverrides(s, b, v) ==
    LET freezer(speed) == [v EXCEPT !.freezer = speed]
        low(speed) == speed \in {"Off", "Low"}
        pan == [v EXCEPT !.freezer = "High", !.freshFood = "Off"]
    IN  CASE b = 13 -> [v EXCEPT !.condenser = "SuperHigh"]
          [] b = 20 -> [v EXCEPT !.freshFood = IF low(s.votes.freshFood) THEN "Low" ELSE "High"]
          [] b \in {24, 25, 32} /\ s.mode = "FreshFood" /\ s.speed = "Low" -> freezer("Off")
          [] b \in {26, 27} -> freezer(IF s.votes.freezer = "High" THEN "High" ELSE "Medium")
          [] b = 31 -> freezer(s.votes.freezer)
          [] b \in {33, 34} -> freezer(IF low(s.votes.freezer) THEN "Low" ELSE "Medium")
          [] b = 38 /\ s.coolBeforeOff /\ s.panBlock < 4 -> pan
          [] b = 38 /\ ~(s.coolBeforeOff /\ s.panBlock < 4) /\ s.mode = "FreshFood" ->
                freezer(IF s.votes.freezer = "Off" THEN "Off" ELSE "Low")
          [] b = 39 -> freezer(IF s.speed \in {"Low", "Off"} THEN "Off" ELSE s.votes.freezer)
          [] b \in {40, 41} -> freezer(IF s.votes.freezer = "Off" THEN "Off" ELSE "Low")
          [] b \in 42..45 /\ s.coolBeforeOff /\ s.panBlock <= 4 -> pan
          [] b = 45 /\ ~(s.coolBeforeOff /\ s.panBlock <= 4) -> freezer("Off")
          [] b \in 46..48 -> freezer("Off")
          [] OTHER -> v

\* ExecuteGridVote: the votes count while one of the thermistors is valid.
ExecuteGridVote(s, votes, valid) == [s EXCEPT !.votes = votes, !.care = valid # {}]

Grid_DualEvap(s, b, valid) ==
    LET set == CASE b \in (0..13) \union {19} -> DualEvapExtremeBlocks(s, b)
                 [] b \in ((14..27) \ {19}) \union {32} -> DualEvapWarmBlocks(s, b)
                 [] b \in (28..41) \ {32} -> DualEvapColdBlocks(s, b)
                 [] b \in 42..48 -> DualEvapFreezingBlocks(s, b)
    IN  ExecuteGridVote(set, DualEvapOverrides(set, b, DualVotes(set)), valid)

\* Grid_FeaturePan: the pan of a convertible compartment is cooled by the
\* freezer's evaporator, and waits while its cooling is delayed.
CoolingCondition1(s) ==
    ~s.convertible \/ s.coolBeforeOff \/ (s.mode = "Freezer" /\ ~s.delayConvertible)
CoolingCondition2(s) ==
    ~s.convertible \/ s.coolBeforeOff \/ (s.mode # "Off" /\ ~s.delayConvertible)

FeaturePanVotes(mode) ==
    [damper |-> IF mode = "ActiveCooling" THEN "Open" ELSE "Closed",
     heater |-> IF mode = "ActiveHeating" THEN "Max" ELSE "Min",
     fan |-> IF mode = "Neutral" THEN "Off" ELSE "On"]

FeaturePanMode(s) ==
    CASE \/ s.panBlock = 0
         \/ s.panBlock = 1 /\ CoolingCondition2(s)
         \/ s.panBlock = 2 /\ CoolingCondition1(s) -> "ActiveCooling"
      [] s.panBlock = 1 /\ ~CoolingCondition2(s) -> "Neutral"
      [] s.panBlock = 2 /\ ~CoolingCondition1(s) -> "Neutral"
      [] s.panBlock = 3 /\ s.panMode = "ActiveHeating" -> "Neutral"
      [] s.panBlock = 5 /\ s.panMode = "ActiveCooling" -> "Neutral"
      [] s.panBlock \in 6..7 -> "ActiveHeating"
      [] OTHER -> s.panMode

Grid_FeaturePan(s) ==
    [s EXCEPT !.panMode = FeaturePanMode(s), !.panVotes = FeaturePanVotes(FeaturePanMode(s)),
              !.forcedHeating = (s.panBlock = 7) \/ (@ /\ s.panBlock > 4)]

DualGridInit ==
    /\ unit = "dual grid"
    /\ \E convertible \in BOOLEAN :
        st = [mode |-> "Off", speed |-> "Off", lowAmbientValve |-> FALSE, pulldownOffset |-> FALSE,
              pulldownFan |-> FALSE, pulldownValve |-> FALSE, antiSweat |-> FALSE, iceMakers |-> FALSE,
              highSpeed |-> FALSE, fanOff |-> FALSE, maxTimeInValveA |-> FALSE,
              delayConvertible |-> FALSE, coolBeforeOff |-> FALSE, useDelayedSpeed |-> FALSE,
              votes |-> DualVotes(Cooling("Off", "Off")), care |-> FALSE, panBlock |-> 4,
              convertible |-> convertible, panMode |-> "Neutral",
              panVotes |-> FeaturePanVotes("Neutral"), forcedHeating |-> FALSE]

DualGridRuns ==
    /\ Runs("dual grid")
    /\ \E b \in 0..48, valid \in {{}, {"Freezer"}} : st' = Grid_DualEvap(st, b, valid)

FeaturePanGridRuns ==
    /\ Runs("dual grid")
    /\ \E b \in 0..7 : st' = Grid_FeaturePan([st EXCEPT !.panBlock = b])

\* However the blocks follow one another, no run asks the table for a key
\* that it does not have, which would vote everything off and leave the
\* valve without a position, and the compressor is off exactly in mode Off.
EveryCoolingStateHasVotes ==
    unit = "dual grid" =>
        /\ <<st.mode, st.speed>> \in FourDoorDualEvapTable
        /\ st.mode = "Off" <=> st.votes.compressor = "Off"

\* What a pulldown set up does not outlast it: the fresh food offset never
\* meets a running ice maker, the fan behaviour never a speed other than
\* pulldown, and the pan is never both forced warm and cooled.
PulldownLeavesNothingBehind ==
    unit = "dual grid" =>
        /\ st.pulldownOffset => ~st.iceMakers
        /\ st.pulldownFan => st.speed = "PullDown"
        /\ st.coolBeforeOff => st.useDelayedSpeed /\ st.speed # "Off"
        /\ st.forcedHeating => st.panVotes.damper = "Closed"

-----------------------------------------------------------------------------
(* Grid_IceCabinet, among all that the compartments' grid may ask of it.    *)

IceCabinetMode(s, b) ==
    CASE ~s.valid -> "Fallback"
      [] s.valid /\ b \in 0..1 -> "Forced"
      [] s.valid /\ b = 2 -> IF s.mode = "Forced" THEN "Forced" ELSE "Active"
      [] s.valid /\ b \in 3..4 -> IF s.mode = "Neutral" THEN "Neutral" ELSE "Active"
      [] s.valid /\ b \in 5..7 -> "Neutral"

\* PublishIceCabinetModeAndVote; gammaSpeed is the speed that gamma calls for.
IceCabinetFanSpeed(s, mode, gammaSpeed) ==
    LET speed == CASE mode = "Neutral" -> "Off" [] mode = "Forced" -> "SuperHigh"
                   [] mode = "Active" -> gammaSpeed [] mode = "Fallback" -> "High"
    IN  CASE s.fanOff -> "Off"
          [] ~s.fanOff /\ s.highSpeed /\ speed # "Off" -> "High"
          [] OTHER -> speed

Grid_IceCabinet(s, b, gammaSpeed) ==
    [s EXCEPT !.mode = IceCabinetMode(s, b),
              !.fan = IceCabinetFanSpeed(s, IceCabinetMode(s, b), gammaSpeed)]

IceCabinetGridInit ==
    /\ unit = "ice cabinet grid"
    /\ st = [mode |-> "Neutral", fan |-> "Off", valid |-> TRUE, fanOff |-> FALSE, highSpeed |-> FALSE]

IceCabinetGridRuns ==
    /\ Runs("ice cabinet grid")
    /\ \E b \in 0..7, g \in {"Low", "Medium", "High", "SuperHigh"}, valid, off, high \in BOOLEAN :
        st' = Grid_IceCabinet([st EXCEPT !.valid = valid, !.fanOff = off, !.highSpeed = high], b, g)

-----------------------------------------------------------------------------
(* Grid_SingleEvap: the compartments of a side by side share an evaporator; *)
(* a damper shares out the air.  area remembers which of them was warmer.   *)

Start(s) == IF s.speed = "Off" THEN "Freezer" ELSE s.mode
Area(n) == [area |-> n]

\* Mutant: the pulldown is not ended.
EndPulldownMissing == [pulldownActive |-> st.pulldownActive]
EndPulldown == [pulldownActive |-> FALSE]
Ice(on) == [iceMaker |-> on]

\* Blocks 0 to 18.
SingleEvapWarmBlocks(s, b) ==
    LET pulldown == [speed |-> "PullDown", pulldownActive |-> TRUE, antiSweat |-> FALSE, iceMaker |-> FALSE]
        mitigated == s.pulldownActive /\ s.tripMitigation
    IN  CASE b \in 0..1 -> [mode |-> "Freezer"] ++ Area(1) ++ pulldown ++ s
          [] b \in 2..3 -> pulldown ++ s
          [] b \in 4..6 -> [mode |-> "FreshFood"] ++ Area(2) ++ pulldown ++ s
          [] b \in {7, 8, 14} -> Cooling("Freezer", "High") ++ Area(1) ++ EndPulldown ++ Ice(TRUE) ++ s
          [] b \in 9..10 -> Cooling(Start(s), "High") ++ s
          [] b \in 11..13 -> Cooling("FreshFood", IF mitigated THEN "Mid" ELSE "High") ++ Area(2) ++ s
          [] b = 15 -> Cooling("Freezer", HighOrMid(s)) ++ Area(1) ++ EndPulldown ++ Ice(TRUE) ++ s
          [] b \in 16..17 -> Cooling(Start(s), HighOrMid(s)) ++ EndPulldown ++ s
          [] b = 18 -> Cooling("FreshFood", IF mitigated THEN "High" ELSE HighOrMid(s)) ++ Area(2) ++ s

\* Blocks 19 to 34 and those that their cases share.
SingleEvapNormalBlocks(s, b) ==
    CASE b \in {19, 20, 27, 34, 41} -> Cooling("FreshFood", "High") ++ Area(2) ++ EndPulldown ++ s
      [] b = 21 -> Cooling("Freezer", "Low") ++ Area(1) ++ EndPulldown ++ Ice(TRUE) ++ s
      [] b = 22 -> Cooling("Freezer", AtLeastLow(s)) ++ Area(1) ++ EndPulldown ++ Ice(TRUE) ++ s
      [] b = 23 -> Cooling(Start(s), AtLeastLow(s)) ++ EndPulldown ++ s
      [] b = 24 -> [speed |-> AtLeastLow(s)] ++ EndPulldown ++ s
      [] b \in {25, 32, 39} -> Cooling("FreshFood", AtLeastLow(s)) ++ Area(2) ++ EndPulldown ++ s
      [] b \in {26, 33, 40} -> Cooling("FreshFood", HighOrMid(s)) ++ Area(2) ++ EndPulldown ++ s
      [] b \in {28, 29, 35} -> [mode |-> "Freezer", antiSweat |-> TRUE] ++ Area(1) ++ EndPulldown ++ Ice(TRUE) ++ s
      [] b = 30 -> EndPulldown ++ s
      [] b = 31 -> [mode |-> IF s.speed = "Off" /\ s.area = 1 THEN "Freezer" ELSE "FreshFood"] ++ EndPulldown ++ s

\* Blocks 36 to 38 and 42 to 48.
SingleEvapColdBlocks(s, b) ==
    CASE b = 36 -> [antiSweat |-> TRUE] ++ Cooling("Freezer", AtMostLow(s)) ++ Area(1) ++ EndPulldown ++ Ice(TRUE) ++ s
      [] b = 37 -> [speed |-> AtMostLow(s)] ++ EndPulldown ++ s
      [] b = 38 -> Cooling(IF s.speed # "Off" THEN "FreshFood" ELSE s.mode, AtMostLow(s)) ++ EndPulldown ++ s
      [] b \in 42..43 -> [antiSweat |-> TRUE] ++ Cooling("Freezer", "Off") ++ Area(1) ++ EndPulldown ++ Ice(TRUE) ++ s
      [] b \in 44..45 -> [antiSweat |-> TRUE] ++ Cooling(IF s.area = 1 THEN "Freezer" ELSE "FreshFood", "Off")
                          ++ EndPulldown ++ s
      [] b \in 46..47 -> Cooling("FreshFood", "Low") ++ Area(2) ++ EndPulldown ++ s
      [] b = 48 -> Cooling("FreshFood", "Mid") ++ Area(2) ++ EndPulldown ++ s

\* The side by side table and ApplyGridBlockOverrides.
SideBySideVotes(s, b) ==
    [compressor |-> IF b <= 6 THEN (IF s.mediumPulldown THEN "Medium" ELSE "Low")
                    ELSE VotedSpeed(s.speed, "Low"),
     condenser |-> IF b \in 11..13 THEN "High" ELSE VotedSpeed(s.speed, "SuperHigh"),
     fan |-> IF s.speed = "Off" /\ s.mode = "FreshFood" THEN "Low" ELSE VotedSpeed(s.speed, "Low"),
     damper |-> IF s.mode = "FreshFood" THEN "Open" ELSE "Closed"]

Grid_SingleEvap(s, b, valid) ==
    LET set == CASE b \in 0..18 -> SingleEvapWarmBlocks(s, b)
                 [] b \in (19..35) \union (39..41) -> SingleEvapNormalBlocks(s, b)
                 [] b \in (36..38) \union (42..48) -> SingleEvapColdBlocks(s, b)
    IN  ExecuteGridVote(set, SideBySideVotes(set, b), valid)

SingleGridInit ==
    /\ unit = "single grid"
    /\ \E mitigation, medium \in BOOLEAN :
        st = [mode |-> "Freezer", speed |-> "Off", area |-> 1, pulldownActive |-> FALSE, iceMaker |-> FALSE,
              antiSweat |-> FALSE, tripMitigation |-> mitigation, mediumPulldown |-> medium,
              votes |-> [compressor |-> "Off", condenser |-> "Off", fan |-> "Off", damper |-> "Closed"],
              care |-> FALSE]

SingleGridRuns ==
    /\ Runs("single grid")
    /\ \E b \in 0..48, valid \in {{}, {"FreshFood"}} : st' = Grid_SingleEvap(st, b, valid)

\* The ice maker never fills during a pulldown, and the compressor and the
\* condenser fan agree on whether there is cooling: a voted compressor is
\* never left without its fan by an override.
PulldownMakesNoIce ==
    unit = "single grid" =>
        /\ ~(st.pulldownActive /\ st.iceMaker)
        /\ st.votes.compressor = "Off" <=> st.votes.condenser = "Off"

-----------------------------------------------------------------------------
(* Grid_SingleDoorSingleEvap uses one column of the grid and the blocks     *)
(* beside it.                                                               *)

SingleDoorBlocks == {1, 8, 15, 22, 29, 36} \union (42..48)

SingleDoorSpeed(s, b) ==
    CASE b = 1 -> "PullDown"
      [] b = 8 -> IF s.area = 1 THEN "Mid" ELSE "High"
      [] b \in {15, 47} -> IF s.area = 1 THEN "High" ELSE HighOrMid(s)
      [] b \in {22, 46} -> AtLeastLow(s)
      [] b \in {29, 45} -> IF s.speed = "High" THEN "Mid" ELSE s.speed
      [] b \in {36, 44} -> AtMostLow(s)
      [] b \in 42..43 -> "Off"
      [] b = 48 -> IF s.area = 1 THEN HighOrMid(s) ELSE "High"

Grid_SingleDoorSingleEvap(s, b) ==
    [s EXCEPT !.speed = SingleDoorSpeed(s, b),
              !.iceMaker = CASE b \in {1, 48} -> FALSE [] b \in {8, 15, 47} -> @ [] OTHER -> TRUE,
              !.antiSweat = CASE b \in {1, 48} -> FALSE [] b \in {29, 36} \union (42..45) -> TRUE [] OTHER -> @,
              !.area = CASE b = 1 -> 1 [] b \in {8, 15, 47, 48} -> @ [] OTHER -> 2]

\* The single door table: one vote for both evaporator fans.
SingleDoorVotes(speed) ==
    [compressor |-> VotedSpeed(speed, "SuperLow"), condenser |-> VotedSpeed(speed, "SuperHigh"),
     evaporator |-> VotedSpeed(speed, "Low")]

SingleDoorGridInit ==
    /\ unit = "single door grid"
    /\ st = [speed |-> "Off", area |-> 1, iceMaker |-> FALSE, antiSweat |-> FALSE,
             votes |-> SingleDoorVotes("Off"), care |-> FALSE, gridTimer |-> TRUE, listens |-> FALSE]

\* OnGridOverrideEnableChange, of Grid.c: here and in every other grid.
GridOverrideEnableChanges ==
    /\ Runs("single door grid")
    /\ st' = [st EXCEPT !.gridTimer = ~@, !.listens = ~@]

\* Grid_Run, from the timer or from the override signal.
SingleDoorGridRuns ==
    /\ Runs("single door grid") /\ (st.gridTimer \/ st.listens)
    /\ \E b \in SingleDoorBlocks, valid \in {{}, {"Freezer"}} :
        LET s == Grid_SingleDoorSingleEvap(st, b)
        IN  st' = ExecuteGridVote(s, SingleDoorVotes(s.speed), valid)

-----------------------------------------------------------------------------
(* The block.  A thermistor per dimension; the mode of the feature pan      *)
(* chooses among the rows of parametric lines, 1 being the first.           *)

NumberOfLines == Cardinality(DOMAIN GridLineData[1][0])

\* CalculateAxisGridLines.
AxisGridLine(s, d, line) ==
    LET data == GridLineData[d][IF s.mode > 0 THEN s.mode - 1 ELSE 0][line]
    IN  data.temperature + s.hysteresis
        + CASE data.correction = "AdjustedSetpoint" -> s.setpoint[d]
            [] data.correction = "Offset" -> s.offset[d]
            [] OTHER -> 0

\* GridLineIndex: the first line that is not below the temperature.
GridLineIndex(s, d, inverted) ==
    LET above == {l \in 0..(NumberOfLines - 1) : s.temperature[d] <= s.lines[d][l]}
        index == IF above = {} THEN NumberOfLines ELSE CHOOSE l \in above : \A k \in above : l <= k
    IN  IF inverted THEN NumberOfLines - index ELSE index

\* GetCalculatedGridBlockNumber.
CalculatedGridBlock(s) ==
    LET index(d, inverted) == IF d \in s.valid THEN GridLineIndex(s, d, inverted) ELSE InvalidThermistorIndex
    IN  IF s.dimensions = 2
        THEN index(2, TRUE) * (NumberOfLines + 1) + (index(1, FALSE) % (NumberOfLines + 1))
        ELSE index(1, TRUE) % (NumberOfLines + 1)

\* AddGridBlockToRingBufferIfDifferent; the newest block is the last.
WithPrevious(previous, block) ==
    LET added == IF previous # <<>> /\ previous[Len(previous)] = block THEN previous ELSE Append(previous, block)
    IN  IF Len(added) > NumberOfPreviousGridBlocksToStore THEN Tail(added) ELSE added

\* Mutant: the new block is kept among the previous ones.
UpdateGridBlockAhead(s) ==
    [s EXCEPT !.previous = WithPrevious(@, CalculatedGridBlock(s)), !.block = CalculatedGridBlock(s)]

\* UpdateGridBlockIfDifferent, if a thermistor is valid.
UpdateGridBlockIfDifferent(s) ==
    IF s.valid \intersect (1..s.dimensions) = {} \/ CalculatedGridBlock(s) = s.block THEN s
    ELSE [s EXCEPT !.previous = WithPrevious(@, s.block), !.block = CalculatedGridBlock(s)]

WithLines(s) ==
    [s EXCEPT !.lines = [d \in 1..2 |-> [l \in 0..(NumberOfLines - 1) |-> AxisGridLine(s, d, l)]]]

\* Mutant: the lines are taken up with the next temperature.
ConfigureGridLinesSilently(s) == WithLines(s)

\* ConfigureGridLines: the lines are published, and the calculator hears.
ConfigureGridLines(s) == UpdateGridBlockIfDifferent(WithLines(s))

GridBlockInit ==
    /\ unit = "grid block"
    /\ \E dimensions \in 1..2, valid \in SUBSET (1..2), t \in GridTemperatures :
        LET s == WithLines([temperature |-> <<t, t>>, valid |-> valid, setpoint |-> <<0, 0>>, offset |-> <<0, 0>>,
                            hysteresis |-> 0, mode |-> 0, dimensions |-> dimensions, lines |-> <<>>,
                            block |-> 0, previous |-> <<>>])
        IN  st = [s EXCEPT !.block = CalculatedGridBlock(s)]

GridTemperatureChanges ==
    /\ Runs("grid block")
    /\ \E d \in 1..st.dimensions :
        \/ \E t \in GridTemperatures : st' = UpdateGridBlockIfDifferent([st EXCEPT !.temperature[d] = t])
        \/ st' = UpdateGridBlockIfDifferent(
                    [st EXCEPT !.valid = IF d \in @ THEN @ \ {d} ELSE @ \union {d}])

GridLinesChange ==
    /\ Runs("grid block")
    /\ \E x \in SetpointShifts : \E s \in {[st EXCEPT !.setpoint[d] = x] : d \in 1..st.dimensions}
                                  \union {[st EXCEPT !.offset[d] = x] : d \in 1..st.dimensions}
                                  \union {[st EXCEPT !.hysteresis = x]}
                                  \union {[st EXCEPT !.mode = m] : m \in 0..2} :
        st' = ConfigureGridLines(s)

\* While a thermistor is valid the block is the one that the temperatures
\* and the set points of now call for, in whatever order they changed.
BlockIsCurrent ==
    unit = "grid block" /\ st.valid \intersect (1..st.dimensions) # {} =>
        st.block = CalculatedGridBlock(WithLines(st))

\* The previous blocks are a history: each block in it was left for the
\* next, and the newest for the current one.
PreviousBlocksAreAHistory ==
    unit = "grid block" =>
        \A i \in 1..Len(st.previous) :
            st.previous[i] # (IF i = Len(st.previous) THEN st.block ELSE st.previous[i + 1])

-----------------------------------------------------------------------------
GridInit ==
    DualGridInit \/ IceCabinetGridInit \/ SingleGridInit \/ SingleDoorGridInit \/ GridBlockInit

GridNext ==
    \/ DualGridRuns \/ FeaturePanGridRuns
    \/ IceCabinetGridRuns \/ SingleGridRuns \/ SingleDoorGridRuns
    \/ GridOverrideEnableChanges \/ GridTemperatureChanges \/ GridLinesChange

\* Every decision of a grid leaves a set of votes that belongs together,
\* whatever the block before it was.
GridVotesBelongTogether ==
    /\ EveryCoolingStateHasVotes
    /\ PulldownLeavesNothingBehind
    /\ PulldownMakesNoIce

\* GridBlockCalculator.c: the block belongs to the temperatures and lines of
\* the moment and the previous blocks are what it was before, without
\* repetitions.
GridBlocksAreAHistory == BlockIsCurrent /\ PreviousBlocksAreAHistory
=============================================================================
