# Verification of the refrigerator main board firmware

This directory holds TLA+ models of the firmware under `src/src`, the TLC
configurations that check them on small instances, and TLAPS proofs that the
components keep their safety invariants for every value of the constants.
`PROJECT.json` maps every definition to the lines it models, the helpers whose
detail it abstracts included (modules first that cover most), and lists
components, runs, mutants, hazards, findings and theorems.

Contents: [the system](#the-system), [inventory](#inventory),
[modules](#modules-and-the-code-they-model), [runs](#runs),
[findings](#findings), [fairness](#fairness-and-other-assumptions),
[proofs](#proofs), [not modelled](#what-is-not-modelled), [plan](#plan).

## The system

The main board runs one main loop. It takes one event at a time (a timer of the
timer module that is due, a polled input, an entry of the interrupt-safe event
queue) and runs it to completion; interrupts come between and inside events.

Components share state through *ERDs* of a data model. A write that changes an
ERD calls its subscribers before the write returns, and those may write further
ERDs; a write of the value that is already there publishes nothing. So:

* a whole chain of components moves in one event, and one action of a model is
  one such chain, up to the point where an interrupt, a timer or a queue takes over;
* a handler can be entered again from inside its own writes, and what it read
  before a write may be stale after it;
* a result that is not cleared makes the next equal result inaudible.

Many writers of one output go through a *voting framework* that resolves their
votes by priority. Some ERDs are kept in EEPROM and are the only thing that
survives a loss of power. State machines are built on the `Fsm` and `Hsm` of
the Applcommon library; that library, like everything under `src/lib`, is not in the
repository and is modelled from how the code uses it.

## Inventory

| Component | State | What is hard | What makes it correct |
| --- | --- | --- | --- |
| Motor arbitration (`Application/Motor`) | request and enable of two motors | hand-over inside a release, nested requests | never both enabled; whoever asks is served |
| Stepper driver (`Application/StepperMotor`) | steps and sub steps, two delay counters, queued completion | interrupt against main loop; a new request from inside the completion | exact steps; no request forgotten; clean at rest |
| Damper request manager | FSM state, flags, position, step data | requests during moves, open-loop position | the flap is where the program says; every request reaches its stop |
| Twist tray motor | 9 states, 2 timers, motor and last motor, result, switch | the interrupt between any two calls of a handler | powered only with the supply, always timed; results answer their vote |
| Twist tray ice maker, fill monitor | 8 states, 7 timers, flags, votes | every signal in every state; pause and resume | states own what they start; fills accounted for; every wait ends |
| Aluminum mold ice maker, rake, feeler arm, mold heater | 9 states, their timers, flags and votes | evidence of a revolution, test timers, two recovery stages | as above; water and heat bounded |
| Dispenser | two machines, two timers, request, result, status, bitmap | machines that call each other through ERDs | loads only in an allowed dispense; every dispense ends |
| Defrost | HSM, timer, votes, on-time counters, persisted settings | power loss, hierarchical exits, failing thermistors | heaters timed; evaporators not passed over; every defrost ends |
| Ready to defrost | two counters, one timer for three purposes | compressor, doors and timer in any order | no second lost or counted twice |
| Sabbath modes | stages, delay of loads, overridden doors | a request written once; votes held back | the cycle never stalls; no vote lost |
| Cooling policies | temperature monitor, load-off, cycle defrost, ice rate, harvest count, prechill time | independent conditions, each with a timer | votes and timers in step with their condition |
| Sealed system | compressor votes, sabbath delay, drive, faults; valve positions | handlers that vote while they hear a vote; a delay between vote and driver; a move of zero steps | the compressor runs when it is voted on and not delayed; minimum times kept; a resting valve is where it is wanted |
| Fans and dampers | controller, fault counters, freeze prevention, anti-sweat | target changes while faults are counted | driven by the inputs of the moment; faults earned |
| Grid | lines, block, history, cooling mode and votes | each block writes another subset of the votes | votes belong together; history is a history |
| RFID and water filter, water use | controller, retries, tags, usage | late and lost answers, swapped filters | never deaf; what a tag counted never goes back |
| Auger, lights, heaters, doors, boards, factory mode | small machines and votes | timers behind changes | outputs follow inputs; relays spared |
| Feature pan, ice cabinet | mode chain, votes, startup vote | the startup voter hears its own resolution | votes are those of the moment |
| Set points, sensors | votes, zones, turbo mode, filters, validity | arithmetic with truncation, runs of readings | values belong to what they come from; validity earned |
| EEPROM drivers | memory, jobs, slices, retries | power loss, refused bytes and a stalled bus at every point | the promise of `BlockStore`; every job ends |
| I2C, UART, tachometers, inputs | registers, rings, flags | interrupts at every point of the main loop | every byte, interval and change once |

## Modules and the code they model

State is kept in a record where the code passes one instance structure around:
a handler is then an operator from record to record, and a nested call is
nested application. The motor chain uses separate variables, which suits the
proofs. Definitions marked *Mutant* are plausible mistakes that show that a
property notices them; no specification uses them.

### Systems

* **`StepperPositionRequest`**, **`MotorDriverArbitrator`**,
  **`StepperMotorDriver`**, **`DamperRequestManager`** – one per source file.
  `flap` is the mechanics of the damper: it follows the motor and stops at its
  ends. **`DamperMotorSystem`** composes them with an ice maker as the other
  load and implements `ManagerSpec`, the manager over an abstract motor.
* **`TwistTrayIceMakerMotorController`**, **`TwistTrayMotorSystem`** – the state
  table, request manager, `Poll`, switch, arbitrator and a damper. A handler of
  the main loop is made call by call (`MakeCall`): `calls` is what it has still to
  call, its exit and entry included, and the 1 ms interrupt (`Tick`) may come after the
  dispatch and after every call. `UpdateMotorState` is three of them: the output (`Output`), the
  comparison with `lastMotor` and the start or stop of the error timer (`Compare`, `Start`,
  `StopTimer`), and the memory of the new state (`Remember`). A handler in the interrupt is one step, for
  nothing comes before it. `overtaken` records that the interrupt changed the state inside a handler.
* **`IceMakerWaterFillMonitor`**, **`TwistTrayIceMaker`**,
  **`TwistTrayIceMakerSystem`**; **`AluminumMoldIceMaker`**, **`RakeController`**,
  **`IceMakerMoldHeaterController`**, **`AluminumMoldSystem`** – the two ice
  makers over the same fill monitor; one action per branch of the handler of ERD
  changes, per timer, per event of a part. Temperatures and ounces are reduced
  to what the comparison with them says.
* **`Dispenser`**, **`DispenserSystem`**; **`Defrost`**, **`DefrostSystem`** –
  the machines with their timers, test requests, cooling off and power cycles.

A module `XProofs` extends `X` by its inductive invariant, the theorems and their
lemmas; `CoolingUnitProofs` and `ServiceUnitProofs` do so for the control units and
`Storage`, and the proofs about `ReadyToDefrost` and `WaterFilter` stand behind those of the
defrost and of the dispenser, which they feed; see [proofs](#proofs).

### Control units

Most of the application is components that meet only in ERDs which any other
module may write. **`ControlUnits`** has one variable `unit` and one variable
`st`: `Init` picks a unit and its state, the actions of that unit run it among
all values of the ERDs it reads, and no other action is enabled. The units of
an instance are thus checked side by side and their state spaces add. Parts that
call each other within one event (the voters of the compressor, the set point
chain, the RFID controller with the communicator) are one unit.

In the unit of the compressor the startup, minimum and valve delay modules vote on, and hear, the resolved
vote. The driver hears what `SabbathDelayHandler` makes of it: in a sabbath mode a change from off is held
back (`sabbath`, `delayPrevious`, `sabbathTimer`, `delayed`). So the minimum times are those of the vote, and a delay may
shorten a run of the compressor, never a rest.

| Module | Units |
| --- | --- |
| `ReadyToDefrost` | the accelerated compressor time |
| `Sabbath` | enhanced mode with its clock and the defrost; delay of loads; inhibited doors |
| `CoolingPolicies` | prechill time, cabinet temperature monitor, cycle defrost, loads off, ice rate, harvest count |
| `SealedSystem` | compressor votes and drive, compressor faults, valve |
| `FansAndDampers` | fan, fan faults, anti-sweat, freeze prevention, cycling, damper heater |
| `Grid` | lines and blocks; the decisions of the dual, single, pan and ice cabinet grids |
| `WaterFilter` | RFID, filter life, flow meter, water volume |
| `CabinetServices` | auger, lights, heaters, soft PWM, convertible door, boards, factory mode |
| `PanAndIceCabinet` | pan votes, pan mode and set point, ice cabinet fan and heater |
| `SetpointsAndSensors` | set point chain and turbo mode, shift and average, sensor validity |
| `BoardDrivers` | I2C channel, buffered UART, tachometer, debounced input |
| `Storage` | page driver with its eraser, personality EEPROM |

**`BlockStore`** is the abstract specification of a memory driver: a job changes
only its cells and only to its values, and is reported done only when it is;
power may fail at any time. `Storage` implements it under
`INSTANCE BlockStore WITH mem <- st.mem, job <- st.job, heard <- st.heard, ...`
(`heard` carries the job whose end is reported)
although it works in slices, retries, wraps around pages, and can be refused or
cut off after any byte. The bus of `HardwareEeprom_I2c.c` may also stall: every wait gives up silently,
a byte is left out and counted (437, 457), an address byte that is left out makes the device take data for it
(`StalledWrites`), and a read counts its dummy byte (117-121), so that it may report success without its
last byte (`Receptions`). Of a job the bus stalled in (`stalled`) `BlockStore` promises only the values that
are written, neither the cells nor the report; the next job owes nothing to it.

In `BoardDrivers` an action is one interrupt, or one piece of main-loop code
between two points where an interrupt makes a difference; what the peripheral
does is external. `MC*` modules are the instances for TLC; a system
whose constants fit into its configuration has none.

## Runs

Each is `tlc -config <cfg> <module>`; deadlock is checked in every run.

| Run | States | What it shows |
| --- | --- | --- |
| `damper_motor` | 20,704 | exact steps, exclusive loads, a resting flap that is where the position says, every request served, refinement of `ManagerSpec` |
| `twist_tray_motor` | 38,128 | movements timed and powered unless the interrupt changes the state inside a handler; results answer the vote, whatever it does; every vote is answered |
| `twist_tray_ice_maker` | 78,240 | states own outputs, timers and flags; fills are accounted for; fills, harvests, errors and postponed fills end |
| `aluminum_mold` | 273,468 | the same of the mold: loads, requests, timers and evidence end with their state; water and heat are bounded |
| `dispenser` | 41,068 | loads only in an allowed and timed dispense, machines agree between events, nothing stale; every dispense ends |
| `defrost` | 534,168 | three evaporators with power failures and sabbath: heaters timed, primary evaporators not passed over, interrupted heating resumed |
| `defrost_heating` | 5,006 | every defrost ends, with thermistors that fail and recover |
| `defrost_test` | 167,490 | under every test and cooling-off request no vote, timer or request outlives its state |
| `cooling_units` | 5,250,043 | the units of the cooling side, see their modules |
| `service_units` | 2,123,076 | the units of the service side and the interrupt-driven drivers |
| `storage` | 41,333 | both EEPROM drivers implement `BlockStore`, with a bus that stalls; every accepted job ends |
| `twist_tray_late_transition` | – | counterexample, see findings |

Properties of the unit runs are conjunctions of one property per unit, each
defined and commented beside its unit: for example `SealedSystemIsInStep` is
`CompressorVotesAreCurrent`, `CompressorDriveIsConsistent`,
`RestingCompressorIsReported` and `ValveFollowsItsVotes`. `MovementsAreSafe` is `TypeOK` and, unless `overtaken`,
`MotorRunsOnlyWhenEnabled`, `MovingMotorIsTimed`, `LastMotorIsTrue`, `RestIsComplete` and `FullBucketIsReported`.

### Bounds, and why they are enough

* *Damper steps* (home 3, close 2, open 1; travel 2) keep the order of the
  parametric values (1850 > 700 > 650); four sub steps as in the plugin; each
  delay counter counts. The proofs hold for every value.
* *Twist tray periods* (error 8 and 4, landing 2, detection 3, homing twist 2,
  stopping 3, poll 2) keep the order of the parametric data and `BucketCheckEndsFirst`, and
  let a switch change, a poll, a vote or an overtaken handler fall between any two expiries.
* *Dispenser*: a door that inhibits water only and one that inhibits both;
  continue wait 2 of a maximum of 4, so the maximum expires in spite of continues.
* *Defrost*: `Compartments` and `Evaporators` are those of the product, with and
  without a convertible one; limits and maxima are pairwise different where they meet;
  `CountBound` is the largest limit and cuts off nothing a normal path
  reaches. Which inputs move differs from run to run because all together do
  not fit; each property runs where the inputs that threaten it move.
* *Mold*: three temperatures below, inside and above the bands, the last above
  `MaximumHarvestTemperature`.
* *Units*: times are two to five ticks, so that every timer can be restarted,
  stopped and expire behind another; counters have caps (`TimeCap`,
  `PrechillTimeCap`, `IntegrationCap`, `CheckCap`, `UsageCap`, `RequestCap`)
  past the limit that the code compares them with; temperatures fall below,
  between and above the limits; `MinimumVolume` and `MinDutyCycle` are reached
  from both sides, and `DefrostConditions` has one abnormal condition of each kind
  (`HasConvertibleCompartment` says whether the convertible one counts). Three filters, one of them the bypass plug, so
  that a filter can come back after another. Two requests of the RFID board may wait (`RequestCap`):
  a third one leads to `TagsNeverGoBack` below, in too many states for a run, and the
  theorem covers every number.
* *Storage*: two pages of two cells, so that jobs start inside a page, end
  inside one and cross the boundary; two tries, so that one fails and one follows.
* *Drivers*: transfers of two and three bytes, rings and counters that wrap.

## Findings

`twist_tray_late_transition` – a motor timeout in the 1 ms interrupt, between a
handler's dispatch and its `Fsm_Transition`, posts the error; the handler then
enters a moving state and restarts the motor, which turns after the supply has
gone to the damper. `MotorDriverArbitrator.h:4` promises one motor at a time.

### Further counterexamples

TLC finds each of these properties, defined in the module beside the quotation it states, violated by what the code does, with the
constants of the named configuration, but for what the column adds, and the
property in place of its own.

| Property | Module | Constants of | What the trace shows |
| --- | --- | --- | --- |
| `CoolingOffDisablesDefrost` | `DefrostSystem` | `Defrost.cfg`, with `CoolingCanStop = TRUE` | at power-up the cooling-off handler writes the disable ERD before `Defrost_Init` has subscribed, and `Defrost_Init` does not read it |
| `WaterRunsWhileFilling` | `TwistTrayIceMakerSystem` | `TwistTrayIceMaker.cfg` | a paused fill that is resumed does not open the valve again; the mold's does |
| `NoFillWhileDispensing` | `TwistTrayIceMakerSystem` | `TwistTrayIceMaker.cfg` | when the inhibition ends, `IdleFill` starts a fill though water is being dispensed |
| `SabbathIsSpentInFreeze` | `TwistTrayIceMakerSystem` | `TwistTrayIceMaker.cfg` | a harvest test request in sabbath mode that finds the bucket full ends in `BucketIsFull` |
| `FullBucketIsReported` | `TwistTrayMotorSystem` | `TwistTrayMotor.cfg` | the end of the detection period comes inside the handler of the switch change that felt the full bucket: `Harvested` is reported |
| `MovingMotorIsTimed` | `TwistTrayMotorSystem` | `TwistTrayMotor.cfg` | the switch bounces at the full twist; in the handler of its second rise the end of the pause comes after the output (102), enters Untwisting and starts motor and error timer; the handler then stops that timer (123) and remembers Coasting, and the tray untwists with nothing to time it. A motor timeout between 112 and 126 leaves `lastMotorState` Untwisting in Idle likewise, and the next homing starts no timer ("Start motor error detection timer if: ...", `TwistTrayIceMakerMotorController.c:107`) |
| `CompressorStartsUp` | `MCCoolingUnits` | `CoolingUnits.cfg` | `CompressorStartup` times the vote, and the sabbath delay (`SabbathDelayHandler.c:82`) may be longer: the compressor starts when the startup votes are already withdrawn ("When the compressor turns ON - the compressor and various fans need to be turned on or off for the same start up time", `CompressorStartup.h:3`) |
| `ReportedJobsAreDone` | `MCStorage` | `Storage.cfg` | a write meets a stalled bus: its byte is left out (`HardwareEeprom_I2c.c:437`), counted and reported as written ("Set the status to true if all data have been sent", line 459); a read may report success without its last byte (313, 329: "Wait until all expected data has been received", line 311) |
| `WaterDoorsLeaveIceAlone` | `MCDispenserSystem` | `Dispenser.cfg` | with a filter error, a door that inhibits only water ends a dispense of ice |
| `MoldDelayMeansDispensing` | `MCAluminumMoldSystem` | `AluminumMold.cfg` | the delay of a fill outlives the dispense it waits for (`AluminumMoldIceMaker_Test.cpp:2666`) |
| `InhibitedMoldIsNotFilled` | `MCAluminumMoldSystem` | `AluminumMold.cfg` | `State_Fill` is entered while fills are inhibited (`AluminumMoldIceMaker_Test.cpp:2474`) |
| `OverrideIsUsed` | `DefrostSystem` | `DefrostTest.cfg` | a test request made during a heating leaves its override for a later defrost |
| `HeatersAreOnOnlyInHeaterOn` | `DefrostSystem` | `DefrostTest.cfg`, with the convertible evaporator and `TestRequests = {"Idle"}` | the test request Idle leaves a heater voted on when the convertible compartment has changed sides |
| `NoHeaterVoteInIdle` | `DefrostSystem` | `DefrostTest.cfg`, with `TestRequests = {"Idle"}` | in a secondary-only heating a hot primary evaporator is voted off, and the test request Idle withdraws the votes of the secondary ones only: the Off vote stays in Idle |
| `OneEvaporatorDefrostsFully` | `DefrostSystem` | `DefrostTest.cfg`, with `Evaporators = {"Freezer"}` | a single evaporator gets a secondary-only defrost by test request |
| `RestingFlapMatchesPosition` | `MCDamperMotorSystem` | `DamperMotorSystem.cfg`, with `DamperId = "ConvertibleCompartment"` and two step tables | the step table changes while an opening is under way and no homing is asked for |
| `RestingFlapMatchesPosition` | `MCDamperMotorSystem` | `DamperMotorSystem.cfg`, with a vote Closed that does not care | a vote that only starts to care closes a closed damper; the completion flips the position to Open |
| `ReadyMeansCompressorRan` | `MCCoolingUnits` | `CoolingUnits.cfg` | `ReadyToDefrost.c:533-543` leaves the timer running when the compressor goes off with the doors closed (lines 471-485 stop it; `ReadyToDefrost_Test.cpp:1525`) |
| `SabbathDoorsStayOverridden` | `MCCoolingUnits` | `CoolingUnits.cfg` | a mode switched off and on again within the GPIO delay: the one-shot timer started on leaving is not stopped, and clears the door overrides in sabbath mode (`SabbathInhibitDoors.c:36-90`) |
| `FlowIsCountedWhenPulsesOverflow` | `MCServiceUnits` | `ServiceUnits.cfg` | `FlowMeterMonitor.c:36-38` loses one pulse when the counter wraps (`FlowMeterMonitor_Test.cpp:204`) |
| `TagsNeverGoBack` | `MCServiceUnits` | `ServiceUnits.cfg`, with `RequestCap = 3` | two reads wait before a write; the filter is changed away and back between their answers, and the write gives its tag the older usage |
| `SeededFilterIsReady` | `MCServiceUnits` | `ServiceUnits.cfg` | `Filter_LongTermAverage.c:60-63`: a seed does not make the filter ready (`Filter_LongTermAverage_Test.cpp:143`) |

### Behaviour the models keep and a reader may not expect

* *Tray motor*: `timeCount` stops at `UINT16_MAX` (517), so that a period of more than 65 seconds,
  which a `uint8_t` of seconds can name, never fires; `TimerPeriods` leaves those out.
* *Compressor*: the minimum-on vote carries the startup's frequency; the
  frequency goes stale when only the mode or the set point zone changes; speed
  Low with cooling mode Off keeps the old frequency; cooling off stops the
  run-time timer of a running compressor (`CompressorFaultHandler.c:143-148`).
* *Valve*: a vote for the position the valve has, in the direction it came
  from, leaves the manager waiting for steps that are never made
  (`SealedSystemValveRequestManager.c:207`); `SealedSystemIsSpared` shows
  that only the withdrawal of the last vote leads there.
* *Grid*: block 38 of `Grid_DualEvap.c` compares with 4 differently at lines
  257 and 651; blocks 7-13, 19, 20, 27, 34 and 41 do not re-enable the ice
  cabinet fan that a pulldown disabled; `Grid_TripleEvap.c` is empty.
* *Ice rate*: the fan vote latches a speed that was only temporarily higher.
  `LoadOffDoorOpen.c:139,157` allocate `i` bytes for a value of the ERD's size.
* *Mold*: a test harvest in `IdleFill` keeps `pauseFill`, so the next fill
  resumes the old one.
* *EEPROM*: the events of the AT21CS11 driver carry no result; an erase request
  during another operation is dropped; after an erase `blockWriteRequests` stays
  set, and a read in the publish delay takes the timer over, so that the
  eraser's reset never comes (`JobsEnd` excludes what follows an erase). The
  delayed page driver is compiled but wired in no plugin.
* *RFID*: a lost answer to the read with all doors closed leaves no timer until
  a door opens (`RfidCommunicationController.c:488-546`); `RfidIsAlwaysArmed` excludes it.
* *Lights*: dimming after the door-open time has expired switches the light on
  with no timer (`LightingDoorVoteResolver.c:174-179`).
* *Factory mode*: the minute timer runs on after the reset broadcast and can
  wrap from 0 to 255.
* *Ice cabinet*: the startup vote of the fan beats the door, defrost and harvest
  votes. *Pan*: an out-of-range mode request is neither applied nor reset; the
  warm-up vote is kept between its limits.
* *Set points*: the high-humidity offset does not hear the validity of its
  sensor (`HighAmbientHumidityOffsetCalculator.c:66-81`); the cross-ambient
  offset is not calculated at start-up.
* *Board drivers*: a one-byte I2C read acknowledges its last byte, so read sizes
  start at two; `DataSource_Gpio_Run` clears its flag after the publication, so
  a change debounced meanwhile is not published (excluded as `overtaken`); a
  UART ring that is filled exactly once around reads as empty, and the buffer
  is twice what a millisecond brings (`BufferedUart_Channel1.c:17-19`); the first
  interval of a tachometer after a standstill is taken modulo 2^16.

## Fairness and other assumptions

Fairness is weak, and only of what the scheduling guarantees; it is strong where a step waits for the
main loop to be free, which it is again and again: `Poll` and `DamperReleases` in `TwistTrayMotorSystem`.

* Interrupts keep coming (`StepTick`, `Tick`).
* The main loop keeps running: it empties its queue (`DamperMoveEnds`), goes on
  with a handler (`MakeCall`), comes back to the poll (`Poll`) however often the switch keeps it busy, runs timers that are due
  (`TimerExpires`, `Minute`, `ContinueWaitExpires`, `MaxDispenseTimeExpires`, the fill monitor's timers).
* The other load gives the motor back: `IceMakerReleases` in `DamperMotorSystem`,
  which `twist_tray_motor` checks, and `DamperReleases` in `TwistTrayMotorSystem`,
  which `damper_motor` checks.
* In the ice maker: the motor answers a vote (`MotorEnds`, checked by
  `twist_tray_motor`), a dispense ends (`DispenseEnds`, checked by `dispenser`), and
  an inhibited fill is allowed again. The last is a plain assumption, and is needed only by `IdleFill`.
* In `Storage`: the timer module calls a timer that is due (`StorageFairness`).
  Power may fail at any time; a job that power cuts off is gone, not waiting.
* Nothing is assumed of users, doors, the filter, test requests or power. The
  units of `cooling_units` and `service_units` assume no fairness at all: what
  must go on is stated as the invariant that a timer, a request or an event
  that will be heard is there (`SabbathGoesOn`, `RfidIsAlwaysArmed`,
  `PoliciesFollowTheirConditions`).

Environment assumptions:

* `SwitchSettles` – a tray that does not turn stops moving its switch. Without
  it a bouncing switch restarts the landing for ever.
* `[]~overtaken` in `EveryVoteIsAnswered` – the behaviours of
  `twist_tray_late_transition` excluded; an overtaken handler can leave a final
  result behind, and the next equal one is not published.
* `BucketCheckEndsFirst` – nothing watches the error timer while the bucket is felt for, so the
  parametric data must give up later than the check ends, by the time of two polls at least.
* `StopsNameTheirSelection` – the end of a dispense carries the selection of its
  start. The status takes the selection of the stop request
  (`DispensingRequestHandler.c:66`); a user interface that stops with another
  selection would leave the ice maker's delay standing.
* Damper votes are caring ones once the grid votes (`CaringVotes`); the second
  counterexample of `RestingFlapMatchesPosition` shows what happens otherwise.

## Proofs

Eight modules of proofs, each checked by `tlapm X.tla` (obligations as `--summary` counts them). None uses fairness;
the constants are only known to satisfy the named assumptions of their modules.

| Module | Obligations | Theorems |
| --- | --- | --- |
| `DamperMotorSystemProofs` | 907 | `ArbitratorIsExclusive`, `SystemInvariant`, `LoadsAreExclusive`, `MovesAreExact`, `RestingDamperIsSettled`, `ChainImplementsManager` |
| `TwistTrayMotorSystemProofs` | 3276 | `MovementsStaySafe`, `EveryResultAnswersItsVote` |
| `TwistTrayIceMakerSystemProofs` | 1303 | `MakerOwnsWhatItStarts`, `FillsAreAccountedFor` |
| `AluminumMoldSystemProofs` | 1710 | `MoldOwnsWhatItStarts`, `WaterAndHeatAreBounded` |
| `DispenserSystemProofs` | 2863 | `DispenseStaysConsistent`; of `WaterFilter`: `RfidControllerStaysArmed`, `UsageStaysWithTheFilter`, `WaterStaysCounted` |
| `DefrostSystemProofs` | 3909 | `NothingOutlivesItsState`, `EveryHeaterIsTimed`, `PrimaryEvaporatorsAreHeated`, `InterruptionsAreResumed`; of `ReadyToDefrost`: `TimesAreCountedOnce` |
| `CoolingUnitProofs` | 5779 | `SabbathModesGoOn`, `SealedSystemStaysInStep`, `SealedSystemStaysSpared`, `AirPathStaysInStep`, `PoliciesStayInStep`, `GridVotesStayTogether`, `GridBlocksStayAHistory`, `SensorsEarnTheirValidity`, `SensorsTurnInTime` |
| `ServiceUnitProofs` | 4931 | `DriversImplementBlockStore`, `BoardDriversKeepTheirData`, `AugerRelaysStaySpared`, `PanAndFanStayCurrent`, `CabinetFanStartsSlowly` |

A theorem states a property that a run checks, so that the run shows it on a small
instance and the theorem for every value of the constants. Five theorems stand
alone: `ChainImplementsManager` and `ArbitratorIsExclusive` (the refinement without its
fairness, and the arbitrator without its users), `EveryResultAnswersItsVote` (`AnswersTheVote` as long as nothing is
`overtaken`, which the run checks without that excuse), `SensorsEarnTheirValidity` (the part of
`TemperaturesAreConsistent` that is about sensors) and `CabinetFanStartsSlowly`.

### The motor chain

`SystemInv` is the inductive invariant of `DamperMotorSystem`:

* types (`SystemTypeOK`);
* `BusyIffMoveOutstanding` – the manager waits exactly when it has asked for steps;
* `OneOwner` – exactly one of the interrupt, the queued completion and the
  request subscription owns the driver;
* `StepsAreExact` – steps made and steps to run add up to the request;
* `IdleDriverIsClean` – a finished move leaves the coils off and every counter at zero;
* `NoRequestIsForgotten` – a motor that waits, waits for one that is enabled;
* `LoadsNeverRunTogether`, `EnabledDamperIsMoving`;
* `Coupling`.

`LoadsNeverRunTogether` alone is not inductive: when the ice maker is enabled on
the damper's release, one must know that the release comes only after the last
tick, that is that the coils are off. `Coupling` says so (enabled iff ticking
or completion queued; energised iff ticking). `StepsAreExact` needs its last
two conjuncts: the delay counters are zero wherever a move can start or end,
or else the first step of the next move would come early.

`RestIsSettled` needs `RestInv`: a move begins where the position says and leads
away from it, and what is asked for meanwhile is remembered. It holds under
`StepsSuitFlap`, which is what the parametric data and the grid give: one step
table (`DamperId = "Normal"`), steps to home that reach the stop from anywhere, an
open position within the travel, steps to close that lead back from it, and
votes that differ only in their position. The last two counterexamples of
`RestingFlapMatchesPosition` (below the findings) show that the first and the
last of these are needed.

### Records: what an exit leaves, what a signal finds

In the twist tray's motor, both ice makers and the defrost a handler is an
operator on the record of the machine. The invariants follow the shape of a
state machine: `Left(m)` is what every exit of a state leaves, `Leavable(m)`
what must hold in a state for its exit to achieve that, and `Found(m, signal, ...)`
(`Tidy` for the defrost, `Shape` and `Story` for the motor) what a signal
finds. Every handler turns `Found` into `Found`, a transition goes through `Left`.
The runs' properties alone are not inductive: "no timer outlives its state" says
nothing about the flag that will restart it.

* `MovementInv` (tray motor) follows a handler call by call: it names the points a handler can be
  at (`AtRest`, `Begins`, `AtWork` and those after them) by what is still to be called, and says at
  each what the motor, `lastMotor` and the timers are (`Sound`, `Timed`, `Shape`, `Told`), so that an interrupt at any
  of them either finds nothing due or changes the state, which `overtaken` records. The check of the bucket ends before
  the motor's timeout (`BucketCheckEndsFirst`), by the time of two polls: it begins after the timer was started, and its
  end may come inside the handler of a full bucket. What `overtaken` excuses is excused in the invariant
  and in both theorems.
* `MakerInv`, `MoldInv` (ice makers) say of a postponed fill that its monitor
  stands still, and of each timer that it runs or has just told so by its own signal.
  `FillsAreAccountedFor` assumes `StopsNameTheirSelection`; `WaterAndHeatAreBounded`
  needs it not, and holds for all temperatures with ordered bands.
* `DispenserInv` says that the two machines are both at rest or both in the dispense
  of one selection that nothing inhibits; every event ends in one of the two.
* `DefrostInv` holds under `HeatingIsNotReassigned`: there is no convertible evaporator, or no test
  request cuts a heating short. `EveryHeaterIsTimed` assumes the
  second (`HeatingEndsByItself`). Each run that checks the properties satisfies what
  its theorem assumes; `HeatersAreOnOnlyInHeaterOn` and `NoHeaterVoteInIdle` (below the findings) show that neither can be dropped.
* `CountInv` bounds the heatings that pass the primary evaporators over (`since`). The count
  that Defrost keeps is set when a defrost is *chosen*, the heatings happen later, and a full defrost resets it
  before it heats. So it says more than `since <= count`: one is due, and counted, that has not heated
  (`SecondaryIsDue`), or a full one must come before any other (`FullIsDue`: it has been chosen,
  or its override is set, or the machine is disabled and will set it). Every handler
  is a chain of small writes, and `Keeps` says of each what it does to these few fields.
  `PrimaryEvaporatorsAreHeated` assumes `OnlyFullIsRequested` (see below); that `InterruptionsAreResumed` asks for
  more than one evaporator is the code's exception (`OneEvaporatorDefrostsFully`).

### Control units

Units share nothing, so an invariant is a conjunction `unit = "x" => XInv(st)`,
and the actions of one unit keep the others' conjuncts trivially.

* `StorageInv`: the cells an operation has passed are done (`Achieved`) unless the bus stalled in its job, those that are left
  belong to the job (`Aims`), and a timer tells which slice, retry or end comes next. Each
  step of a driver is then one `StoreNext` step of `BlockStore` or a stutter.
* `SabbathInv`: each stage has its timer, its request or the defrost that ends it.
* `SealedInv` is `CompressorInv`, `DriveInv`, `FaultInv` and `ValveInv`. The sabbath delay hears the
  resolved vote after the modules that vote again, and holds back a start and nothing else (`Held`). While the compressor's
  votes are published by nested handlers, `Publishable` is what holds between two of them.
  `ValveInv` needs `ValvePositionsDiffer` (two positions with one step count would ask for a
  move of zero steps) and the flag `stalled` for the one way in which that happens.
* `ReadyInv`: time counted, plus what the running timer will add, is the time that
  passed, per compressor and per open door. `DoorFactorsAddUp` (the sum of the factors of a set of
  doors is a natural, and zero only for no door) is a lemma about
  the fold that computes the sum. The induction theorems of the library cannot be instantiated here; the lemma
  argues by the least set of doors that has no sum, or a wrong one (`LeastSubset`, `SumsAreUnique`, `SumsExist`).
* `RfidInv` gives each state of the controller the timer or the request that will be
  answered; `LifeInv`, `FlowInv` and `VolumeInv` relate the counts of usage, of pulses and of
  volumes to what was used. What a tag has counted needs `TagsInv`: the writes under way for one filter
  follow each other in the order of their usage, between the tag and the unit (`Ordered`), an answer carries the
  tag of the filter that is installed, and a plug is never written.
* `AirPathInv`, `PoliciesInv` and `PanInv` have one part per unit: mostly,
  that an output is the function of the inputs of now and that a timer runs exactly while its
  condition waits. `PanInv` includes the voters' subscriptions (`ListenersAreComplete`) and, for the startup vote that is written
  while the resolution it takes part in is published, `ResolvedVoteFacts`.
* `GridInv`: what every block finds and leaves, the votes aside (`DualCooling`, `SingleCooling`), and for the
  line calculation that the lines are those of the set points of now and that no block
  stands twice in a row in the history. A block is a chain of partial writes (`w ++ s`), which are
  composed one at a time, so that each block is one short leaf and no block's table is expanded twice.
* `AugerInv` says which states of the auger have switched its power off and which rest (`AugerSpares`: what a step may do to the relays).
* `SensorInv`: a sensor counts the readings of one quality that precede a change (`RunIsCounted`), which both
  theorems about sensors need, and shows what its filters know (`Shown`, `Faulty`, `Resolving`).
* `BoardDriversInv`: `I2cInv` splits a transfer by who has to act next (`Asking`, `Reading`); `UartInv` says
  where the head of the ring is from the DTC's down-counter and the number of bytes not yet read, modulo
  the size of the buffer (`Receiving`); `CaptureInv` that the counter at the last edge, the overflows and the interval add up.

### What the proofs found

An attempt that failed for a good reason changed the project:

* Three handlers were written with overlapping `CASE` arms, whose choice is not
  determined (`WithDoor`, `StartDispensing`, `Handle`); they follow the order of
  the code's tests now.
* Assumptions were too weak for what they were said to guarantee: `CountModulus = 1` would start
  the flow meter below zero, `ReplacementPercent = 100` would contradict
  "order a filter" with nothing used, mold temperatures need ordered bands, the ranges, tables and
  hysteresis lines of the pan and the ice cabinet need their types.
* A read of the one-wire memory was one step in the model; it is block by block in the code and now here.
  The fallback of the sweat heater's duty cycle is clamped in the code, and is now.
* The test request Idle in the middle of a secondary-only heating (`NoHeaterVoteInIdle`).
* A test request for a defrost or a prechill that comes in PostDwell leaves `skipTest` set
  when Idle is entered, and Idle is left for the defrost without a choice: the type of the last one is used
  again and not counted. The requests Idle and ExitDefrostHeaterOnState, and a stop of the cooling system,
  end a full defrost that was chosen, with its count already reset, before it heats. Each lets
  the primary evaporators wait longer than the limit; `OnlyFullIsRequested` excludes them, and the test requests
  of the service are where they come from.
* `UsageFollowsTheFilter` held in the run only because two requests may wait there. `RfidCommunicator`
  sends each request at once, whatever is outstanding, so that the data of a filter can be taken over again before
  its own write has arrived, and the older usage is written afterwards. The property names that case
  now (`overtaken`), which no state of the run reaches; `TagsNeverGoBack` is what it said before.
* The head of the UART's ring and the tail are told apart by a sequence number only if its modulus
  is larger than the buffer; a set point equal to the value that stands for "no vote" would be no vote. Both are
  assumptions of their modules now.

### Model-checked only

* *Fairness and liveness* (`EveryRequestIsServed`, `EveryVoteIsAnswered`, `EveryWaitEnds`,
  `EveryDispenseEnds`, `EveryDefrostEnds`, `JobsEnd`, the fairness part of
  `ManagerSpec`): out of the prover's reach.
* *Under test requests*: the bound on passed-over primary evaporators is false there; see above.
* *Units that are a function of their inputs*: `ServicesFollowTheirInputs` (lights, heaters, doors, boards, factory
  mode), and of `TemperaturesAreConsistent` the set points, the shift and the averages, whose arithmetic
  `TemperaturesFit` keeps within an int16_t.
* Every other invariant and action property that a run checks is stated by a theorem,
  `ResultAnswersTheVote` up to `overtaken`.

## What is not modelled

* *Plugins, configurations, parametric data, data sources*: wiring, tables and
  storage. The order of initialisation is modelled where a component depends on it.
  The systems that compose components take their initial states from the plugin
  that wires them: the four-door defrost, the aluminum mold ice maker, the
  side-by-side dispenser, the damper motor and the parallel motor control.
* *Service modes and testing machines*: sequences for a technician; they share
  one structure of resources and are next in the plan.
* *GEA messages, `Fsm`/`Hsm`, the voting framework, timers, debouncers*: a
  library that is not in the repository, modelled from how the code uses it.
* *Flash driver* (`r_flash_type1.c`): the vendor's register sequences.
* *Small handlers* that copy, mask or compare one or two ERDs (features, sound
  level, convertible state), lookup tables, and the ADC, PWM and ramping data sources.
* Within modelled components: GPIO patterns and error reasons of the tray's
  motor, the autofill sensor (absent from the only configuration), the copy of a
  selection in `DispenseSelectionRequestHandler`, defrost statistics, the public
  status of the mold ice maker, the steps of the light's ramp. UART channels 5,
  6 and 9 repeat the code of channel 1, which is the one modelled.

`PROJECT.json` lists every component with its status and reason.

## Plan

1. **Done:** models of the motor chain, both ice makers, dispenser, defrost,
   sealed system, fans, grid, policies, sabbath modes, water filter, cabinet
   services, pan, set points and sensors, drivers and storage; proofs of their
   safety as listed in [proofs](#proofs).
2. `ReadyToDefrost` composed with `DefrostSystem`, so that "a defrost becomes due"
   and "every defrost ends" join to "defrosts recur".
3. Service modes over their shared resources.
