------------------------ MODULE TwistTrayMotorSystem ------------------------
(***************************************************************************)
(* The twist tray ice maker's motor from its vote to its coil:             *)
(* TwistTrayIceMakerMotorRequestManager.c turns the resolved vote into a   *)
(* control request and, once enabled, into a requested state;              *)
(* TwistTrayIceMakerMotorController.c moves the tray;                      *)
(* TwistTrayIceMakerMotorControllerValueUpdater.c polls its result into an *)
(* ERD, on which the manager gives the motor back and the ice maker        *)
(* withdraws its vote.  The arbitrator's other load is the damper.         *)
(*                                                                         *)
(* A main-loop event is one step until it reaches the controller, whose    *)
(* handler is then made call by call: the 1 ms interrupt may come after    *)
(* the dispatch, and after every call, exit and entry included.            *)
(***************************************************************************)
EXTENDS TwistTrayIceMakerMotorController, MotorDriverArbitrator

CONSTANT PollPeriod    \* ticks within which the main loop polls the result

ASSUME PollIsAPeriod == PollPeriod \in Nat \ {0}

\* Nothing watches the motor error timer while the bucket is felt for, so the
\* parametric data must give up later than that check ends, and by more than a
\* handler takes at either end: the check begins after the error timer was
\* started, and its end may come inside the handler of a full bucket.
ASSUME BucketCheckEndsFirst ==
    FullBucketDetectionPeriod + 2 * PollPeriod < LongMotorErrorTimeout

VARIABLES
    ctl,         \* the controller
    calls,       \* what the main loop's handler has still to call
    vote,        \* state of the resolved vote
    resultErd,   \* motorActionResultErd
    sincePoll,   \* ticks since the last poll
    felt,        \* history: this harvest's arm met a full bucket
    overtaken    \* history: the interrupt changed the state inside a handler

twistVars == <<ctl, calls, vote, resultErd, sincePoll, felt, overtaken>>
vars == <<twistVars, arbVars>>

Damper == 0
IceMaker == 1

TypeOK ==
    /\ ArbTypeOK
    /\ ctl \in Controller
    /\ calls \in Seq(CallsOfHandlers)
    /\ vote \in RequestedStates
    /\ resultErd \in Results
    /\ sincePoll \in 0 .. PollPeriod
    /\ felt \in BOOLEAN
    /\ overtaken \in BOOLEAN

Init ==
    /\ ArbInit
    /\ ctl = InitialController
    /\ calls = <<>>
    /\ vote = "Off"
    /\ resultErd = "NoAction"
    /\ sincePoll = 0
    /\ felt = FALSE
    /\ overtaken = FALSE

(***************************************************************************)
(* Fsm_SendSignal from the main loop.                                      *)
(***************************************************************************)
Deliver(c, signal) ==
    /\ ctl' = c
    /\ calls' = Calls(c.state, signal)
    /\ felt' = CASE c.state = "CheckingIfBucketIsFull" /\ signal = "SwitchHigh" -> TRUE
                 [] c.state = "Idle" /\ signal = "Run" -> FALSE
                 [] OTHER -> felt

Nothing == UNCHANGED <<ctl, calls, felt>>

MainLoopIsFree == calls = <<>>

MakeCall ==
    /\ calls # <<>>
    /\ ctl' = Do(ctl, Head(calls))
    /\ calls' = Rest(ctl, Head(calls), Tail(calls))
    /\ UNCHANGED <<vote, resultErd, sincePoll, felt, overtaken, arbVars>>

Tick ==
    /\ sincePoll < PollPeriod
    /\ ctl' = Run(ctl)
    /\ sincePoll' = sincePoll + 1
    /\ overtaken' = (overtaken \/ (calls # <<>> /\ ctl'.state # ctl.state))
    /\ UNCHANGED <<calls, vote, resultErd, felt, arbVars>>

\* OnInputChange of the switch monitor, which has inverted the input.
SwitchChanges ==
    /\ MainLoopIsFree
    /\ LET c == [ctl EXCEPT !.switch = ~ctl.switch]
       IN  Deliver(c, IF c.switch THEN "SwitchHigh" ELSE "SwitchLow")
    /\ UNCHANGED <<vote, resultErd, sincePoll, overtaken, arbVars>>

\* The ice maker leaves its rest: it votes for a movement.
VoteFor(v) ==
    /\ MainLoopIsFree
    /\ vote = "Off" /\ v # "Off"
    /\ vote' = v
    /\ IF controlRequest[IceMaker] THEN UNCHANGED arbVars ELSE RequestMotor(IceMaker)
    /\ IF driveEnable'[IceMaker] THEN Deliver(ctl, v) ELSE Nothing
    /\ UNCHANGED <<resultErd, sincePoll, overtaken>>

\* Mutant: a motor error does not give the motor back.
PollKeepsFailedMotor ==
    /\ MainLoopIsFree
    /\ resultErd' = ctl.result
    /\ sincePoll' = 0
    /\ UNCHANGED overtaken
    /\ IF resultErd' # resultErd /\ resultErd' \in FinalResults
       THEN /\ IF controlRequest[IceMaker] /\ resultErd' # "MotorError"
               THEN ReleaseMotor(IceMaker) ELSE UNCHANGED arbVars
            /\ vote' = "Off"
            /\ Deliver(ctl, "Off")
       ELSE Nothing /\ UNCHANGED <<vote, arbVars>>

\* Mutant: the motor is given back as soon as the harvest is under way.
PollReleasesEarly ==
    /\ MainLoopIsFree
    /\ resultErd' = ctl.result
    /\ sincePoll' = 0
    /\ UNCHANGED overtaken
    /\ IF resultErd' # resultErd /\ resultErd' \in FinalResults \union {"Harvesting"}
       THEN /\ IF controlRequest[IceMaker] THEN ReleaseMotor(IceMaker) ELSE UNCHANGED arbVars
            /\ vote' = "Off"
            /\ Deliver(ctl, "Off")
       ELSE Nothing /\ UNCHANGED <<vote, arbVars>>

\* PollMotorActionResult: the result is published; a final one makes the
\* manager clear its request and the ice maker withdraw its vote, which is
\* passed through to the controller.
Poll ==
    /\ MainLoopIsFree
    /\ resultErd' = ctl.result
    /\ sincePoll' = 0
    /\ UNCHANGED overtaken
    /\ IF resultErd' # resultErd /\ resultErd' \in FinalResults
       THEN /\ IF controlRequest[IceMaker] THEN ReleaseMotor(IceMaker) ELSE UNCHANGED arbVars
            /\ vote' = "Off"
            /\ Deliver(ctl, "Off")
       ELSE Nothing /\ UNCHANGED <<vote, arbVars>>

DamperRequests ==
    /\ MainLoopIsFree
    /\ RequestMotor(Damper)
    /\ UNCHANGED twistVars

\* The damper's release may enable the ice maker, whose manager then passes
\* the vote of the moment on.
DamperReleases ==
    /\ MainLoopIsFree
    /\ driveEnable[Damper]
    /\ ReleaseMotor(Damper)
    /\ IF driveEnable'[IceMaker] THEN Deliver(ctl, vote) ELSE Nothing
    /\ UNCHANGED <<vote, resultErd, sincePoll, overtaken>>

Next ==
    \/ MakeCall \/ Tick \/ SwitchChanges \/ Poll
    \/ \E v \in RequestedStates : VoteFor(v)
    \/ DamperRequests \/ DamperReleases

(***************************************************************************)
(* The interrupt and the main loop both keep running; the main loop comes  *)
(* back to the timer of the poll, and to the damper, however often the     *)
(* switch keeps it busy; a damper that has its motor is eventually done    *)
(* (DamperMotorSystem).                                                    *)
(***************************************************************************)
Fairness ==
    /\ WF_vars(Tick) /\ WF_vars(MakeCall)
    /\ SF_vars(Poll) /\ SF_vars(DamperReleases)

Spec == Init /\ [][Next]_vars /\ Fairness

-----------------------------------------------------------------------------
\* "only allows either of the motors to be on at the same time"
\* (MotorDriverArbitrator.h:4): the tray's motor turns only while the
\* arbitrator lets it, over request, enable, timeouts, poll and release.
MotorRunsOnlyWhenEnabled == ctl.motor \in Moving => driveEnable[IceMaker]

\* The handler is between the output of a motor that starts or turns round and
\* the start of its error timer.
TimerIsBeingStarted ==
    /\ calls # <<>>
    /\ \/ Head(calls).call = "Compare" /\ ctl.lastMotor # Head(calls).motor
       \/ Head(calls).call = "Start" /\ Head(calls).timer = "MotorError"

\* "Start motor error detection timer if: (You are going to make the motor
\* actually move) AND (the motor is changing ...)"
\* (TwistTrayIceMakerMotorController.c:107-111): a turning motor has its error
\* timeout running, whatever the changes of direction and the hand-overs
\* between states that keep it turning.
MovingMotorIsTimed ==
    ctl.motor \in Moving =>
        \/ TimerIsBeingStarted
        \/ /\ ctl.timer["MotorError"].left > 0
           /\ ctl.timer["MotorError"].signal = "MotorTimeout"

\* A controller at rest has a motor at rest and no timer left that could still
\* deliver a signal of the last movement; a controller at work has a timer, or
\* a handler, that gets it out of the state it is in.
RestIsComplete ==
    IF ctl.state = "Idle"
    THEN ctl.motor \notin Moving /\ \A t \in Timers : ctl.timer[t] = Stopped
    ELSE calls # <<>> \/ \E t \in Timers : ctl.timer[t].left > 0

\* The state that the next movement's error timer is compared with is the one
\* the motor was told last, whenever no handler is under way.
LastMotorIsTrue == calls = <<>> => ctl.lastMotor = ctl.motor

\* A harvest whose arm met a full bucket is never reported as harvested
\* (test ShouldStopHarvestingIfTheIceBucketIsFull).
FullBucketIsReported == felt => ctl.result # "Harvested"

\* A step that publishes a final result publishes an answer to the vote.
AnswersTheVote ==
    resultErd' # resultErd /\ resultErd' \in FinalResults =>
        \/ resultErd' = "MotorError" /\ vote # "Off"
        \/ resultErd' = "Homed" /\ vote = "Home"
        \/ resultErd' \in {"Harvested", "BucketWasFull"} /\ vote = "Run"

\* A final result that is published answers the vote that stands: a homing is
\* never answered by the result of a harvest left over from before.
ResultAnswersTheVote == [][AnswersTheVote]_vars

\* A tray whose motor does not turn comes to rest: an assumption about the
\* mechanics, without which a bouncing switch restarts the landing for ever.
SwitchSettles == <>[][ctl'.switch = ctl.switch \/ ctl.motor \in Moving]_vars

\* Every vote for a movement is answered and withdrawn, and with it the motor
\* is given back; a waiting damper gets it.  (An overtaken handler can leave a
\* final result behind, and the next equal one is a write without a change.)
EveryVoteIsAnswered ==
    SwitchSettles /\ []~overtaken =>
        /\ vote # "Off" ~> vote = "Off"
        /\ controlRequest[Damper] ~> driveEnable[Damper]

\* The motor turns only enabled and timed, rests completely, and reports a full
\* bucket, wherever the interrupt comes, as long as it does not change the
\* state inside a handler of the main loop.
MovementsAreSafe ==
    /\ TypeOK
    /\ \/ overtaken
       \/ /\ MotorRunsOnlyWhenEnabled
          /\ MovingMotorIsTimed
          /\ LastMotorIsTrue
          /\ RestIsComplete
          /\ FullBucketIsReported
=============================================================================
