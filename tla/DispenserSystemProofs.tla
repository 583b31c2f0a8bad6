----------------------- MODULE DispenserSystemProofs -----------------------
(***************************************************************************)
(* The safety of the dispenser, for every set of doors and every time:     *)
(* DispenseIsConsistent of DispenserSystem.  Between two events the        *)
(* dispenser is either quiet or busy with a dispense that is allowed; each *)
(* operator of Dispenser is shown to lead from one of the two to one of    *)
(* the two.  And of the water filter it stands behind: the RFID unit, the  *)
(* life of the filter and what counts the water (WaterFilter).             *)
(***************************************************************************)
EXTENDS DispenserSystem, WaterFilter, SequenceTheorems, WellFoundedInduction, TLAPS

Cleared == {"Reset", "CompletedSuccessfully"}

\* No dispense: both machines at rest, no timer, no load, no stale status.
AtRest(x) ==
    /\ x \in Dispensers
    /\ x.handler = "Idle" /\ x.controller = "NotDispensing"
    /\ x.request.action = "Stop"
    /\ x.wait = Stopped /\ x.max = Stopped
    /\ ~x.water /\ x.auger = "Off"
    /\ x.status.status # "Dispensing"

Quiet(x) == AtRest(x) /\ x.result \in Cleared

\* A dispense of the private request's selection, with its loads and timers.
Busy(x) ==
    /\ x \in Dispensers
    /\ x.handler = "RequestingDispense" /\ x.controller = "Dispensing"
    /\ x.request.action = "Start"
    /\ x.wait # Stopped /\ x.max # Stopped
    /\ x.water <=> x.request.selection \in WaterSelections
    /\ x.auger = (IF x.request.selection \in IceSelections
                  THEN x.request.selection ELSE "Off")
    /\ x.result \in Cleared
    /\ x.status.status = "Dispensing" => x.status.selection = x.request.selection

Allowed(x, bitmap, isDisabled) ==
    /\ ~isDisabled
    /\ ~InhibitedByDoor(x.request.selection, bitmap)
    /\ ~InhibitedByRfid(x.request.selection, bitmap)

Settled(x, bitmap, isDisabled) ==
    Quiet(x) \/ (Busy(x) /\ Allowed(x, bitmap, isDisabled))

\* The strengthening of DispenseIsConsistent that every step preserves.
DispenserInv ==
    /\ Settled(d, inhibited, disabled)
    /\ open \subseteq Doors
    /\ waterDoors = open \cap WaterDoors
    /\ iceDoors = open \cap IceDoors
    /\ inhibited \subseteq Reasons
    /\ disabled \in BOOLEAN
    /\ BitmapFollowsDoors

-----------------------------------------------------------------------------
\* Two dispensers that differ in nothing but their loads, timers and states.
SameStory(x, y) ==
    /\ y.current = x.current
    /\ y.result = x.result
    /\ y.status = x.status
    /\ y.timeFault = x.timeFault

\* A timer may be stopped, or be set to its whole time.
LEMMA TimerValues ==
    /\ Stopped \in Stopped .. ContinueWait
    /\ Stopped \in Stopped .. MaximumDispenseTime
    /\ ContinueWait \in Stopped .. ContinueWait /\ ContinueWait # Stopped
    /\ MaximumDispenseTime \in Stopped .. MaximumDispenseTime
    /\ MaximumDispenseTime # Stopped
BY DispenserAssumption DEF Stopped

\* The controller stops: its timer and its loads with it.
LEMMA StopFacts ==
    ASSUME NEW x \in Dispensers
    PROVE  LET y == StopDispensing(x) IN
           /\ y \in Dispensers
           /\ SameStory(x, y)
           /\ y.handler = x.handler /\ y.wait = x.wait /\ y.request = x.request
           /\ y.controller = "NotDispensing"
           /\ x.controller = "Dispensing" =>
                 y.max = Stopped /\ ~y.water /\ y.auger = "Off"
           /\ x.controller = "NotDispensing" => y = x
<1>1. CASE x.controller = "Dispensing"
  <2> DEFINE y == [x EXCEPT !.controller = "NotDispensing", !.max = Stopped,
                            !.water = FALSE, !.auger = "Off"]
  <2>1. StopDispensing(x) = y
    BY <1>1 DEF StopDispensing
  <2>2. y \in Dispensers
    BY TimerValues DEF Dispensers
  <2>3. /\ y.controller = "NotDispensing" /\ y.max = Stopped
        /\ y.water = FALSE /\ y.auger = "Off"
        /\ y.handler = x.handler /\ y.wait = x.wait /\ y.request = x.request
        /\ y.current = x.current /\ y.result = x.result
        /\ y.status = x.status /\ y.timeFault = x.timeFault
    BY DEF Dispensers
  <2> HIDE DEF y
  <2> QED BY <1>1, <2>1, <2>2, <2>3 DEF SameStory
<1>2. CASE x.controller = "NotDispensing"
  BY <1>2 DEF StopDispensing, SameStory
<1> QED BY <1>1, <1>2 DEF Dispensers

\* The private request is the current one.
LEMMA PrivateRequestFacts ==
    ASSUME NEW x \in Dispensers, NEW a \in {"Stop", "Start"}
    PROVE  LET y == PrivateRequest(x, a) IN
           /\ y \in Dispensers
           /\ SameStory(x, y)
           /\ y.handler = x.handler /\ y.wait = x.wait
           /\ y.controller = x.controller /\ y.max = x.max
           /\ y.water = x.water /\ y.auger = x.auger
           /\ y.request.action = a /\ y.request.selection = x.current
<1> DEFINE r == [action |-> a, selection |-> x.current]
           y == [x EXCEPT !.request = r]
<1>1. r \in [action : {"Stop", "Start"}, selection : Selections]
  BY DEF Dispensers
<1>2. y \in Dispensers
  BY <1>1 DEF Dispensers
<1> QED BY <1>2 DEF PrivateRequest, SameStory, Dispensers

\* The handler leaves its request: it waits no more, and the controller stops.
LEMMA LeaveFacts ==
    ASSUME NEW x \in Dispensers
    PROVE  LET y == LeaveRequestingDispense(x) IN
           /\ y \in Dispensers
           /\ SameStory(x, y)
           /\ y.handler = "Idle" /\ y.wait = Stopped
           /\ y.controller = "NotDispensing"
           /\ y.request.action = "Stop"
           /\ x.controller = "Dispensing" =>
                 y.max = Stopped /\ ~y.water /\ y.auger = "Off"
           /\ x.controller = "NotDispensing" =>
                 y.max = x.max /\ y.water = x.water /\ y.auger = x.auger
<1> DEFINE a == [x EXCEPT !.handler = "Idle", !.wait = Stopped]
           b == PrivateRequest(a, "Stop")
<1>1. a \in Dispensers
  BY TimerValues DEF Dispensers
<1>2. /\ a.handler = "Idle" /\ a.wait = Stopped
      /\ SameStory(x, a)
      /\ a.controller = x.controller /\ a.max = x.max
      /\ a.water = x.water /\ a.auger = x.auger
  BY DEF Dispensers, SameStory
<1> HIDE DEF a
<1>3. /\ b \in Dispensers
      /\ SameStory(a, b)
      /\ b.handler = a.handler /\ b.wait = a.wait
      /\ b.controller = a.controller /\ b.max = a.max
      /\ b.water = a.water /\ b.auger = a.auger
      /\ b.request.action = "Stop"
  BY <1>1, PrivateRequestFacts
<1> HIDE DEF b
<1>4. LeaveRequestingDispense(x) = StopDispensing(b)
  BY DEF LeaveRequestingDispense, a, b
<1> DEFINE c == StopDispensing(b)
<1>5. /\ c \in Dispensers
      /\ SameStory(b, c)
      /\ c.handler = b.handler /\ c.wait = b.wait /\ c.request = b.request
      /\ c.controller = "NotDispensing"
      /\ b.controller = "Dispensing" =>
            c.max = Stopped /\ ~c.water /\ c.auger = "Off"
      /\ b.controller = "NotDispensing" => c = b
  BY <1>3, StopFacts
<1> HIDE DEF c
<1> QED BY <1>2, <1>3, <1>4, <1>5 DEF SameStory, c

\* A dispense, or a request for one that the controller has not started: what
\* the handler can leave.
Leavable(x) ==
    /\ x \in Dispensers
    /\ x.handler = "RequestingDispense"
    /\ x.controller = "NotDispensing" =>
          x.max = Stopped /\ ~x.water /\ x.auger = "Off"

\* The status that is published names the current or the private selection.
LEMMA StatusFacts ==
    ASSUME NEW x \in Dispensers, NEW s \in Selections, NEW t \in DispenseStatuses
    PROVE  LET y == [x EXCEPT !.status = [selection |-> s, status |-> t]] IN
           /\ y \in Dispensers
           /\ y.handler = x.handler /\ y.wait = x.wait
           /\ y.controller = x.controller /\ y.max = x.max
           /\ y.water = x.water /\ y.auger = x.auger
           /\ y.request = x.request /\ y.current = x.current
           /\ y.result = x.result /\ y.timeFault = x.timeFault
           /\ y.status.selection = s /\ y.status.status = t
<1> DEFINE r == [selection |-> s, status |-> t]
           y == [x EXCEPT !.status = r]
<1>1. r \in [selection : Selections, status : DispenseStatuses]
  OBVIOUS
<1>2. y \in Dispensers
  BY <1>1 DEF Dispensers
<1> QED BY <1>2 DEF Dispensers

\* A result is written for the handler, or cleared by it.
LEMMA ResultFacts ==
    ASSUME NEW x \in Dispensers,
           NEW r \in Refusals \cup {"CompletedSuccessfully", "Reset"}
    PROVE  LET y == [x EXCEPT !.result = r] IN
           /\ y \in Dispensers
           /\ y.handler = x.handler /\ y.wait = x.wait
           /\ y.controller = x.controller /\ y.max = x.max
           /\ y.water = x.water /\ y.auger = x.auger
           /\ y.request = x.request /\ y.current = x.current
           /\ y.result = r /\ y.timeFault = x.timeFault
           /\ y.status = x.status
BY DEF Dispensers

\* The handler publishes how a dispense ended and leaves it: all is at rest.
LEMMA LeavingIsRest ==
    ASSUME NEW x, Leavable(x),
           NEW s \in Selections, NEW t \in DispenseStatuses \ {"Dispensing"}
    PROVE  LET z == LeaveRequestingDispense(
                       [x EXCEPT !.status = [selection |-> s, status |-> t]])
           IN AtRest(z) /\ z.result = x.result
<1> DEFINE y == [x EXCEPT !.status = [selection |-> s, status |-> t]]
           z == LeaveRequestingDispense(y)
<1>1. /\ y \in Dispensers
      /\ y.controller = x.controller /\ y.max = x.max
      /\ y.water = x.water /\ y.auger = x.auger
      /\ y.result = x.result /\ y.status.status = t
  BY StatusFacts DEF Leavable
<1> HIDE DEF y
<1>2. /\ z \in Dispensers
      /\ SameStory(y, z)
      /\ z.handler = "Idle" /\ z.wait = Stopped
      /\ z.controller = "NotDispensing"
      /\ z.request.action = "Stop"
      /\ y.controller = "Dispensing" =>
            z.max = Stopped /\ ~z.water /\ z.auger = "Off"
      /\ y.controller = "NotDispensing" =>
            z.max = y.max /\ z.water = y.water /\ z.auger = y.auger
  BY <1>1, LeaveFacts
<1> HIDE DEF z
<1>3. y.controller \in {"Dispensing", "NotDispensing"}
  BY <1>1 DEF Dispensers
<1>4. z.max = Stopped /\ ~z.water /\ z.auger = "Off"
  BY <1>1, <1>2, <1>3 DEF Leavable
<1>5. AtRest(z) /\ z.result = x.result
  BY <1>1, <1>2, <1>4 DEF AtRest, SameStory
<1> QED BY <1>5 DEF y, z

\* A refusal is published, ends what goes on and is cleared again.
LEMMA RefusalIsQuiet ==
    ASSUME NEW x, Leavable(x) \/ AtRest(x), x.result \in Cleared,
           NEW r \in Refusals
    PROVE  Quiet(SetDispensingResultStatus(x, r))
<1> DEFINE p == [x EXCEPT !.result = r]
           l == LeaveRequestingDispense(
                   [p EXCEPT !.status = [selection |-> x.request.selection,
                                         status |-> r]])
<1>1. r \notin Cleared /\ r \in DispenseStatuses \ {"Dispensing"}
  BY DEF Cleared, Refusals, DispenseStatuses
<1>2. x \in Dispensers /\ x.result # r /\ x.request.selection \in Selections
  BY <1>1 DEF Leavable, AtRest, Dispensers
<1>3. /\ p \in Dispensers
      /\ p.handler = x.handler /\ p.controller = x.controller
      /\ p.wait = x.wait /\ p.max = x.max /\ p.request = x.request
      /\ p.water = x.water /\ p.auger = x.auger /\ p.status = x.status
  BY <1>2, ResultFacts
<1>4. ASSUME NEW y, AtRest(y)
      PROVE  Quiet([y EXCEPT !.result = "Reset"])
  <2> DEFINE z == [y EXCEPT !.result = "Reset"]
  <2>1. y \in Dispensers
    BY <1>4 DEF AtRest
  <2>2. /\ z \in Dispensers
        /\ z.handler = y.handler /\ z.controller = y.controller
        /\ z.wait = y.wait /\ z.max = y.max /\ z.request = y.request
        /\ z.water = y.water /\ z.auger = y.auger /\ z.status = y.status
        /\ z.result = "Reset"
    BY <2>1, ResultFacts
  <2> HIDE DEF z
  <2>3. Quiet(z)
    BY <1>4, <2>2 DEF Quiet, AtRest, Cleared
  <2> QED BY <2>3 DEF z
<1>5. CASE Leavable(x)
  <2>1. SetDispensingResultStatus(x, r) = [l EXCEPT !.result = "Reset"]
    BY <1>2, <1>5 DEF SetDispensingResultStatus, Leavable
  <2>2. Leavable(p)
    BY <1>3, <1>5 DEF Leavable
  <2> HIDE DEF p
  <2>3. AtRest(l)
    BY <1>1, <1>2, <2>2, LeavingIsRest
  <2> QED BY <1>4, <2>1, <2>3
<1>6. CASE AtRest(x)
  <2>1. SetDispensingResultStatus(x, r) = [p EXCEPT !.result = "Reset"]
    BY <1>2, <1>6 DEF SetDispensingResultStatus, AtRest
  <2>2. AtRest(p)
    BY <1>3, <1>6 DEF AtRest
  <2> QED BY <1>4, <2>1, <2>2
<1> QED BY <1>5, <1>6

\* The controller starts the dispense that is requested, with its loads.
LEMMA EnteringIsBusy ==
    ASSUME NEW x \in Dispensers,
           x.handler = "RequestingDispense", x.request.action = "Start",
           x.wait # Stopped, ~x.water, x.auger = "Off", x.result \in Cleared
    PROVE  LET y == EnterDispensing(x) IN y.request = x.request /\ Busy(y)
<1> DEFINE r == [selection |-> x.request.selection, status |-> "Dispensing"]
           w == x.request.selection \in WaterSelections
           g == IF x.request.selection \in IceSelections
                THEN x.request.selection ELSE "Off"
           y == EnterDispensing(x)
<1>1. r \in [selection : Selections, status : DispenseStatuses]
  BY DEF Dispensers, DispenseStatuses
<1>2. /\ (x.water \/ w) = w
      /\ (IF x.request.selection \in IceSelections
          THEN x.request.selection ELSE x.auger) = g
      /\ w \in BOOLEAN /\ g \in IceSelections \cup {"Off"}
  BY DEF Dispensers
<1> HIDE DEF w, g
<1>3. y = [x EXCEPT !.controller = "Dispensing", !.timeFault = FALSE, !.status = r,
                    !.max = MaximumDispenseTime, !.water = w, !.auger = g]
  BY <1>2 DEF EnterDispensing, w, g
<1> HIDE DEF r, y
<1>4. y \in Dispensers
  BY <1>1, <1>2, <1>3, TimerValues, ZenonT(120) DEF Dispensers
<1>5. /\ y.handler = x.handler /\ y.wait = x.wait /\ y.request = x.request
      /\ y.controller = "Dispensing" /\ y.max = MaximumDispenseTime
      /\ y.water = w /\ y.auger = g /\ y.result = x.result /\ y.status = r
  BY <1>3 DEF Dispensers
<1>6. y.status.selection = y.request.selection
  BY <1>5 DEF r
<1> QED BY <1>4, <1>5, <1>6, TimerValues DEF Busy, y, w, g

\* The controller is asked to start what the handler requests: it starts it if
\* nothing forbids it, and refuses it otherwise, which ends the request.
LEMMA StartIsSettled ==
    ASSUME NEW x, AtRest(x), x.result \in Cleared, x.current \in Selections,
           NEW bitmap, NEW isDisabled \in BOOLEAN
    PROVE  Settled(EnterRequestingDispense(x, bitmap, isDisabled),
                   bitmap, isDisabled)
<1> DEFINE w == [x EXCEPT !.handler = "RequestingDispense", !.wait = ContinueWait]
           y == PrivateRequest(w, "Start")
           e == EnterDispensing(y)
<1>1. x \in Dispensers
  BY DEF AtRest
<1>2. w \in Dispensers
  BY <1>1, TimerValues DEF Dispensers
<1>3. /\ w.handler = "RequestingDispense" /\ w.wait = ContinueWait
      /\ w.controller = x.controller /\ w.max = x.max
      /\ w.water = x.water /\ w.auger = x.auger /\ w.result = x.result
      /\ w.status = x.status
  BY <1>1 DEF Dispensers
<1> HIDE DEF w
<1>4. /\ y \in Dispensers
      /\ y.handler = "RequestingDispense" /\ y.wait = ContinueWait
      /\ y.controller = "NotDispensing" /\ y.max = Stopped
      /\ ~y.water /\ y.auger = "Off" /\ y.result \in Cleared
      /\ y.request.action = "Start"
  BY <1>2, <1>3, PrivateRequestFacts DEF AtRest, SameStory
<1> HIDE DEF y
<1>5. EnterRequestingDispense(x, bitmap, isDisabled) =
         StartDispensing(y, bitmap, isDisabled)
  BY DEF EnterRequestingDispense, w, y
<1>6. \A r \in Refusals : Quiet(SetDispensingResultStatus(y, r))
  BY <1>4, RefusalIsQuiet DEF Leavable
<1>7. CASE Allowed(y, bitmap, isDisabled)
  <2>1. StartDispensing(y, bitmap, isDisabled) = e
    BY <1>4, <1>7 DEF StartDispensing, Allowed
  <2>2. e.request = y.request /\ Busy(e)
    BY <1>4, EnteringIsBusy, TimerValues
  <2> QED BY <1>5, <1>7, <2>1, <2>2 DEF Settled, Allowed
<1>8. CASE ~Allowed(y, bitmap, isDisabled)
  <2>1. \E r \in Refusals :
           StartDispensing(y, bitmap, isDisabled) = SetDispensingResultStatus(y, r)
    BY <1>4, <1>8 DEF StartDispensing, Allowed, Refusals
  <2> QED BY <1>5, <1>6, <2>1 DEF Settled
<1> QED BY <1>7, <1>8

\* A request overwrites the current one, which nothing that is settled reads.
LEMMA CurrentIsNotRead ==
    ASSUME NEW x, NEW bitmap, NEW isDisabled, Settled(x, bitmap, isDisabled),
           NEW s \in Selections
    PROVE  Settled([x EXCEPT !.current = s], bitmap, isDisabled)
<1> DEFINE y == [x EXCEPT !.current = s]
<1>1. x \in Dispensers
  BY DEF Settled, Quiet, AtRest, Busy
<1>2. /\ y \in Dispensers
      /\ y.handler = x.handler /\ y.controller = x.controller
      /\ y.wait = x.wait /\ y.max = x.max /\ y.request = x.request
      /\ y.water = x.water /\ y.auger = x.auger
      /\ y.status = x.status /\ y.result = x.result
  BY <1>1 DEF Dispensers
<1> HIDE DEF y
<1>3. Quiet(x) => Quiet(y)
  BY <1>2 DEF Quiet, AtRest
<1>4. Busy(x) => Busy(y)
  BY <1>2 DEF Busy
<1>5. Settled(y, bitmap, isDisabled)
  BY <1>2, <1>3, <1>4 DEF Settled, Allowed
<1> QED BY <1>5 DEF y

\* A heartbeat gives the dispense time again.
LEMMA WaitIsSettled ==
    ASSUME NEW x, Busy(x), NEW w \in Stopped .. ContinueWait, w # Stopped,
           NEW m \in Stopped .. MaximumDispenseTime, m # Stopped
    PROVE  LET y == [x EXCEPT !.wait = w, !.max = m] IN
           Busy(y) /\ y.request = x.request
<1> DEFINE y == [x EXCEPT !.wait = w, !.max = m]
<1>1. x \in Dispensers
  BY DEF Busy
<1>2. /\ y \in Dispensers
      /\ y.handler = x.handler /\ y.controller = x.controller
      /\ y.wait = w /\ y.max = m /\ y.request = x.request
      /\ y.water = x.water /\ y.auger = x.auger
      /\ y.status = x.status /\ y.result = x.result
  BY <1>1 DEF Dispensers
<1> HIDE DEF y
<1>3. Busy(y) /\ y.request = x.request
  BY <1>2 DEF Busy
<1> QED BY <1>3 DEF y

\* A status other than that of a dispense can be published at any time.
LEMMA StatusIsSettled ==
    ASSUME NEW x, NEW bitmap, NEW isDisabled, Settled(x, bitmap, isDisabled),
           x.current \in Selections, NEW t \in DispenseStatuses \ {"Dispensing"}
    PROVE  /\ Settled(UpdateStatus(x, t), bitmap, isDisabled)
           /\ Quiet(x) => Quiet(UpdateStatus(x, t))
<1> DEFINE y == UpdateStatus(x, t)
<1>1. x \in Dispensers
  BY DEF Settled, Quiet, AtRest, Busy
<1>2. /\ y \in Dispensers
      /\ y.handler = x.handler /\ y.controller = x.controller
      /\ y.wait = x.wait /\ y.max = x.max /\ y.request = x.request
      /\ y.water = x.water /\ y.auger = x.auger
      /\ y.result = x.result /\ y.status.status = t
  BY <1>1, StatusFacts DEF UpdateStatus
<1> HIDE DEF y
<1>3. Quiet(x) => Quiet(y)
  BY <1>2 DEF Quiet, AtRest
<1>4. Busy(x) => Busy(y)
  BY <1>2 DEF Busy
<1>5. Settled(y, bitmap, isDisabled)
  BY <1>2, <1>3, <1>4 DEF Settled, Allowed
<1> QED BY <1>3, <1>5 DEF y

\* Whatever is asked of the handler, it settles.
LEMMA SignalIsSettled ==
    ASSUME NEW x, NEW bitmap, NEW isDisabled \in BOOLEAN,
           Settled(x, bitmap, isDisabled), NEW action \in Actions
    PROVE  Settled(HandlerSignal(x, action, bitmap, isDisabled), bitmap, isDisabled)
<1> DEFINE y == HandlerSignal(x, action, bitmap, isDisabled)
           told == UpdateStatus(x, "CompletedSuccessfully")
<1>1. x \in Dispensers /\ x.current \in Selections
  BY DEF Settled, Quiet, AtRest, Busy, Dispensers
<1>2. "CompletedSuccessfully" \in DispenseStatuses \ {"Dispensing"}
      /\ "BadCommand" \in DispenseStatuses \ {"Dispensing"}
  BY DEF DispenseStatuses
<1>3. Quiet(x) => x.handler # "RequestingDispense"
  BY DEF Quiet, AtRest
<1>4. x.handler # "RequestingDispense" => Quiet(x)
  BY DEF Settled, Busy
<1>5. CASE action = "Start" /\ x.handler # "RequestingDispense"
  <2>1. y = EnterRequestingDispense(x, bitmap, isDisabled)
    BY <1>5 DEF HandlerSignal
  <2> QED BY <1>1, <1>4, <1>5, <2>1, StartIsSettled DEF Quiet
<1>6. CASE action = "Continue" /\ x.handler = "RequestingDispense"
  <2>1. y = [x EXCEPT !.wait = ContinueWait]
    BY <1>6 DEF HandlerSignal
  <2>2. [x EXCEPT !.wait = ContinueWait] =
           [x EXCEPT !.wait = ContinueWait, !.max = x.max]
    BY <1>1 DEF Dispensers
  <2>3. Busy(x) /\ Allowed(x, bitmap, isDisabled)
    BY <1>3, <1>6 DEF Settled
  <2>4. x.max \in Stopped .. MaximumDispenseTime /\ x.max # Stopped
    BY <2>3 DEF Busy, Dispensers
  <2> DEFINE z == [x EXCEPT !.wait = ContinueWait, !.max = x.max]
  <2>5. Busy(z) /\ z.request = x.request
    BY <2>3, <2>4, WaitIsSettled, TimerValues
  <2> HIDE DEF y
  <2>6. Busy(y) /\ y.request = x.request
    BY <2>1, <2>2, <2>5
  <2>7. Allowed(y, bitmap, isDisabled)
    BY <2>3, <2>6 DEF Allowed
  <2>8. Settled(y, bitmap, isDisabled)
    BY <2>6, <2>7 DEF Settled
  <2> QED BY <2>8 DEF y
<1>7. CASE action = "Stop"
  <2>1. CASE x.handler = "RequestingDispense"
    <3>1. y = LeaveRequestingDispense(told)
      BY <1>7, <2>1 DEF HandlerSignal
    <3>2. Busy(x)
      BY <1>3, <2>1 DEF Settled
    <3>3. AtRest(y) /\ y.result = x.result
      BY <1>1, <1>2, <3>1, <3>2, LeavingIsRest DEF Leavable, Busy, UpdateStatus
    <3> QED BY <3>2, <3>3 DEF Settled, Quiet, Busy
  <2>2. CASE x.handler # "RequestingDispense"
    <3>1. y = told
      BY <1>7, <2>2 DEF HandlerSignal
    <3> QED BY <1>1, <1>2, <3>1, StatusIsSettled
  <2> QED BY <2>1, <2>2
<1>8. CASE action = "Bad"
  <2>1. y = UpdateStatus(x, "BadCommand")
    BY <1>8 DEF HandlerSignal
  <2> QED BY <1>1, <1>2, <2>1, StatusIsSettled
<1>9. CASE \/ action = "None"
           \/ action = "Start" /\ x.handler = "RequestingDispense"
           \/ action = "Continue" /\ x.handler # "RequestingDispense"
  <2>1. y = x
    BY <1>9 DEF HandlerSignal
  <2> QED BY <2>1
<1> QED BY <1>5, <1>6, <1>7, <1>8, <1>9 DEF Actions

\* So does a whole request, with a selection that is none of the known ones.
LEMMA RequestIsSettled ==
    ASSUME NEW x, NEW bitmap, NEW isDisabled \in BOOLEAN,
           Settled(x, bitmap, isDisabled),
           NEW action \in Actions, NEW s \in Selections
    PROVE  Settled(HandleRequest(x, action, s, bitmap, isDisabled), bitmap, isDisabled)
<1> DEFINE acted == IF action = "None" THEN x
                    ELSE HandlerSignal([x EXCEPT !.current = s],
                                       action, bitmap, isDisabled)
<1>1. Settled(acted, bitmap, isDisabled)
  BY CurrentIsNotRead, SignalIsSettled
<1>2. "Bad" \in Actions
  BY DEF Actions
<1> QED BY <1>1, <1>2, SignalIsSettled DEF HandleRequest

\* A change of the inhibitions ends a dispense that they now forbid.
LEMMA InhibitionIsSettled ==
    ASSUME NEW x, NEW old, NEW new, NEW isDisabled \in BOOLEAN,
           Settled(x, old, isDisabled)
    PROVE  /\ Settled(HandleInhibition(x, new), new, isDisabled)
           /\ Settled(Published(x, old, new), new, isDisabled)
<1>1. \A r \in Refusals : Quiet(SetDispensingResultStatus(x, r))
  BY RefusalIsQuiet DEF Settled, Quiet, Busy, Leavable
<1>2. "Rfid" \in Refusals /\ "DoorOpen" \in Refusals
  BY DEF Refusals
<1>3. CASE "WaterDueToRfidFilter" \in new
  BY <1>1, <1>2, <1>3 DEF HandleInhibition, Settled, Published
<1>4. CASE "WaterDueToRfidFilter" \notin new /\ InhibitedByDoor(x.request.selection, new)
  BY <1>1, <1>2, <1>4 DEF HandleInhibition, Settled, Published
<1>5. CASE "WaterDueToRfidFilter" \notin new /\ ~InhibitedByDoor(x.request.selection, new)
  <2>1. HandleInhibition(x, new) = x
    BY <1>5 DEF HandleInhibition
  <2>2. Settled(x, new, isDisabled)
    BY <1>5 DEF Settled, Allowed, InhibitedByRfid
  <2> QED BY <2>1, <2>2 DEF Published
<1> QED BY <1>3, <1>4, <1>5

\* A timer that is due ends the dispense: its whole time, or the heartbeat's.
LEMMA ExpiryIsQuiet ==
    ASSUME NEW x, Busy(x)
    PROVE  Quiet(HandleMaxDispenseTime(x)) /\ Quiet(HandleContinueWait(x))
<1>1. x \in Dispensers
  BY DEF Busy
<1>2. Quiet(HandleMaxDispenseTime(x))
  <2> DEFINE y == [x EXCEPT !.max = Stopped]
             z == SetDispensingResultStatus(y, "HitMaxTime")
             f == [z EXCEPT !.timeFault = TRUE]
  <2>1. y \in Dispensers
    BY <1>1, TimerValues DEF Dispensers
  <2>2. /\ y.handler = x.handler /\ y.controller = x.controller
        /\ y.result = x.result
    BY <1>1 DEF Dispensers
  <2> HIDE DEF y
  <2>3. Leavable(y) /\ y.result \in Cleared
    BY <2>1, <2>2 DEF Leavable, Busy
  <2>4. Quiet(z)
    BY <2>3, RefusalIsQuiet DEF Refusals
  <2> HIDE DEF z
  <2>5. z \in Dispensers
    BY <2>4 DEF Quiet, AtRest
  <2>6. /\ f \in Dispensers
        /\ f.handler = z.handler /\ f.controller = z.controller
        /\ f.wait = z.wait /\ f.max = z.max /\ f.request = z.request
        /\ f.water = z.water /\ f.auger = z.auger
        /\ f.status = z.status /\ f.result = z.result
    BY <2>5 DEF Dispensers
  <2> HIDE DEF f
  <2>7. Quiet(f)
    BY <2>4, <2>6 DEF Quiet, AtRest
  <2> QED BY <2>7 DEF HandleMaxDispenseTime, f, z, y
<1>3. Quiet(HandleContinueWait(x))
  <2> DEFINE y == [x EXCEPT !.wait = Stopped]
  <2>1. y \in Dispensers
    BY <1>1, TimerValues DEF Dispensers
  <2>2. /\ y.handler = x.handler /\ y.controller = x.controller
        /\ y.result = x.result /\ y.current \in Selections
    BY <1>1 DEF Dispensers
  <2> HIDE DEF y
  <2>3. Leavable(y) /\ y.result \in Cleared
    BY <2>1, <2>2 DEF Leavable, Busy
  <2>4. "NoHeartbeat" \in DispenseStatuses \ {"Dispensing"}
    BY DEF DispenseStatuses
  <2>5. Quiet(LeaveRequestingDispense(UpdateStatus(y, "NoHeartbeat")))
    BY <2>2, <2>3, <2>4, LeavingIsRest DEF UpdateStatus, Quiet
  <2> QED BY <2>5 DEF HandleContinueWait, y
<1> QED BY <1>2, <1>3

-----------------------------------------------------------------------------
\* A resolver's status stays the part of the open doors that it watches.
LEMMA WithDoorFacts ==
    ASSUME NEW watched, NEW o, NEW door, NEW p,
           p = IF door \in o THEN o \ {door} ELSE o \cup {door}
    PROVE  WithDoor(o \cap watched, watched, door, door \in p) = p \cap watched
<1>1. CASE door \notin watched
  <2>1. WithDoor(o \cap watched, watched, door, door \in p) = o \cap watched
    BY <1>1 DEF WithDoor
  <2>2. p \cap watched = o \cap watched
    BY <1>1
  <2> QED BY <2>1, <2>2
<1>2. CASE door \in watched /\ door \in o
  <2>1. door \notin p
    BY <1>2
  <2> QED BY <1>2, <2>1 DEF WithDoor
<1>3. CASE door \in watched /\ door \notin o
  <2>1. door \in p
    BY <1>3
  <2> QED BY <1>3, <2>1 DEF WithDoor
<1> QED BY <1>1, <1>2, <1>3

\* Each resolver's status and the bitmap they share follow the doors.
LEMMA DoorsKeepTheBitmap ==
    ASSUME DispenserInv, NEW door \in Doors, DoorChanges(door)
    PROVE  /\ open' \subseteq Doors
           /\ waterDoors' = open' \cap WaterDoors
           /\ iceDoors' = open' \cap IceDoors
           /\ inhibited' \subseteq Reasons
           /\ BitmapFollowsDoors'
<1>0. open' = IF door \in open THEN open \ {door} ELSE open \cup {door}
  BY DEF DoorChanges
<1>1. /\ open' \subseteq Doors
      /\ \A o \in Doors : o # door => (o \in open' <=> o \in open)
      /\ door \in open' <=> door \notin open
  BY <1>0 DEF DispenserInv
<1>2. waterDoors' = open' \cap WaterDoors
  <2>1. waterDoors' = WithDoor(open \cap WaterDoors, WaterDoors, door, door \in open')
    BY DEF DispenserInv, DoorChanges
  <2> QED BY <2>1, <1>0, WithDoorFacts DEF WithDoor
<1>3. iceDoors' = open' \cap IceDoors
  <2>1. iceDoors' = WithDoor(open \cap IceDoors, IceDoors, door, door \in open')
    BY DEF DispenserInv, DoorChanges
  <2> QED BY <2>1, <1>0, WithDoorFacts DEF WithDoor
<1> DEFINE water == IF door \in WaterDoors
                    THEN WithBit(inhibited, "WaterDueToDoorOpen", waterDoors')
                    ELSE inhibited
<1>4. /\ water \subseteq Reasons
      /\ "WaterDueToDoorOpen" \in water <=> waterDoors' # {}
      /\ "IceDueToDoorOpen" \in water <=> open \cap IceDoors # {}
  <2>1. door \notin WaterDoors => waterDoors' = open \cap WaterDoors
    BY <1>1, <1>2, DispenserAssumption DEF DispenserInv
  <2> QED BY <2>1 DEF DispenserInv, BitmapFollowsDoors, WithBit, Reasons
<1>5. inhibited' = IF door \in IceDoors
                   THEN WithBit(water, "IceDueToDoorOpen", iceDoors') ELSE water
  BY DEF DoorChanges
<1> HIDE DEF water
<1>6. door \notin IceDoors => iceDoors' = open \cap IceDoors
  BY <1>1, <1>3, DispenserAssumption DEF DispenserInv
<1>7. /\ inhibited' \subseteq Reasons
      /\ "WaterDueToDoorOpen" \in inhibited' <=> waterDoors' # {}
      /\ "IceDueToDoorOpen" \in inhibited' <=> iceDoors' # {}
  BY <1>4, <1>5, <1>6 DEF WithBit, Reasons
<1> QED BY <1>1, <1>2, <1>3, <1>7 DEF BitmapFollowsDoors

\* The dispenser starts at rest, and its bitmap agrees with the doors.
LEMMA InitImpliesInv == Init => DispenserInv
<1> SUFFICES ASSUME Init PROVE DispenserInv
  OBVIOUS
<1>1. d \in Dispensers
  BY TimerValues DEF Init, InitialDispenser, Dispensers, Selections, WaterSelections,
     DispenseStatuses
<1>2. Quiet(d)
  BY <1>1 DEF Init, InitialDispenser, Quiet, AtRest, Cleared
<1>3. inhibited \subseteq Reasons /\ BitmapFollowsDoors
  BY DEF Init, WithBit, Reasons, BitmapFollowsDoors
<1> QED BY <1>2, <1>3 DEF Init, DispenserInv, Settled

\* Every step leaves the dispenser quiet, or busy with what is allowed.
LEMMA InvIsInductive == DispenserInv /\ [Next]_vars => DispenserInv'
<1> SUFFICES ASSUME DispenserInv, [Next]_vars PROVE DispenserInv'
  OBVIOUS
<1> USE DEF DispenserInv
<1>1. ASSUME NEW door \in Doors, DoorChanges(door) PROVE DispenserInv'
  <2> DEFINE water == IF door \in WaterDoors
                      THEN WithBit(inhibited, "WaterDueToDoorOpen", waterDoors')
                      ELSE inhibited
  <2>1. d' = Published(Published(d, inhibited, water), water, inhibited')
    BY <1>1 DEF DoorChanges
  <2> HIDE DEF water
  <2>2. Settled(Published(d, inhibited, water), water, disabled)
    BY InhibitionIsSettled
  <2>3. Settled(d', inhibited', disabled)
    BY <2>1, <2>2, InhibitionIsSettled
  <2>4. disabled' = disabled
    BY <1>1 DEF DoorChanges
  <2> QED BY <1>1, <2>3, <2>4, DoorsKeepTheBitmap
<1>2. CASE FilterChanges
  <2>1. Settled(d', inhibited', disabled)
    BY <1>2, InhibitionIsSettled DEF FilterChanges
  <2>2. BitmapFollowsDoors' /\ inhibited' \subseteq Reasons
    BY <1>2 DEF FilterChanges, BitmapFollowsDoors, Reasons
  <2> QED BY <1>2, <2>1, <2>2 DEF FilterChanges
<1>3. CASE DisabledChanges
  <2>1. BitmapFollowsDoors'
    BY <1>3 DEF DisabledChanges, BitmapFollowsDoors
  <2>2. Settled(d', inhibited', disabled')
    <3>1. CASE disabled'
      BY <1>3, <3>1, RefusalIsQuiet
         DEF DisabledChanges, Settled, Quiet, Busy, Leavable, Refusals
    <3>2. CASE ~disabled'
      BY <1>3, <3>2 DEF DisabledChanges, Settled, Allowed
    <3> QED BY <3>1, <3>2
  <2> QED BY <1>3, <2>1, <2>2 DEF DisabledChanges
<1>4. ASSUME NEW action \in Actions, NEW selection \in Selections,
             Request(action, selection)
      PROVE  DispenserInv'
  <2>1. Settled(d', inhibited, disabled)
    BY <1>4, RequestIsSettled DEF Request
  <2> QED BY <1>4, <2>1 DEF Request, BitmapFollowsDoors
<1>5. CASE Tick
  <2>1. Busy(d) /\ Allowed(d, inhibited, disabled)
    BY <1>5 DEF Tick, Settled, Quiet, AtRest
  <2>2. /\ d.wait \in Stopped .. ContinueWait /\ d.wait # Stopped /\ d.wait # 0
        /\ d.max \in Stopped .. MaximumDispenseTime /\ d.max # Stopped /\ d.max # 0
    BY <1>5, <2>1 DEF Tick, Busy, Dispensers
  <2>3. /\ d.wait - 1 \in Stopped .. ContinueWait /\ d.wait - 1 # Stopped
        /\ d.max - 1 \in Stopped .. MaximumDispenseTime /\ d.max - 1 # Stopped
    BY <2>2, DispenserAssumption DEF Stopped
  <2>4. d' = [d EXCEPT !.wait = d.wait - 1, !.max = d.max - 1]
    BY <1>5, <2>2 DEF Tick
  <2>5. Busy(d') /\ d'.request = d.request
    BY <2>1, <2>3, <2>4, WaitIsSettled
  <2> QED BY <1>5, <2>1, <2>5 DEF Tick, Settled, Allowed, BitmapFollowsDoors
<1>6. CASE ContinueWaitExpires
  <2>1. Busy(d)
    BY <1>6 DEF ContinueWaitExpires, Settled, Quiet, AtRest, Stopped
  <2> QED BY <1>6, <2>1, ExpiryIsQuiet
          DEF ContinueWaitExpires, Settled, BitmapFollowsDoors
<1>7. CASE MaxDispenseTimeExpires
  <2>1. Busy(d)
    BY <1>7 DEF MaxDispenseTimeExpires, Settled, Quiet, AtRest, Stopped
  <2> QED BY <1>7, <2>1, ExpiryIsQuiet
          DEF MaxDispenseTimeExpires, Settled, BitmapFollowsDoors
<1>8. CASE UNCHANGED vars
  BY <1>8 DEF vars, BitmapFollowsDoors
<1> QED BY <1>1, <1>2, <1>3, <1>4, <1>5, <1>6, <1>7, <1>8 DEF Next

\* What the invariant says of the loads, the machines, the status and the doors.
LEMMA InvImpliesConsistent == DispenserInv => DispenseIsConsistent
<1> SUFFICES ASSUME DispenserInv PROVE DispenseIsConsistent
  OBVIOUS
<1>1. TypeOK
  BY DEF DispenserInv, TypeOK, Settled, Quiet, AtRest, Busy
<1>2. LoadsRunOnlyWhenAllowed
  BY DEF DispenserInv, LoadsRunOnlyWhenAllowed, Settled, Quiet, AtRest, Busy, Allowed,
     InhibitedByDoor, InhibitedByRfid, BitmapFollowsDoors
<1>3. MachinesAgree
  BY DEF DispenserInv, MachinesAgree, Settled, Quiet, AtRest, Busy
<1>4. ResultsAreCleared
  BY DEF DispenserInv, ResultsAreCleared, Settled, Quiet, Busy, Cleared
<1>5. StatusIsNotStale
  BY DEF DispenserInv, StatusIsNotStale, Settled, Quiet, AtRest, Busy
<1> QED BY <1>1, <1>2, <1>3, <1>4, <1>5 DEF DispenseIsConsistent, DispenserInv

\* In every state between two events the request handler, the controller, the
\* loads, the public status and the inhibitions tell the same story.
THEOREM DispenseStaysConsistent == Spec => []DispenseIsConsistent
<1>1. Init => DispenserInv
  BY InitImpliesInv
<1>2. DispenserInv /\ [Next]_vars => DispenserInv'
  BY InvIsInductive
<1>3. DispenserInv => DispenseIsConsistent
  BY InvImpliesConsistent
<1> QED BY <1>1, <1>2, <1>3, PTL DEF Spec

(***************************************************************************)
(* WaterFilter: RFID controller, life of the filter, the flow meter        *)
(* and the volume that the valves give.                                    *)
(***************************************************************************)

-----------------------------------------------------------------------------
(* The RFID unit.                                                          *)

RfidFields ==
    {"hsm", "doorsClosed", "uid", "usage", "units", "board", "result", "requests", "bypassPlugInstalled",
     "filter", "tags", "waiting", "lost", "overtaken", "readTimer", "readWriteTimer", "timeoutTimer"}

IsRequests(w) == \E S : w \in Seq(S)

Rfid(s) == s = [f \in RfidFields |-> s[f]] /\ IsRequests(s.waiting)

EndsInRead(w) == w # <<>> /\ w[Len(w)].request = "Read"

\* With the read timers down, the last request that waits is the read that the
\* one-shot timer sent: requests that are answered before it were sent by a
\* state that was left, and do not keep it from being answered.
RfidInv(s) ==
    /\ Rfid(s) /\ s.hsm \in {"DoorOpen", "JustClosed", "Read", "Write", "Demo"}
    /\ s.hsm = "DoorOpen" => s.readTimer
    /\ s.hsm = "JustClosed" => s.readTimer /\ s.timeoutTimer
    /\ s.hsm = "Read" => s.readWriteTimer \/ s.readTimer \/ s.lost \/ EndsInRead(s.waiting)
    /\ s.hsm = "Write" => s.timeoutTimer
    /\ s.hsm = "Demo" => ~s.readTimer /\ ~s.readWriteTimer /\ ~s.timeoutTimer

\* A handler that touches neither state, timers nor requests.
Arms(s, t) ==
    /\ Rfid(t)
    /\ t.hsm = s.hsm /\ t.readTimer = s.readTimer /\ t.readWriteTimer = s.readWriteTimer
    /\ t.timeoutTimer = s.timeoutTimer /\ t.waiting = s.waiting /\ t.lost = s.lost

LEMMA ArmsIsTransitive ==
    ASSUME NEW s, NEW t, NEW u, Arms(s, t), Arms(t, u)
    PROVE  Arms(s, u)
BY DEF Arms

LEMMA RequestsGrow ==
    ASSUME NEW w, IsRequests(w), NEW r
    PROVE  /\ IsRequests(Append(w, r)) /\ Append(w, r) # <<>>
           /\ Append(w, r)[Len(Append(w, r))] = r
<1>1. PICK S : w \in Seq(S)
  BY DEF IsRequests
<1> DEFINE T == S \cup {r}
<1>2. w \in Seq(T) /\ r \in T
  BY <1>1
<1> HIDE DEF T
<1>3. Append(w, r) \in Seq(T) /\ Append(w, r) # <<>> /\ Append(w, r)[Len(Append(w, r))] = r
  BY <1>2
<1> QED BY <1>3 DEF IsRequests

LEMMA RequestsShrink ==
    ASSUME NEW w, IsRequests(w), w # <<>>
    PROVE  /\ IsRequests(Tail(w))
           /\ EndsInRead(w) => EndsInRead(Tail(w)) \/ Head(w).request = "Read"
<1>1. PICK S : w \in Seq(S)
  BY DEF IsRequests
<1>2. Tail(w) \in Seq(S)
  BY <1>1
<1>3. CASE Len(w) = 1
  BY <1>1, <1>2, <1>3 DEF EndsInRead, IsRequests
<1>4. CASE Len(w) # 1
  <2>1. Tail(w) # <<>> /\ Tail(w)[Len(Tail(w))] = w[Len(w)]
    <3>1. Len(w) \in Nat /\ Len(w) > 1 /\ Len(Tail(w)) = Len(w) - 1
      <4>1. Len(w) \in Nat \ {0} /\ Len(Tail(w)) = Len(w) - 1
        BY <1>1, EmptySeq, HeadTailProperties
      <4> QED BY <1>4, <4>1
    <3>2. \A i \in 1 .. Len(w) - 1 : Tail(w)[i] = w[i + 1]
      BY <1>1, HeadTailProperties
    <3>3. Tail(w) # <<>>
      <4>1. Len(Tail(w)) # 0
        BY <3>1, SMTT(60)
      <4>2. Len(<<>>) = 0
        BY EmptySeq
      <4> QED BY <4>1, <4>2
    <3> QED BY <3>1, <3>2, <3>3
  <2> QED BY <1>2, <2>1 DEF EndsInRead, IsRequests
<1> QED BY <1>3, <1>4

LEMMA FaultArms ==
    ASSUME NEW s, Rfid(s), NEW fault, NEW status
    PROVE  Arms(s, RequestRfidFault(s, fault, status))
BY DEF Rfid, Arms, RfidFields, RequestRfidFault

LEMMA NewFilterArms ==
    ASSUME NEW s, Rfid(s)
    PROVE  Arms(s, NewFilterInstalledHandler(s))
<1> DEFINE isPlug == s.board.uid = BypassPlug
           a == UpdateUnitWithNewFilterData(s)
           b == SetBypassPlugInstalledTo(a, isPlug)
           c == IF isPlug THEN ClearRfidLeakAndBlockedTagFaults(b) ELSE b
           z == IncrementNumberOfUnitsFilterHasBeenOn(c)
<1>1. NewFilterInstalledHandler(s) = IF s.board.ours THEN c ELSE z
  BY DEF NewFilterInstalledHandler
<1>2. Arms(s, a)
  BY DEF Rfid, Arms, RfidFields, UpdateUnitWithNewFilterData
<1> HIDE DEF a, isPlug
<1>3. Arms(a, b)
  BY <1>2 DEF Rfid, Arms, RfidFields, SetBypassPlugInstalledTo
<1> HIDE DEF b
<1>4. Arms(b, c)
  <2>1. Arms(b, b)
    BY <1>3 DEF Arms
  <2>2. Arms(b, ClearRfidLeakAndBlockedTagFaults(b))
    <3> DEFINE u == RequestRfidFault(b, "leak", FALSE)
               v == RequestRfidFault(u, "blocked", FALSE)
    <3>1. Rfid(b)
      BY <1>3 DEF Arms
    <3>2. Arms(b, u)
      BY <3>1, FaultArms
    <3>3. Rfid(u)
      BY <3>2 DEF Arms
    <3> HIDE DEF u
    <3>4. Arms(u, v)
      BY <3>3, FaultArms
    <3>5. ClearRfidLeakAndBlockedTagFaults(b) = v
      BY DEF ClearRfidLeakAndBlockedTagFaults, u
    <3> HIDE DEF v
    <3> QED BY <3>2, <3>4, <3>5, ArmsIsTransitive
  <2> QED BY <2>1, <2>2
<1> HIDE DEF c
<1>5. Arms(c, z)
  BY <1>4 DEF Rfid, Arms, RfidFields, IncrementNumberOfUnitsFilterHasBeenOn
<1> HIDE DEF z
<1> QED BY <1>1, <1>2, <1>3, <1>4, <1>5, ArmsIsTransitive

LEMMA TakeResultArms ==
    ASSUME NEW s, Rfid(s)
    PROVE  Arms(s, TakeResult(s)) /\ Arms(s, TakeFilterStatus(s)) /\ Arms(s, s)
<1> DEFINE u == RequestRfidFault(s, "tag", FALSE)
           v == RequestRfidFault(u, "hardware", FALSE)
           w == RequestRfidFault(s, "leak", s.board.leak)
           x == RequestRfidFault(w, "blocked", s.board.blocked)
<1>1. Arms(s, s)
  BY DEF Arms
<1>2. Arms(s, u) /\ Rfid(u) /\ Arms(s, w) /\ Rfid(w)
  <2>1. Arms(s, u) /\ Arms(s, w)
    BY FaultArms
  <2> HIDE DEF u, w
  <2> QED BY <2>1 DEF Arms
<1>3. TakeResult(s) = IF v.board.uid # v.uid THEN NewFilterInstalledHandler(v) ELSE v
  <2>1. v.board = s.board /\ v.uid = s.uid
    BY DEF RequestRfidFault, Rfid, RfidFields
  <2> HIDE DEF v
  <2>2. ClearRfidFilterTagAuthenticationFailedAndHardwareFailureFaults(s) = v
    BY DEF ClearRfidFilterTagAuthenticationFailedAndHardwareFailureFaults, v
  <2> QED BY <2>1, <2>2 DEF TakeResult
<1>4. TakeFilterStatus(s) = IF s.board.uid = BypassPlug THEN s ELSE x
  BY DEF TakeFilterStatus
<1> HIDE DEF u, w
<1>5. Arms(u, v) /\ Rfid(v) /\ Arms(w, x)
  <2>1. Arms(u, v) /\ Arms(w, x)
    BY <1>2, FaultArms
  <2> HIDE DEF v, x
  <2> QED BY <2>1 DEF Arms
<1> HIDE DEF v, x
<1>6. Arms(v, NewFilterInstalledHandler(v))
  BY <1>5, NewFilterArms
<1>7. Arms(s, v) /\ Arms(s, x)
  BY <1>2, <1>5, ArmsIsTransitive
<1>8. Arms(s, NewFilterInstalledHandler(v))
  BY <1>6, <1>7, ArmsIsTransitive
<1> QED BY <1>1, <1>3, <1>4, <1>7, <1>8

LEMMA SendFacts ==
    ASSUME NEW s, Rfid(s), NEW request
    PROVE  LET t == SendRfidFilterDataRequest(s, request) IN
           /\ Rfid(t) /\ t.hsm = s.hsm /\ t.readTimer = s.readTimer
           /\ t.readWriteTimer = s.readWriteTimer /\ t.timeoutTimer = s.timeoutTimer
           /\ t.lost \/ (request = "Read" => EndsInRead(t.waiting))
<1> DEFINE r == [request |-> request, uid |-> s.uid, usage |-> s.usage, units |-> s.units]
           w == Append(s.waiting, r)
           a == [s EXCEPT !.lost = TRUE]
           b == [s EXCEPT !.waiting = w]
<1>1. SendRfidFilterDataRequest(s, request) = IF Len(s.waiting) = RequestCap THEN a ELSE b
  BY DEF SendRfidFilterDataRequest
<1>2. r.request = request
  OBVIOUS
<1> HIDE DEF r
<1>3. IsRequests(w) /\ w # <<>> /\ w[Len(w)] = r
  BY RequestsGrow DEF Rfid
<1> HIDE DEF w
<1>4. /\ Rfid(a) /\ a.hsm = s.hsm /\ a.readTimer = s.readTimer
      /\ a.readWriteTimer = s.readWriteTimer /\ a.timeoutTimer = s.timeoutTimer /\ a.lost
  BY DEF Rfid, RfidFields
<1>5. /\ Rfid(b) /\ b.hsm = s.hsm /\ b.readTimer = s.readTimer
      /\ b.readWriteTimer = s.readWriteTimer /\ b.timeoutTimer = s.timeoutTimer /\ b.waiting = w
  BY <1>3 DEF Rfid, RfidFields
<1> HIDE DEF a, b
<1> QED BY <1>1, <1>2, <1>3, <1>4, <1>5 DEF EndsInRead

\* Every state is entered with its timers.
LEMMA EntersArmed ==
    ASSUME NEW s, Rfid(s)
    PROVE  /\ RfidInv(EnterFreshFoodDoorOpen(s)) /\ RfidInv(EnterAllFreshFoodDoorsJustClosed(s))
           /\ RfidInv(EnterAllDoorsClosedRead(s)) /\ RfidInv(EnterAllDoorsClosedWrite(s))
           /\ RfidInv(EnterRfidDemoMode(s))
<1> DEFINE x == ExitRfidState(s)
           a == [x EXCEPT !.hsm = "DoorOpen", !.readTimer = TRUE]
           b == [x EXCEPT !.hsm = "JustClosed", !.readTimer = TRUE, !.timeoutTimer = TRUE]
           late == s.board.leak \/ s.result \in {"ReadFailure", "HardwareFailure"}
           c == [x EXCEPT !.hsm = "Read", !.readWriteTimer = TRUE, !.readTimer = late]
           z == [x EXCEPT !.hsm = "Write", !.timeoutTimer = TRUE]
           e == [x EXCEPT !.hsm = "Demo"]
<1>1. EnterFreshFoodDoorOpen(s) = SendRfidFilterDataRequest(a, "Read")
  BY DEF EnterFreshFoodDoorOpen
<1>2. EnterAllFreshFoodDoorsJustClosed(s) = SendRfidFilterDataRequest(b, "Read")
  BY DEF EnterAllFreshFoodDoorsJustClosed
<1>3. EnterAllDoorsClosedRead(s) = c
  BY DEF EnterAllDoorsClosedRead
<1>4. EnterAllDoorsClosedWrite(s) = SendRfidFilterDataRequest(z, "Write")
  BY DEF EnterAllDoorsClosedWrite
<1>5. EnterRfidDemoMode(s) = e
  BY DEF EnterRfidDemoMode
<1>6. Rfid(x) /\ ~x.readTimer /\ ~x.readWriteTimer /\ ~x.timeoutTimer
  BY ZenonT(120) DEF ExitRfidState, Rfid, RfidFields
<1> HIDE DEF x, late
<1>7. Rfid(a) /\ a.hsm = "DoorOpen" /\ a.readTimer
  BY <1>6 DEF Rfid, RfidFields
<1>8. Rfid(b) /\ b.hsm = "JustClosed" /\ b.readTimer /\ b.timeoutTimer
  BY <1>6, ZenonT(120) DEF Rfid, RfidFields
<1>9. Rfid(c) /\ c.hsm = "Read" /\ c.readWriteTimer
  BY <1>6, ZenonT(120) DEF Rfid, RfidFields
<1>10. Rfid(z) /\ z.hsm = "Write" /\ z.timeoutTimer
  BY <1>6 DEF Rfid, RfidFields
<1>11. Rfid(e) /\ e.hsm = "Demo" /\ ~e.readTimer /\ ~e.readWriteTimer /\ ~e.timeoutTimer
  BY <1>6 DEF Rfid, RfidFields
<1> HIDE DEF a, b, c, z, e
<1>12. RfidInv(SendRfidFilterDataRequest(a, "Read"))
  BY <1>7, SendFacts DEF RfidInv
<1>13. RfidInv(SendRfidFilterDataRequest(b, "Read"))
  BY <1>8, SendFacts DEF RfidInv
<1>14. RfidInv(SendRfidFilterDataRequest(z, "Write"))
  BY <1>10, SendFacts DEF RfidInv
<1>15. RfidInv(c) /\ RfidInv(e)
  BY <1>9, <1>11 DEF RfidInv
<1> QED BY <1>1, <1>2, <1>3, <1>4, <1>5, <1>12, <1>13, <1>14, <1>15

\* What arms the state still arms it after a handler that does not touch it.
LEMMA ArmsKeepsInv ==
    ASSUME NEW s, NEW t, RfidInv(s), Arms(s, t)
    PROVE  RfidInv(t)
BY DEF RfidInv, Arms

\* What holds when an answer has been taken from the queue: the read it may have
\* been is only armed by its own result.
Answered(s) ==
    /\ Rfid(s) /\ s.hsm \in {"DoorOpen", "JustClosed", "Read", "Write", "Demo"}
    /\ s.hsm # "Read" => RfidInv(s)
    /\ s.hsm = "Read" /\ s.result = "WriteFailure" => RfidInv(s)

LEMMA SuccessKeepsInv ==
    ASSUME NEW s, Rfid(s), s.hsm \in {"DoorOpen", "JustClosed", "Read", "Write", "Demo"},
           s.hsm # "Read" => RfidInv(s)
    PROVE  RfidInv(ReadWriteResultSuccessful(s))
<1> DEFINE t == TakeResult(s)
           r == [t EXCEPT !.readWriteTimer = TRUE]
<1>1. Arms(s, t) /\ Rfid(t)
  BY TakeResultArms DEF Arms
<1>2. ReadWriteResultSuccessful(s) =
        CASE s.hsm = "DoorOpen" -> t
          [] s.hsm = "JustClosed" /\ s.board.uid # s.uid -> EnterAllDoorsClosedRead(t)
          [] s.hsm = "JustClosed" /\ s.board.uid = s.uid -> t
          [] s.hsm = "Read" /\ s.readWriteTimer -> t
          [] s.hsm = "Read" /\ ~s.readWriteTimer /\ s.board.uid # BypassPlug -> EnterAllDoorsClosedWrite(t)
          [] s.hsm = "Read" /\ ~s.readWriteTimer /\ s.board.uid = BypassPlug -> r
          [] s.hsm = "Write" -> EnterAllDoorsClosedRead(s)
          [] s.hsm = "Demo" -> s
  BY DEF ReadWriteResultSuccessful
<1> HIDE DEF t
<1>3. RfidInv(EnterAllDoorsClosedRead(t)) /\ RfidInv(EnterAllDoorsClosedWrite(t)) /\ RfidInv(EnterAllDoorsClosedRead(s))
  BY <1>1, EntersArmed
<1>4. CASE s.hsm = "DoorOpen"
  <2>1. ReadWriteResultSuccessful(s) = t
    BY <1>2, <1>4
  <2> QED BY <1>1, <1>4, <2>1, ArmsKeepsInv
<1>5. CASE s.hsm = "JustClosed" /\ s.board.uid # s.uid
  <2>1. ReadWriteResultSuccessful(s) = EnterAllDoorsClosedRead(t)
    BY <1>2, <1>5
  <2> QED BY <1>3, <2>1
<1>6. CASE s.hsm = "JustClosed" /\ s.board.uid = s.uid
  <2>1. ReadWriteResultSuccessful(s) = t
    BY <1>2, <1>6
  <2> QED BY <1>1, <1>6, <2>1, ArmsKeepsInv
<1>7. CASE s.hsm = "Read" /\ s.readWriteTimer
  <2>1. ReadWriteResultSuccessful(s) = t
    BY <1>2, <1>7
  <2> QED BY <1>1, <1>7, <2>1 DEF RfidInv, Arms
<1>8. CASE s.hsm = "Read" /\ ~s.readWriteTimer /\ s.board.uid # BypassPlug
  <2>1. ReadWriteResultSuccessful(s) = EnterAllDoorsClosedWrite(t)
    BY <1>2, <1>8
  <2> QED BY <1>3, <2>1
<1>9. CASE s.hsm = "Read" /\ ~s.readWriteTimer /\ s.board.uid = BypassPlug
  <2>1. ReadWriteResultSuccessful(s) = r
    BY <1>2, <1>9
  <2>2. Rfid(r) /\ r.hsm = t.hsm /\ r.readWriteTimer
    BY <1>1 DEF Rfid, RfidFields
  <2> HIDE DEF r
  <2> QED BY <1>1, <1>9, <2>1, <2>2 DEF RfidInv, Arms
<1>10. CASE s.hsm = "Write"
  <2>1. ReadWriteResultSuccessful(s) = EnterAllDoorsClosedRead(s)
    BY <1>2, <1>10
  <2> QED BY <1>3, <2>1
<1>11. CASE s.hsm = "Demo"
  <2>1. ReadWriteResultSuccessful(s) = s
    BY <1>2, <1>11
  <2> QED BY <1>11, <2>1
<1> QED BY <1>4, <1>5, <1>6, <1>7, <1>8, <1>9, <1>10, <1>11

LEMMA ResultKeepsInv ==
    ASSUME NEW s, Answered(s), s.result \in {"Success", "ReadFailure", "WriteFailure", "HardwareFailure"}
    PROVE  RfidInv(ResultArrives(s))
<1>0. Rfid(s)
  BY DEF Answered
<1>1. ASSUME NEW t, Arms(s, t)
      PROVE  /\ Rfid(t) /\ t.hsm = s.hsm
             /\ t.hsm # "Read" => RfidInv(t)
             /\ t.hsm = "Read" => RfidInv([t EXCEPT !.readTimer = TRUE])
             /\ RfidInv(EnterAllDoorsClosedRead(t))
  <2>1. Rfid(t) /\ t.hsm = s.hsm
    BY <1>1 DEF Arms
  <2>2. t.hsm # "Read" => RfidInv(t)
    BY <1>1, <2>1, ArmsKeepsInv DEF Answered
  <2>3. RfidInv(EnterAllDoorsClosedRead(t))
    BY <2>1, EntersArmed
  <2> DEFINE u == [t EXCEPT !.readTimer = TRUE]
  <2>4. Rfid(u) /\ u.hsm = t.hsm /\ u.readTimer
    BY <2>1 DEF Rfid, RfidFields
  <2> HIDE DEF u
  <2>5. t.hsm = "Read" => RfidInv(u)
    BY <2>4 DEF RfidInv
  <2> QED BY <2>1, <2>2, <2>3, <2>5 DEF u
<1>2. CASE s.result = "Success"
  <2> DEFINE t == TakeFilterStatus(s)
  <2>1. ResultArrives(s) = ReadWriteResultSuccessful(t)
    BY <1>2 DEF ResultArrives
  <2>2. Arms(s, t)
    BY <1>0, TakeResultArms
  <2> HIDE DEF t
  <2>3. Rfid(t) /\ t.hsm = s.hsm /\ (t.hsm # "Read" => RfidInv(t))
    BY <1>1, <2>2
  <2> QED BY <2>1, <2>3, SuccessKeepsInv DEF Answered
<1>3. CASE s.result \in {"ReadFailure", "WriteFailure"}
  <2> DEFINE t == IF s.doorsClosed THEN RequestRfidFault(s, "tag", TRUE) ELSE s
  <2>1. Arms(s, t)
    BY <1>0, FaultArms, TakeResultArms
  <2>2. CASE s.result = "ReadFailure"
    <3>1. ResultArrives(s) = IF s.hsm = "Read" THEN [t EXCEPT !.readTimer = TRUE] ELSE t
      BY <2>2 DEF ResultArrives
    <3> HIDE DEF t
    <3> QED BY <1>1, <2>1, <3>1
  <2>3. CASE s.result = "WriteFailure"
    <3>1. ResultArrives(s) = IF s.hsm = "Write" THEN EnterAllDoorsClosedRead(t) ELSE t
      BY <2>3 DEF ResultArrives
    <3> HIDE DEF t
    <3>2. s.hsm = "Read" => RfidInv(t)
      BY <2>1, <2>3, ArmsKeepsInv DEF Answered
    <3> QED BY <1>1, <2>1, <3>1, <3>2
  <2> QED BY <1>3, <2>2, <2>3
<1>4. CASE s.result = "HardwareFailure"
  <2> DEFINE t == RequestRfidFault(s, "hardware", TRUE)
  <2>1. Arms(s, t)
    BY <1>0, FaultArms
  <2>2. ResultArrives(s) = IF s.hsm = "Read" THEN [t EXCEPT !.readTimer = TRUE] ELSE t
    BY <1>4 DEF ResultArrives
  <2> HIDE DEF t
  <2> QED BY <1>1, <2>1, <2>2
<1> QED BY <1>2, <1>3, <1>4

LEMMA RfidStarts ==
    ASSUME RfidInit
    PROVE  RfidInv(st)
<1>1. PICK closed \in BOOLEAN, demo \in BOOLEAN, f \in Filters :
        LET s == [hsm |-> "none", doorsClosed |-> closed, uid |-> f, usage |-> 0, units |-> 1,
                  board |-> [uid |-> f, usage |-> 0, units |-> 1, ours |-> TRUE, leak |-> FALSE, blocked |-> FALSE],
                  result |-> "Success", requests |-> [x \in RfidFaults |-> 0],
                  bypassPlugInstalled |-> f = BypassPlug, filter |-> f, 
                  tags |-> [x \in Filters |-> [usage |-> 0, units |-> IF x = f THEN 1 ELSE 0, ours |-> x = f]],
                  waiting |-> <<>>, lost |-> FALSE, overtaken |-> {},
                  readTimer |-> FALSE, readWriteTimer |-> FALSE, timeoutTimer |-> FALSE]
        IN  st = CASE demo -> EnterRfidDemoMode(s)
                   [] ~demo /\ closed -> EnterAllFreshFoodDoorsJustClosed(s)
                   [] ~demo /\ ~closed -> EnterFreshFoodDoorOpen(s)
  BY DEF RfidInit
<1> DEFINE board == [uid |-> f, usage |-> 0, units |-> 1, ours |-> TRUE, leak |-> FALSE, blocked |-> FALSE]
           requests == [x \in RfidFaults |-> 0]
           plug == f = BypassPlug
           tags == [x \in Filters |-> [usage |-> 0, units |-> IF x = f THEN 1 ELSE 0, ours |-> x = f]]
           s == [hsm |-> "none", doorsClosed |-> closed, uid |-> f, usage |-> 0, units |-> 1, board |-> board,
                 result |-> "Success", requests |-> requests, bypassPlugInstalled |-> plug, filter |-> f,
                 tags |-> tags, waiting |-> <<>>, lost |-> FALSE, overtaken |-> {},
                 readTimer |-> FALSE, readWriteTimer |-> FALSE, timeoutTimer |-> FALSE]
<1>2. st = CASE demo -> EnterRfidDemoMode(s)
             [] ~demo /\ closed -> EnterAllFreshFoodDoorsJustClosed(s)
             [] ~demo /\ ~closed -> EnterFreshFoodDoorOpen(s)
  BY <1>1
<1> HIDE DEF board, requests, plug, tags
<1>3. s = [x \in RfidFields |-> s[x]] /\ s.waiting = <<>>
  BY DEF RfidFields
<1> HIDE DEF s
<1>4. Rfid(s)
  <2>1. <<>> \in Seq({})
    OBVIOUS
  <2> QED BY <1>3, <2>1 DEF Rfid, IsRequests
<1>5. /\ RfidInv(EnterRfidDemoMode(s)) /\ RfidInv(EnterAllFreshFoodDoorsJustClosed(s))
      /\ RfidInv(EnterFreshFoodDoorOpen(s))
  BY <1>4, EntersArmed
<1> QED BY <1>2, <1>5

LEMMA RfidStep ==
    ASSUME RfidInv(st),
           \/ FreshFoodDoorsChange \/ RfidDemoModeIsEnabled \/ ReadRequestTimeEnds \/ RfidTimeoutEnds
           \/ FilterIsChanged \/ WaterIsUsed \/ RfidBoardAnswers \/ RequestIsLost
    PROVE  RfidInv(st')
<1>0. Rfid(st)
  BY DEF RfidInv
<1>1. CASE FreshFoodDoorsChange
  <2> DEFINE closed == ~st.doorsClosed
             s == [st EXCEPT !.doorsClosed = closed]
  <2>1. \/ st' = EnterAllFreshFoodDoorsJustClosed(s)
        \/ st' = EnterFreshFoodDoorOpen(s)
        \/ st' = s
    <3> DEFINE a == s.doorsClosed /\ s.hsm = "DoorOpen"
               b == ~s.doorsClosed /\ s.hsm \in {"JustClosed", "Read", "Write"}
    <3>1. st' = CASE a -> EnterAllFreshFoodDoorsJustClosed(s) [] b -> EnterFreshFoodDoorOpen(s) [] OTHER -> s
      BY <1>1 DEF FreshFoodDoorsChange
    <3>2. ~(a /\ b)
      OBVIOUS
    <3> HIDE DEF a, b, s
    <3> QED BY <3>1, <3>2
  <2> HIDE DEF closed
  <2>2. Arms(st, s)
    BY <1>0 DEF Rfid, Arms, RfidFields
  <2> HIDE DEF s
  <2>3. Rfid(s) /\ RfidInv(s)
    BY <2>2, ArmsKeepsInv DEF Arms
  <2> QED BY <2>1, <2>3, EntersArmed
<1>2. CASE RfidDemoModeIsEnabled
  BY <1>0, <1>2, EntersArmed DEF RfidDemoModeIsEnabled
<1>3. CASE ReadRequestTimeEnds
  <2>1. CASE st.readTimer /\ st' = SendRfidFilterDataRequest(st, "Read")
    <3> DEFINE t == SendRfidFilterDataRequest(st, "Read")
    <3>1. /\ Rfid(t) /\ t.hsm = st.hsm /\ t.readTimer = st.readTimer
          /\ t.readWriteTimer = st.readWriteTimer /\ t.timeoutTimer = st.timeoutTimer
      BY <1>0, SendFacts
    <3>2. st' = t
      BY <2>1
    <3> HIDE DEF t
    <3> QED BY <2>1, <3>1, <3>2 DEF RfidInv
  <2>2. CASE /\ st.readWriteTimer
             /\ st' = SendRfidFilterDataRequest([st EXCEPT !.readWriteTimer = FALSE, !.lost = FALSE], "Read")
    <3> DEFINE s == [st EXCEPT !.readWriteTimer = FALSE, !.lost = FALSE]
               t == SendRfidFilterDataRequest(s, "Read")
    <3>1. Rfid(s) /\ s.hsm = st.hsm /\ s.readTimer = st.readTimer /\ s.timeoutTimer = st.timeoutTimer
      BY <1>0 DEF Rfid, RfidFields
    <3>2. st' = t
      BY <2>2
    <3> HIDE DEF s
    <3>3. /\ Rfid(t) /\ t.hsm = s.hsm /\ t.readTimer = s.readTimer /\ t.timeoutTimer = s.timeoutTimer
          /\ t.lost \/ EndsInRead(t.waiting)
      BY <3>1, SendFacts
    <3> HIDE DEF t
    <3> QED BY <2>2, <3>1, <3>2, <3>3 DEF RfidInv
  <2> QED BY <1>3, <2>1, <2>2 DEF ReadRequestTimeEnds
<1>4. CASE RfidTimeoutEnds
  <2> DEFINE s == [st EXCEPT !.timeoutTimer = FALSE]
  <2>1. st' = EnterAllDoorsClosedRead(s)
    BY <1>4 DEF RfidTimeoutEnds
  <2>2. Rfid(s)
    BY <1>0 DEF Rfid, RfidFields
  <2> HIDE DEF s
  <2> QED BY <2>1, <2>2, EntersArmed
<1>5. CASE FilterIsChanged
  <2>1. PICK f \in Filters : st' = [st EXCEPT !.filter = f]
    BY <1>5 DEF FilterIsChanged
  <2>2. Arms(st, st')
    BY <1>0, <2>1 DEF Rfid, Arms, RfidFields
  <2> QED BY <2>2, ArmsKeepsInv
<1>6. CASE WaterIsUsed
  <2> DEFINE n == st.usage + 1
  <2>1. st' = [st EXCEPT !.usage = n]
    BY <1>6 DEF WaterIsUsed
  <2> HIDE DEF n
  <2>2. Arms(st, st')
    BY <1>0, <2>1 DEF Rfid, Arms, RfidFields
  <2> QED BY <2>2, ArmsKeepsInv
<1>7. CASE RfidBoardAnswers
  <2>1. PICK result \in {"Success", "ReadFailure", "WriteFailure", "HardwareFailure"}, leak \in BOOLEAN :
          /\ result = "WriteFailure" => Head(st.waiting).request = "Write"
          /\ LET answered == Answer(st, result, leak) IN st' = WithTakeover(answered, ResultArrives(answered))
    BY <1>7 DEF RfidBoardAnswers
  <2> DEFINE r == Head(st.waiting)
             written == r.request = "Write" /\ result = "Success"
             tags == IF written THEN [st.tags EXCEPT ![st.filter] = [usage |-> r.usage, units |-> r.units, ours |-> TRUE]] ELSE st.tags
             board == IF result = "Success"
                      THEN [uid |-> st.filter, leak |-> leak, blocked |-> FALSE, usage |-> tags[st.filter].usage,
                            units |-> tags[st.filter].units, ours |-> tags[st.filter].ours]
                      ELSE st.board
             w == Tail(st.waiting)
             s == [st EXCEPT !.waiting = w, !.result = result, !.tags = tags, !.board = board]
  <2>2. Answer(st, result, leak) = s
    <3>1. Answer(st, result, leak) =
            [st EXCEPT !.waiting = Tail(@), !.result = result, !.tags = tags,
                       !.board = IF result = "Success"
                                 THEN [uid |-> st.filter, leak |-> leak, blocked |-> FALSE,
                                       usage |-> tags[st.filter].usage, units |-> tags[st.filter].units,
                                       ours |-> tags[st.filter].ours]
                                 ELSE @]
      BY DEF Answer
    <3> QED BY <3>1
  <2>3. st.waiting # <<>> /\ IsRequests(st.waiting)
    BY <1>0, <1>7 DEF RfidBoardAnswers, Rfid
  <2>4. IsRequests(w) /\ (EndsInRead(st.waiting) => EndsInRead(w) \/ r.request = "Read")
    BY <2>3, RequestsShrink
  <2> HIDE DEF r, written, tags, board, w
  <2>5. /\ Rfid(s) /\ s.result = result /\ s.waiting = w /\ s.lost = st.lost
        /\ s.hsm = st.hsm /\ s.readTimer = st.readTimer /\ s.readWriteTimer = st.readWriteTimer
        /\ s.timeoutTimer = st.timeoutTimer
    BY <1>0, <2>4, ZenonT(120) DEF Rfid, RfidFields
  <2> HIDE DEF s
  <2>6. s.hsm # "Read" => RfidInv(s)
    BY <2>5 DEF RfidInv
  <2>7. s.hsm = "Read" /\ s.result = "WriteFailure" => RfidInv(s)
    BY <2>1, <2>4, <2>5 DEF RfidInv, r
  <2>8. Answered(s)
    BY <2>5, <2>6, <2>7 DEF Answered, RfidInv
  <2>9. RfidInv(ResultArrives(s))
    BY <2>1, <2>5, <2>8, ResultKeepsInv
  <2> DEFINE t == ResultArrives(s)
             over == IF t.uid = s.uid THEN t.overtaken
                     ELSE IF IsWritten(s, t.uid) THEN t.overtaken \cup {t.uid} ELSE t.overtaken \ {t.uid}
  <2>10. st' = [t EXCEPT !.overtaken = over]
    BY <2>1, <2>2 DEF WithTakeover
  <2>11. RfidInv(t)
    BY <2>9
  <2> HIDE DEF t, over
  <2>12. Arms(t, st')
    BY <2>10, <2>11 DEF RfidInv, Rfid, Arms, RfidFields
  <2> QED BY <2>11, <2>12, ArmsKeepsInv
<1>8. CASE RequestIsLost
  <2> DEFINE w == Tail(st.waiting)
             s == [st EXCEPT !.waiting = w, !.lost = TRUE]
  <2>1. st' = s /\ st.waiting # <<>>
    BY <1>8 DEF RequestIsLost
  <2>2. IsRequests(w)
    BY <1>0, <2>1, RequestsShrink DEF Rfid
  <2> HIDE DEF w
  <2>3. /\ Rfid(s) /\ s.lost
        /\ s.hsm = st.hsm /\ s.readTimer = st.readTimer /\ s.readWriteTimer = st.readWriteTimer
        /\ s.timeoutTimer = st.timeoutTimer
    BY <1>0, <2>2 DEF Rfid, RfidFields
  <2> HIDE DEF s
  <2> QED BY <2>1, <2>3 DEF RfidInv
<1> QED BY <1>1, <1>2, <1>3, <1>4, <1>5, <1>6, <1>7, <1>8

-----------------------------------------------------------------------------
(* What the tags have counted.                                             *)

Tags == {t \in [usage : Nat, units : {0, 1}, ours : BOOLEAN] : t.units = IF t.ours THEN 1 ELSE 0}

Requests == [request : {"Read", "Write"}, uid : Filters, usage : Nat, units : {1}]

Writes(r, f) == r.request = "Write" /\ r.uid = f

\* Of a filter that was not overtaken, the writes under way follow each other
\* in the order of their usage, between what the tag and the unit have counted.
Ordered(w, tags, over, uid, usage) ==
    \A f \in Filters : f \notin over =>
        /\ \A i \in 1..Len(w) : Writes(w[i], f) => w[i].usage >= tags[f].usage /\ (f = uid => w[i].usage <= usage)
        /\ \A i, j \in 1..Len(w) : i < j /\ Writes(w[i], f) /\ Writes(w[j], f) => w[i].usage <= w[j].usage
        /\ f = uid => usage >= tags[f].usage

LEMMA RequestsFit ==
    ASSUME NEW w \in Seq(Requests)
    PROVE  \A i \in 1..Len(w) : w[i] \in Requests /\ w[i].usage \in Nat
<1>1. \A i \in 1..Len(w) : w[i] \in Requests
  BY ElementOfSeq
<1>2. \A r \in Requests : r.usage \in Nat
  BY DEF Requests
<1> QED BY <1>1, <1>2

LEMMA SendsInOrder ==
    ASSUME NEW w \in Seq(Requests), NEW tags \in [Filters -> Tags], NEW over, NEW uid \in Filters, NEW usage \in Nat,
           Ordered(w, tags, over, uid, usage), NEW q \in {"Read", "Write"}
    PROVE  LET v == Append(w, [request |-> q, uid |-> uid, usage |-> usage, units |-> 1])
           IN  v \in Seq(Requests) /\ Ordered(v, tags, over, uid, usage)
<1> DEFINE r == [request |-> q, uid |-> uid, usage |-> usage, units |-> 1]
           v == Append(w, r)
<1>1. r \in Requests /\ r.uid = uid /\ r.usage = usage
  BY DEF Requests
<1> HIDE DEF r
<1>2. /\ v \in Seq(Requests) /\ Len(v) = Len(w) + 1 /\ Len(w) \in Nat
      /\ v[Len(w) + 1] = r /\ \A i \in 1..Len(w) : v[i] = w[i]
  BY <1>1
<1> HIDE DEF v
<1>3. \A i \in 1..Len(w) : w[i].usage \in Nat
  BY RequestsFit
<1>4. \A f \in Filters : tags[f].usage \in Nat
  BY DEF Tags
<1>5. ASSUME NEW f \in Filters, f \notin over
      PROVE  /\ \A i \in 1..Len(v) : Writes(v[i], f) => v[i].usage >= tags[f].usage /\ (f = uid => v[i].usage <= usage)
             /\ \A i, j \in 1..Len(v) : i < j /\ Writes(v[i], f) /\ Writes(v[j], f) => v[i].usage <= v[j].usage
             /\ f = uid => usage >= tags[f].usage
  <2>1. /\ \A i \in 1..Len(w) : Writes(w[i], f) => w[i].usage >= tags[f].usage /\ (f = uid => w[i].usage <= usage)
        /\ \A i, j \in 1..Len(w) : i < j /\ Writes(w[i], f) /\ Writes(w[j], f) => w[i].usage <= w[j].usage
        /\ f = uid => usage >= tags[f].usage
    BY <1>5 DEF Ordered
  <2>2. Writes(r, f) => f = uid
    BY <1>1 DEF Writes
  <2>3. \A i \in 1..Len(v) : i \in 1..Len(w) \/ i = Len(w) + 1
    BY <1>2
  <2>4. \A i \in 1..Len(v) : Writes(v[i], f) => v[i].usage >= tags[f].usage /\ (f = uid => v[i].usage <= usage)
    BY <1>1, <1>2, <1>4, <2>1, <2>2, <2>3
  <2>5. ASSUME NEW i \in 1..Len(v), NEW j \in 1..Len(v), i < j, Writes(v[i], f), Writes(v[j], f)
        PROVE  v[i].usage <= v[j].usage
    <3>1. i \in 1..Len(w)
      BY <1>2, <2>3, <2>5
    <3>2. CASE j \in 1..Len(w)
      BY <1>2, <2>1, <2>5, <3>1, <3>2
    <3>3. CASE j = Len(w) + 1
      <4>1. v[j] = r /\ v[i] = w[i]
        BY <1>2, <3>1, <3>3
      <4>2. f = uid
        BY <2>2, <2>5, <4>1
      <4> QED BY <1>1, <2>1, <2>5, <3>1, <4>1, <4>2
    <3> QED BY <2>3, <3>2, <3>3
  <2> QED BY <2>1, <2>4, <2>5
<1>6. Ordered(v, tags, over, uid, usage)
  BY <1>5 DEF Ordered
<1> QED BY <1>2, <1>6 DEF v, r

LEMMA TailOfRequests ==
    ASSUME NEW w \in Seq(Requests), w # <<>>
    PROVE  /\ Tail(w) \in Seq(Requests) /\ Len(Tail(w)) = Len(w) - 1 /\ Len(w) \in Nat \ {0}
           /\ \A i \in 1..Len(w) - 1 : Tail(w)[i] = w[i + 1]
           /\ Head(w) = w[1] /\ Head(w) \in Requests
<1>1. Len(w) \in Nat \ {0}
  BY EmptySeq
<1>2. Head(w) = w[1] /\ Head(w) \in Requests
  BY <1>1
<1> QED BY <1>1, <1>2, HeadTailProperties

\* The first request leaves the queue, and may have been written.
LEMMA AnswersInOrder ==
    ASSUME NEW w \in Seq(Requests), w # <<>>, NEW tags \in [Filters -> Tags], NEW over, NEW uid \in Filters,
           NEW usage \in Nat, Ordered(w, tags, over, uid, usage), NEW t \in [Filters -> Tags],
           \A f \in Filters : t[f] = tags[f] \/ (Writes(Head(w), f) /\ t[f].usage = Head(w).usage)
    PROVE  /\ Ordered(Tail(w), t, over, uid, usage)
           /\ \A f \in Filters : f \notin over => t[f].usage >= tags[f].usage
<1> DEFINE v == Tail(w)
<1>1. /\ v \in Seq(Requests) /\ Len(v) = Len(w) - 1 /\ Len(w) \in Nat \ {0}
      /\ \A i \in 1..Len(v) : v[i] = w[i + 1]
      /\ Head(w) = w[1]
  BY TailOfRequests
<1> HIDE DEF v
<1>2. \A i \in 1..Len(v) : i + 1 \in 1..Len(w) /\ 1 < i + 1
  BY <1>1
<1>3. \A f \in Filters : tags[f].usage \in Nat
  BY DEF Tags
<1>4. 1 \in 1..Len(w)
  BY <1>1
<1>5. ASSUME NEW f \in Filters, f \notin over
      PROVE  /\ \A i \in 1..Len(v) : Writes(v[i], f) => v[i].usage >= t[f].usage /\ (f = uid => v[i].usage <= usage)
             /\ \A i, j \in 1..Len(v) : i < j /\ Writes(v[i], f) /\ Writes(v[j], f) => v[i].usage <= v[j].usage
             /\ f = uid => usage >= t[f].usage
             /\ t[f].usage >= tags[f].usage
  <2>1. /\ \A i \in 1..Len(w) : Writes(w[i], f) => w[i].usage >= tags[f].usage /\ (f = uid => w[i].usage <= usage)
        /\ \A i, j \in 1..Len(w) : i < j /\ Writes(w[i], f) /\ Writes(w[j], f) => w[i].usage <= w[j].usage
        /\ f = uid => usage >= tags[f].usage
    BY <1>5 DEF Ordered
  <2>2. \A i, j \in 1..Len(v) : i < j /\ Writes(v[i], f) /\ Writes(v[j], f) => v[i].usage <= v[j].usage
    <3> SUFFICES ASSUME NEW i \in 1..Len(v), NEW j \in 1..Len(v), i < j, Writes(v[i], f), Writes(v[j], f)
                 PROVE  v[i].usage <= v[j].usage
      OBVIOUS
    <3>1. i + 1 < j + 1 /\ v[i] = w[i + 1] /\ v[j] = w[j + 1] /\ i + 1 \in 1..Len(w) /\ j + 1 \in 1..Len(w)
      BY <1>1, <1>2
    <3> QED BY <2>1, <3>1
  <2>3. \A i \in 1..Len(v) : Writes(v[i], f) => v[i].usage >= tags[f].usage /\ (f = uid => v[i].usage <= usage)
    BY <1>1, <1>2, <2>1
  <2>4. CASE t[f] = tags[f]
    BY <1>3, <2>1, <2>2, <2>3, <2>4
  <2>5. CASE Writes(w[1], f) /\ t[f].usage = w[1].usage
    <3>1. t[f].usage >= tags[f].usage /\ (f = uid => usage >= t[f].usage)
      <4>1. w[1].usage >= tags[f].usage /\ (f = uid => w[1].usage <= usage)
        BY <1>4, <2>1, <2>5
      <4>2. t[f].usage \in Nat
        BY DEF Tags
      <4> QED BY <2>5, <4>1, <4>2
    <3>2. ASSUME NEW i \in 1..Len(v), Writes(v[i], f)
          PROVE  v[i].usage >= t[f].usage
      <4>1. v[i] = w[i + 1] /\ i + 1 \in 1..Len(w) /\ 1 < i + 1
        BY <1>1, <1>2
      <4>2. w[1].usage <= w[i + 1].usage
        BY <1>4, <2>1, <2>5, <3>2, <4>1
      <4>3. t[f].usage \in Nat /\ w[i + 1].usage \in Nat
        BY <4>1, RequestsFit DEF Tags
      <4> QED BY <2>5, <4>1, <4>2, <4>3
    <3> QED BY <2>2, <2>3, <3>1, <3>2
  <2> QED BY <1>1, <2>4, <2>5
<1>6. Ordered(v, t, over, uid, usage) /\ \A f \in Filters : f \notin over => t[f].usage >= tags[f].usage
  BY <1>5 DEF Ordered
<1> QED BY <1>6 DEF v

LEMMA UsesInOrder ==
    ASSUME NEW w \in Seq(Requests), NEW tags \in [Filters -> Tags], NEW over, NEW uid \in Filters, NEW usage \in Nat,
           Ordered(w, tags, over, uid, usage)
    PROVE  Ordered(w, tags, over, uid, usage + 1)
<1>1. \A i \in 1..Len(w) : w[i].usage \in Nat
  BY RequestsFit
<1>2. \A f \in Filters : tags[f].usage \in Nat
  BY DEF Tags
<1>3. ASSUME NEW f \in Filters, f \notin over
      PROVE  /\ \A i \in 1..Len(w) : Writes(w[i], f) => w[i].usage >= tags[f].usage /\ (f = uid => w[i].usage <= usage + 1)
             /\ \A i, j \in 1..Len(w) : i < j /\ Writes(w[i], f) /\ Writes(w[j], f) => w[i].usage <= w[j].usage
             /\ f = uid => usage + 1 >= tags[f].usage
  <2>1. /\ \A i \in 1..Len(w) : Writes(w[i], f) => w[i].usage >= tags[f].usage /\ (f = uid => w[i].usage <= usage)
        /\ \A i, j \in 1..Len(w) : i < j /\ Writes(w[i], f) /\ Writes(w[j], f) => w[i].usage <= w[j].usage
        /\ f = uid => usage >= tags[f].usage
    BY <1>3 DEF Ordered
  <2> QED BY <1>1, <1>2, <2>1
<1> QED BY <1>3 DEF Ordered

LEMMA TakesOverInOrder ==
    ASSUME NEW w \in Seq(Requests), NEW tags \in [Filters -> Tags], NEW over, NEW uid \in Filters, NEW usage \in Nat,
           Ordered(w, tags, over, uid, usage), NEW u \in Filters, NEW now,
           now = IF \E i \in DOMAIN w : Writes(w[i], u) THEN over \cup {u} ELSE over \ {u}
    PROVE  Ordered(w, tags, now, u, tags[u].usage)
<1>1. ASSUME NEW f \in Filters, f \notin now
      PROVE  /\ \A i \in 1..Len(w) :
                    Writes(w[i], f) => w[i].usage >= tags[f].usage /\ (f = u => w[i].usage <= tags[u].usage)
             /\ \A i, j \in 1..Len(w) : i < j /\ Writes(w[i], f) /\ Writes(w[j], f) => w[i].usage <= w[j].usage
             /\ f = u => tags[u].usage >= tags[f].usage
  <2>1. CASE f = u
    <3>1. \A i \in 1..Len(w) : ~Writes(w[i], f)
      <4>1. ~\E i \in DOMAIN w : Writes(w[i], u)
        BY <1>1, <2>1
      <4>2. DOMAIN w = 1..Len(w)
        OBVIOUS
      <4> QED BY <2>1, <4>1, <4>2
    <3>2. tags[u].usage \in Nat
      BY DEF Tags
    <3> QED BY <2>1, <3>1, <3>2
  <2>2. CASE f # u
    <3>1. f \notin over
      BY <1>1, <2>2
    <3> QED BY <2>2, <3>1 DEF Ordered
  <2> QED BY <2>1, <2>2
<1> QED BY <1>1 DEF Ordered

Counts(s) == s.requests = [x \in RfidFaults |-> s.requests[x]]

SameTags(s, t) ==
    /\ t.board = s.board /\ t.filter = s.filter /\ t.tags = s.tags /\ t.overtaken = s.overtaken /\ t.result = s.result

SameFilter(s, t) ==
    /\ t.uid = s.uid /\ t.usage = s.usage /\ t.units = s.units /\ t.bypassPlugInstalled = s.bypassPlugInstalled

SameState(s, t) == t.hsm = s.hsm /\ t.waiting = s.waiting

LEMMA FaultData ==
    ASSUME NEW s, Rfid(s), Counts(s), NEW fault \in RfidFaults, NEW status \in BOOLEAN
    PROVE  LET t == RequestRfidFault(s, fault, status) IN
           /\ Rfid(t) /\ Counts(t) /\ SameTags(s, t) /\ SameFilter(s, t) /\ SameState(s, t)
           /\ fault # "leak" => t.requests["leak"] = s.requests["leak"]
           /\ fault = "leak" /\ ~status => t.requests["leak"] = 0
<1> DEFINE n == IF status THEN Smaller(s.requests[fault] + 1, MinimumRequests[fault]) ELSE 0
           c == [s.requests EXCEPT ![fault] = n]
           t == [s EXCEPT !.requests = c]
<1>1. RequestRfidFault(s, fault, status) = t
  BY DEF RequestRfidFault
<1>2. ~status => n = 0
  OBVIOUS
<1> HIDE DEF n
<1>3. /\ c = [x \in RfidFaults |-> c[x]]
      /\ fault # "leak" => c["leak"] = s.requests["leak"]
      /\ fault = "leak" => c["leak"] = n
  BY DEF Counts, RfidFaults
<1> HIDE DEF c
<1>4. t.requests = c
  BY DEF Rfid, RfidFields
<1>5. Rfid(t) /\ SameTags(s, t) /\ SameFilter(s, t) /\ SameState(s, t)
  BY ZenonT(120) DEF Rfid, RfidFields, SameTags, SameFilter, SameState
<1> HIDE DEF t
<1>6. Counts(t)
  BY <1>3, <1>4 DEF Counts
<1> QED BY <1>1, <1>2, <1>3, <1>4, <1>5, <1>6

LEMMA DataIsTransitive ==
    ASSUME NEW s, NEW t, NEW u
    PROVE  /\ SameTags(s, t) /\ SameTags(t, u) => SameTags(s, u)
           /\ SameFilter(s, t) /\ SameFilter(t, u) => SameFilter(s, u)
           /\ SameState(s, t) /\ SameState(t, u) => SameState(s, u)
BY DEF SameTags, SameFilter, SameState

\* The data of another filter is taken over, and this appliance counted on it.
LEMMA NewFilterData ==
    ASSUME NEW s, Rfid(s), Counts(s), s.board.units = IF s.board.ours THEN 1 ELSE 0, s.board.ours \in BOOLEAN
    PROVE  LET t == NewFilterInstalledHandler(s) IN
           /\ Rfid(t) /\ Counts(t) /\ SameTags(s, t) /\ SameState(s, t)
           /\ t.uid = s.board.uid /\ t.usage = s.board.usage /\ t.units = 1
           /\ t.bypassPlugInstalled <=> s.board.uid = BypassPlug
           /\ s.board.uid = BypassPlug => t.requests["leak"] = 0
<1> DEFINE isPlug == s.board.uid = BypassPlug
           a == UpdateUnitWithNewFilterData(s)
           b == SetBypassPlugInstalledTo(a, isPlug)
           c == ClearRfidLeakAndBlockedTagFaults(b)
           z == IF isPlug THEN c ELSE b
           e == IncrementNumberOfUnitsFilterHasBeenOn(z)
<1>1. NewFilterInstalledHandler(s) = IF s.board.ours THEN z ELSE e
  BY DEF NewFilterInstalledHandler
<1>2. /\ Rfid(a) /\ a.requests = s.requests /\ SameTags(s, a) /\ SameState(s, a)
      /\ a.uid = s.board.uid /\ a.usage = s.board.usage /\ a.units = s.board.units
  BY ZenonT(120) DEF Rfid, RfidFields, UpdateUnitWithNewFilterData, SameTags, SameState
<1>a. isPlug <=> s.board.uid = BypassPlug
  OBVIOUS
<1> HIDE DEF a, isPlug
<1>3. /\ Rfid(b) /\ b.requests = a.requests /\ SameTags(a, b) /\ SameState(a, b)
      /\ b.uid = a.uid /\ b.usage = a.usage /\ b.units = a.units /\ b.bypassPlugInstalled = isPlug
  BY <1>2, ZenonT(120) DEF Rfid, RfidFields, SetBypassPlugInstalledTo, SameTags, SameState
<1> HIDE DEF b
<1>4. Counts(b) /\ SameTags(s, b) /\ SameState(s, b)
  BY <1>2, <1>3, DataIsTransitive DEF Counts
<1>5. /\ Rfid(c) /\ Counts(c) /\ SameTags(b, c) /\ SameFilter(b, c) /\ SameState(b, c)
      /\ c.requests["leak"] = 0
  <2> DEFINE u == RequestRfidFault(b, "leak", FALSE)
             v == RequestRfidFault(u, "blocked", FALSE)
  <2>1. "leak" \in RfidFaults /\ "blocked" \in RfidFaults /\ "blocked" # "leak" /\ FALSE \in BOOLEAN
    BY DEF RfidFaults
  <2>2. c = v
    BY DEF ClearRfidLeakAndBlockedTagFaults
  <2>3. /\ Rfid(u) /\ Counts(u) /\ SameTags(b, u) /\ SameFilter(b, u) /\ SameState(b, u)
        /\ u.requests["leak"] = 0
    BY <1>3, <1>4, <2>1, FaultData
  <2> HIDE DEF u, c
  <2>4. /\ Rfid(v) /\ Counts(v) /\ SameTags(u, v) /\ SameFilter(u, v) /\ SameState(u, v)
        /\ v.requests["leak"] = u.requests["leak"]
    BY <2>1, <2>3, FaultData
  <2> HIDE DEF v
  <2> QED BY <2>2, <2>3, <2>4, DataIsTransitive
<1> HIDE DEF c
<1>6. /\ Rfid(z) /\ Counts(z) /\ SameTags(s, z) /\ SameState(s, z)
      /\ z.uid = s.board.uid /\ z.usage = s.board.usage /\ z.units = s.board.units
      /\ z.bypassPlugInstalled = isPlug /\ (isPlug => z.requests["leak"] = 0)
  <2>1. CASE isPlug
    <3>1. z = c
      BY <2>1
    <3> HIDE DEF z
    <3>2. SameTags(s, c) /\ SameState(s, c)
      BY <1>4, <1>5, DataIsTransitive
    <3> QED BY <1>2, <1>3, <1>5, <2>1, <3>1, <3>2 DEF SameFilter
  <2>2. CASE ~isPlug
    <3>1. z = b
      BY <2>2
    <3> HIDE DEF z
    <3> QED BY <1>2, <1>3, <1>4, <2>2, <3>1
  <2> QED BY <2>1, <2>2
<1> HIDE DEF z
<1>7. /\ Rfid(e) /\ e.requests = z.requests /\ SameTags(z, e) /\ SameState(z, e)
      /\ e.uid = z.uid /\ e.usage = z.usage /\ e.units = Smaller(z.units + 1, UsageCap + 1)
      /\ e.bypassPlugInstalled = z.bypassPlugInstalled
  <2> DEFINE n == Smaller(z.units + 1, UsageCap + 1)
  <2>1. e = [z EXCEPT !.units = n]
    BY DEF IncrementNumberOfUnitsFilterHasBeenOn
  <2> HIDE DEF n, e
  <2>2. /\ Rfid(e) /\ e.requests = z.requests /\ SameTags(z, e) /\ SameState(z, e)
        /\ e.uid = z.uid /\ e.usage = z.usage /\ e.units = n
        /\ e.bypassPlugInstalled = z.bypassPlugInstalled
    BY <1>6, <2>1, ZenonT(120) DEF Rfid, RfidFields, SameTags, SameState
  <2> QED BY <2>2 DEF n
<1> HIDE DEF e
<1>8. /\ Counts(e) /\ SameTags(s, e) /\ SameState(s, e)
  BY <1>6, <1>7, DataIsTransitive DEF Counts
<1>9. Smaller(0 + 1, UsageCap + 1) = 1
  BY WaterFilterAssumption DEF Smaller
<1>10. CASE s.board.ours
  BY <1>1, <1>6, <1>10, <1>a
<1>11. CASE ~s.board.ours
  <2>1. e.units = 1
    BY <1>6, <1>7, <1>9, <1>11
  <2> QED BY <1>1, <1>6, <1>7, <1>8, <1>11, <2>1, <1>a
<1> QED BY <1>10, <1>11

\* The same filter, or another one as the board has reported it.
Takes(s, t) ==
    IF s.board.uid = s.uid THEN SameFilter(s, t) /\ t.requests["leak"] = s.requests["leak"]
    ELSE /\ t.uid = s.board.uid /\ t.usage = s.board.usage /\ t.units = 1
         /\ t.bypassPlugInstalled <=> s.board.uid = BypassPlug
         /\ s.board.uid = BypassPlug => t.requests["leak"] = 0

LEMMA TakeResultData ==
    ASSUME NEW s, Rfid(s), Counts(s), s.board.units = IF s.board.ours THEN 1 ELSE 0, s.board.ours \in BOOLEAN
    PROVE  LET t == TakeResult(s) IN
           Rfid(t) /\ Counts(t) /\ SameTags(s, t) /\ SameState(s, t) /\ Takes(s, t)
<1> DEFINE u == RequestRfidFault(s, "tag", FALSE)
           v == RequestRfidFault(u, "hardware", FALSE)
           t == NewFilterInstalledHandler(v)
<1>1. "tag" \in RfidFaults \ {"leak"} /\ "hardware" \in RfidFaults \ {"leak"} /\ FALSE \in BOOLEAN
  BY DEF RfidFaults
<1>2. /\ Rfid(u) /\ Counts(u) /\ SameTags(s, u) /\ SameFilter(s, u) /\ SameState(s, u)
      /\ u.requests["leak"] = s.requests["leak"]
  BY <1>1, FaultData
<1>3. TakeResult(s) = IF s.board.uid # s.uid THEN NewFilterInstalledHandler(v) ELSE v
  <2>1. ClearRfidFilterTagAuthenticationFailedAndHardwareFailureFaults(s) = v
    BY DEF ClearRfidFilterTagAuthenticationFailedAndHardwareFailureFaults
  <2> HIDE DEF v
  <2> QED BY <2>1 DEF TakeResult
<1> HIDE DEF u
<1>4. /\ Rfid(v) /\ Counts(v) /\ SameTags(u, v) /\ SameFilter(u, v) /\ SameState(u, v)
      /\ v.requests["leak"] = u.requests["leak"]
  BY <1>1, <1>2, FaultData
<1> HIDE DEF v
<1>5. SameTags(s, v) /\ SameFilter(s, v) /\ SameState(s, v)
  BY <1>2, <1>4, DataIsTransitive
<1>6. v.uid = s.uid /\ v.board = s.board
  BY <1>5 DEF SameFilter, SameTags
<1>7. CASE s.board.uid = s.uid
  BY <1>2, <1>3, <1>4, <1>5, <1>6, <1>7 DEF Takes
<1>8. CASE s.board.uid # s.uid
  <2>1. TakeResult(s) = t
    BY <1>3, <1>6, <1>8
  <2>2. /\ Rfid(t) /\ Counts(t) /\ SameTags(v, t) /\ SameState(v, t)
        /\ t.uid = s.board.uid /\ t.usage = s.board.usage /\ t.units = 1
        /\ t.bypassPlugInstalled <=> s.board.uid = BypassPlug
        /\ s.board.uid = BypassPlug => t.requests["leak"] = 0
    BY <1>4, <1>6, NewFilterData
  <2> HIDE DEF t
  <2>3. SameTags(s, t) /\ SameState(s, t)
    BY <1>5, <2>2, DataIsTransitive
  <2> QED BY <1>8, <2>1, <2>2, <2>3 DEF Takes
<1> QED BY <1>7, <1>8

\* A state that is entered keeps the data and may send a request with it.
Enters(s, t, state) ==
    /\ Rfid(t) /\ t.hsm = state /\ t.requests = s.requests /\ SameTags(s, t) /\ SameFilter(s, t)
    /\ \/ t.waiting = s.waiting
       \/ \E q \in {"Read", "Write"} :
             t.waiting = Append(s.waiting, [request |-> q, uid |-> s.uid, usage |-> s.usage, units |-> s.units])

LEMMA SendData ==
    ASSUME NEW s, Rfid(s), NEW q \in {"Read", "Write"}
    PROVE  Enters(s, SendRfidFilterDataRequest(s, q), s.hsm)
<1> DEFINE r == [request |-> q, uid |-> s.uid, usage |-> s.usage, units |-> s.units]
           w == Append(s.waiting, r)
           a == [s EXCEPT !.lost = TRUE]
           b == [s EXCEPT !.waiting = w]
<1>1. SendRfidFilterDataRequest(s, q) = IF Len(s.waiting) = RequestCap THEN a ELSE b
  BY DEF SendRfidFilterDataRequest
<1>2. \E p \in {"Read", "Write"} :
        w = Append(s.waiting, [request |-> p, uid |-> s.uid, usage |-> s.usage, units |-> s.units])
  OBVIOUS
<1> HIDE DEF r
<1>3. IsRequests(w)
  BY RequestsGrow DEF Rfid
<1> HIDE DEF w
<1>4. Rfid(a) /\ a.hsm = s.hsm /\ a.requests = s.requests /\ SameTags(s, a) /\ SameFilter(s, a) /\ a.waiting = s.waiting
  BY ZenonT(120) DEF Rfid, RfidFields, SameTags, SameFilter
<1>5. Rfid(b) /\ b.hsm = s.hsm /\ b.requests = s.requests /\ SameTags(s, b) /\ SameFilter(s, b) /\ b.waiting = w
  BY <1>3, ZenonT(120) DEF Rfid, RfidFields, SameTags, SameFilter
<1> HIDE DEF a, b
<1>6. Enters(s, a, s.hsm) /\ Enters(s, b, s.hsm)
  BY <1>2, <1>4, <1>5 DEF Enters
<1> QED BY <1>1, <1>6

LEMMA EntersAgain ==
    ASSUME NEW s, NEW t, NEW state, Rfid(t), t.hsm = state, t.requests = s.requests, SameTags(s, t), SameFilter(s, t),
           t.waiting = s.waiting, NEW q \in {"Read", "Write"}
    PROVE  Enters(s, SendRfidFilterDataRequest(t, q), state) /\ Enters(s, t, state)
<1> DEFINE u == SendRfidFilterDataRequest(t, q)
<1>1. Enters(t, u, state)
  BY SendData
<1> HIDE DEF u
<1>2. SameTags(s, u) /\ SameFilter(s, u)
  BY <1>1, DataIsTransitive DEF Enters
<1>3. t.uid = s.uid /\ t.usage = s.usage /\ t.units = s.units
  BY DEF SameFilter
<1> QED BY <1>1, <1>2, <1>3 DEF u, Enters

LEMMA StateData ==
    ASSUME NEW s, Rfid(s)
    PROVE  /\ Enters(s, EnterFreshFoodDoorOpen(s), "DoorOpen")
           /\ Enters(s, EnterAllFreshFoodDoorsJustClosed(s), "JustClosed")
           /\ Enters(s, EnterAllDoorsClosedRead(s), "Read")
           /\ Enters(s, EnterAllDoorsClosedWrite(s), "Write")
           /\ Enters(s, EnterRfidDemoMode(s), "Demo")
<1> DEFINE x == ExitRfidState(s)
           a == [x EXCEPT !.hsm = "DoorOpen", !.readTimer = TRUE]
           b == [x EXCEPT !.hsm = "JustClosed", !.readTimer = TRUE, !.timeoutTimer = TRUE]
           late == s.board.leak \/ s.result \in {"ReadFailure", "HardwareFailure"}
           c == [x EXCEPT !.hsm = "Read", !.readWriteTimer = TRUE, !.readTimer = late]
           z == [x EXCEPT !.hsm = "Write", !.timeoutTimer = TRUE]
           e == [x EXCEPT !.hsm = "Demo"]
           Keeps(t) == /\ Rfid(t) /\ t.requests = s.requests /\ SameTags(s, t) /\ SameFilter(s, t)
                       /\ t.waiting = s.waiting
<1>1. /\ EnterFreshFoodDoorOpen(s) = SendRfidFilterDataRequest(a, "Read")
      /\ EnterAllFreshFoodDoorsJustClosed(s) = SendRfidFilterDataRequest(b, "Read")
      /\ EnterAllDoorsClosedRead(s) = c
      /\ EnterAllDoorsClosedWrite(s) = SendRfidFilterDataRequest(z, "Write")
      /\ EnterRfidDemoMode(s) = e
  BY DEF EnterFreshFoodDoorOpen, EnterAllFreshFoodDoorsJustClosed, EnterAllDoorsClosedRead,
         EnterAllDoorsClosedWrite, EnterRfidDemoMode
<1>2. Keeps(x)
  BY ZenonT(120) DEF ExitRfidState, Rfid, RfidFields, SameTags, SameFilter
<1> HIDE DEF x, late
<1>3. Keeps(a) /\ a.hsm = "DoorOpen"
  BY <1>2, ZenonT(120) DEF Rfid, RfidFields, SameTags, SameFilter
<1>4. Keeps(b) /\ b.hsm = "JustClosed"
  BY <1>2, ZenonT(120) DEF Rfid, RfidFields, SameTags, SameFilter
<1>5. Keeps(c) /\ c.hsm = "Read"
  BY <1>2, ZenonT(120) DEF Rfid, RfidFields, SameTags, SameFilter
<1>6. Keeps(z) /\ z.hsm = "Write"
  BY <1>2, ZenonT(120) DEF Rfid, RfidFields, SameTags, SameFilter
<1>7. Keeps(e) /\ e.hsm = "Demo"
  BY <1>2, ZenonT(120) DEF Rfid, RfidFields, SameTags, SameFilter
<1> HIDE DEF a, b, c, z, e
<1>8. "Read" \in {"Read", "Write"} /\ "Write" \in {"Read", "Write"}
  OBVIOUS
<1> QED BY <1>1, <1>3, <1>4, <1>5, <1>6, <1>7, <1>8, EntersAgain

\* What an answer that has just been taken from the queue finds: after a
\* success the board has reported the tag of the filter that is installed.
Reported(s) ==
    /\ Rfid(s) /\ Counts(s) /\ s.hsm \in {"DoorOpen", "JustClosed", "Read", "Write", "Demo"} /\ s.units = 1
    /\ s.result \in {"Success", "ReadFailure", "WriteFailure", "HardwareFailure"}
    /\ s.result = "Success" =>
           /\ s.board.uid = s.filter /\ s.board.usage = s.tags[s.filter].usage
           /\ s.board.units = (IF s.board.ours THEN 1 ELSE 0)
           /\ s.board.ours \in BOOLEAN /\ s.board.leak \in BOOLEAN /\ s.board.blocked \in BOOLEAN

\* A plug has no leak, but in demo mode, and is never written.
PlugIsTight(s) ==
    /\ s.bypassPlugInstalled <=> s.uid = BypassPlug
    /\ s.hsm = "Write" => s.uid # BypassPlug
    /\ s.uid = BypassPlug /\ s.hsm # "Demo" => ~FaultIsSet(s, "leak")

LEMMA PlugStaysTight ==
    ASSUME NEW s, PlugIsTight(s), NEW t, SameFilter(s, t), t.requests = s.requests,
           s.hsm = "Demo" => t.hsm = "Demo", t.hsm = "Write" => t.uid # BypassPlug
    PROVE  PlugIsTight(t)
BY DEF PlugIsTight, SameFilter, FaultIsSet

\* What the handler of a result leaves of the data.
Handled(s, t) ==
    /\ Rfid(t) /\ Counts(t) /\ SameTags(s, t) /\ t.hsm \in {"DoorOpen", "JustClosed", "Read", "Write", "Demo"} /\ t.units = 1
    /\ \/ t.uid = s.uid /\ t.usage = s.usage
       \/ t.uid # s.uid /\ t.uid = s.filter /\ t.usage = s.tags[t.uid].usage
    /\ \/ t.waiting = s.waiting
       \/ \E q \in {"Read", "Write"} :
             t.waiting = Append(s.waiting, [request |-> q, uid |-> t.uid, usage |-> t.usage, units |-> 1])
    /\ PlugIsTight(t)

LEMMA EntersHandled ==
    ASSUME NEW s, NEW t, Handled(s, t), t.waiting = s.waiting, NEW u, NEW state, Enters(t, u, state),
           state \in {"DoorOpen", "JustClosed", "Read", "Write", "Demo"},
           state = "Write" => t.uid # BypassPlug, t.hsm = "Demo" => state = "Demo"
    PROVE  Handled(s, u)
<1>1. /\ Rfid(u) /\ u.hsm = state /\ u.requests = t.requests /\ SameTags(t, u) /\ SameFilter(t, u)
      /\ \/ u.waiting = t.waiting
         \/ \E q \in {"Read", "Write"} :
               u.waiting = Append(t.waiting, [request |-> q, uid |-> t.uid, usage |-> t.usage, units |-> t.units])
  BY DEF Enters
<1>2. PlugIsTight(u)
  BY <1>1, PlugStaysTight DEF Handled, SameFilter
<1>3. SameTags(s, u)
  BY <1>1, DataIsTransitive DEF Handled
<1>4. Counts(u)
  BY <1>1 DEF Handled, Counts
<1>5. u.uid = t.uid /\ u.usage = t.usage /\ u.units = t.units /\ t.units = 1
  BY <1>1 DEF SameFilter, Handled
<1>6. \/ u.uid = s.uid /\ u.usage = s.usage
      \/ u.uid # s.uid /\ u.uid = s.filter /\ u.usage = s.tags[u.uid].usage
  BY <1>5 DEF Handled
<1>7. \/ u.waiting = s.waiting
      \/ \E q \in {"Read", "Write"} :
            u.waiting = Append(s.waiting, [request |-> q, uid |-> u.uid, usage |-> u.usage, units |-> 1])
  BY <1>1, <1>5
<1> QED BY <1>1, <1>2, <1>3, <1>4, <1>5, <1>6, <1>7 DEF Handled

LEMMA SuccessData ==
    ASSUME NEW s, Reported(s), s.result = "Success",
           s.uid = BypassPlug => ~FaultIsSet(s, "leak") \/ s.hsm = "Demo" \/ s.board.uid # BypassPlug,
           s.bypassPlugInstalled <=> s.uid = BypassPlug, s.hsm = "Write" => s.uid # BypassPlug
    PROVE  Handled(s, ReadWriteResultSuccessful(s))
<1> DEFINE t == TakeResult(s)
           r == [t EXCEPT !.readWriteTimer = TRUE]
<1>0. MinimumRequests["leak"] \in Nat \ {0}
  BY FaultsNeedRequests DEF RfidFaults
<1>1. Rfid(t) /\ Counts(t) /\ SameTags(s, t) /\ SameState(s, t) /\ Takes(s, t)
  BY TakeResultData DEF Reported
<1>2. ReadWriteResultSuccessful(s) =
        CASE s.hsm = "DoorOpen" -> t
          [] s.hsm = "JustClosed" /\ s.board.uid # s.uid -> EnterAllDoorsClosedRead(t)
          [] s.hsm = "JustClosed" /\ s.board.uid = s.uid -> t
          [] s.hsm = "Read" /\ s.readWriteTimer -> t
          [] s.hsm = "Read" /\ ~s.readWriteTimer /\ s.board.uid # BypassPlug -> EnterAllDoorsClosedWrite(t)
          [] s.hsm = "Read" /\ ~s.readWriteTimer /\ s.board.uid = BypassPlug -> r
          [] s.hsm = "Write" -> EnterAllDoorsClosedRead(s)
          [] s.hsm = "Demo" -> s
  BY DEF ReadWriteResultSuccessful
<1> HIDE DEF t
<1>3. t.hsm = s.hsm /\ t.waiting = s.waiting
  BY <1>1 DEF SameState
<1>4. /\ t.uid = s.board.uid /\ t.units = 1 /\ (t.bypassPlugInstalled <=> t.uid = BypassPlug)
      /\ \/ t.uid = s.uid /\ t.usage = s.usage
         \/ t.uid # s.uid /\ t.uid = s.filter /\ t.usage = s.tags[t.uid].usage
  BY <1>1 DEF Takes, SameFilter, Reported
<1>5. t.uid = BypassPlug /\ s.hsm # "Demo" => ~FaultIsSet(t, "leak")
  <2>1. CASE s.board.uid = s.uid
    BY <1>1, <1>4, <2>1 DEF Takes, FaultIsSet
  <2>2. CASE s.board.uid # s.uid
    <3>1. t.uid = BypassPlug => t.requests["leak"] = 0
      BY <1>1, <1>4, <2>2 DEF Takes
    <3>2. ~(0 >= MinimumRequests["leak"])
      BY <1>0
    <3> QED BY <3>1, <3>2 DEF FaultIsSet
  <2> QED BY <2>1, <2>2
<1>6. s.hsm # "Write" => Handled(s, t)
  BY <1>1, <1>3, <1>4, <1>5 DEF Handled, Reported, PlugIsTight
<1>7. SameTags(s, s) /\ SameFilter(s, s)
  BY DEF SameTags, SameFilter
<1>8. s.hsm \in {"Write", "Demo"} => Handled(s, s)
  BY <1>7 DEF Handled, Reported, PlugIsTight
<1>9. CASE s.hsm = "DoorOpen"
  <2>1. ReadWriteResultSuccessful(s) = t
    BY <1>2, <1>9
  <2> QED BY <1>6, <1>9, <2>1
<1>10. CASE s.hsm = "JustClosed" /\ s.board.uid # s.uid
  <2>1. ReadWriteResultSuccessful(s) = EnterAllDoorsClosedRead(t)
    BY <1>2, <1>10
  <2>2. Enters(t, EnterAllDoorsClosedRead(t), "Read")
    BY <1>1, StateData
  <2> QED BY <1>3, <1>6, <1>10, <2>1, <2>2, EntersHandled
<1>11. CASE s.hsm = "JustClosed" /\ s.board.uid = s.uid
  <2>1. ReadWriteResultSuccessful(s) = t
    BY <1>2, <1>11
  <2> QED BY <1>6, <1>11, <2>1
<1>12. CASE s.hsm = "Read" /\ s.readWriteTimer
  <2>1. ReadWriteResultSuccessful(s) = t
    BY <1>2, <1>12
  <2> QED BY <1>6, <1>12, <2>1
<1>13. CASE s.hsm = "Read" /\ ~s.readWriteTimer /\ s.board.uid # BypassPlug
  <2>1. ReadWriteResultSuccessful(s) = EnterAllDoorsClosedWrite(t)
    BY <1>2, <1>13
  <2>2. Enters(t, EnterAllDoorsClosedWrite(t), "Write")
    BY <1>1, StateData
  <2> QED BY <1>3, <1>4, <1>6, <1>13, <2>1, <2>2, EntersHandled
<1>14. CASE s.hsm = "Read" /\ ~s.readWriteTimer /\ s.board.uid = BypassPlug
  <2>1. ReadWriteResultSuccessful(s) = r
    BY <1>2, <1>14
  <2>2. /\ Rfid(r) /\ r.hsm = t.hsm /\ r.requests = t.requests /\ SameTags(t, r) /\ SameFilter(t, r)
        /\ r.waiting = t.waiting
    BY <1>1, ZenonT(120) DEF Rfid, RfidFields, SameTags, SameFilter
  <2> HIDE DEF r
  <2>3. Enters(t, r, "Read")
    BY <1>3, <1>14, <2>2 DEF Enters
  <2> QED BY <1>3, <1>6, <1>14, <2>1, <2>3, EntersHandled
<1>15. CASE s.hsm = "Write"
  <2>1. ReadWriteResultSuccessful(s) = EnterAllDoorsClosedRead(s)
    BY <1>2, <1>15
  <2>2. Enters(s, EnterAllDoorsClosedRead(s), "Read")
    BY StateData DEF Reported
  <2> QED BY <1>8, <1>15, <2>1, <2>2, EntersHandled
<1>16. CASE s.hsm = "Demo"
  <2>1. ReadWriteResultSuccessful(s) = s
    BY <1>2, <1>16
  <2> QED BY <1>8, <1>16, <2>1
<1> QED BY <1>9, <1>10, <1>11, <1>12, <1>13, <1>14, <1>15, <1>16 DEF Reported

LEMMA ResultData ==
    ASSUME NEW s, Reported(s), PlugIsTight(s)
    PROVE  Handled(s, ResultArrives(s))
<1>0. Rfid(s) /\ Counts(s) /\ s.units = 1 /\ s.hsm \in {"DoorOpen", "JustClosed", "Read", "Write", "Demo"}
  BY DEF Reported
<1>1. "tag" \in RfidFaults \ {"leak"} /\ "hardware" \in RfidFaults \ {"leak"} /\ TRUE \in BOOLEAN
      /\ "leak" \in RfidFaults /\ "blocked" \in RfidFaults /\ "blocked" # "leak"
  BY DEF RfidFaults
<1>2. SameTags(s, s) /\ SameFilter(s, s) /\ SameState(s, s)
  BY DEF SameTags, SameFilter, SameState
<1>3. ASSUME NEW t, Rfid(t), Counts(t), SameTags(s, t), SameFilter(s, t), SameState(s, t),
             t.requests["leak"] = s.requests["leak"]
      PROVE  /\ Handled(s, t) /\ t.waiting = s.waiting /\ t.hsm = s.hsm
             /\ t.hsm = "Read" => Handled(s, [t EXCEPT !.readTimer = TRUE])
             /\ t.hsm = "Write" => Handled(s, EnterAllDoorsClosedRead(t))
  <2>1. PlugIsTight(t)
    BY <1>3 DEF PlugIsTight, SameFilter, SameState, FaultIsSet
  <2>2. Handled(s, t) /\ t.waiting = s.waiting /\ t.hsm = s.hsm
    BY <1>0, <1>3, <2>1 DEF Handled, SameFilter, SameState
  <2> DEFINE u == [t EXCEPT !.readTimer = TRUE]
  <2>3. /\ Rfid(u) /\ u.hsm = t.hsm /\ u.requests = t.requests /\ SameTags(t, u) /\ SameFilter(t, u)
        /\ u.waiting = t.waiting
    BY <1>3, ZenonT(120) DEF Rfid, RfidFields, SameTags, SameFilter
  <2> HIDE DEF u
  <2>4. t.hsm = "Read" => Handled(s, u)
    <3> SUFFICES ASSUME t.hsm = "Read" PROVE Handled(s, u)
      OBVIOUS
    <3>1. Enters(t, u, "Read")
      BY <2>3 DEF Enters
    <3> QED BY <2>2, <3>1, EntersHandled
  <2>5. t.hsm = "Write" => Handled(s, EnterAllDoorsClosedRead(t))
    <3>1. Enters(t, EnterAllDoorsClosedRead(t), "Read")
      BY <1>3, StateData
    <3> QED BY <2>2, <3>1, EntersHandled
  <2> QED BY <2>2, <2>4, <2>5 DEF u
<1>4. CASE s.result = "Success"
  <2> DEFINE w == RequestRfidFault(s, "leak", s.board.leak)
             x == RequestRfidFault(w, "blocked", s.board.blocked)
             t == TakeFilterStatus(s)
  <2>0. s.board.leak \in BOOLEAN /\ s.board.blocked \in BOOLEAN
    BY <1>4 DEF Reported
  <2>1. ResultArrives(s) = ReadWriteResultSuccessful(t)
    BY <1>4 DEF ResultArrives
  <2>2. t = IF s.board.uid = BypassPlug THEN s ELSE x
    <3>1. t = IF s.board.uid = BypassPlug THEN s
              ELSE RequestRfidFault(RequestRfidFault(s, "leak", s.board.leak), "blocked", s.board.blocked)
      BY DEF TakeFilterStatus
    <3> QED BY <3>1
  <2>3. /\ Rfid(w) /\ Counts(w) /\ SameTags(s, w) /\ SameFilter(s, w) /\ SameState(s, w)
    BY <1>0, <1>1, <2>0, FaultData
  <2> HIDE DEF w, t
  <2>4. /\ Rfid(x) /\ Counts(x) /\ SameTags(w, x) /\ SameFilter(w, x) /\ SameState(w, x)
    BY <1>1, <2>0, <2>3, FaultData
  <2> HIDE DEF x
  <2>5. /\ Rfid(t) /\ Counts(t) /\ SameTags(s, t) /\ SameFilter(s, t) /\ SameState(s, t)
        /\ s.board.uid = BypassPlug => t = s
    BY <1>0, <1>2, <2>2, <2>3, <2>4, DataIsTransitive
  <2>6. Reported(t)
    BY <1>4, <2>5 DEF Reported, SameTags, SameFilter, SameState
  <2>7. /\ t.uid = s.uid /\ t.board = s.board /\ t.hsm = s.hsm /\ t.result = "Success"
        /\ (t.bypassPlugInstalled <=> t.uid = BypassPlug) /\ (t.hsm = "Write" => t.uid # BypassPlug)
    BY <1>4, <2>5 DEF PlugIsTight, SameTags, SameFilter, SameState
  <2>8. t.uid = BypassPlug => ~FaultIsSet(t, "leak") \/ t.hsm = "Demo" \/ t.board.uid # BypassPlug
    BY <2>5, <2>7 DEF PlugIsTight
  <2>9. Handled(t, ReadWriteResultSuccessful(t))
    BY <2>6, <2>7, <2>8, SuccessData
  <2> DEFINE u == ReadWriteResultSuccessful(t)
  <2> HIDE DEF u
  <2>10. Handled(s, u)
    <3>1. /\ t.uid = s.uid /\ t.usage = s.usage /\ t.filter = s.filter /\ t.tags = s.tags /\ t.waiting = s.waiting
      BY <2>5 DEF SameTags, SameFilter, SameState
    <3>2. Handled(t, u)
      BY <2>9 DEF u
    <3>3. SameTags(s, u)
      BY <2>5, <3>2, DataIsTransitive DEF Handled
    <3> QED BY <3>1, <3>2, <3>3 DEF Handled
  <2> QED BY <2>1, <2>10 DEF u
<1>5. CASE s.result \in {"ReadFailure", "WriteFailure"}
  <2> DEFINE v == RequestRfidFault(s, "tag", TRUE)
             t == IF s.doorsClosed THEN v ELSE s
  <2>1. /\ Rfid(t) /\ Counts(t) /\ SameTags(s, t) /\ SameFilter(s, t) /\ SameState(s, t)
        /\ t.requests["leak"] = s.requests["leak"]
    <3>1. /\ Rfid(v) /\ Counts(v) /\ SameTags(s, v) /\ SameFilter(s, v) /\ SameState(s, v)
          /\ v.requests["leak"] = s.requests["leak"]
      BY <1>0, <1>1, FaultData
    <3> HIDE DEF v
    <3> QED BY <1>0, <1>2, <3>1
  <2>2. CASE s.result = "ReadFailure"
    <3>1. ResultArrives(s) = IF s.hsm = "Read" THEN [t EXCEPT !.readTimer = TRUE] ELSE t
      BY <2>2 DEF ResultArrives
    <3> HIDE DEF t
    <3> QED BY <1>3, <2>1, <3>1
  <2>3. CASE s.result = "WriteFailure"
    <3>1. ResultArrives(s) = IF s.hsm = "Write" THEN EnterAllDoorsClosedRead(t) ELSE t
      BY <2>3 DEF ResultArrives
    <3> HIDE DEF t
    <3> QED BY <1>3, <2>1, <3>1
  <2> QED BY <1>5, <2>2, <2>3
<1>6. CASE s.result = "HardwareFailure"
  <2> DEFINE t == RequestRfidFault(s, "hardware", TRUE)
  <2>1. /\ Rfid(t) /\ Counts(t) /\ SameTags(s, t) /\ SameFilter(s, t) /\ SameState(s, t)
        /\ t.requests["leak"] = s.requests["leak"]
    BY <1>0, <1>1, FaultData
  <2>2. ResultArrives(s) = IF s.hsm = "Read" THEN [t EXCEPT !.readTimer = TRUE] ELSE t
    BY <1>6 DEF ResultArrives
  <2> HIDE DEF t
  <2> QED BY <1>3, <2>1, <2>2
<1> QED BY <1>4, <1>5, <1>6 DEF Reported

TagsInv(s) ==
    /\ Rfid(s) /\ Counts(s) /\ s.hsm \in {"DoorOpen", "JustClosed", "Read", "Write", "Demo"} /\ s.units = 1
    /\ s.uid \in Filters /\ s.usage \in Nat /\ s.filter \in Filters
    /\ s.tags \in [Filters -> Tags] /\ s.waiting \in Seq(Requests)
    /\ PlugIsTight(s)
    /\ Ordered(s.waiting, s.tags, s.overtaken, s.uid, s.usage)

\* A request that may be sent with the data of now.
LEMMA SentOrNot ==
    ASSUME NEW w \in Seq(Requests), NEW tags \in [Filters -> Tags], NEW over, NEW uid \in Filters, NEW usage \in Nat,
           Ordered(w, tags, over, uid, usage), NEW v,
           \/ v = w
           \/ \E q \in {"Read", "Write"} : v = Append(w, [request |-> q, uid |-> uid, usage |-> usage, units |-> 1])
    PROVE  v \in Seq(Requests) /\ Ordered(v, tags, over, uid, usage)
BY SendsInOrder, ZenonT(120)

LEMMA EntersTags ==
    ASSUME NEW s, TagsInv(s), NEW t, NEW state, Enters(s, t, state),
           state \in {"DoorOpen", "JustClosed", "Read", "Write", "Demo"},
           state = "Write" => s.uid # BypassPlug, s.hsm = "Demo" => state = "Demo"
    PROVE  TagsInv(t) /\ t.tags = s.tags
<1>1. /\ Rfid(t) /\ t.hsm = state /\ t.requests = s.requests /\ SameTags(s, t) /\ SameFilter(s, t)
      /\ \/ t.waiting = s.waiting
         \/ \E q \in {"Read", "Write"} :
               t.waiting = Append(s.waiting, [request |-> q, uid |-> s.uid, usage |-> s.usage, units |-> 1])
  BY DEF Enters, TagsInv
<1>2. /\ t.filter = s.filter /\ t.tags = s.tags /\ t.overtaken = s.overtaken
      /\ t.uid = s.uid /\ t.usage = s.usage /\ t.units = s.units
  BY <1>1 DEF SameTags, SameFilter
<1>3. PlugIsTight(t)
  BY <1>1, <1>2, PlugStaysTight DEF TagsInv
<1>4. Counts(t)
  BY <1>1 DEF TagsInv, Counts
<1>5. t.waiting \in Seq(Requests) /\ Ordered(t.waiting, s.tags, s.overtaken, s.uid, s.usage)
  BY <1>1, SentOrNot DEF TagsInv
<1> QED BY <1>1, <1>2, <1>3, <1>4, <1>5 DEF TagsInv

LEMMA TagsStart ==
    ASSUME RfidInit
    PROVE  TagsInv(st)
<1>1. PICK closed \in BOOLEAN, demo \in BOOLEAN, f \in Filters :
        LET s == [hsm |-> "none", doorsClosed |-> closed, uid |-> f, usage |-> 0, units |-> 1,
                  board |-> [uid |-> f, usage |-> 0, units |-> 1, ours |-> TRUE, leak |-> FALSE, blocked |-> FALSE],
                  result |-> "Success", requests |-> [x \in RfidFaults |-> 0],
                  bypassPlugInstalled |-> f = BypassPlug, filter |-> f, 
                  tags |-> [x \in Filters |-> [usage |-> 0, units |-> IF x = f THEN 1 ELSE 0, ours |-> x = f]],
                  waiting |-> <<>>, lost |-> FALSE, overtaken |-> {},
                  readTimer |-> FALSE, readWriteTimer |-> FALSE, timeoutTimer |-> FALSE]
        IN  st = CASE demo -> EnterRfidDemoMode(s)
                   [] ~demo /\ closed -> EnterAllFreshFoodDoorsJustClosed(s)
                   [] ~demo /\ ~closed -> EnterFreshFoodDoorOpen(s)
  BY DEF RfidInit
<1> DEFINE board == [uid |-> f, usage |-> 0, units |-> 1, ours |-> TRUE, leak |-> FALSE, blocked |-> FALSE]
           requests == [x \in RfidFaults |-> 0]
           plug == f = BypassPlug
           tags == [x \in Filters |-> [usage |-> 0, units |-> IF x = f THEN 1 ELSE 0, ours |-> x = f]]
           s == [hsm |-> "none", doorsClosed |-> closed, uid |-> f, usage |-> 0, units |-> 1, board |-> board,
                 result |-> "Success", requests |-> requests, bypassPlugInstalled |-> plug, filter |-> f,
                 tags |-> tags, waiting |-> <<>>, lost |-> FALSE, overtaken |-> {},
                 readTimer |-> FALSE, readWriteTimer |-> FALSE, timeoutTimer |-> FALSE]
<1>2. st = CASE demo -> EnterRfidDemoMode(s)
             [] ~demo /\ closed -> EnterAllFreshFoodDoorsJustClosed(s)
             [] ~demo /\ ~closed -> EnterFreshFoodDoorOpen(s)
  BY <1>1
<1>3. requests = [x \in RfidFaults |-> requests[x]] /\ requests["leak"] = 0
  BY DEF RfidFaults
<1>4. tags \in [Filters -> Tags] /\ tags[f].usage = 0
  BY DEF Tags
<1>5. plug <=> f = BypassPlug
  OBVIOUS
<1> HIDE DEF board, requests, plug, tags
<1>6. s = [x \in RfidFields |-> s[x]] /\ s.waiting = <<>>
  BY DEF RfidFields
<1>7. /\ s.uid = f /\ s.usage = 0 /\ s.units = 1 /\ s.filter = f /\ s.requests = requests
      /\ s.bypassPlugInstalled = plug /\ s.tags = tags /\ s.hsm = "none" /\ s.overtaken = {}
  OBVIOUS
<1> HIDE DEF s
<1>8. Rfid(s) /\ s.waiting \in Seq(Requests)
  <2>1. <<>> \in Seq({}) /\ <<>> \in Seq(Requests)
    OBVIOUS
  <2> QED BY <1>6, <2>1 DEF Rfid, IsRequests
<1>9. PlugIsTight(s)
  <2>1. ~(0 >= MinimumRequests["leak"])
    <3>1. MinimumRequests["leak"] \in Nat \ {0}
      BY FaultsNeedRequests DEF RfidFaults
    <3> QED BY <3>1
  <2> QED BY <1>3, <1>5, <1>7, <2>1 DEF PlugIsTight, FaultIsSet
<1>10. Ordered(s.waiting, s.tags, s.overtaken, s.uid, s.usage)
  <2>1. Len(s.waiting) = 0
    BY <1>6, EmptySeq
  <2> QED BY <1>4, <1>7, <2>1 DEF Ordered
<1>11. Counts(s)
  BY <1>3, <1>7 DEF Counts
<1>12. ASSUME NEW t, NEW state \in {"DoorOpen", "JustClosed", "Demo"}, Enters(s, t, state)
       PROVE  TagsInv(t)
  <2>1. /\ Rfid(t) /\ t.hsm = state /\ t.requests = s.requests /\ SameTags(s, t) /\ SameFilter(s, t)
        /\ \/ t.waiting = s.waiting
           \/ \E q \in {"Read", "Write"} :
                 t.waiting = Append(s.waiting, [request |-> q, uid |-> s.uid, usage |-> s.usage, units |-> 1])
    BY <1>7, <1>12 DEF Enters
  <2>2. PlugIsTight(t)
    BY <1>7, <1>9, <2>1, PlugStaysTight
  <2>3. Counts(t)
    BY <1>11, <2>1 DEF Counts
  <2>4. t.waiting \in Seq(Requests) /\ Ordered(t.waiting, s.tags, s.overtaken, s.uid, s.usage)
    <3>1. s.uid \in Filters /\ s.usage \in Nat /\ s.tags \in [Filters -> Tags]
      BY <1>4, <1>7
    <3>2. \/ t.waiting = s.waiting
          \/ \E q \in {"Read", "Write"} :
                t.waiting = Append(s.waiting, [request |-> q, uid |-> s.uid, usage |-> s.usage, units |-> 1])
      BY <1>7, <2>1
    <3> QED BY <1>8, <1>10, <3>1, <3>2, SentOrNot
  <2> QED BY <1>4, <1>7, <2>1, <2>2, <2>3, <2>4 DEF TagsInv, SameTags, SameFilter
<1>13. /\ TagsInv(EnterRfidDemoMode(s)) /\ TagsInv(EnterAllFreshFoodDoorsJustClosed(s))
       /\ TagsInv(EnterFreshFoodDoorOpen(s))
  BY <1>8, <1>12, StateData
<1> QED BY <1>2, <1>13

\* The answer to the first request, taken from the queue.
LEMMA AnswerData ==
    ASSUME NEW s, TagsInv(s), s.waiting # <<>>,
           NEW result \in {"Success", "ReadFailure", "WriteFailure", "HardwareFailure"}, NEW leak \in BOOLEAN,
           result = "Success" /\ Head(s.waiting).request = "Write" => Head(s.waiting).uid = s.filter
    PROVE  LET t == Answer(s, result, leak) IN
           /\ Reported(t) /\ PlugIsTight(t) /\ t.tags \in [Filters -> Tags] /\ t.waiting \in Seq(Requests)
           /\ t.overtaken = s.overtaken /\ t.uid = s.uid /\ t.usage = s.usage /\ t.filter = s.filter
           /\ Ordered(t.waiting, t.tags, s.overtaken, s.uid, s.usage)
           /\ \A f \in Filters : f \notin s.overtaken => t.tags[f].usage >= s.tags[f].usage
<1>0. /\ Rfid(s) /\ s.filter \in Filters /\ s.tags \in [Filters -> Tags] /\ s.waiting \in Seq(Requests)
      /\ s.uid \in Filters /\ s.usage \in Nat /\ s.units = 1
      /\ Ordered(s.waiting, s.tags, s.overtaken, s.uid, s.usage)
  BY DEF TagsInv
<1> DEFINE r == Head(s.waiting)
           n == [usage |-> r.usage, units |-> r.units, ours |-> TRUE]
           written == r.request = "Write" /\ result = "Success"
           tags == IF written THEN [s.tags EXCEPT ![s.filter] = n] ELSE s.tags
           reported == [uid |-> s.filter, leak |-> leak, blocked |-> FALSE, usage |-> tags[s.filter].usage,
                        units |-> tags[s.filter].units, ours |-> tags[s.filter].ours]
           board == IF result = "Success" THEN reported ELSE s.board
           w == Tail(s.waiting)
           t == [s EXCEPT !.waiting = w, !.result = result, !.tags = tags, !.board = board]
<1>1. Answer(s, result, leak) = t
  <2>1. Answer(s, result, leak) =
          [s EXCEPT !.waiting = Tail(@), !.result = result, !.tags = tags,
                    !.board = IF result = "Success" THEN reported ELSE @]
    BY DEF Answer
  <2> QED BY <2>1
<1>2. r \in Requests /\ w \in Seq(Requests)
  BY <1>0, TailOfRequests
<1>3. n \in Tags /\ n.usage = r.usage
  BY <1>2 DEF Requests, Tags
<1> HIDE DEF n
<1>4. tags \in [Filters -> Tags]
  BY <1>0, <1>3
<1>5. \A f \in Filters : tags[f] = s.tags[f] \/ (Writes(r, f) /\ tags[f].usage = r.usage)
  BY <1>0, <1>3 DEF Writes
<1> HIDE DEF tags
<1>6. /\ Ordered(w, tags, s.overtaken, s.uid, s.usage)
      /\ \A f \in Filters : f \notin s.overtaken => tags[f].usage >= s.tags[f].usage
  BY <1>0, <1>4, <1>5, AnswersInOrder
<1>7. IsRequests(w)
  BY <1>2 DEF IsRequests
<1>8. result = "Success" =>
        /\ board.uid = s.filter /\ board.usage = tags[s.filter].usage
        /\ board.units = (IF board.ours THEN 1 ELSE 0)
        /\ board.ours \in BOOLEAN /\ board.leak \in BOOLEAN /\ board.blocked \in BOOLEAN
  <2>1. tags[s.filter].units = (IF tags[s.filter].ours THEN 1 ELSE 0) /\ tags[s.filter].ours \in BOOLEAN
    BY <1>0, <1>4 DEF Tags
  <2> QED BY <2>1
<1> HIDE DEF r, written, reported, board, w
<1>9. /\ Rfid(t) /\ t.hsm = s.hsm /\ t.requests = s.requests /\ SameFilter(s, t)
      /\ t.filter = s.filter /\ t.overtaken = s.overtaken
      /\ t.waiting = w /\ t.tags = tags /\ t.board = board /\ t.result = result
  BY <1>0, <1>7, ZenonT(120) DEF Rfid, RfidFields, SameFilter
<1> HIDE DEF t
<1>10. t.uid = s.uid /\ t.usage = s.usage /\ t.units = 1
  BY <1>0, <1>9 DEF SameFilter
<1>11. PlugIsTight(t)
  BY <1>9, PlugStaysTight DEF TagsInv, PlugIsTight, SameFilter
<1>12. Counts(t)
  BY <1>9 DEF TagsInv, Counts
<1>13. Reported(t)
  BY <1>8, <1>9, <1>10, <1>12 DEF Reported, TagsInv
<1> QED BY <1>1, <1>2, <1>4, <1>6, <1>9, <1>10, <1>11, <1>13

LEMMA TagsStep ==
    ASSUME RfidInv(st), TagsInv(st),
           \/ FreshFoodDoorsChange \/ RfidDemoModeIsEnabled \/ ReadRequestTimeEnds \/ RfidTimeoutEnds
           \/ FilterIsChanged \/ WaterIsUsed \/ RfidBoardAnswers \/ RequestIsLost
    PROVE  TagsInv(st') /\ \A f \in Filters : f \notin st.overtaken => st'.tags[f].usage >= st.tags[f].usage
<1>0. /\ Rfid(st) /\ st.hsm \in {"DoorOpen", "JustClosed", "Read", "Write", "Demo"}
      /\ st.hsm = "Write" => st.uid # BypassPlug
  BY DEF TagsInv, PlugIsTight
<1>k. ASSUME st'.tags = st.tags
      PROVE  \A f \in Filters : f \notin st.overtaken => st'.tags[f].usage >= st.tags[f].usage
  <2>1. \A f \in Filters : st.tags[f].usage \in Nat
    BY DEF TagsInv, Tags
  <2> QED BY <1>k, <2>1
<1>f. SameTags(st, st) /\ SameFilter(st, st)
  BY DEF SameTags, SameFilter
<1>1. CASE FreshFoodDoorsChange
  <2> DEFINE closed == ~st.doorsClosed
             s == [st EXCEPT !.doorsClosed = closed]
  <2>1. \/ st' = EnterAllFreshFoodDoorsJustClosed(s) /\ s.hsm # "Demo"
        \/ st' = EnterFreshFoodDoorOpen(s) /\ s.hsm # "Demo"
        \/ st' = s
    <3> DEFINE a == s.doorsClosed /\ s.hsm = "DoorOpen"
               b == ~s.doorsClosed /\ s.hsm \in {"JustClosed", "Read", "Write"}
    <3>1. st' = CASE a -> EnterAllFreshFoodDoorsJustClosed(s) [] b -> EnterFreshFoodDoorOpen(s) [] OTHER -> s
      BY <1>1 DEF FreshFoodDoorsChange
    <3>2. ~(a /\ b) /\ (a => s.hsm # "Demo") /\ (b => s.hsm # "Demo")
      OBVIOUS
    <3> HIDE DEF a, b, s
    <3> QED BY <3>1, <3>2
  <2> HIDE DEF closed
  <2>2. Enters(st, s, st.hsm)
    BY <1>0, ZenonT(120) DEF Rfid, RfidFields, Enters, SameTags, SameFilter
  <2> HIDE DEF s
  <2>3. TagsInv(s) /\ s.tags = st.tags /\ Rfid(s)
    BY <1>0, <2>2, EntersTags DEF Enters
  <2>4. /\ Enters(s, EnterAllFreshFoodDoorsJustClosed(s), "JustClosed")
        /\ Enters(s, EnterFreshFoodDoorOpen(s), "DoorOpen")
    BY <2>3, StateData
  <2>5. TagsInv(st') /\ st'.tags = s.tags
    BY <2>1, <2>3, <2>4, EntersTags
  <2> QED BY <1>k, <2>3, <2>5
<1>2. CASE RfidDemoModeIsEnabled
  <2>1. st' = EnterRfidDemoMode(st)
    BY <1>2 DEF RfidDemoModeIsEnabled
  <2>2. Enters(st, st', "Demo")
    BY <1>0, <2>1, StateData
  <2>3. TagsInv(st') /\ st'.tags = st.tags
    BY <2>2, EntersTags
  <2> QED BY <1>k, <2>3
<1>3. CASE ReadRequestTimeEnds
  <2>0. "Read" \in {"Read", "Write"}
    OBVIOUS
  <2> DEFINE s == [st EXCEPT !.readWriteTimer = FALSE, !.lost = FALSE]
  <2>1. /\ Rfid(s) /\ s.hsm = st.hsm /\ s.requests = st.requests /\ SameTags(st, s) /\ SameFilter(st, s)
        /\ s.waiting = st.waiting
    BY <1>0, ZenonT(120) DEF Rfid, RfidFields, SameTags, SameFilter
  <2>2. st' = SendRfidFilterDataRequest(st, "Read") \/ st' = SendRfidFilterDataRequest(s, "Read")
    BY <1>3 DEF ReadRequestTimeEnds
  <2> HIDE DEF s
  <2>3. Enters(st, st', st.hsm)
    BY <1>0, <2>0, <2>1, <2>2, SendData, EntersAgain
  <2>4. TagsInv(st') /\ st'.tags = st.tags
    BY <1>0, <2>3, EntersTags
  <2> QED BY <1>k, <2>4
<1>4. CASE RfidTimeoutEnds
  <2> DEFINE s == [st EXCEPT !.timeoutTimer = FALSE]
  <2>1. st' = EnterAllDoorsClosedRead(s) /\ st.timeoutTimer
    BY <1>4 DEF RfidTimeoutEnds
  <2>2. Enters(st, s, st.hsm)
    BY <1>0, ZenonT(120) DEF Rfid, RfidFields, Enters, SameTags, SameFilter
  <2> HIDE DEF s
  <2>3. TagsInv(s) /\ s.tags = st.tags /\ Rfid(s) /\ s.hsm = st.hsm
    BY <1>0, <2>2, EntersTags DEF Enters
  <2>4. st.hsm # "Demo"
    BY <2>1 DEF RfidInv
  <2>5. Enters(s, st', "Read")
    BY <2>1, <2>3, StateData
  <2>6. TagsInv(st') /\ st'.tags = s.tags
    BY <2>3, <2>4, <2>5, EntersTags
  <2> QED BY <1>k, <2>3, <2>6
<1>5. CASE FilterIsChanged
  <2>1. PICK f \in Filters : st' = [st EXCEPT !.filter = f]
    BY <1>5 DEF FilterIsChanged
  <2>2. /\ Rfid(st') /\ st'.hsm = st.hsm /\ st'.requests = st.requests /\ SameFilter(st, st')
        /\ st'.waiting = st.waiting /\ st'.tags = st.tags /\ st'.overtaken = st.overtaken /\ st'.filter = f
    BY <1>0, <2>1, ZenonT(120) DEF Rfid, RfidFields, SameFilter
  <2>3. PlugIsTight(st')
    BY <2>2 DEF TagsInv, PlugIsTight, SameFilter, FaultIsSet
  <2>4. Counts(st')
    BY <2>2 DEF TagsInv, Counts
  <2>5. TagsInv(st')
    BY <2>2, <2>3, <2>4 DEF TagsInv, SameFilter
  <2> QED BY <1>k, <2>2, <2>5
<1>6. CASE WaterIsUsed
  <2> DEFINE n == st.usage + 1
  <2>1. st' = [st EXCEPT !.usage = n]
    BY <1>6 DEF WaterIsUsed
  <2>2. n \in Nat /\ Ordered(st.waiting, st.tags, st.overtaken, st.uid, n)
    BY UsesInOrder DEF TagsInv
  <2> HIDE DEF n
  <2>3. /\ Rfid(st') /\ st'.hsm = st.hsm /\ st'.requests = st.requests /\ SameTags(st, st')
        /\ st'.waiting = st.waiting /\ st'.uid = st.uid /\ st'.usage = n /\ st'.units = st.units
        /\ st'.bypassPlugInstalled = st.bypassPlugInstalled
    BY <1>0, <2>1, ZenonT(120) DEF Rfid, RfidFields, SameTags
  <2>4. PlugIsTight(st')
    BY <2>3 DEF TagsInv, PlugIsTight, FaultIsSet
  <2>5. Counts(st')
    BY <2>3 DEF TagsInv, Counts
  <2>6. TagsInv(st') /\ st'.tags = st.tags
    BY <2>2, <2>3, <2>4, <2>5 DEF TagsInv, SameTags
  <2> QED BY <1>k, <2>6
<1>7. CASE RfidBoardAnswers
  <2>1. PICK result \in {"Success", "ReadFailure", "WriteFailure", "HardwareFailure"}, leak \in BOOLEAN :
          /\ result = "Success" /\ Head(st.waiting).request = "Write" => Head(st.waiting).uid = st.filter
          /\ LET answered == Answer(st, result, leak) IN st' = WithTakeover(answered, ResultArrives(answered))
    BY <1>7 DEF RfidBoardAnswers
  <2>2. st.waiting # <<>>
    BY <1>7 DEF RfidBoardAnswers
  <2> DEFINE s == Answer(st, result, leak)
             t == ResultArrives(s)
             over == IF t.uid = s.uid THEN t.overtaken
                     ELSE IF IsWritten(s, t.uid) THEN t.overtaken \cup {t.uid} ELSE t.overtaken \ {t.uid}
  <2>3. /\ Reported(s) /\ PlugIsTight(s) /\ s.tags \in [Filters -> Tags] /\ s.waiting \in Seq(Requests)
        /\ s.overtaken = st.overtaken /\ s.uid = st.uid /\ s.usage = st.usage /\ s.filter = st.filter
        /\ Ordered(s.waiting, s.tags, st.overtaken, st.uid, st.usage)
        /\ \A f \in Filters : f \notin st.overtaken => s.tags[f].usage >= st.tags[f].usage
    BY <2>1, <2>2, AnswerData
  <2>4. st' = [t EXCEPT !.overtaken = over]
    BY <2>1 DEF WithTakeover
  <2> HIDE DEF s
  <2>5. Handled(s, t)
    BY <2>3, ResultData
  <2> HIDE DEF t
  <2>6. st.uid \in Filters /\ st.usage \in Nat /\ st.filter \in Filters
    BY DEF TagsInv
  <2>7. /\ t.tags = s.tags /\ t.overtaken = s.overtaken /\ t.filter = s.filter
    BY <2>5 DEF Handled, SameTags
  <2>8. t.uid \in Filters /\ t.usage \in Nat /\ Ordered(s.waiting, s.tags, over, t.uid, t.usage)
    <3>1. CASE t.uid = s.uid /\ t.usage = s.usage
      BY <2>3, <2>6, <2>7, <3>1
    <3>2. CASE t.uid # s.uid /\ t.uid = s.filter /\ t.usage = s.tags[t.uid].usage
      <4>1. over = IF \E i \in DOMAIN s.waiting : Writes(s.waiting[i], t.uid) THEN s.overtaken \cup {t.uid}
                   ELSE s.overtaken \ {t.uid}
        BY <2>7, <3>2 DEF IsWritten, Writes
      <4>2. t.uid \in Filters /\ t.usage \in Nat
        BY <2>3, <2>6, <3>2 DEF Tags
      <4> HIDE DEF over
      <4>3. Ordered(s.waiting, s.tags, over, t.uid, s.tags[t.uid].usage)
        BY <2>3, <2>6, <4>1, <4>2, TakesOverInOrder
      <4> QED BY <3>2, <4>2, <4>3
    <3> QED BY <2>5, <3>1, <3>2 DEF Handled
  <2> HIDE DEF over
  <2>9. t.waiting \in Seq(Requests) /\ Ordered(t.waiting, s.tags, over, t.uid, t.usage)
    BY <2>3, <2>5, <2>8, SentOrNot DEF Handled
  <2>10. /\ Rfid(st') /\ st'.hsm = t.hsm /\ st'.requests = t.requests /\ SameFilter(t, st')
         /\ st'.waiting = t.waiting /\ st'.tags = t.tags /\ st'.filter = t.filter /\ st'.overtaken = over
    BY <2>4, <2>5, ZenonT(120) DEF Handled, Rfid, RfidFields, SameFilter
  <2>11. PlugIsTight(st')
    BY <2>5, <2>10 DEF Handled, PlugIsTight, SameFilter, FaultIsSet
  <2>12. Counts(st')
    BY <2>5, <2>10 DEF Handled, Counts
  <2>13. TagsInv(st')
    BY <2>3, <2>5, <2>6, <2>7, <2>8, <2>9, <2>10, <2>11, <2>12 DEF TagsInv, Handled, SameFilter
  <2> QED BY <2>3, <2>7, <2>10, <2>13
<1>8. CASE RequestIsLost
  <2> DEFINE w == Tail(st.waiting)
  <2>1. st' = [st EXCEPT !.waiting = w, !.lost = TRUE] /\ st.waiting # <<>>
    BY <1>8 DEF RequestIsLost
  <2>2. w \in Seq(Requests) /\ Ordered(w, st.tags, st.overtaken, st.uid, st.usage)
    BY <2>1, TailOfRequests, AnswersInOrder DEF TagsInv
  <2>3. IsRequests(w)
    BY <2>2 DEF IsRequests
  <2> HIDE DEF w
  <2>4. /\ Rfid(st') /\ st'.hsm = st.hsm /\ st'.requests = st.requests /\ SameTags(st, st') /\ SameFilter(st, st')
        /\ st'.waiting = w
    BY <1>0, <2>1, <2>3, ZenonT(120) DEF Rfid, RfidFields, SameTags, SameFilter
  <2>5. PlugIsTight(st')
    BY <2>4 DEF TagsInv, PlugIsTight, SameFilter, FaultIsSet
  <2>6. Counts(st')
    BY <2>4 DEF TagsInv, Counts
  <2>7. TagsInv(st') /\ st'.tags = st.tags
    BY <2>2, <2>4, <2>5, <2>6 DEF TagsInv, SameTags, SameFilter
  <2> QED BY <1>k, <2>7
<1> QED BY <1>1, <1>2, <1>3, <1>4, <1>5, <1>6, <1>7, <1>8

-----------------------------------------------------------------------------
(* The life of a filter.                                                   *)

LifeFields ==
    {"volume", "calendar", "started", "lifetime", "dispensed", "status", "percent", "demo", "leak", "error",
     "bypass", "state", "disabled", "blocked", "counting", "days", "dispenses", "minutes", "previous", "months"}

Life(s) ==
    /\ s = [f \in LifeFields |-> s[f]]
    /\ s.volume \in Nat /\ s.calendar \in Nat /\ s.lifetime \in Nat /\ s.previous \in Nat
    /\ s.previous <= s.volume

\* Only an expired filter counts days and dispenses.
Expiry(s) ==
    /\ s.status = "Expired" => s.counting
    /\ s.status # "Expired" => ~s.counting /\ s.days = 0 /\ s.dispenses = 0

Disabling(s) == s.disabled => s.state \in {"Leak", "Error"} /\ ~s.demo

Followed(s) ==
    /\ Life(s) /\ Expiry(s) /\ Disabling(s)
    /\ s.status = WaterFilterLifeStatus(s) /\ s.percent = PercentUsageRemaining(s)
    /\ s.status = "Expired" => s.days = TruncatedDifference(s.calendar, RatedLife)

LifeInv(s) == Followed(s) /\ (s.lifetime > MinimumVolume => s.started)

\* What is left of a rated amount, in percent.
LEMMA PercentFacts ==
    ASSUME NEW v \in Nat, NEW r \in Nat \ {0}, NEW p \in 0..99
    PROVE  LET left == (TruncatedDifference(r, v) * 100) \div r IN
           /\ left \in Nat
           /\ v >= r => left = 0
           /\ left = 0 => v >= r \/ v > (p * r) \div 100
<1> DEFINE z == TruncatedDifference(r, v)
           n == z * 100
           left == n \div r
           q == (p * r) \div 100
<1>1. z \in Nat /\ (v >= r => z = 0) /\ (v < r => z = r - v)
  BY DEF TruncatedDifference
<1> HIDE DEF z
<1>2. n \in Nat /\ (z = 0 => n = 0)
  BY <1>1
<1>3. (n = 0 => left = 0) /\ left \in Nat /\ (left = 0 => n < r)
  <2>0. n \in Nat
    BY <1>2
  <2> HIDE DEF n
  <2> QED BY <2>0
<1> HIDE DEF left
<1>4. p * r \in Nat /\ p * r <= 99 * r
  OBVIOUS
<1>5. 100 * q <= p * r /\ q \in Nat
  <2> DEFINE m == p * r
  <2>1. m \in Nat
    BY <1>4
  <2> HIDE DEF m
  <2>2. 100 * (m \div 100) <= m /\ m \div 100 \in Nat
    BY <2>1
  <2> QED BY <2>2 DEF m
<1> HIDE DEF q
<1>6. ASSUME left = 0, v < r
      PROVE  v > q
  <2>1. n < r /\ z = r - v
    BY <1>1, <1>3, <1>6
  <2>2. (r - v) * 100 < r
    BY <2>1
  <2>3. 100 * q <= 99 * r
    <3> DEFINE m == p * r
    <3>1. m \in Nat /\ m <= 99 * r /\ 100 * q <= m
      BY <1>4, <1>5
    <3> HIDE DEF m
    <3> QED BY <1>5, <3>1
  <2> QED BY <1>5, <2>2, <2>3
<1>7. left = 0 => v >= r \/ v > q
  BY <1>5, <1>6
<1> QED BY <1>1, <1>2, <1>3, <1>7 DEF left, n, z, q

\* An expired filter has nothing left, and one that has nothing left is not one
\* that needs no order.
LEMMA LifeStatusFacts ==
    ASSUME NEW s, s.volume \in Nat, s.calendar \in Nat
    PROVE  /\ WaterFilterLifeStatus(s) \in {"Expired", "Replace", "NoOrderNecessary"}
           /\ WaterFilterLifeStatus(s) = "Expired" => PercentUsageRemaining(s) = 0
           /\ PercentUsageRemaining(s) = 0 => WaterFilterLifeStatus(s) # "NoOrderNecessary"
<1> DEFINE v == s.volume
           c == s.calendar
           vl == (TruncatedDifference(RatedVolume, v) * 100) \div RatedVolume
           cl == (TruncatedDifference(RatedLife, c) * 100) \div RatedLife
           vr == v > (ReplacementPercent * RatedVolume) \div 100
           cr == c > (ReplacementPercent * RatedLife) \div 100
           ve == v >= RatedVolume
           ce == c >= RatedLife
<1>1. /\ RatedVolume \in Nat \ {0} /\ RatedLife \in Nat \ {0} /\ ReplacementPercent \in 0..99
      /\ v \in Nat /\ c \in Nat
  BY WaterFilterAssumption
<1>2. WaterFilterLifeStatus(s) =
        CASE ve \/ ce -> "Expired"
          [] v < RatedVolume /\ c < RatedLife /\ (vr \/ cr) -> "Replace"
          [] OTHER -> "NoOrderNecessary"
  BY DEF WaterFilterLifeStatus
<1>3. PercentUsageRemaining(s) = Smaller(vl, cl)
  BY DEF PercentUsageRemaining
<1>4. /\ vl \in Nat /\ (ve => vl = 0) /\ (vl = 0 => ve \/ vr)
      /\ cl \in Nat /\ (ce => cl = 0) /\ (cl = 0 => ce \/ cr)
  <2> HIDE DEF v, c
  <2> QED BY <1>1, PercentFacts, ZenonT(120)
<1>5. (ve <=> ~(v < RatedVolume)) /\ (ce <=> ~(c < RatedLife))
  BY <1>1
<1> HIDE DEF vl, cl, vr, cr
<1>6. Smaller(vl, cl) = 0 <=> vl = 0 \/ cl = 0
  BY <1>4 DEF Smaller
<1>7. CASE ve \/ ce
  <2>1. WaterFilterLifeStatus(s) = "Expired"
    BY <1>2, <1>5, <1>7
  <2> QED BY <1>3, <1>4, <1>6, <1>7, <2>1
<1>8. CASE ~ve /\ ~ce /\ (vr \/ cr)
  <2>1. WaterFilterLifeStatus(s) = "Replace"
    BY <1>2, <1>5, <1>8
  <2> QED BY <2>1
<1>9. CASE ~ve /\ ~ce /\ ~vr /\ ~cr
  <2>1. WaterFilterLifeStatus(s) = "NoOrderNecessary"
    BY <1>2, <1>5, <1>9
  <2>2. PercentUsageRemaining(s) # 0
    BY <1>3, <1>4, <1>6, <1>9
  <2> QED BY <2>1, <2>2
<1> QED BY <1>7, <1>8, <1>9

\* The usage is untouched.
SameUsage(s, t) ==
    /\ t.volume = s.volume /\ t.calendar = s.calendar /\ t.lifetime = s.lifetime
    /\ t.previous = s.previous /\ t.started = s.started

LEMMA SameUsageFacts ==
    ASSUME NEW s, NEW t, SameUsage(s, t)
    PROVE  /\ WaterFilterLifeStatus(t) = WaterFilterLifeStatus(s)
           /\ PercentUsageRemaining(t) = PercentUsageRemaining(s)
BY DEF SameUsage, WaterFilterLifeStatus, PercentUsageRemaining

LEMMA ResolveFacts ==
    ASSUME NEW s, Life(s)
    PROVE  LET t == ResolveWaterFilterState(s) IN
           /\ Life(t) /\ SameUsage(s, t) /\ Disabling(t)
           /\ t.status = s.status /\ t.percent = s.percent /\ t.counting = s.counting
           /\ t.days = s.days /\ t.dispenses = s.dispenses
<1> DEFINE state == ResolvedFilterState(s)
           off == state \in {"Leak", "Error"}
           t == [s EXCEPT !.state = state, !.disabled = off]
<1>1. off => ~s.demo
  <2>1. s.demo => state = "Good"
    BY DEF ResolvedFilterState
  <2> HIDE DEF state
  <2> QED BY <2>1
<1>2. ResolveWaterFilterState(s) = t
  BY DEF ResolveWaterFilterState
<1>3. off => state \in {"Leak", "Error"}
  OBVIOUS
<1> HIDE DEF state, off
<1>4. /\ Life(t) /\ SameUsage(s, t) /\ t.state = state /\ t.disabled = off /\ t.demo = s.demo
      /\ t.status = s.status /\ t.percent = s.percent /\ t.counting = s.counting
      /\ t.days = s.days /\ t.dispenses = s.dispenses
  BY ZenonT(120) DEF Life, LifeFields, SameUsage
<1> HIDE DEF t
<1> QED BY <1>1, <1>2, <1>3, <1>4 DEF Disabling

\* The usage changes: the parts that follow it.
LEMMA UsageChangedFacts ==
    ASSUME NEW s, Life(s), Expiry(s)
    PROVE  LET t == UsageChanged(s) IN
           /\ Life(t) /\ Expiry(t) /\ Disabling(t) /\ SameUsage(s, t)
           /\ t.status = WaterFilterLifeStatus(t) /\ t.percent = PercentUsageRemaining(t)
           /\ t.status = "Expired" =>
                \/ t.days = TruncatedDifference(t.calendar, RatedLife)
                \/ s.status = "Expired" /\ t.days = s.days
<1> DEFINE blocked == ~IceMakerInhibitClearConditionsHaveBeenMet(s)
           b == [s EXCEPT !.blocked = blocked]
           life == WaterFilterLifeStatus(s)
           left == PercentUsageRemaining(s)
           z == [b EXCEPT !.status = life, !.percent = left]
           e == LifeStatusChanged(z)
           f == IF z.status = s.status THEN z ELSE e
           days == TruncatedDifference(z.calendar, RatedLife)
           e1 == [z EXCEPT !.counting = TRUE, !.days = days]
           e2 == [z EXCEPT !.counting = FALSE, !.days = 0, !.dispenses = 0]
<1>1. UsageChanged(s) = ResolveWaterFilterState(f)
  BY DEF UsageChanged, SetIceMakerInhibitDueToNewFilter
<1> HIDE DEF blocked
<1>2. /\ Life(b) /\ SameUsage(s, b) /\ b.status = s.status /\ b.counting = s.counting
      /\ b.days = s.days /\ b.dispenses = s.dispenses
  BY DEF Life, LifeFields, SameUsage
<1> HIDE DEF b, life, left
<1>3. /\ Life(z) /\ SameUsage(b, z) /\ z.status = life /\ z.percent = left /\ z.counting = b.counting
      /\ z.days = b.days /\ z.dispenses = b.dispenses
  BY <1>2, ZenonT(120) DEF Life, LifeFields, SameUsage
<1>4. e = IF z.status = "Expired" THEN e1 ELSE e2
  BY DEF LifeStatusChanged
<1> HIDE DEF z
<1>5. /\ Life(e1) /\ SameUsage(z, e1) /\ e1.status = z.status /\ e1.percent = z.percent
      /\ e1.counting /\ e1.days = days
  BY <1>3, ZenonT(120) DEF Life, LifeFields, SameUsage
<1>6. /\ Life(e2) /\ SameUsage(z, e2) /\ e2.status = z.status /\ e2.percent = z.percent
      /\ ~e2.counting /\ e2.days = 0 /\ e2.dispenses = 0
  BY <1>3, ZenonT(120) DEF Life, LifeFields, SameUsage
<1> HIDE DEF e, e1, e2, days
<1>7. /\ Life(f) /\ SameUsage(z, f) /\ f.status = z.status /\ f.percent = z.percent
  BY <1>3, <1>4, <1>5, <1>6 DEF SameUsage
<1>8. Expiry(f) /\ (f.status = "Expired" => f.days = days \/ (s.status = "Expired" /\ f.days = s.days))
  <2>1. CASE z.status = s.status
    <3>1. f = z
      BY <2>1
    <3> HIDE DEF f
    <3> QED BY <1>2, <1>3, <2>1, <3>1 DEF Expiry
  <2>2. CASE z.status # s.status
    <3>1. f = e
      BY <2>2
    <3> HIDE DEF f
    <3> QED BY <1>4, <1>5, <1>6, <3>1 DEF Expiry
  <2> QED BY <2>1, <2>2
<1> HIDE DEF f
<1> DEFINE t == ResolveWaterFilterState(f)
<1>9. /\ Life(t) /\ SameUsage(f, t) /\ Disabling(t)
      /\ t.status = f.status /\ t.percent = f.percent /\ t.counting = f.counting
      /\ t.days = f.days /\ t.dispenses = f.dispenses
  BY <1>7, ResolveFacts
<1> HIDE DEF t
<1>10. SameUsage(s, t)
  BY <1>2, <1>3, <1>7, <1>9 DEF SameUsage
<1>11. t.status = WaterFilterLifeStatus(t) /\ t.percent = PercentUsageRemaining(t)
  BY <1>3, <1>7, <1>9, <1>10, SameUsageFacts DEF life, left
<1>12. Expiry(t)
  BY <1>8, <1>9 DEF Expiry
<1>13. days = TruncatedDifference(t.calendar, RatedLife)
  BY <1>7, <1>9 DEF SameUsage, days
<1> QED BY <1>1, <1>8, <1>9, <1>10, <1>11, <1>12, <1>13 DEF t

LEMMA LifeOfUsage ==
    ASSUME NEW s, NEW a, Followed(s), Life(a), a.calendar = s.calendar, a.status = s.status,
           a.counting = s.counting, a.days = s.days, a.dispenses = s.dispenses
    PROVE  Followed(UsageChanged(a)) /\ SameUsage(a, UsageChanged(a))
<1> DEFINE t == UsageChanged(a)
<1>1. Expiry(a)
  BY DEF Followed, Expiry
<1>2. /\ Life(t) /\ Expiry(t) /\ Disabling(t) /\ SameUsage(a, t)
      /\ t.status = WaterFilterLifeStatus(t) /\ t.percent = PercentUsageRemaining(t)
      /\ t.status = "Expired" =>
            \/ t.days = TruncatedDifference(t.calendar, RatedLife)
            \/ a.status = "Expired" /\ t.days = a.days
  BY <1>1, UsageChangedFacts
<1> HIDE DEF t
<1>3. t.calendar = s.calendar
  BY <1>2 DEF SameUsage
<1>4. t.status = "Expired" => t.days = TruncatedDifference(t.calendar, RatedLife)
  BY <1>2, <1>3 DEF Followed
<1> QED BY <1>2, <1>4 DEF Followed, t

LEMMA VolumeWritten ==
    ASSUME NEW s, LifeInv(s), NEW v \in Nat
    PROVE  LifeInv(WriteToVolumeUsageErds(s, v))
<1> DEFINE a == [s EXCEPT !.volume = v, !.previous = v]
<1>0. ASSUME NEW p, p = v
      PROVE  LET b == [s EXCEPT !.volume = v, !.previous = p]
             IN  /\ Life(b) /\ b.calendar = s.calendar /\ b.status = s.status
                 /\ b.counting = s.counting /\ b.days = s.days /\ b.dispenses = s.dispenses
                 /\ b.lifetime = s.lifetime /\ b.started = s.started
  <2>1. p \in Nat /\ p <= v
    BY <1>0
  <2> DEFINE b == [s EXCEPT !.volume = v, !.previous = p]
  <2>2. Life(s)
    BY DEF LifeInv, Followed
  <2>3. Life(b)
    BY <2>1, <2>2 DEF Life, LifeFields
  <2>4. /\ b.calendar = s.calendar /\ b.status = s.status
        /\ b.counting = s.counting /\ b.days = s.days /\ b.dispenses = s.dispenses
        /\ b.lifetime = s.lifetime /\ b.started = s.started
    BY <2>2 DEF Life, LifeFields
  <2> HIDE DEF b
  <2> QED BY <2>3, <2>4 DEF b
<1>1. /\ Life(a) /\ a.calendar = s.calendar /\ a.status = s.status
      /\ a.counting = s.counting /\ a.days = s.days /\ a.dispenses = s.dispenses
      /\ a.lifetime = s.lifetime /\ a.started = s.started
  BY <1>0
<1>2. WriteToVolumeUsageErds(s, v) = UsageChanged(a)
  BY DEF WriteToVolumeUsageErds
<1> HIDE DEF a
<1>3. Followed(UsageChanged(a)) /\ SameUsage(a, UsageChanged(a))
  BY <1>1, LifeOfUsage DEF LifeInv
<1> QED BY <1>1, <1>2, <1>3 DEF LifeInv, SameUsage

LEMMA CalendarWritten ==
    ASSUME NEW s, LifeInv(s), NEW c \in Nat
    PROVE  LifeInv(WriteToCalendarUsageErds(s, c))
<1> DEFINE a == [s EXCEPT !.calendar = c]
           t == UsageChanged(a)
           days == TruncatedDifference(c, RatedLife)
           u == [t EXCEPT !.days = days]
<1>1. /\ Life(a) /\ a.calendar = c /\ a.status = s.status
      /\ a.counting = s.counting /\ a.days = s.days /\ a.dispenses = s.dispenses
      /\ a.lifetime = s.lifetime /\ a.started = s.started
  BY DEF LifeInv, Followed, Life, LifeFields
<1>2. WriteToCalendarUsageErds(s, c) = IF t.counting THEN u ELSE t
  BY DEF WriteToCalendarUsageErds
<1> HIDE DEF a
<1>3. Expiry(a)
  BY <1>1 DEF LifeInv, Followed, Expiry
<1>4. /\ Life(t) /\ Expiry(t) /\ Disabling(t) /\ SameUsage(a, t)
      /\ t.status = WaterFilterLifeStatus(t) /\ t.percent = PercentUsageRemaining(t)
  BY <1>1, <1>3, UsageChangedFacts
<1> HIDE DEF t, days
<1>40. t.lifetime > MinimumVolume => t.started
  BY <1>1, <1>4 DEF SameUsage, LifeInv
<1>5. CASE t.counting
  <2>1. /\ Life(u) /\ SameUsage(t, u) /\ u.days = days /\ u.status = t.status /\ u.percent = t.percent
        /\ u.counting = t.counting /\ u.disabled = t.disabled /\ u.state = t.state /\ u.demo = t.demo
    BY <1>4 DEF Life, LifeFields, SameUsage
  <2> HIDE DEF u
  <2>2. t.status = "Expired"
    BY <1>4, <1>5 DEF Expiry
  <2>3. u.status = WaterFilterLifeStatus(u) /\ u.percent = PercentUsageRemaining(u)
    BY <1>4, <2>1, SameUsageFacts
  <2>4. Expiry(u) /\ Disabling(u)
    BY <1>4, <1>5, <2>1, <2>2 DEF Expiry, Disabling
  <2>5. u.calendar = c /\ (u.lifetime > MinimumVolume => u.started)
    BY <1>1, <1>4, <1>40, <2>1 DEF SameUsage
  <2>6. LifeInv(u)
    BY <2>1, <2>3, <2>4, <2>5 DEF LifeInv, Followed, days
  <2> QED BY <1>2, <1>5, <2>6
<1>6. CASE ~t.counting
  <2>1. t.status # "Expired"
    BY <1>4, <1>6 DEF Expiry
  <2>2. LifeInv(t)
    BY <1>4, <1>40, <2>1 DEF LifeInv, Followed
  <2> QED BY <1>2, <1>6, <2>2
<1> QED BY <1>5, <1>6

LEMMA CalendarStarts ==
    ASSUME NEW s, Followed(s)
    PROVE  LET t == StartIncrementWaterFilterCalendarUsageTimer(s) IN
           LifeInv(t) /\ t.status = s.status /\ t.counting = s.counting
<1> DEFINE t == [s EXCEPT !.started = TRUE]
<1>1. /\ Life(t) /\ t.volume = s.volume /\ t.calendar = s.calendar /\ t.status = s.status
      /\ t.percent = s.percent /\ t.counting = s.counting /\ t.days = s.days /\ t.dispenses = s.dispenses
      /\ t.disabled = s.disabled /\ t.state = s.state /\ t.demo = s.demo /\ t.started
  BY DEF Followed, Life, LifeFields
<1>2. StartIncrementWaterFilterCalendarUsageTimer(s) = t
  BY DEF StartIncrementWaterFilterCalendarUsageTimer
<1> HIDE DEF t
<1>3. WaterFilterLifeStatus(t) = WaterFilterLifeStatus(s) /\ PercentUsageRemaining(t) = PercentUsageRemaining(s)
  BY <1>1 DEF WaterFilterLifeStatus, PercentUsageRemaining
<1> QED BY <1>1, <1>2, <1>3 DEF LifeInv, Followed, Expiry, Disabling

LEMMA LifeStarts ==
    ASSUME FilterLifeInit
    PROVE  LifeInv(st)
<1>1. PICK v \in {0, RatedVolume}, lifetime \in {0, MinimumVolume + 1}, late \in BOOLEAN :
        LET s == UsageChanged([volume |-> v, calendar |-> 0, started |-> FALSE, lifetime |-> lifetime,
                           dispensed |-> lifetime > 0,
                           status |-> "none", percent |-> 100, demo |-> FALSE, leak |-> FALSE, error |-> FALSE,
                           bypass |-> FALSE, state |-> "Good", disabled |-> FALSE, blocked |-> FALSE,
                           counting |-> FALSE, days |-> 0, dispenses |-> 0,
                           minutes |-> 0, previous |-> v, months |-> <<0, 0>>])
        IN  st = IF late \/ EnoughWaterIsDrawn(s) THEN StartIncrementWaterFilterCalendarUsageTimer(s) ELSE s
  BY DEF FilterLifeInit
<1> DEFINE drawn == lifetime > 0
           none == <<0, 0>>
           a == [volume |-> v, calendar |-> 0, started |-> FALSE, lifetime |-> lifetime, dispensed |-> drawn,
                 status |-> "none", percent |-> 100, demo |-> FALSE, leak |-> FALSE, error |-> FALSE,
                 bypass |-> FALSE, state |-> "Good", disabled |-> FALSE, blocked |-> FALSE,
                 counting |-> FALSE, days |-> 0, dispenses |-> 0,
                 minutes |-> 0, previous |-> v, months |-> none]
           t == UsageChanged(a)
           u == StartIncrementWaterFilterCalendarUsageTimer(t)
<1>2. st = IF late \/ EnoughWaterIsDrawn(t) THEN u ELSE t
  BY <1>1
<1>3. v \in Nat /\ lifetime \in Nat
  BY WaterFilterAssumption
<1> HIDE DEF drawn, none
<1>4. /\ Life(a) /\ a.status = "none" /\ ~a.counting /\ a.days = 0 /\ a.dispenses = 0
      /\ a.calendar = 0
  BY <1>3 DEF Life, LifeFields
<1> HIDE DEF a
<1>5. Expiry(a)
  BY <1>4 DEF Expiry
<1>6. Followed(t)
  BY <1>4, <1>5, UsageChangedFacts DEF Followed
<1> HIDE DEF t
<1>7. LifeInv(u)
  BY <1>6, CalendarStarts
<1> HIDE DEF u
<1> QED BY <1>2, <1>6, <1>7 DEF LifeInv, EnoughWaterIsDrawn

LEMMA LifeStep ==
    ASSUME LifeInv(st),
           \/ VolumeChanges \/ LowUsageDelayEnds \/ CalendarMinuteEnds \/ FilterIsReset
           \/ FilterInputsChange \/ MonthMinuteEnds
    PROVE  LifeInv(st')
<1>0. Followed(st) /\ Life(st)
  BY SMTT(60) DEF LifeInv, Followed
<1>1. st.volume \in Nat /\ st.calendar \in Nat /\ st.lifetime \in Nat /\ MinimumVolume \in Nat
      /\ RatedVolume \in Nat /\ RatedLife \in Nat
  BY <1>0, WaterFilterAssumption, SMTT(60) DEF Life
<1>2. CASE VolumeChanges
  <2> DEFINE v == st.volume + 1
             n == Smaller(st.lifetime + 1, MinimumVolume + 1)
             a == [st EXCEPT !.volume = v, !.dispensed = TRUE, !.lifetime = n]
             drawn == UsageChanged(a)
             started == StartIncrementWaterFilterCalendarUsageTimer(drawn)
             s == IF EnoughWaterIsDrawn(drawn) THEN started ELSE drawn
             dispenses == Smaller(s.dispenses + 1, UsageCap)
             w == [s EXCEPT !.dispenses = dispenses]
  <2>1. PICK counted \in BOOLEAN : (counted => s.counting) /\ st' = IF counted THEN w ELSE s
    BY <1>2 DEF VolumeChanges
  <2>2. v \in Nat /\ n \in Nat /\ st.previous <= v
    BY <1>0, <1>1 DEF Smaller, Life
  <2> HIDE DEF v, n
  <2>3. /\ Life(a) /\ a.calendar = st.calendar /\ a.status = st.status
        /\ a.counting = st.counting /\ a.days = st.days /\ a.dispenses = st.dispenses
    BY <1>0, <2>2, ZenonT(120) DEF Life, LifeFields
  <2> HIDE DEF a
  <2>4. Followed(drawn)
    BY <1>0, <2>3, LifeOfUsage
  <2> HIDE DEF drawn
  <2>5. LifeInv(started)
    BY <2>4, CalendarStarts
  <2> HIDE DEF started
  <2>6. LifeInv(s)
    BY <2>4, <2>5 DEF LifeInv, EnoughWaterIsDrawn
  <2> HIDE DEF s, dispenses
  <2>7. CASE counted
    <3>1. st' = w /\ s.counting
      BY <2>1, <2>7
    <3>2. s.status = "Expired"
      BY <2>6, <3>1 DEF LifeInv, Followed, Expiry
    <3>3. /\ Life(w) /\ w.volume = s.volume /\ w.calendar = s.calendar /\ w.status = s.status
          /\ w.percent = s.percent /\ w.counting = s.counting /\ w.days = s.days
          /\ w.disabled = s.disabled /\ w.state = s.state /\ w.demo = s.demo
          /\ w.lifetime = s.lifetime /\ w.started = s.started
      BY <2>6 DEF LifeInv, Followed, Life, LifeFields
    <3> HIDE DEF w
    <3>4. WaterFilterLifeStatus(w) = WaterFilterLifeStatus(s) /\ PercentUsageRemaining(w) = PercentUsageRemaining(s)
      BY <3>3 DEF WaterFilterLifeStatus, PercentUsageRemaining
    <3> QED BY <2>6, <3>1, <3>2, <3>3, <3>4, ZenonT(120) DEF LifeInv, Followed, Expiry, Disabling
  <2>8. CASE ~counted
    BY <2>1, <2>6, <2>8
  <2> QED BY <2>7, <2>8
<1>3. CASE LowUsageDelayEnds
  BY <1>0, <1>3, CalendarStarts DEF LowUsageDelayEnds
<1>4. CASE CalendarMinuteEnds
  <2>1. st.calendar + 1 \in Nat
    BY <1>1
  <2> QED BY <1>4, <2>1, CalendarWritten DEF CalendarMinuteEnds
<1>5. CASE FilterIsReset
  <2>1. CASE st' = ClearVolumeAndCalendarUsage(st)
    <3>1. LifeInv(WriteToVolumeUsageErds(st, 0))
      BY VolumeWritten
    <3>2. LifeInv(WriteToCalendarUsageErds(WriteToVolumeUsageErds(st, 0), 0))
      BY <3>1, CalendarWritten
    <3> QED BY <2>1, <3>2 DEF ClearVolumeAndCalendarUsage
  <2>2. CASE \E v \in {0, RatedVolume}, c \in {0, RatedLife} :
                st' = [WriteToCalendarUsageErds(WriteToVolumeUsageErds(st, v), c)
                        EXCEPT !.months = <<0, 0>>, !.minutes = 0]
    <3>1. PICK v \in {0, RatedVolume}, c \in {0, RatedLife} :
                st' = [WriteToCalendarUsageErds(WriteToVolumeUsageErds(st, v), c)
                        EXCEPT !.months = <<0, 0>>, !.minutes = 0]
      BY <2>2
    <3> DEFINE s == WriteToCalendarUsageErds(WriteToVolumeUsageErds(st, v), c)
               none == <<0, 0>>
               w == [s EXCEPT !.months = none, !.minutes = 0]
    <3>2. v \in Nat /\ c \in Nat
      BY <1>1
    <3>3. LifeInv(WriteToVolumeUsageErds(st, v))
      BY <3>2, VolumeWritten
    <3>4. LifeInv(s)
      BY <3>2, <3>3, CalendarWritten
    <3>5. st' = w
      BY <3>1
    <3> HIDE DEF s, none
    <3>6. /\ Life(w) /\ w.volume = s.volume /\ w.calendar = s.calendar /\ w.status = s.status
          /\ w.percent = s.percent /\ w.counting = s.counting /\ w.days = s.days /\ w.dispenses = s.dispenses
          /\ w.disabled = s.disabled /\ w.state = s.state /\ w.demo = s.demo
          /\ w.lifetime = s.lifetime /\ w.started = s.started
      BY <3>4, ZenonT(120) DEF LifeInv, Followed, Life, LifeFields
    <3> HIDE DEF w
    <3>7. WaterFilterLifeStatus(w) = WaterFilterLifeStatus(s) /\ PercentUsageRemaining(w) = PercentUsageRemaining(s)
      BY <3>6 DEF WaterFilterLifeStatus, PercentUsageRemaining
    <3> QED BY <3>4, <3>5, <3>6, <3>7 DEF LifeInv, Followed, Expiry, Disabling
  <2> QED BY <1>5, <2>1, <2>2 DEF FilterIsReset
<1>6. CASE FilterInputsChange
  <2>1. PICK s \in {[st EXCEPT !.demo = ~st.demo], [st EXCEPT !.leak = ~st.leak],
                    [st EXCEPT !.error = ~st.error], [st EXCEPT !.bypass = ~st.bypass]} :
          st' = ResolveWaterFilterState(s)
    BY <1>6, ZenonT(120) DEF FilterInputsChange
  <2> DEFINE Same(u) ==
        /\ Life(u) /\ SameUsage(st, u) /\ u.status = st.status /\ u.percent = st.percent
        /\ u.counting = st.counting /\ u.days = st.days /\ u.dispenses = st.dispenses
  <2>2. \A b : /\ Same([st EXCEPT !.demo = b]) /\ Same([st EXCEPT !.leak = b])
               /\ Same([st EXCEPT !.error = b]) /\ Same([st EXCEPT !.bypass = b])
    BY <1>0, SMTT(60) DEF Life, LifeFields, SameUsage
  <2> HIDE DEF Same
  <2>3. Same(s)
    BY <2>1, <2>2, ZenonT(120)
  <2> USE DEF Same
  <2> DEFINE t == ResolveWaterFilterState(s)
  <2>4. /\ Life(t) /\ SameUsage(s, t) /\ Disabling(t)
        /\ t.status = s.status /\ t.percent = s.percent /\ t.counting = s.counting
        /\ t.days = s.days /\ t.dispenses = s.dispenses
    BY <2>3, ResolveFacts
  <2>5. st' = t
    BY <2>1
  <2> HIDE DEF t
  <2>6. SameUsage(st, t)
    BY <2>3, <2>4 DEF SameUsage
  <2>7. WaterFilterLifeStatus(t) = WaterFilterLifeStatus(st) /\ PercentUsageRemaining(t) = PercentUsageRemaining(st)
    BY <2>6, SameUsageFacts
  <2>8. Followed(t)
    BY <2>3, <2>4, <2>6, <2>7 DEF LifeInv, Followed, Expiry, SameUsage
  <2> QED BY <2>5, <2>6, <2>8, SMTT(60) DEF LifeInv, SameUsage
<1>7. CASE MonthMinuteEnds
  <2> DEFINE minutes == st.minutes + 1
             s == [st EXCEPT !.minutes = minutes]
             u == StoreNewMonthWaterUsageInGallons(s)
             w == [u EXCEPT !.previous = s.volume, !.minutes = 0]
             Same(x) ==
               /\ Life(x) /\ x.volume = st.volume /\ x.calendar = st.calendar /\ x.status = st.status
               /\ x.percent = st.percent /\ x.counting = st.counting /\ x.days = st.days /\ x.dispenses = st.dispenses
               /\ x.disabled = st.disabled /\ x.state = st.state /\ x.demo = st.demo
               /\ x.lifetime = st.lifetime /\ x.started = st.started
  <2>1. st' = IF s.minutes < MonthLength THEN s ELSE w
    BY <1>7 DEF MonthMinuteEnds
  <2> HIDE DEF minutes
  <2>2. Same(s)
    BY <1>0 DEF Life, LifeFields
  <2> HIDE DEF s
  <2>3. Same(u)
    <3> DEFINE months == <<Smaller(TruncatedDifference(s.volume, s.previous) \div OuncesPerGallon, 255), s.months[1]>>
    <3>1. u = [s EXCEPT !.months = months]
      BY DEF StoreNewMonthWaterUsageInGallons
    <3> HIDE DEF months, u
    <3> QED BY <2>2, <3>1 DEF Life, LifeFields
  <2> HIDE DEF u
  <2>4. Same(w)
    <3> DEFINE volume == s.volume
    <3>1. volume \in Nat /\ volume <= u.volume
      BY <2>2, <2>3, <1>1 DEF Life
    <3>2. w = [u EXCEPT !.previous = volume, !.minutes = 0]
      OBVIOUS
    <3> HIDE DEF volume, w
    <3> QED BY <2>3, <3>1, <3>2, ZenonT(120) DEF Life, LifeFields
  <2> HIDE DEF w
  <2>5. ASSUME NEW x, Same(x)
        PROVE  LifeInv(x)
    <3>1. WaterFilterLifeStatus(x) = WaterFilterLifeStatus(st) /\ PercentUsageRemaining(x) = PercentUsageRemaining(st)
      BY <2>5 DEF WaterFilterLifeStatus, PercentUsageRemaining
    <3> QED BY <2>5, <3>1 DEF LifeInv, Followed, Expiry, Disabling
  <2> HIDE DEF Same
  <2> QED BY <2>1, <2>2, <2>4, <2>5
<1> QED BY <1>2, <1>3, <1>4, <1>5, <1>6, <1>7

-----------------------------------------------------------------------------
(* The flow meter.                                                         *)

FlowFields == {"counts", "previous", "since", "ounces", "pollTimer", "pulses", "wrapped"}

\* Until the counter wraps, the pulses since the last poll are its difference.
FlowInv(s) ==
    /\ s = [f \in FlowFields |-> s[f]]
    /\ s.counts \in 0..CountModulus - 1 /\ s.previous \in 0..CountModulus - 1
    /\ s.since \in Nat /\ s.pulses \in Nat /\ s.wrapped \in BOOLEAN
    /\ s.pollTimer = "stopped" => s.ounces = 0
    /\ ~s.wrapped /\ s.pollTimer # "stopped" =>
           s.previous <= s.counts /\ s.since + (s.counts - s.previous) = s.pulses

LEMMA RequestKeepsFlow ==
    ASSUME NEW s, FlowInv(s), NEW r \in {"Start", "Stop", "Pause", "Resume"}
    PROVE  FlowInv(MonitoringRequestChanged(s, r))
<1> DEFINE t == MonitoringRequestChanged(s, r)
<1>1. CASE r = "Start"
  <2>1. PICK counts : counts = s.counts
    OBVIOUS
  <2>2. PICK zero : zero = 0
    OBVIOUS
  <2>3. t = [s EXCEPT !.previous = counts, !.since = 0, !.pollTimer = "running", !.pulses = zero, !.wrapped = FALSE]
    BY <1>1, <2>1, <2>2 DEF MonitoringRequestChanged
  <2>4. counts \in 0..CountModulus - 1 /\ counts <= s.counts /\ 0 + (s.counts - counts) = zero
    BY <2>1, <2>2, WaterFilterAssumption DEF FlowInv
  <2> HIDE DEF t
  <2>5. t = [f \in FlowFields |-> t[f]]
    BY <2>3 DEF FlowInv, FlowFields
  <2>6. /\ t.counts = s.counts /\ t.previous = counts /\ t.since = 0 /\ t.pollTimer = "running"
        /\ t.pulses = zero /\ t.wrapped = FALSE
    BY <2>3 DEF FlowInv, FlowFields
  <2>7. s.counts \in 0..CountModulus - 1 /\ zero \in Nat /\ t.previous <= t.counts /\ t.since \in Nat
        /\ t.since + (t.counts - t.previous) = t.pulses
    BY <2>2, <2>4, <2>6 DEF FlowInv
  <2>8. FlowInv(t)
    BY ONLY <2>4, <2>5, <2>6, <2>7 DEF FlowInv
  <2> QED BY <2>8 DEF t
<1>2. CASE r = "Stop"
  <2>1. t = [s EXCEPT !.pollTimer = "stopped", !.ounces = 0]
    BY <1>2 DEF MonitoringRequestChanged
  <2> QED BY <2>1 DEF FlowInv, FlowFields
<1>3. CASE r = "Pause"
  <2>1. t = [s EXCEPT !.pollTimer = IF @ = "running" THEN "paused" ELSE @]
    BY <1>3 DEF MonitoringRequestChanged
  <2> QED BY <2>1 DEF FlowInv, FlowFields
<1>4. CASE r = "Resume"
  <2>1. t = [s EXCEPT !.pollTimer = IF @ = "paused" THEN "running" ELSE @]
    BY <1>4 DEF MonitoringRequestChanged
  <2> QED BY <2>1 DEF FlowInv, FlowFields
<1> QED BY <1>1, <1>2, <1>3, <1>4

LEMMA FlowStarts == FlowMeterInit => FlowInv(st)
<1> SUFFICES ASSUME FlowMeterInit PROVE FlowInv(st)
  OBVIOUS
<1>1. PICK n \in {0, CountModulus - 2}, r \in {"Start", "Stop"} :
         st = MonitoringRequestChanged(
                [counts |-> n, previous |-> 0, since |-> 0, ounces |-> 0, pollTimer |-> "stopped",
                 pulses |-> 0, wrapped |-> FALSE], r)
  BY DEF FlowMeterInit
<1>2. n \in 0..CountModulus - 1
  BY WaterFilterAssumption
<1> DEFINE s == [counts |-> n, previous |-> 0, since |-> 0, ounces |-> 0, pollTimer |-> "stopped",
                 pulses |-> 0, wrapped |-> FALSE]
<1>3. s = [f \in FlowFields |-> s[f]]
  BY DEF FlowFields
<1>4. /\ s.counts = n /\ s.previous = 0 /\ s.since = 0 /\ s.ounces = 0 /\ s.pollTimer = "stopped"
      /\ s.pulses = 0 /\ s.wrapped = FALSE
  OBVIOUS
<1> HIDE DEF s
<1>5. /\ s.counts \in 0..CountModulus - 1 /\ s.previous \in 0..CountModulus - 1
      /\ s.since \in Nat /\ s.pulses \in Nat
  BY <1>2, <1>4, WaterFilterAssumption
<1>50. s.wrapped \in BOOLEAN
  BY <1>4
<1>7. FlowInv(s)
  BY ONLY <1>3, <1>4, <1>5, <1>50 DEF FlowInv
<1>6. st = MonitoringRequestChanged(s, r)
  BY <1>1 DEF s
<1> QED BY <1>6, <1>7, RequestKeepsFlow

LEMMA FlowStep ==
    ASSUME FlowInv(st), WaterFlows \/ FlowMeterIsPolled \/ MonitoringIsRequested
    PROVE  FlowInv(st')
<1>1. CASE WaterFlows
  <2> DEFINE counts == (st.counts + 1) % CountModulus
             pulses == st.pulses + 1
             wrapped == st.wrapped \/ st.counts = CountModulus - 1
  <2>1. st' = [st EXCEPT !.counts = counts, !.pulses = pulses, !.wrapped = wrapped]
    BY <1>1 DEF WaterFlows
  <2>2. counts = IF st.counts = CountModulus - 1 THEN 0 ELSE st.counts + 1
    <3>1. CountModulus \in Nat /\ CountModulus > 1 /\ st.counts \in 0..CountModulus - 1
      BY WaterFilterAssumption DEF FlowInv
    <3>2. CASE st.counts = CountModulus - 1
      BY <3>1, <3>2
    <3>3. CASE st.counts # CountModulus - 1
      <4>1. st.counts + 1 \in 0..CountModulus - 1
        BY <3>1, <3>3
      <4> QED BY <3>1, <3>3, <4>1
    <3> QED BY <3>2, <3>3
  <2>3. /\ counts \in 0..CountModulus - 1 /\ pulses \in Nat /\ wrapped \in BOOLEAN
        /\ ~wrapped => ~st.wrapped /\ counts = st.counts + 1
    BY <2>2, WaterFilterAssumption DEF FlowInv
  <2>4. ~wrapped /\ st.pollTimer # "stopped" =>
            st.previous <= counts /\ st.since + (counts - st.previous) = pulses
    BY <2>3 DEF FlowInv
  <2> HIDE DEF counts, pulses, wrapped
  <2> QED BY <2>1, <2>3, <2>4 DEF FlowInv, FlowFields
<1>2. CASE FlowMeterIsPolled
  <2> DEFINE since == st.since + CountsDifference(st)
             ounces == IF since >= 2 THEN since ELSE 0
  <2>1. PICK counts : counts = st.counts
    OBVIOUS
  <2>2. st' = [st EXCEPT !.since = since, !.previous = counts, !.ounces = ounces] /\ st.pollTimer = "running"
    BY <1>2, <2>1 DEF FlowMeterIsPolled, CalculateAndWriteOuncesDispensed
  <2>3. counts \in 0..CountModulus - 1 /\ counts <= st.counts /\ st.counts - counts = 0
    BY <2>1, WaterFilterAssumption DEF FlowInv
  <2>4. since \in Nat /\ (~st.wrapped => since = st.pulses)
    BY <2>2, WaterFilterAssumption DEF FlowInv, CountsDifference
  <2> HIDE DEF since, ounces
  <2>5. ~st.wrapped => since + (st.counts - counts) = st.pulses
    BY <2>3, <2>4 DEF FlowInv
  <2> QED BY <2>2, <2>3, <2>4, <2>5 DEF FlowInv, FlowFields
<1>3. CASE MonitoringIsRequested
  BY <1>3, RequestKeepsFlow DEF MonitoringIsRequested
<1> QED BY <1>1, <1>2, <1>3

LEMMA FlowIsCounted ==
    ASSUME NEW s, FlowInv(s), ~s.wrapped, s.pollTimer # "stopped"
    PROVE  s.since + ((s.counts - s.previous) % CountModulus) = s.pulses
<1>1. CountModulus \in Nat /\ CountModulus > 1 /\ s.counts - s.previous \in 0..CountModulus - 1
  BY WaterFilterAssumption DEF FlowInv
<1>2. (s.counts - s.previous) % CountModulus = s.counts - s.previous
  BY <1>1
<1> QED BY <1>2 DEF FlowInv

-----------------------------------------------------------------------------
(* The volume of the valves.                                               *)

VolumeFields == {"relay", "elapsed", "volume", "total", "dispensed", "used"}

Volumes(s) ==
    /\ s = [f \in VolumeFields |-> s[f]]
    /\ s.relay \subseteq WaterValves
    /\ s.elapsed \in [WaterValves -> Nat] /\ s.volume \in [WaterValves -> Nat]
    /\ s.used \in [WaterValves -> 0..TotalMaximum]

\* The volume of an open valve was cleared when it opened, so that what it is
\* closed with is published even if the opening before gave as much.
VolumeInv(s) ==
    /\ Volumes(s)
    /\ \A v \in s.relay : s.volume[v] = 0
    /\ s.total = Smaller(s.used["iceMaker"] + s.used["dispenser"], TotalMaximum)
    /\ s.dispensed = s.used["dispenser"]

LEMMA WriteVolumeFacts ==
    ASSUME NEW s, Volumes(s), NEW v \in WaterValves, NEW volume \in Nat
    PROVE  LET t == WriteVolume(s, v, volume)
           IN  /\ Volumes(t) /\ t.relay = s.relay /\ t.elapsed = s.elapsed /\ t.used = s.used
               /\ t.volume[v] = volume
               /\ \A w \in WaterValves : w # v => t.volume[w] = s.volume[w]
               /\ s.volume[v] # volume =>
                      /\ t.total = Accumulate(s.total, volume)
                      /\ t.dispensed = IF v = "dispenser" THEN Accumulate(s.dispensed, volume) ELSE s.dispensed
               /\ s.volume[v] = volume => t.total = s.total /\ t.dispensed = s.dispensed
<1>1. CASE s.volume[v] = volume
  BY <1>1 DEF WriteVolume
<1>2. CASE s.volume[v] # volume
  <2> DEFINE volumes == [s.volume EXCEPT ![v] = volume]
             total == Accumulate(s.total, volume)
             dispensed == IF v = "dispenser" THEN Accumulate(s.dispensed, volume) ELSE s.dispensed
  <2>1. WriteVolume(s, v, volume) = [s EXCEPT !.volume = volumes, !.total = total, !.dispensed = dispensed]
    BY <1>2 DEF WriteVolume
  <2>2. /\ volumes \in [WaterValves -> Nat] /\ volumes[v] = volume
        /\ \A w \in WaterValves : w # v => volumes[w] = s.volume[w]
    BY DEF Volumes
  <2>3. total = Accumulate(s.total, volume)
    OBVIOUS
  <2>4. dispensed = IF v = "dispenser" THEN Accumulate(s.dispensed, volume) ELSE s.dispensed
    OBVIOUS
  <2> HIDE DEF volumes, total, dispensed
  <2> DEFINE t == WriteVolume(s, v, volume)
  <2> HIDE DEF t
  <2>5. t = [s EXCEPT !.volume = volumes, !.total = total, !.dispensed = dispensed]
    BY <2>1 DEF t
  <2>6. Volumes(t)
    BY <2>2, <2>5 DEF Volumes, VolumeFields
  <2>7. /\ t.relay = s.relay /\ t.elapsed = s.elapsed /\ t.used = s.used
        /\ t.volume = volumes /\ t.total = total /\ t.dispensed = dispensed
    BY <2>5 DEF Volumes, VolumeFields
  <2> QED BY <1>2, <2>2, <2>3, <2>4, <2>6, <2>7 DEF t
<1> QED BY <1>1, <1>2

LEMMA OpeningKeepsVolume ==
    ASSUME NEW s, VolumeInv(s), NEW v \in WaterValves
    PROVE  VolumeInv(WaterValveRelayOpens(s, v))
<1> DEFINE relay == s.relay \cup {v}
           a == [s EXCEPT !.relay = relay]
           t == WriteVolume(a, v, 0)
<1>1. relay \subseteq WaterValves /\ \A w \in relay : w = v \/ w \in s.relay
  BY DEF VolumeInv, Volumes
<1>2. WaterValveRelayOpens(s, v) = t
  BY DEF WaterValveRelayOpens
<1> HIDE DEF relay
<1>3. /\ Volumes(a) /\ a.relay = relay /\ a.volume = s.volume /\ a.total = s.total /\ a.dispensed = s.dispensed
      /\ a.used = s.used
  BY <1>1 DEF VolumeInv, Volumes, VolumeFields
<1> HIDE DEF a
<1>4. /\ Volumes(t) /\ t.relay = a.relay /\ t.used = a.used /\ t.volume[v] = 0
      /\ \A w \in WaterValves : w # v => t.volume[w] = a.volume[w]
      /\ a.volume[v] # 0 =>
             /\ t.total = Accumulate(a.total, 0)
             /\ t.dispensed = IF v = "dispenser" THEN Accumulate(a.dispensed, 0) ELSE a.dispensed
      /\ a.volume[v] = 0 => t.total = a.total /\ t.dispensed = a.dispensed
  BY <1>3, WriteVolumeFacts
<1> HIDE DEF t
<1>5. s.total \in 0..TotalMaximum /\ s.dispensed \in 0..TotalMaximum
  BY WaterFilterAssumption DEF VolumeInv, Volumes, Smaller, WaterValves
<1>6. Accumulate(s.total, 0) = s.total /\ Accumulate(s.dispensed, 0) = s.dispensed
  BY <1>5, WaterFilterAssumption DEF Accumulate
<1>7. t.total = s.total /\ t.dispensed = s.dispensed
  BY <1>3, <1>4, <1>6
<1>8. ASSUME NEW w \in t.relay
      PROVE  t.volume[w] = 0
  <2>1. w \in WaterValves /\ (w = v \/ w \in s.relay)
    BY <1>1, <1>3, <1>4, <1>8
  <2>2. w # v => t.volume[w] = s.volume[w]
    BY <1>3, <1>4, <2>1
  <2> QED BY <1>4, <2>1, <2>2 DEF VolumeInv
<1> QED BY <1>2, <1>3, <1>4, <1>7, <1>8 DEF VolumeInv

LEMMA ClosingKeepsVolume ==
    ASSUME NEW s, VolumeInv(s), NEW v \in s.relay
    PROVE  VolumeInv(WaterValveRelayCloses(s, v))
<1> DEFINE volume == CalculateWaterVolumeUsage(s.elapsed[v])
           relay == s.relay \ {v}
           a == [s EXCEPT !.relay = relay]
           m == WriteVolume(a, v, volume)
           used == [m.used EXCEPT ![v] = Smaller(m.used[v] + volume, TotalMaximum)]
           elapsed == [m.elapsed EXCEPT ![v] = 0]
           t == [m EXCEPT !.elapsed = elapsed, !.used = used]
<1>0. v \in WaterValves
  BY DEF VolumeInv, Volumes
<1>1. volume \in Nat
  <2>1. s.elapsed[v] \in Nat /\ FlowRate \in Nat /\ TicksPerSecond \in Nat /\ TicksPerSecond # 0
    BY <1>0, WaterFilterAssumption DEF VolumeInv, Volumes
  <2>2. s.elapsed[v] * FlowRate \in Nat
    BY <2>1
  <2> QED BY <2>1, <2>2 DEF CalculateWaterVolumeUsage
<1>2. WaterValveRelayCloses(s, v) = t
  BY DEF WaterValveRelayCloses
<1>3. relay \subseteq WaterValves /\ \A w \in relay : w # v /\ w \in s.relay
  BY DEF VolumeInv, Volumes
<1> HIDE DEF relay, volume
<1>4. /\ Volumes(a) /\ a.relay = relay /\ a.volume = s.volume /\ a.total = s.total /\ a.dispensed = s.dispensed
      /\ a.used = s.used
  BY <1>3 DEF VolumeInv, Volumes, VolumeFields
<1> HIDE DEF a
<1>5. /\ Volumes(m) /\ m.relay = a.relay /\ m.used = a.used /\ m.volume[v] = volume
      /\ \A w \in WaterValves : w # v => m.volume[w] = a.volume[w]
      /\ a.volume[v] # volume =>
             /\ m.total = Accumulate(a.total, volume)
             /\ m.dispensed = IF v = "dispenser" THEN Accumulate(a.dispensed, volume) ELSE a.dispensed
      /\ a.volume[v] = volume => m.total = a.total /\ m.dispensed = a.dispensed
  BY <1>0, <1>1, <1>4, WriteVolumeFacts
<1> HIDE DEF m
<1>6. s.volume[v] = 0
  BY DEF VolumeInv
<1>7. /\ s.used["iceMaker"] \in 0..TotalMaximum /\ s.used["dispenser"] \in 0..TotalMaximum
      /\ s.total = Smaller(s.used["iceMaker"] + s.used["dispenser"], TotalMaximum)
      /\ s.dispensed = s.used["dispenser"]
  BY DEF VolumeInv, Volumes, WaterValves
<1>8. /\ used \in [WaterValves -> 0..TotalMaximum]
      /\ used[v] = Smaller(s.used[v] + volume, TotalMaximum)
      /\ \A w \in WaterValves : w # v => used[w] = s.used[w]
  <2>1. m.used \in [WaterValves -> 0..TotalMaximum] /\ m.used = s.used
    BY <1>4, <1>5 DEF Volumes
  <2>2. Smaller(m.used[v] + volume, TotalMaximum) \in 0..TotalMaximum
    BY <1>0, <1>1, <2>1, WaterFilterAssumption DEF Smaller
  <2> QED BY <1>0, <2>1, <2>2
<1>9. elapsed \in [WaterValves -> Nat]
  BY <1>0, <1>5 DEF Volumes
<1> HIDE DEF used, elapsed
<1>10. Volumes(t)
  BY <1>5, <1>8, <1>9 DEF Volumes, VolumeFields
<1>11. t.relay = m.relay /\ t.volume = m.volume /\ t.total = m.total /\ t.dispensed = m.dispensed /\ t.used = used
  BY <1>5 DEF Volumes, VolumeFields
<1> HIDE DEF t
<1>12. \A w \in t.relay : t.volume[w] = 0
  BY <1>3, <1>4, <1>5, <1>11 DEF VolumeInv
<1>13. /\ used["iceMaker"] = IF v = "iceMaker" THEN Smaller(s.used["iceMaker"] + volume, TotalMaximum)
                             ELSE s.used["iceMaker"]
       /\ used["dispenser"] = IF v = "dispenser" THEN Smaller(s.used["dispenser"] + volume, TotalMaximum)
                              ELSE s.used["dispenser"]
  BY <1>8 DEF WaterValves
<1>14. /\ m.total = IF volume = 0 THEN s.total ELSE Accumulate(s.total, volume)
       /\ m.dispensed = IF volume # 0 /\ v = "dispenser" THEN Accumulate(s.dispensed, volume) ELSE s.dispensed
  BY <1>4, <1>5, <1>6
<1>15. v = "iceMaker" \/ v = "dispenser"
  BY <1>0 DEF WaterValves
<1>16. TotalMaximum \in Nat
  BY WaterFilterAssumption
<1>17. m.total = Smaller(used["iceMaker"] + used["dispenser"], TotalMaximum) /\ m.dispensed = used["dispenser"]
  <2> DEFINE i == s.used["iceMaker"]
             z == s.used["dispenser"]
  <2>1. i \in 0..TotalMaximum /\ z \in 0..TotalMaximum /\ s.total = Smaller(i + z, TotalMaximum) /\ s.dispensed = z
    BY <1>7
  <2> HIDE DEF i, z
  <2>2. CASE v = "iceMaker"
    <3>1. used["iceMaker"] = Smaller(i + volume, TotalMaximum) /\ used["dispenser"] = z /\ m.dispensed = z
      BY <1>13, <1>14, <2>1, <2>2 DEF i, z
    <3> QED BY <1>1, <1>14, <1>16, <2>1, <3>1 DEF Smaller, Accumulate
  <2>3. CASE v = "dispenser"
    <3>1. /\ used["dispenser"] = Smaller(z + volume, TotalMaximum) /\ used["iceMaker"] = i
          /\ m.dispensed = IF volume # 0 THEN Accumulate(z, volume) ELSE z
      BY <1>13, <1>14, <2>1, <2>3 DEF i, z
    <3> QED BY <1>1, <1>14, <1>16, <2>1, <3>1 DEF Smaller, Accumulate
  <2> QED BY <1>15, <2>2, <2>3
<1> QED BY <1>2, <1>10, <1>11, <1>12, <1>17, SMTT(60) DEF VolumeInv

LEMMA VolumeStarts == WaterVolumeInit => VolumeInv(st)
<1> SUFFICES ASSUME WaterVolumeInit PROVE VolumeInv(st)
  OBVIOUS
<1>1. PICK none : none = [v \in WaterValves |-> 0]
  OBVIOUS
<1>2. PICK opened \in SUBSET WaterValves :
         st = [relay |-> opened, elapsed |-> none, volume |-> none, total |-> 0, dispensed |-> 0, used |-> none]
  BY <1>1 DEF WaterVolumeInit
<1>3. none \in [WaterValves -> Nat] /\ none \in [WaterValves -> 0..TotalMaximum] /\ \A v \in WaterValves : none[v] = 0
  BY <1>1, WaterFilterAssumption
<1>4. st = [f \in VolumeFields |-> st[f]]
  BY <1>2 DEF VolumeFields
<1>5. st.relay = opened /\ st.elapsed = none
  BY <1>2
<1>6. st.volume = none /\ st.used = none
  BY <1>2
<1>7. st.total = 0 /\ st.dispensed = 0
  BY <1>2
<1>8. none["iceMaker"] = 0 /\ none["dispenser"] = 0
  BY <1>3 DEF WaterValves
<1>9. Smaller(none["iceMaker"] + none["dispenser"], TotalMaximum) = 0
  BY <1>8, WaterFilterAssumption DEF Smaller
<1> QED BY <1>2, <1>3, <1>4, <1>5, <1>6, <1>7, <1>8, <1>9 DEF VolumeInv, Volumes

LEMMA VolumeStep ==
    ASSUME VolumeInv(st), WaterValveRelayChanged \/ WaterValveIsOpen
    PROVE  VolumeInv(st')
<1>1. CASE WaterValveRelayChanged
  BY <1>1, OpeningKeepsVolume, ClosingKeepsVolume DEF WaterValveRelayChanged
<1>2. CASE WaterValveIsOpen
  <2>1. PICK v \in st.relay : st' = [st EXCEPT !.elapsed[v] = @ + 1]
    BY <1>2 DEF WaterValveIsOpen
  <2> DEFINE elapsed == [st.elapsed EXCEPT ![v] = @ + 1]
  <2>2. st' = [st EXCEPT !.elapsed = elapsed]
    BY <2>1
  <2>3. elapsed \in [WaterValves -> Nat]
    <3>1. st.elapsed \in [WaterValves -> Nat] /\ v \in WaterValves
      BY DEF VolumeInv, Volumes
    <3> QED BY <3>1
  <2> HIDE DEF elapsed
  <2> QED BY <2>2, <2>3 DEF VolumeInv, Volumes, VolumeFields
<1> QED BY <1>1, <1>2

-----------------------------------------------------------------------------
WaterFilterSpec == WaterFilterInit /\ [][WaterFilterNext]_unitVars

WaterFilterInv ==
    /\ unit = "rfid" => RfidInv(st) /\ TagsInv(st)
    /\ unit = "filter life" => LifeInv(st)
    /\ unit = "flow meter" => FlowInv(st)
    /\ unit = "water volume" => VolumeInv(st)

LEMMA WaterFilterStarts == WaterFilterInit => WaterFilterInv
<1>1. RfidInit => WaterFilterInv
  BY RfidStarts, TagsStart DEF RfidInit, WaterFilterInv
<1>2. FilterLifeInit => WaterFilterInv
  BY LifeStarts DEF FilterLifeInit, WaterFilterInv
<1>3. FlowMeterInit => WaterFilterInv
  BY FlowStarts DEF FlowMeterInit, WaterFilterInv
<1>4. WaterVolumeInit => WaterFilterInv
  BY VolumeStarts DEF WaterVolumeInit, WaterFilterInv
<1> QED BY <1>1, <1>2, <1>3, <1>4, SMTT(60) DEF WaterFilterInit

LEMMA WaterFilterStep ==
    ASSUME WaterFilterInv, [WaterFilterNext]_unitVars
    PROVE  WaterFilterInv'
<1>1. CASE FreshFoodDoorsChange \/ RfidDemoModeIsEnabled \/ ReadRequestTimeEnds \/ RfidTimeoutEnds
           \/ FilterIsChanged \/ WaterIsUsed \/ RfidBoardAnswers \/ RequestIsLost
  <2>1. unit = "rfid" /\ unit' = unit
    BY <1>1 DEF FreshFoodDoorsChange, RfidDemoModeIsEnabled, ReadRequestTimeEnds, RfidTimeoutEnds,
                FilterIsChanged, WaterIsUsed, RfidBoardAnswers, RequestIsLost, Runs
  <2> QED BY <1>1, <2>1, RfidStep, TagsStep DEF WaterFilterInv
<1>2. CASE VolumeChanges \/ LowUsageDelayEnds \/ CalendarMinuteEnds \/ FilterIsReset \/ FilterInputsChange
           \/ MonthMinuteEnds
  <2>1. unit = "filter life" /\ unit' = unit
    BY <1>2 DEF VolumeChanges, LowUsageDelayEnds, CalendarMinuteEnds, FilterIsReset, FilterInputsChange,
                MonthMinuteEnds, Runs
  <2> QED BY <1>2, <2>1, LifeStep, ZenonT(120) DEF WaterFilterInv
<1>3. CASE WaterFlows \/ FlowMeterIsPolled \/ MonitoringIsRequested
  <2>1. unit = "flow meter" /\ unit' = unit
    BY <1>3 DEF WaterFlows, FlowMeterIsPolled, MonitoringIsRequested, Runs
  <2> QED BY <1>3, <2>1, FlowStep DEF WaterFilterInv
<1>4. CASE WaterValveRelayChanged \/ WaterValveIsOpen
  <2>1. unit = "water volume" /\ unit' = unit
    BY <1>4 DEF WaterValveRelayChanged, WaterValveIsOpen, Runs
  <2> QED BY <1>4, <2>1, VolumeStep DEF WaterFilterInv
<1>5. CASE UNCHANGED unitVars
  BY <1>5 DEF unitVars, WaterFilterInv
<1> QED BY <1>1, <1>2, <1>3, <1>4, <1>5 DEF WaterFilterNext

\* RfidCommunicationController.c: whatever the order of doors, answers, lost
\* requests and timers, the controller has a timer or a request under way that
\* brings it on, for every set of filters and every length of the queue.
THEOREM RfidControllerStaysArmed == WaterFilterSpec => []RfidIsAlwaysArmed
<1>1. WaterFilterInv => RfidIsAlwaysArmed
  <2> SUFFICES ASSUME RfidInv(st), unit = "rfid" PROVE RfidIsAlwaysArmed
    BY DEF WaterFilterInv, RfidIsAlwaysArmed
  <2>1. CASE st.hsm = "DoorOpen"
    BY <2>1 DEF RfidInv, RfidIsAlwaysArmed
  <2>2. CASE st.hsm = "JustClosed"
    BY <2>2 DEF RfidInv, RfidIsAlwaysArmed
  <2>3. CASE st.hsm = "Read"
    BY <2>3 DEF RfidInv, RfidIsAlwaysArmed, EndsInRead
  <2>4. CASE st.hsm = "Write"
    BY <2>4 DEF RfidInv, RfidIsAlwaysArmed
  <2>5. CASE st.hsm = "Demo"
    BY <2>5 DEF RfidInv, RfidIsAlwaysArmed
  <2> QED BY <2>1, <2>2, <2>3, <2>4, <2>5 DEF RfidInv
<1>2. WaterFilterInit => WaterFilterInv
  BY WaterFilterStarts
<1>3. WaterFilterInv /\ [WaterFilterNext]_unitVars => WaterFilterInv'
  BY WaterFilterStep
<1> QED BY <1>1, <1>2, <1>3, PTL DEF WaterFilterSpec

\* RfidCommunicationController.c, RfidCommunicator.c and
\* NewFilterInstalledHandler.c: whatever filters are changed around reads and
\* writes under way, usage that a tag has counted is only lost for a filter that
\* was taken over before a write of it had arrived, no tag counts this appliance
\* twice, and a plug has no leak; for every set of filters, length of the queue and
\* number of requests until a fault.
THEOREM UsageStaysWithTheFilter == WaterFilterSpec => UsageFollowsTheFilter
<1> DEFINE Rfids == \/ FreshFoodDoorsChange \/ RfidDemoModeIsEnabled \/ ReadRequestTimeEnds \/ RfidTimeoutEnds
                    \/ FilterIsChanged \/ WaterIsUsed \/ RfidBoardAnswers \/ RequestIsLost
           Keeps == /\ \A f \in Filters : /\ f \notin st.overtaken => st'.tags[f].usage >= st.tags[f].usage
                                           /\ st'.tags[f].units <= 1
                    /\ st'.bypassPlugInstalled /\ st'.hsm # "Demo" => ~FaultIsSet(st', "leak")
<1>1. WaterFilterInit => WaterFilterInv
  BY WaterFilterStarts
<1>2. WaterFilterInv /\ [WaterFilterNext]_unitVars => WaterFilterInv'
  BY WaterFilterStep
<1>3. WaterFilterInv /\ [WaterFilterNext]_unitVars => [unit = "rfid" => Keeps]_unitVars
  <2> SUFFICES ASSUME WaterFilterInv, WaterFilterNext, unit = "rfid" PROVE Keeps
    BY DEF unitVars
  <2>1. Rfids
    BY DEF WaterFilterNext, VolumeChanges, LowUsageDelayEnds, CalendarMinuteEnds, FilterIsReset, FilterInputsChange,
           MonthMinuteEnds, WaterFlows, FlowMeterIsPolled, MonitoringIsRequested, WaterValveRelayChanged,
           WaterValveIsOpen, Runs
  <2>2. RfidInv(st) /\ TagsInv(st)
    BY DEF WaterFilterInv
  <2>3. TagsInv(st') /\ \A f \in Filters : f \notin st.overtaken => st'.tags[f].usage >= st.tags[f].usage
    BY <2>1, <2>2, TagsStep
  <2>4. \A f \in Filters : st'.tags[f].units <= 1
    <3>1. st'.tags \in [Filters -> Tags]
      BY <2>3 DEF TagsInv
    <3>2. \A f \in Filters : st'.tags[f].units \in {0, 1}
      BY <3>1 DEF Tags
    <3> QED BY <3>2
  <2>5. st'.bypassPlugInstalled /\ st'.hsm # "Demo" => ~FaultIsSet(st', "leak")
    BY <2>3 DEF TagsInv, PlugIsTight
  <2> QED BY <2>3, <2>4, <2>5
<1> QED BY <1>1, <1>2, <1>3, PTL DEF WaterFilterSpec, UsageFollowsTheFilter

\* WaterFilterLifeStatusUpdater.c and the updaters around it, FlowMeterMonitor.c,
\* WaterVolumeUsageCalculator.c and ErdAccumulatorService.c: the life of the
\* filter, the pulses of the meter and the openings of the valves stay in one
\* story, for every rating, counter width and maximum.
THEOREM WaterStaysCounted == WaterFilterSpec => []WaterIsCountedOnce
<1>1. WaterFilterInv => WaterIsCountedOnce
  <2> SUFFICES ASSUME WaterFilterInv PROVE WaterIsCountedOnce
    OBVIOUS
  <2>1. FilterLifeIsConsistent
    <3> SUFFICES ASSUME LifeInv(st) PROVE
          /\ st.status = "Expired" => st.percent = 0
          /\ st.percent = 0 => st.status # "NoOrderNecessary"
          /\ st.status # "Expired" => ~st.counting /\ st.days = 0 /\ st.dispenses = 0
          /\ st.status = "Expired" => st.counting /\ st.days = TruncatedDifference(st.calendar, RatedLife)
          /\ st.previous <= st.volume
          /\ st.lifetime > MinimumVolume => st.started
          /\ st.disabled => st.state \in {"Leak", "Error"} /\ ~st.demo
      BY DEF WaterFilterInv, FilterLifeIsConsistent
    <3>1. (st.status = "Expired" => st.percent = 0) /\ (st.percent = 0 => st.status # "NoOrderNecessary")
      BY LifeStatusFacts DEF LifeInv, Followed, Life
    <3> QED BY <3>1 DEF LifeInv, Followed, Life, Expiry, Disabling
  <2>2. FlowIsCountedOnce
    BY FlowIsCounted DEF WaterFilterInv, FlowIsCountedOnce, FlowInv, PollsCountEveryPulse
  <2>3. EveryOpeningIsCounted
    BY DEF WaterFilterInv, EveryOpeningIsCounted, VolumeInv
  <2> QED BY <2>1, <2>2, <2>3 DEF WaterIsCountedOnce
<1>2. WaterFilterInit => WaterFilterInv
  BY WaterFilterStarts
<1>3. WaterFilterInv /\ [WaterFilterNext]_unitVars => WaterFilterInv'
  BY WaterFilterStep
<1> QED BY <1>1, <1>2, <1>3, PTL DEF WaterFilterSpec

-----------------------------------------------------------------------------
=============================================================================
