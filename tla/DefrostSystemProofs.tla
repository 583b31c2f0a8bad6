------------------------- MODULE DefrostSystemProofs -------------------------
(***************************************************************************)
(* Every heater of the defrost is timed while it is on, and no state       *)
(* leaves a vote, a timer or a request behind, for every set of            *)
(* evaporators, every limit and every input of the system.  The handlers   *)
(* are operators on the record of the machine, so the argument is one      *)
(* about records: Left says what an exit leaves, Leavable and Tidy what a  *)
(* signal finds, and every handler turns what it finds into what the next  *)
(* one finds.  The second half counts the defrosts that pass over the      *)
(* primary evaporators, and takes one up again after a loss of power.  The *)
(* last part is about ReadyToDefrost, which counts the time between two    *)
(* defrosts and shares no state with the rest.                             *)
(***************************************************************************)
EXTENDS DefrostSystem, ReadyToDefrost, FiniteSetTheorems, WellFoundedInduction, TLAPS

Maxima == {MaxOnTime, MaxOnTimeInvalid, AsFreezerMaxOnTimeInvalid}

Bounded(n) == \E t \in Maxima : n <= t
Below(n) == \E t \in Maxima : n < t

\* No heater is past its time, and one that is voted on may be on longer.
OnTimes(m) ==
    \A e \in Evaporators :
        Bounded(m.onTime[e]) /\ (m.heater[e] = "On" => Below(m.onTime[e]))

\* No test request leaves HeaterOn for Idle.
HeatingEndsByItself == TestRequests \cap (HeatedRequests \cup {"Idle"}) = {}

\* No heater is voted on, and none has a vote that its evaporator's temperature
\* has cast in a heating that a test request has cut short.
NoVotes(m) ==
    \A e \in Evaporators :
        m.heater[e] # "On" /\ (HeatingEndsByItself => m.heater[e] = "DontCare")
NoTimes(m) == \A e \in Evaporators : m.onTime[e] = 0

\* Those a heating heats.
Heated(m, x) == IF m.type = "Full" THEN Evaporators ELSE Secondary(x)

\* The states before a heating.
BeforeHeating == Prechills \cup {"Idle", "HeaterOnEntry"}

\* Between two states.
Left(m) == m \in Machines /\ OnTimes(m) /\ m.loads = "None" /\ ~m.timer

LoadsOf(hsm) ==
    CASE hsm \in {"Idle", "PrechillPrep", "Disabled"} -> "None"
      [] hsm = "HeaterOnEntry" -> "HeaterOn"
      [] hsm \in {"Prechill", "HeaterOn", "Dwell", "PostDwell"} -> hsm

\* In a state that may be left: a heater that is voted on is one its exit
\* votes off, as long as the evaporators are not assigned again.
Leavable(m, x) ==
    /\ m \in Machines /\ OnTimes(m)
    /\ \A e \in Evaporators :
          /\ HeaterIsOn(m, x, e) <=> e \in m.counting
          /\ m.heater[e] = "On" => m.hsm = "HeaterOn"
          /\ DefrostState(m.hsm) # "HeaterOn" => m.onTime[e] = 0
    /\ m.hsm \in BeforeHeating => NoVotes(m) /\ NoTimes(m)
    /\ m.hsm = "HeaterOn" /\ "Convertible" \notin Evaporators =>
          \A e \in Evaporators \ Heated(m, x) : m.heater[e] # "On"
    /\ m.timer <=> m.hsm \in TimedStates
    /\ m.loads = LoadsOf(m.hsm)
    /\ m.waiting <=> m.hsm \in WaitingStates
    /\ m.defrosting <=> m.hsm \notin WaitingStates \cup {"Disabled"}

\* What a signal finds.
Tidy(m, x) == Leavable(m, x) /\ m.request = "None"

DefrostInv == erds \in Erds /\ since \in Nat /\ Tidy(defrost, erds)

\* The convertible compartment is never assigned again in a heating that is
\* cut short: a test request that leaves HeaterOn for Idle votes off the heaters
\* of the evaporators as they are assigned by then.
HeatingIsNotReassigned == "Convertible" \notin Evaporators \/ HeatingEndsByItself

-----------------------------------------------------------------------------
(***************************************************************************)
(* The records.                                                            *)
(***************************************************************************)
\* The fields of the machine have their types.
LEMMA MachineFields ==
    ASSUME NEW m \in Machines
    PROVE  /\ m.hsm \in HsmStates /\ m.type \in Types
           /\ m.override \in Types \cup {"DontCare"} /\ m.count \in 0 .. 255
           /\ m.skipTest \in BOOLEAN /\ m.skipDisable \in BOOLEAN
           /\ m.request \in TestStates /\ m.disable \in BOOLEAN
           /\ m.tooWarm \in BOOLEAN /\ m.cleared \in BOOLEAN
           /\ m.invalidThermistor \in BOOLEAN
           /\ m.abnormal \in SUBSET Evaporators /\ m.fault \in SUBSET Evaporators
           /\ m.heater \in [Evaporators -> {"On", "Off", "DontCare"}]
           /\ m.counting \in SUBSET Evaporators
           /\ m.onTime \in [Evaporators -> 0 .. 255]
           /\ m.loads \in Loads /\ m.timer \in BOOLEAN
           /\ m.waiting \in BOOLEAN /\ m.defrosting \in BOOLEAN
BY DEF Machines

\* n is m but for the fields in fs (and those no lemma here is about).
Agree(n, m, fs) ==
    /\ n \in Machines
    /\ "hsm" \notin fs => n.hsm = m.hsm
    /\ "type" \notin fs => n.type = m.type
    /\ "request" \notin fs => n.request = m.request
    /\ "heater" \notin fs => n.heater = m.heater
    /\ "counting" \notin fs => n.counting = m.counting
    /\ "onTime" \notin fs => n.onTime = m.onTime
    /\ "loads" \notin fs => n.loads = m.loads
    /\ "timer" \notin fs => n.timer = m.timer
    /\ "waiting" \notin fs => n.waiting = m.waiting
    /\ "defrosting" \notin fs => n.defrosting = m.defrosting

\* The writes of one or two fields.
LEMMA WriteFacts ==
    ASSUME NEW m \in Machines, NEW group \in Loads, NEW request \in TestStates
    PROVE  /\ Agree(VoteForLoads(m, group), m, {"loads"})
           /\ VoteForLoads(m, group).loads = group
           /\ Agree(StartDefrostTimer(m), m, {"timer"}) /\ StartDefrostTimer(m).timer
           /\ Agree([m EXCEPT !.timer = FALSE], m, {"timer"})
           /\ ~[m EXCEPT !.timer = FALSE].timer
           /\ Agree([m EXCEPT !.request = request], m, {"request"})
           /\ [m EXCEPT !.request = request].request = request
           /\ Agree(Waiting(m), m, {"waiting", "defrosting"})
           /\ Waiting(m).waiting /\ ~Waiting(m).defrosting
           /\ Agree(Defrosting(m), m, {"waiting", "defrosting"})
           /\ ~Defrosting(m).waiting /\ Defrosting(m).defrosting
           /\ Agree(SetStatus(m, FALSE, FALSE), m, {"waiting", "defrosting"})
           /\ ~SetStatus(m, FALSE, FALSE).waiting /\ ~SetStatus(m, FALSE, FALSE).defrosting
<1>1. /\ Agree(VoteForLoads(m, group), m, {"loads"})
      /\ VoteForLoads(m, group).loads = group
  BY DEF VoteForLoads, Machines, Agree
<1>2. Agree(StartDefrostTimer(m), m, {"timer"}) /\ StartDefrostTimer(m).timer
  BY ZenonT(120) DEF StartDefrostTimer, Machines, Agree
<1>3. /\ Agree([m EXCEPT !.timer = FALSE], m, {"timer"})
      /\ ~[m EXCEPT !.timer = FALSE].timer
  BY ZenonT(120) DEF Machines, Agree
<1>4. /\ Agree([m EXCEPT !.request = request], m, {"request"})
      /\ [m EXCEPT !.request = request].request = request
  BY SMTT(60) DEF Machines, Agree
<1>5. ASSUME NEW w \in BOOLEAN, NEW d \in BOOLEAN
      PROVE  /\ Agree(SetStatus(m, w, d), m, {"waiting", "defrosting"})
             /\ SetStatus(m, w, d).waiting = w /\ SetStatus(m, w, d).defrosting = d
  BY ZenonT(120) DEF SetStatus, Machines, Agree
<1> QED BY <1>1, <1>2, <1>3, <1>4, <1>5 DEF Waiting, Defrosting

\* The maxima are minutes that a counter of one byte can reach.
LEMMA MaximaFacts ==
    /\ Maxima \subseteq 1 .. 255
    /\ \A n \in Nat : Below(n) => Bounded(n) /\ Bounded(n + 1) /\ n + 1 \in 0 .. 255
    /\ Below(0)
BY DefrostAssumption, SMTT(60) DEF Maxima, Below, Bounded

\* What the counters make of the votes and of the state.
LEMMA CountFacts ==
    ASSUME NEW m \in Machines, NEW x
    PROVE  LET n == CountHeaters(m, x) IN
           /\ Agree(n, m, {"counting", "onTime"})
           /\ \A e \in Evaporators :
                 /\ e \in n.counting <=>
                       /\ HeaterIsOn(m, x, e)
                       /\ DefrostState(m.hsm) = "HeaterOn" \/ e \in m.counting
                 /\ HeaterIsOn(m, x, e) \/ DefrostState(m.hsm) = "HeaterOn" =>
                       n.onTime[e] = m.onTime[e]
                 /\ ~(HeaterIsOn(m, x, e) \/ DefrostState(m.hsm) = "HeaterOn") =>
                       n.onTime[e] = 0
<1> DEFINE on == {e \in Evaporators : HeaterIsOn(m, x, e)}
           c == IF DefrostState(m.hsm) = "HeaterOn" THEN on ELSE m.counting \cap on
           t == [e \in Evaporators |->
                    IF e \in on \/ DefrostState(m.hsm) = "HeaterOn"
                    THEN m.onTime[e] ELSE 0]
           n == [m EXCEPT !.counting = c, !.onTime = t]
<1>1. CountHeaters(m, x) = n
  BY DEF CountHeaters
<1>2. c \in SUBSET Evaporators
  BY MachineFields
<1>3. t \in [Evaporators -> 0 .. 255]
  BY MachineFields
<1>4. /\ \A e \in Evaporators : e \in c <=>
            /\ HeaterIsOn(m, x, e)
            /\ DefrostState(m.hsm) = "HeaterOn" \/ e \in m.counting
      /\ \A e \in Evaporators :
            t[e] = IF HeaterIsOn(m, x, e) \/ DefrostState(m.hsm) = "HeaterOn"
                   THEN m.onTime[e] ELSE 0
  OBVIOUS
<1> HIDE DEF c, t
<1>5. Agree(n, m, {"counting", "onTime"}) /\ n.counting = c /\ n.onTime = t
  BY <1>2, <1>3, ZenonT(120) DEF Machines, Agree
<1> HIDE DEF n
<1> QED BY <1>1, <1>4, <1>5

\* A vote for some heaters, and the counters that hear of it.
LEMMA VoteFacts ==
    ASSUME NEW m \in Machines, NEW x, NEW es, NEW vote \in {"On", "Off", "DontCare"}
    PROVE  LET n == VoteHeaters(m, x, es, vote) IN
           /\ Agree(n, m, {"heater", "counting", "onTime"})
           /\ \A e \in Evaporators :
                 /\ e \in es => n.heater[e] = vote
                 /\ e \notin es => n.heater[e] = m.heater[e]
                 /\ e \in n.counting <=>
                       /\ HeaterIsOn(n, x, e)
                       /\ DefrostState(m.hsm) = "HeaterOn" \/ e \in m.counting
                 /\ HeaterIsOn(n, x, e) \/ DefrostState(m.hsm) = "HeaterOn" =>
                       n.onTime[e] = m.onTime[e]
                 /\ ~(HeaterIsOn(n, x, e) \/ DefrostState(m.hsm) = "HeaterOn") =>
                       n.onTime[e] = 0
<1> DEFINE h == [e \in Evaporators |-> IF e \in es THEN vote ELSE m.heater[e]]
           v == [m EXCEPT !.heater = h]
           n == CountHeaters(v, x)
<1>1. VoteHeaters(m, x, es, vote) = n
  BY DEF VoteHeaters
<1>2. /\ h \in [Evaporators -> {"On", "Off", "DontCare"}]
      /\ \A e \in Evaporators : h[e] = IF e \in es THEN vote ELSE m.heater[e]
  BY MachineFields
<1> HIDE DEF h
<1>3. Agree(v, m, {"heater"}) /\ v.heater = h
  BY <1>2, SMTT(60) DEF Machines, Agree
<1> HIDE DEF v
<1>4. v \in Machines
  BY <1>3 DEF Agree
<1>5. /\ Agree(n, v, {"counting", "onTime"})
      /\ \A e \in Evaporators :
            /\ e \in n.counting <=>
                  /\ HeaterIsOn(v, x, e)
                  /\ DefrostState(v.hsm) = "HeaterOn" \/ e \in v.counting
            /\ HeaterIsOn(v, x, e) \/ DefrostState(v.hsm) = "HeaterOn" =>
                  n.onTime[e] = v.onTime[e]
            /\ ~(HeaterIsOn(v, x, e) \/ DefrostState(v.hsm) = "HeaterOn") =>
                  n.onTime[e] = 0
  BY <1>4, CountFacts
<1> HIDE DEF n
<1>6. \A e \in Evaporators : HeaterIsOn(v, x, e) <=> HeaterIsOn(n, x, e)
  BY <1>5 DEF Agree, HeaterIsOn
<1>7. Agree(n, m, {"heater", "counting", "onTime"}) /\ n.heater = h
      /\ v.hsm = m.hsm /\ v.counting = m.counting /\ v.onTime = m.onTime
  BY <1>3, <1>5 DEF Agree
<1> QED BY <1>1, <1>2, <1>5, <1>6, <1>7

\* The state changes, and the counters hear of it.
LEMMA StateFacts ==
    ASSUME NEW m \in Machines, NEW x, NEW s \in HsmStates
    PROVE  LET n == SetHsmStateTo(m, x, s) IN
           /\ Agree(n, m, {"hsm", "counting", "onTime"}) /\ n.hsm = s
           /\ \A e \in Evaporators :
                 /\ e \in n.counting <=>
                       /\ HeaterIsOn(m, x, e)
                       /\ DefrostState(s) = "HeaterOn" \/ e \in m.counting
                 /\ HeaterIsOn(m, x, e) \/ DefrostState(s) = "HeaterOn" =>
                       n.onTime[e] = m.onTime[e]
                 /\ ~(HeaterIsOn(m, x, e) \/ DefrostState(s) = "HeaterOn") =>
                       n.onTime[e] = 0
<1> DEFINE v == [m EXCEPT !.hsm = s]
           n == CountHeaters(v, x)
<1>1. SetHsmStateTo(m, x, s) = n
  BY DEF SetHsmStateTo
<1>2. Agree(v, m, {"hsm"}) /\ v.hsm = s
  BY DEF Machines, Agree
<1> HIDE DEF v
<1>3. v \in Machines
  BY <1>2 DEF Agree
<1>4. /\ Agree(n, v, {"counting", "onTime"})
      /\ \A e \in Evaporators :
            /\ e \in n.counting <=>
                  /\ HeaterIsOn(v, x, e)
                  /\ DefrostState(v.hsm) = "HeaterOn" \/ e \in v.counting
            /\ HeaterIsOn(v, x, e) \/ DefrostState(v.hsm) = "HeaterOn" =>
                  n.onTime[e] = v.onTime[e]
            /\ ~(HeaterIsOn(v, x, e) \/ DefrostState(v.hsm) = "HeaterOn") =>
                  n.onTime[e] = 0
  BY <1>3, CountFacts
<1> HIDE DEF n
<1>5. \A e \in Evaporators : HeaterIsOn(v, x, e) <=> HeaterIsOn(m, x, e)
  BY <1>2 DEF Agree, HeaterIsOn
<1>6. /\ Agree(n, m, {"hsm", "counting", "onTime"}) /\ n.hsm = s
      /\ v.counting = m.counting /\ v.onTime = m.onTime
  BY <1>2, <1>4 DEF Agree
<1> QED BY <1>1, <1>2, <1>4, <1>5, <1>6

\* A vote against heaters lets no heater run too long.
LEMMA VoteKeepsTimes ==
    ASSUME NEW m \in Machines, OnTimes(m), NEW x, NEW es, NEW vote \in {"Off", "DontCare"}
    PROVE  OnTimes(VoteHeaters(m, x, es, vote))
<1> DEFINE n == VoteHeaters(m, x, es, vote)
<1>1. \A e \in Evaporators :
         /\ e \in es => n.heater[e] = vote
         /\ e \notin es => n.heater[e] = m.heater[e]
         /\ HeaterIsOn(n, x, e) \/ DefrostState(m.hsm) = "HeaterOn" =>
               n.onTime[e] = m.onTime[e]
         /\ ~(HeaterIsOn(n, x, e) \/ DefrostState(m.hsm) = "HeaterOn") =>
               n.onTime[e] = 0
  BY VoteFacts
<1> HIDE DEF n
<1>2. Below(0) /\ Bounded(0)
  BY MaximaFacts
<1>3. OnTimes(n)
  BY <1>1, <1>2 DEF OnTimes
<1> QED BY <1>3 DEF n

-----------------------------------------------------------------------------
(***************************************************************************)
(* The exits.                                                              *)
(***************************************************************************)
\* Leaving Idle chooses what the defrost is to be.
LEMMA ExitIdleFacts ==
    ASSUME NEW m \in Machines, NEW x
    PROVE  Agree(ExitIdle(m, x), m, {"type"})
<1> DEFINE c == ClearPowerUp(m)
           type == ChosenType(c, x)
           count == IF type = "SecondaryOnly" THEN (c.count + 1) % 256 ELSE 0
           s == [c EXCEPT !.type = type, !.override = "DontCare", !.count = count]
           l == IF m.skipTest \/ m.skipDisable THEN c ELSE s
           n == [l EXCEPT !.skipTest = FALSE]
<1>1. ExitIdle(m, x) = n
  BY DEF ExitIdle, SetDefrostType
<1>2. Agree(c, m, {})
  <2>1. ASSUME NEW a \in BOOLEAN, NEW b \in BOOLEAN
        PROVE  Agree([m EXCEPT !.tooWarm = a, !.cleared = b], m, {})
    BY ZenonT(120) DEF Machines, Agree
  <2> QED BY <2>1 DEF ClearPowerUp
<1> HIDE DEF c
<1>3. c \in Machines
  BY <1>2 DEF Agree
<1>4. type \in Types
  BY <1>3, MachineFields DEF ChosenType, Types
<1> HIDE DEF type
<1>5. count \in 0 .. 255
  BY <1>3, MachineFields, SMTT(60)
<1> HIDE DEF count
<1>6. Agree(s, c, {"type"})
  BY <1>3, <1>4, <1>5, ZenonT(120) DEF Machines, Agree, Types
<1> HIDE DEF s
<1>7. Agree(l, m, {"type"})
  BY <1>2, <1>6 DEF Agree
<1> HIDE DEF l
<1>8. Agree(n, l, {})
  <2>1. l \in Machines
    BY <1>7 DEF Agree
  <2>2. ASSUME NEW b \in BOOLEAN
        PROVE  Agree([l EXCEPT !.skipTest = b], l, {})
    BY <2>1, SMTT(60) DEF Machines, Agree
  <2> QED BY <2>2
<1> HIDE DEF n
<1> QED BY <1>1, <1>7, <1>8 DEF Agree

\* Leaving a timed state ends its timer and its votes.
LEMMA ExitTimedFacts ==
    ASSUME NEW m \in Machines, NEW x, OnTimes(m)
    PROVE  LET n == ExitTimed(m, x) IN
           /\ Left(n) /\ n.request = m.request
           /\ IF m.hsm \in {"Dwell", "PostDwell"} THEN NoVotes(n)
              ELSE n.heater = m.heater /\ n.onTime = m.onTime
<1> DEFINE v == VoteForLoads(m, "None")
           l == [v EXCEPT !.timer = FALSE]
           n == VoteHeaters(l, x, Evaporators, "DontCare")
<1>1. Agree(v, m, {"loads"}) /\ v.loads = "None"
  BY WriteFacts DEF Loads, TestStates
<1>2. IF m.hsm \in {"Dwell", "PostDwell"} THEN ExitTimed(m, x) = n ELSE ExitTimed(m, x) = l
  BY DEF ExitTimed
<1> HIDE DEF v
<1>3. Agree(l, v, {"timer"}) /\ ~l.timer
  <2>1. v \in Machines
    BY <1>1 DEF Agree
  <2> QED BY <2>1, WriteFacts DEF Loads, TestStates
<1> HIDE DEF l
<1>4. Agree(l, m, {"loads", "timer"}) /\ l.loads = "None" /\ l \in Machines /\ OnTimes(l)
  BY <1>1, <1>3 DEF Agree, OnTimes
<1>5. /\ Agree(n, l, {"heater", "counting", "onTime"}) /\ OnTimes(n)
      /\ NoVotes(n)
  BY <1>4, VoteFacts, VoteKeepsTimes DEF NoVotes
<1> HIDE DEF n
<1>6. Left(l) /\ l.request = m.request /\ l.heater = m.heater /\ l.onTime = m.onTime
  BY <1>3, <1>4 DEF Left, Agree
<1>7. Left(n) /\ n.request = m.request
  BY <1>3, <1>4, <1>5 DEF Left, Agree
<1> QED BY <1>2, <1>5, <1>6, <1>7

\* Leaving HeaterOn votes for no heater of its heating.
LEMMA ExitHeaterOnFacts ==
    ASSUME NEW m \in Machines, NEW x, OnTimes(m), ~m.timer
    PROVE  LET n == ExitHeaterOn(m, x) IN
           /\ Left(n) /\ n.request = m.request
           /\ \A e \in Evaporators :
                 IF e \in Heated(m, x) THEN n.heater[e] = "DontCare"
                 ELSE n.heater[e] = m.heater[e]
<1> DEFINE b == m.invalidThermistor /\ ~PrimaryAndSecondaryEvaporatorsAreAllValid(x)
           i == [m EXCEPT !.invalidThermistor = b]
           v == VoteForLoads(i, "None")
           es == IF m.type = "Full" THEN Evaporators ELSE Secondary(x)
           n == VoteHeaters(v, x, es, "DontCare")
<1>1. b \in BOOLEAN
  OBVIOUS
<1>2. ExitHeaterOn(m, x) = n
  BY DEF ExitHeaterOn
<1> HIDE DEF b
<1>3. Agree(i, m, {})
  BY <1>1 DEF Machines, Agree
<1> HIDE DEF i
<1>4. Agree(v, i, {"loads"}) /\ v.loads = "None"
  <2>1. i \in Machines
    BY <1>3 DEF Agree
  <2> QED BY <2>1, WriteFacts DEF Loads, TestStates
<1> HIDE DEF v
<1>5. Agree(v, m, {"loads"}) /\ v \in Machines /\ OnTimes(v)
  BY <1>3, <1>4 DEF Agree, OnTimes
<1>6. es = Heated(m, x)
  BY DEF Heated
<1> HIDE DEF es
<1>7. /\ Agree(n, v, {"heater", "counting", "onTime"}) /\ OnTimes(n)
      /\ \A e \in Evaporators :
            /\ e \in es => n.heater[e] = "DontCare"
            /\ e \notin es => n.heater[e] = v.heater[e]
  BY <1>5, VoteFacts, VoteKeepsTimes
<1> HIDE DEF n
<1>8. Left(n) /\ n.request = m.request
  BY <1>4, <1>5, <1>7 DEF Left, Agree
<1>9. v.heater = m.heater
  BY <1>5 DEF Agree
<1> QED BY <1>2, <1>6, <1>7, <1>8, <1>9

\* Leaving Disabled votes for no heater.
LEMMA ExitDisabledFacts ==
    ASSUME NEW m \in Machines, NEW x, OnTimes(m), ~m.timer, m.loads = "None"
    PROVE  LET n == ExitDisabled(m, x) IN
           Left(n) /\ n.request = m.request /\ NoVotes(n)
<1> DEFINE i == [m EXCEPT !.skipDisable = FALSE]
           n == VoteHeaters(i, x, Evaporators, "DontCare")
<1>1. ExitDisabled(m, x) = n
  BY DEF ExitDisabled
<1>2. Agree(i, m, {})
  BY ZenonT(120) DEF Machines, Agree
<1> HIDE DEF i
<1>3. i \in Machines /\ OnTimes(i)
  BY <1>2 DEF Agree, OnTimes
<1>4. Agree(n, i, {"heater", "counting", "onTime"}) /\ OnTimes(n) /\ NoVotes(n)
  BY <1>3, VoteFacts, VoteKeepsTimes DEF NoVotes
<1> HIDE DEF n
<1> QED BY <1>1, <1>2, <1>4 DEF Left, Agree

\* Every state leaves no vote for a load and no timer, and every state but
\* a heating whose evaporators may be assigned again no vote for a heater.
LEMMA ExitFacts ==
    ASSUME NEW m, NEW x, Leavable(m, x)
    PROVE  LET n == Exit(m, x) IN
           /\ Left(n) /\ n.request = m.request
           /\ m.hsm \in BeforeHeating => NoVotes(n) /\ NoTimes(n)
           /\ m.hsm # "HeaterOn" => NoVotes(n)
           /\ "Convertible" \notin Evaporators /\ ~HeatingEndsByItself => NoVotes(n)
<1> DEFINE n == Exit(m, x)
<1>0. m \in Machines /\ m.hsm \in HsmStates /\ OnTimes(m)
  BY MachineFields DEF Leavable
<1>1. CASE m.hsm = "Idle"
  <2>1. n = ExitIdle(m, x)
    BY <1>1 DEF Exit
  <2> HIDE DEF n
  <2>2. Agree(n, m, {"type"})
    BY <1>0, <2>1, ExitIdleFacts
  <2>3. /\ ~m.timer /\ m.loads = "None" /\ NoVotes(m) /\ NoTimes(m)
    BY <1>1 DEF Leavable, BeforeHeating, TimedStates, Prechills, LoadsOf
  <2>4. /\ n \in Machines /\ n.loads = m.loads /\ n.timer = m.timer
        /\ n.heater = m.heater /\ n.onTime = m.onTime /\ n.request = m.request
    BY <2>2 DEF Agree
  <2>5. Left(n) /\ n.request = m.request /\ NoVotes(n) /\ NoTimes(n)
    BY <1>0, <2>3, <2>4 DEF Left, NoVotes, NoTimes, OnTimes
  <2> QED BY <2>5 DEF n
<1>2. CASE m.hsm = "HeaterOn"
  <2>1. n = ExitHeaterOn(m, x)
    BY <1>2 DEF Exit
  <2>2. ~m.timer /\ m.hsm \notin BeforeHeating
    BY <1>2 DEF Leavable, TimedStates, Prechills, BeforeHeating
  <2> HIDE DEF n
  <2>3. /\ Left(n) /\ n.request = m.request
        /\ \A e \in Evaporators :
              IF e \in Heated(m, x) THEN n.heater[e] = "DontCare"
              ELSE n.heater[e] = m.heater[e]
    BY <1>0, <2>1, <2>2, ExitHeaterOnFacts
  <2>4. "Convertible" \notin Evaporators /\ ~HeatingEndsByItself => NoVotes(n)
    BY <1>2, <2>3 DEF Leavable, NoVotes
  <2> QED BY <1>2, <2>2, <2>3, <2>4 DEF n
<1>3. CASE m.hsm = "Disabled"
  <2>1. n = ExitDisabled(m, x)
    BY <1>3 DEF Exit
  <2>2. ~m.timer /\ m.loads = "None" /\ m.hsm \notin BeforeHeating
    BY <1>3 DEF Leavable, TimedStates, Prechills, LoadsOf, BeforeHeating
  <2> HIDE DEF n
  <2>3. Left(n) /\ n.request = m.request /\ NoVotes(n)
    BY <1>0, <2>1, <2>2, ExitDisabledFacts
  <2> QED BY <2>2, <2>3 DEF n
<1>4. CASE m.hsm \in TimedStates
  <2>1. n = ExitTimed(m, x)
    BY <1>4 DEF Exit, TimedStates, Prechills
  <2> HIDE DEF n
  <2>2. /\ Left(n) /\ n.request = m.request
        /\ IF m.hsm \in {"Dwell", "PostDwell"} THEN NoVotes(n)
           ELSE n.heater = m.heater /\ n.onTime = m.onTime
    BY <1>0, <2>1, ExitTimedFacts
  <2>3. m.hsm \in BeforeHeating \/ m.hsm \in {"Dwell", "PostDwell"}
    BY <1>4 DEF TimedStates, BeforeHeating
  <2>4. m.hsm \in BeforeHeating => NoVotes(m) /\ NoTimes(m) /\ m.hsm \notin {"Dwell", "PostDwell"}
    BY DEF Leavable, BeforeHeating, Prechills
  <2>5. m.hsm \in BeforeHeating => NoVotes(n) /\ NoTimes(n)
    BY <2>2, <2>4 DEF NoVotes, NoTimes
  <2> QED BY <2>2, <2>3, <2>5 DEF n
<1> QED BY <1>0, <1>1, <1>2, <1>3, <1>4 DEF HsmStates, TimedStates

-----------------------------------------------------------------------------
(***************************************************************************)
(* The entries.                                                            *)
(***************************************************************************)
\* HeaterOnEntry waits with the loads off.
LEMMA EnterHeaterOnEntryFacts ==
    ASSUME NEW m, NEW x, Left(m), NoVotes(m), NoTimes(m)
    PROVE  Tidy(EnterHeaterOnEntry(m, x), x)
<1> DEFINE d == Defrosting(m)
           s == SetHsmStateTo(d, x, "HeaterOnEntry")
           c == ClearDefrostTestStateRequest(s)
           l == VoteForLoads(c, "HeaterOn")
           n == StartDefrostTimer(l)
<1>0. m \in Machines
  BY DEF Left
<1>1. EnterHeaterOnEntry(m, x) = n
  BY DEF EnterHeaterOnEntry
<1>2. Agree(d, m, {"waiting", "defrosting"}) /\ ~d.waiting /\ d.defrosting
  BY <1>0, WriteFacts DEF Loads, TestStates
<1> HIDE DEF d
<1>3. d \in Machines
  BY <1>2 DEF Agree
<1>4. /\ Agree(s, d, {"hsm", "counting", "onTime"}) /\ s.hsm = "HeaterOnEntry"
      /\ \A e \in Evaporators :
            /\ e \in s.counting => HeaterIsOn(d, x, e)
            /\ s.onTime[e] = d.onTime[e]
  BY <1>3, StateFacts DEF HsmStates, DefrostState
<1> HIDE DEF s
<1>5. s \in Machines
  BY <1>4 DEF Agree
<1>6. Agree(c, s, {"request"}) /\ c.request = "None"
  BY <1>5, WriteFacts DEF ClearDefrostTestStateRequest, Loads, TestStates
<1> HIDE DEF c
<1>7. c \in Machines
  BY <1>6 DEF Agree
<1>8. Agree(l, c, {"loads"}) /\ l.loads = "HeaterOn"
  BY <1>7, WriteFacts DEF Loads, TestStates
<1> HIDE DEF l
<1>9. l \in Machines
  BY <1>8 DEF Agree
<1>10. Agree(n, l, {"timer"}) /\ n.timer
  BY <1>9, WriteFacts DEF Loads, TestStates
<1> HIDE DEF n
<1>11. /\ n \in Machines /\ n.hsm = "HeaterOnEntry" /\ n.timer /\ n.loads = "HeaterOn"
       /\ ~n.waiting /\ n.defrosting /\ n.request = "None"
       /\ n.heater = m.heater /\ n.counting = s.counting /\ n.onTime = s.onTime
       /\ d.heater = m.heater /\ d.onTime = m.onTime
  BY <1>2, <1>4, <1>6, <1>8, <1>10, ZenonT(120) DEF Agree
<1>12. /\ NoVotes(n) /\ NoTimes(n)
       /\ \A e \in Evaporators : e \notin n.counting
  BY <1>4, <1>11 DEF NoVotes, NoTimes, HeaterIsOn
<1>13. OnTimes(n)
  BY <1>12, MaximaFacts DEF OnTimes, NoVotes, NoTimes
<1>14. \A e \in Evaporators : HeaterIsOn(n, x, e) <=> e \in n.counting
  BY <1>12 DEF NoVotes, HeaterIsOn
<1>15. Tidy(n, x)
  BY <1>11, <1>12, <1>13, <1>14
     DEF Tidy, Leavable, NoVotes, NoTimes, TimedStates, Prechills, LoadsOf, WaitingStates
<1> QED BY <1>1, <1>15

\* HeaterOn turns the heaters on, whose times start at none.
LEMMA EnterHeaterOnFacts ==
    ASSUME NEW m, NEW x, Left(m), NoVotes(m), NoTimes(m), m.request = "None"
    PROVE  Tidy(EnterHeaterOn(m, x), x)
<1> DEFINE d == Defrosting(m)
           s == SetHsmStateTo(d, x, "HeaterOn")
           l == VoteForLoads(s, "HeaterOn")
           es == IF m.type = "Full" THEN Evaporators ELSE Secondary(x)
           n == VoteHeaters(l, x, es, "On")
<1>0. m \in Machines
  BY DEF Left
<1>1. EnterHeaterOn(m, x) = n
  BY DEF EnterHeaterOn
<1>2. Agree(d, m, {"waiting", "defrosting"}) /\ ~d.waiting /\ d.defrosting
  BY <1>0, WriteFacts DEF Loads, TestStates
<1> HIDE DEF d
<1>3. d \in Machines
  BY <1>2 DEF Agree
<1>4. /\ Agree(s, d, {"hsm", "counting", "onTime"}) /\ s.hsm = "HeaterOn"
      /\ \A e \in Evaporators : s.onTime[e] = d.onTime[e]
  BY <1>3, StateFacts DEF HsmStates, DefrostState
<1> HIDE DEF s
<1>5. s \in Machines
  BY <1>4 DEF Agree
<1>6. Agree(l, s, {"loads"}) /\ l.loads = "HeaterOn"
  BY <1>5, WriteFacts DEF Loads, TestStates
<1> HIDE DEF l
<1>7. l \in Machines /\ l.hsm = "HeaterOn"
  BY <1>4, <1>6 DEF Agree
<1>8. /\ Agree(n, l, {"heater", "counting", "onTime"})
      /\ \A e \in Evaporators :
            /\ e \notin es => n.heater[e] = l.heater[e]
            /\ HeaterIsOn(n, x, e) <=> e \in n.counting
            /\ n.onTime[e] = l.onTime[e]
  BY <1>7, VoteFacts DEF DefrostState
<1>9. es = IF n.type = "Full" THEN Evaporators ELSE Secondary(x)
  BY <1>2, <1>4, <1>6, <1>8 DEF Agree
<1>10. es = Heated(n, x)
  BY <1>9 DEF Heated
<1> HIDE DEF n, es
<1>11. /\ n \in Machines /\ n.hsm = "HeaterOn" /\ ~n.timer /\ n.loads = "HeaterOn"
       /\ ~n.waiting /\ n.defrosting /\ n.request = "None"
       /\ l.heater = m.heater /\ l.onTime = s.onTime /\ d.onTime = m.onTime
  BY <1>2, <1>4, <1>6, <1>8, ZenonT(120) DEF Agree, Left
<1>12. /\ NoTimes(n)
       /\ \A e \in Evaporators \ Heated(n, x) : n.heater[e] # "On"
  BY <1>4, <1>8, <1>10, <1>11 DEF NoVotes, NoTimes
<1>13. OnTimes(n)
  BY <1>12, MaximaFacts DEF OnTimes, NoTimes
<1>14. Tidy(n, x)
  BY <1>8, <1>11, <1>12, <1>13
     DEF Tidy, Leavable, BeforeHeating, DefrostState, TimedStates, Prechills, LoadsOf,
         WaitingStates
<1> QED BY <1>1, <1>14

\* The part of the entries of Prechill and PrechillPrep that may go on: the
\* state is entered, and nothing is started yet.
LEMMA EnterUnheatedFacts ==
    ASSUME NEW m, NEW x, Left(m), NoVotes(m), NoTimes(m), NEW s \in HsmStates
    PROVE  LET n == SetHsmStateTo(Defrosting(m), x, s) IN
           /\ Left(n) /\ NoVotes(n) /\ NoTimes(n) /\ n.counting = {}
           /\ n.hsm = s /\ n.request = m.request /\ ~n.waiting /\ n.defrosting
<1> DEFINE d == Defrosting(m)
           n == SetHsmStateTo(d, x, s)
<1>0. m \in Machines
  BY DEF Left
<1>1. Agree(d, m, {"waiting", "defrosting"}) /\ ~d.waiting /\ d.defrosting
  BY <1>0, WriteFacts DEF Loads, TestStates
<1> HIDE DEF d
<1>2. d \in Machines /\ d.heater = m.heater /\ d.onTime = m.onTime
  BY <1>1 DEF Agree
<1>3. /\ Agree(n, d, {"hsm", "counting", "onTime"}) /\ n.hsm = s
      /\ \A e \in Evaporators :
            /\ e \in n.counting => HeaterIsOn(d, x, e)
            /\ n.onTime[e] = d.onTime[e] \/ n.onTime[e] = 0
  BY <1>2, StateFacts
<1> HIDE DEF n
<1>4. /\ n \in Machines /\ n.heater = m.heater /\ n.request = m.request
      /\ ~n.waiting /\ n.defrosting /\ ~n.timer /\ n.loads = "None"
  BY <1>1, <1>3 DEF Agree, Left
<1>5. NoVotes(n) /\ NoTimes(n)
  BY <1>2, <1>3, <1>4 DEF NoVotes, NoTimes
<1>6. n.counting = {}
  <2>1. \A e \in Evaporators : e \notin n.counting
    BY <1>2, <1>3 DEF NoVotes, HeaterIsOn
  <2>2. n.counting \subseteq Evaporators
    BY <1>4, MachineFields
  <2> QED BY <2>1, <2>2
<1>7. OnTimes(n)
  BY <1>5, MaximaFacts DEF OnTimes, NoTimes, NoVotes
<1>8. Left(n)
  BY <1>4, <1>7 DEF Left
<1> QED BY <1>3, <1>4, <1>5, <1>6, <1>8 DEF n, d

\* Prechill may be over at once.
LEMMA EnterPrechillFacts ==
    ASSUME NEW m, NEW x, NEW now, Left(m), NoVotes(m), NoTimes(m), m.request = "None"
    PROVE  Tidy(EnterPrechill(m, x, now), x)
<1> DEFINE s == SetHsmStateTo(Defrosting(m), x, "Prechill")
           l == VoteForLoads(s, "Prechill")
           o == ExitTimed(l, x)
           n == StartDefrostTimer(l)
<1>1. /\ PrechillExitConditionMet(x, now) => EnterPrechill(m, x, now) = EnterHeaterOnEntry(o, x)
      /\ ~PrechillExitConditionMet(x, now) => EnterPrechill(m, x, now) = n
  BY DEF EnterPrechill
<1>2. "Prechill" \in HsmStates
  BY DEF HsmStates, Prechills
<1>3. /\ Left(s) /\ NoVotes(s) /\ NoTimes(s) /\ s.counting = {}
      /\ s.hsm = "Prechill" /\ s.request = m.request /\ ~s.waiting /\ s.defrosting
  BY <1>2, EnterUnheatedFacts
<1> HIDE DEF s
<1>4. s \in Machines
  BY <1>3 DEF Left
<1>5. Agree(l, s, {"loads"}) /\ l.loads = "Prechill"
  BY <1>4, WriteFacts DEF Loads, TestStates
<1> HIDE DEF l
<1>6. /\ l \in Machines /\ l.hsm = "Prechill" /\ OnTimes(l) /\ NoVotes(l) /\ NoTimes(l)
      /\ l.counting = {} /\ l.request = "None" /\ ~l.waiting /\ l.defrosting
  BY <1>3, <1>5, ZenonT(120) DEF Agree, Left, OnTimes, NoVotes, NoTimes
<1>7. Left(o) /\ NoVotes(o) /\ NoTimes(o)
  <2>1. Left(o) /\ o.heater = l.heater /\ o.onTime = l.onTime
    BY <1>6, ExitTimedFacts
  <2> QED BY <1>6, <2>1 DEF NoVotes, NoTimes
<1> HIDE DEF o
<1>8. Tidy(EnterHeaterOnEntry(o, x), x)
  BY <1>7, EnterHeaterOnEntryFacts
<1>9. Agree(n, l, {"timer"}) /\ n.timer
  BY <1>6, WriteFacts DEF Loads, TestStates
<1> HIDE DEF n
<1>10. /\ n \in Machines /\ n.hsm = "Prechill" /\ OnTimes(n) /\ NoVotes(n) /\ NoTimes(n)
       /\ n.counting = {} /\ n.request = "None" /\ ~n.waiting /\ n.defrosting
       /\ n.loads = "Prechill" /\ n.timer
  BY <1>5, <1>6, <1>9, ZenonT(120) DEF Agree, OnTimes, NoVotes, NoTimes
<1>11. Tidy(n, x)
  BY <1>10
     DEF Tidy, Leavable, NoVotes, NoTimes, HeaterIsOn, DefrostState, TimedStates, Prechills,
         LoadsOf, WaitingStates
<1> QED BY <1>1, <1>8, <1>11

\* PrechillPrep may be skipped, or be over at once.
LEMMA EnterPrechillPrepFacts ==
    ASSUME NEW m, NEW x, NEW now, Left(m), NoVotes(m), NoTimes(m)
    PROVE  Tidy(EnterPrechillPrep(m, x, now), x)
<1> DEFINE s == SetHsmStateTo(Defrosting(m), x, "PrechillPrep")
           a == [s EXCEPT !.dontSkipPrechill = FALSE, !.aham = FALSE]
           c == ClearDefrostTestStateRequest(a)
           o == ExitTimed(c, x)
           n == StartDefrostTimer(c)
<1>1. EnterPrechillPrep(m, x, now) =
         IF AnyDiscoveredIsInvalid(x) THEN EnterHeaterOnEntry(m, x)
         ELSE IF PrechillConditionsAreMet(x, now) THEN EnterPrechill(o, x, now) ELSE n
  BY DEF EnterPrechillPrep
<1>2. "PrechillPrep" \in HsmStates
  BY DEF HsmStates, Prechills
<1>3. /\ Left(s) /\ NoVotes(s) /\ NoTimes(s) /\ s.counting = {}
      /\ s.hsm = "PrechillPrep" /\ s.request = m.request /\ ~s.waiting /\ s.defrosting
  BY <1>2, EnterUnheatedFacts
<1> HIDE DEF s
<1>4. s \in Machines
  BY <1>3 DEF Left
<1>5. Agree(a, s, {})
  <2>1. ASSUME NEW f \in BOOLEAN, NEW g \in BOOLEAN
        PROVE  Agree([s EXCEPT !.dontSkipPrechill = f, !.aham = g], s, {})
    BY <1>4, ZenonT(120) DEF Machines, Agree
  <2> QED BY <2>1
<1> HIDE DEF a
<1>6. a \in Machines
  BY <1>5 DEF Agree
<1>7. Agree(c, a, {"request"}) /\ c.request = "None"
  BY <1>6, WriteFacts DEF ClearDefrostTestStateRequest, Loads, TestStates
<1> HIDE DEF c
<1>8. /\ c \in Machines /\ c.hsm = "PrechillPrep" /\ OnTimes(c) /\ NoVotes(c) /\ NoTimes(c)
      /\ c.counting = {} /\ ~c.waiting /\ c.defrosting /\ c.loads = "None"
  <2>1. /\ c \in Machines /\ c.hsm = "PrechillPrep"
        /\ c.heater = s.heater /\ c.onTime = s.onTime
    BY <1>3, <1>5, <1>7 DEF Agree
  <2>2. c.counting = {} /\ ~c.waiting /\ c.defrosting /\ c.loads = "None"
    BY <1>3, <1>5, <1>7 DEF Agree, Left
  <2>3. OnTimes(c) /\ NoVotes(c) /\ NoTimes(c)
    BY <1>3, <2>1 DEF Left, OnTimes, NoVotes, NoTimes
  <2> QED BY <2>1, <2>2, <2>3
<1>9. Left(o) /\ NoVotes(o) /\ NoTimes(o) /\ o.request = "None"
  <2>1. Left(o) /\ o.heater = c.heater /\ o.onTime = c.onTime /\ o.request = c.request
    BY <1>8, ExitTimedFacts
  <2> QED BY <1>7, <1>8, <2>1 DEF NoVotes, NoTimes
<1> HIDE DEF o
<1>10. Tidy(EnterPrechill(o, x, now), x) /\ Tidy(EnterHeaterOnEntry(m, x), x)
  BY <1>9, EnterPrechillFacts, EnterHeaterOnEntryFacts
<1>11. Agree(n, c, {"timer"}) /\ n.timer
  BY <1>8, WriteFacts DEF Loads, TestStates
<1> HIDE DEF n
<1>12. /\ n \in Machines /\ n.hsm = "PrechillPrep" /\ OnTimes(n) /\ NoVotes(n) /\ NoTimes(n)
       /\ n.counting = {} /\ n.request = "None" /\ ~n.waiting /\ n.defrosting
       /\ n.loads = "None" /\ n.timer
  BY <1>7, <1>8, <1>11, ZenonT(120) DEF Agree, OnTimes, NoVotes, NoTimes
<1>13. Tidy(n, x)
  BY <1>12
     DEF Tidy, Leavable, NoVotes, NoTimes, HeaterIsOn, DefrostState, TimedStates, Prechills,
         LoadsOf, WaitingStates
<1> QED BY <1>1, <1>10, <1>13

\* The requests that Idle serves.
IdleRequests == {"None", "Idle", "Prechill", "Defrost"}

\* Idle is where nothing is left, but a request that leaves it at once.
LEMMA SetIdleFacts ==
    ASSUME NEW m, NEW x, Left(m), NoVotes(m)
    PROVE  LET n == SetHsmStateTo(Waiting(m), x, "Idle") IN
           Leavable(n, x) /\ n.hsm = "Idle" /\ n.request = m.request
<1> DEFINE d == Waiting(m)
           n == SetHsmStateTo(d, x, "Idle")
<1>0. m \in Machines
  BY DEF Left
<1>1. Agree(d, m, {"waiting", "defrosting"}) /\ d.waiting /\ ~d.defrosting
  BY <1>0, WriteFacts DEF Loads, TestStates
<1> HIDE DEF d
<1>2. d \in Machines /\ d.heater = m.heater
  BY <1>1 DEF Agree
<1>3. \A e \in Evaporators : ~HeaterIsOn(d, x, e)
  BY <1>2 DEF NoVotes, HeaterIsOn
<1>4. /\ Agree(n, d, {"hsm", "counting", "onTime"}) /\ n.hsm = "Idle"
      /\ \A e \in Evaporators : e \notin n.counting /\ n.onTime[e] = 0
  BY <1>2, <1>3, StateFacts DEF HsmStates, DefrostState
<1> HIDE DEF n
<1>5. /\ n \in Machines /\ n.heater = m.heater /\ n.request = m.request
      /\ n.waiting /\ ~n.defrosting /\ ~n.timer /\ n.loads = "None"
  BY <1>1, <1>4, ZenonT(120) DEF Agree, Left
<1>6. NoVotes(n) /\ NoTimes(n)
  BY <1>4, <1>5 DEF NoVotes, NoTimes
<1>7. OnTimes(n)
  BY <1>6, MaximaFacts DEF OnTimes, NoTimes, NoVotes
<1>8. Leavable(n, x)
  BY <1>4, <1>5, <1>6, <1>7
     DEF Leavable, NoVotes, NoTimes, HeaterIsOn, DefrostState, TimedStates, Prechills,
         LoadsOf, WaitingStates
<1> QED BY <1>4, <1>5, <1>8 DEF n, d

\* Idle serves a test request.
LEMMA EnterIdleFacts ==
    ASSUME NEW m, NEW x, NEW now, Left(m), NoVotes(m), m.request \in IdleRequests
    PROVE  Tidy(EnterIdle(m, x, now), x)
<1> DEFINE s == SetHsmStateTo(Waiting(m), x, "Idle")
           o == ExitIdle(s, x)
           c == ClearDefrostTestStateRequest(s)
<1>1. EnterIdle(m, x, now) =
         CASE m.request = "Prechill" -> EnterPrechillPrep(o, x, now)
           [] m.request = "Defrost" -> EnterHeaterOnEntry(o, x)
           [] m.request = "Idle" -> c
           [] OTHER -> s
  BY DEF EnterIdle
<1>2. Leavable(s, x) /\ s.hsm = "Idle" /\ s.request = m.request
  BY SetIdleFacts
<1> HIDE DEF s
<1>3. Exit(s, x) = o
  BY <1>2 DEF Exit
<1>4. Left(o) /\ NoVotes(o) /\ NoTimes(o)
  BY <1>2, <1>3, ExitFacts DEF BeforeHeating
<1> HIDE DEF o
<1>5. Tidy(EnterPrechillPrep(o, x, now), x) /\ Tidy(EnterHeaterOnEntry(o, x), x)
  BY <1>4, EnterPrechillPrepFacts, EnterHeaterOnEntryFacts
<1>6. Agree(c, s, {"request"}) /\ c.request = "None"
  <2>1. s \in Machines
    BY <1>2 DEF Leavable
  <2> QED BY <2>1, WriteFacts DEF ClearDefrostTestStateRequest, Loads, TestStates
<1> HIDE DEF c
<1>7. Tidy(c, x)
  BY <1>2, <1>6
     DEF Agree, Tidy, Leavable, OnTimes, NoVotes, NoTimes, HeaterIsOn, Heated
<1>8. m.request = "None" => Tidy(s, x)
  BY <1>2 DEF Tidy
<1> QED BY <1>1, <1>5, <1>7, <1>8 DEF IdleRequests

\* All heaters are voted off outside a heating: none is on and none has a time.
LEMMA AllOffFacts ==
    ASSUME NEW m \in Machines, NEW x, DefrostState(m.hsm) # "HeaterOn"
    PROVE  LET n == VoteHeaters(m, x, Evaporators, "Off") IN
           /\ Agree(n, m, {"heater", "counting", "onTime"})
           /\ OnTimes(n) /\ NoTimes(n)
           /\ \A e \in Evaporators : n.heater[e] = "Off" /\ e \notin n.counting
<1> DEFINE n == VoteHeaters(m, x, Evaporators, "Off")
<1>1. /\ Agree(n, m, {"heater", "counting", "onTime"})
      /\ \A e \in Evaporators :
            /\ n.heater[e] = "Off"
            /\ e \in n.counting => HeaterIsOn(n, x, e)
            /\ ~HeaterIsOn(n, x, e) => n.onTime[e] = 0
  BY VoteFacts
<1> HIDE DEF n
<1>2. \A e \in Evaporators : e \notin n.counting /\ n.onTime[e] = 0
  BY <1>1 DEF HeaterIsOn
<1>3. OnTimes(n) /\ NoTimes(n)
  BY <1>1, <1>2, MaximaFacts DEF OnTimes, NoTimes
<1> QED BY <1>1, <1>2, <1>3 DEF n

\* Dwell votes off what a heating may have left on.
LEMMA EnterDwellFacts ==
    ASSUME NEW m, NEW x, Left(m)
    PROVE  Tidy(EnterDwell(m, x), x)
<1> DEFINE d == Defrosting(m)
           s == SetHsmStateTo(d, x, "Dwell")
           h == [s EXCEPT !.homing = TRUE]
           l == VoteForLoads(h, "Dwell")
           v == VoteHeaters(l, x, Evaporators, "Off")
           a == StartDefrostTimer(v)
           n == ClearDefrostTestStateRequest(a)
<1>0. m \in Machines
  BY DEF Left
<1>1. EnterDwell(m, x) = n
  BY DEF EnterDwell
<1>2. Agree(d, m, {"waiting", "defrosting"}) /\ ~d.waiting /\ d.defrosting
  BY <1>0, WriteFacts DEF Loads, TestStates
<1> HIDE DEF d
<1>3. d \in Machines
  BY <1>2 DEF Agree
<1>4. Agree(s, d, {"hsm", "counting", "onTime"}) /\ s.hsm = "Dwell"
  BY <1>3, StateFacts DEF HsmStates
<1> HIDE DEF s
<1>5. s \in Machines
  BY <1>4 DEF Agree
<1>6. Agree(h, s, {})
  <2>1. ASSUME NEW b \in BOOLEAN
        PROVE  Agree([s EXCEPT !.homing = b], s, {})
    BY <1>5 DEF Machines, Agree
  <2> QED BY <2>1
<1> HIDE DEF h
<1>7. h \in Machines
  BY <1>6 DEF Agree
<1>8. Agree(l, h, {"loads"}) /\ l.loads = "Dwell"
  BY <1>7, WriteFacts DEF Loads, TestStates
<1> HIDE DEF l
<1>9. l \in Machines /\ l.hsm = "Dwell"
  BY <1>4, <1>6, <1>8 DEF Agree
<1>10. /\ Agree(v, l, {"heater", "counting", "onTime"})
       /\ OnTimes(v) /\ NoTimes(v)
       /\ \A e \in Evaporators : v.heater[e] = "Off" /\ e \notin v.counting
  BY <1>9, AllOffFacts DEF DefrostState
<1> HIDE DEF v
<1>11. v \in Machines
  BY <1>10 DEF Agree
<1>12. Agree(a, v, {"timer"}) /\ a.timer
  BY <1>11, WriteFacts DEF Loads, TestStates
<1> HIDE DEF a
<1>13. a \in Machines
  BY <1>12 DEF Agree
<1>14. Agree(n, a, {"request"}) /\ n.request = "None"
  BY <1>13, WriteFacts DEF ClearDefrostTestStateRequest, Loads, TestStates
<1> HIDE DEF n
<1>15. /\ n \in Machines /\ n.hsm = "Dwell" /\ n.timer /\ n.loads = "Dwell"
       /\ ~n.waiting /\ n.defrosting
       /\ n.heater = v.heater /\ n.counting = v.counting /\ n.onTime = v.onTime
  <2>1. n \in Machines /\ n.hsm = "Dwell" /\ n.timer /\ n.loads = "Dwell"
    BY <1>8, <1>9, <1>10, <1>12, <1>14, ZenonT(120) DEF Agree
  <2>2. ~n.waiting /\ n.defrosting
    BY <1>2, <1>4, <1>6, <1>8, <1>10, <1>12, <1>14, ZenonT(120) DEF Agree
  <2>3. n.heater = v.heater /\ n.counting = v.counting /\ n.onTime = v.onTime
    BY <1>12, <1>14 DEF Agree
  <2> QED BY <2>1, <2>2, <2>3
<1>16. OnTimes(n) /\ NoTimes(n)
  BY <1>10, <1>15 DEF OnTimes, NoTimes
<1>17. Tidy(n, x)
  BY <1>10, <1>14, <1>15, <1>16
     DEF Tidy, Leavable, NoTimes, HeaterIsOn, BeforeHeating, DefrostState, TimedStates,
         Prechills, LoadsOf, WaitingStates
<1> QED BY <1>1, <1>17

\* PostDwell votes the same.
LEMMA EnterPostDwellFacts ==
    ASSUME NEW m, NEW x, Left(m), m.request = "None"
    PROVE  Tidy(EnterPostDwell(m, x), x)
<1> DEFINE d == Waiting(m)
           s == SetHsmStateTo(d, x, "PostDwell")
           l == VoteForLoads(s, "PostDwell")
           v == VoteHeaters(l, x, Evaporators, "Off")
           n == StartDefrostTimer(v)
<1>0. m \in Machines
  BY DEF Left
<1>1. EnterPostDwell(m, x) = n
  BY DEF EnterPostDwell
<1>2. Agree(d, m, {"waiting", "defrosting"}) /\ d.waiting /\ ~d.defrosting
  BY <1>0, WriteFacts DEF Loads, TestStates
<1> HIDE DEF d
<1>3. d \in Machines
  BY <1>2 DEF Agree
<1>4. Agree(s, d, {"hsm", "counting", "onTime"}) /\ s.hsm = "PostDwell"
  BY <1>3, StateFacts DEF HsmStates
<1> HIDE DEF s
<1>5. s \in Machines
  BY <1>4 DEF Agree
<1>6. Agree(l, s, {"loads"}) /\ l.loads = "PostDwell"
  BY <1>5, WriteFacts DEF Loads, TestStates
<1> HIDE DEF l
<1>7. l \in Machines /\ l.hsm = "PostDwell"
  BY <1>4, <1>6 DEF Agree
<1>8. /\ Agree(v, l, {"heater", "counting", "onTime"})
      /\ OnTimes(v) /\ NoTimes(v)
      /\ \A e \in Evaporators : v.heater[e] = "Off" /\ e \notin v.counting
  BY <1>7, AllOffFacts DEF DefrostState
<1> HIDE DEF v
<1>9. v \in Machines
  BY <1>8 DEF Agree
<1>10. Agree(n, v, {"timer"}) /\ n.timer
  BY <1>9, WriteFacts DEF Loads, TestStates
<1> HIDE DEF n
<1>11. /\ n \in Machines /\ n.hsm = "PostDwell" /\ n.loads = "PostDwell"
       /\ n.waiting /\ ~n.defrosting /\ n.request = "None"
       /\ n.heater = v.heater /\ n.counting = v.counting /\ n.onTime = v.onTime
  <2>1. n \in Machines /\ n.hsm = "PostDwell" /\ n.loads = "PostDwell"
    BY <1>6, <1>7, <1>8, <1>10 DEF Agree
  <2>2. n.waiting /\ ~n.defrosting /\ n.request = "None"
    BY <1>2, <1>4, <1>6, <1>8, <1>10, ZenonT(120) DEF Agree
  <2>3. n.heater = v.heater /\ n.counting = v.counting /\ n.onTime = v.onTime
    BY <1>10 DEF Agree
  <2> QED BY <2>1, <2>2, <2>3
<1>12. OnTimes(n) /\ NoTimes(n)
  BY <1>8, <1>11 DEF OnTimes, NoTimes
<1>13. Tidy(n, x)
  BY <1>8, <1>10, <1>11, <1>12
     DEF Tidy, Leavable, NoTimes, HeaterIsOn, BeforeHeating, DefrostState, TimedStates,
         Prechills, LoadsOf, WaitingStates
<1> QED BY <1>1, <1>13

\* Disabled votes off, and neither waits nor defrosts.
LEMMA EnterDisabledFacts ==
    ASSUME NEW m, NEW x, Left(m), m.request = "None"
    PROVE  Tidy(EnterDisabled(m, x), x)
<1> DEFINE s == SetHsmStateTo(m, x, "Disabled")
           v == VoteHeaters(s, x, Evaporators, "Off")
           n == SetStatus(v, FALSE, FALSE)
<1>0. m \in Machines
  BY DEF Left
<1>1. EnterDisabled(m, x) = n
  BY DEF EnterDisabled
<1>2. Agree(s, m, {"hsm", "counting", "onTime"}) /\ s.hsm = "Disabled"
  BY <1>0, StateFacts DEF HsmStates
<1> HIDE DEF s
<1>3. s \in Machines
  BY <1>2 DEF Agree
<1>4. /\ Agree(v, s, {"heater", "counting", "onTime"})
      /\ OnTimes(v) /\ NoTimes(v)
      /\ \A e \in Evaporators : v.heater[e] = "Off" /\ e \notin v.counting
  BY <1>2, <1>3, AllOffFacts DEF DefrostState
<1> HIDE DEF v
<1>5. v \in Machines
  BY <1>4 DEF Agree
<1>6. Agree(n, v, {"waiting", "defrosting"}) /\ ~n.waiting /\ ~n.defrosting
  BY <1>5, WriteFacts DEF Loads, TestStates
<1> HIDE DEF n
<1>7. /\ n \in Machines /\ n.hsm = "Disabled" /\ n.loads = "None" /\ ~n.timer
      /\ n.request = "None"
      /\ n.heater = v.heater /\ n.counting = v.counting /\ n.onTime = v.onTime
  BY <1>2, <1>4, <1>6 DEF Agree, Left
<1>8. OnTimes(n) /\ NoTimes(n)
  BY <1>4, <1>7 DEF OnTimes, NoTimes
<1>9. Tidy(n, x)
  BY <1>4, <1>6, <1>7, <1>8
     DEF Tidy, Leavable, NoTimes, HeaterIsOn, BeforeHeating, DefrostState, TimedStates,
         Prechills, LoadsOf, WaitingStates
<1> QED BY <1>1, <1>9

-----------------------------------------------------------------------------
(***************************************************************************)
(* The signals.                                                            *)
(***************************************************************************)
\* Readiness to defrost, with and without a sabbath mode.
LEMMA ReadyFacts ==
    ASSUME NEW m, NEW x, NEW now, Tidy(m, x)
    PROVE  /\ Tidy(ReadyToDefrost(m, x, now), x)
           /\ Tidy(SabbathReadyToDefrost(m, x, now), x)
<1> DEFINE o == ExitIdle(m, x)
<1>1. ASSUME m.hsm = "Idle"
      PROVE  Tidy(EnterHeaterOnEntry(o, x), x) /\ Tidy(EnterPrechillPrep(o, x, now), x)
  <2>1. Exit(m, x) = o
    BY <1>1 DEF Exit
  <2>2. Left(o) /\ NoVotes(o) /\ NoTimes(o)
    BY <1>1, <2>1, ExitFacts DEF Tidy, BeforeHeating
  <2> HIDE DEF o
  <2> QED BY <2>2, EnterHeaterOnEntryFacts, EnterPrechillPrepFacts
<1> HIDE DEF o
<1>2. \/ ReadyToDefrost(m, x, now) = m
      \/ /\ m.hsm = "Idle"
         /\ \/ ReadyToDefrost(m, x, now) = EnterHeaterOnEntry(o, x)
            \/ ReadyToDefrost(m, x, now) = EnterPrechillPrep(o, x, now)
  BY DEF ReadyToDefrost, o
<1>3. \/ SabbathReadyToDefrost(m, x, now) = m
      \/ /\ m.hsm = "Idle"
         /\ \/ SabbathReadyToDefrost(m, x, now) = EnterHeaterOnEntry(o, x)
            \/ SabbathReadyToDefrost(m, x, now) = EnterPrechillPrep(o, x, now)
  BY DEF SabbathReadyToDefrost, o
<1> QED BY <1>1, <1>2, <1>3

\* The ends of the prechill, whatever ends it.
LEMMA PrechillEndFacts ==
    ASSUME NEW m, NEW x, NEW now, Tidy(m, x)
    PROVE  /\ m.hsm \in Prechills => Tidy(EnterHeaterOnEntry(Exit(m, x), x), x)
           /\ m.hsm = "PrechillPrep" => Tidy(EnterPrechill(Exit(m, x), x, now), x)
           /\ \A states \in SUBSET Prechills : Tidy(EndPrechill(m, x, states), x)
           /\ Tidy(EndPrechillPrep(m, x, now), x)
<1>1. ASSUME m.hsm \in Prechills
      PROVE  LET n == Exit(m, x) IN
             Left(n) /\ NoVotes(n) /\ NoTimes(n) /\ n.request = "None"
  BY <1>1, ExitFacts DEF Tidy, BeforeHeating
<1>2. m.hsm \in Prechills =>
         /\ Tidy(EnterHeaterOnEntry(Exit(m, x), x), x)
         /\ Tidy(EnterPrechill(Exit(m, x), x, now), x)
  BY <1>1, EnterHeaterOnEntryFacts, EnterPrechillFacts
<1>3. \A states \in SUBSET Prechills : Tidy(EndPrechill(m, x, states), x)
  BY <1>2 DEF EndPrechill
<1>4. Tidy(EndPrechillPrep(m, x, now), x)
  BY <1>2 DEF EndPrechillPrep, Prechills
<1> QED BY <1>2, <1>3, <1>4 DEF Prechills

\* A rest that ends leads to Idle.
LEMMA RestEndFacts ==
    ASSUME NEW m, NEW x, NEW now, Tidy(m, x), m.hsm \in {"Dwell", "PostDwell"}
    PROVE  /\ Tidy(EnterIdle(Exit(m, x), x, now), x)
           /\ Tidy(EnterPostDwell(Exit(m, x), x), x)
<1>1. LET n == Exit(m, x) IN Left(n) /\ NoVotes(n) /\ n.request = "None"
  BY ExitFacts DEF Tidy
<1> QED BY <1>1, EnterIdleFacts, EnterPostDwellFacts DEF IdleRequests

\* The timer of a timed state.
LEMMA TimerFacts ==
    ASSUME NEW m, NEW x, NEW now, Tidy(m, x), m.timer
    PROVE  Tidy(DefrostTimerExpired(m, x, now), x)
<1>1. m.hsm \in TimedStates
  BY DEF Tidy, Leavable
<1>2. CASE m.hsm = "PrechillPrep"
  BY <1>2, PrechillEndFacts DEF DefrostTimerExpired
<1>3. CASE m.hsm = "Prechill"
  BY <1>3, PrechillEndFacts DEF DefrostTimerExpired, Prechills
<1>4. CASE m.hsm = "HeaterOnEntry"
  <2>1. LET n == Exit(m, x) IN
        Left(n) /\ NoVotes(n) /\ NoTimes(n) /\ n.request = "None"
    BY <1>4, ExitFacts DEF Tidy, BeforeHeating
  <2>2. Tidy(EnterHeaterOn(Exit(m, x), x), x)
    BY <2>1, EnterHeaterOnFacts
  <2> QED BY <1>4, <2>2 DEF DefrostTimerExpired
<1>5. CASE m.hsm \in {"Dwell", "PostDwell"}
  BY <1>5, RestEndFacts DEF DefrostTimerExpired
<1> QED BY <1>1, <1>2, <1>3, <1>4, <1>5 DEF TimedStates, Prechills

\* A primary evaporator that is cold.
LEMMA PrimaryIsColdFacts ==
    ASSUME NEW m, NEW x, NEW now, Tidy(m, x)
    PROVE  Tidy(PrimaryIsCold(m, x, now), x)
<1>1. m.hsm = "Prechill" => Tidy(EndPrechill(m, x, {"Prechill"}), x)
  BY PrechillEndFacts DEF Prechills
<1>2. m.hsm = "PostDwell" => Tidy(EnterIdle(Exit(m, x), x, now), x)
  BY RestEndFacts
<1> QED BY <1>1, <1>2 DEF PrimaryIsCold

\* In HeaterOn.  Only the heater that is about to be voted off may have reached
\* its time.
Heating(m, x, heaters) ==
    /\ m \in Machines /\ m.hsm = "HeaterOn"
    /\ \A e \in Evaporators :
          /\ Bounded(m.onTime[e])
          /\ e \in heaters /\ m.heater[e] = "On" => Below(m.onTime[e])
          /\ HeaterIsOn(m, x, e) <=> e \in m.counting
    /\ "Convertible" \notin Evaporators =>
          \A e \in Evaporators \ Heated(m, x) : m.heater[e] # "On"
    /\ ~m.timer /\ m.loads = "HeaterOn" /\ ~m.waiting /\ m.defrosting
    /\ m.request = "None"

\* Heating is what Tidy says of HeaterOn.
LEMMA HeatingFacts ==
    ASSUME NEW m, NEW x
    PROVE  Tidy(m, x) /\ m.hsm = "HeaterOn" <=> Heating(m, x, Evaporators)
<1>1. Tidy(m, x) /\ m.hsm = "HeaterOn" => Heating(m, x, Evaporators)
  BY DEF Tidy, Leavable, Heating, OnTimes, TimedStates, Prechills, LoadsOf, WaitingStates
<1>2. Heating(m, x, Evaporators) => Tidy(m, x) /\ m.hsm = "HeaterOn"
  BY DEF Tidy, Leavable, Heating, OnTimes, BeforeHeating, DefrostState, TimedStates,
         Prechills, LoadsOf, WaitingStates
<1> QED BY <1>1, <1>2

\* A heater of a heating is voted off.
LEMMA HeaterIsDoneFacts ==
    ASSUME NEW m, NEW x, NEW e \in Evaporators, Heating(m, x, Evaporators \ {e})
    PROVE  Heating(VoteHeaters(m, x, {e}, "Off"), x, Evaporators)
<1> DEFINE n == VoteHeaters(m, x, {e}, "Off")
<1>1. m \in Machines
  BY DEF Heating
<1>2. /\ Agree(n, m, {"heater", "counting", "onTime"})
      /\ \A d \in Evaporators :
            /\ d \in {e} => n.heater[d] = "Off"
            /\ d \notin {e} => n.heater[d] = m.heater[d]
            /\ HeaterIsOn(n, x, d) <=> d \in n.counting
            /\ n.onTime[d] = m.onTime[d]
  BY <1>1, VoteFacts DEF DefrostState, Heating
<1> HIDE DEF n
<1>3. \A d \in Evaporators :
         /\ Bounded(n.onTime[d])
         /\ n.heater[d] = "On" => Below(n.onTime[d])
         /\ HeaterIsOn(n, x, d) <=> d \in n.counting
  BY <1>2 DEF Heating
<1>4. /\ n \in Machines /\ n.hsm = "HeaterOn" /\ n.type = m.type
      /\ ~n.timer /\ n.loads = "HeaterOn" /\ ~n.waiting /\ n.defrosting
      /\ n.request = "None"
  BY <1>2 DEF Agree, Heating
<1>5. "Convertible" \notin Evaporators =>
         \A d \in Evaporators \ Heated(n, x) : n.heater[d] # "On"
  BY <1>2, <1>4 DEF Heating, Heated
<1>6. Heating(n, x, Evaporators)
  BY <1>3, <1>4, <1>5 DEF Heating
<1> QED BY <1>6 DEF n

\* What no clause here is about may change.
LEMMA AgreeFacts ==
    ASSUME NEW m, NEW n, NEW x, Agree(n, m, {})
    PROVE  /\ Tidy(m, x) => Tidy(n, x)
           /\ Leavable(m, x) => Leavable(n, x)
           /\ \A heaters \in SUBSET Evaporators :
                 Heating(m, x, heaters) => Heating(n, x, heaters)
<1>1. /\ n \in Machines /\ n.hsm = m.hsm /\ n.type = m.type /\ n.request = m.request
      /\ n.heater = m.heater /\ n.counting = m.counting /\ n.onTime = m.onTime
      /\ n.loads = m.loads /\ n.timer = m.timer
      /\ n.waiting = m.waiting /\ n.defrosting = m.defrosting
  BY DEF Agree
<1>2. Leavable(m, x) => Leavable(n, x)
  BY <1>1 DEF Leavable, OnTimes, HeaterIsOn, NoVotes, NoTimes, Heated
<1>3. \A heaters \in SUBSET Evaporators :
         Heating(m, x, heaters) => Heating(n, x, heaters)
  BY <1>1 DEF Heating, HeaterIsOn, Heated
<1> QED BY <1>1, <1>2, <1>3 DEF Tidy

\* A heating ends in Dwell once no heater is on.
LEMMA DwellOnceFacts ==
    ASSUME NEW m, NEW x, Tidy(m, x)
    PROVE  Tidy(DwellOnceAllHeatersAreOff(m, x), x)
<1>1. Left(Exit(m, x))
  BY ExitFacts DEF Tidy
<1>2. Tidy(EnterDwell(Exit(m, x), x), x)
  BY <1>1, EnterDwellFacts
<1> QED BY <1>2 DEF DwellOnceAllHeatersAreOff

\* A hot evaporator.
LEMMA TerminationFacts ==
    ASSUME NEW m, NEW x, NEW e \in Evaporators, Tidy(m, x)
    PROVE  Tidy(TerminationTemperature(m, x, e), x)
<1> DEFINE off == VoteHeaters(m, x, {e}, "Off")
           abnormal == AbnormalAfterHeating(off, x, e)
           n == [off EXCEPT !.abnormal = abnormal, !.fault = @ \ {e}]
<1>1. CASE m.hsm # "HeaterOn"
  BY <1>1 DEF TerminationTemperature
<1>2. CASE m.hsm = "HeaterOn"
  <2>1. TerminationTemperature(m, x, e) = DwellOnceAllHeatersAreOff(n, x)
    BY <1>2 DEF TerminationTemperature
  <2>2. Heating(off, x, Evaporators)
    <3>1. Heating(m, x, Evaporators \ {e})
      BY <1>2, HeatingFacts DEF Heating
    <3> QED BY <3>1, HeaterIsDoneFacts
  <2> HIDE DEF off
  <2>3. off \in Machines
    BY <2>2 DEF Heating
  <2>4. abnormal \in SUBSET Evaporators
    BY <2>3, MachineFields, SMTT(60) DEF AbnormalAfterHeating
  <2> HIDE DEF abnormal
  <2>5. Agree(n, off, {})
    BY <2>3, <2>4, ZenonT(120) DEF Machines, Agree
  <2> HIDE DEF n
  <2>6. Tidy(n, x)
    BY <2>2, <2>5, HeatingFacts, AgreeFacts
  <2> QED BY <2>1, <2>6, DwellOnceFacts
<1> QED BY <1>1, <1>2

\* A heater that has been on for its maximum time.
LEMMA MaxOnTimeFacts ==
    ASSUME NEW m, NEW x, NEW e \in Evaporators, Heating(m, x, Evaporators \ {e})
    PROVE  Tidy(HeaterMaxOnTimeReached(m, x, e), x)
<1> DEFINE off == VoteHeaters(m, x, {e}, "Off")
           fault == IF Valid(x, e) THEN off.fault \cup {e} ELSE off.fault
           invalid == off.invalidThermistor \/ ~Valid(x, e)
           n == [off EXCEPT !.fault = fault, !.invalidThermistor = invalid]
<1>1. HeaterMaxOnTimeReached(m, x, e) = DwellOnceAllHeatersAreOff(n, x)
  BY DEF HeaterMaxOnTimeReached, Heating
<1>2. Heating(off, x, Evaporators)
  BY HeaterIsDoneFacts
<1> HIDE DEF off
<1>3. off \in Machines
  BY <1>2 DEF Heating
<1>4. fault \in SUBSET Evaporators /\ invalid \in BOOLEAN
  BY <1>3, MachineFields
<1> HIDE DEF fault, invalid
<1>5. Agree(n, off, {})
  BY <1>3, <1>4, ZenonT(120) DEF Machines, Agree
<1> HIDE DEF n
<1>6. Tidy(n, x)
  BY <1>2, <1>5, HeatingFacts, AgreeFacts
<1> QED BY <1>1, <1>6, DwellOnceFacts

\* The maximum that applies is one of the maxima.
LEMMA HeaterMaxOnTimeFacts ==
    ASSUME NEW x, NEW e
    PROVE  HeaterMaxOnTime(x, e) \in Maxima
BY DEF HeaterMaxOnTime, Maxima

\* A minute of a heater that is on: it is voted off once its time is reached.
LEMMA MinuteFacts ==
    ASSUME NEW m, NEW x, NEW e \in Evaporators, Tidy(m, x), e \in m.counting
    PROVE  Tidy(DefrostHeaterOnTime(m, x, e), x)
<1> DEFINE t == (m.onTime[e] + 1) % 256
           n == [m EXCEPT !.onTime[e] = (@ + 1) % 256]
           a == [n EXCEPT !.abnormal = @ \cup {e}]
<1>1. m \in Machines /\ m.heater[e] = "On" /\ m.hsm = "HeaterOn"
  BY DEF Tidy, Leavable, HeaterIsOn
<1>2. Below(m.onTime[e]) /\ m.onTime[e] \in 0 .. 255
  BY <1>1, MachineFields DEF Tidy, Leavable, OnTimes
<1>3. t = m.onTime[e] + 1 /\ t \in 0 .. 255 /\ Bounded(t)
  <2>1. Bounded(m.onTime[e] + 1) /\ m.onTime[e] + 1 \in 0 .. 255
    BY <1>2, MaximaFacts, SMTT(60)
  <2>2. t = m.onTime[e] + 1
    BY <2>1
  <2> QED BY <2>1, <2>2
<1>4. n = [m EXCEPT !.onTime = [m.onTime EXCEPT ![e] = t]]
  BY <1>1 DEF Machines
<1> HIDE DEF t
<1>5. Agree(n, m, {"onTime"}) /\ n.onTime = [m.onTime EXCEPT ![e] = t]
  <2>1. [m.onTime EXCEPT ![e] = t] \in [Evaporators -> 0 .. 255]
    BY <1>1, <1>3, MachineFields, SMTT(60)
  <2> DEFINE f == [m.onTime EXCEPT ![e] = t]
  <2> HIDE DEF f
  <2>2. /\ Agree([m EXCEPT !.onTime = f], m, {"onTime"})
        /\ [m EXCEPT !.onTime = f].onTime = f
    BY <1>1, <2>1, SMTT(60) DEF Machines, Agree, f
  <2> QED BY <1>4, <2>2, ZenonT(120) DEF f
<1> HIDE DEF n
<1>6. n.onTime[e] = t /\ \A d \in Evaporators \ {e} : n.onTime[d] = m.onTime[d]
  BY <1>1, <1>5, MachineFields
<1>7. Heating(n, x, Evaporators \ {e})
  <2>1. Heating(m, x, Evaporators)
    BY <1>1, HeatingFacts
  <2>2. \A d \in Evaporators : HeaterIsOn(n, x, d) <=> HeaterIsOn(m, x, d)
    BY <1>5 DEF HeaterIsOn, Agree
  <2>3. /\ n \in Machines /\ n.hsm = "HeaterOn" /\ n.type = m.type /\ n.heater = m.heater
        /\ n.counting = m.counting /\ ~n.timer /\ n.loads = "HeaterOn" /\ ~n.waiting
        /\ n.defrosting /\ n.request = "None"
    BY <1>5, <2>1 DEF Agree, Heating
  <2> QED BY <1>3, <1>6, <2>1, <2>2, <2>3 DEF Heating, Heated
<1>8. CASE MaxOnTimeIsReached(n, x, e)
  <2>1. Tidy(HeaterMaxOnTimeReached(n, x, e), x)
    BY <1>7, MaxOnTimeFacts
  <2> QED BY <1>8, <2>1 DEF DefrostHeaterOnTime, n
<1>9. CASE ~MaxOnTimeIsReached(n, x, e)
  <2>1. Below(t)
    <3>1. HeaterMaxOnTime(x, e) \in Nat
      <4>1. Maxima \subseteq 1 .. 255
        BY MaximaFacts
      <4>2. HeaterMaxOnTime(x, e) \in Maxima
        BY HeaterMaxOnTimeFacts
      <4> HIDE DEF Maxima
      <4>3. HeaterMaxOnTime(x, e) \in 1 .. 255
        BY <4>1, <4>2, ZenonT(120)
      <4> QED BY <4>3
    <3>2. t < HeaterMaxOnTime(x, e)
      BY <1>3, <1>6, <1>9, <3>1 DEF MaxOnTimeIsReached
    <3> QED BY <3>2, HeaterMaxOnTimeFacts DEF Below
  <2>2. Heating(n, x, Evaporators)
    BY <1>6, <1>7, <2>1 DEF Heating
  <2>3. Tidy(n, x) /\ n \in Machines
    BY <2>2, HeatingFacts DEF Heating
  <2>4. Agree(a, n, {})
    <3>1. n.abnormal \cup {e} \in SUBSET Evaporators
      BY <2>3, MachineFields
    <3> QED BY <2>3, <3>1, SMTT(60) DEF Machines, Agree
  <2> HIDE DEF a
  <2>5. Tidy(a, x)
    BY <2>3, <2>4, AgreeFacts
  <2>6. DefrostHeaterOnTime(m, x, e) = n \/ DefrostHeaterOnTime(m, x, e) = a
    BY <1>9 DEF DefrostHeaterOnTime, n, a
  <2> QED BY <2>3, <2>5, <2>6
<1> QED BY <1>8, <1>9

\* The defrost is disabled, or enabled again.
LEMMA DisableFacts ==
    ASSUME NEW m, NEW x, NEW disable \in BOOLEAN, NEW now, Tidy(m, x)
    PROVE  Tidy(SetDisableDefrost(m, x, disable, now), x)
<1> DEFINE w == [m EXCEPT !.disable = disable]
           skip == w.skipDisable \/ m.hsm \in WaitingStates
           k == [w EXCEPT !.skipDisable = skip]
<1>1. \/ SetDisableDefrost(m, x, disable, now) = m
      \/ SetDisableDefrost(m, x, disable, now) = w
      \/ SetDisableDefrost(m, x, disable, now) = EnterDisabled(Exit(k, x), x)
      \/ /\ m.hsm = "Disabled"
         /\ SetDisableDefrost(m, x, disable, now) = EnterIdle(Exit(w, x), x, now)
  BY DEF SetDisableDefrost
<1>2. m \in Machines
  BY DEF Tidy, Leavable
<1>3. Agree(w, m, {})
  BY <1>2 DEF Machines, Agree
<1> HIDE DEF w
<1>4. w \in Machines /\ Tidy(w, x) /\ w.hsm = m.hsm
  BY <1>3, AgreeFacts DEF Agree
<1>5. skip \in BOOLEAN
  BY <1>4, MachineFields
<1> HIDE DEF skip
<1>6. Agree(k, w, {})
  BY <1>4, <1>5 DEF Machines, Agree
<1> HIDE DEF k
<1>7. Tidy(k, x)
  BY <1>4, <1>6, AgreeFacts
<1>8. Tidy(EnterDisabled(Exit(k, x), x), x)
  <2>1. Left(Exit(k, x)) /\ Exit(k, x).request = "None"
    BY <1>7, ExitFacts DEF Tidy
  <2> QED BY <2>1, EnterDisabledFacts
<1>9. m.hsm = "Disabled" => Tidy(EnterIdle(Exit(w, x), x, now), x)
  <2>1. m.hsm = "Disabled" =>
           Left(Exit(w, x)) /\ NoVotes(Exit(w, x)) /\ Exit(w, x).request = "None"
    BY <1>4, ExitFacts DEF Tidy
  <2> QED BY <2>1, EnterIdleFacts DEF IdleRequests
<1> QED BY <1>1, <1>4, <1>8, <1>9

\* A test request, to go on from Idle or to go to Dwell.
LEMMA TestStateFacts ==
    ASSUME NEW m, NEW x, NEW now, Tidy(m, x), HeatingIsNotReassigned,
           NEW request \in {"Idle", "Prechill", "Defrost", "ExitDefrostHeaterOnState"},
           request # "ExitDefrostHeaterOnState" => ~HeatingEndsByItself
    PROVE  Tidy(RequestDefrostTestState(m, x, request, now), x)
<1> DEFINE w == [m EXCEPT !.request = request]
           c == ClearDefrostTestStateRequest(w)
           skip == w.skipTest \/ m.hsm \in WaitingStates
           k == [w EXCEPT !.skipTest = skip]
<1>1. RequestDefrostTestState(m, x, request, now) =
         IF request = "ExitDefrostHeaterOnState"
         THEN IF m.hsm \in {"HeaterOnEntry", "HeaterOn"} THEN EnterDwell(Exit(w, x), x) ELSE c
         ELSE EnterIdle(Exit(k, x), x, now)
  BY DEF RequestDefrostTestState
<1>2. m \in Machines /\ request \in TestStates
  BY DEF Tidy, Leavable, TestStates
<1>3. Agree(w, m, {"request"}) /\ w.request = request
  BY <1>2, WriteFacts DEF Loads
<1> HIDE DEF w
<1>4. w \in Machines /\ Leavable(w, x)
  <2>1. /\ w \in Machines /\ w.hsm = m.hsm /\ w.type = m.type
        /\ w.heater = m.heater /\ w.counting = m.counting /\ w.onTime = m.onTime
        /\ w.loads = m.loads /\ w.timer = m.timer
        /\ w.waiting = m.waiting /\ w.defrosting = m.defrosting
    BY <1>3 DEF Agree
  <2> QED BY <2>1 DEF Tidy, Leavable, OnTimes, HeaterIsOn, NoVotes, NoTimes, Heated
<1>5. Tidy(c, x)
  <2>1. Agree(c, w, {"request"}) /\ c.request = "None"
    BY <1>4, WriteFacts DEF ClearDefrostTestStateRequest, Loads, TestStates
  <2> HIDE DEF c
  <2>2. /\ c \in Machines /\ c.hsm = w.hsm /\ c.type = w.type
        /\ c.heater = w.heater /\ c.counting = w.counting /\ c.onTime = w.onTime
        /\ c.loads = w.loads /\ c.timer = w.timer
        /\ c.waiting = w.waiting /\ c.defrosting = w.defrosting
    BY <2>1 DEF Agree
  <2>3. Leavable(c, x)
    BY <1>4, <2>2 DEF Leavable, OnTimes, HeaterIsOn, NoVotes, NoTimes, Heated
  <2> QED BY <2>1, <2>3 DEF Tidy
<1>6. skip \in BOOLEAN
  BY <1>4, MachineFields
<1> HIDE DEF skip
<1>7. Agree(k, w, {})
  BY <1>4, <1>6 DEF Machines, Agree
<1> HIDE DEF k
<1>8. Leavable(k, x) /\ k.request = request
  BY <1>3, <1>4, <1>7, AgreeFacts DEF Agree
<1>9. Tidy(EnterDwell(Exit(w, x), x), x)
  BY <1>4, ExitFacts, EnterDwellFacts
<1>10. CASE request # "ExitDefrostHeaterOnState"
  <2>1. Left(Exit(k, x)) /\ NoVotes(Exit(k, x)) /\ Exit(k, x).request = request
    BY <1>8, <1>10, ExitFacts DEF HeatingIsNotReassigned
  <2>2. Tidy(EnterIdle(Exit(k, x), x, now), x)
    BY <1>10, <2>1, EnterIdleFacts DEF IdleRequests
  <2> QED BY <1>1, <1>10, <2>2
<1> QED BY <1>1, <1>5, <1>9, <1>10

-----------------------------------------------------------------------------
(***************************************************************************)
(* The power.                                                              *)
(***************************************************************************)
\* What survives the power.
AllSettings ==
    [state : HsmStates, type : Types, override : Types \cup {"DontCare"},
     count : 0 .. 255, abnormal : SUBSET Evaporators, cleared : BOOLEAN]

\* What is saved has its types, and so have the defaults.
LEMMA SettingsFacts ==
    ASSUME NEW m \in Machines
    PROVE  Settings(m) \in AllSettings /\ DefaultSettings \in AllSettings
BY MachineFields DEF Settings, DefaultSettings, AllSettings, DefrostState, HsmStates, Types

\* The RAM at reset is that of a machine between two states.
LEMMA PowerUpFacts ==
    ASSUME NEW settings \in AllSettings, NEW x \in Erds, NEW tooWarm \in BOOLEAN
    PROVE  LET m == PowerUp(settings, x, tooWarm) IN
           Left(m) /\ NoVotes(m) /\ NoTimes(m) /\ m.request = "None"
<1> DEFINE type == IF Cardinality(Evaporators) = 1 THEN "Full" ELSE settings.type
           override == IF settings.cleared \/ tooWarm \/ settings.state = "Disabled"
                       THEN "Full" ELSE settings.override
           heater == [e \in Evaporators |-> "DontCare"]
           onTime == [e \in Evaporators |-> 0]
           m == PowerUp(settings, x, tooWarm)
<1>1. type \in Types /\ override \in Types \cup {"DontCare"}
  BY DEF AllSettings, Types
<1>2. /\ settings.count \in 0 .. 255 /\ settings.abnormal \in SUBSET Evaporators
      /\ settings.cleared \in BOOLEAN /\ x.coolingOff \in BOOLEAN
  BY DEF AllSettings, Erds
<1>3. /\ heater \in [Evaporators -> {"On", "Off", "DontCare"}]
      /\ onTime \in [Evaporators -> 0 .. 255]
      /\ \A e \in Evaporators : heater[e] = "DontCare" /\ onTime[e] = 0
  OBVIOUS
<1>4. m = [hsm |-> "Idle", type |-> type, override |-> override,
           count |-> settings.count, abnormal |-> settings.abnormal,
           cleared |-> settings.cleared, tooWarm |-> tooWarm,
           skipTest |-> FALSE, skipDisable |-> FALSE, request |-> "None",
           dontSkipPrechill |-> FALSE, aham |-> FALSE, disable |-> x.coolingOff,
           invalidThermistor |-> FALSE, fault |-> {},
           heater |-> heater, counting |-> {}, onTime |-> onTime,
           loads |-> "None", timer |-> FALSE, homing |-> FALSE,
           waiting |-> FALSE, defrosting |-> FALSE]
  BY DEF PowerUp
<1> HIDE DEF type, override, heater, onTime, m
<1>5. m \in Machines
  BY <1>1, <1>2, <1>3, <1>4 DEF Machines, HsmStates, TestStates, Loads
<1>6. /\ m.heater = heater /\ m.onTime = onTime /\ m.loads = "None" /\ ~m.timer
      /\ m.request = "None"
  BY <1>4
<1>7. NoVotes(m) /\ NoTimes(m)
  BY <1>3, <1>6 DEF NoVotes, NoTimes
<1>8. OnTimes(m)
  BY <1>7, MaximaFacts DEF OnTimes, NoVotes, NoTimes
<1> QED BY <1>5, <1>6, <1>7, <1>8 DEF Left, m

\* Defrost_Init goes on where the power was lost, or starts in Idle.
LEMMA StartFacts ==
    ASSUME NEW settings \in AllSettings, NEW x \in Erds, NEW warm
    PROVE  Tidy(Start(settings, x, warm), x)
<1> DEFINE tooWarm == CabinetIsTooWarm(x, warm)
           m == PowerUp(settings, x, tooWarm)
           s == SetHsmStateTo(Waiting(m), x, "Idle")
<1>1. \/ Start(settings, x, warm) = EnterDwell(m, x)
      \/ Start(settings, x, warm) = EnterHeaterOnEntry(m, x)
      \/ Start(settings, x, warm) = s
  BY DEF Start
<1>2. tooWarm \in BOOLEAN
  BY DEF CabinetIsTooWarm
<1> HIDE DEF tooWarm
<1>3. Left(m) /\ NoVotes(m) /\ NoTimes(m) /\ m.request = "None"
  BY <1>2, PowerUpFacts
<1> HIDE DEF m
<1>4. Tidy(EnterDwell(m, x), x) /\ Tidy(EnterHeaterOnEntry(m, x), x)
  BY <1>3, EnterDwellFacts, EnterHeaterOnEntryFacts
<1>5. Tidy(s, x)
  BY <1>3, SetIdleFacts DEF Tidy
<1> QED BY <1>1, <1>4, <1>5

-----------------------------------------------------------------------------
(***************************************************************************)
(* The steps.                                                              *)
(***************************************************************************)
\* Of the ERDs, a machine is tidy by the vote of the cooling system and by the
\* assignment of the evaporators alone.
LEMMA ErdFacts ==
    ASSUME NEW m, NEW x, NEW y, Tidy(m, x), y.coolingOff = x.coolingOff,
           y.convertible = x.convertible \/ "Convertible" \in Evaporators
    PROVE  Tidy(m, y)
<1>1. \A e \in Evaporators : HeaterIsOn(m, y, e) <=> HeaterIsOn(m, x, e)
  BY DEF HeaterIsOn
<1>2. ASSUME y.convertible = x.convertible
      PROVE  Heated(m, y) = Heated(m, x)
  BY <1>2 DEF Heated, Secondary
<1> QED BY <1>1, <1>2 DEF Tidy, Leavable

\* A machine that becomes what a handler has made of it.
LEMMA BecomesFacts ==
    ASSUME DefrostInv, NEW m, Becomes(m)
    PROVE  defrost' = m /\ since' \in Nat
BY DefrostSystemAssumption DEF Becomes, DefrostInv

\* The first power-up, with a blank EEPROM.
LEMMA InitEstablishesDefrostInv ==
    ASSUME Init
    PROVE  DefrostInv
<1>1. /\ erds = [thermistor |-> AllValid, flags |-> {},
                 convertible |-> "FreshFood", coolingStatus |-> FALSE, coolingOff |-> FALSE]
      /\ since = 0
  BY DEF Init
<1>2. AllValid \in [Thermistors -> {"Undiscovered", "Valid", "Invalid"}]
  BY DEF AllValid
<1>3. erds \in Erds
  BY <1>1, <1>2 DEF Erds
<1>4. DefaultSettings \in AllSettings
  BY DEF DefaultSettings, AllSettings, HsmStates, Types
<1>5. PICK warm \in Thermistors \cup {"None"} : defrost = Start(DefaultSettings, erds, warm)
  BY DEF Init
<1>6. Tidy(defrost, erds)
  BY <1>3, <1>4, <1>5, StartFacts
<1> QED BY <1>1, <1>3, <1>6 DEF DefrostInv

\* defrostTimer expires.
LEMMA TimerExpiresStep ==
    ASSUME DefrostInv, TimerExpires
    PROVE  DefrostInv'
<1>1. PICK now \in Readings : Becomes(DefrostTimerExpired(defrost, erds, now))
  BY DEF TimerExpires
<1>2. Tidy(DefrostTimerExpired(defrost, erds, now), erds)
  BY TimerFacts DEF TimerExpires, DefrostInv
<1>3. defrost' = DefrostTimerExpired(defrost, erds, now) /\ since' \in Nat
  BY <1>1, BecomesFacts
<1> QED BY <1>2, <1>3 DEF TimerExpires, DefrostInv

\* A minute of a heater passes.
LEMMA MinuteStep ==
    ASSUME DefrostInv, NEW e \in Evaporators, Minute(e)
    PROVE  DefrostInv'
<1>1. Becomes(DefrostHeaterOnTime(defrost, erds, e))
  BY DEF Minute
<1>2. Tidy(DefrostHeaterOnTime(defrost, erds, e), erds)
  BY MinuteFacts DEF Minute, DefrostInv
<1>3. defrost' = DefrostHeaterOnTime(defrost, erds, e) /\ since' \in Nat
  BY <1>1, BecomesFacts
<1> QED BY <1>2, <1>3 DEF Minute, DefrostInv

\* Readiness and the sabbath modes.
LEMMA WriteFlagStep ==
    ASSUME DefrostInv, NEW f \in Flags, WriteFlag(f)
    PROVE  DefrostInv'
<1> DEFINE set == f \notin erds.flags
           flags == IF set THEN erds.flags \cup {f} ELSE erds.flags \ {f}
           x == [erds EXCEPT !.flags = flags]
<1>1. /\ erds' = x
      /\ \E m \in
            CASE \/ f = "ready" /\ set
                 \/ f \in {"sabbath", "enhanced"} /\ ~set ->
                    {ReadyToDefrost(defrost, x, now) : now \in Readings}
              [] f # "ready" /\ set ->
                    {SabbathReadyToDefrost(defrost, x, now) : now \in Readings}
              [] f \notin {"sabbath", "enhanced"} /\ ~set -> {defrost} :
            Becomes(m)
  BY DEF WriteFlag
<1>2. erds \in Erds /\ flags \in SUBSET Flags
  BY DEF DefrostInv, Erds
<1> HIDE DEF flags
<1>3. x \in Erds /\ x.coolingOff = erds.coolingOff /\ x.convertible = erds.convertible
  BY <1>2 DEF Erds
<1> HIDE DEF x
<1>4. Tidy(defrost, x)
  BY <1>3, ErdFacts DEF DefrostInv
<1>5. PICK m : Becomes(m) /\ \/ m = defrost
                             \/ \E now \in Readings : m = ReadyToDefrost(defrost, x, now)
                             \/ \E now \in Readings : m = SabbathReadyToDefrost(defrost, x, now)
  <2>1. CASE \/ f = "ready" /\ set
             \/ f \in {"sabbath", "enhanced"} /\ ~set
    BY <1>1, <2>1
  <2>2. CASE f # "ready" /\ set
    BY <1>1, <2>2
  <2>3. CASE f \notin {"sabbath", "enhanced"} /\ ~set
    BY <1>1, <2>3
  <2> QED BY <2>1, <2>2, <2>3
<1>6. Tidy(m, x)
  BY <1>4, <1>5, ReadyFacts
<1>7. defrost' = m /\ since' \in Nat
  BY <1>5, BecomesFacts
<1> QED BY <1>1, <1>3, <1>6, <1>7 DEF DefrostInv

\* The compressor begins to cool what is to be prechilled.
LEMMA CoolingModeStep ==
    ASSUME DefrostInv, CoolingModeChanges
    PROVE  DefrostInv'
<1>1. PICK now \in Readings : Becomes(EndPrechillPrep(defrost, erds, now))
  BY DEF CoolingModeChanges
<1>2. Tidy(EndPrechillPrep(defrost, erds, now), erds)
  BY PrechillEndFacts DEF DefrostInv
<1>3. defrost' = EndPrechillPrep(defrost, erds, now) /\ since' \in Nat
  BY <1>1, BecomesFacts
<1> QED BY <1>2, <1>3 DEF CoolingModeChanges, DefrostInv

\* A cabinet ends the prechill.
LEMMA CabinetTemperatureStep ==
    ASSUME DefrostInv, CabinetTemperatureChanges
    PROVE  DefrostInv'
<1>1. Tidy(EndPrechill(defrost, erds, {"Prechill"}), erds)
  BY PrechillEndFacts DEF DefrostInv, Prechills
<1>2. defrost' = EndPrechill(defrost, erds, {"Prechill"}) /\ since' \in Nat
  BY BecomesFacts DEF CabinetTemperatureChanges
<1> QED BY <1>1, <1>2 DEF CabinetTemperatureChanges, DefrostInv

\* An evaporator is hot, or a primary one cold.
LEMMA EvaporatorTemperatureStep ==
    ASSUME DefrostInv, NEW e \in Evaporators, EvaporatorTemperatureChanges(e)
    PROVE  DefrostInv'
<1>1. CASE Becomes(TerminationTemperature(defrost, erds, e))
  <2>1. Tidy(TerminationTemperature(defrost, erds, e), erds)
    BY TerminationFacts DEF DefrostInv
  <2>2. defrost' = TerminationTemperature(defrost, erds, e) /\ since' \in Nat
    BY <1>1, BecomesFacts
  <2> QED BY <2>1, <2>2 DEF EvaporatorTemperatureChanges, DefrostInv
<1>2. CASE \E now \in Readings : Becomes(PrimaryIsCold(defrost, erds, now))
  <2>1. PICK now \in Readings : Becomes(PrimaryIsCold(defrost, erds, now))
    BY <1>2
  <2>2. Tidy(PrimaryIsCold(defrost, erds, now), erds)
    BY PrimaryIsColdFacts DEF DefrostInv
  <2>3. defrost' = PrimaryIsCold(defrost, erds, now) /\ since' \in Nat
    BY <2>1, BecomesFacts
  <2> QED BY <2>2, <2>3 DEF EvaporatorTemperatureChanges, DefrostInv
<1> QED BY <1>1, <1>2 DEF EvaporatorTemperatureChanges

\* A thermistor fails or recovers.
LEMMA ThermistorStep ==
    ASSUME DefrostInv, NEW t \in Thermistors, ThermistorChanges(t)
    PROVE  DefrostInv'
<1> DEFINE valid == Valid(erds, t)
           now == IF valid THEN "Invalid" ELSE "Valid"
           thermistor == [erds.thermistor EXCEPT ![t] = now]
           x == [erds EXCEPT !.thermistor = thermistor]
           m == IF valid THEN EndPrechill(defrost, x, Prechills) ELSE defrost
<1>1. erds \in Erds
  BY DEF DefrostInv
<1>2. [erds EXCEPT !.thermistor[t] = now] = x
  BY <1>1 DEF Erds
<1>3. erds' = x /\ Becomes(m)
  BY <1>2 DEF ThermistorChanges
<1>4. thermistor \in [Thermistors -> {"Undiscovered", "Valid", "Invalid"}]
  BY <1>1 DEF Erds
<1> HIDE DEF thermistor
<1>5. x \in Erds /\ x.coolingOff = erds.coolingOff /\ x.convertible = erds.convertible
  BY <1>1, <1>4 DEF Erds
<1> HIDE DEF x
<1>6. Tidy(defrost, x)
  BY <1>5, ErdFacts DEF DefrostInv
<1>7. Tidy(m, x)
  BY <1>6, PrechillEndFacts
<1> HIDE DEF m
<1>8. defrost' = m /\ since' \in Nat
  BY <1>3, BecomesFacts
<1> QED BY <1>3, <1>5, <1>7, <1>8 DEF DefrostInv

\* The evaporators are assigned again.
LEMMA ConvertibleStep ==
    ASSUME DefrostInv, ConvertibleCompartmentStateChanges
    PROVE  DefrostInv'
<1> DEFINE c == IF erds.convertible = "Freezer" THEN "FreshFood" ELSE "Freezer"
           x == [erds EXCEPT !.convertible = c]
<1>1. /\ "Convertible" \in Evaporators /\ erds' = x
      /\ \/ Becomes(defrost)
         \/ \E now \in Readings : Becomes(PrimaryIsCold(defrost, x, now))
  BY DEF ConvertibleCompartmentStateChanges
<1>2. c \in {"FreshFood", "Freezer"} /\ erds \in Erds
  BY DEF DefrostInv
<1> HIDE DEF c
<1>3. x \in Erds /\ x.coolingOff = erds.coolingOff
  BY <1>2 DEF Erds
<1> HIDE DEF x
<1>4. Tidy(defrost, x)
  BY <1>1, <1>3, ErdFacts DEF DefrostInv
<1>5. PICK m : Becomes(m) /\ Tidy(m, x)
  BY <1>1, <1>4, PrimaryIsColdFacts
<1>6. defrost' = m /\ since' \in Nat
  BY <1>5, BecomesFacts
<1> QED BY <1>1, <1>3, <1>5, <1>6 DEF DefrostInv

\* The sealed system valve has homed.
LEMMA ValveStep ==
    ASSUME DefrostInv, ValveHomes
    PROVE  DefrostInv'
<1> DEFINE m == [defrost EXCEPT !.homing = FALSE]
<1>1. defrost \in Machines
  BY DEF DefrostInv, Tidy, Leavable
<1>2. ASSUME NEW b \in BOOLEAN
      PROVE  Agree([defrost EXCEPT !.homing = b], defrost, {})
  BY <1>1 DEF Machines, Agree
<1>3. Agree(m, defrost, {})
  BY <1>2
<1>4. Becomes(m)
  BY DEF ValveHomes
<1> HIDE DEF m
<1>5. Tidy(m, erds)
  BY <1>3, AgreeFacts DEF DefrostInv
<1>6. defrost' = m /\ since' \in Nat
  BY <1>4, BecomesFacts
<1> QED BY <1>5, <1>6 DEF ValveHomes, DefrostInv

\* An override is written, and what only an Aham prechill reads.
LEMMA OverrideFacts ==
    ASSUME NEW m, NEW x, Tidy(m, x), NEW type \in Types
    PROVE  /\ Tidy([m EXCEPT !.override = type], x)
           /\ Tidy([m EXCEPT !.dontSkipPrechill = TRUE, !.override = type, !.aham = TRUE], x)
<1>1. m \in Machines
  BY DEF Tidy, Leavable
<1>2. Agree([m EXCEPT !.override = type], m, {})
  BY <1>1 DEF Machines, Agree
<1>3. ASSUME NEW a \in BOOLEAN, NEW b \in BOOLEAN
      PROVE  Agree([m EXCEPT !.dontSkipPrechill = a, !.override = type, !.aham = b], m, {})
  BY <1>1, ZenonT(120) DEF Machines, Agree
<1>4. Agree([m EXCEPT !.dontSkipPrechill = TRUE, !.override = type, !.aham = TRUE], m, {})
  BY <1>3
<1> QED BY <1>2, <1>4, AgreeFacts

\* A test request, of any kind.
LEMMA TestRequestStep ==
    ASSUME DefrostInv, HeatingIsNotReassigned, NEW r \in TestRequests, DefrostTestRequest(r)
    PROVE  DefrostInv'
<1>1. PICK now \in Readings : Becomes(Handle(r, now))
  BY DEF DefrostTestRequest
<1> DEFINE type == IF r \in {"Defrost", "Prechill", "AhamPrechill"}
                   THEN "Full" ELSE "SecondaryOnly"
           o == [defrost EXCEPT !.override = type]
           f == [defrost EXCEPT !.override = "Full"]
           aham == [defrost EXCEPT !.dontSkipPrechill = TRUE, !.override = type, !.aham = TRUE]
           state == IF r \in {"Defrost", "SecondaryOnlyDefrost"} THEN "Defrost" ELSE "Prechill"
<1>2. \/ r = "Disable" /\ Handle(r, now) = SetDisableDefrost(defrost, erds, TRUE, now)
      \/ r = "Enable" /\ Handle(r, now) = SetDisableDefrost(f, erds, FALSE, now)
      \/ Handle(r, now) = defrost
      \/ Handle(r, now) = aham
      \/ /\ r \in HeatedRequests
         /\ Handle(r, now) = RequestDefrostTestState(o, erds, state, now)
      \/ /\ r \notin HeatedRequests \cup AhamRequests \cup {"Disable", "Enable"}
         /\ Handle(r, now) = RequestDefrostTestState(defrost, erds, r, now)
  <2>1. CASE r \in {"Disable", "Enable"}
    BY <2>1 DEF Handle
  <2>2. CASE r \notin {"Disable", "Enable"}
    BY <2>2 DEF Handle
  <2> QED BY <2>1, <2>2
<1>3. Tidy(defrost, erds)
  BY DEF DefrostInv
<1>4. type \in Types /\ "Full" \in Types
  BY DEF Types
<1> HIDE DEF type
<1>5. Tidy(o, erds) /\ Tidy(f, erds) /\ Tidy(aham, erds)
  BY <1>3, <1>4, OverrideFacts
<1> HIDE DEF o, f, aham
<1>6. r \in HeatedRequests => Tidy(RequestDefrostTestState(o, erds, state, now), erds)
  <2>1. r \in HeatedRequests => ~HeatingEndsByItself
    BY DEF HeatingEndsByItself
  <2>2. state \in {"Idle", "Prechill", "Defrost", "ExitDefrostHeaterOnState"}
    OBVIOUS
  <2> HIDE DEF state
  <2> QED BY <1>5, <2>1, <2>2, TestStateFacts
<1>7. r \notin HeatedRequests \cup AhamRequests \cup {"Disable", "Enable"} =>
         Tidy(RequestDefrostTestState(defrost, erds, r, now), erds)
  <2>1. ASSUME r \notin HeatedRequests \cup AhamRequests \cup {"Disable", "Enable"}
        PROVE  /\ r \in {"Idle", "Prechill", "Defrost", "ExitDefrostHeaterOnState"}
               /\ r # "ExitDefrostHeaterOnState" => ~HeatingEndsByItself
    <3>1. r \in {"Idle", "ExitDefrostHeaterOnState"}
      BY <2>1, DefrostSystemAssumption
    <3> QED BY <3>1 DEF HeatingEndsByItself
  <2> QED BY <1>3, <2>1, TestStateFacts
<1>8. /\ Tidy(SetDisableDefrost(defrost, erds, TRUE, now), erds)
      /\ Tidy(SetDisableDefrost(f, erds, FALSE, now), erds)
  BY <1>3, <1>5, DisableFacts
<1>9. Tidy(Handle(r, now), erds)
  BY <1>2, <1>3, <1>5, <1>6, <1>7, <1>8
<1>10. defrost' = Handle(r, now) /\ since' \in Nat
  BY <1>1, BecomesFacts
<1> QED BY <1>9, <1>10 DEF DefrostTestRequest, DefrostInv

\* The counters hear that the heaters' votes lose, or count again.
LEMMA RecountFacts ==
    ASSUME NEW m, NEW x, NEW y, Tidy(m, x), y.convertible = x.convertible
    PROVE  Tidy(CountHeaters(m, y), y)
<1> DEFINE n == CountHeaters(m, y)
<1>1. m \in Machines
  BY DEF Tidy, Leavable
<1>2. /\ Agree(n, m, {"counting", "onTime"})
      /\ \A e \in Evaporators :
            /\ e \in n.counting <=>
                  /\ HeaterIsOn(m, y, e)
                  /\ DefrostState(m.hsm) = "HeaterOn" \/ e \in m.counting
            /\ HeaterIsOn(m, y, e) \/ DefrostState(m.hsm) = "HeaterOn" =>
                  n.onTime[e] = m.onTime[e]
            /\ ~(HeaterIsOn(m, y, e) \/ DefrostState(m.hsm) = "HeaterOn") =>
                  n.onTime[e] = 0
  BY <1>1, CountFacts
<1> HIDE DEF n
<1>3. /\ n \in Machines /\ n.hsm = m.hsm /\ n.type = m.type /\ n.request = "None"
      /\ n.heater = m.heater /\ n.loads = m.loads /\ n.timer = m.timer
      /\ n.waiting = m.waiting /\ n.defrosting = m.defrosting
  BY <1>2 DEF Agree, Tidy
<1>4. \A e \in Evaporators :
         /\ m.heater[e] = "On" => DefrostState(m.hsm) = "HeaterOn"
         /\ \/ n.onTime[e] = m.onTime[e]
            \/ n.onTime[e] = 0 /\ m.heater[e] # "On"
         /\ DefrostState(m.hsm) # "HeaterOn" => n.onTime[e] = 0
  <2>1. \A e \in Evaporators :
           /\ m.heater[e] = "On" => m.hsm = "HeaterOn"
           /\ DefrostState(m.hsm) # "HeaterOn" => m.onTime[e] = 0
    BY DEF Tidy, Leavable
  <2>2. DefrostState("HeaterOn") = "HeaterOn"
    BY DEF DefrostState
  <2> SUFFICES ASSUME NEW e \in Evaporators
               PROVE  /\ m.heater[e] = "On" => DefrostState(m.hsm) = "HeaterOn"
                      /\ \/ n.onTime[e] = m.onTime[e]
                         \/ n.onTime[e] = 0 /\ m.heater[e] # "On"
                      /\ DefrostState(m.hsm) # "HeaterOn" => n.onTime[e] = 0
    OBVIOUS
  <2>3. m.heater[e] = "On" => DefrostState(m.hsm) = "HeaterOn"
    BY <2>1, <2>2
  <2>4. CASE DefrostState(m.hsm) = "HeaterOn"
    <3>1. n.onTime[e] = m.onTime[e]
      BY <1>2, <2>4
    <3> QED BY <2>4, <3>1
  <2>5. CASE DefrostState(m.hsm) # "HeaterOn"
    <3>1. m.heater[e] # "On" /\ ~HeaterIsOn(m, y, e)
      BY <2>3, <2>5 DEF HeaterIsOn
    <3>2. n.onTime[e] = 0
      BY <1>2, <2>5, <3>1
    <3> QED BY <2>5, <3>1, <3>2
  <2> QED BY <2>3, <2>4, <2>5
<1>5. \A e \in Evaporators : HeaterIsOn(n, y, e) <=> e \in n.counting
  BY <1>2, <1>3, <1>4 DEF HeaterIsOn
<1>6. OnTimes(n)
  BY <1>3, <1>4, MaximaFacts DEF OnTimes, Tidy, Leavable
<1>7. n.hsm \in BeforeHeating => NoVotes(n) /\ NoTimes(n)
  <2>1. n.hsm \in BeforeHeating => NoVotes(m) /\ NoTimes(m)
    BY <1>3 DEF Tidy, Leavable
  <2> QED BY <1>3, <1>4, <2>1 DEF NoVotes, NoTimes
<1>8. Heated(n, y) = Heated(m, x)
  BY <1>3 DEF Heated, Secondary
<1>9. Leavable(n, y)
  BY <1>3, <1>4, <1>5, <1>6, <1>7, <1>8 DEF Tidy, Leavable
<1> QED BY <1>3, <1>9 DEF Tidy, n

\* The cooling system is turned off or on.
LEMMA CoolingOffStep ==
    ASSUME DefrostInv, NEW off \in BOOLEAN, CoolingOffRequest(off)
    PROVE  DefrostInv'
<1> DEFINE x == VoteOffForAllTheLoads(erds, off)
           y == [x EXCEPT !.coolingStatus = off]
           c == CountHeaters(defrost, x)
<1>1. PICK now \in Readings :
         erds' = y /\ Becomes(SetDisableDefrost(c, x, off, now))
  BY DEF CoolingOffRequest
<1>2. x \in Erds /\ x.convertible = erds.convertible
  BY DEF VoteOffForAllTheLoads, DefrostInv, Erds
<1> HIDE DEF x
<1>3. y \in Erds /\ y.convertible = x.convertible /\ y.coolingOff = x.coolingOff
  BY <1>2 DEF Erds
<1> HIDE DEF y
<1>4. Tidy(c, x)
  BY <1>2, RecountFacts DEF DefrostInv
<1> HIDE DEF c
<1>5. Tidy(SetDisableDefrost(c, x, off, now), x)
  BY <1>4, DisableFacts
<1>6. Tidy(SetDisableDefrost(c, x, off, now), y)
  BY <1>3, <1>5, ErdFacts
<1>7. defrost' = SetDisableDefrost(c, x, off, now) /\ since' \in Nat
  BY <1>1, BecomesFacts
<1> QED BY <1>1, <1>3, <1>6, <1>7 DEF DefrostInv

\* The power fails and returns, with the EEPROM intact or blank.
LEMMA PowerCycleStep ==
    ASSUME DefrostInv, PowerCycle
    PROVE  DefrostInv'
<1>1. PICK wiped \in BOOLEAN, warm \in Thermistors \cup {"None"} :
         LET x == VoteBasedOnStatus([erds EXCEPT
                     !.flags = IF wiped THEN {} ELSE @ \cap {"sabbath", "enhanced"},
                     !.coolingStatus = @ /\ ~wiped]) IN
         /\ erds' = x
         /\ defrost' = Start(IF wiped THEN DefaultSettings ELSE Settings(defrost), x, warm)
         /\ since' = IF wiped THEN 0 ELSE since
  BY DEF PowerCycle
<1> DEFINE flags == IF wiped THEN {} ELSE erds.flags \cap {"sabbath", "enhanced"}
           status == erds.coolingStatus /\ ~wiped
           y == [erds EXCEPT !.flags = flags, !.coolingStatus = status]
           x == VoteBasedOnStatus(y)
           settings == IF wiped THEN DefaultSettings ELSE Settings(defrost)
<1>2. erds' = x /\ defrost' = Start(settings, x, warm)
  BY <1>1
<1>3. flags \in SUBSET Flags /\ status \in BOOLEAN
  BY DEF DefrostInv, Erds
<1> HIDE DEF flags, status
<1>4. y \in Erds
  BY <1>3 DEF DefrostInv, Erds
<1> HIDE DEF y
<1>5. x \in Erds
  BY <1>4 DEF VoteBasedOnStatus, VoteOffForAllTheLoads, Erds
<1> HIDE DEF x
<1>6. settings \in AllSettings
  BY SettingsFacts DEF DefrostInv, Tidy, Leavable
<1> HIDE DEF settings
<1>7. Tidy(Start(settings, x, warm), x)
  BY <1>5, <1>6, StartFacts
<1>8. since' \in Nat
  BY <1>1 DEF DefrostInv
<1> QED BY <1>2, <1>5, <1>7, <1>8 DEF DefrostInv

\* Every step keeps the invariant.
LEMMA DefrostInvStep ==
    ASSUME DefrostInv, HeatingIsNotReassigned, [Next]_vars
    PROVE  DefrostInv'
<1>1. CASE UNCHANGED vars
  BY <1>1 DEF vars, DefrostInv
<1>2. CASE Next
  BY <1>2, TimerExpiresStep, MinuteStep, WriteFlagStep, CoolingModeStep,
     CabinetTemperatureStep, EvaporatorTemperatureStep, ThermistorStep, ConvertibleStep,
     ValveStep, TestRequestStep, CoolingOffStep, PowerCycleStep
     DEF Next
<1> QED BY <1>1, <1>2

\* The inductive invariant of the defrost.
LEMMA DefrostInvariant ==
    ASSUME HeatingIsNotReassigned
    PROVE  Spec => []DefrostInv
<1>1. Init => DefrostInv
  BY InitEstablishesDefrostInv
<1>2. DefrostInv /\ [Next]_vars => DefrostInv'
  BY DefrostInvStep
<1> QED BY <1>1, <1>2, PTL DEF Spec

\* Defrost.c: whatever event leaves a state (its timer, a temperature, a test
\* request, the cooling system, the power), no heater stays voted on outside
\* HeaterOn, and no vote for a load, timer or request outlives its state.
THEOREM NothingOutlivesItsState ==
    ASSUME HeatingIsNotReassigned
    PROVE  Spec => []StatesAreLeftClean
<1>1. DefrostInv => StatesAreLeftClean
  <2> SUFFICES ASSUME DefrostInv PROVE StatesAreLeftClean
    OBVIOUS
  <2>1. Leavable(defrost, erds) /\ defrost.request = "None"
    BY DEF DefrostInv, Tidy
  <2>2. defrost.hsm \in HsmStates
    BY <2>1, MachineFields DEF Leavable
  <2>3. HeatersAreOnOnlyInHeaterOn
    BY <2>1 DEF HeatersAreOnOnlyInHeaterOn, Leavable, LoadsOf, LoadVote, HeaterOnVote, Fans
  <2>4. NothingIsLeftBehind
    BY <2>1, <2>2 DEF NothingIsLeftBehind, Leavable, LoadsOf, HsmStates, Prechills
  <2> QED BY <2>3, <2>4 DEF StatesAreLeftClean
<1> QED BY <1>1, DefrostInvariant, PTL

\* Defrost.c and DefrostHeaterOnTimeCounter.c: a heater that is really on is
\* counted, never past the largest of its maxima, also when its thermistor
\* fails or the evaporators are assigned again in the heating; its time ends
\* with it, and no vote for it is left in Idle.
THEOREM EveryHeaterIsTimed ==
    ASSUME HeatingEndsByItself
    PROVE  Spec => []HeatersAreTimed
<1>1. HeatingIsNotReassigned
  BY DEF HeatingIsNotReassigned
<1>2. DefrostInv => HeatersAreTimed
  <2> SUFFICES ASSUME DefrostInv PROVE HeatersAreTimed
    OBVIOUS
  <2>1. Leavable(defrost, erds)
    BY DEF DefrostInv, Tidy
  <2>2. TypeOK
    BY <2>1 DEF TypeOK, DefrostInv, Leavable
  <2>3. HeatingIsTimed
    BY <2>1 DEF HeatingIsTimed, Leavable
  <2>4. OnTimeIsBounded
    BY <2>1 DEF OnTimeIsBounded, Leavable, OnTimes, Bounded, Maxima
  <2>5. NoHeaterVoteInIdle
    BY <2>1 DEF NoHeaterVoteInIdle, Leavable, NoVotes, BeforeHeating
  <2> QED BY <2>2, <2>3, <2>4, <2>5 DEF HeatersAreTimed
<1> QED BY <1>1, <1>2, DefrostInvariant, PTL

-----------------------------------------------------------------------------
(***************************************************************************)
(* How often the primary evaporators are passed over.                      *)
(***************************************************************************)
MachineFieldNames ==
    {"hsm", "type", "override", "count", "skipTest", "skipDisable", "request",
     "dontSkipPrechill", "aham", "disable", "tooWarm", "cleared",
     "invalidThermistor", "abnormal", "fault", "heater", "counting", "onTime",
     "loads", "timer", "homing", "waiting", "defrosting"}

\* The fields that say which defrost it is to be.
ChoiceFields ==
    {"hsm", "type", "override", "count", "request", "skipTest", "skipDisable",
     "tooWarm", "cleared"}

Fielded(m) == m = [f \in MachineFieldNames |-> m[f]]

\* n is m, but perhaps in the state, which is s, and without its request.
Keeps(n, m, s) ==
    /\ Fielded(n) /\ n.hsm = s /\ n.type = m.type /\ n.override = m.override
    /\ n.count = m.count /\ n.request \in {m.request, "None"}
    /\ n.skipTest = m.skipTest /\ n.skipDisable = m.skipDisable
    /\ n.tooWarm = m.tooWarm /\ n.cleared = m.cleared

LEMMA MachineIsFielded ==
    ASSUME NEW m \in Machines
    PROVE  Fielded(m)
BY SMTT(60) DEF Machines, Fielded, MachineFieldNames

\* The same machine but for what no choice depends on.
LEMMA OtherWrites ==
    ASSUME NEW m, Fielded(m), NEW f \in MachineFieldNames \ ChoiceFields, NEW v
    PROVE  Keeps([m EXCEPT ![f] = v], m, m.hsm)
<1> DEFINE n == [m EXCEPT ![f] = v]
<1>1. n = [g \in MachineFieldNames |-> IF g = f THEN v ELSE m[g]]
  BY DEF Fielded
<1>2. \A g \in MachineFieldNames : n[g] = IF g = f THEN v ELSE m[g]
  BY <1>1
<1>3. n = [g \in MachineFieldNames |-> n[g]]
  BY <1>1, <1>2
<1> HIDE DEF n
<1>4. n.hsm = m.hsm /\ n.type = m.type /\ n.override = m.override
  BY <1>2 DEF MachineFieldNames, ChoiceFields
<1>5. n.count = m.count /\ n.request = m.request
  BY <1>2 DEF MachineFieldNames, ChoiceFields
<1>6. n.skipTest = m.skipTest /\ n.skipDisable = m.skipDisable
  BY <1>2 DEF MachineFieldNames, ChoiceFields
<1>7. n.tooWarm = m.tooWarm /\ n.cleared = m.cleared
  BY <1>2 DEF MachineFieldNames, ChoiceFields
<1> QED BY <1>3, <1>4, <1>5, <1>6, <1>7 DEF Keeps, Fielded, n

\* The writes of the fields a choice depends on.
LEMMA ChoiceWrites ==
    ASSUME NEW m, Fielded(m), NEW f \in ChoiceFields, NEW v
    PROVE  LET n == [m EXCEPT ![f] = v] IN
           Fielded(n) /\ n[f] = v /\ \A g \in ChoiceFields \ {f} : n[g] = m[g]
<1> DEFINE n == [m EXCEPT ![f] = v]
<1>1. n = [g \in MachineFieldNames |-> IF g = f THEN v ELSE m[g]]
  BY DEF Fielded
<1>2. \A g \in MachineFieldNames : n[g] = IF g = f THEN v ELSE m[g]
  BY <1>1
<1>3. n = [g \in MachineFieldNames |-> n[g]]
  BY <1>1, <1>2
<1>4. ChoiceFields \subseteq MachineFieldNames
  BY DEF ChoiceFields, MachineFieldNames
<1> HIDE DEF n
<1> QED BY <1>2, <1>3, <1>4 DEF Fielded

\* One write after another.
LEMMA KeepsOn ==
    ASSUME NEW a, NEW b, NEW c, NEW s, NEW t, Keeps(b, a, s), Keeps(c, b, t)
    PROVE  Keeps(c, a, t)
BY DEF Keeps

\* The votes, the counters, the status and the timer.
LEMMA VotesKeep ==
    ASSUME NEW m, Fielded(m), NEW x, NEW es, NEW vote, NEW w, NEW d
    PROVE  /\ Keeps(CountHeaters(m, x), m, m.hsm)
           /\ Keeps(VoteHeaters(m, x, es, vote), m, m.hsm)
           /\ Keeps(VoteForLoads(m, vote), m, m.hsm)
           /\ Keeps(StartDefrostTimer(m), m, m.hsm)
           /\ Keeps([m EXCEPT !.timer = vote], m, m.hsm)
           /\ Keeps(SetStatus(m, w, d), m, m.hsm)
<1>1. ASSUME NEW a, Fielded(a) PROVE Keeps(CountHeaters(a, x), a, a.hsm)
  <2> DEFINE c == IF DefrostState(a.hsm) = "HeaterOn"
                  THEN {e \in Evaporators : HeaterIsOn(a, x, e)}
                  ELSE a.counting \cap {e \in Evaporators : HeaterIsOn(a, x, e)}
             t == [e \in Evaporators |->
                      IF \/ e \in {f \in Evaporators : HeaterIsOn(a, x, f)}
                         \/ DefrostState(a.hsm) = "HeaterOn"
                      THEN a.onTime[e] ELSE 0]
             b == [a EXCEPT !.counting = c]
  <2>1. CountHeaters(a, x) = [a EXCEPT !.counting = c, !.onTime = t]
    BY DEF CountHeaters
  <2>2. {"counting", "onTime"} \subseteq MachineFieldNames \ ChoiceFields
    BY DEF MachineFieldNames, ChoiceFields
  <2> HIDE DEF c, t
  <2>3. Keeps(b, a, a.hsm)
    BY <1>1, <2>2, OtherWrites
  <2>4. Fielded(b) /\ b.hsm = a.hsm
    BY <2>3 DEF Keeps
  <2>5. [a EXCEPT !.counting = c, !.onTime = t] = [b EXCEPT !.onTime = t]
    OBVIOUS
  <2> HIDE DEF b
  <2>6. Keeps([b EXCEPT !.onTime = t], b, b.hsm)
    BY <2>2, <2>4, OtherWrites
  <2> QED BY <2>1, <2>3, <2>4, <2>5, <2>6, KeepsOn
<1>2. Keeps(VoteHeaters(m, x, es, vote), m, m.hsm)
  <2> DEFINE h == [e \in Evaporators |-> IF e \in es THEN vote ELSE m.heater[e]]
             b == [m EXCEPT !.heater = h]
  <2>1. VoteHeaters(m, x, es, vote) = CountHeaters(b, x)
    BY DEF VoteHeaters
  <2>2. "heater" \in MachineFieldNames \ ChoiceFields
    BY DEF MachineFieldNames, ChoiceFields
  <2> HIDE DEF h
  <2>3. Keeps(b, m, m.hsm)
    BY <2>2, OtherWrites
  <2> HIDE DEF b
  <2>4. Fielded(b) /\ b.hsm = m.hsm
    BY <2>3 DEF Keeps
  <2>5. Keeps(CountHeaters(b, x), b, b.hsm)
    BY <1>1, <2>4
  <2> QED BY <2>1, <2>3, <2>4, <2>5, KeepsOn
<1>3. ASSUME NEW v PROVE /\ Keeps([m EXCEPT !.loads = v], m, m.hsm)
                          /\ Keeps([m EXCEPT !.timer = v], m, m.hsm)
  <2>1. {"loads", "timer"} \subseteq MachineFieldNames \ ChoiceFields
    BY DEF MachineFieldNames, ChoiceFields
  <2> QED BY <2>1, OtherWrites
<1>4. Keeps(SetStatus(m, w, d), m, m.hsm)
  <2> DEFINE b == [m EXCEPT !.waiting = w]
  <2>1. {"waiting", "defrosting"} \subseteq MachineFieldNames \ ChoiceFields
    BY DEF MachineFieldNames, ChoiceFields
  <2>2. Keeps(b, m, m.hsm)
    BY <2>1, OtherWrites
  <2>3. Fielded(b) /\ b.hsm = m.hsm
    BY <2>2 DEF Keeps
  <2>4. SetStatus(m, w, d) = [b EXCEPT !.defrosting = d]
    BY DEF SetStatus
  <2> HIDE DEF b
  <2>5. Keeps([b EXCEPT !.defrosting = d], b, b.hsm)
    BY <2>1, <2>3, OtherWrites
  <2> QED BY <2>2, <2>3, <2>4, <2>5, KeepsOn
<1> QED BY <1>1, <1>2, <1>3, <1>4 DEF VoteForLoads, StartDefrostTimer

\* The state, and the request that is cleared.
LEMMA StateKeeps ==
    ASSUME NEW m, Fielded(m), NEW x, NEW s
    PROVE  /\ Keeps(SetHsmStateTo(m, x, s), m, s)
           /\ Keeps(ClearDefrostTestStateRequest(m), m, m.hsm)
<1> DEFINE b == [m EXCEPT !.hsm = s]
<1>1. {"hsm", "request"} \subseteq ChoiceFields
  BY DEF ChoiceFields
<1>2. Fielded(b) /\ b["hsm"] = s /\ \A g \in ChoiceFields \ {"hsm"} : b[g] = m[g]
  BY <1>1, ChoiceWrites
<1> HIDE DEF b
<1>3. Keeps(b, m, s)
  BY <1>2 DEF Keeps, ChoiceFields
<1>4. Keeps(CountHeaters(b, x), b, b.hsm)
  BY <1>2, VotesKeep
<1>5. Keeps(SetHsmStateTo(m, x, s), m, s)
  BY <1>2, <1>3, <1>4, KeepsOn DEF SetHsmStateTo, b
<1> DEFINE c == [m EXCEPT !.request = "None"]
<1>6. Fielded(c) /\ c["request"] = "None" /\ \A g \in ChoiceFields \ {"request"} : c[g] = m[g]
  BY <1>1, ChoiceWrites
<1> HIDE DEF c
<1>7. Keeps(c, m, m.hsm)
  BY <1>6 DEF Keeps, ChoiceFields
<1> QED BY <1>5, <1>7 DEF ClearDefrostTestStateRequest, c

\* The exit of every state but Idle and Disabled.
LEMMA ExitKeeps ==
    ASSUME NEW m, Fielded(m), NEW x
    PROVE  /\ Keeps(ExitTimed(m, x), m, m.hsm)
           /\ m.hsm \notin {"Idle", "Disabled"} => Keeps(Exit(m, x), m, m.hsm)
<1>1. Keeps(ExitTimed(m, x), m, m.hsm)
  <2> DEFINE a == VoteForLoads(m, "None")
             b == [a EXCEPT !.timer = FALSE]
  <2>1. Keeps(a, m, m.hsm)
    BY VotesKeep
  <2> HIDE DEF a
  <2>2. Fielded(a) /\ a.hsm = m.hsm
    BY <2>1 DEF Keeps
  <2>3. Keeps(b, a, a.hsm)
    BY <2>2, VotesKeep
  <2> HIDE DEF b
  <2>4. Keeps(b, m, m.hsm) /\ Fielded(b) /\ b.hsm = m.hsm
    BY <2>1, <2>2, <2>3, KeepsOn DEF Keeps
  <2>5. Keeps(VoteHeaters(b, x, Evaporators, "DontCare"), b, b.hsm)
    BY <2>4, VotesKeep
  <2>6. Keeps(VoteHeaters(b, x, Evaporators, "DontCare"), m, m.hsm)
    BY <2>4, <2>5, KeepsOn
  <2> QED BY <2>4, <2>6 DEF ExitTimed, a, b
<1>2. Keeps(ExitHeaterOn(m, x), m, m.hsm)
  <2> DEFINE i == m.invalidThermistor /\ ~PrimaryAndSecondaryEvaporatorsAreAllValid(x)
             a == [m EXCEPT !.invalidThermistor = i]
             b == VoteForLoads(a, "None")
             es == IF m.type = "Full" THEN Evaporators ELSE Secondary(x)
  <2>1. ExitHeaterOn(m, x) = VoteHeaters(b, x, es, "DontCare")
    BY DEF ExitHeaterOn
  <2>2. "invalidThermistor" \in MachineFieldNames \ ChoiceFields
    BY DEF MachineFieldNames, ChoiceFields
  <2> HIDE DEF i, es
  <2>3. Keeps(a, m, m.hsm)
    BY <2>2, OtherWrites
  <2> HIDE DEF a
  <2>4. Fielded(a) /\ a.hsm = m.hsm
    BY <2>3 DEF Keeps
  <2>5. Keeps(b, a, a.hsm)
    BY <2>4, VotesKeep
  <2> HIDE DEF b
  <2>6. Keeps(b, m, m.hsm) /\ Fielded(b) /\ b.hsm = m.hsm
    BY <2>3, <2>4, <2>5, KeepsOn DEF Keeps
  <2>7. Keeps(VoteHeaters(b, x, es, "DontCare"), b, b.hsm)
    BY <2>6, VotesKeep
  <2> QED BY <2>1, <2>6, <2>7, KeepsOn
<1> QED BY <1>1, <1>2 DEF Exit

\* The exit of Disabled.
LEMMA ExitDisabledKeeps ==
    ASSUME NEW m, Fielded(m), NEW x
    PROVE  LET n == ExitDisabled(m, x) IN
           /\ Fielded(n) /\ n.hsm = m.hsm /\ n.type = m.type /\ n.override = m.override
           /\ n.count = m.count /\ n.request \in {m.request, "None"}
           /\ n.skipTest = m.skipTest /\ ~n.skipDisable
<1> DEFINE a == [m EXCEPT !.skipDisable = FALSE]
           n == VoteHeaters(a, x, Evaporators, "DontCare")
<1>1. "skipDisable" \in ChoiceFields
  BY DEF ChoiceFields
<1>2. /\ Fielded(a) /\ a["skipDisable"] = FALSE
      /\ \A g \in ChoiceFields \ {"skipDisable"} : a[g] = m[g]
  BY <1>1, ChoiceWrites
<1> HIDE DEF a
<1>3. /\ a.hsm = m.hsm /\ a.type = m.type /\ a.override = m.override
      /\ a.count = m.count /\ a.request = m.request /\ a.skipTest = m.skipTest
      /\ ~a.skipDisable
  BY <1>2 DEF ChoiceFields
<1>4. Keeps(n, a, a.hsm)
  BY <1>2, VotesKeep
<1>5. ExitDisabled(m, x) = n
  BY DEF ExitDisabled, a
<1> HIDE DEF n
<1> QED BY <1>3, <1>4, <1>5 DEF Keeps

\* The exit of Idle chooses the defrost.
LEMMA ExitIdleChooses ==
    ASSUME NEW m, Fielded(m), NEW x, m.count \in 0 .. 255,
           m.override \in {"Full", "DontCare"}
    PROVE  LET n == ExitIdle(m, x) IN
           /\ Fielded(n) /\ n.hsm = m.hsm /\ n.request = m.request
           /\ ~n.skipTest /\ n.skipDisable = m.skipDisable
           /\ m.skipTest \/ m.skipDisable =>
                 n.type = m.type /\ n.override = m.override /\ n.count = m.count
           /\ ~(m.skipTest \/ m.skipDisable) =>
                 /\ n.override = "DontCare"
                 /\ \/ n.type = "Full" /\ n.count = 0
                    \/ /\ m.override = "DontCare" /\ n.type = "SecondaryOnly"
                       /\ n.count = m.count + 1
                       /\ \E limit \in {NormalLimit, AbnormalLimit, SabbathLimit} :
                             m.count + 1 <= limit
<1> DEFINE o == [m EXCEPT !.tooWarm = FALSE]
           l == ClearPowerUp(m)
           type == ChosenType(l, x)
           count == IF type = "SecondaryOnly" THEN (l.count + 1) % 256 ELSE 0
           t == [l EXCEPT !.type = type]
           u == [t EXCEPT !.override = "DontCare"]
           c == SetDefrostType(l, x)
           s == IF m.skipTest \/ m.skipDisable THEN l ELSE c
           n == [s EXCEPT !.skipTest = FALSE]
<1>1. {"type", "override", "count", "skipTest", "tooWarm", "cleared"} \subseteq ChoiceFields
  BY DEF ChoiceFields
<1>2. {"type", "override", "count", "skipTest"} \subseteq ChoiceFields
  BY <1>1
<1>3. Fielded(o) /\ \A g \in ChoiceFields \ {"tooWarm"} : o[g] = m[g]
  BY <1>1, ChoiceWrites
<1>4. l = [o EXCEPT !.cleared = FALSE]
  BY DEF ClearPowerUp
<1> HIDE DEF o, l
<1>5. Fielded(l) /\ \A g \in ChoiceFields \ {"cleared"} : l[g] = o[g]
  BY <1>1, <1>3, <1>4, ChoiceWrites
<1>6. \A g \in ChoiceFields \ {"tooWarm", "cleared"} : l[g] = m[g]
  BY <1>3, <1>5
<1>7. /\ Fielded(l) /\ l.hsm = m.hsm /\ l.type = m.type /\ l.override = m.override
      /\ l.count = m.count /\ l.skipTest = m.skipTest /\ l.skipDisable = m.skipDisable
  BY <1>5, <1>6 DEF ChoiceFields
<1>8. l.request = m.request
  BY <1>6 DEF ChoiceFields
<1>9. /\ \/ type = "Full" /\ count = 0
         \/ /\ m.override = "DontCare" /\ type = "SecondaryOnly" /\ count = m.count + 1
            /\ \E limit \in {NormalLimit, AbnormalLimit, SabbathLimit} :
                  m.count + 1 <= limit
  <2>1. \E limit \in {NormalLimit, AbnormalLimit, SabbathLimit} :
           limit \in 0 .. 254 /\ DetermineNumberOfSecondaryOnlyDefrosts(l, x) = limit
    BY DefrostAssumption DEF DetermineNumberOfSecondaryOnlyDefrosts
  <2>2. PICK limit \in {NormalLimit, AbnormalLimit, SabbathLimit} :
           limit \in 0 .. 254 /\ DetermineNumberOfSecondaryOnlyDefrosts(l, x) = limit
    BY <2>1
  <2>3. CASE m.override = "Full"
    <3>1. type = "Full"
      BY <1>7, <2>3 DEF ChosenType
    <3> QED BY <3>1
  <2>4. CASE m.override = "DontCare" /\ ~(m.count < limit)
    <3>1. type = "Full"
      BY <1>7, <2>2, <2>4 DEF ChosenType
    <3> QED BY <3>1
  <2>5. CASE m.override = "DontCare" /\ m.count < limit
    <3>1. type = "SecondaryOnly"
      BY <1>7, <2>2, <2>5 DEF ChosenType
    <3>2. m.count + 1 <= limit /\ m.count + 1 < 256
      BY <2>2, <2>5, SMTT(60)
    <3>3. (m.count + 1) % 256 = m.count + 1
      BY <3>2
    <3>4. count = m.count + 1
      BY <1>7, <3>1, <3>3
    <3> QED BY <2>5, <3>1, <3>2, <3>4
  <2> QED BY <2>3, <2>4, <2>5
<1>10. c = [u EXCEPT !.count = count]
  BY DEF SetDefrostType
<1> HIDE DEF type, count
<1>11. Fielded(t) /\ t["type"] = type /\ \A g \in ChoiceFields \ {"type"} : t[g] = l[g]
  BY <1>2, <1>7, ChoiceWrites
<1> HIDE DEF t
<1>12. /\ Fielded(u) /\ u["override"] = "DontCare"
       /\ \A g \in ChoiceFields \ {"override"} : u[g] = t[g]
  BY <1>2, <1>11, ChoiceWrites
<1> HIDE DEF u, c
<1>13. Fielded(c) /\ c["count"] = count /\ \A g \in ChoiceFields \ {"count"} : c[g] = u[g]
  BY <1>2, <1>10, <1>12, ChoiceWrites
<1>14. /\ c.hsm = m.hsm /\ c.type = type /\ c.override = "DontCare" /\ c.count = count
       /\ c.request = m.request /\ c.skipDisable = m.skipDisable
  BY <1>7, <1>8, <1>11, <1>12, <1>13 DEF ChoiceFields
<1>15. /\ Fielded(s) /\ s.hsm = m.hsm /\ s.request = m.request
       /\ s.skipDisable = m.skipDisable
       /\ m.skipTest \/ m.skipDisable =>
             s.type = m.type /\ s.override = m.override /\ s.count = m.count
       /\ ~(m.skipTest \/ m.skipDisable) =>
             s.type = type /\ s.override = "DontCare" /\ s.count = count
  BY <1>7, <1>8, <1>13, <1>14
<1>16. ExitIdle(m, x) = n
  BY DEF ExitIdle, l, c
<1> HIDE DEF s
<1>17. /\ Fielded(n) /\ n["skipTest"] = FALSE
       /\ \A g \in ChoiceFields \ {"skipTest"} : n[g] = s[g]
  BY <1>2, <1>15, ChoiceWrites
<1> HIDE DEF n
<1>18. /\ n.hsm = s.hsm /\ n.type = s.type /\ n.override = s.override
       /\ n.count = s.count /\ n.request = s.request /\ n.skipDisable = s.skipDisable
       /\ ~n.skipTest
  BY <1>17 DEF ChoiceFields
<1> QED BY <1>9, <1>15, <1>16, <1>17, <1>18

\* The entries that go no further.
LEMMA EntriesKeep ==
    ASSUME NEW m, Fielded(m), NEW x
    PROVE  /\ Keeps(EnterHeaterOnEntry(m, x), m, "HeaterOnEntry")
           /\ Keeps(EnterHeaterOn(m, x), m, "HeaterOn")
           /\ Keeps(EnterDwell(m, x), m, "Dwell")
           /\ Keeps(EnterPostDwell(m, x), m, "PostDwell")
           /\ Keeps(EnterDisabled(m, x), m, "Disabled")
<1>1. ASSUME NEW w, NEW d, NEW s
      PROVE  Keeps(SetHsmStateTo(SetStatus(m, w, d), x, s), m, s)
  <2> DEFINE b == SetStatus(m, w, d)
             a == SetHsmStateTo(b, x, s)
  <2>1. Keeps(b, m, m.hsm)
    BY VotesKeep
  <2> HIDE DEF b
  <2>2. Keeps(a, b, s)
    <3>1. Fielded(b)
      BY <2>1 DEF Keeps
    <3> QED BY <3>1, StateKeeps
  <2> HIDE DEF a
  <2>3. Keeps(a, m, s)
    BY <2>1, <2>2, KeepsOn
  <2> QED BY <2>3 DEF a, b
<1>2. Keeps(EnterHeaterOnEntry(m, x), m, "HeaterOnEntry")
  <2> DEFINE a == SetHsmStateTo(Defrosting(m), x, "HeaterOnEntry")
             b == ClearDefrostTestStateRequest(a)
             c == VoteForLoads(b, "HeaterOn")
  <2>1. EnterHeaterOnEntry(m, x) = StartDefrostTimer(c)
    BY DEF EnterHeaterOnEntry
  <2>2. Keeps(a, m, "HeaterOnEntry") /\ Fielded(a) /\ a.hsm = "HeaterOnEntry"
    <3>1. a = SetHsmStateTo(SetStatus(m, FALSE, TRUE), x, "HeaterOnEntry")
      BY DEF Defrosting
    <3> HIDE DEF a
    <3>2. Keeps(a, m, "HeaterOnEntry")
      BY <1>1, <3>1
    <3> QED BY <3>2 DEF Keeps
  <2> HIDE DEF a
  <2>3. Keeps(b, a, a.hsm)
    BY <2>2, StateKeeps
  <2> HIDE DEF b
  <2>4. Fielded(b) /\ b.hsm = "HeaterOnEntry"
    BY <2>2, <2>3 DEF Keeps
  <2>5. Keeps(c, b, b.hsm)
    BY <2>4, VotesKeep
  <2> HIDE DEF c
  <2>6. Fielded(c) /\ c.hsm = "HeaterOnEntry"
    BY <2>4, <2>5 DEF Keeps
  <2>7. Keeps(StartDefrostTimer(c), c, c.hsm)
    BY <2>6, VotesKeep
  <2> QED BY <2>1, <2>2, <2>3, <2>4, <2>5, <2>6, <2>7, KeepsOn
<1>3. Keeps(EnterHeaterOn(m, x), m, "HeaterOn")
  <2> DEFINE a == SetHsmStateTo(Defrosting(m), x, "HeaterOn")
             b == VoteForLoads(a, "HeaterOn")
             es == IF m.type = "Full" THEN Evaporators ELSE Secondary(x)
  <2>1. EnterHeaterOn(m, x) = VoteHeaters(b, x, es, "On")
    BY DEF EnterHeaterOn
  <2>2. Keeps(a, m, "HeaterOn") /\ Fielded(a) /\ a.hsm = "HeaterOn"
    <3>1. a = SetHsmStateTo(SetStatus(m, FALSE, TRUE), x, "HeaterOn")
      BY DEF Defrosting
    <3> HIDE DEF a
    <3>2. Keeps(a, m, "HeaterOn")
      BY <1>1, <3>1
    <3> QED BY <3>2 DEF Keeps
  <2> HIDE DEF a, es
  <2>3. Keeps(b, a, a.hsm)
    BY <2>2, VotesKeep
  <2> HIDE DEF b
  <2>4. Fielded(b) /\ b.hsm = "HeaterOn"
    BY <2>2, <2>3 DEF Keeps
  <2>5. Keeps(VoteHeaters(b, x, es, "On"), b, b.hsm)
    BY <2>4, VotesKeep
  <2> QED BY <2>1, <2>2, <2>3, <2>4, <2>5, KeepsOn
<1>4. Keeps(EnterDwell(m, x), m, "Dwell")
  <2> DEFINE h == SetHsmStateTo(Defrosting(m), x, "Dwell")
             a == [h EXCEPT !.homing = TRUE]
             b == VoteForLoads(a, "Dwell")
             c == VoteHeaters(b, x, Evaporators, "Off")
             d == StartDefrostTimer(c)
  <2>1. EnterDwell(m, x) = ClearDefrostTestStateRequest(d)
    BY DEF EnterDwell
  <2>2. Keeps(h, m, "Dwell") /\ Fielded(h) /\ h.hsm = "Dwell"
    <3>1. h = SetHsmStateTo(SetStatus(m, FALSE, TRUE), x, "Dwell")
      BY DEF Defrosting
    <3> HIDE DEF h
    <3>2. Keeps(h, m, "Dwell")
      BY <1>1, <3>1
    <3> QED BY <3>2 DEF Keeps
  <2> HIDE DEF h
  <2>3. Keeps(a, h, h.hsm)
    <3>1. "homing" \in MachineFieldNames \ ChoiceFields
      BY DEF MachineFieldNames, ChoiceFields
    <3> QED BY <2>2, <3>1, OtherWrites
  <2> HIDE DEF a
  <2>4. Keeps(a, m, "Dwell") /\ Fielded(a) /\ a.hsm = "Dwell"
    BY <2>2, <2>3, KeepsOn DEF Keeps
  <2>5. Keeps(b, a, a.hsm)
    BY <2>4, VotesKeep
  <2> HIDE DEF b
  <2>6. Keeps(b, m, "Dwell") /\ Fielded(b) /\ b.hsm = "Dwell"
    BY <2>4, <2>5, KeepsOn DEF Keeps
  <2>7. Keeps(c, b, b.hsm)
    BY <2>6, VotesKeep
  <2> HIDE DEF c
  <2>8. Keeps(c, m, "Dwell") /\ Fielded(c) /\ c.hsm = "Dwell"
    BY <2>6, <2>7, KeepsOn DEF Keeps
  <2>9. Keeps(d, c, c.hsm)
    BY <2>8, VotesKeep
  <2> HIDE DEF d
  <2>10. Keeps(d, m, "Dwell") /\ Fielded(d) /\ d.hsm = "Dwell"
    BY <2>8, <2>9, KeepsOn DEF Keeps
  <2>11. Keeps(ClearDefrostTestStateRequest(d), d, d.hsm)
    BY <2>10, StateKeeps
  <2> QED BY <2>1, <2>10, <2>11, KeepsOn
<1>5. Keeps(EnterPostDwell(m, x), m, "PostDwell")
  <2> DEFINE a == SetHsmStateTo(Waiting(m), x, "PostDwell")
             b == VoteForLoads(a, "PostDwell")
             c == VoteHeaters(b, x, Evaporators, "Off")
  <2>1. EnterPostDwell(m, x) = StartDefrostTimer(c)
    BY DEF EnterPostDwell
  <2>2. Keeps(a, m, "PostDwell") /\ Fielded(a) /\ a.hsm = "PostDwell"
    <3>1. a = SetHsmStateTo(SetStatus(m, TRUE, FALSE), x, "PostDwell")
      BY DEF Waiting
    <3> HIDE DEF a
    <3>2. Keeps(a, m, "PostDwell")
      BY <1>1, <3>1
    <3> QED BY <3>2 DEF Keeps
  <2> HIDE DEF a
  <2>3. Keeps(b, a, a.hsm)
    BY <2>2, VotesKeep
  <2> HIDE DEF b
  <2>4. Keeps(b, m, "PostDwell") /\ Fielded(b) /\ b.hsm = "PostDwell"
    BY <2>2, <2>3, KeepsOn DEF Keeps
  <2>5. Keeps(c, b, b.hsm)
    BY <2>4, VotesKeep
  <2> HIDE DEF c
  <2>6. Keeps(c, m, "PostDwell") /\ Fielded(c) /\ c.hsm = "PostDwell"
    BY <2>4, <2>5, KeepsOn DEF Keeps
  <2>7. Keeps(StartDefrostTimer(c), c, c.hsm)
    BY <2>6, VotesKeep
  <2> QED BY <2>1, <2>6, <2>7, KeepsOn
<1>6. Keeps(EnterDisabled(m, x), m, "Disabled")
  <2> DEFINE a == SetHsmStateTo(m, x, "Disabled")
             b == VoteHeaters(a, x, Evaporators, "Off")
  <2>1. EnterDisabled(m, x) = SetStatus(b, FALSE, FALSE)
    BY DEF EnterDisabled
  <2>2. Keeps(a, m, "Disabled") /\ Fielded(a) /\ a.hsm = "Disabled"
    <3>1. Keeps(a, m, "Disabled")
      BY StateKeeps
    <3> QED BY <3>1 DEF Keeps
  <2> HIDE DEF a
  <2>3. Keeps(b, a, a.hsm)
    BY <2>2, VotesKeep
  <2> HIDE DEF b
  <2>4. Keeps(b, m, "Disabled") /\ Fielded(b) /\ b.hsm = "Disabled"
    BY <2>2, <2>3, KeepsOn DEF Keeps
  <2>5. Keeps(SetStatus(b, FALSE, FALSE), b, b.hsm)
    BY <2>4, VotesKeep
  <2> QED BY <2>1, <2>4, <2>5, KeepsOn
<1> QED BY <1>2, <1>3, <1>4, <1>5, <1>6

\* The entries that may: a prechill may be over as it begins.
LEMMA PrechillsKeep ==
    ASSUME NEW m, Fielded(m), NEW x, NEW now
    PROVE  /\ \E s \in {"Prechill", "HeaterOnEntry"} : Keeps(EnterPrechill(m, x, now), m, s)
           /\ \E s \in Prechills \cup {"HeaterOnEntry"} :
                 Keeps(EnterPrechillPrep(m, x, now), m, s)
           /\ m.request = "None" => Keeps(EnterIdle(m, x, now), m, "Idle")
<1>1. ASSUME NEW a, Fielded(a)
      PROVE  \E s \in {"Prechill", "HeaterOnEntry"} : Keeps(EnterPrechill(a, x, now), a, s)
  <2> DEFINE b == SetStatus(a, FALSE, TRUE)
             c == SetHsmStateTo(b, x, "Prechill")
             d == VoteForLoads(c, "Prechill")
             e == ExitTimed(d, x)
  <2>1. EnterPrechill(a, x, now) = IF PrechillExitConditionMet(x, now)
                                   THEN EnterHeaterOnEntry(e, x) ELSE StartDefrostTimer(d)
    BY DEF EnterPrechill, Defrosting
  <2>2. Keeps(b, a, a.hsm)
    BY <1>1, VotesKeep
  <2> HIDE DEF b
  <2>3. Keeps(c, b, "Prechill")
    <3>1. Fielded(b)
      BY <2>2 DEF Keeps
    <3> QED BY <3>1, StateKeeps
  <2> HIDE DEF c
  <2>4. Keeps(c, a, "Prechill") /\ Fielded(c) /\ c.hsm = "Prechill"
    BY <2>2, <2>3, KeepsOn DEF Keeps
  <2>5. Keeps(d, c, c.hsm)
    BY <2>4, VotesKeep
  <2> HIDE DEF d
  <2>6. Keeps(d, a, "Prechill") /\ Fielded(d) /\ d.hsm = "Prechill"
    BY <2>4, <2>5, KeepsOn DEF Keeps
  <2>7. Keeps(e, d, d.hsm)
    BY <2>6, ExitKeeps
  <2> HIDE DEF e
  <2>8. Fielded(e) /\ Keeps(e, a, d.hsm)
    BY <2>6, <2>7, KeepsOn DEF Keeps
  <2>9. Keeps(EnterHeaterOnEntry(e, x), e, "HeaterOnEntry")
    BY <2>8, EntriesKeep
  <2>10. Keeps(EnterHeaterOnEntry(e, x), a, "HeaterOnEntry")
    BY <2>8, <2>9, KeepsOn
  <2>11. Keeps(StartDefrostTimer(d), d, d.hsm)
    BY <2>6, VotesKeep
  <2>12. Keeps(StartDefrostTimer(d), a, "Prechill")
    BY <2>6, <2>11, KeepsOn
  <2> QED BY <2>1, <2>10, <2>12
<1>2. \E s \in Prechills \cup {"HeaterOnEntry"} : Keeps(EnterPrechillPrep(m, x, now), m, s)
  <2> DEFINE b == SetStatus(m, FALSE, TRUE)
             c == SetHsmStateTo(b, x, "PrechillPrep")
             d == [c EXCEPT !.dontSkipPrechill = FALSE]
             e == [d EXCEPT !.aham = FALSE]
             f == ClearDefrostTestStateRequest(e)
             g == ExitTimed(f, x)
  <2>1. EnterPrechillPrep(m, x, now) =
           IF AnyDiscoveredIsInvalid(x) THEN EnterHeaterOnEntry(m, x)
           ELSE IF PrechillConditionsAreMet(x, now) THEN EnterPrechill(g, x, now)
           ELSE StartDefrostTimer(f)
    BY DEF EnterPrechillPrep, Defrosting
  <2>2. Keeps(b, m, m.hsm)
    BY VotesKeep
  <2> HIDE DEF b
  <2>3. Keeps(c, b, "PrechillPrep")
    <3>1. Fielded(b)
      BY <2>2 DEF Keeps
    <3> QED BY <3>1, StateKeeps
  <2> HIDE DEF c
  <2>4. Keeps(c, m, "PrechillPrep") /\ Fielded(c) /\ c.hsm = "PrechillPrep"
    BY <2>2, <2>3, KeepsOn DEF Keeps
  <2>5. {"dontSkipPrechill", "aham"} \subseteq MachineFieldNames \ ChoiceFields
    BY DEF MachineFieldNames, ChoiceFields
  <2>6. Keeps(d, c, c.hsm)
    BY <2>4, <2>5, OtherWrites
  <2> HIDE DEF d
  <2>7. Keeps(d, m, "PrechillPrep") /\ Fielded(d) /\ d.hsm = "PrechillPrep"
    BY <2>4, <2>6, KeepsOn DEF Keeps
  <2>8. Keeps(e, d, d.hsm)
    BY <2>5, <2>7, OtherWrites
  <2> HIDE DEF e
  <2>9. Keeps(e, m, "PrechillPrep") /\ Fielded(e) /\ e.hsm = "PrechillPrep"
    BY <2>7, <2>8, KeepsOn DEF Keeps
  <2>10. Keeps(f, e, e.hsm)
    BY <2>9, StateKeeps
  <2> HIDE DEF f
  <2>11. Keeps(f, m, "PrechillPrep") /\ Fielded(f) /\ f.hsm = "PrechillPrep"
    BY <2>9, <2>10, KeepsOn DEF Keeps
  <2>12. Keeps(g, f, f.hsm)
    BY <2>11, ExitKeeps
  <2> HIDE DEF g
  <2>13. Fielded(g) /\ Keeps(g, m, f.hsm)
    BY <2>11, <2>12, KeepsOn DEF Keeps
  <2>14. PICK s \in {"Prechill", "HeaterOnEntry"} : Keeps(EnterPrechill(g, x, now), g, s)
    BY <1>1, <2>13
  <2>15. Keeps(EnterPrechill(g, x, now), m, s)
    BY <2>13, <2>14, KeepsOn
  <2>16. Keeps(StartDefrostTimer(f), f, f.hsm)
    BY <2>11, VotesKeep
  <2>17. Keeps(StartDefrostTimer(f), m, "PrechillPrep")
    BY <2>11, <2>16, KeepsOn
  <2>18. Keeps(EnterHeaterOnEntry(m, x), m, "HeaterOnEntry")
    BY EntriesKeep
  <2> QED BY <2>1, <2>14, <2>15, <2>17, <2>18 DEF Prechills
<1>3. m.request = "None" => Keeps(EnterIdle(m, x, now), m, "Idle")
  <2> SUFFICES ASSUME m.request = "None" PROVE Keeps(EnterIdle(m, x, now), m, "Idle")
    OBVIOUS
  <2> DEFINE b == SetStatus(m, TRUE, FALSE)
             c == SetHsmStateTo(b, x, "Idle")
  <2>1. Keeps(b, m, m.hsm)
    BY VotesKeep
  <2> HIDE DEF b
  <2>2. Keeps(c, b, "Idle")
    <3>1. Fielded(b)
      BY <2>1 DEF Keeps
    <3> QED BY <3>1, StateKeeps
  <2> HIDE DEF c
  <2>3. Keeps(c, m, "Idle")
    BY <2>1, <2>2, KeepsOn
  <2>4. c.request = "None"
    BY <2>3 DEF Keeps
  <2>5. EnterIdle(m, x, now) = c
    BY <2>4 DEF EnterIdle, Waiting, b, c
  <2> QED BY <2>3, <2>5
<1> QED BY <1>1, <1>2, <1>3

-----------------------------------------------------------------------------
\* A limit the count and the heatings keep below.
Limited(n) == \E limit \in {NormalLimit, AbnormalLimit, SabbathLimit} : n <= limit

\* A defrost of the primary evaporators is to come before any other.
FullIsDue(m) ==
    \/ m.override = "Full" \/ m.hsm = "Disabled"
    \/ m.type = "Full" /\ m.hsm \in Prechills \cup {"HeaterOnEntry"}

\* One that passes them over has been chosen, and counted, but not heated.
SecondaryIsDue(m) ==
    m.type = "SecondaryOnly" /\ m.hsm \in Prechills \cup {"HeaterOnEntry", "HeaterOn"}

\* The machine counts s heatings, and those that are due, or a full one is.
Counts(m, s) ==
    /\ Fielded(m) /\ m.hsm \in HsmStates
    /\ m.override \in {"Full", "DontCare"} /\ m.request = "None"
    /\ ~m.skipTest /\ (m.skipDisable => m.hsm = "Disabled")
    /\ s \in Nat /\ Limited(s) /\ m.count \in Nat /\ Limited(m.count)
    /\ SecondaryIsDue(m) => s + 1 <= m.count
    /\ ~FullIsDue(m) => s <= m.count

CountInv == Counts(defrost, since)

\* No test request asks for a defrost without the primary evaporators, cuts one
\* short or makes one in PostDwell, and the cooling system does not stop.
OnlyFullIsRequested ==
    TestRequests \subseteq {"Disable", "Enable", "AhamPrechill"} /\ ~CoolingCanStop

\* What Becomes makes of s.
After(m, n, s) ==
    CASE m.hsm # "HeaterOn" /\ n.hsm = "HeaterOn" /\ n.type = "Full" -> 0
      [] m.hsm = "HeaterOn" /\ n.hsm # "HeaterOn" /\ m.type = "SecondaryOnly" ->
            IF s > CountBound THEN s ELSE s + 1
      [] OTHER -> s

\* The state b may come after a without a choice.
Follows(a, b) ==
    \/ b = a
    \/ a \in Prechills /\ b \in Prechills \cup {"HeaterOnEntry"}
    \/ a = "HeaterOnEntry" /\ b = "HeaterOn"
    \/ a = "HeaterOn" /\ b = "Dwell"
    \/ a \in {"Dwell", "PostDwell"} /\ b \in {"PostDwell", "Idle"}

LEMMA LimitFacts ==
    /\ Limited(0)
    /\ \A n \in Nat : Limited(n) => n <= 254
    /\ \A n \in Nat, k \in Nat : k <= n /\ Limited(n) => Limited(k)
<1>1. \A limit \in {NormalLimit, AbnormalLimit, SabbathLimit} : limit \in 0 .. 254
  BY DefrostAssumption
<1> QED BY <1>1, SMTT(60) DEF Limited

LEMMA StateCounts ==
    ASSUME NEW m, NEW s, Counts(m, s), NEW n, NEW t, Keeps(n, m, t), Follows(m.hsm, t)
    PROVE  Counts(n, After(m, n, s))
<1> DEFINE a == After(m, n, s)
<1>1. /\ n.hsm = t /\ n.type = m.type /\ n.override = m.override /\ n.count = m.count
      /\ n.request = "None" /\ n.skipTest = m.skipTest /\ n.skipDisable = m.skipDisable
      /\ Fielded(n)
  BY DEF Keeps, Counts
<1>2. t \in HsmStates
  BY DEF Follows, Counts, HsmStates, Prechills
<1>3. /\ s \in Nat /\ Limited(s) /\ m.count \in Nat /\ Limited(m.count)
      /\ SecondaryIsDue(m) => s + 1 <= m.count
      /\ ~FullIsDue(m) => s <= m.count
  BY DEF Counts
<1>4. ~n.skipTest /\ (n.skipDisable => n.hsm = "Disabled")
  BY <1>1 DEF Counts, Follows, Prechills
<1>5. CASE m.hsm # "HeaterOn" /\ t = "HeaterOn" /\ m.type = "Full"
  <2>1. a = 0
    BY <1>1, <1>5 DEF After
  <2>2. ~SecondaryIsDue(n)
    BY <1>1, <1>5 DEF SecondaryIsDue
  <2> QED BY <1>1, <1>2, <1>3, <1>4, <2>1, <2>2, LimitFacts DEF Counts
<1>6. CASE m.hsm = "HeaterOn" /\ t # "HeaterOn" /\ m.type = "SecondaryOnly"
  <2>1. a \in {s, s + 1}
    BY <1>1, <1>6 DEF After
  <2>2. SecondaryIsDue(m)
    BY <1>6 DEF SecondaryIsDue
  <2>3. t = "Dwell"
    BY <1>6 DEF Follows, Prechills
  <2>4. ~SecondaryIsDue(n)
    BY <1>1, <2>3 DEF SecondaryIsDue, Prechills
  <2>5. s + 1 <= m.count
    BY <1>3, <2>2
  <2> HIDE DEF a
  <2>6. a \in Nat /\ a <= m.count
    BY <1>3, <2>1, <2>5
  <2>7. Limited(a)
    BY <1>3, <2>6, LimitFacts
  <2> QED BY <1>1, <1>2, <1>3, <1>4, <2>4, <2>6, <2>7 DEF Counts, a
<1>7. CASE /\ ~(m.hsm # "HeaterOn" /\ t = "HeaterOn" /\ m.type = "Full")
           /\ ~(m.hsm = "HeaterOn" /\ t # "HeaterOn" /\ m.type = "SecondaryOnly")
  <2>1. a = s
    BY <1>1, <1>7 DEF After
  <2>2. SecondaryIsDue(n) => SecondaryIsDue(m)
    BY <1>1 DEF SecondaryIsDue, Follows, Prechills
  <2>3. FullIsDue(m) => FullIsDue(n)
    BY <1>1, <1>7 DEF FullIsDue, Follows, Prechills
  <2> QED BY <1>1, <1>2, <1>3, <1>4, <2>1, <2>2, <2>3 DEF Counts
<1> QED BY <1>5, <1>6, <1>7

\* A defrost is chosen as Idle is left for one.
LEMMA ChoiceCounts ==
    ASSUME NEW m, NEW s, Counts(m, s), m.hsm = "Idle", NEW x, NEW n,
           NEW t \in Prechills \cup {"HeaterOnEntry"}, Keeps(n, ExitIdle(m, x), t)
    PROVE  Counts(n, After(m, n, s))
<1> DEFINE e == ExitIdle(m, x)
<1>1. /\ m.override \in {"Full", "DontCare"} /\ m.request = "None" /\ Fielded(m)
      /\ ~m.skipTest /\ ~m.skipDisable
      /\ s \in Nat /\ Limited(s) /\ m.count \in Nat /\ Limited(m.count)
  BY DEF Counts
<1>2. m.count \in 0 .. 255
  BY <1>1, LimitFacts, SMTT(60)
<1>3. /\ Fielded(e) /\ e.request = "None" /\ ~e.skipTest /\ ~e.skipDisable
      /\ e.override = "DontCare"
      /\ \/ e.type = "Full" /\ e.count = 0
         \/ /\ m.override = "DontCare" /\ e.type = "SecondaryOnly"
            /\ e.count = m.count + 1 /\ Limited(m.count + 1)
  BY <1>1, <1>2, ExitIdleChooses DEF Limited
<1> HIDE DEF e
<1>4. Keeps(n, e, t)
  BY DEF e
<1>5. /\ Fielded(n) /\ n.request = "None" /\ ~n.skipTest /\ ~n.skipDisable
      /\ n.override = "DontCare" /\ n.hsm = t
  BY <1>3, <1>4 DEF Keeps
<1>6. /\ \/ n.type = "Full" /\ n.count = 0
         \/ /\ m.override = "DontCare" /\ n.type = "SecondaryOnly"
            /\ n.count = m.count + 1 /\ Limited(m.count + 1)
  BY <1>3, <1>4 DEF Keeps
<1>7. t # "HeaterOn" /\ t \in HsmStates
  BY DEF Prechills, HsmStates
<1>8. After(m, n, s) = s
  BY <1>5, <1>7 DEF After
<1>9. CASE n.type = "Full" /\ n.count = 0
  <2>1. FullIsDue(n) /\ ~SecondaryIsDue(n)
    BY <1>5, <1>9 DEF FullIsDue, SecondaryIsDue
  <2> QED BY <1>1, <1>5, <1>7, <1>8, <1>9, <2>1, LimitFacts DEF Counts
<1>10. CASE /\ m.override = "DontCare" /\ n.type = "SecondaryOnly"
            /\ n.count = m.count + 1 /\ Limited(m.count + 1)
  <2>1. ~FullIsDue(m)
    BY <1>10 DEF FullIsDue, Prechills
  <2>2. s + 1 <= n.count /\ s <= n.count /\ n.count \in Nat
    BY <1>1, <1>10, <2>1 DEF Counts
  <2> QED BY <1>1, <1>5, <1>7, <1>8, <1>10, <2>2 DEF Counts
<1> QED BY <1>6, <1>9, <1>10

\* What an event may make of a machine: a state that may follow, or a defrost
\* that Idle chooses.
Moves(n, m, x) ==
    \/ \E t \in HsmStates : Follows(m.hsm, t) /\ Keeps(n, m, t)
    \/ /\ m.hsm = "Idle"
       /\ \E t \in Prechills \cup {"HeaterOnEntry"} : Keeps(n, ExitIdle(m, x), t)

LEMMA MovesCount ==
    ASSUME NEW m, NEW s, Counts(m, s), NEW n, NEW x, Moves(n, m, x)
    PROVE  Counts(n, After(m, n, s))
BY StateCounts, ChoiceCounts DEF Moves

LEMMA StaysFacts ==
    ASSUME NEW m, NEW s, Counts(m, s), NEW x
    PROVE  Moves(m, m, x) /\ Fielded(m) /\ m.hsm \in HsmStates /\ m.request = "None"
<1>1. Fielded(m) /\ m.hsm \in HsmStates /\ m.request = "None"
  BY DEF Counts
<1>2. Keeps(m, m, m.hsm) /\ Follows(m.hsm, m.hsm)
  BY <1>1 DEF Keeps, Follows
<1> QED BY <1>1, <1>2 DEF Moves

\* A state that is left for one that may follow.
LEMMA ExitMoves ==
    ASSUME NEW m, NEW s, Counts(m, s), NEW x, m.hsm \notin {"Idle", "Disabled"},
           NEW n, NEW t \in HsmStates, Keeps(n, Exit(m, x), t), Follows(m.hsm, t),
           NEW y
    PROVE  Moves(n, m, y)
<1>1. Keeps(Exit(m, x), m, m.hsm)
  BY ExitKeeps DEF Counts
<1>2. Keeps(n, m, t)
  BY <1>1, KeepsOn
<1> QED BY <1>2 DEF Moves

\* The signals that Idle waits for.
LEMMA ReadyMoves ==
    ASSUME NEW m, NEW s, Counts(m, s), NEW x, NEW now
    PROVE  /\ Moves(ReadyToDefrost(m, x, now), m, x)
           /\ Moves(SabbathReadyToDefrost(m, x, now), m, x)
<1> DEFINE e == ExitIdle(m, x)
           h == EnterHeaterOnEntry(e, x)
           p == EnterPrechillPrep(e, x, now)
<1>1. Moves(m, m, x)
  BY StaysFacts
<1>2. m.count \in 0 .. 255 /\ m.override \in {"Full", "DontCare"} /\ Fielded(m)
  BY LimitFacts, SMTT(60) DEF Counts
<1>3. Fielded(e)
  BY <1>2, ExitIdleChooses
<1> HIDE DEF e
<1>4. Keeps(h, e, "HeaterOnEntry")
  BY <1>3, EntriesKeep
<1>5. \E t \in Prechills \cup {"HeaterOnEntry"} : Keeps(p, e, t)
  BY <1>3, PrechillsKeep
<1> HIDE DEF h, p
<1>6. m.hsm = "Idle" => Moves(h, m, x) /\ Moves(p, m, x)
  BY <1>4, <1>5 DEF Moves, e
<1>7. \/ ReadyToDefrost(m, x, now) = m
      \/ m.hsm = "Idle" /\ ReadyToDefrost(m, x, now) \in {h, p}
  BY DEF ReadyToDefrost, h, p, e
<1>8. \/ SabbathReadyToDefrost(m, x, now) = m
      \/ m.hsm = "Idle" /\ SabbathReadyToDefrost(m, x, now) \in {h, p}
  BY DEF SabbathReadyToDefrost, h, p, e
<1> QED BY <1>1, <1>6, <1>7, <1>8

\* The timer, the cooling mode and the temperatures that end a prechill.
LEMMA TimerMoves ==
    ASSUME NEW m, NEW s, Counts(m, s), NEW x, NEW now, NEW states, NEW y
    PROVE  /\ m.hsm \in TimedStates => Moves(DefrostTimerExpired(m, x, now), m, y)
           /\ Moves(EndPrechillPrep(m, x, now), m, y)
           /\ states \subseteq Prechills => Moves(EndPrechill(m, x, states), m, y)
           /\ Moves(PrimaryIsCold(m, x, now), m, y)
<1> DEFINE e == Exit(m, x)
<1>1. Moves(m, m, y) /\ Fielded(m) /\ m.hsm \in HsmStates /\ m.request = "None"
  BY StaysFacts
<1>2. m.hsm \notin {"Idle", "Disabled"} =>
         Keeps(e, m, m.hsm) /\ Fielded(e) /\ e.request = "None"
  BY <1>1, ExitKeeps DEF Keeps
<1>3. m.hsm \in Prechills => Moves(EnterHeaterOnEntry(e, x), m, y)
  <2> SUFFICES ASSUME m.hsm \in Prechills PROVE Moves(EnterHeaterOnEntry(e, x), m, y)
    OBVIOUS
  <2>1. m.hsm \notin {"Idle", "Disabled"}
    BY DEF Prechills
  <2>2. Keeps(EnterHeaterOnEntry(e, x), e, "HeaterOnEntry")
    BY <1>2, <2>1, EntriesKeep
  <2>3. Follows(m.hsm, "HeaterOnEntry") /\ "HeaterOnEntry" \in HsmStates
    BY DEF Follows, HsmStates
  <2> QED BY <2>1, <2>2, <2>3, ExitMoves
<1>4. m.hsm \in Prechills => Moves(EnterPrechill(e, x, now), m, y)
  <2> SUFFICES ASSUME m.hsm \in Prechills PROVE Moves(EnterPrechill(e, x, now), m, y)
    OBVIOUS
  <2>1. m.hsm \notin {"Idle", "Disabled"}
    BY DEF Prechills
  <2>2. PICK t \in {"Prechill", "HeaterOnEntry"} : Keeps(EnterPrechill(e, x, now), e, t)
    BY <1>2, <2>1, PrechillsKeep
  <2>3. Follows(m.hsm, t) /\ t \in HsmStates
    BY DEF Follows, HsmStates, Prechills
  <2> QED BY <2>1, <2>2, <2>3, ExitMoves
<1>5. m.hsm = "HeaterOnEntry" => Moves(EnterHeaterOn(e, x), m, y)
  <2> SUFFICES ASSUME m.hsm = "HeaterOnEntry" PROVE Moves(EnterHeaterOn(e, x), m, y)
    OBVIOUS
  <2>2. Keeps(EnterHeaterOn(e, x), e, "HeaterOn")
    BY <1>2, EntriesKeep
  <2>3. Follows(m.hsm, "HeaterOn") /\ "HeaterOn" \in HsmStates
    BY DEF Follows, HsmStates
  <2> QED BY <2>2, <2>3, ExitMoves
<1>6. m.hsm = "Dwell" => Moves(EnterPostDwell(e, x), m, y)
  <2> SUFFICES ASSUME m.hsm = "Dwell" PROVE Moves(EnterPostDwell(e, x), m, y)
    OBVIOUS
  <2>2. Keeps(EnterPostDwell(e, x), e, "PostDwell")
    BY <1>2, EntriesKeep
  <2>3. Follows(m.hsm, "PostDwell") /\ "PostDwell" \in HsmStates
    BY DEF Follows, HsmStates
  <2> QED BY <2>2, <2>3, ExitMoves
<1>7. m.hsm \in {"Dwell", "PostDwell"} => Moves(EnterIdle(e, x, now), m, y)
  <2> SUFFICES ASSUME m.hsm \in {"Dwell", "PostDwell"} PROVE Moves(EnterIdle(e, x, now), m, y)
    OBVIOUS
  <2>2. Keeps(EnterIdle(e, x, now), e, "Idle")
    BY <1>2, PrechillsKeep
  <2>3. Follows(m.hsm, "Idle") /\ "Idle" \in HsmStates
    BY DEF Follows, HsmStates
  <2> QED BY <2>2, <2>3, ExitMoves
<1> HIDE DEF e
<1>8. m.hsm \in TimedStates => Moves(DefrostTimerExpired(m, x, now), m, y)
  <2> SUFFICES ASSUME m.hsm \in TimedStates
               PROVE  Moves(DefrostTimerExpired(m, x, now), m, y)
    OBVIOUS
  <2>1. CASE m.hsm = "PrechillPrep"
    <3>1. DefrostTimerExpired(m, x, now) = EnterPrechill(e, x, now)
      BY <2>1 DEF DefrostTimerExpired, e
    <3> QED BY <1>4, <2>1, <3>1 DEF Prechills
  <2>2. CASE m.hsm = "Prechill"
    <3>1. DefrostTimerExpired(m, x, now) = EnterHeaterOnEntry(e, x)
      BY <2>2 DEF DefrostTimerExpired, e
    <3> QED BY <1>3, <2>2, <3>1 DEF Prechills
  <2>3. CASE m.hsm = "HeaterOnEntry"
    <3>1. DefrostTimerExpired(m, x, now) = EnterHeaterOn(e, x)
      BY <2>3 DEF DefrostTimerExpired, e
    <3> QED BY <1>5, <2>3, <3>1
  <2>4. CASE m.hsm \in {"Dwell", "PostDwell"}
    <3>1. \/ m.hsm = "Dwell" /\ DefrostTimerExpired(m, x, now) = EnterPostDwell(e, x)
          \/ DefrostTimerExpired(m, x, now) = EnterIdle(e, x, now)
      BY <2>4 DEF DefrostTimerExpired, e
    <3> QED BY <1>6, <1>7, <2>4, <3>1
  <2> QED BY <2>1, <2>2, <2>3, <2>4 DEF TimedStates, Prechills
<1>9. Moves(EndPrechillPrep(m, x, now), m, y)
  BY <1>1, <1>4 DEF EndPrechillPrep, e, Prechills
<1>10. ASSUME NEW ss, ss \subseteq Prechills PROVE Moves(EndPrechill(m, x, ss), m, y)
  BY <1>1, <1>3, <1>10 DEF EndPrechill, e
<1>11. Moves(PrimaryIsCold(m, x, now), m, y)
  <2>1. Moves(EndPrechill(m, x, {"Prechill"}), m, y)
    BY <1>10 DEF Prechills
  <2>2. CASE m.hsm = "Prechill"
    <3>1. PrimaryIsCold(m, x, now) = EndPrechill(m, x, {"Prechill"})
      BY <2>2 DEF PrimaryIsCold
    <3> QED BY <2>1, <3>1
  <2>3. CASE m.hsm = "PostDwell"
    <3>1. PrimaryIsCold(m, x, now) = EnterIdle(e, x, now)
      BY <2>3 DEF PrimaryIsCold, e
    <3> QED BY <1>7, <2>3, <3>1
  <2>4. CASE m.hsm \notin {"Prechill", "PostDwell"}
    <3>1. PrimaryIsCold(m, x, now) = m
      BY <2>4 DEF PrimaryIsCold
    <3> QED BY <1>1, <3>1
  <2> QED BY <2>2, <2>3, <2>4
<1> QED BY <1>8, <1>9, <1>10, <1>11

\* What ends a heating: a temperature, or the time of a heater.
LEMMA HeatingMoves ==
    ASSUME NEW m, NEW s, Counts(m, s), NEW x, NEW e, NEW y
    PROVE  /\ Moves(TerminationTemperature(m, x, e), m, y)
           /\ Moves(DefrostHeaterOnTime(m, x, e), m, y)
<1>1. Moves(m, m, y) /\ Fielded(m) /\ m.hsm \in HsmStates /\ m.request = "None"
  BY StaysFacts
<1>2. {"abnormal", "fault", "invalidThermistor", "onTime"}
         \subseteq MachineFieldNames \ ChoiceFields
  BY DEF MachineFieldNames, ChoiceFields
<1>3. ASSUME NEW b, Keeps(b, m, m.hsm), m.hsm = "HeaterOn"
      PROVE  Moves(DwellOnceAllHeatersAreOff(b, x), m, y)
  <2> DEFINE f == Exit(b, x)
             d == EnterDwell(f, x)
  <2>1. Fielded(b) /\ b.hsm = "HeaterOn"
    BY <1>3 DEF Keeps
  <2>2. Keeps(f, b, b.hsm)
    BY <2>1, ExitKeeps
  <2> HIDE DEF f
  <2>3. Keeps(f, m, m.hsm) /\ Fielded(f)
    BY <1>3, <2>1, <2>2, KeepsOn DEF Keeps
  <2>4. Keeps(d, f, "Dwell")
    BY <2>3, EntriesKeep
  <2> HIDE DEF d
  <2>5. Keeps(d, m, "Dwell")
    BY <2>3, <2>4, KeepsOn
  <2>6. Follows(m.hsm, "Dwell") /\ "Dwell" \in HsmStates /\ Follows(m.hsm, m.hsm)
    BY <1>3 DEF Follows, HsmStates
  <2>7. Moves(d, m, y) /\ Moves(b, m, y)
    BY <1>1, <1>3, <2>5, <2>6 DEF Moves
  <2> QED BY <2>7 DEF DwellOnceAllHeatersAreOff, d, f
<1>4. Moves(TerminationTemperature(m, x, e), m, y)
  <2> DEFINE a == VoteHeaters(m, x, {e}, "Off")
             b == [a EXCEPT !.abnormal = AbnormalAfterHeating(a, x, e)]
             c == [b EXCEPT !.fault = a.fault \ {e}]
  <2>1. TerminationTemperature(m, x, e) =
           IF m.hsm # "HeaterOn" THEN m ELSE DwellOnceAllHeatersAreOff(c, x)
    <3>1. c = [a EXCEPT !.abnormal = AbnormalAfterHeating(a, x, e), !.fault = @ \ {e}]
      OBVIOUS
    <3> HIDE DEF c
    <3> QED BY <3>1 DEF TerminationTemperature
  <2>2. Keeps(a, m, m.hsm)
    BY <1>1, VotesKeep
  <2> HIDE DEF a
  <2>3. Fielded(a) /\ a.hsm = m.hsm
    BY <2>2 DEF Keeps
  <2>4. Keeps(b, a, a.hsm)
    BY <1>2, <2>3, OtherWrites
  <2> HIDE DEF b
  <2>5. Keeps(b, m, m.hsm) /\ Fielded(b) /\ b.hsm = m.hsm
    BY <2>2, <2>3, <2>4, KeepsOn DEF Keeps
  <2>6. Keeps(c, b, b.hsm)
    BY <1>2, <2>5, OtherWrites
  <2> HIDE DEF c
  <2>7. Keeps(c, m, m.hsm)
    BY <2>5, <2>6, KeepsOn
  <2> QED BY <1>1, <1>3, <2>1, <2>7
<1>5. ASSUME NEW g, Keeps(g, m, m.hsm)
      PROVE  Moves(HeaterMaxOnTimeReached(g, x, e), m, y)
  <2> DEFINE a == VoteHeaters(g, x, {e}, "Off")
             b == [a EXCEPT !.fault = IF Valid(x, e) THEN a.fault \cup {e} ELSE a.fault]
             c == [b EXCEPT !.invalidThermistor = a.invalidThermistor \/ ~Valid(x, e)]
  <2>0. Fielded(g) /\ g.hsm = m.hsm
    BY <1>5 DEF Keeps
  <2>1. HeaterMaxOnTimeReached(g, x, e) =
           IF m.hsm # "HeaterOn" THEN g ELSE DwellOnceAllHeatersAreOff(c, x)
    <3>1. c = [a EXCEPT !.fault = IF Valid(x, e) THEN @ \cup {e} ELSE @,
                        !.invalidThermistor = @ \/ ~Valid(x, e)]
      OBVIOUS
    <3> HIDE DEF c
    <3> QED BY <2>0, <3>1 DEF HeaterMaxOnTimeReached
  <2>2. Keeps(a, g, g.hsm)
    BY <2>0, VotesKeep
  <2> HIDE DEF a
  <2>3. Fielded(a) /\ a.hsm = m.hsm /\ Keeps(a, m, m.hsm)
    BY <1>5, <2>0, <2>2, KeepsOn DEF Keeps
  <2>4. Keeps(b, a, a.hsm)
    BY <1>2, <2>3, OtherWrites
  <2> HIDE DEF b
  <2>5. Keeps(b, m, m.hsm) /\ Fielded(b) /\ b.hsm = m.hsm
    BY <2>3, <2>4, KeepsOn DEF Keeps
  <2>6. Keeps(c, b, b.hsm)
    BY <1>2, <2>5, OtherWrites
  <2> HIDE DEF c
  <2>7. Keeps(c, m, m.hsm)
    BY <2>5, <2>6, KeepsOn
  <2>8. Moves(g, m, y)
    BY <1>1, <1>5 DEF Moves, Follows
  <2> QED BY <1>3, <2>1, <2>7, <2>8
<1>6. Moves(DefrostHeaterOnTime(m, x, e), m, y)
  <2> DEFINE o == [m.onTime EXCEPT ![e] = (@ + 1) % 256]
             g == [m EXCEPT !.onTime = o]
             b == [g EXCEPT !.abnormal = g.abnormal \cup {e}]
  <2>1. g = [m EXCEPT !.onTime[e] = (@ + 1) % 256]
    OBVIOUS
  <2> HIDE DEF o
  <2>2. Keeps(g, m, m.hsm)
    BY <1>1, <1>2, OtherWrites
  <2> HIDE DEF g
  <2>3. Fielded(g) /\ g.hsm = m.hsm
    BY <2>2 DEF Keeps
  <2>4. Keeps(b, g, g.hsm)
    BY <1>2, <2>3, OtherWrites
  <2>5. DefrostHeaterOnTime(m, x, e) \in {HeaterMaxOnTimeReached(g, x, e), b, g}
    BY <2>1 DEF DefrostHeaterOnTime
  <2> HIDE DEF b
  <2>6. Keeps(b, m, m.hsm)
    BY <2>2, <2>3, <2>4, KeepsOn
  <2>7. Moves(b, m, y) /\ Moves(g, m, y)
    BY <1>1, <2>2, <2>6 DEF Moves, Follows
  <2> QED BY <1>5, <2>2, <2>5, <2>7
<1> QED BY <1>4, <1>6

\* What is written in Disabled, or for it.
LEMMA DisableCounts ==
    ASSUME NEW m, NEW s, Counts(m, s), NEW x, NEW now
    PROVE  LET n == SetDisableDefrost(m, x, TRUE, now) IN Counts(n, After(m, n, s))
<1> DEFINE w == [m EXCEPT !.disable = TRUE]
           u == [w EXCEPT !.skipDisable = w.skipDisable \/ m.hsm \in WaitingStates]
           e == Exit(u, x)
           d == EnterDisabled(e, x)
           n == SetDisableDefrost(m, x, TRUE, now)
<1> SUFFICES Counts(n, After(m, n, s))
  OBVIOUS
<1>1. Moves(m, m, x) /\ Fielded(m) /\ m.hsm \in HsmStates /\ m.request = "None"
  BY StaysFacts
<1>2. /\ m.override \in {"Full", "DontCare"} /\ ~m.skipTest
      /\ s \in Nat /\ Limited(s) /\ m.count \in Nat /\ Limited(m.count)
      /\ SecondaryIsDue(m) => s + 1 <= m.count
      /\ m.count \in 0 .. 255
  BY LimitFacts, SMTT(60) DEF Counts
<1>3. /\ {"disable"} \subseteq MachineFieldNames \ ChoiceFields
      /\ {"skipDisable"} \subseteq ChoiceFields
  BY DEF MachineFieldNames, ChoiceFields
<1>4. /\ \/ n = m
         \/ m.hsm = "Disabled" /\ n = w
         \/ m.hsm # "Disabled" /\ n = d
  <2>1. u = [w EXCEPT !.skipDisable = @ \/ m.hsm \in WaitingStates]
    OBVIOUS
  <2> HIDE DEF u
  <2> QED BY <2>1 DEF SetDisableDefrost
<1> HIDE DEF n
<1>5. Keeps(w, m, m.hsm)
  BY <1>1, <1>3, OtherWrites
<1> HIDE DEF w
<1>6. /\ Fielded(w) /\ w.hsm = m.hsm /\ w.type = m.type /\ w.override = m.override
      /\ w.count = m.count /\ w.request = "None" /\ w.skipTest = m.skipTest
  BY <1>1, <1>5 DEF Keeps
<1>7. CASE n = m
  BY <1>1, <1>7, MovesCount
<1>8. CASE m.hsm = "Disabled" /\ n = w
  <2>1. Moves(n, m, x)
    BY <1>1, <1>5, <1>8 DEF Moves, Follows
  <2> QED BY <2>1, MovesCount
<1>9. CASE m.hsm # "Disabled" /\ n = d
  <2>1. /\ Fielded(u) /\ u["skipDisable"] = (w.skipDisable \/ m.hsm \in WaitingStates)
        /\ \A g \in ChoiceFields \ {"skipDisable"} : u[g] = w[g]
    BY <1>3, <1>6, ChoiceWrites
  <2> HIDE DEF u
  <2>2. /\ u.hsm = m.hsm /\ u.type = m.type /\ u.override = m.override
        /\ u.count = m.count /\ u.request = "None" /\ ~u.skipTest
        /\ m.hsm = "Idle" => u.skipDisable
    BY <1>2, <1>6, <2>1, ZenonT(120) DEF ChoiceFields, WaitingStates
  <2>3. /\ Fielded(e) /\ e.type = m.type /\ e.override = m.override
        /\ e.count = m.count /\ e.request = "None" /\ ~e.skipTest
    <3>1. CASE m.hsm = "Idle"
      <4>1. e = ExitIdle(u, x)
        BY <2>2, <3>1 DEF Exit
      <4> HIDE DEF e
      <4> QED BY <1>2, <2>1, <2>2, <3>1, <4>1, ExitIdleChooses
    <3>2. CASE m.hsm # "Idle"
      <4>1. Keeps(e, u, u.hsm)
        BY <1>9, <2>1, <2>2, <3>2, ExitKeeps
      <4> HIDE DEF e
      <4> QED BY <2>1, <2>2, <4>1 DEF Keeps
    <3> QED BY <3>1, <3>2
  <2> HIDE DEF e
  <2>4. Keeps(d, e, "Disabled")
    BY <2>3, EntriesKeep
  <2> HIDE DEF d
  <2>5. /\ Fielded(n) /\ n.hsm = "Disabled" /\ n.type = m.type /\ n.override = m.override
        /\ n.count = m.count /\ n.request = "None" /\ ~n.skipTest
    BY <1>9, <2>3, <2>4 DEF Keeps
  <2>6. After(m, n, s) \in Nat /\ Limited(After(m, n, s))
    <3>1. CASE m.hsm = "HeaterOn" /\ m.type = "SecondaryOnly"
      <4>1. SecondaryIsDue(m)
        BY <3>1 DEF SecondaryIsDue
      <4>2. After(m, n, s) \in {s, s + 1}
        BY <2>5, <3>1 DEF After
      <4>3. After(m, n, s) \in Nat /\ After(m, n, s) <= m.count
        BY <1>2, <4>1, <4>2
      <4> QED BY <1>2, <4>3, LimitFacts
    <3>2. CASE ~(m.hsm = "HeaterOn" /\ m.type = "SecondaryOnly")
      <4>1. After(m, n, s) = s
        BY <2>5, <3>2 DEF After
      <4> QED BY <1>2, <4>1
    <3> QED BY <3>1, <3>2
  <2>7. FullIsDue(n) /\ ~SecondaryIsDue(n) /\ n.hsm \in HsmStates
    BY <2>5 DEF FullIsDue, SecondaryIsDue, HsmStates, Prechills
  <2> QED BY <1>2, <2>5, <2>6, <2>7 DEF Counts
<1> QED BY <1>4, <1>7, <1>8, <1>9

\* A full defrost is asked for.
LEMMA OverrideCounts ==
    ASSUME NEW m, NEW s, Counts(m, s)
    PROVE  LET n == [m EXCEPT !.override = "Full"] IN
           Counts(n, s) /\ After(m, n, s) = s /\ n.hsm = m.hsm /\ n.override = "Full"
<1> DEFINE n == [m EXCEPT !.override = "Full"]
<1> SUFFICES Counts(n, s) /\ After(m, n, s) = s /\ n.hsm = m.hsm /\ n.override = "Full"
  OBVIOUS
<1>1. "override" \in ChoiceFields
  BY DEF ChoiceFields
<1>2. Fielded(n) /\ n["override"] = "Full" /\ \A g \in ChoiceFields \ {"override"} : n[g] = m[g]
  BY <1>1, ChoiceWrites DEF Counts
<1> HIDE DEF n
<1>3. /\ n.hsm = m.hsm /\ n.type = m.type /\ n.override = "Full" /\ n.count = m.count
      /\ n.request = m.request /\ n.skipTest = m.skipTest /\ n.skipDisable = m.skipDisable
  BY <1>2 DEF ChoiceFields
<1>4. FullIsDue(n) /\ (SecondaryIsDue(n) <=> SecondaryIsDue(m))
  BY <1>3 DEF FullIsDue, SecondaryIsDue
<1>5. After(m, n, s) = s
  BY <1>3 DEF After
<1> QED BY <1>2, <1>3, <1>4, <1>5 DEF Counts

\* Disabled is left for Idle, with a full defrost to come.
LEMMA EnableCounts ==
    ASSUME NEW m, NEW s, Counts(m, s), m.hsm = "Disabled", m.override = "Full",
           NEW x, NEW now
    PROVE  LET n == SetDisableDefrost(m, x, FALSE, now) IN
           Counts(n, s) /\ n.hsm # "HeaterOn"
<1> DEFINE w == [m EXCEPT !.disable = FALSE]
           e == ExitDisabled(w, x)
           d == EnterIdle(e, x, now)
           n == SetDisableDefrost(m, x, FALSE, now)
<1> SUFFICES Counts(n, s) /\ n.hsm # "HeaterOn"
  OBVIOUS
<1>1. Fielded(m) /\ m.request = "None"
  BY StaysFacts
<1>2. "disable" \in MachineFieldNames \ ChoiceFields
  BY DEF MachineFieldNames, ChoiceFields
<1>3. n = m \/ n = d
  BY DEF SetDisableDefrost, Exit
<1> HIDE DEF n
<1>4. Keeps(w, m, m.hsm)
  BY <1>1, <1>2, OtherWrites
<1> HIDE DEF w
<1>5. /\ Fielded(w) /\ w.type = m.type /\ w.override = m.override
      /\ w.count = m.count /\ w.request = "None" /\ w.skipTest = m.skipTest
  BY <1>1, <1>4 DEF Keeps
<1>6. /\ Fielded(e) /\ e.type = m.type /\ e.override = "Full"
      /\ e.count = m.count /\ e.request = "None" /\ e.skipTest = m.skipTest /\ ~e.skipDisable
  BY <1>5, ExitDisabledKeeps
<1> HIDE DEF e
<1>7. Keeps(d, e, "Idle")
  BY <1>6, PrechillsKeep
<1> HIDE DEF d
<1>8. CASE n = d
  <2>1. /\ Fielded(n) /\ n.hsm = "Idle" /\ n.type = m.type /\ n.override = "Full"
        /\ n.count = m.count /\ n.request = "None" /\ n.skipTest = m.skipTest
        /\ ~n.skipDisable
    BY <1>6, <1>7, <1>8 DEF Keeps
  <2>2. FullIsDue(n) /\ ~SecondaryIsDue(n) /\ n.hsm \in HsmStates
    BY <2>1 DEF FullIsDue, SecondaryIsDue, HsmStates, Prechills
  <2> QED BY <2>1, <2>2 DEF Counts
<1> QED BY <1>3, <1>8

\* The machine as the power returns.
LEMMA PowerUpFields ==
    ASSUME NEW settings \in AllSettings, NEW x \in Erds, NEW tooWarm \in BOOLEAN
    PROVE  LET p == PowerUp(settings, x, tooWarm) IN
           /\ Fielded(p) /\ p.hsm = "Idle"
           /\ p.type = IF Cardinality(Evaporators) = 1 THEN "Full" ELSE settings.type
           /\ p.override = IF settings.cleared \/ tooWarm \/ settings.state = "Disabled"
                           THEN "Full" ELSE settings.override
           /\ p.count = settings.count /\ p.request = "None"
           /\ ~p.skipTest /\ ~p.skipDisable
           /\ p.tooWarm = tooWarm /\ p.cleared = settings.cleared
<1>1. Fielded(PowerUp(settings, x, tooWarm))
  <2> DEFINE p == PowerUp(settings, x, tooWarm)
  <2>1. p \in Machines
    BY PowerUpFacts DEF Left
  <2> HIDE DEF p
  <2>2. Fielded(p)
    BY <2>1, MachineIsFielded
  <2> QED BY <2>2 DEF p
<1> QED BY <1>1 DEF PowerUp

LEMMA StartKeeps ==
    ASSUME NEW settings \in AllSettings, NEW x \in Erds, NEW warm
    PROVE  LET tooWarm == CabinetIsTooWarm(x, warm) IN
           Keeps(Start(settings, x, warm), PowerUp(settings, x, tooWarm),
                 InitialState(settings, tooWarm))
<1> DEFINE tooWarm == CabinetIsTooWarm(x, warm)
           p == PowerUp(settings, x, tooWarm)
           i == InitialState(settings, tooWarm)
           b == Waiting(p)
           n == SetHsmStateTo(b, x, "Idle")
<1>1. Start(settings, x, warm) =
         CASE i = "Dwell" -> EnterDwell(p, x)
           [] i = "HeaterOnEntry" -> EnterHeaterOnEntry(p, x)
           [] OTHER -> n
  BY DEF Start
<1>2. i \in {"Dwell", "HeaterOnEntry", "Idle"}
  BY DEF InitialState
<1>3. Fielded(p)
  <2>1. tooWarm \in BOOLEAN
    BY DEF CabinetIsTooWarm
  <2> HIDE DEF tooWarm
  <2> QED BY <2>1, PowerUpFields
<1> HIDE DEF p, i
<1>4. Keeps(EnterDwell(p, x), p, "Dwell") /\ Keeps(EnterHeaterOnEntry(p, x), p, "HeaterOnEntry")
  BY <1>3, EntriesKeep
<1>5. Keeps(b, p, p.hsm)
  BY <1>3, VotesKeep DEF Waiting
<1> HIDE DEF b
<1>6. Fielded(b)
  BY <1>5 DEF Keeps
<1>7. Keeps(n, b, "Idle")
  BY <1>6, StateKeeps
<1> HIDE DEF n
<1>8. Keeps(n, p, "Idle")
  BY <1>5, <1>7, KeepsOn
<1>9. Keeps(Start(settings, x, warm), p, i)
  BY <1>1, <1>2, <1>4, <1>8
<1> QED BY <1>9 DEF p, i

\* A blank EEPROM asks for a full defrost.
LEMMA BlankStartCounts ==
    ASSUME NEW x \in Erds, NEW warm
    PROVE  LET n == Start(DefaultSettings, x, warm) IN Counts(n, 0) /\ n.cleared
<1> DEFINE tooWarm == CabinetIsTooWarm(x, warm)
           p == PowerUp(DefaultSettings, x, tooWarm)
           i == InitialState(DefaultSettings, tooWarm)
           n == Start(DefaultSettings, x, warm)
<1>0. tooWarm \in BOOLEAN /\ DefaultSettings \in AllSettings
  <2>1. DefaultSettings \in AllSettings
    BY DEF DefaultSettings, AllSettings, HsmStates, Types
  <2> QED BY <2>1 DEF CabinetIsTooWarm
<1>1. /\ p.override = "Full" /\ p.count = 0 /\ p.request = "None"
      /\ ~p.skipTest /\ ~p.skipDisable /\ p.cleared
  <2> HIDE DEF tooWarm
  <2>1. DefaultSettings.cleared /\ DefaultSettings.count = 0
    BY DEF DefaultSettings
  <2> QED BY <1>0, <2>1, PowerUpFields
<1>2. i = "Idle"
  BY DEF InitialState, DefaultSettings
<1>3. Keeps(n, p, i)
  BY <1>0, StartKeeps
<1> HIDE DEF p, i, n
<1>4. /\ Fielded(n) /\ n.hsm = "Idle" /\ n.override = "Full" /\ n.count = 0
      /\ n.request = "None" /\ ~n.skipTest /\ ~n.skipDisable /\ n.cleared
  BY <1>1, <1>2, <1>3 DEF Keeps
<1>5. FullIsDue(n) /\ ~SecondaryIsDue(n) /\ n.hsm \in HsmStates
  BY <1>4 DEF FullIsDue, SecondaryIsDue, HsmStates, Prechills
<1> QED BY <1>4, <1>5, LimitFacts DEF Counts, n

\* The settings take the count through a loss of power.
LEMMA StartCounts ==
    ASSUME NEW m \in Machines, NEW s, Counts(m, s), NEW x \in Erds, NEW warm
    PROVE  Counts(Start(Settings(m), x, warm), s)
<1> DEFINE settings == Settings(m)
           tooWarm == CabinetIsTooWarm(x, warm)
           p == PowerUp(settings, x, tooWarm)
           i == InitialState(settings, tooWarm)
           n == Start(settings, x, warm)
<1>1. /\ settings.state = DefrostState(m.hsm) /\ settings.type = m.type
      /\ settings.override = m.override /\ settings.count = m.count
      /\ settings.cleared = m.cleared
  BY DEF Settings
<1>0. tooWarm \in BOOLEAN /\ settings \in AllSettings /\ m.type \in Types
  BY SettingsFacts, MachineFields DEF CabinetIsTooWarm
<1> HIDE DEF settings, tooWarm
<1>2. /\ p.type \in {"Full", m.type} /\ p.override \in {"Full", m.override}
      /\ p.count = m.count /\ p.request = "None" /\ ~p.skipTest /\ ~p.skipDisable
      /\ m.cleared \/ tooWarm \/ m.hsm = "Disabled" => p.override = "Full"
  BY <1>0, <1>1, PowerUpFields DEF DefrostState
<1>3. /\ i \in {"Dwell", "HeaterOnEntry", "Idle"}
      /\ i = "HeaterOnEntry" => m.hsm \in Prechills \cup {"HeaterOnEntry", "HeaterOn"}
      /\ i = "HeaterOnEntry" \/ m.cleared \/ tooWarm
            \/ m.hsm \in {"Dwell", "Idle", "PostDwell", "Disabled"}
  BY <1>1 DEF InitialState, DefrostState, Counts, HsmStates, Prechills
<1>4. Keeps(n, p, i)
  BY <1>0, StartKeeps DEF tooWarm
<1> HIDE DEF p, i, n
<1>5. /\ Fielded(n) /\ n.hsm = i /\ n.type \in {"Full", m.type}
      /\ n.override \in {"Full", m.override} /\ n.count = m.count
      /\ n.request = "None" /\ ~n.skipTest /\ ~n.skipDisable
      /\ m.cleared \/ tooWarm \/ m.hsm = "Disabled" => n.override = "Full"
  BY <1>2, <1>4 DEF Keeps
<1>6. SecondaryIsDue(n) => SecondaryIsDue(m)
  BY <1>3, <1>5 DEF SecondaryIsDue, Prechills
<1>7. ~FullIsDue(n) => ~FullIsDue(m) \/ SecondaryIsDue(m)
  <2> SUFFICES ASSUME ~FullIsDue(n) PROVE ~FullIsDue(m) \/ SecondaryIsDue(m)
    OBVIOUS
  <2>1. n.override = m.override /\ m.override # "Full" /\ m.hsm # "Disabled"
        /\ ~(m.cleared \/ tooWarm)
    BY <1>5 DEF FullIsDue
  <2>2. CASE i = "HeaterOnEntry"
    <3>1. n.type = "SecondaryOnly"
      BY <1>0, <1>5, <2>2 DEF FullIsDue, Types
    <3> QED BY <1>3, <1>5, <2>2, <3>1 DEF SecondaryIsDue
  <2>3. CASE i # "HeaterOnEntry"
    <3>1. m.hsm \in {"Dwell", "Idle", "PostDwell"}
      BY <1>3, <2>1, <2>3
    <3> QED BY <2>1, <3>1 DEF FullIsDue, Prechills
  <2> QED BY <2>2, <2>3
<1>8. /\ s \in Nat /\ Limited(s) /\ m.count \in Nat /\ Limited(m.count)
      /\ SecondaryIsDue(m) => s + 1 <= m.count
      /\ ~FullIsDue(m) => s <= m.count
      /\ m.override \in {"Full", "DontCare"}
  BY DEF Counts
<1>9. n.hsm \in HsmStates
  BY <1>3, <1>5 DEF HsmStates
<1>10. ~FullIsDue(n) => s <= n.count
  BY <1>5, <1>7, <1>8
<1> QED BY <1>5, <1>6, <1>8, <1>9, <1>10 DEF Counts, n, settings

LEMMA BecomesCounts ==
    ASSUME NEW n, Becomes(n), Counts(n, After(defrost, n, since))
    PROVE  CountInv'
<1>1. defrost' = n /\ since' = After(defrost, n, since)
  BY DEF Becomes, After
<1> QED BY <1>1 DEF CountInv

LEMMA BecomesMoves ==
    ASSUME CountInv, NEW n, NEW x, Becomes(n), Moves(n, defrost, x)
    PROVE  CountInv'
<1>1. Counts(n, After(defrost, n, since))
  BY MovesCount DEF CountInv
<1> QED BY <1>1, BecomesCounts

LEMMA InitEstablishesCountInv ==
    ASSUME Init
    PROVE  CountInv
<1>1. PICK warm : defrost = Start(DefaultSettings, erds, warm)
  BY DEF Init
<1>2. erds \in Erds /\ since = 0
  BY InitEstablishesDefrostInv DEF Init, DefrostInv
<1> QED BY <1>1, <1>2, BlankStartCounts DEF CountInv

\* The timers and the sensors.
LEMMA SensorsCount ==
    ASSUME DefrostInv, CountInv,
           \/ TimerExpires \/ CoolingModeChanges \/ CabinetTemperatureChanges
           \/ \E f \in Flags : WriteFlag(f)
           \/ \E e \in Evaporators : EvaporatorTemperatureChanges(e)
           \/ \E t \in Thermistors : ThermistorChanges(t)
           \/ ConvertibleCompartmentStateChanges
           \/ \E e \in Evaporators : Minute(e)
    PROVE  CountInv'
<1> DEFINE y == erds
<1>1. Counts(defrost, since)
  BY DEF CountInv
<1>2. Moves(defrost, defrost, y)
  BY <1>1, StaysFacts
<1> HIDE DEF y
<1>3. CASE TimerExpires
  <2>1. PICK now \in Readings : Becomes(DefrostTimerExpired(defrost, erds, now))
    BY <1>3 DEF TimerExpires
  <2>2. defrost.hsm \in TimedStates
    BY <1>3 DEF TimerExpires, DefrostInv, Tidy, Leavable
  <2>3. Moves(DefrostTimerExpired(defrost, erds, now), defrost, y)
    BY <1>1, <2>2, TimerMoves
  <2> QED BY <2>1, <2>3, BecomesMoves
<1>4. CASE CoolingModeChanges
  <2>1. PICK now \in Readings : Becomes(EndPrechillPrep(defrost, erds, now))
    BY <1>4 DEF CoolingModeChanges
  <2>2. Moves(EndPrechillPrep(defrost, erds, now), defrost, y)
    BY <1>1, TimerMoves
  <2> QED BY <2>1, <2>2, BecomesMoves
<1>5. CASE CabinetTemperatureChanges
  <2>1. Becomes(EndPrechill(defrost, erds, {"Prechill"}))
    BY <1>5 DEF CabinetTemperatureChanges
  <2>2. {"Prechill"} \subseteq Prechills
    BY DEF Prechills
  <2>3. Moves(EndPrechill(defrost, erds, {"Prechill"}), defrost, y)
    BY <1>1, <2>2, TimerMoves
  <2> QED BY <2>1, <2>3, BecomesMoves
<1>6. ASSUME NEW f \in Flags, WriteFlag(f) PROVE CountInv'
  <2> DEFINE set == f \notin erds.flags
             x == [erds EXCEPT !.flags = IF set THEN @ \cup {f} ELSE @ \ {f}]
  <2>1. \E m \in
           CASE \/ f = "ready" /\ set
                \/ f \in {"sabbath", "enhanced"} /\ ~set ->
                   {ReadyToDefrost(defrost, x, now) : now \in Readings}
             [] f # "ready" /\ set ->
                   {SabbathReadyToDefrost(defrost, x, now) : now \in Readings}
             [] f \notin {"sabbath", "enhanced"} /\ ~set -> {defrost} :
           Becomes(m)
    BY <1>6 DEF WriteFlag
  <2> HIDE DEF x
  <2>2. PICK m : /\ Becomes(m)
                 /\ \/ m = defrost
                    \/ \E now \in Readings : m = ReadyToDefrost(defrost, x, now)
                    \/ \E now \in Readings : m = SabbathReadyToDefrost(defrost, x, now)
    <3>1. CASE (f = "ready" /\ set) \/ (f \in {"sabbath", "enhanced"} /\ ~set)
      BY <2>1, <3>1
    <3>2. CASE f # "ready" /\ set
      BY <2>1, <3>2
    <3>3. CASE f \notin {"sabbath", "enhanced"} /\ ~set
      BY <2>1, <3>3
    <3> QED BY <3>1, <3>2, <3>3
  <2>3. Moves(m, defrost, x) \/ m = defrost
    BY <1>1, <2>2, ReadyMoves
  <2> QED BY <1>2, <2>2, <2>3, BecomesMoves
<1>7. ASSUME NEW e \in Evaporators, EvaporatorTemperatureChanges(e) PROVE CountInv'
  <2>1. CASE Becomes(TerminationTemperature(defrost, erds, e))
    <3>1. Moves(TerminationTemperature(defrost, erds, e), defrost, y)
      BY <1>1, HeatingMoves
    <3> QED BY <2>1, <3>1, BecomesMoves
  <2>2. ASSUME NEW now \in Readings, Becomes(PrimaryIsCold(defrost, erds, now))
        PROVE  CountInv'
    <3>1. Moves(PrimaryIsCold(defrost, erds, now), defrost, y)
      BY <1>1, TimerMoves
    <3> QED BY <2>2, <3>1, BecomesMoves
  <2> QED BY <1>7, <2>1, <2>2 DEF EvaporatorTemperatureChanges
<1>8. ASSUME NEW t \in Thermistors, ThermistorChanges(t) PROVE CountInv'
  <2> DEFINE x == [erds EXCEPT !.thermistor[t] = IF Valid(erds, t) THEN "Invalid" ELSE "Valid"]
  <2>1. Becomes(IF Valid(erds, t) THEN EndPrechill(defrost, x, Prechills) ELSE defrost)
    BY <1>8 DEF ThermistorChanges
  <2> HIDE DEF x
  <2>2. Moves(EndPrechill(defrost, x, Prechills), defrost, y)
    BY <1>1, TimerMoves
  <2>3. CASE Valid(erds, t)
    <3>1. Becomes(EndPrechill(defrost, x, Prechills))
      BY <2>1, <2>3
    <3> QED BY <2>2, <3>1, BecomesMoves
  <2>4. CASE ~Valid(erds, t)
    <3>1. Becomes(defrost)
      BY <2>1, <2>4
    <3> QED BY <1>2, <3>1, BecomesMoves
  <2> QED BY <2>3, <2>4
<1>9. CASE ConvertibleCompartmentStateChanges
  <2> DEFINE x == [erds EXCEPT !.convertible =
                      IF @ = "Freezer" THEN "FreshFood" ELSE "Freezer"]
  <2>1. \/ Becomes(defrost)
        \/ \E now \in Readings : Becomes(PrimaryIsCold(defrost, x, now))
    BY <1>9 DEF ConvertibleCompartmentStateChanges
  <2> HIDE DEF x
  <2>2. CASE Becomes(defrost)
    BY <1>2, <2>2, BecomesMoves
  <2>3. ASSUME NEW now \in Readings, Becomes(PrimaryIsCold(defrost, x, now))
        PROVE  CountInv'
    <3>1. Moves(PrimaryIsCold(defrost, x, now), defrost, y)
      BY <1>1, TimerMoves
    <3> QED BY <2>3, <3>1, BecomesMoves
  <2> QED BY <2>1, <2>2, <2>3
<1>10. ASSUME NEW e \in Evaporators, Minute(e) PROVE CountInv'
  <2>1. Becomes(DefrostHeaterOnTime(defrost, erds, e))
    BY <1>10 DEF Minute
  <2>2. Moves(DefrostHeaterOnTime(defrost, erds, e), defrost, y)
    BY <1>1, HeatingMoves
  <2> QED BY <2>1, <2>2, BecomesMoves
<1> QED BY <1>3, <1>4, <1>5, <1>6, <1>7, <1>8, <1>9, <1>10

\* The valve, and the test requests of full defrosts.
LEMMA RequestsCount ==
    ASSUME DefrostInv, CountInv, OnlyFullIsRequested,
           \/ ValveHomes \/ \E r \in TestRequests : DefrostTestRequest(r)
    PROVE  CountInv'
<1>1. Counts(defrost, since) /\ Fielded(defrost)
  BY DEF CountInv, Counts
<1>2. {"homing", "dontSkipPrechill", "aham"} \subseteq MachineFieldNames \ ChoiceFields
  BY DEF MachineFieldNames, ChoiceFields
<1>3. CASE ValveHomes
  <2> DEFINE n == [defrost EXCEPT !.homing = FALSE]
  <2>1. Keeps(n, defrost, defrost.hsm)
    BY <1>1, <1>2, OtherWrites
  <2>2. Becomes(n)
    BY <1>3 DEF ValveHomes
  <2> HIDE DEF n
  <2>3. Moves(n, defrost, erds)
    BY <1>1, <2>1, StaysFacts DEF Moves, Follows
  <2> QED BY <2>2, <2>3, BecomesMoves
<1>4. ASSUME NEW r \in TestRequests, DefrostTestRequest(r) PROVE CountInv'
  <2>1. PICK now \in Readings : Becomes(Handle(r, now))
    BY <1>4 DEF DefrostTestRequest
  <2> DEFINE f == [defrost EXCEPT !.override = "Full"]
             a == [defrost EXCEPT !.dontSkipPrechill = TRUE]
             b == [a EXCEPT !.override = "Full"]
             c == [b EXCEPT !.aham = TRUE]
  <2>2. r \in {"Disable", "Enable", "AhamPrechill"}
    BY DEF OnlyFullIsRequested
  <2>3. CASE r = "Disable"
    <3>1. Handle(r, now) = SetDisableDefrost(defrost, erds, TRUE, now)
      BY <2>3 DEF Handle
    <3> QED BY <1>1, <2>1, <3>1, DisableCounts, BecomesCounts
  <2>4. CASE /\ Handle(r, now) = defrost
    <3>1. Moves(defrost, defrost, erds)
      BY <1>1, StaysFacts
    <3> QED BY <2>1, <2>4, <3>1, BecomesMoves
  <2>5. CASE r = "Enable" /\ defrost.hsm = "Disabled"
    <3> DEFINE n == SetDisableDefrost(f, erds, FALSE, now)
    <3>1. Handle(r, now) = n
      BY <2>5 DEF Handle
    <3>2. Counts(f, since) /\ f.hsm = "Disabled" /\ f.override = "Full"
      BY <1>1, <2>5, OverrideCounts
    <3> HIDE DEF f
    <3>3. Counts(n, since) /\ n.hsm # "HeaterOn"
      BY <3>2, EnableCounts
    <3> HIDE DEF n
    <3>4. After(defrost, n, since) = since
      BY <2>5, <3>3 DEF After
    <3> QED BY <2>1, <3>1, <3>3, <3>4, BecomesCounts
  <2>6. CASE r = "AhamPrechill" /\ defrost.hsm # "Disabled"
    <3>1. Handle(r, now) = c
      BY <2>6 DEF Handle, AhamRequests
    <3>2. Keeps(a, defrost, defrost.hsm)
      BY <1>1, <1>2, OtherWrites
    <3> HIDE DEF a
    <3>3. Follows(defrost.hsm, defrost.hsm) /\ Fielded(a) /\ a.hsm = defrost.hsm
          /\ a.type = defrost.type
      BY <3>2 DEF Follows, Keeps
    <3>4. Counts(a, After(defrost, a, since))
      BY <1>1, <3>2, <3>3, StateCounts
    <3>5. After(defrost, a, since) = since
      BY <3>3 DEF After
    <3>6. Counts(b, since) /\ b.hsm = defrost.hsm
      BY <3>3, <3>4, <3>5, OverrideCounts
    <3> HIDE DEF b
    <3>7. Keeps(c, b, b.hsm)
      BY <1>2, <3>6, OtherWrites DEF Counts
    <3>8. Follows(b.hsm, b.hsm) /\ c.hsm = defrost.hsm
      BY <3>6, <3>7 DEF Follows, Keeps
    <3> HIDE DEF c
    <3>9. Counts(c, After(b, c, since))
      BY <3>6, <3>7, <3>8, StateCounts
    <3>10. After(b, c, since) = since /\ After(defrost, c, since) = since
      BY <3>6, <3>8 DEF After
    <3> QED BY <2>1, <3>1, <3>9, <3>10, BecomesCounts
  <2>7. \/ r = "Disable" \/ Handle(r, now) = defrost
        \/ r = "Enable" /\ defrost.hsm = "Disabled"
        \/ r = "AhamPrechill" /\ defrost.hsm # "Disabled"
    BY <2>2 DEF Handle
  <2> QED BY <2>3, <2>4, <2>5, <2>6, <2>7
<1> QED BY <1>3, <1>4

\* What a power failure leaves, and what is made of it.
LEMMA PowerCyclePicks ==
    ASSUME DefrostInv, PowerCycle
    PROVE  \E wiped \in BOOLEAN, warm \in Thermistors \cup {"None"} :
              /\ erds' \in Erds
              /\ defrost' = Start(IF wiped THEN DefaultSettings ELSE Settings(defrost),
                                  erds', warm)
              /\ since' = IF wiped THEN 0 ELSE since
<1>1. erds' \in Erds
  BY PowerCycleStep DEF DefrostInv
<1> QED BY <1>1 DEF PowerCycle

LEMMA PowerCycleCounts ==
    ASSUME DefrostInv, CountInv, PowerCycle
    PROVE  CountInv'
<1>1. PICK wiped, warm :
         /\ wiped \in BOOLEAN /\ erds' \in Erds
         /\ defrost' = Start(IF wiped THEN DefaultSettings ELSE Settings(defrost),
                             erds', warm)
         /\ since' = IF wiped THEN 0 ELSE since
  BY PowerCyclePicks
<1>2. CASE wiped
  <2>1. defrost' = Start(DefaultSettings, erds', warm) /\ since' = 0
    BY <1>1, <1>2
  <2> QED BY <1>1, <2>1, BlankStartCounts DEF CountInv
<1>3. CASE ~wiped
  <2>1. defrost' = Start(Settings(defrost), erds', warm) /\ since' = since
    BY <1>1, <1>3
  <2>2. defrost \in Machines /\ Counts(defrost, since)
    BY DEF DefrostInv, Tidy, Leavable, CountInv
  <2> QED BY <1>1, <2>1, <2>2, StartCounts DEF CountInv
<1> QED BY <1>1, <1>2, <1>3

LEMMA CountInvStep ==
    ASSUME DefrostInv, CountInv, OnlyFullIsRequested, [Next]_vars
    PROVE  CountInv'
<1>1. CASE UNCHANGED vars
  BY <1>1 DEF vars, CountInv
<1>2. CASE Next
  <2>1. ~\E off \in BOOLEAN : CoolingOffRequest(off)
    BY DEF CoolingOffRequest, OnlyFullIsRequested
  <2> QED BY <1>2, <2>1, SensorsCount, RequestsCount, PowerCycleCounts DEF Next
<1> QED BY <1>1, <1>2

\* Defrost.c: while no request skips or cuts short a full defrost, the primary
\* evaporators are never passed over more often than the largest of the limits,
\* whatever disables the defrost, takes the power away in it or changes the
\* sabbath modes, and although the count is reset before they are heated.
THEOREM PrimaryEvaporatorsAreHeated ==
    ASSUME OnlyFullIsRequested
    PROVE  Spec => []SecondaryOnlyDefrostsAreBounded
<1>1. HeatingIsNotReassigned
  BY DEF OnlyFullIsRequested, HeatingIsNotReassigned, HeatingEndsByItself, HeatedRequests
<1>2. Init => CountInv
  BY InitEstablishesCountInv
<1>3. DefrostInv /\ CountInv /\ [Next]_vars => CountInv'
  BY CountInvStep
<1>4. CountInv => SecondaryOnlyDefrostsAreBounded
  BY DEF CountInv, Counts, Limited, SecondaryOnlyDefrostsAreBounded
<1>5. Spec => []DefrostInv
  BY <1>1, DefrostInvariant
<1> QED BY <1>2, <1>3, <1>4, <1>5, PTL DEF Spec

\* Defrost.c: a defrost that is interrupted up to its heating is taken up again
\* as the power returns, and heats what it was to heat, unless the cabinet has
\* become too warm or the EEPROM is blank.  (With one evaporator Defrost_Init
\* makes every defrost a full one.)
THEOREM InterruptionsAreResumed ==
    ASSUME HeatingIsNotReassigned, Cardinality(Evaporators) # 1
    PROVE  Spec => InterruptedHeatingIsResumed
<1>1. ASSUME DefrostInv, PowerCycle,
             defrost.hsm \in Prechills \cup {"HeaterOnEntry", "HeaterOn"},
             ~defrost'.tooWarm, ~defrost'.cleared
      PROVE  defrost'.defrosting /\ defrost'.type = defrost.type
  <2>1. PICK wiped, warm :
           /\ wiped \in BOOLEAN /\ erds' \in Erds
           /\ defrost' = Start(IF wiped THEN DefaultSettings ELSE Settings(defrost),
                               erds', warm)
    BY <1>1, PowerCyclePicks
  <2> DEFINE settings == Settings(defrost)
             tooWarm == CabinetIsTooWarm(erds', warm)
             p == PowerUp(settings, erds', tooWarm)
             i == InitialState(settings, tooWarm)
             n == Start(settings, erds', warm)
  <2>2. ~wiped
    BY <1>1, <2>1, BlankStartCounts
  <2>3. defrost' = n
    BY <2>1, <2>2
  <2>4. defrost \in Machines
    BY <1>1 DEF DefrostInv, Tidy, Leavable
  <2>5. /\ settings \in AllSettings /\ tooWarm \in BOOLEAN
        /\ settings.type = defrost.type /\ settings.state = DefrostState(defrost.hsm)
    BY <2>4, SettingsFacts DEF CabinetIsTooWarm, Settings
  <2>6. Keeps(n, p, i) /\ Tidy(n, erds')
    BY <2>1, <2>5, StartKeeps, StartFacts
  <2> HIDE DEF settings, tooWarm
  <2>7. p.type = settings.type /\ p.tooWarm = tooWarm /\ p.cleared = settings.cleared
    BY <2>1, <2>5, PowerUpFields
  <2> HIDE DEF p, n
  <2>8. ~tooWarm /\ ~settings.cleared /\ n.type = settings.type /\ n.hsm = i
    BY <1>1, <2>3, <2>6, <2>7 DEF Keeps
  <2>9. settings.state \in Prechills \cup {"HeaterOn"}
    BY <1>1, <2>5 DEF DefrostState, Prechills
  <2>10. i = "HeaterOnEntry"
    BY <2>8, <2>9 DEF InitialState, Prechills
  <2>11. n.defrosting
    BY <2>6, <2>8, <2>10 DEF Tidy, Leavable, WaitingStates
  <2> QED BY <2>3, <2>5, <2>8, <2>11
<1>2. DefrostInv /\ [Next]_vars =>
         [ (/\ defrost.hsm \in Prechills \cup {"HeaterOnEntry", "HeaterOn"}
            /\ ~defrost'.tooWarm /\ ~defrost'.cleared
            /\ ~(defrost'.defrosting /\ defrost'.type = defrost.type))
           => ~PowerCycle ]_vars
  BY <1>1
<1>3. Spec => []DefrostInv
  BY DefrostInvariant
<1> QED BY <1>2, <1>3, PTL DEF Spec, InterruptedHeatingIsResumed

-----------------------------------------------------------------------------
(***************************************************************************)
(* ReadyToDefrost: what has been added to the elapsed time, and what the   *)
(* running timer will add, is what the compressor ran and the doors were   *)
(* open since the last defrost.                                            *)
(***************************************************************************)

\* The sum of the factors of a set of doors is defined by a fold, and none of
\* the library's induction theorems can be cited: what follows is induction by
\* the least counterexample, over the subsets of a finite set.
LEMMA LeastSubset ==
    ASSUME NEW S, IsFiniteSet(S), NEW W, W \subseteq SUBSET S, W # {}
    PROVE  \E s \in W : \A x \in s : s \ {x} \notin W
<1>1. IsWellFoundedOn(StrictSubsetOrdering(S), FiniteSubsetsOf(S))
  BY FS_StrictSubsetOrderingWellFounded
<1>2. W \subseteq FiniteSubsetsOf(S)
  BY FS_FiniteSubsetsOfFinite
<1>3. PICK s \in W : \A t \in W : ~(<<t, s>> \in StrictSubsetOrdering(S))
  BY <1>1, <1>2, WFMin, Zenon
<1> QED BY <1>3, ZenonT(120) DEF StrictSubsetOrdering

AnyDoor(s) == CHOOSE d \in s : TRUE
SumOf(f, s) == IF s = {} THEN 0 ELSE DoorFactor[AnyDoor(s)] + f[s \ {AnyDoor(s)}]
Sums(f, D) == f \in [SUBSET D -> Nat] /\ \A s \in SUBSET D : f[s] = SumOf(f, s)

LEMMA AnyDoorIsOne ==
    ASSUME NEW s, s # {}
    PROVE  AnyDoor(s) \in s
BY DEF AnyDoor

LEMMA SumsAreUnique ==
    ASSUME NEW D, IsFiniteSet(D), NEW f, NEW g, Sums(f, D), Sums(g, D)
    PROVE  f = g
<1> DEFINE W == {s \in SUBSET D : f[s] # g[s]}
<1>1. CASE W # {}
  <2>1. PICK s \in W : \A x \in s : s \ {x} \notin W
    BY <1>1, LeastSubset
  <2>2. s # {} => f[s \ {AnyDoor(s)}] = g[s \ {AnyDoor(s)}]
    BY <2>1, AnyDoorIsOne
  <2>3. f[s] = g[s]
    BY <2>2 DEF Sums, SumOf
  <2> QED BY <2>3
<1>2. CASE W = {}
  BY <1>2 DEF Sums
<1> QED BY <1>1, <1>2

LEMMA SumsOfLess ==
    ASSUME NEW D, NEW f, Sums(f, D), NEW C \in SUBSET D
    PROVE  Sums([s \in SUBSET C |-> f[s]], C)
<1> DEFINE g == [s \in SUBSET C |-> f[s]]
<1>1. g \in [SUBSET C -> Nat]
  BY DEF Sums
<1>2. ASSUME NEW s \in SUBSET C
      PROVE  g[s] = SumOf(g, s)
  <2>1. g[s \ {AnyDoor(s)}] = f[s \ {AnyDoor(s)}]
    OBVIOUS
  <2> QED BY <2>1 DEF Sums, SumOf
<1> QED BY <1>1, <1>2 DEF Sums

LEMMA SumsExist == \A D \in SUBSET DefrostDoors : \E f : Sums(f, D)
<1> DEFINE W == {D \in SUBSET DefrostDoors : \A f : ~Sums(f, D)}
           F(D) == CHOOSE f : Sums(f, D)
<1> SUFFICES ASSUME W # {} PROVE FALSE
  OBVIOUS
<1>0. IsFiniteSet(DefrostDoors) /\ \A d \in DefrostDoors : DoorFactor[d] \in Nat
  BY ReadyToDefrostAssumption DEF ReadyToDefrostAssumption
<1>1. PICK D \in W : \A d \in D : D \ {d} \notin W
  BY <1>0, LeastSubset
<1>2. ASSUME NEW s \in SUBSET D, s # D
      PROVE  Sums(F(s), s)
  <2>1. PICK d \in D : d \notin s
    BY <1>2
  <2>2. PICK f : Sums(f, D \ {d})
    BY <1>1
  <2>3. s \in SUBSET (D \ {d})
    BY <2>1
  <2>4. \E g : Sums(g, s)
    BY <2>2, <2>3, SumsOfLess
  <2> QED BY <2>4
<1> DEFINE f == [s \in SUBSET D |-> IF s = D THEN SumOf(F(D \ {AnyDoor(D)}), D) ELSE F(s)[s]]
<1>3. ASSUME NEW s \in SUBSET D, s # {}
      PROVE  /\ AnyDoor(s) \in D /\ s \ {AnyDoor(s)} \in SUBSET D /\ s \ {AnyDoor(s)} # D
             /\ DoorFactor[AnyDoor(s)] \in Nat
             /\ f[s \ {AnyDoor(s)}] = F(s \ {AnyDoor(s)})[s \ {AnyDoor(s)}]
             /\ f[s \ {AnyDoor(s)}] \in Nat
  <2>1. AnyDoor(s) \in s /\ AnyDoor(s) \in DefrostDoors
    BY <1>3, AnyDoorIsOne
  <2>2. s \ {AnyDoor(s)} \in SUBSET D /\ s \ {AnyDoor(s)} # D
    BY <2>1
  <2>3. f[s \ {AnyDoor(s)}] = F(s \ {AnyDoor(s)})[s \ {AnyDoor(s)}]
    BY <2>2
  <2>4. F(s \ {AnyDoor(s)})[s \ {AnyDoor(s)}] \in Nat
    <3> DEFINE C == s \ {AnyDoor(s)}
    <3>1. Sums(F(C), C)
      BY <1>2, <2>2
    <3> HIDE DEF F
    <3> QED BY <3>1 DEF Sums
  <2> QED BY <1>0, <2>1, <2>2, <2>3, <2>4
<1>4. ASSUME NEW s \in SUBSET D
      PROVE  f[s] = SumOf(f, s)
  <2>1. CASE s = D
    <3>1. f[s] = SumOf(F(D \ {AnyDoor(D)}), D)
      BY <2>1
    <3> HIDE DEF f, F
    <3> QED BY <1>3, <2>1, <3>1 DEF SumOf
  <2>2. CASE s # D
    <3>1. Sums(F(s), s) /\ IsFiniteSet(s)
      BY <1>0, <1>2, <2>2, FS_Subset
    <3>2. f[s] = SumOf(F(s), s)
      <4>1. f[s] = F(s)[s]
        BY <2>2
      <4> HIDE DEF f, F
      <4> QED BY <3>1, <4>1 DEF Sums
    <3>3. ASSUME s # {}
          PROVE  F(s)[s \ {AnyDoor(s)}] = F(s \ {AnyDoor(s)})[s \ {AnyDoor(s)}]
      <4> DEFINE C == s \ {AnyDoor(s)}
      <4> HIDE DEF f, F
      <4>3. C \in SUBSET s /\ C \in SUBSET D /\ C # D
        BY <1>3, <3>3
      <4>4. IsFiniteSet(C)
        BY <3>1, <4>3, FS_Subset
      <4>5. Sums([u \in SUBSET C |-> F(s)[u]], C)
        BY <3>1, <4>3, SumsOfLess
      <4>1. Sums([u \in SUBSET C |-> F(s)[u]], C) /\ Sums(F(C), C) /\ IsFiniteSet(C)
        BY <1>2, <4>3, <4>4, <4>5
      <4>2. [u \in SUBSET C |-> F(s)[u]] = F(C)
        BY <4>1, SumsAreUnique
      <4> QED BY <4>2
    <3> HIDE DEF f, F
    <3> QED BY <1>3, <3>2, <3>3 DEF SumOf
  <2> QED BY <2>1, <2>2
<1>5. f \in [SUBSET D -> Nat]
  <2>1. ASSUME NEW s \in SUBSET D
        PROVE  f[s] \in Nat
    <3>1. f[s] = SumOf(f, s)
      BY <1>4
    <3>2. s # {} => DoorFactor[AnyDoor(s)] \in Nat /\ f[s \ {AnyDoor(s)}] \in Nat
      BY <1>3
    <3> HIDE DEF f, F
    <3> QED BY <3>1, <3>2 DEF SumOf
  <2> QED BY <2>1
<1>6. Sums(f, D)
  BY <1>4, <1>5 DEF Sums
<1> QED BY <1>1, <1>6

\* What the doors add: nothing exactly when all of them are closed.
LEMMA DoorFactorsAddUp ==
    \A D \in SUBSET DefrostDoors : Factors(D) \in Nat /\ (Factors(D) = 0 <=> D = {})
<1> SUFFICES ASSUME NEW D \in SUBSET DefrostDoors
             PROVE  Factors(D) \in Nat /\ (Factors(D) = 0 <=> D = {})
  OBVIOUS
<1> DEFINE iter == CHOOSE f : f = [s \in SUBSET D |-> SumOf(f, s)]
           W == {s \in SUBSET D : ~(iter[s] \in Nat /\ (iter[s] = 0 <=> s = {}))}
<1>1. Factors(D) = iter[D]
  BY DEF Factors, MapThenSumSet, MapThenFoldSet, SumOf, AnyDoor
<1>2. PICK f : Sums(f, D)
  BY SumsExist
<1>3. f = [s \in SUBSET D |-> SumOf(f, s)]
  BY <1>2 DEF Sums
<1>4. iter = [s \in SUBSET D |-> SumOf(iter, s)]
  BY <1>3
<1> HIDE DEF iter
<1>5. CASE W # {}
  <2>1. PICK s \in W : \A d \in s : s \ {d} \notin W
    BY <1>5, LeastSubset, FS_Subset, ReadyToDefrostAssumption DEF ReadyToDefrostAssumption
  <2>2. s # {} => AnyDoor(s) \in s /\ iter[s \ {AnyDoor(s)}] \in Nat /\ DoorFactor[AnyDoor(s)] \in Nat \ {0}
    BY <2>1, AnyDoorIsOne, ReadyToDefrostAssumption DEF ReadyToDefrostAssumption
  <2>3. iter[s] = SumOf(iter, s)
    BY <1>4
  <2> QED BY <2>2, <2>3 DEF SumOf
<1> QED BY <1>1, <1>5

Waits ==
    [state : ReadyStates, ready : BOOLEAN, waiting : BOOLEAN, timer : DefrostTimers, left : Int,
     elapsed : Nat, waited : Nat, onTime : Nat, accelerations : Nat, between : Nat,
     abnormal : SUBSET AbnormalConditions, aham : BOOLEAN, compressor : BOOLEAN,
     open : SUBSET DefrostDoors, ran : Nat, opened : Nat]

\* The elapsed time, had the compressor been in the state on and the doors D open.
Accounts(s, on, D) ==
    /\ s.onTime + (IF on THEN s.elapsed ELSE 0) = s.ran
    /\ s.accelerations + s.elapsed * Factors(D) = s.opened
    /\ s.waited \in {s.onTime, s.onTime + s.accelerations}

StillWaits(s) == s.state # "ReadyAndDefrosting" /\ ~s.ready

ReadyInv(s) ==
    /\ s \in Waits
    /\ StillWaits(s) => Accounts(s, s.compressor, s.open) /\ (s.compressor => s.timer # "none")
    /\ s.state = "ReadyAndDefrosting" => s.timer = "none"

\* No time has elapsed that is not counted yet.
Counted(s) ==
    /\ s.onTime = s.ran /\ s.accelerations = s.opened
    /\ s.waited \in {s.onTime, s.onTime + s.accelerations}

LEMMA WaitFields ==
    ASSUME NEW s \in Waits
    PROVE  /\ s.state \in ReadyStates /\ s.ready \in BOOLEAN /\ s.timer \in DefrostTimers
           /\ s.left \in Int /\ s.elapsed \in Nat /\ s.waited \in Nat /\ s.onTime \in Nat
           /\ s.accelerations \in Nat /\ s.between \in Nat /\ s.aham \in BOOLEAN
           /\ s.compressor \in BOOLEAN /\ s.open \in SUBSET DefrostDoors
           /\ s.ran \in Nat /\ s.opened \in Nat /\ s.abnormal \in SUBSET AbnormalConditions
BY DEF Waits

\* The fields no timer and no sum touches.
SameInputs(s, t) ==
    /\ t.state = s.state /\ t.ready = s.ready /\ t.compressor = s.compressor /\ t.open = s.open
    /\ t.ran = s.ran /\ t.opened = s.opened /\ t.aham = s.aham /\ t.between = s.between
    /\ t.abnormal = s.abnormal

LEMMA TimesAreNumbers ==
    ASSUME NEW s \in Waits
    PROVE  /\ TimeBetweenDefrosts(s) \in Nat /\ AhamTime \in Nat
           /\ TimeUntilMinimum(s) \in Nat /\ RemainingTime(s) \in Nat
<1>1. MinimumTime \in Nat /\ MaximumTime \in Nat /\ AhamTime \in Nat
  BY ReadyToDefrostAssumption
<1>2. s.onTime \in Nat /\ s.accelerations \in Nat /\ s.between \in Nat
  BY WaitFields
<1>3. TimeBetweenDefrosts(s) \in Nat
  BY <1>1 DEF TimeBetweenDefrosts
<1>4. \A a, b \in Nat : Truncated(a, b) \in Nat
  BY DEF Truncated
<1>5. TimeUntilMinimum(s) \in Nat
  <2> DEFINE m == IF s.aham THEN AhamTime ELSE MinimumTime
  <2>1. m \in Nat
    BY <1>1
  <2> HIDE DEF m
  <2>2. Truncated(m, s.onTime) \in Nat
    BY <1>2, <1>4, <2>1
  <2> QED BY <2>2 DEF TimeUntilMinimum, m
<1>6. RemainingTime(s) \in Nat
  <2>1. s.onTime + s.accelerations \in Nat
    BY <1>2
  <2> QED BY <1>2, <1>4, <2>1 DEF RemainingTime
<1> QED BY <1>1, <1>3, <1>5, <1>6

\* A timer is started for a time.
LEMMA StartTimerFacts ==
    ASSUME NEW s \in Waits, NEW timer \in DefrostTimers, NEW time \in Int
    PROVE  LET t == StartReadyTimer(s, timer, time) IN
           /\ t \in Waits /\ SameInputs(s, t) /\ t.timer = timer /\ t.elapsed = 0
           /\ t.onTime = s.onTime /\ t.accelerations = s.accelerations /\ t.waited = s.waited
BY DEF StartReadyTimer, Waits, SameInputs

LEMMA StopTimerFacts ==
    ASSUME NEW s \in Waits
    PROVE  LET t == StopReadyTimer(s) IN
           /\ t \in Waits /\ SameInputs(s, t) /\ t.elapsed = s.elapsed
           /\ t.onTime = s.onTime /\ t.accelerations = s.accelerations /\ t.waited = s.waited
BY DEF StopReadyTimer, Waits, SameInputs, DefrostTimers

LEMMA PublishFacts ==
    ASSUME NEW s \in Waits
    PROVE  LET t == PublishWaitingTime(s) IN
           /\ t \in Waits /\ SameInputs(s, t) /\ t.elapsed = s.elapsed /\ t.timer = s.timer
           /\ t.onTime = s.onTime /\ t.accelerations = s.accelerations
           /\ t.waited \in {t.onTime, t.onTime + t.accelerations}
<1> DEFINE w == IF s.state = "WaitingForMinimum" THEN s.onTime ELSE s.onTime + s.accelerations
           t == [s EXCEPT !.waited = w]
<1>1. w \in Nat /\ w \in {s.onTime, s.onTime + s.accelerations}
  BY WaitFields
<1>2. PublishWaitingTime(s) = t
  BY DEF PublishWaitingTime
<1> HIDE DEF w
<1>3. /\ t \in Waits /\ SameInputs(s, t) /\ t.elapsed = s.elapsed /\ t.timer = s.timer
      /\ t.onTime = s.onTime /\ t.accelerations = s.accelerations /\ t.waited = w
  BY <1>1 DEF Waits, SameInputs
<1> HIDE DEF t
<1> QED BY <1>1, <1>2, <1>3

LEMMA ResetFacts ==
    ASSUME NEW s \in Waits
    PROVE  LET t == ResetCounts(s) IN
           /\ t \in Waits /\ t.onTime = 0 /\ t.accelerations = 0 /\ t.ran = 0 /\ t.opened = 0
           /\ t.state = s.state /\ t.ready = s.ready /\ t.compressor = s.compressor /\ t.open = s.open
           /\ t.timer = s.timer /\ t.elapsed = s.elapsed
BY DEF ResetCounts, Waits

\* The elapsed time is added to the compressor's and to the doors'.
LEMMA AddElapsedFacts ==
    ASSUME NEW s \in Waits, NEW on \in BOOLEAN, NEW D \in SUBSET DefrostDoors
    PROVE  LET t == AddElapsedToDoors(AddElapsedToCompressor(s, on), D) IN
           /\ t \in Waits /\ SameInputs(s, t) /\ t.elapsed = s.elapsed /\ t.timer = s.timer
           /\ t.onTime = s.onTime + (IF on THEN s.elapsed ELSE 0)
           /\ t.accelerations = s.accelerations + s.elapsed * Factors(D)
<1> DEFINE time == s.onTime + (IF on THEN s.elapsed ELSE 0)
           more == s.accelerations + s.elapsed * Factors(D)
           a == [s EXCEPT !.onTime = time]
           t == [a EXCEPT !.accelerations = more]
<1>1. Factors(D) \in Nat /\ s.elapsed \in Nat /\ s.onTime \in Nat /\ s.accelerations \in Nat
  BY WaitFields, DoorFactorsAddUp
<1>2. time \in Nat
  BY <1>1
<1>3. more \in Nat
  <2>1. s.elapsed * Factors(D) \in Nat
    BY <1>1
  <2> QED BY <1>1, <2>1
<1>4. AddElapsedToCompressor(s, on) = a
  <2>1. CASE on
    BY <2>1 DEF AddElapsedToCompressor
  <2>2. CASE ~on
    <3>1. time = s.onTime
      BY <1>1, <2>2
    <3>2. [s EXCEPT !.onTime = s.onTime] = s
      BY DEF Waits
    <3> QED BY <2>2, <3>1, <3>2 DEF AddElapsedToCompressor
  <2> QED BY <2>1, <2>2
<1> HIDE DEF time
<1>5. a \in Waits /\ SameInputs(s, a) /\ a.elapsed = s.elapsed /\ a.timer = s.timer
      /\ a.onTime = time /\ a.accelerations = s.accelerations
  BY <1>2 DEF Waits, SameInputs
<1>6. AddElapsedToDoors(a, D) = t
  <2> HIDE DEF a
  <2> QED BY <1>5 DEF AddElapsedToDoors
<1> HIDE DEF a, more
<1>7. t \in Waits /\ SameInputs(a, t) /\ t.elapsed = a.elapsed /\ t.timer = a.timer
      /\ t.onTime = a.onTime /\ t.accelerations = more
  BY <1>3, <1>5 DEF Waits, SameInputs
<1> HIDE DEF t
<1>8. SameInputs(s, t)
  BY <1>5, <1>7 DEF SameInputs
<1> QED BY <1>4, <1>5, <1>6, <1>7, <1>8 DEF time, more

\* What has elapsed does not count while nothing counts.
LEMMA NothingElapses ==
    ASSUME NEW s \in Waits, Counted(s),
           s.elapsed = 0 \/ (~s.compressor /\ s.open = {})
    PROVE  Accounts(s, s.compressor, s.open)
<1>1. s.elapsed \in Nat /\ s.onTime \in Nat /\ s.accelerations \in Nat /\ s.open \in SUBSET DefrostDoors
  BY WaitFields
<1>2. Factors(s.open) \in Nat /\ (s.open = {} => Factors(s.open) = 0)
  BY <1>1, DoorFactorsAddUp
<1>3. s.elapsed * Factors(s.open) = 0
  <2>1. CASE s.elapsed = 0
    <3>1. 0 * Factors(s.open) = 0
      BY <1>2
    <3> QED BY <2>1, <3>1
  <2>2. CASE s.open = {}
    <3>1. Factors(s.open) = 0 /\ s.elapsed * 0 = 0
      BY <1>1, <1>2, <2>2
    <3> QED BY <3>1
  <2> QED BY <2>1, <2>2
<1>4. (IF s.compressor THEN s.elapsed ELSE 0) = 0
  OBVIOUS
<1>5. s.onTime + (IF s.compressor THEN s.elapsed ELSE 0) = s.ran
  <2>1. s.onTime + 0 = s.ran
    BY <1>1 DEF Counted
  <2> QED BY <1>4, <2>1
<1>6. s.accelerations + s.elapsed * Factors(s.open) = s.opened
  <2>1. s.accelerations + 0 = s.opened
    BY <1>1 DEF Counted
  <2> QED BY <1>3, <2>1
<1> QED BY <1>5, <1>6 DEF Accounts, Counted

\* The two ways to time what is counted.
LEMMA StartMinimumFacts ==
    ASSUME NEW s \in Waits, s.state # "ReadyAndDefrosting", ~s.ready => Counted(s)
    PROVE  ReadyInv(StartMinimumOrUpdateTimer(s))
<1>0. s.open \in SUBSET DefrostDoors /\ s.compressor \in BOOLEAN
  BY WaitFields
<1>1. TimeUntilMinimum(s) \in Nat /\ TimeUntilMinimum(s) \in Int /\ UpdatePeriod \in Nat /\ UpdatePeriod \in Int
  BY TimesAreNumbers, ReadyToDefrostAssumption
<1>2. ASSUME NEW timer \in DefrostTimers, NEW time \in Int, timer # "none"
      PROVE  ReadyInv(StartReadyTimer(s, timer, time))
  <2> DEFINE t == StartReadyTimer(s, timer, time)
  <2>1. /\ t \in Waits /\ SameInputs(s, t) /\ t.timer = timer /\ t.elapsed = 0
        /\ t.onTime = s.onTime /\ t.accelerations = s.accelerations /\ t.waited = s.waited
    BY StartTimerFacts
  <2> HIDE DEF t
  <2>2. StillWaits(t) => Counted(t)
    BY <2>1 DEF StillWaits, Counted, SameInputs
  <2>3. StillWaits(t) => Accounts(t, t.compressor, t.open)
    BY <2>1, <2>2, NothingElapses
  <2> QED BY <1>2, <2>1, <2>3 DEF ReadyInv, SameInputs, t
<1>3. CASE s.compressor /\ TimeUntilMinimum(s) < UpdatePeriod
  <2>1. StartMinimumOrUpdateTimer(s) = StartReadyTimer(s, "minimum", TimeUntilMinimum(s))
    BY <1>3, <1>1 DEF StartMinimumOrUpdateTimer
  <2> QED BY <1>1, <1>2, <2>1 DEF DefrostTimers
<1>4. CASE (s.compressor /\ TimeUntilMinimum(s) >= UpdatePeriod) \/ (~s.compressor /\ s.open # {})
  <2>1. StartMinimumOrUpdateTimer(s) = StartReadyTimer(s, "update", UpdatePeriod)
    BY <1>4, <1>1 DEF StartMinimumOrUpdateTimer
  <2> QED BY <1>1, <1>2, <2>1 DEF DefrostTimers
<1>5. CASE ~s.compressor /\ s.open = {}
  <2>1. StartMinimumOrUpdateTimer(s) = s
    BY <1>5 DEF StartMinimumOrUpdateTimer
  <2>2. StillWaits(s) => Accounts(s, s.compressor, s.open)
    BY <1>5, NothingElapses DEF StillWaits
  <2> QED BY <1>5, <2>1, <2>2 DEF ReadyInv
<1> QED BY <1>0, <1>1, <1>3, <1>4, <1>5

LEMMA StartRemainingFacts ==
    ASSUME NEW s \in Waits, s.state # "ReadyAndDefrosting", ~s.ready => Counted(s)
    PROVE  /\ ReadyInv(StartRemainingOrUpdateTimer(s))
           /\ ReadyInv(StartReadyTimer(s, "remaining", 0))
<1>0. s.open \in SUBSET DefrostDoors /\ s.compressor \in BOOLEAN
  BY WaitFields
<1>1. UpdatePeriod \in Int
  BY ReadyToDefrostAssumption
<1>2. ASSUME NEW timer \in DefrostTimers, NEW time \in Int, timer # "none"
      PROVE  ReadyInv(StartReadyTimer(s, timer, time))
  <2> DEFINE t == StartReadyTimer(s, timer, time)
  <2>1. /\ t \in Waits /\ SameInputs(s, t) /\ t.timer = timer /\ t.elapsed = 0
        /\ t.onTime = s.onTime /\ t.accelerations = s.accelerations /\ t.waited = s.waited
    BY StartTimerFacts
  <2> HIDE DEF t
  <2>2. StillWaits(t) => Counted(t)
    BY <2>1 DEF StillWaits, Counted, SameInputs
  <2>3. StillWaits(t) => Accounts(t, t.compressor, t.open)
    BY <2>1, <2>2, NothingElapses
  <2> QED BY <1>2, <2>1, <2>3 DEF ReadyInv, SameInputs, t
<1>20. ReadyInv(StartReadyTimer(s, "remaining", 0))
  BY <1>2 DEF DefrostTimers
<1>3. CASE ~s.compressor /\ s.open = {}
  <2> DEFINE t == StopReadyTimer(s)
  <2>1. StartRemainingOrUpdateTimer(s) = t
    BY <1>3 DEF StartRemainingOrUpdateTimer
  <2>2. /\ t \in Waits /\ SameInputs(s, t) /\ t.elapsed = s.elapsed
        /\ t.onTime = s.onTime /\ t.accelerations = s.accelerations /\ t.waited = s.waited
    BY StopTimerFacts
  <2> HIDE DEF t
  <2>3. (StillWaits(t) => Counted(t)) /\ ~t.compressor /\ t.open = {}
    BY <1>3, <2>2 DEF StillWaits, Counted, SameInputs
  <2>4. StillWaits(t) => Accounts(t, t.compressor, t.open)
    BY <2>2, <2>3, NothingElapses
  <2>5. ReadyInv(t)
    BY <2>2, <2>3, <2>4 DEF ReadyInv, SameInputs
  <2> QED BY <1>20, <2>1, <2>5
<1>4. CASE s.compressor \/ s.open # {}
  <2> DEFINE n == (IF s.compressor THEN 1 ELSE 0) + Factors(s.open)
  <2>1. n \in Nat /\ n > 0
    <3>1. Factors(s.open) \in Nat /\ (s.open # {} => Factors(s.open) # 0)
      BY <1>0, DoorFactorsAddUp
    <3> QED BY <1>4, <3>1
  <2>2. RemainingTime(s) \in Nat
    BY TimesAreNumbers
  <2>3. TimeUntilReady(s) = RemainingTime(s) \div n
    BY DEF TimeUntilReady
  <2> HIDE DEF n
  <2>4. TimeUntilReady(s) \in Int
    BY <2>1, <2>2, <2>3
  <2>5. StartRemainingOrUpdateTimer(s) =
            IF TimeUntilReady(s) < UpdatePeriod
            THEN StartReadyTimer(s, "remaining", TimeUntilReady(s))
            ELSE StartReadyTimer(s, "update", UpdatePeriod)
    BY <1>4 DEF StartRemainingOrUpdateTimer
  <2> QED BY <1>1, <1>2, <1>20, <2>4, <2>5 DEF DefrostTimers
<1> QED BY <1>0, <1>3, <1>4

\* The states that wait are entered with the time counted.
LEMMA EnterMinimumFacts ==
    ASSUME NEW s \in Waits, s.onTime = s.ran, s.accelerations = s.opened
    PROVE  ReadyInv(EnterWaitingForMinimum(s))
<1> DEFINE w == [s EXCEPT !.state = "WaitingForMinimum", !.ready = FALSE]
           p == PublishWaitingTime(w)
           time == IF s.aham THEN AhamTime ELSE TimeBetweenDefrosts(s)
           b == [p EXCEPT !.between = time]
<1>1. w \in Waits /\ w.onTime = s.onTime /\ w.ran = s.ran /\ w.accelerations = s.accelerations
      /\ w.opened = s.opened /\ w.state = "WaitingForMinimum"
  BY DEF Waits, ReadyStates
<1>2. EnterWaitingForMinimum(s) = StartMinimumOrUpdateTimer(b)
  BY DEF EnterWaitingForMinimum
<1>3. time \in Nat
  BY TimesAreNumbers
<1> HIDE DEF w, time
<1>4. /\ p \in Waits /\ SameInputs(w, p) /\ p.onTime = w.onTime /\ p.accelerations = w.accelerations
      /\ p.waited \in {p.onTime, p.onTime + p.accelerations}
  BY <1>1, PublishFacts
<1> HIDE DEF p
<1>5. /\ b \in Waits /\ b.onTime = p.onTime /\ b.accelerations = p.accelerations /\ b.waited = p.waited
      /\ b.ran = p.ran /\ b.opened = p.opened /\ b.state = p.state
  BY <1>3, <1>4 DEF Waits
<1> HIDE DEF b
<1>6. Counted(b) /\ b.state # "ReadyAndDefrosting"
  BY <1>1, <1>4, <1>5 DEF Counted, SameInputs
<1> QED BY <1>2, <1>5, <1>6, StartMinimumFacts

LEMMA EnterRemainingFacts ==
    ASSUME NEW s \in Waits, ~s.ready => s.onTime = s.ran /\ s.accelerations = s.opened
    PROVE  ReadyInv(EnterWaitingForRemaining(s))
<1> DEFINE time == TimeBetweenDefrosts(s)
           w == [s EXCEPT !.state = "WaitingForRemaining", !.between = time]
           p == PublishWaitingTime(w)
<1>1. EnterWaitingForRemaining(s) = IF IsReadyToDefrost(p) THEN StartReadyTimer(p, "remaining", 0)
                                    ELSE StartRemainingOrUpdateTimer(p)
  BY DEF EnterWaitingForRemaining
<1>2. time \in Nat
  BY TimesAreNumbers
<1> HIDE DEF time
<1>3. w \in Waits /\ w.onTime = s.onTime /\ w.ran = s.ran /\ w.accelerations = s.accelerations
      /\ w.opened = s.opened /\ w.ready = s.ready /\ w.state = "WaitingForRemaining"
  BY <1>2 DEF Waits, ReadyStates
<1> HIDE DEF w
<1>4. /\ p \in Waits /\ SameInputs(w, p) /\ p.onTime = w.onTime /\ p.accelerations = w.accelerations
      /\ p.waited \in {p.onTime, p.onTime + p.accelerations}
  BY <1>3, PublishFacts
<1> HIDE DEF p
<1>5. (~p.ready => Counted(p)) /\ p.state # "ReadyAndDefrosting"
  BY <1>3, <1>4 DEF Counted, SameInputs
<1> QED BY <1>1, <1>4, <1>5, StartRemainingFacts

\* A signal adds up what has elapsed under the old inputs and starts the timer.
LEMMA AddElapsedAndRestartFacts ==
    ASSUME NEW s \in Waits, NEW on \in BOOLEAN, NEW D \in SUBSET DefrostDoors,
           StillWaits(s) => Accounts(s, on, D), s.state = "ReadyAndDefrosting" => s.timer = "none"
    PROVE  ReadyInv(AddElapsedAndRestart(s, on, D))
<1> DEFINE a == AddElapsedToDoors(AddElapsedToCompressor(s, on), D)
           p == PublishWaitingTime(a)
<1>1. /\ a \in Waits /\ SameInputs(s, a)
      /\ a.onTime = s.onTime + (IF on THEN s.elapsed ELSE 0)
      /\ a.accelerations = s.accelerations + s.elapsed * Factors(D)
  BY AddElapsedFacts
<1>2. AddElapsedAndRestart(s, on, D) =
        CASE s.state = "WaitingForMinimum" -> StartMinimumOrUpdateTimer(p)
          [] s.state = "WaitingForRemaining" -> StartRemainingOrUpdateTimer(p)
          [] s.state = "ReadyAndDefrosting" -> s
  BY DEF AddElapsedAndRestart
<1> HIDE DEF a
<1>3. /\ p \in Waits /\ SameInputs(a, p) /\ p.onTime = a.onTime /\ p.accelerations = a.accelerations
      /\ p.waited \in {p.onTime, p.onTime + p.accelerations}
  BY <1>1, PublishFacts
<1> HIDE DEF p
<1>4. StillWaits(p) => Counted(p)
  <2> SUFFICES ASSUME StillWaits(p) PROVE Counted(p)
    OBVIOUS
  <2>1. StillWaits(s) /\ p.ran = s.ran /\ p.opened = s.opened
    BY <1>1, <1>3 DEF SameInputs, StillWaits
  <2>2. Accounts(s, on, D)
    BY <2>1
  <2>3. p.onTime = s.ran /\ p.accelerations = s.opened
    BY <1>1, <1>3, <2>2 DEF Accounts
  <2> QED BY <1>3, <2>1, <2>3 DEF Counted
<1>5. s.state \in ReadyStates
  BY WaitFields
<1>51. s.state # "ReadyAndDefrosting" => p.state # "ReadyAndDefrosting" /\ (~p.ready => Counted(p))
  BY <1>1, <1>3, <1>4 DEF SameInputs, StillWaits
<1>6. CASE s.state = "WaitingForMinimum"
  BY <1>2, <1>3, <1>51, <1>6, StartMinimumFacts
<1>7. CASE s.state = "WaitingForRemaining"
  BY <1>2, <1>3, <1>51, <1>7, StartRemainingFacts
<1>8. CASE s.state = "ReadyAndDefrosting"
  BY <1>2, <1>8 DEF ReadyInv, StillWaits
<1> QED BY <1>5, <1>6, <1>7, <1>8 DEF ReadyStates

LEMMA MinimumTimeExpiredFacts ==
    ASSUME NEW s \in Waits, StillWaits(s) => Accounts(s, s.compressor, s.open),
           s.state # "ReadyAndDefrosting"
    PROVE  ReadyInv(MinimumTimeExpired(s)) /\ ReadyInv(RemainingTimeExpired(s))
<1> DEFINE a == AddElapsedToDoors(AddElapsedToCompressor(s, s.compressor), s.open)
           p == PublishWaitingTime(a)
           q == StopReadyTimer(p)
           r == [p EXCEPT !.ready = TRUE]
<1>0. s.compressor \in BOOLEAN /\ s.open \in SUBSET DefrostDoors
  BY WaitFields
<1>1. /\ a \in Waits /\ SameInputs(s, a)
      /\ a.onTime = s.onTime + (IF s.compressor THEN s.elapsed ELSE 0)
      /\ a.accelerations = s.accelerations + s.elapsed * Factors(s.open)
  BY <1>0, AddElapsedFacts
<1>2. /\ MinimumTimeExpired(s) = IF s.between \in {AhamTime, MinimumTime} THEN r
                                 ELSE EnterWaitingForRemaining(q)
      /\ RemainingTimeExpired(s) = r
  BY DEF MinimumTimeExpired, RemainingTimeExpired
<1> HIDE DEF a
<1>3. /\ p \in Waits /\ SameInputs(a, p) /\ p.onTime = a.onTime /\ p.accelerations = a.accelerations
  BY <1>1, PublishFacts
<1> HIDE DEF p
<1>4. q \in Waits /\ SameInputs(p, q) /\ q.onTime = p.onTime /\ q.accelerations = p.accelerations
  BY <1>3, StopTimerFacts
<1>5. r \in Waits /\ r.ready /\ r.state = p.state
  BY <1>3 DEF Waits
<1>6. q.state = s.state /\ q.ready = s.ready /\ q.ran = s.ran /\ q.opened = s.opened
  BY <1>1, <1>3, <1>4 DEF SameInputs
<1> HIDE DEF q, r
<1>7. ReadyInv(r)
  BY <1>1, <1>3, <1>5 DEF ReadyInv, StillWaits, SameInputs
<1>8. ~q.ready => q.onTime = q.ran /\ q.accelerations = q.opened
  BY <1>1, <1>3, <1>4, <1>6 DEF StillWaits, Accounts
<1>9. ReadyInv(EnterWaitingForRemaining(q))
  BY <1>4, <1>8, EnterRemainingFacts
<1> QED BY <1>2, <1>7, <1>9

\* What is reset waits as it did, with nothing counted.
LEMMA UseAhamTimeFacts ==
    ASSUME NEW s, ReadyInv(s)
    PROVE  ReadyInv(UseAhamTime(s))
<1> DEFINE c == ResetCounts(s)
           q == StopReadyTimer(c)
           r == [c EXCEPT !.between = AhamTime, !.waited = 0]
<1>0. s \in Waits
  BY DEF ReadyInv
<1>00. s.state \in ReadyStates /\ s.compressor \in BOOLEAN
  BY <1>0, WaitFields
<1>1. UseAhamTime(s) =
        CASE s.state = "WaitingForMinimum" ->
                IF s.compressor \/ s.open # {} THEN StartReadyTimer(r, "update", UpdatePeriod) ELSE r
          [] s.state = "WaitingForRemaining" -> EnterWaitingForMinimum(q)
          [] s.state = "ReadyAndDefrosting" -> c
  BY DEF UseAhamTime
<1>2. /\ c \in Waits /\ c.onTime = 0 /\ c.accelerations = 0 /\ c.ran = 0 /\ c.opened = 0
      /\ c.state = s.state /\ c.ready = s.ready /\ c.compressor = s.compressor /\ c.open = s.open
      /\ c.timer = s.timer
  BY <1>0, ResetFacts
<1> HIDE DEF c
<1>3. q \in Waits /\ SameInputs(c, q) /\ q.onTime = 0 /\ q.accelerations = 0
  BY <1>2, StopTimerFacts
<1> HIDE DEF q
<1>4. /\ r \in Waits /\ r.onTime = 0 /\ r.accelerations = 0 /\ r.ran = 0 /\ r.opened = 0 /\ r.waited = 0
      /\ r.state = c.state /\ r.ready = c.ready /\ r.compressor = c.compressor /\ r.open = c.open
  BY <1>2, TimesAreNumbers DEF Waits
<1> HIDE DEF r
<1>5. CASE s.state = "WaitingForMinimum" /\ (s.compressor \/ s.open # {})
  <2> DEFINE t == StartReadyTimer(r, "update", UpdatePeriod)
  <2>1. "update" \in DefrostTimers /\ UpdatePeriod \in Int
    BY ReadyToDefrostAssumption DEF DefrostTimers
  <2>2. /\ t \in Waits /\ SameInputs(r, t) /\ t.timer = "update" /\ t.elapsed = 0
        /\ t.onTime = r.onTime /\ t.accelerations = r.accelerations /\ t.waited = r.waited
    BY <1>4, <2>1, StartTimerFacts
  <2> HIDE DEF t
  <2>3. Counted(t)
    BY <1>4, <2>2 DEF Counted, SameInputs
  <2>4. Accounts(t, t.compressor, t.open)
    BY <2>2, <2>3, NothingElapses
  <2>5. t.state # "ReadyAndDefrosting"
    BY <1>2, <1>4, <1>5, <2>2 DEF SameInputs
  <2>6. ReadyInv(t)
    BY <2>2, <2>4, <2>5 DEF ReadyInv
  <2> QED BY <1>1, <1>5, <2>6 DEF t
<1>6. CASE s.state = "WaitingForMinimum" /\ ~(s.compressor \/ s.open # {})
  <2>1. UseAhamTime(s) = r
    BY <1>1, <1>6
  <2>2. Counted(r)
    BY <1>4 DEF Counted
  <2>3. Accounts(r, r.compressor, r.open)
    BY <1>2, <1>4, <1>6, <2>2, NothingElapses
  <2> QED BY <1>2, <1>4, <1>6, <2>1, <2>3 DEF ReadyInv
<1>7. CASE s.state = "WaitingForRemaining"
  <2>1. q.onTime = q.ran /\ q.accelerations = q.opened
    BY <1>2, <1>3 DEF SameInputs
  <2> QED BY <1>1, <1>3, <1>7, <2>1, EnterMinimumFacts
<1>8. CASE s.state = "ReadyAndDefrosting"
  <2>1. UseAhamTime(s) = c
    BY <1>1, <1>8
  <2> QED BY <1>2, <1>8, <2>1 DEF ReadyInv, StillWaits
<1> QED BY <1>00, <1>5, <1>6, <1>7, <1>8 DEF ReadyStates

LEMMA ReadyStarts ==
    ASSUME ReadyInit
    PROVE  ReadyInv(st)
<1>1. PICK abnormal \in SUBSET DefrostConditions, compressor \in BOOLEAN, waiting \in BOOLEAN, warm \in BOOLEAN,
          run \in 0..MaximumTime, opened \in {0, 1} :
        st = ReadyInitialState(
                IF warm THEN ResetCounts([state |-> "ReadyAndDefrosting", ready |-> FALSE, waiting |-> waiting,
                  timer |-> "none", left |-> 0, elapsed |-> 0, waited |-> 0,
                  onTime |-> run, accelerations |-> opened,
                  between |-> 0, abnormal |-> abnormal, aham |-> FALSE,
                  compressor |-> compressor, open |-> {},
                  ran |-> run, opened |-> opened])
                ELSE [state |-> "ReadyAndDefrosting", ready |-> FALSE, waiting |-> waiting,
                  timer |-> "none", left |-> 0, elapsed |-> 0, waited |-> 0,
                  onTime |-> run, accelerations |-> opened,
                  between |-> 0, abnormal |-> abnormal, aham |-> FALSE,
                  compressor |-> compressor, open |-> {},
                  ran |-> run, opened |-> opened])
  BY DEF ReadyInit
<1> DEFINE s == [state |-> "ReadyAndDefrosting", ready |-> FALSE, waiting |-> waiting,
                  timer |-> "none", left |-> 0, elapsed |-> 0, waited |-> 0,
                  onTime |-> run, accelerations |-> opened,
                  between |-> 0, abnormal |-> abnormal, aham |-> FALSE,
                  compressor |-> compressor, open |-> {},
                  ran |-> run, opened |-> opened]
           c == ResetCounts(s)
           u == IF warm THEN c ELSE s
           v == [u EXCEPT !.state = "ReadyAndDefrosting"]
<1>2. st = ReadyInitialState(u)
  BY <1>1
<1>3. run \in Nat /\ opened \in Nat /\ abnormal \in SUBSET AbnormalConditions /\ {} \in SUBSET DefrostDoors
  BY ReadyToDefrostAssumption
<1>4. s \in Waits /\ s.onTime = s.ran /\ s.accelerations = s.opened /\ s.timer = "none"
  BY <1>3 DEF Waits, ReadyStates, DefrostTimers
<1> HIDE DEF s
<1>5. c \in Waits /\ c.onTime = c.ran /\ c.accelerations = c.opened /\ c.timer = s.timer
  BY <1>4, ResetFacts
<1> HIDE DEF c
<1>6. u \in Waits /\ u.onTime = u.ran /\ u.accelerations = u.opened /\ u.timer = "none"
  BY <1>4, <1>5
<1> HIDE DEF u
<1>7. v \in Waits /\ v.timer = u.timer /\ v.state = "ReadyAndDefrosting"
  BY <1>6 DEF Waits, ReadyStates
<1> HIDE DEF v
<1>8. ReadyInv(v)
  BY <1>6, <1>7 DEF ReadyInv, StillWaits
<1>9. ReadyInv(EnterWaitingForMinimum(u)) /\ ReadyInv(EnterWaitingForRemaining(u))
  BY <1>6, EnterMinimumFacts, EnterRemainingFacts
<1>10. u.onTime \in Nat /\ MinimumTime \in Nat
  BY <1>6, WaitFields, ReadyToDefrostAssumption
<1>11. CASE u.waiting /\ u.onTime < MinimumTime
  BY <1>2, <1>9, <1>10, <1>11 DEF ReadyInitialState
<1>12. CASE u.waiting /\ u.onTime >= MinimumTime
  BY <1>2, <1>9, <1>10, <1>12 DEF ReadyInitialState
<1>13. CASE ~u.waiting
  BY <1>2, <1>8, <1>13 DEF ReadyInitialState, v
<1> QED BY <1>10, <1>11, <1>12, <1>13

LEMMA ReadyStep ==
    ASSUME ReadyInv(st), ReadyNext
    PROVE  ReadyInv(st')
<1>0. st \in Waits
  BY DEF ReadyInv
<1>00. /\ st.compressor \in BOOLEAN /\ st.open \in SUBSET DefrostDoors /\ st.state \in ReadyStates
       /\ st.timer \in DefrostTimers /\ st.elapsed \in Nat /\ st.ran \in Nat /\ st.opened \in Nat
       /\ st.onTime \in Nat /\ st.accelerations \in Nat
  BY <1>0, WaitFields
<1>1. ASSUME NEW s \in Waits, StillWaits(s) <=> StillWaits(st), s.onTime = st.onTime,
             s.accelerations = st.accelerations, s.elapsed = st.elapsed, s.waited = st.waited,
             s.ran = st.ran, s.opened = st.opened,
             NEW on, NEW D, on = st.compressor, D = st.open
      PROVE  StillWaits(s) => Accounts(s, on, D)
  BY <1>1 DEF ReadyInv, Accounts
<1>2. CASE ReadyCompressorChanges
  <2> DEFINE on == ~st.compressor
             s == [st EXCEPT !.compressor = on]
  <2>1. st' = AddElapsedAndRestart(s, st.compressor, st.open)
    BY <1>2 DEF ReadyCompressorChanges
  <2>2. on \in BOOLEAN
    OBVIOUS
  <2> HIDE DEF on
  <2>3. /\ s \in Waits /\ s.onTime = st.onTime /\ s.state = st.state /\ s.ready = st.ready
        /\ s.accelerations = st.accelerations /\ s.elapsed = st.elapsed /\ s.waited = st.waited
        /\ s.ran = st.ran /\ s.opened = st.opened /\ s.timer = st.timer
    BY <1>0, <2>2 DEF Waits
  <2> HIDE DEF s
  <2>4. StillWaits(s) => Accounts(s, st.compressor, st.open)
    BY <1>1, <2>3 DEF StillWaits
  <2>5. s.state = "ReadyAndDefrosting" => s.timer = "none"
    BY <2>3 DEF ReadyInv
  <2> QED BY <1>00, <2>1, <2>3, <2>4, <2>5, AddElapsedAndRestartFacts
<1>3. ASSUME NEW d \in DefrostDoors, ReadyDoorChanges(d)
      PROVE  ReadyInv(st')
  <2> DEFINE D == IF d \in st.open THEN st.open \ {d} ELSE st.open \union {d}
             s == [st EXCEPT !.open = D]
  <2>1. st' = AddElapsedAndRestart(s, st.compressor, st.open)
    BY <1>3 DEF ReadyDoorChanges
  <2>2. D \in SUBSET DefrostDoors
    BY <1>00
  <2> HIDE DEF D
  <2>3. /\ s \in Waits /\ s.onTime = st.onTime /\ s.state = st.state /\ s.ready = st.ready
        /\ s.accelerations = st.accelerations /\ s.elapsed = st.elapsed /\ s.waited = st.waited
        /\ s.ran = st.ran /\ s.opened = st.opened /\ s.timer = st.timer
    BY <1>0, <2>2 DEF Waits
  <2> HIDE DEF s
  <2>4. StillWaits(s) => Accounts(s, st.compressor, st.open)
    BY <1>1, <2>3 DEF StillWaits
  <2>5. s.state = "ReadyAndDefrosting" => s.timer = "none"
    BY <2>3 DEF ReadyInv
  <2> QED BY <1>00, <2>1, <2>3, <2>4, <2>5, AddElapsedAndRestartFacts
<1>4. CASE AhamPrechillChanges
  <2> DEFINE aham == ~st.aham
             s == [st EXCEPT !.aham = aham]
  <2>1. st' = IF s.aham THEN UseAhamTime(s) ELSE s
    BY <1>4 DEF AhamPrechillChanges
  <2>2. aham \in BOOLEAN
    OBVIOUS
  <2> HIDE DEF aham
  <2>3. /\ s \in Waits /\ s.onTime = st.onTime /\ s.state = st.state /\ s.ready = st.ready
        /\ s.accelerations = st.accelerations /\ s.elapsed = st.elapsed /\ s.waited = st.waited
        /\ s.ran = st.ran /\ s.opened = st.opened /\ s.timer = st.timer
        /\ s.compressor = st.compressor /\ s.open = st.open
    BY <1>0, <2>2 DEF Waits
  <2> HIDE DEF s
  <2>4. ReadyInv(s)
    BY <2>3 DEF ReadyInv, StillWaits, Accounts
  <2> QED BY <2>1, <2>4, UseAhamTimeFacts
<1>5. CASE ConditionsChange
  <2>1. PICK c \in DefrostConditions :
            st' = [st EXCEPT !.abnormal = IF c \in st.abnormal THEN st.abnormal \ {c} ELSE st.abnormal \union {c}]
    BY <1>5 DEF ConditionsChange
  <2> DEFINE A == IF c \in st.abnormal THEN st.abnormal \ {c} ELSE st.abnormal \union {c}
             s == [st EXCEPT !.abnormal = A]
  <2>2. A \in SUBSET AbnormalConditions
    BY <1>0, WaitFields, ReadyToDefrostAssumption
  <2>3. st' = s
    BY <2>1
  <2> HIDE DEF A
  <2>4. /\ s \in Waits /\ s.onTime = st.onTime /\ s.state = st.state /\ s.ready = st.ready
        /\ s.accelerations = st.accelerations /\ s.elapsed = st.elapsed /\ s.waited = st.waited
        /\ s.ran = st.ran /\ s.opened = st.opened /\ s.timer = st.timer
        /\ s.compressor = st.compressor /\ s.open = st.open
    BY <1>0, <2>2 DEF Waits
  <2> HIDE DEF s
  <2> QED BY <2>3, <2>4 DEF ReadyInv, StillWaits, Accounts
<1>6. CASE WaitingChanges
  <2> DEFINE w == ~st.waiting
             s == [st EXCEPT !.waiting = w]
             c == ResetCounts(s)
             q == StopReadyTimer(s)
             r == [q EXCEPT !.state = "ReadyAndDefrosting"]
  <2>1. st' = IF s.waiting THEN EnterWaitingForMinimum(c) ELSE r
    BY <1>6 DEF WaitingChanges, EnterReadyAndDefrosting
  <2>2. w \in BOOLEAN
    OBVIOUS
  <2> HIDE DEF w
  <2>3. s \in Waits
    BY <1>0, <2>2 DEF Waits
  <2> HIDE DEF s
  <2>4. c \in Waits /\ c.onTime = c.ran /\ c.accelerations = c.opened
    BY <2>3, ResetFacts
  <2> HIDE DEF c
  <2>5. q \in Waits /\ q.timer = "none"
    BY <2>3 DEF StopReadyTimer, Waits, DefrostTimers
  <2> HIDE DEF q
  <2>6. r \in Waits /\ r.timer = "none" /\ r.state = "ReadyAndDefrosting"
    BY <2>5 DEF Waits, ReadyStates
  <2> HIDE DEF r
  <2>7. ReadyInv(r)
    BY <2>6 DEF ReadyInv, StillWaits
  <2>8. ReadyInv(EnterWaitingForMinimum(c))
    BY <2>4, EnterMinimumFacts
  <2> QED BY <2>1, <2>7, <2>8
<1>7. CASE ReadyTick
  <2> DEFINE F == Factors(st.open)
             elapsed == st.elapsed + 1
             left == IF st.timer = "none" THEN st.left ELSE st.left - 1
             ran == IF st.compressor THEN st.ran + 1 ELSE st.ran
             opened == st.opened + F
             s == [st EXCEPT !.elapsed = elapsed, !.left = left, !.ran = ran, !.opened = opened]
  <2>1. st' = s
    BY <1>7 DEF ReadyTick
  <2>2. F \in Nat
    BY <1>00, DoorFactorsAddUp
  <2> HIDE DEF F
  <2>3. elapsed \in Nat /\ left \in Int /\ ran \in Nat /\ opened \in Nat
    BY <1>0, <1>00, <2>2, WaitFields
  <2>4. elapsed * F = st.elapsed * F + F
    BY <1>00, <2>2
  <2>41. ran = st.ran + (IF st.compressor THEN 1 ELSE 0) /\ elapsed = st.elapsed + 1 /\ opened = st.opened + F
    BY <1>00
  <2> HIDE DEF elapsed, left, ran, opened
  <2>5. /\ s \in Waits /\ s.onTime = st.onTime /\ s.state = st.state /\ s.ready = st.ready
        /\ s.accelerations = st.accelerations /\ s.elapsed = elapsed /\ s.waited = st.waited
        /\ s.ran = ran /\ s.opened = opened /\ s.timer = st.timer
        /\ s.compressor = st.compressor /\ s.open = st.open
    BY <1>0, <2>3 DEF Waits
  <2> HIDE DEF s
  <2>6. ASSUME StillWaits(st)
        PROVE  Accounts(s, s.compressor, s.open)
    <3>1. Accounts(st, st.compressor, st.open)
      BY <2>6 DEF ReadyInv
    <3>2. st.onTime + (IF st.compressor THEN st.elapsed ELSE 0) = st.ran
      BY <3>1 DEF Accounts
    <3>3. s.onTime + (IF s.compressor THEN s.elapsed ELSE 0) = s.ran
      BY <1>00, <2>41, <2>5, <3>2
    <3>4. st.accelerations + st.elapsed * F = st.opened
      BY <3>1 DEF Accounts, F
    <3>5. st.elapsed * F \in Nat
      BY <1>00, <2>2
    <3>6. st.accelerations + elapsed * F = opened
      BY <1>00, <2>2, <2>4, <2>41, <3>4, <3>5
    <3>7. s.accelerations + s.elapsed * Factors(s.open) = s.opened
      BY <2>5, <3>6 DEF F
    <3> QED BY <2>5, <3>1, <3>3, <3>7 DEF Accounts
  <2> QED BY <2>1, <2>5, <2>6 DEF ReadyInv, StillWaits
<1>8. CASE ReadyTimerExpires
  <2> DEFINE s == [st EXCEPT !.timer = "none"]
  <2>1. /\ st.timer # "none"
        /\ st' = CASE st.timer = "update" -> AddElapsedAndRestart(s, s.compressor, s.open)
                   [] st.timer = "minimum" -> MinimumTimeExpired(s)
                   [] st.timer = "remaining" -> RemainingTimeExpired(s)
    BY <1>8 DEF ReadyTimerExpires
  <2>2. /\ s \in Waits /\ s.onTime = st.onTime /\ s.state = st.state /\ s.ready = st.ready
        /\ s.accelerations = st.accelerations /\ s.elapsed = st.elapsed /\ s.waited = st.waited
        /\ s.ran = st.ran /\ s.opened = st.opened /\ s.timer = "none"
        /\ s.compressor = st.compressor /\ s.open = st.open
    BY <1>0 DEF Waits, DefrostTimers
  <2> HIDE DEF s
  <2>3. StillWaits(s) => Accounts(s, s.compressor, s.open)
    BY <2>2 DEF ReadyInv, StillWaits, Accounts
  <2>4. s.state # "ReadyAndDefrosting" /\ s.compressor \in BOOLEAN /\ s.open \in SUBSET DefrostDoors
    BY <1>00, <2>1, <2>2 DEF ReadyInv
  <2>5. ReadyInv(AddElapsedAndRestart(s, s.compressor, s.open))
    BY <2>2, <2>3, <2>4, AddElapsedAndRestartFacts
  <2>6. ReadyInv(MinimumTimeExpired(s)) /\ ReadyInv(RemainingTimeExpired(s))
    BY <2>2, <2>3, <2>4, MinimumTimeExpiredFacts
  <2> QED BY <1>00, <2>1, <2>5, <2>6 DEF DefrostTimers
<1> QED BY <1>2, <1>3, <1>4, <1>5, <1>6, <1>7, <1>8 DEF ReadyNext

ReadySpec == ReadyInit /\ [][ReadyNext]_unitVars

\* Between defrosts no second of the compressor's run time and no second of an
\* open door is lost or counted twice, and while the compressor runs a timer
\* runs: for every number of doors, every weight they have and all times.
THEOREM TimesAreCountedOnce == ReadySpec => []DefrostTimeIsKept
<1> DEFINE Inv == unit = "ready to defrost" /\ ReadyInv(st)
<1>1. ReadyInit => Inv
  BY ReadyStarts DEF ReadyInit
<1>2. Inv /\ [ReadyNext]_unitVars => Inv'
  <2> SUFFICES ASSUME Inv, [ReadyNext]_unitVars PROVE Inv'
    OBVIOUS
  <2>1. CASE ReadyNext
    <3>1. unit' = unit
      BY <2>1 DEF ReadyNext, ReadyCompressorChanges, AhamPrechillChanges, ConditionsChange,
                  WaitingChanges, ReadyTick, ReadyTimerExpires, ReadyDoorChanges, Runs
    <3>2. ReadyInv(st')
      BY <2>1, ReadyStep
    <3> QED BY <3>1, <3>2, ZenonT(120)
  <2>2. CASE UNCHANGED unitVars
    BY <2>2 DEF unitVars
  <2> QED BY <2>1, <2>2
<1>3. Inv => DefrostTimeIsKept
  BY DEF ReadyInv, StillWaits, Accounts, DefrostTimeIsKept, NoTimeIsLostOrCountedTwice, ReadinessIsTimed
<1> QED BY <1>1, <1>2, <1>3, PTL DEF ReadySpec
=============================================================================
