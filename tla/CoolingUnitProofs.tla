------------------------- MODULE CoolingUnitProofs -------------------------
(***************************************************************************)
(* The units of the cooling side, which share no state: each has its       *)
(* invariant and its theorem, for all values of the constants.             *)
(*                                                                         *)
(*   Sabbath         neither a stage nor a vote waits in vain              *)
(*   SealedSystem    compressor, valve and their guards stay in step       *)
(*   FansAndDampers  fans, heaters and dampers follow what they were told  *)
(*   CoolingPolicies the policies hold exactly while their conditions do   *)
(*   Grid            blocks, cooling modes and votes belong together       *)
(*   SetpointsAndSensors  a sensor turns good or bad when it has earned it  *)
(***************************************************************************)
EXTENDS Sabbath, SealedSystem, FansAndDampers, CoolingPolicies, Grid, SetpointsAndSensors,
        SequenceTheorems, TLAPS

(***************************************************************************)
(* Sabbath: neither the stages nor a delayed vote wait for an event that   *)
(* does not come.                                                          *)
(***************************************************************************)
SabbathVotes == Speeds \cup {"DontCare"}

EnhancedSabbath ==
    [mode : {"Disabled", "FreshFood", "Freezer", "Defrosting", "Off"},
     status : BOOLEAN, sabbath : BOOLEAN,
     loads : [SabbathLoads -> SabbathVotes], damper : {"DontCare", "Open", "Closed"},
     lights : {"DontCare", "Sabbath"}, setpoints : [SabbathSetpoints -> {"DontCare", "Sabbath"}],
     gridOverride : BOOLEAN, dispensingDisabled : BOOLEAN,
     coolingMode : {"FreshFood", "Freezer", "Off"}, timed : BOOLEAN,
     running : BOOLEAN, minutes : Nat, requesting : BOOLEAN,
     freshFoodCooling : BOOLEAN, freezerCooling : BOOLEAN,
     defrost : {"Idle", "Heating", "PostDwell", "Disabled"}, waited : Nat, ready : BOOLEAN]

\* What waits for what: the damper is open only to a compressor that is voted
\* on, and a post dwell is shorter than the time between two defrosts.
StageGoesOn(s) ==
    /\ s.mode \in {"FreshFood", "Off"} => s.timed
    /\ s.mode = "Freezer" => s.timed \/ s.requesting
DefrostIsHeard(s) == s.requesting /\ s.status /\ s.defrost = "Idle" => ~s.ready
DamperIsCooled(s) == s.damper = "Open" => s.loads["compressor"] \notin {"DontCare", "Off"}

EnhancedInv(s) ==
    /\ s \in EnhancedSabbath
    /\ StageGoesOn(s) /\ DefrostIsHeard(s) /\ DamperIsCooled(s)
    /\ s.defrost = "PostDwell" => ~s.ready

\* A stage says nothing of the defrost's clock.
SameClock(s, t) ==
    /\ t.status = s.status /\ t.defrost = s.defrost /\ t.ready = s.ready
    /\ t.requesting = s.requesting

LEMMA EnhancedFields ==
    ASSUME NEW s \in EnhancedSabbath
    PROVE  /\ s.mode \in {"Disabled", "FreshFood", "Freezer", "Defrosting", "Off"}
           /\ s.status \in BOOLEAN /\ s.sabbath \in BOOLEAN /\ s.timed \in BOOLEAN
           /\ s.requesting \in BOOLEAN /\ s.ready \in BOOLEAN /\ s.minutes \in Nat
           /\ s.waited \in Nat /\ s.defrost \in {"Idle", "Heating", "PostDwell", "Disabled"}
           /\ s.loads \in [SabbathLoads -> SabbathVotes]
BY DEF EnhancedSabbath

LEMMA LoadVotesFacts ==
    ASSUME NEW s \in EnhancedSabbath, NEW vote \in SabbathVotes,
           NEW position \in {"DontCare", "Open", "Closed"}
    PROVE  LET t == SetDamperPositionVoteTo(SetLoadVotesTo(s, vote), position) IN
           /\ t \in EnhancedSabbath /\ SameClock(s, t)
           /\ t.mode = s.mode /\ t.timed = s.timed
           /\ t.damper = position /\ t.loads["compressor"] = vote
<1> DEFINE f == [load \in SabbathLoads |-> vote]
           u == [s EXCEPT !.loads = f]
           t == [u EXCEPT !.damper = position]
<1>1. f \in [SabbathLoads -> SabbathVotes] /\ f["compressor"] = vote
  BY DEF SabbathLoads
<1> HIDE DEF f
<1>2. /\ u \in EnhancedSabbath /\ SameClock(s, u)
      /\ u.mode = s.mode /\ u.timed = s.timed /\ u.loads = f
  BY <1>1 DEF EnhancedSabbath, SameClock
<1> HIDE DEF u
<1>3. /\ t \in EnhancedSabbath /\ SameClock(u, t)
      /\ t.mode = u.mode /\ t.timed = u.timed /\ t.loads = u.loads /\ t.damper = position
  BY <1>2 DEF EnhancedSabbath, SameClock
<1>4. SetDamperPositionVoteTo(SetLoadVotesTo(s, vote), position) = t
  BY DEF SetDamperPositionVoteTo, SetLoadVotesTo, f, u
<1> HIDE DEF t
<1> QED BY <1>1, <1>2, <1>3, <1>4 DEF SameClock

LEMMA CoolingVotesFacts ==
    ASSUME NEW s \in EnhancedSabbath, NEW level \in Speeds, NEW position \in {"Open", "Closed"}
    PROVE  LET t == VoteToCool(s, level, position) IN
           /\ t \in EnhancedSabbath /\ SameClock(s, t) /\ DamperIsCooled(t)
           /\ t.mode = s.mode /\ t.timed = s.timed
<1>1. CASE level = "Off"
  <2>1. VoteToCool(s, level, position) = SetDamperPositionVoteTo(SetLoadVotesTo(s, "Off"), "Closed")
    BY <1>1 DEF VoteToCool, VoteCompressorFansAndDamperToOff
  <2>2. "Off" \in SabbathVotes
    BY DEF SabbathVotes, Speeds
  <2> QED BY <2>1, <2>2, LoadVotesFacts, SMTT(60) DEF DamperIsCooled
<1>2. CASE level # "Off"
  <2>1. VoteToCool(s, level, position) = SetDamperPositionVoteTo(SetLoadVotesTo(s, level), position)
    BY <1>2 DEF VoteToCool
  <2>2. level \in SabbathVotes /\ level \notin {"DontCare", "Off"}
    BY <1>2 DEF SabbathVotes, Speeds
  <2> QED BY <2>1, <2>2, LoadVotesFacts, SMTT(60) DEF DamperIsCooled
<1> QED BY <1>1, <1>2

LEMMA StageStarts ==
    ASSUME NEW s \in EnhancedSabbath, NEW mode \in {"FreshFood", "Freezer", "Off"}
    PROVE  LET t == SetCoolingModeTo(StartStageTimer(s), mode) IN
           /\ t \in EnhancedSabbath /\ SameClock(s, t) /\ t.timed
           /\ t.damper = s.damper /\ t.loads = s.loads
<1> DEFINE u == [s EXCEPT !.timed = TRUE]
           t == [u EXCEPT !.coolingMode = mode]
<1>1. u \in EnhancedSabbath /\ SameClock(s, u) /\ u.timed /\ u.damper = s.damper /\ u.loads = s.loads
  BY DEF EnhancedSabbath, SameClock
<1> HIDE DEF u
<1>2. t \in EnhancedSabbath /\ SameClock(u, t) /\ t.timed = u.timed /\ t.damper = u.damper /\ t.loads = u.loads
  BY <1>1, ZenonT(120) DEF EnhancedSabbath, SameClock
<1>3. SetCoolingModeTo(StartStageTimer(s), mode) = t
  BY DEF SetCoolingModeTo, StartStageTimer, u
<1> HIDE DEF t
<1> QED BY <1>1, <1>2, <1>3 DEF SameClock

LEMMA FreshFoodStageFacts ==
    ASSUME NEW s \in EnhancedSabbath, NEW level \in Speeds
    PROVE  LET t == EnterFreshFoodStage(s, level) IN
           /\ t \in EnhancedSabbath /\ SameClock(s, t) /\ DamperIsCooled(t)
           /\ t.mode = "FreshFood" /\ t.timed
<1> DEFINE c == SetCoolingModeTo(StartStageTimer(s), "FreshFood")
           v == VoteToCool(c, level, "Open")
           cools == level # "Off"
           t == [v EXCEPT !.mode = "FreshFood", !.freshFoodCooling = cools]
<1>1. c \in EnhancedSabbath /\ SameClock(s, c) /\ c.timed
  BY StageStarts
<1>0. EnterFreshFoodStage(s, level) = t
  BY DEF EnterFreshFoodStage
<1> HIDE DEF c
<1>2. v \in EnhancedSabbath /\ SameClock(c, v) /\ DamperIsCooled(v) /\ v.timed = c.timed
  BY <1>1, CoolingVotesFacts
<1>3. cools \in BOOLEAN
  OBVIOUS
<1> HIDE DEF v, cools
<1>4. /\ t \in EnhancedSabbath /\ SameClock(v, t) /\ t.timed = v.timed /\ t.mode = "FreshFood"
      /\ t.damper = v.damper /\ t.loads = v.loads
  BY <1>2, <1>3, ZenonT(120) DEF EnhancedSabbath, SameClock
<1> HIDE DEF t
<1> QED BY <1>0, <1>1, <1>2, <1>4 DEF SameClock, DamperIsCooled

LEMMA OffStageFacts ==
    ASSUME NEW s \in EnhancedSabbath
    PROVE  LET t == EnterOffStage(s) IN
           /\ t \in EnhancedSabbath /\ SameClock(s, t) /\ DamperIsCooled(t)
           /\ t.mode = "Off" /\ t.timed
<1> DEFINE c == SetCoolingModeTo(StartStageTimer(s), "Off")
           v == VoteToCool(c, "Off", "Closed")
           t == [v EXCEPT !.mode = "Off"]
<1>0. EnterOffStage(s) = t
  BY DEF EnterOffStage, VoteToCool
<1>1. c \in EnhancedSabbath /\ SameClock(s, c) /\ c.timed
  BY StageStarts
<1> HIDE DEF c
<1>2. "Off" \in Speeds /\ "Closed" \in {"Open", "Closed"}
  BY DEF Speeds
<1>3. v \in EnhancedSabbath /\ SameClock(c, v) /\ DamperIsCooled(v) /\ v.timed = c.timed
  BY <1>1, <1>2, CoolingVotesFacts
<1> HIDE DEF v
<1>4. /\ t \in EnhancedSabbath /\ SameClock(v, t) /\ t.timed = v.timed /\ t.mode = "Off"
      /\ t.damper = v.damper /\ t.loads = v.loads
  BY <1>3 DEF EnhancedSabbath, SameClock
<1> HIDE DEF t
<1> QED BY <1>0, <1>1, <1>3, <1>4 DEF SameClock, DamperIsCooled

LEMMA DefrostingStageFacts ==
    ASSUME NEW s \in EnhancedSabbath, DamperIsCooled(s)
    PROVE  LET t == EnterDefrostingStage(s) IN
           /\ t \in EnhancedSabbath /\ DamperIsCooled(t)
           /\ t.mode = "Defrosting" /\ ~t.requesting
           /\ t.status = s.status /\ t.defrost = s.defrost /\ t.ready = s.ready
<1> DEFINE t == [s EXCEPT !.mode = "Defrosting", !.requesting = FALSE]
<1>1. t \in EnhancedSabbath
  BY ZenonT(120) DEF EnhancedSabbath
<1>2. /\ t.damper = s.damper /\ t.loads = s.loads /\ t.mode = "Defrosting" /\ ~t.requesting
      /\ t.status = s.status /\ t.defrost = s.defrost /\ t.ready = s.ready
  BY DEF EnhancedSabbath
<1>3. EnterDefrostingStage(s) = t
  BY DEF EnterDefrostingStage
<1> HIDE DEF t
<1> QED BY <1>1, <1>2, <1>3 DEF DamperIsCooled

\* The defrost takes up what is asked for, or has a reason not to.
LEMMA DefrostHears ==
    ASSUME NEW s \in EnhancedSabbath, StageGoesOn(s), DamperIsCooled(s),
           s.defrost = "PostDwell" => ~s.ready
    PROVE  LET t == DefrostHearsSabbath(s) IN
           /\ EnhancedInv(t)
           /\ t.status = s.status /\ (t.mode = s.mode \/ t.mode = "Defrosting")
           /\ t.ready = s.ready
           /\ t = s \/ t.defrost = "Heating"
<1> DEFINE d == [s EXCEPT !.defrost = "Heating"]
<1>1. /\ d \in EnhancedSabbath /\ StageGoesOn(d) /\ DamperIsCooled(d) /\ d.defrost = "Heating"
      /\ d.mode = s.mode /\ d.status = s.status /\ d.ready = s.ready
  BY DEF EnhancedSabbath, StageGoesOn, DamperIsCooled
<1> HIDE DEF d
<1>2. CASE /\ s.defrost = "Idle" /\ s.ready /\ SabbathModeOn(s)
           /\ s.status => s.requesting
  <2>1. DefrostHearsSabbath(s) = IF s.mode = "Freezer" THEN EnterDefrostingStage(d) ELSE d
    BY <1>2, <1>1 DEF DefrostHearsSabbath, DefrostStarts, d
  <2>2. CASE s.mode = "Freezer"
    BY <1>1, <2>1, <2>2, DefrostingStageFacts DEF EnhancedInv, StageGoesOn, DefrostIsHeard
  <2>3. CASE s.mode # "Freezer"
    BY <1>1, <2>1, <2>3 DEF EnhancedInv, DefrostIsHeard
  <2> QED BY <2>2, <2>3
<1>3. CASE ~(/\ s.defrost = "Idle" /\ s.ready /\ SabbathModeOn(s)
             /\ s.status => s.requesting)
  <2>1. DefrostHearsSabbath(s) = s
    BY <1>3 DEF DefrostHearsSabbath
  <2>2. DefrostIsHeard(s)
    BY <1>3, EnhancedFields DEF DefrostIsHeard, SabbathModeOn
  <2> QED BY <2>1, <2>2 DEF EnhancedInv
<1> QED BY <1>2, <1>3

LEMMA DefrostIsRequested ==
    ASSUME NEW s \in EnhancedSabbath, DamperIsCooled(s), DefrostIsHeard(s),
           s.mode \in {"FreshFood", "Off"} => s.timed,
           s.defrost = "PostDwell" => ~s.ready
    PROVE  EnhancedInv(RequestSabbathDefrost(s))
<1>1. CASE s.requesting
  BY <1>1 DEF RequestSabbathDefrost, EnhancedInv, StageGoesOn
<1>2. CASE ~s.requesting
  <2> DEFINE r == [s EXCEPT !.requesting = TRUE]
  <2>1. r \in EnhancedSabbath /\ StageGoesOn(r) /\ DamperIsCooled(r) /\ (r.defrost = "PostDwell" => ~r.ready)
    BY ZenonT(120) DEF EnhancedSabbath, StageGoesOn, DamperIsCooled
  <2>2. RequestSabbathDefrost(s) = DefrostHearsSabbath(r)
    BY <1>2 DEF RequestSabbathDefrost
  <2> HIDE DEF r
  <2> QED BY <2>1, <2>2, DefrostHears
<1> QED BY <1>1, <1>2

LEMMA FreezerStageFacts ==
    ASSUME NEW s \in EnhancedSabbath, NEW level \in Speeds, DefrostIsHeard(s),
           s.defrost = "PostDwell" => ~s.ready
    PROVE  EnhancedInv(EnterFreezerStage(s, level))
<1> DEFINE c == SetCoolingModeTo(StartStageTimer(s), "Freezer")
           v == VoteToCool(c, level, "Closed")
           cools == level # "Off"
           t == [v EXCEPT !.mode = "Freezer", !.freezerCooling = cools]
<1>0. EnterFreezerStage(s, level) = IF level = "Off" /\ s.ready THEN RequestSabbathDefrost(t) ELSE t
  BY DEF EnterFreezerStage
<1>1. c \in EnhancedSabbath /\ SameClock(s, c) /\ c.timed
  BY StageStarts
<1> HIDE DEF c
<1>2. v \in EnhancedSabbath /\ SameClock(c, v) /\ DamperIsCooled(v) /\ v.timed = c.timed
  BY <1>1, CoolingVotesFacts
<1>3. cools \in BOOLEAN
  OBVIOUS
<1> HIDE DEF v, cools
<1>4. /\ t \in EnhancedSabbath /\ SameClock(v, t) /\ t.timed = v.timed /\ t.mode = "Freezer"
      /\ t.damper = v.damper /\ t.loads = v.loads
  BY <1>2, <1>3, ZenonT(120) DEF EnhancedSabbath, SameClock
<1> HIDE DEF t
<1>5. DamperIsCooled(t) /\ DefrostIsHeard(t) /\ (t.defrost = "PostDwell" => ~t.ready) /\ t.timed
  BY <1>1, <1>2, <1>4 DEF SameClock, DamperIsCooled, DefrostIsHeard
<1>6. EnhancedInv(t)
  BY <1>4, <1>5 DEF EnhancedInv, StageGoesOn
<1>7. EnhancedInv(RequestSabbathDefrost(t))
  BY <1>4, <1>5, DefrostIsRequested
<1> QED BY <1>0, <1>6, <1>7

LEMMA EnabledFacts ==
    ASSUME NEW s \in EnhancedSabbath, DamperIsCooled(s)
    PROVE  LET t == EnterEnabledMode(s) IN
           /\ t \in EnhancedSabbath /\ DamperIsCooled(t) /\ SameClock(s, t) /\ t.mode = s.mode
<1> DEFINE f == [compartment \in SabbathSetpoints |-> "Sabbath"]
           a == [s EXCEPT !.setpoints = f]
           b == [a EXCEPT !.dispensingDisabled = TRUE]
           c == [b EXCEPT !.gridOverride = TRUE]
           d == [c EXCEPT !.lights = "Sabbath"]
           t == [d EXCEPT !.running = TRUE]
<1>0. EnterEnabledMode(s) = t
  BY DEF EnterEnabledMode, SetSetpointVotesTo, SetDispensingDisabledTo, SetGridOverrideTo, SetLightVotesTo
<1>1. f \in [SabbathSetpoints -> {"DontCare", "Sabbath"}]
  OBVIOUS
<1> HIDE DEF f
<1>2. a \in EnhancedSabbath /\ DamperIsCooled(a) /\ SameClock(s, a) /\ a.mode = s.mode
  BY <1>1 DEF EnhancedSabbath, DamperIsCooled, SameClock
<1> HIDE DEF a
<1>3. b \in EnhancedSabbath /\ DamperIsCooled(b) /\ SameClock(a, b) /\ b.mode = a.mode
  BY <1>2, ZenonT(120) DEF EnhancedSabbath, DamperIsCooled, SameClock
<1> HIDE DEF b
<1>4. c \in EnhancedSabbath /\ DamperIsCooled(c) /\ SameClock(b, c) /\ c.mode = b.mode
  BY <1>3, ZenonT(120) DEF EnhancedSabbath, DamperIsCooled, SameClock
<1> HIDE DEF c
<1>5. d \in EnhancedSabbath /\ DamperIsCooled(d) /\ SameClock(c, d) /\ d.mode = c.mode
  BY <1>4 DEF EnhancedSabbath, DamperIsCooled, SameClock
<1> HIDE DEF d
<1>6. t \in EnhancedSabbath /\ DamperIsCooled(t) /\ SameClock(d, t) /\ t.mode = d.mode
  BY <1>5, ZenonT(120) DEF EnhancedSabbath, DamperIsCooled, SameClock
<1> HIDE DEF t
<1> QED BY <1>0, <1>2, <1>3, <1>4, <1>5, <1>6 DEF SameClock

LEMMA DisabledFacts ==
    ASSUME NEW s \in EnhancedSabbath, DefrostIsHeard(s), s.defrost = "PostDwell" => ~s.ready
    PROVE  EnhancedInv(EnterDisabledMode(s))
<1> DEFINE f == [compartment \in SabbathSetpoints |-> "DontCare"]
           v == SetDamperPositionVoteTo(SetLoadVotesTo(s, "DontCare"), "DontCare")
           a == [v EXCEPT !.setpoints = f]
           b == [a EXCEPT !.gridOverride = FALSE]
           c == [b EXCEPT !.dispensingDisabled = FALSE]
           d == [c EXCEPT !.lights = "DontCare"]
           t == [d EXCEPT !.mode = "Disabled", !.minutes = 0]
<1>0. EnterDisabledMode(s) = t
  BY DEF EnterDisabledMode, SetSetpointVotesTo, SetDispensingDisabledTo, SetGridOverrideTo,
         SetLightVotesTo, SetAllLoadVotesToDontCare
<1>1. f \in [SabbathSetpoints -> {"DontCare", "Sabbath"}] /\ "DontCare" \in SabbathVotes
  BY DEF SabbathVotes
<1> HIDE DEF f
<1>2. v \in EnhancedSabbath /\ SameClock(s, v) /\ v.damper = "DontCare"
  BY <1>1, LoadVotesFacts
<1> HIDE DEF v
<1>3. a \in EnhancedSabbath /\ SameClock(v, a) /\ a.damper = v.damper
  BY <1>1, <1>2 DEF EnhancedSabbath, SameClock
<1> HIDE DEF a
<1>4. b \in EnhancedSabbath /\ SameClock(a, b) /\ b.damper = a.damper
  BY <1>3, ZenonT(120) DEF EnhancedSabbath, SameClock
<1> HIDE DEF b
<1>5. c \in EnhancedSabbath /\ SameClock(b, c) /\ c.damper = b.damper
  BY <1>4, ZenonT(120) DEF EnhancedSabbath, SameClock
<1> HIDE DEF c
<1>6. d \in EnhancedSabbath /\ SameClock(c, d) /\ d.damper = c.damper
  BY <1>5 DEF EnhancedSabbath, SameClock
<1> HIDE DEF d
<1>7. t \in EnhancedSabbath /\ SameClock(d, t) /\ t.damper = d.damper /\ t.mode = "Disabled"
  BY <1>6, ZenonT(120) DEF EnhancedSabbath, SameClock
<1> HIDE DEF t
<1> QED BY <1>0, <1>2, <1>3, <1>4, <1>5, <1>6, <1>7
        DEF SameClock, EnhancedInv, DefrostIsHeard, DamperIsCooled, StageGoesOn

LEMMA EnableFacts ==
    ASSUME NEW s, EnhancedInv(s), NEW level \in Speeds
    PROVE  EnhancedInv(EnableEnhancedMode(s, level))
<1> DEFINE e == EnterEnabledMode(s)
<1>0. s \in EnhancedSabbath /\ DamperIsCooled(s) /\ s.defrost \in {"Idle", "Heating", "PostDwell", "Disabled"}
  BY EnhancedFields DEF EnhancedInv
<1>1. e \in EnhancedSabbath /\ DamperIsCooled(e) /\ SameClock(s, e) /\ e.mode = s.mode
  BY <1>0, EnabledFacts
<1>2. CASE s.mode # "Disabled"
  BY <1>2 DEF EnableEnhancedMode
<1>3. CASE s.mode = "Disabled" /\ WaitingForDefrost(s)
  <2>1. EnableEnhancedMode(s, level) = EnterFreshFoodStage(e, level)
    BY <1>3 DEF EnableEnhancedMode
  <2> HIDE DEF e
  <2> QED BY <1>1, <2>1, FreshFoodStageFacts DEF EnhancedInv, SameClock, StageGoesOn, DefrostIsHeard
<1>4. CASE s.mode = "Disabled" /\ ~WaitingForDefrost(s) /\ s.defrost = "Heating"
  <2>1. EnableEnhancedMode(s, level) = EnterDefrostingStage(e)
    BY <1>4 DEF EnableEnhancedMode
  <2> HIDE DEF e
  <2> QED BY <1>1, <1>4, <2>1, DefrostingStageFacts DEF EnhancedInv, SameClock, StageGoesOn, DefrostIsHeard
<1>5. CASE s.mode = "Disabled" /\ ~WaitingForDefrost(s) /\ s.defrost # "Heating"
  BY <1>5 DEF EnableEnhancedMode
<1> QED BY <1>2, <1>3, <1>4, <1>5

LEMMA DisableFacts ==
    ASSUME NEW s, EnhancedInv(s)
    PROVE  EnhancedInv(DisableEnhancedMode(s))
<1> DEFINE a == [s EXCEPT !.sabbath = FALSE]
           b == [a EXCEPT !.running = FALSE, !.timed = FALSE]
<1>1. s \in EnhancedSabbath
  BY DEF EnhancedInv
<1>2. a \in EnhancedSabbath /\ SameClock(s, a)
  BY <1>1, ZenonT(120) DEF EnhancedSabbath, SameClock
<1>3. b \in EnhancedSabbath /\ SameClock(a, b)
  BY <1>2, ZenonT(120) DEF EnhancedSabbath, SameClock
<1>4. DisableEnhancedMode(s) = IF s.mode = "Disabled" THEN s ELSE EnterDisabledMode(b)
  BY DEF DisableEnhancedMode, StopAllTimers
<1> HIDE DEF a, b
<1>5. DefrostIsHeard(b) /\ (b.defrost = "PostDwell" => ~b.ready)
  BY <1>2, <1>3 DEF SameClock, DefrostIsHeard, EnhancedInv
<1> QED BY <1>3, <1>4, <1>5, DisabledFacts

\* The regular mode, the enhanced mode's requests and its run time.
LEMMA EnhancedInitHolds ==
    ASSUME EnhancedSabbathInit
    PROVE  EnhancedInv(st)
<1>1. PICK status \in BOOLEAN, sabbath \in BOOLEAN, defrost \in {"Idle", "Heating", "Disabled"},
           waited \in 0 .. TimeBetweenSabbathDefrosts, level \in Speeds :
        LET s == [mode |-> "Disabled", status |-> status, sabbath |-> sabbath,
                  loads |-> [load \in SabbathLoads |-> "DontCare"],
                  damper |-> "DontCare", lights |-> "DontCare",
                  setpoints |-> [compartment \in SabbathSetpoints |-> "DontCare"],
                  gridOverride |-> FALSE, dispensingDisabled |-> FALSE,
                  coolingMode |-> "Off", timed |-> FALSE,
                  running |-> FALSE, minutes |-> 0, requesting |-> FALSE,
                  freshFoodCooling |-> FALSE, freezerCooling |-> FALSE, defrost |-> defrost, waited |-> waited,
                  ready |-> defrost = "Idle" /\ waited >= TimeBetweenSabbathDefrosts] IN
        st = IF status /\ defrost # "Disabled" THEN EnableEnhancedMode(s, level)
             ELSE EnterDisabledMode(s)
  BY DEF EnhancedSabbathInit
<1> DEFINE f == [load \in SabbathLoads |-> "DontCare"]
           g == [compartment \in SabbathSetpoints |-> "DontCare"]
           ready == defrost = "Idle" /\ waited >= TimeBetweenSabbathDefrosts
           s == [mode |-> "Disabled", status |-> status, sabbath |-> sabbath,
                 loads |-> f, damper |-> "DontCare", lights |-> "DontCare",
                 setpoints |-> g, gridOverride |-> FALSE, dispensingDisabled |-> FALSE,
                 coolingMode |-> "Off", timed |-> FALSE,
                 running |-> FALSE, minutes |-> 0, requesting |-> FALSE,
                 freshFoodCooling |-> FALSE, freezerCooling |-> FALSE, defrost |-> defrost, waited |-> waited,
                 ready |-> ready]
<1>2. f \in [SabbathLoads -> SabbathVotes] /\ g \in [SabbathSetpoints -> {"DontCare", "Sabbath"}]
  BY DEF SabbathVotes
<1>3. ready \in BOOLEAN /\ waited \in Nat /\ (defrost = "PostDwell" => ~ready)
  BY SabbathAssumption
<1>4. st = IF status /\ defrost # "Disabled" THEN EnableEnhancedMode(s, level) ELSE EnterDisabledMode(s)
  BY <1>1
<1> HIDE DEF f, g, ready
<1>5. s \in EnhancedSabbath
  BY <1>2, <1>3 DEF EnhancedSabbath
<1>6. /\ s.mode = "Disabled" /\ ~s.requesting /\ s.damper = "DontCare"
      /\ (s.defrost = "PostDwell" => ~s.ready)
  BY <1>3
<1> HIDE DEF s
<1>7. EnhancedInv(s)
  BY <1>5, <1>6 DEF EnhancedInv, StageGoesOn, DefrostIsHeard, DamperIsCooled
<1>8. EnhancedInv(EnableEnhancedMode(s, level))
  BY <1>7, EnableFacts
<1>9. EnhancedInv(EnterDisabledMode(s))
  BY <1>7, DisabledFacts DEF EnhancedInv
<1> QED BY <1>4, <1>8, <1>9

LEMMA StatusChangeKeeps ==
    ASSUME EnhancedInv(st), NEW level \in Speeds, EnhancedStatusChanges(level)
    PROVE  EnhancedInv(st')
<1> DEFINE off == [st EXCEPT !.status = FALSE]
           on == [st EXCEPT !.status = TRUE]
           heard == DefrostHearsSabbath(on)
<1>1. EnhancedInv(off)
  BY ZenonT(120) DEF EnhancedInv, EnhancedSabbath, StageGoesOn, DefrostIsHeard, DamperIsCooled
<1>2. on \in EnhancedSabbath /\ StageGoesOn(on) /\ DamperIsCooled(on) /\ (on.defrost = "PostDwell" => ~on.ready)
  BY ZenonT(120) DEF EnhancedInv, EnhancedSabbath, StageGoesOn, DamperIsCooled
<1>3. st' = IF st.status THEN DisableEnhancedMode(off) ELSE EnableEnhancedMode(heard, level)
  BY DEF EnhancedStatusChanges
<1> HIDE DEF off, on
<1>4. EnhancedInv(heard)
  BY <1>2, DefrostHears
<1> HIDE DEF heard
<1> QED BY <1>1, <1>3, <1>4, EnableFacts, DisableFacts

LEMMA RegularStatusChangeKeeps ==
    ASSUME EnhancedInv(st), RegularStatusChanges
    PROVE  EnhancedInv(st')
<1> DEFINE off == [st EXCEPT !.sabbath = FALSE]
           on == [st EXCEPT !.sabbath = TRUE]
<1>1. EnhancedInv(off)
  BY ZenonT(120) DEF EnhancedInv, EnhancedSabbath, StageGoesOn, DefrostIsHeard, DamperIsCooled
<1>2. on \in EnhancedSabbath /\ StageGoesOn(on) /\ DamperIsCooled(on) /\ (on.defrost = "PostDwell" => ~on.ready)
  BY ZenonT(120) DEF EnhancedInv, EnhancedSabbath, StageGoesOn, DamperIsCooled
<1>3. st' = IF st.sabbath THEN off ELSE DefrostHearsSabbath(on)
  BY DEF RegularStatusChanges
<1> HIDE DEF off, on
<1>4. EnhancedInv(DefrostHearsSabbath(on))
  BY <1>2, DefrostHears
<1> QED BY <1>1, <1>3, <1>4

LEMMA StageTimerKeeps ==
    ASSUME EnhancedInv(st), NEW level \in Speeds, StageTimerExpires(level)
    PROVE  EnhancedInv(st')
<1> DEFINE s == [st EXCEPT !.timed = FALSE]
<1>1. /\ s \in EnhancedSabbath /\ SameClock(st, s) /\ s.mode = st.mode
      /\ s.damper = st.damper /\ s.loads = st.loads
  BY ZenonT(120) DEF EnhancedInv, EnhancedSabbath, SameClock
<1>2. st' = CASE s.mode = "FreshFood" -> EnterFreezerStage(s, level)
              [] s.mode = "Freezer" /\ s.ready -> RequestSabbathDefrost(s)
              [] s.mode = "Freezer" /\ ~s.ready -> EnterOffStage(s)
              [] s.mode = "Off" -> EnterFreshFoodStage(s, level)
              [] OTHER -> s
  BY DEF StageTimerExpires
<1> HIDE DEF s
<1>3. DefrostIsHeard(s) /\ DamperIsCooled(s) /\ (s.defrost = "PostDwell" => ~s.ready)
  BY <1>1 DEF EnhancedInv, SameClock, DefrostIsHeard, DamperIsCooled
<1>4. CASE s.mode = "FreshFood"
  BY <1>1, <1>2, <1>3, <1>4, FreezerStageFacts
<1>5. CASE s.mode = "Freezer" /\ s.ready
  BY <1>1, <1>2, <1>3, <1>5, DefrostIsRequested
<1>6. CASE s.mode = "Freezer" /\ ~s.ready
  <2>1. st' = EnterOffStage(s)
    BY <1>2, <1>6
  <2> QED BY <1>1, <1>3, <2>1, OffStageFacts DEF SameClock, EnhancedInv, StageGoesOn, DefrostIsHeard
<1>7. CASE s.mode = "Off"
  <2>1. st' = EnterFreshFoodStage(s, level)
    BY <1>2, <1>7
  <2> QED BY <1>1, <1>3, <2>1, FreshFoodStageFacts DEF SameClock, EnhancedInv, StageGoesOn, DefrostIsHeard
<1>8. CASE s.mode \notin {"FreshFood", "Freezer", "Off"}
  <2>1. st' = s
    BY <1>2, <1>8
  <2> QED BY <1>1, <1>3, <1>8, <2>1 DEF EnhancedInv, StageGoesOn
<1> QED BY <1>4, <1>5, <1>6, <1>7, <1>8, EnhancedFields, <1>1

LEMMA RunTimeMinuteKeeps ==
    ASSUME EnhancedInv(st), RunTimeMinute
    PROVE  EnhancedInv(st')
<1> DEFINE n == st.minutes + 1
           s == [st EXCEPT !.minutes = n]
<1>1. n \in Nat
  BY EnhancedFields DEF EnhancedInv
<1>2. st' = IF s.minutes >= MaxEnhancedSabbathTime THEN DisableEnhancedMode(s) ELSE s
  BY DEF RunTimeMinute
<1> HIDE DEF n
<1>3. EnhancedInv(s)
  BY <1>1 DEF EnhancedInv, EnhancedSabbath, StageGoesOn, DefrostIsHeard, DamperIsCooled
<1> HIDE DEF s
<1> QED BY <1>2, <1>3, DisableFacts

LEMMA ClockMinuteKeeps ==
    ASSUME EnhancedInv(st), SabbathClockMinute
    PROVE  EnhancedInv(st')
<1> DEFINE n == st.waited + 1
           ready == st.ready \/ n >= TimeBetweenSabbathDefrosts
           s == [st EXCEPT !.waited = n, !.ready = ready]
           d == DefrostHearsSabbath(s)
<1>0. /\ st.waited \in Nat /\ TimeBetweenSabbathDefrosts \in Nat
      /\ st.defrost = "PostDwell" => ~st.ready /\ st.waited + 1 < TimeBetweenSabbathDefrosts
  <2>1. st.defrost = "PostDwell" => st.waited + 1 < TimeBetweenSabbathDefrosts
    BY DEF SabbathClockMinute
  <2> QED BY <2>1, EnhancedFields, SabbathAssumption DEF EnhancedInv
<1>1. n \in Nat /\ ready \in BOOLEAN /\ (st.defrost = "PostDwell" => ~ready)
  BY <1>0
<1>2. st' = IF s.ready = st.ready THEN s
            ELSE IF d.mode = "Freezer" /\ ~d.freezerCooling THEN RequestSabbathDefrost(d) ELSE d
  BY DEF SabbathClockMinute
<1> HIDE DEF n, ready
<1>3. /\ s \in EnhancedSabbath /\ StageGoesOn(s) /\ DamperIsCooled(s) /\ (s.defrost = "PostDwell" => ~s.ready)
      /\ s.ready = ready /\ s.requesting = st.requesting /\ s.status = st.status /\ s.defrost = st.defrost
  BY <1>1, ZenonT(120) DEF EnhancedInv, EnhancedSabbath, StageGoesOn, DamperIsCooled
<1> HIDE DEF s
<1>4. EnhancedInv(d)
  BY <1>3, DefrostHears
<1> HIDE DEF d
<1>5. EnhancedInv(RequestSabbathDefrost(d))
  BY <1>4, DefrostIsRequested DEF EnhancedInv, StageGoesOn
<1>6. s.ready = st.ready => EnhancedInv(s)
  BY <1>3 DEF EnhancedInv, DefrostIsHeard
<1> QED BY <1>2, <1>4, <1>5, <1>6

LEMMA DefrostWaitsAgainKeeps ==
    ASSUME EnhancedInv(st), NEW level \in Speeds, DefrostWaitsAgain(level)
    PROVE  EnhancedInv(st')
<1> DEFINE rest == IF st.defrost = "Heating" THEN "PostDwell" ELSE "Idle"
           r == [st EXCEPT !.defrost = rest]
           s == [r EXCEPT !.waited = 0, !.ready = FALSE]
<1>1. rest \in {"Idle", "Heating", "PostDwell", "Disabled"}
  OBVIOUS
<1>2. st' = IF s.mode = "Defrosting" THEN EnterFreshFoodStage(s, level) ELSE s
  BY DEF DefrostWaitsAgain, SabbathClockStarts
<1> HIDE DEF rest
<1>3. r \in EnhancedSabbath /\ StageGoesOn(r) /\ DamperIsCooled(r)
  BY <1>1 DEF EnhancedInv, EnhancedSabbath, StageGoesOn, DamperIsCooled
<1> HIDE DEF r
<1>4. s \in EnhancedSabbath /\ StageGoesOn(s) /\ DamperIsCooled(s) /\ ~s.ready
  BY <1>3, ZenonT(120) DEF EnhancedSabbath, StageGoesOn, DamperIsCooled
<1> HIDE DEF s
<1>5. EnhancedInv(s)
  BY <1>4 DEF EnhancedInv, DefrostIsHeard
<1>6. EnhancedInv(EnterFreshFoodStage(s, level))
  BY <1>4, FreshFoodStageFacts DEF SameClock, EnhancedInv, StageGoesOn, DefrostIsHeard
<1> QED BY <1>2, <1>5, <1>6

\* The defrost starts, ends and is disabled by itself.
LEMMA DefrostChangesKeep ==
    ASSUME EnhancedInv(st),
           OrdinaryDefrostStarts \/ PostDwellEnds \/ CoolingOffDisablesTheDefrost
    PROVE  EnhancedInv(st')
<1>1. CASE OrdinaryDefrostStarts
  <2> DEFINE d == [st EXCEPT !.defrost = "Heating"]
  <2>1. d \in EnhancedSabbath /\ StageGoesOn(d) /\ DamperIsCooled(d) /\ d.defrost = "Heating"
    BY DEF EnhancedInv, EnhancedSabbath, StageGoesOn, DamperIsCooled
  <2>2. st' = IF st.mode = "Freezer" THEN EnterDefrostingStage(d) ELSE d
    BY <1>1 DEF OrdinaryDefrostStarts, DefrostStarts
  <2> HIDE DEF d
  <2>3. EnhancedInv(d)
    BY <2>1 DEF EnhancedInv, DefrostIsHeard
  <2>4. EnhancedInv(EnterDefrostingStage(d))
    BY <2>1, DefrostingStageFacts DEF EnhancedInv, StageGoesOn, DefrostIsHeard
  <2> QED BY <2>2, <2>3, <2>4
<1>2. CASE PostDwellEnds
  <2> DEFINE d == [st EXCEPT !.defrost = "Idle"]
  <2>1. d \in EnhancedSabbath /\ StageGoesOn(d) /\ DamperIsCooled(d) /\ ~d.ready
    BY <1>2, ZenonT(120) DEF EnhancedInv, EnhancedSabbath, StageGoesOn, DamperIsCooled, PostDwellEnds
  <2>2. st' = d
    BY <1>2 DEF PostDwellEnds
  <2> HIDE DEF d
  <2> QED BY <2>1, <2>2 DEF EnhancedInv, DefrostIsHeard
<1>3. CASE CoolingOffDisablesTheDefrost
  <2> DEFINE d == [st EXCEPT !.defrost = "Disabled"]
  <2>1. d \in EnhancedSabbath /\ StageGoesOn(d) /\ DamperIsCooled(d) /\ d.defrost = "Disabled"
    BY DEF EnhancedInv, EnhancedSabbath, StageGoesOn, DamperIsCooled
  <2>2. st' = d
    BY <1>3 DEF CoolingOffDisablesTheDefrost
  <2> HIDE DEF d
  <2> QED BY <2>1, <2>2 DEF EnhancedInv, DefrostIsHeard
<1> QED BY <1>1, <1>2, <1>3

\* The delay of the loads.
SabbathDelay == [compressor : BOOLEAN, load : BOOLEAN, delayed : BOOLEAN, active : BOOLEAN, timer : BOOLEAN]
DelayInv(s) == s \in SabbathDelay /\ (~s.timer => s.delayed = s.load)

\* What holds of the three units of the sabbath modes.
SabbathInv ==
    /\ unit = "enhanced sabbath" => EnhancedInv(st)
    /\ unit = "sabbath delay" => DelayInv(st)

\* Each step of a sabbath unit keeps the invariant of its unit.
LEMMA SabbathInvStep ==
    ASSUME SabbathInv, [SabbathNext]_unitVars
    PROVE  SabbathInv'
<1>1. CASE UNCHANGED unitVars
  BY <1>1 DEF unitVars, SabbathInv
<1>2. CASE EnhancedSabbathNext
  <2>1. unit = "enhanced sabbath" /\ unit' = unit
    BY <1>2 DEF EnhancedSabbathNext, RegularStatusChanges, RunTimeMinute, SabbathClockMinute, OrdinaryDefrostStarts,
       PostDwellEnds, CoolingOffDisablesTheDefrost, EnhancedStatusChanges, StageTimerExpires, DefrostWaitsAgain, Runs
  <2>2. EnhancedInv(st')
    BY <1>2, <2>1, StatusChangeKeeps, RegularStatusChangeKeeps, StageTimerKeeps, RunTimeMinuteKeeps,
       ClockMinuteKeeps, DefrostWaitsAgainKeeps, DefrostChangesKeep DEF EnhancedSabbathNext, SabbathInv
  <2> QED BY <2>1, <2>2 DEF SabbathInv
<1>3. CASE SabbathDelayNext
  <2>1. unit = "sabbath delay" /\ unit' = unit
    BY <1>3 DEF SabbathDelayNext, SabbathDelayModeChanges, CompressorVoteChanges, LoadVoteChanges, SabbathDelayEnds, Runs
  <2>2. DelayInv(st)
    BY <2>1 DEF SabbathInv
  <2>3. DelayInv(st')
    BY <1>3, <2>2, ZenonT(120) DEF DelayInv, SabbathDelay, SabbathDelayNext, SabbathDelayModeChanges, CompressorVoteChanges,
       LoadVoteChanges, SabbathDelayEnds
  <2> QED BY <2>1, <2>3 DEF SabbathInv
<1>4. CASE SabbathDoorsNext
  BY <1>4 DEF SabbathDoorsNext, SabbathDoorsModeChanges, ClearOverrideRequests, Runs, SabbathInv
<1> QED BY <1>1, <1>2, <1>3, <1>4 DEF SabbathNext

\* The sabbath units by themselves.
SabbathSpec == SabbathInit /\ [][SabbathNext]_unitVars

\* EnhancedSabbathMode.c, SabbathReadyToDefrost.c and SabbathDelayHandler.c: a
\* stage always has the timer or the request that ends it, a request that is
\* written once is heard by an idle defrost, and no vote is lost in a delay; for
\* every time between defrosts and every length of the mode.
THEOREM SabbathModesGoOn == SabbathSpec => []SabbathGoesOn
<1>1. SabbathInit => SabbathInv
  <2>1. CASE EnhancedSabbathInit
    BY <2>1, EnhancedInitHolds DEF EnhancedSabbathInit, SabbathInv
  <2>2. CASE SabbathDelayInit
    <3>1. PICK compressor \in BOOLEAN, load \in BOOLEAN, active \in BOOLEAN :
             st = [compressor |-> compressor, load |-> load, delayed |-> load,
                   active |-> active, timer |-> FALSE]
      BY <2>2 DEF SabbathDelayInit
    <3>2. st \in SabbathDelay
      BY <3>1 DEF SabbathDelay
    <3>3. st.delayed = load /\ st.load = load
      BY <3>1
    <3> QED BY <2>2, <3>2, <3>3 DEF SabbathDelayInit, SabbathInv, DelayInv
  <2>3. CASE SabbathDoorsInit
    BY <2>3 DEF SabbathDoorsInit, SabbathInv
  <2> QED BY <2>1, <2>2, <2>3 DEF SabbathInit
<1>2. SabbathInv /\ [SabbathNext]_unitVars => SabbathInv'
  BY SabbathInvStep
<1>3. SabbathInv => SabbathGoesOn
  BY DEF SabbathInv, SabbathGoesOn, EnhancedSabbathNeverStalls, NoLoadVoteIsLostInTheDelay,
     EnhancedInv, StageGoesOn, DefrostIsHeard, DamperIsCooled, DelayInv
<1> QED BY <1>1, <1>2, <1>3, PTL DEF SabbathSpec

-----------------------------------------------------------------------------
(***************************************************************************)
(* SealedSystem: the votes that start, hold and delay the compressor and   *)
(* the timers behind them, the drive's faults, and the position that the   *)
(* valve's votes, its sweep and its motor agree on.                        *)
(***************************************************************************)

Votes == CompressorSpeeds \cup {NoSpeed, "Startup"}

Compressors ==
    [factory : Votes, startup : {NoSpeed, "Startup"}, system : Votes, minimum : Votes, delay : Votes, grid : Votes,
     startPrevious : Votes, minPrevious : Votes,
     startTimer : BOOLEAN, minTimer : BOOLEAN, delayTimer : BOOLEAN,
     hearsValve : BOOLEAN, fanVotes : BOOLEAN, single : BOOLEAN,
     sabbath : BOOLEAN, delayPrevious : Votes, sabbathTimer : BOOLEAN, delayed : Votes, isOn : BOOLEAN]

\* The resolved vote as one of its votes.
Outcome(f, u, y, m, d, g) ==
    IF f # NoSpeed THEN f ELSE IF u # NoSpeed THEN u ELSE IF y # NoSpeed THEN y
    ELSE IF m # NoSpeed THEN m ELSE IF d # NoSpeed THEN d ELSE IF g # NoSpeed THEN g ELSE "Off"

LEMMA ResolvedIsOutcome ==
    ASSUME NEW s
    PROVE  ResolvedSpeed(s) = Outcome(s.factory, s.startup, s.system, s.minimum, s.delay, s.grid)
<1> DEFINE f == s.factory u == s.startup y == s.system m == s.minimum d == s.delay g == s.grid
<1>1. CASE f # NoSpeed
  BY <1>1 DEF ResolvedSpeed, Outcome
<1>2. CASE f = NoSpeed /\ u # NoSpeed
  BY <1>2 DEF ResolvedSpeed, Outcome
<1>3. CASE f = NoSpeed /\ u = NoSpeed /\ y # NoSpeed
  BY <1>3 DEF ResolvedSpeed, Outcome
<1>4. CASE f = NoSpeed /\ u = NoSpeed /\ y = NoSpeed /\ m # NoSpeed
  BY <1>4 DEF ResolvedSpeed, Outcome
<1>5. CASE f = NoSpeed /\ u = NoSpeed /\ y = NoSpeed /\ m = NoSpeed /\ d # NoSpeed
  BY <1>5 DEF ResolvedSpeed, Outcome
<1>6. CASE f = NoSpeed /\ u = NoSpeed /\ y = NoSpeed /\ m = NoSpeed /\ d = NoSpeed /\ g # NoSpeed
  BY <1>6 DEF ResolvedSpeed, Outcome
<1>7. CASE f = NoSpeed /\ u = NoSpeed /\ y = NoSpeed /\ m = NoSpeed /\ d = NoSpeed /\ g = NoSpeed
  BY <1>7 DEF ResolvedSpeed, Outcome
<1> QED BY <1>1, <1>2, <1>3, <1>4, <1>5, <1>6, <1>7

LEMMA OutcomeIsVote ==
    ASSUME NEW f \in Votes, NEW u \in Votes, NEW y \in Votes, NEW m \in Votes, NEW d \in Votes, NEW g \in Votes
    PROVE  Outcome(f, u, y, m, d, g) \in Votes \ {NoSpeed}
BY DEF Outcome, Votes, CompressorSpeeds, NoSpeed

LEMMA OutcomeOfStartup ==
    ASSUME NEW f \in Votes, NEW u \in Votes, NEW y \in Votes, NEW m \in Votes, NEW d \in Votes, NEW g \in Votes,
           NEW o, o = Outcome(f, u, y, m, d, g)
    PROVE  Outcome(f, "Startup", y, m, d, g) \in {o, "Startup"}
BY DEF Outcome, Votes, CompressorSpeeds, NoSpeed

\* What the sabbath delay holds back is a start: while it runs the compressor
\* is off, and otherwise it is on the side that the handler has heard of.
Held(s) ==
    /\ s.sabbathTimer => s.delayed = "Off"
    /\ ~s.sabbathTimer => (s.delayed = "Off" <=> s.delayPrevious = "Off")
    /\ s.isOn <=> s.delayed # "Off"

\* All handlers have heard of the same side.
Sides(s) ==
    /\ s.startPrevious = "Off" <=> s.minPrevious = "Off"
    /\ s.delayPrevious = "Off" <=> s.minPrevious = "Off"
    /\ Held(s)

\* The votes and timers that publish: all but the resolved vote's consequences.
Publishable(s) ==
    /\ s \in Compressors /\ Sides(s)
    /\ s.minimum # NoSpeed <=> s.minTimer
    /\ s.minTimer => (s.minimum = "Off" <=> s.minPrevious = "Off")
    /\ s.startup # NoSpeed => s.startTimer
    /\ s.delay # NoSpeed <=> s.delayTimer

Current(s) ==
    /\ Publishable(s)
    /\ s.minPrevious = "Off" <=> ResolvedSpeed(s) = "Off"
    /\ ~s.sabbathTimer => s.delayed = ResolvedSpeed(s)

CompressorInv(s) == Current(s) /\ (s.fanVotes <=> s.startTimer)

\* What the publication of a speed leaves of the fields it does not write.
SameVotes(s, t) ==
    /\ t.factory = s.factory /\ t.system = s.system
    /\ t.startup = s.startup /\ t.delay = s.delay /\ t.grid = s.grid /\ t.startTimer = s.startTimer
    /\ t.delayTimer = s.delayTimer /\ t.fanVotes = s.fanVotes

LEMMA CompressorFields ==
    ASSUME NEW s \in Compressors
    PROVE  /\ s.factory \in Votes /\ s.startup \in {NoSpeed, "Startup"} /\ s.startup \in Votes
           /\ s.system \in Votes /\ s.minimum \in Votes /\ s.delay \in Votes /\ s.grid \in Votes /\ s.startPrevious \in Votes /\ s.minPrevious \in Votes
           /\ s.startTimer \in BOOLEAN /\ s.minTimer \in BOOLEAN /\ s.delayTimer \in BOOLEAN
           /\ s.fanVotes \in BOOLEAN /\ s.single \in BOOLEAN /\ s.isOn \in BOOLEAN
           /\ s.sabbath \in BOOLEAN /\ s.sabbathTimer \in BOOLEAN
           /\ s.delayPrevious \in Votes /\ s.delayed \in Votes
BY DEF Compressors, Votes

\* The outcome is a speed.
LEMMA ResolvedSpeedIsSpeed ==
    ASSUME NEW s \in Compressors
    PROVE  ResolvedSpeed(s) \in Votes \ {NoSpeed}
<1>1. /\ s.factory \in Votes /\ s.startup \in Votes /\ s.system \in Votes
      /\ s.minimum \in Votes /\ s.delay \in Votes /\ s.grid \in Votes
  BY CompressorFields
<1> QED BY <1>1, ResolvedIsOutcome, OutcomeIsVote

\* What the sabbath delay holds and passes on.
LEMMA SabbathDelayFacts ==
    ASSUME NEW s \in Compressors, NEW speed \in Votes \ {NoSpeed}, Held(s),
           ResolvedSpeed(s) = "Off" <=> speed = "Off"
    PROVE  LET t == SabbathDelayHears(s, speed) IN
           /\ t \in Compressors /\ SameVotes(s, t) /\ Held(t)
           /\ t.startPrevious = s.startPrevious /\ t.minPrevious = s.minPrevious
           /\ t.minimum = s.minimum /\ t.minTimer = s.minTimer /\ t.delayPrevious = speed
           /\ ResolvedSpeed(t) = ResolvedSpeed(s)
           /\ ~t.sabbathTimer => t.delayed = ResolvedSpeed(t)
           /\ s.sabbathTimer => t.sabbathTimer
           /\ t.sabbathTimer => s.sabbathTimer \/ (s.delayPrevious = "Off" /\ speed # "Off")
<1> DEFINE delays == s.delayPrevious = "Off" /\ speed # "Off" /\ s.sabbath
           timer == s.sabbathTimer \/ delays
           d == [s EXCEPT !.sabbathTimer = timer, !.delayPrevious = speed]
           resolved == ResolvedSpeed(d)
           e == [d EXCEPT !.delayed = resolved]
           on == e.delayed # "Off"
           p == [e EXCEPT !.isOn = on]
<1>1. SabbathDelayHears(s, speed) = IF d.sabbathTimer THEN d ELSE p
  BY DEF SabbathDelayHears, PassThroughLoadVote, DriveCompressor
<1>2. /\ timer \in BOOLEAN /\ (s.sabbathTimer => timer)
      /\ timer => s.sabbathTimer \/ (s.delayPrevious = "Off" /\ speed # "Off")
  BY CompressorFields
<1> HIDE DEF timer, delays
<1>3. /\ d \in Compressors /\ SameVotes(s, d)
      /\ d.startPrevious = s.startPrevious /\ d.minPrevious = s.minPrevious
      /\ d.minimum = s.minimum /\ d.minTimer = s.minTimer /\ d.delayPrevious = speed
      /\ d.sabbathTimer = timer /\ d.delayed = s.delayed /\ d.isOn = s.isOn
  BY <1>2, ZenonT(120) DEF Compressors, SameVotes
<1> HIDE DEF d
<1>4. ResolvedSpeed(d) = ResolvedSpeed(s) /\ resolved \in Votes \ {NoSpeed}
  BY <1>3, ResolvedIsOutcome, ResolvedSpeedIsSpeed DEF SameVotes
<1>5. CASE timer
  <2>1. Held(d)
    BY <1>2, <1>3, <1>5, CompressorFields DEF Held
  <2> QED BY <1>1, <1>2, <1>3, <1>4, <1>5, <2>1
<1>6. CASE ~timer
  <2>0. resolved = ResolvedSpeed(s)
    BY <1>4
  <2> HIDE DEF resolved
  <2>1. /\ e \in Compressors /\ SameVotes(d, e) /\ e.delayed = resolved
        /\ e.startPrevious = d.startPrevious /\ e.minPrevious = d.minPrevious
        /\ e.minimum = d.minimum /\ e.minTimer = d.minTimer /\ e.delayPrevious = speed
        /\ e.sabbathTimer = timer
    BY <1>3, <1>4, ZenonT(120) DEF Compressors, SameVotes
  <2> HIDE DEF e
  <2>2. on \in BOOLEAN /\ (on <=> resolved # "Off")
    BY <2>1
  <2> HIDE DEF on
  <2>3. /\ p \in Compressors /\ SameVotes(e, p) /\ p.isOn = on
        /\ p.startPrevious = e.startPrevious /\ p.minPrevious = e.minPrevious
        /\ p.minimum = e.minimum /\ p.minTimer = e.minTimer /\ p.delayPrevious = speed
        /\ p.sabbathTimer = timer /\ p.delayed = resolved
    BY <2>1, <2>2, ZenonT(120) DEF Compressors, SameVotes
  <2> HIDE DEF p
  <2>4. SameVotes(s, p)
    BY <1>3, <2>1, <2>3 DEF SameVotes
  <2>5. ResolvedSpeed(p) = ResolvedSpeed(s)
    BY <1>3, <2>1, <2>3, <2>4, ResolvedIsOutcome DEF SameVotes
  <2>6. Held(p)
    BY <1>6, <2>0, <2>2, <2>3 DEF Held
  <2>7. SabbathDelayHears(s, speed) = p
    BY <1>1, <1>3, <1>6
  <2> QED BY <1>2, <1>3, <1>6, <2>0, <2>1, <2>3, <2>4, <2>5, <2>6, <2>7
<1> QED BY <1>5, <1>6

\* The rest of the subscribers hear a speed.
LEMMA SubscribersHear ==
    ASSUME NEW s \in Compressors, NEW speed \in Votes \ {NoSpeed}, Held(s),
           \/ speed = ResolvedSpeed(s)
           \/ /\ ResolvedSpeed(s) = "Off" <=> speed = "Off"
              /\ s.minPrevious = "Off" <=> speed = "Off",
           s.minimum # NoSpeed <=> s.minTimer,
           s.minTimer /\ ((s.minPrevious = "Off") <=> (speed = "Off")) => (s.minimum = "Off" <=> speed = "Off")
    PROVE  LET t == OthersHear(s, speed) IN
           /\ t \in Compressors /\ SameVotes(s, t) /\ Held(t)
           /\ t.startPrevious = speed /\ t.minPrevious = speed /\ t.delayPrevious = speed
           /\ ResolvedSpeed(t) = ResolvedSpeed(s)
           /\ t.minimum # NoSpeed <=> t.minTimer
           /\ t.minTimer => (t.minimum = "Off" <=> speed = "Off")
           /\ ~t.sabbathTimer => t.delayed = ResolvedSpeed(t)
           /\ s.sabbathTimer => t.sabbathTimer
           /\ t.sabbathTimer => s.sabbathTimer \/ (s.delayPrevious = "Off" /\ speed # "Off")
<1> DEFINE a == [s EXCEPT !.startPrevious = speed]
           switches == (a.minPrevious = "Off") # (speed = "Off")
           min == IF switches THEN speed ELSE a.minimum
           timer == a.minTimer \/ switches
           b == [a EXCEPT !.minimum = min, !.minTimer = timer, !.minPrevious = speed]
           t == SabbathDelayHears(b, speed)
<1>1. speed \in Votes \ {NoSpeed}
  OBVIOUS
<1>2. /\ a \in Compressors /\ SameVotes(s, a) /\ a.startPrevious = speed
      /\ a.minimum = s.minimum /\ a.minTimer = s.minTimer /\ a.minPrevious = s.minPrevious
      /\ a.delayPrevious = s.delayPrevious /\ a.sabbathTimer = s.sabbathTimer
      /\ a.delayed = s.delayed /\ a.isOn = s.isOn
  BY <1>1, ZenonT(120) DEF Compressors, SameVotes
<1>3. OthersHear(s, speed) = t
  BY DEF OthersHear, MinimumOnOffTimeHears
<1> HIDE DEF a
<1>4. switches \in BOOLEAN /\ (switches <=> ~((s.minPrevious = "Off") <=> (speed = "Off")))
  BY <1>2
<1> HIDE DEF switches
<1>5. min \in Votes /\ timer \in BOOLEAN /\ (min # NoSpeed <=> timer) /\ (timer => (min = "Off" <=> speed = "Off"))
  BY <1>1, <1>2, <1>4, CompressorFields
<1>51. min = IF switches THEN speed ELSE s.minimum
  BY <1>2
<1> HIDE DEF min, timer
<1>6. /\ b \in Compressors /\ SameVotes(a, b) /\ b.startPrevious = a.startPrevious
      /\ b.minimum = min /\ b.minTimer = timer /\ b.minPrevious = speed
      /\ b.delayPrevious = a.delayPrevious /\ b.sabbathTimer = a.sabbathTimer
      /\ b.delayed = a.delayed /\ b.isOn = a.isOn
  BY <1>1, <1>2, <1>5, ZenonT(120) DEF Compressors, SameVotes
<1> HIDE DEF b
<1>7. Held(b)
  BY <1>2, <1>6 DEF Held
<1>8. ResolvedSpeed(b) = ResolvedSpeed(s)
  <2>0. /\ s.factory \in Votes /\ s.startup \in Votes /\ s.system \in Votes
        /\ s.minimum \in Votes /\ s.delay \in Votes /\ s.grid \in Votes
    BY CompressorFields
  <2>1. ResolvedSpeed(s) = Outcome(s.factory, s.startup, s.system, s.minimum, s.delay, s.grid)
    BY ResolvedIsOutcome
  <2>2. ResolvedSpeed(b) = Outcome(s.factory, s.startup, s.system, min, s.delay, s.grid)
    BY <1>2, <1>6, ResolvedIsOutcome DEF SameVotes
  <2>3. CASE speed = ResolvedSpeed(s) /\ min = speed
    <3>1. speed = Outcome(s.factory, s.startup, s.system, s.minimum, s.delay, s.grid)
      BY <2>1, <2>3
    <3>2. Outcome(s.factory, s.startup, s.system, speed, s.delay, s.grid) = speed
      BY <3>1 DEF Outcome
    <3> QED BY <2>2, <2>3, <3>2
  <2>4. CASE min = s.minimum
    BY <2>1, <2>2, <2>4
  <2> QED BY <1>4, <1>51, <2>3, <2>4
<1>9. ResolvedSpeed(b) = "Off" <=> speed = "Off"
  BY <1>8
<1>10. /\ t \in Compressors /\ SameVotes(b, t) /\ Held(t)
       /\ t.startPrevious = b.startPrevious /\ t.minPrevious = b.minPrevious
       /\ t.minimum = b.minimum /\ t.minTimer = b.minTimer /\ t.delayPrevious = speed
       /\ ResolvedSpeed(t) = ResolvedSpeed(b)
       /\ ~t.sabbathTimer => t.delayed = ResolvedSpeed(t)
       /\ b.sabbathTimer => t.sabbathTimer
       /\ t.sabbathTimer => b.sabbathTimer \/ (b.delayPrevious = "Off" /\ speed # "Off")
  BY <1>1, <1>6, <1>7, <1>9, SabbathDelayFacts
<1> HIDE DEF t
<1>12. SameVotes(s, t)
  BY <1>2, <1>6, <1>10 DEF SameVotes
<1>13. t.startPrevious = speed /\ t.minPrevious = speed
  BY <1>2, <1>6, <1>10
<1>14. (t.minimum # NoSpeed <=> t.minTimer) /\ (t.minTimer => (t.minimum = "Off" <=> speed = "Off"))
  BY <1>5, <1>6, <1>10
<1>15. /\ s.sabbathTimer => t.sabbathTimer
       /\ t.sabbathTimer => s.sabbathTimer \/ (s.delayPrevious = "Off" /\ speed # "Off")
  BY <1>2, <1>6, <1>10
<1> QED BY <1>3, <1>8, <1>10, <1>12, <1>13, <1>14, <1>15

\* The startup's vote and its timer.
LEMMA StartupVotesFacts ==
    ASSUME NEW s \in Compressors
    PROVE  LET v == StartupVotes(s) IN
           /\ v \in Compressors /\ v.startTimer /\ v.fanVotes
           /\ v.startup = IF s.single THEN s.startup ELSE "Startup"
           /\ v.factory = s.factory /\ v.system = s.system /\ v.minimum = s.minimum /\ v.delay = s.delay
           /\ v.grid = s.grid /\ v.startPrevious = s.startPrevious /\ v.minPrevious = s.minPrevious
           /\ v.minTimer = s.minTimer /\ v.delayTimer = s.delayTimer /\ v.isOn = s.isOn
           /\ v.delayPrevious = s.delayPrevious /\ v.sabbathTimer = s.sabbathTimer /\ v.delayed = s.delayed
<1> DEFINE vote == IF s.single THEN s.startup ELSE "Startup"
           v == [s EXCEPT !.startup = vote, !.startTimer = TRUE, !.fanVotes = TRUE]
<1>1. vote \in {NoSpeed, "Startup"}
  BY CompressorFields
<1>2. StartupVotes(s) = v
  BY DEF StartupVotes
<1> HIDE DEF vote
<1>3. /\ v \in Compressors /\ v.startTimer /\ v.fanVotes /\ v.startup = vote
      /\ v.factory = s.factory /\ v.system = s.system /\ v.minimum = s.minimum /\ v.delay = s.delay
      /\ v.grid = s.grid /\ v.startPrevious = s.startPrevious /\ v.minPrevious = s.minPrevious
      /\ v.minTimer = s.minTimer /\ v.delayTimer = s.delayTimer /\ v.isOn = s.isOn
      /\ v.delayPrevious = s.delayPrevious /\ v.sabbathTimer = s.sabbathTimer /\ v.delayed = s.delayed
  BY <1>1 DEF Compressors
<1> HIDE DEF v
<1> QED BY <1>2, <1>3 DEF vote

\* A resolved vote publishes into a compressor whose votes describe it.
LEMMA PublicationFacts ==
    ASSUME NEW s, Publishable(s)
    PROVE  /\ Current(ResolvedVotePublishes(s))
           /\ IF StartsUp(s, ResolvedSpeed(s))
              THEN ResolvedVotePublishes(s).startTimer /\ ResolvedVotePublishes(s).fanVotes
              ELSE /\ ResolvedVotePublishes(s).startTimer = s.startTimer
                   /\ ResolvedVotePublishes(s).fanVotes = s.fanVotes
           /\ ResolvedVotePublishes(s).minPrevious = ResolvedSpeed(s)
           /\ s.sabbathTimer => ResolvedVotePublishes(s).sabbathTimer
           /\ ResolvedVotePublishes(s).sabbathTimer =>
                s.sabbathTimer \/ (s.minPrevious = "Off" /\ ResolvedSpeed(s) # "Off")
           /\ ResolvedVotePublishes(s).startup = NoSpeed => s.startup = NoSpeed
           /\ ResolvedVotePublishes(s).factory = s.factory
           /\ ResolvedVotePublishes(s).system = s.system
<1> DEFINE speed == ResolvedSpeed(s)
           v == IF StartsUp(s, speed) THEN StartupVotes(s) ELSE s
           again == ResolvedSpeed(v)
           n == IF again = speed THEN v ELSE OthersHear(v, again)
           t == OthersHear(n, speed)
<1>0. ResolvedVotePublishes(s) = t
  BY DEF ResolvedVotePublishes
<1>1. s \in Compressors /\ speed \in Votes \ {NoSpeed}
  <2>1. s \in Compressors
    BY DEF Publishable
  <2> QED BY <2>1, ResolvedSpeedIsSpeed
<1>2. /\ v \in Compressors /\ v.factory = s.factory /\ v.system = s.system /\ v.minimum = s.minimum
      /\ v.delay = s.delay /\ v.grid = s.grid /\ v.minPrevious = s.minPrevious
      /\ v.minTimer = s.minTimer /\ v.delayTimer = s.delayTimer /\ v.isOn = s.isOn
      /\ v.delayPrevious = s.delayPrevious /\ v.sabbathTimer = s.sabbathTimer /\ v.delayed = s.delayed
      /\ v.startup # NoSpeed => v.startTimer
      /\ IF StartsUp(s, speed) THEN v.startTimer /\ v.fanVotes
         ELSE v.startTimer = s.startTimer /\ v.fanVotes = s.fanVotes
      /\ v.startup = NoSpeed => s.startup = NoSpeed
      /\ v.startup = s.startup \/ (v.startup = "Startup" /\ speed # "Off")
  <2>1. CASE StartsUp(s, speed)
    <3>1. v = StartupVotes(s) /\ speed # "Off"
      BY <2>1 DEF StartsUp
    <3> HIDE DEF v, speed
    <3> QED BY <1>1, <2>1, <3>1, StartupVotesFacts, CompressorFields DEF NoSpeed
  <2>2. CASE ~StartsUp(s, speed)
    <3>1. v = s
      BY <2>2
    <3> HIDE DEF v, speed
    <3> QED BY <1>1, <2>2, <3>1 DEF Publishable
  <2> QED BY <2>1, <2>2
<1> HIDE DEF v
<1>3. again \in Votes \ {NoSpeed} /\ (again = "Off" <=> speed = "Off")
  <2>0. /\ s.factory \in Votes /\ s.startup \in Votes /\ s.system \in Votes
        /\ s.minimum \in Votes /\ s.delay \in Votes /\ s.grid \in Votes
    BY <1>1, CompressorFields
  <2>1. again = Outcome(s.factory, v.startup, s.system, s.minimum, s.delay, s.grid)
    BY <1>2, ResolvedIsOutcome
  <2>2. speed = Outcome(s.factory, s.startup, s.system, s.minimum, s.delay, s.grid)
    BY ResolvedIsOutcome
  <2>3. again \in Votes \ {NoSpeed}
    BY <1>2, ResolvedSpeedIsSpeed
  <2> HIDE DEF again, speed
  <2>4. CASE v.startup = s.startup
    BY <2>1, <2>2, <2>3, <2>4
  <2>5. CASE v.startup = "Startup" /\ speed # "Off"
    <3>1. again \in {speed, "Startup"}
      BY <2>0, <2>1, <2>2, <2>5, OutcomeOfStartup
    <3> QED BY <2>3, <2>5, <3>1
  <2> QED BY <1>2, <2>3, <2>4, <2>5
<1>4. s.minTimer => (s.minimum = "Off" <=> s.minPrevious = "Off")
  BY DEF Publishable
<1>5. s.minimum # NoSpeed <=> s.minTimer
  BY DEF Publishable
<1>51. Held(v) /\ (s.delayPrevious = "Off" <=> s.minPrevious = "Off")
  BY <1>2 DEF Publishable, Sides, Held
<1>6. /\ n \in Compressors /\ SameVotes(v, n) /\ n.startup = v.startup
      /\ n.minimum # NoSpeed <=> n.minTimer
      /\ n.minTimer /\ ((n.minPrevious = "Off") <=> (speed = "Off")) => (n.minimum = "Off" <=> speed = "Off")
      /\ \/ speed = ResolvedSpeed(n)
         \/ /\ ResolvedSpeed(n) = "Off" <=> speed = "Off"
            /\ n.minPrevious = "Off" <=> speed = "Off"
      /\ ResolvedSpeed(n) = again /\ Held(n)
      /\ s.sabbathTimer => n.sabbathTimer
      /\ n.sabbathTimer \/ (n.delayPrevious = "Off" /\ speed # "Off") =>
            s.sabbathTimer \/ (s.minPrevious = "Off" /\ speed # "Off")
  <2>1. CASE again = speed
    <3>1. n = v
      BY <2>1
    <3> HIDE DEF n
    <3>2. speed = ResolvedSpeed(n)
      BY <2>1, <3>1
    <3> HIDE DEF again, speed
    <3> QED BY <1>2, <1>4, <1>5, <1>51, <2>1, <3>1, <3>2 DEF SameVotes
  <2>2. CASE again # speed
    <3> DEFINE w == OthersHear(v, again)
    <3>1. n = w
      BY <2>2
    <3>2. v.minTimer /\ ((v.minPrevious = "Off") <=> (again = "Off")) => (v.minimum = "Off" <=> again = "Off")
      BY <1>2, <1>4
    <3> HIDE DEF n
    <3>3. /\ w \in Compressors /\ SameVotes(v, w) /\ w.minPrevious = again
          /\ ResolvedSpeed(w) = again /\ (w.minimum # NoSpeed <=> w.minTimer)
          /\ w.minTimer => (w.minimum = "Off" <=> again = "Off")
          /\ Held(w) /\ w.delayPrevious = again /\ (v.sabbathTimer => w.sabbathTimer)
          /\ w.sabbathTimer => v.sabbathTimer \/ (v.delayPrevious = "Off" /\ again # "Off")
      BY <1>2, <1>3, <1>5, <1>51, <3>2, SubscribersHear
    <3> HIDE DEF w, again, speed
    <3> QED BY <1>2, <1>3, <1>51, <3>1, <3>3 DEF SameVotes
  <2> QED BY <2>1, <2>2
<1> HIDE DEF n
<1>7. /\ t \in Compressors /\ SameVotes(n, t)
      /\ t.startPrevious = speed /\ t.minPrevious = speed /\ t.delayPrevious = speed
      /\ ResolvedSpeed(t) = ResolvedSpeed(n)
      /\ t.minimum # NoSpeed <=> t.minTimer
      /\ t.minTimer => (t.minimum = "Off" <=> speed = "Off")
      /\ Held(t) /\ (~t.sabbathTimer => t.delayed = ResolvedSpeed(t))
      /\ n.sabbathTimer => t.sabbathTimer
      /\ t.sabbathTimer => n.sabbathTimer \/ (n.delayPrevious = "Off" /\ speed # "Off")
  <2> HIDE DEF speed
  <2> QED BY <1>1, <1>6, SubscribersHear
<1> HIDE DEF t, speed, again
<1>9. /\ t.factory = s.factory /\ t.system = s.system /\ t.startup = v.startup
      /\ t.startTimer = v.startTimer /\ t.fanVotes = v.fanVotes
      /\ t.delay = s.delay /\ t.delayTimer = s.delayTimer
  BY <1>2, <1>6, <1>7 DEF SameVotes
<1>10. Sides(t) /\ (t.minPrevious = "Off" <=> ResolvedSpeed(t) = "Off")
  BY <1>3, <1>6, <1>7 DEF Sides
<1>11. Current(t)
  BY <1>2, <1>7, <1>9, <1>10 DEF Current, Publishable
<1>12. /\ s.sabbathTimer => t.sabbathTimer
       /\ t.sabbathTimer => s.sabbathTimer \/ (s.minPrevious = "Off" /\ speed # "Off")
  BY <1>6, <1>7
<1> QED BY <1>0, <1>2, <1>7, <1>9, <1>11, <1>12 DEF speed

\* A vote is written: what is written must keep the votes and their timers.
LEMMA VoteFacts ==
    ASSUME NEW s, NEW new, CompressorInv(s), Publishable(new), new.minPrevious = s.minPrevious,
           new.delayed = s.delayed, new.sabbathTimer = s.sabbathTimer
    PROVE  /\ Current(CompressorVote(s, new))
           /\ CompressorVote(s, new).minPrevious = "Off" <=> ResolvedSpeed(new) = "Off"
           /\ CompressorVote(s, new).startup = NoSpeed => new.startup = NoSpeed
           /\ CompressorVote(s, new).factory = new.factory
           /\ CompressorVote(s, new).system = new.system
           /\ s.sabbathTimer => CompressorVote(s, new).sabbathTimer
           /\ CompressorVote(s, new).sabbathTimer =>
                s.sabbathTimer \/ (s.minPrevious = "Off" /\ ResolvedSpeed(new) # "Off")
           /\ \/ /\ CompressorVote(s, new).startTimer = new.startTimer
                 /\ CompressorVote(s, new).fanVotes = new.fanVotes
              \/ /\ ResolvedSpeed(s) # ResolvedSpeed(new) /\ s.minPrevious = "Off"
                 /\ CompressorVote(s, new).startTimer /\ CompressorVote(s, new).fanVotes
<1>0. /\ new.minPrevious = "Off" <=> ResolvedSpeed(s) = "Off"
      /\ ~new.sabbathTimer => new.delayed = ResolvedSpeed(s)
  BY DEF CompressorInv, Current
<1>1. CASE ResolvedSpeed(new) = ResolvedSpeed(s)
  <2>1. CompressorVote(s, new) = new
    BY <1>1 DEF CompressorVote
  <2>2. Current(new) /\ (new.minPrevious = "Off" <=> ResolvedSpeed(new) = "Off")
    BY <1>0, <1>1 DEF Current
  <2> QED BY <2>1, <2>2
<1>2. CASE ResolvedSpeed(new) # ResolvedSpeed(s)
  <2> DEFINE t == ResolvedVotePublishes(new)
  <2>1. CompressorVote(s, new) = t
    BY <1>2 DEF CompressorVote
  <2>2. /\ Current(t) /\ t.minPrevious = ResolvedSpeed(new)
        /\ (t.startup = NoSpeed => new.startup = NoSpeed)
        /\ t.factory = new.factory /\ t.system = new.system
        /\ new.sabbathTimer => t.sabbathTimer
        /\ t.sabbathTimer => new.sabbathTimer \/ (new.minPrevious = "Off" /\ ResolvedSpeed(new) # "Off")
        /\ IF StartsUp(new, ResolvedSpeed(new)) THEN t.startTimer /\ t.fanVotes
           ELSE t.startTimer = new.startTimer /\ t.fanVotes = new.fanVotes
    BY PublicationFacts
  <2> HIDE DEF t
  <2>3. StartsUp(new, ResolvedSpeed(new)) => s.minPrevious = "Off"
    BY DEF StartsUp, Publishable, Sides
  <2> QED BY <1>2, <2>1, <2>2, <2>3
<1> QED BY <1>1, <1>2

LEMMA MinimumTimeProtects ==
    ASSUME NEW new, Publishable(new), new.minTimer,
           new.factory = NoSpeed, new.startup = NoSpeed, new.system = NoSpeed
    PROVE  ResolvedSpeed(new) = "Off" <=> new.minPrevious = "Off"
<1>1. ResolvedSpeed(new) = new.minimum
  BY ResolvedIsOutcome DEF Outcome, Publishable
<1> QED BY <1>1 DEF Publishable

\* What is written before the resolver publishes.
Written(new) ==
    /\ Publishable(new) /\ new.minPrevious = st.minPrevious
    /\ st.minTimer => new.minTimer \/ MinimumTimeEnds
    /\ CompressorInv(st')
    /\ st'.minPrevious = "Off" <=> ResolvedSpeed(new) = "Off"
    /\ st.sabbathTimer => st'.sabbathTimer \/ CompressorDelayEnds
    /\ st'.sabbathTimer => st.sabbathTimer \/ (st.minPrevious = "Off" /\ ResolvedSpeed(new) # "Off")
    /\ st'.startup = NoSpeed => new.startup = NoSpeed
    /\ st'.factory = new.factory /\ st'.system = new.system

\* The end of the startup does not start the compressor again.
LEMMA StartupEnds ==
    ASSUME CompressorInv(st), StartupTimeEnds
    PROVE  \E v : Written(v)
<1> DEFINE new == [st EXCEPT !.startup = NoSpeed, !.startTimer = FALSE]
           v == CompressorVote(st, new)
           t == [v EXCEPT !.fanVotes = FALSE]
<1>1. st' = t
  BY DEF StartupTimeEnds
<1>2. st \in Compressors
  BY DEF CompressorInv, Current, Publishable
<1>3. /\ new \in Compressors /\ ~new.startTimer /\ new.startup = NoSpeed
      /\ new.factory = st.factory /\ new.system = st.system /\ new.minimum = st.minimum
      /\ new.delay = st.delay /\ new.grid = st.grid /\ new.isOn = st.isOn /\ new.minTimer = st.minTimer
      /\ new.delayTimer = st.delayTimer /\ new.startPrevious = st.startPrevious
      /\ new.minPrevious = st.minPrevious /\ new.delayPrevious = st.delayPrevious
      /\ new.sabbathTimer = st.sabbathTimer /\ new.delayed = st.delayed
  BY <1>2 DEF Compressors
<1> HIDE DEF new
<1>4. Publishable(new)
  BY <1>3 DEF Publishable, CompressorInv, Current, Sides, Held
<1>5. ResolvedSpeed(new) # ResolvedSpeed(st) => st.minPrevious # "Off"
  <2>1. st.startup = NoSpeed => ResolvedSpeed(new) = ResolvedSpeed(st)
    BY <1>3, ResolvedIsOutcome
  <2>2. st.factory # NoSpeed => ResolvedSpeed(new) = ResolvedSpeed(st)
    BY <1>3, ResolvedIsOutcome DEF Outcome
  <2>3. st.factory = NoSpeed /\ st.startup # NoSpeed => ResolvedSpeed(st) = st.startup
    BY ResolvedIsOutcome DEF Outcome
  <2>4. st.startup \in {NoSpeed, "Startup"}
    BY <1>2, CompressorFields
  <2> QED BY <2>1, <2>2, <2>3, <2>4 DEF CompressorInv, Current
<1>6. /\ Current(v) /\ ~v.startTimer
      /\ v.minPrevious = "Off" <=> ResolvedSpeed(new) = "Off"
      /\ v.startup = NoSpeed => new.startup = NoSpeed
      /\ v.factory = new.factory /\ v.system = new.system
      /\ st.sabbathTimer => v.sabbathTimer
      /\ v.sabbathTimer => st.sabbathTimer \/ (st.minPrevious = "Off" /\ ResolvedSpeed(new) # "Off")
  BY <1>3, <1>4, <1>5, VoteFacts
<1> HIDE DEF v
<1>7. v \in Compressors
  BY <1>6 DEF Current, Publishable
<1>8. /\ t \in Compressors /\ ~t.fanVotes /\ t.startup = v.startup /\ t.startTimer = v.startTimer
      /\ t.factory = v.factory /\ t.system = v.system /\ t.minimum = v.minimum
      /\ t.delay = v.delay /\ t.grid = v.grid /\ t.isOn = v.isOn /\ t.minTimer = v.minTimer
      /\ t.delayTimer = v.delayTimer /\ t.startPrevious = v.startPrevious
      /\ t.minPrevious = v.minPrevious /\ t.delayPrevious = v.delayPrevious
      /\ t.sabbathTimer = v.sabbathTimer /\ t.delayed = v.delayed
  BY <1>7 DEF Compressors
<1> HIDE DEF t
<1>9. ResolvedSpeed(t) = ResolvedSpeed(v)
  BY <1>8, ResolvedIsOutcome
<1>10. CompressorInv(t)
  BY <1>6, <1>8, <1>9 DEF CompressorInv, Current, Publishable, Sides, Held
<1> WITNESS new
<1> QED BY <1>1, <1>3, <1>4, <1>6, <1>8, <1>10 DEF Written

\* Every other step of a voter: what it writes keeps the votes and their timers.
LEMMA VoterWrites ==
    ASSUME NEW new, CompressorInv(st), st' = CompressorVote(st, new), new \in Compressors,
           new.startup = st.startup, new.startTimer = st.startTimer, new.fanVotes = st.fanVotes,
           new.isOn = st.isOn, new.startPrevious = st.startPrevious, new.minPrevious = st.minPrevious,
           new.delayPrevious = st.delayPrevious, new.sabbathTimer = st.sabbathTimer, new.delayed = st.delayed,
           \/ new.minimum = st.minimum /\ new.minTimer = st.minTimer
           \/ new.minimum = NoSpeed /\ ~new.minTimer,
           \/ new.delay = st.delay /\ new.delayTimer = st.delayTimer
           \/ (new.delay # NoSpeed <=> new.delayTimer)
    PROVE  /\ Publishable(new) /\ CompressorInv(st')
           /\ st'.minPrevious = "Off" <=> ResolvedSpeed(new) = "Off"
           /\ st'.startup = NoSpeed => new.startup = NoSpeed
           /\ st'.factory = new.factory /\ st'.system = new.system
           /\ st.sabbathTimer => st'.sabbathTimer
           /\ st'.sabbathTimer => st.sabbathTimer \/ (st.minPrevious = "Off" /\ ResolvedSpeed(new) # "Off")
<1>1. Publishable(new)
  BY DEF Publishable, CompressorInv, Current, Sides, Held
<1>2. st.fanVotes <=> st.startTimer
  BY DEF CompressorInv
<1> QED BY <1>1, <1>2, VoteFacts DEF CompressorInv

\* A sabbath mode that begins or ends writes no vote.
LEMMA SabbathModeKeeps ==
    ASSUME CompressorInv(st), SabbathModeChanges
    PROVE  \E v : Written(v)
<1> DEFINE mode == ~st.sabbath
           t == [st EXCEPT !.sabbath = mode]
<1>1. st' = t
  BY DEF SabbathModeChanges
<1>2. st \in Compressors /\ mode \in BOOLEAN
  BY DEF CompressorInv, Current, Publishable
<1> HIDE DEF mode
<1>3. /\ t \in Compressors /\ SameVotes(st, t) /\ t.minimum = st.minimum /\ t.minTimer = st.minTimer
      /\ t.startPrevious = st.startPrevious /\ t.minPrevious = st.minPrevious
      /\ t.delayPrevious = st.delayPrevious /\ t.sabbathTimer = st.sabbathTimer
      /\ t.delayed = st.delayed /\ t.isOn = st.isOn
  BY <1>2, ZenonT(120) DEF Compressors, SameVotes
<1> HIDE DEF t
<1>4. ResolvedSpeed(t) = ResolvedSpeed(st)
  BY <1>3, ResolvedIsOutcome DEF SameVotes
<1>5. CompressorInv(t)
  BY <1>3, <1>4 DEF CompressorInv, Current, Publishable, Sides, Held, SameVotes
<1> WITNESS st
<1> QED BY <1>1, <1>3, <1>5 DEF Written, CompressorInv, Current, SameVotes

\* The end of the delay passes on what is resolved then.
LEMMA DelayEndKeeps ==
    ASSUME CompressorInv(st), CompressorDelayEnds
    PROVE  \E v : Written(v)
<1> DEFINE d == [st EXCEPT !.sabbathTimer = FALSE]
           resolved == ResolvedSpeed(d)
           e == [d EXCEPT !.delayed = resolved]
           on == e.delayed # "Off"
           t == [e EXCEPT !.isOn = on]
<1>1. st' = t
  BY DEF CompressorDelayEnds, PassThroughLoadVote, DriveCompressor
<1>2. st \in Compressors
  BY DEF CompressorInv, Current, Publishable
<1>3. /\ d \in Compressors /\ SameVotes(st, d) /\ d.minimum = st.minimum /\ d.minTimer = st.minTimer
      /\ d.startPrevious = st.startPrevious /\ d.minPrevious = st.minPrevious
      /\ d.delayPrevious = st.delayPrevious /\ ~d.sabbathTimer
  BY <1>2, ZenonT(120) DEF Compressors, SameVotes
<1> HIDE DEF d
<1>4. resolved = ResolvedSpeed(st) /\ resolved \in Votes
  BY <1>3, ResolvedIsOutcome, ResolvedSpeedIsSpeed DEF SameVotes
<1> HIDE DEF resolved
<1>5. /\ e \in Compressors /\ SameVotes(d, e) /\ e.minimum = d.minimum /\ e.minTimer = d.minTimer
      /\ e.startPrevious = d.startPrevious /\ e.minPrevious = d.minPrevious
      /\ e.delayPrevious = d.delayPrevious /\ ~e.sabbathTimer /\ e.delayed = resolved
  BY <1>3, <1>4, ZenonT(120) DEF Compressors, SameVotes
<1> HIDE DEF e
<1>6. on \in BOOLEAN /\ (on <=> resolved # "Off")
  BY <1>5
<1> HIDE DEF on
<1>7. /\ t \in Compressors /\ SameVotes(e, t) /\ t.minimum = e.minimum /\ t.minTimer = e.minTimer
      /\ t.startPrevious = e.startPrevious /\ t.minPrevious = e.minPrevious
      /\ t.delayPrevious = e.delayPrevious /\ ~t.sabbathTimer /\ t.delayed = resolved /\ t.isOn = on
  BY <1>5, <1>6, ZenonT(120) DEF Compressors, SameVotes
<1> HIDE DEF t
<1>8. SameVotes(st, t)
  BY <1>3, <1>5, <1>7 DEF SameVotes
<1>81. /\ t.minimum = st.minimum /\ t.minTimer = st.minTimer
       /\ t.startPrevious = st.startPrevious /\ t.minPrevious = st.minPrevious
       /\ t.delayPrevious = st.delayPrevious
  BY <1>3, <1>5, <1>7
<1>9. ResolvedSpeed(t) = ResolvedSpeed(st)
  BY <1>8, <1>81, ResolvedIsOutcome DEF SameVotes
<1>10. CompressorInv(t)
  BY <1>4, <1>6, <1>7, <1>8, <1>81, <1>9 DEF CompressorInv, Current, Publishable, Sides, Held, SameVotes
<1> WITNESS st
<1> QED BY <1>1, <1>7, <1>8, <1>81, <1>10 DEF Written, CompressorInv, Current, SameVotes

LEMMA CompressorStep ==
    ASSUME CompressorInv(st), CompressorNext
    PROVE  \E v : Written(v)
<1>0. st \in Compressors /\ NoSpeed \in Votes /\ "Off" \in Votes \ {NoSpeed}
  BY DEF CompressorInv, Current, Publishable, Votes, CompressorSpeeds, NoSpeed
<1>1. ASSUME NEW new, st' = CompressorVote(st, new), new \in Compressors,
             new.startup = st.startup, new.startTimer = st.startTimer, new.fanVotes = st.fanVotes,
             new.isOn = st.isOn, new.startPrevious = st.startPrevious, new.minPrevious = st.minPrevious,
             new.delayPrevious = st.delayPrevious, new.sabbathTimer = st.sabbathTimer, new.delayed = st.delayed,
             \/ new.minimum = st.minimum /\ new.minTimer = st.minTimer
             \/ new.minimum = NoSpeed /\ ~new.minTimer /\ MinimumTimeEnds,
             \/ new.delay = st.delay /\ new.delayTimer = st.delayTimer
             \/ (new.delay # NoSpeed <=> new.delayTimer)
      PROVE  \E v : Written(v)
  <2>1. /\ Publishable(new) /\ CompressorInv(st')
        /\ st'.minPrevious = "Off" <=> ResolvedSpeed(new) = "Off"
        /\ st'.startup = NoSpeed => new.startup = NoSpeed
        /\ st'.factory = new.factory /\ st'.system = new.system
        /\ st.sabbathTimer => st'.sabbathTimer
        /\ st'.sabbathTimer => st.sabbathTimer \/ (st.minPrevious = "Off" /\ ResolvedSpeed(new) # "Off")
    BY <1>1, VoterWrites
  <2>2. st.minTimer => new.minTimer \/ MinimumTimeEnds
    BY <1>1
  <2> WITNESS new
  <2> QED BY <1>1, <2>1, <2>2 DEF Written
<1>2. ASSUME NEW speed \in CompressorSpeeds \union {NoSpeed}, SystemVotes(speed)
      PROVE  \E v : Written(v)
  <2> DEFINE a == [st EXCEPT !.factory = speed]
             b == [st EXCEPT !.system = speed]
  <2>1. speed \in Votes
    BY DEF Votes
  <2>2. CASE st' = CompressorVote(st, a)
    <3>1. a \in Compressors
      BY <1>0, <2>1 DEF Compressors
    <3>2. /\ a.startup = st.startup /\ a.startTimer = st.startTimer /\ a.fanVotes = st.fanVotes
          /\ a.isOn = st.isOn /\ a.startPrevious = st.startPrevious /\ a.minPrevious = st.minPrevious
          /\ a.delayPrevious = st.delayPrevious /\ a.sabbathTimer = st.sabbathTimer /\ a.delayed = st.delayed
          /\ a.minimum = st.minimum /\ a.minTimer = st.minTimer
          /\ a.delay = st.delay /\ a.delayTimer = st.delayTimer
      BY <1>0 DEF Compressors
    <3> HIDE DEF a
    <3> QED BY <1>1, <2>2, <3>1, <3>2
  <2>3. CASE st' = CompressorVote(st, b)
    <3>1. b \in Compressors
      BY <1>0, <2>1 DEF Compressors
    <3>2. /\ b.startup = st.startup /\ b.startTimer = st.startTimer /\ b.fanVotes = st.fanVotes
          /\ b.isOn = st.isOn /\ b.startPrevious = st.startPrevious /\ b.minPrevious = st.minPrevious
          /\ b.delayPrevious = st.delayPrevious /\ b.sabbathTimer = st.sabbathTimer /\ b.delayed = st.delayed
          /\ b.minimum = st.minimum /\ b.minTimer = st.minTimer
          /\ b.delay = st.delay /\ b.delayTimer = st.delayTimer
      BY <1>0 DEF Compressors
    <3> HIDE DEF b
    <3> QED BY <1>1, <2>3, <3>1, <3>2
  <2> QED BY <1>2, <2>2, <2>3 DEF SystemVotes
<1>3. ASSUME NEW speed \in CompressorSpeeds, GridVotes(speed)
      PROVE  \E v : Written(v)
  <2> DEFINE hears == st.hearsValve \/ speed # "Off"
             a == [st EXCEPT !.grid = speed, !.hearsValve = hears]
  <2>1. speed \in Votes /\ hears \in BOOLEAN
    BY <1>0 DEF Votes, Compressors
  <2>2. st' = CompressorVote(st, a)
    BY <1>3 DEF GridVotes
  <2> HIDE DEF hears
  <2>3. a \in Compressors
    BY <1>0, <2>1 DEF Compressors
  <2>4. /\ a.startup = st.startup /\ a.startTimer = st.startTimer /\ a.fanVotes = st.fanVotes
        /\ a.isOn = st.isOn /\ a.startPrevious = st.startPrevious /\ a.minPrevious = st.minPrevious
        /\ a.delayPrevious = st.delayPrevious /\ a.sabbathTimer = st.sabbathTimer /\ a.delayed = st.delayed
        /\ a.minimum = st.minimum /\ a.minTimer = st.minTimer
        /\ a.delay = st.delay /\ a.delayTimer = st.delayTimer
    BY <1>0 DEF Compressors
  <2> HIDE DEF a
  <2> QED BY <1>1, <2>2, <2>3, <2>4
<1>4. CASE ValveVoteChanges
  <2> DEFINE a == [st EXCEPT !.delay = "Off", !.delayTimer = TRUE]
  <2>2. st' = CompressorVote(st, a)
    BY <1>4 DEF ValveVoteChanges
  <2>3. a \in Compressors
    BY <1>0 DEF Compressors
  <2>4. /\ a.startup = st.startup /\ a.startTimer = st.startTimer /\ a.fanVotes = st.fanVotes
        /\ a.isOn = st.isOn /\ a.startPrevious = st.startPrevious /\ a.minPrevious = st.minPrevious
        /\ a.delayPrevious = st.delayPrevious /\ a.sabbathTimer = st.sabbathTimer /\ a.delayed = st.delayed
        /\ a.minimum = st.minimum /\ a.minTimer = st.minTimer
        /\ a.delay # NoSpeed /\ a.delayTimer
    BY <1>0 DEF Compressors, NoSpeed
  <2> HIDE DEF a
  <2> QED BY <1>1, <2>2, <2>3, <2>4
<1>5. CASE MinimumTimeEnds
  <2> DEFINE a == [st EXCEPT !.minimum = NoSpeed, !.minTimer = FALSE]
  <2>2. st' = CompressorVote(st, a)
    BY <1>5 DEF MinimumTimeEnds
  <2>3. a \in Compressors
    BY <1>0 DEF Compressors
  <2>4. /\ a.startup = st.startup /\ a.startTimer = st.startTimer /\ a.fanVotes = st.fanVotes
        /\ a.isOn = st.isOn /\ a.startPrevious = st.startPrevious /\ a.minPrevious = st.minPrevious
        /\ a.delayPrevious = st.delayPrevious /\ a.sabbathTimer = st.sabbathTimer /\ a.delayed = st.delayed
        /\ a.minimum = NoSpeed /\ ~a.minTimer
        /\ a.delay = st.delay /\ a.delayTimer = st.delayTimer
    BY <1>0 DEF Compressors
  <2> HIDE DEF a
  <2> QED BY <1>1, <1>5, <2>2, <2>3, <2>4
<1>6. CASE ValveDelayEnds
  <2> DEFINE a == [st EXCEPT !.delay = NoSpeed, !.delayTimer = FALSE]
  <2>2. st' = CompressorVote(st, a)
    BY <1>6 DEF ValveDelayEnds
  <2>3. a \in Compressors
    BY <1>0 DEF Compressors
  <2>4. /\ a.startup = st.startup /\ a.startTimer = st.startTimer /\ a.fanVotes = st.fanVotes
        /\ a.isOn = st.isOn /\ a.startPrevious = st.startPrevious /\ a.minPrevious = st.minPrevious
        /\ a.delayPrevious = st.delayPrevious /\ a.sabbathTimer = st.sabbathTimer /\ a.delayed = st.delayed
        /\ a.minimum = st.minimum /\ a.minTimer = st.minTimer
        /\ a.delay = NoSpeed /\ ~a.delayTimer
    BY <1>0 DEF Compressors
  <2> HIDE DEF a
  <2> QED BY <1>1, <2>2, <2>3, <2>4
<1>7. CASE StartupTimeEnds
  BY <1>7, StartupEnds DEF Written
<1>8. CASE SabbathModeChanges
  BY <1>8, SabbathModeKeeps
<1>9. CASE CompressorDelayEnds
  BY <1>9, DelayEndKeeps
<1> QED BY <1>2, <1>3, <1>4, <1>5, <1>6, <1>7, <1>8, <1>9 DEF CompressorNext

-----------------------------------------------------------------------------
(* The drive and the fault handler.                                        *)
Frequencies ==
    {<<v>> : v \in DriverSpeeds} \cup {<<v, m>> : v \in DriverSpeeds, m \in DriverModes}
        \cup {<<v, m, z>> : v \in DriverSpeeds, m \in DriverModes, z \in {"Cold", "Middle", "Warm"}}

Drives ==
    [speed : DriverSpeeds, mode : DriverModes, zone : {"Cold", "Middle", "Warm"},
     single : BOOLEAN, relayEnabled : BOOLEAN, dependent : BOOLEAN,
     relay : BOOLEAN, frequency : Frequencies, on : BOOLEAN]

\* The relay, the frequency and compressorIsOn are those of the speed.
DriveInv(s) ==
    /\ s \in Drives
    /\ s.on <=> s.speed # "Off"
    /\ s.relay <=> (s.single \/ s.relayEnabled) /\ s.on
    /\ s.single \/ ~s.on => s.frequency = <<"Off">>

LEMMA FrequencyFacts ==
    ASSUME NEW s \in Drives
    PROVE  \E f \in Frequencies :
              /\ UpdateCompressorFrequency(s) = [s EXCEPT !.frequency = f]
              /\ s.speed = "Off" => f = <<"Off">>
<1>0. /\ s.speed \in DriverSpeeds /\ s.mode \in DriverModes /\ s.zone \in {"Cold", "Middle", "Warm"}
      /\ s.frequency \in Frequencies
  BY DEF Drives
<1>1. <<s.speed>> \in Frequencies
  BY <1>0 DEF Frequencies
<1>2. [s EXCEPT !.frequency = s.frequency] = s
  BY DEF Drives
<1>3. CASE s.speed \in {"Off", "SuperLow", "SuperHigh", "Startup"} \/ ~s.dependent
  BY <1>1, <1>3 DEF UpdateCompressorFrequency
<1>4. CASE s.dependent /\ s.speed = "Low"
  <2>1. <<"Low", s.mode, s.zone>> \in Frequencies
    BY <1>0 DEF Frequencies, DriverSpeeds
  <2> QED BY <1>0, <1>2, <1>4, <2>1 DEF UpdateCompressorFrequency, UpdateCompressorFrequencyWhenCompressorSpeedIsLow
<1>5. CASE s.dependent /\ s.speed = "Medium"
  <2>1. <<"Medium", s.mode, s.zone>> \in Frequencies
    BY <1>0 DEF Frequencies, DriverSpeeds
  <2> QED BY <1>0, <1>2, <1>5, <2>1 DEF UpdateCompressorFrequency, UpdateCompressorFrequencyWhenCompressorSpeedIsMedium
<1>6. CASE s.dependent /\ s.speed = "High"
  <2>1. <<"High", s.mode>> \in Frequencies
    BY <1>0 DEF Frequencies, DriverSpeeds
  <2> QED BY <1>0, <1>2, <1>6, <2>1 DEF UpdateCompressorFrequency, UpdateCompressorFrequencyWhenCompressorSpeedIsHigh
<1> QED BY <1>0, <1>3, <1>4, <1>5, <1>6 DEF DriverSpeeds

LEMMA DriveStep ==
    ASSUME DriveInv(st), CompressorSpeedChanges \/ DriverReadingsChange
    PROVE  DriveInv(st')
<1>1. CASE CompressorSpeedChanges
  <2>1. PICK v \in DriverSpeeds \ {st.speed} : st' = CompressorControllerSpeedUpdated([st EXCEPT !.speed = v])
    BY <1>1 DEF CompressorSpeedChanges
  <2> DEFINE s == [st EXCEPT !.speed = v]
             u == IF s.single THEN s ELSE UpdateCompressorFrequency(s)
             relay == (s.single \/ s.relayEnabled) /\ s.speed # "Off"
             on == s.speed # "Off"
             t == [u EXCEPT !.relay = relay, !.on = on]
  <2>2. st' = t
    BY <2>1 DEF CompressorControllerSpeedUpdated
  <2>3. /\ s \in Drives /\ s.speed = v /\ s.single = st.single /\ s.relayEnabled = st.relayEnabled
        /\ s.frequency = st.frequency
    BY DEF DriveInv, Drives
  <2> HIDE DEF s
  <2>4. /\ u \in Drives /\ u.speed = s.speed /\ u.single = s.single /\ u.relayEnabled = s.relayEnabled
        /\ s.single \/ s.speed = "Off" => u.frequency = <<"Off">>
    <3>1. CASE s.single
      BY <2>3, <3>1 DEF DriveInv
    <3>2. CASE ~s.single
      <4>1. PICK f \in Frequencies : /\ UpdateCompressorFrequency(s) = [s EXCEPT !.frequency = f]
                                     /\ s.speed = "Off" => f = <<"Off">>
        BY <2>3, FrequencyFacts
      <4>2. u = [s EXCEPT !.frequency = f]
        BY <3>2, <4>1
      <4> HIDE DEF u
      <4> QED BY <2>3, <3>2, <4>1, <4>2 DEF Drives
    <3> QED BY <3>1, <3>2
  <2> HIDE DEF u
  <2>5. relay \in BOOLEAN /\ on \in BOOLEAN
    OBVIOUS
  <2>6. (relay <=> (u.single \/ u.relayEnabled) /\ on) /\ (on <=> u.speed # "Off")
    BY <2>4
  <2> HIDE DEF relay, on
  <2>7. /\ t \in Drives /\ t.speed = u.speed /\ t.single = u.single /\ t.relayEnabled = u.relayEnabled
        /\ t.frequency = u.frequency /\ t.relay = relay /\ t.on = on
    BY <2>4, <2>5 DEF Drives
  <2> HIDE DEF t
  <2> QED BY <2>2, <2>4, <2>6, <2>7 DEF DriveInv
<1>2. CASE DriverReadingsChange
  <2>1. CASE \E m \in DriverModes : st' = [st EXCEPT !.mode = m]
    BY <2>1 DEF DriveInv, Drives
  <2>2. CASE \E z \in {"Cold", "Middle", "Warm"} : st' = [st EXCEPT !.zone = z]
    BY <2>2 DEF DriveInv, Drives
  <2> QED BY <1>2, <2>1, <2>2 DEF DriverReadingsChange
<1> QED BY <1>1, <1>2

FaultHandlers ==
    [isOn : BOOLEAN, coolingOff : BOOLEAN, cycled : BOOLEAN, timer : {"none", "running", "resting"},
     runFault : BOOLEAN, offFault : BOOLEAN]

\* Each timer runs for the side the compressor is on.
FaultInv(s) ==
    /\ s \in FaultHandlers
    /\ s.timer = "running" => s.isOn
    /\ s.timer = "resting" => ~s.isOn
    /\ ~s.isOn /\ ~s.coolingOff => s.timer = "resting" \/ s.offFault
    /\ s.runFault => s.isOn
    /\ s.offFault => ~s.isOn

LEMMA FaultStep ==
    ASSUME FaultInv(st), FaultInputsChange \/ FaultTimeEnds
    PROVE  FaultInv(st')
<1>1. CASE st' = FaultHandlerHearsCompressor([st EXCEPT !.isOn = ~@])
  <2> DEFINE on == ~st.isOn
             s == [st EXCEPT !.isOn = on]
             running == IF s.cycled THEN "running" ELSE "none"
             resting == IF s.coolingOff THEN "none" ELSE "resting"
  <2>1. st' = IF s.isOn THEN [s EXCEPT !.timer = running, !.offFault = FALSE]
              ELSE [s EXCEPT !.timer = resting, !.runFault = FALSE, !.cycled = TRUE]
    BY <1>1 DEF FaultHandlerHearsCompressor
  <2>2. on \in BOOLEAN /\ (on <=> ~st.isOn)
    OBVIOUS
  <2> HIDE DEF on
  <2>3. /\ s \in FaultHandlers /\ s.isOn = on /\ s.coolingOff = st.coolingOff
        /\ s.runFault = st.runFault /\ s.offFault = st.offFault
    BY <2>2 DEF FaultInv, FaultHandlers
  <2> HIDE DEF s
  <2>4. running \in {"none", "running"} /\ resting \in {"none", "resting"} /\ (~s.coolingOff => resting = "resting")
    OBVIOUS
  <2> HIDE DEF running, resting
  <2>5. CASE s.isOn
    BY <2>1, <2>2, <2>3, <2>4, <2>5 DEF FaultInv, FaultHandlers
  <2>6. CASE ~s.isOn
    BY <2>1, <2>2, <2>3, <2>4, <2>6 DEF FaultInv, FaultHandlers
  <2> QED BY <2>5, <2>6
<1>2. CASE st' = FaultHandlerHearsCooling([st EXCEPT !.coolingOff = ~@])
  <2> DEFINE off == ~st.coolingOff
             s == [st EXCEPT !.coolingOff = off]
  <2>1. st' = FaultHandlerHearsCooling(s)
    BY <1>2
  <2>2. off \in BOOLEAN /\ (off <=> ~st.coolingOff)
    OBVIOUS
  <2> HIDE DEF off
  <2>3. /\ s \in FaultHandlers /\ s.isOn = st.isOn /\ s.coolingOff = off /\ s.timer = st.timer
        /\ s.runFault = st.runFault /\ s.offFault = st.offFault
    BY <2>2 DEF FaultInv, FaultHandlers
  <2> HIDE DEF s
  <2>4. CASE s.coolingOff
    <3>1. st' = [s EXCEPT !.timer = "none"]
      BY <2>1, <2>4 DEF FaultHandlerHearsCooling
    <3> QED BY <2>3, <2>4, <3>1 DEF FaultInv, FaultHandlers
  <2>5. CASE ~s.coolingOff /\ ~s.isOn
    <3>1. st' = [s EXCEPT !.timer = "resting"]
      BY <2>1, <2>5 DEF FaultHandlerHearsCooling
    <3> QED BY <2>3, <2>5, <3>1 DEF FaultInv, FaultHandlers
  <2>6. CASE ~s.coolingOff /\ s.isOn
    <3>1. st' = s
      BY <2>1, <2>6 DEF FaultHandlerHearsCooling
    <3> QED BY <2>3, <2>6, <3>1 DEF FaultInv
  <2> QED BY <2>4, <2>5, <2>6
<1>3. CASE FaultTimeEnds
  <2> DEFINE run == st.runFault \/ st.timer = "running"
             off == st.offFault \/ st.timer = "resting"
             t == [st EXCEPT !.timer = "none", !.runFault = run, !.offFault = off]
  <2>1. st' = t
    BY <1>3 DEF FaultTimeEnds
  <2>2. /\ run \in BOOLEAN /\ off \in BOOLEAN
        /\ run => st.isOn
        /\ off => ~st.isOn
        /\ ~st.isOn /\ ~st.coolingOff => off
    BY DEF FaultInv, FaultHandlers
  <2> HIDE DEF run, off
  <2>3. /\ t \in FaultHandlers /\ t.isOn = st.isOn /\ t.coolingOff = st.coolingOff /\ t.timer = "none"
        /\ t.runFault = run /\ t.offFault = off
    BY <2>2 DEF FaultInv, FaultHandlers
  <2> HIDE DEF t
  <2> QED BY <2>1, <2>2, <2>3 DEF FaultInv
<1> QED BY <1>1, <1>2, <1>3 DEF FaultInputsChange

-----------------------------------------------------------------------------
(* The refrigerant valve.                                                  *)

\* Two positions of the valve are apart: the parametric data gives each of its
\* positions a step count of its own.
ValvePositionsDiffer ==
    \A p, q \in AllPositions : ValvePositionStep[p] = ValvePositionStep[q] => p = q

PositionVotes == AllPositions \cup {NoPosition}
StepRequests == [steps : Nat, clockwise : BOOLEAN, reset : BOOLEAN]

Valves ==
    [state : {"Idle", "Homing", "Moving"}, active : AllPositions, current : AllPositions,
     previous : AllPositions, powerUp : PositionVotes, defrost : PositionVotes,
     valveGrid : PositionVotes, powerUpTimer : BOOLEAN, homingRequired : BOOLEAN,
     homingErd : BOOLEAN, request : StepRequests, stalled : BOOLEAN]

\* A valve at rest has been where it is wanted, and one that moves has steps to
\* go, unless it has been asked for the position it has.
ValveInv(s) ==
    /\ s \in Valves
    /\ s.state = "Idle" => /\ s.current = Requested(s) /\ s.request.steps = 0
                           /\ ~s.homingErd /\ ~s.homingRequired
    /\ s.state # "Idle" /\ ~s.stalled => s.request.steps > 0
    /\ s.stalled => s.state = "Moving" /\ s.active = s.current /\ s.request.steps = 0
    /\ s.state = "Moving" /\ s.homingErd => s.homingRequired

LEMMA ValveFields ==
    ASSUME NEW s \in Valves
    PROVE  /\ s.state \in {"Idle", "Homing", "Moving"} /\ s.active \in AllPositions
           /\ s.current \in AllPositions /\ s.request \in StepRequests
           /\ s.request.steps \in Nat /\ s.homingRequired \in BOOLEAN
           /\ s.homingErd \in BOOLEAN /\ s.stalled \in BOOLEAN /\ s.powerUpTimer \in BOOLEAN
           /\ s.powerUp \in PositionVotes /\ s.defrost \in PositionVotes /\ s.valveGrid \in PositionVotes
<1>1. s.request \in StepRequests
  BY DEF Valves
<1>2. s.request.steps \in Nat
  BY <1>1 DEF StepRequests
<1> QED BY <1>1, <1>2 DEF Valves

\* The resolved vote is the first that cares, or position B.
LEMMA ResolvedPositionFacts ==
    ASSUME NEW s \in Valves
    PROVE  /\ ResolvedPosition(s) = [position |-> Requested(s), care |-> ResolvedPosition(s).care]
           /\ ResolvedPosition(s).care \in BOOLEAN
           /\ Requested(s) \in AllPositions
<1>0. /\ s.powerUp \in PositionVotes /\ s.defrost \in PositionVotes /\ s.valveGrid \in PositionVotes
  BY ValveFields
<1>1. CASE s.powerUp # NoPosition
  <2>1. ResolvedPosition(s) = [position |-> s.powerUp, care |-> TRUE]
    BY <1>1 DEF ResolvedPosition
  <2> QED BY <1>0, <1>1, <2>1 DEF Requested, PositionVotes
<1>2. CASE s.powerUp = NoPosition /\ s.defrost # NoPosition
  <2>1. ResolvedPosition(s) = [position |-> s.defrost, care |-> TRUE]
    BY <1>2 DEF ResolvedPosition
  <2> QED BY <1>0, <1>2, <2>1 DEF Requested, PositionVotes
<1>3. CASE s.powerUp = NoPosition /\ s.defrost = NoPosition /\ s.valveGrid # NoPosition
  <2>1. ResolvedPosition(s) = [position |-> s.valveGrid, care |-> TRUE]
    BY <1>3 DEF ResolvedPosition
  <2> QED BY <1>0, <1>3, <2>1 DEF Requested, PositionVotes
<1>4. CASE s.powerUp = NoPosition /\ s.defrost = NoPosition /\ s.valveGrid = NoPosition
  <2>1. ResolvedPosition(s) = [position |-> "B", care |-> FALSE]
    BY <1>4 DEF ResolvedPosition
  <2> QED BY <2>1 DEF Requested, AllPositions, VotedPositions
<1> QED BY <1>1, <1>2, <1>3, <1>4

\* The votes of two valves are the same.
SameVote(s, t) ==
    /\ t.powerUp = s.powerUp /\ t.defrost = s.defrost /\ t.valveGrid = s.valveGrid

LEMMA SameVoteIsRequested ==
    ASSUME NEW s, NEW t, SameVote(s, t)
    PROVE  ResolvedPosition(t) = ResolvedPosition(s) /\ Requested(t) = Requested(s)
BY DEF SameVote, ResolvedPosition, Requested

LEMMA MoveStepsFacts ==
    ASSUME NEW s \in Valves, NEW p \in AllPositions, ValvePositionsDiffer
    PROVE  /\ MoveSteps(s, p) \in StepRequests
           /\ MoveSteps(s, p).steps = 0 <=> p = s.current
<1> DEFINE from == ValvePositionStep[s.current]
           to == ValvePositionStep[p]
           n == IF from < to THEN to - from ELSE from - to
           cw == from < to
<1>1. from \in Nat /\ to \in Nat /\ s.current \in AllPositions
  BY ValveAssumption, ValveFields
<1>2. from = to <=> p = s.current
  BY <1>1 DEF ValvePositionsDiffer
<1> HIDE DEF from, to
<1>3. n \in Nat /\ (n = 0 <=> from = to) /\ cw \in BOOLEAN
  BY <1>1
<1>4. MoveSteps(s, p) = [steps |-> n, clockwise |-> cw, reset |-> FALSE]
  BY DEF MoveSteps, from, to
<1> HIDE DEF n, cw
<1> QED BY <1>2, <1>3, <1>4 DEF StepRequests

\* A homing has its step to go.
LEMMA HomingFacts ==
    ASSUME NEW s \in Valves, ~s.stalled
    PROVE  LET t == EnterValveHoming(s) IN
           /\ ValveInv(t) /\ ~t.stalled
           /\ SameVote(s, t)
<1> DEFINE r == [steps |-> 1, clockwise |-> FALSE, reset |-> TRUE]
           t == [s EXCEPT !.state = "Homing", !.active = "Home", !.request = r]
<1>1. r \in StepRequests /\ r.steps = 1
  BY DEF StepRequests
<1>2. EnterValveHoming(s) = t
  BY DEF EnterValveHoming
<1> HIDE DEF r
<1>3. /\ t \in Valves /\ t.state = "Homing" /\ t.request = r /\ t.stalled = s.stalled
      /\ SameVote(s, t)
  BY <1>1 DEF Valves, AllPositions, SameVote
<1> HIDE DEF t
<1> QED BY <1>1, <1>2, <1>3 DEF ValveInv

\* A move has steps to go, unless it is one to the position the valve has.
LEMMA MoveFacts ==
    ASSUME NEW s \in Valves, ValvePositionsDiffer
    PROVE  LET t == BeginMove(s) IN
           /\ t \in Valves /\ t.state = "Moving" /\ t.active = Requested(s) /\ t.current = s.current
           /\ t.request.steps \in Nat /\ (t.request.steps = 0 <=> Requested(s) = s.current)
           /\ t.stalled => t.request.steps = 0
           /\ t.homingRequired = s.homingRequired /\ t.homingErd = s.homingErd
           /\ SameVote(s, t)
<1> DEFINE p == Requested(s)
           r == MoveSteps(s, p)
           stalls == r.steps = 0 /\ r = s.request
           t == [s EXCEPT !.state = "Moving", !.active = p, !.request = r, !.stalled = stalls]
<1>1. p \in AllPositions
  BY ResolvedPositionFacts
<1>2. BeginMove(s) = t
  BY DEF BeginMove
<1> HIDE DEF p
<1>3. r \in StepRequests /\ (r.steps = 0 <=> p = s.current)
  BY <1>1, MoveStepsFacts
<1>4. r.steps \in Nat
  BY <1>3 DEF StepRequests
<1> HIDE DEF r
<1>5. stalls \in BOOLEAN /\ (stalls => r.steps = 0)
  OBVIOUS
<1> HIDE DEF stalls
<1>6. /\ t \in Valves /\ t.state = "Moving" /\ t.active = p /\ t.current = s.current /\ t.request = r
      /\ t.stalled = stalls /\ t.homingRequired = s.homingRequired /\ t.homingErd = s.homingErd
      /\ SameVote(s, t)
  BY <1>1, <1>3, <1>5 DEF Valves, SameVote
<1> HIDE DEF t
<1> QED BY <1>2, <1>3, <1>4, <1>5, <1>6 DEF p

\* A valve that comes to rest looks at once for a newer vote.
LEMMA IdleFacts ==
    ASSUME NEW r \in Valves, ValvePositionsDiffer, r.state = "Idle", r.request.steps = 0,
           ~r.homingErd, ~r.homingRequired, ~r.stalled
    PROVE  LET t == EnterValveIdle(r) IN ValveInv(t) /\ ~t.stalled
<1>0. Requested(r) \in AllPositions
  BY ResolvedPositionFacts
<1>1. CASE r.current = Requested(r)
  <2>1. EnterValveIdle(r) = r
    BY <1>1 DEF EnterValveIdle
  <2> QED BY <1>1, <2>1 DEF ValveInv
<1>2. CASE r.current # Requested(r) /\ Requested(r) = "Home"
  <2>1. EnterValveIdle(r) = EnterValveHoming(r)
    BY <1>2 DEF EnterValveIdle
  <2> QED BY <2>1, HomingFacts
<1>3. CASE r.current # Requested(r) /\ Requested(r) # "Home"
  <2> DEFINE t == BeginMove(r)
  <2>1. EnterValveIdle(r) = t
    BY <1>3 DEF EnterValveIdle
  <2>2. /\ t \in Valves /\ t.state = "Moving" /\ t.request.steps \in Nat
        /\ (t.request.steps = 0 <=> Requested(r) = r.current)
        /\ (t.stalled => t.request.steps = 0)
        /\ t.homingErd = r.homingErd
    BY MoveFacts
  <2> HIDE DEF t
  <2>3. t.request.steps > 0
    BY <1>3, <2>2
  <2> QED BY <2>1, <2>2, <2>3 DEF ValveInv
<1> QED BY <1>1, <1>2, <1>3

\* The end of a homing or of a move.
LEMMA CompletionFacts ==
    ASSUME NEW s \in Valves, ValvePositionsDiffer, s.state # "Idle", ~s.stalled, s.request.steps = 0,
           s.state = "Moving" /\ s.homingErd => s.homingRequired
    PROVE  LET t == StepRequestCompleted(s) IN ValveInv(t) /\ ~t.stalled
<1> DEFINE required == s.homingRequired /\ s.state # "Homing"
           erd == s.homingErd /\ s.state # "Homing"
           r == [s EXCEPT !.previous = s.current, !.current = s.active, !.state = "Idle",
                          !.homingRequired = required, !.homingErd = erd]
<1>0. PositionReached(s) = r
  BY DEF PositionReached
<1>1. /\ required \in BOOLEAN /\ erd \in BOOLEAN
      /\ ~(s.state = "Moving" /\ s.homingRequired) => ~required /\ ~erd
  BY ValveFields
<1> HIDE DEF required, erd
<1>2. /\ r \in Valves /\ r.state = "Idle" /\ r.homingRequired = required /\ r.homingErd = erd
      /\ r.stalled = s.stalled /\ r.request = s.request
  BY <1>1, ZenonT(120) DEF Valves
<1> HIDE DEF r
<1>3. CASE s.state = "Moving" /\ s.homingRequired
  <2>1. StepRequestCompleted(s) = EnterValveHoming(r)
    BY <1>0, <1>3 DEF StepRequestCompleted
  <2> QED BY <1>2, <2>1, HomingFacts
<1>4. CASE ~(s.state = "Moving" /\ s.homingRequired)
  <2>1. StepRequestCompleted(s) = EnterValveIdle(r)
    BY <1>0, <1>4 DEF StepRequestCompleted
  <2>2. ~r.homingErd /\ ~r.homingRequired /\ ~r.stalled
    BY <1>1, <1>2, <1>4
  <2> QED BY <1>2, <2>1, <2>2, IdleFacts
<1> QED BY <1>3, <1>4

\* A vote of a valve: what it writes, and that only the vote for a position the
\* valve has, made by one that did not care, stalls it.
LEMMA ValveVoteFacts ==
    ASSUME NEW s \in Valves, ValveInv(st), ValvePositionsDiffer,
           s.state = st.state, s.active = st.active, s.current = st.current,
           s.homingRequired = st.homingRequired, s.homingErd = st.homingErd,
           s.request = st.request, s.stalled = st.stalled
    PROVE  /\ ValveInv(ValveVote(s))
           /\ ValveVote(s).stalled /\ ~st.stalled =>
                ResolvedPosition(ValveVote(s)).care # ResolvedPosition(st).care
<1>0. st \in Valves
  BY DEF ValveInv
<1>1. CASE ~(ResolvedPosition(s) # ResolvedPosition(st) /\ s.state = "Idle")
  <2>1. ValveVote(s) = s
    BY <1>1 DEF ValveVote
  <2>2. s.state = "Idle" => Requested(s) = Requested(st)
    BY <1>1 DEF Requested
  <2>3. ValveInv(s)
    BY <2>2 DEF ValveInv
  <2> QED BY <2>1, <2>3
<1>2. CASE ResolvedPosition(s) # ResolvedPosition(st) /\ s.state = "Idle"
  <2> DEFINE m == BeginMove(s)
  <2>1. ValveVote(s) = IF m.request.steps = 0 /\ ~m.stalled THEN StepRequestCompleted(m) ELSE m
    BY <1>2 DEF ValveVote, EnterValveMoving
  <2>2. /\ m \in Valves /\ m.state = "Moving" /\ m.active = Requested(s) /\ m.current = s.current
        /\ m.request.steps \in Nat /\ (m.request.steps = 0 <=> Requested(s) = s.current)
        /\ m.stalled => m.request.steps = 0
        /\ m.homingRequired = s.homingRequired /\ m.homingErd = s.homingErd
        /\ SameVote(s, m)
    BY MoveFacts
  <2> HIDE DEF m
  <2>3. ~s.homingErd /\ s.current = Requested(st)
    BY <1>2 DEF ValveInv
  <2>4. CASE m.request.steps = 0 /\ ~m.stalled
    <3>1. ValveInv(StepRequestCompleted(m)) /\ ~StepRequestCompleted(m).stalled
      BY <2>2, <2>3, <2>4, CompletionFacts
    <3> QED BY <2>1, <2>4, <3>1
  <2>5. CASE ~(m.request.steps = 0 /\ ~m.stalled)
    <3>1. ValveVote(s) = m
      BY <2>1, <2>5
    <3>2. m.request.steps = 0 \/ m.request.steps > 0
      BY <2>2
    <3>3. ValveInv(m)
      BY <2>2, <2>3, <2>5, <3>2 DEF ValveInv
    <3>4. ASSUME m.stalled
          PROVE  ResolvedPosition(m).care # ResolvedPosition(st).care
      <4>1. Requested(s) = Requested(st)
        BY <2>2, <2>3, <3>4
      <4>2. ResolvedPosition(s) = [position |-> Requested(s), care |-> ResolvedPosition(s).care]
        BY ResolvedPositionFacts
      <4>3. ResolvedPosition(st) = [position |-> Requested(st), care |-> ResolvedPosition(st).care]
        BY <1>0, ResolvedPositionFacts
      <4>4. ResolvedPosition(s).care # ResolvedPosition(st).care
        BY <1>2, <4>1, <4>2, <4>3
      <4>5. ResolvedPosition(m) = ResolvedPosition(s)
        BY <2>2, SameVoteIsRequested
      <4> QED BY <4>4, <4>5
    <3> QED BY <3>1, <3>3, <3>4
  <2> QED BY <2>4, <2>5
<1> QED BY <1>1, <1>2

\* Every step of the valve keeps its invariant and stalls it only by the care.
LEMMA ValveStep ==
    ASSUME ValveInv(st), ValvePositionsDiffer,
           PowerUpTimeEnds \/ ValveVotesChange \/ HomingIsRequested \/ ValveMotorStops
    PROVE  /\ ValveInv(st')
           /\ st'.stalled /\ ~st.stalled => ResolvedPosition(st).care # ResolvedPosition(st').care
<1>0. st \in Valves /\ NoPosition \in PositionVotes
  BY DEF ValveInv, PositionVotes
<1>1. ASSUME NEW s \in Valves, st' = ValveVote(s),
             s.state = st.state, s.active = st.active, s.current = st.current,
             s.homingRequired = st.homingRequired, s.homingErd = st.homingErd,
             s.request = st.request, s.stalled = st.stalled
      PROVE  /\ ValveInv(st')
             /\ st'.stalled /\ ~st.stalled => ResolvedPosition(st).care # ResolvedPosition(st').care
  BY <1>1, ValveVoteFacts
<1>2. CASE PowerUpTimeEnds
  <2> DEFINE s == [st EXCEPT !.powerUp = NoPosition, !.powerUpTimer = FALSE]
  <2>1. st' = ValveVote(s)
    BY <1>2 DEF PowerUpTimeEnds
  <2>2. s \in Valves
    BY <1>0 DEF Valves
  <2>3. /\ s.state = st.state /\ s.active = st.active /\ s.current = st.current
        /\ s.homingRequired = st.homingRequired /\ s.homingErd = st.homingErd
        /\ s.request = st.request /\ s.stalled = st.stalled
    BY <1>0 DEF Valves
  <2> HIDE DEF s
  <2> QED BY <1>1, <2>1, <2>2, <2>3
<1>3. ASSUME NEW p \in VotedPositions, st' = ValveVote([st EXCEPT !.valveGrid = p])
      PROVE  /\ ValveInv(st')
             /\ st'.stalled /\ ~st.stalled => ResolvedPosition(st).care # ResolvedPosition(st').care
  <2> DEFINE s == [st EXCEPT !.valveGrid = p]
  <2>0. p \in PositionVotes
    BY DEF PositionVotes, AllPositions
  <2>1. st' = ValveVote(s)
    BY <1>3
  <2>2. s \in Valves
    BY <1>0, <2>0 DEF Valves
  <2>3. /\ s.state = st.state /\ s.active = st.active /\ s.current = st.current
        /\ s.homingRequired = st.homingRequired /\ s.homingErd = st.homingErd
        /\ s.request = st.request /\ s.stalled = st.stalled
    BY <1>0 DEF Valves
  <2> HIDE DEF s
  <2> QED BY <1>1, <2>1, <2>2, <2>3
<1>4. ASSUME NEW p \in VotedPositions \union {NoPosition}, st' = ValveVote([st EXCEPT !.defrost = p])
      PROVE  /\ ValveInv(st')
             /\ st'.stalled /\ ~st.stalled => ResolvedPosition(st).care # ResolvedPosition(st').care
  <2> DEFINE s == [st EXCEPT !.defrost = p]
  <2>0. p \in PositionVotes
    BY DEF PositionVotes, AllPositions
  <2>1. st' = ValveVote(s)
    BY <1>4
  <2>2. s \in Valves
    BY <1>0, <2>0 DEF Valves
  <2>3. /\ s.state = st.state /\ s.active = st.active /\ s.current = st.current
        /\ s.homingRequired = st.homingRequired /\ s.homingErd = st.homingErd
        /\ s.request = st.request /\ s.stalled = st.stalled
    BY <1>0 DEF Valves
  <2> HIDE DEF s
  <2> QED BY <1>1, <2>1, <2>2, <2>3
<1>5. CASE HomingIsRequested
  <2> DEFINE s == [st EXCEPT !.homingErd = TRUE]
             t == [s EXCEPT !.homingRequired = TRUE]
  <2>1. st' = CASE s.state = "Idle" -> EnterValveHoming(s)
                [] s.state = "Moving" -> t
                [] s.state = "Homing" -> s
    BY <1>5 DEF HomingIsRequested
  <2>2. /\ s \in Valves /\ s.state = st.state /\ s.active = st.active /\ s.current = st.current
        /\ s.homingRequired = st.homingRequired /\ s.homingErd
        /\ s.request = st.request /\ s.stalled = st.stalled
    BY <1>0 DEF Valves
  <2> HIDE DEF s
  <2>3. /\ t \in Valves /\ t.state = s.state /\ t.active = s.active /\ t.current = s.current
        /\ t.homingRequired /\ t.homingErd = s.homingErd
        /\ t.request = s.request /\ t.stalled = s.stalled
    BY <2>2 DEF Valves
  <2> HIDE DEF t
  <2>4. s.state \in {"Idle", "Homing", "Moving"}
    BY <2>2, ValveFields
  <2>5. CASE s.state = "Idle"
    <3>1. st' = EnterValveHoming(s)
      BY <2>1, <2>5
    <3>2. ~s.stalled
      BY <2>2, <2>5 DEF ValveInv
    <3> QED BY <2>2, <3>1, <3>2, HomingFacts
  <2>6. CASE s.state = "Moving"
    <3>1. st' = t
      BY <2>1, <2>6
    <3> QED BY <2>2, <2>3, <2>6, <3>1 DEF ValveInv
  <2>7. CASE s.state = "Homing"
    <3>1. st' = s
      BY <2>1, <2>7
    <3> QED BY <2>2, <2>7, <3>1 DEF ValveInv
  <2> QED BY <2>4, <2>5, <2>6, <2>7
<1>6. CASE ValveMotorStops
  <2> DEFINE r == [st.request EXCEPT !.steps = 0]
             s == [st EXCEPT !.request = r]
  <2>1. st.request.steps > 0 /\ st' = StepRequestCompleted(s)
    BY <1>6 DEF ValveMotorStops
  <2>20. st.request \in StepRequests
    BY <1>0, ValveFields
  <2>2. r \in StepRequests
    BY <2>20 DEF StepRequests
  <2>21. r.steps = 0
    BY <2>20 DEF StepRequests
  <2> HIDE DEF r
  <2>3. /\ s \in Valves /\ s.state = st.state
        /\ s.homingRequired = st.homingRequired /\ s.homingErd = st.homingErd
        /\ s.stalled = st.stalled /\ s.request = r
    BY <1>0, <2>2 DEF Valves
  <2>31. s.request.steps = 0
    BY <2>3, <2>21
  <2> HIDE DEF s
  <2>4. ~st.stalled
    BY <2>1 DEF ValveInv
  <2>5. CASE s.state # "Idle"
    <3>1. s.state = "Moving" /\ s.homingErd => s.homingRequired
      BY <2>3 DEF ValveInv
    <3>2. ValveInv(StepRequestCompleted(s)) /\ ~StepRequestCompleted(s).stalled
      BY <2>3, <2>31, <2>4, <2>5, <3>1, CompletionFacts
    <3> QED BY <2>1, <3>2
  <2>6. CASE s.state = "Idle"
    BY <2>1, <2>3, <2>6 DEF ValveInv
  <2> QED BY <2>5, <2>6
<1> QED BY <1>2, <1>3, <1>4, <1>5, <1>6 DEF ValveVotesChange

-----------------------------------------------------------------------------
(* Every unit of the sealed system.                                        *)
SealedInv ==
    /\ unit = "compressor" => CompressorInv(st)
    /\ unit = "compressor driver" => DriveInv(st)
    /\ unit = "compressor fault" => FaultInv(st)
    /\ unit = "valve" => ValveInv(st)

SealedSystemSpec == SealedSystemInit /\ [][SealedSystemNext]_unitVars

LEMMA CompressorStarts ==
    ASSUME CompressorInit
    PROVE  CompressorInv(st)
<1>1. PICK single \in BOOLEAN, sabbath \in BOOLEAN :
        st = [factory |-> NoSpeed, startup |-> NoSpeed, system |-> NoSpeed,
              minimum |-> NoSpeed, delay |-> NoSpeed, grid |-> NoSpeed,
              startPrevious |-> "Off", minPrevious |-> "Off",
              startTimer |-> FALSE, minTimer |-> FALSE, delayTimer |-> FALSE,
              hearsValve |-> FALSE, fanVotes |-> FALSE, single |-> single,
              sabbath |-> sabbath, delayPrevious |-> "Off", sabbathTimer |-> FALSE,
              delayed |-> "Off", isOn |-> FALSE]
  BY DEF CompressorInit
<1>2. NoSpeed \in Votes /\ "Off" \in Votes
  BY DEF Votes, CompressorSpeeds
<1>3. /\ st \in Compressors /\ st.startup = NoSpeed /\ st.minimum = NoSpeed /\ st.delay = NoSpeed
      /\ st.factory = NoSpeed /\ st.system = NoSpeed /\ st.grid = NoSpeed
      /\ st.startPrevious = "Off" /\ st.minPrevious = "Off"
      /\ ~st.startTimer /\ ~st.minTimer /\ ~st.delayTimer /\ ~st.fanVotes /\ ~st.isOn
      /\ st.delayPrevious = "Off" /\ ~st.sabbathTimer /\ st.delayed = "Off"
  <2> HIDE DEF NoSpeed, Votes
  <2> QED BY <1>1, <1>2 DEF Compressors
<1>4. ResolvedSpeed(st) = "Off"
  BY <1>3, ResolvedIsOutcome DEF Outcome
<1> QED BY <1>3, <1>4 DEF CompressorInv, Current, Publishable, Sides, Held

LEMMA ValveStarts ==
    ASSUME ValveInit
    PROVE  ValveInv(st)
<1> DEFINE r == [steps |-> 0, clockwise |-> FALSE, reset |-> FALSE]
           s == [state |-> "Idle", active |-> "Home", current |-> "Home", previous |-> "Home",
                 powerUp |-> ServicePosition, defrost |-> NoPosition, valveGrid |-> NoPosition,
                 powerUpTimer |-> TRUE, homingRequired |-> FALSE, homingErd |-> FALSE,
                 request |-> r, stalled |-> FALSE]
<1>1. st = EnterValveHoming(s)
  BY DEF ValveInit
<1>2. r \in StepRequests
  BY DEF StepRequests
<1> HIDE DEF r
<1>3. ServicePosition \in PositionVotes /\ NoPosition \in PositionVotes /\ "Home" \in AllPositions
  BY ValveAssumption DEF PositionVotes, AllPositions
<1> HIDE DEF PositionVotes, AllPositions, NoPosition
<1>4. s \in Valves /\ ~s.stalled
  BY <1>2, <1>3 DEF Valves
<1> HIDE DEF s
<1> QED BY <1>1, <1>4, HomingFacts

LEMMA SealedInvHolds ==
    ASSUME ValvePositionsDiffer
    PROVE  SealedSystemSpec => []SealedInv
<1>1. SealedSystemInit => SealedInv
  <2> SUFFICES ASSUME SealedSystemInit PROVE SealedInv
    OBVIOUS
  <2>1. CASE CompressorInit
    <3>1. unit = "compressor"
      BY <2>1 DEF CompressorInit
    <3> QED BY <2>1, <3>1, CompressorStarts DEF SealedInv
  <2>2. CASE DriverOfCompressorInit
    <3>1. unit = "compressor driver"
      BY <2>2 DEF DriverOfCompressorInit
    <3>2. "Off" \in DriverSpeeds /\ "Off" \in DriverModes /\ <<"Off">> \in Frequencies
      BY DEF DriverSpeeds, DriverModes, Frequencies
    <3>3. DriveInv(st)
      <4>1. PICK single, relayEnabled, dependent \in BOOLEAN :
              st = [speed |-> "Off", mode |-> "Off", zone |-> "Warm", single |-> single,
                    relayEnabled |-> relayEnabled, dependent |-> dependent,
                    relay |-> FALSE, frequency |-> <<"Off">>, on |-> FALSE]
        BY <2>2 DEF DriverOfCompressorInit
      <4>2. st \in Drives
        BY <3>2, <4>1 DEF Drives
      <4> QED BY <4>1, <4>2 DEF DriveInv
    <3> QED BY <3>1, <3>3 DEF SealedInv
  <2>3. CASE CompressorFaultInit
    <3>1. unit = "compressor fault"
      BY <2>3 DEF CompressorFaultInit
    <3>2. FaultInv(st)
      <4>1. PICK isOn, coolingOff \in BOOLEAN :
              st = [isOn |-> isOn, coolingOff |-> coolingOff, cycled |-> FALSE,
                    timer |-> IF isOn \/ coolingOff THEN "none" ELSE "resting",
                    runFault |-> FALSE, offFault |-> FALSE]
        BY <2>3 DEF CompressorFaultInit
      <4>2. st \in FaultHandlers
        BY <4>1 DEF FaultHandlers
      <4> QED BY <4>1, <4>2 DEF FaultInv
    <3> QED BY <3>1, <3>2 DEF SealedInv
  <2>4. CASE ValveInit
    <3>1. unit = "valve"
      BY <2>4 DEF ValveInit
    <3> QED BY <2>4, <3>1, ValveStarts DEF SealedInv
  <2> QED BY <2>1, <2>2, <2>3, <2>4 DEF SealedSystemInit
<1>2. SealedInv /\ [SealedSystemNext]_unitVars => SealedInv'
  <2> SUFFICES ASSUME SealedInv, [SealedSystemNext]_unitVars PROVE SealedInv'
    OBVIOUS
  <2>1. CASE CompressorNext
    <3>1. unit = "compressor" /\ unit' = unit
      BY <2>1 DEF CompressorNext, SystemVotes, GridVotes, ValveVoteChanges, StartupTimeEnds,
                  MinimumTimeEnds, ValveDelayEnds, SabbathModeChanges, CompressorDelayEnds, Runs
    <3>2. \E v : Written(v)
      BY <2>1, <3>1, CompressorStep DEF SealedInv
    <3>3. CompressorInv(st')
      BY <3>2 DEF Written
    <3> QED BY <3>1, <3>3 DEF SealedInv
  <2>2. CASE CompressorSpeedChanges \/ DriverReadingsChange
    <3>1. unit = "compressor driver" /\ unit' = unit
      BY <2>2 DEF CompressorSpeedChanges, DriverReadingsChange, Runs
    <3>2. DriveInv(st')
      BY <2>2, <3>1, DriveStep DEF SealedInv
    <3> QED BY <3>1, <3>2 DEF SealedInv
  <2>3. CASE FaultInputsChange \/ FaultTimeEnds
    <3>1. unit = "compressor fault" /\ unit' = unit
      BY <2>3 DEF FaultInputsChange, FaultTimeEnds, Runs
    <3>2. FaultInv(st')
      BY <2>3, <3>1, FaultStep DEF SealedInv
    <3> QED BY <3>1, <3>2 DEF SealedInv
  <2>4. CASE PowerUpTimeEnds \/ ValveVotesChange \/ HomingIsRequested \/ ValveMotorStops
    <3>1. unit = "valve" /\ unit' = unit
      BY <2>4 DEF PowerUpTimeEnds, ValveVotesChange, HomingIsRequested, ValveMotorStops, Runs
    <3>2. ValveInv(st')
      BY <2>4, <3>1, ValveStep DEF SealedInv
    <3> QED BY <3>1, <3>2 DEF SealedInv
  <2>5. CASE UNCHANGED unitVars
    BY <2>5 DEF unitVars, SealedInv
  <2> QED BY <2>1, <2>2, <2>3, <2>4, <2>5 DEF SealedSystemNext
<1> QED BY <1>1, <1>2, PTL DEF SealedSystemSpec

\* Compressor, drive, fault handler and valve end every chain of nested events
\* in agreement with the votes that are current then, whatever the positions of
\* the valve are, if no two of them are the same.
THEOREM SealedSystemStaysInStep ==
    ASSUME ValvePositionsDiffer
    PROVE  SealedSystemSpec => []SealedSystemIsInStep
<1>1. SealedInv => SealedSystemIsInStep
  <2> SUFFICES ASSUME SealedInv PROVE SealedSystemIsInStep
    OBVIOUS
  <2>1. CompressorVotesAreCurrent
    <3>1. unit = "compressor" => st \in Compressors
      BY DEF SealedInv, CompressorInv, Current, Publishable
    <3>2. unit = "compressor" => st.isOn \in BOOLEAN /\ st.sabbathTimer \in BOOLEAN
      BY <3>1, CompressorFields
    <3> QED BY <3>2 DEF CompressorVotesAreCurrent, VotedOn, SealedInv, CompressorInv, Current,
                        Publishable, Sides, Held
  <2>2. CompressorDriveIsConsistent
    BY DEF CompressorDriveIsConsistent, SealedInv, DriveInv, Drives
  <2>3. RestingCompressorIsReported
    BY DEF RestingCompressorIsReported, SealedInv, FaultInv
  <2>4. ValveFollowsItsVotes
    BY DEF ValveFollowsItsVotes, SealedInv, ValveInv
  <2> QED BY <2>1, <2>2, <2>3, <2>4 DEF SealedSystemIsInStep
<1>2. SealedSystemSpec => []SealedInv
  BY SealedInvHolds
<1> QED BY <1>1, <1>2, PTL

\* Nobody but a vote that is meant to override it ends the compressor's minimum
\* time early, and nothing but the change between the default vote and a vote
\* for the same position stalls the valve.
THEOREM SealedSystemStaysSpared ==
    ASSUME ValvePositionsDiffer
    PROVE  SealedSystemSpec => SealedSystemIsSpared
<1> DEFINE Cycled == unit = "compressor" =>
                        /\ st.minTimer /\ (VotedOn(st') # VotedOn(st)) =>
                              \/ {st'.factory, st'.startup, st'.system} # {NoSpeed}
                              \/ MinimumTimeEnds
                        /\ st'.isOn # st.isOn =>
                              \/ VotedOn(st') # VotedOn(st)
                              \/ CompressorDelayEnds /\ st'.isOn
           Stalls == unit = "valve" /\ st'.stalled /\ ~st.stalled =>
                        ResolvedPosition(st).care # ResolvedPosition(st').care
<1>1. SealedInv /\ [SealedSystemNext]_unitVars => [Cycled]_unitVars /\ [Stalls]_unitVars
  <2> SUFFICES ASSUME SealedInv, SealedSystemNext PROVE Cycled /\ Stalls
    OBVIOUS
  <2>1. CASE CompressorNext
    <3>1. unit = "compressor"
      BY <2>1 DEF CompressorNext, SystemVotes, GridVotes, ValveVoteChanges, StartupTimeEnds,
                  MinimumTimeEnds, ValveDelayEnds, SabbathModeChanges, CompressorDelayEnds, Runs
    <3>2. PICK v : Written(v)
      BY <2>1, <3>1, CompressorStep DEF SealedInv
    <3>3. /\ st \in Compressors /\ Current(st) /\ Held(st)
          /\ st' \in Compressors /\ Current(st') /\ Held(st')
      BY <3>1, <3>2 DEF SealedInv, Written, CompressorInv, Current, Publishable, Sides
    <3>4. /\ VotedOn(st) <=> st.minPrevious # "Off"
          /\ VotedOn(st') <=> st'.minPrevious # "Off"
          /\ VotedOn(st) \in BOOLEAN /\ VotedOn(st') \in BOOLEAN
      BY <3>3 DEF Current, VotedOn
    <3>5. ASSUME st.minTimer, ~MinimumTimeEnds, {st'.factory, st'.startup, st'.system} = {NoSpeed}
          PROVE  VotedOn(st') = VotedOn(st)
      <4>1. Publishable(v) /\ v.minTimer /\ v.factory = NoSpeed /\ v.startup = NoSpeed /\ v.system = NoSpeed
        BY <3>2, <3>5 DEF Written
      <4>2. ResolvedSpeed(v) = "Off" <=> v.minPrevious = "Off"
        BY <4>1, MinimumTimeProtects
      <4> QED BY <3>2, <3>4, <4>2 DEF Written
    <3>6. ASSUME st'.isOn # st.isOn, VotedOn(st') = VotedOn(st)
          PROVE  CompressorDelayEnds /\ st'.isOn
      <4>1. /\ st.isOn <=> VotedOn(st) /\ ~st.sabbathTimer
            /\ st'.isOn <=> VotedOn(st') /\ ~st'.sabbathTimer
            /\ st.isOn \in BOOLEAN /\ st'.isOn \in BOOLEAN
        BY <3>3, CompressorFields DEF Current, Held, VotedOn
      <4>2. /\ st.sabbathTimer => st'.sabbathTimer \/ CompressorDelayEnds
            /\ st'.sabbathTimer => st.sabbathTimer \/ (st.minPrevious = "Off" /\ st'.minPrevious # "Off")
        BY <3>2 DEF Written
      <4> QED BY <3>4, <3>6, <4>1, <4>2
    <3>7. Stalls
      BY <3>1
    <3>8. Cycled
      BY <3>5, <3>6
    <3> QED BY <3>7, <3>8
  <2>2. CASE PowerUpTimeEnds \/ ValveVotesChange \/ HomingIsRequested \/ ValveMotorStops
    <3>1. unit = "valve"
      BY <2>2 DEF PowerUpTimeEnds, ValveVotesChange, HomingIsRequested, ValveMotorStops, Runs
    <3>2. Stalls
      BY <2>2, <3>1, ValveStep DEF SealedInv
    <3> QED BY <3>1, <3>2
  <2>3. CASE \/ CompressorSpeedChanges \/ DriverReadingsChange
             \/ FaultInputsChange \/ FaultTimeEnds
    <3>1. unit \in {"compressor driver", "compressor fault"}
      BY <2>3 DEF CompressorSpeedChanges, DriverReadingsChange, FaultInputsChange, FaultTimeEnds, Runs
    <3> QED BY <3>1
  <2> QED BY <2>1, <2>2, <2>3 DEF SealedSystemNext
<1>2. SealedSystemSpec => []SealedInv
  BY SealedInvHolds
<1> QED BY <1>1, <1>2, PTL DEF SealedSystemSpec, SealedSystemIsSpared, CompressorIsNotShortCycled, OnlyTheDefaultVoteStallsTheValve

-----------------------------------------------------------------------------
(***************************************************************************)
(* FansAndDampers: the fan's control, its fault handler, the anti-sweat    *)
(* heater, and the damper's freeze prevention, cycling and heater.         *)
(***************************************************************************)

-----------------------------------------------------------------------------
(* The fan's control.                                                      *)

FanFields ==
    {"vote", "mode", "zone", "cares", "setpoint", "control", "pwm", "pwmTimer", "pid", "previousIsRpm"}

Fan(s) == s = [f \in FanFields |-> s[f]]

\* With what the controller remembers of the entry before.
FanInv(s) ==
    /\ Fan(s)
    /\ s.control = FanControlFor(s) /\ s.pwm = s.control
    /\ s.pwmTimer <=> IsRpm(s.control)
    /\ s.previousIsRpm \in BOOLEAN /\ (s.previousIsRpm <=> IsRpm(s.control))
    /\ ~IsRpm(s.control) => s.pid = "fresh"

\* The entry depends on nothing that the controller writes.
LEMMA FanControlFollows ==
    ASSUME NEW s, NEW t, t.vote = s.vote, t.mode = s.mode, t.zone = s.zone, t.cares = s.cares,
           t.setpoint = s.setpoint
    PROVE  FanControlFor(t) = FanControlFor(s)
<1>1. CoolingModeFanSpeedWithSetpoint(t) = CoolingModeFanSpeedWithSetpoint(s)
  BY DEF CoolingModeFanSpeedWithSetpoint, FanControlFromCoolingModeAndFreezerSetpoint
<1>2. CoolingModeFanSpeedWithoutSetpoint(t) = CoolingModeFanSpeedWithoutSetpoint(s)
  BY DEF CoolingModeFanSpeedWithoutSetpoint
<1> QED BY <1>1, <1>2 DEF FanControlFor, VotedSpeedIsCustomSpeedInRpm

LEMMA UpdatePwmKeeps ==
    ASSUME NEW s, Fan(s), s.control = FanControlFor(s), s.pwmTimer <=> IsRpm(s.control),
           s.previousIsRpm \in BOOLEAN,
           ~IsRpm(s.control) => s.previousIsRpm \/ s.pid = "fresh"
    PROVE  FanInv(UpdatePwm(s))
<1> DEFINE rpm == IsRpm(s.control)
           control == s.control
           pid == CASE rpm -> "used" [] ~rpm /\ s.previousIsRpm -> "fresh" [] OTHER -> s.pid
           t == [s EXCEPT !.pid = pid, !.previousIsRpm = rpm, !.pwm = control]
<1>1. UpdatePwm(s) = t
  BY DEF UpdatePwm
<1>2. ~rpm => pid = "fresh"
  <2>1. CASE s.previousIsRpm
    BY <2>1
  <2>2. CASE ~s.previousIsRpm
    BY <2>2
  <2> QED BY <2>1, <2>2
<1>3. rpm = IsRpm(control) /\ control = s.control
  OBVIOUS
<1>30. rpm \in BOOLEAN
  BY DEF IsRpm
<1> HIDE DEF rpm, pid, control
<1>4. t = [f \in FanFields |-> t[f]]
  BY DEF Fan, FanFields
<1>5. /\ t.control = s.control /\ t.pwm = control /\ t.pwmTimer = s.pwmTimer /\ t.pid = pid
      /\ t.vote = s.vote /\ t.mode = s.mode /\ t.zone = s.zone /\ t.cares = s.cares /\ t.setpoint = s.setpoint
  BY DEF Fan, FanFields
<1>6. t.previousIsRpm = rpm
  BY DEF Fan, FanFields
<1> HIDE DEF t
<1>7. FanControlFor(t) = FanControlFor(s)
  BY <1>5, FanControlFollows
<1> QED BY <1>1, <1>2, <1>3, <1>30, <1>4, <1>5, <1>6, <1>7 DEF FanInv, Fan

LEMMA RunFanKeeps ==
    ASSUME NEW s, Fan(s), s.control = FanControlFor(s), s.previousIsRpm \in BOOLEAN,
           ~s.previousIsRpm => s.pid = "fresh"
    PROVE  FanInv(RunFanBasedOnFanControlType(s))
<1> DEFINE rpm == IsRpm(s.control)
           t == [s EXCEPT !.pwmTimer = rpm]
<1>1. RunFanBasedOnFanControlType(s) = UpdatePwm(t)
  BY DEF RunFanBasedOnFanControlType
<1>2. rpm = IsRpm(s.control)
  OBVIOUS
<1> HIDE DEF rpm
<1>3. /\ Fan(t) /\ t.control = s.control /\ t.pwmTimer = rpm /\ t.pid = s.pid /\ t.previousIsRpm = s.previousIsRpm
      /\ t.vote = s.vote /\ t.mode = s.mode /\ t.zone = s.zone /\ t.cares = s.cares /\ t.setpoint = s.setpoint
  BY DEF Fan, FanFields
<1> HIDE DEF t
<1>4. FanControlFor(t) = FanControlFor(s)
  BY <1>3, FanControlFollows
<1> QED BY <1>1, <1>2, <1>3, <1>4, UpdatePwmKeeps

LEMMA FanStarts == FanInit => FanInv(st)
<1> SUFFICES ASSUME FanInit PROVE FanInv(st)
  OBVIOUS
<1>1. PICK off : off = <<"Off">>
  OBVIOUS
<1>2. PICK cares \in BOOLEAN, setpoint \in BOOLEAN, mode \in FanModes, zone \in SetpointZones :
        st = RunFanBasedOnFanControlType(
               [vote |-> "Off", mode |-> mode, zone |-> zone, cares |-> cares,
                setpoint |-> setpoint, control |-> off, pwm |-> off,
                pwmTimer |-> FALSE, pid |-> "fresh", previousIsRpm |-> FALSE])
  BY <1>1, ZenonT(120) DEF FanInit
<1> DEFINE no == FALSE
           s == [vote |-> "Off", mode |-> mode, zone |-> zone, cares |-> cares,
                 setpoint |-> setpoint, control |-> off, pwm |-> off,
                 pwmTimer |-> FALSE, pid |-> "fresh", previousIsRpm |-> FALSE]
<1>3. Fan(s)
  BY DEF Fan, FanFields
<1>4. s.vote = "Off" /\ s.mode = mode /\ s.cares = cares /\ s.setpoint = setpoint /\ s.control = off /\ s.pid = "fresh"
  OBVIOUS
<1>5. s.previousIsRpm = FALSE
  OBVIOUS
<1>6. st = RunFanBasedOnFanControlType(s)
  BY <1>2
<1> HIDE DEF s
<1>7. FanControlFor(s) = off
  <2>1. ~VotedSpeedIsCustomSpeedInRpm(s)
    BY <1>4 DEF VotedSpeedIsCustomSpeedInRpm
  <2>2. CoolingModeFanSpeedWithSetpoint(s) = off
    BY <1>1, <1>4 DEF CoolingModeFanSpeedWithSetpoint
  <2>3. CoolingModeFanSpeedWithoutSetpoint(s) = off
    BY <1>1, <1>4 DEF CoolingModeFanSpeedWithoutSetpoint
  <2>4. CASE ~s.cares
    BY <1>1, <1>4, <2>1, <2>4 DEF FanControlFor
  <2>5. CASE s.cares /\ s.setpoint
    BY <2>1, <2>2, <2>5 DEF FanControlFor
  <2>6. CASE s.cares /\ ~s.setpoint
    BY <2>1, <2>3, <2>6 DEF FanControlFor
  <2> QED BY <2>4, <2>5, <2>6
<1> QED BY <1>3, <1>4, <1>5, <1>6, <1>7, RunFanKeeps

LEMMA CalculateFanControlKeeps ==
    ASSUME NEW s, FanInv(s), NEW v, NEW m, NEW z
    PROVE  FanInv(CalculateFanControl([s EXCEPT !.vote = v, !.mode = m, !.zone = z]))
<1> DEFINE r == [s EXCEPT !.vote = v, !.mode = m, !.zone = z]
           control == FanControlFor(r)
           t == [r EXCEPT !.control = control]
<1>1. CalculateFanControl(r) = IF control = r.control THEN r ELSE RunFanBasedOnFanControlType(t)
  BY DEF CalculateFanControl
<1>2. /\ Fan(r) /\ r.control = s.control /\ r.pwm = s.pwm /\ r.pwmTimer = s.pwmTimer /\ r.pid = s.pid
      /\ r.previousIsRpm = s.previousIsRpm
  BY DEF FanInv, Fan, FanFields
<1> HIDE DEF r, control
<1>3. /\ Fan(t) /\ t.control = control /\ t.pid = r.pid /\ t.previousIsRpm = r.previousIsRpm
      /\ t.vote = r.vote /\ t.mode = r.mode /\ t.zone = r.zone /\ t.cares = r.cares /\ t.setpoint = r.setpoint
  BY <1>2 DEF Fan, FanFields
<1> HIDE DEF t
<1>4. FanControlFor(t) = control
  BY <1>3, FanControlFollows DEF control
<1>5. CASE control = r.control
  <2>1. FanInv(r)
    BY <1>2, <1>5 DEF FanInv, control
  <2> QED BY <1>1, <1>5, <2>1 DEF r
<1>6. CASE control # r.control
  <2>1. t.previousIsRpm \in BOOLEAN /\ (~t.previousIsRpm => t.pid = "fresh")
    BY <1>2, <1>3 DEF FanInv
  <2>2. FanInv(RunFanBasedOnFanControlType(t))
    BY <1>3, <1>4, <2>1, RunFanKeeps
  <2> QED BY <1>1, <1>6, <2>2 DEF r
<1> QED BY <1>5, <1>6

LEMMA FanStep ==
    ASSUME FanInv(st), FanInputsChange \/ PwmPeriodEnds
    PROVE  FanInv(st')
<1>1. CASE FanInputsChange
  <2>1. PICK s \in {[st EXCEPT !.vote = v] : v \in FanSpeeds}
                   \union {[st EXCEPT !.mode = m] : m \in FanModes}
                   \union {[st EXCEPT !.zone = z] : z \in SetpointZones} :
           st' = CalculateFanControl(s)
    BY <1>1 DEF FanInputsChange
  <2> DEFINE Changed(v, m, z) == [st EXCEPT !.vote = v, !.mode = m, !.zone = z]
  <2>2. \E v, m, z : s = Changed(v, m, z)
    <3>1. \A v : [st EXCEPT !.vote = v] = Changed(v, st.mode, st.zone)
      BY DEF FanInv, Fan, FanFields
    <3>2. \A m : [st EXCEPT !.mode = m] = Changed(st.vote, m, st.zone)
      BY DEF FanInv, Fan, FanFields
    <3>3. \A z : [st EXCEPT !.zone = z] = Changed(st.vote, st.mode, z)
      BY DEF FanInv, Fan, FanFields
    <3> HIDE DEF Changed
    <3>4. \/ \E v \in FanSpeeds : s = [st EXCEPT !.vote = v]
          \/ \E m \in FanModes : s = [st EXCEPT !.mode = m]
          \/ \E z \in SetpointZones : s = [st EXCEPT !.zone = z]
      BY <2>1
    <3>5. CASE \E v \in FanSpeeds : s = [st EXCEPT !.vote = v]
      <4>1. PICK v : s = [st EXCEPT !.vote = v]
        BY <3>5
      <4>2. s = Changed(v, st.mode, st.zone)
        BY <3>1, <4>1
      <4> QED BY <4>2
    <3>6. CASE \E m \in FanModes : s = [st EXCEPT !.mode = m]
      <4>1. PICK m : s = [st EXCEPT !.mode = m]
        BY <3>6
      <4>2. s = Changed(st.vote, m, st.zone)
        BY <3>2, <4>1
      <4> QED BY <4>2
    <3>7. CASE \E z \in SetpointZones : s = [st EXCEPT !.zone = z]
      <4>1. PICK z : s = [st EXCEPT !.zone = z]
        BY <3>7
      <4>2. s = Changed(st.vote, st.mode, z)
        BY <3>3, <4>1
      <4> QED BY <4>2
    <3> QED BY <3>4, <3>5, <3>6, <3>7
  <2> QED BY <2>1, <2>2, CalculateFanControlKeeps
<1>2. CASE PwmPeriodEnds
  BY <1>2, UpdatePwmKeeps DEF PwmPeriodEnds, FanInv
<1> QED BY <1>1, <1>2

-----------------------------------------------------------------------------
(* The fault of a fan.                                                     *)

FaultFields ==
    {"control", "previous", "feedback", "pwm", "missing", "present", "target", "missingFault",
     "presentFault", "targetFault", "deaf", "loud", "strained"}

\* The control that was checked last has reset the counter of its target if it
\* has no target speed.
FanFaultInv(s) ==
    /\ s = [f \in FaultFields |-> s[f]]
    /\ s.control \in FaultControls /\ s.previous \in FaultControls
    /\ {s.missing, s.deaf, s.present, s.loud, s.target, s.strained} \subseteq Nat
    /\ s.feedback \in {0, 1} /\ s.targetFault \in BOOLEAN
    /\ s.missing <= s.deaf /\ s.present <= s.loud /\ s.target <= s.strained
    /\ s.targetFault => s.strained >= FanFaultTimeout
    /\ s.previous[1] = "Duty" => s.target = 0 /\ ~s.targetFault

LEMMA CountFacts ==
    ASSUME NEW a \in Nat, NEW b \in Nat, a <= b
    PROVE  CountCheck(a) \in Nat /\ CountCheck(a) <= CountCheck(b) /\ b <= CountCheck(b)
BY FansAssumption DEF CountCheck

LEMMA FaultControlFacts ==
    ASSUME NEW c \in FaultControls
    PROVE  /\ c[1] \in {"Rpm", "Duty"}
           /\ c = <<"Duty", 0>> => c[1] = "Duty"
BY DEF FaultControls

LEMMA FaultStarts == FanFaultInit => FanFaultInv(st)
<1> SUFFICES ASSUME FanFaultInit PROVE FanFaultInv(st)
  OBVIOUS
<1>1. PICK control \in FaultControls :
        st = [control |-> control, previous |-> control, feedback |-> 0, pwm |-> "low",
              missing |-> 0, present |-> 0, target |-> 0, missingFault |-> FALSE,
              presentFault |-> FALSE, targetFault |-> FALSE,
              deaf |-> 0, loud |-> 0, strained |-> 0]
  BY DEF FanFaultInit
<1> HIDE DEF FaultControls
<1>2. st = [f \in FaultFields |-> st[f]]
  BY <1>1 DEF FaultFields
<1>3. st.control = control
  BY <1>1
<1>4. st.previous = control
  BY <1>1
<1>5. st.missing = 0 /\ st.deaf = 0
  BY <1>1
<1>6. st.present = 0 /\ st.loud = 0
  BY <1>1
<1>7. st.target = 0 /\ st.strained = 0
  BY <1>1
<1>8. st.feedback = 0 /\ st.targetFault = FALSE
  BY <1>1
<1>9. {st.missing, st.deaf, st.present, st.loud, st.target, st.strained} \subseteq Nat
      /\ st.missing <= st.deaf /\ st.present <= st.loud /\ st.target <= st.strained
  BY <1>5, <1>6, <1>7
<1> QED BY <1>2, <1>3, <1>4, <1>7, <1>8, <1>9 DEF FanFaultInv

LEMMA InputsKeepFaults ==
    ASSUME FanFaultInv(st), FanFaultInputsChange
    PROVE  FanFaultInv(st')
<1>1. ASSUME NEW c \in FaultControls, st' = [st EXCEPT !.control = c]
      PROVE  FanFaultInv(st')
  BY <1>1 DEF FanFaultInv, FaultFields
<1>2. ASSUME st' = [st EXCEPT !.feedback = 1 - @]
      PROVE  FanFaultInv(st')
  BY <1>2 DEF FanFaultInv, FaultFields
<1>3. ASSUME NEW p, st' = [st EXCEPT !.pwm = p]
      PROVE  FanFaultInv(st')
  BY <1>3 DEF FanFaultInv, FaultFields
<1>4. \/ \E c \in FaultControls : st' = [st EXCEPT !.control = c]
      \/ st' = [st EXCEPT !.feedback = 1 - @]
      \/ \E p \in {"low", "between", "max"} : st' = [st EXCEPT !.pwm = p]
  BY DEF FanFaultInputsChange
<1>5. CASE \E c \in FaultControls : st' = [st EXCEPT !.control = c]
  <2>1. PICK c \in FaultControls : st' = [st EXCEPT !.control = c]
    BY <1>5
  <2> QED BY <1>1, <2>1
<1>6. CASE \E p \in {"low", "between", "max"} : st' = [st EXCEPT !.pwm = p]
  <2>1. PICK p : st' = [st EXCEPT !.pwm = p]
    BY <1>6
  <2> QED BY <1>3, <2>1
<1> QED BY <1>2, <1>4, <1>5, <1>6

\* The three checks, field by field.
LEMMA MissingFacts ==
    ASSUME NEW s, s = [f \in FaultFields |-> s[f]], s.control[1] \in {"Rpm", "Duty"}, s.feedback \in {0, 1}
    PROVE  LET t == CheckMissingFeedbackWhenOn(s)
           IN  /\ t = [f \in FaultFields |-> t[f]]
               /\ t.missing = IF s.control[1] = "Rpm" /\ s.feedback = 0 THEN CountCheck(s.missing) ELSE 0
               /\ \A f \in FaultFields \ {"missing", "missingFault"} : t[f] = s[f]
<1>1. CASE s.control[1] = "Rpm" /\ s.feedback = 0
  <2> DEFINE count == CountCheck(s.missing)
             fault == s.missingFault \/ count >= FanFaultTimeout
  <2>1. CheckMissingFeedbackWhenOn(s) = [s EXCEPT !.missing = count, !.missingFault = fault]
    BY <1>1 DEF CheckMissingFeedbackWhenOn
  <2>2. count = CountCheck(s.missing)
    OBVIOUS
  <2> HIDE DEF count, fault
  <2> QED BY <1>1, <2>1, <2>2 DEF FaultFields
<1>2. CASE s.control[1] = "Rpm" /\ s.feedback = 1
  <2> DEFINE no == FALSE
             t == [s EXCEPT !.missing = 0, !.missingFault = no]
  <2>1. CheckMissingFeedbackWhenOn(s) = t
    BY <1>2 DEF CheckMissingFeedbackWhenOn
  <2> HIDE DEF no
  <2>2. t = [f \in FaultFields |-> t[f]] /\ t.missing = 0
        /\ \A f \in FaultFields \ {"missing", "missingFault"} : t[f] = s[f]
    BY DEF FaultFields
  <2> HIDE DEF t
  <2> QED BY <1>2, <2>1, <2>2
<1>3. CASE s.control[1] = "Duty"
  <2>1. CheckMissingFeedbackWhenOn(s) = [s EXCEPT !.missing = 0]
    BY <1>3 DEF CheckMissingFeedbackWhenOn
  <2> QED BY <1>3, <2>1 DEF FaultFields
<1> QED BY <1>1, <1>2, <1>3

LEMMA PresentFacts ==
    ASSUME NEW s, s = [f \in FaultFields |-> s[f]], s.control \in FaultControls, s.feedback \in {0, 1}
    PROVE  LET t == CheckFeedbackPresentWhenOff(s)
           IN  /\ t = [f \in FaultFields |-> t[f]]
               /\ t.present = CASE s.control[1] = "Rpm" \/ (s.control = <<"Duty", 0>> /\ s.feedback = 0) -> 0
                                [] s.control = <<"Duty", 0>> /\ s.feedback > 0 -> CountCheck(s.present)
                                [] OTHER -> s.present
               /\ \A f \in FaultFields \ {"present", "presentFault"} : t[f] = s[f]
<1> DEFINE idle == <<"Duty", 0>>
<1>0. s.control[1] \in {"Rpm", "Duty"} /\ (s.control = idle => s.control[1] = "Duty")
  BY FaultControlFacts
<1>00. CheckFeedbackPresentWhenOff(s) =
         CASE s.control[1] = "Rpm" -> [s EXCEPT !.present = 0]
           [] s.control = idle /\ s.feedback > 0 ->
                [s EXCEPT !.present = CountCheck(@),
                          !.presentFault = @ \/ CountCheck(s.present) >= FanFaultTimeout]
           [] s.control = idle /\ s.feedback = 0 ->
                [s EXCEPT !.present = 0, !.presentFault = FALSE]
           [] OTHER -> s
  BY DEF CheckFeedbackPresentWhenOff
<1> DEFINE present == CASE s.control[1] = "Rpm" \/ (s.control = idle /\ s.feedback = 0) -> 0
                        [] s.control = idle /\ s.feedback > 0 -> CountCheck(s.present)
                        [] OTHER -> s.present
<1> SUFFICES LET t == CheckFeedbackPresentWhenOff(s)
             IN  /\ t = [f \in FaultFields |-> t[f]]
                 /\ t.present = present
                 /\ \A f \in FaultFields \ {"present", "presentFault"} : t[f] = s[f]
  OBVIOUS
<1> HIDE DEF idle
<1>1. CASE s.control[1] = "Rpm"
  <2>1. CheckFeedbackPresentWhenOff(s) = [s EXCEPT !.present = 0]
    BY <1>0, <1>00, <1>1
  <2>2. present = 0
    BY <1>0, <1>1
  <2> HIDE DEF present
  <2> QED BY <2>1, <2>2 DEF FaultFields
<1>2. CASE s.control = idle /\ s.feedback = 1
  <2> DEFINE count == CountCheck(s.present)
             fault == s.presentFault \/ count >= FanFaultTimeout
  <2>1. CheckFeedbackPresentWhenOff(s) = [s EXCEPT !.present = count, !.presentFault = fault]
    BY <1>0, <1>00, <1>2
  <2>2. present = count
    BY <1>0, <1>2
  <2> HIDE DEF present, count, fault
  <2> QED BY <2>1, <2>2 DEF FaultFields
<1>3. CASE s.control = idle /\ s.feedback = 0
  <2>1. CheckFeedbackPresentWhenOff(s) = [s EXCEPT !.present = 0, !.presentFault = FALSE]
    BY <1>0, <1>00, <1>3
  <2>2. present = 0
    BY <1>0, <1>3
  <2> HIDE DEF present
  <2> QED BY <2>1, <2>2 DEF FaultFields
<1>4. CASE s.control[1] # "Rpm" /\ s.control # idle
  <2>1. CheckFeedbackPresentWhenOff(s) = s
    BY <1>00, <1>4
  <2>2. present = s.present
    BY <1>4
  <2> HIDE DEF present
  <2> QED BY <2>1, <2>2
<1> QED BY <1>0, <1>1, <1>2, <1>3, <1>4

LEMMA TargetFacts ==
    ASSUME NEW s, s = [f \in FaultFields |-> s[f]], s.control[1] \in {"Rpm", "Duty"}, s.targetFault \in BOOLEAN
    PROVE  LET t == CheckCannotReachTargetRpm(s)
               max == s.control[1] = "Rpm" /\ s.pwm = "max"
               low == s.control[1] = "Rpm" /\ s.pwm = "low"
           IN  /\ t = [f \in FaultFields |-> t[f]]
               /\ s.control # s.previous \/ low => t.target = 0 /\ ~t.targetFault
               /\ s.control = s.previous /\ max =>
                      /\ t.target = CountCheck(s.target)
                      /\ t.targetFault => s.targetFault \/ CountCheck(s.target) >= FanFaultTimeout
               /\ s.control = s.previous /\ ~max /\ ~low => t.target = s.target /\ t.targetFault = s.targetFault
               /\ t.previous = s.control /\ t.targetFault \in BOOLEAN
               /\ \A f \in FaultFields \ {"target", "targetFault", "previous"} : t[f] = s[f]
<1> DEFINE max == s.control[1] = "Rpm" /\ s.pwm = "max"
           low == s.control[1] = "Rpm" /\ s.pwm = "low"
           count == CountCheck(s.target)
           fault == s.targetFault \/ count >= FanFaultTimeout
           c == CASE max -> [s EXCEPT !.target = count, !.targetFault = fault]
                  [] low -> [s EXCEPT !.target = 0, !.targetFault = FALSE]
                  [] OTHER -> s
           control == s.control
           d == [c EXCEPT !.target = 0, !.targetFault = FALSE, !.previous = control]
<1>1. CheckCannotReachTargetRpm(s) = IF s.control = s.previous THEN c ELSE d
  BY DEF CheckCannotReachTargetRpm
<1>2. ~(max /\ low)
  OBVIOUS
<1>3. count = CountCheck(s.target) /\ fault = (s.targetFault \/ count >= FanFaultTimeout) /\ control = s.control
  OBVIOUS
<1>4. fault \in BOOLEAN
  OBVIOUS
<1> HIDE DEF count, fault, control, max, low
<1>5. /\ c = [f \in FaultFields |-> c[f]] /\ c.targetFault \in BOOLEAN
      /\ max => c.target = count /\ c.targetFault = fault
      /\ low => c.target = 0 /\ ~c.targetFault
      /\ ~max /\ ~low => c.target = s.target /\ c.targetFault = s.targetFault
      /\ \A f \in FaultFields \ {"target", "targetFault"} : c[f] = s[f]
  <2>1. CASE max
    <3>1. c = [s EXCEPT !.target = count, !.targetFault = fault]
      BY <1>2, <2>1
    <3> HIDE DEF c
    <3> QED BY <1>2, <1>4, <2>1, <3>1 DEF FaultFields
  <2>2. CASE low
    <3>1. c = [s EXCEPT !.target = 0, !.targetFault = FALSE]
      BY <1>2, <2>2
    <3> HIDE DEF c
    <3> QED BY <1>2, <2>2, <3>1 DEF FaultFields
  <2>3. CASE ~max /\ ~low
    <3>1. c = s
      BY <2>3, SMTT(60)
    <3> HIDE DEF c
    <3> QED BY <2>3, <3>1
  <2> QED BY <2>1, <2>2, <2>3, ZenonT(120)
<1> HIDE DEF c
<1>6. /\ d = [f \in FaultFields |-> d[f]] /\ d.target = 0 /\ d.targetFault = FALSE /\ d.previous = control
      /\ \A f \in FaultFields \ {"target", "targetFault", "previous"} : d[f] = c[f]
  BY <1>5 DEF FaultFields
<1> HIDE DEF d
<1>7. CASE s.control = s.previous
  <2>1. c.previous = s.control
    BY <1>5, <1>7, SMTT(60) DEF FaultFields
  <2> QED BY <1>1, <1>3, <1>5, <1>7, <2>1 DEF max, low
<1>8. CASE s.control # s.previous
  <2>1. \A f \in FaultFields \ {"target", "targetFault", "previous"} : d[f] = s[f]
    BY <1>5, <1>6, SMTT(60)
  <2> QED BY <1>1, <1>3, <1>6, <1>8, <2>1
<1> QED BY <1>7, <1>8

LEMMA CheckKeepsFaults ==
    ASSUME FanFaultInv(st), OneMinutePeriodicCheck
    PROVE  FanFaultInv(st')
<1> DEFINE rpm == st.control[1] = "Rpm"
           idle == <<"Duty", 0>>
           deaf == IF ~rpm THEN 0 ELSE IF st.feedback = 0 THEN CountCheck(st.deaf) ELSE 0
           loud == CASE rpm \/ (st.control = idle /\ st.feedback = 0) -> 0
                     [] st.control = idle /\ st.feedback > 0 -> CountCheck(st.loud)
                     [] OTHER -> st.loud
           strained == CASE ~rpm \/ st.pwm = "low" \/ st.control # st.previous -> 0
                         [] rpm /\ st.pwm = "max" /\ st.control = st.previous -> CountCheck(st.strained)
                         [] OTHER -> st.strained
           s == [st EXCEPT !.deaf = deaf, !.loud = loud, !.strained = strained]
           m == CheckMissingFeedbackWhenOn(s)
           p == CheckFeedbackPresentWhenOff(m)
           t == CheckCannotReachTargetRpm(p)
<1>1. st' = t
  BY DEF OneMinutePeriodicCheck
<1>2. /\ st.control[1] \in {"Rpm", "Duty"} /\ (st.control = idle => st.control[1] = "Duty")
      /\ st.previous[1] \in {"Rpm", "Duty"}
  BY FaultControlFacts DEF FanFaultInv
<1>3. /\ st.missing \in Nat /\ st.deaf \in Nat /\ st.present \in Nat /\ st.loud \in Nat
      /\ st.target \in Nat /\ st.strained \in Nat
      /\ st.missing <= st.deaf /\ st.present <= st.loud /\ st.target <= st.strained
  BY DEF FanFaultInv
<1>4. /\ CountCheck(st.missing) \in Nat /\ CountCheck(st.missing) <= CountCheck(st.deaf)
      /\ CountCheck(st.present) \in Nat /\ CountCheck(st.present) <= CountCheck(st.loud)
      /\ CountCheck(st.target) \in Nat /\ CountCheck(st.target) <= CountCheck(st.strained)
      /\ st.strained <= CountCheck(st.strained)
      /\ CountCheck(st.deaf) \in Nat /\ CountCheck(st.loud) \in Nat /\ CountCheck(st.strained) \in Nat
  BY <1>3, CountFacts
<1>5. /\ s = [f \in FaultFields |-> s[f]] /\ s.deaf = deaf /\ s.loud = loud /\ s.strained = strained
      /\ \A f \in FaultFields \ {"deaf", "loud", "strained"} : s[f] = st[f]
  <2> HIDE DEF deaf, loud, strained
  <2> QED BY ZenonT(120) DEF FanFaultInv, FaultFields
<1> HIDE DEF s
<1>6. /\ s.control = st.control /\ s.previous = st.previous /\ s.feedback = st.feedback /\ s.pwm = st.pwm
      /\ s.missing = st.missing /\ s.present = st.present /\ s.target = st.target /\ s.targetFault = st.targetFault
  BY <1>5 DEF FaultFields
<1>7. /\ st.feedback \in {0, 1} /\ st.targetFault \in BOOLEAN /\ st.control \in FaultControls
  BY DEF FanFaultInv
<1>8. /\ m = [f \in FaultFields |-> m[f]]
      /\ m.missing = IF rpm /\ st.feedback = 0 THEN CountCheck(st.missing) ELSE 0
      /\ \A f \in FaultFields \ {"missing", "missingFault"} : m[f] = s[f]
  BY <1>2, <1>5, <1>6, <1>7, MissingFacts
<1> HIDE DEF m
<1>9. /\ m.control = st.control /\ m.previous = st.previous /\ m.feedback = st.feedback /\ m.pwm = st.pwm
      /\ m.present = st.present /\ m.target = st.target /\ m.targetFault = st.targetFault
      /\ m.deaf = deaf /\ m.loud = loud /\ m.strained = strained
  BY <1>5, <1>6, <1>8, SMTT(60) DEF FaultFields
<1>10. /\ p = [f \in FaultFields |-> p[f]]
       /\ p.present = CASE rpm \/ (st.control = idle /\ st.feedback = 0) -> 0
                        [] st.control = idle /\ st.feedback > 0 -> CountCheck(st.present)
                        [] OTHER -> st.present
       /\ \A f \in FaultFields \ {"present", "presentFault"} : p[f] = m[f]
  <2> HIDE DEF p
  <2>1. LET r == CheckFeedbackPresentWhenOff(m)
        IN  /\ r = [f \in FaultFields |-> r[f]]
            /\ r.present = CASE m.control[1] = "Rpm" \/ (m.control = idle /\ m.feedback = 0) -> 0
                             [] m.control = idle /\ m.feedback > 0 -> CountCheck(m.present)
                             [] OTHER -> m.present
            /\ \A f \in FaultFields \ {"present", "presentFault"} : r[f] = m[f]
    BY <1>7, <1>8, <1>9, PresentFacts, SMTT(60)
  <2> HIDE DEF idle
  <2> QED BY <1>9, <2>1 DEF p
<1> HIDE DEF p
<1>11. /\ p.control = st.control /\ p.previous = st.previous /\ p.feedback = st.feedback /\ p.pwm = st.pwm
       /\ p.missing = m.missing /\ p.target = st.target /\ p.targetFault = st.targetFault
       /\ p.deaf = deaf /\ p.loud = loud /\ p.strained = strained
  BY <1>9, <1>10 DEF FaultFields
<1> DEFINE max == rpm /\ st.pwm = "max"
           low == rpm /\ st.pwm = "low"
<1>12. /\ t = [f \in FaultFields |-> t[f]]
       /\ st.control # st.previous \/ low => t.target = 0 /\ ~t.targetFault
       /\ st.control = st.previous /\ max =>
              /\ t.target = CountCheck(st.target)
              /\ t.targetFault => st.targetFault \/ CountCheck(st.target) >= FanFaultTimeout
       /\ st.control = st.previous /\ ~max /\ ~low => t.target = st.target /\ t.targetFault = st.targetFault
       /\ t.previous = st.control /\ t.targetFault \in BOOLEAN
       /\ \A f \in FaultFields \ {"target", "targetFault", "previous"} : t[f] = p[f]
  <2> HIDE DEF t
  <2>1. p.control[1] \in {"Rpm", "Duty"} /\ p.targetFault \in BOOLEAN
    BY <1>2, <1>7, <1>11
  <2> QED BY <1>10, <1>11, <2>1, TargetFacts DEF t
<1> HIDE DEF t
<1>13. /\ t.control = st.control /\ t.feedback = st.feedback /\ t.missing = m.missing /\ t.present = p.present
       /\ t.deaf = deaf /\ t.loud = loud /\ t.strained = strained
  BY <1>11, <1>12 DEF FaultFields
<1>14. t.missing \in Nat /\ t.deaf \in Nat /\ t.missing <= t.deaf
  BY <1>4, <1>8, <1>13
<1>15. t.present \in Nat /\ t.loud \in Nat /\ t.present <= t.loud
  <2> HIDE DEF idle
  <2> QED BY <1>2, <1>3, <1>4, <1>7, <1>10, <1>13
<1>16. /\ t.target \in Nat /\ t.strained \in Nat /\ t.target <= t.strained
       /\ t.targetFault => t.strained >= FanFaultTimeout
       /\ st.control[1] = "Duty" => t.target = 0 /\ ~t.targetFault
  <2>0. (st.targetFault => st.strained >= FanFaultTimeout)
        /\ (st.previous[1] = "Duty" => st.target = 0 /\ ~st.targetFault)
    BY DEF FanFaultInv
  <2>1. CASE st.control # st.previous \/ low
    <3>1. strained = 0
      BY <2>1
    <3> QED BY <1>12, <1>13, <2>1, <3>1
  <2>2. CASE ~rpm /\ st.control = st.previous
    <3>1. strained = 0
      BY <2>2
    <3> QED BY <1>2, <1>12, <1>13, <2>0, <2>2, <3>1
  <2>3. CASE max /\ st.control = st.previous
    <3>1. strained = CountCheck(st.strained)
      BY <2>3
    <3> HIDE DEF strained
    <3>2. FanFaultTimeout \in Nat
      BY FansAssumption
    <3> QED BY <1>2, <1>3, <1>4, <1>12, <1>13, <2>0, <2>3, <3>1, <3>2
  <2>4. CASE rpm /\ ~max /\ ~low /\ st.control = st.previous
    <3>1. strained = st.strained
      BY <2>4
    <3> HIDE DEF strained
    <3> QED BY <1>2, <1>3, <1>12, <1>13, <2>0, <2>4, <3>1
  <2> QED BY <2>1, <2>2, <2>3, <2>4
<1> HIDE DEF FaultControls
<1> QED BY <1>1, <1>7, <1>12, <1>13, <1>14, <1>15, <1>16, FaultControlFacts DEF FanFaultInv

-----------------------------------------------------------------------------
(* The anti-sweat heater.                                                  *)

AntiSweatFields == {"humid", "valid", "enabled", "warm", "freshFood", "vote"}

AntiSweatInv(s) == s = [f \in AntiSweatFields |-> s[f]] /\ s.vote = AntiSweatVote(s)

LEMMA AntiSweatVoteFollows ==
    ASSUME NEW s, NEW t, t.humid = s.humid, t.valid = s.valid, t.enabled = s.enabled, t.warm = s.warm,
           t.freshFood = s.freshFood
    PROVE  AntiSweatVote(t) = AntiSweatVote(s)
BY DEF AntiSweatVote

LEMMA AntiSweatStarts == AntiSweatInit => AntiSweatInv(st)
<1> SUFFICES ASSUME AntiSweatInit PROVE AntiSweatInv(st)
  OBVIOUS
<1>1. PICK humid \in BOOLEAN, valid \in BOOLEAN, enabled \in BOOLEAN, warm \in BOOLEAN, freshFood \in BOOLEAN :
        LET s == [humid |-> humid, valid |-> valid, enabled |-> enabled,
                  warm |-> warm, freshFood |-> freshFood, vote |-> <<"DontCare">>] IN
        st = [s EXCEPT !.vote = AntiSweatVote(s)]
  BY DEF AntiSweatInit
<1> DEFINE s == [humid |-> humid, valid |-> valid, enabled |-> enabled, warm |-> warm, freshFood |-> freshFood,
                 vote |-> <<"DontCare">>]
           v == AntiSweatVote(s)
<1>2. st = [s EXCEPT !.vote = v]
  BY <1>1
<1>3. s = [f \in AntiSweatFields |-> s[f]]
  BY DEF AntiSweatFields
<1> HIDE DEF s, v
<1>6. st = [f \in AntiSweatFields |-> st[f]]
  BY <1>2, <1>3 DEF AntiSweatFields
<1>7. /\ st.humid = s.humid /\ st.valid = s.valid /\ st.enabled = s.enabled /\ st.warm = s.warm
      /\ st.freshFood = s.freshFood /\ st.vote = v
  BY <1>2, <1>3 DEF AntiSweatFields
<1>8. AntiSweatVote(st) = v
  BY <1>7, AntiSweatVoteFollows DEF v
<1> QED BY <1>6, <1>7, <1>8 DEF AntiSweatInv

LEMMA AntiSweatStep ==
    ASSUME AntiSweatInv(st), AntiSweatInputChanges
    PROVE  AntiSweatInv(st')
<1>1. PICK f \in {"humid", "valid", "enabled", "warm", "freshFood"} :
        LET s == [st EXCEPT ![f] = ~@] IN st' = [s EXCEPT !.vote = AntiSweatVote(s)]
  BY DEF AntiSweatInputChanges
<1> DEFINE s == [st EXCEPT ![f] = ~@]
           v == AntiSweatVote(s)
<1>2. st' = [s EXCEPT !.vote = v]
  BY <1>1
<1>3. s = [g \in AntiSweatFields |-> s[g]]
  BY DEF AntiSweatInv, AntiSweatFields
<1> HIDE DEF s, v
<1>4. st' = [g \in AntiSweatFields |-> st'[g]]
  BY <1>2, <1>3 DEF AntiSweatFields
<1>5. /\ st'.humid = s.humid /\ st'.valid = s.valid /\ st'.enabled = s.enabled /\ st'.warm = s.warm
      /\ st'.freshFood = s.freshFood /\ st'.vote = v
  BY <1>2, <1>3 DEF AntiSweatFields
<1>6. AntiSweatVote(st') = v
  <2>1. ASSUME NEW t, t = st'
        PROVE  AntiSweatVote(t) = v
    BY <1>5, <2>1, AntiSweatVoteFollows DEF v
  <2> QED BY <2>1
<1> QED BY <1>4, <1>5, <1>6 DEF AntiSweatInv

-----------------------------------------------------------------------------
(* Freeze prevention.                                                      *)

FreezeFields == {"target", "source", "coldEnough", "state", "timer", "heater", "cycle"}

Freezes(s) ==
    /\ s = [f \in FreezeFields |-> s[f]]
    /\ s.target \in BOOLEAN /\ s.source \in BOOLEAN /\ s.coldEnough \in BOOLEAN /\ s.heater \in BOOLEAN
    /\ s.state \in {"Idle", "Monitoring", "HeaterOn"}

FreezeInv(s) ==
    /\ Freezes(s)
    /\ s.heater <=> s.state = "HeaterOn"
    /\ s.state = "HeaterOn" => s.timer = "heater"
    /\ s.state = "Monitoring" => s.timer = "change" /\ ReadyToMonitor(s)
    /\ s.state = "Idle" => ~ReadyToMonitor(s)

LEMMA EnterFreezeFacts ==
    ASSUME NEW s, Freezes(s)
    PROVE  /\ ~s.heater /\ ReadyToMonitor(s) => FreezeInv(EnterMonitoring(s))
           /\ ~s.heater /\ ~ReadyToMonitor(s) => FreezeInv(EnterFreezeIdle(s))
           /\ FreezeInv(EnterDamperHeaterOn(s))
<1>1. ASSUME ~s.heater, ReadyToMonitor(s) PROVE FreezeInv(EnterMonitoring(s))
  BY <1>1 DEF FreezeInv, Freezes, FreezeFields, EnterMonitoring, ReadyToMonitor
<1>2. ASSUME ~s.heater, ~ReadyToMonitor(s) PROVE FreezeInv(EnterFreezeIdle(s))
  BY <1>2 DEF FreezeInv, Freezes, FreezeFields, EnterFreezeIdle, ReadyToMonitor
<1>3. FreezeInv(EnterDamperHeaterOn(s))
  BY DEF FreezeInv, Freezes, FreezeFields, EnterDamperHeaterOn
<1> QED BY <1>1, <1>2, <1>3

LEMMA FreezeStarts == FreezeInit => FreezeInv(st)
<1> SUFFICES ASSUME FreezeInit PROVE FreezeInv(st)
  OBVIOUS
<1>1. PICK target \in BOOLEAN, source \in BOOLEAN, coldEnough \in BOOLEAN :
        LET s == [target |-> target, source |-> source, coldEnough |-> coldEnough,
                  state |-> "Idle", timer |-> "none", heater |-> FALSE, cycle |-> FALSE] IN
        st = IF ReadyToMonitor(s) THEN EnterMonitoring(s) ELSE s
  BY DEF FreezeInit
<1>2. PICK no : no = FALSE
  OBVIOUS
<1> DEFINE s == [target |-> target, source |-> source, coldEnough |-> coldEnough,
                 state |-> "Idle", timer |-> "none", heater |-> no, cycle |-> FALSE]
<1>3. st = IF ReadyToMonitor(s) THEN EnterMonitoring(s) ELSE s
  BY <1>1, <1>2
<1>4. Freezes(s) /\ s.state = "Idle" /\ ~s.heater
  BY <1>2 DEF Freezes, FreezeFields
<1> HIDE DEF s
<1> QED BY <1>3, <1>4, EnterFreezeFacts DEF FreezeInv

LEMMA FreezeStep ==
    ASSUME FreezeInv(st), FreezeReadingsChange \/ DamperPositionIsHeard \/ FreezeTimerExpires \/ FullCycleIsDone
    PROVE  FreezeInv(st')
<1>1. CASE FreezeReadingsChange
  <2>1. PICK f \in {"target", "source", "coldEnough"} : st' = FreezeReadingSignal([st EXCEPT ![f] = ~@])
    BY <1>1 DEF FreezeReadingsChange
  <2> DEFINE s == [st EXCEPT ![f] = ~@]
  <2>2. Freezes(s) /\ s.state = st.state /\ s.timer = st.timer /\ s.heater = st.heater
    <3>1. CASE f = "target"
      BY <3>1 DEF FreezeInv, Freezes, FreezeFields
    <3>2. CASE f = "source"
      BY <3>2 DEF FreezeInv, Freezes, FreezeFields
    <3>3. CASE f = "coldEnough"
      BY <3>3 DEF FreezeInv, Freezes, FreezeFields
    <3> QED BY <3>1, <3>2, <3>3
  <2> HIDE DEF s
  <2>3. FreezeInv(FreezeReadingSignal(s))
    <3>1. CASE s.state = "Idle" /\ ReadyToMonitor(s)
      <4>1. FreezeReadingSignal(s) = EnterMonitoring(s)
        BY <3>1 DEF FreezeReadingSignal
      <4> QED BY <2>2, <3>1, <4>1, EnterFreezeFacts DEF FreezeInv
    <3>2. CASE s.state = "Monitoring" /\ ~ReadyToMonitor(s)
      <4>1. FreezeReadingSignal(s) = EnterFreezeIdle(s)
        BY <3>2 DEF FreezeReadingSignal
      <4> QED BY <2>2, <3>2, <4>1, EnterFreezeFacts DEF FreezeInv
    <3>3. CASE ~(s.state = "Idle" /\ ReadyToMonitor(s)) /\ ~(s.state = "Monitoring" /\ ~ReadyToMonitor(s))
      <4>1. FreezeReadingSignal(s) = s
        BY <3>3 DEF FreezeReadingSignal
      <4> QED BY <2>2, <3>3, <4>1 DEF FreezeInv
    <3> QED BY <3>1, <3>2, <3>3
  <2> QED BY <2>1, <2>3 DEF s
<1>2. CASE DamperPositionIsHeard
  BY <1>2, EnterFreezeFacts DEF DamperPositionIsHeard, FreezeInv
<1>3. CASE FreezeTimerExpires
  <2> DEFINE s == [st EXCEPT !.timer = "none"]
             h == [s EXCEPT !.heater = FALSE, !.cycle = TRUE]
  <2>1. /\ st.timer = "change" /\ st.state = "Monitoring" =>
               st' = EnterDamperHeaterOn(s) \/ st' = EnterMonitoring(s)
        /\ st.timer = "heater" /\ st.state = "HeaterOn" =>
               st' = IF ReadyToMonitor(h) THEN EnterMonitoring(h) ELSE EnterFreezeIdle(h)
        /\ st.state = "Idle" => st' = s
    BY <1>3 DEF FreezeTimerExpires
  <2>2. /\ Freezes(s) /\ s.state = st.state /\ s.heater = st.heater
        /\ s.target = st.target /\ s.source = st.source /\ s.coldEnough = st.coldEnough
    BY DEF FreezeInv, Freezes, FreezeFields
  <2> HIDE DEF s
  <2>3. Freezes(h) /\ ~h.heater
    BY <2>2 DEF Freezes, FreezeFields
  <2> HIDE DEF h
  <2>4. ReadyToMonitor(s) <=> ReadyToMonitor(st)
    BY <2>2 DEF ReadyToMonitor
  <2>5. CASE st.state = "Monitoring"
    <3>1. st.timer = "change" /\ ReadyToMonitor(s) /\ ~s.heater
      BY <2>2, <2>4, <2>5 DEF FreezeInv
    <3>2. st' = EnterDamperHeaterOn(s) \/ st' = EnterMonitoring(s)
      BY <2>1, <2>5, <3>1
    <3> QED BY <2>2, <3>1, <3>2, EnterFreezeFacts
  <2>6. CASE st.state = "HeaterOn"
    <3>1. st.timer = "heater"
      BY <2>6 DEF FreezeInv
    <3>2. st' = IF ReadyToMonitor(h) THEN EnterMonitoring(h) ELSE EnterFreezeIdle(h)
      BY <2>1, <2>6, <3>1
    <3> QED BY <2>3, <3>2, EnterFreezeFacts
  <2>7. CASE st.state = "Idle"
    <3>1. st' = s
      BY <2>1, <2>7
    <3> QED BY <2>2, <2>4, <2>7, <3>1 DEF FreezeInv
  <2> QED BY <2>5, <2>6, <2>7 DEF FreezeInv, Freezes
<1>4. CASE FullCycleIsDone
  BY <1>4 DEF FullCycleIsDone, FreezeInv, Freezes, FreezeFields, ReadyToMonitor
<1> QED BY <1>1, <1>2, <1>3, <1>4

-----------------------------------------------------------------------------
(* Damper cycling.                                                         *)

CyclingFields == {"position", "limited", "request", "timer"}

CyclingInv(s) ==
    /\ s = [f \in CyclingFields |-> s[f]]
    /\ s.position \in {"Open", "Closed"} /\ s.limited \in [{"Open", "Closed"} -> BOOLEAN]
    /\ s.limited[s.position] => s.timer \/ s.request

LEMMA CyclingStarts == DamperCyclingInit => CyclingInv(st)
<1> SUFFICES ASSUME DamperCyclingInit PROVE CyclingInv(st)
  OBVIOUS
<1>1. PICK no : no = FALSE
  OBVIOUS
<1>2. PICK limited \in [{"Open", "Closed"} -> BOOLEAN], position \in {"Open", "Closed"} :
        st = MaxDamperTimeCheck([position |-> position, limited |-> limited, request |-> no, timer |-> FALSE])
  BY <1>1 DEF DamperCyclingInit
<1> DEFINE s == [position |-> position, limited |-> limited, request |-> no, timer |-> FALSE]
<1>3. s = [f \in CyclingFields |-> s[f]] /\ s.position = position /\ s.limited = limited
  BY DEF CyclingFields
<1>4. st = [s EXCEPT !.timer = s.limited[s.position]]
  BY <1>2 DEF MaxDamperTimeCheck
<1> HIDE DEF s
<1> QED BY <1>3, <1>4 DEF CyclingInv, CyclingFields

LEMMA CyclingStep ==
    ASSUME CyclingInv(st), CyclingDamperMoves \/ MaxDamperTimerExpired
    PROVE  CyclingInv(st')
<1>1. CASE CyclingDamperMoves
  <2> DEFINE position == IF st.position = "Open" THEN "Closed" ELSE "Open"
             r == [st EXCEPT !.position = position]
             s == MaxDamperTimeCheck(r)
  <2>1. st' = s \/ st' = [s EXCEPT !.request = FALSE]
    BY <1>1 DEF CyclingDamperMoves
  <2>2. position \in {"Open", "Closed"}
    OBVIOUS
  <2> HIDE DEF position
  <2>3. r = [f \in CyclingFields |-> r[f]] /\ r.position = position /\ r.limited = st.limited
    BY DEF CyclingInv, CyclingFields
  <2> HIDE DEF r
  <2>4. s = [f \in CyclingFields |-> s[f]] /\ s.position = position /\ s.limited = st.limited
        /\ s.timer = st.limited[position]
    BY <2>3 DEF MaxDamperTimeCheck, CyclingFields
  <2> HIDE DEF s
  <2>5. st' = [f \in CyclingFields |-> st'[f]] /\ st'.position = position /\ st'.limited = st.limited
        /\ st'.timer = st.limited[position]
    <3>1. CASE st' = s
      BY <2>4, <3>1
    <3>2. CASE st' = [s EXCEPT !.request = FALSE]
      BY <2>4, <3>2 DEF CyclingFields
    <3> QED BY <2>1, <3>1, <3>2
  <2> QED BY <2>2, <2>5 DEF CyclingInv
<1>2. CASE MaxDamperTimerExpired
  BY <1>2 DEF MaxDamperTimerExpired, CyclingInv, CyclingFields
<1> QED BY <1>1, <1>2

-----------------------------------------------------------------------------
(* The damper's heater.                                                    *)

HeaterFields == {"follows", "care", "votedOn", "on", "listens", "sync", "timer"}

\* The damper's heater listens to the defrost heater exactly while it follows
\* one that is voted for.
DamperHeaterInv(s) ==
    /\ s = [f \in HeaterFields |-> s[f]]
    /\ \A f \in HeaterFields : s[f] \in BOOLEAN
    /\ s.listens <=> s.follows /\ s.care
    /\ s.sync => IF s.follows THEN s.care /\ s.on ELSE s.timer

LEMMA DamperHeaterStarts == DamperHeaterInit => DamperHeaterInv(st)
<1> SUFFICES ASSUME DamperHeaterInit PROVE DamperHeaterInv(st)
  OBVIOUS
<1>1. PICK follows \in BOOLEAN :
        st = [follows |-> follows, care |-> FALSE, votedOn |-> FALSE, on |-> FALSE,
              listens |-> FALSE, sync |-> FALSE, timer |-> FALSE]
  BY DEF DamperHeaterInit
<1>2. st = [f \in HeaterFields |-> st[f]]
  BY <1>1 DEF HeaterFields
<1>3. st.follows \in BOOLEAN /\ st.care = FALSE
  BY <1>1
<1>4. st.votedOn = FALSE /\ st.on = FALSE
  BY <1>1
<1>5. st.listens = FALSE /\ st.sync = FALSE /\ st.timer = FALSE
  BY <1>1
<1> QED BY <1>2, <1>3, <1>4, <1>5 DEF DamperHeaterInv, HeaterFields

LEMMA DamperHeaterStep ==
    ASSUME DamperHeaterInv(st), DefrostHeaterVotes \/ DefrostHeaterSwitches \/ DamperHeaterTimeEnds
    PROVE  DamperHeaterInv(st')
<1>0. /\ st.follows \in BOOLEAN /\ st.care \in BOOLEAN /\ st.votedOn \in BOOLEAN /\ st.on \in BOOLEAN
      /\ st.listens \in BOOLEAN /\ st.sync \in BOOLEAN /\ st.timer \in BOOLEAN
  BY DEF DamperHeaterInv, HeaterFields
<1>1. CASE DefrostHeaterVotes
  <2>1. PICK care \in BOOLEAN, votedOn \in BOOLEAN :
          st' = DefrostHeaterVoteChanged([st EXCEPT !.care = care, !.votedOn = votedOn])
    BY <1>1 DEF DefrostHeaterVotes
  <2> DEFINE s == [st EXCEPT !.care = care, !.votedOn = votedOn]
  <2>2. /\ s = [f \in HeaterFields |-> s[f]]
        /\ s.care = care /\ s.votedOn = votedOn /\ s.follows = st.follows /\ s.on = st.on
        /\ s.listens = st.listens /\ s.sync = st.sync /\ s.timer = st.timer
    BY DEF DamperHeaterInv, HeaterFields
  <2> HIDE DEF s
  <2>3. /\ \A f \in HeaterFields : s[f] \in BOOLEAN
    BY <1>0, <2>2 DEF HeaterFields
  <2>4. CASE s.follows /\ s.care
    <3> DEFINE on == s.on
    <3>1. st' = [s EXCEPT !.sync = on, !.listens = TRUE]
      BY <2>1, <2>4 DEF DefrostHeaterVoteChanged, s
    <3>2. on \in BOOLEAN /\ (on <=> s.on)
      BY <1>0, <2>2
    <3> HIDE DEF on
    <3> QED BY <2>2, <2>3, <2>4, <3>1, <3>2 DEF DamperHeaterInv, HeaterFields
  <2>5. CASE s.follows /\ ~s.care
    <3>1. st' = [s EXCEPT !.sync = FALSE, !.listens = FALSE]
      BY <2>1, <2>5 DEF DefrostHeaterVoteChanged, s
    <3> QED BY <2>2, <2>3, <2>5, <3>1, ZenonT(120) DEF DamperHeaterInv, HeaterFields
  <2>6. CASE ~s.follows /\ s.care /\ s.votedOn
    <3>1. st' = [s EXCEPT !.sync = TRUE, !.timer = TRUE]
      BY <2>1, <2>6 DEF DefrostHeaterVoteChanged, s
    <3> QED BY <2>2, <2>3, <2>6, <3>1 DEF DamperHeaterInv, HeaterFields
  <2>7. CASE ~s.follows /\ ~(s.care /\ s.votedOn)
    <3>1. st' = s
      BY <2>1, <2>7 DEF DefrostHeaterVoteChanged, s
    <3> QED BY <2>2, <2>3, <2>7, <3>1 DEF DamperHeaterInv
  <2> QED BY <2>4, <2>5, <2>6, <2>7
<1>2. CASE DefrostHeaterSwitches
  <2> DEFINE on == ~st.on
             sync == IF st.listens THEN ~st.on ELSE st.sync
  <2>1. st' = [st EXCEPT !.on = on, !.sync = sync]
    BY <1>2 DEF DefrostHeaterSwitches
  <2>2. on \in BOOLEAN /\ sync \in BOOLEAN /\ (st.listens => sync = on) /\ (~st.listens => sync = st.sync)
    BY <1>0
  <2> HIDE DEF on, sync
  <2>3. /\ st' = [f \in HeaterFields |-> st'[f]]
        /\ st'.on = on /\ st'.sync = sync /\ st'.care = st.care /\ st'.follows = st.follows
        /\ st'.listens = st.listens /\ st'.timer = st.timer /\ st'.votedOn = st.votedOn
    BY <2>1 DEF DamperHeaterInv, HeaterFields
  <2>4. \A f \in HeaterFields : st'[f] \in BOOLEAN
    BY <1>0, <2>2, <2>3 DEF HeaterFields
  <2> QED BY <1>0, <2>2, <2>3, <2>4 DEF DamperHeaterInv
<1>3. CASE DamperHeaterTimeEnds
  <2>1. PICK no : no = FALSE
    OBVIOUS
  <2>2. st' = [st EXCEPT !.timer = FALSE, !.sync = no]
    BY <1>3, <2>1 DEF DamperHeaterTimeEnds
  <2>3. /\ st' = [f \in HeaterFields |-> st'[f]]
        /\ st'.on = st.on /\ st'.sync = no /\ st'.care = st.care /\ st'.follows = st.follows
        /\ st'.listens = st.listens /\ st'.timer = FALSE /\ st'.votedOn = st.votedOn
    BY <2>2 DEF DamperHeaterInv, HeaterFields
  <2>4. \A f \in HeaterFields : st'[f] \in BOOLEAN
    BY <1>0, <2>1, <2>3 DEF HeaterFields
  <2> QED BY <2>1, <2>3, <2>4 DEF DamperHeaterInv
<1> QED BY <1>1, <1>2, <1>3

-----------------------------------------------------------------------------
(* All of them.                                                            *)

AirPathInv ==
    /\ unit = "fan" => FanInv(st)
    /\ unit = "fan fault" => FanFaultInv(st)
    /\ unit = "anti sweat" => AntiSweatInv(st)
    /\ unit = "damper freeze" => FreezeInv(st)
    /\ unit = "damper cycling" => CyclingInv(st)
    /\ unit = "damper heater" => DamperHeaterInv(st)

LEMMA AirPathStarts == FansAndDampersInit => AirPathInv
<1>1. FanInit => AirPathInv
  BY FanStarts DEF FanInit, AirPathInv
<1>2. FanFaultInit => AirPathInv
  BY FaultStarts DEF FanFaultInit, AirPathInv
<1>3. AntiSweatInit => AirPathInv
  BY AntiSweatStarts DEF AntiSweatInit, AirPathInv
<1>4. FreezeInit => AirPathInv
  BY FreezeStarts DEF FreezeInit, AirPathInv
<1>5. DamperCyclingInit => AirPathInv
  BY CyclingStarts DEF DamperCyclingInit, AirPathInv
<1>6. DamperHeaterInit => AirPathInv
  BY DamperHeaterStarts DEF DamperHeaterInit, AirPathInv
<1> QED BY <1>1, <1>2, <1>3, <1>4, <1>5, <1>6 DEF FansAndDampersInit

LEMMA AirPathStep ==
    ASSUME AirPathInv, [FansAndDampersNext]_unitVars
    PROVE  AirPathInv'
<1>1. CASE FanInputsChange \/ PwmPeriodEnds
  <2>1. unit = "fan" /\ unit' = unit
    BY <1>1 DEF FanInputsChange, PwmPeriodEnds, Runs
  <2> QED BY <1>1, <2>1, FanStep DEF AirPathInv
<1>2. CASE FanFaultInputsChange \/ OneMinutePeriodicCheck
  <2>1. unit = "fan fault" /\ unit' = unit
    BY <1>2 DEF FanFaultInputsChange, OneMinutePeriodicCheck, Runs
  <2> QED BY <1>2, <2>1, InputsKeepFaults, CheckKeepsFaults DEF AirPathInv
<1>3. CASE AntiSweatInputChanges
  <2>1. unit = "anti sweat" /\ unit' = unit
    BY <1>3 DEF AntiSweatInputChanges, Runs
  <2> QED BY <1>3, <2>1, AntiSweatStep DEF AirPathInv
<1>4. CASE FreezeReadingsChange \/ DamperPositionIsHeard \/ FreezeTimerExpires \/ FullCycleIsDone
  <2>1. unit = "damper freeze" /\ unit' = unit
    BY <1>4 DEF FreezeReadingsChange, DamperPositionIsHeard, FreezeTimerExpires, FullCycleIsDone, Runs
  <2> QED BY <1>4, <2>1, FreezeStep DEF AirPathInv
<1>5. CASE CyclingDamperMoves \/ MaxDamperTimerExpired
  <2>1. unit = "damper cycling" /\ unit' = unit
    BY <1>5, ZenonT(120) DEF CyclingDamperMoves, MaxDamperTimerExpired, Runs
  <2> QED BY <1>5, <2>1, CyclingStep DEF AirPathInv
<1>6. CASE DefrostHeaterVotes \/ DefrostHeaterSwitches \/ DamperHeaterTimeEnds
  <2>1. unit = "damper heater" /\ unit' = unit
    BY <1>6 DEF DefrostHeaterVotes, DefrostHeaterSwitches, DamperHeaterTimeEnds, Runs
  <2> QED BY <1>6, <2>1, DamperHeaterStep, ZenonT(120) DEF AirPathInv
<1>7. CASE UNCHANGED unitVars
  BY <1>7 DEF unitVars, AirPathInv
<1> QED BY <1>1, <1>2, <1>3, <1>4, <1>5, <1>6, <1>7 DEF FansAndDampersNext

\* The units of FansAndDampers by themselves.
FansAndDampersSpec == FansAndDampersInit /\ [][FansAndDampersNext]_unitVars

\* FanSpeedResolver.c and FanController.c, FanFaultHandler.c,
\* CondenserFanAntiSweatBehavior.c, DamperFreezePrevention.c,
\* PeriodicDamperCycling.c and DamperHeaterDefrostControl.c: a fan runs on the
\* entry of now, its faults are earned, and no guard against ice holds on to
\* what it took; for every time until a fault is reported.
THEOREM AirPathStaysInStep == FansAndDampersSpec => []AirPathIsInStep
<1>1. FansAndDampersInit => AirPathInv
  BY AirPathStarts
<1>2. AirPathInv /\ [FansAndDampersNext]_unitVars => AirPathInv'
  BY AirPathStep
<1>3. AirPathInv => AirPathIsInStep
  <2> SUFFICES ASSUME AirPathInv PROVE AirPathIsInStep
    OBVIOUS
  <2>1. FanIsDrivenFresh
    BY DEF AirPathInv, FanIsDrivenFresh, FanInv
  <2>2. FanFaultsAreEarned
    BY DEF AirPathInv, FanFaultsAreEarned, FanFaultInv
  <2>3. IceGuardsLetGo
    BY DEF AirPathInv, IceGuardsLetGo, FreezeInv, CyclingInv, DamperHeaterInv, AntiSweatInv
  <2> QED BY <2>1, <2>2, <2>3 DEF AirPathIsInStep
<1> QED BY <1>1, <1>2, <1>3, PTL DEF FansAndDampersSpec

-----------------------------------------------------------------------------
(***************************************************************************)
(* CoolingPolicies: prechill, exceeded temperatures, the cycle defrost,    *)
(* loads that doors switch off, the ice rate and the harvest count.        *)
(***************************************************************************)

-----------------------------------------------------------------------------
(* The time of the prechill.                                               *)

PrechillFields == {"compressor", "mode", "evaporators", "actsAsFreezer", "counting", "time", "met"}

Prechill(s) == s = [f \in PrechillFields |-> s[f]] /\ s.time \in Nat /\ s.met \in Nat

AtMostCap(n) == IF n < PrechillTimeCap THEN n ELSE PrechillTimeCap

PrechillInv(s) ==
    /\ Prechill(s)
    /\ s.counting \in BOOLEAN /\ (s.counting <=> PrechillConditions(s))
    /\ ~PrechillConditions(s) => s.time = 0 /\ s.met = 0
    /\ s.time = AtMostCap(s.met)

LEMMA ConditionsFollow ==
    ASSUME NEW s, NEW t, t.compressor = s.compressor, t.mode = s.mode, t.evaporators = s.evaporators,
           t.actsAsFreezer = s.actsAsFreezer
    PROVE  PrechillConditions(t) <=> PrechillConditions(s)
BY DEF PrechillConditions

LEMMA PrechillSignalKeeps ==
    ASSUME NEW s, Prechill(s), s.counting \in BOOLEAN,
           IF PrechillConditions(s) THEN s.time = AtMostCap(s.met) ELSE s.met = 0,
           ~s.counting => s.time = 0
    PROVE  PrechillInv(PrechillSignal(s))
<1> DEFINE time == IF s.counting THEN 0 ELSE s.time
           t == PrechillSignal(s)
<1>0. PrechillTimeCap \in Nat
  BY CoolingPoliciesAssumption
<1>1. time = 0
  BY DEF Prechill
<1> HIDE DEF time
<1>2. CASE PrechillConditions(s)
  <2>0. s.time = AtMostCap(s.met)
    BY <1>2
  <2>1. t = [s EXCEPT !.counting = TRUE]
    BY <1>2 DEF PrechillSignal
  <2> HIDE DEF t
  <2>2. /\ Prechill(t) /\ t.counting /\ t.time = s.time /\ t.met = s.met
        /\ t.compressor = s.compressor /\ t.mode = s.mode /\ t.evaporators = s.evaporators
        /\ t.actsAsFreezer = s.actsAsFreezer
    BY <2>1 DEF Prechill, PrechillFields
  <2>3. PrechillConditions(t)
    BY <1>2, <2>2, ConditionsFollow
  <2>4. PrechillInv(t)
    BY <2>0, <2>2, <2>3 DEF PrechillInv
  <2> QED BY <2>4 DEF t
<1>3. CASE ~PrechillConditions(s)
  <2>1. t = [s EXCEPT !.counting = FALSE, !.time = time]
    BY <1>3 DEF PrechillSignal, time
  <2> HIDE DEF t
  <2>2. /\ t = [f \in PrechillFields |-> t[f]] /\ t.counting = FALSE /\ t.time = time /\ t.met = s.met
        /\ t.compressor = s.compressor /\ t.mode = s.mode /\ t.evaporators = s.evaporators
        /\ t.actsAsFreezer = s.actsAsFreezer
    BY <2>1 DEF Prechill, PrechillFields
  <2>3. ~PrechillConditions(t)
    BY <1>3, <2>2, ConditionsFollow
  <2>4. s.met = 0 /\ AtMostCap(0) = 0
    BY <1>0, <1>3 DEF AtMostCap
  <2>5. PrechillInv(t)
    BY <1>1, <2>2, <2>3, <2>4 DEF PrechillInv, Prechill
  <2> QED BY <2>5 DEF t
<1> QED BY <1>2, <1>3

LEMMA PrechillStarts == PrechillTimeInit => PrechillInv(st)
<1> SUFFICES ASSUME PrechillTimeInit PROVE PrechillInv(st)
  OBVIOUS
<1>1. PICK none : none = 0
  OBVIOUS
<1>2. PICK compressor \in BOOLEAN, acts \in BOOLEAN, mode \in CoolingModes, n \in 1..3 :
        st = PrechillSignal([compressor |-> compressor, mode |-> mode, evaporators |-> n,
                             actsAsFreezer |-> acts, counting |-> TRUE, time |-> none, met |-> 0])
  BY <1>1, ZenonT(120) DEF PrechillTimeInit
<1> DEFINE s == [compressor |-> compressor, mode |-> mode, evaporators |-> n,
                 actsAsFreezer |-> acts, counting |-> TRUE, time |-> none, met |-> 0]
<1>3. s = [f \in PrechillFields |-> s[f]]
  BY DEF PrechillFields
<1>4. s.counting = TRUE /\ s.time = none /\ s.met = 0
  OBVIOUS
<1>5. st = PrechillSignal(s)
  BY <1>2
<1> HIDE DEF s
<1>6. AtMostCap(0) = 0
  BY CoolingPoliciesAssumption DEF AtMostCap
<1>7. Prechill(s)
  BY <1>1, <1>3, <1>4 DEF Prechill
<1> QED BY <1>1, <1>4, <1>5, <1>6, <1>7, PrechillSignalKeeps

LEMMA PrechillStep ==
    ASSUME PrechillInv(st), PrechillMinute \/ PrechillInputChanges
    PROVE  PrechillInv(st')
<1>0. PrechillTimeCap \in Nat
  BY CoolingPoliciesAssumption
<1>1. CASE PrechillMinute
  <2> DEFINE met == IF PrechillConditions(st) THEN st.met + 1 ELSE st.met
             time == IF st.counting /\ st.time < PrechillTimeCap THEN st.time + 1 ELSE st.time
  <2>1. st' = [st EXCEPT !.met = met, !.time = time]
    BY <1>1 DEF PrechillMinute
  <2>2. /\ met \in Nat /\ time \in Nat /\ time = AtMostCap(met)
        /\ ~PrechillConditions(st) => time = 0 /\ met = 0
    BY <1>0 DEF PrechillInv, Prechill, AtMostCap
  <2> HIDE DEF met, time
  <2>3. /\ st' = [f \in PrechillFields |-> st'[f]] /\ st'.counting = st.counting /\ st'.time = time /\ st'.met = met
        /\ st'.compressor = st.compressor /\ st'.mode = st.mode /\ st'.evaporators = st.evaporators
        /\ st'.actsAsFreezer = st.actsAsFreezer
    BY <2>1 DEF PrechillInv, Prechill, PrechillFields
  <2>4. ASSUME NEW t, t = st'
        PROVE  PrechillInv(t)
    <3>1. PrechillConditions(t) <=> PrechillConditions(st)
      BY <2>3, <2>4, ConditionsFollow
    <3> QED BY <2>2, <2>3, <2>4, <3>1 DEF PrechillInv, Prechill
  <2> QED BY <2>4
<1>2. CASE PrechillInputChanges
  <2>1. PICK s \in {[st EXCEPT !.compressor = ~@], [st EXCEPT !.actsAsFreezer = ~@]}
                   \union {[st EXCEPT !.mode = m] : m \in CoolingModes \ {st.mode}} :
          st' = PrechillSignal(
                  [s EXCEPT !.met = IF PrechillConditions(s) /\ PrechillConditions(st) THEN @ ELSE 0])
    BY <1>2 DEF PrechillInputChanges
  <2>2. Prechill(s) /\ s.counting = st.counting /\ s.time = st.time /\ s.met = st.met
    <3>1. CASE s = [st EXCEPT !.compressor = ~@] \/ s = [st EXCEPT !.actsAsFreezer = ~@]
      BY <3>1 DEF PrechillInv, Prechill, PrechillFields
    <3>2. CASE \E m \in CoolingModes : s = [st EXCEPT !.mode = m]
      BY <3>2 DEF PrechillInv, Prechill, PrechillFields
    <3> QED BY <2>1, <3>1, <3>2
  <2> DEFINE met == IF PrechillConditions(s) /\ PrechillConditions(st) THEN s.met ELSE 0
             r == [s EXCEPT !.met = met]
  <2>3. st' = PrechillSignal(r)
    BY <2>1
  <2>4. met \in Nat /\ (PrechillConditions(s) /\ PrechillConditions(st) => met = s.met)
        /\ (~PrechillConditions(s) \/ ~PrechillConditions(st) => met = 0)
    BY <2>2 DEF Prechill
  <2> HIDE DEF met
  <2>5. /\ Prechill(r) /\ r.counting = s.counting /\ r.time = s.time /\ r.met = met
        /\ r.compressor = s.compressor /\ r.mode = s.mode /\ r.evaporators = s.evaporators
        /\ r.actsAsFreezer = s.actsAsFreezer
    BY <2>2, <2>4 DEF Prechill, PrechillFields
  <2> HIDE DEF r
  <2>6. PrechillConditions(r) <=> PrechillConditions(s)
    BY <2>5, ConditionsFollow
  <2>7. /\ st.counting <=> PrechillConditions(st)
        /\ ~PrechillConditions(st) => st.time = 0 /\ st.met = 0
        /\ st.time = AtMostCap(st.met)
    BY DEF PrechillInv
  <2>70. AtMostCap(0) = 0
    BY <1>0 DEF AtMostCap
  <2>8. /\ IF PrechillConditions(r) THEN r.time = AtMostCap(r.met) ELSE r.met = 0
        /\ ~r.counting => r.time = 0
    BY <2>2, <2>4, <2>5, <2>6, <2>7, <2>70
  <2>9. r.counting \in BOOLEAN
    BY <1>2, <2>2, <2>5 DEF PrechillInv
  <2> QED BY <2>3, <2>5, <2>8, <2>9, PrechillSignalKeeps
<1> QED BY <1>1, <1>2

-----------------------------------------------------------------------------
(* The exceeded temperature.                                               *)

ExceededFields ==
    {"on", "open", "idle", "valid", "temperature", "doors", "defrost", "doorTimer", "defrostTimer", "fault"}

Exceeded(s) ==
    /\ s = [f \in ExceededFields |-> s[f]]
    /\ s.on \in BOOLEAN /\ s.idle \in BOOLEAN /\ s.doorTimer \in BOOLEAN /\ s.defrostTimer \in BOOLEAN
    /\ s.fault \in BOOLEAN

\* Each machine has the state of what it watches, and a timer that runs is the
\* one of the state that waits.
Watches(s) ==
    /\ s.doorTimer => s.on /\ s.doors = "Closed"
    /\ s.defrostTimer => s.on /\ s.defrost = "Idle"
    /\ s.on => /\ IF s.open = {} THEN s.doors = "ClosedLong" \/ (s.doors = "Closed" /\ s.doorTimer)
                  ELSE s.doors = "Open"
               /\ IF s.idle THEN s.defrost = "IdleLong" \/ (s.defrost = "Idle" /\ s.defrostTimer)
                  ELSE s.defrost = "NotIdle"

ExceededInv(s) == Exceeded(s) /\ Watches(s) /\ (s.on /\ ExceededConditions(s) => s.fault)

LEMMA SetExceededKeeps ==
    ASSUME NEW s, Exceeded(s), Watches(s)
    PROVE  ExceededInv(SetExceeded(s))
<1>1. CASE ExceededConditions(s)
  <2> DEFINE t == SetExceeded(s)
  <2>1. t = [s EXCEPT !.fault = TRUE]
    BY <1>1 DEF SetExceeded
  <2> HIDE DEF t
  <2>2. /\ Exceeded(t) /\ t.fault /\ t.on = s.on /\ t.open = s.open /\ t.idle = s.idle /\ t.doors = s.doors
        /\ t.defrost = s.defrost /\ t.doorTimer = s.doorTimer /\ t.defrostTimer = s.defrostTimer
    BY <2>1 DEF Exceeded, ExceededFields
  <2>3. ExceededInv(t)
    BY <2>2 DEF ExceededInv, Watches
  <2> QED BY <2>3 DEF t
<1>2. CASE ~ExceededConditions(s)
  BY <1>2 DEF SetExceeded, ExceededInv
<1> QED BY <1>1, <1>2

LEMMA ExceededStarts == ExceededInit => ExceededInv(st)
<1> SUFFICES ASSUME ExceededInit PROVE ExceededInv(st)
  OBVIOUS
<1>1. PICK open \in SUBSET PolicyDoors, idle \in BOOLEAN, valid \in BOOLEAN :
        st = [on |-> FALSE, open |-> open, idle |-> idle, valid |-> valid,
              temperature |-> "high", doors |-> "Open", defrost |-> "NotIdle",
              doorTimer |-> FALSE, defrostTimer |-> FALSE, fault |-> FALSE]
  BY DEF ExceededInit
<1>2. st = [f \in ExceededFields |-> st[f]]
  BY <1>1 DEF ExceededFields
<1>3. st.on = FALSE /\ st.idle \in BOOLEAN
  BY <1>1
<1>4. st.doorTimer = FALSE /\ st.defrostTimer = FALSE
  BY <1>1
<1>5. st.fault = FALSE
  BY <1>1
<1> QED BY <1>2, <1>3, <1>4, <1>5 DEF ExceededInv, Exceeded, Watches

LEMMA ExceededDoorKeeps ==
    ASSUME ExceededInv(st), NEW d, ExceededDoorChanges(d)
    PROVE  ExceededInv(st')
<1> DEFINE open == Toggled(st.open, d)
           s == [st EXCEPT !.open = open]
<1>1. st' = IF s.on THEN ExceededDoorSignal(s) ELSE s
  BY DEF ExceededDoorChanges
<1> HIDE DEF open
<1>2. /\ Exceeded(s) /\ s.open = open /\ s.on = st.on /\ s.idle = st.idle /\ s.doors = st.doors /\ s.defrost = st.defrost
      /\ s.doorTimer = st.doorTimer /\ s.defrostTimer = st.defrostTimer /\ s.fault = st.fault
      /\ s.temperature = st.temperature /\ s.valid = st.valid
  BY DEF ExceededInv, Exceeded, ExceededFields
<1> HIDE DEF s
<1>3. CASE ~s.on
  BY <1>1, <1>2, <1>3 DEF ExceededInv, Watches
<1>4. CASE s.on /\ s.open = {} /\ s.doors = "Open"
  <2>1. st' = [s EXCEPT !.doors = "Closed", !.doorTimer = TRUE]
    BY <1>1, <1>4 DEF ExceededDoorSignal
  <2>2. /\ Exceeded(st') /\ st'.open = s.open /\ st'.on = s.on /\ st'.idle = s.idle /\ st'.doors = "Closed"
        /\ st'.defrost = s.defrost /\ st'.doorTimer = TRUE /\ st'.defrostTimer = s.defrostTimer
    BY <1>2, <2>1 DEF Exceeded, ExceededFields
  <2> QED BY <1>2, <1>4, <2>2 DEF ExceededInv, Watches, ExceededConditions
<1>5. CASE s.on /\ s.open # {} /\ s.doors # "Open"
  <2>1. st' = [s EXCEPT !.doors = "Open", !.doorTimer = FALSE]
    BY <1>1, <1>5 DEF ExceededDoorSignal
  <2>2. /\ Exceeded(st') /\ st'.open = s.open /\ st'.on = s.on /\ st'.idle = s.idle /\ st'.doors = "Open"
        /\ st'.defrost = s.defrost /\ st'.doorTimer = FALSE /\ st'.defrostTimer = s.defrostTimer
    BY <1>2, <2>1 DEF Exceeded, ExceededFields
  <2> QED BY <1>2, <1>5, <2>2 DEF ExceededInv, Watches, ExceededConditions
<1>6. CASE s.on /\ ~(s.open = {} /\ s.doors = "Open") /\ ~(s.open # {} /\ s.doors # "Open")
  <2>1. st' = s
    BY <1>1, <1>6 DEF ExceededDoorSignal
  <2> QED BY <1>2, <1>6, <2>1 DEF ExceededInv, Watches, ExceededConditions, TooWarm
<1> QED BY <1>3, <1>4, <1>5, <1>6

LEMMA ExceededDefrostKeeps ==
    ASSUME ExceededInv(st), ExceededDefrostChanges
    PROVE  ExceededInv(st')
<1> DEFINE idle == ~st.idle
           s == [st EXCEPT !.idle = idle]
<1>1. st' = IF s.on THEN ExceededDefrostSignal(s) ELSE s
  BY DEF ExceededDefrostChanges
<1>10. idle \in BOOLEAN
  OBVIOUS
<1> HIDE DEF idle
<1>2. /\ Exceeded(s) /\ s.open = st.open /\ s.on = st.on /\ s.idle = idle /\ s.doors = st.doors /\ s.defrost = st.defrost
      /\ s.doorTimer = st.doorTimer /\ s.defrostTimer = st.defrostTimer /\ s.fault = st.fault
      /\ s.temperature = st.temperature /\ s.valid = st.valid
  BY <1>10 DEF ExceededInv, Exceeded, ExceededFields
<1> HIDE DEF s
<1>3. CASE ~s.on
  BY <1>1, <1>2, <1>3 DEF ExceededInv, Watches
<1>4. CASE s.on /\ s.idle /\ s.defrost = "NotIdle"
  <2>1. st' = [s EXCEPT !.defrost = "Idle", !.defrostTimer = TRUE]
    BY <1>1, <1>4 DEF ExceededDefrostSignal
  <2>2. /\ Exceeded(st') /\ st'.open = s.open /\ st'.on = s.on /\ st'.idle = s.idle /\ st'.doors = s.doors
        /\ st'.defrost = "Idle" /\ st'.doorTimer = s.doorTimer /\ st'.defrostTimer = TRUE
    BY <1>2, <2>1 DEF Exceeded, ExceededFields
  <2> QED BY <1>2, <1>4, <2>2 DEF ExceededInv, Watches, ExceededConditions
<1>5. CASE s.on /\ ~s.idle /\ s.defrost # "NotIdle"
  <2>1. st' = [s EXCEPT !.defrost = "NotIdle", !.defrostTimer = FALSE]
    BY <1>1, <1>5 DEF ExceededDefrostSignal
  <2>2. /\ Exceeded(st') /\ st'.open = s.open /\ st'.on = s.on /\ st'.idle = s.idle /\ st'.doors = s.doors
        /\ st'.defrost = "NotIdle" /\ st'.doorTimer = s.doorTimer /\ st'.defrostTimer = FALSE
    BY <1>2, <2>1 DEF Exceeded, ExceededFields
  <2> QED BY <1>2, <1>5, <2>2 DEF ExceededInv, Watches, ExceededConditions
<1>6. CASE s.on /\ ~(s.idle /\ s.defrost = "NotIdle") /\ ~(~s.idle /\ s.defrost # "NotIdle")
  <2>1. st' = s
    BY <1>1, <1>6 DEF ExceededDefrostSignal
  <2> QED BY <1>2, <1>6, <2>1 DEF ExceededInv, Watches, ExceededConditions, TooWarm
<1> QED BY <1>3, <1>4, <1>5, <1>6

LEMMA ExceededReadingKeeps ==
    ASSUME ExceededInv(st), ExceededReadingChanges
    PROVE  ExceededInv(st')
<1>1. PICK s \in {[st EXCEPT !.valid = ~@]}
                 \union {[st EXCEPT !.temperature = t] : t \in {"high", "between", "low"}} :
        st' = IF s.on /\ s.temperature = "low" /\ s.valid THEN [s EXCEPT !.fault = FALSE]
              ELSE IF s.on THEN SetExceeded(s) ELSE s
  BY DEF ExceededReadingChanges
<1>2. /\ Exceeded(s) /\ s.open = st.open /\ s.on = st.on /\ s.idle = st.idle /\ s.doors = st.doors /\ s.defrost = st.defrost
      /\ s.doorTimer = st.doorTimer /\ s.defrostTimer = st.defrostTimer /\ s.fault = st.fault
  <2>1. CASE s = [st EXCEPT !.valid = ~@]
    BY <2>1 DEF ExceededInv, Exceeded, ExceededFields
  <2>2. CASE \E t \in {"high", "between", "low"} : s = [st EXCEPT !.temperature = t]
    <3>1. PICK t : s = [st EXCEPT !.temperature = t]
      BY <2>2
    <3> QED BY <3>1 DEF ExceededInv, Exceeded, ExceededFields
  <2> QED BY <1>1, <2>1, <2>2
<1>3. Watches(s)
  BY <1>2 DEF ExceededInv, Watches
<1>4. CASE s.on /\ s.temperature = "low" /\ s.valid
  <2>1. st' = [s EXCEPT !.fault = FALSE]
    BY <1>1, <1>4
  <2>2. /\ Exceeded(st') /\ st'.open = s.open /\ st'.on = s.on /\ st'.idle = s.idle /\ st'.doors = s.doors
        /\ st'.defrost = s.defrost /\ st'.doorTimer = s.doorTimer /\ st'.defrostTimer = s.defrostTimer
        /\ st'.temperature = s.temperature
    BY <1>2, <2>1 DEF Exceeded, ExceededFields
  <2>3. ~ExceededConditions(st')
    BY <1>4, <2>2 DEF ExceededConditions, TooWarm
  <2>4. Watches(st')
    BY <1>3, <2>2 DEF Watches
  <2> QED BY <2>2, <2>3, <2>4 DEF ExceededInv
<1>5. CASE s.on /\ ~(s.temperature = "low" /\ s.valid)
  BY <1>1, <1>2, <1>3, <1>5, SetExceededKeeps
<1>6. CASE ~s.on
  BY <1>1, <1>2, <1>3, <1>6 DEF ExceededInv
<1> QED BY <1>4, <1>5, <1>6

LEMMA ExceededStep ==
    ASSUME ExceededInv(st),
           PowerOnTimeComplete \/ ExceededDefrostChanges \/ ExceededReadingChanges
           \/ DoorTimeComplete \/ DefrostTimeComplete \/ (\E d \in PolicyDoors : ExceededDoorChanges(d))
    PROVE  ExceededInv(st')
<1>1. CASE PowerOnTimeComplete
  <2> DEFINE s == [st EXCEPT !.on = TRUE]
             doors == IF s.open = {} THEN "Closed" ELSE "Open"
             doorTimer == s.open = {}
             defrost == IF s.idle THEN "Idle" ELSE "NotIdle"
             defrostTimer == s.idle
  <2>1. st' = [s EXCEPT !.doors = doors, !.doorTimer = doorTimer, !.defrost = defrost, !.defrostTimer = defrostTimer]
    BY <1>1 DEF PowerOnTimeComplete, StartExceededMachines
  <2>2. Exceeded(s) /\ s.on = TRUE
    BY DEF ExceededInv, Exceeded, ExceededFields
  <2> HIDE DEF s
  <2>3. /\ doorTimer \in BOOLEAN /\ defrostTimer \in BOOLEAN
        /\ IF s.open = {} THEN doors = "Closed" /\ doorTimer ELSE doors = "Open" /\ ~doorTimer
        /\ IF s.idle THEN defrost = "Idle" /\ defrostTimer ELSE defrost = "NotIdle" /\ ~defrostTimer
    BY <2>2 DEF Exceeded
  <2> HIDE DEF doors, doorTimer, defrost, defrostTimer
  <2>4. /\ st' = [f \in ExceededFields |-> st'[f]]
        /\ st'.on = s.on /\ st'.open = s.open /\ st'.idle = s.idle /\ st'.fault = s.fault
        /\ st'.doors = doors /\ st'.doorTimer = doorTimer /\ st'.defrost = defrost /\ st'.defrostTimer = defrostTimer
    BY <2>1, <2>2 DEF Exceeded, ExceededFields
  <2>5. Exceeded(st')
    BY <2>2, <2>3, <2>4 DEF Exceeded
  <2>6. Watches(st') /\ ~ExceededConditions(st')
    BY <2>2, <2>3, <2>4 DEF Watches, ExceededConditions
  <2> QED BY <2>5, <2>6 DEF ExceededInv
<1>2. CASE DoorTimeComplete
  <2> DEFINE s == [st EXCEPT !.doors = "ClosedLong", !.doorTimer = FALSE]
  <2>1. st' = SetExceeded(s) /\ st.doorTimer
    BY <1>2 DEF DoorTimeComplete
  <2>2. /\ Exceeded(s) /\ s.open = st.open /\ s.on = st.on /\ s.idle = st.idle /\ s.doors = "ClosedLong"
        /\ s.defrost = st.defrost /\ s.doorTimer = FALSE /\ s.defrostTimer = st.defrostTimer
    BY DEF ExceededInv, Exceeded, ExceededFields
  <2> HIDE DEF s
  <2>3. Watches(s)
    BY <2>1, <2>2 DEF ExceededInv, Watches
  <2> QED BY <2>1, <2>2, <2>3, SetExceededKeeps
<1>3. CASE DefrostTimeComplete
  <2> DEFINE s == [st EXCEPT !.defrost = "IdleLong", !.defrostTimer = FALSE]
  <2>1. st' = SetExceeded(s) /\ st.defrostTimer
    BY <1>3 DEF DefrostTimeComplete
  <2>2. /\ Exceeded(s) /\ s.open = st.open /\ s.on = st.on /\ s.idle = st.idle /\ s.doors = st.doors
        /\ s.defrost = "IdleLong" /\ s.doorTimer = st.doorTimer /\ s.defrostTimer = FALSE
    BY DEF ExceededInv, Exceeded, ExceededFields
  <2> HIDE DEF s
  <2>3. Watches(s)
    BY <2>1, <2>2 DEF ExceededInv, Watches
  <2> QED BY <2>1, <2>2, <2>3, SetExceededKeeps
<1> QED BY <1>1, <1>2, <1>3, ExceededDoorKeeps, ExceededDefrostKeeps, ExceededReadingKeeps

-----------------------------------------------------------------------------
(* The non-heated cycle defrost.                                           *)

CycleFields ==
    {"state", "timer", "evaporators", "whenOff", "whenChanged", "compressor", "heating", "previous", "current"}

CycleInv(s) ==
    /\ s = [f \in CycleFields |-> s[f]]
    /\ s.heating \in BOOLEAN
    /\ s.state # "Off" => ~s.heating /\ s.timer

LEMMA EnterCycleFacts ==
    ASSUME NEW s, s = [f \in CycleFields |-> s[f]], s.heating \in BOOLEAN
    PROVE  /\ CycleInv(EnterCycleOff(s))
           /\ ~s.heating => CycleInv(EnterCycleRunning(s, "CompressorIsOff"))
                            /\ CycleInv(EnterCycleRunning(s, "CompressorIsOn"))
<1>1. CycleInv(EnterCycleOff(s))
  BY DEF CycleInv, CycleFields, EnterCycleOff
<1>2. ASSUME ~s.heating, NEW state
      PROVE  CycleInv(EnterCycleRunning(s, state))
  BY <1>2 DEF CycleInv, CycleFields, EnterCycleRunning
<1> QED BY <1>1, <1>2

LEMMA CycleStep ==
    ASSUME CycleInv(st),
           CycleCompressorChanges \/ CycleDefrostChanges \/ CycleTimeExpires
           \/ (\E p \in ValvePositions : CycleValveMoves(p))
    PROVE  CycleInv(st')
<1>1. CASE CycleCompressorChanges
  <2> DEFINE compressor == ~st.compressor
             s == [st EXCEPT !.compressor = compressor]
  <2>1. st' = IF s.compressor THEN CycleCompressorOn(s) ELSE CycleCompressorOff(s)
    BY <1>1 DEF CycleCompressorChanges
  <2> HIDE DEF compressor
  <2>2. CycleInv(s)
    BY DEF CycleInv, CycleFields
  <2> HIDE DEF s
  <2> QED BY <2>1, <2>2, EnterCycleFacts DEF CycleInv, CycleCompressorOn, CycleCompressorOff
<1>2. CASE CycleDefrostChanges
  <2> DEFINE heating == ~st.heating
             s == [st EXCEPT !.heating = heating]
  <2>1. st' = IF s.heating /\ s.state # "Off" THEN EnterCycleOff(s) ELSE s
    BY <1>2 DEF CycleDefrostChanges
  <2>2. heating \in BOOLEAN
    OBVIOUS
  <2> HIDE DEF heating
  <2>3. s = [f \in CycleFields |-> s[f]] /\ s.heating \in BOOLEAN /\ s.state = st.state /\ s.timer = st.timer
    BY <2>2 DEF CycleInv, CycleFields
  <2> HIDE DEF s
  <2>4. CASE s.heating /\ s.state # "Off"
    BY <2>1, <2>3, <2>4, EnterCycleFacts
  <2>5. CASE ~(s.heating /\ s.state # "Off")
    <3>1. st' = s
      BY <2>1, <2>5
    <3> QED BY <2>3, <2>5, <3>1 DEF CycleInv
  <2> QED BY <2>4, <2>5
<1>3. CASE CycleTimeExpires
  <2> DEFINE s == [st EXCEPT !.timer = FALSE]
  <2>1. st' = EnterCycleOff(s)
    BY <1>3 DEF CycleTimeExpires
  <2>2. s = [f \in CycleFields |-> s[f]] /\ s.heating \in BOOLEAN
    BY DEF CycleInv, CycleFields
  <2> HIDE DEF s
  <2> QED BY <2>1, <2>2, EnterCycleFacts
<1>4. CASE \E p \in ValvePositions : CycleValveMoves(p)
  <2>1. PICK p \in ValvePositions : CycleValveMoves(p)
    BY <1>4
  <2> DEFINE current == st.current
             s == [st EXCEPT !.previous = current, !.current = p]
  <2>2. st' = CycleValveChanged(s)
    BY <2>1 DEF CycleValveMoves
  <2> HIDE DEF current
  <2>3. CycleInv(s)
    BY DEF CycleInv, CycleFields
  <2> HIDE DEF s
  <2>4. CycleInv(CycleValveChanged(s))
    <3>0. s = [f \in CycleFields |-> s[f]] /\ s.heating \in BOOLEAN
      BY <2>3 DEF CycleInv
    <3>1. CASE s.state # "Off"
      <4>1. CycleValveChanged(s) = RunningCycleValveChanged(s)
        BY <3>1 DEF CycleValveChanged
      <4> QED BY <2>3, <3>0, <4>1, EnterCycleFacts DEF RunningCycleValveChanged
    <3>2. CASE s.state = "Off" /\ s.heating
      <4>1. CycleValveChanged(s) = s
        BY <3>2 DEF CycleValveChanged
      <4> QED BY <2>3, <4>1
    <3>3. CASE s.state = "Off" /\ ~s.heating
      <4>1. CycleValveChanged(s) \in
              {s, EnterCycleRunning(s, "CompressorIsOff"), EnterCycleRunning(s, "CompressorIsOn")}
        BY <3>3 DEF CycleValveChanged
      <4> QED BY <2>3, <3>0, <3>3, <4>1, EnterCycleFacts
    <3> QED BY <3>1, <3>2, <3>3
  <2> QED BY <2>2, <2>4
<1> QED BY <1>1, <1>2, <1>3, <1>4

LEMMA CycleStarts == CycleDefrostInit => CycleInv(st)
<1> SUFFICES ASSUME CycleDefrostInit PROVE CycleInv(st)
  OBVIOUS
<1>1. PICK n \in 1..3, whenOff \in BOOLEAN, whenChanged \in BOOLEAN, compressor \in BOOLEAN :
        st = [state |-> "Off", timer |-> FALSE, evaporators |-> n, whenOff |-> whenOff,
              whenChanged |-> whenChanged, compressor |-> compressor, heating |-> FALSE,
              previous |-> "A", current |-> "B"]
  BY DEF CycleDefrostInit
<1>2. st = [f \in CycleFields |-> st[f]]
  BY <1>1 DEF CycleFields
<1>3. st.state = "Off"
  BY <1>1
<1>4. st.heating = FALSE
  BY <1>1
<1> QED BY <1>2, <1>3, <1>4 DEF CycleInv

-----------------------------------------------------------------------------
(* Loads that are off while a door is open.                                *)

LoadsFields == {"open", "state", "off", "timer"}

LoadsInv(s) ==
    /\ s = [f \in LoadsFields |-> s[f]]
    /\ IF s.open = {} THEN s.state = "Closed" ELSE s.state = "Open"
    /\ s.off => s.timer \/ (s.open # {} /\ ~OpenTimeout)

LEMMA EnterLoadsFacts ==
    ASSUME NEW s, s = [f \in LoadsFields |-> s[f]]
    PROVE  /\ s.open = {} => LoadsInv(EnterAllDoorsAreClosed(s))
           /\ s.open # {} => LoadsInv(EnterDoorIsOpen(s))
<1>1. ASSUME s.open = {} PROVE LoadsInv(EnterAllDoorsAreClosed(s))
  BY <1>1 DEF LoadsInv, LoadsFields, EnterAllDoorsAreClosed
<1>2. ASSUME s.open # {} PROVE LoadsInv(EnterDoorIsOpen(s))
  <2> DEFINE r == [s EXCEPT !.off = TRUE]
             t == [r EXCEPT !.state = "Open", !.timer = OpenTimeout]
  <2>1. EnterDoorIsOpen(s) = t
    BY DEF EnterDoorIsOpen, VoteOffAllLoads
  <2>2. r = [f \in LoadsFields |-> r[f]] /\ r.open = s.open
    BY DEF LoadsFields
  <2> HIDE DEF r
  <2>3. t = [f \in LoadsFields |-> t[f]] /\ t.open = s.open /\ t.state = "Open" /\ t.timer = OpenTimeout
    BY <2>2 DEF LoadsFields
  <2> HIDE DEF t
  <2>4. LoadsInv(t)
    BY <1>2, <2>3, CoolingPoliciesAssumption DEF LoadsInv
  <2> QED BY <2>1, <2>4
<1> QED BY <1>1, <1>2

LEMMA LoadsStarts == LoadsInit => LoadsInv(st)
<1> SUFFICES ASSUME LoadsInit PROVE LoadsInv(st)
  OBVIOUS
<1>1. PICK open \in SUBSET PolicyDoors :
        LET s == [open |-> open, state |-> "Closed", off |-> FALSE, timer |-> FALSE] IN
        st = IF open = {} THEN EnterAllDoorsAreClosed(s) ELSE EnterDoorIsOpen(s)
  BY DEF LoadsInit
<1>2. PICK no : no = FALSE
  OBVIOUS
<1> DEFINE s == [open |-> open, state |-> "Closed", off |-> no, timer |-> FALSE]
<1>3. s = [f \in LoadsFields |-> s[f]] /\ s.open = open
  BY DEF LoadsFields
<1>4. st = IF open = {} THEN EnterAllDoorsAreClosed(s) ELSE EnterDoorIsOpen(s)
  BY <1>1, <1>2
<1> HIDE DEF s
<1> QED BY <1>3, <1>4, EnterLoadsFacts

LEMMA LoadsStep ==
    ASSUME LoadsInv(st), LoadsTimeoutExpires \/ (\E d \in PolicyDoors : LoadsDoorChanges(d))
    PROVE  LoadsInv(st')
<1>1. CASE LoadsTimeoutExpires
  <2> DEFINE r == [st EXCEPT !.timer = FALSE]
  <2>1. st' = [r EXCEPT !.off = FALSE]
    BY <1>1 DEF LoadsTimeoutExpires, VoteDontCareAllLoads
  <2>2. r = [f \in LoadsFields |-> r[f]] /\ r.open = st.open /\ r.state = st.state
    BY DEF LoadsInv, LoadsFields
  <2> HIDE DEF r
  <2>3. st' = [f \in LoadsFields |-> st'[f]] /\ st'.open = st.open /\ st'.state = st.state /\ st'.off = FALSE
    BY <2>1, <2>2 DEF LoadsFields
  <2> QED BY <2>3 DEF LoadsInv
<1>2. CASE \E d \in PolicyDoors : LoadsDoorChanges(d)
  <2>1. PICK d \in PolicyDoors : LoadsDoorChanges(d)
    BY <1>2
  <2> DEFINE open == Toggled(st.open, d)
             s == [st EXCEPT !.open = open]
  <2>2. st' = CASE s.open = {} /\ s.state = "Open" -> EnterAllDoorsAreClosed(s)
                [] s.open # {} /\ s.state = "Closed" -> EnterDoorIsOpen(s)
                [] OTHER -> s
    BY <2>1 DEF LoadsDoorChanges
  <2> HIDE DEF open
  <2>3. s = [f \in LoadsFields |-> s[f]] /\ s.open = open /\ s.state = st.state /\ s.off = st.off /\ s.timer = st.timer
    BY DEF LoadsInv, LoadsFields
  <2> HIDE DEF s
  <2>4. CASE s.open = {} /\ s.state = "Open"
    <3>1. st' = EnterAllDoorsAreClosed(s)
      BY <2>2, <2>4
    <3> QED BY <2>3, <2>4, <3>1, EnterLoadsFacts
  <2>5. CASE s.open # {} /\ s.state = "Closed"
    <3>1. st' = EnterDoorIsOpen(s)
      BY <2>2, <2>5
    <3> QED BY <2>3, <2>5, <3>1, EnterLoadsFacts
  <2>6. CASE ~(s.open = {} /\ s.state = "Open") /\ ~(s.open # {} /\ s.state = "Closed")
    <3>1. st' = s
      BY <2>2, <2>6
    <3> QED BY <2>3, <2>6, <3>1 DEF LoadsInv
  <2> QED BY <2>4, <2>5, <2>6
<1> QED BY <1>1, <1>2

-----------------------------------------------------------------------------
(* The ice rate.                                                           *)

IceRateFields == {"active", "timer", "above", "iceVote", "grid"}

\* A vote that the handler has cast is never slower than its own speed, also
\* when a faster one that it took over has gone.
IceRate(s) ==
    /\ s = [f \in IceRateFields |-> s[f]]
    /\ s.active \in BOOLEAN /\ s.timer \in BOOLEAN /\ (s.active <=> s.timer)
    /\ s.above \in 0..3 \cup {NoVote} /\ s.grid \in 0..3 /\ s.iceVote \in 0..3 \cup {NoVote}

IceRateInv(s) ==
    /\ IceRate(s)
    /\ s.iceVote # NoVote <=> s.timer
    /\ s.timer => s.iceVote >= IceRateSpeed

LEMMA UpdateIceRateFacts ==
    ASSUME NEW s, IceRate(s), s.active \/ s.iceVote = NoVote
    PROVE  IceRateInv(UpdateIceRateVote(s))
<1>0. IceRateSpeed \in 0..3
  BY CoolingPoliciesAssumption
<1>1. CASE s.active
  <2> DEFINE vote == IF ResolvedFan(s) < IceRateSpeed THEN IceRateSpeed ELSE ResolvedFan(s)
             t == UpdateIceRateVote(s)
  <2>1. t = [s EXCEPT !.iceVote = vote]
    BY <1>1 DEF UpdateIceRateVote
  <2>2. ResolvedFan(s) \in 0..3
    BY DEF ResolvedFan, IceRate, NoVote
  <2>3. vote \in 0..3 /\ vote >= IceRateSpeed /\ vote # NoVote
    BY <1>0, <2>2 DEF NoVote
  <2> HIDE DEF vote, t
  <2>4. /\ t = [f \in IceRateFields |-> t[f]] /\ t.iceVote = vote /\ t.active = s.active /\ t.timer = s.timer
        /\ t.above = s.above /\ t.grid = s.grid
    BY <2>1 DEF IceRate, IceRateFields
  <2>5. IceRateInv(t)
    BY <1>1, <2>3, <2>4 DEF IceRateInv, IceRate
  <2> QED BY <2>5 DEF t
<1>2. CASE ~s.active
  BY <1>2 DEF UpdateIceRateVote, IceRateInv, IceRate
<1> QED BY <1>1, <1>2

LEMMA IceRateStarts == IceRateInit => IceRateInv(st)
<1> SUFFICES ASSUME IceRateInit PROVE IceRateInv(st)
  OBVIOUS
<1>1. PICK none : none = NoVote
  OBVIOUS
<1>2. PICK no : no = FALSE
  OBVIOUS
<1>3. PICK grid \in 0..3 :
        st = [active |-> FALSE, timer |-> no, above |-> NoVote, iceVote |-> none, grid |-> grid]
  BY <1>1, <1>2 DEF IceRateInit
<1>4. st = [f \in IceRateFields |-> st[f]]
  BY <1>3 DEF IceRateFields
<1>5. st.active = FALSE /\ st.timer = no /\ st.above = NoVote /\ st.iceVote = none /\ st.grid = grid
  BY <1>3
<1> QED BY <1>1, <1>2, <1>4, <1>5 DEF IceRateInv, IceRate

LEMMA IceRateStep ==
    ASSUME IceRateInv(st), IceRateTriggered \/ IceRateVotesChange \/ IceRateTimeExpires
    PROVE  IceRateInv(st')
<1>1. CASE IceRateTriggered
  <2>1. PICK yes : yes = TRUE
    OBVIOUS
  <2> DEFINE s == [st EXCEPT !.timer = TRUE, !.active = yes]
  <2>2. st' = UpdateIceRateVote(s)
    BY <1>1, <2>1 DEF IceRateTriggered
  <2>3. IceRate(s) /\ s.active
    <3>1. /\ s = [f \in IceRateFields |-> s[f]] /\ s.active = yes /\ s.timer = TRUE /\ s.above = st.above
          /\ s.grid = st.grid /\ s.iceVote = st.iceVote
      BY DEF IceRateInv, IceRate, IceRateFields
    <3> HIDE DEF s
    <3> QED BY <2>1, <3>1 DEF IceRateInv, IceRate
  <2> HIDE DEF s
  <2> QED BY <2>2, <2>3, UpdateIceRateFacts
<1>2. CASE IceRateVotesChange
  <2>1. PICK s \in {[st EXCEPT !.above = v] : v \in 0..3 \union {NoVote}}
                   \union {[st EXCEPT !.grid = v] : v \in 0..3} :
          st' = IF ResolvedFan(s) # ResolvedFan(st) THEN UpdateIceRateVote(s) ELSE s
    BY <1>2 DEF IceRateVotesChange
  <2>2. IceRateInv(s)
    <3>1. CASE \E v \in 0..3 \cup {NoVote} : s = [st EXCEPT !.above = v]
      <4>1. PICK v \in 0..3 \cup {NoVote} : s = [st EXCEPT !.above = v]
        BY <3>1
      <4>2. /\ s = [f \in IceRateFields |-> s[f]] /\ s.active = st.active /\ s.timer = st.timer /\ s.above = v
            /\ s.grid = st.grid /\ s.iceVote = st.iceVote
        BY <4>1 DEF IceRateInv, IceRate, IceRateFields
      <4> QED BY <4>2 DEF IceRateInv, IceRate
    <3>2. CASE \E v \in 0..3 : s = [st EXCEPT !.grid = v]
      <4>1. PICK v \in 0..3 : s = [st EXCEPT !.grid = v]
        BY <3>2
      <4>2. /\ s = [f \in IceRateFields |-> s[f]] /\ s.active = st.active /\ s.timer = st.timer /\ s.above = st.above
            /\ s.grid = v /\ s.iceVote = st.iceVote
        BY <4>1 DEF IceRateInv, IceRate, IceRateFields
      <4> QED BY <4>2 DEF IceRateInv, IceRate
    <3> QED BY <2>1, <3>1, <3>2
  <2>3. IceRate(s) /\ (s.active \/ s.iceVote = NoVote)
    BY <2>2 DEF IceRateInv, IceRate
  <2> QED BY <2>1, <2>2, <2>3, UpdateIceRateFacts
<1>3. CASE IceRateTimeExpires
  <2>1. PICK no : no = FALSE
    OBVIOUS
  <2>2. st' = [st EXCEPT !.timer = FALSE, !.active = no, !.iceVote = NoVote]
    BY <1>3, <2>1 DEF IceRateTimeExpires
  <2>3. /\ st' = [f \in IceRateFields |-> st'[f]] /\ st'.active = no /\ st'.timer = FALSE /\ st'.above = st.above
        /\ st'.grid = st.grid /\ st'.iceVote = NoVote
    BY <2>2 DEF IceRateInv, IceRate, IceRateFields
  <2> QED BY <2>1, <2>3 DEF IceRateInv, IceRate
<1> QED BY <1>1, <1>2, <1>3

LEMMA IceRateIsFast ==
    ASSUME NEW s, IceRateInv(s), s.timer, s.above = NoVote
    PROVE  ResolvedFan(s) >= IceRateSpeed
BY CoolingPoliciesAssumption DEF IceRateInv, IceRate, ResolvedFan, NoVote

-----------------------------------------------------------------------------
(* The harvest count.                                                      *)

HarvestFields ==
    {"requested", "temperature", "count", "minutes", "satisfied", "ready", "seconds", "minuteTimer", "frozen"}

Harvest(s) ==
    /\ s = [f \in HarvestFields |-> s[f]]
    /\ s.requested \in BOOLEAN /\ s.satisfied \in BOOLEAN /\ s.ready \in BOOLEAN
    /\ s.seconds \in BOOLEAN /\ s.minuteTimer \in BOOLEAN
    /\ s.frozen \in Nat /\ s.minutes = s.frozen
    /\ s.satisfied => s.frozen >= MinimumFreezeTime

\* The minutes that are counted are those of one whole freeze, and nothing is
\* counted or calculated for nobody or after the harvest was announced.
HarvestInv(s) ==
    /\ Harvest(s)
    /\ s.ready => s.frozen >= MinimumFreezeTime /\ ~s.seconds /\ ~s.minuteTimer
    /\ IF s.requested THEN s.ready \/ s.seconds ELSE ~s.ready /\ ~s.seconds /\ ~s.minuteTimer

LEMMA CalculateHarvestFacts ==
    ASSUME NEW s, Harvest(s), ~s.ready, s.requested
    PROVE  LET t == CalculateHarvestCount(s)
           IN  /\ Harvest(t) /\ t.requested
               /\ t.ready => t.frozen >= MinimumFreezeTime /\ ~t.seconds /\ ~t.minuteTimer /\ s.satisfied
               /\ s.seconds => t.ready \/ t.seconds
<1> DEFINE count == IF s.temperature <= StartIntegration
                    THEN s.count + StartIntegration - s.temperature ELSE 0
           cold == s.temperature <= FreezeInitiation
           done == cold /\ s.satisfied /\ count >= TargetIntegration
           ready == s.ready \/ done
           seconds == s.seconds /\ ~done
           minuteTimer == cold /\ ~done /\ (s.minuteTimer \/ ~s.satisfied)
           minutes == IF cold THEN s.minutes ELSE 0
           satisfied == s.satisfied /\ cold
           frozen == IF cold THEN s.frozen ELSE 0
           t == CalculateHarvestCount(s)
<1>1. t = [s EXCEPT !.count = count, !.ready = ready, !.seconds = seconds, !.minuteTimer = minuteTimer,
                    !.minutes = minutes, !.satisfied = satisfied, !.frozen = frozen]
  BY DEF CalculateHarvestCount
<1> HIDE DEF count
<1>2. /\ ready \in BOOLEAN /\ seconds \in BOOLEAN /\ minuteTimer \in BOOLEAN /\ satisfied \in BOOLEAN
      /\ frozen \in Nat /\ minutes = frozen
      /\ satisfied => frozen >= MinimumFreezeTime
      /\ ready => frozen >= MinimumFreezeTime /\ ~seconds /\ ~minuteTimer /\ s.satisfied
      /\ s.seconds => ready \/ seconds
  BY DEF Harvest
<1> HIDE DEF t, cold, done, ready, seconds, minuteTimer, minutes, satisfied, frozen
<1>3. /\ t = [f \in HarvestFields |-> t[f]] /\ t.requested = s.requested
      /\ t.ready = ready /\ t.seconds = seconds /\ t.minuteTimer = minuteTimer
      /\ t.minutes = minutes /\ t.satisfied = satisfied /\ t.frozen = frozen
  BY <1>1 DEF Harvest, HarvestFields
<1>4. Harvest(t)
  BY <1>2, <1>3 DEF Harvest
<1>5. /\ t.requested
      /\ t.ready => t.frozen >= MinimumFreezeTime /\ ~t.seconds /\ ~t.minuteTimer /\ s.satisfied
      /\ s.seconds => t.ready \/ t.seconds
  BY <1>2, <1>3
<1> QED BY <1>4, <1>5 DEF t

LEMMA HarvestRequestKeeps ==
    ASSUME NEW s, s = [f \in HarvestFields |-> s[f]],
           s.requested \in BOOLEAN, s.satisfied \in BOOLEAN, s.seconds \in BOOLEAN, s.minuteTimer \in BOOLEAN,
           s.ready \in BOOLEAN,
           s.requested => ~s.ready, ~s.requested => Harvest(s)
    PROVE  HarvestInv(HarvestCountRequestChanged(s))
<1>1. CASE s.requested
  <2>1. PICK none : none = 0
    OBVIOUS
  <2>2. PICK zero : zero = 0
    OBVIOUS
  <2> DEFINE r == [s EXCEPT !.count = 0, !.satisfied = FALSE, !.minutes = none, !.frozen = zero]
             c == CalculateHarvestCount(r)
             t == [c EXCEPT !.seconds = TRUE]
  <2>3. HarvestCountRequestChanged(s) = t
    BY <1>1, <2>1, <2>2 DEF HarvestCountRequestChanged
  <2>4. /\ r = [f \in HarvestFields |-> r[f]] /\ r.requested = s.requested /\ r.satisfied = FALSE /\ r.ready = s.ready
        /\ r.seconds = s.seconds /\ r.minuteTimer = s.minuteTimer /\ r.minutes = none /\ r.frozen = zero
    BY DEF HarvestFields
  <2> HIDE DEF r
  <2>40. /\ ~r.ready /\ r.requested /\ ~r.satisfied /\ r.frozen \in Nat /\ r.minutes = r.frozen
    BY <1>1, <2>1, <2>2, <2>4
  <2>41. /\ r.requested \in BOOLEAN /\ r.satisfied \in BOOLEAN /\ r.ready \in BOOLEAN
         /\ r.seconds \in BOOLEAN /\ r.minuteTimer \in BOOLEAN
    BY <1>1, <2>4
  <2>5. Harvest(r) /\ ~r.ready /\ r.requested /\ ~r.satisfied
    BY ONLY <2>4, <2>40, <2>41 DEF Harvest
  <2>6. Harvest(c) /\ c.requested /\ ~c.ready
    BY <2>5, CalculateHarvestFacts
  <2> HIDE DEF c
  <2>7. /\ t = [f \in HarvestFields |-> t[f]] /\ t.requested = c.requested /\ t.satisfied = c.satisfied
        /\ t.ready = c.ready /\ t.seconds = TRUE /\ t.minuteTimer = c.minuteTimer
        /\ t.minutes = c.minutes /\ t.frozen = c.frozen
    BY <2>6 DEF Harvest, HarvestFields
  <2> HIDE DEF t
  <2>8. HarvestInv(t)
    BY <2>6, <2>7 DEF HarvestInv, Harvest
  <2> QED BY <2>3, <2>8
<1>2. CASE ~s.requested
  <2>1. PICK no : no = FALSE
    OBVIOUS
  <2>2. PICK never : never = FALSE
    OBVIOUS
  <2> DEFINE t == [s EXCEPT !.ready = FALSE, !.minuteTimer = no, !.seconds = never]
  <2>3. HarvestCountRequestChanged(s) = t
    BY <1>2, <2>1, <2>2 DEF HarvestCountRequestChanged
  <2>4. /\ t = [f \in HarvestFields |-> t[f]] /\ t.requested = s.requested /\ t.satisfied = s.satisfied
        /\ t.ready = FALSE /\ t.seconds = never /\ t.minuteTimer = no
        /\ t.minutes = s.minutes /\ t.frozen = s.frozen
    BY DEF HarvestFields
  <2> HIDE DEF t
  <2>5. HarvestInv(t)
    BY <1>2, <2>1, <2>2, <2>4 DEF HarvestInv, Harvest
  <2> QED BY <2>3, <2>5
<1> QED BY <1>1, <1>2

LEMMA HarvestStarts == HarvestCountInit => HarvestInv(st)
<1> SUFFICES ASSUME HarvestCountInit PROVE HarvestInv(st)
  OBVIOUS
<1>1. PICK frozen : frozen = 0
  OBVIOUS
<1>2. PICK minutes : minutes = 0
  OBVIOUS
<1>3. PICK requested \in BOOLEAN, temperature \in 0..3 :
        st = HarvestCountRequestChanged(
               [requested |-> requested, temperature |-> temperature, count |-> 0, minutes |-> minutes,
                satisfied |-> FALSE, ready |-> FALSE, seconds |-> FALSE, minuteTimer |-> FALSE,
                frozen |-> frozen])
  BY <1>1, <1>2 DEF HarvestCountInit
<1> DEFINE s == [requested |-> requested, temperature |-> temperature, count |-> 0, minutes |-> minutes,
                 satisfied |-> FALSE, ready |-> FALSE, seconds |-> FALSE, minuteTimer |-> FALSE,
                 frozen |-> frozen]
<1>4. s = [f \in HarvestFields |-> s[f]]
  BY DEF HarvestFields
<1>5. s.requested = requested /\ s.minutes = minutes /\ s.frozen = frozen
  OBVIOUS
<1>6. s.satisfied = FALSE /\ s.ready = FALSE
  OBVIOUS
<1>7. s.seconds = FALSE /\ s.minuteTimer = FALSE
  OBVIOUS
<1>8. st = HarvestCountRequestChanged(s)
  BY <1>3
<1> HIDE DEF s
<1>90. s.frozen \in Nat /\ s.minutes = s.frozen /\ ~s.satisfied
  BY <1>1, <1>2, <1>5, <1>6
<1>91. /\ s.requested \in BOOLEAN /\ s.satisfied \in BOOLEAN /\ s.ready \in BOOLEAN
       /\ s.seconds \in BOOLEAN /\ s.minuteTimer \in BOOLEAN
  BY <1>5, <1>6, <1>7
<1>9. Harvest(s)
  BY ONLY <1>4, <1>90, <1>91 DEF Harvest
<1> QED BY <1>4, <1>5, <1>6, <1>7, <1>8, <1>9, HarvestRequestKeeps

LEMMA HarvestStep ==
    ASSUME HarvestInv(st), HarvestCountRequest \/ HarvestCountMinute \/ (\E t \in 0..3 : HarvestCountSecond(t))
    PROVE  HarvestInv(st')
<1>1. CASE HarvestCountRequest
  <2> DEFINE requested == ~st.requested
             s == [st EXCEPT !.requested = requested]
  <2>1. st' = HarvestCountRequestChanged(s)
    BY <1>1 DEF HarvestCountRequest
  <2>2. requested \in BOOLEAN /\ (requested <=> ~st.requested)
    OBVIOUS
  <2> HIDE DEF requested
  <2>3. /\ s = [f \in HarvestFields |-> s[f]] /\ s.requested = requested /\ s.satisfied = st.satisfied
        /\ s.ready = st.ready /\ s.seconds = st.seconds /\ s.minuteTimer = st.minuteTimer
        /\ s.minutes = st.minutes /\ s.frozen = st.frozen
    BY DEF HarvestInv, Harvest, HarvestFields
  <2> HIDE DEF s
  <2>4. Harvest(s) /\ (s.requested => ~s.ready)
    BY <2>2, <2>3, SMTT(60) DEF HarvestInv, Harvest
  <2>5. HarvestInv(HarvestCountRequestChanged(s))
    <3>1. /\ s.requested \in BOOLEAN /\ s.satisfied \in BOOLEAN /\ s.seconds \in BOOLEAN
          /\ s.minuteTimer \in BOOLEAN /\ s.ready \in BOOLEAN
      BY <2>4 DEF Harvest
    <3> QED BY <2>3, <2>4, <3>1, HarvestRequestKeeps
  <2> QED BY <2>1, <2>5
<1>2. CASE HarvestCountMinute
  <2>1. PICK minutes : minutes = st.minutes + 1
    OBVIOUS
  <2> DEFINE frozen == st.frozen + 1
             satisfied == st.satisfied \/ st.minutes + 1 >= MinimumFreezeTime
  <2>2. st' = [st EXCEPT !.minutes = minutes, !.frozen = frozen, !.satisfied = satisfied] /\ st.minuteTimer
    BY <1>2, <2>1 DEF HarvestCountMinute
  <2>3. /\ frozen \in Nat /\ minutes = frozen /\ satisfied \in BOOLEAN
        /\ satisfied => frozen >= MinimumFreezeTime
    BY <2>1, CoolingPoliciesAssumption DEF HarvestInv, Harvest
  <2> HIDE DEF frozen, satisfied
  <2>4. /\ st' = [f \in HarvestFields |-> st'[f]] /\ st'.requested = st.requested /\ st'.satisfied = satisfied
        /\ st'.ready = st.ready /\ st'.seconds = st.seconds /\ st'.minuteTimer = st.minuteTimer
        /\ st'.minutes = minutes /\ st'.frozen = frozen
    BY <2>2 DEF HarvestInv, Harvest, HarvestFields
  <2> QED BY <2>2, <2>3, <2>4 DEF HarvestInv, Harvest
<1>3. CASE \E t \in 0..3 : HarvestCountSecond(t)
  <2>1. PICK t \in 0..3 : HarvestCountSecond(t)
    BY <1>3
  <2> DEFINE s == [st EXCEPT !.temperature = t]
  <2>2. st' = CalculateHarvestCount(s) /\ st.seconds
    BY <2>1 DEF HarvestCountSecond
  <2>3. /\ s = [f \in HarvestFields |-> s[f]] /\ s.requested = st.requested /\ s.satisfied = st.satisfied
        /\ s.ready = st.ready /\ s.seconds = st.seconds /\ s.minuteTimer = st.minuteTimer
        /\ s.minutes = st.minutes /\ s.frozen = st.frozen
    BY DEF HarvestInv, Harvest, HarvestFields
  <2> HIDE DEF s
  <2>4. Harvest(s) /\ ~s.ready /\ s.requested /\ s.seconds
    BY <2>2, <2>3 DEF HarvestInv, Harvest
  <2> DEFINE r == CalculateHarvestCount(s)
  <2>5. /\ Harvest(r) /\ r.requested
        /\ r.ready => r.frozen >= MinimumFreezeTime /\ ~r.seconds /\ ~r.minuteTimer
        /\ r.ready \/ r.seconds
    BY <2>4, CalculateHarvestFacts
  <2> HIDE DEF r
  <2>6. HarvestInv(r)
    BY <2>5 DEF HarvestInv
  <2> QED BY <2>2, <2>6 DEF r
<1> QED BY <1>1, <1>2, <1>3

-----------------------------------------------------------------------------
(* All of them.                                                            *)

PoliciesInv ==
    /\ unit = "prechill time" => PrechillInv(st)
    /\ unit = "temperature exceeded" => ExceededInv(st)
    /\ unit = "cycle defrost" => CycleInv(st)
    /\ unit = "loads off" => LoadsInv(st)
    /\ unit = "ice rate" => IceRateInv(st)
    /\ unit = "harvest count" => HarvestInv(st)

LEMMA PoliciesStart == PoliciesInit => PoliciesInv
<1>1. PrechillTimeInit => PoliciesInv
  BY PrechillStarts DEF PrechillTimeInit, PoliciesInv
<1>2. ExceededInit => PoliciesInv
  BY ExceededStarts DEF ExceededInit, PoliciesInv
<1>3. CycleDefrostInit => PoliciesInv
  BY CycleStarts DEF CycleDefrostInit, PoliciesInv
<1>4. LoadsInit => PoliciesInv
  BY LoadsStarts DEF LoadsInit, PoliciesInv
<1>5. IceRateInit => PoliciesInv
  BY IceRateStarts, ZenonT(120) DEF IceRateInit, PoliciesInv
<1>6. HarvestCountInit => PoliciesInv
  BY HarvestStarts DEF HarvestCountInit, PoliciesInv
<1> QED BY <1>1, <1>2, <1>3, <1>4, <1>5, <1>6 DEF PoliciesInit

LEMMA PoliciesStep ==
    ASSUME PoliciesInv, [PoliciesNext]_unitVars
    PROVE  PoliciesInv'
<1>1. CASE PrechillMinute \/ PrechillInputChanges
  <2>1. unit = "prechill time" /\ unit' = unit
    BY <1>1 DEF PrechillMinute, PrechillInputChanges, Runs
  <2> QED BY <1>1, <2>1, PrechillStep DEF PoliciesInv
<1>2. CASE PowerOnTimeComplete \/ ExceededDefrostChanges \/ ExceededReadingChanges
           \/ DoorTimeComplete \/ DefrostTimeComplete \/ (\E d \in PolicyDoors : ExceededDoorChanges(d))
  <2>1. unit = "temperature exceeded" /\ unit' = unit
    BY <1>2, ZenonT(120) DEF PowerOnTimeComplete, ExceededDefrostChanges, ExceededReadingChanges,
                DoorTimeComplete, DefrostTimeComplete, ExceededDoorChanges, Runs
  <2> QED BY <1>2, <2>1, ExceededStep DEF PoliciesInv
<1>3. CASE CycleCompressorChanges \/ CycleDefrostChanges \/ CycleTimeExpires
           \/ (\E p \in ValvePositions : CycleValveMoves(p))
  <2>1. unit = "cycle defrost" /\ unit' = unit
    BY <1>3 DEF CycleCompressorChanges, CycleDefrostChanges, CycleTimeExpires, CycleValveMoves, Runs
  <2> QED BY <1>3, <2>1, CycleStep, ZenonT(120) DEF PoliciesInv
<1>4. CASE LoadsTimeoutExpires \/ (\E d \in PolicyDoors : LoadsDoorChanges(d))
  <2>1. unit = "loads off" /\ unit' = unit
    BY <1>4 DEF LoadsTimeoutExpires, LoadsDoorChanges, Runs
  <2> QED BY <1>4, <2>1, LoadsStep, ZenonT(120) DEF PoliciesInv
<1>5. CASE IceRateTriggered \/ IceRateVotesChange \/ IceRateTimeExpires
  <2>1. unit = "ice rate" /\ unit' = unit
    BY <1>5 DEF IceRateTriggered, IceRateVotesChange, IceRateTimeExpires, Runs
  <2> QED BY <1>5, <2>1, IceRateStep DEF PoliciesInv
<1>6. CASE HarvestCountRequest \/ HarvestCountMinute \/ (\E t \in 0..3 : HarvestCountSecond(t))
  <2>1. unit = "harvest count" /\ unit' = unit
    BY <1>6 DEF HarvestCountRequest, HarvestCountMinute, HarvestCountSecond, Runs
  <2> QED BY <1>6, <2>1, HarvestStep DEF PoliciesInv
<1>7. CASE UNCHANGED unitVars
  BY <1>7, ZenonT(120) DEF unitVars, PoliciesInv
<1> QED BY <1>1, <1>2, <1>3, <1>4, <1>5, <1>6, <1>7 DEF PoliciesNext

\* The units of CoolingPolicies by themselves.
PoliciesSpec == PoliciesInit /\ [][PoliciesNext]_unitVars

\* TimeThatPrechillConditionsAreMet.c, CabinetTemperatureExceededMonitor.c,
\* FreshFoodNonHeatedCycleDefrost.c, LoadOffDoorOpen.c, FreezerIceRateHandler.c
\* and HarvestCountCalculator.c: counts, votes and timers stay in step with the
\* condition they stand for; for every set of doors, temperature and time.
THEOREM PoliciesStayInStep == PoliciesSpec => []PoliciesFollowTheirConditions
<1>1. PoliciesInit => PoliciesInv
  BY PoliciesStart
<1>2. PoliciesInv /\ [PoliciesNext]_unitVars => PoliciesInv'
  BY PoliciesStep
<1>3. PoliciesInv => PoliciesFollowTheirConditions
  <2> SUFFICES ASSUME PoliciesInv PROVE PoliciesFollowTheirConditions
    OBVIOUS
  <2>1. PrechillTimeIsUnbroken
    BY DEF PoliciesInv, PrechillTimeIsUnbroken, PrechillInv, AtMostCap
  <2>2. WarmCabinetIsReported
    BY DEF PoliciesInv, WarmCabinetIsReported, ExceededInv, Watches
  <2>3. CycleDefrostIsHarmless
    BY DEF PoliciesInv, CycleDefrostIsHarmless, CycleInv
  <2>4. VotesAreWithdrawn
    BY IceRateIsFast DEF PoliciesInv, VotesAreWithdrawn, LoadsInv, IceRateInv
  <2>5. HarvestNeedsAWholeFreeze
    BY DEF PoliciesInv, HarvestNeedsAWholeFreeze, HarvestInv
  <2> QED BY <2>1, <2>2, <2>3, <2>4, <2>5 DEF PoliciesFollowTheirConditions
<1> QED BY <1>1, <1>2, <1>3, PTL DEF PoliciesSpec

-----------------------------------------------------------------------------
(***************************************************************************)
(* Grid: what a block writes is opaque to the next one but for the fields  *)
(* that the votes and the clean-up after a pulldown depend on.             *)
(***************************************************************************)
DualFields ==
    {"mode", "speed", "lowAmbientValve", "pulldownOffset", "pulldownFan", "pulldownValve",
     "antiSweat", "iceMakers", "highSpeed", "fanOff", "maxTimeInValveA", "delayConvertible",
     "coolBeforeOff", "useDelayedSpeed", "votes", "care", "panBlock", "convertible",
     "panMode", "panVotes", "forcedHeating"}

\* What every block finds and leaves, the votes aside.
DualCooling(s) ==
    /\ s = [f \in DualFields |-> s[f]]
    /\ s.mode \in {"Off", "Freezer", "FreshFood"} /\ s.speed \in CoolingSpeeds
    /\ s.mode = "Off" <=> s.speed = "Off"
    /\ s.pulldownOffset => ~s.iceMakers
    /\ s.pulldownFan => s.speed = "PullDown"
    /\ s.coolBeforeOff => s.useDelayedSpeed /\ s.speed # "Off"
    /\ s.forcedHeating => s.panVotes.damper = "Closed"

DualGridInv(s) ==
    /\ DualCooling(s)
    /\ s.mode = "Off" <=> s.votes.compressor = "Off"

\* The writes of a block, the last of the chain first.
LEMMA OneWriteAtATime ==
    ASSUME NEW a, NEW b, NEW c
    PROVE  (a ++ b) ++ c = a ++ (b ++ c)
BY SMTT(60) DEF ++

LEMMA ThreeWrites ==
    ASSUME NEW a, NEW b, NEW c, NEW d
    PROVE  a ++ b ++ c ++ d = a ++ (b ++ (c ++ d))
BY OneWriteAtATime

LEMMA FourWrites ==
    ASSUME NEW a, NEW b, NEW c, NEW d, NEW e
    PROVE  a ++ b ++ c ++ d ++ e = a ++ (b ++ (c ++ (d ++ e)))
BY ThreeWrites, OneWriteAtATime

LEMMA FiveWrites ==
    ASSUME NEW a, NEW b, NEW c, NEW d, NEW e, NEW f
    PROVE  a ++ b ++ c ++ d ++ e ++ f = a ++ (b ++ (c ++ (d ++ (e ++ f))))
BY FourWrites, OneWriteAtATime

\* What one write after another does, without the pulldown fan between them.
Quiet(t) == DualCooling(t) /\ ~t.pulldownFan

LEMMA QuietWrites ==
    ASSUME NEW t, DualCooling(t), NEW a, NEW b, NEW c
    PROVE  /\ DualCooling(FreezerColumns ++ t)
           /\ DualCooling(Clear ++ t)
           /\ Quiet(Normal(a, b, c) ++ t)
           /\ Quiet(HighCooling(a, b) ++ t)
<1>1. DualCooling(FreezerColumns ++ t)
  BY SMTT(60) DEF ++, FreezerColumns, DualCooling, DualFields, CoolingSpeeds
<1>2. DualCooling(Clear ++ t)
  BY SMTT(60) DEF ++, Clear, DualCooling, DualFields, CoolingSpeeds
<1>3. Quiet(Normal(a, b, c) ++ t)
  BY SMTT(60) DEF ++, Normal, Quiet, DualCooling, DualFields, CoolingSpeeds
<1>4. Quiet(HighCooling(a, b) ++ t)
  BY SMTT(60) DEF ++, HighCooling, Clear, Quiet, DualCooling, DualFields, CoolingSpeeds
<1> QED BY <1>1, <1>2, <1>3, <1>4

LEMMA CoolingWrites ==
    ASSUME NEW t, Quiet(t), NEW m \in {"Freezer", "FreshFood"},
           NEW v \in CoolingSpeeds \ {"Off"}
    PROVE  DualCooling(Cooling(m, v) ++ t)
BY SMTT(60) DEF ++, Cooling, Quiet, DualCooling, DualFields, CoolingSpeeds

\* The blocks that cool, by what they write.
LEMMA PulldownBlocks ==
    ASSUME NEW s, DualCooling(s), NEW m \in {"Freezer", "FreshFood"}, NEW fan \in BOOLEAN,
           NEW v
    PROVE  /\ DualCooling(Cooling(m, "PullDown") ++ Pulldown(fan) ++ s)
           /\ DualCooling(Cooling(m, "PullDown") ++ Pulldown(fan) ++ [pulldownOffset |-> v] ++ s)
<1>1. DualCooling(Cooling(m, "PullDown") ++ Pulldown(fan) ++ s)
  BY SMTT(60) DEF ++, Cooling, Pulldown, Clear, DualCooling, DualFields, CoolingSpeeds
<1> DEFINE t == [pulldownOffset |-> v] ++ s
           p == Pulldown(fan) ++ t
<1>2. /\ t = [f \in DualFields |-> t[f]]
      /\ \A f \in DualFields \ {"pulldownOffset"} : t[f] = s[f]
  BY SMTT(60) DEF ++, DualCooling, DualFields
<1> HIDE DEF t
<1>3. /\ p = [f \in DualFields |-> p[f]]
      /\ p.pulldownOffset = t.pulldownOffset /\ ~p.iceMakers /\ p.pulldownFan = fan
      /\ ~p.coolBeforeOff /\ p.panVotes = t.panVotes /\ p.forcedHeating = t.forcedHeating
  BY <1>2, SMTT(60) DEF ++, Pulldown, Clear, DualFields
<1>4. p.panVotes = s.panVotes /\ p.forcedHeating = s.forcedHeating
  BY <1>2, <1>3 DEF DualFields
<1> HIDE DEF p
<1>5. DualCooling(Cooling(m, "PullDown") ++ p)
  BY <1>3, <1>4, SMTT(60) DEF ++, Cooling, DualCooling, DualFields, CoolingSpeeds
<1>6. Cooling(m, "PullDown") ++ Pulldown(fan) ++ [pulldownOffset |-> v] ++ s
      = Cooling(m, "PullDown") ++ p
  BY OneWriteAtATime DEF p, t
<1> QED BY <1>1, <1>5, <1>6, SMTT(60)

LEMMA HighBlocks ==
    ASSUME NEW s, DualCooling(s), NEW m \in {"Freezer", "FreshFood"}, NEW a, NEW p
    PROVE  /\ DualCooling(Cooling(m, "High") ++ HighCooling(a, p) ++ s)
           /\ DualCooling(Cooling(m, "High") ++ HighCooling(a, p) ++ FreezerColumns ++ s)
<1>1. \A t : DualCooling(t) => DualCooling(Cooling(m, "High") ++ (HighCooling(a, p) ++ t))
  BY QuietWrites, CoolingWrites DEF CoolingSpeeds
<1>2. DualCooling(FreezerColumns ++ s)
  BY QuietWrites
<1> QED BY <1>1, <1>2, OneWriteAtATime

LEMMA NormalBlocks ==
    ASSUME NEW s, DualCooling(s), NEW m \in {"Freezer", "FreshFood"},
           NEW v \in CoolingSpeeds \ {"Off"}, NEW a, NEW l, NEW d
    PROVE  /\ DualCooling(Cooling(m, v) ++ Normal(l, a, d) ++ Clear ++ s)
           /\ DualCooling(Cooling(m, v) ++ Normal(l, a, d) ++ Clear ++ FreezerColumns ++ s)
<1>1. \A t : DualCooling(t) => DualCooling(Cooling(m, v) ++ (Normal(l, a, d) ++ (Clear ++ t)))
  BY QuietWrites, CoolingWrites
<1>2. DualCooling(FreezerColumns ++ s)
  BY QuietWrites, SMTT(60)
<1> QED BY <1>1, <1>2, OneWriteAtATime

\* Those that go on, or stop, as the freezer needs it.
LEMMA ColdBlocks ==
    ASSUME NEW s, DualCooling(s), NEW m \in {"Freezer", "FreshFood"}, NEW a, NEW l, NEW d
    PROVE  /\ DualCooling([mode |-> IF s.mode = "Off" THEN "Off" ELSE m, antiSweat |-> TRUE]
                          ++ Normal(l, a, d) ++ Clear ++ FreezerColumns ++ s)
           /\ DualCooling(Normal(l, a, d) ++ Clear ++ s)
           /\ DualCooling((IF s.mode = "Off" THEN Cooling("Off", "Off") ELSE Cooling(m, "Low"))
                          ++ [antiSweat |-> TRUE] ++ Normal(l, a, d)
                          ++ Clear ++ FreezerColumns ++ s)
<1> DEFINE r == Clear ++ (FreezerColumns ++ s)
           t == Normal(l, a, d) ++ r
           u == [antiSweat |-> TRUE] ++ t
<1>1. r.mode = s.mode /\ ~r.coolBeforeOff
  BY SMTT(60) DEF ++, Clear, FreezerColumns, DualCooling, DualFields
<1>2. DualCooling(r) /\ Quiet(t)
  BY QuietWrites
<1> HIDE DEF r
<1>3. t.mode = s.mode /\ ~t.coolBeforeOff
  BY <1>1, <1>2, SMTT(60) DEF ++, Normal, DualCooling, DualFields
<1> HIDE DEF t
<1>4. ASSUME NEW n, n = IF s.mode = "Off" THEN "Off" ELSE m
      PROVE  DualCooling([mode |-> n, antiSweat |-> TRUE] ++ t)
  BY <1>2, <1>3, <1>4, SMTT(60) DEF ++, Quiet, DualCooling, DualFields, CoolingSpeeds
<1>5. Quiet(u) /\ u.mode = s.mode /\ ~u.coolBeforeOff
  BY <1>2, <1>3, SMTT(60) DEF ++, Quiet, DualCooling, DualFields, CoolingSpeeds
<1> HIDE DEF u
<1>6. DualCooling(Cooling("Off", "Off") ++ u) /\ DualCooling(Cooling(m, "Low") ++ u)
  <2>1. DualCooling(Cooling("Off", "Off") ++ u)
    BY <1>5, SMTT(60) DEF ++, Cooling, Quiet, DualCooling, DualFields, CoolingSpeeds
  <2> QED BY <2>1, <1>5, CoolingWrites DEF CoolingSpeeds
<1>7. DualCooling(Normal(l, a, d) ++ (Clear ++ s))
  BY QuietWrites DEF Quiet
<1>8. \A w : w ++ Normal(l, a, d) ++ Clear ++ FreezerColumns ++ s = w ++ t
  BY OneWriteAtATime DEF r, t
<1>9. \A w : w ++ [antiSweat |-> TRUE] ++ Normal(l, a, d) ++ Clear ++ FreezerColumns ++ s = w ++ u
  BY OneWriteAtATime, SMTT(60) DEF r, t, u
<1> QED BY <1>4, <1>6, <1>7, <1>8, <1>9, OneWriteAtATime

\* Block 38, which slows down and may go on before the convertible
\* compartment is off.
LEMMA SlowBlock ==
    ASSUME NEW s, DualCooling(s), NEW a, NEW l, NEW d
    PROVE  DualCooling([speed |-> AtMostLow(s),
                        coolBeforeOff |-> s.coolBeforeOff /\ s.panBlock <= 4,
                        useDelayedSpeed |-> IF s.coolBeforeOff THEN s.panBlock <= 4
                                            ELSE s.useDelayedSpeed]
                       ++ Normal(l, a, d) ++ s)
<1> DEFINE k == s.panBlock <= 4
           u == IF s.coolBeforeOff THEN k ELSE s.useDelayedSpeed
           c == s.coolBeforeOff /\ k
           p == AtMostLow(s)
           t == Normal(l, a, d) ++ s
<1>1. c => u /\ s.speed # "Off"
  BY DEF DualCooling
<1>2. p \in CoolingSpeeds /\ (p = "Off" <=> s.speed = "Off")
  BY SMTT(60) DEF AtMostLow, CoolingSpeeds
<1> SUFFICES DualCooling([speed |-> p, coolBeforeOff |-> c, useDelayedSpeed |-> u] ++ t)
  BY OneWriteAtATime, SMTT(60)
<1> HIDE DEF u, c, p, k
<1>3. Quiet(t)
  BY QuietWrites, SMTT(60)
<1>4. t.speed = s.speed
  BY SMTT(60) DEF ++, Normal, DualCooling, DualFields
<1> HIDE DEF t
<1> QED
  BY <1>1, <1>2, <1>3, <1>4, SMTT(60) DEF ++, Quiet, DualCooling, DualFields, CoolingSpeeds

\* The blocks of a freezer that is cold enough.
LEMMA FreezingBlocks ==
    ASSUME NEW s, DualCooling(s), NEW c \in BOOLEAN,
           NEW m \in {"Off", "Freezer", "FreshFood"}, NEW v \in {"Off", "Low"},
           m = "Off" <=> v = "Off", c => v = "Low", NEW a, NEW l, NEW d
    PROVE  LET w == Cooling(m, v)
                    ++ [coolBeforeOff |-> c, useDelayedSpeed |-> c, antiSweat |-> TRUE]
                    ++ Normal(l, a, d)
           IN  DualCooling(w ++ s) /\ DualCooling(w ++ (FreezerColumns ++ s))
<1> DEFINE o == [coolBeforeOff |-> c, useDelayedSpeed |-> c, antiSweat |-> TRUE]
<1>1. ASSUME NEW t, DualCooling(t)
      PROVE  DualCooling(Cooling(m, v) ++ o ++ Normal(l, a, d) ++ t)
  <2> DEFINE q == Normal(l, a, d) ++ t
  <2>1. Quiet(q)
    BY <1>1, QuietWrites, SMTT(60)
  <2>2. Cooling(m, v) ++ o ++ Normal(l, a, d) ++ t = Cooling(m, v) ++ o ++ q
    BY OneWriteAtATime, SMTT(60)
  <2> HIDE DEF q
  <2>3. DualCooling(Cooling(m, v) ++ o ++ q)
    BY <2>1, SMTT(60) DEF ++, Cooling, Quiet, DualCooling, DualFields, CoolingSpeeds
  <2> QED BY <2>2, <2>3
<1>2. DualCooling(FreezerColumns ++ s)
  BY QuietWrites
<1> QED BY <1>1, <1>2, ZenonT(120)

LEMMA DualSpeeds ==
    ASSUME NEW s, DualCooling(s)
    PROVE  /\ FreezerOrFreshFood(s) \in {"Freezer", "FreshFood"}
           /\ HighOrMid(s) \in CoolingSpeeds \ {"Off"}
           /\ AtLeastLow(s) \in CoolingSpeeds \ {"Off"}
BY DEF DualCooling, FreezerOrFreshFood, HighOrMid, AtLeastLow, CoolingSpeeds

LEMMA ExtremeBlocksCool ==
    ASSUME NEW s, DualCooling(s), NEW b \in (0..13) \union {19}
    PROVE  DualCooling(DualEvapExtremeBlocks(s, b))
<1> DEFINE e == DualEvapExtremeBlocks(s, b)
<1>1. CASE b \in 0..2
  <2>0. /\ b \notin 3..4 /\ b \notin 5..6 /\ b \notin 7..9 /\ b \notin 10..11
        /\ b \notin {12, 19} /\ b # 13
    BY <1>1
  <2>1. e = Cooling("Freezer", "PullDown") ++ Pulldown(FALSE) ++ [pulldownOffset |-> FALSE] ++ s
    BY <1>1, <2>0, ZenonT(120) DEF DualEvapExtremeBlocks
  <2> QED BY <2>1, PulldownBlocks
<1>2. CASE b \in 3..4
  <2>0. /\ b \notin 0..2 /\ b \notin 5..6 /\ b \notin 7..9 /\ b \notin 10..11
        /\ b \notin {12, 19} /\ b # 13
    BY <1>2
  <2>1. e = Cooling("FreshFood", "PullDown") ++ Pulldown(TRUE) ++ s
    BY <1>2, <2>0, ZenonT(120) DEF DualEvapExtremeBlocks
  <2> QED BY <2>1, PulldownBlocks
<1>3. CASE b \in 5..6
  <2>0. /\ b \notin 0..2 /\ b \notin 3..4 /\ b \notin 7..9 /\ b \notin 10..11
        /\ b \notin {12, 19} /\ b # 13
    BY <1>3
  <2>1. e = Cooling("FreshFood", "PullDown") ++ Pulldown(TRUE) ++ [pulldownOffset |-> TRUE] ++ s
    BY <1>3, <2>0, ZenonT(120) DEF DualEvapExtremeBlocks
  <2> QED BY <2>1, PulldownBlocks
<1>4. CASE b \in 7..9
  <2>0. /\ b \notin 0..2 /\ b \notin 3..4 /\ b \notin 5..6 /\ b \notin 10..11
        /\ b \notin {12, 19} /\ b # 13
    BY <1>4
  <2>1. e = Cooling("Freezer", "High") ++ HighCooling(FALSE, FALSE) ++ FreezerColumns ++ s
    BY <1>4, <2>0, ZenonT(120) DEF DualEvapExtremeBlocks
  <2> QED BY <2>1, HighBlocks
<1>5. CASE b \in 10..11
  <2>0. /\ b \notin 0..2 /\ b \notin 3..4 /\ b \notin 5..6 /\ b \notin 7..9
        /\ b \notin {12, 19} /\ b # 13
    BY <1>5
  <2>1. e = Cooling(FreezerOrFreshFood(s), "High") ++ HighCooling(TRUE, FALSE) ++ s
    BY <1>5, <2>0, ZenonT(120) DEF DualEvapExtremeBlocks
  <2> QED BY <2>1, HighBlocks, DualSpeeds
<1>6. CASE b \in {12, 19}
  <2>0. /\ b \notin 0..2 /\ b \notin 3..4 /\ b \notin 5..6 /\ b \notin 7..9
        /\ b \notin 10..11 /\ b # 13
    BY <1>6
  <2>1. e = Cooling("FreshFood", "High") ++ HighCooling(TRUE, FALSE) ++ s
    BY <1>6, <2>0, ZenonT(120) DEF DualEvapExtremeBlocks
  <2> QED BY <2>1, HighBlocks
<1>7. CASE b = 13
  <2>1. e = Cooling("FreshFood", "High") ++ HighCooling(FALSE, TRUE) ++ s
    BY <1>7 DEF DualEvapExtremeBlocks
  <2> QED BY <2>1, HighBlocks
<1> HIDE DEF e
<1> QED BY <1>1, <1>2, <1>3, <1>4, <1>5, <1>6, <1>7 DEF e

LEMMA WarmBlocksCool ==
    ASSUME NEW s, DualCooling(s), NEW b \in ((14..27) \ {19}) \union {32}
    PROVE  DualCooling(DualEvapWarmBlocks(s, b))
<1> DEFINE e == DualEvapWarmBlocks(s, b)
<1>0. "High" \in CoolingSpeeds \ {"Off"}
  BY DEF CoolingSpeeds
<1>1. CASE b \in 14..16
  <2>0. /\ b \notin 17..18 /\ b \notin {20, 27} /\ b \notin 21..23
        /\ b \notin {24, 25, 32} /\ b # 26
    BY <1>1
  <2>1. e = Cooling("Freezer", HighOrMid(s)) ++ Normal(FALSE, FALSE, TRUE) ++ Clear
            ++ FreezerColumns ++ s
    BY <1>1, <2>0, ZenonT(120) DEF DualEvapWarmBlocks
  <2> QED BY <2>1, NormalBlocks, DualSpeeds
<1>2. CASE b \in 17..18
  <2>0. /\ b \notin 14..16 /\ b \notin {20, 27} /\ b \notin 21..23
        /\ b \notin {24, 25, 32} /\ b # 26
    BY <1>2
  <2>1. e = Cooling(FreezerOrFreshFood(s), HighOrMid(s)) ++ Normal(FALSE, TRUE, TRUE) ++ Clear ++ s
    BY <1>2, <2>0, ZenonT(120) DEF DualEvapWarmBlocks
  <2> QED BY <2>1, NormalBlocks, DualSpeeds
<1>3. CASE b \in {20, 27}
  <2>0. /\ b \notin 14..16 /\ b \notin 17..18 /\ b \notin 21..23
        /\ b \notin {24, 25, 32} /\ b # 26
    BY <1>3
  <2>1. e = Cooling("FreshFood", "High") ++ HighCooling(FALSE, FALSE) ++ s
    BY <1>3, <2>0, ZenonT(120) DEF DualEvapWarmBlocks
  <2> QED BY <2>1, HighBlocks
<1>4. CASE b \in 21..23
  <2>0. /\ b \notin 14..16 /\ b \notin 17..18 /\ b \notin {20, 27}
        /\ b \notin {24, 25, 32} /\ b # 26
    BY <1>4
  <2>1. e = Cooling("Freezer", AtLeastLow(s)) ++ Normal(FALSE, FALSE, TRUE) ++ Clear
            ++ FreezerColumns ++ s
    BY <1>4, <2>0, ZenonT(120) DEF DualEvapWarmBlocks
  <2> QED BY <2>1, NormalBlocks, DualSpeeds
<1>5. CASE b \in {24, 25, 32}
  <2>0. /\ b \notin 14..16 /\ b \notin 17..18 /\ b \notin {20, 27} /\ b \notin 21..23
        /\ b # 26
    BY <1>5
  <2>1. e = Cooling(FreezerOrFreshFood(s), AtLeastLow(s)) ++ Normal(FALSE, TRUE, TRUE) ++ Clear ++ s
    BY <1>5, <2>0, ZenonT(120) DEF DualEvapWarmBlocks
  <2> QED BY <2>1, NormalBlocks, DualSpeeds
<1>6. CASE b = 26
  <2>1. e = Cooling("FreshFood", HighOrMid(s)) ++ Normal(FALSE, TRUE, FALSE) ++ Clear ++ s
    BY <1>6 DEF DualEvapWarmBlocks
  <2> QED BY <2>1, NormalBlocks, DualSpeeds
<1> HIDE DEF e
<1> QED BY <1>1, <1>2, <1>3, <1>4, <1>5, <1>6 DEF e

LEMMA ColdBlocksCool ==
    ASSUME NEW s, DualCooling(s), NEW b \in (28..41) \ {32}
    PROVE  DualCooling(DualEvapColdBlocks(s, b))
<1> DEFINE e == DualEvapColdBlocks(s, b)
<1>1. CASE b \in 28..30
  <2>0. /\ b # 31 /\ b \notin {33, 40} /\ b \notin {34, 41} /\ b \notin 35..37 /\ b # 38
        /\ b # 39
    BY <1>1
  <2>1. e = [mode |-> IF s.mode = "Off" THEN "Off" ELSE "Freezer", antiSweat |-> TRUE]
            ++ Normal(TRUE, FALSE, TRUE) ++ Clear ++ FreezerColumns ++ s
    BY <1>1, <2>0, ZenonT(120) DEF DualEvapColdBlocks
  <2> QED BY <2>1, ColdBlocks
<1>2. CASE b = 31
  <2>1. e = Normal(TRUE, TRUE, TRUE) ++ Clear ++ s
    BY <1>2 DEF DualEvapColdBlocks
  <2> QED BY <2>1, ColdBlocks
<1>3. CASE b \in {33, 40}
  <2>0. /\ b \notin 28..30 /\ b # 31 /\ b \notin {34, 41} /\ b \notin 35..37 /\ b # 38
        /\ b # 39
    BY <1>3
  <2>1. e = Cooling("FreshFood", HighOrMid(s)) ++ Normal(FALSE, TRUE, FALSE) ++ Clear ++ s
    BY <1>3, <2>0, ZenonT(120) DEF DualEvapColdBlocks
  <2> QED BY <2>1, NormalBlocks, DualSpeeds
<1>4. CASE b \in {34, 41}
  <2>0. /\ b \notin 28..30 /\ b # 31 /\ b \notin {33, 40} /\ b \notin 35..37 /\ b # 38
        /\ b # 39
    BY <1>4
  <2>1. e = Cooling("FreshFood", "High") ++ HighCooling(FALSE, FALSE) ++ s
    BY <1>4, <2>0, ZenonT(120) DEF DualEvapColdBlocks
  <2> QED BY <2>1, HighBlocks
<1>5. CASE b \in 35..37
  <2>0. /\ b \notin 28..30 /\ b # 31 /\ b \notin {33, 40} /\ b \notin {34, 41} /\ b # 38
        /\ b # 39
    BY <1>5
  <2>1. e = (IF s.mode = "Off" THEN Cooling("Off", "Off") ELSE Cooling("Freezer", "Low"))
            ++ [antiSweat |-> TRUE] ++ Normal(TRUE, FALSE, TRUE) ++ Clear ++ FreezerColumns ++ s
    BY <1>5, <2>0, ZenonT(120) DEF DualEvapColdBlocks
  <2> QED BY <2>1, ColdBlocks
<1>6. CASE b = 38
  <2>1. e = [speed |-> AtMostLow(s),
             coolBeforeOff |-> s.coolBeforeOff /\ s.panBlock <= 4,
             useDelayedSpeed |-> IF s.coolBeforeOff THEN s.panBlock <= 4
                                 ELSE s.useDelayedSpeed]
            ++ Normal(TRUE, TRUE, TRUE) ++ s
    BY <1>6 DEF DualEvapColdBlocks
  <2> QED BY <2>1, SlowBlock
<1>7. CASE b = 39
  <2>1. e = Cooling("FreshFood", AtLeastLow(s)) ++ Normal(FALSE, TRUE, FALSE) ++ Clear ++ s
    BY <1>7 DEF DualEvapColdBlocks
  <2> QED BY <2>1, NormalBlocks, DualSpeeds
<1> HIDE DEF e
<1> QED BY <1>1, <1>2, <1>3, <1>4, <1>5, <1>6, <1>7 DEF e

LEMMA FreezingBlocksCool ==
    ASSUME NEW s, DualCooling(s), NEW b \in 42..48
    PROVE  DualCooling(DualEvapFreezingBlocks(s, b))
<1> DEFINE e == DualEvapFreezingBlocks(s, b)
<1>0. "High" \in CoolingSpeeds \ {"Off"}
  BY DEF CoolingSpeeds
<1>1. CASE b \in 42..45
  <2>0. b # 46 /\ b # 47 /\ b # 48
    BY <1>1
  <2> DEFINE c == CoolsBeforeOff(s)
             w == CASE c -> Cooling("Freezer", "Low")
                    [] ~c /\ b = 45 /\ s.mode = "FreshFood" -> Cooling("FreshFood", "Low")
                    [] OTHER -> Cooling("Off", "Off")
             o == [coolBeforeOff |-> c, useDelayedSpeed |-> c, antiSweat |-> TRUE]
             n == Normal(TRUE, FALSE, FALSE)
             r == IF b = 45 THEN s ELSE FreezerColumns ++ s
  <2>1. e = w ++ o ++ n ++ r
    BY <1>1, <2>0, ZenonT(120) DEF DualEvapFreezingBlocks
  <2>2. r \in {s, FreezerColumns ++ s} /\ c \in BOOLEAN
    BY DEF CoolsBeforeOff
  <2>3. \/ c /\ w = Cooling("Freezer", "Low")
        \/ ~c /\ w = Cooling("FreshFood", "Low")
        \/ ~c /\ w = Cooling("Off", "Off")
    OBVIOUS
  <2> HIDE DEF c, w, r
  <2>4. CASE c /\ w = Cooling("Freezer", "Low")
    <3>1. DualCooling(w ++ o ++ n ++ s) /\ DualCooling(w ++ o ++ n ++ (FreezerColumns ++ s))
      BY <2>2, <2>4, FreezingBlocks, ZenonT(120)
    <3> QED BY <2>1, <2>2, <3>1
  <2>5. CASE ~c /\ w = Cooling("FreshFood", "Low")
    <3>1. DualCooling(w ++ o ++ n ++ s) /\ DualCooling(w ++ o ++ n ++ (FreezerColumns ++ s))
      BY <2>2, <2>5, FreezingBlocks, ZenonT(120)
    <3> QED BY <2>1, <2>2, <3>1
  <2>6. CASE ~c /\ w = Cooling("Off", "Off")
    <3>1. DualCooling(w ++ o ++ n ++ s) /\ DualCooling(w ++ o ++ n ++ (FreezerColumns ++ s))
      BY <2>2, <2>6, FreezingBlocks, ZenonT(120)
    <3> QED BY <2>1, <2>2, <3>1
  <2> QED BY <2>3, <2>4, <2>5, <2>6
<1>2. CASE b = 46
  <2>1. e = Cooling("FreshFood", AtLeastLow(s)) ++ Normal(FALSE, TRUE, FALSE) ++ Clear ++ s
    BY <1>2 DEF DualEvapFreezingBlocks
  <2> QED BY <2>1, NormalBlocks, DualSpeeds
<1>3. CASE b = 47
  <2>1. e = Cooling("FreshFood", HighOrMid(s)) ++ Normal(FALSE, TRUE, FALSE) ++ Clear ++ s
    BY <1>3 DEF DualEvapFreezingBlocks
  <2> QED BY <2>1, NormalBlocks, DualSpeeds
<1>4. CASE b = 48
  <2>1. e = Cooling("FreshFood", "High") ++ Normal(FALSE, FALSE, FALSE) ++ Clear ++ s
    BY <1>4 DEF DualEvapFreezingBlocks
  <2> QED BY <2>1, <1>0, NormalBlocks
<1> HIDE DEF e
<1> QED BY <1>1, <1>2, <1>3, <1>4 DEF e

\* An override moves fans, never the compressor.
LEMMA OverridesKeepCompressor ==
    ASSUME NEW s, NEW b \in 0..48, NEW v, "compressor" \in DOMAIN v
    PROVE  DualEvapOverrides(s, b, v).compressor = v.compressor
<1> DEFINE low(x) == x \in {"Off", "Low"}
           kept == s.votes.freezer
           x26 == IF kept = "High" THEN "High" ELSE "Medium"
           x33 == IF low(kept) THEN "Low" ELSE "Medium"
           x38 == IF kept = "Off" THEN "Off" ELSE "Low"
           x39 == IF s.speed \in {"Low", "Off"} THEN "Off" ELSE kept
           pan == [v EXCEPT !.freezer = "High", !.freshFood = "Off"]
           v13 == [v EXCEPT !.condenser = "SuperHigh"]
           v20 == [v EXCEPT !.freshFood = IF low(s.votes.freshFood) THEN "Low" ELSE "High"]
           v26 == [v EXCEPT !.freezer = x26]
           v31 == [v EXCEPT !.freezer = kept]
           v33 == [v EXCEPT !.freezer = x33]
           v38 == [v EXCEPT !.freezer = x38]
           v39 == [v EXCEPT !.freezer = x39]
           off == [v EXCEPT !.freezer = "Off"]
           k1 == b = 13
           k2 == b = 20
           k3 == b \in {24, 25, 32} /\ s.mode = "FreshFood" /\ s.speed = "Low"
           k4 == b \in {26, 27}
           k5 == b = 31
           k6 == b \in {33, 34}
           k7 == b = 38 /\ s.coolBeforeOff /\ s.panBlock < 4
           k8 == b = 38 /\ ~(s.coolBeforeOff /\ s.panBlock < 4) /\ s.mode = "FreshFood"
           k9 == b = 39
           k10 == b \in {40, 41}
           k11 == b \in 42..45 /\ s.coolBeforeOff /\ s.panBlock <= 4
           k12 == b = 45 /\ ~(s.coolBeforeOff /\ s.panBlock <= 4)
           k13 == b \in 46..48
           cases == CASE k1 -> v13 [] k2 -> v20 [] k3 -> off [] k4 -> v26 [] k5 -> v31
                      [] k6 -> v33 [] k7 -> pan [] k8 -> v38 [] k9 -> v39 [] k10 -> v38
                      [] k11 -> pan [] k12 -> off [] k13 -> off [] OTHER -> v
<1>0. DualEvapOverrides(s, b, v) = cases
  BY ZenonT(120) DEF DualEvapOverrides
<1> DEFINE c(x) == x.compressor = v.compressor
<1>1. \A x : /\ c([v EXCEPT !.condenser = x]) /\ c([v EXCEPT !.freshFood = x])
             /\ c([v EXCEPT !.freezer = x])
  OBVIOUS
<1>2. c(pan)
  OBVIOUS
<1>3. c(v13) /\ c(v20) /\ c(v26) /\ c(v31) /\ c(v33) /\ c(v38) /\ c(v39) /\ c(off) /\ c(v)
  BY <1>1, ZenonT(120)
<1>4. k1 => ~k2 /\ ~k3 /\ ~k4 /\ ~k5 /\ ~k6 /\ ~k7
        /\ ~k8 /\ ~k9 /\ ~k10 /\ ~k11 /\ ~k12 /\ ~k13
  BY SMTT(60)
<1>5. k2 => ~k1 /\ ~k3 /\ ~k4 /\ ~k5 /\ ~k6 /\ ~k7
        /\ ~k8 /\ ~k9 /\ ~k10 /\ ~k11 /\ ~k12 /\ ~k13
  BY SMTT(60)
<1>6. k3 => ~k1 /\ ~k2 /\ ~k4 /\ ~k5 /\ ~k6 /\ ~k7
        /\ ~k8 /\ ~k9 /\ ~k10 /\ ~k11 /\ ~k12 /\ ~k13
  BY SMTT(60)
<1>7. k4 => ~k1 /\ ~k2 /\ ~k3 /\ ~k5 /\ ~k6 /\ ~k7
        /\ ~k8 /\ ~k9 /\ ~k10 /\ ~k11 /\ ~k12 /\ ~k13
  BY SMTT(60)
<1>8. k5 => ~k1 /\ ~k2 /\ ~k3 /\ ~k4 /\ ~k6 /\ ~k7
        /\ ~k8 /\ ~k9 /\ ~k10 /\ ~k11 /\ ~k12 /\ ~k13
  BY SMTT(60)
<1>9. k6 => ~k1 /\ ~k2 /\ ~k3 /\ ~k4 /\ ~k5 /\ ~k7
        /\ ~k8 /\ ~k9 /\ ~k10 /\ ~k11 /\ ~k12 /\ ~k13
  BY SMTT(60)
<1>10. k7 => ~k1 /\ ~k2 /\ ~k3 /\ ~k4 /\ ~k5 /\ ~k6
        /\ ~k8 /\ ~k9 /\ ~k10 /\ ~k11 /\ ~k12 /\ ~k13
  BY SMTT(60)
<1>11. k8 => ~k1 /\ ~k2 /\ ~k3 /\ ~k4 /\ ~k5 /\ ~k6
        /\ ~k7 /\ ~k9 /\ ~k10 /\ ~k11 /\ ~k12 /\ ~k13
  BY SMTT(60)
<1>12. k9 => ~k1 /\ ~k2 /\ ~k3 /\ ~k4 /\ ~k5 /\ ~k6
        /\ ~k7 /\ ~k8 /\ ~k10 /\ ~k11 /\ ~k12 /\ ~k13
  BY SMTT(60)
<1>13. k10 => ~k1 /\ ~k2 /\ ~k3 /\ ~k4 /\ ~k5 /\ ~k6
        /\ ~k7 /\ ~k8 /\ ~k9 /\ ~k11 /\ ~k12 /\ ~k13
  BY SMTT(60)
<1>14. k11 => ~k1 /\ ~k2 /\ ~k3 /\ ~k4 /\ ~k5 /\ ~k6
        /\ ~k7 /\ ~k8 /\ ~k9 /\ ~k10 /\ ~k12 /\ ~k13
  BY SMTT(60)
<1>15. k12 => ~k1 /\ ~k2 /\ ~k3 /\ ~k4 /\ ~k5 /\ ~k6
        /\ ~k7 /\ ~k8 /\ ~k9 /\ ~k10 /\ ~k11 /\ ~k13
  BY SMTT(60)
<1>16. k13 => ~k1 /\ ~k2 /\ ~k3 /\ ~k4 /\ ~k5 /\ ~k6
        /\ ~k7 /\ ~k8 /\ ~k9 /\ ~k10 /\ ~k11 /\ ~k12
  BY SMTT(60)
<1> HIDE DEF v13, v20, off, pan, v26, v31, v33, v38, v39, k1, k2, k3, k4, k5, k6, k7, k8, k9,
           k10, k11, k12, k13
<1>17. CASE k1
  <2>1. cases = v13
    BY <1>4, <1>17, ZenonT(120)
  <2> QED BY <1>0, <1>2, <1>3, <2>1
<1>18. CASE k2
  <2>1. cases = v20
    BY <1>5, <1>18, ZenonT(120)
  <2> QED BY <1>0, <1>2, <1>3, <2>1
<1>19. CASE k3
  <2>1. cases = off
    BY <1>6, <1>19, ZenonT(120)
  <2> QED BY <1>0, <1>2, <1>3, <2>1
<1>20. CASE k4
  <2>1. cases = v26
    BY <1>7, <1>20, ZenonT(120)
  <2> QED BY <1>0, <1>2, <1>3, <2>1
<1>21. CASE k5
  <2>1. cases = v31
    BY <1>8, <1>21, ZenonT(120)
  <2> QED BY <1>0, <1>2, <1>3, <2>1
<1>22. CASE k6
  <2>1. cases = v33
    BY <1>9, <1>22, ZenonT(120)
  <2> QED BY <1>0, <1>2, <1>3, <2>1
<1>23. CASE k7
  <2>1. cases = pan
    BY <1>10, <1>23, ZenonT(120)
  <2> QED BY <1>0, <1>2, <1>3, <2>1
<1>24. CASE k8
  <2>1. cases = v38
    BY <1>11, <1>24, ZenonT(120)
  <2> QED BY <1>0, <1>2, <1>3, <2>1
<1>25. CASE k9
  <2>1. cases = v39
    BY <1>12, <1>25, ZenonT(120)
  <2> QED BY <1>0, <1>2, <1>3, <2>1
<1>26. CASE k10
  <2>1. cases = v38
    BY <1>13, <1>26, ZenonT(120)
  <2> QED BY <1>0, <1>2, <1>3, <2>1
<1>27. CASE k11
  <2>1. cases = pan
    BY <1>14, <1>27, ZenonT(120)
  <2> QED BY <1>0, <1>2, <1>3, <2>1
<1>28. CASE k12
  <2>1. cases = off
    BY <1>15, <1>28, ZenonT(120)
  <2> QED BY <1>0, <1>2, <1>3, <2>1
<1>29. CASE k13
  <2>1. cases = off
    BY <1>16, <1>29, ZenonT(120)
  <2> QED BY <1>0, <1>2, <1>3, <2>1
<1>30. CASE ~k1 /\ ~k2 /\ ~k3 /\ ~k4 /\ ~k5 /\ ~k6
        /\ ~k7 /\ ~k8 /\ ~k9 /\ ~k10 /\ ~k11 /\ ~k12 /\ ~k13
  <2>1. cases = v
    BY <1>30, ZenonT(120)
  <2> QED BY <1>0, <2>1
<1> HIDE DEF cases
<1> QED BY <1>17, <1>18, <1>19, <1>20, <1>21, <1>22, <1>23, <1>24, <1>25, <1>26, 
       <1>27, <1>28, <1>29, <1>30, ZenonT(120)

LEMMA DualVotesFollowTheMode ==
    ASSUME NEW s, DualCooling(s)
    PROVE  /\ "compressor" \in DOMAIN DualVotes(s)
           /\ DualVotes(s).compressor = "Off" <=> s.mode = "Off"
<1>1. <<s.mode, s.speed>> \in FourDoorDualEvapTable
  BY DEF DualCooling, FourDoorDualEvapTable
<1>2. VotedSpeed(s.speed, "SuperLow") = "Off" <=> s.mode = "Off"
  BY DEF DualCooling, CoolingSpeeds, VotedSpeed
<1>3. /\ DualVotes(s).compressor = VotedSpeed(s.speed, "SuperLow")
      /\ "compressor" \in DOMAIN DualVotes(s)
  BY <1>1 DEF DualVotes
<1> QED BY <1>2, <1>3

LEMMA DualFieldSet ==
    ASSUME NEW s, s = [f \in DualFields |-> s[f]], NEW g \in DualFields, NEW x
    PROVE  LET t == [s EXCEPT ![g] = x]
           IN  /\ t = [f \in DualFields |-> t[f]] /\ t[g] = x
               /\ \A f \in DualFields \ {g} : t[f] = s[f]
OBVIOUS

LEMMA DualEvapKeepsItsInvariant ==
    ASSUME NEW s, DualGridInv(s), NEW b \in 0..48, NEW valid
    PROVE  DualGridInv(Grid_DualEvap(s, b, valid))
<1> DEFINE set == CASE b \in (0..13) \union {19} -> DualEvapExtremeBlocks(s, b)
                    [] b \in ((14..27) \ {19}) \union {32} -> DualEvapWarmBlocks(s, b)
                    [] b \in (28..41) \ {32} -> DualEvapColdBlocks(s, b)
                    [] b \in 42..48 -> DualEvapFreezingBlocks(s, b)
           votes == DualEvapOverrides(set, b, DualVotes(set))
           t == ExecuteGridVote(set, votes, valid)
<1>0. DualCooling(s)
  BY DEF DualGridInv
<1>1. DualCooling(set)
  <2>1. CASE b \in (0..13) \union {19}
    <3>0. b \notin ((14..27) \ {19}) \union {32} /\ b \notin (28..41) \ {32} /\ b \notin 42..48
      BY <2>1
    <3>1. set = DualEvapExtremeBlocks(s, b)
      BY <2>1, <3>0, ZenonT(120)
    <3> QED BY <1>0, <2>1, <3>1, ExtremeBlocksCool
  <2>2. CASE b \in ((14..27) \ {19}) \union {32}
    <3>0. b \notin (0..13) \union {19} /\ b \notin (28..41) \ {32} /\ b \notin 42..48
      BY <2>2
    <3>1. set = DualEvapWarmBlocks(s, b)
      BY <2>2, <3>0, ZenonT(120)
    <3> QED BY <1>0, <2>2, <3>1, WarmBlocksCool
  <2>3. CASE b \in (28..41) \ {32}
    <3>0. b \notin (0..13) \union {19} /\ b \notin ((14..27) \ {19}) \union {32} /\ b \notin 42..48
      BY <2>3
    <3>1. set = DualEvapColdBlocks(s, b)
      BY <2>3, <3>0, ZenonT(120)
    <3> QED BY <1>0, <2>3, <3>1, ColdBlocksCool
  <2>4. CASE b \in 42..48
    <3>0. b \notin (0..13) \union {19} /\ b \notin ((14..27) \ {19}) \union {32} /\ b \notin (28..41) \ {32}
      BY <2>4
    <3>1. set = DualEvapFreezingBlocks(s, b)
      BY <2>4, <3>0, ZenonT(120)
    <3> QED BY <1>0, <2>4, <3>1, FreezingBlocksCool
  <2>5. \/ b \in (0..13) \union {19} \/ b \in ((14..27) \ {19}) \union {32}
        \/ b \in (28..41) \ {32} \/ b \in 42..48
    OBVIOUS
  <2> HIDE DEF set
  <2> QED BY <2>1, <2>2, <2>3, <2>4, <2>5
<1> SUFFICES DualGridInv(t)
  BY DEF Grid_DualEvap
<1> HIDE DEF set
<1>2. votes.compressor = "Off" <=> set.mode = "Off"
  BY <1>1, OverridesKeepCompressor, DualVotesFollowTheMode
<1> HIDE DEF votes
<1>3. /\ t = [f \in DualFields |-> t[f]] /\ t.votes = votes
      /\ \A f \in DualFields \ {"votes", "care"} : t[f] = set[f]
  <2> DEFINE u == [set EXCEPT !.votes = votes]
             w == [u EXCEPT !.care = valid # {}]
  <2>1. set = [f \in DualFields |-> set[f]]
    BY <1>1 DEF DualCooling
  <2>2. "votes" \in DualFields /\ "care" \in DualFields
    BY DEF DualFields
  <2>3. /\ u = [f \in DualFields |-> u[f]] /\ u.votes = votes
        /\ \A f \in DualFields \ {"votes"} : u[f] = set[f]
    BY <2>1, <2>2, DualFieldSet
  <2>4. t = w
    BY DEF ExecuteGridVote
  <2> SUFFICES /\ w = [f \in DualFields |-> w[f]] /\ w.votes = votes
               /\ \A f \in DualFields \ {"votes", "care"} : w[f] = set[f]
    BY <2>4, ZenonT(120)
  <2> HIDE DEF u
  <2>5. /\ w = [f \in DualFields |-> w[f]]
        /\ \A f \in DualFields \ {"care"} : w[f] = u[f]
    BY <2>2, <2>3, DualFieldSet
  <2> QED BY <2>2, <2>3, <2>5
<1> HIDE DEF t
<1>4. DualCooling(t) /\ t.mode = set.mode
  BY <1>1, <1>3, SMTT(60) DEF DualCooling, DualFields
<1> QED BY <1>2, <1>3, <1>4 DEF DualGridInv

LEMMA FeaturePanKeepsItsInvariant ==
    ASSUME NEW s, DualGridInv(s), NEW b \in 0..7
    PROVE  DualGridInv(Grid_FeaturePan([s EXCEPT !.panBlock = b]))
<1> DEFINE p == [s EXCEPT !.panBlock = b]
           mode == FeaturePanMode(p)
           votes == FeaturePanVotes(mode)
           forced == (p.panBlock = 7) \/ (p.forcedHeating /\ p.panBlock > 4)
           t == [p EXCEPT !.panMode = mode, !.panVotes = votes, !.forcedHeating = forced]
<1>1. /\ p = [f \in DualFields |-> p[f]] /\ p.panBlock = b
      /\ \A f \in DualFields \ {"panBlock"} : p[f] = s[f]
  BY SMTT(60) DEF DualGridInv, DualCooling, DualFields
<1>2. Grid_FeaturePan(p) = t
  BY DEF Grid_FeaturePan
<1> SUFFICES DualGridInv(t)
  BY <1>2
<1> HIDE DEF p
<1>3. forced => votes.damper = "Closed"
  <2>1. ASSUME forced, mode = "ActiveCooling" PROVE FALSE
    BY <1>1, <2>1, SMTT(60) DEF FeaturePanMode
  <2> QED BY <2>1 DEF FeaturePanVotes
<1> HIDE DEF mode, votes, forced
<1>4. /\ t = [f \in DualFields |-> t[f]] /\ t.panVotes = votes /\ t.forcedHeating = forced
      /\ \A f \in DualFields \ {"panMode", "panVotes", "forcedHeating"} : t[f] = p[f]
  <2> DEFINE u == [p EXCEPT !.panMode = mode]
             w == [u EXCEPT !.panVotes = votes]
             z == [w EXCEPT !.forcedHeating = forced]
  <2>2. "panMode" \in DualFields /\ "panVotes" \in DualFields /\ "forcedHeating" \in DualFields
    BY DEF DualFields
  <2>3. /\ u = [f \in DualFields |-> u[f]]
        /\ \A f \in DualFields \ {"panMode"} : u[f] = p[f]
    BY <1>1, <2>2, DualFieldSet
  <2>4. t = z
    OBVIOUS
  <2> SUFFICES /\ z = [f \in DualFields |-> z[f]] /\ z.panVotes = votes /\ z.forcedHeating = forced
               /\ \A f \in DualFields \ {"panMode", "panVotes", "forcedHeating"} : z[f] = p[f]
    BY <2>4
  <2> HIDE DEF u
  <2>5. /\ w = [f \in DualFields |-> w[f]] /\ w.panVotes = votes
        /\ \A f \in DualFields \ {"panVotes"} : w[f] = u[f]
    BY <2>2, <2>3, DualFieldSet
  <2> HIDE DEF w
  <2>6. /\ z = [f \in DualFields |-> z[f]] /\ z.forcedHeating = forced
        /\ \A f \in DualFields \ {"forcedHeating"} : z[f] = w[f]
    BY <2>2, <2>5, DualFieldSet
  <2> QED BY <2>2, <2>3, <2>5, <2>6
<1> HIDE DEF t
<1> QED BY <1>1, <1>3, <1>4, SMTT(60) DEF DualGridInv, DualCooling, DualFields

\* The side by side grid.  A pulldown ends before ice is made.
SingleFields ==
    {"mode", "speed", "area", "pulldownActive", "iceMaker", "antiSweat", "tripMitigation",
     "mediumPulldown", "votes", "care"}

SingleCooling(s, v) ==
    /\ s = [f \in SingleFields |-> s[f]]
    /\ s.speed = v /\ v \in CoolingSpeeds
    /\ ~(s.pulldownActive /\ s.iceMaker)

SingleGridInv(s) ==
    /\ SingleCooling(s, s.speed)
    /\ s.votes.compressor = "Off" <=> s.votes.condenser = "Off"

LEMMA SingleWrites ==
    ASSUME NEW t, NEW v, SingleCooling(t, v), NEW n, NEW m, NEW on
    PROVE  /\ SingleCooling(Area(n) ++ t, v)
           /\ SingleCooling([mode |-> m] ++ t, v)
           /\ SingleCooling([antiSweat |-> on] ++ t, v)
           /\ SingleCooling([mode |-> m, antiSweat |-> on] ++ t, v)
           /\ SingleCooling(EndPulldown ++ t, v)
           /\ SingleCooling(EndPulldown ++ (Ice(on) ++ t), v)
           /\ SingleCooling([speed |-> "PullDown", pulldownActive |-> TRUE, antiSweat |-> FALSE,
                             iceMaker |-> FALSE] ++ t, "PullDown")
<1> USE DEF ++, SingleCooling, SingleFields, CoolingSpeeds
<1>1. SingleCooling(Area(n) ++ t, v)
  BY SMTT(60) DEF Area
<1>2. SingleCooling([mode |-> m] ++ t, v)
  BY SMTT(60)
<1>3. SingleCooling([antiSweat |-> on] ++ t, v)
  BY SMTT(60)
<1>4. SingleCooling([mode |-> m, antiSweat |-> on] ++ t, v)
  BY SMTT(60)
<1>5. SingleCooling(EndPulldown ++ t, v)
  BY SMTT(60) DEF EndPulldown
<1>6. SingleCooling(EndPulldown ++ (Ice(on) ++ t), v)
  BY SMTT(60) DEF EndPulldown, Ice
<1>7. SingleCooling([speed |-> "PullDown", pulldownActive |-> TRUE, antiSweat |-> FALSE,
                     iceMaker |-> FALSE] ++ t, "PullDown")
  BY SMTT(60)
<1> HIDE DEF ++, SingleCooling, SingleFields, CoolingSpeeds
<1> QED BY <1>1, <1>2, <1>3, <1>4, <1>5, <1>6, <1>7

LEMMA SingleSpeeds ==
    ASSUME NEW t, NEW v, SingleCooling(t, v), NEW w \in CoolingSpeeds, NEW m
    PROVE  /\ SingleCooling(Cooling(m, w) ++ t, w)
           /\ SingleCooling([speed |-> w] ++ t, w)
<1>1. SingleCooling(Cooling(m, w) ++ t, w)
  BY SMTT(60) DEF ++, Cooling, SingleCooling, SingleFields, CoolingSpeeds
<1>2. SingleCooling([speed |-> w] ++ t, w)
  BY SMTT(60) DEF ++, SingleCooling, SingleFields, CoolingSpeeds
<1> QED BY <1>1, <1>2, SMTT(60)

LEMMA SpeedsOfAState ==
    ASSUME NEW s, s.speed \in CoolingSpeeds
    PROVE  /\ HighOrMid(s) \in CoolingSpeeds /\ AtLeastLow(s) \in CoolingSpeeds
           /\ AtMostLow(s) \in CoolingSpeeds
           /\ {"Off", "Low", "Mid", "High", "PullDown"} \subseteq CoolingSpeeds
BY DEF HighOrMid, AtLeastLow, AtMostLow, CoolingSpeeds

\* The blocks, by what they write.
LEMMA SingleBlocks ==
    ASSUME NEW s, NEW v, SingleCooling(s, v), NEW w \in CoolingSpeeds, NEW m, NEW n
    PROVE  /\ SingleCooling(Cooling(m, w) ++ s, w)
           /\ SingleCooling(Cooling(m, w) ++ Area(n) ++ s, w)
           /\ SingleCooling(Cooling(m, w) ++ EndPulldown ++ s, w)
           /\ SingleCooling(Cooling(m, w) ++ Area(n) ++ EndPulldown ++ s, w)
           /\ SingleCooling(Cooling(m, w) ++ Area(n) ++ EndPulldown ++ Ice(TRUE) ++ s, w)
           /\ SingleCooling([antiSweat |-> TRUE] ++ Cooling(m, w) ++ EndPulldown ++ s, w)
           /\ SingleCooling([antiSweat |-> TRUE] ++ Cooling(m, w) ++ Area(n)
                            ++ EndPulldown ++ Ice(TRUE) ++ s, w)
           /\ SingleCooling([speed |-> w] ++ EndPulldown ++ s, w)
           /\ SingleCooling(EndPulldown ++ s, v)
           /\ SingleCooling([mode |-> m] ++ EndPulldown ++ s, v)
           /\ SingleCooling([mode |-> m, antiSweat |-> TRUE] ++ Area(n) ++ EndPulldown
                            ++ Ice(TRUE) ++ s, v)
<1> DEFINE t == EndPulldown ++ s
           i == EndPulldown ++ (Ice(TRUE) ++ s)
<1>1. SingleCooling(t, v) /\ SingleCooling(i, v)
  BY SingleWrites
<1>2. \A w1 : w1 ++ EndPulldown ++ s = w1 ++ t
  BY OneWriteAtATime
<1>3. \A w1, w2 : w1 ++ w2 ++ EndPulldown ++ s = w1 ++ (w2 ++ t)
  BY ThreeWrites
<1> HIDE DEF t, i
<1>6. SingleCooling(Cooling(m, w) ++ s, w) /\ SingleCooling(Cooling(m, w) ++ t, w)
  BY <1>1, SingleSpeeds
<1>7. SingleCooling(Area(n) ++ s, v) /\ SingleCooling(Area(n) ++ t, v) /\ SingleCooling(Area(n) ++ i, v)
  BY <1>1, SingleWrites
<1>8. /\ SingleCooling(Cooling(m, w) ++ (Area(n) ++ s), w)
      /\ SingleCooling(Cooling(m, w) ++ (Area(n) ++ t), w)
      /\ SingleCooling(Cooling(m, w) ++ (Area(n) ++ i), w)
  BY <1>7, SingleSpeeds
<1>9. /\ SingleCooling([antiSweat |-> TRUE] ++ (Cooling(m, w) ++ t), w)
      /\ SingleCooling([antiSweat |-> TRUE] ++ (Cooling(m, w) ++ (Area(n) ++ i)), w)
  BY <1>6, <1>8, SingleWrites
<1>10. /\ SingleCooling([speed |-> w] ++ t, w) /\ SingleCooling([mode |-> m] ++ t, v)
       /\ SingleCooling([mode |-> m, antiSweat |-> TRUE] ++ (Area(n) ++ i), v)
  BY <1>1, <1>7, SingleSpeeds, SingleWrites
<1>11. Cooling(m, w) ++ Area(n) ++ s = Cooling(m, w) ++ (Area(n) ++ s)
  BY OneWriteAtATime
<1>12. SingleCooling(EndPulldown ++ s, v)
  BY <1>1 DEF t
<1>13. /\ SingleCooling(Cooling(m, w) ++ EndPulldown ++ s, w)
       /\ SingleCooling([speed |-> w] ++ EndPulldown ++ s, w)
       /\ SingleCooling([mode |-> m] ++ EndPulldown ++ s, v)
  BY <1>2, <1>6, <1>10
<1>14. /\ SingleCooling(Cooling(m, w) ++ Area(n) ++ EndPulldown ++ s, w)
       /\ SingleCooling([antiSweat |-> TRUE] ++ Cooling(m, w) ++ EndPulldown ++ s, w)
  BY <1>3, <1>8, <1>9
<1>15. /\ SingleCooling(Cooling(m, w) ++ Area(n) ++ EndPulldown ++ Ice(TRUE) ++ s, w)
       /\ SingleCooling([mode |-> m, antiSweat |-> TRUE] ++ Area(n) ++ EndPulldown
                        ++ Ice(TRUE) ++ s, v)
       /\ SingleCooling([antiSweat |-> TRUE] ++ Cooling(m, w) ++ Area(n)
                        ++ EndPulldown ++ Ice(TRUE) ++ s, w)
  <2> DEFINE c == Cooling(m, w)
             r == Area(n)
             j == Ice(TRUE)
             k == [antiSweat |-> TRUE]
             l == [mode |-> m, antiSweat |-> TRUE]
  <2>1. i = EndPulldown ++ (j ++ s)
    BY DEF i
  <2>2. /\ SingleCooling(c ++ (r ++ i), w) /\ SingleCooling(l ++ (r ++ i), v)
        /\ SingleCooling(k ++ (c ++ (r ++ i)), w)
    BY <1>8, <1>9, <1>10
  <2> HIDE DEF c, r, j, k, l
  <2>3. c ++ r ++ EndPulldown ++ j ++ s = c ++ (r ++ i)
    BY <2>1, FourWrites
  <2>4. l ++ r ++ EndPulldown ++ j ++ s = l ++ (r ++ i)
    BY <2>1, FourWrites
  <2>5. k ++ c ++ r ++ EndPulldown ++ j ++ s = k ++ (c ++ (r ++ i))
    BY <2>1, FiveWrites
  <2>6. /\ SingleCooling(c ++ r ++ EndPulldown ++ j ++ s, w)
        /\ SingleCooling(l ++ r ++ EndPulldown ++ j ++ s, v)
        /\ SingleCooling(k ++ c ++ r ++ EndPulldown ++ j ++ s, w)
    BY <2>2, <2>3, <2>4, <2>5
  <2> QED BY <2>6 DEF c, r, j, k, l
<1>16. SingleCooling(Cooling(m, w) ++ s, w) /\ SingleCooling(Cooling(m, w) ++ Area(n) ++ s, w)
  BY <1>6, <1>8, <1>11
<1> QED BY <1>12, <1>13, <1>14, <1>15, <1>16

LEMMA SinglePulldowns ==
    ASSUME NEW s, NEW v, SingleCooling(s, v), NEW m, NEW n
    PROVE  LET pulldown == [speed |-> "PullDown", pulldownActive |-> TRUE, antiSweat |-> FALSE,
                            iceMaker |-> FALSE]
           IN  /\ SingleCooling(pulldown ++ s, "PullDown")
               /\ SingleCooling([mode |-> m] ++ Area(n) ++ pulldown ++ s, "PullDown")
<1> DEFINE pulldown == [speed |-> "PullDown", pulldownActive |-> TRUE, antiSweat |-> FALSE,
                        iceMaker |-> FALSE]
           t == pulldown ++ s
<1>1. SingleCooling(t, "PullDown")
  BY SingleWrites
<1>2. \A w1, w2 : w1 ++ w2 ++ pulldown ++ s = w1 ++ (w2 ++ t)
  BY ThreeWrites
<1> SUFFICES SingleCooling(t, "PullDown")
             /\ SingleCooling([mode |-> m] ++ Area(n) ++ pulldown ++ s, "PullDown")
  OBVIOUS
<1> HIDE DEF t
<1>3. SingleCooling(Area(n) ++ t, "PullDown")
  BY <1>1, SingleWrites
<1>4. SingleCooling([mode |-> m] ++ (Area(n) ++ t), "PullDown")
  BY <1>3, SingleWrites
<1> QED BY <1>1, <1>2, <1>4

\* What the votes need of the speed that a block chooses.
SpeedFor(b, v) == (b <= 6 => v = "PullDown") /\ (b \in 11..13 => v \in {"High", "Mid"})

LEMMA SingleWarmBlocks ==
    ASSUME NEW s, SingleCooling(s, s.speed), NEW b \in 0..18
    PROVE  \E v : SingleCooling(SingleEvapWarmBlocks(s, b), v) /\ SpeedFor(b, v)
<1> DEFINE e == SingleEvapWarmBlocks(s, b)
           pulldown == [speed |-> "PullDown", pulldownActive |-> TRUE, antiSweat |-> FALSE,
                        iceMaker |-> FALSE]
           mitigated == s.pulldownActive /\ s.tripMitigation
<1>0. s.speed \in CoolingSpeeds
  BY DEF SingleCooling
<1>1. CASE b \in 0..1
  <2>0. /\ b \notin 2..3 /\ b \notin 4..6 /\ b \notin {7, 8, 14} /\ b \notin 9..10
        /\ b \notin 11..13 /\ b # 15 /\ b \notin 16..17 /\ b # 18
    BY <1>1
  <2>1. e = [mode |-> "Freezer"] ++ Area(1) ++ pulldown ++ s
    BY <1>1, <2>0, ZenonT(120) DEF SingleEvapWarmBlocks
  <2>2. "PullDown" \in CoolingSpeeds /\ SpeedFor(b, "PullDown")
    BY <1>0, <1>1, SpeedsOfAState DEF SpeedFor
  <2> QED BY <2>1, <2>2, SinglePulldowns
<1>2. CASE b \in 2..3
  <2>0. /\ b \notin 0..1 /\ b \notin 4..6 /\ b \notin {7, 8, 14} /\ b \notin 9..10
        /\ b \notin 11..13 /\ b # 15 /\ b \notin 16..17 /\ b # 18
    BY <1>2
  <2>1. e = pulldown ++ s
    BY <1>2, <2>0, ZenonT(120) DEF SingleEvapWarmBlocks
  <2>2. "PullDown" \in CoolingSpeeds /\ SpeedFor(b, "PullDown")
    BY <1>0, <1>2, SpeedsOfAState DEF SpeedFor
  <2> QED BY <2>1, <2>2, SinglePulldowns
<1>3. CASE b \in 4..6
  <2>0. /\ b \notin 0..1 /\ b \notin 2..3 /\ b \notin {7, 8, 14} /\ b \notin 9..10
        /\ b \notin 11..13 /\ b # 15 /\ b \notin 16..17 /\ b # 18
    BY <1>3
  <2>1. e = [mode |-> "FreshFood"] ++ Area(2) ++ pulldown ++ s
    BY <1>3, <2>0, ZenonT(120) DEF SingleEvapWarmBlocks
  <2>2. "PullDown" \in CoolingSpeeds /\ SpeedFor(b, "PullDown")
    BY <1>0, <1>3, SpeedsOfAState DEF SpeedFor
  <2> QED BY <2>1, <2>2, SinglePulldowns
<1>4. CASE b \in {7, 8, 14}
  <2>0. /\ b \notin 0..1 /\ b \notin 2..3 /\ b \notin 4..6 /\ b \notin 9..10
        /\ b \notin 11..13 /\ b # 15 /\ b \notin 16..17 /\ b # 18
    BY <1>4
  <2>1. e = Cooling("Freezer", "High") ++ Area(1) ++ EndPulldown ++ Ice(TRUE) ++ s
    BY <1>4, <2>0, ZenonT(120) DEF SingleEvapWarmBlocks
  <2>2. "High" \in CoolingSpeeds /\ SpeedFor(b, "High")
    BY <1>0, <1>4, SpeedsOfAState DEF SpeedFor
  <2> QED BY <2>1, <2>2, SingleBlocks
<1>5. CASE b \in 9..10
  <2>0. /\ b \notin 0..1 /\ b \notin 2..3 /\ b \notin 4..6 /\ b \notin {7, 8, 14}
        /\ b \notin 11..13 /\ b # 15 /\ b \notin 16..17 /\ b # 18
    BY <1>5
  <2>1. e = Cooling(Start(s), "High") ++ s
    BY <1>5, <2>0, ZenonT(120) DEF SingleEvapWarmBlocks
  <2>2. "High" \in CoolingSpeeds /\ SpeedFor(b, "High")
    BY <1>0, <1>5, SpeedsOfAState DEF SpeedFor
  <2> QED BY <2>1, <2>2, SingleBlocks
<1>6. CASE b \in 11..13
  <2>0. /\ b \notin 0..1 /\ b \notin 2..3 /\ b \notin 4..6 /\ b \notin {7, 8, 14}
        /\ b \notin 9..10 /\ b # 15 /\ b \notin 16..17 /\ b # 18
    BY <1>6
  <2>1. e = Cooling("FreshFood", IF mitigated THEN "Mid" ELSE "High") ++ Area(2) ++ s
    BY <1>6, <2>0, ZenonT(120) DEF SingleEvapWarmBlocks
  <2>2. (IF mitigated THEN "Mid" ELSE "High") \in CoolingSpeeds /\ SpeedFor(b, IF mitigated THEN "Mid" ELSE "High")
    BY <1>0, <1>6, SpeedsOfAState DEF SpeedFor
  <2> QED BY <2>1, <2>2, SingleBlocks, ZenonT(120)
<1>7. CASE b = 15
  <2>1. e = Cooling("Freezer", HighOrMid(s)) ++ Area(1) ++ EndPulldown ++ Ice(TRUE) ++ s
    BY <1>7 DEF SingleEvapWarmBlocks
  <2>2. HighOrMid(s) \in CoolingSpeeds /\ SpeedFor(b, HighOrMid(s))
    BY <1>0, <1>7, SpeedsOfAState DEF SpeedFor
  <2> QED BY <2>1, <2>2, SingleBlocks, ZenonT(120)
<1>8. CASE b \in 16..17
  <2>0. /\ b \notin 0..1 /\ b \notin 2..3 /\ b \notin 4..6 /\ b \notin {7, 8, 14}
        /\ b \notin 9..10 /\ b \notin 11..13 /\ b # 15 /\ b # 18
    BY <1>8
  <2>1. e = Cooling(Start(s), HighOrMid(s)) ++ EndPulldown ++ s
    BY <1>8, <2>0, ZenonT(120) DEF SingleEvapWarmBlocks
  <2>2. HighOrMid(s) \in CoolingSpeeds /\ SpeedFor(b, HighOrMid(s))
    BY <1>0, <1>8, SpeedsOfAState DEF SpeedFor
  <2> QED BY <2>1, <2>2, SingleBlocks
<1>9. CASE b = 18
  <2>1. e = Cooling("FreshFood", IF mitigated THEN "High" ELSE HighOrMid(s)) ++ Area(2) ++ s
    BY <1>9 DEF SingleEvapWarmBlocks
  <2>2. (IF mitigated THEN "High" ELSE HighOrMid(s)) \in CoolingSpeeds /\ SpeedFor(b, IF mitigated THEN "High" ELSE HighOrMid(s))
    BY <1>0, <1>9, SpeedsOfAState DEF SpeedFor
  <2> QED BY <2>1, <2>2, SingleBlocks, ZenonT(120)
<1> HIDE DEF e
<1> QED BY <1>1, <1>2, <1>3, <1>4, <1>5, <1>6, <1>7, <1>8, <1>9 DEF e

LEMMA SingleNormalBlocks ==
    ASSUME NEW s, SingleCooling(s, s.speed), NEW b \in (19..35) \union (39..41)
    PROVE  \E v : SingleCooling(SingleEvapNormalBlocks(s, b), v) /\ SpeedFor(b, v)
<1> DEFINE e == SingleEvapNormalBlocks(s, b)
<1>0. s.speed \in CoolingSpeeds
  BY DEF SingleCooling
<1>1. CASE b \in {19, 20, 27, 34, 41}
  <2>0. /\ b # 21 /\ b # 22 /\ b # 23 /\ b # 24 /\ b \notin {25, 32, 39}
        /\ b \notin {26, 33, 40} /\ b \notin {28, 29, 35} /\ b # 30 /\ b # 31
    BY <1>1
  <2>1. e = Cooling("FreshFood", "High") ++ Area(2) ++ EndPulldown ++ s
    BY <1>1, <2>0, ZenonT(120) DEF SingleEvapNormalBlocks
  <2>2. "High" \in CoolingSpeeds /\ SpeedFor(b, "High")
    BY <1>0, <1>1, SpeedsOfAState DEF SpeedFor
  <2> QED BY <2>1, <2>2, SingleBlocks, ZenonT(120)
<1>2. CASE b = 21
  <2>1. e = Cooling("Freezer", "Low") ++ Area(1) ++ EndPulldown ++ Ice(TRUE) ++ s
    BY <1>2 DEF SingleEvapNormalBlocks
  <2>2. "Low" \in CoolingSpeeds /\ SpeedFor(b, "Low")
    BY <1>0, <1>2, SpeedsOfAState DEF SpeedFor
  <2> QED BY <2>1, <2>2, SingleBlocks
<1>3. CASE b = 22
  <2>1. e = Cooling("Freezer", AtLeastLow(s)) ++ Area(1) ++ EndPulldown ++ Ice(TRUE) ++ s
    BY <1>3 DEF SingleEvapNormalBlocks
  <2>2. AtLeastLow(s) \in CoolingSpeeds /\ SpeedFor(b, AtLeastLow(s))
    BY <1>0, <1>3, SpeedsOfAState DEF SpeedFor
  <2> QED BY <2>1, <2>2, SingleBlocks
<1>4. CASE b = 23
  <2>1. e = Cooling(Start(s), AtLeastLow(s)) ++ EndPulldown ++ s
    BY <1>4 DEF SingleEvapNormalBlocks
  <2>2. AtLeastLow(s) \in CoolingSpeeds /\ SpeedFor(b, AtLeastLow(s))
    BY <1>0, <1>4, SpeedsOfAState DEF SpeedFor
  <2> QED BY <2>1, <2>2, SingleBlocks
<1>5. CASE b = 24
  <2>1. e = [speed |-> AtLeastLow(s)] ++ EndPulldown ++ s
    BY <1>5 DEF SingleEvapNormalBlocks
  <2>2. AtLeastLow(s) \in CoolingSpeeds /\ SpeedFor(b, AtLeastLow(s))
    BY <1>0, <1>5, SpeedsOfAState DEF SpeedFor
  <2> QED BY <2>1, <2>2, SingleBlocks
<1>6. CASE b \in {25, 32, 39}
  <2>0. /\ b \notin {19, 20, 27, 34, 41} /\ b # 21 /\ b # 22 /\ b # 23 /\ b # 24
        /\ b \notin {26, 33, 40} /\ b \notin {28, 29, 35} /\ b # 30 /\ b # 31
    BY <1>6
  <2>1. e = Cooling("FreshFood", AtLeastLow(s)) ++ Area(2) ++ EndPulldown ++ s
    BY <1>6, <2>0, ZenonT(120) DEF SingleEvapNormalBlocks
  <2>2. AtLeastLow(s) \in CoolingSpeeds /\ SpeedFor(b, AtLeastLow(s))
    BY <1>0, <1>6, SpeedsOfAState DEF SpeedFor
  <2> QED BY <2>1, <2>2, SingleBlocks
<1>7. CASE b \in {26, 33, 40}
  <2>0. /\ b \notin {19, 20, 27, 34, 41} /\ b # 21 /\ b # 22 /\ b # 23 /\ b # 24
        /\ b \notin {25, 32, 39} /\ b \notin {28, 29, 35} /\ b # 30 /\ b # 31
    BY <1>7
  <2>1. e = Cooling("FreshFood", HighOrMid(s)) ++ Area(2) ++ EndPulldown ++ s
    BY <1>7, <2>0, ZenonT(120) DEF SingleEvapNormalBlocks
  <2>2. HighOrMid(s) \in CoolingSpeeds /\ SpeedFor(b, HighOrMid(s))
    BY <1>0, <1>7, SpeedsOfAState DEF SpeedFor
  <2> QED BY <2>1, <2>2, SingleBlocks
<1>8. CASE b \in {28, 29, 35}
  <2>0. /\ b \notin {19, 20, 27, 34, 41} /\ b # 21 /\ b # 22 /\ b # 23 /\ b # 24
        /\ b \notin {25, 32, 39} /\ b \notin {26, 33, 40} /\ b # 30 /\ b # 31
    BY <1>8
  <2>1. e = [mode |-> "Freezer", antiSweat |-> TRUE] ++ Area(1) ++ EndPulldown ++ Ice(TRUE) ++ s
    BY <1>8, <2>0, ZenonT(120) DEF SingleEvapNormalBlocks
  <2>2. s.speed \in CoolingSpeeds /\ SpeedFor(b, s.speed)
    BY <1>0, <1>8, SpeedsOfAState DEF SpeedFor
  <2> QED BY <2>1, <2>2, SingleBlocks
<1>9. CASE b = 30
  <2>1. e = EndPulldown ++ s
    BY <1>9 DEF SingleEvapNormalBlocks
  <2>2. s.speed \in CoolingSpeeds /\ SpeedFor(b, s.speed)
    BY <1>0, <1>9, SpeedsOfAState DEF SpeedFor
  <2> QED BY <2>1, <2>2, SingleBlocks
<1>10. CASE b = 31
  <2>1. e = [mode |-> IF s.speed = "Off" /\ s.area = 1 THEN "Freezer" ELSE "FreshFood"]
            ++ EndPulldown ++ s
    BY <1>10 DEF SingleEvapNormalBlocks
  <2>2. s.speed \in CoolingSpeeds /\ SpeedFor(b, s.speed)
    BY <1>0, <1>10, SpeedsOfAState DEF SpeedFor
  <2> QED BY <2>1, <2>2, SingleBlocks
<1> HIDE DEF e
<1> QED BY <1>1, <1>2, <1>3, <1>4, <1>5, <1>6, <1>7, <1>8, <1>9, <1>10 DEF e

LEMMA SingleColdBlocks ==
    ASSUME NEW s, SingleCooling(s, s.speed), NEW b \in (36..38) \union (42..48)
    PROVE  \E v : SingleCooling(SingleEvapColdBlocks(s, b), v) /\ SpeedFor(b, v)
<1> DEFINE e == SingleEvapColdBlocks(s, b)
<1>0. s.speed \in CoolingSpeeds
  BY DEF SingleCooling
<1>1. CASE b = 36
  <2>1. e = [antiSweat |-> TRUE] ++ Cooling("Freezer", AtMostLow(s)) ++ Area(1) ++ EndPulldown
            ++ Ice(TRUE) ++ s
    BY <1>1 DEF SingleEvapColdBlocks
  <2>2. AtMostLow(s) \in CoolingSpeeds /\ SpeedFor(b, AtMostLow(s))
    BY <1>0, <1>1, SpeedsOfAState DEF SpeedFor
  <2> QED BY <2>1, <2>2, SingleBlocks
<1>2. CASE b = 37
  <2>1. e = [speed |-> AtMostLow(s)] ++ EndPulldown ++ s
    BY <1>2 DEF SingleEvapColdBlocks
  <2>2. AtMostLow(s) \in CoolingSpeeds /\ SpeedFor(b, AtMostLow(s))
    BY <1>0, <1>2, SpeedsOfAState DEF SpeedFor
  <2> QED BY <2>1, <2>2, SingleBlocks
<1>3. CASE b = 38
  <2>1. e = Cooling(IF s.speed # "Off" THEN "FreshFood" ELSE s.mode, AtMostLow(s)) ++ EndPulldown
            ++ s
    BY <1>3 DEF SingleEvapColdBlocks
  <2>2. AtMostLow(s) \in CoolingSpeeds /\ SpeedFor(b, AtMostLow(s))
    BY <1>0, <1>3, SpeedsOfAState DEF SpeedFor
  <2> QED BY <2>1, <2>2, SingleBlocks
<1>4. CASE b \in 42..43
  <2>0. /\ b # 36 /\ b # 37 /\ b # 38 /\ b \notin 44..45 /\ b \notin 46..47 /\ b # 48
    BY <1>4
  <2>1. e = [antiSweat |-> TRUE] ++ Cooling("Freezer", "Off") ++ Area(1) ++ EndPulldown ++ Ice(TRUE)
            ++ s
    BY <1>4, <2>0, ZenonT(120) DEF SingleEvapColdBlocks
  <2>2. "Off" \in CoolingSpeeds /\ SpeedFor(b, "Off")
    BY <1>0, <1>4, SpeedsOfAState DEF SpeedFor
  <2> QED BY <2>1, <2>2, SingleBlocks
<1>5. CASE b \in 44..45
  <2>0. /\ b # 36 /\ b # 37 /\ b # 38 /\ b \notin 42..43 /\ b \notin 46..47 /\ b # 48
    BY <1>5
  <2>1. e = [antiSweat |-> TRUE] ++ Cooling(IF s.area = 1 THEN "Freezer" ELSE "FreshFood", "Off")
            ++ EndPulldown ++ s
    BY <1>5, <2>0, ZenonT(120) DEF SingleEvapColdBlocks
  <2>2. "Off" \in CoolingSpeeds /\ SpeedFor(b, "Off")
    BY <1>0, <1>5, SpeedsOfAState DEF SpeedFor
  <2> QED BY <2>1, <2>2, SingleBlocks
<1>6. CASE b \in 46..47
  <2>0. /\ b # 36 /\ b # 37 /\ b # 38 /\ b \notin 42..43 /\ b \notin 44..45 /\ b # 48
    BY <1>6
  <2>1. e = Cooling("FreshFood", "Low") ++ Area(2) ++ EndPulldown ++ s
    BY <1>6, <2>0, ZenonT(120) DEF SingleEvapColdBlocks
  <2>2. "Low" \in CoolingSpeeds /\ SpeedFor(b, "Low")
    BY <1>0, <1>6, SpeedsOfAState DEF SpeedFor
  <2> QED BY <2>1, <2>2, SingleBlocks, ZenonT(120)
<1>7. CASE b = 48
  <2>1. e = Cooling("FreshFood", "Mid") ++ Area(2) ++ EndPulldown ++ s
    BY <1>7 DEF SingleEvapColdBlocks
  <2>2. "Mid" \in CoolingSpeeds /\ SpeedFor(b, "Mid")
    BY <1>0, <1>7, SpeedsOfAState DEF SpeedFor
  <2> QED BY <2>1, <2>2, SingleBlocks
<1> HIDE DEF e
<1> QED BY <1>1, <1>2, <1>3, <1>4, <1>5, <1>6, <1>7 DEF e

LEMMA SideBySideVotesAgree ==
    ASSUME NEW s, NEW b \in 0..48, s.speed \in CoolingSpeeds, SpeedFor(b, s.speed)
    PROVE  LET v == SideBySideVotes(s, b) IN v.compressor = "Off" <=> v.condenser = "Off"
<1> DEFINE c == IF b <= 6 THEN (IF s.mediumPulldown THEN "Medium" ELSE "Low")
                ELSE VotedSpeed(s.speed, "Low")
           f == IF b \in 11..13 THEN "High" ELSE VotedSpeed(s.speed, "SuperHigh")
<1>1. SideBySideVotes(s, b).compressor = c /\ SideBySideVotes(s, b).condenser = f
  BY DEF SideBySideVotes
<1>2. CASE b <= 6
  <2>1. s.speed = "PullDown" /\ b \notin 11..13
    BY <1>2 DEF SpeedFor
  <2>2. VotedSpeed(s.speed, "SuperHigh") = "SuperHigh"
    BY <2>1 DEF VotedSpeed
  <2> QED BY <1>1, <1>2, <2>1, <2>2
<1>3. CASE b \in 11..13
  <2>1. s.speed \in {"High", "Mid"} /\ ~(b <= 6)
    BY <1>3 DEF SpeedFor
  <2>2. VotedSpeed(s.speed, "Low") # "Off"
    BY <2>1 DEF VotedSpeed
  <2> QED BY <1>1, <1>3, <2>1, <2>2
<1>4. CASE ~(b <= 6) /\ b \notin 11..13
  <2>1. VotedSpeed(s.speed, "Low") = "Off" <=> VotedSpeed(s.speed, "SuperHigh") = "Off"
    BY DEF VotedSpeed, CoolingSpeeds
  <2> QED BY <1>1, <1>4, <2>1
<1> QED BY <1>2, <1>3, <1>4

LEMMA SingleEvapKeepsItsInvariant ==
    ASSUME NEW s, SingleGridInv(s), NEW b \in 0..48, NEW valid
    PROVE  SingleGridInv(Grid_SingleEvap(s, b, valid))
<1> DEFINE set == CASE b \in 0..18 -> SingleEvapWarmBlocks(s, b)
                    [] b \in (19..35) \union (39..41) -> SingleEvapNormalBlocks(s, b)
                    [] b \in (36..38) \union (42..48) -> SingleEvapColdBlocks(s, b)
           votes == SideBySideVotes(set, b)
           t == ExecuteGridVote(set, votes, valid)
<1>0. SingleCooling(s, s.speed)
  BY DEF SingleGridInv
<1>1. \E v : SingleCooling(set, v) /\ SpeedFor(b, v)
  <2>1. CASE b \in 0..18
    <3>0. b \notin (19..35) \union (39..41) /\ b \notin (36..38) \union (42..48)
      BY <2>1
    <3>1. set = SingleEvapWarmBlocks(s, b)
      BY <2>1, <3>0, ZenonT(120)
    <3> QED BY <1>0, <2>1, <3>1, SingleWarmBlocks
  <2>2. CASE b \in (19..35) \union (39..41)
    <3>0. b \notin 0..18 /\ b \notin (36..38) \union (42..48)
      BY <2>2
    <3>1. set = SingleEvapNormalBlocks(s, b)
      BY <2>2, <3>0, ZenonT(120)
    <3> QED BY <1>0, <2>2, <3>1, SingleNormalBlocks
  <2>3. CASE b \in (36..38) \union (42..48)
    <3>0. b \notin 0..18 /\ b \notin (19..35) \union (39..41)
      BY <2>3
    <3>1. set = SingleEvapColdBlocks(s, b)
      BY <2>3, <3>0, ZenonT(120)
    <3> QED BY <1>0, <2>3, <3>1, SingleColdBlocks
  <2>4. b \in 0..18 \/ b \in (19..35) \union (39..41) \/ b \in (36..38) \union (42..48)
    OBVIOUS
  <2> HIDE DEF set
  <2> QED BY <2>1, <2>2, <2>3, <2>4
<1> SUFFICES SingleGridInv(t)
  BY DEF Grid_SingleEvap
<1> HIDE DEF set
<1>2. SingleCooling(set, set.speed) /\ set.speed \in CoolingSpeeds /\ SpeedFor(b, set.speed)
  BY <1>1 DEF SingleCooling
<1>3. votes.compressor = "Off" <=> votes.condenser = "Off"
  BY <1>2, SideBySideVotesAgree
<1> HIDE DEF votes
<1>4. SingleCooling(t, t.speed) /\ t.votes = votes
  <2> DEFINE u == [set EXCEPT !.votes = votes]
             care == valid # {}
             w == [u EXCEPT !.care = care]
  <2>1. /\ u = [f \in SingleFields |-> u[f]] /\ u.votes = votes
        /\ \A f \in SingleFields \ {"votes"} : u[f] = set[f]
    BY <1>2, SMTT(60) DEF SingleCooling, SingleFields
  <2>2. t = w
    BY DEF ExecuteGridVote
  <2> HIDE DEF u, care
  <2>3. /\ w = [f \in SingleFields |-> w[f]]
        /\ \A f \in SingleFields \ {"care"} : w[f] = u[f]
    BY <2>1, SMTT(60) DEF SingleFields
  <2> HIDE DEF w
  <2>4. w.votes = votes /\ w.speed = set.speed /\ w.pulldownActive = set.pulldownActive
        /\ w.iceMaker = set.iceMaker
    BY <2>1, <2>3 DEF SingleFields
  <2>5. SingleCooling(w, w.speed)
    BY <1>2, <2>3, <2>4 DEF SingleCooling
  <2> QED BY <2>2, <2>4, <2>5
<1> HIDE DEF t
<1> QED BY <1>3, <1>4 DEF SingleGridInv

\* The block: its lines are those of the set points of now, and it left the
\* newest previous one for another.
BlockFields ==
    {"temperature", "valid", "setpoint", "offset", "hysteresis", "mode", "dimensions", "lines",
     "block", "previous"}

Lines(s) == [d \in 1..2 |-> [l \in 0..(NumberOfLines - 1) |-> AxisGridLine(s, d, l)]]

History(previous, block) ==
    /\ \E S : previous \in Seq(S)
    /\ \A i \in 1..Len(previous) :
        previous[i] # (IF i = Len(previous) THEN block ELSE previous[i + 1])

BlockFits(s) == s.valid \intersect (1..s.dimensions) # {} => s.block = CalculatedGridBlock(s)

BlockInv(s) ==
    /\ s = [f \in BlockFields |-> s[f]]
    /\ s.lines = Lines(s)
    /\ BlockFits(s)
    /\ History(s.previous, s.block)

LEMMA BlockFieldSet ==
    ASSUME NEW s, s = [f \in BlockFields |-> s[f]], NEW g \in BlockFields, NEW x
    PROVE  LET t == [s EXCEPT ![g] = x]
           IN  /\ t = [f \in BlockFields |-> t[f]] /\ t[g] = x
               /\ \A f \in BlockFields \ {g} : t[f] = s[f]
OBVIOUS

\* What the lines and the block are calculated from.
LEMMA LinesOfSetpoints ==
    ASSUME NEW s, NEW t, s.mode = t.mode, s.hysteresis = t.hysteresis,
           s.setpoint = t.setpoint, s.offset = t.offset
    PROVE  Lines(s) = Lines(t)
<1>1. \A d, l : AxisGridLine(s, d, l) = AxisGridLine(t, d, l)
  BY ZenonT(60) DEF AxisGridLine
<1> QED BY <1>1 DEF Lines

LEMMA BlockOfLines ==
    ASSUME NEW s, NEW t, s.lines = t.lines, s.temperature = t.temperature,
           s.valid = t.valid, s.dimensions = t.dimensions
    PROVE  CalculatedGridBlock(s) = CalculatedGridBlock(t)
<1>1. \A d, i : GridLineIndex(s, d, i) = GridLineIndex(t, d, i)
  <2> SUFFICES ASSUME NEW d, NEW i
               PROVE  GridLineIndex(s, d, i) = GridLineIndex(t, d, i)
    OBVIOUS
  <2> DEFINE above(x) == {l \in 0..(NumberOfLines - 1) : x.temperature[d] <= x.lines[d][l]}
             first(A) == IF A = {} THEN NumberOfLines ELSE CHOOSE l \in A : \A k \in A : l <= k
             turned(n) == IF i THEN NumberOfLines - n ELSE n
  <2>1. above(s) = above(t)
    BY ZenonT(120)
  <2>2. /\ GridLineIndex(s, d, i) = turned(first(above(s)))
        /\ GridLineIndex(t, d, i) = turned(first(above(t)))
    BY ZenonT(120) DEF GridLineIndex
  <2> HIDE DEF above, first, turned
  <2> QED BY <2>1, <2>2
<1> QED BY <1>1, ZenonT(60) DEF CalculatedGridBlock

LEMMA HistoryGrows ==
    ASSUME GridAssumption, NEW previous, NEW block, History(previous, block), NEW next,
           next # block
    PROVE  History(WithPrevious(previous, block), next)
<1>1. PICK S : previous \in Seq(S)
  BY DEF History
<1> DEFINE T == S \union {block}
           a == Append(previous, block)
           n == Len(previous)
<1>2. previous \in Seq(T) /\ block \in T
  <2>1. \A i \in 1..Len(previous) : previous[i] \in T
    BY <1>1
  <2>2. previous = [i \in 1..Len(previous) |-> previous[i]] /\ Len(previous) \in Nat
    BY <1>1
  <2> QED BY <2>1, <2>2
<1> HIDE DEF T
<1>3. /\ a \in Seq(T) /\ Len(a) = n + 1 /\ n \in Nat
      /\ \A i \in 1..(n + 1) : a[i] = IF i <= n THEN previous[i] ELSE block
  BY <1>2
<1>4. WithPrevious(previous, block)
      = IF Len(a) > NumberOfPreviousGridBlocksToStore THEN Tail(a) ELSE a
  <2>1. ~(previous # <<>> /\ previous[Len(previous)] = block)
    <3>1. previous # <<>> => Len(previous) \in 1..Len(previous)
      BY <1>2
    <3> QED BY <3>1 DEF History
  <2> QED BY <2>1 DEF WithPrevious
<1>5. \A i \in 1..n : previous[i] # (IF i = n THEN block ELSE previous[i + 1])
  BY DEF History
<1> HIDE DEF a, n
<1>6. \A i \in 1..Len(a) : a[i] # (IF i = Len(a) THEN next ELSE a[i + 1])
  BY <1>3, <1>5
<1>7. History(a, next)
  BY <1>3, <1>6 DEF History
<1>8. History(Tail(a), next)
  <2>1. /\ Tail(a) \in Seq(T) /\ Len(Tail(a)) = n
        /\ \A i \in 1..n : Tail(a)[i] = a[i + 1]
    BY <1>3
  <2>2. \A i \in 1..n : Tail(a)[i] # (IF i = n THEN next ELSE Tail(a)[i + 1])
    BY <1>3, <1>6, <2>1
  <2> QED BY <2>1, <2>2 DEF History
<1> QED BY <1>4, <1>7, <1>8

\* UpdateGridBlockIfDifferent.
LEMMA UpdateMakesCurrent ==
    ASSUME GridAssumption, NEW s, s = [f \in BlockFields |-> s[f]], s.lines = Lines(s),
           History(s.previous, s.block)
    PROVE  BlockInv(UpdateGridBlockIfDifferent(s))
<1> DEFINE next == CalculatedGridBlock(s)
           left == WithPrevious(s.previous, s.block)
           u == [s EXCEPT !.previous = left]
           t == [u EXCEPT !.block = next]
<1>1. CASE s.valid \intersect (1..s.dimensions) = {} \/ next = s.block
  BY <1>1 DEF UpdateGridBlockIfDifferent, BlockInv, BlockFits
<1>2. CASE ~(s.valid \intersect (1..s.dimensions) = {} \/ next = s.block)
  <2>1. UpdateGridBlockIfDifferent(s) = t
    BY <1>2 DEF UpdateGridBlockIfDifferent
  <2>2. "previous" \in BlockFields /\ "block" \in BlockFields
    BY DEF BlockFields
  <2>3. /\ u = [f \in BlockFields |-> u[f]] /\ u.previous = left
        /\ \A f \in BlockFields \ {"previous"} : u[f] = s[f]
    BY <2>2, BlockFieldSet
  <2>4. History(left, next)
    BY <1>2, HistoryGrows
  <2> HIDE DEF u, left, next
  <2>5. /\ t = [f \in BlockFields |-> t[f]] /\ t.block = next
        /\ \A f \in BlockFields \ {"block"} : t[f] = u[f]
    BY <2>2, <2>3, BlockFieldSet
  <2> HIDE DEF t
  <2>6. /\ t.previous = left /\ t.lines = s.lines /\ t.temperature = s.temperature
        /\ t.valid = s.valid /\ t.dimensions = s.dimensions /\ t.mode = s.mode
        /\ t.hysteresis = s.hysteresis /\ t.setpoint = s.setpoint /\ t.offset = s.offset
    BY <2>3, <2>5 DEF BlockFields
  <2>7. CalculatedGridBlock(t) = next /\ Lines(t) = Lines(s)
    BY <2>6, BlockOfLines, LinesOfSetpoints DEF next
  <2> QED BY <2>1, <2>4, <2>5, <2>6, <2>7 DEF BlockInv, BlockFits
<1> QED BY <1>1, <1>2

\* ConfigureGridLines, whatever changed the set points.
LEMMA ConfigureMakesCurrent ==
    ASSUME GridAssumption, NEW s, s = [f \in BlockFields |-> s[f]], History(s.previous, s.block)
    PROVE  BlockInv(ConfigureGridLines(s))
<1> DEFINE lines == Lines(s)
           t == [s EXCEPT !.lines = lines]
<1>1. WithLines(s) = t
  BY DEF WithLines, Lines
<1>2. "lines" \in BlockFields
  BY DEF BlockFields
<1> HIDE DEF lines
<1>3. /\ t = [f \in BlockFields |-> t[f]] /\ t.lines = lines
      /\ \A f \in BlockFields \ {"lines"} : t[f] = s[f]
  BY <1>2, BlockFieldSet
<1> HIDE DEF t
<1>4. /\ t.mode = s.mode /\ t.hysteresis = s.hysteresis /\ t.setpoint = s.setpoint
      /\ t.offset = s.offset /\ t.previous = s.previous /\ t.block = s.block
  BY <1>3 DEF BlockFields
<1>5. t.lines = Lines(t)
  BY <1>3, <1>4, LinesOfSetpoints DEF lines
<1>6. BlockInv(UpdateGridBlockIfDifferent(t))
  BY <1>3, <1>4, <1>5, UpdateMakesCurrent
<1> QED BY <1>1, <1>6 DEF ConfigureGridLines

LEMMA TemperatureChangesKeepBlock ==
    ASSUME GridAssumption, unit = "grid block", BlockInv(st), GridTemperatureChanges
    PROVE  BlockInv(st')
<1>1. PICK d \in 1..st.dimensions :
        \/ \E x \in GridTemperatures : st' = UpdateGridBlockIfDifferent([st EXCEPT !.temperature[d] = x])
        \/ st' = UpdateGridBlockIfDifferent([st EXCEPT !.valid = IF d \in @ THEN @ \ {d} ELSE @ \union {d}])
  BY DEF GridTemperatureChanges
<1>2. ASSUME NEW g \in {"temperature", "valid"}, NEW x
      PROVE  BlockInv(UpdateGridBlockIfDifferent([st EXCEPT ![g] = x]))
  <2> DEFINE t == [st EXCEPT ![g] = x]
  <2>1. g \in BlockFields /\ st = [f \in BlockFields |-> st[f]]
    BY DEF BlockFields, BlockInv
  <2>2. /\ t = [f \in BlockFields |-> t[f]]
        /\ \A f \in BlockFields \ {g} : t[f] = st[f]
    BY <2>1, BlockFieldSet
  <2> HIDE DEF t
  <2>3. /\ t.mode = st.mode /\ t.hysteresis = st.hysteresis /\ t.setpoint = st.setpoint
        /\ t.offset = st.offset /\ t.previous = st.previous /\ t.block = st.block
        /\ t.lines = st.lines
    BY <2>2 DEF BlockFields
  <2>4. t.lines = Lines(t) /\ History(t.previous, t.block)
    BY <2>3, LinesOfSetpoints DEF BlockInv
  <2> QED BY <2>2, <2>4, UpdateMakesCurrent DEF t
<1>3. CASE \E x \in GridTemperatures : st' = UpdateGridBlockIfDifferent([st EXCEPT !.temperature[d] = x])
  <2>1. PICK x \in GridTemperatures : st' = UpdateGridBlockIfDifferent([st EXCEPT !.temperature[d] = x])
    BY <1>3
  <2> DEFINE y == [st.temperature EXCEPT ![d] = x]
  <2>2. [st EXCEPT !.temperature[d] = x] = [st EXCEPT !["temperature"] = y]
    OBVIOUS
  <2> QED BY <1>2, <2>1, <2>2
<1>4. CASE st' = UpdateGridBlockIfDifferent([st EXCEPT !.valid = IF d \in @ THEN @ \ {d} ELSE @ \union {d}])
  <2> DEFINE y == IF d \in st.valid THEN st.valid \ {d} ELSE st.valid \union {d}
  <2>1. [st EXCEPT !.valid = IF d \in @ THEN @ \ {d} ELSE @ \union {d}] = [st EXCEPT !["valid"] = y]
    OBVIOUS
  <2> QED BY <1>2, <1>4, <2>1
<1> QED BY <1>1, <1>3, <1>4

LEMMA LineChangesKeepBlock ==
    ASSUME GridAssumption, unit = "grid block", BlockInv(st), GridLinesChange
    PROVE  BlockInv(st')
<1>1. PICK x \in SetpointShifts :
        \E s \in {[st EXCEPT !.setpoint[d] = x] : d \in 1..st.dimensions}
                  \union {[st EXCEPT !.offset[d] = x] : d \in 1..st.dimensions}
                  \union {[st EXCEPT !.hysteresis = x]}
                  \union {[st EXCEPT !.mode = m] : m \in 0..2} : st' = ConfigureGridLines(s)
  BY DEF GridLinesChange
<1>2. ASSUME NEW g \in {"setpoint", "offset", "hysteresis", "mode"}, NEW y
      PROVE  BlockInv(ConfigureGridLines([st EXCEPT ![g] = y]))
  <2> DEFINE t == [st EXCEPT ![g] = y]
  <2>1. g \in BlockFields /\ st = [f \in BlockFields |-> st[f]]
    BY DEF BlockFields, BlockInv
  <2>2. /\ t = [f \in BlockFields |-> t[f]]
        /\ \A f \in BlockFields \ {g} : t[f] = st[f]
    BY <2>1, BlockFieldSet
  <2> HIDE DEF t
  <2>3. t.previous = st.previous /\ t.block = st.block
    BY <2>2 DEF BlockFields
  <2>4. History(t.previous, t.block)
    BY <2>3 DEF BlockInv
  <2> QED BY <2>2, <2>4, ConfigureMakesCurrent, ZenonT(120) DEF t
<1>3. ASSUME NEW d
      PROVE  /\ [st EXCEPT !.setpoint[d] = x] = [st EXCEPT !["setpoint"] = [st.setpoint EXCEPT ![d] = x]]
             /\ [st EXCEPT !.offset[d] = x] = [st EXCEPT !["offset"] = [st.offset EXCEPT ![d] = x]]
  OBVIOUS
<1>4. /\ [st EXCEPT !.hysteresis = x] = [st EXCEPT !["hysteresis"] = x]
      /\ \A m : [st EXCEPT !.mode = m] = [st EXCEPT !["mode"] = m]
  OBVIOUS
<1>5. PICK s : /\ \/ \E d \in 1..st.dimensions : s = [st EXCEPT !.setpoint[d] = x]
                  \/ \E d \in 1..st.dimensions : s = [st EXCEPT !.offset[d] = x]
                  \/ s = [st EXCEPT !.hysteresis = x]
                  \/ \E m \in 0..2 : s = [st EXCEPT !.mode = m]
               /\ st' = ConfigureGridLines(s)
  BY <1>1, ZenonT(120)
<1>6. CASE \E d \in 1..st.dimensions : s = [st EXCEPT !.setpoint[d] = x]
  BY <1>2, <1>3, <1>5, <1>6, ZenonT(120)
<1>7. CASE \E d \in 1..st.dimensions : s = [st EXCEPT !.offset[d] = x]
  BY <1>2, <1>3, <1>5, <1>7, ZenonT(120)
<1>8. CASE s = [st EXCEPT !.hysteresis = x]
  BY <1>2, <1>4, <1>5, <1>8, ZenonT(120)
<1>9. CASE \E m \in 0..2 : s = [st EXCEPT !.mode = m]
  BY <1>2, <1>4, <1>5, <1>9, ZenonT(120)
<1> QED BY <1>5, <1>6, <1>7, <1>8, <1>9

LEMMA BlockStarts ==
    ASSUME GridBlockInit
    PROVE  BlockInv(st)
<1>1. PICK dimensions \in 1..2, valid \in SUBSET (1..2), t \in GridTemperatures :
        LET s == WithLines([temperature |-> <<t, t>>, valid |-> valid, setpoint |-> <<0, 0>>,
                            offset |-> <<0, 0>>, hysteresis |-> 0, mode |-> 0,
                            dimensions |-> dimensions, lines |-> <<>>, block |-> 0,
                            previous |-> <<>>])
        IN  st = [s EXCEPT !.block = CalculatedGridBlock(s)]
  BY DEF GridBlockInit
<1> DEFINE r == [temperature |-> <<t, t>>, valid |-> valid, setpoint |-> <<0, 0>>,
                 offset |-> <<0, 0>>, hysteresis |-> 0, mode |-> 0,
                 dimensions |-> dimensions, lines |-> <<>>, block |-> 0, previous |-> <<>>]
           s == WithLines(r)
           block == CalculatedGridBlock(s)
           lines == Lines(r)
<1>2. st = [s EXCEPT !.block = block]
  BY <1>1
<1>3. s = [r EXCEPT !.lines = lines]
  BY DEF WithLines, Lines
<1>4. r = [f \in BlockFields |-> r[f]] /\ r.previous = <<>>
  BY SMTT(60) DEF BlockFields
<1>5. "lines" \in BlockFields /\ "block" \in BlockFields
  BY DEF BlockFields
<1> HIDE DEF r, lines
<1>6. /\ s = [f \in BlockFields |-> s[f]] /\ s.lines = lines
      /\ \A f \in BlockFields \ {"lines"} : s[f] = r[f]
  BY <1>3, <1>4, <1>5, BlockFieldSet
<1> HIDE DEF s, block
<1>7. /\ st = [f \in BlockFields |-> st[f]] /\ st.block = block
      /\ \A f \in BlockFields \ {"block"} : st[f] = s[f]
  BY <1>2, <1>5, <1>6, BlockFieldSet
<1>8. /\ st.lines = lines /\ st.previous = <<>> /\ s.mode = r.mode /\ st.mode = r.mode
      /\ st.hysteresis = r.hysteresis /\ st.setpoint = r.setpoint /\ st.offset = r.offset
      /\ st.temperature = s.temperature /\ st.valid = s.valid
      /\ st.dimensions = s.dimensions /\ st.lines = s.lines
  BY <1>4, <1>6, <1>7 DEF BlockFields
<1>9. st.lines = Lines(st) /\ st.block = CalculatedGridBlock(st)
  BY <1>7, <1>8, LinesOfSetpoints, BlockOfLines DEF lines, block
<1>10. History(st.previous, st.block)
  <2>1. <<>> \in Seq({0}) /\ Len(<<>>) = 0
    OBVIOUS
  <2> QED BY <1>8, <2>1 DEF History
<1> QED BY <1>7, <1>9, <1>10 DEF BlockInv, BlockFits

LEMMA BlockInvShowsHistory ==
    ASSUME BlockInv(st)
    PROVE  GridBlocksAreAHistory
<1>1. WithLines(st) = st
  <2>1. WithLines(st) = [st EXCEPT !.lines = st.lines]
    BY DEF WithLines, BlockInv, Lines
  <2>2. st = [f \in BlockFields |-> st[f]]
    BY DEF BlockInv
  <2> QED BY <2>1, <2>2
<1>2. BlockIsCurrent
  BY <1>1 DEF BlockIsCurrent, BlockInv, BlockFits
<1>3. PreviousBlocksAreAHistory
  BY DEF PreviousBlocksAreAHistory, BlockInv, History
<1> QED BY <1>2, <1>3 DEF GridBlocksAreAHistory

GridInv ==
    /\ unit = "dual grid" => DualGridInv(st)
    /\ unit = "single grid" => SingleGridInv(st)
    /\ unit = "grid block" => BlockInv(st)

GridSpec == GridInit /\ [][GridNext]_unitVars

LEMMA GridStarts ==
    ASSUME GridInit
    PROVE  GridInv
<1>1. CASE DualGridInit
  <2>1. PICK convertible \in BOOLEAN :
        st = [mode |-> "Off", speed |-> "Off", lowAmbientValve |-> FALSE, pulldownOffset |-> FALSE,
              pulldownFan |-> FALSE, pulldownValve |-> FALSE, antiSweat |-> FALSE, iceMakers |-> FALSE,
              highSpeed |-> FALSE, fanOff |-> FALSE, maxTimeInValveA |-> FALSE,
              delayConvertible |-> FALSE, coolBeforeOff |-> FALSE, useDelayedSpeed |-> FALSE,
              votes |-> DualVotes(Cooling("Off", "Off")), care |-> FALSE, panBlock |-> 4,
              convertible |-> convertible, panMode |-> "Neutral",
              panVotes |-> FeaturePanVotes("Neutral"), forcedHeating |-> FALSE]
    BY <1>1 DEF DualGridInit
  <2> DEFINE votes == DualVotes(Cooling("Off", "Off"))
             panVotes == FeaturePanVotes("Neutral")
  <2>2. votes.compressor = "Off"
    BY DEF DualVotes, Cooling, VotedSpeed, FourDoorDualEvapTable
  <2>3. unit = "dual grid"
    BY <1>1 DEF DualGridInit
  <2> HIDE DEF votes, panVotes
  <2>4. st = [f \in DualFields |-> st[f]]
    BY <2>1, SMTT(60) DEF DualFields
  <2>5. /\ st.mode = "Off" /\ st.speed = "Off" /\ ~st.pulldownOffset /\ ~st.pulldownFan
        /\ ~st.coolBeforeOff /\ ~st.forcedHeating /\ st.votes = votes
    <3>1. st.mode = "Off" /\ st.speed = "Off" /\ ~st.pulldownOffset
      BY <2>1, SMTT(60)
    <3>2. ~st.pulldownFan /\ ~st.coolBeforeOff /\ ~st.forcedHeating
      BY <2>1, SMTT(60)
    <3>3. st.votes = votes
      BY <2>1, SMTT(60) DEF votes
    <3> QED BY <3>1, <3>2, <3>3
  <2>6. DualGridInv(st)
    BY <2>2, <2>4, <2>5 DEF DualGridInv, DualCooling, CoolingSpeeds
  <2> QED BY <2>3, <2>6 DEF GridInv
<1>2. CASE IceCabinetGridInit
  BY <1>2 DEF IceCabinetGridInit, GridInv
<1>3. CASE SingleGridInit
  <2>1. PICK mitigation, medium \in BOOLEAN :
        st = [mode |-> "Freezer", speed |-> "Off", area |-> 1, pulldownActive |-> FALSE, iceMaker |-> FALSE,
              antiSweat |-> FALSE, tripMitigation |-> mitigation, mediumPulldown |-> medium,
              votes |-> [compressor |-> "Off", condenser |-> "Off", fan |-> "Off", damper |-> "Closed"],
              care |-> FALSE]
    BY <1>3 DEF SingleGridInit
  <2>2. unit = "single grid"
    BY <1>3 DEF SingleGridInit
  <2>3. st = [f \in SingleFields |-> st[f]]
    BY <2>1, SMTT(60) DEF SingleFields
  <2>4. /\ st.speed = "Off" /\ ~st.pulldownActive
        /\ st.votes.compressor = "Off" /\ st.votes.condenser = "Off"
    BY <2>1
  <2>5. SingleGridInv(st)
    BY <2>3, <2>4 DEF SingleGridInv, SingleCooling, CoolingSpeeds
  <2> QED BY <2>2, <2>5 DEF GridInv
<1>4. CASE SingleDoorGridInit
  BY <1>4 DEF SingleDoorGridInit, GridInv
<1>5. CASE GridBlockInit
  <2>1. unit = "grid block"
    BY <1>5, ZenonT(120) DEF GridBlockInit
  <2> QED BY <1>5, <2>1, BlockStarts, ZenonT(120) DEF GridInv
<1> QED BY <1>1, <1>2, <1>3, <1>4, <1>5, SMTT(60) DEF GridInit

LEMMA GridStepKeepsInv ==
    ASSUME GridAssumption, GridInv, [GridNext]_unitVars
    PROVE  GridInv'
<1>1. CASE DualGridRuns
  <2>1. unit = "dual grid" /\ unit' = "dual grid"
    BY <1>1 DEF DualGridRuns, Runs
  <2>2. PICK b \in 0..48, valid \in {{}, {"Freezer"}} : st' = Grid_DualEvap(st, b, valid)
    BY <1>1, ZenonT(120) DEF DualGridRuns
  <2>3. DualGridInv(Grid_DualEvap(st, b, valid))
    BY <2>1, DualEvapKeepsItsInvariant DEF GridInv
  <2> QED BY <2>1, <2>2, <2>3 DEF GridInv
<1>2. CASE FeaturePanGridRuns
  <2>1. unit = "dual grid" /\ unit' = "dual grid"
    BY <1>2 DEF FeaturePanGridRuns, Runs
  <2>2. DualGridInv(st')
    BY <1>2, <2>1, FeaturePanKeepsItsInvariant DEF FeaturePanGridRuns, GridInv
  <2> QED BY <2>1, <2>2 DEF GridInv
<1>3. CASE IceCabinetGridRuns
  BY <1>3 DEF IceCabinetGridRuns, Runs, GridInv
<1>4. CASE SingleGridRuns
  <2>1. unit = "single grid" /\ unit' = "single grid"
    BY <1>4 DEF SingleGridRuns, Runs
  <2>2. PICK b \in 0..48, valid \in {{}, {"FreshFood"}} : st' = Grid_SingleEvap(st, b, valid)
    BY <1>4, ZenonT(120) DEF SingleGridRuns
  <2>3. SingleGridInv(Grid_SingleEvap(st, b, valid))
    BY <2>1, SingleEvapKeepsItsInvariant DEF GridInv
  <2> QED BY <2>1, <2>2, <2>3 DEF GridInv
<1>5. CASE SingleDoorGridRuns
  BY <1>5 DEF SingleDoorGridRuns, Runs, GridInv
<1>6. CASE GridOverrideEnableChanges
  BY <1>6 DEF GridOverrideEnableChanges, Runs, GridInv
<1>7. CASE GridTemperatureChanges
  <2>1. unit = "grid block" /\ unit' = "grid block"
    BY <1>7, ZenonT(120) DEF GridTemperatureChanges, Runs
  <2>2. BlockInv(st')
    BY <1>7, <2>1, TemperatureChangesKeepBlock, ZenonT(120) DEF GridInv
  <2> QED BY <2>1, <2>2 DEF GridInv
<1>8. CASE GridLinesChange
  <2>1. unit = "grid block" /\ unit' = "grid block"
    BY <1>8 DEF GridLinesChange, Runs
  <2>2. BlockInv(st')
    BY <1>8, <2>1, LineChangesKeepBlock DEF GridInv
  <2> QED BY <2>1, <2>2 DEF GridInv
<1>9. CASE UNCHANGED unitVars
  BY <1>9, ZenonT(120) DEF unitVars, GridInv
<1> QED
  BY <1>1, <1>2, <1>3, <1>4, <1>5, <1>6, <1>7, <1>8, <1>9 DEF GridNext

LEMMA GridInvShowsVotes ==
    ASSUME GridInv
    PROVE  GridVotesBelongTogether
<1>1. EveryCoolingStateHasVotes
  BY DEF EveryCoolingStateHasVotes, GridInv, DualGridInv, DualCooling, FourDoorDualEvapTable
<1>2. PulldownLeavesNothingBehind
  BY DEF PulldownLeavesNothingBehind, GridInv, DualGridInv, DualCooling
<1>3. PulldownMakesNoIce
  BY DEF PulldownMakesNoIce, GridInv, SingleGridInv, SingleCooling
<1> QED BY <1>1, <1>2, <1>3 DEF GridVotesBelongTogether

\* Whatever blocks the temperatures of a dual evaporator or a side by side
\* unit pass through, and however the feature pan's grid runs in between,
\* the cooling mode and speed are a key of the table of votes, compressor
\* and condenser fan agree, and what a pulldown set up ends with it.
THEOREM GridVotesStayTogether == ASSUME GridAssumption PROVE GridSpec => []GridVotesBelongTogether
<1>1. GridInit => GridInv
  BY GridStarts
<1>2. GridInv /\ [GridNext]_unitVars => GridInv'
  BY GridStepKeepsInv
<1>3. GridInv => GridVotesBelongTogether
  BY GridInvShowsVotes
<1> QED BY <1>1, <1>2, <1>3, PTL DEF GridSpec

\* For every grid of lines, in one or two dimensions: while a thermistor is
\* valid, the published block is the one of the temperatures and the set
\* points of now, and the ring buffer holds the blocks left before it, no
\* two neighbours alike.
THEOREM GridBlocksStayAHistory == ASSUME GridAssumption PROVE GridSpec => []GridBlocksAreAHistory
<1>1. GridInit => GridInv
  BY GridStarts
<1>2. GridInv /\ [GridNext]_unitVars => GridInv'
  BY GridStepKeepsInv
<1>3. GridInv => GridBlocksAreAHistory
  <2>1. CASE unit = "grid block"
    BY <2>1, BlockInvShowsHistory DEF GridInv
  <2>2. CASE unit # "grid block"
    BY <2>2 DEF GridBlocksAreAHistory, BlockIsCurrent, PreviousBlocksAreAHistory
  <2> QED BY <2>1, <2>2
<1> QED BY <1>1, <1>2, <1>3, PTL DEF GridSpec

-----------------------------------------------------------------------------
(* SetpointsAndSensors: the sensors.                                       *)

LEMMA ClampedFacts ==
    ASSUME NEW n \in Int, NEW low \in Int, NEW high \in Int, low <= high
    PROVE  /\ Clamped(n, low, high) \in low .. high
           /\ n \in low .. high => Clamped(n, low, high) = n
BY DEF Clamped, SmallerOf, LargerOf

\* A quotient lies between zero and the dividend.
LEMMA QuotientFacts ==
    ASSUME NEW a \in Int, NEW b \in Nat \ {0}
    PROVE  /\ Quotient(a, b) \in Int
           /\ a >= 0 => Quotient(a, b) \in 0 .. a
           /\ a <= 0 => Quotient(a, b) \in a .. 0
<1>1. ASSUME NEW n \in Nat
      PROVE  n \div b \in 0 .. n
  <2> DEFINE q == n \div b
  <2>1. q \in Int /\ n % b \in 0 .. b - 1 /\ n = b * q + (n % b)
    BY Z3
  <2> HIDE DEF q
  <2>2. q >= 0
    <3>1. ASSUME q < 0
          PROVE  FALSE
      <4>1. b * q <= b * (0 - 1)
        BY <2>1, <3>1, Z3
      <4>2. b * (0 - 1) = 0 - b /\ b * q \in Int
        BY <2>1, Z3
      <4> QED BY <2>1, <4>1, <4>2
    <3> QED BY <2>1, <3>1
  <2>3. b * q >= q
    BY <2>1, <2>2, Z3
  <2>4. b * q \in Int
    BY <2>1, Z3
  <2>5. q <= n
    BY <2>1, <2>3, <2>4
  <2>6. q \in 0 .. n
    BY <2>1, <2>2, <2>5
  <2> QED BY <2>6 DEF q
<1>2. CASE a >= 0
  BY <1>1, <1>2 DEF Quotient
<1>3. CASE ~(a >= 0)
  <2>1. -a \in Nat
    BY <1>3
  <2>2. (-a) \div b \in 0 .. -a
    BY <1>1, <2>1
  <2>3. Quotient(a, b) = -((-a) \div b)
    BY <1>3 DEF Quotient
  <2> QED BY <1>3, <2>2, <2>3
<1> QED BY <1>2, <1>3
(* A sensor: the run of its latest readings is what the counters say.      *)

SensorFields ==
    {"good", "bad", "valid", "average", "previous", "hasPrevious", "filtered", "discovered",
     "fault", "run", "slews", "checked", "external", "externalValid", "resolved",
     "resolvedValid"}

\* What the filters know.
Filtering(s) ==
    /\ DOMAIN s = SensorFields
    /\ s.good \in Nat /\ s.bad \in Nat /\ s.average \in Int /\ s.previous \in Int
    /\ s.valid \in BOOLEAN /\ s.hasPrevious \in BOOLEAN

\* The run of readings of one quality that ends with the latest one.
RunIsCounted(s) ==
    /\ DOMAIN s.run = {"good", "length"} /\ s.run.good \in BOOLEAN
    /\ s.valid /\ s.run.good => s.bad = 0
    /\ s.valid /\ ~s.run.good => s.run.length = s.bad /\ s.bad < BadMax
    /\ ~s.valid /\ s.run.good => s.run.length = s.good /\ s.good < GoodMax
    /\ ~s.valid /\ ~s.run.good => s.good = 0

Shown(s) ==
    /\ s.valid => s.hasPrevious /\ s.filtered = s.previous
    /\ ~s.valid => s.filtered = FallbackValue

Faulty(s) == s.discovered \in BOOLEAN /\ (s.fault <=> s.discovered /\ ~s.valid)

Resolving(s) == ~s.resolvedValid => ~s.valid /\ (s.checked => ~s.externalValid)

SensorInv(s) == Filtering(s) /\ RunIsCounted(s) /\ Shown(s) /\ Faulty(s) /\ Resolving(s)

LEMMA SensorNumbers ==
    ASSUME SetpointsAndSensorsAssumption
    PROVE  /\ GoodMax \in Nat \ {0} /\ BadMax \in Nat \ {0} /\ RunCap \in Nat
           /\ RunCap >= GoodMax /\ RunCap >= BadMax /\ SlewLimit \in Nat
           /\ Readings \subseteq Int
<1>1. GoodMax \in Nat \ {0} /\ BadMax \in Nat \ {0}
  BY DEF SetpointsAndSensorsAssumption
<1>2. /\ RunCap \in Nat /\ RunCap >= GoodMax /\ RunCap >= BadMax /\ SlewLimit \in Nat
      /\ Readings \subseteq Int
  BY ZenonT(120) DEF SetpointsAndSensorsAssumption
<1> QED BY <1>1, <1>2

\* What a reading does to the filters, and to what is counted.
LEMMA FeedCounts ==
    ASSUME SetpointsAndSensorsAssumption, NEW s, Filtering(s), NEW reading \in Readings
    PROVE  LET t == Feed(s, reading) IN
           /\ Filtering(t)
           /\ t.filtered = s.filtered /\ t.discovered = s.discovered /\ t.fault = s.fault
           /\ t.run = s.run /\ t.checked = s.checked /\ t.external = s.external
           /\ t.externalValid = s.externalValid /\ t.slews = s.slews
           /\ ValueIsValid(reading) /\ s.valid => t.valid /\ t.bad = 0
           /\ ValueIsValid(reading) /\ ~s.valid =>
                /\ s.good + 1 = GoodMax => t.valid /\ t.bad = 0
                /\ s.good + 1 # GoodMax => ~t.valid /\ t.good = s.good + 1
           /\ ~ValueIsValid(reading) => t.good = 0
           /\ ~ValueIsValid(reading) /\ s.valid =>
                /\ t.bad = s.bad + 1
                /\ t.valid <=> s.bad + 1 # BadMax
           /\ ~ValueIsValid(reading) /\ ~s.valid => ~t.valid
           /\ s.valid /\ t.valid => t.previous = s.previous /\ t.hasPrevious = s.hasPrevious
<1> DEFINE t == Feed(s, reading)
<1>0. reading \in Int
  BY SensorNumbers
<1>d. DOMAIN s = SensorFields
  BY DEF Filtering
<1>f. /\ s.good \in Nat /\ s.bad \in Nat /\ s.average \in Int /\ s.previous \in Int
      /\ s.valid \in BOOLEAN /\ s.hasPrevious \in BOOLEAN
  BY DEF Filtering
<1>1. CASE ValueIsValid(reading) /\ s.valid
  <2> DEFINE a == AverageFeed(s.average, reading)
  <2>1. t = [s EXCEPT !.bad = 0, !.average = a]
    BY <1>1 DEF Feed
  <2>2. a \in Int
    <3> DEFINE n == 255 * s.average + 255 * reading
               h == Quotient(n, 2)
    <3>1. n \in Int
      BY <1>0, <1>f
    <3> HIDE DEF n
    <3>2. h \in Int
      BY <3>1, QuotientFacts
    <3>3. a = Quotient(h, 255)
      BY DEF AverageFeed, n
    <3> HIDE DEF h
    <3>4. Quotient(h, 255) \in Int
      BY <3>2, QuotientFacts
    <3> QED BY <3>3, <3>4
  <2> HIDE DEF a, t
  <2>3. /\ DOMAIN t = SensorFields /\ t.bad = 0 /\ t.average = a
        /\ t.good = s.good /\ t.valid = s.valid /\ t.previous = s.previous
        /\ t.hasPrevious = s.hasPrevious
        /\ t.filtered = s.filtered /\ t.discovered = s.discovered /\ t.fault = s.fault
        /\ t.run = s.run /\ t.checked = s.checked /\ t.external = s.external
        /\ t.externalValid = s.externalValid /\ t.slews = s.slews
    BY <1>d, <2>1, SMTT(60) DEF SensorFields
  <2>4. Filtering(t)
    <3>1. 0 \in Nat
      OBVIOUS
    <3> QED BY <1>f, <2>2, <2>3, <3>1, ZenonT(120) DEF Filtering
  <2> QED BY <1>1, <2>3, <2>4, ZenonT(120) DEF t
<1>2. CASE ValueIsValid(reading) /\ ~s.valid /\ s.good + 1 = GoodMax
  <2> DEFINE r == WrappedSeed(s, reading)
             g == s.good + 1
  <2>1. t = [r EXCEPT !.bad = 0, !.good = r.good + 1, !.valid = TRUE]
    BY <1>2 DEF Feed
  <2>2. /\ DOMAIN r = SensorFields /\ r.good = s.good /\ r.average = reading
        /\ r.hasPrevious = FALSE /\ r.previous = s.previous
        /\ r.filtered = s.filtered /\ r.discovered = s.discovered /\ r.fault = s.fault
        /\ r.run = s.run /\ r.checked = s.checked /\ r.external = s.external
        /\ r.externalValid = s.externalValid /\ r.slews = s.slews
    BY <1>d, SMTT(60) DEF WrappedSeed, SensorFields
  <2> HIDE DEF r, t
  <2>3. t = [r EXCEPT !.bad = 0, !.good = g, !.valid = TRUE] /\ g \in Nat
    BY <1>f, <2>1, <2>2
  <2>d. DOMAIN r = SensorFields
    BY <2>2
  <2> HIDE DEF g
  <2>4. /\ DOMAIN t = SensorFields /\ t.bad = 0 /\ t.good = g /\ t.valid = TRUE
        /\ t.average = r.average /\ t.previous = r.previous /\ t.hasPrevious = r.hasPrevious
        /\ t.filtered = r.filtered /\ t.discovered = r.discovered /\ t.fault = r.fault
        /\ t.run = r.run /\ t.checked = r.checked /\ t.external = r.external
        /\ t.externalValid = r.externalValid /\ t.slews = r.slews
    BY <2>3, <2>d, SMTT(60) DEF SensorFields
  <2>5. Filtering(t)
    <3>1. 0 \in Nat
      OBVIOUS
    <3> QED BY <1>0, <1>f, <2>2, <2>3, <2>4, <3>1, ZenonT(120) DEF Filtering
  <2> QED BY <1>2, <2>2, <2>4, <2>5, ZenonT(120) DEF t
<1>3. CASE ValueIsValid(reading) /\ ~s.valid /\ s.good + 1 # GoodMax
  <2> DEFINE g == s.good + 1
  <2>1. t = [s EXCEPT !.bad = 0, !.good = g]
    BY <1>3 DEF Feed
  <2>2. g \in Nat
    BY <1>f
  <2> HIDE DEF g, t
  <2>3. /\ DOMAIN t = SensorFields /\ t.bad = 0 /\ t.good = g
        /\ t.average = s.average /\ t.valid = s.valid /\ t.previous = s.previous
        /\ t.hasPrevious = s.hasPrevious
        /\ t.filtered = s.filtered /\ t.discovered = s.discovered /\ t.fault = s.fault
        /\ t.run = s.run /\ t.checked = s.checked /\ t.external = s.external
        /\ t.externalValid = s.externalValid /\ t.slews = s.slews
    BY <1>d, <2>1, SMTT(60) DEF SensorFields
  <2>4. Filtering(t)
    <3>1. 0 \in Nat
      OBVIOUS
    <3> QED BY <1>f, <2>2, <2>3, <3>1, ZenonT(120) DEF Filtering
  <2> QED BY <1>3, <2>3, <2>4, ZenonT(120) DEF t, g
<1>4. CASE ~ValueIsValid(reading)
  <2> DEFINE b == IF s.valid THEN s.bad + 1 ELSE s.bad
             v == s.valid /\ s.bad + 1 # BadMax
  <2>1. t = [s EXCEPT !.good = 0, !.bad = b, !.valid = v]
    BY <1>4 DEF Feed
  <2>2. b \in Nat /\ v \in BOOLEAN
    BY <1>f
  <2>3. /\ s.valid => b = s.bad + 1
        /\ v <=> s.valid /\ s.bad + 1 # BadMax
    OBVIOUS
  <2> HIDE DEF b, v, t
  <2>4. /\ DOMAIN t = SensorFields /\ t.bad = b /\ t.good = 0 /\ t.valid = v
        /\ t.average = s.average /\ t.previous = s.previous
        /\ t.hasPrevious = s.hasPrevious
        /\ t.filtered = s.filtered /\ t.discovered = s.discovered /\ t.fault = s.fault
        /\ t.run = s.run /\ t.checked = s.checked /\ t.external = s.external
        /\ t.externalValid = s.externalValid /\ t.slews = s.slews
    BY <1>d, <2>1, SMTT(60) DEF SensorFields
  <2>5. Filtering(t)
    <3>1. 0 \in Nat
      OBVIOUS
    <3> QED BY <1>f, <2>2, <2>4, <3>1, ZenonT(120) DEF Filtering
  <2> QED BY <1>4, <2>3, <2>4, <2>5, ZenonT(120) DEF t
<1> QED BY <1>1, <1>2, <1>3, <1>4, ZenonT(120)

\* What is shown of a good sensor is the value of the filters, which a slew
\* filter moves no further than its limit from the value shown before.
LEMMA UpdateShows ==
    ASSUME SetpointsAndSensorsAssumption, NEW s, Filtering(s)
    PROVE  LET t == UpdateFiltered(s) IN
           /\ Filtering(t) /\ Shown(t)
           /\ t.good = s.good /\ t.bad = s.bad /\ t.valid = s.valid
           /\ t.discovered = s.discovered /\ t.fault = s.fault
           /\ t.run = s.run /\ t.checked = s.checked /\ t.external = s.external
           /\ t.externalValid = s.externalValid
           /\ s.slews /\ s.valid /\ s.hasPrevious =>
                t.filtered \in s.previous - SlewLimit .. s.previous + SlewLimit
<1> DEFINE t == UpdateFiltered(s)
<1>d. DOMAIN s = SensorFields
  BY DEF Filtering
<1>f. /\ s.good \in Nat /\ s.bad \in Nat /\ s.average \in Int /\ s.previous \in Int
      /\ s.valid \in BOOLEAN /\ s.hasPrevious \in BOOLEAN
  BY DEF Filtering
<1>n. SlewLimit \in Nat
  BY SensorNumbers
<1>1. CASE s.valid
  <2> DEFINE x == SlewRead(s)
  <2>1. t = [s EXCEPT !.filtered = x, !.previous = x, !.hasPrevious = TRUE]
    BY <1>1 DEF UpdateFiltered
  <2>2. /\ x \in Int
        /\ s.slews /\ s.hasPrevious => x \in s.previous - SlewLimit .. s.previous + SlewLimit
    <3>1. CASE ~s.slews \/ ~s.hasPrevious
      <4>1. x = s.average
        BY <3>1, ZenonT(120) DEF SlewRead
      <4> HIDE DEF x
      <4> QED BY <1>f, <3>1, <4>1, ZenonT(120)
    <3>2. CASE s.slews /\ s.hasPrevious
      <4> DEFINE l == s.previous - SlewLimit
                 h == s.previous + SlewLimit
      <4>1. l \in Int /\ h \in Int /\ l <= h
        BY <1>f, <1>n
      <4>2. x = Clamped(s.average, l, h)
        BY <3>2, ZenonT(120) DEF SlewRead
      <4> HIDE DEF l, h
      <4>3. x \in l .. h
        <5>1. s.average \in Int
          BY <1>f
        <5>2. Clamped(s.average, l, h) \in l .. h
          BY <4>1, <5>1, ClampedFacts
        <5> QED BY <4>2, <5>2, ZenonT(120)
      <4>4. x \in Int
        BY <4>1, <4>3
      <4> QED BY <4>3, <4>4 DEF l, h
    <3> QED BY <3>1, <3>2, ZenonT(120)
  <2> HIDE DEF x, t
  <2>3. /\ DOMAIN t = SensorFields /\ t.filtered = x /\ t.previous = x /\ t.hasPrevious = TRUE
        /\ t.good = s.good /\ t.bad = s.bad /\ t.valid = s.valid /\ t.average = s.average
        /\ t.discovered = s.discovered /\ t.fault = s.fault
        /\ t.run = s.run /\ t.checked = s.checked /\ t.external = s.external
        /\ t.externalValid = s.externalValid
    BY <1>d, <2>1, SMTT(60) DEF SensorFields
  <2>4. Filtering(t)
    BY <1>f, <2>2, <2>3, ZenonT(120) DEF Filtering
  <2>5. Shown(t)
    BY <1>1, <2>3, ZenonT(120) DEF Shown
  <2> QED BY <1>1, <2>2, <2>3, <2>4, <2>5, ZenonT(120) DEF t
<1>2. CASE ~s.valid
  <2>1. t = [s EXCEPT !.filtered = FallbackValue]
    BY <1>2 DEF UpdateFiltered
  <2> HIDE DEF t
  <2>3. /\ DOMAIN t = SensorFields /\ t.filtered = FallbackValue /\ t.previous = s.previous
        /\ t.hasPrevious = s.hasPrevious
        /\ t.good = s.good /\ t.bad = s.bad /\ t.valid = s.valid /\ t.average = s.average
        /\ t.discovered = s.discovered /\ t.fault = s.fault
        /\ t.run = s.run /\ t.checked = s.checked /\ t.external = s.external
        /\ t.externalValid = s.externalValid
    BY <1>d, <2>1, SMTT(60) DEF SensorFields
  <2>4. Filtering(t)
    BY <1>f, <2>3, ZenonT(120) DEF Filtering
  <2>5. Shown(t)
    BY <1>2, <2>3, ZenonT(120) DEF Shown
  <2> QED BY <1>2, <2>3, <2>4, <2>5, ZenonT(120) DEF t
<1> QED BY <1>1, <1>2

\* The resolver writes its own two values only, and those as it should.
LEMMA ResolverResolves ==
    ASSUME NEW s, Filtering(s)
    PROVE  LET t == UpdateResolvedSensorErds(s) IN
           /\ Filtering(t) /\ Resolving(t)
           /\ t.good = s.good /\ t.bad = s.bad /\ t.valid = s.valid
           /\ t.hasPrevious = s.hasPrevious /\ t.previous = s.previous
           /\ t.filtered = s.filtered /\ t.discovered = s.discovered /\ t.fault = s.fault
           /\ t.run = s.run
<1> DEFINE t == UpdateResolvedSensorErds(s)
<1>d. DOMAIN s = SensorFields
  BY DEF Filtering
<1>f. /\ s.good \in Nat /\ s.bad \in Nat /\ s.average \in Int /\ s.previous \in Int
      /\ s.valid \in BOOLEAN /\ s.hasPrevious \in BOOLEAN
  BY DEF Filtering
<1>1. CASE s.checked /\ ~s.valid /\ s.externalValid
  <2>1. t = [s EXCEPT !.resolved = s.external, !.resolvedValid = TRUE]
    BY <1>1 DEF UpdateResolvedSensorErds
  <2> HIDE DEF t
  <2>2. /\ DOMAIN t = SensorFields /\ t.resolvedValid = TRUE
        /\ t.good = s.good /\ t.bad = s.bad /\ t.valid = s.valid /\ t.average = s.average
        /\ t.hasPrevious = s.hasPrevious /\ t.previous = s.previous
        /\ t.filtered = s.filtered /\ t.discovered = s.discovered /\ t.fault = s.fault
        /\ t.run = s.run
    BY <1>d, <2>1, SMTT(60) DEF SensorFields
  <2> QED BY <1>f, <2>2, ZenonT(120) DEF Filtering, Resolving, t
<1>2. CASE ~(s.checked /\ ~s.valid /\ s.externalValid)
  <2>1. t = [s EXCEPT !.resolved = s.filtered, !.resolvedValid = s.valid]
    BY <1>2, ZenonT(120) DEF UpdateResolvedSensorErds
  <2> HIDE DEF t
  <2>2. /\ DOMAIN t = SensorFields /\ t.resolvedValid = s.valid
        /\ t.good = s.good /\ t.bad = s.bad /\ t.valid = s.valid /\ t.average = s.average
        /\ t.hasPrevious = s.hasPrevious /\ t.previous = s.previous
        /\ t.filtered = s.filtered /\ t.discovered = s.discovered /\ t.fault = s.fault
        /\ t.run = s.run /\ t.checked = s.checked /\ t.externalValid = s.externalValid
    BY <1>d, <2>1, SMTT(60) DEF SensorFields
  <2>3. Filtering(t)
    BY <1>f, <2>2, ZenonT(120) DEF Filtering
  <2>4. Resolving(t)
    BY <1>2, <1>f, <2>2, ZenonT(120) DEF Resolving
  <2> QED BY <2>2, <2>3, <2>4, ZenonT(120) DEF t
<1> QED BY <1>1, <1>2

\* What a step of the sensor may do to its validity and its temperature.
TurnsInTime(s, t) ==
    /\ s.valid /\ ~t.valid => t.run.length >= BadMax /\ ~t.run.good
    /\ ~s.valid /\ t.valid => t.run.length >= GoodMax /\ t.run.good
    /\ s.slews /\ s.valid /\ t.valid =>
         t.filtered \in s.filtered - SlewLimit .. s.filtered + SlewLimit

\* The run of readings after one more of them.
LEMMA RunGrows ==
    ASSUME NEW run, DOMAIN run = {"good", "length"}, run.good \in BOOLEAN, NEW good \in BOOLEAN
    PROVE  LET q == RunAfter(run, good) IN
           /\ DOMAIN q = {"good", "length"} /\ q.good = good
           /\ run.good = good => q.length = SmallerOf(run.length + 1, RunCap)
           /\ run.good # good => q.length = 1
<1> DEFINE n == SmallerOf(run.length + 1, RunCap)
           q == RunAfter(run, good)
<1> HIDE DEF n
<1>1. CASE run.good = good
  <2>1. q = [run EXCEPT !.length = n]
    BY <1>1 DEF RunAfter, n
  <2> HIDE DEF q
  <2>2. DOMAIN q = {"good", "length"} /\ q.good = run.good /\ q.length = n
    BY <2>1, SMTT(60)
  <2> QED BY <1>1, <2>2, ZenonT(120) DEF q, n
<1>2. CASE run.good # good
  <2>1. q = [good |-> good, length |-> 1]
    BY <1>2 DEF RunAfter
  <2> HIDE DEF q
  <2>2. DOMAIN q = {"good", "length"} /\ q.good = good /\ q.length = 1
    BY <2>1, SMTT(60)
  <2> QED BY <1>2, <2>2, ZenonT(120) DEF q, n
<1> QED BY <1>1, <1>2

LEMMA ReadingStep ==
    ASSUME SetpointsAndSensorsAssumption, SensorInv(st), UpdateSensorValues
    PROVE  SensorInv(st') /\ TurnsInTime(st, st')
<1>0. Filtering(st) /\ RunIsCounted(st) /\ Shown(st) /\ Faulty(st) /\ Resolving(st)
  BY ZenonT(120) DEF SensorInv
<1>1. PICK reading \in Readings :
         LET s == UpdateFiltered(Feed(st, reading))
             t == [s EXCEPT !.discovered = s.discovered \/ s.valid,
                            !.run = RunAfter(s.run, ValueIsValid(reading))]
         IN  st' = UpdateResolvedSensorErds(
                     [t EXCEPT !.fault = IF t.discovered THEN ~t.valid ELSE t.fault])
  BY ZenonT(120) DEF UpdateSensorValues
<1> DEFINE good == ValueIsValid(reading)
           f == Feed(st, reading)
           s == UpdateFiltered(f)
           d == s.discovered \/ s.valid
           q == RunAfter(s.run, good)
           t == [s EXCEPT !.discovered = d, !.run = q]
           e == IF t.discovered THEN ~t.valid ELSE t.fault
           u == [t EXCEPT !.fault = e]
<1>2. st' = UpdateResolvedSensorErds(u)
  BY <1>1
<1>3. good \in BOOLEAN
  BY DEF ValueIsValid
<1>4. /\ Filtering(f)
      /\ f.filtered = st.filtered /\ f.discovered = st.discovered /\ f.fault = st.fault
      /\ f.run = st.run /\ f.slews = st.slews
      /\ good /\ st.valid => f.valid /\ f.bad = 0
      /\ good /\ ~st.valid =>
           /\ st.good + 1 = GoodMax => f.valid /\ f.bad = 0
           /\ st.good + 1 # GoodMax => ~f.valid /\ f.good = st.good + 1
      /\ ~good => f.good = 0
      /\ ~good /\ st.valid =>
           /\ f.bad = st.bad + 1
           /\ f.valid <=> st.bad + 1 # BadMax
      /\ ~good /\ ~st.valid => ~f.valid
      /\ st.valid /\ f.valid => f.previous = st.previous /\ f.hasPrevious = st.hasPrevious
  BY <1>0, FeedCounts, ZenonT(120)
<1> HIDE DEF f
<1>5. /\ Filtering(s) /\ Shown(s)
      /\ s.good = f.good /\ s.bad = f.bad /\ s.valid = f.valid
      /\ s.discovered = f.discovered /\ s.fault = f.fault /\ s.run = f.run
      /\ f.slews /\ f.valid /\ f.hasPrevious =>
           s.filtered \in f.previous - SlewLimit .. f.previous + SlewLimit
  BY <1>4, UpdateShows, ZenonT(120)
<1> HIDE DEF s
<1>6. DOMAIN st.run = {"good", "length"} /\ st.run.good \in BOOLEAN
  BY <1>0, ZenonT(120) DEF RunIsCounted
<1>7. DOMAIN s.run = {"good", "length"} /\ s.run.good \in BOOLEAN
  BY <1>4, <1>5, <1>6, ZenonT(120)
<1> HIDE DEF good
<1>8. /\ DOMAIN q = {"good", "length"} /\ q.good = good
      /\ s.run.good = good => q.length = SmallerOf(s.run.length + 1, RunCap)
      /\ s.run.good # good => q.length = 1
  <2> DEFINE y == s.run
  <2>1. DOMAIN y = {"good", "length"} /\ y.good \in BOOLEAN
    BY <1>7
  <2> HIDE DEF y
  <2>2. LET z == RunAfter(y, good) IN
        /\ DOMAIN z = {"good", "length"} /\ z.good = good
        /\ y.good = good => z.length = SmallerOf(y.length + 1, RunCap)
        /\ y.good # good => z.length = 1
    BY <1>3, <2>1, RunGrows, ZenonT(120)
  <2> QED BY <2>2, ZenonT(120) DEF y
<1> HIDE DEF q
<1>9. d \in BOOLEAN
  OBVIOUS
<1>d. DOMAIN s = SensorFields
  BY <1>5, ZenonT(120) DEF Filtering
<1>v. s.valid \in BOOLEAN /\ st.valid \in BOOLEAN
  BY <1>0, <1>5, ZenonT(120) DEF Filtering
<1>10. /\ s.discovered => d
       /\ d => s.discovered \/ s.valid
       /\ s.valid => d
  OBVIOUS
<1> HIDE DEF d
<1>11. /\ DOMAIN t = SensorFields /\ t.discovered = d /\ t.run = q
       /\ t.good = s.good /\ t.bad = s.bad /\ t.valid = s.valid /\ t.average = s.average
       /\ t.previous = s.previous /\ t.hasPrevious = s.hasPrevious
       /\ t.filtered = s.filtered /\ t.fault = s.fault
  BY <1>d, SMTT(60) DEF SensorFields
<1> HIDE DEF t
<1>12. /\ d => e = ~s.valid
       /\ ~d => e = st.fault
  BY <1>4, <1>5, <1>11, ZenonT(120)
<1> HIDE DEF e
<1>e. DOMAIN t = SensorFields
  BY <1>11
<1>13. /\ DOMAIN u = SensorFields /\ u.discovered = d /\ u.run = q /\ u.fault = e
       /\ u.good = s.good /\ u.bad = s.bad /\ u.valid = s.valid /\ u.average = s.average
       /\ u.previous = s.previous /\ u.hasPrevious = s.hasPrevious
       /\ u.filtered = s.filtered
  <2>1. /\ DOMAIN u = SensorFields /\ u.discovered = t.discovered /\ u.run = t.run /\ u.fault = e
        /\ u.good = t.good /\ u.bad = t.bad /\ u.valid = t.valid /\ u.average = t.average
        /\ u.previous = t.previous /\ u.hasPrevious = t.hasPrevious
        /\ u.filtered = t.filtered
    BY <1>e, SMTT(60) DEF SensorFields
  <2> HIDE DEF u
  <2> QED BY <1>11, <2>1, ZenonT(120)
<1> HIDE DEF u
<1>14. Filtering(u)
  BY <1>5, <1>13, ZenonT(120) DEF Filtering
<1>15. /\ Filtering(st') /\ Resolving(st')
       /\ st'.good = s.good /\ st'.bad = s.bad /\ st'.valid = s.valid
       /\ st'.hasPrevious = s.hasPrevious /\ st'.previous = s.previous
       /\ st'.filtered = s.filtered /\ st'.discovered = d /\ st'.fault = e
       /\ st'.run = q
  <2>1. /\ Filtering(st') /\ Resolving(st')
        /\ st'.good = u.good /\ st'.bad = u.bad /\ st'.valid = u.valid
        /\ st'.hasPrevious = u.hasPrevious /\ st'.previous = u.previous
        /\ st'.filtered = u.filtered /\ st'.discovered = u.discovered /\ st'.fault = u.fault
        /\ st'.run = u.run
    BY <1>2, <1>14, ResolverResolves, ZenonT(120)
  <2> QED BY <1>13, <2>1, ZenonT(120)
<1>16. Shown(st')
  BY <1>5, <1>15, ZenonT(120) DEF Shown
<1>17. Faulty(st')
  <2>1. CASE d
    BY <1>9, <1>12, <1>15, <1>v, <2>1, ZenonT(120) DEF Faulty
  <2>2. CASE ~d
    <3>1. ~st.discovered
      BY <1>4, <1>5, <1>10, <2>2, ZenonT(120)
    <3>2. ~st.fault
      BY <1>0, <3>1, ZenonT(120) DEF Faulty
    <3> QED BY <1>9, <1>12, <1>15, <2>2, <3>2, ZenonT(120) DEF Faulty
  <2> QED BY <2>1, <2>2
<1>18. /\ RunIsCounted(st')
       /\ st.valid /\ ~s.valid => q.length >= BadMax /\ ~q.good
       /\ ~st.valid /\ s.valid => q.length >= GoodMax /\ q.good
  <2> DEFINE n == st.run.length
             g == st.good
             b == st.bad
  <2>0. /\ g \in Nat /\ b \in Nat /\ GoodMax \in Nat \ {0} /\ BadMax \in Nat \ {0}
        /\ RunCap \in Nat /\ RunCap >= GoodMax /\ RunCap >= BadMax
    <3>1. g \in Nat /\ b \in Nat
      BY <1>0, ZenonT(120) DEF Filtering
    <3>2. /\ GoodMax \in Nat \ {0} /\ BadMax \in Nat \ {0}
          /\ RunCap \in Nat /\ RunCap >= GoodMax /\ RunCap >= BadMax
      BY SensorNumbers
    <3> QED BY <3>1, <3>2, ZenonT(120)
  <2>1. /\ st.valid /\ st.run.good => b = 0
        /\ st.valid /\ ~st.run.good => n = b /\ b < BadMax
        /\ ~st.valid /\ st.run.good => n = g /\ g < GoodMax
        /\ ~st.valid /\ ~st.run.good => g = 0
    BY <1>0, ZenonT(120) DEF RunIsCounted
  <2>2. /\ st.run.good = good => q.length = SmallerOf(n + 1, RunCap)
        /\ st.run.good # good => q.length = 1
    BY <1>4, <1>5, <1>8, ZenonT(120)
  <2>3. /\ good /\ st.valid => s.valid /\ s.bad = 0
        /\ good /\ ~st.valid /\ g + 1 = GoodMax => s.valid /\ s.bad = 0
        /\ good /\ ~st.valid /\ g + 1 # GoodMax => ~s.valid /\ s.good = g + 1
        /\ ~good => s.good = 0
        /\ ~good /\ st.valid => s.bad = b + 1
        /\ ~good /\ st.valid => (s.valid <=> b + 1 # BadMax)
        /\ ~good /\ ~st.valid => ~s.valid
    BY <1>4, <1>5, ZenonT(120)
  <2> HIDE DEF n, g, b
  <2>4. q.good = good /\ DOMAIN q = {"good", "length"}
    BY <1>8
  <2>5. CASE good /\ st.valid
    BY <1>3, <1>15, <2>3, <2>4, <2>5, ZenonT(120) DEF RunIsCounted
  <2>6. CASE good /\ ~st.valid /\ g + 1 = GoodMax
    <3>1. q.length >= GoodMax
      <4>1. CASE st.run.good
        <5>1. q.length = SmallerOf(g + 1, RunCap)
          BY <1>3, <1>6, <2>1, <2>2, <2>6, <4>1, ZenonT(120)
        <5> QED BY <2>0, <2>6, <5>1 DEF SmallerOf
      <4>2. CASE ~st.run.good
        <5>1. q.length = 1 /\ g = 0
          BY <1>3, <1>6, <2>1, <2>2, <2>6, <4>2, ZenonT(120)
        <5> QED BY <2>0, <2>6, <5>1
      <4> QED BY <4>1, <4>2
    <3> QED BY <1>3, <1>15, <2>3, <2>4, <2>6, <3>1, ZenonT(120) DEF RunIsCounted
  <2>7. CASE good /\ ~st.valid /\ g + 1 # GoodMax
    <3>1. q.length = g + 1 /\ g + 1 < GoodMax
      <4>1. CASE st.run.good
        <5>1. q.length = SmallerOf(g + 1, RunCap) /\ g < GoodMax
          BY <1>3, <1>6, <2>1, <2>2, <2>7, <4>1, ZenonT(120)
        <5> QED BY <2>0, <2>7, <5>1 DEF SmallerOf
      <4>2. CASE ~st.run.good
        <5>1. q.length = 1 /\ g = 0
          BY <1>3, <1>6, <2>1, <2>2, <2>7, <4>2, ZenonT(120)
        <5> QED BY <2>0, <2>7, <5>1
      <4> QED BY <4>1, <4>2
    <3> QED BY <1>3, <1>15, <2>3, <2>4, <2>7, <3>1, ZenonT(120) DEF RunIsCounted
  <2>8. CASE ~good /\ st.valid
    <3>1. CASE b + 1 = BadMax
      <4>1. q.length >= BadMax
        <5>1. CASE st.run.good
          <6>1. q.length = 1 /\ b = 0
            BY <1>3, <1>6, <2>1, <2>2, <2>8, <5>1, ZenonT(120)
          <6> QED BY <2>0, <3>1, <6>1
        <5>2. CASE ~st.run.good
          <6>1. q.length = SmallerOf(b + 1, RunCap)
            BY <1>3, <1>6, <2>1, <2>2, <2>8, <5>2, ZenonT(120)
          <6> QED BY <2>0, <3>1, <6>1 DEF SmallerOf
        <5> QED BY <5>1, <5>2
      <4> QED BY <1>3, <1>15, <2>3, <2>4, <2>8, <3>1, <4>1, ZenonT(120) DEF RunIsCounted
    <3>2. CASE b + 1 # BadMax
      <4>1. q.length = b + 1 /\ b + 1 < BadMax
        <5>1. CASE st.run.good
          <6>1. q.length = 1 /\ b = 0
            BY <1>3, <1>6, <2>1, <2>2, <2>8, <5>1, ZenonT(120)
          <6> QED BY <2>0, <3>2, <6>1
        <5>2. CASE ~st.run.good
          <6>1. q.length = SmallerOf(b + 1, RunCap) /\ b < BadMax
            BY <1>3, <1>6, <2>1, <2>2, <2>8, <5>2, ZenonT(120)
          <6> QED BY <2>0, <3>2, <6>1 DEF SmallerOf
        <5> QED BY <5>1, <5>2
      <4> QED BY <1>3, <1>15, <2>3, <2>4, <2>8, <3>2, <4>1, ZenonT(120) DEF RunIsCounted
    <3> QED BY <3>1, <3>2
  <2>9. CASE ~good /\ ~st.valid
    BY <1>3, <1>15, <2>3, <2>4, <2>9, ZenonT(120) DEF RunIsCounted
  <2> QED BY <1>v, <1>3, <2>5, <2>6, <2>7, <2>8, <2>9, ZenonT(120)
<1>19. st.slews /\ st.valid /\ s.valid =>
         st'.filtered \in st.filtered - SlewLimit .. st.filtered + SlewLimit
  <2>1. SUFFICES ASSUME st.slews, st.valid, s.valid
                 PROVE  st'.filtered \in st.filtered - SlewLimit .. st.filtered + SlewLimit
    BY ZenonT(120)
  <2>2. st.hasPrevious /\ st.filtered = st.previous
    BY <1>0, <2>1, ZenonT(120) DEF Shown
  <2>3. f.slews /\ f.valid /\ f.hasPrevious /\ f.previous = st.filtered
    BY <1>4, <1>5, <2>1, <2>2, ZenonT(120)
  <2> QED BY <1>5, <1>15, <2>3, ZenonT(120)
<1> QED BY <1>15, <1>16, <1>17, <1>18, <1>19, ZenonT(120) DEF SensorInv, TurnsInTime

\* The value that comes from outside changes what is resolved, and no more.
LEMMA ExternalStep ==
    ASSUME SetpointsAndSensorsAssumption, SensorInv(st), ExternalSensorChanges
    PROVE  SensorInv(st') /\ TurnsInTime(st, st')
<1>0. Filtering(st) /\ RunIsCounted(st) /\ Shown(st) /\ Faulty(st) /\ Resolving(st)
  BY ZenonT(120) DEF SensorInv
<1>d. DOMAIN st = SensorFields
  BY <1>0, ZenonT(120) DEF Filtering
<1>1. PICK value \in {0, 100}, valid \in BOOLEAN :
        st' = UpdateResolvedSensorErds([st EXCEPT !.external = value, !.externalValid = valid])
  BY ZenonT(120) DEF ExternalSensorChanges
<1> DEFINE u == [st EXCEPT !.external = value, !.externalValid = valid]
<1>2. st' = UpdateResolvedSensorErds(u)
  BY <1>1
<1>3. /\ DOMAIN u = SensorFields /\ u.discovered = st.discovered /\ u.run = st.run
      /\ u.fault = st.fault
      /\ u.good = st.good /\ u.bad = st.bad /\ u.valid = st.valid /\ u.average = st.average
      /\ u.previous = st.previous /\ u.hasPrevious = st.hasPrevious
      /\ u.filtered = st.filtered
  BY <1>d, SMTT(60) DEF SensorFields
<1> HIDE DEF u
<1>4. Filtering(u)
  BY <1>0, <1>3, ZenonT(120) DEF Filtering
<1>5. /\ Filtering(st') /\ Resolving(st')
      /\ st'.good = st.good /\ st'.bad = st.bad /\ st'.valid = st.valid
      /\ st'.hasPrevious = st.hasPrevious /\ st'.previous = st.previous
      /\ st'.filtered = st.filtered /\ st'.discovered = st.discovered /\ st'.fault = st.fault
      /\ st'.run = st.run
  <2>1. /\ Filtering(st') /\ Resolving(st')
        /\ st'.good = u.good /\ st'.bad = u.bad /\ st'.valid = u.valid
        /\ st'.hasPrevious = u.hasPrevious /\ st'.previous = u.previous
        /\ st'.filtered = u.filtered /\ st'.discovered = u.discovered /\ st'.fault = u.fault
        /\ st'.run = u.run
    BY <1>2, <1>4, ResolverResolves, ZenonT(120)
  <2> QED BY <1>3, <2>1, ZenonT(120)
<1>6. RunIsCounted(st') /\ Shown(st') /\ Faulty(st')
  BY <1>0, <1>5, ZenonT(120) DEF RunIsCounted, Shown, Faulty
<1>7. TurnsInTime(st, st')
  <2>1. st.valid => st.filtered \in st.filtered - SlewLimit .. st.filtered + SlewLimit
    <3>1. SUFFICES ASSUME st.valid
                   PROVE  st.filtered \in st.filtered - SlewLimit .. st.filtered + SlewLimit
      OBVIOUS
    <3>2. st.filtered \in Int
      BY <1>0, <3>1, ZenonT(120) DEF Shown, Filtering
    <3>3. SlewLimit \in Nat
      BY SensorNumbers
    <3> QED BY <3>2, <3>3
  <2> QED BY <1>5, <2>1, ZenonT(120) DEF TurnsInTime
<1> QED BY <1>5, <1>6, <1>7, ZenonT(120) DEF SensorInv

LEMMA SensorStartsWell ==
    ASSUME SetpointsAndSensorsAssumption, SensorInit
    PROVE  SensorInv(st)
<1>1. PICK reading \in Readings, mapped \in BOOLEAN, discoverable \in BOOLEAN,
           checked \in BOOLEAN, slews \in BOOLEAN :
         LET valid == ValueIsValid(reading)
             known == valid \/ (mapped /\ ~discoverable)
         IN  st = UpdateResolvedSensorErds(UpdateFiltered(
               [good |-> 0, bad |-> 0, valid |-> valid, average |-> reading, previous |-> 0,
                hasPrevious |-> FALSE, filtered |-> 0, discovered |-> known,
                fault |-> known /\ ~valid,
                run |-> [good |-> valid, length |-> IF valid THEN GoodMax ELSE BadMax],
                slews |-> slews, checked |-> checked, external |-> 0, externalValid |-> FALSE,
                resolved |-> 0, resolvedValid |-> FALSE]))
  BY ZenonT(120) DEF SensorInit
<1> DEFINE valid == ValueIsValid(reading)
           known == valid \/ (mapped /\ ~discoverable)
           fault == known /\ ~valid
           length == IF valid THEN GoodMax ELSE BadMax
           run == [good |-> valid, length |-> length]
           r == [good |-> 0, bad |-> 0, valid |-> valid, average |-> reading, previous |-> 0,
                 hasPrevious |-> FALSE, filtered |-> 0, discovered |-> known, fault |-> fault,
                 run |-> run, slews |-> slews, checked |-> checked, external |-> 0,
                 externalValid |-> FALSE, resolved |-> 0, resolvedValid |-> FALSE]
           u == UpdateFiltered(r)
<1>2. st = UpdateResolvedSensorErds(u)
  BY <1>1
<1>3. reading \in Int
  BY SensorNumbers
<1>4. valid \in BOOLEAN /\ known \in BOOLEAN /\ (fault <=> known /\ ~valid)
  BY DEF ValueIsValid
<1>5. DOMAIN run = {"good", "length"} /\ run.good = valid
  OBVIOUS
<1> HIDE DEF valid, known, fault, run
<1>6. /\ DOMAIN r = SensorFields /\ r.good = 0 /\ r.bad = 0 /\ r.valid = valid
      /\ r.average = reading /\ r.previous = 0 /\ r.hasPrevious = FALSE
      /\ r.discovered = known /\ r.fault = fault /\ r.run = run
  BY SMTT(60) DEF SensorFields
<1> HIDE DEF r
<1>7. Filtering(r)
  <2>1. 0 \in Nat /\ 0 \in Int
    OBVIOUS
  <2> QED BY <1>3, <1>4, <1>6, <2>1, ZenonT(120) DEF Filtering
<1>8. /\ Filtering(u) /\ Shown(u)
      /\ u.good = 0 /\ u.bad = 0 /\ u.valid = valid
      /\ u.discovered = known /\ u.fault = fault /\ u.run = run
  <2>1. /\ Filtering(u) /\ Shown(u)
        /\ u.good = r.good /\ u.bad = r.bad /\ u.valid = r.valid
        /\ u.discovered = r.discovered /\ u.fault = r.fault /\ u.run = r.run
    BY <1>7, UpdateShows, ZenonT(120)
  <2> QED BY <1>6, <2>1, ZenonT(120)
<1> HIDE DEF u
<1>9. /\ Filtering(st) /\ Resolving(st)
      /\ st.good = 0 /\ st.bad = 0 /\ st.valid = valid
      /\ st.hasPrevious = u.hasPrevious /\ st.previous = u.previous
      /\ st.filtered = u.filtered /\ st.discovered = known /\ st.fault = fault
      /\ st.run = run
  <2>1. /\ Filtering(st) /\ Resolving(st)
        /\ st.good = u.good /\ st.bad = u.bad /\ st.valid = u.valid
        /\ st.hasPrevious = u.hasPrevious /\ st.previous = u.previous
        /\ st.filtered = u.filtered /\ st.discovered = u.discovered /\ st.fault = u.fault
        /\ st.run = u.run
    BY <1>2, <1>8, ResolverResolves, ZenonT(120)
  <2> QED BY <1>8, <2>1, ZenonT(120)
<1>10. Shown(st)
  BY <1>8, <1>9, ZenonT(120) DEF Shown
<1>11. Faulty(st)
  BY <1>4, <1>9, ZenonT(120) DEF Faulty
<1>12. RunIsCounted(st)
  BY <1>4, <1>5, <1>9, ZenonT(120) DEF RunIsCounted
<1> QED BY <1>9, <1>10, <1>11, <1>12, ZenonT(120) DEF SensorInv

LEMMA SensorInvSuffices ==
    ASSUME SetpointsAndSensorsAssumption, SensorInv(st)
    PROVE  /\ ~st.valid => st.filtered = FallbackValue
           /\ st.run.good /\ st.run.length >= GoodMax => st.valid
           /\ ~st.run.good /\ st.run.length >= BadMax => ~st.valid
           /\ st.fault <=> st.discovered /\ ~st.valid
           /\ ~st.resolvedValid => ~st.valid /\ (st.checked => ~st.externalValid)
<1>1. Filtering(st) /\ RunIsCounted(st) /\ Shown(st) /\ Faulty(st) /\ Resolving(st)
  BY ZenonT(120) DEF SensorInv
<1>2. GoodMax \in Nat /\ BadMax \in Nat /\ st.good \in Nat /\ st.bad \in Nat
  BY <1>1, SensorNumbers DEF Filtering
<1>3. ASSUME st.run.good, st.run.length >= GoodMax
      PROVE  st.valid
  <2>1. ~st.valid => st.run.length = st.good /\ st.good < GoodMax
    BY <1>1, <1>3, ZenonT(120) DEF RunIsCounted
  <2> QED BY <1>2, <1>3, <2>1
<1>4. ASSUME ~st.run.good, st.run.length >= BadMax
      PROVE  ~st.valid
  <2>1. st.valid => st.run.length = st.bad /\ st.bad < BadMax
    BY <1>1, <1>4, ZenonT(120) DEF RunIsCounted
  <2> QED BY <1>2, <1>4, <2>1
<1>5. /\ ~st.valid => st.filtered = FallbackValue
      /\ st.fault <=> st.discovered /\ ~st.valid
      /\ ~st.resolvedValid => ~st.valid /\ (st.checked => ~st.externalValid)
  BY <1>1, ZenonT(120) DEF Shown, Faulty, Resolving
<1> QED BY <1>3, <1>4, <1>5, ZenonT(120)

\* The sensors of SetpointsAndSensors by themselves.
SetpointsAndSensorsSpec == SetpointsAndSensorsInit /\ [][SetpointsAndSensorsNext]_unitVars

SensorUnitInv == unit = "sensor" => SensorInv(st)

LEMMA SensorUnitStarts ==
    ASSUME SetpointsAndSensorsInit
    PROVE  SensorUnitInv
<1> SUFFICES ASSUME unit = "sensor" PROVE SensorInv(st)
  BY DEF SensorUnitInv
<1>1. SensorInit
  BY ZenonT(120) DEF SetpointsAndSensorsInit, SetpointInit, ShiftInit, AveragesInit
<1> QED BY <1>1, SetpointsAndSensorsAssumption, SensorStartsWell, ZenonT(120)

\* A step while the sensor is the unit is a step of the sensor.
LEMMA SensorUnitStep ==
    ASSUME SensorUnitInv, [SetpointsAndSensorsNext]_unitVars
    PROVE  SensorUnitInv' /\ (unit = "sensor" => UNCHANGED unitVars \/ TurnsInTime(st, st'))
<1>1. CASE UNCHANGED unitVars
  BY <1>1 DEF unitVars, SensorUnitInv
<1>2. CASE SetpointsAndSensorsNext /\ (UpdateSensorValues \/ ExternalSensorChanges)
  <2>1. unit = "sensor"
    BY <1>2, ZenonT(120) DEF UpdateSensorValues, ExternalSensorChanges, Runs
  <2>2. SensorInv(st)
    BY <2>1 DEF SensorUnitInv
  <2>3. SensorInv(st') /\ TurnsInTime(st, st')
    BY <1>2, <2>2, SetpointsAndSensorsAssumption, ReadingStep, ExternalStep, ZenonT(120)
  <2> QED BY <2>3, ZenonT(120) DEF SensorUnitInv
<1>3. CASE SetpointsAndSensorsNext /\ ~(UpdateSensorValues \/ ExternalSensorChanges)
  <2>1. unit # "sensor" /\ unit' = unit
    BY <1>3, ZenonT(120)
       DEF SetpointsAndSensorsNext, SetpointPowerFails, RequestedSetpointUpdated,
           TurboModeStatusChanged, AddElapsedMinutesToTurboModeOnTime, OtherVoterVotes,
           AmbientChanges, HumiditySensorChanges, PulldownOffsetChanges, ThermalShiftChanges,
           LongTermAverageUpdateTimeExpired, ShiftOffsetCalculateTimeExpired,
           ResetThermalShift, DefrostHsmStateUpdated, ShiftInputChanges,
           AmbientTemperatureChanges, CallbackForFeedingFilter,
           OnEnhancedSabbathModeStatusChange, CalculateAverage,
           ResetFilterAndRestartPeriodicTimer, Runs
  <2> QED BY <2>1, ZenonT(120) DEF SensorUnitInv
<1> QED BY <1>1, <1>2, <1>3, ZenonT(120)

\* Filter_Fallback.c, SensorFiltering.c and FreshFoodAndFreezerSensorResolver.c:
\* a row of good readings makes a sensor valid and one of bad readings invalid,
\* no sooner and no later; a bad sensor shows the fallback value, a discovered
\* one its fault, and a temperature is resolved as invalid only if no source of
\* it is valid; for all lengths of the rows.
THEOREM SensorsEarnTheirValidity ==
    SetpointsAndSensorsSpec =>
      [](unit = "sensor" =>
           /\ ~st.valid => st.filtered = FallbackValue
           /\ st.run.good /\ st.run.length >= GoodMax => st.valid
           /\ ~st.run.good /\ st.run.length >= BadMax => ~st.valid
           /\ st.fault <=> st.discovered /\ ~st.valid
           /\ ~st.resolvedValid => ~st.valid /\ (st.checked => ~st.externalValid))
<1>1. SetpointsAndSensorsInit => SensorUnitInv
  BY SensorUnitStarts
<1>2. SensorUnitInv /\ [SetpointsAndSensorsNext]_unitVars => SensorUnitInv'
  BY SensorUnitStep
<1>3. SensorUnitInv =>
        (unit = "sensor" =>
           /\ ~st.valid => st.filtered = FallbackValue
           /\ st.run.good /\ st.run.length >= GoodMax => st.valid
           /\ ~st.run.good /\ st.run.length >= BadMax => ~st.valid
           /\ st.fault <=> st.discovered /\ ~st.valid
           /\ ~st.resolvedValid => ~st.valid /\ (st.checked => ~st.externalValid))
  BY SetpointsAndSensorsAssumption, SensorInvSuffices, ZenonT(120) DEF SensorUnitInv
<1> QED BY <1>1, <1>2, <1>3, PTL DEF SetpointsAndSensorsSpec

\* Filter_Fallback.c and Filter_Slew.c: no step of a sensor turns it good or bad
\* before the row of readings that must earn it, and none moves the temperature
\* of a good sensor further than its slew filter allows.
THEOREM SensorsTurnInTime == SetpointsAndSensorsSpec => SensorTurnsInTime
<1> DEFINE Turns == unit = "sensor" =>
         /\ st.valid /\ ~st'.valid => st'.run.length >= BadMax /\ ~st'.run.good
         /\ ~st.valid /\ st'.valid => st'.run.length >= GoodMax /\ st'.run.good
         /\ st.slews /\ st.valid /\ st'.valid =>
              st'.filtered \in st.filtered - SlewLimit .. st.filtered + SlewLimit
<1>1. SetpointsAndSensorsInit => SensorUnitInv
  BY SensorUnitStarts
<1>2. SensorUnitInv /\ [SetpointsAndSensorsNext]_unitVars => SensorUnitInv' /\ [Turns]_unitVars
  <2> SUFFICES ASSUME SensorUnitInv, [SetpointsAndSensorsNext]_unitVars
               PROVE  SensorUnitInv' /\ [Turns]_unitVars
    OBVIOUS
  <2>1. SensorUnitInv' /\ (unit = "sensor" => UNCHANGED unitVars \/ TurnsInTime(st, st'))
    BY SensorUnitStep
  <2> QED BY <2>1, ZenonT(120) DEF TurnsInTime
<1> QED BY <1>1, <1>2, PTL DEF SetpointsAndSensorsSpec, SensorTurnsInTime
=============================================================================
