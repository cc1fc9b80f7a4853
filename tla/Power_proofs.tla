---------------------------- MODULE Power_proofs ----------------------------
(***************************************************************************)
(* Proofs about Power, whatever comes when and with any number of requests *)
(* and resets. Unless opposite calls were under way at once the backup     *)
(* register is right whenever nobody is in power_set_state, so a warm      *)
(* reset at any such moment restores the power state; and a call that is   *)
(* alone raises GLOBAL_EN unnoticed by a Pi that halted only behind a call *)
(* for off.                                                                *)
(***************************************************************************)
EXTENDS Power, TLAPS

(* The calls under way are listed ... *)
Listed == \A t \in Caller : pc[t] # "idle" => <<t, val[t]>> \in joint

(* ... one that has written GLOBAL_EN still finds its value there, or another
   one has lowered it and will raise it again, as long as all want the same ... *)
EnableStays ==
  ~Opposed =>
    \A t \in Caller :
      pc[t] \in {"wait", "save"} => en = val[t] \/ \E u \in Caller : pc[u] \in {"delay", "set"}

(* ... and the register has followed when the last one has returned. *)
BackupCurrent == Idle /\ ~Opposed => dr1 = en

RegisterInv == Listed /\ EnableStays /\ BackupCurrent

LEMMA StepCases ==
  ASSUME [Next]_vars
  PROVE  \/ \E t \in Caller : SetTest(t)
         \/ \E t \in Caller : SetLower(t)
         \/ \E t \in Caller : SetDelayed(t)
         \/ \E t \in Caller : SetEnable(t)
         \/ \E t \in Caller : SetWait(t)
         \/ \E t \in Caller : SetSave(t)
         \/ \E v \in BOOLEAN : Command(v)
         \/ ShutdownCommand \/ PressButton \/ ReleaseButton \/ PowerLoop
         \/ HaltLow \/ HaltHigh \/ PmicFollows \/ PiBoots \/ PiHalts
         \/ PowerOnReset \/ WarmReset
         \/ UNCHANGED vars
BY DEF Next, SetStep

(* What one turn of power_task's loop may do to the calls. *)
LEMMA LoopCases ==
  ASSUME PowerLoop
  PROVE  /\ press' = button /\ pc["power"] = "idle"
         /\ UNCHANGED <<boardVars, button, halt, counters>>
         /\ \/ button /\ \E v \in BOOLEAN : Call("power", v)
            \/ UNCHANGED <<pc, val, histVars>>
BY DEF PowerLoop

(* What a call adds to the histories. *)
LEMMA CallTypes ==
  ASSUME TypeOK, NEW t \in Caller, NEW v \in BOOLEAN, Call(t, v)
  PROVE  joint' \subseteq Caller \X BOOLEAN /\ hasty' \in BOOLEAN
<1>1. joint \subseteq Caller \X BOOLEAN /\ <<t, v>> \in Caller \X BOOLEAN
  BY DEF TypeOK
<1>2. joint' \subseteq {<<t, v>>} \cup joint
  BY DEF Call
<1>3. hasty' \in BOOLEAN
  BY DEF Call
<1> QED
  BY <1>1, <1>2, <1>3

(* The variables of Power stay of their types. *)
THEOREM TypeCorrect == Spec => []TypeOK
<1> USE PowerAssumption
<1>1. Init => TypeOK
  <2> SUFFICES ASSUME Init PROVE TypeOK
    OBVIOUS
  <2>1. pc \in [Caller -> Labels] /\ val \in [Caller -> BOOLEAN]
    BY DEF Init, Labels
  <2>2. loops = 0 /\ cmds = 0 /\ presses = 0 /\ resets = 0
    BY DEF Init
  <2>3. loops \in 0..Long /\ cmds \in 0..MaxCmd /\ presses \in 0..MaxPress
        /\ resets \in 0..MaxReset
    BY <2>2
  <2>4. en \in BOOLEAN /\ dr1 \in BOOLEAN /\ pmic \in {"off", "on", "up", "halted"}
        /\ button \in BOOLEAN /\ press \in BOOLEAN
        /\ asked \in BOOLEAN /\ halt \in BOOLEAN
        /\ joint \subseteq Caller \X BOOLEAN /\ hasty \in BOOLEAN
    BY DEF Init
  <2> QED
    BY <2>1, <2>3, <2>4 DEF TypeOK
<1>2. TypeOK /\ [Next]_vars => TypeOK'
  <2> SUFFICES ASSUME TypeOK, [Next]_vars PROVE TypeOK'
    OBVIOUS
  <2> USE DEF TypeOK, Labels, At, Goto, boardVars, buttonVars, haltVars,
              counters, histVars
  <2>1. ASSUME NEW t \in Caller, SetTest(t) PROVE TypeOK'
    BY <2>1 DEF SetTest
  <2>2. ASSUME NEW t \in Caller, SetLower(t) PROVE TypeOK'
    BY <2>2 DEF SetLower
  <2>3. ASSUME NEW t \in Caller, SetDelayed(t) PROVE TypeOK'
    BY <2>3 DEF SetDelayed
  <2>4. ASSUME NEW t \in Caller, SetEnable(t) PROVE TypeOK'
    BY <2>4 DEF SetEnable
  <2>5. ASSUME NEW t \in Caller, SetWait(t) PROVE TypeOK'
    BY <2>5 DEF SetWait
  <2>6. ASSUME NEW t \in Caller, SetSave(t) PROVE TypeOK'
    BY <2>6 DEF SetSave
  <2>7. ASSUME NEW v \in BOOLEAN, Command(v) PROVE TypeOK'
    <3>1. joint' \subseteq Caller \X BOOLEAN /\ hasty' \in BOOLEAN
      BY <2>7, CallTypes DEF Command, Caller
    <3> QED
      BY <2>7, <3>1 DEF Command, Call, Caller
  <2>8. CASE ShutdownCommand
    BY <2>8 DEF ShutdownCommand
  <2>9. CASE PressButton
    <3>1. button' = TRUE /\ presses' \in 0..MaxPress
      BY <2>9 DEF PressButton
    <3>2. UNCHANGED <<boardVars, pc, val, press, loops, haltVars, cmds, resets,
                      histVars>>
      BY <2>9 DEF PressButton
    <3> QED
      BY <3>1, <3>2
  <2>10. CASE ReleaseButton
    BY <2>10 DEF ReleaseButton
  <2>11. CASE PowerLoop
    <3>1. loops' \in 0..Long
      BY <2>11 DEF PowerLoop, Held
    <3>2. asked' \in BOOLEAN
      BY <2>11 DEF PowerLoop
    <3>3. pc' \in [Caller -> Labels] /\ val' \in [Caller -> BOOLEAN]
      BY <2>11, LoopCases DEF Caller, Call
    <3>4. joint' \subseteq Caller \X BOOLEAN /\ hasty' \in BOOLEAN
      BY <2>11, LoopCases, CallTypes DEF Caller
    <3> QED
      BY <2>11, LoopCases, <3>1, <3>2, <3>3, <3>4
  <2>12. CASE HaltLow
    BY <2>12 DEF HaltLow
  <2>13. CASE HaltHigh
    BY <2>13 DEF HaltHigh
  <2>14. CASE PmicFollows
    BY <2>14 DEF PmicFollows
  <2>15. CASE PiBoots \/ PiHalts
    BY <2>15 DEF PiBoots, PiHalts
  <2>16. CASE PowerOnReset
    <3>1. pc' \in [Caller -> Labels] /\ val' \in [Caller -> BOOLEAN]
      BY <2>16 DEF PowerOnReset, RestartTasks
    <3>2. resets' \in 0..MaxReset
      BY <2>16 DEF PowerOnReset, RestartTasks
    <3>3. press' = FALSE /\ asked' = FALSE /\ halt' = FALSE /\ loops' = 0
          /\ joint' = {} /\ hasty' = FALSE
      BY <2>16 DEF PowerOnReset, RestartTasks
    <3>4. UNCHANGED <<button, cmds, presses>>
      BY <2>16 DEF PowerOnReset, RestartTasks
    <3>5. en' \in BOOLEAN /\ dr1' \in BOOLEAN
          /\ pmic' \in {"off", "on", "up", "halted"}
      BY <2>16 DEF PowerOnReset
    <3>6. loops' \in 0..Long
      BY <3>3
    <3> QED
      BY <3>1, <3>2, <3>3, <3>4, <3>5, <3>6
  <2>17. CASE WarmReset
    <3>1. pc' \in [Caller -> Labels] /\ val' \in [Caller -> BOOLEAN]
      BY <2>17 DEF WarmReset, RestartTasks
    <3>2. resets' \in 0..MaxReset
      BY <2>17 DEF WarmReset, RestartTasks
    <3>3. press' = FALSE /\ asked' = FALSE /\ halt' = FALSE /\ loops' = 0
          /\ joint' = {} /\ hasty' = FALSE
      BY <2>17 DEF WarmReset, RestartTasks
    <3>4. UNCHANGED <<button, cmds, presses>>
      BY <2>17 DEF WarmReset, RestartTasks
    <3>5. en' \in BOOLEAN /\ dr1' \in BOOLEAN
          /\ pmic' \in {"off", "on", "up", "halted"}
      BY <2>17 DEF WarmReset
    <3>6. loops' \in 0..Long
      BY <3>3
    <3> QED
      BY <3>1, <3>2, <3>3, <3>4, <3>5, <3>6
  <2>18. CASE UNCHANGED vars
    BY <2>18 DEF vars
  <2> QED
    BY <2>1, <2>2, <2>3, <2>4, <2>5, <2>6, <2>7, <2>8, <2>9, <2>10, <2>11,
       <2>12, <2>13, <2>14, <2>15, <2>16, <2>17, <2>18, StepCases
<1> QED
  BY <1>1, <1>2, PTL DEF Spec

(* What a step means to power_set_state: a call begins, the board restarts, or
   nothing happens to it, and a regulator that is off stays off until GLOBAL_EN
   is high. *)
Begins ==
  /\ \E t \in Caller, v \in BOOLEAN : pc[t] = "idle" /\ Call(t, v)
  /\ UNCHANGED boardVars
Restarts == pc' = [t \in Caller |-> "idle"] /\ joint' = {} /\ en' = dr1'
Quiet ==
  /\ UNCHANGED <<pc, val, en, dr1, joint>>
  /\ pmic = "off" /\ ~en => pmic' = "off"

LEMMA StepKinds ==
  ASSUME [Next]_vars
  PROVE  \/ \E t \in Caller : SetTest(t)
         \/ \E t \in Caller : SetLower(t)
         \/ \E t \in Caller : SetDelayed(t)
         \/ \E t \in Caller : SetEnable(t)
         \/ \E t \in Caller : SetWait(t)
         \/ \E t \in Caller : SetSave(t)
         \/ Begins \/ Restarts \/ Quiet
<1> USE DEF boardVars, buttonVars, haltVars, counters, histVars
<1>1. ASSUME NEW v \in BOOLEAN, Command(v) PROVE Begins
  BY <1>1 DEF Command, Begins, Caller
<1>2. CASE ShutdownCommand \/ PressButton \/ ReleaseButton
  BY <1>2 DEF ShutdownCommand, PressButton, ReleaseButton, Quiet
<1>3. CASE PowerLoop
  BY <1>3, LoopCases DEF Begins, Quiet, Caller
<1>4. CASE HaltLow \/ HaltHigh
  BY <1>4 DEF HaltLow, HaltHigh, Quiet
<1>5. CASE PmicFollows \/ PiBoots \/ PiHalts
  BY <1>5 DEF PmicFollows, PiBoots, PiHalts, Quiet
<1>6. CASE PowerOnReset \/ WarmReset
  BY <1>6 DEF PowerOnReset, WarmReset, RestartTasks, Restarts
<1>7. CASE UNCHANGED vars
  BY <1>7 DEF vars, Quiet
<1> QED
  BY <1>1, <1>2, <1>3, <1>4, <1>5, <1>6, <1>7, StepCases

(* What a call for off and one for on say of the list. *)
LEMMA SameWish ==
  ASSUME TypeOK, Listed, ~Opposed, NEW t \in Caller, NEW u \in Caller,
         pc[t] # "idle", pc[u] # "idle"
  PROVE  val[t] = val[u]
BY DEF Listed, Opposed

LEMMA AloneCalls ==
  ASSUME Listed, Alone, NEW t \in Caller, pc[t] # "idle"
  PROVE  \A u \in Caller : u # t => pc[u] = "idle"
BY DEF Listed, Alone

(* A call that begins. *)
LEMMA BeginsOpposed ==
  ASSUME NEW t \in Caller, NEW v \in BOOLEAN, Call(t, v)
  PROVE  /\ <<t, v>> \in joint' /\ (Opposed => Opposed' /\ ~Alone')
         /\ ~Idle => joint \subseteq joint'
<1>1. <<t, v>> \in joint' /\ (~(Idle /\ ~Opposed) => joint \subseteq joint')
  BY DEF Call
<1>2. Opposed /\ joint \subseteq joint' => Opposed' /\ ~Alone'
  BY DEF Opposed, Alone
<1> QED
  BY <1>1, <1>2

(* The register's invariant, step by step. *)
LEMMA RegisterStep ==
  ASSUME TypeOK, RegisterInv, [Next]_vars
  PROVE  RegisterInv'
<1> USE DEF At, Goto, boardVars, buttonVars, haltVars, counters, histVars
<1>0. pc \in [Caller -> Labels] /\ val \in [Caller -> BOOLEAN] /\ en \in BOOLEAN
      /\ dr1 \in BOOLEAN
  BY DEF TypeOK
<1>1. ASSUME NEW t \in Caller, SetTest(t) PROVE RegisterInv'
  BY <1>0, <1>1 DEF SetTest, RegisterInv, Listed, EnableStays, BackupCurrent, Idle, Opposed
<1>2. ASSUME NEW t \in Caller, SetLower(t) PROVE RegisterInv'
  BY <1>0, <1>2 DEF SetLower, RegisterInv, Listed, EnableStays, BackupCurrent, Idle, Opposed
<1>3. ASSUME NEW t \in Caller, SetDelayed(t) PROVE RegisterInv'
  BY <1>0, <1>3 DEF SetDelayed, RegisterInv, Listed, EnableStays, BackupCurrent, Idle, Opposed
<1>4. ASSUME NEW t \in Caller, SetEnable(t) PROVE RegisterInv'
  <2>1. Listed' /\ BackupCurrent' /\ Opposed' = Opposed
    BY <1>0, <1>4 DEF SetEnable, RegisterInv, Listed, BackupCurrent, Idle, Opposed
  <2>2. ASSUME ~Opposed, NEW u \in Caller, pc'[u] \in {"wait", "save"} PROVE en' = val'[u]
    <3>1. pc[t] # "idle" /\ pc[u] # "idle" /\ val' = val /\ en' = val[t]
      BY <1>0, <1>4, <2>2 DEF SetEnable
    <3> QED
      BY <3>1, <2>2, SameWish DEF RegisterInv
  <2> QED
    BY <2>1, <2>2 DEF RegisterInv, EnableStays
<1>5. ASSUME NEW t \in Caller, SetWait(t) PROVE RegisterInv'
  BY <1>0, <1>5 DEF SetWait, RegisterInv, Listed, EnableStays, BackupCurrent, Idle, Opposed
<1>6. ASSUME NEW t \in Caller, SetSave(t) PROVE RegisterInv'
  <2>1. Listed' /\ EnableStays'
    BY <1>0, <1>6 DEF SetSave, RegisterInv, Listed, EnableStays, Opposed
  <2>2. ASSUME Idle', ~Opposed PROVE dr1' = en'
    <3>1. \A u \in Caller : pc[u] \notin {"delay", "set"}
      BY <1>0, <1>6, <2>2 DEF SetSave, Idle
    <3>2. en = val[t]
      BY <1>6, <2>2, <3>1 DEF SetSave, RegisterInv, EnableStays
    <3> QED
      BY <1>6, <3>2 DEF SetSave
  <2> QED
    BY <1>6, <2>1, <2>2 DEF SetSave, RegisterInv, BackupCurrent, Opposed
<1>7. CASE Begins
  <2>1. PICK t \in Caller, v \in BOOLEAN : pc[t] = "idle" /\ Call(t, v)
    BY <1>7 DEF Begins
  <2>2. pc' = [pc EXCEPT ![t] = "test"] /\ val' = [val EXCEPT ![t] = v] /\ en' = en
    BY <1>7, <2>1 DEF Begins, Call
  <2>3. <<t, v>> \in joint' /\ (Opposed => Opposed') /\ (~Idle => joint \subseteq joint')
    BY <2>1, BeginsOpposed
  <2>4. Listed'
    <3> SUFFICES ASSUME NEW u \in Caller, pc'[u] # "idle" PROVE <<u, val'[u]>> \in joint'
      BY DEF Listed
    <3>1. CASE u = t
      BY <1>0, <2>2, <2>3, <3>1
    <3>2. CASE u # t
      BY <1>0, <2>2, <2>3, <3>2 DEF RegisterInv, Listed, Idle
    <3> QED
      BY <3>1, <3>2
  <2>5. EnableStays'
    BY <1>0, <2>1, <2>2, <2>3 DEF RegisterInv, EnableStays
  <2>6. ~Idle'
    BY <1>0, <2>2 DEF Idle
  <2> QED
    BY <2>4, <2>5, <2>6 DEF RegisterInv, BackupCurrent
<1>8. CASE Restarts
  BY <1>8 DEF Restarts, RegisterInv, Listed, EnableStays, BackupCurrent
<1>9. CASE Quiet
  BY <1>9 DEF Quiet, RegisterInv, Listed, EnableStays, BackupCurrent, Idle, Opposed
<1> QED
  BY <1>1, <1>2, <1>3, <1>4, <1>5, <1>6, <1>7, <1>8, <1>9, StepKinds

LEMMA RegisterStart == Init => RegisterInv
BY DEF Init, RegisterInv, Listed, EnableStays, BackupCurrent, Caller

(* Unless opposite calls of power_set_state were under way at once the backup
   register agrees with GLOBAL_EN whenever none is. *)
THEOREM BackupIsCurrent == Spec => []BackupCurrent
<1>1. TypeOK /\ RegisterInv /\ [Next]_vars => RegisterInv'
  BY RegisterStep
<1>2. RegisterInv => BackupCurrent
  BY DEF RegisterInv
<1> QED
  BY <1>1, <1>2, RegisterStart, TypeCorrect, PTL DEF Spec

(* A warm reset that comes when no call is under way leaves GLOBAL_EN, and so
   the Pi, as it was, unless opposite calls were under way at once. *)
THEOREM ResetKeepsPower == Spec => ResetRestores
<1>1. BackupCurrent => [WarmReset /\ Idle /\ ~Opposed => en' = en]_vars
  BY DEF BackupCurrent, WarmReset
<1> QED
  BY <1>1, BackupIsCurrent, PTL DEF ResetRestores

(* A call that is about to raise GLOBAL_EN although the last one to end was for on
   has lowered it itself and waited: before the test the register and GLOBAL_EN
   agree, so one that skips the delay then finds it high already. *)
LowInv ==
  Alone =>
    \A t \in Caller :
      /\ pc[t] \in {"test", "lower"} => en = dr1
      /\ pc[t] = "set" /\ val[t] /\ ~en /\ dr1 => pmic = "off"

LEMMA LowStep ==
  ASSUME TypeOK, RegisterInv, LowInv, [Next]_vars
  PROVE  LowInv'
<1> USE DEF LowInv, At, Goto, boardVars, buttonVars, haltVars, counters, histVars
<1>0. pc \in [Caller -> Labels] /\ val \in [Caller -> BOOLEAN] /\ en \in BOOLEAN
      /\ dr1 \in BOOLEAN
  BY DEF TypeOK
<1>00. ASSUME NEW t \in Caller, pc[t] # "idle", Alone
       PROVE  \A u \in Caller : u # t => pc[u] = "idle"
  BY <1>00, AloneCalls DEF RegisterInv
<1>1. ASSUME NEW t \in Caller, SetTest(t) PROVE LowInv'
  BY <1>0, <1>1 DEF SetTest, Alone
<1>2. ASSUME NEW t \in Caller, SetLower(t) PROVE LowInv'
  BY <1>0, <1>00, <1>2 DEF SetLower, Alone
<1>3. ASSUME NEW t \in Caller, SetDelayed(t) PROVE LowInv'
  BY <1>0, <1>3 DEF SetDelayed, LongEnough, Alone
<1>4. ASSUME NEW t \in Caller, SetEnable(t) PROVE LowInv'
  BY <1>0, <1>00, <1>4 DEF SetEnable, Alone
<1>5. ASSUME NEW t \in Caller, SetWait(t) PROVE LowInv'
  BY <1>0, <1>5 DEF SetWait, Alone
<1>6. ASSUME NEW t \in Caller, SetSave(t) PROVE LowInv'
  BY <1>0, <1>00, <1>6 DEF SetSave, Alone
<1>7. CASE Begins
  <2> SUFFICES ASSUME Alone' PROVE LowInv'
    OBVIOUS
  <2>1. PICK t \in Caller, v \in BOOLEAN : pc[t] = "idle" /\ Call(t, v)
    BY <1>7 DEF Begins
  <2>2. pc' = [pc EXCEPT ![t] = "test"] /\ UNCHANGED <<en, dr1>>
    BY <1>7, <2>1 DEF Begins, Call
  <2>3. <<t, v>> \in joint' /\ ~Opposed /\ (~Idle => joint \subseteq joint')
    BY <2>1, BeginsOpposed
  <2>4. Idle
    <3> SUFFICES ASSUME NEW u \in Caller, pc[u] # "idle" PROVE FALSE
      BY DEF Idle
    <3>1. <<u, val[u]>> \in joint' /\ u # t
      BY <2>1, <2>3 DEF RegisterInv, Listed, Idle
    <3> QED
      BY <2>3, <3>1 DEF Alone
  <2>5. en = dr1
    BY <2>3, <2>4 DEF RegisterInv, BackupCurrent
  <2> QED
    BY <1>0, <2>2, <2>4, <2>5 DEF Idle
<1>8. CASE Restarts
  BY <1>8 DEF Restarts
<1>9. CASE Quiet
  BY <1>9 DEF Quiet, Alone
<1> QED
  BY <1>1, <1>2, <1>3, <1>4, <1>5, <1>6, <1>7, <1>8, <1>9, StepKinds

(* Only power_set_state raises GLOBAL_EN, but for a reset. *)
LEMMA RaisedByCall ==
  ASSUME TypeOK, [Next]_vars, ~en, en', resets' = resets
  PROVE  \E t \in Caller : pc[t] = "set" /\ val[t]
<1> USE DEF At, boardVars, buttonVars, haltVars, counters, TypeOK
<1>1. CASE PowerOnReset \/ WarmReset
  BY <1>1 DEF PowerOnReset, WarmReset, RestartTasks
<1>2. CASE UNCHANGED en
  BY <1>2
<1>3. ASSUME NEW t \in Caller, SetEnable(t) PROVE pc[t] = "set" /\ val[t]
  BY <1>3 DEF SetEnable
<1>4. ASSUME NEW t \in Caller, SetLower(t) PROVE FALSE
  BY <1>4 DEF SetLower
<1>5. ASSUME NEW t \in Caller, SetTest(t) \/ SetDelayed(t) \/ SetWait(t) \/ SetSave(t)
      PROVE  FALSE
  BY <1>5 DEF SetTest, SetDelayed, SetWait, SetSave
<1>6. ASSUME NEW v \in BOOLEAN, Command(v) PROVE FALSE
  BY <1>6 DEF Command
<1>7. CASE \/ ShutdownCommand \/ PressButton \/ ReleaseButton \/ PowerLoop \/ HaltLow
           \/ HaltHigh \/ PmicFollows \/ PiBoots \/ PiHalts \/ UNCHANGED vars
  BY <1>7 DEF ShutdownCommand, PressButton, ReleaseButton, PowerLoop, HaltLow,
              HaltHigh, PmicFollows, PiBoots, PiHalts, vars
<1> QED
  BY <1>1, <1>3, <1>4, <1>5, <1>6, <1>7, StepCases

(* However fast calls follow each other, and whatever else happens, a Pi that
   halted notices that GLOBAL_EN was low before a call that is alone raises it
   again, unless the call before was for off: the one case that
   power_set_state's test leaves out. *)
THEOREM HaltedPiNotices == Spec => LowIsNoticed
<1>1. Init => RegisterInv /\ LowInv
  BY RegisterStart DEF Init, LowInv
<1>2. TypeOK /\ RegisterInv /\ LowInv /\ [Next]_vars => RegisterInv' /\ LowInv'
  BY RegisterStep, LowStep
<1>3. TypeOK /\ LowInv /\ [Next]_vars
        => [Alone /\ ~en /\ en' /\ resets' = resets /\ pmic = "halted" => ~dr1]_vars
  <2> SUFFICES ASSUME TypeOK, LowInv, [Next]_vars, Alone, ~en, en', resets' = resets,
                      pmic = "halted"
               PROVE  ~dr1
    OBVIOUS
  <2>1. PICK t \in Caller : pc[t] = "set" /\ val[t]
    BY RaisedByCall
  <2> QED
    BY <2>1 DEF LowInv
<1> QED
  BY <1>1, <1>2, <1>3, TypeCorrect, PTL DEF Spec, LowIsNoticed
=============================================================================
