-------------------------------- MODULE Power --------------------------------
(***************************************************************************)
(* Power control of a slot (firmware/src/power.c). power_set_state is      *)
(* called by two tasks, canrx for a CAN request and power for the button,  *)
(* with nothing to keep them apart. It is one step here for each access to *)
(* what the other task, the Pi or a reset can change.                      *)
(***************************************************************************)
EXTENDS Naturals

CONSTANTS
  Short,     \* button_short_msec in loops of power_task (3)
  Long,      \* button_long_msec in loops (200)
  MaxCmd,    \* bound: CAN power commands
  MaxPress,  \* bound: button presses
  MaxReset   \* bound: resets

ASSUME PowerAssumption ==
  /\ Short \in Nat /\ Long \in Nat /\ 0 < Short /\ Short < Long
  /\ MaxCmd \in Nat /\ MaxPress \in Nat /\ MaxReset \in Nat

Caller == {"canrx", "power"}

VARIABLES
  en,        \* GLOBAL_EN
  dr1,       \* backup register 1: the power state to restore
  pmic,      \* the Pi's regulator: "off", "on" with the Pi booting, "up", or
             \* "halted" by the Pi itself
  pc,        \* where each caller is in power_set_state
  val,       \* its argument
  button,    \* the button is down
  press,     \* button_press
  loops,     \* button_msec / loop_msec, up to Long
  asked,     \* shutdown_task has been notified
  halt,      \* PI_HALT is pulled low
  cmds, presses, resets,
  joint,     \* history: the calls, with their arguments, since nobody was in
             \* power_set_state; once opposite ones met, since the last reset
  hasty      \* history: one of them, for on, began before the regulator had
             \* followed GLOBAL_EN, or the Pi halted during it

histVars == <<joint, hasty>>
counters == <<cmds, presses, resets>>
vars == <<en, dr1, pmic, pc, val, button, press, loops, asked, halt, counters,
          histVars>>
buttonVars == <<button, press, loops>>
haltVars == <<asked, halt>>
boardVars == <<en, dr1, pmic>>

pg == pmic \in {"on", "up"}  \* RUN_PG
Idle == \A t \in Caller : pc[t] = "idle"
Followed == en <=> pmic # "off"

(* First power-up: power_init with por_flag set. *)
Init ==
  /\ en = FALSE /\ dr1 = FALSE /\ pmic = "off"
  /\ pc = [t \in Caller |-> "idle"] /\ val = [t \in Caller |-> FALSE]
  /\ button = FALSE /\ press = FALSE /\ loops = 0
  /\ asked = FALSE /\ halt = FALSE
  /\ cmds = 0 /\ presses = 0 /\ resets = 0
  /\ joint = {} /\ hasty = FALSE

(*************************** power_set_state *******************************)
At(t, label) == pc[t] = label
Goto(t, label) == pc' = [pc EXCEPT ![t] = label]

Opposed == \E c, d \in joint : c[2] # d[2]
Alone == \A c, d \in joint : c = d  \* no two calls were under way at once

Call(t, v) ==
  LET fresh == Idle /\ ~Opposed
  IN /\ Goto(t, "test") /\ val' = [val EXCEPT ![t] = v]
     /\ joint' = {<<t, v>>} \cup (IF fresh THEN {} ELSE joint)
     /\ hasty' = ((v /\ ~Followed) \/ (hasty /\ ~fresh))

(* GLOBAL_EN high and RUN_PG low: the Pi has turned its regulator off. *)
TurnedItselfOffNever == FALSE  \* mutant: no such case
TurnedItselfOff == en /\ ~pg

SetTest(t) ==
  /\ At(t, "test")
  /\ Goto(t, IF val[t] /\ TurnedItselfOff THEN "lower" ELSE "set")
  /\ UNCHANGED <<boardVars, val, buttonVars, haltVars, counters, histVars>>

SetLower(t) ==
  /\ At(t, "lower")
  /\ en' = FALSE
  /\ Goto(t, "delay")
  /\ UNCHANGED <<dr1, pmic, val, buttonVars, haltVars, counters, histVars>>

(* 100 ms are enough for the regulator to notice, if GLOBAL_EN stays low. *)
LongEnoughAlways == TRUE  \* mutant: no delay
LongEnough == ~en => pmic = "off"

SetDelayed(t) ==
  /\ At(t, "delay")
  /\ LongEnough
  /\ Goto(t, "set")
  /\ UNCHANGED <<boardVars, val, buttonVars, haltVars, counters, histVars>>

SetEnable(t) ==
  /\ At(t, "set")
  /\ en' = val[t]
  /\ Goto(t, "wait")
  /\ UNCHANGED <<dr1, pmic, val, buttonVars, haltVars, counters, histVars>>

SetWait(t) ==
  /\ At(t, "wait") /\ pg = val[t]
  /\ Goto(t, "save")
  /\ UNCHANGED <<boardVars, val, buttonVars, haltVars, counters, histVars>>

(* Mutant: the backup register remembers power on only. *)
SetSaveOnly(t) ==
  /\ At(t, "save")
  /\ dr1' = (dr1 \/ val[t])
  /\ Goto(t, "idle")
  /\ UNCHANGED <<en, pmic, val, buttonVars, haltVars, counters, histVars>>

SetSave(t) ==
  /\ At(t, "save")
  /\ dr1' = val[t]
  /\ Goto(t, "idle")
  /\ UNCHANGED <<en, pmic, val, buttonVars, haltVars, counters, histVars>>

SetStep(t) ==
  SetTest(t) \/ SetLower(t) \/ SetDelayed(t) \/ SetEnable(t) \/ SetWait(t) \/ SetSave(t)

(*************************** canservices_power *****************************)
(* A write request; the canrx task handles nothing else until it is done. *)
Command(v) ==
  /\ pc["canrx"] = "idle" /\ cmds < MaxCmd
  /\ cmds' = cmds + 1
  /\ Call("canrx", v)
  /\ UNCHANGED <<boardVars, buttonVars, haltVars, presses, resets>>

(* A write to the shutdown object: power_shutdown. *)
ShutdownCommand ==
  /\ pc["canrx"] = "idle" /\ cmds < MaxCmd
  /\ cmds' = cmds + 1
  /\ asked' = TRUE
  /\ UNCHANGED <<boardVars, pc, val, buttonVars, halt, presses, resets, histVars>>

(*************************** power_task ************************************)
PressButton ==
  /\ ~button /\ presses < MaxPress
  /\ button' = TRUE /\ presses' = presses + 1
  /\ UNCHANGED <<boardVars, pc, val, press, loops, haltVars, cmds, resets, histVars>>

ReleaseButton ==
  /\ button
  /\ button' = FALSE
  /\ UNCHANGED <<boardVars, pc, val, press, loops, haltVars, counters, histVars>>

(* button_msec after this look at the button, which is down. *)
HeldPast == IF ~press THEN 0 ELSE loops + 1  \* mutant: grows without bound
Held == IF ~press THEN 0 ELSE IF loops < Long THEN loops + 1 ELSE Long

(* One turn of the loop, up to the delay at its end. *)
PowerLoop ==
  /\ pc["power"] = "idle"
  /\ press' = button
  /\ loops' = IF button THEN Held ELSE loops
  /\ CASE button /\ Held >= Long ->
            Call("power", FALSE) /\ UNCHANGED asked
       [] button /\ Held >= Short /\ Held < Long /\ pg ->
            asked' = TRUE /\ UNCHANGED <<pc, val, histVars>>
       [] button /\ Held >= Short /\ Held < Long /\ ~pg ->
            Call("power", TRUE) /\ UNCHANGED asked
       [] OTHER -> UNCHANGED <<pc, val, asked, histVars>>
  /\ UNCHANGED <<boardVars, button, halt, counters>>

(*************************** shutdown_task *********************************)
HaltLow ==
  /\ asked /\ ~halt
  /\ asked' = FALSE /\ halt' = TRUE
  /\ UNCHANGED <<boardVars, pc, val, buttonVars, counters, histVars>>

(* Mutant: a request that came during the pulse is taken with it. *)
HaltHighTakes ==
  /\ halt
  /\ halt' = FALSE /\ asked' = FALSE
  /\ UNCHANGED <<boardVars, pc, val, buttonVars, counters, histVars>>

HaltHigh ==
  /\ halt
  /\ halt' = FALSE
  /\ UNCHANGED <<boardVars, pc, val, buttonVars, asked, counters, histVars>>

(*************************** the Pi ****************************************)
(* The regulator follows GLOBAL_EN, after a while. *)
PmicFollows ==
  /\ \/ en /\ pmic = "off" /\ pmic' = "on"
     \/ ~en /\ pmic # "off" /\ pmic' = "off"
  /\ UNCHANGED <<en, dr1, pc, val, buttonVars, haltVars, counters, histVars>>

(* A boot takes longer than the 1 ms between two looks at RUN_PG. *)
PiBoots ==
  /\ pmic = "on"
  /\ \A t \in Caller : ~(pc[t] = "wait" /\ val[t])
  /\ pmic' = "up"
  /\ UNCHANGED <<en, dr1, pc, val, buttonVars, haltVars, counters, histVars>>

(* The operating system halts, because of PI_HALT or by itself. *)
PiHalts ==
  /\ pmic = "up"
  /\ pmic' = "halted"
  /\ hasty' = (hasty \/ \E t \in Caller : pc[t] # "idle" /\ val[t])
  /\ UNCHANGED <<en, dr1, pc, val, buttonVars, haltVars, counters, joint>>

(*************************** reset *****************************************)
RestartTasks ==
  /\ pc' = [t \in Caller |-> "idle"] /\ val' = [t \in Caller |-> FALSE]
  /\ press' = FALSE /\ loops' = 0
  /\ asked' = FALSE /\ halt' = FALSE
  /\ joint' = {} /\ hasty' = FALSE
  /\ resets < MaxReset /\ resets' = resets + 1
  /\ UNCHANGED <<button, cmds, presses>>

(* power_init with the board's power back. *)
PowerOnReset ==
  /\ RestartTasks
  /\ en' = FALSE /\ dr1' = FALSE /\ pmic' = "off"

(* power_init after a warm reset. GLOBAL_EN is pulled up until then, and a Pi
   that was off may come on. *)
WarmReset ==
  /\ RestartTasks
  /\ en' = dr1
  /\ pmic' \in (IF pmic = "off" THEN {"off", "on"} ELSE {pmic})
  /\ UNCHANGED dr1

Next ==
  \/ \E t \in Caller : SetStep(t)
  \/ \E v \in BOOLEAN : Command(v)
  \/ ShutdownCommand
  \/ PressButton \/ ReleaseButton \/ PowerLoop
  \/ HaltLow \/ HaltHigh
  \/ PmicFollows \/ PiBoots \/ PiHalts
  \/ PowerOnReset \/ WarmReset

(* The tasks are scheduled and the regulator answers. *)
Fairness ==
  /\ \A t \in Caller : WF_vars(SetStep(t))
  /\ WF_vars(HaltLow \/ HaltHigh)
  /\ WF_vars(PmicFollows)

Spec == Init /\ [][Next]_vars
FairSpec == Spec /\ Fairness

-----------------------------------------------------------------------------
Labels == {"idle", "test", "lower", "delay", "set", "wait", "save"}

(* Type correctness. *)
TypeOK ==
  /\ en \in BOOLEAN /\ dr1 \in BOOLEAN /\ pmic \in {"off", "on", "up", "halted"}
  /\ pc \in [Caller -> Labels] /\ val \in [Caller -> BOOLEAN]
  /\ button \in BOOLEAN /\ press \in BOOLEAN /\ loops \in 0..Long
  /\ asked \in BOOLEAN /\ halt \in BOOLEAN
  /\ cmds \in 0..MaxCmd /\ presses \in 0..MaxPress /\ resets \in 0..MaxReset
  /\ joint \subseteq Caller \X BOOLEAN /\ hasty \in BOOLEAN

(* "Backup register preserves last power state across a reset" (power_init):
   a warm reset with no call under way leaves GLOBAL_EN as it is, also when
   calls were under way at once, unless they were for opposite states. *)
ResetRestores == [][WarmReset /\ Idle /\ ~Opposed => en' = en]_vars

(* A Pi that halted notices that GLOBAL_EN was low before a call that is alone
   raises it again, unless the call before was for off: that returns at once, and
   a call for on right behind it finds GLOBAL_EN low and leaves out the delay
   (power_set_state). *)
LowIsNoticed ==
  [][Alone /\ ~en /\ en' /\ resets' = resets /\ pmic = "halted" => ~dr1]_vars

(* power_set_state "waits for RUN_PG to change before returning": it returns. *)
SetReturns == \A t \in Caller : pc[t] # "idle" ~> pc[t] = "idle"

(* It returns, unless two calls were under way at once or one for on began too
   soon or on a Pi that was about to halt (power_set_state). *)
HangsInHasteOnly ==
  \A t \in Caller : pc[t] # "idle" ~> pc[t] = "idle" \/ hasty \/ ~Alone

(* Every shutdown request ends in a pulse on PI_HALT, and the pulse ends
   (power_shutdown and shutdown_task). *)
ShutdownPulsed ==
  /\ asked ~> ~asked
  /\ [][asked /\ ~asked' /\ resets' = resets => halt']_vars
  /\ halt ~> ~halt
=============================================================================
