-------------------------------- MODULE Matrix --------------------------------
(***************************************************************************)
(* The slot's 5x7 LED matrix, firmware/src/matrix.c. Tasks and the I2C     *)
(* interrupt change the frame buffer in critical sections and notify       *)
(* matrix_task, which copies what differs and clocks it out row by row,    *)
(* yielding at every row. A byte of the frame buffer is the set of its     *)
(* bits that are 1.                                                        *)
(***************************************************************************)
EXTENDS Naturals

CONSTANTS
  Row,         \* rows of the picture (0..6)
  Col,         \* its columns (0..4)
  Font(_),     \* the columns of a printable character (font5x7.h)
  SlotAddress, \* address_get
  MaxPulse,    \* bound: calls of matrix_pulse_green
  MaxRed       \* bound: changes of the red LED

Lights == 7  \* the row of the discrete LEDs
Red == 5
Green == 6

ASSUME MatrixAssumption ==
  /\ Row \subseteq 0..6 /\ Col \subseteq 0..4
  /\ SlotAddress \in 0..31
  /\ MaxPulse \in Nat /\ MaxRed \in Nat

(* The space of font5x7.h has no pixels. *)
ASSUME FontAssumption == \A c \in Col : Font(32)[c] = {}

VARIABLES
  pending,    \* the frame buffer
  visible,    \* max7219_sync's copy of it
  update,     \* rows max7219_sync has still to send
  shown,      \* the chip's digit registers
  mpc,        \* where matrix_task is
  gpc,        \* where green_task is
  rpc,        \* where the power task is in matrix_set_red
  ipc,        \* where init_task is
  mNotified,  \* the notification value of matrix_task is not 0
  gNotified,  \* the notification value of green_task is not 0
  pulses, reds  \* bounds: calls so far

matrixVars == <<pending, visible, update, shown, mpc, gpc, rpc, ipc, mNotified,
                gNotified, pulses, reds>>

AllRows == Row \cup {Lights}
Dark == [r \in AllRows |-> {}]

MatrixInit ==
  /\ pending = Dark /\ visible = Dark /\ update = {} /\ shown = Dark
  /\ mpc = "config" /\ gpc = "take" /\ rpc = "idle" /\ ipc = "address"
  /\ mNotified = FALSE /\ gNotified = FALSE
  /\ pulses = 0 /\ reds = 0

(*************************** matrix_task ***********************************)
(* The critical section of max7219_sync. *)
SyncFrame(force) ==
  /\ update' = {r \in AllRows : force \/ pending[r] # visible[r]}
  /\ visible' = pending

(* max7219_config ends with a forced sync. *)
Config ==
  /\ mpc = "config"
  /\ SyncFrame(TRUE)
  /\ mpc' = "first"
  /\ UNCHANGED <<pending, shown, gpc, rpc, ipc, mNotified, gNotified, pulses, reds>>

(* max7219_send_row; taskYIELD lets the others run before the next one. *)
SendRow ==
  /\ mpc \in {"first", "send"}
  /\ update # {}
  /\ LET r == CHOOSE r \in update : \A s \in update : r <= s
     IN /\ shown' = [shown EXCEPT ![r] = visible[r]]
        /\ update' = update \ {r}
  /\ UNCHANGED <<pending, visible, mpc, gpc, rpc, ipc, mNotified, gNotified, pulses, reds>>

(* max7219_selftest does not touch the digit registers. *)
SyncDoneClears ==  \* mutant: notifications of the meantime are cleared
  /\ mpc \in {"first", "send"}
  /\ update = {}
  /\ mpc' = IF mpc = "first" THEN "selftest" ELSE "take"
  /\ mNotified' = FALSE
  /\ UNCHANGED <<pending, visible, update, shown, gpc, rpc, ipc, gNotified, pulses, reds>>

SyncDone ==
  /\ mpc \in {"first", "send"}
  /\ update = {}
  /\ mpc' = IF mpc = "first" THEN "selftest" ELSE "take"
  /\ UNCHANGED <<pending, visible, update, shown, gpc, rpc, ipc, mNotified,
                 gNotified, pulses, reds>>

Selftest ==
  /\ mpc = "selftest"
  /\ mpc' = "take"
  /\ UNCHANGED <<pending, visible, update, shown, gpc, rpc, ipc, mNotified,
                 gNotified, pulses, reds>>

(* ulTaskNotifyTake clears the notifications, however many there were. *)
MatrixTake ==
  /\ mpc = "take" /\ mNotified
  /\ mNotified' = FALSE
  /\ mpc' = "sync"
  /\ UNCHANGED <<pending, visible, update, shown, gpc, rpc, ipc, gNotified, pulses, reds>>

Sync ==
  /\ mpc = "sync"
  /\ SyncFrame(FALSE)
  /\ mpc' = "send"
  /\ UNCHANGED <<pending, shown, gpc, rpc, ipc, mNotified, gNotified, pulses, reds>>

MatrixTask == Config \/ SendRow \/ SyncDone \/ Selftest \/ MatrixTake \/ Sync

(*************************** setting ***************************************)
(* matrix_xfrm: rows from columns; the LEDs' row is not touched. *)
matrix_xfrm(cols) ==
  [r \in AllRows |-> IF r \in Row THEN {c \in Col : r \in cols[c]}
                     ELSE pending[r]]

(* matrix_set_from_isr: no task runs between its two halves. *)
matrix_set_from_isr(cols) ==
  /\ pending' = matrix_xfrm(cols)
  /\ mNotified' = TRUE
  /\ UNCHANGED <<visible, update, shown, mpc, gpc, rpc, ipc, gNotified, pulses, reds>>

SetLightOnly(bit, on) ==  \* mutant: |= whatever the value
  pending' = [pending EXCEPT ![Lights] = @ \cup {bit}]

SetLight(bit, on) ==
  pending' = [pending EXCEPT ![Lights] = IF on THEN @ \cup {bit} ELSE @ \ {bit}]

(* matrix_set_red from the power loop: the frame buffer, then matrix_sync. *)
SetRed ==
  /\ rpc = "idle" /\ reds < MaxRed
  /\ \E on \in BOOLEAN : SetLight(Red, on)
  /\ rpc' = "sync" /\ reds' = reds + 1
  /\ UNCHANGED <<visible, update, shown, mpc, gpc, ipc, mNotified, gNotified, pulses>>

RedSync ==
  /\ rpc = "sync"
  /\ rpc' = "idle" /\ mNotified' = TRUE
  /\ UNCHANGED <<pending, visible, update, shown, mpc, gpc, ipc, gNotified, pulses, reds>>

(* init_task shows the slot's address, then a blank (main.c). Each is
   matrix_set: the frame buffer, then matrix_sync. *)
InitSet(from, to, char) ==
  /\ ipc = from /\ ipc' = to
  /\ pending' = matrix_xfrm(Font(char))
  /\ UNCHANGED <<visible, update, shown, mpc, gpc, rpc, mNotified, gNotified,
                 pulses, reds>>

InitSync(from, to) ==
  /\ ipc = from /\ ipc' = to
  /\ mNotified' = TRUE
  /\ UNCHANGED <<pending, visible, update, shown, mpc, gpc, rpc, gNotified,
                 pulses, reds>>

addrchr(addr) == IF addr % 16 < 10 THEN 48 + (addr % 16) ELSE 55 + (addr % 16)

InitTask ==
  \/ InitSet("address", "addressSync", addrchr(SlotAddress))
  \/ InitSync("addressSync", "blank")
  \/ InitSet("blank", "blankSync", 32)
  \/ InitSync("blankSync", "done")

(*************************** green_task ************************************)
(* matrix_pulse_green, called by every task that sends or receives. *)
PulseGreen ==
  /\ pulses < MaxPulse
  /\ pulses' = pulses + 1
  /\ gNotified' = TRUE
  /\ UNCHANGED <<pending, visible, update, shown, mpc, gpc, rpc, ipc, mNotified, reds>>

GreenStep(from, to) ==
  /\ gpc = from /\ gpc' = to
  /\ UNCHANGED <<visible, update, shown, mpc, rpc, ipc, pulses, reds>>

GreenTake ==
  /\ GreenStep("take", "on")
  /\ gNotified /\ gNotified' = FALSE
  /\ UNCHANGED <<pending, mNotified>>

(* matrix_set_green: the frame buffer, then matrix_sync. *)
GreenSet(from, to, on) ==
  GreenStep(from, to) /\ SetLight(Green, on) /\ UNCHANGED <<mNotified, gNotified>>
GreenSync(from, to) ==
  GreenStep(from, to) /\ mNotified' = TRUE /\ UNCHANGED <<pending, gNotified>>

GreenOn == GreenSet("on", "onSync", TRUE)
GreenOnSync == GreenSync("onSync", "off")
GreenOff == GreenSet("off", "offSync", FALSE)
GreenOffSilent ==  \* mutant: matrix_sync left out
  GreenStep("offSync", "take") /\ UNCHANGED <<pending, mNotified, gNotified>>
GreenOffSync == GreenSync("offSync", "take")

GreenTask == GreenTake \/ GreenOn \/ GreenOnSync \/ GreenOff \/ GreenOffSync

-----------------------------------------------------------------------------
MatrixTypeOK ==
  /\ {pending, visible, shown} \subseteq [AllRows -> SUBSET (0..7)]
  /\ update \subseteq AllRows
  /\ mpc \in {"config", "first", "selftest", "take", "sync", "send"}
  /\ gpc \in {"take", "on", "onSync", "off", "offSync"}
  /\ rpc \in {"idle", "sync"}
  /\ ipc \in {"address", "addressSync", "blank", "blankSync", "done"}
  /\ mNotified \in BOOLEAN /\ gNotified \in BOOLEAN
  /\ pulses \in 0..MaxPulse /\ reds \in 0..MaxRed

(* No update is lost: matrix_task sleeps on with nothing to wake it only when
   the chip shows the frame buffer, whoever changed it in the middle of a
   sync (max7219_sync against the setters). *)
ShowsWhatIsPending ==
  /\ mpc = "take" /\ ~mNotified
  /\ rpc # "sync" /\ gpc \notin {"onSync", "offSync"}
  /\ ipc \notin {"addressSync", "blankSync"}
  => shown = pending

(* The activity LED never stays on: when green_task rests, its bit is clear,
   whatever the other writers of the row did meanwhile. *)
GreenRests == gpc = "take" => Green \notin pending[Lights]

(* Every pulse ends on the display. *)
PulseEnds == Green \in shown[Lights] ~> Green \notin shown[Lights]
=============================================================================
