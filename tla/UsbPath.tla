------------------------------ MODULE UsbPath -------------------------------
(***************************************************************************)
(* The whole way between a display and the USB host: the device's          *)
(* functionfs daemon with the library's polling thread (FfsDaemon,         *)
(* LibMmlcd), the bus, the kernel module (MmlcdDriver) and the host        *)
(* daemon's HAL (HalX86).  A button event is one step of the callback that *)
(* writes it and of the interrupt that stores it; a command is one step of *)
(* the HAL's write and of the command thread's read.  The display can be   *)
(* unplugged and plugged in again at any time; it keeps running on its own *)
(* power supply.                                                           *)
(***************************************************************************)
EXTENDS HalX86

CONSTANTS
  DaemonExits,  \* may the mmlcd daemon on the device exit?
  CreateFails,  \* may the creation of the polling thread fail?
  StartFails,   \* what else may fail in the functionfs daemon's main
  MaxMishaps    \* bound: unplugging the display, exits of the mmlcd daemon

ASSUME UsbAssumption ==
  MaxMishaps \in Nat /\ DaemonExits \in BOOLEAN /\ CreateFails \in BOOLEAN

VARIABLES
  btn, served, app, regs, cbk, running, id, th, prev, told, dead, \* LibMmlcd
  ffs, enabled, cmdth, buf, fwd,                                 \* FfsDaemon
  mishaps  \* how often the display was unplugged or its mmlcd daemon exited

deviceVars == <<btn, served, app, regs, cbk, running, id, th, prev, told,
                dead, ffs, enabled, cmdth, buf, fwd>>
usbVars == <<vars, halVars, deviceVars, mishaps>>

Ffs == INSTANCE FfsDaemon WITH
         Cbks <- {"btn_event_callback"}, NULL <- "NULL", Threads <- {"poll"},
         MaxRegs <- 1

UsbTypeOK ==
  TypeOK /\ HalTypeOK /\ Ffs!FfsTypeOK /\ mishaps \in 0 .. MaxMishaps

UsbInit == Init /\ HalInit /\ Ffs!FfsInit /\ mishaps = 0

-----------------------------------------------------------------------------
(* The bus.  The host configures the device before it is probed.           *)

Attach ==
  /\ \E d \in Devs : Plug(d)
  /\ Ffs!Enable /\ UNCHANGED <<halVars, mishaps>>

Mishap == mishaps < MaxMishaps /\ mishaps' = mishaps + 1

Detach ==
  /\ Mishap
  /\ \E d \in Devs : Unplug(d)
  /\ Ffs!Disable /\ UNCHANGED halVars

(* The interrupt takes the event the device is writing.                    *)
ButtonEvent ==
  /\ \E c \in 1 .. probes, b \in Btns, s \in States :
       /\ mmlcd_proc_int_in_irq(c, b, s)
       /\ Ffs!btn_event_callback("poll", b, s)
  /\ UNCHANGED <<halVars, mishaps>>

(* The HAL's write is the command thread's read, or fails.  A write        *)
(* through a freed context may arrive or not.                              *)
Command ==
  /\ \/ (WriteOk \/ WriteStale) /\ Ffs!cmd_ep_read(cmds)
     \/ (WriteFails(Ffs!Listening) \/ WriteStale) /\ UNCHANGED deviceVars
  /\ UNCHANGED mishaps

-----------------------------------------------------------------------------
(* Each side by itself.                                                    *)

Host ==
  /\ mmlcd_init \/ \E d \in Devs : Probe(d) \/ Disconnect(d)
  /\ UNCHANGED <<halVars, deviceVars, mishaps>>

Hal == open_mmlcd_dev \/ open_mmlcd_proc_btn \/ fscanf \/ close

Device ==
  \/ Ffs!main("btn_event_callback") \/ Ffs!handle_cmd_ep
  \/ /\ Ffs!btn_poll_thread("poll") \/ Ffs!Reply("poll")
     /\ UNCHANGED <<ffs, enabled, cmdth, buf, fwd>>

(* The user presses buttons; the device's mmlcd daemon may go.  Only while *)
(* the functionfs daemon is there does anything depend on it.              *)
Surroundings ==
  /\ dead = "no" /\ ffs # "exited"
  /\ \/ Ffs!DaemonExit /\ Mishap
     \/ \E b \in Btns : Ffs!Press(b) /\ UNCHANGED mishaps
  /\ UNCHANGED <<ffs, enabled, cmdth, buf, fwd>>

UsbNext ==
  \/ Attach \/ Detach \/ ButtonEvent \/ Command \/ Host
  \/ (Hal \/ hal_lcd \/ \E b \in Btns : hal_btn_get_state(b))
       /\ UNCHANGED <<deviceVars, mishaps>>
  \/ ((Device /\ UNCHANGED mishaps) \/ Surroundings)
       /\ UNCHANGED <<vars, halVars>>

(***************************************************************************)
(* The USB core, the host daemon, the device's processes and the bus make  *)
(* progress, and a client on the host keeps asking for the buttons.        *)
(***************************************************************************)
Fairness ==
  /\ WF_usbVars(Host) /\ WF_usbVars(ButtonEvent)
  /\ WF_usbVars(Command \/ (Hal /\ UNCHANGED <<deviceVars, mishaps>>))
  /\ WF_usbVars(Device /\ UNCHANGED <<vars, halVars, mishaps>>)
  /\ \A b \in Btns : WF_usbVars(hal_btn_get_state(b) /\ UNCHANGED <<deviceVars, mishaps>>)

UsbSpec == UsbInit /\ [][UsbNext]_usbVars /\ Fairness

-----------------------------------------------------------------------------
(* Properties.                                                             *)

(***************************************************************************)
(* Every HAL call of the host daemon returns, also when the display leaves *)
(* in the middle of it or nothing on the device reads commands any more:   *)
(* the daemon, which is one thread, stays there for its other clients.     *)
(***************************************************************************)
HalReturns == []<>(hal.pc = "idle")

(***************************************************************************)
(* A command that hal_lcd_* reported as written is written to the mmlcd    *)
(* daemon on the device, once and in the order of the calls, whatever      *)
(* happens to the connection meanwhile; only a functionfs daemon that dies *)
(* or a write through a freed context can lose one.                        *)
(***************************************************************************)
AckedForwarded ==
  dead = "no" /\ "dev_write" \notin stale =>
    IF cmdth = "forward" THEN fwd < buf /\ buf = acked ELSE fwd = acked

(* A display that stays bound, with a button that stays in a state and has *)
(* had an event since the display was bound.                               *)
Steady(d, b, s) ==
  /\ loaded /\ d \in plugged /\ phase[d] = "bound"
  /\ dead = "no" /\ served
  /\ btn[b] = s /\ reported[d][b] # "none"

(***************************************************************************)
(* The host catches up with a button that stays in a state: in the end     *)
(* every hal_btn_get_state returns it.  Before the first event since the   *)
(* display was bound it need not (mmlcd_proc.c:55, libmmlcd.c:175): the    *)
(* kernel module starts from "released", and events of before are lost.    *)
(***************************************************************************)
HostCatchesUp ==
  \A d \in Devs, b \in Btns, s \in States :
    <>[]Steady(d, b, s) =>
      <>[](hal.b = b => hal.got \in {"none", s}) /\ []<>(hal.b = b /\ hal.got = s)
=============================================================================
