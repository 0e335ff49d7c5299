--------------------------- MODULE UsbPathProofs ----------------------------
(***************************************************************************)
(* Proofs about the whole way between the host daemon's HAL and the        *)
(* functionfs daemon, for any displays, buttons, commands and mishaps.     *)
(*                                                                         *)
(* The kernel module takes no step here that MmlcdDriver does not allow it *)
(* (UsesDriver), so that what is proved there holds here.  On top of it    *)
(* HalInv follows the HAL's one file through a call, and PathInv the       *)
(* commands from the HAL's counter over the command thread to the mmlcd    *)
(* daemon's socket.                                                        *)
(***************************************************************************)
EXTENDS UsbPath, MmlcdDriverUseProofs

(***************************************************************************)
(* Both ends agree on the commands as long as no write went through a      *)
(* freed context and the functionfs daemon lives.                          *)
(***************************************************************************)
Intact == dead = "no" /\ "dev_write" \notin stale

HalType ==
  /\ hal \in [pc : {"idle", "open_dev", "write", "close", "open_proc",
                    "scan"},
              b : Btns, got : States \cup {"none"}]
  /\ cmds \in 0 .. MaxCmds /\ acked \in 0 .. MaxCmds

(* The HAL's file is open only between its open and its close.             *)
HalInv ==
  /\ hal.pc \in {"idle", "open_dev"} => file[HalFile] = Closed
  /\ hal.pc = "open_proc" =>
       file[HalFile] = Closed \/ file[HalFile].kind = "opening"

(***************************************************************************)
(* A command the HAL is still writing is not acknowledged, and before main *)
(* has created the command thread there is none.                           *)
(***************************************************************************)
PathInv ==
  /\ acked <= cmds
  /\ Intact /\ hal.pc \in {"open_dev", "write"} => acked < cmds
  /\ ffs \in {"start", "register", "create"} => cmdth = "none"
  /\ AckedForwarded

(* What the rest of the system does to the kernel module, it allows.       *)
LEMMA UsbDriverStep ==
  ASSUME [UsbNext]_usbVars
  PROVE  [Next]_vars
<1> USE HalAssumption, DriverAssumption
<1>1. CASE Attach \/ Detach \/ ButtonEvent
  BY <1>1 DEF Attach, Detach, ButtonEvent, Next
<1>2. CASE Command
  BY <1>2 DEF Command, WriteOk, WriteStale, WriteFails, Next, User
<1>3. CASE Host
  BY <1>3 DEF Host, Next
<1>4. CASE Hal
  <2>1. CASE open_mmlcd_dev
    BY <2>1 DEF open_mmlcd_dev, Next, User
  <2>2. CASE open_mmlcd_proc_btn
    <3>1. CASE mmlcd_proc_open(HalFile, BtnEntry(hal.b))
      BY <3>1 DEF mmlcd_proc_open, Next, User
    <3>2. CASE mmlcd_proc_open_store(HalFile)
      BY <3>2 DEF Next, User
    <3>3. QED
      BY <2>2, <3>1, <3>2 DEF open_mmlcd_proc_btn
  <2>3. CASE fscanf
    BY <2>3 DEF fscanf, Next, User
  <2>4. CASE close
    BY <2>4 DEF close, Next, User
  <2>5. QED
    BY <1>4, <2>1, <2>2, <2>3, <2>4 DEF Hal
<1>5. CASE hal_lcd \/ \E b \in Btns : hal_btn_get_state(b)
  BY <1>5 DEF hal_lcd, hal_btn_get_state
<1>6. CASE UNCHANGED vars
  BY <1>6
<1>7. QED
  BY <1>1, <1>2, <1>3, <1>4, <1>5, <1>6 DEF UsbNext, usbVars

(***************************************************************************)
(* The kernel module between the HAL and the bus is MmlcdDriver's: all     *)
(* that is proved of it holds on the way as a whole.                       *)
(***************************************************************************)
THEOREM UsesDriver == UsbSpec => Spec
<1>1. UsbInit => Init
  BY DEF UsbInit
<1>2. [UsbNext]_usbVars => [Next]_vars
  BY UsbDriverStep
<1>3. QED
  BY <1>1, <1>2, PTL DEF UsbSpec, Spec

-----------------------------------------------------------------------------
(* The HAL's call and its file.                                            *)

LEMMA HalTypeInit == UsbInit => HalType
BY HalAssumption, DriverAssumption
DEF UsbInit, HalInit, HalType, Idle, Btns

(* What a read returns is a state, or nothing.                             *)
LEMMA ReadsStates ==
  ASSUME TypeOK'
  PROVE  val'[HalFile] \in States \cup {"none"}
BY HalAssumption DEF TypeOK

LEMMA HalTypeStep ==
  ASSUME HalType, TypeOK', [UsbNext]_usbVars
  PROVE  HalType'
<1> USE HalAssumption, DriverAssumption
<1>0. Idle \in [pc : {"idle"}, b : Btns, got : {"none"}]
  BY DEF Idle, Btns
<1>1. CASE Attach \/ Detach \/ ButtonEvent \/ Host \/ UNCHANGED halVars
  BY <1>1 DEF Attach, Detach, ButtonEvent, Host, HalType, halVars
<1>2. CASE Command
  BY <1>2 DEF Command, WriteOk, WriteStale, WriteFails, HalType
<1>3. CASE Hal
  <2>1. CASE open_mmlcd_dev
    BY <1>0, <2>1 DEF open_mmlcd_dev, HalType
  <2>2. CASE open_mmlcd_proc_btn
    BY <1>0, <2>2 DEF open_mmlcd_proc_btn, HalType
  <2>3. CASE fscanf
    BY <2>3, ReadsStates DEF fscanf, HalType
  <2>4. CASE close
    BY <1>0, <2>4 DEF close, HalType
  <2>5. QED
    BY <1>3, <2>1, <2>2, <2>3, <2>4 DEF Hal
<1>4. CASE hal_lcd
  <2>1. cmds' \in 0 .. MaxCmds
    BY <1>4 DEF hal_lcd, HalType
  <2>2. QED
    BY <1>0, <1>4, <2>1 DEF hal_lcd, HalType
<1>5. CASE \E b \in Btns : hal_btn_get_state(b)
  BY <1>0, <1>5 DEF hal_btn_get_state, HalType
<1>6. QED
  BY <1>1, <1>2, <1>3, <1>4, <1>5 DEF UsbNext, usbVars

LEMMA HalTyped == UsbSpec => []TypeOK /\ []HalType
<1>1. UsbSpec => []TypeOK
  BY UsesDriver, DriverTypes, PTL
<1>2. QED
  BY <1>1, HalTypeInit, HalTypeStep, PTL DEF UsbSpec

(* Only the HAL opens its file; whatever else happens to it closes it.     *)
LEMMA HalInvStep ==
  ASSUME HalType, TypeOK, HalInv, [UsbNext]_usbVars
  PROVE  HalInv'
<1> USE HalAssumption DEF HalInv
<1>0. file \in [Files -> Opened \cup {Closed}]
  BY DEF TypeOK
<1>1. CASE UNCHANGED vars /\ UNCHANGED halVars
  BY <1>1 DEF vars, halVars
<1>2. CASE Attach \/ Detach \/ ButtonEvent
  <2>1. UNCHANGED <<hal, file>>
    BY <1>2
    DEF Attach, Detach, ButtonEvent, Plug, Unplug, mmlcd_proc_int_in_irq,
        fileVars, halVars
  <2>2. QED
    BY <2>1
<1>3. CASE Host
  <2>1. UNCHANGED hal
    BY <1>3 DEF Host, halVars
  <2>2. file'[HalFile] = file[HalFile] \/ file'[HalFile] = Closed
    BY <1>0, <1>3
    DEF Host, Probe, Disconnect, mmlcd_init, mmlcd_create_ctx,
        usb_register_dev, usb_submit_urb, mmlcd_proc_init,
        usb_disable_interface, mmlcd_proc_deinit, proc_remove,
        usb_deregister_dev, mmlcd_disconnect, fileVars
  <2>3. QED
    BY <2>1, <2>2
<1>4. CASE Command
  BY <1>4 DEF Command, WriteOk, WriteStale, WriteFails, HalType
<1>5. CASE Hal
  <2>1. CASE open_mmlcd_dev
    BY <2>1 DEF open_mmlcd_dev, HalType, vars
  <2>2. CASE open_mmlcd_proc_btn
    <3>1. CASE mmlcd_proc_open(HalFile, BtnEntry(hal.b)) /\ UNCHANGED hal
      <4>1. file'[HalFile].kind = "opening"
        BY <1>0, <3>1 DEF mmlcd_proc_open
      <4>2. hal.pc = "open_proc"
        BY <2>2 DEF open_mmlcd_proc_btn
      <4>3. QED
        BY <3>1, <4>1, <4>2
    <3>2. CASE hal' = [hal EXCEPT !.pc = "scan"]
      BY <3>2 DEF HalType
    <3>3. CASE hal' = Idle /\ file[HalFile] = Closed /\ UNCHANGED vars
      BY <3>3 DEF Idle, vars
    <3>4. QED
      BY <2>2, <3>1, <3>2, <3>3 DEF open_mmlcd_proc_btn
  <2>3. CASE fscanf
    BY <2>3 DEF fscanf, HalType
  <2>4. CASE close
    BY <1>0, <2>4 DEF close, dev_release, vars
  <2>5. QED
    BY <1>5, <2>1, <2>2, <2>3, <2>4 DEF Hal
<1>6. CASE hal_lcd \/ \E b \in Btns : hal_btn_get_state(b)
  <2>1. hal = Idle /\ UNCHANGED vars
    BY <1>6 DEF hal_lcd, hal_btn_get_state
  <2>2. QED
    BY <2>1 DEF Idle, vars
<1>7. QED
  BY <1>1, <1>2, <1>3, <1>4, <1>5, <1>6 DEF UsbNext, usbVars

(***************************************************************************)
(* hal.c: every path through a call closes what it opened, also when the   *)
(* display leaves at any of its steps, for any number of calls.            *)
(***************************************************************************)
THEOREM HalClosesFile == UsbSpec => []NoFileLeaked
<1>1. UsbInit => HalInv
  BY HalAssumption DEF UsbInit, Init, HalInit, HalInv
<1>2. UsbSpec => []HalInv
  BY <1>1, HalTyped, HalInvStep, PTL DEF UsbSpec
<1>3. HalInv => NoFileLeaked
  BY DEF HalInv, NoFileLeaked
<1>4. QED
  BY <1>2, <1>3, PTL

-----------------------------------------------------------------------------
(* The commands' way.                                                      *)

LEMMA StaleStays ==
  ASSUME [Next]_vars
  PROVE  "dev_write" \in stale => "dev_write" \in stale'
BY DEF Next, vars, mmlcd_init, mmlcd_cleanup, Plug, Unplug, Probe,
       Disconnect, mmlcd_create_ctx, usb_register_dev, usb_submit_urb,
       mmlcd_proc_init, usb_disable_interface, mmlcd_proc_deinit,
       usb_deregister_dev, mmlcd_disconnect, mmlcd_proc_int_in_irq, User,
       dev_open, mmlcd_proc_open, mmlcd_proc_open_store, dev_release,
       dev_write, mmlcd_proc_read

(* A step that leaves commands, acknowledgements and forwarding alone.     *)
LEMMA PathKept ==
  ASSUME PathInv, UNCHANGED <<halVars, cmdth, buf, fwd>>,
         ffs' = ffs \/ cmdth = "none", Intact' => Intact
  PROVE  PathInv'
BY DEF PathInv, AckedForwarded, Intact, halVars

(* The steps of the library leave the functionfs daemon's variables alone, *)
(* and none of them revives it.                                            *)
LEMMA ThreadKeeps ==
  ASSUME NEW t \in {"poll"},
         \/ Ffs!btn_poll_thread(t) \/ Ffs!Reply(t)
         \/ Ffs!CallbackReturns(t)
  PROVE  dead' = "no" => dead = "no"
BY DEF Ffs!btn_poll_thread, Ffs!ThreadEnds, Ffs!Ask, Ffs!Compare,
       Ffs!CallCbk, Ffs!Reply, Ffs!CallbackReturns

LEMMA BusPath ==
  ASSUME PathInv, Attach \/ Detach \/ ButtonEvent,
         "dev_write" \in stale => "dev_write" \in stale'
  PROVE  PathInv'
<1>1. CASE Attach
  BY <1>1, PathKept DEF Attach, Ffs!Enable, Ffs!libVars, Intact
<1>2. CASE Detach
  <2>1. dead' = "no" => dead = "no"
    BY <1>2
    DEF Detach, Ffs!Disable, Ffs!libVars, Ffs!CallbackReturns
  <2>2. UNCHANGED <<hal, cmds, acked, ffs, buf, fwd>>
    BY <1>2 DEF Detach, Ffs!Disable, halVars
  <2>3. cmdth' = IF cmdth = "read" THEN "ended" ELSE cmdth
    BY <1>2 DEF Detach, Ffs!Disable, Ffs!cmd_ep_shutdown
  <2>4. QED
    BY <2>1, <2>2, <2>3 DEF PathInv, AckedForwarded, Intact
<1>3. CASE ButtonEvent
  BY <1>3, ThreadKeeps, PathKept
  DEF ButtonEvent, Ffs!btn_event_callback, Ffs!ffsVars, Intact
<1>4. QED
  BY <1>1, <1>2, <1>3

(* The HAL's write: what is acknowledged is in the command thread's hands, *)
(* or the write went through a freed context.                              *)
LEMMA CommandPath ==
  ASSUME PathInv, HalType, Command,
         "dev_write" \in stale => "dev_write" \in stale'
  PROVE  PathInv'
<1>0. cmds \in Nat /\ acked \in Nat
  BY HalAssumption DEF HalType
<1>1. CASE WriteOk /\ Ffs!cmd_ep_read(cmds)
  <2>1. /\ dead = "no" /\ dead' = dead /\ cmdth = "read"
        /\ cmdth' = "forward" /\ buf' = cmds /\ fwd' = fwd /\ ffs' = ffs
    BY <1>1 DEF Ffs!cmd_ep_read, Ffs!Listening, Ffs!libVars
  <2>2. /\ hal.pc = "write" /\ hal'.pc = "close"
        /\ acked' = cmds /\ cmds' = cmds
    BY <1>1 DEF WriteOk, HalType
  <2>3. QED
    BY <1>0, <2>1, <2>2 DEF PathInv, AckedForwarded, Intact
<1>2. CASE WriteFails(Ffs!Listening) /\ UNCHANGED deviceVars
  <2>1. /\ hal'.pc = "close" /\ UNCHANGED <<cmds, acked>>
    BY <1>2 DEF WriteFails, HalType
  <2>2. UNCHANGED <<dead, ffs, cmdth, buf, fwd>>
    BY <1>2 DEF deviceVars
  <2>3. QED
    BY <2>1, <2>2 DEF PathInv, AckedForwarded, Intact
<1>3. CASE WriteStale /\ UNCHANGED deviceVars
  <2>1. /\ hal'.pc = "close" /\ acked' \in {acked, cmds} /\ cmds' = cmds
        /\ "dev_write" \in stale'
    BY <1>3 DEF WriteStale, HalType, Ctx, dev_write
  <2>2. UNCHANGED <<dead, ffs, cmdth, buf, fwd>>
    BY <1>3 DEF deviceVars
  <2>3. QED
    BY <1>0, <2>1, <2>2 DEF PathInv, AckedForwarded, Intact
<1>4. CASE WriteStale /\ Ffs!cmd_ep_read(cmds)
  <2>1. /\ hal'.pc = "close" /\ acked' \in {acked, cmds} /\ cmds' = cmds
        /\ "dev_write" \in stale'
    BY <1>4 DEF WriteStale, HalType, Ctx, dev_write
  <2>2. cmdth = "read" /\ UNCHANGED ffs
    BY <1>4 DEF Ffs!cmd_ep_read, Ffs!Listening
  <2>3. QED
    BY <1>0, <2>1, <2>2 DEF PathInv, AckedForwarded, Intact
<1>5. QED
  BY <1>1, <1>2, <1>3, <1>4 DEF Command

LEMMA HalPath ==
  ASSUME PathInv, HalType,
         Hal \/ hal_lcd \/ \E b \in Btns : hal_btn_get_state(b),
         UNCHANGED deviceVars,
         "dev_write" \in stale => "dev_write" \in stale'
  PROVE  PathInv'
<1>0. /\ cmds \in Nat /\ acked \in Nat
      /\ UNCHANGED <<dead, ffs, cmdth, buf, fwd>>
  BY HalAssumption DEF HalType, deviceVars
<1>1. CASE hal_lcd
  <2>1. cmds' = cmds + 1 /\ acked' = acked
    BY <1>1 DEF hal_lcd
  <2>2. QED
    BY <1>0, <2>1 DEF PathInv, AckedForwarded, Intact
<1>2. CASE Hal \/ \E b \in Btns : hal_btn_get_state(b)
  <2>1. UNCHANGED <<cmds, acked>>
    BY <1>2 DEF Hal, open_mmlcd_dev, open_mmlcd_proc_btn, fscanf, close,
                hal_btn_get_state
  <2>2. hal'.pc \in {"open_dev", "write"} => hal.pc = "open_dev"
    <3>1. CASE \E b \in Btns : hal_btn_get_state(b)
      <4>1. hal'.pc = "open_proc"
        BY <3>1 DEF hal_btn_get_state, Idle
      <4>2. QED
        BY <4>1
    <3>2. CASE open_mmlcd_dev \/ close
      BY <3>2 DEF open_mmlcd_dev, close, Idle
    <3>3. CASE open_mmlcd_proc_btn
      BY <3>3 DEF open_mmlcd_proc_btn, Idle, HalType
    <3>4. CASE fscanf
      BY <3>4 DEF fscanf, HalType
    <3>5. QED
      BY <1>2, <3>1, <3>2, <3>3, <3>4 DEF Hal
  <2>3. QED
    BY <1>0, <2>1, <2>2 DEF PathInv, AckedForwarded, Intact
<1>3. QED
  BY <1>1, <1>2

LEMMA DevicePath ==
  ASSUME PathInv, Device \/ Surroundings, UNCHANGED <<vars, halVars>>
  PROVE  PathInv'
<1>0. UNCHANGED stale /\ UNCHANGED halVars
  BY DEF vars
<1>1. CASE Ffs!connect \/ Ffs!register("btn_event_callback")
  <2>1. /\ UNCHANGED <<cmdth, buf, fwd>> /\ dead' = dead
        /\ ffs' = ffs \/ ffs \in {"start", "register"}
    BY <1>1
    DEF Ffs!connect, Ffs!register, Ffs!libVars, Ffs!Start,
        Ffs!liblcd_register_btn_event_callback
  <2>2. QED
    BY <1>0, <2>1, PathKept DEF PathInv, Intact
<1>2. CASE Ffs!create_cmd_thread
  <2>1. /\ ffs = "create" /\ ffs' = "loop" /\ cmdth' \in {"read", "none"}
        /\ UNCHANGED <<dead, buf, fwd>>
    BY <1>2 DEF Ffs!create_cmd_thread, Ffs!libVars
  <2>2. QED
    BY <1>0, <2>1 DEF PathInv, AckedForwarded, Intact, halVars
<1>3. CASE Ffs!handle_cmd_ep
  BY <1>0, <1>3
  DEF Ffs!handle_cmd_ep, PathInv, AckedForwarded, Intact, halVars
<1>4. CASE /\ Ffs!btn_poll_thread("poll") \/ Ffs!Reply("poll")
           /\ UNCHANGED <<ffs, enabled, cmdth, buf, fwd>>
  BY <1>0, <1>4, ThreadKeeps, PathKept DEF Intact
<1>5. CASE Surroundings
  BY <1>0, <1>5, PathKept
  DEF Surroundings, Ffs!DaemonExit, Ffs!Press, Intact
<1>6. QED
  BY <1>1, <1>2, <1>3, <1>4, <1>5 DEF Device, Ffs!main

LEMMA PathStep ==
  ASSUME PathInv, HalType, [UsbNext]_usbVars
  PROVE  PathInv'
<1>0. "dev_write" \in stale => "dev_write" \in stale'
  BY UsbDriverStep, StaleStays
<1>1. CASE Host \/ UNCHANGED usbVars
  <2>1. UNCHANGED halVars /\ UNCHANGED deviceVars
    BY <1>1 DEF Host, usbVars
  <2>2. QED
    BY <1>0, <2>1, PathKept DEF deviceVars, Intact
<1>2. QED
  BY <1>0, <1>1, BusPath, CommandPath, HalPath, DevicePath DEF UsbNext

(***************************************************************************)
(* The way of a command: what hal_lcd_* reports as written on the host is  *)
(* written to the mmlcd daemon on the device, in order and once, whenever  *)
(* the display is unplugged and plugged in again.                          *)
(***************************************************************************)
THEOREM AckedCommandsForwarded == UsbSpec => []AckedForwarded
<1>1. UsbInit => PathInv
  BY DEF UsbInit, HalInit, Idle, Ffs!FfsInit, PathInv, AckedForwarded
<1>2. UsbSpec => []PathInv
  BY <1>1, HalTyped, PathStep, PTL DEF UsbSpec
<1>3. PathInv => AckedForwarded
  BY DEF PathInv
<1>4. QED
  BY <1>2, <1>3, PTL

-----------------------------------------------------------------------------
(* The device.  What LibMmlcdProofs proves of the library's steps is used  *)
(* for the library inside the functionfs daemon, with its one callback,    *)
(* its one thread and its one registration.                                *)

Lib == INSTANCE LibMmlcdProofs WITH
         Cbks <- {"btn_event_callback"}, NULL <- "NULL", Threads <- {"poll"},
         MaxRegs <- 1

LEMMA DeviceAssumption == Lib!LibAssumption
BY DriverAssumption, UsbAssumption DEF Lib!LibAssumption

(* main registers its callback and never unregisters it.                   *)
Registering == app \in {"idle", "start"}

FfsType ==
  /\ ffs \in {"start", "register", "create", "loop", "exited"}
  /\ enabled \in BOOLEAN
  /\ cmdth \in {"none", "read", "forward", "ended"}

CmdType == buf \in Nat /\ fwd \in Nat /\ mishaps \in 0 .. MaxMishaps

(***************************************************************************)
(* What a step does to the library: one of its own steps, none, or the     *)
(* whole process dies in the command thread.                               *)
(***************************************************************************)
Dies ==
  /\ dead = "no" /\ dead' = "pipe"
  /\ UNCHANGED <<btn, served, app, regs, cbk, running, id, th, prev, told>>

LEMMA DeviceLibStep ==
  ASSUME [UsbNext]_usbVars
  PROVE  [Lib!LibNext]_(Lib!libVars) \/ Dies
<1>1. CASE Ffs!btn_poll_thread("poll") \/ Ffs!Reply("poll")
           \/ Ffs!CallbackReturns("poll")
  BY <1>1
  DEF Lib!LibNext, Ffs!btn_poll_thread, Ffs!ThreadEnds, Ffs!Ask, Ffs!Compare,
      Ffs!CallCbk, Ffs!Reply, Ffs!CallbackReturns, Ffs!NextBtn, Ffs!PassOn,
      Lib!btn_poll_thread, Lib!ThreadEnds, Lib!Ask, Lib!Compare,
      Lib!CallCbk, Lib!Reply, Lib!CallbackReturns, Lib!NextBtn, Lib!PassOn
<1>2. CASE Ffs!handle_cmd_ep
  BY <1>2 DEF Ffs!handle_cmd_ep, Dies, Lib!libVars
<1>3. CASE Ffs!main("btn_event_callback")
  BY <1>3
  DEF Ffs!main, Ffs!connect, Ffs!register, Ffs!create_cmd_thread,
      Ffs!liblcd_register_btn_event_callback, Ffs!Start, Ffs!NoThread,
      Ffs!libVars, Lib!libVars, Lib!LibNext, Lib!Env, Lib!App, Lib!Start,
      Lib!NoThread, Lib!liblcd_register_btn_event_callback
<1>4. CASE Surroundings
  BY <1>4
  DEF Surroundings, Ffs!DaemonExit, Ffs!Press, Btns, Lib!LibNext, Lib!Env,
      Lib!LibBtns, Lib!DaemonExit, Lib!Press
<1>5. CASE UNCHANGED Ffs!libVars
  BY <1>5 DEF Ffs!libVars, Lib!libVars
<1>6. CASE Attach \/ Detach \/ ButtonEvent \/ Command
  BY <1>1, <1>5, <1>6
  DEF Attach, Detach, ButtonEvent, Command, Ffs!Enable, Ffs!Disable,
      Ffs!Writing, Ffs!btn_event_callback, Ffs!cmd_ep_read, deviceVars,
      Ffs!libVars
<1>7. CASE UNCHANGED deviceVars
  BY <1>7 DEF deviceVars, Lib!libVars
<1>8. QED
  BY <1>1, <1>2, <1>3, <1>4, <1>6, <1>7 DEF UsbNext, usbVars, Host, Device

(* The library's invariants survive a step of the whole system.            *)
LEMMA DeviceLibInv ==
  ASSUME Lib!LibInv, [UsbNext]_usbVars
  PROVE  Lib!LibInv'
<1>1. CASE [Lib!LibNext]_(Lib!libVars)
  BY <1>1, DeviceAssumption, Lib!LibStep
<1>2. CASE Dies
  <2>1. btn' \in [Lib!LibBtns -> Lib!BtnStates]
    BY <1>2 DEF Dies, Lib!LibInv, Lib!DataType
  <2>2. QED
    BY <1>2, <2>1, DeviceAssumption, Lib!StillStep DEF Dies
<1>3. QED
  BY <1>1, <1>2, DeviceLibStep

LEMMA DeviceFlags ==
  ASSUME Lib!FlagType, Lib!RegsType, [UsbNext]_usbVars
  PROVE  Lib!FlagType' /\ Lib!RegsType'
<1>1. CASE [Lib!LibNext]_(Lib!libVars)
  BY <1>1, DeviceAssumption, Lib!FlagStep, Lib!RegsStep
<1>2. CASE Dies
  BY <1>2 DEF Dies, Lib!FlagType, Lib!RegsType
<1>3. QED
  BY <1>1, <1>2, DeviceLibStep

(* The functionfs daemon never gets to unregister its callback.            *)
LEMMA StaysRegistered ==
  ASSUME Registering, [UsbNext]_usbVars
  PROVE  Registering'
<1>1. CASE Ffs!register("btn_event_callback")
  <2>1. app' \in {"idle", "start"}
    BY <1>1
    DEF Ffs!register, Ffs!liblcd_register_btn_event_callback, Ffs!Start
  <2>2. QED
    BY <2>1 DEF Registering
<1>2. CASE UNCHANGED app
  BY <1>2 DEF Registering
<1>3. CASE Ffs!connect \/ Ffs!create_cmd_thread \/ Ffs!handle_cmd_ep
  BY <1>2, <1>3
  DEF Ffs!connect, Ffs!create_cmd_thread, Ffs!handle_cmd_ep, Ffs!libVars
<1>4. CASE Ffs!btn_poll_thread("poll") \/ Ffs!Reply("poll")
  BY <1>2, <1>4
  DEF Ffs!btn_poll_thread, Ffs!ThreadEnds, Ffs!Ask, Ffs!Compare,
      Ffs!CallCbk, Ffs!Reply
<1>5. CASE Attach \/ Detach \/ ButtonEvent
  BY <1>2, <1>5
  DEF Attach, Detach, ButtonEvent, Ffs!Enable, Ffs!Disable,
      Ffs!btn_event_callback, Ffs!CallbackReturns, Ffs!libVars
<1>6. CASE Command \/ Surroundings \/ UNCHANGED deviceVars
  BY <1>2, <1>6
  DEF Command, Surroundings, Ffs!cmd_ep_read, Ffs!libVars, deviceVars,
      Ffs!DaemonExit, Ffs!Press
<1>7. QED
  BY <1>1, <1>3, <1>4, <1>5, <1>6
  DEF UsbNext, usbVars, Host, Device, Ffs!main

LEMMA FfsTypeStep ==
  ASSUME FfsType, [UsbNext]_usbVars
  PROVE  FfsType'
<1> USE DEF FfsType
<1>1. CASE Ffs!main("btn_event_callback") \/ Ffs!handle_cmd_ep
  BY <1>1
  DEF Ffs!main, Ffs!connect, Ffs!register, Ffs!create_cmd_thread,
      Ffs!handle_cmd_ep
<1>2. CASE Attach \/ Detach
  BY <1>2
  DEF Attach, Detach, Ffs!Enable, Ffs!Disable, Ffs!cmd_ep_shutdown
<1>3. CASE ButtonEvent \/ Command
  BY <1>3
  DEF ButtonEvent, Command, Ffs!btn_event_callback, Ffs!ffsVars,
      Ffs!cmd_ep_read, deviceVars
<1>4. CASE UNCHANGED <<ffs, enabled, cmdth, buf, fwd>>
  BY <1>4
<1>5. CASE UNCHANGED deviceVars
  BY <1>5 DEF deviceVars
<1>6. QED
  BY <1>1, <1>2, <1>3, <1>4, <1>5
  DEF UsbNext, usbVars, Host, Device, Surroundings

LEMMA CmdTypeStep ==
  ASSUME CmdType, HalType, [UsbNext]_usbVars
  PROVE  CmdType'
<1>0. cmds \in Nat
  BY HalAssumption DEF HalType
<1>1. buf' \in Nat /\ fwd' \in Nat
  <2>1. CASE Ffs!main("btn_event_callback") \/ Ffs!handle_cmd_ep
    BY <2>1
    DEF Ffs!main, Ffs!connect, Ffs!register, Ffs!create_cmd_thread,
        Ffs!handle_cmd_ep, CmdType
  <2>2. CASE Attach \/ Detach \/ ButtonEvent \/ Command
    BY <1>0, <2>2
    DEF Attach, Detach, ButtonEvent, Command, Ffs!Enable, Ffs!Disable,
        Ffs!btn_event_callback, Ffs!ffsVars, Ffs!cmd_ep_read, deviceVars,
        CmdType
  <2>3. CASE UNCHANGED <<ffs, enabled, cmdth, buf, fwd>>
    BY <2>3 DEF CmdType
  <2>4. CASE UNCHANGED deviceVars
    BY <2>4 DEF deviceVars, CmdType
  <2>5. QED
    BY <2>1, <2>2, <2>3, <2>4
    DEF UsbNext, usbVars, Host, Device, Surroundings
<1>2. mishaps' = mishaps \/ Mishap
  BY DEF UsbNext, usbVars, Attach, Detach, ButtonEvent, Command, Host,
         Surroundings
<1>3. mishaps' \in 0 .. MaxMishaps
  BY <1>2, UsbAssumption DEF Mishap, CmdType
<1>4. QED
  BY <1>1, <1>3 DEF CmdType

LEMMA DeviceInit ==
  ASSUME UsbInit
  PROVE  /\ Lib!LibInv /\ Lib!FlagType /\ Lib!RegsType
         /\ Registering /\ FfsType /\ CmdType
<1>1. Lib!LibInit
  <2>1. Ffs!LibInit
    BY DEF UsbInit, Ffs!FfsInit
  <2>2. /\ Ffs!LibBtns = Lib!LibBtns /\ Ffs!BtnStates = Lib!BtnStates
        /\ Ffs!NoThread = Lib!NoThread
    BY DEF Ffs!LibBtns, Ffs!BtnStates, Ffs!NoThread, Lib!LibBtns,
           Lib!BtnStates, Lib!NoThread
  <2>3. QED
    BY <2>1, <2>2, Zenon DEF Ffs!LibInit, Lib!LibInit
<1>2. Lib!LibInv
  BY <1>1, DeviceAssumption, Lib!LibInitInv
<1>3. Lib!FlagType
  BY <1>1 DEF Lib!LibInit, Lib!FlagType
<1>4. Lib!RegsType
  BY <1>1 DEF Lib!LibInit, Lib!RegsType
<1>5. Registering /\ FfsType
  BY <1>1 DEF Lib!LibInit, UsbInit, Ffs!FfsInit, Registering, FfsType
<1>6. CmdType
  BY UsbAssumption DEF UsbInit, Ffs!FfsInit, CmdType
<1>7. QED
  BY <1>2, <1>3, <1>4, <1>5, <1>6

LEMMA DeviceHolds ==
  UsbSpec => /\ []Lib!LibInv /\ []Lib!FlagType /\ []Lib!RegsType
             /\ []Registering /\ []FfsType /\ []CmdType
BY DeviceInit, DeviceLibInv, DeviceFlags, StaysRegistered, FfsTypeStep,
   CmdTypeStep, HalTyped, PTL DEF UsbSpec

(***************************************************************************)
(* Type correctness of both ends and the bus, for any number of displays,  *)
(* buttons, commands and mishaps; in particular every button and state     *)
(* that reaches the kernel module or the HAL is one.                       *)
(***************************************************************************)
THEOREM UsbTypes == UsbSpec => []UsbTypeOK
<1>1. HalType => HalTypeOK
  BY DEF HalType, HalTypeOK
<1>2. Lib!LibInv /\ Lib!FlagType /\ Lib!RegsType => Ffs!LibTypeOK
  <2>1. Ffs!LibBtns = Lib!LibBtns /\ Ffs!BtnStates = Lib!BtnStates
    BY DEF Ffs!LibBtns, Ffs!BtnStates, Lib!LibBtns, Lib!BtnStates
  <2>2. QED
    BY <2>1
    DEF Lib!LibInv, Lib!DataType, Lib!FlagType, Lib!RegsType, Lib!Thread,
        Ffs!LibTypeOK
<1>3. ASSUME TypeOK, HalType, Lib!LibInv, Lib!FlagType, Lib!RegsType,
             FfsType, CmdType
      PROVE  UsbTypeOK
  BY <1>1, <1>2, <1>3 DEF UsbTypeOK, Ffs!FfsTypeOK, FfsType, CmdType
<1>4. QED
  BY <1>3, HalTyped, DeviceHolds, PTL

(* The functionfs daemon's polling thread is there while its callback is,   *)
(* and calls it and nothing else.                                          *)
FfsPolls == dead # "null" /\ Ffs!ThreadFollowsRegistration

(***************************************************************************)
(* ffs-mmlcd.c registers its callback once and for good, so the unlocked   *)
(* double read of libmmlcd.c:177-179 cannot make its thread call NULL, and *)
(* its one polling thread is there exactly while the callback is.          *)
(***************************************************************************)
THEOREM FfsPollsSafely == UsbSpec => []FfsPolls
<1>1. Lib!LibInv => Ffs!ThreadFollowsRegistration
  BY DEF Lib!LibInv, Lib!DataType, Lib!ThreadInv, Ffs!Alive,
         Ffs!ThreadFollowsRegistration
<1>2. Lib!LibInv /\ Registering => dead # "null"
  BY DEF Lib!LibInv, Lib!NullOnlyUnregistering, Registering
<1>3. Lib!LibInv /\ Registering => FfsPolls
  BY <1>1, <1>2 DEF FfsPolls
<1>4. QED
  BY <1>3, DeviceHolds, PTL
=============================================================================
