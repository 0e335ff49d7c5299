------------------------------- MODULE HalX86 -------------------------------
(***************************************************************************)
(* The HAL of the mmlcd daemon on the USB host (hal/x86/hal.c): every call *)
(* opens a file of the kernel module (MmlcdDriver), uses it once and       *)
(* closes it.  The daemon is one thread, so there is one call at a time;   *)
(* displays come and go between its steps.                                 *)
(***************************************************************************)
EXTENDS MmlcdDriver

CONSTANTS
  HalFile,   \* the file descriptor the HAL uses
  Addr,      \* the display's address: the minor number in the file names
  MaxCmds    \* bound: display commands

ASSUME HalAssumption ==
  HalFile \in Files /\ Addr \in 0 .. Minors - 1 /\ MaxCmds \in Nat

VARIABLES
  hal,    \* the call in progress: its step, its button, what it will return
  cmds,   \* display commands issued
  acked   \* history: the last one for which the HAL returned 0

halVars == <<hal, cmds, acked>>

Idle == [pc |-> "idle", b |-> 0, got |-> "none"]

HalTypeOK ==
  /\ hal.pc \in {"idle", "open_dev", "write", "close", "open_proc", "scan"}
  /\ hal.b \in Btns /\ hal.got \in States \cup {"none"}
  /\ cmds \in 0 .. MaxCmds /\ acked \in 0 .. MaxCmds

HalInit ==
  /\ hal = Idle /\ cmds = 0 /\ acked = 0

(***************************************************************************)
(* hal_lcd_display_string_pos, hal_lcd_clear, hal_lcd_backlight: the same  *)
(* steps for a request of their own, here a number.                        *)
(***************************************************************************)
hal_lcd ==
  /\ hal = Idle /\ cmds < MaxCmds
  /\ hal' = [Idle EXCEPT !.pc = "open_dev"]
  /\ cmds' = cmds + 1
  /\ UNCHANGED <<vars, acked>>

hal_btn_get_state(b) ==
  /\ hal = Idle
  /\ hal' = [Idle EXCEPT !.pc = "open_proc", !.b = b]
  /\ UNCHANGED <<vars, cmds, acked>>

open_mmlcd_dev ==
  /\ hal.pc = "open_dev"
  /\ \/ dev_open(HalFile, Addr) /\ hal' = [hal EXCEPT !.pc = "write"]
     \/ ByMinor(Addr) = {} /\ hal' = Idle /\ UNCHANGED vars
  /\ UNCHANGED <<cmds, acked>>

Ctx == file[HalFile].ctx

(* The display takes the transfer.                                         *)
WriteOk ==
  /\ hal.pc = "write" /\ Ctx \in live /\ dev_write(HalFile)
  /\ hal' = [hal EXCEPT !.pc = "close"]
  /\ acked' = cmds
  /\ UNCHANGED cmds

(* The context was freed since the file was opened: whatever comes of it.  *)
WriteStale ==
  /\ hal.pc = "write" /\ Ctx \notin live /\ dev_write(HalFile)
  /\ hal' = [hal EXCEPT !.pc = "close"]
  /\ acked' \in {acked, cmds}
  /\ UNCHANGED cmds

(* Mutants of WriteFails: the file is not closed on this path; a bulk      *)
(* transfer without a time limit.                                          *)
WriteFails_NoClose(takes) ==
  /\ hal.pc = "write" /\ Ctx \in live
  /\ ~takes \/ devOf[Ctx] \notin plugged
  /\ hal' = Idle
  /\ UNCHANGED <<vars, cmds, acked>>

WriteFails_NoTimeout(takes) ==
  /\ hal.pc = "write" /\ Ctx \in live
  /\ devOf[Ctx] \notin plugged
  /\ hal' = [hal EXCEPT !.pc = "close"]
  /\ UNCHANGED <<vars, cmds, acked>>

(* The bulk transfer fails: the display has left, or it has not taken the  *)
(* transfer for five seconds.                                              *)
WriteFails(takes) ==
  /\ hal.pc = "write" /\ Ctx \in live
  /\ ~takes \/ devOf[Ctx] \notin plugged
  /\ hal' = [hal EXCEPT !.pc = "close"]
  /\ UNCHANGED <<vars, cmds, acked>>

(* Mutant of BtnEntry: file names are taken to count from 0.               *)
BtnEntry_ZeroBased(b) == <<Addr, b - 1>>

(* /proc/mmlcd<addr>_btn<idx+1>_state, as mmlcd_proc_init names it.        *)
BtnEntry(b) == <<Addr, b>>

open_mmlcd_proc_btn ==
  /\ hal.pc = "open_proc"
  /\ \/ mmlcd_proc_open(HalFile, BtnEntry(hal.b)) /\ UNCHANGED hal
     \/ /\ mmlcd_proc_open_store(HalFile)
        /\ hal' = [hal EXCEPT !.pc = "scan"]
     \/ /\ file[HalFile] = Closed
        /\ \/ BtnEntry(hal.b) \notin proc
           \/ ByMinor(ProcMinor(BtnEntry(hal.b))) = {}
        /\ hal' = Idle /\ UNCHANGED vars
  /\ UNCHANGED <<cmds, acked>>

(* fscanf converts what the file returns; it fails at once if the file has *)
(* been removed.                                                           *)
fscanf ==
  /\ hal.pc = "scan"
  /\ \/ /\ mmlcd_proc_read(HalFile)
        /\ hal' = [hal EXCEPT !.pc = "close", !.got = val'[HalFile]]
     \/ /\ file[HalFile] = Closed
        /\ hal' = [hal EXCEPT !.pc = "close"]
        /\ UNCHANGED vars
  /\ UNCHANGED <<cmds, acked>>

(* close or fclose, and the return of the call.                            *)
close ==
  /\ hal.pc = "close"
  /\ \/ dev_release(HalFile)
     \/ file[HalFile] = Closed /\ UNCHANGED vars
  /\ hal' = Idle
  /\ UNCHANGED <<cmds, acked>>

(***************************************************************************)
(* Between two calls no file is open, whichever step of a call failed and  *)
(* whenever the display left: the daemon does not run out of descriptors.  *)
(***************************************************************************)
NoFileLeaked == hal.pc = "idle" => file[HalFile] = Closed
=============================================================================
