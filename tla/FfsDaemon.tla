----------------------------- MODULE FfsDaemon ------------------------------
(***************************************************************************)
(* The functionfs daemon on the device (gadget/daemon/src/ffs-mmlcd.c):    *)
(* a thread copies commands from the bulk endpoint to the mmlcd daemon's   *)
(* socket, and the library's polling thread (LibMmlcd) writes button       *)
(* events to the interrupt endpoint.  Reads of the control endpoint only   *)
(* log and are left out.                                                   *)
(*                                                                         *)
(* FunctionFS is external: a read or write of an endpoint waits while the  *)
(* host has the function disabled, and fails with ESHUTDOWN when the       *)
(* function is disabled under it.  The host's side of each transfer is     *)
(* the business of the module that composes the two (UsbPath).             *)
(***************************************************************************)
EXTENDS LibMmlcd

CONSTANT StartFails  \* what may fail in main: "connect", "cmd_thread"

VARIABLES
  ffs,      \* where main is
  enabled,  \* the host has configured the function
  cmdth,    \* the command thread
  buf,      \* the command it has read
  fwd       \* history: the last command written to the mmlcd daemon

ffsVars == <<ffs, enabled, cmdth, buf, fwd>>

FfsTypeOK ==
  /\ LibTypeOK
  /\ ffs \in {"start", "register", "create", "loop", "exited"}
  /\ enabled \in BOOLEAN
  /\ cmdth \in {"none", "read", "forward", "ended"}
  /\ buf \in Nat /\ fwd \in Nat

FfsInit ==
  /\ LibInit
  /\ ffs = "start" /\ enabled = FALSE
  /\ cmdth = "none" /\ buf = 0 /\ fwd = 0

(* liblcd_init and the second connection, for the commands.                *)
connect ==
  /\ ffs = "start"
  /\ \/ served /\ ffs' = "register"
     \/ (~served \/ "connect" \in StartFails) /\ ffs' = "exited"
  /\ UNCHANGED <<libVars, enabled, cmdth, buf, fwd>>

(* What the registration returns is not looked at.                         *)
register(cb) ==
  /\ \/ /\ ffs = "register" /\ ffs' = "create"
        /\ liblcd_register_btn_event_callback(cb)
     \/ ffs = "create" /\ Start /\ UNCHANGED ffs
  /\ UNCHANGED <<enabled, cmdth, buf, fwd>>

(* pthread_create returns a positive error number, and main goes on        *)
(* without the thread.                                                     *)
create_cmd_thread ==
  /\ ffs = "create" /\ app = "idle" /\ dead = "no"
  /\ ffs' = "loop"
  /\ cmdth' \in {"read"} \cup (IF "cmd_thread" \in StartFails THEN {"none"}
                               ELSE {})
  /\ UNCHANGED <<libVars, enabled, buf, fwd>>

main(cb) == connect \/ register(cb) \/ create_cmd_thread

(* A transfer from the host completes the read of the command thread.      *)
Listening == dead = "no" /\ enabled /\ cmdth = "read"

cmd_ep_read(n) ==
  /\ Listening
  /\ cmdth' = "forward" /\ buf' = n
  /\ UNCHANGED <<libVars, ffs, enabled, fwd>>

(* The command is written to the mmlcd daemon; without it, SIGPIPE.        *)
handle_cmd_ep ==
  /\ dead = "no" /\ cmdth = "forward"
  /\ \/ served /\ fwd' = buf /\ cmdth' = "read" /\ buf' = 0
        /\ UNCHANGED dead
     \/ ~served /\ dead' = "pipe" /\ UNCHANGED <<fwd, cmdth, buf>>
  /\ UNCHANGED <<btn, served, app, regs, cbk, running, id, th, prev, told,
                 ffs, enabled>>

(* The threads that are in btn_event_callback: none or one.                *)
Writing == {t \in Threads : dead = "no" /\ th[t].pc = "in"}

(* The host takes the event that is being written.                         *)
btn_event_callback(t, b, s) ==
  /\ t \in Writing /\ enabled
  /\ b = th[t].idx /\ s = th[t].got
  /\ CallbackReturns(t)
  /\ UNCHANGED ffsVars

Enable == enabled' = TRUE /\ UNCHANGED <<libVars, ffs, cmdth, buf, fwd>>

(* Mutant of cmd_ep_shutdown: the error is looked at before the data.      *)
cmd_ep_shutdown_DropsData ==
  cmdth' = IF cmdth \in {"read", "forward"} THEN "ended" ELSE cmdth

(* ESHUTDOWN ends a command thread that is in its read, for good; one that *)
(* is forwarding a command goes on.                                        *)
cmd_ep_shutdown == cmdth' = IF cmdth = "read" THEN "ended" ELSE cmdth

(* The function is disabled: an event that is being written is lost.  If   *)
(* the process is dead, neither matters.                                   *)
Disable ==
  /\ enabled' = FALSE
  /\ cmd_ep_shutdown
  /\ \/ \E t \in Writing : CallbackReturns(t)
     \/ Writing = {} /\ UNCHANGED libVars
  /\ UNCHANGED <<ffs, buf, fwd>>
=============================================================================
