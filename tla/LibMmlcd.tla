------------------------------ MODULE LibMmlcd ------------------------------
(***************************************************************************)
(* Button callbacks of libmmlcd (common/lib/src/libmmlcd.c): an            *)
(* application registers, replaces and unregisters a callback while a      *)
(* thread of the library polls the daemon for the state of every button    *)
(* and calls the callback for every change.  The two share g_btn_ev_cbk    *)
(* and g_is_btn_poll_th_runinning without a lock, so each access of the    *)
(* thread is a step of its own.                                            *)
(*                                                                         *)
(* The daemon is the one on the device, whose HAL never fails to read a    *)
(* valid button (hal/rpi/hal.c); it may exit at any time.                  *)
(***************************************************************************)
EXTENDS Naturals

CONSTANTS
  BtnCount,    \* liblcd_ipc_btn_count
  Cbks,        \* callbacks the application may register
  NULL,        \* no callback
  Threads,     \* thread identifiers
  MaxRegs,     \* bound: calls of liblcd_register_btn_event_callback
  CreateFails, \* may pthread_create fail?
  DaemonExits  \* may the daemon exit?

ASSUME LibAssumption ==
  /\ BtnCount \in Nat \ {0} /\ MaxRegs \in Nat /\ NULL \notin Cbks
  /\ CreateFails \in BOOLEAN /\ DaemonExits \in BOOLEAN

LibBtns == 0 .. BtnCount - 1

VARIABLES
  btn,     \* the buttons, as the daemon reads them
  served,  \* the daemon is there
  app,     \* "idle", or the step of the registration the application is in
  regs,    \* registrations so far
  cbk,     \* g_btn_ev_cbk
  running, \* g_is_btn_poll_th_runinning
  id,      \* threads g_btn_poll_th_id may stand for: none or one
  th,      \* the threads
  prev,    \* g_prev_btn_state
  told,    \* what the application has been told of each button
  dead     \* why the process died, or "no"

libVars == <<btn, served, app, regs, cbk, running, id, th, prev, told, dead>>

BtnStates == {"released", "pressed"}

NoThread == [pc |-> "none", idx |-> 0, got |-> "invalid"]
Alive(t) == th[t].pc \notin {"none", "done"}

LibTypeOK ==
  /\ btn \in [LibBtns -> BtnStates] /\ served \in BOOLEAN
  /\ app \in {"idle", "start", "stop", "join"} /\ regs \in 0 .. MaxRegs
  /\ cbk \in Cbks \cup {NULL} /\ running \in BOOLEAN
  /\ id \in SUBSET Threads
  /\ th \in [Threads ->
               [pc : {"none", "ask", "wait", "got", "call", "in", "done"},
                idx : LibBtns, got : BtnStates \cup {"invalid"}]]
  /\ prev \in [LibBtns -> BtnStates] /\ told \in [LibBtns -> BtnStates]
  /\ dead \in {"no", "pipe", "null", "join"}

LibInit ==
  /\ btn \in [LibBtns -> BtnStates] /\ served = TRUE
  /\ app = "idle" /\ regs = 0
  /\ cbk = NULL /\ running = FALSE /\ id = {}
  /\ th = [t \in Threads |-> NoThread]
  /\ prev = [b \in LibBtns |-> "released"]
  /\ told = prev
  /\ dead = "no"

-----------------------------------------------------------------------------
(* The buttons and the daemon.                                             *)

Press(b) ==
  /\ btn' = [btn EXCEPT ![b] = IF @ = "pressed" THEN "released" ELSE "pressed"]
  /\ UNCHANGED <<served, app, regs, cbk, running, id, th, prev, told, dead>>

DaemonExit ==
  /\ DaemonExits /\ served
  /\ served' = FALSE
  /\ UNCHANGED <<btn, app, regs, cbk, running, id, th, prev, told, dead>>

(* The daemon reads the button and replies; if it is gone, the read of the *)
(* thread returns without data and btn_state stays invalid.                *)
Reply(t) ==
  /\ dead = "no" /\ th[t].pc = "wait"
  /\ th' = [th EXCEPT ![t].pc = "got",
                      ![t].got = IF served THEN btn[th[t].idx]
                                 ELSE "invalid"]
  /\ UNCHANGED <<btn, served, app, regs, cbk, running, id, prev, told, dead>>

-----------------------------------------------------------------------------
(* The application.                                                        *)

(***************************************************************************)
(* liblcd_register_btn_event_callback: the callback is replaced, and what  *)
(* happens next depends on whether there was one and whether there is one. *)
(* A new registration starts from the states the library remembers.        *)
(***************************************************************************)
liblcd_register_btn_event_callback(c) ==
  /\ dead = "no" /\ app = "idle" /\ regs < MaxRegs
  /\ regs' = regs + 1
  /\ cbk' = c
  /\ app' = CASE cbk # NULL /\ c = NULL -> "stop"
              [] cbk = NULL /\ c # NULL -> "start"
              [] OTHER -> "idle"
  /\ told' = IF cbk = NULL THEN prev ELSE told
  /\ UNCHANGED <<btn, served, running, id, th, prev, dead>>

(* pthread_create may fail: the callback stays registered then.            *)
Start ==
  /\ dead = "no" /\ app = "start"
  /\ app' = "idle" /\ running' = TRUE
  /\ \/ \E t \in Threads :
          /\ th[t] = NoThread
          /\ th' = [th EXCEPT ![t].pc = "ask"]
          /\ id' = {t}
     \/ CreateFails /\ id' = {} /\ UNCHANGED th
  /\ UNCHANGED <<btn, served, regs, cbk, prev, told, dead>>

(* Mutant of Stop: the flag is left set.                                   *)
Stop_KeepsRunning ==
  /\ dead = "no" /\ app = "stop"
  /\ app' = "join"
  /\ UNCHANGED <<btn, served, regs, cbk, running, id, th, prev, told, dead>>

Stop ==
  /\ dead = "no" /\ app = "stop"
  /\ running' = FALSE /\ app' = "join"
  /\ UNCHANGED <<btn, served, regs, cbk, id, th, prev, told, dead>>

(* Mutant of Join: the thread is left to end by itself.                    *)
Join_Detached ==
  /\ dead = "no" /\ app = "join"
  /\ app' = "idle" /\ id' = {}
  /\ UNCHANGED <<btn, served, regs, cbk, running, th, prev, told, dead>>

(* pthread_join; of a thread that was never created it may fail or crash.  *)
Join ==
  /\ dead = "no" /\ app = "join"
  /\ app' = "idle" /\ id' = {}
  /\ \/ \E t \in id : /\ th[t].pc = "done"
                      /\ th' = [th EXCEPT ![t] = NoThread]
                      /\ UNCHANGED dead
     \/ id = {} /\ dead' \in {"no", "join"} /\ UNCHANGED th
  /\ UNCHANGED <<btn, served, regs, cbk, running, prev, told>>

-----------------------------------------------------------------------------
(* btn_poll_thread.                                                        *)

(* The next button; after the last one the thread sleeps and starts over.  *)
NextBtn(t) ==
  th' = [th EXCEPT ![t] = [pc |-> "ask", idx |-> (@.idx + 1) % BtnCount,
                           got |-> "invalid"]]

(* Before the first button the thread ends if it was told to.              *)
ThreadEnds(t) ==
  /\ dead = "no" /\ th[t].pc = "ask" /\ th[t].idx = 0 /\ ~running
  /\ th' = [th EXCEPT ![t].pc = "done"]
  /\ UNCHANGED <<btn, served, app, regs, cbk, running, id, prev, told, dead>>

(* The request; without a daemon the write raises SIGPIPE.                 *)
Ask(t) ==
  /\ dead = "no" /\ th[t].pc = "ask" /\ (th[t].idx = 0 => running)
  /\ \/ served /\ th' = [th EXCEPT ![t].pc = "wait"] /\ UNCHANGED dead
     \/ ~served /\ dead' = "pipe" /\ UNCHANGED th
  /\ UNCHANGED <<btn, served, app, regs, cbk, running, id, prev, told>>

(* A state that is passed on, if there is a callback to pass it to.        *)
PassOn(t) ==
  \/ cbk # NULL /\ th' = [th EXCEPT ![t].pc = "call"]
  \/ cbk = NULL /\ NextBtn(t)

(* Mutants of Compare: an invalid state counts; the state is not kept; the *)
(* last button is left out.                                                *)
Compare_Unchecked(t) ==
  /\ dead = "no" /\ th[t].pc = "got"
  /\ prev' = [prev EXCEPT ![th[t].idx] = th[t].got]
  /\ IF th[t].got # prev[th[t].idx] THEN PassOn(t) ELSE NextBtn(t)
  /\ UNCHANGED <<btn, served, app, regs, cbk, running, id, told, dead>>

Compare_Forgets(t) ==
  /\ dead = "no" /\ th[t].pc = "got"
  /\ IF th[t].got \notin {"invalid", prev[th[t].idx]}
     THEN PassOn(t) ELSE NextBtn(t)
  /\ UNCHANGED <<btn, served, app, regs, cbk, running, id, prev, told, dead>>

Compare_SkipsLast(t) ==
  /\ dead = "no" /\ th[t].pc = "got"
  /\ LET b == th[t].idx IN
     \/ /\ th[t].got \notin {"invalid", prev[b]} /\ b + 1 < BtnCount
        /\ prev' = [prev EXCEPT ![b] = th[t].got]
        /\ PassOn(t)
     \/ /\ th[t].got \in {"invalid", prev[b]} \/ b + 1 = BtnCount
        /\ NextBtn(t) /\ UNCHANGED prev
  /\ UNCHANGED <<btn, served, app, regs, cbk, running, id, told, dead>>

(* A valid state that differs from the remembered one replaces it and is   *)
(* passed on.                                                              *)
Compare(t) ==
  /\ dead = "no" /\ th[t].pc = "got"
  /\ LET b == th[t].idx IN
     \/ /\ th[t].got \notin {"invalid", prev[b]}
        /\ prev' = [prev EXCEPT ![b] = th[t].got]
        /\ PassOn(t)
     \/ /\ th[t].got \in {"invalid", prev[b]}
        /\ NextBtn(t) /\ UNCHANGED prev
  /\ UNCHANGED <<btn, served, app, regs, cbk, running, id, told, dead>>

(***************************************************************************)
(* g_btn_ev_cbk is read again for the call.  If it was cleared since the   *)
(* check, the compiled code either calls NULL or the value of the check.   *)
(***************************************************************************)
CallCbk(t) ==
  /\ dead = "no" /\ th[t].pc = "call"
  /\ \/ /\ told' = [told EXCEPT ![th[t].idx] = th[t].got]
        /\ th' = [th EXCEPT ![t].pc = "in"]
        /\ UNCHANGED dead
     \/ cbk = NULL /\ dead' = "null" /\ UNCHANGED <<told, th>>
  /\ UNCHANGED <<btn, served, app, regs, cbk, running, id, prev>>

CallbackReturns(t) ==
  /\ dead = "no" /\ th[t].pc = "in"
  /\ NextBtn(t)
  /\ UNCHANGED <<btn, served, app, regs, cbk, running, id, prev, told, dead>>

-----------------------------------------------------------------------------
App == Start \/ Stop \/ Join

btn_poll_thread(t) ==
  ThreadEnds(t) \/ Ask(t) \/ Compare(t) \/ CallCbk(t)

Env ==
  \/ DaemonExit \/ \E b \in LibBtns : Press(b)
  \/ \E c \in Cbks \cup {NULL} : liblcd_register_btn_event_callback(c)

LibNext ==
  \/ Env \/ App
  \/ \E t \in Threads : btn_poll_thread(t) \/ Reply(t) \/ CallbackReturns(t)

(***************************************************************************)
(* Threads run, the daemon answers while it is there (MmlcdDaemon's        *)
(* OpenClientServed), and callbacks return.                                *)
(***************************************************************************)
LibFairness ==
  /\ WF_libVars(App)
  /\ \A t \in Threads : /\ WF_libVars(btn_poll_thread(t))
                        /\ WF_libVars(Reply(t))
                        /\ WF_libVars(CallbackReturns(t))

LibSpec == LibInit /\ [][LibNext]_libVars /\ LibFairness

-----------------------------------------------------------------------------
(* Properties.                                                             *)

(***************************************************************************)
(* The polling thread follows the registration: there is never more than   *)
(* one, and between two calls of liblcd_register_btn_event_callback there  *)
(* is one exactly while a callback is registered, unless pthread_create    *)
(* failed for it.  So after unregistering no callback runs any more.       *)
(***************************************************************************)
ThreadFollowsRegistration ==
  /\ \A t, u \in Threads : Alive(t) /\ Alive(u) => t = u
  /\ dead = "no" /\ app = "idle" =>
       \A t \in Threads : Alive(t) <=> (cbk # NULL /\ t \in id)

(***************************************************************************)
(* Within a registration the events of a button alternate: the callback is *)
(* called only with a state other than the one told last, whichever        *)
(* callback was told.                                                      *)
(***************************************************************************)
EventsAlternate ==
  [][\A t \in Threads : th[t].pc = "call" /\ th'[t].pc = "in" =>
       th[t].got # told[th[t].idx]]_libVars

(***************************************************************************)
(* The process dies of a callback that is NULL only inside the call that   *)
(* unregisters it (libmmlcd.c:177-179): replacing a callback is safe.      *)
(***************************************************************************)
NullOnlyUnregistering == dead = "null" => app \in {"stop", "join"}

(* A callback is registered and its thread and the daemon are at work.     *)
Polling ==
  dead = "no" /\ served /\ app = "idle" /\ cbk # NULL /\ id # {}

(***************************************************************************)
(* A button that stays in a state is told to the callback, unless the      *)
(* registration or the daemon ends first.                                  *)
(***************************************************************************)
ChangeTold ==
  \A b \in LibBtns, s \in BtnStates :
    (Polling /\ btn[b] = s) ~> (told[b] = s \/ btn[b] # s \/ ~Polling)

(***************************************************************************)
(* A call of liblcd_register_btn_event_callback returns: the join waits    *)
(* for at most one round of polling, also when the daemon goes meanwhile.  *)
(***************************************************************************)
RegisterReturns == (app # "idle") ~> (app = "idle" \/ dead # "no")
=============================================================================
