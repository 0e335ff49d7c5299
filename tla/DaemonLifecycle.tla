--------------------------- MODULE DaemonLifecycle --------------------------
(***************************************************************************)
(* The life of the mmlcd daemon's process: the start (main.c,              *)
(* daemon_ipc_setup, daemon_ipc_run up to its loop, hal_init), the loop as *)
(* far as signals are concerned, signals at any point, and the exit, whose *)
(* clean-up runs in main and again from atexit.  A daemon is started after *)
(* the one before has ended, in whatever way it ended; both use the same   *)
(* socket file.                                                            *)
(*                                                                         *)
(* hal says which HAL is linked.  "x86" has nothing to open.  "rpi" calls  *)
(* pigpio, whose gpioInitialise takes over the signals: its handler calls  *)
(* gpioTerminate and exit (external; hal/rpi/lcd.c:34 initialises it with  *)
(* its default configuration, after main.c has installed sig_handler).     *)
(***************************************************************************)
EXTENDS Naturals

CONSTANTS
  Hals,        \* HALs the daemon may be linked with
  MaxStarts,   \* bound: processes
  MaxSignals,  \* bound: signals per process
  MaxErrors,   \* bound: errors logged for the events of one epoll_wait
  Fails        \* calls that may fail

Calls == {"signal", "lcd_init", "hal_btn_init", "socket", "bind", "chmod",
          "listen", "epoll"}

ASSUME LifeAssumption ==
  /\ Hals \subseteq {"rpi", "x86"}
  /\ MaxStarts \in Nat /\ MaxSignals \in Nat /\ MaxErrors \in Nat
  /\ Fails \subseteq Calls

Sigs == {"SIGINT", "SIGTERM"}

VARIABLES
  hal,        \* the HAL that is linked
  pc,         \* the call main is at; "none" without a process
  me,         \* number of the process
  path,       \* the process whose socket the file names, 0 without a file
  listening,  \* the socket listens
  handler,    \* who handles a signal; "blocked": pigpio, which is in exit
  is_running, \* daemon_ipc.c's flag
  left,       \* errors still to be logged for the events at hand
  pigpio,     \* the library is initialised
  lcd,        \* g_lcd_dev_handle is valid
  opened,     \* history: lcd_init succeeded in this process
  off,        \* history: times this process switched the backlight off
  signals,    \* signals sent to this process
  asked,      \* history: a signal was handled during the loop
  locked,     \* pigpio's handler interrupted a message, which keeps the lock
  hung,       \* the process waits for the lock of the message it interrupted
  hurt,       \* history: a call failed, a signal or a kill came
  ended       \* how the last process ended

fileVars == <<path, listening>>
lcdVars  == <<pigpio, lcd, opened, off>>
loopVars == <<is_running, left>>
pastVars == <<hal, me, signals, asked, locked, hung, ended>>
vars == <<hal, pc, me, path, listening, handler, is_running, left, pigpio,
          lcd, opened, off, signals, asked, locked, hung, hurt, ended>>

(* Inside vsyslog or closelog, which hold a lock of the C library.         *)
Logging == {"log_enter", "log_warning", "log_error", "log_exit",
            "log_failure", "closelog", "exit_closelog"}

InLoop == {"loop", "events", "log_warning", "log_error"}

(* exit has called cleanup, and will not call it a second time.            *)
InExit == {"exit_ipc", "exit_hal", "exit_closelog"}

Locations ==
  {"none", "SIGINT", "SIGTERM", "hal_init", "socket", "unlink", "bind",
   "chmod", "listen", "epoll", "run", "loop_cleanup", "cleanup",
   "hal_deinit", "atexit"} \cup Logging \cup InLoop \cup InExit

TypeOK ==
  /\ hal \in Hals /\ pc \in Locations
  /\ me \in 0 .. MaxStarts /\ path \in 0 .. MaxStarts
  /\ listening \in BOOLEAN
  /\ handler \in [Sigs -> {"default", "main", "pigpio", "blocked"}]
  /\ is_running \in BOOLEAN /\ left \in 0 .. MaxErrors
  /\ pigpio \in BOOLEAN /\ lcd \in BOOLEAN /\ opened \in BOOLEAN
  /\ off \in 0 .. 1 /\ signals \in 0 .. MaxSignals
  /\ asked \in BOOLEAN /\ locked \in BOOLEAN /\ hung \in BOOLEAN
  /\ hurt \in BOOLEAN /\ ended \in {"exit", "killed", "cut"}

Init ==
  /\ hal \in Hals
  /\ pc = "none" /\ me = 0 /\ path = 0 /\ ended = "exit"
  /\ listening = FALSE /\ handler = [s \in Sigs |-> "default"]
  /\ is_running = FALSE /\ left = 0
  /\ pigpio = FALSE /\ lcd = FALSE /\ opened = FALSE /\ off = 0
  /\ signals = 0 /\ asked = FALSE /\ locked = FALSE
  /\ hung = FALSE /\ hurt = FALSE

(* A fresh process: static variables have their initial values.            *)
Start ==
  /\ pc = "none" /\ me < MaxStarts
  /\ pc' = "SIGINT" /\ me' = me + 1
  /\ listening' = FALSE /\ handler' = [s \in Sigs |-> "default"]
  /\ is_running' = FALSE /\ left' = 0
  /\ pigpio' = FALSE /\ lcd' = FALSE /\ opened' = FALSE /\ off' = 0
  /\ signals' = 0 /\ asked' = FALSE /\ locked' = FALSE
  /\ hung' = FALSE /\ hurt' = FALSE
  /\ UNCHANGED <<hal, path, ended>>

-----------------------------------------------------------------------------
(* Signals and kills.                                                      *)

Dies == pc' = "none" /\ ended' = "killed" /\ hung' = FALSE

(* Mutant of sig_handler: SIGTERM is not among the cases.                  *)
sig_handler_IntOnly(s) == is_running' = IF s = "SIGINT" THEN FALSE
                                        ELSE is_running

sig_handler(s) == is_running' = FALSE

(***************************************************************************)
(* main.c's handler logs, so it waits for ever if it has interrupted main  *)
(* inside vsyslog.  In the loop it may interrupt epoll_wait, which main    *)
(* then logs.                                                              *)
(***************************************************************************)
HandledByMain(s) ==
  /\ handler[s] = "main" /\ ~hung
  /\ asked' = (asked \/ pc \in InLoop)
  /\ \/ /\ pc \in Logging
        /\ hung' = TRUE
        /\ UNCHANGED <<pc, is_running>>
     \/ /\ pc \notin Logging
        /\ sig_handler(s)
        /\ pc' \in IF pc = "loop" THEN {"loop", "log_warning"} ELSE {pc}
        /\ UNCHANGED hung
  /\ UNCHANGED <<handler, pigpio, locked, ended>>

(***************************************************************************)
(* pigpio's handler terminates the library and calls exit, from wherever   *)
(* it has interrupted main; a message main is in the middle of keeps its   *)
(* lock.  An exit inside exit does not run the rest of cleanup.            *)
(***************************************************************************)
HandledByPigpio(s) ==
  /\ handler[s] = "pigpio"
  /\ handler' = [handler EXCEPT ![s] = "blocked"]
  /\ pigpio' = FALSE
  /\ asked' = (asked \/ pc \in InLoop)
  /\ hung' = FALSE
  /\ \/ /\ pc \notin InExit
        /\ pc' = "atexit" /\ locked' = (locked \/ pc \in Logging)
        /\ UNCHANGED ended
     \/ /\ pc \in InExit
        /\ pc' = "none" /\ ended' = "cut"
        /\ UNCHANGED locked
  /\ UNCHANGED is_running

(* A signal; without a handler it ends the process.                        *)
Signal(s) ==
  /\ pc # "none" /\ signals < MaxSignals
  /\ signals' = signals + 1
  /\ hurt' = TRUE
  /\ \/ /\ handler[s] = "default" /\ Dies
        /\ UNCHANGED <<handler, is_running, pigpio, asked, locked>>
     \/ HandledByMain(s)
     \/ HandledByPigpio(s)
  /\ UNCHANGED <<hal, me, fileVars, left, lcd, opened, off>>

(* SIGKILL, a crash or a loss of power: the socket file stays.             *)
Kill ==
  /\ pc # "none" /\ Dies /\ hurt' = TRUE
  /\ UNCHANGED <<hal, me, fileVars, handler, loopVars, lcdVars, signals,
                 asked, locked>>

-----------------------------------------------------------------------------
(* main.                                                                   *)

At(here) == pc = here /\ ~hung

(* A call that succeeds and goes on, or fails.                             *)
Goes(there) == pc' = there /\ UNCHANGED hurt
FailsTo(call, there) == call \in Fails /\ pc' = there /\ hurt' = TRUE

signal(s, there) ==
  /\ At(s)
  /\ \/ Goes(there) /\ handler' = [handler EXCEPT ![s] = "main"]
     \/ FailsTo("signal", "log_failure") /\ UNCHANGED handler
  /\ UNCHANGED <<pastVars, fileVars, loopVars, lcdVars>>

(***************************************************************************)
(* gpioInitialise takes the signals over from main.c before it does        *)
(* anything that may fail on it, or fails before that.                     *)
(***************************************************************************)
gpioInitialise ==
  \/ /\ pigpio' = TRUE
     /\ handler' = [s \in Sigs |-> "pigpio"]
  \/ /\ pigpio' = FALSE
     /\ handler' \in {handler, [s \in Sigs |-> "pigpio"]}

(* hal_init: on the device pigpio and the display are opened, then the     *)
(* display and the buttons are set up.                                     *)
hal_init ==
  /\ At("hal_init")
  /\ \/ /\ hal = "x86" /\ Goes("socket")
        /\ UNCHANGED <<handler, pigpio, lcd>>
     \/ /\ hal = "rpi" /\ gpioInitialise /\ pigpio' /\ lcd' = TRUE
        /\ Goes("socket") \/ FailsTo("hal_btn_init", "log_failure")
     \/ /\ hal = "rpi" /\ gpioInitialise /\ UNCHANGED lcd
        /\ FailsTo("lcd_init", "log_failure")
  /\ opened' = lcd'
  /\ UNCHANGED <<pastVars, fileVars, loopVars, off>>

socket ==
  /\ At("socket")
  /\ Goes("unlink") \/ FailsTo("socket", "log_failure")
  /\ UNCHANGED path

(* Mutant of unlink: the file of an earlier daemon is left alone.          *)
unlink_Keeps == At("unlink") /\ Goes("bind") /\ UNCHANGED path

unlink == At("unlink") /\ Goes("bind") /\ path' = 0

(* bind creates the file, or fails if there is one.                        *)
bind ==
  /\ At("bind")
  /\ \/ path = 0 /\ path' = me /\ Goes("chmod")
     \/ path # 0 /\ Goes("log_failure") /\ UNCHANGED path
     \/ FailsTo("bind", "log_failure") /\ UNCHANGED path

(* Mutant of chmod: the file is unlinked once the socket is bound.         *)
chmod_Unlinks == At("chmod") /\ Goes("log_enter") /\ path' = 0

chmod ==
  /\ At("chmod")
  /\ Goes("log_enter") \/ FailsTo("chmod", "log_failure")
  /\ UNCHANGED path

daemon_ipc_setup ==
  /\ socket \/ unlink \/ bind \/ chmod
  /\ UNCHANGED <<pastVars, listening, handler, loopVars, lcdVars>>

(* A message: before the loop, of an interrupted epoll_wait, of an error   *)
(* in the loop, after the loop, and of a failed start, which exits.        *)
slog ==
  /\ \/ At("log_enter") /\ Goes("listen")
     \/ At("log_warning") /\ Goes("loop")
     \/ At("log_error") /\ Goes("events")
     \/ At("log_exit") /\ Goes("cleanup")
     \/ At("log_failure") /\ Goes("atexit")
  /\ UNCHANGED <<pastVars, fileVars, handler, loopVars, lcdVars>>

listen ==
  /\ At("listen")
  /\ \/ Goes("epoll") /\ listening' = TRUE
     \/ FailsTo("listen", "log_exit") /\ UNCHANGED listening
  /\ UNCHANGED <<pastVars, path, handler, loopVars, lcdVars>>

epoll_create ==
  /\ At("epoll")
  /\ Goes("run") \/ FailsTo("epoll", "log_exit")
  /\ UNCHANGED <<pastVars, fileVars, handler, loopVars, lcdVars>>

(* A stop that was asked for before this is forgotten.                     *)
run ==
  /\ At("run") /\ Goes("loop")
  /\ is_running' = TRUE
  /\ UNCHANGED <<pastVars, fileVars, handler, left, lcdVars>>

(* epoll_wait returns with events, or none, unless the loop ends.          *)
epoll_wait ==
  /\ At("loop")
  /\ \/ is_running /\ Goes("events") /\ left' \in 0 .. MaxErrors
     \/ ~is_running /\ Goes("loop_cleanup") /\ UNCHANGED left
  /\ UNCHANGED <<pastVars, fileVars, handler, is_running, lcdVars>>

(* Mutant of events: one error more than there are.                        *)
events_OneMore ==
  /\ At("events")
  /\ \/ Goes("log_error") /\ left' = left - 1
     \/ left = 0 /\ Goes("loop") /\ UNCHANGED left
  /\ UNCHANGED <<pastVars, fileVars, handler, is_running, lcdVars>>

(***************************************************************************)
(* The events are handled (MmlcdDaemon says how); what counts here are the *)
(* errors that are logged on the way: a connection that is not accepted or *)
(* added, a request that is cut off or unknown, a HAL or a client that     *)
(* fails.                                                                  *)
(***************************************************************************)
events ==
  /\ At("events")
  /\ \/ left > 0 /\ Goes("log_error") /\ left' = left - 1
     \/ left = 0 /\ Goes("loop") /\ UNCHANGED left
  /\ UNCHANGED <<pastVars, fileVars, handler, is_running, lcdVars>>

(* Mutant of daemon_ipc_cleanup: the file is left behind.                  *)
daemon_ipc_cleanup_KeepsFile == listening' = FALSE /\ UNCHANGED path

daemon_ipc_cleanup == listening' = FALSE /\ path' = 0

loop_cleanup ==
  /\ At("loop_cleanup") /\ Goes("log_exit")
  /\ daemon_ipc_cleanup
  /\ UNCHANGED <<pastVars, handler, loopVars, lcdVars>>

(* Mutant of hal_deinit: the buttons, and with them pigpio, go first.      *)
hal_deinit_ButtonsFirst ==
  lcd' = FALSE /\ pigpio' = FALSE /\ UNCHANGED off

(* The backlight goes out if there is a handle and pigpio is initialised.  *)
hal_deinit ==
  /\ off' = off + (IF lcd /\ pigpio THEN 1 ELSE 0)
  /\ lcd' = FALSE /\ pigpio' = FALSE

(* cleanup, called by main and, once the program exits, by exit.           *)
cleanup ==
  \/ /\ At("atexit") /\ Goes("exit_ipc")
     /\ UNCHANGED <<pastVars, fileVars, lcdVars>>
  \/ /\ \/ At("cleanup") /\ Goes("hal_deinit")
        \/ At("exit_ipc") /\ Goes("exit_hal")
     /\ daemon_ipc_cleanup
     /\ UNCHANGED <<pastVars, lcdVars>>
  \/ /\ \/ At("hal_deinit") /\ Goes("closelog")
        \/ At("exit_hal") /\ Goes("exit_closelog")
     /\ hal_deinit
     /\ UNCHANGED <<pastVars, fileVars, opened>>

(* closelog takes the lock an interrupted message may have kept.           *)
closelog ==
  /\ \/ At("closelog") /\ Goes("atexit") /\ UNCHANGED <<ended, hung>>
     \/ At("exit_closelog") /\ ~locked /\ Goes("none") /\ ended' = "exit"
          /\ UNCHANGED hung
     \/ At("exit_closelog") /\ locked /\ hung' = TRUE
          /\ UNCHANGED <<pc, hurt, ended>>
  /\ UNCHANGED <<hal, me, signals, asked, locked, fileVars, lcdVars>>

main ==
  \/ signal("SIGINT", "SIGTERM") \/ signal("SIGTERM", "hal_init")
  \/ hal_init \/ daemon_ipc_setup \/ slog \/ listen \/ epoll_create \/ run
  \/ epoll_wait \/ events \/ loop_cleanup
  \/ (cleanup \/ closelog) /\ UNCHANGED <<handler, loopVars>>

Next == Start \/ Kill \/ main \/ \E s \in Sigs : Signal(s)

(* The process runs; nothing obliges anybody to start or signal it.        *)
Spec == Init /\ [][Next]_vars /\ WF_vars(main)

-----------------------------------------------------------------------------
(* Properties.                                                             *)

(***************************************************************************)
(* In the loop the socket file names the listening socket of this very     *)
(* process, whatever earlier daemons left behind: clients reach it.        *)
(***************************************************************************)
Reachable == pc \in InLoop => path = me /\ listening

(***************************************************************************)
(* A process that ends through exit leaves no socket file, at whichever    *)
(* step of the start it gave up or a signal made it exit, and although a   *)
(* killed one before it did.  (A second signal that cuts the exit off, or  *)
(* a kill, may leave one.)                                                 *)
(***************************************************************************)
NoFileLeft == pc = "none" /\ ended = "exit" => path = 0

(***************************************************************************)
(* hal_deinit switches the display's backlight off once in every process   *)
(* that opened the display and exits without pigpio having caught a        *)
(* signal: after any failing call of the start, although cleanup runs      *)
(* there once or twice.  After a signal it does not: gpioTerminate has run *)
(* by then.                                                                *)
(***************************************************************************)
LightsOutOnce ==
  /\ pc = "none" /\ ended = "exit" /\ me > 0
  /\ \A s \in Sigs : handler[s] # "blocked"
  => off = IF opened THEN 1 ELSE 0

(***************************************************************************)
(* A daemon that is started, and meets no failing call, signal or kill,    *)
(* comes to serve, also after one that was killed.                         *)
(***************************************************************************)
StartServes == (pc = "SIGINT") ~> (pc = "loop" \/ hurt)

(***************************************************************************)
(* A SIGINT or SIGTERM that arrives during the loop ends the process, with *)
(* either HAL, unless it or another one interrupts a log message of the    *)
(* loop or the exit: main.c's handler logs too, and after pigpio's handler *)
(* closelog runs, and each waits for the lock of that message.             *)
(***************************************************************************)
SignalEnds == asked ~> (pc = "none" \/ hung)
=============================================================================
