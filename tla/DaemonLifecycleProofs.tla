------------------------ MODULE DaemonLifecycleProofs -----------------------
(***************************************************************************)
(* Proofs about the life of the daemon's process, for any number of        *)
(* processes and signals and whichever calls may fail.                     *)
(*                                                                         *)
(* The properties speak of the loop and of the moment after the exit;      *)
(* LifeInv carries them through the steps between: from bind on the        *)
(* socket file is this process's own, and at every step the display that   *)
(* was opened is either still open, with pigpio to reach it, or has been   *)
(* switched off once, unless pigpio has caught a signal.                   *)
(***************************************************************************)
EXTENDS DaemonLifecycle, TLAPS

(* From bind to the clean-up the file is there and names this process.     *)
Listens == {"epoll", "run", "loop", "events", "log_warning", "log_error",
            "loop_cleanup"}

Bound == {"chmod", "log_enter", "listen"} \cup Listens

FileInv ==
  /\ pc \in {"bind", "exit_hal", "exit_closelog"} => path = 0
  /\ pc \in Bound => path = me
  /\ pc \in Listens => listening
  /\ NoFileLeft

(* pigpio has caught no signal.                                            *)
NoneCaught == \A s \in Sigs : handler[s] # "blocked"

(* lcd_init has run or has not; cleanup has run, once or more, or has not. *)
LightInv ==
  /\ pc \in {"SIGINT", "SIGTERM", "hal_init"} => ~lcd /\ ~opened /\ off = 0
  /\ pc # "none" =>
       /\ lcd => opened /\ off = 0
       /\ NoneCaught =>
            /\ lcd => pigpio
            /\ opened => lcd \/ off = 1
            /\ ~opened => off = 0
  /\ pc = "exit_closelog" => ~lcd
  /\ LightsOutOnce

(* The two halves of TypeOK.                                               *)
Counters ==
  /\ pc \in Locations /\ me \in 0 .. MaxStarts /\ path \in 0 .. MaxStarts
  /\ left \in 0 .. MaxErrors /\ off \in 0 .. 1
  /\ signals \in 0 .. MaxSignals
  /\ ended \in {"exit", "killed", "cut"}

Flags ==
  /\ hal \in Hals /\ listening \in BOOLEAN
  /\ handler \in [Sigs -> {"default", "main", "pigpio", "blocked"}]
  /\ is_running \in BOOLEAN
  /\ pigpio \in BOOLEAN /\ lcd \in BOOLEAN /\ opened \in BOOLEAN
  /\ asked \in BOOLEAN /\ locked \in BOOLEAN /\ hung \in BOOLEAN
  /\ hurt \in BOOLEAN

LifeInv == Counters /\ FileInv /\ LightInv

USE DEF At, Goes, FailsTo, Dies, Bound, Listens, Logging, InLoop, InExit,
        fileVars, lcdVars, loopVars, pastVars

LEMMA TypeHalves == Counters /\ Flags <=> TypeOK
BY DEF TypeOK, Counters, Flags

(* What each step makes of the flags.                                      *)
LEMMA FlagsInit == Init => Flags
BY DEF Init, Flags

LEMMA SignalFlags == ASSUME Flags, NEW s \in Sigs, Signal(s) PROVE Flags'
<1>1. CASE HandledByMain(s)
  BY <1>1 DEF Signal, HandledByMain, sig_handler, Flags
<1>2. CASE HandledByPigpio(s)
  BY <1>2 DEF Signal, HandledByPigpio, Flags
<1>3. QED
  BY <1>1, <1>2 DEF Signal, Flags

LEMMA FlagsStep == Flags /\ [Next]_vars => Flags'
<1> SUFFICES ASSUME Flags, [Next]_vars PROVE Flags'
  OBVIOUS
<1>1. CASE Start
  BY <1>1 DEF Start, Flags
<1>2. CASE Kill
  BY <1>2 DEF Kill, Flags
<1>3. CASE signal("SIGINT", "SIGTERM") \/ signal("SIGTERM", "hal_init")
  BY <1>3 DEF signal, Flags
<1>4. CASE hal_init
  BY <1>4 DEF hal_init, gpioInitialise, Flags
<1>5. CASE daemon_ipc_setup \/ slog \/ listen \/ epoll_create \/ run
  BY <1>5 DEF daemon_ipc_setup, socket, unlink, bind, chmod, slog, listen,
              epoll_create, run, Flags
<1>6. CASE epoll_wait \/ events \/ loop_cleanup
  BY <1>6 DEF epoll_wait, events, loop_cleanup, daemon_ipc_cleanup, Flags
<1>7. CASE (cleanup \/ closelog) /\ UNCHANGED <<handler, loopVars>>
  BY <1>7 DEF cleanup, daemon_ipc_cleanup, hal_deinit, closelog, Flags
<1>8. CASE UNCHANGED vars
  BY <1>8 DEF vars, Flags
<1>9. QED
  BY <1>1, <1>2, <1>3, <1>4, <1>5, <1>6, <1>7, <1>8, SignalFlags
  DEF Next, main

LEMMA LifeInit == Init => LifeInv
<1> SUFFICES ASSUME Init PROVE LifeInv
  OBVIOUS
<1>1. Counters
  BY LifeAssumption DEF Init, Counters, Locations
<1>2. FileInv /\ LightInv
  BY DEF Init, FileInv, NoFileLeft, LightInv, LightsOutOnce
<1>3. QED
  BY <1>1, <1>2 DEF LifeInv

(* The process starts with fresh variables, but with the file there is.    *)
LEMMA StartStep == LifeInv /\ Start => LifeInv'
<1> SUFFICES ASSUME LifeInv, Start PROVE LifeInv'
  OBVIOUS
<1>1. Counters'
  BY LifeAssumption DEF Start, LifeInv, Counters, Locations
<1>2. FileInv' /\ LightInv'
  BY DEF Start, FileInv, NoFileLeft, LightInv, LightsOutOnce
<1>3. QED
  BY <1>1, <1>2 DEF LifeInv

(***************************************************************************)
(* A signal leaves the file and the display alone.  main.c's handler lets  *)
(* main go on where it was; pigpio's makes it exit, and from then on the   *)
(* display is no longer spoken of; without one the process is killed.      *)
(***************************************************************************)
LEMMA SignalStep ==
  ASSUME Flags, LifeInv, NEW s \in Sigs, Signal(s)
  PROVE  LifeInv'
<1>1. CASE HandledByMain(s)
  <2>1. pc \notin {"none", "loop"} => pc' = pc
    BY <1>1 DEF Signal, HandledByMain
  <2>2. pc = "loop" => pc' \in {"loop", "log_warning"}
    BY <1>1 DEF Signal, HandledByMain
  <2>3. UNCHANGED <<me, path, listening, left, lcd, opened, off, handler,
                    pigpio, ended>> /\ signals' \in 0 .. MaxSignals
    BY <1>1, LifeAssumption DEF Signal, HandledByMain, LifeInv, Counters
  <2>4. pc # "none"
    BY DEF Signal
  <2>5. Counters'
    BY <2>1, <2>2, <2>3, <2>4 DEF LifeInv, Counters, Locations
  <2>6. FileInv'
    BY <2>1, <2>2, <2>3, <2>4 DEF LifeInv, FileInv, NoFileLeft
  <2>7. LightInv'
    BY <2>1, <2>2, <2>3, <2>4
    DEF LifeInv, LightInv, NoneCaught, LightsOutOnce
  <2>8. QED
    BY <2>5, <2>6, <2>7 DEF LifeInv
<1>2. CASE HandledByPigpio(s)
  <2>1. handler'[s] = "blocked"
    BY <1>2 DEF HandledByPigpio, Flags
  <2>2. Counters'
    BY <1>2, LifeAssumption
    DEF Signal, HandledByPigpio, LifeInv, Counters, Locations
  <2>3. FileInv'
    BY <1>2 DEF Signal, HandledByPigpio, LifeInv, FileInv, NoFileLeft
  <2>4. LightInv'
    BY <1>2, <2>1
    DEF Signal, HandledByPigpio, LifeInv, LightInv, NoneCaught,
        LightsOutOnce
  <2>5. QED
    BY <2>2, <2>3, <2>4 DEF LifeInv
<1>3. CASE handler[s] = "default"
  <2>1. pc' = "none" /\ ended' = "killed"
        /\ UNCHANGED <<me, path, left, off>> /\ signals' \in 0 .. MaxSignals
    BY <1>3, LifeAssumption
    DEF Signal, HandledByMain, HandledByPigpio, LifeInv, Counters
  <2>2. QED
    BY <2>1 DEF LifeInv, Counters, Locations, FileInv, NoFileLeft, LightInv,
                LightsOutOnce
<1>4. QED
  BY <1>1, <1>2, <1>3 DEF Signal

LEMMA KillStep == LifeInv /\ Kill => LifeInv'
BY DEF Kill, LifeInv, Counters, Locations, FileInv, NoFileLeft, LightInv,
       LightsOutOnce

(* The calls of main before the socket: no file of this process yet.       *)
LEMMA SignalCallStep ==
  ASSUME LifeInv,
         signal("SIGINT", "SIGTERM") \/ signal("SIGTERM", "hal_init")
  PROVE  LifeInv'
<1>1. Counters'
  BY DEF signal, LifeInv, Counters, Locations
<1>2. FileInv'
  BY DEF signal, LifeInv, FileInv, NoFileLeft
<1>3. LightInv'
  BY DEF signal, LifeInv, LightInv, NoneCaught, LightsOutOnce
<1>4. QED
  BY <1>1, <1>2, <1>3 DEF LifeInv

(* The display is opened, if at all, once pigpio is initialised.           *)
LEMMA HalStep == LifeInv /\ hal_init => LifeInv'
<1> SUFFICES ASSUME LifeInv, hal_init PROVE LifeInv'
  OBVIOUS
<1>1. Counters'
  BY DEF hal_init, LifeInv, Counters, Locations
<1>2. FileInv'
  BY DEF hal_init, LifeInv, FileInv, NoFileLeft
<1>3. LightInv'
  <2>1. pc' \in {"socket", "log_failure"} /\ off' = 0
    BY DEF hal_init, LifeInv, LightInv
  <2>2. (lcd' => pigpio') /\ (lcd' <=> opened')
    BY DEF hal_init, LifeInv, LightInv
  <2>3. QED
    BY <2>1, <2>2 DEF LightInv, LightsOutOnce
<1>4. QED
  BY <1>1, <1>2, <1>3 DEF LifeInv

(* The set-up of the socket: unlink makes room for bind, which then names  *)
(* this process.                                                           *)
LEMMA SetupStep == LifeInv /\ daemon_ipc_setup => LifeInv'
<1> SUFFICES ASSUME LifeInv, daemon_ipc_setup PROVE LifeInv'
  OBVIOUS
<1>1. Counters'
  BY LifeAssumption
  DEF daemon_ipc_setup, socket, unlink, bind, chmod, LifeInv, Counters,
      Locations
<1>2. FileInv'
  BY DEF daemon_ipc_setup, socket, unlink, bind, chmod, LifeInv, FileInv,
         NoFileLeft
<1>3. LightInv'
  BY DEF daemon_ipc_setup, socket, unlink, bind, chmod, LifeInv, LightInv,
         NoneCaught, LightsOutOnce
<1>4. QED
  BY <1>1, <1>2, <1>3 DEF LifeInv

(* Messages, listen, epoll_create and the loop leave the file as it is.    *)
LEMMA RunStep ==
  ASSUME LifeInv,
         slog \/ listen \/ epoll_create \/ run \/ epoll_wait \/ events
  PROVE  LifeInv'
<1>1. Counters'
  BY LifeAssumption
  DEF slog, listen, epoll_create, run, epoll_wait, events, LifeInv,
      Counters, Locations
<1>2. FileInv'
  BY DEF slog, listen, epoll_create, run, epoll_wait, events, LifeInv,
         FileInv, NoFileLeft
<1>3. LightInv'
  BY DEF slog, listen, epoll_create, run, epoll_wait, events, LifeInv,
         LightInv, NoneCaught, LightsOutOnce
<1>4. QED
  BY <1>1, <1>2, <1>3 DEF LifeInv

LEMMA LoopCleanupStep == LifeInv /\ loop_cleanup => LifeInv'
BY LifeAssumption
DEF loop_cleanup, daemon_ipc_cleanup, LifeInv, Counters, Locations, FileInv,
    NoFileLeft, LightInv, NoneCaught, LightsOutOnce

(* The clean-up removes the file; hal_deinit moves the open display to     *)
(* the ones switched off, and does nothing the second time.                *)
LEMMA CleanupStep ==
  ASSUME LifeInv, cleanup \/ closelog, UNCHANGED <<handler, loopVars>>
  PROVE  LifeInv'
<1>1. Counters'
  BY LifeAssumption
  DEF cleanup, closelog, daemon_ipc_cleanup, hal_deinit, LifeInv, Counters,
      Locations, LightInv
<1>2. FileInv'
  BY DEF cleanup, closelog, daemon_ipc_cleanup, LifeInv, FileInv, NoFileLeft
<1>3. LightInv'
  BY DEF cleanup, closelog, hal_deinit, LifeInv, Counters, LightInv,
         NoneCaught, LightsOutOnce
<1>4. QED
  BY <1>1, <1>2, <1>3 DEF LifeInv

LEMMA LifeStep == Flags /\ LifeInv /\ [Next]_vars => LifeInv'
<1> SUFFICES ASSUME Flags, LifeInv, [Next]_vars PROVE LifeInv'
  OBVIOUS
<1>1. CASE Next
  BY <1>1, StartStep, KillStep, SignalStep, SignalCallStep, HalStep,
     SetupStep, RunStep, LoopCleanupStep, CleanupStep
  DEF Next, main
<1>2. CASE UNCHANGED vars
  BY <1>2 DEF vars, LifeInv, Counters, FileInv, NoFileLeft, LightInv,
              NoneCaught, LightsOutOnce
<1>3. QED
  BY <1>1, <1>2

(* The process's invariant holds throughout.                               *)
LEMMA LifeInvariant == Spec => [](Flags /\ LifeInv)
<1>1. QED
  BY FlagsInit, FlagsStep, LifeInit, LifeStep, PTL DEF Spec

(***************************************************************************)
(* Type correctness of the process's variables; in particular the          *)
(* backlight is switched off at most once in a process.                    *)
(***************************************************************************)
THEOREM LifeTypes == Spec => []TypeOK
<1>1. Flags /\ LifeInv => TypeOK
  BY TypeHalves DEF LifeInv
<1>2. QED
  BY <1>1, LifeInvariant, PTL

(***************************************************************************)
(* daemon_ipc.c: in its loop every daemon is reachable under the socket's  *)
(* name, whatever the daemons before it left there and however many.       *)
(***************************************************************************)
THEOREM DaemonsReachable == Spec => []Reachable
<1>1. LifeInv => Reachable
  BY DEF LifeInv, FileInv, Reachable
<1>2. QED
  BY <1>1, LifeInvariant, PTL

(***************************************************************************)
(* main.c's cleanup: exit leaves no socket file, from whichever failing    *)
(* call or signal it was reached.                                          *)
(***************************************************************************)
THEOREM ExitsRemoveFile == Spec => []NoFileLeft
<1>1. LifeInv => NoFileLeft
  BY DEF LifeInv, FileInv
<1>2. QED
  BY <1>1, LifeInvariant, PTL

(***************************************************************************)
(* hal_deinit: in a process that exits without pigpio having caught a      *)
(* signal, the display it opened is switched off exactly once, whichever   *)
(* call of the start failed and whether cleanup is called by main and      *)
(* again by exit, or by exit alone.                                        *)
(***************************************************************************)
THEOREM ExitsSwitchOffOnce == Spec => []LightsOutOnce
<1>1. LifeInv => LightsOutOnce
  BY DEF LifeInv, LightInv
<1>2. QED
  BY <1>1, LifeInvariant, PTL
=============================================================================
