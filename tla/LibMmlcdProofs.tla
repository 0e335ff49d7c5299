--------------------------- MODULE LibMmlcdProofs ---------------------------
(***************************************************************************)
(* Proofs about libmmlcd's button callbacks, for any number of buttons,    *)
(* callbacks and registrations.                                            *)
(*                                                                         *)
(* ThreadInv ties the polling thread to the step of the registration, so   *)
(* that there is none when a new one is started.  EventInv ties what the   *)
(* application was told to what the library remembers: they differ only in *)
(* the button the thread is about to report, as long as a callback is      *)
(* registered.                                                             *)
(***************************************************************************)
EXTENDS LibMmlcd, TLAPS

Thread ==
  [pc : {"none", "ask", "wait", "got", "call", "in", "done"},
   idx : LibBtns, got : BtnStates \cup {"invalid"}]

ThreadInv ==
  /\ \A t, u \in id : t = u
  /\ \A t \in Threads : th[t].pc # "none" <=> t \in id
  /\ \A t \in Threads : th[t].pc = "done" => app = "join"
  /\ app = "start" => id = {} /\ cbk # NULL
  /\ app = "idle" /\ cbk = NULL => id = {}
  /\ app = "idle" /\ cbk # NULL => running
  /\ app = "stop" => running /\ cbk = NULL
  /\ app = "join" => cbk = NULL

(* The button of a thread about to call the callback.                      *)
Reporting(b) == \E t \in Threads : th[t].pc = "call" /\ th[t].idx = b

EventInv ==
  /\ \A t \in Threads : th[t].pc = "call" =>
       /\ th[t].got # "invalid"
       /\ prev[th[t].idx] = th[t].got
       /\ told[th[t].idx] # th[t].got
  /\ cbk # NULL => \A b \in LibBtns : told[b] = prev[b] \/ Reporting(b)

(* The part of LibTypeOK that the other invariants need.                   *)
DataType ==
  /\ btn \in [LibBtns -> BtnStates] /\ th \in [Threads -> Thread]
  /\ prev \in [LibBtns -> BtnStates] /\ told \in [LibBtns -> BtnStates]
  /\ id \in SUBSET Threads /\ cbk \in Cbks \cup {NULL}
  /\ app \in {"idle", "start", "stop", "join"}

(* The rest of it.                                                         *)
FlagType ==
  /\ served \in BOOLEAN /\ running \in BOOLEAN
  /\ dead \in {"no", "pipe", "null", "join"}

RegsType == regs \in 0 .. MaxRegs

LibInv ==
  /\ DataType /\ ThreadInv /\ EventInv /\ NullOnlyUnregistering

USE DEF Thread, BtnStates, LibBtns

(* The thread goes on to a button there is.                                *)
LEMMA NextIdx ==
  ASSUME NEW i \in LibBtns
  PROVE  (i + 1) % BtnCount \in LibBtns
BY LibAssumption

LEMMA LibInitInv == LibInit => LibInv
BY LibAssumption
DEF LibInit, LibInv, DataType, ThreadInv, EventInv, NoThread,
    NullOnlyUnregistering

(***************************************************************************)
(* The application's steps.                                                *)
(***************************************************************************)
LEMMA RegisterStep ==
  ASSUME LibInv, NEW c \in Cbks \cup {NULL},
         liblcd_register_btn_event_callback(c)
  PROVE  LibInv'
<1> USE DEF liblcd_register_btn_event_callback, LibInv
<1>1. DataType'
  BY DEF DataType
<1>2. ThreadInv'
  BY DEF DataType, ThreadInv
<1>3. EventInv'
  <2>1. CASE cbk = NULL
    <3>1. \A t \in Threads : th[t].pc = "none"
      BY <2>1 DEF ThreadInv
    <3>2. QED
      BY <2>1, <3>1 DEF EventInv
  <2>2. CASE cbk # NULL
    BY <2>2 DEF EventInv, Reporting
  <2>3. QED
    BY <2>1, <2>2
<1>4. NullOnlyUnregistering'
  BY DEF NullOnlyUnregistering
<1>5. QED
  BY <1>1, <1>2, <1>3, <1>4

(* A thread is started only when there is none.                            *)
LEMMA StartsThread ==
  ASSUME LibInv, Start
  PROVE  LibInv'
<1> USE DEF Start, LibInv
<1>1. CASE UNCHANGED th /\ id' = {}
  BY <1>1 DEF DataType, ThreadInv, EventInv, Reporting,
              NullOnlyUnregistering
<1>2. ASSUME NEW t \in Threads, th[t] = NoThread,
             th' = [th EXCEPT ![t].pc = "ask"], id' = {t}
      PROVE  LibInv'
  <2>0. /\ \A u \in Threads : th[u].pc = "none"
        /\ cbk # NULL
    BY DEF ThreadInv
  <2>1. th \in [Threads -> Thread]
    BY DEF DataType
  <2>2. th' \in [Threads -> Thread]
    BY <1>2, <2>1
  <2>3. DataType'
    BY <1>2, <2>2 DEF DataType
  <2>4. /\ th'[t].pc = "ask"
        /\ \A u \in Threads \ {t} : th'[u] = th[u]
    BY <1>2, <2>1
  <2>5. ThreadInv'
    BY <1>2, <2>0, <2>4 DEF ThreadInv
  <2>6. EventInv'
    BY <2>0, <2>4 DEF EventInv, Reporting
  <2>7. NullOnlyUnregistering'
    BY DEF NullOnlyUnregistering
  <2>8. QED
    BY <2>3, <2>5, <2>6, <2>7
<1>3. QED
  BY <1>1, <1>2

LEMMA StopStep ==
  ASSUME LibInv, Stop
  PROVE  LibInv'
BY DEF Stop, LibInv, DataType, ThreadInv, EventInv, Reporting,
       NullOnlyUnregistering

(* After the join there is no thread, whichever way the join ended.        *)
LEMMA JoinStep ==
  ASSUME LibInv, Join
  PROVE  LibInv'
<1> USE DEF Join, LibInv
<1>1. CASE id = {} /\ UNCHANGED th /\ dead' \in {"no", "join"}
  BY <1>1 DEF DataType, ThreadInv, EventInv, Reporting,
              NullOnlyUnregistering
<1>2. ASSUME NEW t \in id, th[t].pc = "done",
             th' = [th EXCEPT ![t] = NoThread], UNCHANGED dead
      PROVE  LibInv'
  <2>1. DataType'
    BY <1>2, LibAssumption DEF DataType, NoThread
  <2>2. \A u \in Threads : th'[u].pc = "none"
    BY <1>2 DEF DataType, ThreadInv, NoThread
  <2>3. ThreadInv'
    BY <2>2 DEF ThreadInv
  <2>4. EventInv'
    BY <2>2 DEF EventInv, ThreadInv
  <2>5. NullOnlyUnregistering'
    BY <1>2 DEF NullOnlyUnregistering
  <2>6. QED
    BY <2>1, <2>3, <2>4, <2>5
<1>3. QED
  BY <1>1, <1>2

(***************************************************************************)
(* The thread's steps: it stays the one thread there is, and ends only     *)
(* when the application waits for it.                                      *)
(***************************************************************************)
LEMMA ThreadKeeps ==
  ASSUME LibInv, NEW t \in Threads, th[t].pc # "none",
         UNCHANGED <<app, cbk, running, id>>,
         th' \in [Threads -> Thread], th'[t].pc # "none",
         th'[t].pc = "done" => ~running,
         \A u \in Threads \ {t} : th'[u] = th[u]
  PROVE  ThreadInv'
<1>1. t \in id
  BY DEF LibInv, ThreadInv
<1>2. ~running => app = "join"
  BY <1>1 DEF LibInv, DataType, ThreadInv
<1>3. QED
  BY <1>1, <1>2 DEF LibInv, ThreadInv

(* The other threads, of which none is about to report.                    *)
LEMMA OnlyThread ==
  ASSUME LibInv, NEW t \in Threads, th[t].pc # "none"
  PROVE  \A u \in Threads \ {t} : th[u].pc = "none"
BY DEF LibInv, ThreadInv

(* A step that neither reports nor is about to report.                     *)
LEMMA QuietStep ==
  ASSUME LibInv, NEW t \in Threads, th[t].pc \notin {"none", "call"},
         th' \in [Threads -> Thread], th'[t].pc \notin {"none", "call"},
         th'[t].pc = "done" => ~running,
         \A u \in Threads \ {t} : th'[u] = th[u],
         UNCHANGED <<btn, app, cbk, running, id, prev, told, dead>>
  PROVE  LibInv'
<1>1. DataType'
  BY DEF LibInv, DataType
<1>2. ThreadInv'
  BY ThreadKeeps
<1>3. \A u \in Threads : th[u].pc # "call" /\ th'[u].pc # "call"
  BY OnlyThread
<1>4. EventInv'
  BY <1>3 DEF LibInv, EventInv, Reporting
<1>5. NullOnlyUnregistering'
  BY DEF LibInv, NullOnlyUnregistering
<1>6. QED
  BY <1>1, <1>2, <1>4, <1>5 DEF LibInv

LEMMA NextBtnThread ==
  ASSUME LibInv, NEW t \in Threads, NextBtn(t)
  PROVE  /\ th' \in [Threads -> Thread] /\ th'[t].pc = "ask"
         /\ \A u \in Threads \ {t} : th'[u] = th[u]
<1>1. th \in [Threads -> Thread]
  BY DEF LibInv, DataType
<1>2. (th[t].idx + 1) % BtnCount \in LibBtns
  BY <1>1, NextIdx
<1>3. QED
  BY <1>1, <1>2 DEF NextBtn

LEMMA ThreadEndsStep ==
  ASSUME LibInv, NEW t \in Threads, ThreadEnds(t)
  PROVE  LibInv'
<1>1. th \in [Threads -> Thread]
  BY DEF LibInv, DataType
<1>2. /\ th' \in [Threads -> Thread] /\ th'[t].pc = "done"
      /\ \A u \in Threads \ {t} : th'[u] = th[u]
  BY <1>1 DEF ThreadEnds
<1>3. QED
  BY <1>2, QuietStep DEF ThreadEnds

(* A step that changes neither threads nor what is remembered.             *)
LEMMA StillStep ==
  ASSUME LibInv, UNCHANGED <<app, cbk, running, id, th, prev, told>>,
         btn' \in [LibBtns -> BtnStates],
         dead' = "null" => dead = "null" \/ app \in {"stop", "join"}
  PROVE  LibInv'
BY DEF LibInv, DataType, ThreadInv, EventInv, Reporting,
       NullOnlyUnregistering

LEMMA AskStep ==
  ASSUME LibInv, NEW t \in Threads, Ask(t)
  PROVE  LibInv'
<1>1. th \in [Threads -> Thread] /\ btn \in [LibBtns -> BtnStates]
  BY DEF LibInv, DataType
<1>2. CASE th' = [th EXCEPT ![t].pc = "wait"] /\ UNCHANGED dead
  <2>1. /\ th' \in [Threads -> Thread] /\ th'[t].pc = "wait"
        /\ \A u \in Threads \ {t} : th'[u] = th[u]
    BY <1>1, <1>2
  <2>2. QED
    BY <1>2, <2>1, QuietStep DEF Ask
<1>3. CASE dead' = "pipe" /\ UNCHANGED th
  BY <1>1, <1>3, StillStep DEF Ask
<1>4. QED
  BY <1>2, <1>3 DEF Ask

LEMMA ReplyStep ==
  ASSUME LibInv, NEW t \in Threads, Reply(t)
  PROVE  LibInv'
<1>1. th \in [Threads -> Thread] /\ btn \in [LibBtns -> BtnStates]
  BY DEF LibInv, DataType
<1>2. PICK s \in BtnStates \cup {"invalid"} :
        th' = [th EXCEPT ![t].pc = "got", ![t].got = s]
  <2>1. btn[th[t].idx] \in BtnStates
    BY <1>1
  <2>2. QED
    BY <2>1 DEF Reply
<1>3. /\ th' \in [Threads -> Thread] /\ th'[t].pc = "got"
      /\ \A u \in Threads \ {t} : th'[u] = th[u]
  BY <1>1, <1>2
<1>4. QED
  BY <1>3, QuietStep DEF Reply

LEMMA ReturnStep ==
  ASSUME LibInv, NEW t \in Threads, CallbackReturns(t)
  PROVE  LibInv'
BY NextBtnThread, QuietStep DEF CallbackReturns

(***************************************************************************)
(* A changed state is remembered and, if there is a callback, about to be  *)
(* reported: it differs from what was told, which was what the library     *)
(* remembered.                                                             *)
(***************************************************************************)
LEMMA CompareStep ==
  ASSUME LibInv, NEW t \in Threads, Compare(t)
  PROVE  LibInv'
<1> DEFINE b == th[t].idx
<1>0. /\ th \in [Threads -> Thread] /\ th[t].pc = "got"
      /\ prev \in [LibBtns -> BtnStates] /\ told \in [LibBtns -> BtnStates]
      /\ b \in LibBtns
  BY DEF LibInv, DataType, Compare
<1>1. CASE NextBtn(t) /\ UNCHANGED prev
  BY <1>0, <1>1, NextBtnThread, QuietStep DEF Compare
<1>2. CASE /\ th[t].got \notin {"invalid", prev[b]}
           /\ prev' = [prev EXCEPT ![b] = th[t].got] /\ PassOn(t)
  <2>1. /\ th' \in [Threads -> Thread] /\ th'[t].pc \in {"ask", "call"}
        /\ th'[t].pc = "call" =>
             cbk # NULL /\ th'[t].got = th[t].got /\ th'[t].idx = b
        /\ cbk # NULL => th'[t].pc = "call"
        /\ \A u \in Threads \ {t} : th'[u] = th[u]
    BY <1>0, <1>2, NextBtnThread DEF PassOn
  <2>2. /\ prev' \in [LibBtns -> BtnStates] /\ prev'[b] = th[t].got
        /\ \A a \in LibBtns \ {b} : prev'[a] = prev[a]
    BY <1>0, <1>2
  <2>3. \A u \in Threads \ {t} : th[u].pc = "none"
    BY <1>0, OnlyThread
  <2>4. UNCHANGED <<btn, app, cbk, running, id, told, dead>>
    BY DEF Compare
  <2>5. DataType'
    BY <2>1, <2>2, <2>4 DEF LibInv, DataType
  <2>6. ThreadInv'
    BY <1>0, <2>1, <2>4, ThreadKeeps
  <2>7. cbk # NULL => \A a \in LibBtns : told[a] = prev[a]
    BY <1>0, <2>3 DEF LibInv, EventInv, Reporting
  <2>8. EventInv'
    <3>1. ASSUME NEW u \in Threads, th'[u].pc = "call"
          PROVE  /\ th'[u].got # "invalid" /\ prev'[th'[u].idx] = th'[u].got
                 /\ told'[th'[u].idx] # th'[u].got
      <4>1. u = t
        BY <2>1, <2>3, <3>1
      <4>2. QED
        BY <1>0, <1>2, <2>1, <2>2, <2>4, <2>7, <3>1, <4>1
    <3>2. ASSUME cbk' # NULL, NEW a \in LibBtns
          PROVE  told'[a] = prev'[a] \/ Reporting(a)'
      <4>1. CASE a = b
        BY <2>1, <2>4, <3>2, <4>1 DEF Reporting
      <4>2. CASE a # b
        BY <2>2, <2>4, <2>7, <3>2, <4>2
      <4>3. QED
        BY <4>1, <4>2
    <3>3. QED
      BY <3>1, <3>2 DEF EventInv
  <2>9. NullOnlyUnregistering'
    BY <2>4 DEF LibInv, NullOnlyUnregistering
  <2>10. QED
    BY <2>5, <2>6, <2>8, <2>9 DEF LibInv
<1>3. QED
  BY <1>1, <1>2 DEF Compare

(* The report brings what was told in line with what is remembered; NULL   *)
(* is called only while the application unregisters.                       *)
LEMMA CallStep ==
  ASSUME LibInv, NEW t \in Threads, CallCbk(t)
  PROVE  LibInv'
<1> DEFINE b == th[t].idx
<1>0. /\ th \in [Threads -> Thread] /\ th[t].pc = "call"
      /\ btn \in [LibBtns -> BtnStates] /\ told \in [LibBtns -> BtnStates]
      /\ b \in LibBtns
  BY DEF LibInv, DataType, CallCbk
<1>1. CASE cbk = NULL /\ dead' = "null" /\ UNCHANGED <<told, th>>
  <2>1. app \in {"stop", "join"}
    BY <1>0, <1>1 DEF LibInv, DataType, ThreadInv
  <2>2. QED
    BY <1>0, <1>1, <2>1, StillStep DEF CallCbk
<1>2. CASE /\ told' = [told EXCEPT ![b] = th[t].got]
           /\ th' = [th EXCEPT ![t].pc = "in"] /\ UNCHANGED dead
  <2>1. /\ th' \in [Threads -> Thread] /\ th'[t].pc = "in"
        /\ \A u \in Threads \ {t} : th'[u] = th[u]
    BY <1>0, <1>2
  <2>2. th[t].got \in BtnStates /\ prev[b] = th[t].got
    BY <1>0 DEF LibInv, EventInv
  <2>3. /\ told' \in [LibBtns -> BtnStates] /\ told'[b] = th[t].got
        /\ \A a \in LibBtns \ {b} : told'[a] = told[a]
    BY <1>0, <1>2, <2>2
  <2>4. \A u \in Threads \ {t} : th[u].pc = "none"
    BY <1>0, OnlyThread
  <2>5. UNCHANGED <<btn, app, cbk, running, id, prev>>
    BY DEF CallCbk
  <2>6. DataType'
    BY <2>1, <2>3, <2>5 DEF LibInv, DataType
  <2>7. ThreadInv'
    BY <1>0, <2>1, <2>5, ThreadKeeps
  <2>8. EventInv'
    <3>1. \A u \in Threads : th'[u].pc # "call"
      BY <2>1, <2>4
    <3>2. ASSUME cbk' # NULL, NEW a \in LibBtns
          PROVE  told'[a] = prev'[a]
      <4>1. CASE a = b
        BY <2>2, <2>3, <2>5, <4>1
      <4>2. CASE a # b
        <5>1. ~Reporting(a)
          BY <2>4, <4>2 DEF Reporting
        <5>2. QED
          BY <2>3, <2>5, <3>2, <4>2, <5>1 DEF LibInv, EventInv
      <4>3. QED
        BY <4>1, <4>2
    <3>3. QED
      BY <3>1, <3>2 DEF EventInv
  <2>9. NullOnlyUnregistering'
    BY <1>2, <2>5 DEF LibInv, NullOnlyUnregistering
  <2>10. QED
    BY <2>6, <2>7, <2>8, <2>9 DEF LibInv
<1>3. QED
  BY <1>1, <1>2 DEF CallCbk

LEMMA PressStep ==
  ASSUME LibInv, NEW b \in LibBtns, Press(b)
  PROVE  LibInv'
<1>1. btn' \in [LibBtns -> BtnStates]
  BY DEF LibInv, DataType, Press
<1>2. QED
  BY <1>1, StillStep DEF Press

LEMMA LibStep == LibInv /\ [LibNext]_libVars => LibInv'
<1> SUFFICES ASSUME LibInv, [LibNext]_libVars PROVE LibInv'
  OBVIOUS
<1>0. btn \in [LibBtns -> BtnStates]
  BY DEF LibInv, DataType
<1>1. CASE Env
  BY <1>0, <1>1, PressStep, RegisterStep, StillStep DEF Env, DaemonExit
<1>2. CASE App
  BY <1>2, StartsThread, StopStep, JoinStep DEF App
<1>3. ASSUME NEW t \in Threads,
             btn_poll_thread(t) \/ Reply(t) \/ CallbackReturns(t)
      PROVE  LibInv'
  BY <1>3, ThreadEndsStep, AskStep, CompareStep, CallStep, ReplyStep,
     ReturnStep
  DEF btn_poll_thread
<1>4. CASE UNCHANGED libVars
  BY <1>0, <1>4, StillStep DEF libVars
<1>5. QED
  BY <1>1, <1>2, <1>3, <1>4 DEF LibNext

(* The library's invariant holds throughout.                               *)
LEMMA LibInvariant == LibSpec => []LibInv
<1>1. QED
  BY LibInitInv, LibStep, PTL DEF LibSpec

(* The variables the other invariants do not need.                         *)
LEMMA FlagStep == FlagType /\ [LibNext]_libVars => FlagType'
BY DEF FlagType, LibNext, libVars, Env, DaemonExit, Press, App, Start, Stop,
       Join, liblcd_register_btn_event_callback, btn_poll_thread, ThreadEnds,
       Ask, Compare, CallCbk, Reply, CallbackReturns

LEMMA RegsStep == RegsType /\ [LibNext]_libVars => RegsType'
<1> SUFFICES ASSUME RegsType, [LibNext]_libVars PROVE RegsType'
  OBVIOUS
<1>1. ASSUME NEW c \in Cbks \cup {NULL},
             liblcd_register_btn_event_callback(c)
      PROVE  RegsType'
  <2>1. regs < MaxRegs /\ regs' = regs + 1
    BY <1>1 DEF liblcd_register_btn_event_callback
  <2>2. QED
    BY <2>1, LibAssumption DEF RegsType
<1>2. CASE \/ DaemonExit \/ \E b \in LibBtns : Press(b)
           \/ App \/ UNCHANGED libVars
  BY <1>2 DEF RegsType, DaemonExit, Press, App, Start, Stop, Join, libVars
<1>3. ASSUME NEW t \in Threads,
             btn_poll_thread(t) \/ Reply(t) \/ CallbackReturns(t)
      PROVE  RegsType'
  BY <1>3 DEF RegsType, btn_poll_thread, ThreadEnds, Ask, Compare, CallCbk,
              Reply, CallbackReturns
<1>4. QED
  BY <1>1, <1>2, <1>3 DEF LibNext, Env

(***************************************************************************)
(* Type correctness of the library's variables.  In particular the thread  *)
(* never hands the callback an invalid state, although a failed read of    *)
(* the daemon's reply leaves one in its variable.                          *)
(***************************************************************************)
THEOREM LibTypes == LibSpec => []LibTypeOK
<1>1. LibInit => FlagType
  BY DEF LibInit, FlagType
<1>2. LibInit => RegsType
  BY LibAssumption DEF LibInit, RegsType
<1>3. LibSpec => []FlagType /\ []RegsType
  BY <1>1, <1>2, FlagStep, RegsStep, PTL DEF LibSpec
<1>4. LibInv /\ FlagType /\ RegsType => LibTypeOK
  BY DEF LibInv, DataType, FlagType, RegsType, LibTypeOK
<1>5. QED
  BY <1>3, <1>4, LibInvariant, PTL

(***************************************************************************)
(* libmmlcd.c: whatever callbacks the application registers and            *)
(* unregisters, there is never a second polling thread, and none after     *)
(* the call that unregistered.                                             *)
(***************************************************************************)
THEOREM OneThread == LibSpec => []ThreadFollowsRegistration
<1>1. LibInv => ThreadFollowsRegistration
  BY DEF LibInv, DataType, ThreadInv, ThreadFollowsRegistration, Alive
<1>2. QED
  BY <1>1, LibInvariant, PTL

(***************************************************************************)
(* btn_poll_thread calls a NULL callback only while the application is in  *)
(* the call that unregisters it.                                           *)
(***************************************************************************)
THEOREM NullCallsConfined == LibSpec => []NullOnlyUnregistering
<1>1. LibInv => NullOnlyUnregistering
  BY DEF LibInv
<1>2. QED
  BY <1>1, LibInvariant, PTL

(***************************************************************************)
(* btn_poll_thread: no button is reported twice in the same state within   *)
(* a registration, for any number of buttons, replaced callbacks included. *)
(***************************************************************************)
THEOREM ReportsAlternate == LibSpec => EventsAlternate
<1>1. LibInv /\ [LibNext]_libVars =>
        [\A t \in Threads : th[t].pc = "call" /\ th'[t].pc = "in" =>
           th[t].got # told[th[t].idx]]_libVars
  BY DEF LibInv, EventInv
<1>2. QED
  BY <1>1, LibInvariant, PTL DEF LibSpec, EventsAlternate
=============================================================================
