---------------------------- MODULE MmlcdDaemon -----------------------------
(***************************************************************************)
(* The mmlcd daemon's main loop: epoll over a listening Unix socket and    *)
(* the accepted connections (daemon_ipc.c), the decoding and execution of  *)
(* requests (cmds.c, ipc_helpers.c), and the libmmlcd calls of its clients *)
(* (libmmlcd.c).  Each connection is one client process that connects,     *)
(* issues requests one after the other, and closes or dies.                *)
(*                                                                         *)
(* The daemon is a single thread: its steps are separated where a client   *)
(* step in between makes a difference, that is between epoll_wait and the  *)
(* handling of each reported event, between reading a request and acting   *)
(* on it, and between a request and the close that follows a hang-up.      *)
(***************************************************************************)
EXTENDS MmlcdIpc, Sequences, FiniteSets, Functions

CONSTANTS
  Conns,       \* client connections
  NoConn,      \* "this descriptor is not a client socket"
  Fds,         \* descriptors the daemon can use for client sockets
  ListenFd,    \* descriptor of the listening socket
  Backlog,     \* how many connections the kernel queues before accept
  MaxEvents,   \* EPOLL_MAX_EVENTS
  TxCap,       \* replies that fit in a socket nobody reads
  MaxSent,     \* bound: requests per connection
  CmdSet,      \* commands the clients issue
  NonReaders,  \* connections of ffs-mmlcd's forwarder, which never reads
  Impatient,   \* clients that may be killed while they wait for a reply
  Cuts,        \* where a dying client may cut off its last request
  HalFails,    \* may the HAL report failure?
  CtlFails     \* may registering a connection with epoll fail?

ASSUME DaemonAssumption ==
  /\ Fds \subseteq Nat /\ ListenFd \notin Fds /\ IsFiniteSet(Fds)
  /\ NoConn \notin Conns
  /\ Backlog \in Nat \ {0} /\ MaxEvents \in Nat \ {0}
  /\ TxCap \in Nat \ {0} /\ MaxSent \in Nat
  /\ CmdSet \subseteq AnyCmd
  /\ NonReaders \subseteq Conns /\ Impatient \subseteq Conns
  /\ Cuts \subseteq CutPoints
  /\ HalFails \in BOOLEAN /\ CtlFails \in BOOLEAN

VARIABLES
  cl,          \* what each client is doing
  backlog,     \* connections waiting for accept, in order
  rx,          \* requests in each connection's socket, unread by the daemon
  tx,          \* replies in each connection's socket, unread by the client
  conOf,       \* the connection behind each descriptor of the daemon
  events,      \* descriptors of the current batch not handled yet
  hups,        \* those reported with EPOLLRDHUP | EPOLLHUP
  passed,      \* ready descriptors the last epoll_wait had no room for
  pc, cur,     \* where the daemon is; the event and request it works on
  is_running,  \* daemon_ipc.c's flag
  sent,        \* history: requests a client wrote in full, valid command
  done,        \* history: requests handed to the HAL
  before       \* history: clients that were gone when this one connected

clientVars == <<cl, sent, before>>
sockVars   == <<backlog, rx, tx>>
loopVars   == <<events, hups, passed>>
vars == <<cl, backlog, rx, tx, conOf, events, hups, passed, pc, cur,
          is_running, sent, done, before>>

IdleCur == [fd |-> ListenFd, req |-> [cmd |-> "clear", arg |-> 0]]

TypeOK ==
  /\ cl \in [Conns -> {"idle", "open", "await", "gone"}]
  /\ backlog \in Seq(Conns)
  /\ rx \in [Conns -> Seq(Wire)]
  /\ tx \in [Conns -> Seq(Args)]
  /\ conOf \in [Fds -> Conns \cup {NoConn}]
  /\ events \in SUBSET (Fds \cup {ListenFd})
  /\ hups \in SUBSET Fds
  /\ passed \in SUBSET (Fds \cup {ListenFd})
  /\ pc \in {"wait", "loop", "exec", "hup", "stopped", "killed"}
  /\ cur \in [fd : Fds \cup {ListenFd}, req : Reqs]
  /\ is_running \in BOOLEAN
  /\ sent \in [Conns -> Seq(Reqs)]
  /\ done \in [Conns -> Seq(Reqs)]
  /\ before \in [Conns -> SUBSET Conns]

(* The daemon runs again from Lifecycle's point of view only as a new      *)
(* process; here it starts when daemon_ipc_run enters its loop.            *)
Init ==
  /\ cl = [c \in Conns |-> "idle"]
  /\ backlog = <<>>
  /\ rx = [c \in Conns |-> <<>>]
  /\ tx = [c \in Conns |-> <<>>]
  /\ conOf = [fd \in Fds |-> NoConn]
  /\ events = {} /\ hups = {} /\ passed = {}
  /\ pc = "wait" /\ cur = IdleCur
  /\ is_running = TRUE
  /\ sent = [c \in Conns |-> <<>>]
  /\ done = [c \in Conns |-> <<>>]
  /\ before = [c \in Conns |-> {}]

Ended == pc \in {"stopped", "killed"}

Accepted(c) == \E fd \in Fds : conOf[fd] = c

(* The daemon's end of c's socket exists: queued or accepted, not closed.  *)
Linked(c) == c \in Range(backlog) \/ Accepted(c)

-----------------------------------------------------------------------------
(* Clients: the calls of libmmlcd.                                         *)

(***************************************************************************)
(* liblcd_init: connect blocks while the backlog is full and fails when    *)
(* nobody listens.                                                         *)
(***************************************************************************)
liblcd_init(c) ==
  /\ cl[c] = "idle"
  /\ \/ /\ ~Ended /\ Len(backlog) < Backlog
        /\ cl' = [cl EXCEPT ![c] = "open"]
        /\ backlog' = Append(backlog, c)
        /\ before' = [before EXCEPT ![c] = {b \in Conns : cl[b] = "gone"}]
     \/ /\ Ended
        /\ cl' = [cl EXCEPT ![c] = "gone"]
        /\ UNCHANGED <<backlog, before>>
  /\ UNCHANGED <<rx, tx, conOf, loopVars, pc, cur, is_running, sent, done>>

(***************************************************************************)
(* One write of a whole request, common to the four library calls.  After  *)
(* the daemon closed its end the write raises SIGPIPE, which no client     *)
(* handles.                                                                *)
(***************************************************************************)
WriteReq(c, r, next) ==
  /\ cl[c] = "open" /\ Len(sent[c]) < MaxSent
  /\ r.cmd \in CmdSet
  /\ \/ /\ Linked(c)
        /\ rx' = [rx EXCEPT ![c] = Append(@, [req |-> r, cut |-> "none"])]
        /\ sent' = [sent EXCEPT ![c] = Append(@, r)]
        /\ cl' = [cl EXCEPT ![c] = next]
     \/ /\ ~Linked(c)
        /\ cl' = [cl EXCEPT ![c] = "gone"]
        /\ UNCHANGED <<rx, sent>>
  /\ UNCHANGED <<backlog, tx, conOf, loopVars, pc, cur, is_running, done,
                 before>>

liblcd_display_string_pos(c, a) ==
  WriteReq(c, [cmd |-> "print", arg |-> a], "open")

liblcd_clear(c) == WriteReq(c, [cmd |-> "clear", arg |-> 0], "open")

liblcd_backlight(c, a) ==
  a \in {0, 1} /\ WriteReq(c, [cmd |-> "backlight", arg |-> a], "open")

(* The caller stays in the blocking read, except for the forwarder of      *)
(* ffs-mmlcd, which copies requests to its socket and never reads it.      *)
liblcd_get_btn_state(c, i) ==
  WriteReq(c, [cmd |-> "get_btn_state", arg |-> i],
           IF c \in NonReaders THEN "open" ELSE "await")

(* The blocking read returns a reply, or end of file once the daemon has   *)
(* closed the socket; the call then returns 0 with *state unchanged.       *)
GetReturn(c) ==
  /\ cl[c] = "await"
  /\ \/ tx[c] # <<>> /\ tx' = [tx EXCEPT ![c] = Tail(@)]
     \/ tx[c] = <<>> /\ ~Linked(c) /\ UNCHANGED tx
  /\ cl' = [cl EXCEPT ![c] = "open"]
  /\ UNCHANGED <<backlog, rx, conOf, loopVars, pc, cur, is_running, sent,
                 done, before>>

(* liblcd_deinit, or the client is killed while it waits for a reply.      *)
liblcd_deinit(c) ==
  /\ cl[c] = "open" \/ (cl[c] = "await" /\ c \in Impatient)
  /\ cl' = [cl EXCEPT ![c] = "gone"]
  /\ UNCHANGED <<sockVars, conOf, loopVars, pc, cur, is_running, sent, done,
                 before>>

(* A client that writes a request in pieces dies with the rest of the      *)
(* request unwritten; the value of parameters not begun is no one's.       *)
DieInRequest(c, r, k) ==
  /\ cl[c] = "open" /\ Linked(c) /\ r.cmd \in CmdSet
  /\ k = "mid_head" \/ HasParams(r.cmd)
  /\ k = "mid_params" \/ r.arg = 0
  /\ rx' = [rx EXCEPT ![c] = Append(@, [req |-> r, cut |-> k])]
  /\ cl' = [cl EXCEPT ![c] = "gone"]
  /\ UNCHANGED <<backlog, tx, conOf, loopVars, pc, cur, is_running, sent,
                 done, before>>

(* A client that does not use libmmlcd sends a command number the daemon   *)
(* does not know: a bare header.                                           *)
SendInvalid(c) ==
  /\ cl[c] = "open" /\ Linked(c) /\ Len(rx[c]) < MaxSent
  /\ "invalid" \in CmdSet
  /\ rx' = [rx EXCEPT ![c] =
              Append(@, [req |-> [cmd |-> "invalid", arg |-> 0],
                         cut |-> "none"])]
  /\ UNCHANGED <<cl, backlog, tx, conOf, loopVars, pc, cur, is_running, sent,
                 done, before>>

Client(c) ==
  \/ liblcd_init(c)
  \/ liblcd_clear(c)
  \/ GetReturn(c)
  \/ liblcd_deinit(c)
  \/ SendInvalid(c)
  \/ \E a \in Args : \/ liblcd_display_string_pos(c, a)
                     \/ liblcd_backlight(c, a)
                     \/ liblcd_get_btn_state(c, a)
  \/ \E r \in Reqs, k \in Cuts : DieInRequest(c, r, k)

-----------------------------------------------------------------------------
(* The daemon.                                                             *)

(* A Unix socket whose peer is gone reports EPOLLIN with the hang-up.      *)
HungUp(fd) == fd \in Fds /\ conOf[fd] # NoConn /\ cl[conOf[fd]] = "gone"

Ready ==
  {fd \in Fds : conOf[fd] # NoConn /\ (rx[conOf[fd]] # <<>> \/ HungUp(fd))}
    \cup (IF backlog # <<>> THEN {ListenFd} ELSE {})

(***************************************************************************)
(* epoll_wait stores up to MaxEvents ready descriptors, in no particular   *)
(* order: the array is a set that is drained in any order.  When there are *)
(* more, successive calls go round robin through the ready ones, so those  *)
(* passed over come first.  A timeout or an interrupted call changes       *)
(* nothing and is a stuttering step.                                       *)
(***************************************************************************)
Batches ==
  {b \in SUBSET Ready :
     /\ b # {} /\ Cardinality(b) <= MaxEvents
     /\ b = Ready \/ Cardinality(b) = MaxEvents
     /\ passed \cap Ready \subseteq b \/ b \subseteq passed}

(* Mutant of epoll_wait: connections registered without the hang-up flags. *)
epoll_wait_NoHangUp ==
  /\ pc = "wait" /\ is_running
  /\ \E b \in Batches : events' = b /\ hups' = {} /\ passed' = Ready \ b
  /\ pc' = "loop"
  /\ UNCHANGED <<clientVars, sockVars, conOf, cur, is_running, done>>

epoll_wait ==
  /\ pc = "wait" /\ is_running
  /\ \E b \in Batches :
       /\ events' = b
       /\ hups' = {fd \in b : HungUp(fd)}
       /\ passed' = Ready \ b
  /\ pc' = "loop"
  /\ UNCHANGED <<clientVars, sockVars, conOf, cur, is_running, done>>

EndOfBatch ==
  /\ pc = "loop" /\ events = {}
  /\ pc' = "wait"
  /\ UNCHANGED <<clientVars, sockVars, conOf, loopVars, cur, is_running, done>>

FreeFds == {fd \in Fds : conOf[fd] = NoConn}

(* Mutants of daemon_ipc_con_add: a full table evicts some connection; the *)
(* newest waiting connection is taken first.                               *)
daemon_ipc_con_add_Evicts ==
  /\ pc = "loop" /\ ListenFd \in events
  /\ events' = events \ {ListenFd}
  /\ \E fd \in IF FreeFds = {} THEN Fds ELSE FreeFds :
       conOf' = [conOf EXCEPT ![fd] = Head(backlog)]
  /\ backlog' = Tail(backlog)
  /\ UNCHANGED <<clientVars, rx, tx, hups, passed, pc, cur, is_running, done>>

daemon_ipc_con_add_NewestFirst ==
  /\ pc = "loop" /\ ListenFd \in events
  /\ events' = events \ {ListenFd}
  /\ IF FreeFds = {} THEN UNCHANGED <<conOf, backlog>>
     ELSE /\ \E fd \in FreeFds :
               conOf' = [conOf EXCEPT ![fd] = backlog[Len(backlog)]]
          /\ backlog' = SubSeq(backlog, 1, Len(backlog) - 1)
  /\ UNCHANGED <<clientVars, rx, tx, hups, passed, pc, cur, is_running, done>>

(***************************************************************************)
(* daemon_ipc_con_add: accept takes the oldest waiting connection and the  *)
(* lowest free descriptor.  Without a free descriptor the connection stays *)
(* queued; if it cannot be registered with epoll it is closed at once.     *)
(***************************************************************************)
daemon_ipc_con_add ==
  /\ pc = "loop" /\ ListenFd \in events
  /\ events' = events \ {ListenFd}
  /\ \/ /\ FreeFds = {}
        /\ UNCHANGED <<conOf, backlog, rx>>
     \/ /\ \E fd \in FreeFds :
             /\ \A other \in FreeFds : fd <= other
             /\ conOf' = [conOf EXCEPT ![fd] = Head(backlog)]
        /\ backlog' = Tail(backlog)
        /\ UNCHANGED rx
     \/ /\ CtlFails /\ FreeFds # {}
        /\ rx' = [rx EXCEPT ![Head(backlog)] = <<>>]
        /\ backlog' = Tail(backlog)
        /\ UNCHANGED conOf
  /\ UNCHANGED <<clientVars, tx, hups, passed, pc, cur, is_running, done>>

(* Mutant of FinishEvent: every connection is closed after one request.    *)
FinishEvent_OneShot(fd) ==
  /\ pc' = "hup"
  /\ cur' = [IdleCur EXCEPT !.fd = fd]

(* Done with the request: close if the event said so, else next event.     *)
FinishEvent(fd) ==
  /\ pc' = IF fd \in hups THEN "hup" ELSE "loop"
  /\ cur' = IF fd \in hups THEN [IdleCur EXCEPT !.fd = fd] ELSE IdleCur

(* Mutants of ipc_read_req_params: the block is not read at all; the       *)
(* number is taken one too high.                                           *)
ipc_read_req_params_Skips(w) == Zeroed(w.req)

ipc_read_req_params_OffByOne(w) == [w.req EXCEPT !.arg = @ + 1]

(***************************************************************************)
(* ipc_read_req_params and its callers: a parameter block that is missing  *)
(* altogether counts as read, and the request runs with the zeroes its     *)
(* buffer was initialised with; one that is incomplete is an error.        *)
(***************************************************************************)
ipc_read_req_params(w) == IF w.cut = "no_params" THEN Zeroed(w.req) ELSE w.req

(* Mutant of Decodes: an incomplete parameter block is accepted.           *)
Decodes_Lenient(w) == w.cut # "mid_head" /\ w.req.cmd \in Cmds

Decodes(w) == w.cut \in {"none", "no_params"} /\ w.req.cmd \in Cmds

(* Mutant of daemon_ipc_con_in: a hang-up is acted on before the data.     *)
daemon_ipc_con_in_HangUpFirst(fd) ==
  /\ pc = "loop" /\ fd \in events \ {ListenFd}
  /\ events' = events \ {fd}
  /\ LET c == conOf[fd] IN
     \/ /\ rx[c] = <<>> \/ fd \in hups
        /\ FinishEvent(fd)
        /\ UNCHANGED rx
     \/ /\ rx[c] # <<>> /\ fd \notin hups
        /\ rx' = [rx EXCEPT ![c] = Tail(@)]
        /\ pc' = "exec"
        /\ cur' = [fd |-> fd, req |-> ipc_read_req_params(Head(rx[c]))]
  /\ UNCHANGED <<clientVars, backlog, tx, conOf, hups, passed, is_running,
                 done>>

(* Mutant of daemon_ipc_con_in: everything there is to read is read, and   *)
(* the first request of it is handled.                                     *)
daemon_ipc_con_in_Drains(fd) ==
  /\ pc = "loop" /\ fd \in events \ {ListenFd}
  /\ events' = events \ {fd}
  /\ rx' = [rx EXCEPT ![conOf[fd]] = <<>>]
  /\ IF rx[conOf[fd]] # <<>> /\ Decodes(Head(rx[conOf[fd]]))
     THEN /\ pc' = "exec"
          /\ cur' = [fd |-> fd, req |-> Head(rx[conOf[fd]]).req]
     ELSE FinishEvent(fd)
  /\ UNCHANGED <<clientVars, backlog, tx, conOf, hups, passed, is_running,
                 done>>

(***************************************************************************)
(* daemon_ipc_con_in up to the point where the request is known: nothing   *)
(* to read, a header or a parameter block that is cut off or a command     *)
(* that does not exist (read and dropped), or a request to act on.         *)
(***************************************************************************)
daemon_ipc_con_in(fd) ==
  /\ pc = "loop" /\ fd \in events \ {ListenFd}
  /\ events' = events \ {fd}
  /\ LET c == conOf[fd] IN
     \/ /\ rx[c] = <<>>
        /\ FinishEvent(fd)
        /\ UNCHANGED rx
     \/ /\ rx[c] # <<>> /\ ~Decodes(Head(rx[c]))
        /\ rx' = [rx EXCEPT ![c] = Tail(@)]
        /\ FinishEvent(fd)
     \/ /\ rx[c] # <<>> /\ Decodes(Head(rx[c]))
        /\ rx' = [rx EXCEPT ![c] = Tail(@)]
        /\ pc' = "exec"
        /\ cur' = [fd |-> fd, req |-> ipc_read_req_params(Head(rx[c]))]
  /\ UNCHANGED <<clientVars, backlog, tx, conOf, hups, passed, is_running,
                 done>>

(* The process ends: the kernel closes its sockets and drops what is in    *)
(* them.                                                                   *)
CloseAll ==
  /\ conOf' = [fd \in Fds |-> NoConn]
  /\ backlog' = <<>>
  /\ rx' = [c \in Conns |-> <<>>]
  /\ events' = {} /\ hups' = {} /\ passed' = {}
  /\ cur' = IdleCur

(* Mutant of cmds_handle_display: display commands are acknowledged.       *)
cmds_handle_display_Acks ==
  /\ pc = "exec" /\ cur.req.cmd # "get_btn_state"
  /\ done' = [done EXCEPT ![conOf[cur.fd]] = Append(@, cur.req)]
  /\ tx' = [tx EXCEPT ![conOf[cur.fd]] = Append(@, 0)]
  /\ FinishEvent(cur.fd)
  /\ UNCHANGED <<clientVars, backlog, rx, conOf, loopVars, is_running>>

(***************************************************************************)
(* cmds_handle_print, _clear and _backlight: one call of the HAL, whose    *)
(* result daemon_ipc_con_in throws away.                                   *)
(***************************************************************************)
cmds_handle_display ==
  /\ pc = "exec" /\ cur.req.cmd # "get_btn_state"
  /\ done' = [done EXCEPT ![conOf[cur.fd]] = Append(@, cur.req)]
  /\ FinishEvent(cur.fd)
  /\ UNCHANGED <<clientVars, sockVars, conOf, loopVars, is_running>>

(***************************************************************************)
(* cmds_handle_get_btn_state: without a button state nothing is written to *)
(* the client.  The write to a full socket fails; the write to a client    *)
(* that is gone raises SIGPIPE, whose default action nothing in src/       *)
(* changes.                                                                *)
(***************************************************************************)
cmds_handle_get_btn_state ==
  /\ pc = "exec" /\ cur.req.cmd = "get_btn_state"
  /\ LET c  == conOf[cur.fd]
         ok == cur.req.arg < BtnCount
     IN
     /\ done' = [done EXCEPT ![c] = Append(@, cur.req)]
     /\ \/ /\ ~ok \/ HalFails
           /\ FinishEvent(cur.fd)
           /\ UNCHANGED <<conOf, sockVars, loopVars>>
        \/ /\ ok /\ cl[c] # "gone" /\ Len(tx[c]) < TxCap
           /\ tx' = [tx EXCEPT ![c] = Append(@, cur.req.arg)]
           /\ FinishEvent(cur.fd)
           /\ UNCHANGED <<conOf, backlog, rx, loopVars>>
        \/ /\ ok /\ cl[c] # "gone" /\ Len(tx[c]) >= TxCap
           /\ FinishEvent(cur.fd)
           /\ UNCHANGED <<conOf, sockVars, loopVars>>
        \/ /\ ok /\ cl[c] = "gone"
           /\ pc' = "killed"
           /\ CloseAll
           /\ UNCHANGED tx
  /\ UNCHANGED <<clientVars, is_running>>

(* daemon_ipc_con_close: whatever is still unread in the socket is lost.   *)
daemon_ipc_con_close ==
  /\ pc = "hup"
  /\ conOf' = [conOf EXCEPT ![cur.fd] = NoConn]
  /\ rx' = [rx EXCEPT ![conOf[cur.fd]] = <<>>]
  /\ hups' = hups \ {cur.fd}
  /\ pc' = "loop" /\ cur' = IdleCur
  /\ UNCHANGED <<clientVars, backlog, tx, events, passed, is_running, done>>

(* sig_handler on SIGINT or SIGTERM, at any point of the loop.             *)
daemon_ipc_stop ==
  /\ ~Ended /\ is_running
  /\ is_running' = FALSE
  /\ UNCHANGED <<clientVars, sockVars, conOf, loopVars, pc, cur, done>>

(* The loop condition fails: daemon_ipc_cleanup, then main returns.        *)
daemon_ipc_cleanup ==
  /\ pc = "wait" /\ ~is_running
  /\ pc' = "stopped"
  /\ CloseAll
  /\ UNCHANGED <<clientVars, tx, is_running, done>>

Daemon ==
  \/ epoll_wait
  \/ EndOfBatch
  \/ daemon_ipc_con_add
  \/ \E fd \in Fds : daemon_ipc_con_in(fd)
  \/ cmds_handle_display
  \/ cmds_handle_get_btn_state
  \/ daemon_ipc_con_close
  \/ daemon_ipc_cleanup

Next ==
  \/ \E c \in Conns : Client(c)
  \/ Daemon
  \/ daemon_ipc_stop

(***************************************************************************)
(* The daemon is a process that is never blocked for good (its HAL calls   *)
(* return, epoll_wait returns when something is ready), so it is weakly    *)
(* fair.  A client in the library's read call gets to return from it.      *)
(* Nothing makes a client connect, write or close.                         *)
(***************************************************************************)
Fairness ==
  /\ WF_vars(Daemon)
  /\ \A c \in Conns : WF_vars(GetReturn(c))

Spec == Init /\ [][Next]_vars /\ Fairness

(***************************************************************************)
(* Clients that are mmlcdctl processes: main calls liblcd_deinit and exits *)
(* whatever its command did.                                               *)
(***************************************************************************)
CtlSpec == Spec /\ \A c \in Conns : WF_vars(liblcd_deinit(c))

-----------------------------------------------------------------------------
(* Properties.                                                             *)

(***************************************************************************)
(* While an event waits in the array that epoll_wait filled, its           *)
(* descriptor keeps naming the connection it was reported for.  The loop   *)
(* of daemon_ipc_run closes and accepts sockets while later events of the  *)
(* array are still to be handled, and accept reuses closed descriptors.    *)
(***************************************************************************)
EventFdStable ==
  [][\A fd \in (events \cap events') \ {ListenFd} :
       conOf[fd] # NoConn /\ conOf'[fd] = conOf[fd]]_vars

(***************************************************************************)
(* What daemon_ipc_con_in hands to the HAL for a client is, command and    *)
(* parameters, what the client wrote, once each and in order.  The one     *)
(* exception is the last request of a client that is gone: if not one byte *)
(* of its parameters was written, it is executed with all of them zero.    *)
(***************************************************************************)
DoneAsWritten ==
  \A c \in Conns : \A i \in 1 .. Len(done[c]) :
    \/ i <= Len(sent[c]) /\ done[c][i] = sent[c][i]
    \/ i = Len(sent[c]) + 1 /\ cl[c] = "gone" /\ done[c][i].arg = 0

(***************************************************************************)
(* A reply that liblcd_get_btn_state can read is the one to the request it *)
(* is waiting for: no reply is left over from an earlier call, and no      *)
(* other command produces one.                                             *)
(***************************************************************************)
ReplyMatches ==
  \A c \in Conns \ NonReaders :
    tx[c] # <<>> =>
      /\ cl[c] \in {"await", "gone"}
      /\ tx[c] = <<sent[c][Len(sent[c])].arg>>
      /\ sent[c][Len(sent[c])].cmd = "get_btn_state"

(***************************************************************************)
(* Commands of programs run one after the other take effect in that order: *)
(* once a request of a client is handed to the HAL, no request of a client *)
(* that was gone before it connected still is.  The example scripts run    *)
(* mmlcdctl repeatedly and rely on this.                                   *)
(***************************************************************************)
SequentialOrder ==
  [][\A c \in Conns : \A b \in before[c] :
       done[c] # <<>> => done'[b] = done[b]]_vars

(***************************************************************************)
(* daemon_ipc_con_close is only reached with an empty socket: a hang-up    *)
(* does not discard requests the client wrote before it.                   *)
(***************************************************************************)
NoRequestLost == pc = "hup" => rx[conOf[cur.fd]] = <<>>

(***************************************************************************)
(* The descriptor of a connection whose client is gone is closed in the    *)
(* end, whatever the client left in the socket.                            *)
(***************************************************************************)
FdsReclaimed == \A c \in Conns : cl[c] = "gone" ~> ~Accepted(c)

(***************************************************************************)
(* A command that was written in full is executed, unless the daemon is    *)
(* told to stop first: mmlcdctl does not wait for its command to be        *)
(* handled before it exits.                                                *)
(***************************************************************************)
CommandExecuted ==
  \A c \in Conns : sent[c] # <<>> ~> (Len(done[c]) = Len(sent[c]) \/ Ended)

(***************************************************************************)
(* A client that keeps its connection open gets every request executed,    *)
(* however many it writes at once and whether or not it reads the replies: *)
(* one daemon_ipc_con_in handles one request, and the level-triggered      *)
(* epoll reports the descriptor again.                                     *)
(***************************************************************************)
OpenClientServed ==
  \A c \in Conns :
    sent[c] # <<>> ~> (Len(done[c]) = Len(sent[c]) \/ cl[c] = "gone" \/ Ended)

(***************************************************************************)
(* A client that goes away in the middle of an exchange does not take the  *)
(* daemon down.                                                            *)
(***************************************************************************)
SurvivesClients == pc # "killed"

(***************************************************************************)
(* liblcd_get_btn_state returns.                                           *)
(***************************************************************************)
GetReturns == \A c \in Conns : cl[c] = "await" ~> cl[c] # "await"

(***************************************************************************)
(* The daemon implements the abstract service: a session is open while the *)
(* daemon's end of the socket exists.                                      *)
(***************************************************************************)
Session(c) ==
  IF Linked(c) THEN "open" ELSE IF cl[c] = "idle" THEN "new" ELSE "over"

Service ==
  INSTANCE CommandService WITH
    up <- ~Ended,
    session <- [c \in Conns |-> Session(c)],
    held <- [c \in Conns |-> cl[c] # "gone"]

ImplementsService == Service!SSpec
=============================================================================
