------------------------- MODULE MmlcdDaemonProofs --------------------------
(***************************************************************************)
(* Proofs about the daemon's event loop, for any number of connections,    *)
(* descriptors and requests.                                               *)
(*                                                                         *)
(* Both results rest on LoopInv, which says that what the event array      *)
(* holds stays true until it is handled: a pending event of the listening  *)
(* socket means that a connection is waiting, and a pending event of a     *)
(* client socket that the socket is open.                                  *)
(***************************************************************************)
EXTENDS MmlcdDaemon, SequenceTheorems, TLAPS

LoopInv ==
  /\ ListenFd \in events => backlog # <<>>
  /\ \A fd \in events \ {ListenFd} : conOf[fd] # NoConn
  /\ pc \in {"exec", "hup"} =>
       cur.fd \in Fds /\ cur.fd \notin events /\ conOf[cur.fd] # NoConn

IndInv == TypeOK /\ LoopInv

USE DEF clientVars, sockVars, loopVars

(* The request the idle daemon is said to work on is a request.            *)
LEMMA IdleCurType == IdleCur \in [fd : Fds \cup {ListenFd}, req : Reqs]
BY ArgsAssumption DEF IdleCur, Reqs, AnyCmd, Cmds, HasParams

LEMMA IdleFdType ==
  ASSUME NEW fd \in Fds
  PROVE  [IdleCur EXCEPT !.fd = fd] \in [fd : Fds \cup {ListenFd}, req : Reqs]
BY IdleCurType DEF IdleCur

(* A wire of a client is typed: it is a request, whole or cut off.         *)
LEMMA ZeroedType ==
  ASSUME NEW w \in Wire
  PROVE  ipc_read_req_params(w) \in Reqs
BY ArgsAssumption DEF ipc_read_req_params, Zeroed, Wire, Reqs

(* What the sequence operators return.                                     *)
LEMMA AppendType ==
  ASSUME NEW S, NEW s \in Seq(S), NEW e \in S
  PROVE  Append(s, e) \in Seq(S) /\ Append(s, e) # <<>>
BY AppendProperties

LEMMA TailType ==
  ASSUME NEW S, NEW s \in Seq(S), s # <<>>
  PROVE  Head(s) \in S /\ Tail(s) \in Seq(S)
BY HeadTailProperties

LEMMA ExceptAppend ==
  ASSUME NEW D, NEW S, NEW f \in [D -> Seq(S)], NEW c, NEW e \in S
  PROVE  [f EXCEPT ![c] = Append(@, e)] \in [D -> Seq(S)]
BY AppendType

LEMMA ExceptTail ==
  ASSUME NEW D, NEW S, NEW f \in [D -> Seq(S)], NEW c \in D, f[c] # <<>>
  PROVE  [f EXCEPT ![c] = Tail(@)] \in [D -> Seq(S)]
BY TailType

LEMMA InitIndInv == Init => IndInv
BY IdleCurType DEF Init, IndInv, TypeOK, LoopInv

(***************************************************************************)
(* Every step preserves IndInv.  Clients only add to the backlog and to    *)
(* the sockets; accept hands out a descriptor that was free, hence one     *)
(* without a pending event; close is called for the event in hand, which   *)
(* has been taken out of the array.                                        *)
(***************************************************************************)
LEMMA InitStep ==
  ASSUME IndInv, NEW c \in Conns, liblcd_init(c)
  PROVE  IndInv'
<1>0. /\ backlog \in Seq(Conns)
      /\ before \in [Conns -> SUBSET Conns]
  BY DEF IndInv, TypeOK
<1>1. backlog' \in Seq(Conns) /\ (backlog # <<>> => backlog' # <<>>)
  <2>1. backlog' = backlog \/ backlog' = Append(backlog, c)
    BY DEF liblcd_init
  <2>2. QED
    BY <1>0, <2>1, AppendType
<1>2. before' \in [Conns -> SUBSET Conns]
  BY <1>0 DEF liblcd_init
<1>3. TypeOK'
  BY <1>1, <1>2 DEF liblcd_init, IndInv, TypeOK
<1>4. LoopInv'
  BY <1>1 DEF liblcd_init, IndInv, LoopInv
<1>5. QED
  BY <1>3, <1>4 DEF IndInv

LEMMA WriteStep ==
  ASSUME IndInv, NEW c \in Conns, NEW r \in Reqs,
         NEW next \in {"open", "await"}, WriteReq(c, r, next)
  PROVE  IndInv'
<1>0. rx \in [Conns -> Seq(Wire)] /\ sent \in [Conns -> Seq(Reqs)]
  BY DEF IndInv, TypeOK
<1>1. [req |-> r, cut |-> "none"] \in Wire
  BY DEF Wire
<1>2. /\ [rx EXCEPT ![c] = Append(@, [req |-> r, cut |-> "none"])]
             \in [Conns -> Seq(Wire)]
      /\ [sent EXCEPT ![c] = Append(@, r)] \in [Conns -> Seq(Reqs)]
  BY <1>0, <1>1, ExceptAppend
<1>3. rx' \in [Conns -> Seq(Wire)] /\ sent' \in [Conns -> Seq(Reqs)]
  BY <1>0, <1>2 DEF WriteReq
<1>4. TypeOK'
  BY <1>3 DEF WriteReq, IndInv, TypeOK
<1>5. LoopInv'
  BY DEF WriteReq, IndInv, LoopInv
<1>6. QED
  BY <1>4, <1>5 DEF IndInv

(* A bare request, and one with parameters, are requests.                  *)
LEMMA ReqType ==
  ASSUME NEW cmd \in AnyCmd, NEW a \in Args, HasParams(cmd) \/ a = 0
  PROVE  [cmd |-> cmd, arg |-> a] \in Reqs
BY DEF Reqs, HasParams

LEMMA ClientStep ==
  ASSUME IndInv, NEW c \in Conns, Client(c)
  PROVE  IndInv'
<1>0. /\ rx \in [Conns -> Seq(Wire)]
      /\ tx \in [Conns -> Seq(Args)]
  BY DEF IndInv, TypeOK
<1>1. CASE liblcd_init(c)
  BY <1>1, InitStep
<1>2. CASE liblcd_clear(c)
  <2>1. [cmd |-> "clear", arg |-> 0] \in Reqs
    BY ReqType, ArgsAssumption DEF AnyCmd, Cmds
  <2>2. QED
    BY <1>2, <2>1, WriteStep DEF liblcd_clear
<1>3. CASE GetReturn(c)
  <2>0. tx[c] # <<>> => [tx EXCEPT ![c] = Tail(@)] \in [Conns -> Seq(Args)]
    BY <1>0, ExceptTail
  <2>1. tx' \in [Conns -> Seq(Args)]
    BY <1>0, <1>3, <2>0 DEF GetReturn
  <2>2. TypeOK'
    BY <1>3, <2>1 DEF GetReturn, IndInv, TypeOK
  <2>3. LoopInv'
    BY <1>3 DEF GetReturn, IndInv, LoopInv
  <2>4. QED
    BY <2>2, <2>3 DEF IndInv
<1>4. CASE liblcd_deinit(c)
  BY <1>4 DEF liblcd_deinit, IndInv, TypeOK, LoopInv
<1>5. CASE SendInvalid(c)
  <2>1. [req |-> [cmd |-> "invalid", arg |-> 0], cut |-> "none"] \in Wire
    BY ReqType, ArgsAssumption DEF AnyCmd, Wire
  <2>2. rx' \in [Conns -> Seq(Wire)]
    BY <1>0, <1>5, <2>1, ExceptAppend DEF SendInvalid
  <2>3. TypeOK'
    BY <1>5, <2>2 DEF SendInvalid, IndInv, TypeOK
  <2>4. LoopInv'
    BY <1>5 DEF SendInvalid, IndInv, LoopInv
  <2>5. QED
    BY <2>3, <2>4 DEF IndInv
<1>6. ASSUME NEW a \in Args, liblcd_display_string_pos(c, a)
      PROVE  IndInv'
  <2>1. [cmd |-> "print", arg |-> a] \in Reqs
    BY ReqType DEF AnyCmd, Cmds, HasParams
  <2>2. QED
    BY <1>6, <2>1, WriteStep DEF liblcd_display_string_pos
<1>7. ASSUME NEW a \in Args, liblcd_backlight(c, a)
      PROVE  IndInv'
  <2>1. [cmd |-> "backlight", arg |-> a] \in Reqs
    BY ReqType DEF AnyCmd, Cmds, HasParams
  <2>2. QED
    BY <1>7, <2>1, WriteStep DEF liblcd_backlight
<1>8. ASSUME NEW a \in Args, liblcd_get_btn_state(c, a)
      PROVE  IndInv'
  <2>1. [cmd |-> "get_btn_state", arg |-> a] \in Reqs
    BY ReqType DEF AnyCmd, Cmds, HasParams
  <2>2. QED
    BY <1>8, <2>1, WriteStep DEF liblcd_get_btn_state
<1>9. ASSUME NEW r \in Reqs, NEW k \in Cuts, DieInRequest(c, r, k)
      PROVE  IndInv'
  <2>3. [req |-> r, cut |-> k] \in Wire
    BY <1>9, DaemonAssumption DEF Wire
  <2>4. rx' \in [Conns -> Seq(Wire)]
    BY <1>0, <1>9, <2>3, ExceptAppend DEF DieInRequest
  <2>5. TypeOK'
    BY <1>9, <2>4 DEF DieInRequest, IndInv, TypeOK
  <2>6. LoopInv'
    BY <1>9 DEF DieInRequest, IndInv, LoopInv
  <2>7. QED
    BY <2>5, <2>6 DEF IndInv
<1>10. QED
  BY <1>1, <1>2, <1>3, <1>4, <1>5, <1>6, <1>7, <1>8, <1>9 DEF Client

(* Where FinishEvent leaves the daemon: at the next event, or about to     *)
(* close the descriptor whose event it has just taken out of the array.    *)
LEMMA FinishType ==
  ASSUME NEW fd \in Fds, FinishEvent(fd)
  PROVE  /\ pc' \in {"loop", "hup"}
         /\ cur' \in [fd : Fds \cup {ListenFd}, req : Reqs]
         /\ pc' = "hup" => cur'.fd = fd
BY IdleCurType, IdleFdType DEF FinishEvent, IdleCur

LEMMA CloseAllStep ==
  ASSUME IndInv, CloseAll, pc' \in {"stopped", "killed"},
         UNCHANGED <<cl, sent, before, tx, is_running>>,
         done' \in [Conns -> Seq(Reqs)]
  PROVE  IndInv'
<1>1. /\ backlog' \in Seq(Conns)
      /\ rx' \in [Conns -> Seq(Wire)]
  BY EmptySeq DEF CloseAll
<1>2. TypeOK'
  BY <1>1, IdleCurType DEF CloseAll, IndInv, TypeOK
<1>3. LoopInv'
  BY DEF CloseAll, LoopInv
<1>4. QED
  BY <1>2, <1>3 DEF IndInv

LEMMA EpollStep ==
  ASSUME IndInv, epoll_wait
  PROVE  IndInv'
<1>1. PICK b \in Batches :
        /\ events' = b
        /\ hups' = {fd \in b : HungUp(fd)}
        /\ passed' = Ready \ b
  BY DEF epoll_wait
<1>2. b \subseteq Ready
  BY DEF Batches
<1>3. Ready \subseteq Fds \cup {ListenFd}
  BY DEF Ready
<1>4. hups' \subseteq Fds
  BY <1>1 DEF HungUp
<1>5. TypeOK'
  BY <1>1, <1>2, <1>3, <1>4 DEF epoll_wait, IndInv, TypeOK
<1>6. LoopInv'
  BY <1>1, <1>2, DaemonAssumption DEF epoll_wait, LoopInv, Ready
<1>7. QED
  BY <1>5, <1>6 DEF IndInv

LEMMA ConAddStep ==
  ASSUME IndInv, daemon_ipc_con_add
  PROVE  IndInv'
<1>0. /\ backlog \in Seq(Conns) /\ backlog # <<>>
      /\ rx \in [Conns -> Seq(Wire)]
      /\ conOf \in [Fds -> Conns \cup {NoConn}]
  BY DEF IndInv, TypeOK, LoopInv, daemon_ipc_con_add
<1>1. Head(backlog) \in Conns /\ Tail(backlog) \in Seq(Conns)
  BY <1>0, TailType
<1>2. [rx EXCEPT ![Head(backlog)] = <<>>] \in [Conns -> Seq(Wire)]
  BY <1>0, <1>1, EmptySeq
<1>3. /\ backlog' \in Seq(Conns)
      /\ rx' \in [Conns -> Seq(Wire)]
  BY <1>0, <1>1, <1>2 DEF daemon_ipc_con_add
<1>4. conOf' \in [Fds -> Conns \cup {NoConn}]
  BY <1>0, <1>1 DEF daemon_ipc_con_add, FreeFds
<1>5. TypeOK'
  BY <1>3, <1>4 DEF daemon_ipc_con_add, IndInv, TypeOK
<1>6. \A fd \in Fds : conOf[fd] # NoConn => conOf'[fd] # NoConn
  BY <1>0, <1>1, DaemonAssumption DEF daemon_ipc_con_add, FreeFds
<1>7. LoopInv'
  <2>1. events \subseteq Fds \cup {ListenFd}
    BY DEF IndInv, TypeOK
  <2>2. QED
    BY <1>6, <2>1 DEF daemon_ipc_con_add, IndInv, LoopInv
<1>8. QED
  BY <1>5, <1>7 DEF IndInv

LEMMA ConInStep ==
  ASSUME IndInv, NEW fd \in Fds, daemon_ipc_con_in(fd)
  PROVE  IndInv'
<1>0. /\ rx \in [Conns -> Seq(Wire)]
      /\ conOf \in [Fds -> Conns \cup {NoConn}]
      /\ conOf[fd] # NoConn
      /\ events \subseteq Fds \cup {ListenFd}
  BY DEF IndInv, TypeOK, LoopInv, daemon_ipc_con_in
<1> DEFINE c == conOf[fd]
<1>1. c \in Conns
  BY <1>0
<1>2. rx[c] # <<>> =>
        /\ Head(rx[c]) \in Wire
        /\ [rx EXCEPT ![c] = Tail(@)] \in [Conns -> Seq(Wire)]
  BY <1>0, <1>1, ExceptTail, TailType
<1>3. rx' \in [Conns -> Seq(Wire)]
  BY <1>0, <1>1, <1>2 DEF daemon_ipc_con_in
<1>4. /\ pc' \in {"loop", "exec", "hup"}
      /\ cur' \in [fd : Fds \cup {ListenFd}, req : Reqs]
      /\ pc' \in {"exec", "hup"} => cur'.fd = fd
  <2>1. CASE FinishEvent(fd)
    BY <2>1, FinishType
  <2>2. CASE /\ rx[c] # <<>>
             /\ pc' = "exec"
             /\ cur' = [fd |-> fd, req |-> ipc_read_req_params(Head(rx[c]))]
    BY <1>2, <2>2, ZeroedType
  <2>3. QED
    BY <2>1, <2>2 DEF daemon_ipc_con_in
<1>5. TypeOK'
  BY <1>3, <1>4 DEF daemon_ipc_con_in, IndInv, TypeOK
<1>6. LoopInv'
  BY <1>0, <1>4, DaemonAssumption DEF daemon_ipc_con_in, IndInv, LoopInv
<1>7. QED
  BY <1>5, <1>6 DEF IndInv

LEMMA DisplayStep ==
  ASSUME IndInv, cmds_handle_display
  PROVE  IndInv'
<1>0. /\ done \in [Conns -> Seq(Reqs)]
      /\ cur.fd \in Fds /\ cur.req \in Reqs
  BY DEF IndInv, TypeOK, LoopInv, cmds_handle_display
<1>1. [done EXCEPT ![conOf[cur.fd]] = Append(@, cur.req)]
        \in [Conns -> Seq(Reqs)]
  BY <1>0, ExceptAppend
<1>2. /\ pc' \in {"loop", "hup"}
      /\ cur' \in [fd : Fds \cup {ListenFd}, req : Reqs]
      /\ pc' = "hup" => cur'.fd = cur.fd
  BY <1>0, FinishType DEF cmds_handle_display
<1>3. TypeOK'
  BY <1>1, <1>2 DEF cmds_handle_display, IndInv, TypeOK
<1>4. LoopInv'
  BY <1>2 DEF cmds_handle_display, IndInv, LoopInv
<1>5. QED
  BY <1>3, <1>4 DEF IndInv

LEMMA GetBtnStep ==
  ASSUME IndInv, cmds_handle_get_btn_state
  PROVE  IndInv'
<1>0. /\ done \in [Conns -> Seq(Reqs)] /\ tx \in [Conns -> Seq(Args)]
      /\ cur.fd \in Fds /\ cur.req \in Reqs /\ cur.req.arg \in Args
  BY DEF IndInv, TypeOK, LoopInv, cmds_handle_get_btn_state, Reqs
<1>1. /\ [done EXCEPT ![conOf[cur.fd]] = Append(@, cur.req)]
             \in [Conns -> Seq(Reqs)]
      /\ [tx EXCEPT ![conOf[cur.fd]] = Append(@, cur.req.arg)]
             \in [Conns -> Seq(Args)]
  <2>1. [done EXCEPT ![conOf[cur.fd]] = Append(@, cur.req)]
          \in [Conns -> Seq(Reqs)]
    BY <1>0, ExceptAppend
  <2>2. [tx EXCEPT ![conOf[cur.fd]] = Append(@, cur.req.arg)]
          \in [Conns -> Seq(Args)]
    <3>1. \A f \in [Conns -> Seq(Args)], e \in Args :
            [f EXCEPT ![conOf[cur.fd]] = Append(@, e)] \in [Conns -> Seq(Args)]
      BY ExceptAppend
    <3>2. QED
      BY <1>0, <3>1, Zenon
  <2>3. QED
    BY <2>1, <2>2
<1>2. done' \in [Conns -> Seq(Reqs)]
  BY <1>1 DEF cmds_handle_get_btn_state
<1>3. CASE pc' = "killed" /\ CloseAll /\ UNCHANGED tx
  BY <1>2, <1>3, CloseAllStep DEF cmds_handle_get_btn_state
<1>4. CASE /\ FinishEvent(cur.fd)
           /\ UNCHANGED <<conOf, backlog, rx, loopVars>>
           /\ \/ UNCHANGED tx
              \/ tx' = [tx EXCEPT ![conOf[cur.fd]] = Append(@, cur.req.arg)]
  <2>1. /\ pc' \in {"loop", "hup"}
        /\ cur' \in [fd : Fds \cup {ListenFd}, req : Reqs]
        /\ pc' = "hup" => cur'.fd = cur.fd
    BY <1>0, <1>4, FinishType
  <2>2. tx' \in [Conns -> Seq(Args)]
    BY <1>0, <1>1, <1>4
  <2>3. TypeOK'
    BY <1>2, <1>4, <2>1, <2>2 DEF cmds_handle_get_btn_state, IndInv, TypeOK
  <2>4. LoopInv'
    BY <1>4, <2>1 DEF cmds_handle_get_btn_state, IndInv, LoopInv
  <2>5. QED
    BY <2>3, <2>4 DEF IndInv
<1>5. QED
  BY <1>3, <1>4 DEF cmds_handle_get_btn_state

LEMMA ConCloseStep ==
  ASSUME IndInv, daemon_ipc_con_close
  PROVE  IndInv'
<1>0. /\ rx \in [Conns -> Seq(Wire)]
      /\ conOf \in [Fds -> Conns \cup {NoConn}]
      /\ cur.fd \in Fds /\ cur.fd \notin events
      /\ events \subseteq Fds \cup {ListenFd}
  BY DEF IndInv, TypeOK, LoopInv, daemon_ipc_con_close
<1>1. rx' \in [Conns -> Seq(Wire)]
  <2>1. [rx EXCEPT ![conOf[cur.fd]] = <<>>] \in [Conns -> Seq(Wire)]
    BY <1>0, EmptySeq
  <2>2. QED
    BY <2>1 DEF daemon_ipc_con_close
<1>2. TypeOK'
  BY <1>0, <1>1, IdleCurType DEF daemon_ipc_con_close, IndInv, TypeOK
<1>3. LoopInv'
  BY <1>0 DEF daemon_ipc_con_close, IndInv, LoopInv
<1>4. QED
  BY <1>2, <1>3 DEF IndInv

LEMMA NextIndInv == IndInv /\ [Next]_vars => IndInv'
<1> SUFFICES ASSUME IndInv, [Next]_vars
             PROVE  IndInv'
  OBVIOUS
<1>1. ASSUME NEW c \in Conns, Client(c) PROVE IndInv'
  BY <1>1, ClientStep
<1>2. CASE epoll_wait
  BY <1>2, EpollStep
<1>3. CASE EndOfBatch
  BY <1>3 DEF EndOfBatch, IndInv, TypeOK, LoopInv
<1>4. CASE daemon_ipc_con_add
  BY <1>4, ConAddStep
<1>5. ASSUME NEW fd \in Fds, daemon_ipc_con_in(fd) PROVE IndInv'
  BY <1>5, ConInStep
<1>6. CASE cmds_handle_display
  BY <1>6, DisplayStep
<1>7. CASE cmds_handle_get_btn_state
  BY <1>7, GetBtnStep
<1>8. CASE daemon_ipc_con_close
  BY <1>8, ConCloseStep
<1>9. CASE daemon_ipc_cleanup
  <2>1. done' \in [Conns -> Seq(Reqs)]
    BY <1>9 DEF daemon_ipc_cleanup, IndInv, TypeOK
  <2>2. QED
    BY <1>9, <2>1, CloseAllStep DEF daemon_ipc_cleanup
<1>10. CASE daemon_ipc_stop
  BY <1>10 DEF daemon_ipc_stop, IndInv, TypeOK, LoopInv
<1>11. CASE UNCHANGED vars
  BY <1>11 DEF vars, IndInv, TypeOK, LoopInv
<1>12. QED
  BY <1>1, <1>2, <1>3, <1>4, <1>5, <1>6, <1>7, <1>8, <1>9, <1>10, <1>11
     DEF Next, Daemon

LEMMA IndInvHolds == Spec => []IndInv
BY InitIndInv, NextIndInv, PTL DEF Spec

-----------------------------------------------------------------------------
(***************************************************************************)
(* Every reachable state of the daemon and its clients is well typed; in   *)
(* particular daemon_ipc_con_add never accepts from an empty backlog and   *)
(* no request is handled for a descriptor that is not a client's.          *)
(***************************************************************************)
THEOREM TypeCorrect == Spec => []TypeOK
BY IndInvHolds, PTL DEF IndInv

(***************************************************************************)
(* No descriptor in the event array changes hands before its event is      *)
(* handled, for any number of connections and descriptors: only accept and *)
(* close change what a descriptor stands for, accept never takes one with  *)
(* a pending event and close only the one whose event is in hand.          *)
(***************************************************************************)
THEOREM EventFdsStable == Spec => EventFdStable
<1> DEFINE Stable == \A fd \in (events \cap events') \ {ListenFd} :
                       conOf[fd] # NoConn /\ conOf'[fd] = conOf[fd]
<1>1. ASSUME IndInv, [Next]_vars
      PROVE  [Stable]_vars
  <2>0. /\ conOf \in [Fds -> Conns \cup {NoConn}]
        /\ events \subseteq Fds \cup {ListenFd}
        /\ \A fd \in events \ {ListenFd} : conOf[fd] # NoConn
    BY <1>1 DEF IndInv, TypeOK, LoopInv
  <2>1. CASE UNCHANGED conOf
    BY <2>0, <2>1
  <2>2. CASE CloseAll
    BY <2>2 DEF CloseAll
  <2>3. CASE daemon_ipc_con_add
    BY <2>0, <2>3 DEF daemon_ipc_con_add, FreeFds
  <2>4. CASE daemon_ipc_con_close
    <3>1. cur.fd \in Fds /\ cur.fd \notin events
      BY <1>1, <2>4 DEF IndInv, LoopInv, daemon_ipc_con_close
    <3>2. QED
      BY <2>0, <2>4, <3>1 DEF daemon_ipc_con_close
  <2>5. ASSUME NEW c \in Conns, Client(c)
        PROVE  UNCHANGED conOf
    BY <2>5 DEF Client, liblcd_init, liblcd_clear, liblcd_display_string_pos,
                liblcd_backlight, liblcd_get_btn_state, WriteReq, GetReturn,
                liblcd_deinit, SendInvalid, DieInRequest
  <2>6. ASSUME NEW fd \in Fds, daemon_ipc_con_in(fd)
        PROVE  UNCHANGED conOf
    BY <2>6 DEF daemon_ipc_con_in
  <2>7. QED
    BY <1>1, <2>1, <2>2, <2>3, <2>4, <2>5, <2>6
       DEF Next, Daemon, epoll_wait, EndOfBatch, cmds_handle_display,
           cmds_handle_get_btn_state, daemon_ipc_cleanup, daemon_ipc_stop, vars
<1>2. QED
  BY <1>1, IndInvHolds, PTL DEF Spec, EventFdStable
=============================================================================
