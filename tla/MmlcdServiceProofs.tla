------------------------- MODULE MmlcdServiceProofs -------------------------
(***************************************************************************)
(* Proofs that the daemon serves its clients as CommandService says: what  *)
(* it executes is what was written, replies reach the call that waits for  *)
(* them, a hang-up loses nothing that mmlcdctl wrote, and programs run one *)
(* after the other are served in that order.                               *)
(***************************************************************************)
EXTENDS MmlcdDaemonProofs, FiniteSetTheorems

Queued(c) == \E i \in 1 .. Len(backlog) : backlog[i] = c

(***************************************************************************)
(* A connection is in one place at a time: it has at most one descriptor,  *)
(* waits at most once and not after it was accepted.  Once the daemon has  *)
(* closed it, its socket holds nothing.                                    *)
(***************************************************************************)
OneFd ==
  \A f, g \in Fds : conOf[f] # NoConn /\ conOf[f] = conOf[g] => f = g

OneTurn ==
  \A i, j \in 1 .. Len(backlog) : backlog[i] = backlog[j] => i = j

NotBoth == \A f \in Fds : ~Queued(conOf[f])

Fresh ==
  \A c \in Conns :
    cl[c] = "idle" => ~Linked(c) /\ sent[c] = <<>> /\ done[c] = <<>>

ClosedEmpty == \A c \in Conns : ~Linked(c) => rx[c] = <<>>

ConnInv == OneFd /\ OneTurn /\ NotBoth /\ Fresh /\ ClosedEmpty

(***************************************************************************)
(* A hang-up in hand is that of a client that is gone for good, and it is  *)
(* in hand until its descriptor is closed.                                 *)
(***************************************************************************)
HupInv ==
  /\ \A f \in hups :
       /\ conOf[f] \in Conns /\ cl[conOf[f]] = "gone"
       /\ f \in events \/ (pc \in {"exec", "hup"} /\ cur.fd = f)
  /\ pc = "hup" => cur.fd \in hups
  /\ pc = "wait" => events = {}

(***************************************************************************)
(* The unread requests of a connection are, in order, what is left of the  *)
(* requests written: pos numbers them, invalid and cut off ones not        *)
(* counted, from the ones taken to the last one written.                   *)
(***************************************************************************)
InExec(c) == pc = "exec" /\ conOf[cur.fd] = c

Taken(c) == Len(done[c]) + (IF InExec(c) THEN 1 ELSE 0)

Whole(w) == w.cut = "none" /\ w.req.cmd \in Cmds

Numbers(q, s, t, pos) ==
  /\ pos \in [0 .. Len(q) -> 0 .. Len(s)]
  /\ pos[0] = t /\ pos[Len(q)] = Len(s)
  /\ \A i \in 1 .. Len(q) :
       IF Whole(q[i]) THEN pos[i] = pos[i - 1] + 1 /\ q[i].req = s[pos[i]]
                      ELSE pos[i] = pos[i - 1]

Numbered(q, s, t) ==
  \E pos \in [0 .. Len(q) -> 0 .. Len(s)] : Numbers(q, s, t, pos)

CutLast(c) ==
  \A i \in 1 .. Len(rx[c]) :
    rx[c][i].cut # "none" =>
      i = Len(rx[c]) /\ cl[c] = "gone" /\ rx[c][i].cut \in Cuts

Waiting(c) ==
  Linked(c) => \/ Numbered(rx[c], sent[c], Taken(c))
               \/ rx[c] = <<>> /\ cl[c] = "gone"

InHand(c) ==
  InExec(c) =>
    \/ Len(done[c]) + 1 <= Len(sent[c]) /\ cur.req = sent[c][Len(done[c]) + 1]
    \/ /\ Len(done[c]) = Len(sent[c]) /\ cl[c] = "gone"
       /\ cur.req.arg = 0 /\ "no_params" \in Cuts

Executed(c) ==
  \A i \in 1 .. Len(done[c]) :
    \/ i <= Len(sent[c]) /\ done[c][i] = sent[c][i]
    \/ i = Len(sent[c]) + 1 /\ cl[c] = "gone" /\ done[c][i].arg = 0

HistOf(c) == CutLast(c) /\ Waiting(c) /\ InHand(c) /\ Executed(c)

HistInv == \A c \in Conns : HistOf(c)

(***************************************************************************)
(* At most one reply is due to a client of libmmlcd: the answer to the     *)
(* last request written, while the client is in its read call.             *)
(***************************************************************************)
Asks(r) == r.cmd = "get_btn_state"

AskInExec(c) == InExec(c) /\ Asks(cur.req)

AskLeft(c, n) == \E i \in 1 .. n : Asks(rx[c][i].req)

LastSent(c) == sent[c][Len(sent[c])]

LastAsks(c) == sent[c] # <<>> /\ Asks(LastSent(c))

Awaiting(c) ==
  \/ /\ tx[c] = <<>>
     /\ AskInExec(c) /\ cur.req = LastSent(c) /\ ~AskLeft(c, Len(rx[c]))
  \/ /\ tx[c] = <<>> /\ rx[c] # <<>>
     /\ ~AskInExec(c) /\ ~AskLeft(c, Len(rx[c]) - 1)
     /\ rx[c][Len(rx[c])].req = LastSent(c)
  \/ /\ tx[c] \in {<<>>, <<LastSent(c).arg>>}
     /\ ~AskInExec(c) /\ ~AskLeft(c, Len(rx[c]))

ReplyOf(c) ==
  /\ cl[c] = "idle" => tx[c] = <<>>
  /\ cl[c] = "open" =>
       tx[c] = <<>> /\ ~AskInExec(c) /\ ~AskLeft(c, Len(rx[c]))
  /\ cl[c] = "await" => LastAsks(c) /\ Awaiting(c)
  /\ cl[c] = "gone" =>
       tx[c] = <<>> \/ (LastAsks(c) /\ tx[c] = <<LastSent(c).arg>>)

ReplyInv == \A c \in Conns \ NonReaders : ReplyOf(c)

(***************************************************************************)
(* With one request per client, as mmlcdctl writes, a socket holds no more *)
(* than that one.                                                          *)
(***************************************************************************)
OneWire ==
  /\ \A c \in Conns : Len(rx[c]) <= Len(sent[c]) /\ Len(sent[c]) <= 1
  /\ pc \in {"exec", "hup"} /\ cur.fd \in hups => rx[conOf[cur.fd]] = <<>>

(***************************************************************************)
(* A client b that was gone when c connected is ahead of c: in the queue,  *)
(* then with a hang-up in hand when c is accepted, and closed before the   *)
(* first event of c is reported.                                           *)
(***************************************************************************)
Pending(b) == \E f \in hups : conOf[f] = b

Ahead(b, c) ==
  /\ cl[b] = "gone"
  /\ \A j \in 1 .. Len(backlog) :
       backlog[j] = c /\ Linked(b) =>
         Accepted(b) \/ \E i \in 1 .. j - 1 : backlog[i] = b
  /\ ListenFd \in events /\ backlog[1] = c /\ Accepted(b) => Pending(b)
  /\ ~Queued(c) /\ Linked(b) => Pending(b)

Started(c) ==
  \/ done[c] # <<>>
  \/ \E f \in Fds : /\ conOf[f] = c
                    /\ f \in events \/ (pc \in {"exec", "hup"} /\ cur.fd = f)

OrderOf(b, c) == Ahead(b, c) /\ (Started(c) => ~Linked(b))

OrderInv == \A c \in Conns : \A b \in before[c] : OrderOf(b, c)

-----------------------------------------------------------------------------
USE DEF clientVars, sockVars, loopVars

(* The queue by its places.                                                *)
LEMMA RangeOfQueue ==
  ASSUME NEW S, NEW q \in Seq(S), NEW c
  PROVE  c \in Range(q) <=> \E i \in 1 .. Len(q) : q[i] = c
BY RangeEquality

LEMMA LinkedIs ==
  ASSUME TypeOK, NEW c
  PROVE  Linked(c) <=> Queued(c) \/ Accepted(c)
BY RangeOfQueue DEF TypeOK, Linked, Queued

LEMMA LinkedIsNext ==
  ASSUME TypeOK', NEW c
  PROVE  Linked(c)' <=> Queued(c)' \/ Accepted(c)'
BY RangeOfQueue DEF TypeOK, Linked, Queued

(* Where no connection is opened, accepted or closed, the daemon's ends of *)
(* the sockets stay what they are.                                         *)
LEMMA LinkFrame ==
  ASSUME UNCHANGED <<conOf, backlog>>, NEW c
  PROVE  /\ Linked(c)' <=> Linked(c)
         /\ Queued(c)' <=> Queued(c)
         /\ Accepted(c)' <=> Accepted(c)
BY DEF Linked, Queued, Accepted

LEMMA ConnFrame ==
  ASSUME ConnInv, UNCHANGED <<conOf, backlog>>,
         \A c \in Conns :
           /\ cl'[c] = "idle" =>
                cl[c] = "idle" /\ sent'[c] = sent[c] /\ done'[c] = done[c]
           /\ ~Linked(c) => rx'[c] = rx[c]
  PROVE  ConnInv'
<1>1. (OneFd /\ OneTurn /\ NotBoth)'
  BY DEF ConnInv, OneFd, OneTurn, NotBoth, Queued
<1>2. Fresh'
  BY LinkFrame DEF ConnInv, Fresh
<1>3. ClosedEmpty'
  BY LinkFrame DEF ConnInv, ClosedEmpty
<1>4. QED
  BY <1>1, <1>2, <1>3 DEF ConnInv

LEMMA QueueAppend ==
  ASSUME NEW S, NEW q \in Seq(S), NEW e \in S
  PROVE  /\ Len(Append(q, e)) = Len(q) + 1 /\ Len(q) \in Nat
         /\ \A i \in 1 .. Len(q) : Append(q, e)[i] = q[i]
         /\ Append(q, e)[Len(q) + 1] = e
BY AppendProperties, LenProperties

LEMMA QueueTail ==
  ASSUME NEW S, NEW q \in Seq(S), q # <<>>
  PROVE  /\ Len(q) \in Nat \ {0} /\ Len(Tail(q)) = Len(q) - 1
         /\ Head(q) = q[1] /\ Head(q) \in S
         /\ \A i \in 1 .. Len(q) - 1 : Tail(q)[i] = q[i + 1]
BY HeadTailProperties, EmptySeq

(* connect appends a connection that is nowhere yet.                       *)
LEMMA ConnConnect ==
  ASSUME IndInv, IndInv', ConnInv, NEW c \in Conns, cl[c] = "idle",
         backlog' = Append(backlog, c), cl' = [cl EXCEPT ![c] = "open"],
         UNCHANGED <<conOf, rx, sent, done>>
  PROVE  /\ ConnInv'
         /\ \A d \in Conns : Linked(d)' <=> Linked(d) \/ d = c
<1>0. TypeOK /\ TypeOK' /\ ~Linked(c)
  BY DEF IndInv, ConnInv, Fresh
<1>1. backlog \in Seq(Conns) /\ conOf \in [Fds -> Conns \cup {NoConn}]
      /\ cl \in [Conns -> {"idle", "open", "await", "gone"}]
  BY <1>0 DEF TypeOK
<1>2. /\ Len(backlog') = Len(backlog) + 1 /\ Len(backlog) \in Nat
      /\ \A i \in 1 .. Len(backlog) : backlog'[i] = backlog[i]
      /\ backlog'[Len(backlog) + 1] = c
  BY <1>1, QueueAppend
<1>3. ~Queued(c) /\ ~Accepted(c)
  BY <1>0, LinkedIs
<1>4. \A d : Queued(d)' <=> Queued(d) \/ d = c
  BY <1>2 DEF Queued
<1>5. \A d : Accepted(d)' <=> Accepted(d)
  BY DEF Accepted
<1>6. \A d : Linked(d)' <=> Linked(d) \/ d = c
  BY <1>0, <1>4, <1>5, LinkedIs, LinkedIsNext
<1>7. OneFd'
  BY DEF ConnInv, OneFd
<1>8. OneTurn'
  BY <1>2, <1>3 DEF ConnInv, OneTurn, Queued
<1>9. NotBoth'
  BY <1>3, <1>4 DEF ConnInv, NotBoth, Accepted, Queued
<1>10. Fresh'
  BY <1>1, <1>6 DEF ConnInv, Fresh
<1>11. ClosedEmpty'
  BY <1>6 DEF ConnInv, ClosedEmpty
<1>12. QED
  BY <1>6, <1>7, <1>8, <1>9, <1>10, <1>11 DEF ConnInv

(***************************************************************************)
(* accept takes the first of the queue out of it: the connection gets a    *)
(* descriptor, or is closed at once.                                       *)
(***************************************************************************)
LEMMA Dequeue ==
  ASSUME IndInv, ConnInv, backlog # <<>>, backlog' = Tail(backlog)
  PROVE  /\ Len(backlog) \in Nat \ {0} /\ Len(backlog') = Len(backlog) - 1
         /\ Head(backlog) = backlog[1] /\ Head(backlog) \in Conns
         /\ \A i \in 1 .. Len(backlog) - 1 : backlog'[i] = backlog[i + 1]
         /\ \A d : Queued(d)' <=> Queued(d) /\ d # Head(backlog)
         /\ OneTurn'
<1>1. backlog \in Seq(Conns)
  BY DEF IndInv, TypeOK
<1>2. /\ Len(backlog) \in Nat \ {0} /\ Len(backlog') = Len(backlog) - 1
      /\ Head(backlog) = backlog[1] /\ Head(backlog) \in Conns
      /\ \A i \in 1 .. Len(backlog) - 1 : backlog'[i] = backlog[i + 1]
  BY <1>1, QueueTail
<1>3. \A i, j \in 1 .. Len(backlog) : backlog[i] = backlog[j] => i = j
  BY DEF ConnInv, OneTurn
<1>4. ASSUME NEW d, NEW i \in 1 .. Len(backlog'), backlog'[i] = d
      PROVE  Queued(d) /\ d # Head(backlog)
  BY <1>2, <1>3, <1>4 DEF Queued
<1>5. ASSUME NEW d, NEW i \in 1 .. Len(backlog), backlog[i] = d,
             d # Head(backlog)
      PROVE  Queued(d)'
  <2>1. i - 1 \in 1 .. Len(backlog') /\ backlog'[i - 1] = d
    BY <1>2, <1>5
  <2>2. QED
    BY <2>1 DEF Queued
<1>6. \A d : Queued(d)' <=> Queued(d) /\ d # Head(backlog)
  BY <1>4, <1>5 DEF Queued
<1>7. OneTurn'
  BY <1>2, <1>3 DEF OneTurn
<1>8. QED
  BY <1>2, <1>6, <1>7

LEMMA ConnAccept ==
  ASSUME IndInv, IndInv', ConnInv, backlog # <<>>, NEW fd \in FreeFds,
         backlog' = Tail(backlog),
         conOf' = [conOf EXCEPT ![fd] = Head(backlog)],
         UNCHANGED <<cl, rx, sent, done>>
  PROVE  /\ ConnInv'
         /\ \A d \in Conns : Linked(d)' <=> Linked(d)
<1>0. TypeOK /\ TypeOK' /\ conOf \in [Fds -> Conns \cup {NoConn}]
      /\ fd \in Fds /\ conOf[fd] = NoConn
  BY DEF IndInv, TypeOK, FreeFds
<1> DEFINE h == Head(backlog)
<1>1. /\ h \in Conns /\ h # NoConn /\ h = backlog[1]
      /\ Len(backlog) \in Nat \ {0}
      /\ \A d : Queued(d)' <=> Queued(d) /\ d # h
      /\ OneTurn'
  BY Dequeue, DaemonAssumption
<1>2. Queued(h)
  BY <1>1 DEF Queued
<1>3. \A f \in Fds : conOf[f] # h
  BY <1>2 DEF ConnInv, NotBoth
<1>4. \A f \in Fds : conOf'[f] = IF f = fd THEN h ELSE conOf[f]
  BY <1>0
<1>5. \A d : d # NoConn => (Accepted(d)' <=> Accepted(d) \/ d = h)
  BY <1>0, <1>4 DEF Accepted
<1>6. OneFd'
  BY <1>3, <1>4 DEF ConnInv, OneFd
<1>7. NotBoth'
  BY <1>1, <1>4 DEF ConnInv, NotBoth
<1>8. \A d \in Conns : Linked(d)' <=> Linked(d)
  <2>1. \A d \in Conns : d # NoConn
    BY DaemonAssumption
  <2>2. QED
    BY <1>0, <1>1, <1>2, <1>5, <2>1, LinkedIs, LinkedIsNext
<1>9. Fresh' /\ ClosedEmpty'
  BY <1>8 DEF ConnInv, Fresh, ClosedEmpty
<1>10. QED
  BY <1>1, <1>6, <1>7, <1>8, <1>9 DEF ConnInv

LEMMA ConnRefused ==
  ASSUME IndInv, IndInv', ConnInv, backlog # <<>>,
         backlog' = Tail(backlog), rx' = [rx EXCEPT ![Head(backlog)] = <<>>],
         UNCHANGED <<conOf, cl, sent, done>>
  PROVE  /\ ConnInv'
         /\ \A d \in Conns : Linked(d)' <=> Linked(d) /\ d # Head(backlog)
<1>0. TypeOK /\ TypeOK' /\ rx \in [Conns -> Seq(Wire)]
  BY DEF IndInv, TypeOK
<1> DEFINE h == Head(backlog)
<1>1. /\ h \in Conns /\ h = backlog[1] /\ Len(backlog) \in Nat \ {0}
      /\ \A d : Queued(d)' <=> Queued(d) /\ d # h
      /\ OneTurn'
  BY Dequeue
<1>2. Queued(h)
  BY <1>1 DEF Queued
<1>3. ~Accepted(h)
  BY <1>2 DEF ConnInv, NotBoth, Accepted
<1>4. \A d : Accepted(d)' <=> Accepted(d)
  BY DEF Accepted
<1>5. \A d \in Conns : Linked(d)' <=> Linked(d) /\ d # h
  BY <1>0, <1>1, <1>3, <1>4, LinkedIs, LinkedIsNext
<1>6. OneFd' /\ NotBoth'
  BY <1>1 DEF ConnInv, OneFd, NotBoth
<1>7. Fresh'
  BY <1>5 DEF ConnInv, Fresh
<1>8. \A d \in Conns : rx'[d] = IF d = h THEN <<>> ELSE rx[d]
  BY <1>0
<1>9. ClosedEmpty'
  BY <1>5, <1>8 DEF ConnInv, ClosedEmpty
<1>10. QED
  BY <1>1, <1>5, <1>6, <1>7, <1>9 DEF ConnInv

(* daemon_ipc_con_close takes one connection away.                         *)
LEMMA ConnClose ==
  ASSUME IndInv, IndInv', ConnInv, daemon_ipc_con_close
  PROVE  /\ ConnInv'
         /\ \A d \in Conns : Linked(d)' <=> Linked(d) /\ d # conOf[cur.fd]
<1>0. /\ TypeOK /\ TypeOK' /\ conOf \in [Fds -> Conns \cup {NoConn}]
      /\ rx \in [Conns -> Seq(Wire)]
      /\ cur.fd \in Fds /\ conOf[cur.fd] # NoConn
      /\ UNCHANGED <<backlog, cl, sent, done>>
  BY DEF IndInv, TypeOK, LoopInv, daemon_ipc_con_close
<1> DEFINE h == conOf[cur.fd]
<1>1. h \in Conns
  BY <1>0
<1>2. /\ \A f \in Fds : conOf'[f] = IF f = cur.fd THEN NoConn ELSE conOf[f]
      /\ \A d \in Conns : rx'[d] = IF d = h THEN <<>> ELSE rx[d]
  BY <1>0, <1>1 DEF daemon_ipc_con_close
<1>3. \A f \in Fds : conOf[f] = h => f = cur.fd
  BY <1>0 DEF ConnInv, OneFd
<1>4. \A d \in Conns : Accepted(d)' <=> Accepted(d) /\ d # h
  BY <1>0, <1>2, <1>3, DaemonAssumption DEF Accepted
<1>5. (\A d : Queued(d)' <=> Queued(d)) /\ ~Queued(h)
  BY <1>0 DEF Queued, ConnInv, NotBoth
<1>6. \A d \in Conns : Linked(d)' <=> Linked(d) /\ d # h
  BY <1>0, <1>4, <1>5, LinkedIs, LinkedIsNext
<1>7. OneFd'
  BY <1>2 DEF ConnInv, OneFd
<1>8. OneTurn'
  BY <1>0 DEF ConnInv, OneTurn
<1>9. NotBoth'
  <2>1. \A i \in 1 .. Len(backlog) : backlog[i] \in Conns
    BY <1>0, ElementOfSeq DEF TypeOK
  <2>2. ~Queued(NoConn)
    BY <2>1, DaemonAssumption DEF Queued
  <2>3. QED
    BY <1>2, <1>5, <2>2 DEF ConnInv, NotBoth
<1>10. Fresh'
  BY <1>0, <1>6 DEF ConnInv, Fresh
<1>11. ClosedEmpty'
  BY <1>2, <1>6 DEF ConnInv, ClosedEmpty
<1>12. QED
  BY <1>6, <1>7, <1>8, <1>9, <1>10, <1>11 DEF ConnInv

(* At its end the process lets go of every connection.                     *)
LEMMA ConnCloseAll ==
  ASSUME IndInv', ConnInv, CloseAll, UNCHANGED <<cl, sent>>,
         \A c \in Conns : cl[c] = "idle" => done'[c] = done[c]
  PROVE  /\ ConnInv'
         /\ \A d \in Conns : ~Linked(d)'
<1>0. TypeOK'
  BY DEF IndInv
<1>1. Len(backlog') = 0
  BY EmptySeq DEF CloseAll
<1>2. \A d \in Conns : ~Queued(d)' /\ ~Accepted(d)'
  BY <1>1, DaemonAssumption DEF CloseAll, Queued, Accepted
<1>3. \A d \in Conns : ~Linked(d)'
  BY <1>0, <1>2, LinkedIsNext
<1>4. OneFd' /\ OneTurn' /\ NotBoth'
  BY <1>1 DEF CloseAll, OneFd, OneTurn, NotBoth, Queued
<1>5. Fresh'
  BY <1>3 DEF ConnInv, Fresh
<1>6. ClosedEmpty'
  BY DEF CloseAll, ClosedEmpty
<1>7. QED
  BY <1>3, <1>4, <1>5, <1>6 DEF ConnInv

(* A client that is served, or writes, is past its connect.                *)
LEMMA ExecConn ==
  ASSUME IndInv, pc \in {"exec", "hup"}
  PROVE  /\ cur.fd \in Fds /\ conOf[cur.fd] \in Conns
         /\ Linked(conOf[cur.fd])
BY DEF IndInv, TypeOK, LoopInv, Linked, Accepted

(***************************************************************************)
(* What the clients' calls come down to: a client connects, leaves, writes *)
(* a request, leaves something else in the socket, or returns from its     *)
(* read.                                                                   *)
(***************************************************************************)
Connects(c) ==
  /\ ~Ended /\ cl[c] = "idle" /\ backlog' = Append(backlog, c)
  /\ cl' = [cl EXCEPT ![c] = "open"]
  /\ before' = [before EXCEPT ![c] = {b \in Conns : cl[b] = "gone"}]
  /\ UNCHANGED <<rx, tx, conOf, loopVars, pc, cur, sent, done>>

Leaves(c) ==
  /\ cl[c] # "gone" /\ cl' = [cl EXCEPT ![c] = "gone"]
  /\ UNCHANGED <<sockVars, conOf, loopVars, pc, cur, sent, done, before>>

Writes(c, r, next) ==
  /\ cl[c] = "open" /\ Linked(c) /\ Len(sent[c]) < MaxSent
  /\ next = IF Asks(r) /\ c \notin NonReaders THEN "await" ELSE "open"
  /\ cl' = [cl EXCEPT ![c] = next]
  /\ rx' = [rx EXCEPT ![c] = Append(@, [req |-> r, cut |-> "none"])]
  /\ sent' = [sent EXCEPT ![c] = Append(@, r)]
  /\ UNCHANGED <<backlog, tx, conOf, loopVars, pc, cur, done, before>>

Puts(c, w, next) ==
  /\ cl[c] = "open" /\ Linked(c)
  /\ next = IF w.cut = "none" THEN "open" ELSE "gone"
  /\ cl' = [cl EXCEPT ![c] = next]
  /\ rx' = [rx EXCEPT ![c] = Append(@, w)]
  /\ UNCHANGED <<backlog, tx, conOf, loopVars, pc, cur, sent, done, before>>

WholeReqs == {r \in Reqs : r.cmd \in Cmds}

Parts ==
  {w \in Wire : \/ w.cut \in Cuts
                \/ /\ w.cut = "none" /\ w.req.cmd = "invalid"
                   /\ "invalid" \in CmdSet}

LEMMA WriteKinds ==
  ASSUME TypeOK, NEW c \in Conns, NEW r \in WholeReqs,
         WriteReq(c, r, IF Asks(r) /\ c \notin NonReaders
                        THEN "await" ELSE "open")
  PROVE  Leaves(c) \/ \E next \in {"open", "await"} : Writes(c, r, next)
BY DEF WriteReq, Leaves, Writes

LEMMA ClientKinds ==
  ASSUME TypeOK, NEW c \in Conns, Client(c)
  PROVE  \/ Connects(c)
         \/ Leaves(c)
         \/ \E r \in WholeReqs, next \in {"open", "await"} : Writes(c, r, next)
         \/ GetReturn(c)
         \/ \E w \in Parts, next \in {"open", "gone"} : Puts(c, w, next)
<1>1. CASE liblcd_init(c)
  BY <1>1 DEF liblcd_init, Connects, Leaves
<1>2. CASE liblcd_clear(c)
  <2>1. [cmd |-> "clear", arg |-> 0] \in WholeReqs
    BY ReqType, ArgsAssumption DEF AnyCmd, Cmds, WholeReqs
  <2>2. QED
    BY <1>2, <2>1, WriteKinds DEF liblcd_clear, Asks
<1>3. CASE GetReturn(c)
  BY <1>3
<1>4. CASE liblcd_deinit(c)
  BY <1>4 DEF liblcd_deinit, Leaves
<1>5. CASE SendInvalid(c)
  <2> DEFINE w == [req |-> [cmd |-> "invalid", arg |-> 0], cut |-> "none"]
  <2>1. w \in Parts
    BY <1>5, ReqType, ArgsAssumption DEF AnyCmd, Wire, Parts, SendInvalid
  <2>2. cl = [cl EXCEPT ![c] = "open"]
    BY <1>5 DEF SendInvalid, TypeOK
  <2>3. Puts(c, w, "open")
    BY <1>5, <2>2 DEF SendInvalid, Puts
  <2>4. QED
    BY <2>1, <2>3
<1>6. ASSUME NEW a \in Args, liblcd_display_string_pos(c, a)
      PROVE  \/ Leaves(c)
             \/ \E r \in WholeReqs, n \in {"open", "await"} : Writes(c, r, n)
  <2>1. [cmd |-> "print", arg |-> a] \in WholeReqs
    BY ReqType DEF AnyCmd, Cmds, HasParams, WholeReqs
  <2>2. QED
    BY <1>6, <2>1, WriteKinds DEF liblcd_display_string_pos, Asks
<1>7. ASSUME NEW a \in Args, liblcd_backlight(c, a)
      PROVE  \/ Leaves(c)
             \/ \E r \in WholeReqs, n \in {"open", "await"} : Writes(c, r, n)
  <2>1. [cmd |-> "backlight", arg |-> a] \in WholeReqs
    BY ReqType DEF AnyCmd, Cmds, HasParams, WholeReqs
  <2>2. QED
    BY <1>7, <2>1, WriteKinds DEF liblcd_backlight, Asks
<1>8. ASSUME NEW a \in Args, liblcd_get_btn_state(c, a)
      PROVE  \/ Leaves(c)
             \/ \E r \in WholeReqs, n \in {"open", "await"} : Writes(c, r, n)
  <2>1. [cmd |-> "get_btn_state", arg |-> a] \in WholeReqs
    BY ReqType DEF AnyCmd, Cmds, HasParams, WholeReqs
  <2>2. QED
    BY <1>8, <2>1, WriteKinds DEF liblcd_get_btn_state, Asks
<1>9. ASSUME NEW r \in Reqs, NEW k \in Cuts, DieInRequest(c, r, k)
      PROVE  \E w \in Parts, next \in {"open", "gone"} : Puts(c, w, next)
  <2> DEFINE w == [req |-> r, cut |-> k]
  <2>1. w \in Parts
    BY DaemonAssumption DEF Wire, Parts
  <2>2. k # "none"
    BY DaemonAssumption DEF CutPoints
  <2>3. Puts(c, w, "gone")
    BY <1>9, <2>2 DEF DieInRequest, Puts
  <2>4. QED
    BY <2>1, <2>3
<1>10. QED
  BY <1>1, <1>2, <1>3, <1>4, <1>5, <1>6, <1>7, <1>8, <1>9 DEF Client

(***************************************************************************)
(* What the daemon's steps come down to: besides accept, the read of an    *)
(* event, close and cleanup, it executes a request, or goes on without     *)
(* touching a connection.                                                  *)
(***************************************************************************)
Executes ==
  /\ pc = "exec"
  /\ done' = [done EXCEPT ![conOf[cur.fd]] = Append(@, cur.req)]
  /\ \/ /\ FinishEvent(cur.fd)
        /\ UNCHANGED <<conOf, backlog, rx, loopVars>>
        /\ \/ UNCHANGED tx
           \/ /\ Asks(cur.req) /\ cl[conOf[cur.fd]] # "gone"
              /\ tx' = [tx EXCEPT ![conOf[cur.fd]] = Append(@, cur.req.arg)]
     \/ pc' = "killed" /\ CloseAll /\ UNCHANGED tx
  /\ UNCHANGED clientVars

GoesOn ==
  /\ UNCHANGED <<clientVars, sockVars, conOf, cur, done>>
  /\ \/ epoll_wait
     \/ EndOfBatch
     \/ UNCHANGED <<pc, loopVars>>

LEMMA ExecKinds ==
  ASSUME cmds_handle_display \/ cmds_handle_get_btn_state
  PROVE  Executes
<1>1. CASE cmds_handle_display
  BY <1>1 DEF cmds_handle_display, Executes
<1>2. CASE cmds_handle_get_btn_state
  BY <1>2 DEF cmds_handle_get_btn_state, Executes, Asks
<1>3. QED
  BY <1>1, <1>2

LEMMA StepKinds ==
  ASSUME TypeOK, [Next]_vars
  PROVE  \/ \E c \in Conns :
              \/ Connects(c)
              \/ Leaves(c)
              \/ \E r \in WholeReqs, next \in {"open", "await"} :
                   Writes(c, r, next)
              \/ GetReturn(c)
              \/ \E w \in Parts, next \in {"open", "gone"} : Puts(c, w, next)
         \/ GoesOn
         \/ daemon_ipc_con_add
         \/ \E fd \in Fds : daemon_ipc_con_in(fd)
         \/ Executes
         \/ daemon_ipc_con_close
         \/ daemon_ipc_cleanup
<1>1. CASE \E c \in Conns : Client(c)
  BY <1>1, ClientKinds
<1>2. CASE epoll_wait \/ EndOfBatch \/ daemon_ipc_stop \/ UNCHANGED vars
  BY <1>2 DEF GoesOn, epoll_wait, EndOfBatch, daemon_ipc_stop, vars
<1>3. CASE cmds_handle_display \/ cmds_handle_get_btn_state
  BY <1>3, ExecKinds
<1>4. QED
  BY <1>1, <1>2, <1>3 DEF Next, Daemon

(***************************************************************************)
(* Every step preserves ConnInv.                                           *)
(***************************************************************************)
LEMMA NextConnInv ==
  ASSUME IndInv, IndInv', ConnInv, [Next]_vars
  PROVE  ConnInv'
<1>0. /\ TypeOK
      /\ cl \in [Conns -> {"idle", "open", "await", "gone"}]
      /\ rx \in [Conns -> Seq(Wire)]
      /\ sent \in [Conns -> Seq(Reqs)] /\ done \in [Conns -> Seq(Reqs)]
  BY DEF IndInv, TypeOK
<1>1. ASSUME NEW c \in Conns, Connects(c) PROVE ConnInv'
  BY <1>1, ConnConnect DEF Connects
<1>2. ASSUME NEW c \in Conns, Leaves(c) PROVE ConnInv'
  BY <1>0, <1>2, ConnFrame DEF Leaves
<1>3. ASSUME NEW c \in Conns, NEW r \in WholeReqs,
             NEW next \in {"open", "await"}, Writes(c, r, next)
      PROVE  ConnInv'
  BY <1>0, <1>3, ConnFrame DEF Writes
<1>4. ASSUME NEW c \in Conns, GetReturn(c) PROVE ConnInv'
  BY <1>0, <1>4, ConnFrame DEF GetReturn
<1>5. ASSUME NEW c \in Conns, NEW w \in Parts,
             NEW next \in {"open", "gone"}, Puts(c, w, next)
      PROVE  ConnInv'
  BY <1>0, <1>5, ConnFrame DEF Puts
<1>6. CASE GoesOn
  BY <1>6, ConnFrame DEF GoesOn
<1>7. CASE daemon_ipc_con_add
  <2>1. backlog # <<>> /\ UNCHANGED <<cl, sent, done>>
    BY <1>7 DEF IndInv, LoopInv, daemon_ipc_con_add
  <2>2. CASE UNCHANGED <<conOf, backlog, rx>>
    BY <2>1, <2>2, ConnFrame
  <2>3. CASE /\ \E fd \in FreeFds :
                  conOf' = [conOf EXCEPT ![fd] = Head(backlog)]
             /\ backlog' = Tail(backlog)
             /\ UNCHANGED rx
    BY <2>1, <2>3, ConnAccept
  <2>4. CASE /\ rx' = [rx EXCEPT ![Head(backlog)] = <<>>]
             /\ backlog' = Tail(backlog)
             /\ UNCHANGED conOf
    BY <2>1, <2>4, ConnRefused
  <2>5. QED
    BY <1>7, <2>2, <2>3, <2>4 DEF daemon_ipc_con_add
<1>8. ASSUME NEW fd \in Fds, daemon_ipc_con_in(fd) PROVE ConnInv'
  <2>1. conOf[fd] \in Conns /\ Linked(conOf[fd])
    BY <1>8 DEF IndInv, TypeOK, LoopInv, daemon_ipc_con_in, Linked, Accepted
  <2>2. \A c \in Conns : ~Linked(c) => rx'[c] = rx[c]
    BY <1>0, <1>8, <2>1 DEF daemon_ipc_con_in
  <2>3. UNCHANGED <<conOf, backlog, cl, sent, done>>
    BY <1>8 DEF daemon_ipc_con_in
  <2>4. QED
    BY <2>2, <2>3, ConnFrame
<1>9. CASE Executes
  <2>1. conOf[cur.fd] \in Conns /\ Linked(conOf[cur.fd])
    BY <1>9, ExecConn DEF Executes
  <2>2. \A c \in Conns : cl[c] = "idle" => done'[c] = done[c]
    BY <1>0, <1>9, <2>1 DEF Executes, ConnInv, Fresh
  <2>3. CASE CloseAll
    BY <1>9, <2>2, <2>3, ConnCloseAll DEF Executes
  <2>4. CASE UNCHANGED <<conOf, backlog, rx>>
    BY <1>9, <2>2, <2>4, ConnFrame DEF Executes
  <2>5. QED
    BY <1>9, <2>3, <2>4 DEF Executes
<1>10. CASE daemon_ipc_con_close
  BY <1>10, ConnClose
<1>11. CASE daemon_ipc_cleanup
  BY <1>11, ConnCloseAll DEF daemon_ipc_cleanup
<1>12. QED
  BY <1>0, <1>1, <1>2, <1>3, <1>4, <1>5, <1>6, <1>7, <1>8, <1>9, <1>10,
     <1>11, StepKinds

LEMMA InitConnInv == Init => ConnInv
<1> SUFFICES ASSUME Init PROVE ConnInv
  OBVIOUS
<1>1. Len(backlog) = 0 /\ TypeOK
  BY InitIndInv, EmptySeq DEF Init, IndInv
<1>2. \A c \in Conns : ~Queued(c) /\ ~Accepted(c)
  BY <1>1, DaemonAssumption DEF Init, Queued, Accepted
<1>3. \A c \in Conns : ~Linked(c)
  BY <1>1, <1>2, LinkedIs
<1>4. QED
  BY <1>1, <1>3 DEF Init, ConnInv, OneFd, OneTurn, NotBoth, Fresh,
                    ClosedEmpty, Queued

(***************************************************************************)
(* Every step preserves HupInv.                                            *)
(***************************************************************************)
LEMMA HupFrame ==
  ASSUME HupInv, UNCHANGED <<conOf, loopVars, pc, cur>>,
         \A d \in Conns : cl[d] = "gone" => cl'[d] = "gone"
  PROVE  HupInv'
BY DEF HupInv

LEMMA FinishFds ==
  ASSUME NEW fd, FinishEvent(fd)
  PROVE  /\ pc' = IF fd \in hups THEN "hup" ELSE "loop"
         /\ pc' = "hup" => cur'.fd = fd
BY DEF FinishEvent, IdleCur

LEMMA NextHupInv ==
  ASSUME IndInv, HupInv, [Next]_vars
  PROVE  HupInv'
<1>0. /\ TypeOK
      /\ cl \in [Conns -> {"idle", "open", "await", "gone"}]
      /\ conOf \in [Fds -> Conns \cup {NoConn}]
      /\ hups \subseteq Fds
      /\ NoConn \notin Conns /\ ListenFd \notin Fds
  BY DaemonAssumption DEF IndInv, TypeOK
<1>1. ASSUME NEW c \in Conns, Connects(c) PROVE HupInv'
  BY <1>0, <1>1, HupFrame DEF Connects
<1>2. ASSUME NEW c \in Conns, Leaves(c) PROVE HupInv'
  BY <1>0, <1>2, HupFrame DEF Leaves
<1>3. ASSUME NEW c \in Conns, NEW r \in WholeReqs,
             NEW next \in {"open", "await"}, Writes(c, r, next)
      PROVE  HupInv'
  BY <1>0, <1>3, HupFrame DEF Writes
<1>4. ASSUME NEW c \in Conns, GetReturn(c) PROVE HupInv'
  BY <1>0, <1>4, HupFrame DEF GetReturn
<1>5. ASSUME NEW c \in Conns, NEW w \in Parts,
             NEW next \in {"open", "gone"}, Puts(c, w, next)
      PROVE  HupInv'
  BY <1>0, <1>5, HupFrame DEF Puts
<1>6. CASE GoesOn
  <2>1. CASE epoll_wait
    BY <1>0, <2>1 DEF epoll_wait, HungUp, HupInv
  <2>2. CASE EndOfBatch
    BY <2>2 DEF EndOfBatch, HupInv
  <2>3. CASE UNCHANGED <<pc, loopVars>>
    BY <1>6, <2>3, HupFrame DEF GoesOn
  <2>4. QED
    BY <1>6, <2>1, <2>2, <2>3 DEF GoesOn
<1>7. CASE daemon_ipc_con_add
  <2>1. \A f \in hups : conOf'[f] = conOf[f]
    BY <1>0, <1>7 DEF daemon_ipc_con_add, FreeFds, HupInv
  <2>2. QED
    BY <1>0, <1>7, <2>1 DEF daemon_ipc_con_add, HupInv
<1>8. ASSUME NEW fd \in Fds, daemon_ipc_con_in(fd) PROVE HupInv'
  <2>1. /\ pc = "loop" /\ events' = events \ {fd}
        /\ UNCHANGED <<cl, conOf, hups>>
    BY <1>8 DEF daemon_ipc_con_in
  <2>2. CASE FinishEvent(fd)
    BY <2>1, <2>2, FinishFds DEF HupInv
  <2>3. CASE pc' = "exec" /\ cur'.fd = fd
    BY <2>1, <2>3 DEF HupInv
  <2>4. QED
    BY <1>8, <2>2, <2>3 DEF daemon_ipc_con_in
<1>9. CASE Executes
  <2>1. CASE FinishEvent(cur.fd) /\ UNCHANGED <<conOf, loopVars>>
    BY <1>9, <2>1, FinishFds DEF Executes, HupInv
  <2>2. CASE pc' = "killed" /\ CloseAll
    BY <2>2 DEF CloseAll, HupInv
  <2>3. QED
    BY <1>9, <2>1, <2>2 DEF Executes
<1>10. CASE daemon_ipc_con_close
  BY <1>0, <1>10 DEF daemon_ipc_con_close, HupInv
<1>11. CASE daemon_ipc_cleanup
  BY <1>11 DEF daemon_ipc_cleanup, CloseAll, HupInv
<1>12. QED
  BY <1>0, <1>1, <1>2, <1>3, <1>4, <1>5, <1>6, <1>7, <1>8, <1>9, <1>10,
     <1>11, StepKinds

BaseInv == IndInv /\ ConnInv /\ HupInv

LEMMA NextBaseInv == BaseInv /\ [Next]_vars => BaseInv'
BY NextIndInv, NextConnInv, NextHupInv DEF BaseInv

LEMMA InitBaseInv == Init => BaseInv
<1>1. Init => HupInv
  BY DEF Init, HupInv
<1>2. QED
  BY <1>1, InitIndInv, InitConnInv DEF BaseInv

-----------------------------------------------------------------------------
(* The numbering follows the socket: nothing to number at first, a number  *)
(* more for a request written, none for what is not a request, and the     *)
(* first one taken with what is read.                                      *)
LEMMA NumberedEmpty == Numbered(<<>>, <<>>, 0)
<1>1. Len(<<>>) = 0
  OBVIOUS
<1>2. Numbers(<<>>, <<>>, 0, [i \in 0 .. 0 |-> 0])
  BY <1>1 DEF Numbers
<1>3. QED
  BY <1>1, <1>2 DEF Numbered

LEMMA NumberedWrite ==
  ASSUME NEW q \in Seq(Wire), NEW s \in Seq(Reqs), NEW t, NEW w \in Wire,
         NEW r \in Reqs, Numbered(q, s, t), Whole(w), w.req = r
  PROVE  Numbered(Append(q, w), Append(s, r), t)
<1>1. PICK pos \in [0 .. Len(q) -> 0 .. Len(s)] : Numbers(q, s, t, pos)
  BY DEF Numbered
<1> DEFINE n == Len(q)
           q2 == Append(q, w)
           s2 == Append(s, r)
           p2 == [i \in 0 .. n + 1 |-> IF i <= n THEN pos[i] ELSE Len(s) + 1]
<1>2. /\ Len(q2) = n + 1 /\ n \in Nat /\ Len(s2) = Len(s) + 1
      /\ Len(s) \in Nat
      /\ \A i \in 1 .. n : q2[i] = q[i]
      /\ \A i \in 1 .. Len(s) : s2[i] = s[i]
      /\ q2[n + 1] = w /\ s2[Len(s) + 1] = r
  BY QueueAppend
<1>3. /\ pos[0] = t /\ pos[n] = Len(s)
      /\ \A i \in 0 .. n : pos[i] \in 0 .. Len(s)
      /\ \A i \in 1 .. n :
           IF Whole(q[i]) THEN pos[i] = pos[i - 1] + 1 /\ q[i].req = s[pos[i]]
                          ELSE pos[i] = pos[i - 1]
  BY <1>1 DEF Numbers
<1>4. p2 \in [0 .. Len(q2) -> 0 .. Len(s2)]
  BY <1>2, <1>3
<1>5. p2[0] = t /\ p2[Len(q2)] = Len(s2)
  BY <1>2, <1>3
<1>6. ASSUME NEW i \in 1 .. n
      PROVE  IF Whole(q2[i])
             THEN p2[i] = p2[i - 1] + 1 /\ q2[i].req = s2[p2[i]]
             ELSE p2[i] = p2[i - 1]
  <2>1. p2[i] = pos[i] /\ p2[i - 1] = pos[i - 1] /\ q2[i] = q[i]
    BY <1>2, <1>6
  <2>2. CASE Whole(q[i])
    <3>1. pos[i] = pos[i - 1] + 1 /\ q[i].req = s[pos[i]]
      BY <1>3, <2>2
    <3>2. pos[i] \in 1 .. Len(s)
      <4>1. pos[i - 1] \in 0 .. Len(s) /\ pos[i] \in 0 .. Len(s)
        BY <1>3
      <4>2. QED
        BY <3>1, <4>1
    <3>3. QED
      BY <1>2, <2>1, <2>2, <3>1, <3>2
  <2>3. CASE ~Whole(q[i])
    BY <1>3, <2>1, <2>3
  <2>4. QED
    BY <2>2, <2>3
<1>7. /\ Whole(q2[n + 1])
      /\ p2[n + 1] = p2[n] + 1 /\ q2[n + 1].req = s2[p2[n + 1]]
  BY <1>2, <1>3
<1>8. \A i \in 1 .. Len(q2) :
        IF Whole(q2[i]) THEN p2[i] = p2[i - 1] + 1 /\ q2[i].req = s2[p2[i]]
                        ELSE p2[i] = p2[i - 1]
  <2>1. SUFFICES ASSUME NEW i \in 1 .. Len(q2)
                 PROVE  IF Whole(q2[i])
                        THEN p2[i] = p2[i - 1] + 1 /\ q2[i].req = s2[p2[i]]
                        ELSE p2[i] = p2[i - 1]
    OBVIOUS
  <2>2. CASE i \in 1 .. n
    BY <1>6, <2>2
  <2>3. CASE i = n + 1
    <3>1. i - 1 = n
      BY <1>2, <2>3
    <3>2. QED
      BY <1>7, <2>3, <3>1
  <2>4. i \in 1 .. n \/ i = n + 1
    BY <1>2
  <2>5. QED
    BY <2>2, <2>3, <2>4
<1>9. Numbers(q2, s2, t, p2)
  BY <1>4, <1>5, <1>8 DEF Numbers
<1>10. QED
  BY <1>4, <1>9 DEF Numbered

LEMMA NumberedPart ==
  ASSUME NEW q \in Seq(Wire), NEW s \in Seq(Reqs), NEW t, NEW w \in Wire,
         Numbered(q, s, t), ~Whole(w)
  PROVE  Numbered(Append(q, w), s, t)
<1>1. PICK pos \in [0 .. Len(q) -> 0 .. Len(s)] : Numbers(q, s, t, pos)
  BY DEF Numbered
<1> DEFINE n == Len(q)
           q2 == Append(q, w)
           p2 == [i \in 0 .. n + 1 |-> IF i <= n THEN pos[i] ELSE Len(s)]
<1>2. /\ Len(q2) = n + 1 /\ n \in Nat /\ Len(s) \in Nat
      /\ \A i \in 1 .. n : q2[i] = q[i]
      /\ q2[n + 1] = w
  BY QueueAppend, LenProperties
<1>3. /\ pos[0] = t /\ pos[n] = Len(s)
      /\ \A i \in 0 .. n : pos[i] \in 0 .. Len(s)
      /\ \A i \in 1 .. n :
           IF Whole(q[i]) THEN pos[i] = pos[i - 1] + 1 /\ q[i].req = s[pos[i]]
                          ELSE pos[i] = pos[i - 1]
  BY <1>1 DEF Numbers
<1>4. p2 \in [0 .. Len(q2) -> 0 .. Len(s)]
  BY <1>2, <1>3
<1>5. p2[0] = t /\ p2[Len(q2)] = Len(s)
  BY <1>2, <1>3
<1>6. SUFFICES ASSUME NEW i \in 1 .. Len(q2)
               PROVE  IF Whole(q2[i])
                      THEN p2[i] = p2[i - 1] + 1 /\ q2[i].req = s[p2[i]]
                      ELSE p2[i] = p2[i - 1]
  BY <1>4, <1>5 DEF Numbered, Numbers
<1>7. CASE i \in 1 .. n
  <2>1. p2[i] = pos[i] /\ p2[i - 1] = pos[i - 1] /\ q2[i] = q[i]
    BY <1>2, <1>7
  <2>2. QED
    BY <1>3, <1>7, <2>1
<1>8. CASE i = n + 1
  <2>1. i - 1 = n /\ p2[i] = Len(s) /\ p2[n] = Len(s) /\ q2[i] = w
    BY <1>2, <1>3, <1>8
  <2>2. QED
    BY <2>1
<1>9. QED
  BY <1>2, <1>7, <1>8

LEMMA NumberedTake ==
  ASSUME NEW q \in Seq(Wire), NEW s \in Seq(Reqs), NEW t, q # <<>>,
         Numbered(q, s, t)
  PROVE  /\ Whole(Head(q)) => /\ t \in Nat /\ t + 1 <= Len(s)
                              /\ Head(q).req = s[t + 1]
                              /\ Numbered(Tail(q), s, t + 1)
         /\ ~Whole(Head(q)) => Numbered(Tail(q), s, t)
         /\ ~Whole(Head(q)) /\ Len(q) = 1 => t = Len(s)
<1>1. PICK pos \in [0 .. Len(q) -> 0 .. Len(s)] : Numbers(q, s, t, pos)
  BY DEF Numbered
<1> DEFINE n == Len(q)
           q2 == Tail(q)
           p2 == [i \in 0 .. n - 1 |-> pos[i + 1]]
<1>2. /\ n \in Nat \ {0} /\ Len(q2) = n - 1 /\ Len(s) \in Nat
      /\ Head(q) = q[1]
      /\ \A i \in 1 .. n - 1 : q2[i] = q[i + 1]
  BY QueueTail, LenProperties
<1>3. /\ pos[0] = t /\ pos[n] = Len(s)
      /\ \A i \in 0 .. n : pos[i] \in 0 .. Len(s)
      /\ \A i \in 1 .. n :
           IF Whole(q[i]) THEN pos[i] = pos[i - 1] + 1 /\ q[i].req = s[pos[i]]
                          ELSE pos[i] = pos[i - 1]
  BY <1>1 DEF Numbers
<1>4. /\ 1 \in 1 .. n /\ 0 \in 0 .. n
      /\ pos[1] \in 0 .. Len(s) /\ pos[0] \in 0 .. Len(s)
      /\ IF Whole(q[1]) THEN pos[1] = t + 1 /\ q[1].req = s[pos[1]]
                        ELSE pos[1] = t
  BY <1>2, <1>3
<1>5. p2 \in [0 .. Len(q2) -> 0 .. Len(s)]
  BY <1>2, <1>3
<1>6. p2[0] = pos[1] /\ p2[Len(q2)] = Len(s)
  BY <1>2, <1>3
<1>7. ASSUME NEW i \in 1 .. Len(q2)
      PROVE  IF Whole(q2[i])
             THEN p2[i] = p2[i - 1] + 1 /\ q2[i].req = s[p2[i]]
             ELSE p2[i] = p2[i - 1]
  <2>1. /\ i + 1 \in 1 .. n /\ i = (i + 1) - 1
        /\ p2[i] = pos[i + 1] /\ p2[i - 1] = pos[i] /\ q2[i] = q[i + 1]
    BY <1>2, <1>7
  <2>2. IF Whole(q[i + 1])
        THEN pos[i + 1] = pos[i] + 1 /\ q[i + 1].req = s[pos[i + 1]]
        ELSE pos[i + 1] = pos[i]
    BY <1>3, <2>1
  <2>3. QED
    BY <2>1, <2>2
<1>8. Numbered(q2, s, pos[1])
  BY <1>5, <1>6, <1>7 DEF Numbered, Numbers
<1>9. QED
  BY <1>2, <1>3, <1>4, <1>8

(***************************************************************************)
(* A connection that a step does not touch keeps its history, whoever else *)
(* is served; one that is closed keeps what was executed.                  *)
(***************************************************************************)
LEMMA HistSame ==
  ASSUME NEW d \in Conns, HistOf(d), rx'[d] = rx[d], sent'[d] = sent[d],
         done'[d] = done[d], cl[d] = "gone" => cl'[d] = "gone",
         Linked(d)' => Linked(d), InExec(d)' <=> InExec(d),
         InExec(d) => cur'.req = cur.req
  PROVE  HistOf(d)'
<1>1. CutLast(d)'
  BY DEF HistOf, CutLast
<1>2. Taken(d)' = Taken(d)
  BY DEF Taken
<1>3. Waiting(d)'
  BY <1>2 DEF HistOf, Waiting
<1>4. InHand(d)'
  BY DEF HistOf, InHand
<1>5. Executed(d)'
  BY DEF HistOf, Executed
<1>6. QED
  BY <1>1, <1>3, <1>4, <1>5 DEF HistOf

LEMMA HistClosed ==
  ASSUME NEW d \in Conns, HistOf(d), rx'[d] = <<>>, sent'[d] = sent[d],
         done'[d] = done[d], cl[d] = "gone" => cl'[d] = "gone",
         ~Linked(d)', ~InExec(d)'
  PROVE  HistOf(d)'
<1>1. CutLast(d)'
  BY DEF CutLast
<1>2. Executed(d)'
  BY DEF HistOf, Executed
<1>3. QED
  BY <1>1, <1>2 DEF HistOf, Waiting, InHand

(* Client steps.                                                           *)
LEMMA HistConnects ==
  ASSUME BaseInv, BaseInv', NEW c \in Conns, Connects(c), NEW d \in Conns,
         HistOf(d)
  PROVE  HistOf(d)'
<1>0. /\ IndInv /\ IndInv' /\ ConnInv
      /\ cl \in [Conns -> {"idle", "open", "await", "gone"}]
  BY DEF BaseInv, IndInv, TypeOK
<1>1. Linked(d)' <=> Linked(d) \/ d = c
  BY <1>0, ConnConnect DEF Connects
<1>2. (InExec(d)' <=> InExec(d)) /\ UNCHANGED <<rx, sent, done, cur>>
  BY DEF Connects, InExec
<1>3. CASE d # c
  BY <1>0, <1>1, <1>2, <1>3, HistSame DEF Connects
<1>4. CASE d = c
  <2>1. ~Linked(c) /\ sent[c] = <<>> /\ done[c] = <<>> /\ rx[c] = <<>>
    BY <1>0 DEF Connects, ConnInv, Fresh, ClosedEmpty
  <2>2. ~InExec(c)
    BY <1>0, <2>1, ExecConn DEF InExec
  <2>3. Taken(c)' = 0
    BY <1>2, <1>4, <2>1, <2>2 DEF Taken
  <2>4. Waiting(c)'
    BY <1>2, <2>1, <2>3, NumberedEmpty DEF Waiting
  <2>5. QED
    BY <1>2, <1>4, <2>1, <2>2, <2>4
       DEF HistOf, CutLast, InHand, Executed
<1>5. QED
  BY <1>3, <1>4

LEMMA HistWrites ==
  ASSUME BaseInv, NEW c \in Conns, NEW r \in WholeReqs,
         NEW next \in {"open", "await"}, Writes(c, r, next), NEW d \in Conns,
         HistOf(d)
  PROVE  HistOf(d)'
<1>0. /\ cl \in [Conns -> {"idle", "open", "await", "gone"}]
      /\ rx \in [Conns -> Seq(Wire)] /\ sent \in [Conns -> Seq(Reqs)]
      /\ done \in [Conns -> Seq(Reqs)]
  BY DEF BaseInv, IndInv, TypeOK
<1>1. /\ Linked(d)' <=> Linked(d)
      /\ InExec(d)' <=> InExec(d)
      /\ UNCHANGED <<done, cur>> /\ cl[c] = "open" /\ Linked(c)
  BY LinkFrame DEF Writes, InExec
<1>2. CASE d # c
  BY <1>0, <1>1, <1>2, HistSame DEF Writes
<1>3. CASE d = c
  <2> DEFINE w == [req |-> r, cut |-> "none"]
  <2>1. w \in Wire /\ Whole(w) /\ r \in Reqs
    BY DEF Wire, Whole, WholeReqs
  <2>2. /\ rx'[c] = Append(rx[c], w) /\ sent'[c] = Append(sent[c], r)
        /\ rx[c] \in Seq(Wire) /\ sent[c] \in Seq(Reqs)
    BY <1>0 DEF Writes
  <2>3. Taken(c)' = Taken(c)
    BY <1>1, <1>3 DEF Taken
  <2>4. Waiting(c)'
    <3>1. Numbered(rx[c], sent[c], Taken(c))
      BY <1>1, <1>3 DEF HistOf, Waiting
    <3>2. Numbered(rx'[c], sent'[c], Taken(c))
      BY <2>1, <2>2, <3>1, NumberedWrite
    <3>3. QED
      BY <2>3, <3>2 DEF Waiting
  <2>5. /\ Len(rx'[c]) = Len(rx[c]) + 1 /\ Len(rx[c]) \in Nat
        /\ \A i \in 1 .. Len(rx[c]) : rx'[c][i] = rx[c][i]
        /\ rx'[c][Len(rx[c]) + 1] = w
    BY <2>1, <2>2, QueueAppend
  <2>6. /\ Len(sent'[c]) = Len(sent[c]) + 1 /\ Len(sent[c]) \in Nat
        /\ \A i \in 1 .. Len(sent[c]) : sent'[c][i] = sent[c][i]
    BY <2>1, <2>2, QueueAppend
  <2>7. CutLast(c)'
    <3>1. \A i \in 1 .. Len(rx[c]) : rx[c][i].cut = "none"
      BY <1>1, <1>3 DEF HistOf, CutLast
    <3>2. w.cut = "none"
      OBVIOUS
    <3>3. \A i \in 1 .. Len(rx'[c]) : rx'[c][i].cut = "none"
      BY <2>5, <3>1, <3>2
    <3>4. QED
      BY <3>3 DEF CutLast
  <2>8. Len(done[c]) \in Nat
    BY <1>0, LenProperties
  <2>9. InHand(c)'
    BY <1>1, <1>3, <2>6, <2>8 DEF HistOf, InHand
  <2>10. Executed(c)'
    BY <1>1, <1>3, <2>6, <2>8 DEF HistOf, Executed
  <2>11. QED
    BY <1>3, <2>4, <2>7, <2>9, <2>10 DEF HistOf
<1>4. QED
  BY <1>2, <1>3

LEMMA HistPuts ==
  ASSUME BaseInv, NEW c \in Conns, NEW w \in Parts,
         NEW next \in {"open", "gone"}, Puts(c, w, next), NEW d \in Conns,
         HistOf(d)
  PROVE  HistOf(d)'
<1>0. /\ cl \in [Conns -> {"idle", "open", "await", "gone"}]
      /\ rx \in [Conns -> Seq(Wire)] /\ sent \in [Conns -> Seq(Reqs)]
  BY DEF BaseInv, IndInv, TypeOK
<1>1. /\ Linked(d)' <=> Linked(d)
      /\ InExec(d)' <=> InExec(d)
      /\ UNCHANGED <<done, sent, cur>> /\ cl[c] = "open" /\ Linked(c)
  BY LinkFrame DEF Puts, InExec
<1>2. CASE d # c
  BY <1>0, <1>1, <1>2, HistSame DEF Puts
<1>3. CASE d = c
  <2>1. w \in Wire /\ ~Whole(w) /\ (w.cut # "none" => w.cut \in Cuts)
    BY DaemonAssumption DEF Parts, Whole, Cmds, CutPoints
  <2>2. /\ rx'[c] = Append(rx[c], w) /\ rx[c] \in Seq(Wire)
        /\ sent[c] \in Seq(Reqs) /\ cl'[c] = next
        /\ w.cut # "none" => next = "gone"
    BY <1>0 DEF Puts
  <2>3. Taken(c)' = Taken(c)
    BY <1>1, <1>3 DEF Taken
  <2>4. Waiting(c)'
    <3>1. Numbered(rx[c], sent[c], Taken(c))
      BY <1>1, <1>3 DEF HistOf, Waiting
    <3>2. Numbered(rx'[c], sent[c], Taken(c))
      BY <2>1, <2>2, <3>1, NumberedPart
    <3>3. QED
      BY <1>1, <2>3, <3>2 DEF Waiting
  <2>5. /\ Len(rx'[c]) = Len(rx[c]) + 1 /\ Len(rx[c]) \in Nat
        /\ \A i \in 1 .. Len(rx[c]) : rx'[c][i] = rx[c][i]
        /\ rx'[c][Len(rx[c]) + 1] = w
    BY <2>1, <2>2, QueueAppend
  <2>6. CutLast(c)'
    <3>1. \A i \in 1 .. Len(rx[c]) : rx[c][i].cut = "none"
      BY <1>1, <1>3 DEF HistOf, CutLast
    <3>2. QED
      BY <2>1, <2>2, <2>5, <3>1 DEF CutLast
  <2>7. InHand(c)' /\ Executed(c)'
    BY <1>1, <1>3 DEF HistOf, InHand, Executed
  <2>8. QED
    BY <1>3, <2>4, <2>6, <2>7 DEF HistOf
<1>4. QED
  BY <1>2, <1>3

(***************************************************************************)
(* daemon_ipc_con_in takes the first of the socket: a whole request is the *)
(* next one written; one without its parameters is the last of a client    *)
(* that is gone, and all requests before it have been taken.               *)
(***************************************************************************)
LEMMA HistTakes ==
  ASSUME BaseInv, NEW fd \in Fds, daemon_ipc_con_in(fd), NEW d \in Conns,
         HistOf(d)
  PROVE  HistOf(d)'
<1>0. /\ rx \in [Conns -> Seq(Wire)] /\ sent \in [Conns -> Seq(Reqs)]
      /\ done \in [Conns -> Seq(Reqs)]
  BY DEF BaseInv, IndInv, TypeOK
<1> DEFINE c == conOf[fd]
           q == rx[d]
<1>1. c \in Conns /\ Linked(c)
  BY DEF BaseInv, IndInv, TypeOK, LoopInv, daemon_ipc_con_in, Linked, Accepted
<1>2. /\ pc = "loop"
      /\ UNCHANGED <<cl, sent, done, conOf, backlog>>
      /\ Linked(d)' <=> Linked(d)
  BY LinkFrame DEF daemon_ipc_con_in
<1>3. ~InExec(d)
  BY <1>2 DEF InExec
<1>4. CASE d # c
  <2>1. rx'[d] = rx[d]
    BY <1>0, <1>1, <1>4 DEF daemon_ipc_con_in
  <2>2. ~InExec(d)'
    <3>1. CASE FinishEvent(fd)
      BY <3>1, FinishFds DEF InExec
    <3>2. CASE cur'.fd = fd
      BY <1>2, <1>4, <3>2 DEF InExec
    <3>3. QED
      BY <3>1, <3>2 DEF daemon_ipc_con_in
  <2>3. QED
    BY <1>2, <1>3, <2>1, <2>2, HistSame
<1>5. CASE d = c /\ q = <<>> /\ FinishEvent(fd) /\ UNCHANGED rx
  <2>1. ~InExec(d)'
    BY <1>5, FinishFds DEF InExec
  <2>2. QED
    BY <1>2, <1>3, <1>5, <2>1, HistSame
<1>6. CASE d = c /\ q # <<>> /\ rx' = [rx EXCEPT ![c] = Tail(@)]
  <2>1. /\ rx'[d] = Tail(q) /\ q \in Seq(Wire) /\ sent[d] \in Seq(Reqs)
        /\ Len(done[d]) \in Nat /\ Len(sent[d]) \in Nat
    BY <1>0, <1>1, <1>6, LenProperties
  <2>2. /\ Len(q) \in Nat \ {0} /\ Len(Tail(q)) = Len(q) - 1
        /\ Head(q) = q[1] /\ Head(q) \in Wire /\ Tail(q) \in Seq(Wire)
        /\ \A i \in 1 .. Len(q) - 1 : Tail(q)[i] = q[i + 1]
    BY <1>6, <2>1, QueueTail, TailType
  <2>3. CutLast(d)'
    <3>1. \A i \in 1 .. Len(q) :
            q[i].cut # "none" =>
              i = Len(q) /\ cl[d] = "gone" /\ q[i].cut \in Cuts
      BY <1>6 DEF HistOf, CutLast
    <3>2. SUFFICES ASSUME NEW i \in 1 .. Len(Tail(q)),
                          Tail(q)[i].cut # "none"
                   PROVE  /\ i = Len(Tail(q)) /\ cl[d] = "gone"
                          /\ Tail(q)[i].cut \in Cuts
      BY <1>2, <2>1 DEF CutLast
    <3>3. i + 1 \in 1 .. Len(q) /\ q[i + 1].cut # "none"
      BY <2>2, <3>2
    <3>4. QED
      BY <2>2, <3>1, <3>3
  <2>4. Executed(d)'
    BY <1>2, <1>6 DEF HistOf, Executed
  <2>5. Numbered(q, sent[d], Len(done[d]))
    BY <1>1, <1>3, <1>6, <2>1 DEF HistOf, Waiting, Taken
  <2>6. /\ Whole(Head(q)) => /\ Len(done[d]) + 1 <= Len(sent[d])
                             /\ Head(q).req = sent[d][Len(done[d]) + 1]
                             /\ Numbered(Tail(q), sent[d], Len(done[d]) + 1)
        /\ ~Whole(Head(q)) => Numbered(Tail(q), sent[d], Len(done[d]))
        /\ ~Whole(Head(q)) /\ Len(q) = 1 => Len(done[d]) = Len(sent[d])
    BY <1>6, <2>1, <2>5, NumberedTake
  <2>7. CASE ~Decodes(Head(q)) /\ FinishEvent(fd)
    <3>1. ~InExec(d)'
      BY <2>7, FinishFds DEF InExec
    <3>2. Taken(d)' = Len(done[d])
      BY <1>2, <2>1, <3>1 DEF Taken
    <3>3. ~Whole(Head(q))
      BY <2>7 DEF Decodes, Whole
    <3>4. Waiting(d)'
      BY <1>2, <2>1, <2>6, <3>2, <3>3 DEF Waiting
    <3>5. QED
      BY <1>6, <2>3, <2>4, <3>1, <3>4 DEF HistOf, InHand
  <2>8. CASE /\ Decodes(Head(q)) /\ pc' = "exec"
             /\ cur' = [fd |-> fd, req |-> ipc_read_req_params(Head(q))]
    <3>1. InExec(d)' /\ cur'.req = ipc_read_req_params(Head(q))
      BY <1>2, <1>6, <2>8 DEF InExec
    <3>2. Taken(d)' = Len(done[d]) + 1
      BY <1>2, <3>1 DEF Taken
    <3>3. CASE Whole(Head(q))
      <4>1. cur'.req = Head(q).req
        BY <3>1, <3>3 DEF ipc_read_req_params, Whole
      <4>2. InHand(d)'
        BY <1>2, <2>6, <3>3, <4>1 DEF InHand
      <4>3. Waiting(d)'
        BY <1>2, <2>1, <2>6, <3>2, <3>3 DEF Waiting
      <4>4. QED
        BY <1>6, <2>3, <2>4, <4>2, <4>3 DEF HistOf
    <3>4. CASE ~Whole(Head(q))
      <4>1. Head(q).cut = "no_params"
        BY <2>8, <3>4 DEF Decodes, Whole
      <4>2. Len(q) = 1 /\ cl[d] = "gone" /\ "no_params" \in Cuts
        <5>1. 1 \in 1 .. Len(q) /\ q[1].cut # "none"
          BY <2>2, <4>1
        <5>2. QED
          BY <2>2, <4>1, <5>1 DEF HistOf, CutLast
      <4>3. cur'.req.arg = 0
        BY <2>2, <3>1, <4>1
           DEF ipc_read_req_params, Zeroed, Wire, Reqs
      <4>4. InHand(d)'
        BY <1>2, <2>6, <3>4, <4>2, <4>3 DEF InHand
      <4>5. rx'[d] = <<>>
        <5>1. Len(Tail(q)) = 0
          BY <2>2, <4>2
        <5>2. QED
          BY <2>1, <2>2, <5>1, EmptySeq
      <4>6. Waiting(d)'
        BY <1>2, <4>2, <4>5 DEF Waiting
      <4>7. QED
        BY <1>6, <2>3, <2>4, <4>4, <4>6 DEF HistOf
    <3>5. QED
      BY <3>3, <3>4
  <2>9. QED
    BY <1>6, <2>7, <2>8 DEF daemon_ipc_con_in
<1>7. QED
  BY <1>4, <1>5, <1>6 DEF daemon_ipc_con_in

(* The request in hand joins those executed.                               *)
LEMMA HistExecutes ==
  ASSUME BaseInv, BaseInv', Executes, NEW d \in Conns, HistOf(d)
  PROVE  HistOf(d)'
<1>0. /\ done \in [Conns -> Seq(Reqs)] /\ cur.req \in Reqs
      /\ sent \in [Conns -> Seq(Reqs)]
      /\ IndInv /\ IndInv' /\ ConnInv
  BY DEF BaseInv, IndInv, TypeOK
<1> DEFINE c == conOf[cur.fd]
<1>1. c \in Conns /\ Linked(c) /\ InExec(c)
  BY <1>0, ExecConn DEF Executes, InExec
<1>2. /\ UNCHANGED <<cl, sent>>
      /\ done' = [done EXCEPT ![c] = Append(@, cur.req)]
      /\ pc' \in {"loop", "hup", "killed"} /\ ~InExec(d)'
  BY FinishFds DEF Executes, InExec
<1>3. \/ UNCHANGED rx /\ (Linked(d)' <=> Linked(d))
      \/ rx'[d] = <<>> /\ ~Linked(d)'
  <2>1. CASE CloseAll
    <3>1. \A e \in Conns : cl[e] = "idle" => done'[e] = done[e]
      BY <1>0, <1>1, <1>2 DEF ConnInv, Fresh
    <3>2. ~Linked(d)'
      BY <1>0, <1>2, <2>1, <3>1, ConnCloseAll
    <3>3. QED
      BY <2>1, <3>2 DEF CloseAll
  <2>2. CASE UNCHANGED <<conOf, backlog, rx>>
    BY <2>2, LinkFrame
  <2>3. QED
    BY <2>1, <2>2 DEF Executes
<1>4. CASE d # c
  <2>1. done'[d] = done[d] /\ ~InExec(d)
    BY <1>0, <1>1, <1>2, <1>4 DEF InExec
  <2>2. QED
    BY <1>2, <1>3, <2>1, HistSame, HistClosed
<1>5. CASE d = c
  <2>1. /\ done'[d] = Append(done[d], cur.req) /\ done[d] \in Seq(Reqs)
        /\ Len(sent[d]) \in Nat
    <3>1. sent[d] \in Seq(Reqs) /\ done[d] \in Seq(Reqs)
      BY <1>0
    <3>2. QED
      BY <1>0, <1>2, <1>5, <3>1, LenProperties
  <2>2. /\ Len(done'[d]) = Len(done[d]) + 1 /\ Len(done[d]) \in Nat
        /\ \A i \in 1 .. Len(done[d]) : done'[d][i] = done[d][i]
        /\ done'[d][Len(done[d]) + 1] = cur.req
    BY <1>0, <2>1, QueueAppend
  <2>3. Executed(d)'
    <3>1. \/ /\ Len(done[d]) + 1 <= Len(sent[d])
             /\ cur.req = sent[d][Len(done[d]) + 1]
          \/ /\ Len(done[d]) = Len(sent[d])
             /\ cl[d] = "gone" /\ cur.req.arg = 0
      BY <1>1, <1>5 DEF HistOf, InHand
    <3>2. SUFFICES ASSUME NEW i \in 1 .. Len(done'[d])
                   PROVE  \/ i <= Len(sent[d]) /\ done'[d][i] = sent[d][i]
                          \/ /\ i = Len(sent[d]) + 1 /\ cl[d] = "gone"
                             /\ done'[d][i].arg = 0
      BY <1>2 DEF Executed
    <3>3. CASE i = Len(done[d]) + 1
      BY <2>1, <2>2, <3>1, <3>3
    <3>4. CASE i \in 1 .. Len(done[d])
      BY <1>5, <2>2, <3>4 DEF HistOf, Executed
    <3>5. i = Len(done[d]) + 1 \/ i \in 1 .. Len(done[d])
      BY <2>2
    <3>6. QED
      BY <3>3, <3>4, <3>5
  <2>4. Taken(d)' = Taken(d)
    BY <1>1, <1>2, <1>5, <2>2 DEF Taken
  <2>5. CutLast(d)'
    BY <1>2, <1>3, <1>5 DEF HistOf, CutLast
  <2>6. Waiting(d)'
    BY <1>2, <1>3, <1>5, <2>4 DEF HistOf, Waiting
  <2>7. QED
    BY <1>2, <1>5, <2>3, <2>5, <2>6 DEF HistOf, InHand
<1>6. QED
  BY <1>4, <1>5

(* What accept and close do to the connections, in one place.              *)
LEMMA AcceptMoves ==
  ASSUME BaseInv, BaseInv', daemon_ipc_con_add, NEW d \in Conns
  PROVE  \/ rx'[d] = rx[d] /\ (Linked(d)' <=> Linked(d))
         \/ /\ rx'[d] = <<>> /\ ~Linked(d)' /\ Linked(d)
            /\ CtlFails /\ d = Head(backlog)
<1>0. /\ IndInv /\ IndInv' /\ ConnInv /\ rx \in [Conns -> Seq(Wire)]
      /\ backlog # <<>> /\ UNCHANGED <<cl, sent, done>>
  BY DEF BaseInv, IndInv, TypeOK, LoopInv, daemon_ipc_con_add
<1>1. CASE UNCHANGED <<conOf, backlog, rx>>
  BY <1>1, LinkFrame
<1>2. CASE /\ \E fd \in FreeFds :
                conOf' = [conOf EXCEPT ![fd] = Head(backlog)]
           /\ backlog' = Tail(backlog)
           /\ UNCHANGED rx
  BY <1>0, <1>2, ConnAccept
<1>3. CASE /\ CtlFails /\ rx' = [rx EXCEPT ![Head(backlog)] = <<>>]
           /\ backlog' = Tail(backlog)
           /\ UNCHANGED conOf
  <2>1. Linked(d)' <=> Linked(d) /\ d # Head(backlog)
    BY <1>0, <1>3, ConnRefused
  <2>2. Head(backlog) \in Conns /\ Queued(Head(backlog))
    BY <1>0, <1>3, Dequeue DEF Queued
  <2>3. Linked(Head(backlog))
    BY <1>0, <2>2, LinkedIs DEF IndInv
  <2>4. QED
    BY <1>0, <1>3, <2>1, <2>2, <2>3
<1>4. QED
  BY <1>1, <1>2, <1>3 DEF daemon_ipc_con_add

LEMMA CloseMoves ==
  ASSUME BaseInv, BaseInv', daemon_ipc_con_close, NEW d \in Conns
  PROVE  \/ /\ d # conOf[cur.fd]
            /\ rx'[d] = rx[d] /\ (Linked(d)' <=> Linked(d))
         \/ /\ d = conOf[cur.fd] /\ rx'[d] = <<>>
            /\ cl[d] = "gone" /\ Linked(d) /\ ~Linked(d)'
<1>0. IndInv /\ IndInv' /\ ConnInv /\ rx \in [Conns -> Seq(Wire)]
  BY DEF BaseInv, IndInv, TypeOK
<1>1. Linked(d)' <=> Linked(d) /\ d # conOf[cur.fd]
  BY <1>0, ConnClose
<1>2. Linked(conOf[cur.fd]) /\ cl[conOf[cur.fd]] = "gone"
  BY <1>0, ExecConn DEF BaseInv, HupInv, daemon_ipc_con_close
<1>3. QED
  BY <1>0, <1>1, <1>2 DEF daemon_ipc_con_close

LEMMA CleanupMoves ==
  ASSUME BaseInv, BaseInv', daemon_ipc_cleanup, NEW d \in Conns
  PROVE  rx'[d] = <<>> /\ ~Linked(d)'
BY ConnCloseAll DEF BaseInv, daemon_ipc_cleanup, CloseAll

LEMMA NextHistInv ==
  ASSUME BaseInv, BaseInv', HistInv, [Next]_vars
  PROVE  HistInv'
<1> SUFFICES ASSUME NEW d \in Conns PROVE HistOf(d)'
  BY DEF HistInv
<1>0. /\ TypeOK /\ HistOf(d)
      /\ cl \in [Conns -> {"idle", "open", "await", "gone"}]
  BY DEF BaseInv, IndInv, TypeOK, HistInv
<1>1. ASSUME NEW c \in Conns, Connects(c) PROVE HistOf(d)'
  BY <1>0, <1>1, HistConnects
<1>2. ASSUME NEW c \in Conns, Leaves(c) PROVE HistOf(d)'
  <2>1. (Linked(d)' <=> Linked(d)) /\ (InExec(d)' <=> InExec(d))
    BY <1>2, LinkFrame DEF Leaves, InExec
  <2>2. QED
    BY <1>0, <1>2, <2>1, HistSame DEF Leaves
<1>3. ASSUME NEW c \in Conns, NEW r \in WholeReqs,
             NEW next \in {"open", "await"}, Writes(c, r, next)
      PROVE  HistOf(d)'
  BY <1>0, <1>3, HistWrites
<1>4. ASSUME NEW c \in Conns, GetReturn(c) PROVE HistOf(d)'
  <2>1. (Linked(d)' <=> Linked(d)) /\ (InExec(d)' <=> InExec(d))
    BY <1>4, LinkFrame DEF GetReturn, InExec
  <2>2. QED
    BY <1>0, <1>4, <2>1, HistSame DEF GetReturn
<1>5. ASSUME NEW c \in Conns, NEW w \in Parts,
             NEW next \in {"open", "gone"}, Puts(c, w, next)
      PROVE  HistOf(d)'
  BY <1>0, <1>5, HistPuts
<1>6. CASE GoesOn
  <2>1. (Linked(d)' <=> Linked(d)) /\ (InExec(d)' <=> InExec(d))
    BY <1>6, LinkFrame DEF GoesOn, InExec, epoll_wait, EndOfBatch
  <2>2. QED
    BY <1>0, <1>6, <2>1, HistSame DEF GoesOn
<1>7. CASE daemon_ipc_con_add
  <2>1. ~InExec(d) /\ ~InExec(d)' /\ UNCHANGED <<cl, sent, done>>
    BY <1>7 DEF daemon_ipc_con_add, InExec
  <2>2. \/ rx'[d] = rx[d] /\ (Linked(d)' <=> Linked(d))
        \/ rx'[d] = <<>> /\ ~Linked(d)'
    BY <1>7, AcceptMoves
  <2>3. QED
    BY <1>0, <2>1, <2>2, HistSame, HistClosed
<1>8. ASSUME NEW fd \in Fds, daemon_ipc_con_in(fd) PROVE HistOf(d)'
  BY <1>0, <1>8, HistTakes
<1>9. CASE Executes
  BY <1>0, <1>9, HistExecutes
<1>10. CASE daemon_ipc_con_close
  <2>1. ~InExec(d) /\ ~InExec(d)' /\ UNCHANGED <<cl, sent, done>>
    BY <1>10 DEF daemon_ipc_con_close, InExec
  <2>2. \/ rx'[d] = rx[d] /\ (Linked(d)' <=> Linked(d))
        \/ rx'[d] = <<>> /\ ~Linked(d)'
    BY <1>10, CloseMoves
  <2>3. QED
    BY <1>0, <2>1, <2>2, HistSame, HistClosed
<1>11. CASE daemon_ipc_cleanup
  <2>1. ~InExec(d)' /\ UNCHANGED <<cl, sent, done>>
    BY <1>11 DEF daemon_ipc_cleanup, InExec
  <2>2. rx'[d] = <<>> /\ ~Linked(d)'
    BY <1>11, CleanupMoves
  <2>3. QED
    BY <1>0, <2>1, <2>2, HistClosed
<1>12. QED
  BY <1>0, <1>1, <1>2, <1>3, <1>4, <1>5, <1>6, <1>7, <1>8, <1>9, <1>10,
     <1>11, StepKinds

LEMMA InitHistInv == Init => HistInv
<1> SUFFICES ASSUME Init, NEW d \in Conns PROVE HistOf(d)
  BY DEF HistInv
<1>1. /\ rx[d] = <<>> /\ sent[d] = <<>> /\ done[d] = <<>> /\ ~InExec(d)
      /\ Len(<<>>) = 0
  BY DEF Init, InExec
<1>2. Taken(d) = 0
  BY <1>1 DEF Taken
<1>3. Waiting(d)
  BY <1>1, <1>2, NumberedEmpty DEF Waiting
<1>4. QED
  BY <1>1, <1>3 DEF HistOf, CutLast, InHand, Executed

ServedInv == BaseInv /\ HistInv

LEMMA NextServedInv == ServedInv /\ [Next]_vars => ServedInv'
BY NextBaseInv, NextHistInv DEF ServedInv

LEMMA ServedInvHolds == Spec => []ServedInv
<1>1. Init => ServedInv
  BY InitBaseInv, InitHistInv DEF ServedInv
<1>2. QED
  BY <1>1, NextServedInv, PTL DEF Spec

(***************************************************************************)
(* Whatever the clients do, and however many requests wait in a socket,    *)
(* the daemon hands to the HAL what was written, once each and in order;   *)
(* only the last request of a client that is gone may be executed with     *)
(* zeroes for the parameters it never began to write.                      *)
(***************************************************************************)
THEOREM ExecutesAsWritten == Spec => []DoneAsWritten
<1>1. ServedInv => DoneAsWritten
  BY DEF ServedInv, HistInv, HistOf, Executed, DoneAsWritten
<1>2. QED
  BY <1>1, ServedInvHolds, PTL

-----------------------------------------------------------------------------
(* The abstract state of a step that leaves the sessions alone.            *)
LEMMA ServiceStutter ==
  ASSUME TypeOK, UNCHANGED <<sent, done>>, Ended' <=> Ended,
         \A d \in Conns :
           /\ Linked(d)' <=> Linked(d)
           /\ cl'[d] = "idle" <=> cl[d] = "idle"
           /\ cl'[d] = "gone" <=> cl[d] = "gone"
  PROVE  UNCHANGED Service!svars
<1>1. \A d \in Conns : Session(d)' = Session(d)
  BY DEF Session
<1>2. QED
  BY <1>1 DEF Service!svars

LEMMA ServiceLeave ==
  ASSUME TypeOK, NEW c \in Conns, cl[c] # "gone",
         cl' = [cl EXCEPT ![c] = "gone"],
         UNCHANGED <<conOf, backlog, pc, sent, done>>
  PROVE  Service!Leave(c)
<1>0. cl \in [Conns -> {"idle", "open", "await", "gone"}]
  BY DEF TypeOK
<1>1. \A d \in Conns :
        Session(d)' = IF d = c /\ Session(d) = "new" THEN "over"
                      ELSE Session(d)
  BY <1>0, LinkFrame DEF Session
<1>2. [d \in Conns |-> Session(d)'] =
        [[d \in Conns |-> Session(d)] EXCEPT
            ![c] = IF @ = "new" THEN "over" ELSE @]
  BY <1>1
<1>3. [d \in Conns |-> cl'[d] # "gone"] =
        [[d \in Conns |-> cl[d] # "gone"] EXCEPT ![c] = FALSE]
  BY <1>0
<1>4. QED
  BY <1>2, <1>3 DEF Service!Leave, Ended

LEMMA ServiceOpen ==
  ASSUME BaseInv, BaseInv', NEW c \in Conns, Connects(c)
  PROVE  Service!Open(c)
<1>0. /\ cl \in [Conns -> {"idle", "open", "await", "gone"}]
      /\ IndInv /\ IndInv' /\ ConnInv /\ cl[c] = "idle" /\ ~Ended
      /\ UNCHANGED <<pc, sent, done>>
  BY DEF BaseInv, IndInv, TypeOK, Connects
<1>1. \A d \in Conns : Linked(d)' <=> Linked(d) \/ d = c
  BY <1>0, ConnConnect DEF Connects
<1>2. Session(c) = "new"
  BY <1>0 DEF Session, ConnInv, Fresh
<1>3. \A d \in Conns : cl'[d] = IF d = c THEN "open" ELSE cl[d]
  BY <1>0 DEF Connects
<1>4. \A d \in Conns : Session(d)' = IF d = c THEN "open" ELSE Session(d)
  BY <1>1, <1>3 DEF Session
<1>5. [d \in Conns |-> Session(d)'] =
        [[d \in Conns |-> Session(d)] EXCEPT ![c] = "open"]
  BY <1>4
<1>6. [d \in Conns |-> cl'[d] # "gone"] = [d \in Conns |-> cl[d] # "gone"]
  BY <1>0, <1>3
<1>7. QED
  BY <1>0, <1>2, <1>5, <1>6 DEF Service!Open, Ended

LEMMA ServiceSubmit ==
  ASSUME BaseInv, NEW c \in Conns, NEW r \in WholeReqs,
         NEW next \in {"open", "await"}, Writes(c, r, next)
  PROVE  Service!Submit(c, r)
<1>0. /\ cl \in [Conns -> {"idle", "open", "await", "gone"}]
      /\ UNCHANGED <<conOf, backlog, pc, done>>
      /\ cl[c] = "open" /\ Linked(c)
      /\ sent' = [sent EXCEPT ![c] = Append(@, r)]
  BY DEF BaseInv, IndInv, TypeOK, Writes
<1>1. \A d \in Conns : cl'[d] = IF d = c THEN next ELSE cl[d]
  BY <1>0 DEF Writes
<1>2. \A d \in Conns : Session(d)' = Session(d)
  BY <1>0, <1>1, LinkFrame DEF Session
<1>3. [d \in Conns |-> cl'[d] # "gone"] = [d \in Conns |-> cl[d] # "gone"]
  BY <1>0, <1>1
<1>4. QED
  BY <1>0, <1>2, <1>3 DEF Service!Submit, Ended, Session

(* The request executed is the next one of its session.                    *)
LEMMA ServiceExecuteNext ==
  ASSUME "no_params" \notin Cuts, ServedInv, Executes
  PROVE  conOf[cur.fd] \in Conns /\ Service!ExecuteNext(conOf[cur.fd])
<1>0. /\ done \in [Conns -> Seq(Reqs)] /\ sent \in [Conns -> Seq(Reqs)]
      /\ IndInv
  BY DEF ServedInv, BaseInv, IndInv, TypeOK
<1> DEFINE c == conOf[cur.fd]
<1>1. c \in Conns /\ Linked(c) /\ InExec(c)
  BY <1>0, ExecConn DEF Executes, InExec
<1>2. Len(done[c]) \in Nat /\ Len(sent[c]) \in Nat
  <2>1. done[c] \in Seq(Reqs) /\ sent[c] \in Seq(Reqs)
    BY <1>0, <1>1
  <2>2. QED
    BY <2>1, LenProperties
<1>3. /\ Len(done[c]) + 1 <= Len(sent[c])
      /\ cur.req = sent[c][Len(done[c]) + 1]
  BY <1>1 DEF ServedInv, HistInv, HistOf, InHand
<1>4. done' = [done EXCEPT ![c] = Append(@, sent[c][Len(@) + 1])]
  BY <1>3 DEF Executes
<1>5. Session(c) = "open"
  BY <1>1 DEF Session
<1>6. QED
  BY <1>1, <1>2, <1>3, <1>4, <1>5 DEF Service!ExecuteNext

(* The end of the process ends every session that is open.                 *)
LEMMA ServiceDown ==
  ASSUME BaseInv, UNCHANGED <<cl, sent>>, ~Ended, Ended',
         \A d \in Conns : ~Linked(d)',
         \/ UNCHANGED done
         \/ \E c \in Conns : Service!ExecuteNext(c)
  PROVE  Service!ShutDown
<1>1. \A d \in Conns :
        Session(d)' = IF Session(d) = "open" THEN "over" ELSE Session(d)
  BY DEF Session, BaseInv, ConnInv, Fresh
<1>2. [d \in Conns |-> Session(d)'] =
        [d \in Conns |-> IF [e \in Conns |-> Session(e)][d] = "open"
                         THEN "over" ELSE [e \in Conns |-> Session(e)][d]]
  BY <1>1
<1>3. QED
  BY <1>2 DEF Service!ShutDown

LEMMA ServiceExecute ==
  ASSUME "no_params" \notin Cuts, ServedInv, ServedInv', Executes
  PROVE  \/ \E c \in Conns : Service!Execute(c)
         \/ Service!ShutDown
<1>1. conOf[cur.fd] \in Conns /\ Service!ExecuteNext(conOf[cur.fd])
  BY ServiceExecuteNext
<1>2. /\ UNCHANGED <<cl, sent>> /\ pc = "exec" /\ ~Ended
      /\ IndInv /\ IndInv' /\ ConnInv /\ BaseInv
  BY DEF Executes, Ended, ServedInv, BaseInv
<1>3. CASE FinishEvent(cur.fd) /\ UNCHANGED <<conOf, backlog>>
  <2>1. ~Ended'
    BY <1>3, FinishFds DEF Ended
  <2>2. \A d \in Conns : Session(d)' = Session(d)
    BY <1>2, <1>3, LinkFrame DEF Session
  <2>3. Service!Execute(conOf[cur.fd])
    BY <1>1, <1>2, <2>1, <2>2 DEF Service!Execute
  <2>4. QED
    BY <1>1, <2>3
<1>4. CASE pc' = "killed" /\ CloseAll
  <2>1. \A e \in Conns : cl[e] = "idle" => done'[e] = done[e]
    <3>1. Linked(conOf[cur.fd]) /\ done \in [Conns -> Seq(Reqs)]
      BY <1>2, ExecConn DEF IndInv, TypeOK
    <3>2. QED
      BY <1>2, <3>1 DEF Executes, ConnInv, Fresh
  <2>2. \A d \in Conns : ~Linked(d)'
    BY <1>2, <1>4, <2>1, ConnCloseAll
  <2>3. Ended'
    BY <1>4 DEF Ended
  <2>4. Service!ShutDown
    BY <1>1, <1>2, <2>2, <2>3, ServiceDown
  <2>5. QED
    BY <2>4
<1>5. QED
  BY <1>3, <1>4 DEF Executes

LEMMA ServiceEnd ==
  ASSUME BaseInv, BaseInv', daemon_ipc_con_close
  PROVE  \E c \in Conns : Service!EndSession(c)
<1> DEFINE c == conOf[cur.fd]
<1>0. c \in Conns
  BY ExecConn DEF BaseInv, daemon_ipc_con_close
<1>1. /\ UNCHANGED <<cl, sent, done>> /\ ~Ended /\ ~Ended'
  BY DEF daemon_ipc_con_close, Ended
<1>2. /\ \A d \in Conns : d # c => (Linked(d)' <=> Linked(d))
      /\ Linked(c) /\ cl[c] = "gone"
  BY <1>0, CloseMoves
<1>3. \A d \in Conns : d = c => ~Linked(d)'
  BY CloseMoves
<1>4. \A d \in Conns : Session(d)' = IF d = c THEN "over" ELSE Session(d)
  BY <1>1, <1>2, <1>3 DEF Session
<1>5. [d \in Conns |-> Session(d)'] =
        [[d \in Conns |-> Session(d)] EXCEPT ![c] = "over"]
  BY <1>4
<1>6. Session(c) = "open"
  BY <1>2 DEF Session
<1>7. Service!EndSession(c)
  BY <1>0, <1>1, <1>2, <1>5, <1>6 DEF Service!EndSession
<1>8. QED
  BY <1>0, <1>7

LEMMA ServiceStep ==
  ASSUME "no_params" \notin Cuts, ~CtlFails, ServedInv, ServedInv',
         [Next]_vars
  PROVE  [Service!SNext]_(Service!svars)
<1>0. /\ BaseInv /\ BaseInv' /\ TypeOK
      /\ cl \in [Conns -> {"idle", "open", "await", "gone"}]
  BY DEF ServedInv, BaseInv, IndInv, TypeOK
<1>1. ASSUME NEW c \in Conns, Connects(c) PROVE Service!SNext
  BY <1>0, <1>1, ServiceOpen DEF Service!SNext
<1>2. ASSUME NEW c \in Conns, Leaves(c) PROVE Service!SNext
  <2>1. Service!Leave(c)
    BY <1>0, <1>2, ServiceLeave DEF Leaves
  <2>2. QED
    BY <2>1 DEF Service!SNext
<1>3. ASSUME NEW c \in Conns, NEW r \in WholeReqs,
             NEW next \in {"open", "await"}, Writes(c, r, next)
      PROVE  Service!SNext
  <2>1. r \in Reqs /\ Service!Submit(c, r)
    BY <1>0, <1>3, ServiceSubmit DEF WholeReqs
  <2>2. QED
    BY <2>1 DEF Service!SNext
<1>4. ASSUME NEW c \in Conns, GetReturn(c) PROVE UNCHANGED Service!svars
  <2>1. \A d \in Conns : Linked(d)' <=> Linked(d)
    BY <1>4, LinkFrame DEF GetReturn
  <2>2. QED
    BY <1>0, <1>4, <2>1, ServiceStutter DEF GetReturn, Ended
<1>5. ASSUME NEW c \in Conns, NEW w \in Parts,
             NEW next \in {"open", "gone"}, Puts(c, w, next)
      PROVE  [Service!SNext]_(Service!svars)
  <2>1. CASE next = "gone"
    <3>1. Service!Leave(c)
      BY <1>0, <1>5, <2>1, ServiceLeave DEF Puts
    <3>2. QED
      BY <3>1 DEF Service!SNext
  <2>2. CASE next = "open"
    <3>1. \A d \in Conns : Linked(d)' <=> Linked(d)
      BY <1>5, LinkFrame DEF Puts
    <3>2. UNCHANGED Service!svars
      BY <1>0, <1>5, <2>2, <3>1, ServiceStutter DEF Puts, Ended
    <3>3. QED
      BY <3>2
  <2>3. QED
    BY <2>1, <2>2
<1>6. CASE GoesOn
  <2>1. \A d \in Conns : Linked(d)' <=> Linked(d)
    BY <1>6, LinkFrame DEF GoesOn
  <2>2. Ended' <=> Ended
    BY <1>6 DEF GoesOn, epoll_wait, EndOfBatch, Ended
  <2>3. UNCHANGED Service!svars
    BY <1>0, <1>6, <2>1, <2>2, ServiceStutter DEF GoesOn
  <2>4. QED
    BY <2>3
<1>7. CASE daemon_ipc_con_add
  <2>1. \A d \in Conns : Linked(d)' <=> Linked(d)
    BY <1>0, <1>7, AcceptMoves
  <2>2. UNCHANGED <<cl, sent, done, pc>>
    BY <1>7 DEF daemon_ipc_con_add
  <2>3. UNCHANGED Service!svars
    BY <1>0, <2>1, <2>2, ServiceStutter DEF Ended
  <2>4. QED
    BY <2>3
<1>8. ASSUME NEW fd \in Fds, daemon_ipc_con_in(fd)
      PROVE  UNCHANGED Service!svars
  <2>1. \A d \in Conns : Linked(d)' <=> Linked(d)
    BY <1>8, LinkFrame DEF daemon_ipc_con_in
  <2>2. ~Ended /\ ~Ended'
    <3>1. FinishEvent(fd) => pc' \in {"loop", "hup"}
      BY FinishFds
    <3>2. QED
      BY <1>8, <3>1 DEF daemon_ipc_con_in, Ended
  <2>3. QED
    BY <1>0, <1>8, <2>1, <2>2, ServiceStutter DEF daemon_ipc_con_in
<1>9. CASE Executes
  BY <1>9, ServiceExecute DEF Service!SNext
<1>10. CASE daemon_ipc_con_close
  BY <1>0, <1>10, ServiceEnd DEF Service!SNext
<1>11. CASE daemon_ipc_cleanup
  <2>1. \A d \in Conns : ~Linked(d)'
    BY <1>0, <1>11, CleanupMoves
  <2>2. Service!ShutDown
    BY <1>0, <1>11, <2>1, ServiceDown DEF daemon_ipc_cleanup, Ended
  <2>3. QED
    BY <2>2 DEF Service!SNext
<1>12. QED
  BY <1>0, <1>1, <1>2, <1>3, <1>4, <1>5, <1>6, <1>7, <1>8, <1>9, <1>10,
     <1>11, StepKinds

(***************************************************************************)
(* The daemon with its sockets, events and descriptors implements the      *)
(* abstract service: each step executes the next request of a session,     *)
(* submits one, opens or ends a session, or is not seen by the clients.    *)
(* It does so where accept can register what it accepts (daemon_ipc.c      *)
(* otherwise closes the connection of a client that is still there) and no *)
(* client dies just between the header and the parameters of a request.    *)
(***************************************************************************)
THEOREM DaemonImplementsService ==
  ASSUME "no_params" \notin Cuts, ~CtlFails
  PROVE  Spec => ImplementsService
<1>1. Init => Service!SInit
  <2> SUFFICES ASSUME Init PROVE Service!SInit
    OBVIOUS
  <2>1. \A c \in Conns : ~Linked(c)
    BY InitConnInv DEF Init, ConnInv, Fresh
  <2>2. \A c \in Conns : Session(c) = "new"
    BY <2>1 DEF Init, Session
  <2>3. QED
    BY <2>2 DEF Init, Service!SInit, Ended
<1>2. ServedInv /\ ServedInv' /\ [Next]_vars =>
        [Service!SNext]_(Service!svars)
  BY ServiceStep
<1>3. QED
  BY <1>1, <1>2, ServedInvHolds, PTL
     DEF Spec, ImplementsService, Service!SSpec

-----------------------------------------------------------------------------
(***************************************************************************)
(* Replies.  A connection that a step does not touch keeps what it is due. *)
(***************************************************************************)
LEMMA ReplySame ==
  ASSUME NEW d \in Conns, ReplyOf(d), rx'[d] = rx[d], tx'[d] = tx[d],
         sent'[d] = sent[d], cl'[d] = cl[d], InExec(d)' <=> InExec(d),
         InExec(d) => cur'.req = cur.req
  PROVE  ReplyOf(d)'
<1>1. AskInExec(d)' <=> AskInExec(d)
  BY DEF AskInExec
<1>2. \A n : AskLeft(d, n)' <=> AskLeft(d, n)
  BY DEF AskLeft
<1>3. LastSent(d)' = LastSent(d) /\ (LastAsks(d)' <=> LastAsks(d))
  BY DEF LastSent, LastAsks
<1>4. Awaiting(d) => Awaiting(d)'
  BY <1>1, <1>2, <1>3 DEF Awaiting, AskInExec
<1>5. QED
  BY <1>1, <1>2, <1>3, <1>4 DEF ReplyOf

(* A client that is gone, or whose connection is, is due nothing more.     *)
LEMMA ReplyGone ==
  ASSUME NEW d \in Conns, ReplyOf(d), cl'[d] = "gone", tx'[d] = tx[d],
         sent'[d] = sent[d],
         cl[d] \in {"idle", "open", "await", "gone"}
  PROVE  ReplyOf(d)'
BY DEF ReplyOf, LastAsks, LastSent, Awaiting

LEMMA ReplyClosed ==
  ASSUME NEW d \in Conns, ReplyOf(d), rx'[d] = <<>>, tx'[d] = tx[d],
         sent'[d] = sent[d], cl'[d] = cl[d], ~InExec(d)'
  PROVE  ReplyOf(d)'
<1>1. ~AskInExec(d)' /\ ~AskLeft(d, Len(rx[d]))'
  <2>1. Len(rx'[d]) = 0
    BY EmptySeq
  <2>2. QED
    BY <2>1 DEF AskInExec, AskLeft
<1>2. LastSent(d)' = LastSent(d) /\ (LastAsks(d)' <=> LastAsks(d))
  BY DEF LastSent, LastAsks
<1>3. Awaiting(d) => Awaiting(d)'
  BY <1>1, <1>2 DEF Awaiting
<1>4. QED
  BY <1>1, <1>2, <1>3 DEF ReplyOf

LEMMA ReplyConnects ==
  ASSUME BaseInv, NEW c \in Conns, Connects(c), ReplyOf(c)
  PROVE  ReplyOf(c)'
<1>0. /\ cl \in [Conns -> {"idle", "open", "await", "gone"}] /\ IndInv
      /\ UNCHANGED <<rx, tx, pc, cur, conOf>> /\ cl[c] = "idle"
  BY DEF BaseInv, IndInv, TypeOK, Connects
<1>1. cl'[c] = "open" /\ tx'[c] = <<>>
  BY <1>0 DEF Connects, ReplyOf
<1>2. ~Linked(c) /\ Len(rx'[c]) = 0
  BY <1>0, EmptySeq DEF BaseInv, ConnInv, Fresh, ClosedEmpty
<1>3. ~InExec(c)'
  BY <1>0, <1>2, ExecConn DEF InExec
<1>4. QED
  BY <1>1, <1>2, <1>3 DEF ReplyOf, AskInExec, AskLeft

LEMMA ReplyWrites ==
  ASSUME BaseInv, NEW c \in Conns \ NonReaders, NEW r \in WholeReqs,
         NEW next \in {"open", "await"}, Writes(c, r, next), ReplyOf(c)
  PROVE  ReplyOf(c)'
<1>0. /\ cl \in [Conns -> {"idle", "open", "await", "gone"}]
      /\ rx \in [Conns -> Seq(Wire)] /\ sent \in [Conns -> Seq(Reqs)]
  BY DEF BaseInv, IndInv, TypeOK
<1> DEFINE w == [req |-> r, cut |-> "none"]
<1>1. /\ w \in Wire /\ r \in Reqs /\ rx[c] \in Seq(Wire)
      /\ sent[c] \in Seq(Reqs) /\ cl[c] = "open" /\ cl'[c] = next
      /\ next = IF Asks(r) THEN "await" ELSE "open"
      /\ rx'[c] = Append(rx[c], w) /\ sent'[c] = Append(sent[c], r)
      /\ UNCHANGED <<tx, pc, cur, conOf>>
  BY <1>0 DEF Writes, Wire, WholeReqs
<1>2. /\ Len(rx'[c]) = Len(rx[c]) + 1 /\ Len(rx[c]) \in Nat
      /\ \A i \in 1 .. Len(rx[c]) : rx'[c][i] = rx[c][i]
      /\ rx'[c][Len(rx[c]) + 1] = w /\ rx'[c] # <<>>
  BY <1>1, QueueAppend, AppendType
<1>3. /\ Len(sent'[c]) = Len(sent[c]) + 1 /\ sent'[c][Len(sent[c]) + 1] = r
      /\ sent'[c] # <<>>
  BY <1>1, QueueAppend, AppendType
<1>4. LastSent(c)' = r
  BY <1>3 DEF LastSent
<1>5. /\ tx'[c] = <<>> /\ ~AskInExec(c)'
      /\ \A i \in 1 .. Len(rx[c]) : ~Asks(rx[c][i].req)
  BY <1>1 DEF ReplyOf, AskInExec, AskLeft, InExec
<1>6. \A i \in 1 .. Len(rx'[c]) - 1 : ~Asks(rx'[c][i].req)
  BY <1>2, <1>5
<1>7. CASE Asks(r)
  <2>1. LastAsks(c)'
    BY <1>3, <1>4, <1>7 DEF LastAsks
  <2>2. rx'[c][Len(rx'[c])].req = r
    BY <1>2
  <2>3. Awaiting(c)'
    BY <1>2, <1>4, <1>5, <1>6, <2>2 DEF Awaiting, AskLeft
  <2>4. QED
    BY <1>1, <1>7, <2>1, <2>3 DEF ReplyOf
<1>8. CASE ~Asks(r)
  <2>1. \A i \in 1 .. Len(rx'[c]) : ~Asks(rx'[c][i].req)
    BY <1>2, <1>5, <1>8
  <2>2. QED
    BY <1>1, <1>5, <1>8, <2>1 DEF ReplyOf, AskLeft
<1>9. QED
  BY <1>7, <1>8

LEMMA ReplyReturns ==
  ASSUME BaseInv, NEW c \in Conns, GetReturn(c), ReplyOf(c)
  PROVE  ReplyOf(c)'
<1>0. /\ cl \in [Conns -> {"idle", "open", "await", "gone"}]
      /\ tx \in [Conns -> Seq(Args)] /\ IndInv
      /\ UNCHANGED <<rx, pc, cur, conOf>> /\ cl[c] = "await"
  BY DEF BaseInv, IndInv, TypeOK, GetReturn
<1>1. cl'[c] = "open" /\ Awaiting(c)
  BY <1>0 DEF GetReturn, ReplyOf
<1>2. CASE tx[c] # <<>> /\ tx' = [tx EXCEPT ![c] = Tail(@)]
  <2>1. /\ tx[c] = <<LastSent(c).arg>>
        /\ ~AskInExec(c) /\ ~AskLeft(c, Len(rx[c]))
    BY <1>1, <1>2 DEF Awaiting
  <2>2. tx'[c] = <<>>
    <3>1. tx'[c] = Tail(tx[c]) /\ tx[c] \in Seq(Args) /\ Len(tx[c]) = 1
      BY <1>0, <1>2, <2>1
    <3>2. Tail(tx[c]) \in Seq(Args) /\ Len(Tail(tx[c])) = 0
      BY <1>2, <3>1, HeadTailProperties
    <3>3. QED
      BY <3>1, <3>2, EmptySeq
  <2>3. QED
    BY <1>0, <1>1, <2>1, <2>2 DEF ReplyOf, AskInExec, AskLeft, InExec
<1>3. CASE tx[c] = <<>> /\ ~Linked(c) /\ UNCHANGED tx
  <2>1. Len(rx'[c]) = 0
    BY <1>0, <1>3, EmptySeq DEF BaseInv, ConnInv, ClosedEmpty
  <2>2. ~InExec(c)'
    BY <1>0, <1>3, ExecConn DEF InExec
  <2>3. QED
    BY <1>1, <1>3, <2>1, <2>2 DEF ReplyOf, AskInExec, AskLeft
<1>4. QED
  BY <1>2, <1>3 DEF GetReturn

LEMMA ReplyPuts ==
  ASSUME BaseInv, NEW c \in Conns, NEW w \in Parts,
         NEW next \in {"open", "gone"}, Puts(c, w, next), ReplyOf(c)
  PROVE  ReplyOf(c)'
<1>0. /\ cl \in [Conns -> {"idle", "open", "await", "gone"}]
      /\ rx \in [Conns -> Seq(Wire)]
  BY DEF BaseInv, IndInv, TypeOK
<1>1. /\ w \in Wire /\ rx[c] \in Seq(Wire) /\ cl[c] = "open"
      /\ cl'[c] = next /\ rx'[c] = Append(rx[c], w)
      /\ next = IF w.cut = "none" THEN "open" ELSE "gone"
      /\ UNCHANGED <<tx, sent, pc, cur, conOf>>
  BY <1>0 DEF Puts, Parts
<1>2. CASE next = "gone"
  BY <1>1, <1>2, ReplyGone
<1>3. CASE next = "open"
  <2>1. ~Asks(w.req)
    BY <1>1, <1>3, DaemonAssumption DEF Parts, Asks, CutPoints
  <2>2. /\ Len(rx'[c]) = Len(rx[c]) + 1 /\ Len(rx[c]) \in Nat
        /\ \A i \in 1 .. Len(rx[c]) : rx'[c][i] = rx[c][i]
        /\ rx'[c][Len(rx[c]) + 1] = w
    BY <1>1, QueueAppend
  <2>3. /\ tx'[c] = <<>> /\ ~AskInExec(c)'
        /\ \A i \in 1 .. Len(rx[c]) : ~Asks(rx[c][i].req)
    BY <1>1 DEF ReplyOf, AskInExec, AskLeft, InExec
  <2>4. \A i \in 1 .. Len(rx'[c]) : ~Asks(rx'[c][i].req)
    BY <2>1, <2>2, <2>3
  <2>5. QED
    BY <1>1, <1>3, <2>3, <2>4 DEF ReplyOf, AskLeft
<1>4. QED
  BY <1>2, <1>3

(***************************************************************************)
(* The last request of a client in its read call is either behind others   *)
(* in the socket, or is the one now read.                                  *)
(***************************************************************************)
LEMMA ReplyTakes ==
  ASSUME ServedInv, NEW fd \in Fds, daemon_ipc_con_in(fd), NEW d \in Conns,
         d = conOf[fd], ReplyOf(d)
  PROVE  ReplyOf(d)'
<1>0. /\ cl \in [Conns -> {"idle", "open", "await", "gone"}]
      /\ rx \in [Conns -> Seq(Wire)]
      /\ UNCHANGED <<cl, tx, sent, conOf>> /\ ~InExec(d)
  BY DEF ServedInv, BaseInv, IndInv, TypeOK, daemon_ipc_con_in, InExec
<1> DEFINE q == rx[d]
<1>1. Linked(d) /\ cl[d] # "idle"
  BY <1>0 DEF ServedInv, BaseInv, ConnInv, Fresh, daemon_ipc_con_in, Linked,
              Accepted
<1>2. CASE cl[d] = "gone"
  BY <1>0, <1>2, ReplyGone
<1>3. CASE FinishEvent(fd) /\ UNCHANGED rx
  <2>1. ~InExec(d)'
    BY <1>3, FinishFds DEF InExec
  <2>2. QED
    BY <1>0, <1>3, <2>1, ReplySame
<1>4. CASE /\ cl[d] \in {"open", "await"} /\ q # <<>>
           /\ rx' = [rx EXCEPT ![d] = Tail(@)]
           /\ \/ ~Decodes(Head(q)) /\ FinishEvent(fd)
              \/ /\ Decodes(Head(q)) /\ pc' = "exec"
                 /\ cur' = [fd |-> fd, req |-> ipc_read_req_params(Head(q))]
  <2>1. /\ rx'[d] = Tail(q) /\ Len(q) \in Nat \ {0}
        /\ Len(rx'[d]) = Len(q) - 1 /\ Head(q) = q[1] /\ Tail(q) \in Seq(Wire)
        /\ \A i \in 1 .. Len(q) - 1 : rx'[d][i] = q[i + 1]
    <3>1. rx'[d] = Tail(q) /\ q \in Seq(Wire) /\ q # <<>>
      BY <1>0, <1>4
    <3>2. QED
      BY <3>1, QueueTail, TailType
  <2>2. Head(q).cut = "none"
    <3>1. 1 \in 1 .. Len(q)
      BY <2>1
    <3>2. q[1].cut # "none" => cl[d] = "gone"
      BY <3>1 DEF ServedInv, HistInv, HistOf, CutLast
    <3>3. QED
      BY <1>4, <2>1, <3>2
  <2>3. ~Decodes(Head(q)) => Head(q).req.cmd \notin Cmds
    BY <2>2 DEF Decodes
  <2>4. InExec(d)' => Decodes(Head(q)) /\ cur'.req = q[1].req
    <3>1. FinishEvent(fd) => pc' # "exec"
      BY FinishFds
    <3>2. QED
      BY <1>4, <2>1, <2>2, <3>1 DEF InExec, ipc_read_req_params
  <2>5. Decodes(Head(q)) => InExec(d)'
    BY <1>0, <1>4 DEF InExec
  <2>6. LastSent(d)' = LastSent(d) /\ (LastAsks(d)' <=> LastAsks(d))
    BY <1>0 DEF LastSent, LastAsks
  <2>7. ASSUME ~AskLeft(d, Len(q))
        PROVE  ~AskInExec(d)' /\ ~AskLeft(d, Len(rx[d]))'
    <3>1. \A i \in 1 .. Len(q) : ~Asks(q[i].req)
      BY <2>7 DEF AskLeft
    <3>2. ~Asks(q[1].req)
      BY <2>1, <3>1
    <3>3. \A i \in 1 .. Len(rx'[d]) : ~Asks(rx'[d][i].req)
      BY <2>1, <3>1
    <3>4. QED
      BY <2>4, <3>2, <3>3 DEF AskInExec, AskLeft
  <2>8. CASE cl[d] = "open"
    BY <1>0, <2>7, <2>8 DEF ReplyOf
  <2>9. CASE cl[d] = "await"
    <3>1. LastAsks(d) /\ Awaiting(d) /\ ~AskInExec(d)
      BY <1>0, <2>9 DEF ReplyOf, AskInExec
    <3>2. CASE ~AskLeft(d, Len(q)) /\ tx[d] \in {<<>>, <<LastSent(d).arg>>}
      <4>1. Awaiting(d)'
        BY <1>0, <2>6, <2>7, <3>2 DEF Awaiting
      <4>2. QED
        BY <1>0, <2>6, <2>9, <3>1, <4>1 DEF ReplyOf
    <3>3. CASE /\ tx[d] = <<>> /\ ~AskLeft(d, Len(q) - 1)
               /\ q[Len(q)].req = LastSent(d)
      <4>0. \A i \in 1 .. Len(q) - 1 : ~Asks(q[i].req)
        BY <3>3 DEF AskLeft
      <4>1. CASE Len(q) = 1
        <5>1. q[1].req = LastSent(d) /\ Asks(q[1].req)
          BY <3>1, <3>3, <4>1 DEF LastAsks
        <5>2. Decodes(Head(q))
          BY <2>1, <2>3, <5>1 DEF Asks, Cmds
        <5>3. AskInExec(d)' /\ cur'.req = LastSent(d)
          BY <2>4, <2>5, <5>1, <5>2 DEF AskInExec
        <5>4. ~AskLeft(d, Len(rx[d]))'
          BY <2>1, <4>1 DEF AskLeft
        <5>5. Awaiting(d)'
          BY <1>0, <2>6, <3>3, <5>3, <5>4 DEF Awaiting
        <5>6. QED
          BY <1>0, <2>6, <2>9, <3>1, <5>5 DEF ReplyOf
      <4>2. CASE Len(q) # 1
        <5>0. Len(q) - 1 \in Nat \ {0} /\ 1 \in 1 .. Len(q) - 1
          <6>1. \A n \in Nat \ {0} :
                  n # 1 => n - 1 \in Nat \ {0} /\ 1 \in 1 .. n - 1
            OBVIOUS
          <6>2. Len(q) \in Nat \ {0}
            BY <2>1
          <6>3. QED
            BY <4>2, <6>1, <6>2
        <5>1. ~Asks(q[1].req)
          BY <4>0, <5>0
        <5>2. ~AskInExec(d)'
          BY <2>4, <5>1 DEF AskInExec
        <5>3. \A i \in 1 .. Len(rx'[d]) - 1 : ~Asks(rx'[d][i].req)
          BY <2>1, <4>0
        <5>4. rx'[d][Len(rx'[d])].req = LastSent(d)
          <6>1. rx'[d][Len(q) - 1] = q[(Len(q) - 1) + 1]
            BY <2>1, <5>0
          <6>2. (Len(q) - 1) + 1 = Len(q) /\ Len(rx'[d]) = Len(q) - 1
            BY <2>1
          <6>3. QED
            BY <3>3, <6>1, <6>2
        <5>5. rx'[d] # <<>>
          <6>1. Len(q) \in Nat /\ Len(rx'[d]) = Len(q) - 1
            BY <2>1
          <6>2. Len(rx'[d]) # 0
            BY <4>2, <6>1
          <6>3. QED
            BY <6>2
        <5>6. Awaiting(d)'
          BY <1>0, <2>6, <3>3, <5>2, <5>3, <5>4, <5>5 DEF Awaiting, AskLeft
        <5>7. QED
          BY <1>0, <2>6, <2>9, <3>1, <5>6 DEF ReplyOf
      <4>3. QED
        BY <4>1, <4>2
    <3>4. QED
      BY <3>1, <3>2, <3>3 DEF Awaiting
  <2>10. QED
    BY <1>4, <2>8, <2>9
<1>5. QED
  BY <1>0, <1>1, <1>2, <1>3, <1>4 DEF daemon_ipc_con_in

(* A reply is written only for the request the client waits for.           *)
LEMMA ReplyExecutes ==
  ASSUME BaseInv, Executes, NEW d \in Conns, d = conOf[cur.fd], ReplyOf(d)
  PROVE  ReplyOf(d)'
<1>0. /\ cl \in [Conns -> {"idle", "open", "await", "gone"}] /\ IndInv
      /\ tx \in [Conns -> Seq(Args)] /\ UNCHANGED <<cl, sent>> /\ InExec(d)
  BY DEF BaseInv, IndInv, TypeOK, Executes, InExec
<1>1. Linked(d) /\ cl[d] # "idle"
  BY <1>0, ExecConn DEF BaseInv, ConnInv, Fresh, Executes
<1>2. ~InExec(d)'
  BY FinishFds DEF Executes, InExec
<1>3. CASE CloseAll /\ UNCHANGED tx
  BY <1>0, <1>2, <1>3, ReplyClosed DEF CloseAll
<1>4. CASE UNCHANGED rx
  <2>1. \A n : AskLeft(d, n)' <=> AskLeft(d, n)
    BY <1>4 DEF AskLeft
  <2>2. LastSent(d)' = LastSent(d) /\ (LastAsks(d)' <=> LastAsks(d))
    BY <1>0 DEF LastSent, LastAsks
  <2>3. ~AskInExec(d)'
    BY <1>2 DEF AskInExec
  <2>4. CASE UNCHANGED tx
    <3>1. Awaiting(d) => Awaiting(d)'
      BY <1>4, <2>1, <2>2, <2>3, <2>4 DEF Awaiting
    <3>2. QED
      BY <1>0, <1>4, <2>1, <2>2, <2>3, <2>4, <3>1 DEF ReplyOf
  <2>5. CASE /\ Asks(cur.req) /\ cl[d] # "gone"
             /\ tx' = [tx EXCEPT ![d] = Append(@, cur.req.arg)]
    <3>1. AskInExec(d)
      BY <1>0, <2>5 DEF AskInExec
    <3>2. cl[d] = "await" /\ LastAsks(d) /\ Awaiting(d)
      BY <1>0, <1>1, <2>5, <3>1 DEF ReplyOf
    <3>3. tx[d] = <<>> /\ cur.req = LastSent(d) /\ ~AskLeft(d, Len(rx[d]))
      BY <3>1, <3>2 DEF Awaiting
    <3>4. tx'[d] = <<LastSent(d).arg>>
      BY <1>0, <2>5, <3>3
    <3>5. Awaiting(d)'
      BY <1>4, <2>1, <2>2, <2>3, <3>3, <3>4 DEF Awaiting
    <3>6. QED
      BY <1>0, <2>2, <3>2, <3>5 DEF ReplyOf
  <2>6. QED
    BY <2>4, <2>5 DEF Executes
<1>5. QED
  BY <1>3, <1>4 DEF Executes

LEMMA NextReplyInv ==
  ASSUME ServedInv, BaseInv', ReplyInv, [Next]_vars
  PROVE  ReplyInv'
<1> SUFFICES ASSUME NEW d \in Conns \ NonReaders PROVE ReplyOf(d)'
  BY DEF ReplyInv
<1>0. /\ BaseInv /\ TypeOK /\ ReplyOf(d) /\ d \in Conns
      /\ cl \in [Conns -> {"idle", "open", "await", "gone"}]
      /\ rx \in [Conns -> Seq(Wire)] /\ tx \in [Conns -> Seq(Args)]
      /\ sent \in [Conns -> Seq(Reqs)]
  BY DEF ServedInv, BaseInv, IndInv, TypeOK, ReplyInv
<1>1. ASSUME NEW c \in Conns, Connects(c) PROVE ReplyOf(d)'
  <2>1. CASE d = c
    BY <1>0, <1>1, <2>1, ReplyConnects
  <2>2. CASE d # c
    BY <1>0, <1>1, <2>2, ReplySame DEF Connects, InExec
  <2>3. QED
    BY <2>1, <2>2
<1>2. ASSUME NEW c \in Conns, Leaves(c) PROVE ReplyOf(d)'
  <2>1. CASE d = c
    BY <1>0, <1>2, <2>1, ReplyGone DEF Leaves
  <2>2. CASE d # c
    BY <1>0, <1>2, <2>2, ReplySame DEF Leaves, InExec
  <2>3. QED
    BY <2>1, <2>2
<1>3. ASSUME NEW c \in Conns, NEW r \in WholeReqs,
             NEW next \in {"open", "await"}, Writes(c, r, next)
      PROVE  ReplyOf(d)'
  <2>1. CASE d = c
    BY <1>0, <1>3, <2>1, ReplyWrites
  <2>2. CASE d # c
    BY <1>0, <1>3, <2>2, ReplySame DEF Writes, InExec
  <2>3. QED
    BY <2>1, <2>2
<1>4. ASSUME NEW c \in Conns, GetReturn(c) PROVE ReplyOf(d)'
  <2>1. CASE d = c
    BY <1>0, <1>4, <2>1, ReplyReturns
  <2>2. CASE d # c
    BY <1>0, <1>4, <2>2, ReplySame DEF GetReturn, InExec
  <2>3. QED
    BY <2>1, <2>2
<1>5. ASSUME NEW c \in Conns, NEW w \in Parts,
             NEW next \in {"open", "gone"}, Puts(c, w, next)
      PROVE  ReplyOf(d)'
  <2>1. CASE d = c
    BY <1>0, <1>5, <2>1, ReplyPuts
  <2>2. CASE d # c
    BY <1>0, <1>5, <2>2, ReplySame DEF Puts, InExec
  <2>3. QED
    BY <2>1, <2>2
<1>6. CASE GoesOn
  <2>1. InExec(d)' <=> InExec(d)
    BY <1>6 DEF GoesOn, InExec, epoll_wait, EndOfBatch
  <2>2. QED
    BY <1>0, <1>6, <2>1, ReplySame DEF GoesOn
<1>7. CASE daemon_ipc_con_add
  <2>1. ~InExec(d) /\ ~InExec(d)' /\ UNCHANGED <<cl, sent, tx>>
    BY <1>7 DEF daemon_ipc_con_add, InExec
  <2>2. rx'[d] = rx[d] \/ rx'[d] = <<>>
    BY <1>0, <1>7, AcceptMoves
  <2>3. QED
    BY <1>0, <2>1, <2>2, ReplySame, ReplyClosed
<1>8. ASSUME NEW fd \in Fds, daemon_ipc_con_in(fd) PROVE ReplyOf(d)'
  <2>1. CASE d = conOf[fd]
    BY <1>0, <1>8, <2>1, ReplyTakes
  <2>2. CASE d # conOf[fd]
    <3>1. /\ pc = "loop" /\ UNCHANGED <<cl, sent, tx, conOf>>
          /\ rx'[d] = rx[d]
      BY <1>0, <1>8, <2>2 DEF daemon_ipc_con_in
    <3>2. pc' = "exec" => cur'.fd = fd
      <4>1. FinishEvent(fd) => pc' # "exec"
        BY FinishFds
      <4>2. QED
        BY <1>8, <4>1 DEF daemon_ipc_con_in
    <3>3. ~InExec(d) /\ ~InExec(d)'
      BY <2>2, <3>1, <3>2 DEF InExec
    <3>4. QED
      BY <1>0, <3>1, <3>3, ReplySame
  <2>3. QED
    BY <2>1, <2>2
<1>9. CASE Executes
  <2>1. CASE d = conOf[cur.fd]
    BY <1>0, <1>9, <2>1, ReplyExecutes
  <2>2. CASE d # conOf[cur.fd]
    <3>1. ~InExec(d) /\ ~InExec(d)'
      BY <1>9, <2>2, FinishFds DEF Executes, InExec
    <3>2. /\ UNCHANGED <<cl, sent>> /\ tx'[d] = tx[d]
          /\ rx'[d] = rx[d] \/ rx'[d] = <<>>
      BY <1>0, <1>9, <2>2 DEF Executes, CloseAll
    <3>3. QED
      BY <1>0, <3>1, <3>2, ReplySame, ReplyClosed
  <2>3. QED
    BY <2>1, <2>2
<1>10. CASE daemon_ipc_con_close
  <2>1. ~InExec(d) /\ ~InExec(d)' /\ UNCHANGED <<cl, sent, tx>>
    BY <1>10 DEF daemon_ipc_con_close, InExec
  <2>2. rx'[d] = rx[d] \/ rx'[d] = <<>>
    BY <1>0, <1>10, CloseMoves
  <2>3. QED
    BY <1>0, <2>1, <2>2, ReplySame, ReplyClosed
<1>11. CASE daemon_ipc_cleanup
  <2>1. ~InExec(d)' /\ UNCHANGED <<cl, sent, tx>> /\ rx'[d] = <<>>
    BY <1>0, <1>11 DEF daemon_ipc_cleanup, InExec, CloseAll
  <2>2. QED
    BY <1>0, <2>1, ReplyClosed
<1>12. QED
  BY <1>0, <1>1, <1>2, <1>3, <1>4, <1>5, <1>6, <1>7, <1>8, <1>9, <1>10,
     <1>11, StepKinds

LEMMA ReplyInvHolds == Spec => []ReplyInv
<1>1. Init => ReplyInv
  BY DEF Init, ReplyInv, ReplyOf
<1>2. ServedInv /\ ServedInv' /\ ReplyInv /\ [Next]_vars => ReplyInv'
  BY NextReplyInv DEF ServedInv
<1>3. QED
  BY <1>1, <1>2, ServedInvHolds, PTL DEF Spec

(***************************************************************************)
(* liblcd_get_btn_state never reads the reply to another call, for any     *)
(* number of clients and requests and whatever the HAL and the sockets     *)
(* refuse.                                                                 *)
(***************************************************************************)
THEOREM RepliesMatch == Spec => []ReplyMatches
<1>1. ServedInv /\ ReplyInv => ReplyMatches
  <2> SUFFICES ASSUME ServedInv, ReplyInv, NEW c \in Conns \ NonReaders,
                      tx[c] # <<>>
               PROVE  /\ cl[c] \in {"await", "gone"}
                      /\ tx[c] = <<sent[c][Len(sent[c])].arg>>
                      /\ sent[c][Len(sent[c])].cmd = "get_btn_state"
    BY DEF ReplyMatches
  <2>1. ReplyOf(c) /\ cl[c] \in {"idle", "open", "await", "gone"}
    BY DEF ReplyInv, ServedInv, BaseInv, IndInv, TypeOK
  <2>2. QED
    BY <2>1 DEF ReplyOf, Awaiting, LastAsks, LastSent, Asks
<1>2. QED
  BY <1>1, ServedInvHolds, ReplyInvHolds, PTL

-----------------------------------------------------------------------------
(***************************************************************************)
(* Clients that write one request each.                                    *)
(***************************************************************************)
LEMMA NextOneWire ==
  ASSUME MaxSent = 1, Cuts = {}, "invalid" \notin CmdSet,
         BaseInv, BaseInv', OneWire, [Next]_vars
  PROVE  OneWire'
<1>0. /\ TypeOK /\ IndInv
      /\ rx \in [Conns -> Seq(Wire)] /\ sent \in [Conns -> Seq(Reqs)]
      /\ \A c \in Conns : Len(rx[c]) \in Nat /\ Len(sent[c]) \in Nat
  <2>1. /\ IndInv /\ TypeOK
        /\ rx \in [Conns -> Seq(Wire)] /\ sent \in [Conns -> Seq(Reqs)]
    BY DEF BaseInv, IndInv, TypeOK
  <2>2. \A c \in Conns : rx[c] \in Seq(Wire) /\ sent[c] \in Seq(Reqs)
    BY <2>1
  <2>3. QED
    BY <2>1, <2>2, LenProperties
<1>1. Parts = {}
  BY DEF Parts
<1>2. ASSUME UNCHANGED <<rx, sent, conOf, hups, pc, cur>> PROVE OneWire'
  BY <1>2 DEF OneWire
<1>3. ASSUME UNCHANGED sent, pc' \in {"wait", "loop", "stopped", "killed"},
             \A c \in Conns : rx'[c] = rx[c] \/ rx'[c] = <<>>
      PROVE  OneWire'
  <2>1. Len(<<>>) = 0
    OBVIOUS
  <2>2. \A c \in Conns : Len(rx'[c]) <= Len(sent'[c]) /\ Len(sent'[c]) <= 1
    BY <1>0, <1>3, <2>1 DEF OneWire
  <2>3. QED
    BY <1>3, <2>2 DEF OneWire
<1>4. ASSUME NEW c \in Conns, Connects(c) \/ Leaves(c) \/ GetReturn(c)
      PROVE  OneWire'
  BY <1>2, <1>4 DEF Connects, Leaves, GetReturn
<1>5. ASSUME NEW c \in Conns, NEW r \in WholeReqs,
             NEW next \in {"open", "await"}, Writes(c, r, next)
      PROVE  OneWire'
  <2> DEFINE w == [req |-> r, cut |-> "none"]
  <2>1. /\ rx[c] \in Seq(Wire) /\ sent[c] \in Seq(Reqs) /\ w \in Wire
        /\ r \in Reqs
    BY <1>0 DEF Wire, WholeReqs
  <2>2. Len(Append(rx[c], w)) = Len(rx[c]) + 1
    BY <2>1, QueueAppend
  <2>3. Len(Append(sent[c], r)) = Len(sent[c]) + 1
    BY <2>1, QueueAppend
  <2>4. /\ rx'[c] = Append(rx[c], w) /\ sent'[c] = Append(sent[c], r)
        /\ \A d \in Conns : d # c => rx'[d] = rx[d] /\ sent'[d] = sent[d]
        /\ Len(sent[c]) < 1 /\ cl[c] = "open"
        /\ UNCHANGED <<conOf, hups, pc, cur>>
    BY <1>0, <1>5 DEF Writes
  <2>5. /\ Len(rx'[c]) = Len(rx[c]) + 1
        /\ Len(sent'[c]) = Len(sent[c]) + 1 /\ Len(sent[c]) < 1
    BY <2>2, <2>3, <2>4
  <2>6. ASSUME NEW d \in Conns
        PROVE  Len(rx'[d]) <= Len(sent'[d]) /\ Len(sent'[d]) <= 1
    <3>1. CASE d = c
      BY <1>0, <2>5, <3>1 DEF OneWire
    <3>2. CASE d # c
      BY <2>4, <3>2 DEF OneWire
    <3>3. QED
      BY <3>1, <3>2
  <2>7. ASSUME pc \in {"exec", "hup"}, cur.fd \in hups
        PROVE  rx'[conOf[cur.fd]] = <<>>
    <3>1. conOf[cur.fd] \in Conns /\ cl[conOf[cur.fd]] = "gone"
      BY <2>7 DEF BaseInv, HupInv
    <3>2. QED
      BY <2>4, <2>7, <3>1 DEF OneWire
  <2>8. QED
    BY <2>4, <2>6, <2>7 DEF OneWire
<1>6. CASE GoesOn
  <2>1. CASE UNCHANGED <<pc, loopVars>>
    BY <1>2, <1>6, <2>1 DEF GoesOn
  <2>2. CASE epoll_wait \/ EndOfBatch
    BY <1>3, <1>6, <2>2 DEF GoesOn, epoll_wait, EndOfBatch
  <2>3. QED
    BY <1>6, <2>1, <2>2 DEF GoesOn
<1>7. CASE daemon_ipc_con_add
  <2>1. \A c \in Conns : rx'[c] = rx[c] \/ rx'[c] = <<>>
    BY <1>7, AcceptMoves
  <2>2. QED
    BY <1>3, <1>7, <2>1 DEF daemon_ipc_con_add
<1>8. ASSUME NEW fd \in Fds, daemon_ipc_con_in(fd) PROVE OneWire'
  <2> DEFINE c == conOf[fd]
  <2>1. c \in Conns /\ UNCHANGED <<sent, conOf, hups>>
    BY <1>8 DEF BaseInv, IndInv, TypeOK, LoopInv, daemon_ipc_con_in
  <2>2. /\ rx'[c] = <<>>
        /\ \A d \in Conns : d # c => rx'[d] = rx[d]
    <3>1. CASE rx[c] = <<>> /\ UNCHANGED rx
      BY <3>1
    <3>2. CASE rx[c] # <<>> /\ rx' = [rx EXCEPT ![c] = Tail(@)]
      <4>1. rx[c] \in Seq(Wire) /\ Len(rx[c]) <= 1
        BY <1>0, <2>1 DEF OneWire
      <4>2. Tail(rx[c]) \in Seq(Wire) /\ Len(Tail(rx[c])) = 0
        <5>1. /\ Len(rx[c]) \in Nat \ {0} /\ Len(Tail(rx[c])) = Len(rx[c]) - 1
              /\ Tail(rx[c]) \in Seq(Wire)
          BY <3>2, <4>1, QueueTail, TailType
        <5>2. \A n \in Nat \ {0} : n <= 1 => n - 1 = 0
          OBVIOUS
        <5>3. QED
          BY <4>1, <5>1, <5>2
      <4>3. Tail(rx[c]) = <<>>
        BY <4>2, EmptySeq
      <4>4. QED
        BY <1>0, <2>1, <3>2, <4>3
    <3>3. QED
      BY <1>8, <3>1, <3>2 DEF daemon_ipc_con_in
  <2>3. pc' \in {"exec", "hup"} => cur'.fd = fd
    <3>1. FinishEvent(fd) => pc' # "exec" /\ (pc' = "hup" => cur'.fd = fd)
      BY FinishFds
    <3>2. QED
      BY <1>8, <3>1 DEF daemon_ipc_con_in
  <2>4. \A d \in Conns : Len(rx'[d]) <= Len(sent[d]) /\ Len(sent[d]) <= 1
    <3>1. Len(<<>>) = 0
      OBVIOUS
    <3>2. QED
      BY <1>0, <2>2, <3>1 DEF OneWire
  <2>5. QED
    BY <2>1, <2>2, <2>3, <2>4 DEF OneWire
<1>9. CASE Executes
  <2>1. CASE FinishEvent(cur.fd) /\ UNCHANGED <<conOf, rx, hups>>
    <3>1. /\ pc' = IF cur.fd \in hups THEN "hup" ELSE "loop"
          /\ pc' = "hup" => cur'.fd = cur.fd
      BY <2>1, FinishFds
    <3>2. UNCHANGED sent /\ pc = "exec"
      BY <1>9 DEF Executes
    <3>3. QED
      BY <2>1, <3>1, <3>2 DEF OneWire
  <2>2. CASE pc' = "killed" /\ CloseAll
    BY <1>3, <1>9, <2>2 DEF Executes, CloseAll
  <2>3. QED
    BY <1>9, <2>1, <2>2 DEF Executes
<1>10. CASE daemon_ipc_con_close
  <2>1. \A c \in Conns : rx'[c] = rx[c] \/ rx'[c] = <<>>
    BY <1>10, CloseMoves
  <2>2. QED
    BY <1>3, <1>10, <2>1 DEF daemon_ipc_con_close
<1>11. CASE daemon_ipc_cleanup
  BY <1>3, <1>11 DEF daemon_ipc_cleanup, CloseAll
<1>12. QED
  BY <1>0, <1>1, <1>4, <1>5, <1>6, <1>7, <1>8, <1>9, <1>10, <1>11, StepKinds

(***************************************************************************)
(* When every client writes one whole request and leaves, as mmlcdctl      *)
(* does, no hang-up makes the daemon close a socket with a request still   *)
(* in it, however many clients there are and however events are batched.   *)
(***************************************************************************)
THEOREM CtlRequestsKept ==
  ASSUME MaxSent = 1, Cuts = {}, "invalid" \notin CmdSet
  PROVE  Spec => []NoRequestLost
<1>1. Init => OneWire
  <2>1. Len(<<>>) = 0
    OBVIOUS
  <2>2. QED
    BY <2>1 DEF Init, OneWire
<1>2. ServedInv /\ ServedInv' /\ OneWire /\ [Next]_vars => OneWire'
  BY NextOneWire DEF ServedInv
<1>3. ServedInv /\ OneWire => NoRequestLost
  BY DEF ServedInv, BaseInv, HupInv, OneWire, NoRequestLost
<1>4. QED
  BY <1>1, <1>2, <1>3, ServedInvHolds, PTL DEF Spec

-----------------------------------------------------------------------------
(***************************************************************************)
(* The order of clients that come after each other.  A batch that has room *)
(* for every descriptor takes all that are ready.                          *)
(***************************************************************************)
LEMMA FullBatch ==
  ASSUME MaxEvents > Cardinality(Fds), NEW b \in Batches
  PROVE  b = Ready
<1> DEFINE T == Fds \cup {ListenFd}
<1>1. /\ IsFiniteSet(Fds) /\ ListenFd \notin Fds /\ MaxEvents \in Nat
      /\ Cardinality(Fds) \in Nat
  BY DaemonAssumption, FS_CardinalityType
<1>2. IsFiniteSet(T) /\ Cardinality(T) = Cardinality(Fds) + 1
  BY <1>1, FS_AddElement
<1>3. b \subseteq Ready /\ Ready \subseteq T
  BY DEF Batches, Ready
<1>4. CASE Cardinality(b) = MaxEvents
  <2>1. /\ IsFiniteSet(b) /\ Cardinality(b) <= Cardinality(T)
        /\ Cardinality(b) = Cardinality(T) => b = T
    BY <1>2, <1>3, FS_Subset
  <2>2. Cardinality(b) = Cardinality(T)
    BY <1>1, <1>2, <1>4, <2>1
  <2>3. QED
    BY <1>3, <2>1, <2>2
<1>5. QED
  BY <1>4 DEF Batches

LEMMA OrderSame ==
  ASSUME NEW b, NEW c, OrderOf(b, c), UNCHANGED <<conOf, backlog, hups>>,
         cl'[b] = "gone", ListenFd \in events' => ListenFd \in events,
         Started(c)' => Started(c)
  PROVE  OrderOf(b, c)'
<1>1. /\ Linked(b)' <=> Linked(b)
      /\ Queued(c)' <=> Queued(c)
      /\ Accepted(b)' <=> Accepted(b)
  BY LinkFrame
<1>2. Pending(b)' <=> Pending(b)
  BY DEF Pending
<1>3. Ahead(b, c)'
  BY <1>1, <1>2 DEF OrderOf, Ahead
<1>4. QED
  BY <1>1, <1>3 DEF OrderOf

LEMMA OrderConnects ==
  ASSUME BaseInv, BaseInv', OrderInv, NEW e \in Conns, Connects(e),
         NEW c \in Conns, NEW b \in before'[c]
  PROVE  OrderOf(b, c)'
<1>0. /\ TypeOK /\ TypeOK' /\ IndInv /\ IndInv' /\ ConnInv /\ LoopInv
      /\ cl \in [Conns -> {"idle", "open", "await", "gone"}]
      /\ before \in [Conns -> SUBSET Conns] /\ backlog \in Seq(Conns)
      /\ cl[e] = "idle" /\ UNCHANGED <<conOf, events, hups, pc, cur, done>>
  BY DEF BaseInv, IndInv, TypeOK, Connects
<1>1. /\ Len(backlog') = Len(backlog) + 1 /\ Len(backlog) \in Nat
      /\ \A i \in 1 .. Len(backlog) : backlog'[i] = backlog[i]
      /\ backlog'[Len(backlog) + 1] = e
  BY <1>0, QueueAppend DEF Connects
<1>2. \A d \in Conns : Linked(d)' <=> Linked(d) \/ d = e
  BY <1>0, ConnConnect DEF Connects
<1>3. ~Linked(e) /\ ~Queued(e) /\ ~Accepted(e) /\ done[e] = <<>>
  BY <1>0, LinkedIs DEF ConnInv, Fresh
<1>4. (Accepted(b)' <=> Accepted(b)) /\ (Pending(b)' <=> Pending(b))
  BY <1>0 DEF Accepted, Pending
<1>5. ListenFd \in events' => Len(backlog) \in Nat \ {0}
  BY <1>0, <1>1, EmptySeq DEF LoopInv
<1>6. b \in Conns /\ cl[b] = "gone" /\ cl'[b] = "gone" /\ b # e
  <2>1. before'[c] = IF c = e THEN {d \in Conns : cl[d] = "gone"}
                     ELSE before[c]
    BY <1>0 DEF Connects
  <2>2. b \in Conns /\ cl[b] = "gone"
    BY <1>0, <2>1 DEF OrderInv, OrderOf, Ahead
  <2>3. QED
    BY <1>0, <2>2 DEF Connects
<1>7. Linked(b)' <=> Linked(b)
  BY <1>2, <1>6
<1>8. \A f \in Fds : conOf[f] # e
  BY <1>3 DEF Accepted
<1>9. \A i \in 1 .. Len(backlog) : backlog[i] # e
  BY <1>3 DEF Queued
<1>10. CASE c = e
  <2>1. ASSUME NEW j \in 1 .. Len(backlog'), backlog'[j] = c, Linked(b)'
        PROVE  Accepted(b)' \/ \E i \in 1 .. j - 1 : backlog'[i] = b
    <3>1. j = Len(backlog) + 1
      BY <1>1, <1>9, <1>10, <2>1
    <3>2. CASE Queued(b)
      BY <1>1, <3>1, <3>2 DEF Queued
    <3>3. QED
      BY <1>0, <1>4, <1>7, <2>1, <3>2, LinkedIs
  <2>2. ListenFd \in events' => backlog'[1] # c
    BY <1>1, <1>5, <1>9, <1>10
  <2>3. Queued(c)'
    BY <1>1, <1>10 DEF Queued
  <2>4. ~Started(c)'
    BY <1>0, <1>3, <1>8, <1>10 DEF Started
  <2>5. QED
    BY <1>6, <2>1, <2>2, <2>3, <2>4 DEF OrderOf, Ahead
<1>11. CASE c # e
  <2>1. OrderOf(b, c)
    BY <1>0, <1>11 DEF OrderInv, Connects
  <2>2. ASSUME NEW j \in 1 .. Len(backlog'), backlog'[j] = c, Linked(b)'
        PROVE  Accepted(b)' \/ \E i \in 1 .. j - 1 : backlog'[i] = b
    <3>1. j \in 1 .. Len(backlog) /\ backlog[j] = c
      BY <1>1, <1>11, <2>2
    <3>2. Accepted(b) \/ \E i \in 1 .. j - 1 : backlog[i] = b
      BY <1>7, <2>1, <2>2, <3>1 DEF OrderOf, Ahead
    <3>3. QED
      BY <1>1, <1>4, <3>1, <3>2
  <2>3. ListenFd \in events' => backlog'[1] = backlog[1]
    BY <1>1, <1>5
  <2>4. Queued(c) => Queued(c)'
    BY <1>1 DEF Queued
  <2>5. Started(c)' => Started(c)
    BY <1>0 DEF Started
  <2>6. QED
    BY <1>0, <1>4, <1>6, <1>7, <2>1, <2>2, <2>3, <2>4, <2>5
       DEF OrderOf, Ahead
<1>12. QED
  BY <1>10, <1>11

(* epoll_wait finds every hang-up there is.                                *)
LEMMA OrderPolls ==
  ASSUME MaxEvents > Cardinality(Fds), BaseInv, epoll_wait,
         NEW b \in Conns, NEW c \in Conns, OrderOf(b, c)
  PROVE  OrderOf(b, c)'
<1>0. /\ pc = "wait" /\ pc' = "loop" /\ cl'[b] = "gone"
      /\ UNCHANGED <<conOf, backlog, done>> /\ ConnInv
      /\ NoConn \notin Conns /\ events = {}
  BY DaemonAssumption
     DEF epoll_wait, OrderOf, Ahead, BaseInv, HupInv
<1>1. hups = {}
  BY <1>0 DEF BaseInv, HupInv
<1>2. /\ events' = Ready
      /\ hups' = {f \in Ready : HungUp(f)}
  BY FullBatch DEF epoll_wait
<1>3. /\ Linked(b)' <=> Linked(b)
      /\ Queued(c)' <=> Queued(c)
      /\ Accepted(b)' <=> Accepted(b)
  BY <1>0, LinkFrame
<1>4. Accepted(b) => Pending(b)'
  <2> SUFFICES ASSUME NEW f \in Fds, conOf[f] = b PROVE Pending(b)'
    BY DEF Accepted
  <2>1. HungUp(f) /\ f \in Ready
    BY <1>0 DEF HungUp, Ready, OrderOf, Ahead
  <2>2. f \in hups'
    BY <1>2, <2>1
  <2>3. QED
    BY <1>0, <2>2 DEF Pending
<1>5. ~Queued(c) => ~Linked(b)
  BY <1>1 DEF OrderOf, Ahead, Pending
<1>6. Started(c)' => ~Linked(b)
  <2>1. CASE done[c] # <<>>
    BY <2>1 DEF OrderOf, Started
  <2>2. ASSUME NEW f \in Fds, conOf[f] = c PROVE ~Linked(b)
    BY <1>0, <1>5, <2>2 DEF ConnInv, NotBoth
  <2>3. QED
    BY <1>0, <2>1, <2>2 DEF Started
<1>7. Ahead(b, c)'
  BY <1>0, <1>3, <1>4, <1>5 DEF OrderOf, Ahead
<1>8. QED
  BY <1>3, <1>6, <1>7 DEF OrderOf

(***************************************************************************)
(* accept comes to c only when b, ahead of it, has been accepted in an     *)
(* earlier batch, and the hang-up of b is in this one.                     *)
(***************************************************************************)
LEMMA OrderAccepts ==
  ASSUME BaseInv, BaseInv', daemon_ipc_con_add,
         NEW b \in Conns, NEW c \in Conns, OrderOf(b, c)
  PROVE  OrderOf(b, c)'
<1>0. /\ TypeOK /\ TypeOK' /\ IndInv /\ IndInv' /\ ConnInv /\ LoopInv
      /\ conOf \in [Fds -> Conns \cup {NoConn}] /\ backlog # <<>>
      /\ events' = events \ {ListenFd} /\ ListenFd \in events
      /\ UNCHANGED <<cl, hups, pc, cur, done>> /\ pc = "loop"
      /\ NoConn \notin Conns /\ hups \subseteq Fds
  BY DaemonAssumption DEF BaseInv, IndInv, TypeOK, LoopInv, daemon_ipc_con_add
<1>1. cl'[b] = "gone"
  BY <1>0 DEF OrderOf, Ahead
<1>2. CASE UNCHANGED <<conOf, backlog>>
  <2>1. Started(c)' => Started(c)
    BY <1>0, <1>2 DEF Started
  <2>2. QED
    BY <1>0, <1>1, <1>2, <2>1, OrderSame
<1>3. ASSUME backlog' = Tail(backlog),
             \A f \in Fds : conOf[f] # NoConn => conOf'[f] = conOf[f],
             \A f \in Fds : conOf'[f] = c /\ conOf[f] # c => f \notin events,
             b = Head(backlog) => Accepted(b)' \/ ~Linked(b)',
             Linked(b)' => Linked(b)
      PROVE  OrderOf(b, c)'
  <2>1. /\ Len(backlog) \in Nat \ {0} /\ Len(backlog') = Len(backlog) - 1
        /\ Head(backlog) = backlog[1]
        /\ \A i \in 1 .. Len(backlog) - 1 : backlog'[i] = backlog[i + 1]
        /\ \A d : Queued(d)' <=> Queued(d) /\ d # Head(backlog)
    BY <1>0, <1>3, Dequeue
  <2>2. Accepted(b) => Accepted(b)'
    BY <1>0, <1>3 DEF Accepted
  <2>3. Pending(b) => Pending(b)'
    BY <1>0, <1>3 DEF Pending
  <2>4. ASSUME NEW j \in 1 .. Len(backlog'), backlog'[j] = c, Linked(b)'
        PROVE  Accepted(b)' \/ \E i \in 1 .. j - 1 : backlog'[i] = b
    <3>1. j + 1 \in 1 .. Len(backlog) /\ backlog[j + 1] = c
      BY <2>1, <2>4
    <3>2. Accepted(b) \/ \E i \in 1 .. (j + 1) - 1 : backlog[i] = b
      BY <1>3, <2>4, <3>1 DEF OrderOf, Ahead
    <3>3. ASSUME NEW i \in 1 .. (j + 1) - 1, backlog[i] = b
          PROVE  Accepted(b)' \/ \E k \in 1 .. j - 1 : backlog'[k] = b
      <4>1. CASE i = 1
        BY <1>3, <2>1, <2>4, <3>3, <4>1
      <4>2. CASE i # 1
        <5>1. i - 1 \in 1 .. j - 1 /\ backlog'[i - 1] = b
          BY <2>1, <3>1, <3>3, <4>2
        <5>2. QED
          BY <5>1
      <4>3. QED
        BY <4>1, <4>2
    <3>4. QED
      BY <2>2, <3>2, <3>3
  <2>5. ASSUME ~Queued(c)', Linked(b)'
        PROVE  Pending(b)'
    <3>1. CASE ~Queued(c)
      BY <1>3, <2>3, <2>5, <3>1 DEF OrderOf, Ahead
    <3>2. CASE c = Head(backlog)
      <4>1. 1 \in 1 .. Len(backlog) /\ backlog[1] = c /\ Linked(b)
        BY <1>3, <2>1, <2>5, <3>2
      <4>2. Accepted(b) \/ \E i \in 1 .. 1 - 1 : backlog[i] = b
        BY <4>1 DEF OrderOf, Ahead
      <4>3. Accepted(b)
        BY <4>2
      <4>4. QED
        BY <1>0, <2>3, <4>1, <4>3 DEF OrderOf, Ahead
    <3>3. QED
      BY <2>1, <2>5, <3>1, <3>2
  <2>6. Started(c)' => Started(c)
    BY <1>0, <1>3 DEF Started
  <2>7. Ahead(b, c)'
    BY <1>0, <1>1, <2>4, <2>5 DEF Ahead
  <2>8. QED
    BY <1>3, <2>6, <2>7 DEF OrderOf
<1>4. CASE /\ \E fd \in FreeFds :
                conOf' = [conOf EXCEPT ![fd] = Head(backlog)]
           /\ backlog' = Tail(backlog) /\ UNCHANGED rx
  <2>1. PICK fd \in FreeFds : conOf' = [conOf EXCEPT ![fd] = Head(backlog)]
    BY <1>4
  <2>2. fd \in Fds /\ conOf[fd] = NoConn /\ fd \notin events
    BY <1>0, DaemonAssumption DEF FreeFds, LoopInv
  <2>3. \A f \in Fds : conOf'[f] = IF f = fd THEN Head(backlog) ELSE conOf[f]
    BY <1>0, <2>1, <2>2
  <2>4. Linked(b)' => Linked(b)
    BY <1>4, AcceptMoves
  <2>5. b = Head(backlog) => Accepted(b)'
    BY <2>2, <2>3 DEF Accepted
  <2>6. QED
    BY <1>3, <1>4, <2>2, <2>3, <2>4, <2>5
<1>5. CASE /\ rx' = [rx EXCEPT ![Head(backlog)] = <<>>]
           /\ backlog' = Tail(backlog) /\ UNCHANGED conOf
  <2>1. Linked(b)' <=> Linked(b) /\ b # Head(backlog)
    BY <1>0, <1>5, ConnRefused DEF daemon_ipc_con_add
  <2>2. QED
    BY <1>3, <1>5, <2>1
<1>6. QED
  BY <1>2, <1>4, <1>5 DEF daemon_ipc_con_add

LEMMA OrderCloses ==
  ASSUME BaseInv, BaseInv', daemon_ipc_con_close,
         NEW b \in Conns, NEW c \in Conns, OrderOf(b, c)
  PROVE  OrderOf(b, c)'
<1>0. /\ conOf \in [Fds -> Conns \cup {NoConn}] /\ hups \subseteq Fds
      /\ cur.fd \in Fds /\ NoConn \notin Conns /\ pc' = "loop"
      /\ UNCHANGED <<backlog, cl, events, done>> /\ hups' = hups \ {cur.fd}
  BY DaemonAssumption
     DEF BaseInv, IndInv, TypeOK, LoopInv, daemon_ipc_con_close
<1>1. \A f \in Fds : conOf'[f] = IF f = cur.fd THEN NoConn ELSE conOf[f]
  BY <1>0 DEF daemon_ipc_con_close
<1>2. Linked(b)' => Linked(b) /\ b # conOf[cur.fd]
  BY CloseMoves
<1>3. Accepted(b)' => Accepted(b) /\ b # conOf[cur.fd]
  <2>1. Accepted(b)' => Linked(b)'
    BY DEF Linked, Accepted
  <2>2. QED
    BY <1>0, <1>1, <1>2, <2>1 DEF Accepted
<1>4. b # conOf[cur.fd] => (Accepted(b) => Accepted(b)')
  BY <1>1 DEF Accepted
<1>5. b # conOf[cur.fd] => (Pending(b) => Pending(b)')
  BY <1>0, <1>1 DEF Pending
<1>6. Queued(c)' <=> Queued(c)
  BY <1>0 DEF Queued
<1>7. Started(c)' => Started(c)
  BY <1>0, <1>1 DEF Started
<1>8. Ahead(b, c)'
  BY <1>0, <1>2, <1>3, <1>4, <1>5, <1>6 DEF OrderOf, Ahead
<1>9. QED
  BY <1>2, <1>7, <1>8 DEF OrderOf

LEMMA OrderEnds ==
  ASSUME NEW b \in Conns, NEW c \in Conns, OrderOf(b, c), CloseAll,
         ~Linked(b)', UNCHANGED cl
  PROVE  OrderOf(b, c)'
BY DEF OrderOf, Ahead, CloseAll

LEMMA NextOrderInv ==
  ASSUME MaxEvents > Cardinality(Fds), BaseInv, BaseInv', OrderInv,
         [Next]_vars
  PROVE  OrderInv'
<1> SUFFICES ASSUME NEW c \in Conns, NEW b \in before'[c]
             PROVE  OrderOf(b, c)'
  BY DEF OrderInv
<1>0. /\ TypeOK /\ IndInv /\ IndInv' /\ ConnInv
      /\ cl \in [Conns -> {"idle", "open", "await", "gone"}]
      /\ before \in [Conns -> SUBSET Conns]
      /\ done \in [Conns -> Seq(Reqs)]
  BY DEF BaseInv, IndInv, TypeOK
<1>1. ASSUME NEW e \in Conns, Connects(e) PROVE OrderOf(b, c)'
  BY <1>1, OrderConnects
<1>2. ASSUME UNCHANGED before
      PROVE  b \in Conns /\ OrderOf(b, c) /\ cl[b] = "gone"
  BY <1>0, <1>2 DEF OrderInv, OrderOf, Ahead
<1>3. ASSUME UNCHANGED <<before, conOf, backlog, loopVars, pc, cur, done>>,
             cl[b] = "gone" => cl'[b] = "gone"
      PROVE  OrderOf(b, c)'
  <2>1. Started(c)' <=> Started(c)
    BY <1>3 DEF Started
  <2>2. QED
    BY <1>2, <1>3, <2>1, OrderSame
<1>4. ASSUME NEW e \in Conns, Leaves(e) PROVE OrderOf(b, c)'
  BY <1>0, <1>2, <1>3, <1>4 DEF Leaves
<1>5. ASSUME NEW e \in Conns, NEW r \in WholeReqs,
             NEW next \in {"open", "await"}, Writes(e, r, next)
      PROVE  OrderOf(b, c)'
  BY <1>0, <1>2, <1>3, <1>5 DEF Writes
<1>6. ASSUME NEW e \in Conns, GetReturn(e) PROVE OrderOf(b, c)'
  BY <1>0, <1>2, <1>3, <1>6 DEF GetReturn
<1>7. ASSUME NEW e \in Conns, NEW w \in Parts,
             NEW next \in {"open", "gone"}, Puts(e, w, next)
      PROVE  OrderOf(b, c)'
  BY <1>0, <1>2, <1>3, <1>7 DEF Puts
<1>8. CASE GoesOn
  <2>1. CASE epoll_wait
    BY <1>2, <1>8, <2>1, OrderPolls DEF GoesOn
  <2>2. CASE EndOfBatch
    <3>1. Started(c)' => Started(c)
      BY <2>2 DEF EndOfBatch, Started
    <3>2. QED
      BY <1>2, <2>2, <3>1, OrderSame DEF EndOfBatch
  <2>3. CASE UNCHANGED <<pc, loopVars>>
    BY <1>3, <1>8, <2>3 DEF GoesOn
  <2>4. QED
    BY <1>8, <2>1, <2>2, <2>3 DEF GoesOn
<1>9. CASE daemon_ipc_con_add
  BY <1>2, <1>9, OrderAccepts DEF daemon_ipc_con_add
<1>10. ASSUME NEW fd \in Fds, daemon_ipc_con_in(fd) PROVE OrderOf(b, c)'
  <2>1. /\ fd \in events /\ events' = events \ {fd} /\ pc = "loop"
        /\ UNCHANGED <<before, conOf, backlog, hups, cl, done>>
    BY <1>10 DEF daemon_ipc_con_in
  <2>2. pc' \in {"exec", "hup"} => cur'.fd = fd
    <3>1. FinishEvent(fd) => pc' # "exec" /\ (pc' = "hup" => cur'.fd = fd)
      BY FinishFds
    <3>2. QED
      BY <1>10, <3>1 DEF daemon_ipc_con_in
  <2>3. Started(c)' => Started(c)
    BY <2>1, <2>2 DEF Started
  <2>4. QED
    BY <1>2, <2>1, <2>3, OrderSame
<1>11. CASE Executes
  <2>1. UNCHANGED <<before, cl>> /\ pc = "exec"
    BY <1>11 DEF Executes
  <2>2. CASE /\ FinishEvent(cur.fd)
             /\ UNCHANGED <<conOf, backlog, loopVars>>
    <3>1. cur.fd \in Fds /\ conOf[cur.fd] \in Conns
      BY <1>0, <2>1, ExecConn
    <3>2. done'[c] # <<>> => done[c] # <<>> \/ c = conOf[cur.fd]
      BY <1>0, <1>11, <3>1 DEF Executes
    <3>3. pc' \in {"exec", "hup"} => cur'.fd = cur.fd
      BY <2>2, FinishFds
    <3>4. Started(c)' => Started(c)
      BY <2>1, <2>2, <3>1, <3>2, <3>3 DEF Started
    <3>5. QED
      BY <1>2, <2>1, <2>2, <3>4, OrderSame
  <2>3. CASE CloseAll
    <3>1. \A e \in Conns : cl[e] = "idle" => done'[e] = done[e]
      <4>1. Linked(conOf[cur.fd])
        BY <1>0, <2>1, ExecConn
      <4>2. QED
        BY <1>0, <1>11, <4>1 DEF Executes, ConnInv, Fresh
    <3>2. ~Linked(b)'
      BY <1>0, <1>2, <1>11, <2>1, <2>3, <3>1, ConnCloseAll DEF Executes
    <3>3. QED
      BY <1>2, <2>1, <2>3, <3>2, OrderEnds
  <2>4. QED
    BY <1>11, <2>2, <2>3 DEF Executes
<1>12. CASE daemon_ipc_con_close
  BY <1>2, <1>12, OrderCloses DEF daemon_ipc_con_close
<1>13. CASE daemon_ipc_cleanup
  <2>1. UNCHANGED <<before, cl>> /\ CloseAll
    BY <1>13 DEF daemon_ipc_cleanup
  <2>2. ~Linked(b)'
    BY <1>2, <1>13, <2>1, CleanupMoves
  <2>3. QED
    BY <1>2, <2>1, <2>2, OrderEnds
<1>14. QED
  BY <1>0, <1>1, <1>4, <1>5, <1>6, <1>7, <1>8, <1>9, <1>10, <1>11, <1>12,
     <1>13, StepKinds

(***************************************************************************)
(* Programs run one after the other are served in that order, for any      *)
(* number of them, as long as one call of epoll_wait has room for every    *)
(* descriptor: a client that was gone when another connected is finished   *)
(* with before the first request of the other is looked at.                *)
(***************************************************************************)
THEOREM ServesInOrder ==
  ASSUME MaxEvents > Cardinality(Fds)
  PROVE  Spec => SequentialOrder
<1> DEFINE Kept == \A c \in Conns : \A b \in before[c] :
                     done[c] # <<>> => done'[b] = done[b]
<1>1. Init => OrderInv
  BY DEF Init, OrderInv
<1>2. ServedInv /\ ServedInv' /\ OrderInv /\ [Next]_vars => OrderInv'
  BY NextOrderInv DEF ServedInv
<1>3. ASSUME ServedInv, OrderInv, [Next]_vars
      PROVE  [Kept]_vars
  <2>1. SUFFICES ASSUME NEW c \in Conns, NEW b \in before[c], done[c] # <<>>
                 PROVE  done'[b] = done[b]
    OBVIOUS
  <2>2. ~Linked(b)
    BY <1>3, <2>1 DEF OrderInv, OrderOf, Started
  <2>3. /\ IndInv /\ TypeOK /\ done \in [Conns -> Seq(Reqs)] /\ b \in Conns
    BY <1>3 DEF ServedInv, BaseInv, IndInv, TypeOK
  <2>4. CASE Executes
    <3>1. Linked(conOf[cur.fd]) /\ conOf[cur.fd] \in Conns
      BY <2>3, <2>4, ExecConn DEF Executes
    <3>2. QED
      BY <2>2, <2>3, <2>4, <3>1 DEF Executes
  <2>5. CASE UNCHANGED done
    BY <2>5
  <2>6. Executes \/ UNCHANGED done
    BY <1>3, <2>3, StepKinds
       DEF Connects, Leaves, Writes, GetReturn, Puts, GoesOn,
           daemon_ipc_con_add, daemon_ipc_con_in, daemon_ipc_con_close,
           daemon_ipc_cleanup
  <2>7. QED
    BY <2>4, <2>5, <2>6
<1>4. QED
  BY <1>1, <1>2, <1>3, ServedInvHolds, PTL DEF Spec, SequentialOrder
=============================================================================
