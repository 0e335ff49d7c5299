--------------------------- MODULE CommandService ---------------------------
(***************************************************************************)
(* What the mmlcd daemon promises its clients, without sockets, events or  *)
(* descriptors: a session's requests are executed at most once, unaltered  *)
(* and in the order they were submitted, and a session that its client     *)
(* still holds open ends only with the service as a whole.                 *)
(***************************************************************************)
EXTENDS Naturals, Sequences

CONSTANTS Conns, Reqs

VARIABLES
  up,       \* is the service running?
  session,  \* "new", "open" or "over"
  held,     \* does the client still hold its end?
  sent,     \* requests submitted
  done      \* requests executed

svars == <<up, session, held, sent, done>>

SInit ==
  /\ up = TRUE
  /\ session = [c \in Conns |-> "new"]
  /\ held = [c \in Conns |-> TRUE]
  /\ sent = [c \in Conns |-> <<>>]
  /\ done = [c \in Conns |-> <<>>]

Open(c) ==
  /\ up /\ session[c] = "new" /\ held[c]
  /\ session' = [session EXCEPT ![c] = "open"]
  /\ UNCHANGED <<up, held, sent, done>>

Submit(c, r) ==
  /\ session[c] = "open" /\ held[c]
  /\ sent' = [sent EXCEPT ![c] = Append(@, r)]
  /\ UNCHANGED <<up, session, held, done>>

(* The client closes its end, dies, or finds the service down.             *)
Leave(c) ==
  /\ held[c]
  /\ held' = [held EXCEPT ![c] = FALSE]
  /\ session' = [session EXCEPT ![c] = IF @ = "new" THEN "over" ELSE @]
  /\ UNCHANGED <<up, sent, done>>

ExecuteNext(c) ==
  /\ session[c] = "open" /\ Len(done[c]) < Len(sent[c])
  /\ done' = [done EXCEPT ![c] = Append(@, sent[c][Len(@) + 1])]

Execute(c) == ExecuteNext(c) /\ UNCHANGED <<up, session, held, sent>>

(* Only the session of a client that has left is ended on its own.         *)
EndSession(c) ==
  /\ session[c] = "open" /\ ~held[c]
  /\ session' = [session EXCEPT ![c] = "over"]
  /\ UNCHANGED <<up, held, sent, done>>

(* The service stops, or dies while it executes a request.                 *)
ShutDown ==
  /\ up /\ up' = FALSE
  /\ session' = [c \in Conns |->
                   IF session[c] = "open" THEN "over" ELSE session[c]]
  /\ UNCHANGED done \/ \E c \in Conns : ExecuteNext(c)
  /\ UNCHANGED <<held, sent>>

SNext ==
  \/ \E c \in Conns : Open(c) \/ Leave(c) \/ Execute(c) \/ EndSession(c)
  \/ \E c \in Conns, r \in Reqs : Submit(c, r)
  \/ ShutDown

SSpec == SInit /\ [][SNext]_svars
=============================================================================
