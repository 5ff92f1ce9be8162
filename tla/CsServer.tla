----------------------------- MODULE CsServer -----------------------------
(***************************************************************************)
(* The older server of cs/: a main thread accepts and hands a descriptor   *)
(* to a worker through a queue and a byte in the worker's pipe; a worker   *)
(* has an event loop of its own and drives each connection through         *)
(* kConnCmd, kConnWait, kConnRead and kConnWrite.  Readiness is level      *)
(* triggered.  Connections are numbered, descriptors are used again.       *)
(*                                                                         *)
(* A request on the wire is CsHead parts of head, which give the length,   *)
(* and as many parts of body; the client sends its requests one after the  *)
(* other without waiting, in pieces, and may close.                        *)
(***************************************************************************)
EXTENDS Integers, Sequences, FiniteSets, SequencesExt

CONSTANTS CsWorkers, CsMaxConns, CsFds, CsMaxReqs,
          CsHead,      \* kHeadLen, in parts
          CsLens,      \* the lengths of the bodies a client may send, as sequences
          CsPipeCap    \* bytes a pipe holds

ASSUME CsAssumption == /\ CsMaxConns \in Nat /\ CsMaxReqs \in Nat
                       /\ CsLens \subseteq [1..CsMaxReqs -> Nat]
                       /\ CsHead \in Nat \ {0} /\ CsPipeCap \in Nat \ {0}
                       /\ 0 \notin CsFds

CsConns == 1..CsMaxConns
CsReqs == 1..CsMaxReqs
NoConn == [fd |-> 0, state |-> "none", left |-> 0, content |-> <<>>]

VARIABLES csFd,      \* the descriptor of a connection, 0 before accept and after close
          csWire,    \* the parts sent and not yet read
          csSent,    \* <<request, part>> last sent
          csLen,     \* the lengths of the requests
          csGone,    \* connections the client has closed
          csAccepted,
          csAnswers, \* per connection, the bodies that were answered
          csQueue, csPipe,  \* per worker: cli_fds_, bytes in the pipe
          csLoop,    \* per worker: the connections its epoll set watches
          csActions, \* per worker: the descriptors of actions_
          csMap,     \* per worker: conns_, a connection's state by descriptor
          csClosing  \* per worker: the descriptor closed but not yet erased, or 0

csVars == <<csFd, csWire, csSent, csLen, csGone, csAccepted, csAnswers, csQueue, csPipe,
            csLoop, csActions, csMap, csClosing>>
csClient == <<csSent, csLen, csGone, csAccepted>>

CsInit == /\ csFd = [c \in CsConns |-> 0]
          /\ csWire = [c \in CsConns |-> <<>>]
          /\ csSent = [c \in CsConns |-> <<0, 0>>]
          /\ csLen \in CsLens
          /\ csGone = {} /\ csAccepted = 0
          /\ csAnswers = [c \in CsConns |-> <<>>]
          /\ csQueue = [w \in CsWorkers |-> <<>>] /\ csPipe = [w \in CsWorkers |-> 0]
          /\ csLoop = [w \in CsWorkers |-> {}] /\ csActions = [w \in CsWorkers |-> {}]
          /\ csMap = [w \in CsWorkers |-> [f \in CsFds |-> NoConn]]
          /\ csClosing = [w \in CsWorkers |-> 0]

-----------------------------------------------------------------------------
\* The client: the next part of its stream, or the end of it.
Length(k) == IF k = 0 THEN 0 ELSE CsHead + csLen[k]
NextPart(c) == LET k == csSent[c][1] IN IF csSent[c][2] < Length(k) THEN <<k, csSent[c][2] + 1>>
                                        ELSE <<k + 1, 1>>
Send(c) == /\ csFd[c] # 0 /\ c \notin csGone
           /\ NextPart(c)[1] \in CsReqs
           /\ csSent' = [csSent EXCEPT ![c] = NextPart(c)]
           /\ csWire' = [csWire EXCEPT ![c] = Append(@, NextPart(c))]
           /\ UNCHANGED <<csFd, csLen, csGone, csAccepted, csAnswers, csQueue, csPipe, csLoop,
                          csActions, csMap, csClosing>>
Leave(c) == /\ csFd[c] # 0 /\ c \notin csGone
            /\ csGone' = csGone \cup {c}
            /\ UNCHANGED <<csFd, csWire, csSent, csLen, csAccepted, csAnswers, csQueue, csPipe,
                           csLoop, csActions, csMap, csClosing>>

-----------------------------------------------------------------------------
\* AcceptEventInternalAction and AddClientFdAndNotify: a worker is drawn, the
\* descriptor is queued first, and a byte that does not fit in the pipe is dropped.
AddClientFdAndNotify_LosesFd(w, c) ==
    /\ csQueue' = IF csPipe[w] < CsPipeCap THEN [csQueue EXCEPT ![w] = Append(@, c)] ELSE csQueue
    /\ csPipe' = [csPipe EXCEPT ![w] = IF @ < CsPipeCap THEN @ + 1 ELSE @]
AddClientFdAndNotify(w, c) ==
    /\ csQueue' = [csQueue EXCEPT ![w] = Append(@, c)]
    /\ csPipe' = [csPipe EXCEPT ![w] = IF @ < CsPipeCap THEN @ + 1 ELSE @]
AcceptEvent(w, fd) ==
    /\ csAccepted < CsMaxConns
    /\ \A c \in CsConns : csFd[c] # fd
    /\ csAccepted' = csAccepted + 1
    /\ csFd' = [csFd EXCEPT ![csAccepted + 1] = fd]
    /\ AddClientFdAndNotify(w, csAccepted + 1)
    /\ UNCHANGED <<csWire, csSent, csLen, csGone, csAnswers, csLoop, csActions, csMap, csClosing>>

\* NotifyEventInternalAction: one byte is read, the whole queue is taken over.
NotifyEvent(w) ==
    /\ csPipe[w] > 0 /\ csClosing[w] = 0
    /\ csPipe' = [csPipe EXCEPT ![w] = @ - 1]
    /\ csQueue' = [csQueue EXCEPT ![w] = <<>>]
    /\ LET fds == {csFd[c] : c \in ToSet(csQueue[w])}
       IN  /\ csLoop' = [csLoop EXCEPT ![w] = @ \cup ToSet(csQueue[w])]
           /\ csActions' = [csActions EXCEPT ![w] = @ \cup fds]
           /\ csMap' = [csMap EXCEPT ![w] = [f \in CsFds |->
                           IF f \in fds /\ @[f] = NoConn
                           THEN [NoConn EXCEPT !.fd = f, !.state = "kConnCmd"] ELSE @[f]]]
    /\ UNCHANGED <<csFd, csWire, csAnswers, csClosing>> /\ UNCHANGED csClient

\* CloseConn closes the descriptor first: the kernel forgets it, and the main thread
\* may get it again before conns_ is erased.
CloseConn(w, c) ==
    /\ csClosing' = [csClosing EXCEPT ![w] = csFd[c]]
    /\ csFd' = [csFd EXCEPT ![c] = 0]
    /\ csLoop' = [csLoop EXCEPT ![w] = @ \ {c}]
\* EventLoop::Del of a descriptor that the epoll set does not know fails, and then
\* actions_ keeps it; it does know it when the descriptor was registered again.
EraseConn(w) ==
    /\ csClosing[w] # 0
    /\ csMap' = [csMap EXCEPT ![w][csClosing[w]] = NoConn]
    /\ LET again == {c \in csLoop[w] : csFd[c] = csClosing[w]}
       IN  /\ csLoop' = [csLoop EXCEPT ![w] = @ \ again]
           /\ csActions' = [csActions EXCEPT ![w] = IF again = {} THEN @ ELSE @ \ {csClosing[w]}]
    /\ csClosing' = [csClosing EXCEPT ![w] = 0]
    /\ UNCHANGED <<csFd, csWire, csAnswers, csQueue, csPipe>> /\ UNCHANGED csClient

-----------------------------------------------------------------------------
\* What the handler's read loop gets: all that is there, up to what it wants.
Want(conn) == IF conn.state = "kConnCmd" THEN CsHead ELSE conn.left
Available(c, n) == IF n < Len(csWire[c]) THEN n ELSE Len(csWire[c])
Take(c, n) == SubSeq(csWire[c], 1, Available(c, n))

\* kConnCmd and kConnWait: a head in pieces is collected, then decoded.
HeadRead_Restarts(conn, parts) ==
    IF Len(parts) < Want(conn)
      THEN [conn EXCEPT !.content = parts, !.left = Want(conn) - Len(parts), !.state = "kConnCmd"]
      ELSE [conn EXCEPT !.content = <<>>, !.left = csLen[Head(parts)[1]], !.state = "kConnRead"]
HeadRead(conn, parts) ==
    LET had == IF conn.state = "kConnCmd" THEN <<>> ELSE conn.content
    IN  IF Len(parts) < Want(conn)
          THEN [conn EXCEPT !.content = had \o parts, !.left = Want(conn) - Len(parts),
                            !.state = "kConnWait"]
          ELSE [conn EXCEPT !.content = <<>>, !.left = csLen[Head(had \o parts)[1]],
                            !.state = "kConnRead"]

\* The request is complete: it is answered, by the action or with the flow
\* restriction, whichever LoadCtrl says.
Reply(conn) == [conn EXCEPT !.left = 1, !.state = "kConnWrite"]
BodyRead(conn, parts) ==
    LET next == [conn EXCEPT !.content = @ \o parts, !.left = @ - Len(parts)]
    IN  IF next.left = 0 THEN Reply(next) ELSE next

\* A readable event of a connection.  When fewer parts came than wanted the loop ends
\* with EAGAIN, or, after the client's end of the stream, with CloseConn.
ReadEvent(w, c) ==
    LET fd == csFd[c]
        conn == csMap[w][fd]
        parts == Take(c, Want(conn))
        next == IF conn.state = "kConnRead" THEN BodyRead(conn, parts) ELSE HeadRead(conn, parts)
        closes == Len(parts) < Want(conn) /\ c \in csGone
    IN  /\ csClosing[w] = 0 /\ c \in csLoop[w]
        /\ conn.state \in {"kConnCmd", "kConnWait", "kConnRead"}
        /\ csWire[c] # <<>> \/ c \in csGone
        /\ csWire' = [csWire EXCEPT ![c] = SubSeq(@, Len(parts) + 1, Len(@))]
        /\ IF closes THEN CloseConn(w, c) ELSE UNCHANGED <<csClosing, csFd, csLoop>>
        /\ csMap' = [csMap EXCEPT ![w][fd] = next]
        /\ csAnswers' = [csAnswers EXCEPT ![c] = IF next.state = "kConnWrite"
                                                 THEN Append(@, next.content) ELSE @]
        /\ UNCHANGED <<csQueue, csPipe, csActions>> /\ UNCHANGED csClient

\* A writable event: the answer goes out, or the client is gone.
WriteEvent(w, c) ==
    LET fd == csFd[c]
    IN  /\ csClosing[w] = 0 /\ c \in csLoop[w]
        /\ csMap[w][fd].state = "kConnWrite"
        /\ \/ /\ csMap' = [csMap EXCEPT ![w][fd] = [@ EXCEPT !.state = "kConnCmd", !.left = 0,
                                                            !.content = <<>>]]
              /\ UNCHANGED <<csClosing, csFd, csLoop>>
           \/ c \in csGone /\ CloseConn(w, c) /\ UNCHANGED csMap
        /\ UNCHANGED <<csWire, csAnswers, csQueue, csPipe, csActions>> /\ UNCHANGED csClient

CsWorkerNext(w) == NotifyEvent(w) \/ EraseConn(w)
                   \/ \E c \in CsConns : ReadEvent(w, c) \/ WriteEvent(w, c)
CsNext == \/ \E c \in CsConns : Send(c) \/ Leave(c)
          \/ \E w \in CsWorkers, fd \in CsFds : AcceptEvent(w, fd)
          \/ \E w \in CsWorkers : CsWorkerNext(w)

\* A worker's loop never stops, and epoll reports a descriptor that stays ready.
CsFairness == \A w \in CsWorkers :
                 /\ WF_csVars(NotifyEvent(w)) /\ WF_csVars(EraseConn(w))
                 /\ \A c \in CsConns : WF_csVars(ReadEvent(w, c)) /\ WF_csVars(WriteEvent(w, c))
CsSpec == CsInit /\ [][CsNext]_csVars /\ CsFairness

-----------------------------------------------------------------------------
CsConnStates == {"none", "kConnCmd", "kConnWait", "kConnRead", "kConnWrite"}

\* Every variable keeps its type.
CsTypeOK ==
    /\ csFd \in [CsConns -> CsFds \cup {0}]
    /\ csGone \subseteq CsConns /\ csAccepted \in 0..CsMaxConns
    /\ csPipe \in [CsWorkers -> 0..CsPipeCap]
    /\ csLoop \in [CsWorkers -> SUBSET CsConns] /\ csActions \in [CsWorkers -> SUBSET CsFds]
    /\ \A w \in CsWorkers, f \in CsFds : /\ csMap[w][f].state \in CsConnStates
                                         /\ csMap[w][f].left \in Nat
    /\ csClosing \in [CsWorkers -> CsFds \cup {0}]

\* The requests of a connection are answered in their order, each once and each from
\* exactly its own body, however the stream is cut into reads and although a
\* descriptor is closed by one thread while another may get it again.
AnswersInOrder ==
    /\ CsTypeOK
    /\ \A c \in CsConns : \A i \in 1..Len(csAnswers[c]) :
          /\ i \in CsReqs
          /\ csAnswers[c][i] = [j \in 1..csLen[i] |-> <<i, CsHead + j>>]

\* A request with a body that has arrived whole is answered in the end, unless the
\* client leaves: no accepted descriptor is lost when the pipe is full, and no part
\* that has arrived is waited for.
Arrived(c, k) == csSent[c][1] > k \/ csSent[c] = <<k, Length(k)>>
RequestAnswered ==
    \A c \in CsConns, k \in CsReqs :
        [](Arrived(c, k) /\ csLen[k] > 0 => <>(Len(csAnswers[c]) >= k \/ c \in csGone))

-----------------------------------------------------------------------------
\* What does not hold: a request without a body is only answered when something more
\* arrives, because kConnRead is entered and left on a readable event.
EmptyAnswered ==
    \A c \in CsConns, k \in CsReqs :
        [](Arrived(c, k) => <>(Len(csAnswers[c]) >= k \/ c \in csGone))

=============================================================================
