----------------------------- MODULE RpcServer -----------------------------
(***************************************************************************)
(* The RPC server of sock/rpc_server.cc: the accepting main thread, the    *)
(* ConnWorker threads that own the client sockets and the RealWorker       *)
(* threads that run the business callback.  Threads hand work to each      *)
(* other through a deque under a mutex and one byte in a non-blocking pipe *)
(* (AddClientFdAndNotify, AddOneDataBlockAndNotify, AddResponseAndNotify). *)
(*                                                                         *)
(* What is kept: who owns a descriptor, the kernel's reuse of descriptor   *)
(* numbers, the connection ids, the three queues with their pipes (which   *)
(* may be full), the event loop of a ConnWorker (which thread step may be  *)
(* interrupted where), partial packets and partial writes.  Abstracted: a  *)
(* request is the pair <<connection, number>> that produced it, sent in    *)
(* two halves so that packets can be split between two reads; the answer   *)
(* to a request carries that pair.  Events are level triggered, as epoll   *)
(* and poll are used here, so the readiness of a descriptor is a state     *)
(* predicate and not a queue.                                              *)
(***************************************************************************)
EXTENDS Integers, Sequences, FiniteSets

CONSTANTS
  Conns,       \* client connections, each made once
  Fds,         \* descriptor numbers the kernel hands out
  ConnWorkers,
  RealWorkers,
  MaxReq,      \* bound: requests a client sends on a connection
  PipeCap,     \* bytes a notification pipe holds
  NoConn, NoFd

ASSUME BoundsAssumption == MaxReq \in Nat /\ PipeCap \in Nat \ {0}
ASSUME FdsAssumption == NoFd \notin Fds

VARIABLES
  fdConn,   \* kernel: the connection an open server descriptor belongs to
  client,   \* client end: "new", "open" or "closed"
  sent,     \* halves of requests the client wrote
  taken,    \* halves the server read from the socket
  got,      \* answers that reached the client
  accepted, \* main thread: descriptor accepted and not handed over yet
  cliFds,   \* ConnWorker::cli_fds_
  cliTok,   \* bytes in ConnWorker::notify_fds_
  conns,    \* ConnWorker::conns_
  uniqueId, \* ConnWorker::unique_id_
  respQ,    \* ConnWorker::resp_data_blocks_
  respTok,  \* bytes in ConnWorker::data_notify_fds_
  cpc,      \* control state of a ConnWorker
  ccur,     \* descriptor whose event a ConnWorker handles
  cbatch,   \* responses moved out of resp_data_blocks_
  reqQ,     \* RealWorker::request_data_blocks_
  reqTok,   \* bytes in RealWorker::notify_fds_
  rpc,      \* control state of a RealWorker
  rbatch,   \* requests moved out of request_data_blocks_
  refused   \* requests the RealWorker ended without an answer

kernelVars == <<fdConn, client, sent, taken, got>>
cliVars == <<accepted, cliFds, cliTok>>
connVars == <<conns, uniqueId>>
respVars == <<respQ, respTok>>
loopVars == <<cpc, ccur, cbatch>>
realVars == <<reqQ, reqTok, rpc, rbatch, refused>>
vars == <<kernelVars, cliVars, connVars, respVars, loopVars, realVars>>

Request == Conns \X (1..MaxReq)

\* OneDataBlock: real_data (abstracted to the request it came from), id, fd
\* and conn_worker.
OneDataBlock == [real_data : Request, id : Nat, fd : Fds, worker : ConnWorkers]

\* TcpConn; out says whether EV_OUT is registered for the descriptor.
TcpConn == [id : Nat, req_content : Seq(Request), rsp_content : Seq(Request),
            out : BOOLEAN]

ASSUME NoConnAssumption == NoConn \notin Conns /\ NoConn \notin TcpConn

\* A thread of a ConnWorker is in its event loop or in one of the handlers:
\*   "cli", "adding"     NotifyEventInternalAction before and under mu_
\*   "dispatch"          ClientEventInInternalAction after its read
\*   "closing"           CloseConn between close(fd) and erase(fd), under mu_
\*   "resp", "respond"   RespDataNotifyEventInternalAction before and after
\*                       the queue is moved
ConnPC == {"loop", "cli", "adding", "dispatch", "closing", "resp", "respond"}
\*   "woken", "work"     RealWorker::NotifyEventInternalAction, the same
RealPC == {"loop", "woken", "work"}

-----------------------------------------------------------------------------
\* Helpers

\* write() of one byte to a non-blocking pipe; a full pipe leaves it as it is
\* (the EAGAIN is only logged).
NotifyByte(tok) == IF tok < PipeCap THEN tok + 1 ELSE tok

\* The k halves after the first n of connection c's stream.
Halves(c, n, k) == [j \in 1..k |-> <<c, (n + j + 1) \div 2>>]

Unread(fd) == sent[fdConn[fd]] - taken[fdConn[fd]]

\* EV_IN or EV_HUP is pending: data to read, or the peer closed.
Readable(fd) == Unread(fd) > 0 \/ client[fdConn[fd]] = "closed"

Registered(w, fd) == conns[w][fd] # NoConn

Init ==
  /\ fdConn = [fd \in Fds |-> NoConn]
  /\ client = [c \in Conns |-> "new"]
  /\ sent = [c \in Conns |-> 0]
  /\ taken = [c \in Conns |-> 0]
  /\ got = [c \in Conns |-> << >>]
  /\ accepted = NoFd
  /\ cliFds = [w \in ConnWorkers |-> << >>]
  /\ cliTok = [w \in ConnWorkers |-> 0]
  /\ conns = [w \in ConnWorkers |-> [fd \in Fds |-> NoConn]]
  /\ uniqueId = [w \in ConnWorkers |-> 0]
  /\ respQ = [w \in ConnWorkers |-> << >>]
  /\ respTok = [w \in ConnWorkers |-> 0]
  /\ cpc = [w \in ConnWorkers |-> "loop"]
  /\ ccur = [w \in ConnWorkers |-> NoFd]
  /\ cbatch = [w \in ConnWorkers |-> << >>]
  /\ reqQ = [r \in RealWorkers |-> << >>]
  /\ reqTok = [r \in RealWorkers |-> 0]
  /\ rpc = [r \in RealWorkers |-> "loop"]
  /\ rbatch = [r \in RealWorkers |-> << >>]
  /\ refused = {}

-----------------------------------------------------------------------------
\* The clients

\* Half a request is written; a client may send before it read an answer.
ClientSend(c) ==
  /\ client[c] = "open"
  /\ sent[c] < 2 * MaxReq
  /\ sent' = [sent EXCEPT ![c] = @ + 1]
  /\ UNCHANGED <<fdConn, client, taken, got, cliVars, connVars, respVars, loopVars, realVars>>

ClientClose(c) ==
  /\ client[c] = "open"
  /\ client' = [client EXCEPT ![c] = "closed"]
  /\ UNCHANGED <<fdConn, sent, taken, got, cliVars, connVars, respVars, loopVars, realVars>>

-----------------------------------------------------------------------------
\* The main thread

\* accept(): the connection gets a descriptor number that is not in use.
Accept(c, fd) ==
  /\ accepted = NoFd
  /\ client[c] = "new"
  /\ fdConn[fd] = NoConn
  /\ client' = [client EXCEPT ![c] = "open"]
  /\ fdConn' = [fdConn EXCEPT ![fd] = c]
  /\ accepted' = fd
  /\ UNCHANGED <<sent, taken, got, cliFds, cliTok, connVars, respVars, loopVars, realVars>>

\* AddClientFdAndNotify of a random worker, whose mu_ must be free.
AddClientFdAndNotify(w) ==
  /\ accepted # NoFd
  /\ cpc[w] \notin {"adding", "closing"}
  /\ cliFds' = [cliFds EXCEPT ![w] = Append(@, accepted)]
  /\ cliTok' = [cliTok EXCEPT ![w] = NotifyByte(@)]
  /\ accepted' = NoFd
  /\ UNCHANGED <<kernelVars, connVars, respVars, loopVars, realVars>>

-----------------------------------------------------------------------------
\* A ConnWorker: new connections

ReadCliToken(w) ==
  /\ cpc[w] = "loop"
  /\ cliTok[w] > 0
  /\ cliTok' = [cliTok EXCEPT ![w] = @ - 1]
  /\ cpc' = [cpc EXCEPT ![w] = "cli"]
  /\ UNCHANGED <<kernelVars, accepted, cliFds, connVars, respVars, ccur, cbatch, realVars>>

LockCliFds(w) ==
  /\ cpc[w] = "cli"
  /\ cpc' = [cpc EXCEPT ![w] = "adding"]
  /\ UNCHANGED <<kernelVars, cliVars, connVars, respVars, ccur, cbatch, realVars>>

\* One turn of the loop over cli_fds_; map::insert keeps an entry that is
\* already there.
AddClient(w) ==
  /\ cpc[w] = "adding"
  /\ cliFds[w] # << >>
  /\ LET fd == Head(cliFds[w])
     IN conns' = [conns EXCEPT ![w][fd] =
          IF @ = NoConn
            THEN [id |-> uniqueId[w] + 1, req_content |-> << >>,
                  rsp_content |-> << >>, out |-> FALSE]
            ELSE @]
  /\ uniqueId' = [uniqueId EXCEPT ![w] = @ + 1]
  /\ cliFds' = [cliFds EXCEPT ![w] = Tail(@)]
  /\ UNCHANGED <<kernelVars, accepted, cliTok, respVars, loopVars, realVars>>

AddClientsDone(w) ==
  /\ cpc[w] = "adding"
  /\ cliFds[w] = << >>
  /\ cpc' = [cpc EXCEPT ![w] = "loop"]
  /\ UNCHANGED <<kernelVars, cliVars, connVars, respVars, ccur, cbatch, realVars>>

-----------------------------------------------------------------------------
\* A ConnWorker: requests

\* ClientEventInInternalAction: at most one read per event, of any part of
\* what the socket holds.
ClientEventIn(w, fd) ==
  /\ cpc[w] = "loop"
  /\ Registered(w, fd)
  /\ fdConn[fd] # NoConn
  /\ \E k \in 1..Unread(fd) :
       LET c == fdConn[fd]
       IN /\ taken' = [taken EXCEPT ![c] = @ + k]
          /\ conns' = [conns EXCEPT ![w][fd].req_content =
                         @ \o Halves(c, taken[c], k)]
  /\ cpc' = [cpc EXCEPT ![w] = "dispatch"]
  /\ ccur' = [ccur EXCEPT ![w] = fd]
  /\ UNCHANGED <<fdConn, client, sent, got, cliVars, uniqueId, respVars, cbatch, realVars>>

\* A complete packet goes to a random RealWorker (SendRequestToRealWorker,
\* AddOneDataBlockAndNotify); it is cut from req_content.
SendRequestToRealWorker(w, r) ==
  /\ cpc[w] = "dispatch"
  /\ LET fd == ccur[w]
         conn == conns[w][fd]
     IN /\ Len(conn.req_content) >= 2
        /\ reqQ' = [reqQ EXCEPT ![r] =
             Append(@, [real_data |-> conn.req_content[1], id |-> conn.id,
                        fd |-> fd, worker |-> w])]
        /\ reqTok' = [reqTok EXCEPT ![r] = NotifyByte(@)]
        /\ conns' = [conns EXCEPT ![w][fd].req_content =
                       SubSeq(@, 3, Len(@))]
  /\ UNCHANGED <<kernelVars, cliVars, uniqueId, respVars, loopVars, rpc, rbatch, refused>>

\* kDataNotEnough after the read: back to the event loop.
DataNotEnough(w) ==
  /\ cpc[w] = "dispatch"
  /\ Len(conns[w][ccur[w]].req_content) < 2
  /\ cpc' = [cpc EXCEPT ![w] = "loop"]
  /\ ccur' = [ccur EXCEPT ![w] = NoFd]
  /\ UNCHANGED <<kernelVars, cliVars, connVars, respVars, cbatch, realVars>>

-----------------------------------------------------------------------------
\* A ConnWorker: closing

\* CloseConn, first half: mu_ is taken and the descriptor closed.  Its number
\* may be given to a new connection from here on.
CloseFd(w, fd) ==
  /\ fdConn' = [fdConn EXCEPT ![fd] = NoConn]
  /\ cpc' = [cpc EXCEPT ![w] = "closing"]
  /\ ccur' = [ccur EXCEPT ![w] = fd]
  /\ UNCHANGED <<client, sent, taken, got, cliVars, connVars, respVars, cbatch, realVars>>

\* read() returned 0: the client closed and everything is read.
PeerClosed(w, fd) ==
  /\ cpc[w] = "loop"
  /\ Registered(w, fd)
  /\ fdConn[fd] # NoConn
  /\ Unread(fd) = 0
  /\ client[fdConn[fd]] = "closed"
  /\ CloseFd(w, fd)

\* EV_ERR or EV_HUP, or a failed read or write (a reset, possibly with data
\* left unread): may happen to any socket at any time.
SocketError(w, fd) ==
  /\ cpc[w] = "loop"
  /\ Registered(w, fd)
  /\ fdConn[fd] # NoConn
  /\ CloseFd(w, fd)

\* The length field of the next packet is invalid.
BadPacket(w) ==
  /\ cpc[w] = "dispatch"
  /\ conns[w][ccur[w]].req_content # << >>
  /\ CloseFd(w, ccur[w])

\* Mutant: CloseConn forgets conns_.erase.
EraseConn_KeepsEntry(w) ==
  /\ cpc[w] = "closing"
  /\ cpc' = [cpc EXCEPT ![w] = "loop"]
  /\ ccur' = [ccur EXCEPT ![w] = NoFd]
  /\ UNCHANGED <<kernelVars, cliVars, connVars, respVars, cbatch, realVars>>

\* CloseConn, second half: conns_.erase.  EventLoop::Del fails on the closed
\* descriptor and leaves a stale action behind, which a later Add of the same
\* number keeps unchanged.
EraseConn(w) ==
  /\ cpc[w] = "closing"
  /\ conns' = [conns EXCEPT ![w][ccur[w]] = NoConn]
  /\ cpc' = [cpc EXCEPT ![w] = "loop"]
  /\ ccur' = [ccur EXCEPT ![w] = NoFd]
  /\ UNCHANGED <<kernelVars, cliVars, uniqueId, respVars, cbatch, realVars>>

-----------------------------------------------------------------------------
\* A RealWorker

ReadReqToken(r) ==
  /\ rpc[r] = "loop"
  /\ reqTok[r] > 0
  /\ reqTok' = [reqTok EXCEPT ![r] = @ - 1]
  /\ rpc' = [rpc EXCEPT ![r] = "woken"]
  /\ UNCHANGED <<kernelVars, cliVars, connVars, respVars, loopVars, reqQ, rbatch, refused>>

TakeRequests(r) ==
  /\ rpc[r] = "woken"
  /\ rbatch' = [rbatch EXCEPT ![r] = reqQ[r]]
  /\ reqQ' = [reqQ EXCEPT ![r] = << >>]
  /\ rpc' = [rpc EXCEPT ![r] = "work"]
  /\ UNCHANGED <<kernelVars, cliVars, connVars, respVars, loopVars, reqTok, refused>>

\* DealWithRequestOneDataBlock ends in AddResponseAndNotify: the callback
\* succeeded, or a framework error (700-799) is reported to the client.
DealWithRequest(r) ==
  /\ rpc[r] = "work"
  /\ rbatch[r] # << >>
  /\ LET block == Head(rbatch[r])
         w == block.worker
     IN /\ respQ' = [respQ EXCEPT ![w] = Append(@, block)]
        /\ respTok' = [respTok EXCEPT ![w] = NotifyByte(@)]
  /\ rbatch' = [rbatch EXCEPT ![r] = Tail(@)]
  /\ UNCHANGED <<kernelVars, cliVars, connVars, loopVars, reqQ, reqTok, rpc, refused>>

\* It ends without a response: the user data does not parse
\* (kParseProtobufFailed), the callback returned a code that is no framework
\* error, or the response does not serialize.
RefuseRequest(r) ==
  /\ rpc[r] = "work"
  /\ rbatch[r] # << >>
  /\ refused' = refused \cup {Head(rbatch[r]).real_data}
  /\ rbatch' = [rbatch EXCEPT ![r] = Tail(@)]
  /\ UNCHANGED <<kernelVars, cliVars, connVars, respVars, loopVars, reqQ, reqTok, rpc>>

RequestsDone(r) ==
  /\ rpc[r] = "work"
  /\ rbatch[r] = << >>
  /\ rpc' = [rpc EXCEPT ![r] = "loop"]
  /\ UNCHANGED <<kernelVars, cliVars, connVars, respVars, loopVars, reqQ, reqTok, rbatch, refused>>

-----------------------------------------------------------------------------
\* A ConnWorker: responses

ReadRespToken(w) ==
  /\ cpc[w] = "loop"
  /\ respTok[w] > 0
  /\ respTok' = [respTok EXCEPT ![w] = @ - 1]
  /\ cpc' = [cpc EXCEPT ![w] = "resp"]
  /\ UNCHANGED <<kernelVars, cliVars, connVars, respQ, ccur, cbatch, realVars>>

\* Mutant: one block is taken per byte instead of the whole deque.
TakeResponses_OnePerByte(w) ==
  /\ cpc[w] = "resp"
  /\ cbatch' = [cbatch EXCEPT ![w] = SubSeq(respQ[w], 1, 1)]
  /\ respQ' = [respQ EXCEPT ![w] = SubSeq(@, 2, Len(@))]
  /\ cpc' = [cpc EXCEPT ![w] = "respond"]
  /\ UNCHANGED <<kernelVars, cliVars, connVars, respTok, ccur, realVars>>

TakeResponses(w) ==
  /\ cpc[w] = "resp"
  /\ cbatch' = [cbatch EXCEPT ![w] = respQ[w]]
  /\ respQ' = [respQ EXCEPT ![w] = << >>]
  /\ cpc' = [cpc EXCEPT ![w] = "respond"]
  /\ UNCHANGED <<kernelVars, cliVars, connVars, respTok, ccur, realVars>>

\* Mutant: the response is routed by descriptor alone.
Matches_FdOnly(w, block) == Registered(w, block.fd)

\* The connection a response block is for: same descriptor and same id.
Matches(w, block) == Registered(w, block.fd) /\ conns[w][block.fd].id = block.id

\* Mutant: EV_OUT is not registered after the append.
DealWithResp_NoMod(w) ==
  /\ cpc[w] = "respond"
  /\ cbatch[w] # << >>
  /\ LET block == Head(cbatch[w])
     IN conns' = IF Matches(w, block)
                   THEN [conns EXCEPT ![w][block.fd].rsp_content =
                           Append(@, block.real_data)]
                   ELSE conns
  /\ cbatch' = [cbatch EXCEPT ![w] = Tail(@)]
  /\ UNCHANGED <<kernelVars, cliVars, uniqueId, respVars, cpc, ccur, realVars>>

\* DealWithRespOneDataBlock: the response is appended to the connection with
\* the block's descriptor and id, and dropped when there is none.
DealWithResp(w) ==
  /\ cpc[w] = "respond"
  /\ cbatch[w] # << >>
  /\ LET block == Head(cbatch[w])
         conn == conns[w][block.fd]
     IN conns' = IF Matches(w, block)
                   THEN [conns EXCEPT ![w][block.fd] =
                           [conn EXCEPT !.rsp_content = Append(@, block.real_data),
                                        !.out = TRUE]]
                   ELSE conns
  /\ cbatch' = [cbatch EXCEPT ![w] = Tail(@)]
  /\ UNCHANGED <<kernelVars, cliVars, uniqueId, respVars, cpc, ccur, realVars>>

ResponsesDone(w) ==
  /\ cpc[w] = "respond"
  /\ cbatch[w] = << >>
  /\ cpc' = [cpc EXCEPT ![w] = "loop"]
  /\ UNCHANGED <<kernelVars, cliVars, connVars, respVars, ccur, cbatch, realVars>>

\* Mutant: rsp_content is cleared after a partial write.
ClientEventOut_ClearsAll(w, fd) ==
  /\ cpc[w] = "loop"
  /\ Registered(w, fd)
  /\ fdConn[fd] # NoConn
  /\ conns[w][fd].out
  /\ ~ Readable(fd)
  /\ \E k \in 1..Len(conns[w][fd].rsp_content) :
       got' = [got EXCEPT ![fdConn[fd]] =
                 @ \o SubSeq(conns[w][fd].rsp_content, 1, k)]
  /\ conns' = [conns EXCEPT ![w][fd] =
                 [@ EXCEPT !.rsp_content = << >>, !.out = FALSE]]
  /\ UNCHANGED <<fdConn, client, sent, taken, cliVars, uniqueId, respVars, loopVars, realVars>>

\* ClientEventOutInternalAction, reached only when the event has no EV_IN:
\* at least one write succeeds, the rest stays in rsp_content until the
\* socket has room again.
ClientEventOut(w, fd) ==
  /\ cpc[w] = "loop"
  /\ Registered(w, fd)
  /\ fdConn[fd] # NoConn
  /\ conns[w][fd].out
  /\ ~ Readable(fd)
  /\ \E k \in 1..Len(conns[w][fd].rsp_content) :
       LET rsp == conns[w][fd].rsp_content
       IN /\ got' = [got EXCEPT ![fdConn[fd]] = @ \o SubSeq(rsp, 1, k)]
          /\ conns' = [conns EXCEPT ![w][fd] =
                         [@ EXCEPT !.rsp_content = SubSeq(rsp, k + 1, Len(rsp)),
                                   !.out = k < Len(rsp)]]
  /\ UNCHANGED <<fdConn, client, sent, taken, cliVars, uniqueId, respVars, loopVars, realVars>>

-----------------------------------------------------------------------------
Next ==
  \/ \E c \in Conns : ClientSend(c) \/ ClientClose(c) \/ \E fd \in Fds : Accept(c, fd)
  \/ \E w \in ConnWorkers :
       \/ AddClientFdAndNotify(w)
       \/ ReadCliToken(w) \/ LockCliFds(w) \/ AddClient(w) \/ AddClientsDone(w)
       \/ DataNotEnough(w) \/ BadPacket(w) \/ EraseConn(w)
       \/ ReadRespToken(w) \/ TakeResponses(w) \/ DealWithResp(w) \/ ResponsesDone(w)
       \/ \E r \in RealWorkers : SendRequestToRealWorker(w, r)
       \/ \E fd \in Fds : \/ ClientEventIn(w, fd) \/ ClientEventOut(w, fd)
                          \/ PeerClosed(w, fd) \/ SocketError(w, fd)
  \/ \E r \in RealWorkers :
       \/ ReadReqToken(r) \/ TakeRequests(r) \/ DealWithRequest(r)
       \/ RefuseRequest(r) \/ RequestsDone(r)

Spec == Init /\ [][Next]_vars

\* Every thread that can move does: the loops of event_loop.cc never stop, and
\* the descriptors are level triggered, so nothing pending is forgotten.
\* Accepting, socket errors and malformed packets are not promised.
ConnThread(w) ==
  \/ ReadCliToken(w) \/ LockCliFds(w) \/ AddClient(w) \/ AddClientsDone(w)
  \/ (\E r \in RealWorkers : SendRequestToRealWorker(w, r)) \/ DataNotEnough(w)
  \/ EraseConn(w)
  \/ ReadRespToken(w) \/ TakeResponses(w) \/ DealWithResp(w) \/ ResponsesDone(w)
  \/ \E fd \in Fds : ClientEventIn(w, fd) \/ ClientEventOut(w, fd) \/ PeerClosed(w, fd)
RealThread(r) ==
  \/ ReadReqToken(r) \/ TakeRequests(r) \/ DealWithRequest(r)
  \/ RefuseRequest(r) \/ RequestsDone(r)

FairSpec ==
  /\ Spec
  /\ WF_vars(\E w \in ConnWorkers : AddClientFdAndNotify(w))
  /\ \A w \in ConnWorkers : WF_vars(ConnThread(w))
  /\ \A r \in RealWorkers : WF_vars(RealThread(r))

-----------------------------------------------------------------------------
\* Properties

\* Type invariant: the queues of sock/rpc_server.h hold blocks, the pipes no
\* more than they can, and a handler's cursor is a descriptor of its map.
TypeOK ==
  /\ fdConn \in [Fds -> Conns \cup {NoConn}]
  /\ client \in [Conns -> {"new", "open", "closed"}]
  /\ sent \in [Conns -> Nat]
  /\ taken \in [Conns -> Nat]
  /\ got \in [Conns -> Seq(Request)]
  /\ accepted \in Fds \cup {NoFd}
  /\ cliFds \in [ConnWorkers -> Seq(Fds)]
  /\ cliTok \in [ConnWorkers -> 0..PipeCap]
  /\ conns \in [ConnWorkers -> [Fds -> TcpConn \cup {NoConn}]]
  /\ uniqueId \in [ConnWorkers -> Nat]
  /\ respQ \in [ConnWorkers -> Seq(OneDataBlock)]
  /\ respTok \in [ConnWorkers -> 0..PipeCap]
  /\ cpc \in [ConnWorkers -> ConnPC]
  /\ ccur \in [ConnWorkers -> Fds \cup {NoFd}]
  /\ cbatch \in [ConnWorkers -> Seq(OneDataBlock)]
  /\ reqQ \in [RealWorkers -> Seq(OneDataBlock)]
  /\ reqTok \in [RealWorkers -> 0..PipeCap]
  /\ rpc \in [RealWorkers -> RealPC]
  /\ rbatch \in [RealWorkers -> Seq(OneDataBlock)]
  /\ refused \subseteq Request
  /\ \A c \in Conns : taken[c] <= sent[c] /\ sent[c] <= 2 * MaxReq
  /\ \A w \in ConnWorkers :
       cpc[w] \in {"dispatch", "closing"} => ccur[w] \in Fds /\ Registered(w, ccur[w])

\* An answer reaches only the connection that asked, although descriptor
\* numbers are reused while requests of the closed connection are still with
\* the RealWorkers (DealWithRespOneDataBlock compares fd and id;
\* RPC_ARCHITECTURE.md:585).
RightConnection ==
  \A c \in Conns : \A i \in 1..Len(got[c]) : got[c][i][1] = c

\* The handover through deque and pipe loses nothing, even when the byte is
\* not written because the pipe is full: whatever is queued has a byte that
\* will wake the consumer, or the consumer is awake and has yet to look at
\* the queue (AddClientFdAndNotify, AddOneDataBlockAndNotify,
\* AddResponseAndNotify and their three handlers).
NoLostNotify ==
  /\ \A w \in ConnWorkers :
       /\ cliFds[w] # << >> => cliTok[w] > 0 \/ cpc[w] \in {"cli", "adding"}
       /\ respQ[w] # << >> => respTok[w] > 0 \/ cpc[w] = "resp"
  /\ \A r \in RealWorkers : reqQ[r] # << >> => reqTok[r] > 0 \/ rpc[r] = "woken"

\* CloseConn has closed the descriptor and not erased it yet.
Closing(w, fd) == cpc[w] = "closing" /\ ccur[w] = fd

Live(w, fd) == Registered(w, fd) /\ ~ Closing(w, fd)

LiveEntries == {e \in ConnWorkers \X Fds : Live(e[1], e[2])}

Queued(w, fd) == \E i \in 1..Len(cliFds[w]) : cliFds[w][i] = fd

\* An open descriptor is in the hands of exactly one thread: just accepted,
\* once in one worker's cli_fds_, or in one worker's conns_; a closed one is
\* nowhere, but for the worker that is about to erase it.  So no descriptor
\* leaks, none is closed or read by two threads, and conns_.insert never finds
\* an old entry.
DescriptorTable ==
  /\ \A fd \in Fds :
       fdConn[fd] # NoConn <=>
         accepted = fd \/ \E w \in ConnWorkers : Queued(w, fd) \/ Live(w, fd)
  /\ \A fd \in Fds, w \in ConnWorkers :
       /\ ~ (accepted = fd /\ (Queued(w, fd) \/ Live(w, fd)))
       /\ ~ (Queued(w, fd) /\ Live(w, fd))
  /\ \A fd \in Fds, v, w \in ConnWorkers :
       (Queued(v, fd) \/ Live(v, fd)) /\ (Queued(w, fd) \/ Live(w, fd)) => v = w
  /\ \A w \in ConnWorkers : \A i, j \in 1..Len(cliFds[w]) :
       cliFds[w][i] = cliFds[w][j] => i = j

\* The positions of request q in a sequence of requests, and in one of blocks.
At(q, seq) == {i \in 1..Len(seq) : seq[i] = q}
InBlocks(q, seq) == {i \in 1..Len(seq) : seq[i].real_data = q}

\* Where request q is: one element per copy.
Places(q) ==
  UNION (
    {{"request"} \X {r} \X InBlocks(q, reqQ[r]) : r \in RealWorkers}
    \cup {{"deal"} \X {r} \X InBlocks(q, rbatch[r]) : r \in RealWorkers}
    \cup {{"response"} \X {w} \X InBlocks(q, respQ[w]) : w \in ConnWorkers}
    \cup {{"resp"} \X {w} \X InBlocks(q, cbatch[w]) : w \in ConnWorkers}
    \cup {{"rsp"} \X {p} \X At(q, conns[p[1]][p[2]].rsp_content) : p \in LiveEntries}
    \cup {{"req"} \X {p} \X {0} :
            p \in {e \in LiveEntries : At(q, conns[e[1]][e[2]].req_content) # {}}}
    \cup {{"got"} \X {q} \X At(q, got[q[1]])}
    \cup {{"refused"} \X ({q} \cap refused) \X {0}})

\* A request is never executed or answered twice, and while its connection
\* stays open it is never lost on the way through split packets, the random
\* choice of a worker, partial writes and full pipes.
ExactlyOnce ==
  \A q \in Request :
    LET c == q[1]
        open == \E w \in ConnWorkers, fd \in Fds : Live(w, fd) /\ fdConn[fd] = c
    IN /\ Cardinality(Places(q)) <= 1
       /\ open /\ taken[c] >= 2 * q[2] - 1 => Cardinality(Places(q)) = 1

Answered(q) == \E i \in 1..Len(got[q[1]]) : got[q[1]][i] = q

Gone(c) == client[c] = "closed" \/ \A fd \in Fds : fdConn[fd] # c

\* A complete request on a connection that stays open is eventually answered,
\* or ended by a RealWorker without an answer.
Served ==
  \A q \in Request :
    sent[q[1]] >= 2 * q[2] ~> Answered(q) \/ q \in refused \/ Gone(q[1])

\* Errors found by the server come back to the client: "框架错误 [700, 799]
\* Magic 校验失败、协议解析错误等" are sent back through the ConnWorker
\* (RPC_ARCHITECTURE.md 13.1 and 13.2).
EveryRequestAnswered ==
  \A q \in Request : sent[q[1]] >= 2 * q[2] ~> Answered(q) \/ Gone(q[1])
=============================================================================
