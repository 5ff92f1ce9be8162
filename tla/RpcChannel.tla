---------------------------- MODULE RpcChannel ----------------------------
(***************************************************************************)
(* The client side of a call: RpcChannel::SendOnClient over RpcClient over *)
(* TcpClient, on one connection at a time, against a server that executes  *)
(* the requests of a connection in order, answers each once (what          *)
(* RpcServer shows), and may close at any time.  The channel either owns   *)
(* its client (EnsureInit) or borrows it from the pool, which deletes a    *)
(* client returned as broken (RpcConnPool shows that nobody shares it).    *)
(*                                                                         *)
(* Bytes are abstracted to the parts of an answer: an answer is complete   *)
(* when all its parts are in the receive buffer, which holds ChBufCap      *)
(* parts.  What is on a connection: chReqs, requests not yet read by the   *)
(* server; chWire, parts not yet read by the client.                       *)
(***************************************************************************)
EXTENDS Integers, Sequences, FiniteSets

CONSTANTS ChMaxCalls,  \* calls made one after another
          ChMaxConns,  \* connections that can be opened
          ChBufCap     \* kMaxStreamBufLen, in parts of an answer

ASSUME ChAssumption == /\ ChMaxCalls \in Nat \ {0}
                       /\ ChMaxConns \in Nat \ {0}
                       /\ ChBufCap \in Nat /\ ChBufCap >= 2

VARIABLES chPool,    \* g_pool_mode
          chInited,  \* inited_: client_ was initialised (or created by the pool)
          chSock,    \* client_fd_: none, the dead socket of a refused connect, or a connection
          chBuf,     \* data_buf_[start_pos_, end_pos_)
          chOpened,  \* connections opened so far
          chClosed,  \* connections the server has closed
          chReqs, chWire,
          chPc, chCall, chTry,
          chExec,    \* how often the server executed each call's request
          chLast     \* the last return: the code and whose answer it carried

chVars == <<chPool, chInited, chSock, chBuf, chOpened, chClosed, chReqs, chWire,
            chPc, chCall, chTry, chExec, chLast>>

Calls == 1..ChMaxCalls
Conns == 1..ChMaxConns
NoFd == -1
DeadFd == 0

\* The answers a server sends: user data, a frame error (one part), more data
\* than the receive buffer can hold, or a head whose length is out of range.
AnswerKinds == {"ok", "frame", "large", "bad"}
PartsOf(kind) == CASE kind = "ok" -> 2 [] kind \in {"frame", "bad"} -> 1
                   [] kind = "large" -> ChBufCap + 1
Part == [call : Calls, kind : AnswerKinds, part : 1..(ChBufCap + 1)]
Answer(k, kind) == [i \in 1..PartsOf(kind) |-> [call |-> k, kind |-> kind, part |-> i]]

\* The codes of this layer; IsConnError tells the connection errors.
ConnErrors == {"kSocketError", "kTimeOut", "kConnectError"}
Codes == ConnErrors \cup {"kOk", "kFrame", "kDataBufFull", "kInvalidSize"}
IsConnError(code) == code \in ConnErrors

ChInit == /\ chPool \in BOOLEAN
          /\ chInited = FALSE
          /\ chSock = NoFd /\ chBuf = <<>>
          /\ chOpened = 0 /\ chClosed = {}
          /\ chReqs = [c \in Conns |-> <<>>] /\ chWire = [c \in Conns |-> <<>>]
          /\ chPc = "idle" /\ chCall = 0 /\ chTry = 1
          /\ chExec = [k \in Calls |-> 0]
          /\ chLast = [code |-> "kOk", from |-> 0]

-----------------------------------------------------------------------------
\* TcpClient::CloseConnect: the descriptor is closed and the buffer emptied;
\* what the server still sends on the old connection is lost.
CloseConnect_KeepsBuffer == /\ chSock' = NoFd
                            /\ UNCHANGED chBuf
                            /\ chWire' = [c \in Conns |-> IF c = chSock THEN <<>> ELSE chWire[c]]
CloseConnect == /\ chSock' = NoFd
                /\ chBuf' = IF chSock = NoFd THEN chBuf ELSE <<>>
                /\ chWire' = [c \in Conns |-> IF c = chSock THEN <<>> ELSE chWire[c]]

\* The call ends.  In pool mode a client returned with a connection error is
\* deleted by Release, and the next call gets a new one.
Return(code, from) ==
    /\ chPc' = "idle"
    /\ chLast' = [code |-> code, from |-> from]
    /\ chInited' = (chInited /\ ~(chPool /\ IsConnError(code)))
    /\ UNCHANGED <<chPool, chOpened, chClosed, chReqs, chCall, chTry, chExec>>

\* SendOnClient: a connection error of the first attempt is retried once.
AttemptFailed_RetryAlways(code) ==
    /\ chPc' = "send" /\ UNCHANGED chTry
    /\ UNCHANGED <<chPool, chInited, chOpened, chClosed, chReqs, chCall, chExec, chLast>>
AttemptFailed_Thrice(code) ==
    IF chTry <= 2
    THEN /\ chPc' = "send" /\ chTry' = chTry + 1
         /\ UNCHANGED <<chPool, chInited, chOpened, chClosed, chReqs, chCall, chExec, chLast>>
    ELSE Return(code, 0)
AttemptFailed(code) ==
    IF chTry = 1
    THEN /\ chPc' = "send" /\ chTry' = 2
         /\ UNCHANGED <<chPool, chInited, chOpened, chClosed, chReqs, chCall, chExec, chLast>>
    ELSE Return(code, 0)

\* SendAndRecv on the channel, up to EnsureInit or the borrowed client.
Call == /\ chPc = "idle" /\ chCall < ChMaxCalls
        /\ chCall' = chCall + 1 /\ chTry' = 1
        /\ chPc' = IF chInited THEN "send" ELSE "init"
        /\ UNCHANGED <<chPool, chInited, chSock, chBuf, chOpened, chClosed, chReqs,
                       chWire, chExec, chLast>>

\* Connect (first by Init, whose connection errors are ignored; later by
\* ReConnect inside SendNative, whose errors end the attempt).  A connect that
\* succeeds at once leaves the buffer positions as CloseConnect left them.
ConnectOk == /\ chPc \in {"init", "connect"}
             /\ chOpened < ChMaxConns
             /\ chOpened' = chOpened + 1 /\ chSock' = chOpened + 1
             /\ chBuf' \in {chBuf, <<>>}
             /\ chInited' = TRUE
             /\ chPc' = "send"
             /\ UNCHANGED <<chPool, chClosed, chReqs, chWire, chCall, chTry, chExec, chLast>>

\* connect() fails at once: kConnectError is returned with client_fd_ still
\* set to the socket that never connected.
ConnectRefused == /\ chPc = "connect"
                  /\ chSock' = DeadFd
                  /\ UNCHANGED <<chBuf, chWire>>
                  /\ AttemptFailed("kConnectError")

\* The wait for the connection times out or SO_ERROR is set: CloseConnect.
ConnectFailed == /\ chPc = "connect"
                 /\ UNCHANGED <<chSock, chBuf, chWire>>
                 /\ \E code \in {"kTimeOut", "kSocketError"} : AttemptFailed(code)

InitFailed == /\ chPc = "init"
              /\ chSock' \in {NoFd, DeadFd}
              /\ chInited' = TRUE
              /\ chPc' = "send"
              /\ UNCHANGED <<chPool, chBuf, chOpened, chClosed, chReqs, chWire, chCall,
                             chTry, chExec, chLast>>

-----------------------------------------------------------------------------
\* SendNative without a descriptor reconnects first.
SendReConnect == /\ chPc = "send" /\ chSock = NoFd
                 /\ chPc' = "connect"
                 /\ UNCHANGED <<chPool, chInited, chSock, chBuf, chOpened, chClosed, chReqs,
                                chWire, chCall, chTry, chExec, chLast>>

\* All bytes were written; on a connection the server has closed the kernel
\* may still take them, and they are lost.
SendOk == /\ chPc = "send" /\ chSock \in Conns
          /\ chReqs' = IF chSock \in chClosed THEN chReqs
                       ELSE [chReqs EXCEPT ![chSock] = Append(@, chCall)]
          /\ chPc' = "recv"
          /\ UNCHANGED <<chPool, chInited, chSock, chBuf, chOpened, chClosed, chWire,
                         chCall, chTry, chExec, chLast>>

\* EV_ERR or EV_HUP (at once on a dead socket), a failed write or a timeout,
\* before the whole request was written.
SendFailed == /\ chPc = "send" /\ chSock # NoFd
              /\ CloseConnect
              /\ \E code \in {"kSocketError", "kTimeOut"} :
                    /\ (code = "kTimeOut" => chSock # DeadFd)
                    /\ AttemptFailed(code)

\* data_proto_func_: the first part of an answer carries its length.
WellFormed == chBuf # <<>> => Head(chBuf).part = 1 /\ Head(chBuf).kind # "bad"
Complete == chBuf # <<>> /\ Len(chBuf) >= PartsOf(Head(chBuf).kind)

\* Recv finds a complete answer; GetUserData turns a frame code into an error.
RecvAnswer == /\ chPc = "recv" /\ WellFormed /\ Complete
              /\ LET head == Head(chBuf)
                     n == PartsOf(head.kind)
                 IN  /\ chBuf' = SubSeq(chBuf, n + 1, Len(chBuf))
                     /\ IF head.kind = "frame" THEN Return("kFrame", head.call)
                                               ELSE Return("kOk", head.call)
              /\ UNCHANGED <<chSock, chWire>>

\* A length that makes no sense: the error is returned, the buffer is kept.
RecvBadFrame == /\ chPc = "recv" /\ ~WellFormed
                /\ Return("kInvalidSize", 0)
                /\ UNCHANGED <<chSock, chBuf, chWire>>

\* RecvInternal with a full buffer: the error is returned, the connection and
\* the buffer are kept.
RecvBufFull == /\ chPc = "recv" /\ WellFormed /\ ~Complete /\ Len(chBuf) = ChBufCap
               /\ Return("kDataBufFull", 0)
               /\ UNCHANGED <<chSock, chBuf, chWire>>

RecvRead == /\ chPc = "recv" /\ WellFormed /\ ~Complete /\ Len(chBuf) < ChBufCap
            /\ chSock \in Conns
            /\ \E n \in 1..(ChBufCap - Len(chBuf)) :
                  /\ n <= Len(chWire[chSock])
                  /\ chBuf' = chBuf \o SubSeq(chWire[chSock], 1, n)
                  /\ chWire' = [chWire EXCEPT ![chSock] = SubSeq(@, n + 1, Len(@))]
            /\ UNCHANGED <<chPool, chInited, chSock, chOpened, chClosed, chReqs, chPc,
                           chCall, chTry, chExec, chLast>>

\* RecvInternal: a timeout, or the server's close seen as an error or as the
\* end of the data.
RecvFailed == /\ chPc = "recv" /\ WellFormed /\ ~Complete /\ Len(chBuf) < ChBufCap
              /\ CloseConnect
              /\ \E code \in {"kSocketError", "kTimeOut"} : AttemptFailed(code)

-----------------------------------------------------------------------------
\* The server reads the next request of a connection, executes it and answers
\* (into nothing when the client has left); it may close any connection.
Execute(c) == /\ c \notin chClosed /\ chReqs[c] # <<>>
              /\ LET k == Head(chReqs[c])
                 IN  /\ chExec' = [chExec EXCEPT ![k] = @ + 1]
                     /\ \E kind \in AnswerKinds :
                           chWire' = IF chSock = c
                                     THEN [chWire EXCEPT ![c] = @ \o Answer(k, kind)]
                                     ELSE chWire
              /\ chReqs' = [chReqs EXCEPT ![c] = Tail(@)]
              /\ UNCHANGED <<chPool, chInited, chSock, chBuf, chOpened, chClosed, chPc,
                             chCall, chTry, chLast>>

PeerClose(c) == /\ c \in 1..chOpened \ chClosed
                /\ chClosed' = chClosed \cup {c}
                /\ chReqs' = [chReqs EXCEPT ![c] = <<>>]
                /\ UNCHANGED <<chPool, chInited, chSock, chBuf, chOpened, chWire, chPc,
                               chCall, chTry, chExec, chLast>>

ChClient == \/ ConnectOk \/ ConnectRefused \/ ConnectFailed \/ InitFailed
            \/ SendReConnect \/ SendOk \/ SendFailed
            \/ RecvAnswer \/ RecvBadFrame \/ RecvBufFull \/ RecvRead \/ RecvFailed

ChNext == Call \/ ChClient \/ \E c \in Conns : Execute(c) \/ PeerClose(c)

\* A thread inside a call keeps running: every wait of the client is bounded
\* by max_wait_time_ms_.  Nothing is assumed of the server.
ChFairness == WF_chVars(ChClient)
ChSpec == ChInit /\ [][ChNext]_chVars /\ ChFairness

-----------------------------------------------------------------------------
ChTypeOK == /\ chPool \in BOOLEAN /\ chInited \in BOOLEAN
            /\ chSock \in Conns \cup {NoFd, DeadFd}
            /\ chBuf \in Seq(Part) /\ Len(chBuf) <= ChBufCap
            /\ chOpened \in 0..ChMaxConns /\ chClosed \subseteq Conns
            /\ chReqs \in [Conns -> Seq(Calls)] /\ chWire \in [Conns -> Seq(Part)]
            /\ chPc \in {"idle", "init", "connect", "send", "recv"}
            /\ chCall \in 0..ChMaxCalls /\ chTry \in Nat
            /\ chExec \in [Calls -> Nat]
            /\ chLast \in [code : Codes, from : 0..ChMaxCalls]

\* An answer that a call returns, user data or frame error, is the answer to
\* that call's own request: no answer of an earlier call or attempt that timed
\* out, and no half of one, is taken for it.
AnswerMatchesCall == chPc = "idle" /\ chLast.code \in {"kOk", "kFrame"} => chLast.from = chCall

\* One retry after a connection error means that the server executes a request
\* at most twice, and a call that succeeded was executed at least once.
AtMostTwice == /\ ChTypeOK
               /\ \A k \in Calls : chExec[k] <= 2
               /\ (chPc = "idle" /\ chCall > 0 /\ chLast.code = "kOk") => chExec[chCall] >= 1

\* Between two calls the kept connection carries nothing: no bytes in the
\* buffer, none on the way and no request the server may still answer, unless
\* an answer that cannot be taken from the buffer has blocked it for good.
CleanBetweenCalls ==
    chPc = "idle" /\ chSock \in Conns =>
        \/ chBuf = <<>> /\ chWire[chSock] = <<>> /\ chReqs[chSock] = <<>>
        \/ chBuf # <<>> /\ Head(chBuf).kind \in {"large", "bad"}

\* Every call returns, whatever the server does.
CallReturns == [](chPc # "idle" => <>(chPc = "idle"))

\* The comment on the retry: the layer below has closed the connection, so the
\* second attempt connects again and never starts on a socket that is dead.
RetryReconnects == ~(chPc = "send" /\ chTry = 2 /\ chSock = DeadFd)

\* A connection that stays with the channel (or goes back to the pool as
\* healthy) can still receive an answer.
KeptConnectionUsable == chPc = "idle" /\ chInited /\ chSock \in Conns => chBuf = <<>>
=============================================================================
