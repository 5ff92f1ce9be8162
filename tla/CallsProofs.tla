----------------------------- MODULE CallsProofs -----------------------------
(***************************************************************************)
(* Proofs about both sides of a call, for all values of the constants: the *)
(* client's channel (RpcChannel), the coroutines on one stack (Coroutine), *)
(* the older server with its streams of requests (CsServer) and the event  *)
(* loop over poll (EventPoll).                                             *)
(***************************************************************************)
EXTENDS RpcChannel, Coroutine, CsServer, EventPoll, WellFoundedInduction, SequenceTheorems,
        FiniteSetTheorems, TLAPS

-----------------------------------------------------------------------------
\* RpcChannel: the inductive invariant

\* The types, with one retry at most.
ChTypes == ChTypeOK /\ chTry \in {1, 2}

\* Where the channel is and what it holds then: a channel without a
\* connection has an empty buffer, and a connection that was never opened
\* carries nothing.
ChPlaces ==
    /\ chSock \in Conns => chSock <= chOpened
    /\ ~chInited => chSock \notin Conns
    /\ chPc = "init" => chSock \notin Conns
    /\ chPc = "connect" => chSock = NoFd
    /\ chPc = "recv" => chSock \in Conns
    /\ chSock \notin Conns => chBuf = <<>>
    /\ chPc # "idle" => chCall >= 1
    /\ \A c \in Conns : c > chOpened => chReqs[c] = <<>> /\ chWire[c] = <<>>

\* What is on the connection in use.  Nothing between two calls; the request
\* of this call, or the parts of its answer in their order, while the call
\* waits; or an answer that will never be taken from the buffer.
Clean == chBuf = <<>> /\ chWire[chSock] = <<>> /\ chReqs[chSock] = <<>>
Blocked == chBuf # <<>> /\ chBuf[1].part = 1 /\ chBuf[1].kind \in {"large", "bad"}
Waiting == chBuf = <<>> /\ chWire[chSock] = <<>> /\ chReqs[chSock] \in {<<>>, <<chCall>>}
PartsAre(s, first, k, kind) ==
    \A i \in 1..Len(s) : s[i].call = k /\ s[i].kind = kind /\ s[i].part = first + i
Arriving(kind) ==
    /\ chReqs[chSock] = <<>> /\ chExec[chCall] >= 1
    /\ Len(chBuf) + Len(chWire[chSock]) = PartsOf(kind)
    /\ PartsAre(chBuf, 0, chCall, kind)
    /\ PartsAre(chWire[chSock], Len(chBuf), chCall, kind)

ChData ==
    chSock \in Conns =>
        \/ Blocked
        \/ chPc # "recv" /\ Clean
        \/ chPc = "recv" /\ (Waiting \/ \E kind \in AnswerKinds : Arriving(kind))

\* The requests that were sent: those of a connection in the order of the
\* calls, each call once on a connection, and no more of a call, executed or
\* still to be executed, than it made attempts.
Holding(k) == {c \in Conns : \E i \in 1..Len(chReqs[c]) : chReqs[c][i] = k}
Attempts(k) == IF k > chCall THEN 0
               ELSE IF k < chCall \/ chPc = "idle" THEN 2
               ELSE IF chPc = "recv" THEN chTry ELSE chTry - 1
ChSent ==
    /\ \A c \in Conns : \A i \in 1..Len(chReqs[c]) :
          /\ chReqs[c][i] <= chCall
          /\ chPc = "send" /\ c = chSock => chReqs[c][i] < chCall
          /\ \A j \in 1..Len(chReqs[c]) : i < j => chReqs[c][i] < chReqs[c][j]
    /\ \A k \in Calls : chExec[k] + Cardinality(Holding(k)) <= Attempts(k)

\* What the last call returned.
ChResult ==
    /\ chPc = "idle" /\ chLast.code \in {"kOk", "kFrame"} => chLast.from = chCall
    /\ chPc = "idle" /\ chCall > 0 /\ chLast.code = "kOk" => chExec[chCall] >= 1

ChInv == ChTypes /\ ChPlaces /\ ChData /\ ChSent /\ ChResult

-----------------------------------------------------------------------------
\* RpcChannel: what the steps do

\* The sets of the channel.
LEMMA ChConstants ==
    /\ ChMaxCalls \in Nat /\ ChMaxConns \in Nat /\ ChBufCap \in Nat /\ ChBufCap >= 2
    /\ Conns \subseteq Nat \ {0} /\ Calls \subseteq Nat \ {0}
    /\ NoFd \notin Conns /\ DeadFd \notin Conns /\ NoFd # DeadFd
    /\ NoFd \in Int /\ DeadFd \in Int
    BY ChAssumption DEF Conns, Calls, NoFd, DeadFd

\* An answer has at least one part, and more than the buffer holds only when
\* it is a large one.
LEMMA PartsOfType ==
    ASSUME NEW kind \in AnswerKinds
    PROVE  /\ PartsOf(kind) \in 1..(ChBufCap + 1)
           /\ PartsOf(kind) > ChBufCap <=> kind = "large"
    BY ChConstants DEF AnswerKinds, PartsOf

\* The parts of an answer, in their order.
LEMMA AnswerParts ==
    ASSUME NEW k \in Calls, NEW kind \in AnswerKinds
    PROVE  /\ Answer(k, kind) \in Seq(Part)
           /\ Len(Answer(k, kind)) = PartsOf(kind)
           /\ PartsAre(Answer(k, kind), 0, k, kind)
    <1>1. PartsOf(kind) \in Nat /\ PartsOf(kind) <= ChBufCap + 1
      BY PartsOfType, ChConstants
    <1>2. \A i \in 1..PartsOf(kind) : [call |-> k, kind |-> kind, part |-> i] \in Part
      BY <1>1, ChConstants DEF Part
    <1>3. QED
      BY <1>1, <1>2 DEF Answer, PartsAre

\* What the types say of the counts and the requests.
ChNumbers == /\ chReqs \in [Conns -> Seq(Calls)] /\ chCall \in Nat
             /\ chExec \in [Calls -> Nat] /\ chTry \in {1, 2}
LEMMA ChNumbersHold == (ChTypes => ChNumbers) /\ (ChTypes' => ChNumbers')
    <1>1. ChTypes => chCall \in Nat /\ chReqs \in [Conns -> Seq(Calls)] /\ chExec \in [Calls -> Nat]
      BY ChConstants DEF ChTypes, ChTypeOK
    <1>2. ChTypes' => chCall' \in Nat /\ chReqs' \in [Conns -> Seq(Calls)] /\ chExec' \in [Calls -> Nat]
      BY ChConstants DEF ChTypes, ChTypeOK
    <1>3. (ChTypes => chTry \in {1, 2}) /\ (ChTypes' => chTry' \in {1, 2})
      BY Zenon DEF ChTypes
    <1>4. QED
      BY <1>1, <1>2, <1>3, Zenon DEF ChNumbers

\* Parts that go from one place to another are as many as before.
LEMMA MovedParts ==
    ASSUME NEW a \in Nat, NEW b \in Nat, NEW n \in Nat
    PROVE  (a + n) + (b - n) = a + b
    OBVIOUS

\* A count that goes up by one.
LEMMA CountOneMore ==
    ASSUME NEW S, NEW f \in [S -> Nat], NEW x \in S
    PROVE  [f EXCEPT ![x] = @ + 1] \in [S -> Nat]
    OBVIOUS

\* A failed attempt is repeated once, or ends the call with its error.
LEMMA AttemptEffect ==
    ASSUME ChTypes, NEW code \in ConnErrors, AttemptFailed(code)
    PROVE  /\ UNCHANGED <<chPool, chOpened, chClosed, chReqs, chCall, chExec>>
           /\ chInited' \in BOOLEAN
           /\ \/ chTry = 1 /\ chTry' = 2 /\ chPc' = "send" /\ chLast' = chLast
              \/ chTry = 2 /\ chTry' = 2 /\ chPc' = "idle" /\ chLast' = [code |-> code, from |-> 0]
    <1>1. CASE chTry = 1
      BY <1>1 DEF AttemptFailed, ChTypes, ChTypeOK
    <1>2. CASE chTry = 2
      BY <1>2, Zenon DEF AttemptFailed, Return, ChTypes, ChTypeOK
    <1>3. QED
      BY <1>1, <1>2 DEF ChTypes

\* The four ways an attempt fails leave no connection, and nothing in the
\* buffer.
Fails == ConnectRefused \/ ConnectFailed \/ SendFailed \/ RecvFailed
FailsTo(code) ==
    /\ UNCHANGED <<chPool, chOpened, chClosed, chReqs, chCall, chExec>>
    /\ chInited' \in BOOLEAN
    /\ \/ chTry = 1 /\ chTry' = 2 /\ chPc' = "send" /\ chLast' = chLast
       \/ chTry = 2 /\ chTry' = 2 /\ chPc' = "idle" /\ chLast' = [code |-> code, from |-> 0]
LEMMA FailsEffect ==
    ASSUME ChTypes, ChPlaces, Fails
    PROVE  /\ chPc \in {"connect", "send", "recv"}
           /\ chSock' \in {NoFd, DeadFd} /\ chBuf' = <<>>
           /\ chWire' \in [Conns -> Seq(Part)]
           /\ \A c \in Conns : chWire[c] = <<>> => chWire'[c] = <<>>
           /\ \E code \in ConnErrors : FailsTo(code)
    <1> USE ChConstants
    <1>1. CASE ConnectRefused
      <2>1. "kConnectError" \in ConnErrors /\ AttemptFailed("kConnectError")
        BY <1>1 DEF ConnectRefused, ConnErrors
      <2>2. FailsTo("kConnectError")
        BY <2>1, AttemptEffect, Zenon DEF FailsTo
      <2>3. QED
        BY <1>1, <2>1, <2>2 DEF ConnectRefused, ChPlaces, ChTypes, ChTypeOK
    <1>2. CASE ConnectFailed
      <2>1. PICK code \in {"kTimeOut", "kSocketError"} : AttemptFailed(code)
        BY <1>2 DEF ConnectFailed
      <2>2. code \in ConnErrors
        BY DEF ConnErrors
      <2>3. FailsTo(code)
        BY <2>1, <2>2, AttemptEffect, Zenon DEF FailsTo
      <2>4. QED
        BY <1>2, <2>2, <2>3 DEF ConnectFailed, ChPlaces, ChTypes, ChTypeOK
    <1>3. CASE SendFailed \/ RecvFailed
      <2>1. PICK code \in {"kSocketError", "kTimeOut"} : AttemptFailed(code)
        BY <1>3 DEF SendFailed, RecvFailed
      <2>2. code \in ConnErrors
        BY DEF ConnErrors
      <2>3. FailsTo(code)
        BY <2>1, <2>2, AttemptEffect, Zenon DEF FailsTo
      <2>4. CloseConnect /\ chSock # NoFd /\ chPc \in {"send", "recv"}
        BY <1>3 DEF SendFailed, RecvFailed, ChPlaces
      <2>5. chSock' = NoFd /\ chBuf' = <<>>
        BY <2>4 DEF CloseConnect
      <2>6. chWire' \in [Conns -> Seq(Part)] /\ \A c \in Conns : chWire[c] = <<>> => chWire'[c] = <<>>
        BY <2>4 DEF CloseConnect, ChTypes, ChTypeOK
      <2>7. QED
        BY <2>2, <2>3, <2>4, <2>5, <2>6
    <1>4. QED
      BY <1>1, <1>2, <1>3 DEF Fails

\* The three ways a call returns while its connection is kept.
Keeps == RecvAnswer \/ RecvBadFrame \/ RecvBufFull
LEMMA KeepsEffect ==
    ASSUME ChTypes, Keeps
    PROVE  /\ chPc = "recv" /\ chPc' = "idle"
           /\ UNCHANGED <<chPool, chOpened, chClosed, chReqs, chCall, chTry, chExec, chSock, chWire>>
           /\ chInited' \in BOOLEAN /\ (~chInited' => ~chInited)
    <1>1. \E code, from : code \in {"kOk", "kFrame", "kInvalidSize", "kDataBufFull"} /\ Return(code, from)
      BY DEF Keeps, RecvAnswer, RecvBadFrame, RecvBufFull
    <1>2. PICK code, from : code \in {"kOk", "kFrame", "kInvalidSize", "kDataBufFull"} /\ Return(code, from)
      BY <1>1
    <1>3. ~IsConnError(code)
      BY <1>2 DEF IsConnError, ConnErrors
    <1>4. chInited' \in BOOLEAN /\ (~chInited' => ~chInited)
      BY <1>2, <1>3, Zenon DEF Return
    <1>5. QED
      BY <1>2, <1>4 DEF Return, Keeps, RecvAnswer, RecvBadFrame, RecvBufFull

\* The other steps of the client, each of which goes on to send or to wait.
LEMMA NextCases ==
    ASSUME ChNext
    PROVE  \/ Call \/ ConnectOk \/ InitFailed \/ SendReConnect \/ SendOk \/ RecvRead
           \/ Fails \/ Keeps \/ \E c \in Conns : Execute(c) \/ PeerClose(c)
    BY DEF ChNext, ChClient, Fails, Keeps

\* Recv takes an answer from the buffer only when it is the whole answer to
\* this call, and then nothing is left on the connection.
LEMMA AnswerTaken ==
    ASSUME ChTypes, ChPlaces, ChData, RecvAnswer
    PROVE  /\ chSock \in Conns
           /\ chBuf' = <<>> /\ chWire[chSock] = <<>> /\ chReqs[chSock] = <<>>
           /\ chExec[chCall] >= 1
           /\ \E code \in {"kOk", "kFrame"} : chLast' = [code |-> code, from |-> chCall]
    <1> USE ChConstants
    <1>1. chSock \in Conns /\ chBuf # <<>> /\ chPc = "recv"
      BY DEF RecvAnswer, Complete, ChPlaces
    <1>2. chBuf \in Seq(Part) /\ Len(chBuf) \in Nat /\ Len(chBuf) <= ChBufCap /\ Len(chBuf) >= 1
      BY <1>1 DEF ChTypes, ChTypeOK
    <1>3. Head(chBuf) = chBuf[1] /\ Head(chBuf).kind \in AnswerKinds
      <2>1. Head(chBuf) = chBuf[1] /\ chBuf[1] \in Part
        BY <1>2
      <2>2. QED
        BY <2>1 DEF Part
    <1>4. Head(chBuf).kind \notin {"large", "bad"}
      <2>1. Head(chBuf).kind # "bad"
        BY <1>1 DEF RecvAnswer, WellFormed
      <2>2. Len(chBuf) >= PartsOf(Head(chBuf).kind)
        BY DEF RecvAnswer, Complete
      <2>3. QED
        BY <1>2, <1>3, <2>1, <2>2, PartsOfType
    <1>5. ~Blocked /\ ~Waiting
      BY <1>1, <1>3, <1>4 DEF Blocked, Waiting
    <1>6. PICK kind \in AnswerKinds : Arriving(kind)
      BY <1>1, <1>5 DEF ChData
    <1>7. Head(chBuf).kind = kind /\ Head(chBuf).call = chCall
      BY <1>2, <1>3, <1>6 DEF Arriving, PartsAre
    <1>8. chWire[chSock] \in Seq(Part) /\ Len(chWire[chSock]) \in Nat
      BY <1>1 DEF ChTypes, ChTypeOK
    <1>9. Len(chBuf) = PartsOf(kind) /\ Len(chWire[chSock]) = 0
      BY <1>2, <1>6, <1>7, <1>8, PartsOfType DEF Arriving, RecvAnswer, Complete
    <1>10. chWire[chSock] = <<>>
      BY <1>8, <1>9
    <1>11. chBuf' = <<>>
      <2>1. chBuf' = SubSeq(chBuf, PartsOf(kind) + 1, Len(chBuf))
        BY <1>7 DEF RecvAnswer
      <2>2. QED
        BY <1>2, <1>9, <2>1, SubSeqEmpty
    <1>12. \E code \in {"kOk", "kFrame"} : chLast' = [code |-> code, from |-> chCall]
      BY <1>7 DEF RecvAnswer, Return
    <1>13. QED
      BY <1>1, <1>6, <1>10, <1>11, <1>12 DEF Arriving

\* A call that gives up on what is in the buffer leaves it there, and there
\* it blocks the connection.
LEMMA BufferStuck ==
    ASSUME ChTypes, ChPlaces, ChData, RecvBadFrame \/ RecvBufFull
    PROVE  /\ Blocked /\ chBuf' = chBuf
           /\ \E code \in {"kInvalidSize", "kDataBufFull"} : chLast' = [code |-> code, from |-> 0]
    <1> USE ChConstants
    <1>1. chBuf' = chBuf /\ \E code \in {"kInvalidSize", "kDataBufFull"} : chLast' = [code |-> code, from |-> 0]
      BY DEF RecvBadFrame, RecvBufFull, Return
    <1>2. chSock \in Conns /\ chPc = "recv"
      BY DEF RecvBadFrame, RecvBufFull, ChPlaces
    <1>3. chBuf \in Seq(Part) /\ Len(chBuf) \in Nat
      BY DEF ChTypes, ChTypeOK
    <1>4. chBuf # <<>>
      BY <1>3 DEF RecvBadFrame, RecvBufFull, WellFormed
    <1>5. Head(chBuf) = chBuf[1] /\ Len(chBuf) >= 1
      BY <1>3, <1>4
    <1>6. ASSUME NEW kind \in AnswerKinds, Arriving(kind)
          PROVE  Blocked
      <2>1. chBuf[1].kind = kind /\ chBuf[1].part = 1
        BY <1>5, <1>3, <1>6 DEF Arriving, PartsAre
      <2>2. CASE RecvBadFrame
        <3>1. kind = "bad"
          BY <1>5, <2>1, <2>2 DEF RecvBadFrame, WellFormed
        <3>2. QED
          BY <1>4, <2>1, <3>1 DEF Blocked
      <2>3. CASE RecvBufFull
        <3>1. ~(Len(chBuf) >= PartsOf(kind)) /\ Len(chBuf) = ChBufCap
          BY <1>4, <1>5, <2>1, <2>3 DEF RecvBufFull, Complete
        <3>2. kind = "large"
          BY <3>1, PartsOfType
        <3>3. QED
          BY <1>4, <2>1, <3>2 DEF Blocked
      <2>4. QED
        BY <2>2, <2>3
    <1>7. Blocked
      BY <1>2, <1>4, <1>6 DEF ChData, Waiting
    <1>8. QED
      BY <1>1, <1>7

-----------------------------------------------------------------------------
\* RpcChannel: the invariant is kept

\* What Recv moves from the connection to the buffer.
LEMMA ReadEffect ==
    ASSUME ChTypes, RecvRead
    PROVE  /\ chSock \in Conns /\ chPc = "recv"
           /\ UNCHANGED <<chPool, chInited, chSock, chOpened, chClosed, chReqs, chPc,
                          chCall, chTry, chExec, chLast>>
           /\ chBuf' \in Seq(Part) /\ Len(chBuf') <= ChBufCap
           /\ chWire' \in [Conns -> Seq(Part)]
           /\ \A c \in Conns : c # chSock => chWire'[c] = chWire[c]
           /\ \E n \in Nat \ {0} :
                 /\ n <= Len(chWire[chSock])
                 /\ Len(chBuf') = Len(chBuf) + n
                 /\ Len(chWire'[chSock]) = Len(chWire[chSock]) - n
                 /\ \A i \in 1..(Len(chBuf) + n) :
                       chBuf'[i] = IF i <= Len(chBuf) THEN chBuf[i] ELSE chWire[chSock][i - Len(chBuf)]
                 /\ \A i \in 1..(Len(chWire[chSock]) - n) : chWire'[chSock][i] = chWire[chSock][n + i]
    <1> USE ChConstants
    <1>1. chSock \in Conns /\ chPc = "recv"
      BY DEF RecvRead
    <1> DEFINE w == chWire[chSock]
    <1>2. /\ w \in Seq(Part) /\ Len(w) \in Nat
          /\ chBuf \in Seq(Part) /\ Len(chBuf) \in Nat /\ Len(chBuf) <= ChBufCap
          /\ chWire \in [Conns -> Seq(Part)]
      BY <1>1 DEF ChTypes, ChTypeOK
    <1>3. PICK n \in 1..(ChBufCap - Len(chBuf)) :
            /\ n <= Len(w)
            /\ chBuf' = chBuf \o SubSeq(w, 1, n)
            /\ chWire' = [chWire EXCEPT ![chSock] = SubSeq(w, n + 1, Len(w))]
      BY DEF RecvRead
    <1>4. n \in Nat \ {0} /\ n + Len(chBuf) <= ChBufCap
      BY <1>2, <1>3
    <1>5. /\ SubSeq(w, 1, n) \in Seq(Part) /\ Len(SubSeq(w, 1, n)) = n
          /\ \A i \in 1..n : SubSeq(w, 1, n)[i] = w[i]
      BY <1>2, <1>3, <1>4
    <1>6. /\ SubSeq(w, n + 1, Len(w)) \in Seq(Part) /\ Len(SubSeq(w, n + 1, Len(w))) = Len(w) - n
          /\ \A i \in 1..(Len(w) - n) : SubSeq(w, n + 1, Len(w))[i] = w[n + i]
      <2>1. \A i \in (n + 1)..Len(w) : w[i] \in Part
        BY <1>2, <1>4
      <2>2. /\ SubSeq(w, n + 1, Len(w)) \in Seq(Part)
            /\ Len(SubSeq(w, n + 1, Len(w))) = IF n + 1 <= Len(w) THEN Len(w) - (n + 1) + 1 ELSE 0
            /\ \A i \in 1..(Len(w) - (n + 1) + 1) : SubSeq(w, n + 1, Len(w))[i] = w[(n + 1) + i - 1]
        BY <1>2, <1>4, <2>1, SubSeqProperties
      <2>3. Len(w) \in Nat /\ n \in Nat /\ n <= Len(w)
        BY <1>2, <1>3, <1>4
      <2>4. ASSUME NEW l \in Nat, NEW k \in Nat, k <= l
            PROVE  /\ (IF k + 1 <= l THEN l - (k + 1) + 1 ELSE 0) = l - k
                   /\ l - (k + 1) + 1 = l - k
                   /\ \A i \in 1..(l - k) : (k + 1) + i - 1 = k + i
        BY <2>4
      <2>5. QED
        BY <2>2, <2>3, <2>4, SMTT(30)
    <1>7. /\ chBuf' \in Seq(Part) /\ Len(chBuf') = Len(chBuf) + n
          /\ \A i \in 1..(Len(chBuf) + n) :
                chBuf'[i] = IF i <= Len(chBuf) THEN chBuf[i] ELSE w[i - Len(chBuf)]
      BY <1>2, <1>3, <1>4, <1>5
    <1>8. /\ chWire' \in [Conns -> Seq(Part)] /\ chWire'[chSock] = SubSeq(w, n + 1, Len(w))
          /\ \A c \in Conns : c # chSock => chWire'[c] = chWire[c]
      BY <1>1, <1>2, <1>3, <1>6
    <1>9. /\ n <= Len(chWire[chSock])
          /\ Len(chBuf') = Len(chBuf) + n
          /\ Len(chWire'[chSock]) = Len(chWire[chSock]) - n
          /\ \A i \in 1..(Len(chBuf) + n) :
                chBuf'[i] = IF i <= Len(chBuf) THEN chBuf[i] ELSE chWire[chSock][i - Len(chBuf)]
          /\ \A i \in 1..(Len(chWire[chSock]) - n) : chWire'[chSock][i] = chWire[chSock][n + i]
      <2>1. n <= Len(w) /\ Len(chWire'[chSock]) = Len(w) - n
            /\ \A i \in 1..(Len(w) - n) : chWire'[chSock][i] = w[n + i]
        BY <1>3, <1>6, <1>8, Zenon
      <2>2. QED
        BY <1>7, <2>1, Zenon
    <1>10. UNCHANGED <<chPool, chInited, chSock, chOpened, chClosed, chReqs, chPc,
                       chCall, chTry, chExec, chLast>>
      BY DEF RecvRead
    <1>11. Len(chBuf') <= ChBufCap
      BY <1>2, <1>4, <1>7
    <1>12. QED
      BY <1>1, <1>4, <1>7, <1>8, <1>9, <1>10, <1>11, Zenon

\* What the server's answer adds to the connection.
LEMMA ExecuteEffect ==
    ASSUME ChTypes, NEW c \in Conns, Execute(c)
    PROVE  /\ chReqs[c] # <<>> /\ chReqs[c][1] \in Calls
           /\ UNCHANGED <<chPool, chInited, chSock, chBuf, chOpened, chClosed, chPc,
                          chCall, chTry, chLast>>
           /\ chExec' = [chExec EXCEPT ![chReqs[c][1]] = @ + 1]
           /\ chReqs' = [chReqs EXCEPT ![c] = Tail(@)]
           /\ chWire' \in [Conns -> Seq(Part)]
           /\ \A d \in Conns : d # c => chWire'[d] = chWire[d]
           /\ \E kind \in AnswerKinds :
                 chSock = c => chWire'[c] = chWire[c] \o Answer(chReqs[c][1], kind)
    <1>1. chReqs[c] \in Seq(Calls) /\ chReqs[c] # <<>>
      BY DEF ChTypes, ChTypeOK, Execute
    <1>2. Head(chReqs[c]) = chReqs[c][1] /\ chReqs[c][1] \in Calls
      BY <1>1
    <1>3. PICK kind \in AnswerKinds :
            chWire' = IF chSock = c THEN [chWire EXCEPT ![c] = @ \o Answer(chReqs[c][1], kind)] ELSE chWire
      BY <1>2 DEF Execute
    <1>4. Answer(chReqs[c][1], kind) \in Seq(Part)
      BY <1>2, AnswerParts
    <1>5. chWire \in [Conns -> Seq(Part)]
      BY DEF ChTypes, ChTypeOK
    <1>6. chWire[c] \o Answer(chReqs[c][1], kind) \in Seq(Part)
      BY <1>4, <1>5
    <1>7. chWire' \in [Conns -> Seq(Part)] /\ \A d \in Conns : d # c => chWire'[d] = chWire[d]
      BY <1>3, <1>5, <1>6
    <1>8. chSock = c => chWire'[c] = chWire[c] \o Answer(chReqs[c][1], kind)
      BY <1>3, <1>5
    <1>9. QED
      BY <1>1, <1>2, <1>7, <1>8 DEF Execute

\* Initially.
LEMMA ChInvInit == ChInit => ChInv
    <1> SUFFICES ASSUME ChInit PROVE ChInv
      OBVIOUS
    <1> USE ChConstants DEF ChInit
    <1>1. ChTypes
      <2>1. chLast \in [code : Codes, from : 0..ChMaxCalls]
        BY DEF Codes
      <2>2. chPool \in BOOLEAN /\ chInited \in BOOLEAN
        OBVIOUS
      <2>3. QED
        BY <2>1, <2>2 DEF ChTypes, ChTypeOK
    <1>2. ChPlaces /\ ChData /\ ChResult
      BY DEF ChPlaces, ChData, ChResult
    <1>3. ChSent
      <2>1. ASSUME NEW k \in Calls
            PROVE  chExec[k] + Cardinality(Holding(k)) <= Attempts(k)
        <3>1. Holding(k) = {}
          BY DEF Holding
        <3>2. Cardinality(Holding(k)) = 0
          BY <3>1, FS_EmptySet
        <3>3. QED
          BY <3>2 DEF Attempts
      <2>2. QED
        BY <2>1 DEF ChSent
    <1>4. QED
      BY <1>1, <1>2, <1>3 DEF ChInv

\* The types.
LEMMA ChTypesStep ==
    ASSUME ChInv, ChNext
    PROVE  ChTypes'
    <1> USE ChConstants DEF ChInv, ChTypes, ChTypeOK
    <1>1. CASE Call \/ ConnectOk \/ InitFailed \/ SendReConnect
      <2>1. CASE Call
        BY <2>1 DEF Call
      <2>2. CASE ConnectOk
        <3>1. chOpened + 1 \in Conns
          BY <2>2 DEF ConnectOk, Conns
        <3>2. chBuf' \in Seq(Part) /\ Len(chBuf') <= ChBufCap
          <4>1. chBuf' = chBuf \/ chBuf' = <<>>
            BY <2>2 DEF ConnectOk
          <4>2. <<>> \in Seq(Part) /\ Len(<<>>) <= ChBufCap
            OBVIOUS
          <4>3. QED
            BY <4>1, <4>2
        <3>3. chOpened' \in 0..ChMaxConns
          BY <2>2 DEF ConnectOk
        <3>4. QED
          BY <2>2, <3>1, <3>2, <3>3 DEF ConnectOk
      <2>3. CASE InitFailed
        BY <2>3 DEF InitFailed
      <2>4. CASE SendReConnect
        BY <2>4 DEF SendReConnect
      <2>5. QED
        BY <1>1, <2>1, <2>2, <2>3, <2>4
    <1>2. CASE SendOk
      <2>1. chSock \in Conns /\ chCall \in Calls /\ chReqs[chSock] \in Seq(Calls)
        BY <1>2 DEF SendOk, ChPlaces, Calls
      <2>2. Append(chReqs[chSock], chCall) \in Seq(Calls)
        BY <2>1
      <2>3. chReqs' \in [Conns -> Seq(Calls)]
        BY <1>2, <2>1, <2>2 DEF SendOk
      <2>4. QED
        BY <1>2, <2>3 DEF SendOk
    <1>3. CASE RecvRead
      BY <1>3, ReadEffect
    <1>4. CASE Fails
      <2>1. PICK code \in ConnErrors : FailsTo(code)
        BY <1>4, FailsEffect
      <2>2. chLast' \in [code : Codes, from : 0..ChMaxCalls]
        BY <2>1 DEF FailsTo, Codes
      <2>3. /\ chSock' \in {NoFd, DeadFd} /\ chBuf' = <<>>
            /\ chWire' \in [Conns -> Seq(Part)]
        BY <1>4, FailsEffect
      <2>4. QED
        BY <2>1, <2>2, <2>3, SMTT(30) DEF FailsTo
    <1>5. CASE Keeps
      <2>1. chBuf' \in Seq(Part) /\ Len(chBuf') <= ChBufCap
            /\ chLast' \in [code : Codes, from : 0..ChMaxCalls]
        <3>1. CASE RecvAnswer
          BY <3>1, AnswerTaken, SMTT(30) DEF Codes
        <3>2. CASE RecvBadFrame \/ RecvBufFull
          BY <3>2, BufferStuck DEF Codes
        <3>3. QED
          BY <1>5, <3>1, <3>2 DEF Keeps
      <2>2. QED
        BY <1>5, <2>1, KeepsEffect
    <1>6. ASSUME NEW c \in Conns, Execute(c)
          PROVE  ChTypes'
      <2>1. Tail(chReqs[c]) \in Seq(Calls)
        BY <1>6, ExecuteEffect
      <2>2. chReqs' \in [Conns -> Seq(Calls)]
        <3>1. chReqs' = [chReqs EXCEPT ![c] = Tail(@)]
          BY <1>6, ExecuteEffect
        <3>2. QED
          BY <2>1, <3>1
      <2>3. chExec' \in [Calls -> Nat]
        <3>1. chReqs[c][1] \in Calls /\ chExec' = [chExec EXCEPT ![chReqs[c][1]] = @ + 1]
          BY <1>6, ExecuteEffect
        <3>2. chExec \in [Calls -> Nat]
          OBVIOUS
        <3>3. QED
          BY <3>1, <3>2, CountOneMore
      <2>4. QED
        BY <1>6, <2>2, <2>3, ExecuteEffect
    <1>7. ASSUME NEW c \in Conns, PeerClose(c)
          PROVE  ChTypes'
      BY <1>7, SMTT(30) DEF PeerClose
    <1>8. QED
      BY <1>1, <1>2, <1>3, <1>4, <1>5, <1>6, <1>7, NextCases

\* Where the channel is.
LEMMA ChPlacesStep ==
    ASSUME ChInv, ChNext
    PROVE  ChPlaces'
    <1> USE ChConstants DEF ChInv, ChPlaces
    <1>0. chOpened \in Nat /\ chCall \in Nat /\ chReqs \in [Conns -> Seq(Calls)]
          /\ chWire \in [Conns -> Seq(Part)]
      BY DEF ChTypes, ChTypeOK
    <1>1. CASE Call
      BY <1>0, <1>1 DEF Call
    <1>2. CASE ConnectOk
      <2>1. chOpened + 1 \in Conns
        BY <1>0, <1>2 DEF ConnectOk, Conns
      <2>2. chBuf = <<>> /\ chBuf' = <<>>
        BY <1>2 DEF ConnectOk
      <2>3. QED
        BY <1>0, <1>2, <2>1, <2>2 DEF ConnectOk
    <1>3. CASE InitFailed
      BY <1>0, <1>3 DEF InitFailed
    <1>4. CASE SendReConnect
      BY <1>0, <1>4 DEF SendReConnect
    <1>5. CASE SendOk
      BY <1>0, <1>5 DEF SendOk
    <1>6. CASE RecvRead
      BY <1>0, <1>6, ReadEffect
    <1>7. CASE Fails
      <2>1. PICK code \in ConnErrors : FailsTo(code)
        BY <1>7, FailsEffect
      <2>2. /\ chSock' \in {NoFd, DeadFd} /\ chBuf' = <<>> /\ chPc # "idle"
            /\ \A c \in Conns : chWire[c] = <<>> => chWire'[c] = <<>>
        BY <1>7, FailsEffect
      <2>3. QED
        BY <1>0, <2>1, <2>2 DEF FailsTo
    <1>8. CASE Keeps
      <2>1. chSock' = chSock /\ chOpened' = chOpened /\ chReqs' = chReqs /\ chWire' = chWire
            /\ chPc = "recv" /\ chPc' = "idle" /\ chCall' = chCall
        BY <1>8, KeepsEffect
      <2>2. ~chInited' => ~chInited
        BY <1>8, KeepsEffect
      <2>3. QED
        BY <1>0, <2>1, <2>2
    <1>9. ASSUME NEW c \in Conns, Execute(c)
          PROVE  ChPlaces'
      <2>1. c <= chOpened
        BY <1>0, <1>9, ExecuteEffect
      <2>2. QED
        BY <1>0, <1>9, <2>1, ExecuteEffect
    <1>10. ASSUME NEW c \in Conns, PeerClose(c)
           PROVE  ChPlaces'
      BY <1>0, <1>10 DEF PeerClose
    <1>11. QED
      BY <1>1, <1>2, <1>3, <1>4, <1>5, <1>6, <1>7, <1>8, <1>9, <1>10, NextCases

\* What is on the connection in use.
LEMMA ChDataStep ==
    ASSUME ChInv, ChNext
    PROVE  ChData'
    <1> USE ChConstants DEF ChInv
    <1>0. /\ chOpened \in Nat /\ chCall \in Nat /\ chBuf \in Seq(Part)
          /\ chReqs \in [Conns -> Seq(Calls)] /\ chWire \in [Conns -> Seq(Part)]
      BY DEF ChTypes, ChTypeOK
    <1>1. CASE Call
      BY <1>1 DEF Call, ChData, Blocked, Clean
    <1>2. CASE ConnectOk
      <2>1. chOpened + 1 \in Conns /\ chSock' = chOpened + 1
        BY <1>0, <1>2 DEF ConnectOk, Conns
      <2>2. chBuf' = <<>>
        BY <1>2 DEF ConnectOk, ChPlaces
      <2>3. chReqs[chOpened + 1] = <<>> /\ chWire[chOpened + 1] = <<>>
        BY <1>0, <2>1 DEF ChPlaces
      <2>4. QED
        BY <1>2, <2>1, <2>2, <2>3 DEF ConnectOk, ChData, Clean
    <1>3. CASE InitFailed
      BY <1>3 DEF InitFailed, ChData
    <1>4. CASE SendReConnect
      BY <1>4 DEF SendReConnect, ChData
    <1>5. CASE SendOk
      <2>1. CASE Blocked
        BY <1>5, <2>1 DEF SendOk, ChData, Blocked
      <2>2. CASE Clean
        <3>1. chSock \in Conns
          BY <1>5 DEF SendOk
        <3>2. chReqs'[chSock] = <<>> \/ chReqs'[chSock] = Append(<<>>, chCall)
          BY <1>0, <1>5, <2>2, <3>1 DEF SendOk, Clean
        <3>3. Append(<<>>, chCall) = <<chCall>>
          OBVIOUS
        <3>4. QED
          BY <1>5, <2>2, <3>2, <3>3 DEF SendOk, ChData, Clean, Waiting
      <2>3. QED
        BY <1>5, <2>1, <2>2 DEF SendOk, ChData
    <1>6. CASE RecvRead
      <2>1. /\ chSock \in Conns /\ chPc = "recv" /\ chPc' = chPc /\ chSock' = chSock
            /\ chReqs' = chReqs /\ chExec' = chExec /\ chCall' = chCall
            /\ chBuf' \in Seq(Part) /\ chWire' \in [Conns -> Seq(Part)]
        BY <1>6, ReadEffect
      <2>2. PICK n \in Nat \ {0} :
              /\ n <= Len(chWire[chSock])
              /\ Len(chBuf') = Len(chBuf) + n
              /\ Len(chWire'[chSock]) = Len(chWire[chSock]) - n
              /\ \A i \in 1..(Len(chBuf) + n) :
                    chBuf'[i] = IF i <= Len(chBuf) THEN chBuf[i] ELSE chWire[chSock][i - Len(chBuf)]
              /\ \A i \in 1..(Len(chWire[chSock]) - n) : chWire'[chSock][i] = chWire[chSock][n + i]
        BY <1>6, ReadEffect
      <2>3. Len(chBuf) \in Nat /\ Len(chWire[chSock]) \in Nat
        BY <1>0, <2>1
      <2>4. CASE Blocked
        <3>1. Len(chBuf) >= 1
          BY <1>0, <2>3, <2>4 DEF Blocked
        <3>2. chBuf'[1] = chBuf[1] /\ chBuf' # <<>>
          BY <2>1, <2>2, <2>3, <3>1
        <3>3. QED
          BY <2>4, <3>2 DEF ChData, Blocked
      <2>5. CASE Waiting
        <3>1. Len(chWire[chSock]) = 0
          BY <2>5 DEF Waiting
        <3>2. QED
          BY <2>2, <3>1
      <2>6. ASSUME NEW kind \in AnswerKinds, Arriving(kind)
            PROVE  ChData'
        <3>1. PartsOf(kind) \in Nat
          BY PartsOfType
        <3>2. Len(chBuf') + Len(chWire'[chSock]) = PartsOf(kind)
          <4>1. Len(chBuf) + Len(chWire[chSock]) = PartsOf(kind)
            BY <2>6 DEF Arriving
          <4>2. Len(chBuf') = Len(chBuf) + n /\ Len(chWire'[chSock]) = Len(chWire[chSock]) - n
            BY <2>2
          <4>3. (Len(chBuf) + n) + (Len(chWire[chSock]) - n) = Len(chBuf) + Len(chWire[chSock])
            <5>1. n \in Nat
              OBVIOUS
            <5>2. QED
              BY <2>3, <5>1, MovedParts, ZenonT(60)
          <4>4. QED
            BY <4>1, <4>2, <4>3, Zenon
        <3>3. PartsAre(chBuf', 0, chCall, kind)
          <4> SUFFICES ASSUME NEW i \in 1..Len(chBuf')
                       PROVE  chBuf'[i].call = chCall /\ chBuf'[i].kind = kind /\ chBuf'[i].part = 0 + i
            BY DEF PartsAre
          <4>1. CASE i <= Len(chBuf)
            <5>1. i \in 1..Len(chBuf) /\ chBuf'[i] = chBuf[i]
              BY <2>2, <2>3, <4>1
            <5>2. QED
              BY <2>6, <5>1 DEF Arriving, PartsAre
          <4>2. CASE i > Len(chBuf)
            <5>1. i - Len(chBuf) \in 1..Len(chWire[chSock]) /\ chBuf'[i] = chWire[chSock][i - Len(chBuf)]
              BY <2>2, <2>3, <4>2
            <5>2. Len(chBuf) + (i - Len(chBuf)) = 0 + i
              BY <2>2, <2>3
            <5>3. QED
              BY <2>6, <5>1, <5>2 DEF Arriving, PartsAre
          <4>3. QED
            BY <2>2, <2>3, <4>1, <4>2
        <3>4. PartsAre(chWire'[chSock], Len(chBuf'), chCall, kind)
          <4> SUFFICES ASSUME NEW i \in 1..Len(chWire'[chSock])
                       PROVE  /\ chWire'[chSock][i].call = chCall /\ chWire'[chSock][i].kind = kind
                              /\ chWire'[chSock][i].part = Len(chBuf') + i
            BY DEF PartsAre
          <4>1. n + i \in 1..Len(chWire[chSock]) /\ chWire'[chSock][i] = chWire[chSock][n + i]
            BY <2>2, <2>3
          <4>2. Len(chBuf) + (n + i) = Len(chBuf') + i
            BY <2>2, <2>3
          <4>3. QED
            BY <2>6, <4>1, <4>2 DEF Arriving, PartsAre
        <3>5. Arriving(kind)'
          BY <2>1, <2>6, <3>2, <3>3, <3>4 DEF Arriving
        <3>6. QED
          BY <2>1, <3>5 DEF ChData
      <2>7. QED
        BY <2>1, <2>4, <2>5, <2>6 DEF ChData
    <1>7. CASE Fails
      BY <1>7, FailsEffect DEF ChData
    <1>8. CASE Keeps
      <2>1. chSock' = chSock /\ chReqs' = chReqs /\ chWire' = chWire /\ chPc' = "idle"
        BY <1>8, KeepsEffect
      <2>2. CASE RecvAnswer
        BY <2>1, <2>2, AnswerTaken DEF ChData, Clean
      <2>3. CASE RecvBadFrame \/ RecvBufFull
        BY <2>1, <2>3, BufferStuck DEF ChData, Blocked
      <2>4. QED
        BY <1>8, <2>2, <2>3 DEF Keeps
    <1>9. ASSUME NEW c \in Conns, Execute(c)
          PROVE  ChData'
      <2>1. /\ chReqs[c] # <<>> /\ chReqs[c][1] \in Calls
            /\ chSock' = chSock /\ chBuf' = chBuf /\ chPc' = chPc /\ chCall' = chCall
            /\ chReqs' = [chReqs EXCEPT ![c] = Tail(@)]
            /\ \A d \in Conns : d # c => chWire'[d] = chWire[d]
        BY <1>9, ExecuteEffect
      <2>2. chExec' = [chExec EXCEPT ![chReqs[c][1]] = @ + 1]
        BY <1>9, ExecuteEffect
      <2>3. chSock \in Conns /\ chPc = "recv" => chCall \in Calls
        BY <1>0 DEF ChPlaces, ChTypes, ChTypeOK, Calls
      <2>4. \A k \in Calls : chExec[k] >= 1 => chExec'[k] >= 1
        BY <2>1, <2>2 DEF ChTypes, ChTypeOK
      <2>5. CASE chSock \notin Conns
        BY <2>1, <2>5 DEF ChData
      <2>6. CASE Blocked
        BY <2>1, <2>6 DEF ChData, Blocked
      <2>7. CASE chSock \in Conns /\ chSock # c /\ ~Blocked
        <3>1. chReqs'[chSock] = chReqs[chSock] /\ chWire'[chSock] = chWire[chSock]
          BY <1>0, <2>1, <2>7
        <3>2. CASE chPc # "recv"
          BY <2>1, <2>7, <3>1, <3>2 DEF ChData, Clean
        <3>3. CASE chPc = "recv" /\ Waiting
          BY <2>1, <2>7, <3>1, <3>3 DEF ChData, Waiting
        <3>4. ASSUME chPc = "recv", NEW kind \in AnswerKinds, Arriving(kind)
              PROVE  ChData'
          <4>1. chExec'[chCall] >= 1
            BY <2>3, <2>4, <2>7, <3>4 DEF Arriving
          <4>2. Arriving(kind)'
            BY <2>1, <3>1, <3>4, <4>1 DEF Arriving
          <4>3. QED
            BY <2>1, <3>4, <4>2 DEF ChData
        <3>5. QED
          BY <2>7, <3>2, <3>3, <3>4 DEF ChData
      <2>8. CASE chSock = c /\ ~Blocked
        <3>1. chPc = "recv" /\ Waiting
          BY <2>1, <2>8 DEF ChData, Clean, Arriving
        <3>2. chReqs[c] = <<chCall>> /\ chReqs[c][1] = chCall
          BY <2>1, <2>8, <3>1 DEF Waiting
        <3>3. PICK kind \in AnswerKinds : chWire'[c] = chWire[c] \o Answer(chReqs[c][1], kind)
          BY <1>9, <2>8, ExecuteEffect
        <3>4. chCall \in Calls
          BY <2>1, <3>2
        <3>5. /\ Answer(chCall, kind) \in Seq(Part)
              /\ Len(Answer(chCall, kind)) = PartsOf(kind)
              /\ PartsAre(Answer(chCall, kind), 0, chCall, kind)
          BY <3>4, AnswerParts
        <3>6. chWire'[c] = Answer(chCall, kind)
          BY <2>8, <3>1, <3>2, <3>3, <3>5, ConcatEmptySeq DEF Waiting
        <3>7. chReqs'[c] = <<>>
          BY <1>0, <2>1, <3>2
        <3>8. chExec'[chCall] >= 1
          BY <2>2, <3>2, <3>4 DEF ChTypes, ChTypeOK
        <3>9. chBuf' = <<>> /\ Len(chBuf') = 0
          BY <2>1, <3>1 DEF Waiting
        <3>10. PartsAre(chBuf', 0, chCall, kind) /\ PartsAre(chWire'[c], Len(chBuf'), chCall, kind)
          BY <3>5, <3>6, <3>9 DEF PartsAre
        <3>11. Len(chBuf') + Len(chWire'[c]) = PartsOf(kind)
          BY <3>5, <3>6, <3>9, PartsOfType
        <3>12. Arriving(kind)'
          BY <2>1, <2>8, <3>7, <3>8, <3>10, <3>11 DEF Arriving
        <3>13. QED
          BY <2>1, <3>1, <3>12 DEF ChData
      <2>9. QED
        BY <2>5, <2>6, <2>7, <2>8
    <1>10. ASSUME NEW c \in Conns, PeerClose(c)
           PROVE  ChData'
      <2>1. /\ chSock' = chSock /\ chBuf' = chBuf /\ chWire' = chWire /\ chPc' = chPc
            /\ chCall' = chCall /\ chExec' = chExec
            /\ \A d \in Conns : chReqs'[d] = chReqs[d] \/ chReqs'[d] = <<>>
        BY <1>0, <1>10 DEF PeerClose
      <2>2. CASE Blocked \/ chSock \notin Conns
        BY <2>1, <2>2 DEF ChData, Blocked
      <2>3. CASE chSock \in Conns /\ chPc # "recv" /\ Clean
        BY <2>1, <2>3 DEF ChData, Clean
      <2>4. CASE chSock \in Conns /\ chPc = "recv" /\ Waiting
        BY <2>1, <2>4 DEF ChData, Waiting
      <2>5. ASSUME chSock \in Conns, chPc = "recv", NEW kind \in AnswerKinds, Arriving(kind)
            PROVE  ChData'
        <3>1. Arriving(kind)'
          BY <2>1, <2>5 DEF Arriving
        <3>2. QED
          BY <2>1, <2>5, <3>1 DEF ChData
      <2>6. QED
        BY <2>2, <2>3, <2>4, <2>5 DEF ChData
    <1>11. QED
      BY <1>1, <1>2, <1>3, <1>4, <1>5, <1>6, <1>7, <1>8, <1>9, <1>10, NextCases

\* A set of connections is finite.
LEMMA HoldingFinite ==
    ASSUME NEW S \in SUBSET Conns
    PROVE  IsFiniteSet(S) /\ Cardinality(S) \in Nat
    <1>1. IsFiniteSet(1..ChMaxConns)
      BY ChConstants, FS_Interval
    <1>2. QED
      BY <1>1, FS_Subset, FS_CardinalityType DEF Conns

\* Small facts about numbers.
LEMMA LeqTrans ==
    ASSUME NEW l \in Nat, NEW m \in Nat, NEW n \in Nat, l <= m, m <= n
    PROVE  l <= n
    OBVIOUS

\* A sum stays within a limit that does not go down.
LEMMA SumStays ==
    ASSUME NEW e \in Nat, NEW m \in Nat, NEW n \in Nat, NEW a \in Int, NEW b \in Int,
           n <= m, e + m <= a, a <= b
    PROVE  e + n <= b
    OBVIOUS

\* Requests that stay, or get fewer, with the same counts.
LEMMA SentShrinks ==
    ASSUME ChInv, ChTypes',
           \A c \in Conns : chReqs'[c] = chReqs[c] \/ chReqs'[c] = <<>>,
           chExec' = chExec, chCall' >= chCall,
           \A k \in Calls : Attempts(k) <= Attempts(k)',
           \A c \in Conns : chPc' = "send" /\ c = chSock' =>
              \A i \in 1..Len(chReqs'[c]) : chReqs'[c][i] < chCall'
    PROVE  ChSent'
    <1> USE ChConstants
    <1>0. /\ chReqs \in [Conns -> Seq(Calls)] /\ chReqs' \in [Conns -> Seq(Calls)]
          /\ chCall \in Nat /\ chCall' \in Nat
          /\ chExec \in [Calls -> Nat] /\ chTry \in {1, 2} /\ chTry' \in {1, 2}
      BY ChNumbersHold DEF ChInv, ChNumbers
    <1>1. ASSUME NEW c \in Conns, NEW i \in 1..Len(chReqs'[c])
          PROVE  /\ chReqs'[c][i] <= chCall'
                 /\ chPc' = "send" /\ c = chSock' => chReqs'[c][i] < chCall'
                 /\ \A j \in 1..Len(chReqs'[c]) : i < j => chReqs'[c][i] < chReqs'[c][j]
      <2>1. chReqs'[c] # <<>>
        BY <1>1
      <2>2. chReqs'[c] = chReqs[c]
        BY <2>1
      <2>3. chReqs[c][i] \in Nat
        <3>1. chReqs[c] \in Seq(Calls) /\ i \in 1..Len(chReqs[c])
          BY <1>0, <1>1, <2>2
        <3>2. chReqs[c][i] \in Calls
          BY <3>1, ElementOfSeq
        <3>3. QED
          BY <3>2
      <2>4. chReqs[c][i] <= chCall /\ \A j \in 1..Len(chReqs[c]) : i < j => chReqs[c][i] < chReqs[c][j]
        BY <1>1, <2>2 DEF ChInv, ChSent
      <2>5. chReqs[c][i] <= chCall'
        <3>1. chCall <= chCall' /\ chCall \in Nat /\ chCall' \in Nat
          BY <1>0
        <3>2. QED
          BY <2>3, <2>4, <3>1, LeqTrans
      <2>6. QED
        BY <2>2, <2>4, <2>5
    <1>2. ASSUME NEW k \in Calls
          PROVE  chExec'[k] + Cardinality(Holding(k)') <= Attempts(k)'
      <2>1. Holding(k) \in SUBSET Conns /\ Holding(k)' \in SUBSET Conns /\ Holding(k)' \subseteq Holding(k)
        <3>1. Holding(k) \in SUBSET Conns /\ Holding(k)' \in SUBSET Conns
          BY DEF Holding
        <3>2. ASSUME NEW c \in Holding(k)'
              PROVE  c \in Holding(k)
          <4>1. c \in Conns
            BY <3>1
          <4>2. PICK i \in 1..Len(chReqs'[c]) : chReqs'[c][i] = k
            BY <3>2 DEF Holding
          <4>3. chReqs'[c] # <<>>
            BY <4>2
          <4>4. chReqs'[c] = chReqs[c]
            BY <4>1, <4>3
          <4>5. QED
            BY <4>1, <4>2, <4>4 DEF Holding
        <3>3. QED
          BY <3>1, <3>2
      <2>2. /\ IsFiniteSet(Holding(k)) /\ Cardinality(Holding(k)) \in Nat
            /\ Cardinality(Holding(k)') \in Nat
        BY <2>1, HoldingFinite
      <2>3. Cardinality(Holding(k)') <= Cardinality(Holding(k))
        BY <2>1, <2>2, FS_Subset
      <2>4. chExec[k] + Cardinality(Holding(k)) <= Attempts(k)
        BY DEF ChInv, ChSent
      <2>5. Attempts(k) \in Int /\ Attempts(k)' \in Int /\ chExec[k] \in Nat
        BY <1>0 DEF Attempts
      <2>6. Attempts(k) <= Attempts(k)' /\ chExec'[k] = chExec[k]
        OBVIOUS
      <2>7. QED
        BY <2>2, <2>3, <2>4, <2>5, <2>6, SumStays
    <1>3. QED
      BY <1>1, <1>2 DEF ChSent

\* A request that was written whole is one more of this call, on a
\* connection that holds none of it.
LEMMA SendSent ==
    ASSUME ChInv, SendOk, ChTypes'
    PROVE  ChSent'
    <1> USE ChConstants
    <1>0. /\ chReqs \in [Conns -> Seq(Calls)] /\ chReqs' \in [Conns -> Seq(Calls)]
          /\ chCall \in Nat /\ chExec \in [Calls -> Nat] /\ chTry \in {1, 2}
      BY ChNumbersHold DEF ChInv, ChNumbers
    <1>1. /\ chPc = "send" /\ chPc' = "recv" /\ chSock \in Conns /\ chSock' = chSock
          /\ chCall' = chCall /\ chTry' = chTry /\ chExec' = chExec
      BY DEF SendOk
    <1>2. \A k \in Calls : Attempts(k) <= Attempts(k)' /\ (k = chCall => Attempts(k)' = Attempts(k) + 1)
      BY <1>0, <1>1 DEF Attempts
    <1>3. CASE chReqs' = chReqs
      BY <1>0, <1>1, <1>2, <1>3, SentShrinks
    <1>4. CASE chReqs' = [chReqs EXCEPT ![chSock] = Append(@, chCall)]
      <2> DEFINE old == chReqs[chSock]
      <2>1. old \in Seq(Calls) /\ Len(old) \in Nat
        BY <1>0, <1>1
      <2>2. /\ Len(chReqs'[chSock]) = Len(old) + 1 /\ chReqs'[chSock][Len(old) + 1] = chCall
            /\ \A i \in 1..Len(old) : chReqs'[chSock][i] = old[i]
        BY <1>0, <1>1, <1>4, <2>1
      <2>3. \A d \in Conns : d # chSock => chReqs'[d] = chReqs[d]
        BY <1>0, <1>4
      <2>4. \A i \in 1..Len(old) : old[i] \in Nat /\ old[i] < chCall
        <3>1. \A i \in 1..Len(old) : old[i] \in Calls
          BY <2>1
        <3>2. \A i \in 1..Len(old) : old[i] < chCall
          BY <1>1, Zenon DEF ChInv, ChSent
        <3>3. QED
          BY <3>1, <3>2
      <2>5. ASSUME NEW d \in Conns, NEW i \in 1..Len(chReqs'[d])
            PROVE  /\ chReqs'[d][i] <= chCall
                   /\ \A j \in 1..Len(chReqs'[d]) : i < j => chReqs'[d][i] < chReqs'[d][j]
        <3>1. CASE d # chSock
          <4>1. chReqs'[d] = chReqs[d]
            BY <2>3, <3>1
          <4>2. QED
            BY <2>5, <4>1 DEF ChInv, ChSent
        <3>2. CASE d = chSock /\ i <= Len(old)
          <4>1. i \in 1..Len(old) /\ chReqs'[d][i] = old[i]
            BY <2>1, <2>2, <2>5, <3>2
          <4>2. ASSUME NEW j \in 1..Len(chReqs'[d]), i < j
                PROVE  chReqs'[d][i] < chReqs'[d][j]
            <5>1. CASE j <= Len(old)
              <6>1. j \in 1..Len(old) /\ chReqs'[d][j] = old[j]
                BY <2>1, <2>2, <3>2, <5>1
              <6>2. QED
                BY <1>1, <4>1, <4>2, <6>1 DEF ChInv, ChSent
            <5>2. CASE j = Len(old) + 1
              BY <2>2, <2>4, <3>2, <4>1, <5>2
            <5>3. QED
              BY <2>1, <2>2, <3>2, <5>1, <5>2
          <4>3. chReqs'[d][i] <= chCall
            BY <1>0, <2>4, <4>1
          <4>4. QED
            BY <4>2, <4>3
        <3>3. CASE d = chSock /\ i = Len(old) + 1
          BY <1>0, <2>1, <2>2, <3>3
        <3>4. QED
          BY <2>1, <2>2, <2>5, <3>1, <3>2, <3>3
      <2>6. ASSUME NEW k \in Calls
            PROVE  chExec'[k] + Cardinality(Holding(k)') <= Attempts(k)'
        <3>1. /\ Holding(k) \in SUBSET Conns /\ IsFiniteSet(Holding(k))
              /\ Cardinality(Holding(k)) \in Nat /\ Cardinality(Holding(k)') \in Nat
          BY HoldingFinite DEF Holding
        <3>2. chExec[k] + Cardinality(Holding(k)) <= Attempts(k)
          BY DEF ChInv, ChSent
        <3>3. Attempts(k) \in Int /\ Attempts(k)' \in Int /\ chExec[k] \in Nat /\ chExec'[k] = chExec[k]
          BY <1>0, <1>1 DEF Attempts
        <3>4. CASE k = chCall
          <4>1. Holding(k)' \subseteq Holding(k) \cup {chSock}
            BY <2>3 DEF Holding
          <4>2. /\ IsFiniteSet(Holding(k) \cup {chSock})
                /\ Cardinality(Holding(k) \cup {chSock}) <= Cardinality(Holding(k)) + 1
            BY <3>1, FS_AddElement
          <4>3. Cardinality(Holding(k)') <= Cardinality(Holding(k) \cup {chSock})
            BY <4>1, <4>2, FS_Subset
          <4>4. Cardinality(Holding(k) \cup {chSock}) \in Nat
            BY <4>2, FS_CardinalityType
          <4>5. Attempts(k)' = Attempts(k) + 1
            BY <1>2, <3>4
          <4>6. QED
            BY <3>1, <3>2, <3>3, <4>2, <4>3, <4>4, <4>5
        <3>5. CASE k # chCall
          <4>1. ASSUME NEW d \in Holding(k)'
                PROVE  d \in Holding(k)
            <5>1. d \in Conns /\ \E i \in 1..Len(chReqs'[d]) : chReqs'[d][i] = k
              BY <4>1 DEF Holding
            <5>2. PICK i \in 1..Len(chReqs'[d]) : chReqs'[d][i] = k
              BY <5>1
            <5>3. CASE d # chSock
              BY <2>3, <5>1, <5>2, <5>3 DEF Holding
            <5>4. CASE d = chSock
              <6>1. i # Len(old) + 1
                BY <2>2, <3>5, <5>2, <5>4
              <6>2. i \in 1..Len(old) /\ old[i] = k
                BY <2>1, <2>2, <5>2, <5>4, <6>1, SMTT(30)
              <6>3. QED
                BY <1>1, <5>4, <6>2 DEF Holding
            <5>5. QED
              BY <5>3, <5>4
          <4>2. Cardinality(Holding(k)') <= Cardinality(Holding(k))
            BY <3>1, <4>1, FS_Subset
          <4>3. Attempts(k) <= Attempts(k)'
            BY <1>2
          <4>4. QED
            BY <3>1, <3>2, <3>3, <4>2, <4>3
        <3>6. QED
          BY <3>4, <3>5
      <2>7. QED
        BY <1>1, <2>5, <2>6 DEF ChSent
    <1>5. QED
      BY <1>3, <1>4 DEF SendOk

\* The server executes a request that it then no longer holds.
LEMMA ExecuteSent ==
    ASSUME ChInv, NEW c \in Conns, Execute(c), ChTypes'
    PROVE  ChSent'
    <1> USE ChConstants
    <1>0. /\ chReqs \in [Conns -> Seq(Calls)] /\ chReqs' \in [Conns -> Seq(Calls)]
          /\ chCall \in Nat /\ chExec \in [Calls -> Nat] /\ chTry \in {1, 2}
      BY ChNumbersHold DEF ChInv, ChNumbers
    <1>1. /\ chReqs[c] # <<>> /\ chReqs[c][1] \in Calls
          /\ chPc' = chPc /\ chSock' = chSock /\ chCall' = chCall /\ chTry' = chTry
          /\ chReqs' = [chReqs EXCEPT ![c] = Tail(@)]
      BY ExecuteEffect DEF ChInv
    <1>2. chExec' = [chExec EXCEPT ![chReqs[c][1]] = @ + 1]
      BY ExecuteEffect DEF ChInv
    <1> DEFINE old == chReqs[c]
    <1>3. old \in Seq(Calls) /\ Len(old) \in Nat /\ Len(old) >= 1
      BY <1>0, <1>1, SMTT(30)
    <1>4. /\ Len(chReqs'[c]) = Len(old) - 1
          /\ \A i \in 1..(Len(old) - 1) : chReqs'[c][i] = old[i + 1]
      BY <1>0, <1>1, <1>3, SMTT(30)
    <1>5. \A d \in Conns : d # c => chReqs'[d] = chReqs[d]
      BY <1>0, <1>1
    <1>6. ASSUME NEW d \in Conns, NEW i \in 1..Len(chReqs'[d])
          PROVE  /\ chReqs'[d][i] <= chCall
                 /\ chPc = "send" /\ d = chSock => chReqs'[d][i] < chCall
                 /\ \A j \in 1..Len(chReqs'[d]) : i < j => chReqs'[d][i] < chReqs'[d][j]
      <2>1. CASE d # c
        <3>1. chReqs'[d] = chReqs[d]
          BY <1>5, <2>1
        <3>2. QED
          BY <1>6, <3>1 DEF ChInv, ChSent
      <2>2. CASE d = c
        <3>1. i \in 1..(Len(old) - 1) /\ i + 1 \in 1..Len(old) /\ chReqs'[d][i] = old[i + 1]
          BY <1>3, <1>4, <1>6, <2>2, SMTT(30)
        <3>2. /\ old[i + 1] <= chCall /\ (chPc = "send" /\ d = chSock => old[i + 1] < chCall)
              /\ \A j \in 1..Len(old) : i + 1 < j => old[i + 1] < old[j]
          BY <2>2, <3>1 DEF ChInv, ChSent
        <3>3. ASSUME NEW j \in 1..Len(chReqs'[d]), i < j
              PROVE  chReqs'[d][i] < chReqs'[d][j]
          <4>1. j + 1 \in 1..Len(old) /\ chReqs'[d][j] = old[j + 1] /\ i + 1 < j + 1
            BY <1>3, <1>4, <2>2, <3>1, <3>3, SMTT(30)
          <4>2. QED
            BY <3>1, <3>2, <4>1
        <3>4. QED
          BY <3>1, <3>2, <3>3
      <2>3. QED
        BY <2>1, <2>2
    <1>7. ASSUME NEW k \in Calls
          PROVE  chExec'[k] + Cardinality(Holding(k)') <= Attempts(k)'
      <2>1. /\ Holding(k) \in SUBSET Conns /\ IsFiniteSet(Holding(k))
            /\ Cardinality(Holding(k)) \in Nat /\ Cardinality(Holding(k)') \in Nat
        BY HoldingFinite DEF Holding
      <2>2. chExec[k] + Cardinality(Holding(k)) <= Attempts(k)
        BY DEF ChInv, ChSent
      <2>3. Attempts(k) \in Int /\ Attempts(k)' = Attempts(k) /\ chExec[k] \in Nat
        BY <1>0, <1>1, SMTT(30) DEF Attempts
      <2>4. ASSUME NEW d \in Holding(k)'
            PROVE  d \in Holding(k) /\ (d = c => k # old[1])
        <3>1. d \in Conns /\ \E i \in 1..Len(chReqs'[d]) : chReqs'[d][i] = k
          BY <2>4 DEF Holding
        <3>2. PICK i \in 1..Len(chReqs'[d]) : chReqs'[d][i] = k
          BY <3>1
        <3>3. CASE d # c
          BY <1>5, <3>1, <3>2, <3>3 DEF Holding
        <3>4. CASE d = c
          <4>1. 1 \in 1..Len(old) /\ i + 1 \in 1..Len(old) /\ old[i + 1] = k /\ 1 < i + 1
            <5>1. i \in 1..(Len(old) - 1)
              BY <1>4, <3>2, <3>4
            <5>2. chReqs'[c][i] = old[i + 1] /\ chReqs'[c][i] = k
              BY <1>4, <3>2, <3>4, <5>1
            <5>3. QED
              BY <1>3, <5>1, <5>2, SMTT(30)
          <4>2. old[1] < old[i + 1] /\ old[1] \in Nat
            BY <1>1, <4>1 DEF ChInv, ChSent
          <4>3. QED
            BY <3>4, <4>1, <4>2, SMTT(30) DEF Holding
        <3>5. QED
          BY <3>3, <3>4
      <2>5. CASE k = old[1]
        <3>1. c \in Holding(k)
          BY <1>3, <2>5 DEF Holding
        <3>2. Holding(k)' \subseteq Holding(k) \ {c}
          BY <2>4, <2>5
        <3>3. /\ IsFiniteSet(Holding(k) \ {c})
              /\ Cardinality(Holding(k) \ {c}) = Cardinality(Holding(k)) - 1
          BY <2>1, <3>1, FS_RemoveElement
        <3>4. Cardinality(Holding(k)') <= Cardinality(Holding(k) \ {c})
          BY <3>2, <3>3, FS_Subset
        <3>5. chExec'[k] = chExec[k] + 1
          BY <1>0, <1>2, <2>5
        <3>6. QED
          BY <2>1, <2>2, <2>3, <3>3, <3>4, <3>5
      <2>6. CASE k # old[1]
        <3>1. Cardinality(Holding(k)') <= Cardinality(Holding(k))
          BY <2>1, <2>4, FS_Subset
        <3>2. chExec'[k] = chExec[k]
          BY <1>0, <1>2, <2>6
        <3>3. QED
          BY <2>1, <2>2, <2>3, <3>1, <3>2
      <2>7. QED
        BY <2>5, <2>6
    <1>8. QED
      BY <1>1, <1>6, <1>7 DEF ChSent

\* The requests that were sent.
LEMMA ChSentStep ==
    ASSUME ChInv, ChNext, ChTypes'
    PROVE  ChSent'
    <1> USE ChConstants
    <1>0. /\ chReqs \in [Conns -> Seq(Calls)] /\ chReqs' \in [Conns -> Seq(Calls)]
          /\ chCall \in Nat /\ chCall' \in Nat
          /\ chExec \in [Calls -> Nat] /\ chTry \in {1, 2} /\ chTry' \in {1, 2}
      BY ChNumbersHold DEF ChInv, ChNumbers
    <1>1. CASE Call
      <2>1. chReqs' = chReqs /\ chExec' = chExec /\ chCall' = chCall + 1 /\ chSock' = chSock
        BY <1>1 DEF Call
      <2>2. \A k \in Calls : Attempts(k) <= Attempts(k)'
        BY <1>0, <1>1 DEF Call, Attempts
      <2>3. ASSUME NEW c \in Conns, NEW i \in 1..Len(chReqs[c])
            PROVE  chReqs[c][i] < chCall + 1
        <3>1. chReqs[c] \in Seq(Calls)
          BY <1>0
        <3>2. chReqs[c][i] \in Nat
          <4>1. chReqs[c][i] \in Calls
            BY <3>1, ElementOfSeq
          <4>2. QED
            BY <4>1
        <3>3. chReqs[c][i] <= chCall
          BY Zenon DEF ChInv, ChSent
        <3>4. QED
          BY <1>0, <3>2, <3>3
      <2>4. chCall' >= chCall
        BY <1>0, <2>1
      <2>5. QED
        BY <2>1, <2>2, <2>3, <2>4, SentShrinks
    <1>2. CASE ConnectOk
      <2>1. chReqs' = chReqs /\ chExec' = chExec /\ chCall' = chCall /\ chSock' = chOpened + 1
        BY <1>2 DEF ConnectOk
      <2>2. \A k \in Calls : Attempts(k) <= Attempts(k)'
        BY <1>0, <1>2 DEF ConnectOk, Attempts
      <2>3. chSock' \in Conns => chReqs[chSock'] = <<>>
        <3>1. chOpened \in Nat
          BY DEF ChInv, ChTypes, ChTypeOK
        <3>2. QED
          BY <2>1, <3>1 DEF ChInv, ChPlaces
      <2>4. QED
        BY <1>0, <2>1, <2>2, <2>3, SentShrinks
    <1>3. CASE InitFailed \/ SendReConnect
      <2>1. chReqs' = chReqs /\ chExec' = chExec /\ chCall' = chCall /\ chSock' \notin Conns
        BY <1>3 DEF InitFailed, SendReConnect
      <2>2. \A k \in Calls : Attempts(k) <= Attempts(k)'
        <3>1. /\ chPc \in {"init", "send"} /\ chPc' \in {"send", "connect"}
              /\ chTry' = chTry /\ chCall' = chCall
          BY <1>3 DEF InitFailed, SendReConnect
        <3>2. QED
          BY <1>0, <3>1 DEF Attempts
      <2>3. QED
        BY <1>0, <2>1, <2>2, SentShrinks
    <1>4. CASE RecvRead
      <2>1. /\ chReqs' = chReqs /\ chExec' = chExec /\ chCall' = chCall /\ chPc' = chPc /\ chPc = "recv"
            /\ chTry' = chTry
        BY <1>4, ReadEffect DEF ChInv
      <2>2. \A k \in Calls : Attempts(k) <= Attempts(k)'
        BY <1>0, <2>1 DEF Attempts
      <2>3. QED
        BY <1>0, <2>1, <2>2, SentShrinks
    <1>5. CASE Fails
      <2>1. PICK code \in ConnErrors : FailsTo(code)
        BY <1>5, FailsEffect DEF ChInv
      <2>2. chPc \in {"connect", "send", "recv"} /\ chSock' \notin Conns
        BY <1>5, FailsEffect DEF ChInv
      <2>3. chReqs' = chReqs /\ chExec' = chExec /\ chCall' = chCall
        BY <2>1 DEF FailsTo
      <2>4. \A k \in Calls : Attempts(k) <= Attempts(k)'
        <3>1. CASE chTry = 1 /\ chTry' = 2 /\ chPc' = "send"
          BY <1>0, <2>2, <2>3, <3>1 DEF Attempts
        <3>2. CASE chTry = 2 /\ chPc' = "idle"
          BY <1>0, <2>2, <2>3, <3>2 DEF Attempts
        <3>3. QED
          BY <2>1, <3>1, <3>2 DEF FailsTo
      <2>5. QED
        BY <1>0, <2>2, <2>3, <2>4, SentShrinks
    <1>6. CASE Keeps
      <2>1. chReqs' = chReqs /\ chExec' = chExec /\ chCall' = chCall /\ chPc = "recv" /\ chPc' = "idle"
        BY <1>6, KeepsEffect DEF ChInv
      <2>2. \A k \in Calls : Attempts(k) <= Attempts(k)'
        BY <1>0, <2>1 DEF Attempts
      <2>3. QED
        BY <1>0, <2>1, <2>2, SentShrinks
    <1>7. ASSUME NEW c \in Conns, PeerClose(c)
          PROVE  ChSent'
      <2>1. /\ \A d \in Conns : chReqs'[d] = chReqs[d] \/ chReqs'[d] = <<>>
            /\ chExec' = chExec /\ chCall' = chCall /\ chPc' = chPc /\ chTry' = chTry /\ chSock' = chSock
        BY <1>0, <1>7 DEF PeerClose
      <2>2. \A k \in Calls : Attempts(k) <= Attempts(k)'
        BY <1>0, <2>1 DEF Attempts
      <2>3. ASSUME NEW d \in Conns, chPc' = "send", d = chSock', NEW i \in 1..Len(chReqs'[d])
            PROVE  chReqs'[d][i] < chCall'
        <3>1. chReqs'[d] = chReqs[d]
          BY <2>1, <2>3
        <3>2. QED
          BY <2>1, <2>3, <3>1 DEF ChInv, ChSent
      <2>4. QED
        BY <1>0, <2>1, <2>2, <2>3, SentShrinks
    <1>8. CASE SendOk
      BY <1>8, SendSent
    <1>9. ASSUME NEW c \in Conns, Execute(c)
          PROVE  ChSent'
      BY <1>9, ExecuteSent
    <1>10. QED
      BY <1>1, <1>2, <1>3, <1>4, <1>5, <1>6, <1>7, <1>8, <1>9, NextCases

\* What a call returned.
LEMMA ChResultStep ==
    ASSUME ChInv, ChNext
    PROVE  ChResult'
    <1> USE ChConstants
    <1>1. CASE Call \/ ConnectOk \/ InitFailed \/ SendReConnect \/ SendOk
      <2>1. chPc' # "idle"
        BY <1>1 DEF Call, ConnectOk, InitFailed, SendReConnect, SendOk
      <2>2. QED
        BY <2>1 DEF ChResult
    <1>2. CASE RecvRead
      <2>1. chPc' # "idle"
        BY <1>2, ReadEffect DEF ChInv
      <2>2. QED
        BY <2>1 DEF ChResult
    <1>3. CASE Fails
      <2>1. PICK code \in ConnErrors : FailsTo(code)
        BY <1>3, FailsEffect DEF ChInv
      <2>2. chPc' = "idle" => chLast' = [code |-> code, from |-> 0]
        BY <2>1 DEF FailsTo
      <2>3. code \notin {"kOk", "kFrame"}
        BY DEF ConnErrors
      <2>4. QED
        BY <2>2, <2>3 DEF ChResult
    <1>4. CASE Keeps
      <2>1. chCall' = chCall /\ chExec' = chExec
        BY <1>4, KeepsEffect DEF ChInv
      <2>2. CASE RecvAnswer
        <3>1. chExec[chCall] >= 1 /\ chLast'.from = chCall
          BY <2>2, AnswerTaken DEF ChInv
        <3>2. QED
          BY <2>1, <3>1 DEF ChResult
      <2>3. CASE RecvBadFrame \/ RecvBufFull
        <3>1. chLast'.code \notin {"kOk", "kFrame"}
          BY <2>3, BufferStuck DEF ChInv
        <3>2. QED
          BY <3>1 DEF ChResult
      <2>4. QED
        BY <1>4, <2>2, <2>3 DEF Keeps
    <1>5. ASSUME NEW c \in Conns, Execute(c)
          PROVE  ChResult'
      <2>1. chPc' = chPc /\ chLast' = chLast /\ chCall' = chCall /\ chReqs[c][1] \in Calls
        BY <1>5, ExecuteEffect DEF ChInv
      <2>2. chExec' = [chExec EXCEPT ![chReqs[c][1]] = @ + 1]
        BY <1>5, ExecuteEffect DEF ChInv
      <2>3. chExec \in [Calls -> Nat] /\ (chCall > 0 => chCall \in Calls)
        BY SMTT(30) DEF ChInv, ChTypes, ChTypeOK, Calls
      <2>4. chCall > 0 /\ chExec[chCall] >= 1 => chExec'[chCall] >= 1
        <3> SUFFICES ASSUME chCall > 0, chExec[chCall] >= 1 PROVE chExec'[chCall] >= 1
          OBVIOUS
        <3>1. chCall \in Calls /\ chExec[chCall] \in Nat
          BY <2>3
        <3>2. chExec'[chCall] = chExec[chCall] \/ chExec'[chCall] = chExec[chCall] + 1
          BY <2>1, <2>2, <2>3, <3>1
        <3>3. QED
          BY <3>1, <3>2
      <2>5. QED
        BY <2>1, <2>4 DEF ChInv, ChResult
    <1>6. ASSUME NEW c \in Conns, PeerClose(c)
          PROVE  ChResult'
      BY <1>6 DEF PeerClose, ChInv, ChResult
    <1>7. QED
      BY <1>1, <1>2, <1>3, <1>4, <1>5, <1>6, NextCases

\* The invariant is inductive.
LEMMA ChInvStep == ChInv /\ [ChNext]_chVars => ChInv'
    <1>1. ASSUME ChInv, ChNext PROVE ChInv'
      <2>1. ChTypes'
        BY <1>1, ChTypesStep
      <2>2. ChPlaces' /\ ChData' /\ ChResult'
        BY <1>1, ChPlacesStep, ChDataStep, ChResultStep
      <2>3. ChSent'
        BY <1>1, <2>1, ChSentStep
      <2>4. QED
        BY <2>1, <2>2, <2>3 DEF ChInv
    <1>2. ASSUME ChInv, UNCHANGED chVars PROVE ChInv'
      <2>1. ChTypes'
        BY <1>2 DEF chVars, ChInv, ChTypes, ChTypeOK
      <2>2. ChPlaces' /\ ChResult'
        BY <1>2 DEF chVars, ChInv, ChPlaces, ChResult
      <2>3. ChData'
        <3>1. /\ chSock' = chSock /\ chPc' = chPc /\ Blocked' = Blocked /\ Clean' = Clean
              /\ Waiting' = Waiting
          BY <1>2, Zenon DEF chVars, Blocked, Clean, Waiting
        <3>2. \A kind \in AnswerKinds : Arriving(kind)' = Arriving(kind)
          BY <1>2 DEF chVars, Arriving, PartsAre
        <3>3. ChData
          BY <1>2 DEF ChInv
        <3>4. QED
          BY <3>1, <3>2, <3>3 DEF ChData
      <2>4. ChSent'
        <3>1. \A k \in Calls : Holding(k)' = Holding(k) /\ Attempts(k)' = Attempts(k)
          BY <1>2 DEF chVars, Holding, Attempts
        <3>2. QED
          BY <1>2, <3>1 DEF chVars, ChInv, ChSent
      <2>5. QED
        BY <2>1, <2>2, <2>3, <2>4 DEF ChInv
    <1>3. QED
      BY <1>1, <1>2

\* The invariant holds in every state of the channel.
LEMMA ChInvAlways == ChSpec => []ChInv
    BY ChInvInit, ChInvStep, PTL DEF ChSpec

\* What a call returns, user data or a frame error, is the answer to its own
\* request, for every number of calls, connections and retries and every size
\* of the receive buffer (RpcChannel::SendOnClient, TcpClient::Recv): an answer
\* that comes after its call gave up is on a connection that was closed, or
\* behind one that blocks the buffer.
THEOREM AnswersAreOwn == ChSpec => []AnswerMatchesCall
    <1>1. ChInv => AnswerMatchesCall
      BY DEF ChInv, ChResult, AnswerMatchesCall
    <1>2. QED
      BY <1>1, ChInvAlways, PTL

\* However attempts fail and connections close, the server executes the
\* request of a call at most twice, because the executed ones and those it
\* still holds are never more than the attempts, and a call that returns user
\* data was executed.
THEOREM ExecutedAtMostTwice == ChSpec => []AtMostTwice
    <1>1. ChInv => AtMostTwice
      <2> SUFFICES ASSUME ChInv PROVE AtMostTwice
        OBVIOUS
      <2>1. ASSUME NEW k \in Calls
            PROVE  chExec[k] <= 2
        <3>1. Holding(k) \in SUBSET Conns
          BY DEF Holding
        <3>2. Cardinality(Holding(k)) \in Nat
          BY <3>1, HoldingFinite
        <3>3. chExec[k] + Cardinality(Holding(k)) <= Attempts(k)
          BY DEF ChInv, ChSent
        <3>4. chExec[k] \in Nat /\ Attempts(k) \in Int /\ Attempts(k) <= 2
          BY ChConstants, ChNumbersHold DEF ChInv, ChNumbers, Attempts
        <3>5. QED
          BY <3>2, <3>3, <3>4
      <2>2. QED
        BY <2>1 DEF ChInv, ChTypes, ChResult, AtMostTwice
    <1>2. QED
      BY <1>1, ChInvAlways, PTL

\* Between two calls the connection that is kept carries nothing that a later
\* call could take for its answer.
THEOREM KeptConnectionClean == ChSpec => []CleanBetweenCalls
    <1>1. ChInv => CleanBetweenCalls
      <2> SUFFICES ASSUME ChInv, chPc = "idle", chSock \in Conns
                   PROVE  \/ chBuf = <<>> /\ chWire[chSock] = <<>> /\ chReqs[chSock] = <<>>
                          \/ chBuf # <<>> /\ Head(chBuf).kind \in {"large", "bad"}
        BY DEF CleanBetweenCalls
      <2>1. CASE Clean
        BY <2>1 DEF Clean
      <2>2. CASE Blocked
        <3>1. chBuf \in Seq(Part) /\ chBuf # <<>>
          BY <2>2 DEF ChInv, ChTypes, ChTypeOK, Blocked
        <3>2. Head(chBuf) = chBuf[1]
          BY <3>1
        <3>3. QED
          BY <2>2, <3>2 DEF Blocked
      <2>3. QED
        BY <2>1, <2>2 DEF ChInv, ChData
    <1>2. QED
      BY <1>1, ChInvAlways, PTL

-----------------------------------------------------------------------------
\* Coroutines: the inductive invariant

\* The frames and what a place of the stack may hold.
CoFrame == CoAll \X CoLocals
CoSlot == CoFrame \cup {CoNothing}
CoTypes ==
    /\ CoTypeOK
    /\ coStack \in [1..CoDepth -> CoSlot]
    /\ \A id \in CoExists : /\ coFrames[id] \in Seq(CoFrame) /\ Len(coFrames[id]) <= CoDepth
                            /\ coBackup[id] \in Seq(CoSlot)

\* The main program resumes and is returned to, one coroutine runs at most.
CoTurns ==
    /\ coMain = 0 /\ coCur = coRunning
    /\ \A id \in CoExists : coStatus[id] = "running" <=> id = coRunning

\* Who does not run has its frames in its backup, or has none yet; who runs
\* has them on the stack.
CoSaved ==
    \A id \in CoExists :
        /\ coStatus[id] = "preparing" => coFrames[id] = <<>>
        /\ coStatus[id] = "suspending" =>
              /\ Len(coBackup[id]) = Len(coFrames[id])
              /\ \A p \in 1..Len(coFrames[id]) : coBackup[id][p] = coFrames[id][p]
        /\ coStatus[id] = "running" =>
              \A p \in 1..Len(coFrames[id]) : coStack[p] = coFrames[id][p]

CoInv == CoTypes /\ CoTurns /\ CoSaved

-----------------------------------------------------------------------------
\* Coroutines: a new id is free

\* The numbers of the dispatcher.
LEMMA CoConstants ==
    /\ CoMax \in Nat /\ CoIds \in Nat /\ CoIds > CoMax + 1 /\ CoDepth \in Nat \ {0}
    /\ CoAll = 1..CoIds /\ CoAll \subseteq Nat \ {0}
    BY CoAssumption DEF CoAll

\* A set of natural numbers that is not empty has a least element.
LEMMA LeastElement ==
    ASSUME NEW S \in SUBSET Nat, S # {}
    PROVE  \E x \in S : \A y \in S : x <= y
    <1>1. PICK x \in S : \A y \in S : ~ (<<y, x>> \in OpToRel(<, Nat))
      BY WFMin, NatLessThanWellFounded
    <1>2. ASSUME NEW y \in S
          PROVE  x <= y
      <2>1. x \in Nat /\ y \in Nat
        OBVIOUS
      <2>2. y < x => <<y, x>> \in OpToRel(<, Nat)
        BY <2>1, Zenon DEF OpToRel
      <2>3. ~ (y < x)
        BY <1>1, <2>2, Zenon
      <2>4. QED
        BY <2>1, <2>3
    <1>3. QED
      BY <1>2

\* A remainder is below the divisor.
LEMMA RemainderRange ==
    ASSUME NEW m \in Nat \ {0}, NEW x \in Nat
    PROVE  x % m \in 0..(m - 1)
    OBVIOUS

\* Ids are drawn round the ring: every id is reached from every other.
LEMMA RoundTheRing ==
    ASSUME NEW b \in CoAll, NEW t \in CoAll
    PROVE  \E n \in CoAll : ((b - 1 + n) % CoIds) + 1 = t
    <1> USE CoConstants
    <1>1. CASE t > b
      <2>1. t - b \in CoAll /\ b - 1 + (t - b) = t - 1 /\ t - 1 \in 0..(CoIds - 1)
        BY <1>1
      <2>2. (t - 1) % CoIds = t - 1
        BY <2>1
      <2>3. ((b - 1 + (t - b)) % CoIds) + 1 = t
        BY <2>1, <2>2
      <2>4. QED
        BY <2>1, <2>3, Zenon
    <1>2. CASE t <= b
      <2>1. /\ CoIds - b + t \in CoAll /\ b - 1 + (CoIds - b + t) = (t - 1) + CoIds
            /\ t - 1 \in 0..(CoIds - 1)
        BY <1>2
      <2>2. ((t - 1) + CoIds) % CoIds = t - 1
        BY <2>1
      <2>3. ((b - 1 + (CoIds - b + t)) % CoIds) + 1 = t
        BY <2>1, <2>2
      <2>4. QED
        BY <2>1, <2>3, Zenon
    <1>3. QED
      BY <1>1, <1>2

\* With kMaxCoroutines or fewer there is a free id, and the one that is found
\* belongs to no other coroutine, although the ids wrap.
LEMMA NewIdIsFree ==
    ASSUME CoExists \subseteq CoAll, Cardinality(CoExists) <= CoMax
    PROVE  GetNewCoroutineId \in CoAll \ CoExists
    <1> USE CoConstants
    <1> DEFINE biggest == CHOOSE id \in CoExists : \A j \in CoExists : j <= id
               after(n) == ((biggest - 1 + n) % CoIds) + 1
               found(n) == after(n) \notin CoExists /\ \A m \in 1..(n - 1) : after(m) \in CoExists
               steps == CHOOSE n \in CoAll : found(n)
    <1>1. GetNewCoroutineId = IF CoExists = {} THEN 1 ELSE after(steps)
      BY DEF GetNewCoroutineId
    <1>2. CASE CoExists = {}
      BY <1>1, <1>2
    <1>3. CASE CoExists # {}
      <2>1. biggest \in CoExists
        <3> DEFINE Left == {CoIds - j : j \in CoExists}
        <3>1. Left \in SUBSET Nat /\ Left # {}
          <4>1. ASSUME NEW j \in CoExists
                PROVE  CoIds - j \in Nat
            <5>1. j \in 1..CoIds
              OBVIOUS
            <5>2. QED
              BY <5>1
          <4>2. QED
            BY <1>3, <4>1
        <3>2. PICK x \in Left : \A y \in Left : x <= y
          BY <3>1, LeastElement
        <3>3. PICK i \in CoExists : x = CoIds - i
          BY <3>2
        <3>4. ASSUME NEW j \in CoExists
              PROVE  j <= i
          <4>1. CoIds - j \in Left
            OBVIOUS
          <4>2. CoIds - i <= CoIds - j
            BY <3>2, <3>3, <4>1
          <4>3. i \in Nat /\ j \in Nat
            OBVIOUS
          <4>4. QED
            BY <4>2, <4>3
        <3>5. \E id \in CoExists : \A j \in CoExists : j <= id
          BY <3>4
        <3>6. QED
          BY <3>5
      <2>2. \E t \in CoAll : t \notin CoExists
        <3>1. IsFiniteSet(1..CoIds) /\ Cardinality(1..CoIds) = CoIds
          <4>1. 1 \in Int /\ CoIds \in Int
            OBVIOUS
          <4>2. /\ IsFiniteSet(1..CoIds)
                /\ Cardinality(1..CoIds) = IF 1 > CoIds THEN 0 ELSE CoIds - 1 + 1
            BY <4>1, FS_Interval, Zenon
          <4>3. QED
            BY <4>2
        <3>2. SUFFICES ASSUME CoAll \subseteq CoExists PROVE FALSE
          OBVIOUS
        <3>3. CoExists = 1..CoIds
          BY <3>2
        <3>4. Cardinality(CoExists) = CoIds
          BY <3>1, <3>3
        <3>5. QED
          BY <3>4
      <2>3. PICK t \in CoAll : t \notin CoExists
        BY <2>2
      <2>4. biggest \in CoAll
        BY <2>1
      <2>5. PICK n \in CoAll : after(n) = t
        BY <2>4, RoundTheRing
      <2> DEFINE Frees == {m \in CoAll : after(m) \notin CoExists}
      <2>6. Frees \in SUBSET Nat /\ Frees # {}
        BY <2>3, <2>5
      <2>7. PICK x \in Frees : \A y \in Frees : x <= y
        BY <2>6, LeastElement
      <2>8. ASSUME NEW m \in 1..(x - 1)
            PROVE  after(m) \in CoExists
        <3>1. x \in 1..CoIds
          BY <2>7
        <3>2. m \in CoAll /\ m < x /\ ~(x <= m)
          BY <3>1
        <3>3. m \notin Frees
          BY <2>7, <3>2
        <3>4. QED
          BY <3>2, <3>3
      <2>9. \E m \in CoAll : found(m)
        BY <2>7, <2>8
      <2>10. steps \in CoAll /\ found(steps)
        BY <2>9
      <2>11. after(steps) \in CoAll
        <3>1. biggest - 1 + steps \in Nat /\ CoIds \in Nat \ {0}
          BY <2>4, <2>10
        <3>2. (biggest - 1 + steps) % CoIds \in 0..(CoIds - 1)
          BY <3>1, RemainderRange
        <3>3. QED
          BY <3>2
      <2>12. QED
        BY <1>1, <1>3, <2>10, <2>11
    <1>4. QED
      BY <1>2, <1>3

-----------------------------------------------------------------------------
\* Coroutines: the invariant is kept

\* Initially.
LEMMA CoInvInit == CoInit => CoInv
    <1> SUFFICES ASSUME CoInit PROVE CoInv
      OBVIOUS
    <1> USE CoConstants DEF CoInit
    <1>1. CoExists = {} /\ DOMAIN coBackup = {} /\ DOMAIN coFrames = {}
      BY DEF CoExists
    <1>2. Cardinality(CoExists) = 0
      BY <1>1, FS_EmptySet
    <1>3. CoTypes
      <2>1. coStatus \in [CoExists -> {"preparing", "running", "suspending"}]
        BY <1>1
      <2>2. coStack \in [1..CoDepth -> CoSlot]
        BY DEF CoSlot
      <2>3. QED
        BY <1>1, <1>2, <2>1, <2>2 DEF CoTypes, CoTypeOK
    <1>4. QED
      BY <1>1, <1>3 DEF CoInv, CoTurns, CoSaved

\* The coroutines that exist are finitely many.
LEMMA CoFinite ==
    ASSUME NEW S \in SUBSET CoAll
    PROVE  IsFiniteSet(S) /\ Cardinality(S) \in Nat
    <1>1. IsFiniteSet(1..CoIds)
      BY CoConstants, FS_Interval
    <1>2. QED
      BY <1>1, CoConstants, FS_Subset, FS_CardinalityType

\* A new coroutine has nothing yet and changes nothing of the others.
LEMMA CreateStep ==
    ASSUME CoInv, CreateCoroutine
    PROVE  CoInv'
    <1> USE CoConstants
    <1> DEFINE id == GetNewCoroutineId
    <1>1. CoExists \subseteq CoAll /\ id \in CoAll \ CoExists
      <2>1. CoExists \subseteq CoAll /\ Cardinality(CoExists) <= CoMax
        BY DEF CoInv, CoTypes, CoTypeOK, CreateCoroutine
      <2>2. QED
        BY <2>1, NewIdIsFree
    <1> HIDE DEF id
    <1>2. /\ coStatus' = [j \in CoExists \cup {id} |-> IF j = id THEN "preparing" ELSE coStatus[j]]
          /\ coBackup' = [j \in CoExists \cup {id} |-> IF j = id THEN <<>> ELSE coBackup[j]]
          /\ coFrames' = [j \in CoExists \cup {id} |-> IF j = id THEN <<>> ELSE coFrames[j]]
          /\ UNCHANGED <<coCur, coMain, coRunning, coStack>>
      BY DEF CreateCoroutine, id, With, CoExists, CoInv, CoTypes, CoTypeOK
    <1>3. CoExists' = CoExists \cup {id} /\ CoExists' \subseteq CoAll
      BY <1>1, <1>2 DEF CoExists
    <1>4. Cardinality(CoExists') <= CoMax + 1
      <2>1. IsFiniteSet(CoExists) /\ Cardinality(CoExists) \in Nat
        BY <1>1, CoFinite
      <2>2. Cardinality(CoExists) <= CoMax
        BY DEF CreateCoroutine
      <2>3. Cardinality(CoExists \cup {id}) = Cardinality(CoExists) + 1
        BY <1>1, <2>1, FS_AddElement
      <2>4. QED
        BY <1>3, <2>1, <2>2, <2>3
    <1>5. CoTypes'
      <2>1. coStatus' \in [CoExists' -> {"preparing", "running", "suspending"}]
        BY <1>2, <1>3 DEF CoInv, CoTypes, CoTypeOK
      <2>2. {coCur', coMain', coRunning'} \subseteq CoExists' \cup {0}
        BY <1>2, <1>3 DEF CoInv, CoTypes, CoTypeOK
      <2>3. DOMAIN coBackup' = CoExists' /\ DOMAIN coFrames' = CoExists'
        BY <1>2, <1>3
      <2>4. ASSUME NEW j \in CoExists'
            PROVE  coFrames'[j] \in Seq(CoFrame) /\ Len(coFrames'[j]) <= CoDepth /\ coBackup'[j] \in Seq(CoSlot)
        <3>1. CASE j = id
          BY <1>2, <1>3, <3>1
        <3>2. CASE j # id
          BY <1>2, <1>3, <3>2 DEF CoInv, CoTypes
        <3>3. QED
          BY <3>1, <3>2
      <2>5. coStack' \in [1..CoDepth -> CoSlot]
        BY <1>2 DEF CoInv, CoTypes
      <2>6. QED
        BY <1>3, <1>4, <2>1, <2>2, <2>3, <2>4, <2>5 DEF CoTypes, CoTypeOK
    <1>6. CoTurns'
      <2>1. coRunning \in CoExists \cup {0} /\ id # coRunning
        BY <1>1 DEF CoInv, CoTypes, CoTypeOK
      <2>2. QED
        BY <1>2, <1>3, <2>1 DEF CoInv, CoTurns
    <1>7. CoSaved'
      BY <1>2, <1>3 DEF CoInv, CoSaved
    <1>8. QED
      BY <1>5, <1>6, <1>7 DEF CoInv

\* Resuming puts the frames of the coroutine back on the stack.
LEMMA ResumeStep ==
    ASSUME ~CoNested, CoInv, NEW id \in CoExists, CoroutineResume(id)
    PROVE  CoInv'
    <1> USE CoConstants
    <1>1. /\ coRunning = 0 /\ coStatus[id] \in {"preparing", "suspending"}
          /\ coStatus' = [coStatus EXCEPT ![id] = "running"]
          /\ coCur' = id /\ coMain' = 0 /\ coRunning' = id
          /\ coBackup' = coBackup /\ coFrames' = coFrames
          /\ coStack' = IF coStatus[id] = "suspending" THEN Restored(id) ELSE coStack
      BY DEF CoroutineResume
    <1>2. CoExists' = CoExists /\ CoExists \subseteq CoAll
      BY <1>1 DEF CoExists, CoInv, CoTypes, CoTypeOK
    <1>3. coStack \in [1..CoDepth -> CoSlot] /\ coBackup[id] \in Seq(CoSlot)
      BY DEF CoInv, CoTypes
    <1>4. coStack' \in [1..CoDepth -> CoSlot]
      <2>1. ASSUME NEW p \in 1..CoDepth, p <= Len(coBackup[id])
            PROVE  coBackup[id][p] \in CoSlot
        <3>1. p \in 1..Len(coBackup[id])
          BY <1>3, <2>1
        <3>2. QED
          BY <1>3, <3>1, ElementOfSeq
      <2>2. Restored(id) \in [1..CoDepth -> CoSlot]
        BY <1>3, <2>1 DEF Restored
      <2>3. QED
        BY <1>1, <1>3, <2>2
    <1>5. CoTypes'
      <2>1. coStatus' \in [CoExists -> {"preparing", "running", "suspending"}]
        BY <1>1 DEF CoInv, CoTypes, CoTypeOK
      <2>2. Cardinality(CoExists') <= CoMax + 1 /\ {coCur', coMain', coRunning'} \subseteq CoExists \cup {0}
        BY <1>1, <1>2 DEF CoInv, CoTypes, CoTypeOK
      <2>3. QED
        BY <1>1, <1>2, <1>4, <2>1, <2>2 DEF CoInv, CoTypes, CoTypeOK
    <1>6. \A j \in CoExists : coStatus'[j] = IF j = id THEN "running" ELSE coStatus[j]
      BY <1>1 DEF CoExists
    <1>7. CoTurns'
      BY <1>1, <1>2, <1>6 DEF CoInv, CoTurns, CoTypes, CoTypeOK
    <1>8. CoSaved'
      <2>1. \A p \in 1..Len(coFrames[id]) : coStack'[p] = coFrames[id][p]
        <3>1. CASE coStatus[id] = "preparing"
          <4>1. Len(coFrames[id]) = 0
            BY <3>1 DEF CoInv, CoSaved
          <4>2. QED
            BY <4>1
        <3>2. CASE coStatus[id] = "suspending"
          <4>1. /\ Len(coBackup[id]) = Len(coFrames[id])
                /\ \A p \in 1..Len(coFrames[id]) : coBackup[id][p] = coFrames[id][p]
            BY <3>2 DEF CoInv, CoSaved
          <4>2. Len(coFrames[id]) \in Nat /\ Len(coFrames[id]) <= CoDepth
            BY DEF CoInv, CoTypes
          <4>3. ASSUME NEW p \in 1..Len(coFrames[id])
                PROVE  coStack'[p] = coFrames[id][p]
            <5>1. p \in 1..CoDepth /\ p <= Len(coBackup[id])
              BY <4>1, <4>2
            <5>2. coStack'[p] = coBackup[id][p]
              BY <1>1, <3>2, <5>1 DEF Restored
            <5>3. QED
              BY <4>1, <5>2
          <4>4. QED
            BY <4>3
        <3>3. QED
          BY <1>1, <3>1, <3>2
      <2>2. ASSUME NEW j \in CoExists, j # id
            PROVE  coStatus'[j] = coStatus[j] /\ coStatus[j] # "running"
        BY <1>1, <1>6, <2>2 DEF CoInv, CoTurns, CoTypes, CoTypeOK
      <2>3. QED
        BY <1>1, <1>2, <1>6, <2>1, <2>2 DEF CoInv, CoSaved
    <1>9. QED
      BY <1>5, <1>7, <1>8 DEF CoInv

\* Yielding copies the frames in use, from the end of the stack, to the backup.
LEMMA YieldStep ==
    ASSUME CoInv, CoroutineYield
    PROVE  CoInv'
    <1> USE CoConstants
    <1> DEFINE r == coRunning
               n == Len(coFrames[r])
    <1>1. /\ r \in CoExists /\ r # 0 /\ coCur = r
          /\ coBackup' = [coBackup EXCEPT ![r] = SubSeq(coStack, 1, n)]
          /\ coStatus' = [coStatus EXCEPT ![r] = "suspending"]
          /\ coCur' = 0 /\ coRunning' = 0 /\ coMain' = 0
          /\ coStack' = coStack /\ coFrames' = coFrames
      BY DEF CoroutineYield, CoInv, CoTurns, CoTypes, CoTypeOK
    <1>2. CoExists' = CoExists /\ CoExists \subseteq CoAll /\ DOMAIN coBackup = CoExists
      BY <1>1 DEF CoExists, CoInv, CoTypes, CoTypeOK
    <1>3. /\ coFrames[r] \in Seq(CoFrame) /\ n \in Nat /\ n <= CoDepth
          /\ coStack \in [1..CoDepth -> CoSlot] /\ coStatus[r] = "running"
      BY <1>1 DEF CoInv, CoTypes, CoTurns
    <1>4. /\ SubSeq(coStack, 1, n) \in Seq(CoSlot) /\ Len(SubSeq(coStack, 1, n)) = n
          /\ \A p \in 1..n : SubSeq(coStack, 1, n)[p] = coStack[p]
      <2>1. \A p \in 1..n : coStack[p] \in CoSlot
        BY <1>3
      <2>2. /\ SubSeq(coStack, 1, n) \in Seq(CoSlot)
            /\ Len(SubSeq(coStack, 1, n)) = IF 1 <= n THEN n - 1 + 1 ELSE 0
            /\ \A p \in 1..(n - 1 + 1) : SubSeq(coStack, 1, n)[p] = coStack[1 + p - 1]
        <3>1. n \in Int /\ 1 \in Int
          BY <1>3
        <3> HIDE DEF n
        <3>2. QED
          BY <2>1, <3>1, SubSeqProperties
      <2>3. QED
        BY <1>3, <2>2
    <1>5. /\ \A j \in CoExists : coStatus'[j] = IF j = r THEN "suspending" ELSE coStatus[j]
          /\ \A j \in CoExists : coBackup'[j] = IF j = r THEN SubSeq(coStack, 1, n) ELSE coBackup[j]
      BY <1>1, <1>2 DEF CoExists
    <1>6. CoTypes'
      <2>1. coStatus' \in [CoExists -> {"preparing", "running", "suspending"}]
        BY <1>1 DEF CoInv, CoTypes, CoTypeOK
      <2>2. \A j \in CoExists : coBackup'[j] \in Seq(CoSlot)
        BY <1>4, <1>5 DEF CoInv, CoTypes
      <2>3. DOMAIN coBackup' = CoExists
        BY <1>1, <1>2
      <2>4. QED
        BY <1>1, <1>2, <2>1, <2>2, <2>3 DEF CoInv, CoTypes, CoTypeOK
    <1>7. CoTurns'
      <2>1. 0 \notin CoExists
        BY <1>2
      <2>2. QED
        BY <1>1, <1>2, <1>5, <2>1 DEF CoInv, CoTurns
    <1>8. CoSaved'
      <2>1. \A p \in 1..n : SubSeq(coStack, 1, n)[p] = coFrames[r][p]
        BY <1>1, <1>3, <1>4 DEF CoInv, CoSaved
      <2>2. QED
        BY <1>1, <1>2, <1>4, <1>5, <2>1 DEF CoInv, CoSaved
    <1>9. QED
      BY <1>6, <1>7, <1>8 DEF CoInv

\* A coroutine that is over is taken off the tables.
LEMMA FinishStep ==
    ASSUME CoInv, CoFinish
    PROVE  CoInv'
    <1> USE CoConstants
    <1> DEFINE r == coRunning
    <1>1. /\ r \in CoExists /\ r # 0 /\ coCur = r
          /\ coStatus' = [j \in CoExists \ {r} |-> coStatus[j]]
          /\ coBackup' = [j \in CoExists \ {r} |-> coBackup[j]]
          /\ coFrames' = [j \in CoExists \ {r} |-> coFrames[j]]
          /\ coCur' = 0 /\ coRunning' = 0 /\ coMain' = 0 /\ coStack' = coStack
      BY DEF CoFinish, Without, CoInv, CoTurns, CoTypes, CoTypeOK, CoExists
    <1>2. CoExists' = CoExists \ {r} /\ CoExists \subseteq CoAll
      BY <1>1 DEF CoExists, CoInv, CoTypes, CoTypeOK
    <1>3. Cardinality(CoExists') <= CoMax + 1
      <2>1. /\ IsFiniteSet(CoExists) /\ Cardinality(CoExists) \in Nat
            /\ Cardinality(CoExists') \in Nat /\ Cardinality(CoExists) <= CoMax + 1
        BY <1>2, CoFinite DEF CoInv, CoTypes, CoTypeOK
      <2>2. Cardinality(CoExists') <= Cardinality(CoExists)
        BY <1>2, <2>1, FS_Subset
      <2>3. QED
        BY <2>1, <2>2
    <1>4. CoTypes'
      <2>1. coStatus' \in [CoExists' -> {"preparing", "running", "suspending"}]
        BY <1>1, <1>2 DEF CoInv, CoTypes, CoTypeOK
      <2>2. QED
        BY <1>1, <1>2, <1>3, <2>1 DEF CoInv, CoTypes, CoTypeOK
    <1>5. CoTurns'
      <2>1. 0 \notin CoExists
        BY <1>2
      <2>2. \A j \in CoExists' : coStatus'[j] # "running"
        BY <1>1, <1>2 DEF CoInv, CoTurns
      <2>3. QED
        BY <1>1, <1>2, <2>1, <2>2 DEF CoTurns
    <1>6. CoSaved'
      BY <1>1, <1>2 DEF CoInv, CoSaved
    <1>7. QED
      BY <1>4, <1>5, <1>6 DEF CoInv

\* The frames of the one who executes change together with the stack.
LEMMA CallStep ==
    ASSUME CoInv, NEW x \in CoLocals, CoCall(x)
    PROVE  CoInv'
    <1> USE CoConstants
    <1> DEFINE r == coRunning
               n == Len(coFrames[r])
               f == <<r, x>>
    <1>1. /\ r \in CoExists /\ r # 0 /\ n < CoDepth
          /\ coFrames' = [coFrames EXCEPT ![r] = Append(@, f)]
          /\ coStack' = [coStack EXCEPT ![n + 1] = f]
          /\ UNCHANGED <<coStatus, coBackup, coCur, coMain, coRunning>>
      BY DEF CoCall, CoInv, CoTypes, CoTypeOK
    <1>2. CoExists' = CoExists /\ CoExists \subseteq CoAll /\ DOMAIN coFrames = CoExists
      BY <1>1 DEF CoExists, CoInv, CoTypes, CoTypeOK
    <1>3. /\ coFrames[r] \in Seq(CoFrame) /\ n \in Nat
          /\ coStack \in [1..CoDepth -> CoSlot] /\ coStatus[r] = "running"
          /\ f \in CoFrame
      BY <1>1, <1>2 DEF CoInv, CoTypes, CoTurns, CoFrame
    <1>4. /\ Append(coFrames[r], f) \in Seq(CoFrame) /\ Len(Append(coFrames[r], f)) = n + 1
          /\ Append(coFrames[r], f)[n + 1] = f
          /\ \A p \in 1..n : Append(coFrames[r], f)[p] = coFrames[r][p]
      <2> HIDE DEF f
      <2>1. QED
        BY <1>3
    <1>5. \A j \in CoExists : coFrames'[j] = IF j = r THEN Append(coFrames[r], f) ELSE coFrames[j]
      BY <1>1, <1>2
    <1>6. /\ coStack' \in [1..CoDepth -> CoSlot] /\ coStack'[n + 1] = f
          /\ \A p \in 1..n : coStack'[p] = coStack[p]
      <2>1. n + 1 \in 1..CoDepth /\ \A p \in 1..n : p \in 1..CoDepth /\ p # n + 1
        BY <1>1, <1>3
      <2>2. f \in CoSlot
        BY <1>3 DEF CoSlot
      <2> HIDE DEF f
      <2>3. QED
        BY <1>1, <1>3, <2>1, <2>2
    <1>7. CoTypes'
      <2>1. \A j \in CoExists : coFrames'[j] \in Seq(CoFrame) /\ Len(coFrames'[j]) <= CoDepth
        <3>1. n + 1 <= CoDepth
          BY <1>1, <1>3
        <3>2. QED
          BY <1>4, <1>5, <3>1 DEF CoInv, CoTypes
      <2>2. DOMAIN coFrames' = CoExists
        BY <1>1, <1>2
      <2>3. QED
        BY <1>1, <1>2, <1>6, <2>1, <2>2 DEF CoInv, CoTypes, CoTypeOK
    <1>8. CoTurns'
      BY <1>1, <1>2 DEF CoInv, CoTurns
    <1>9. CoSaved'
      <2>1. ASSUME NEW p \in 1..(n + 1)
            PROVE  coStack'[p] = Append(coFrames[r], f)[p]
        <3>1. CASE p = n + 1
          BY <1>4, <1>6, <3>1
        <3>2. CASE p \in 1..n
          BY <1>1, <1>3, <1>4, <1>6, <3>2 DEF CoInv, CoSaved
        <3>3. QED
          BY <1>3, <2>1, <3>1, <3>2
      <2>2. ASSUME NEW j \in CoExists, j # r
            PROVE  coFrames'[j] = coFrames[j] /\ coStatus[j] # "running"
        BY <1>5, <2>2 DEF CoInv, CoTurns
      <2> HIDE DEF f
      <2>3. QED
        BY <1>1, <1>2, <1>3, <1>4, <1>5, <2>1, <2>2 DEF CoInv, CoSaved
    <1>10. QED
      BY <1>7, <1>8, <1>9 DEF CoInv

LEMMA ReturnStep ==
    ASSUME CoInv, CoReturn
    PROVE  CoInv'
    <1> USE CoConstants
    <1> DEFINE r == coRunning
               n == Len(coFrames[r])
               rest == SubSeq(coFrames[r], 1, n - 1)
    <1>1. /\ r \in CoExists /\ r # 0 /\ coFrames[r] # <<>>
          /\ coFrames' = [coFrames EXCEPT ![r] = rest]
          /\ UNCHANGED <<coStatus, coBackup, coCur, coMain, coRunning, coStack>>
      BY DEF CoReturn, CoInv, CoTypes, CoTypeOK
    <1>2. CoExists' = CoExists /\ CoExists \subseteq CoAll /\ DOMAIN coFrames = CoExists
      BY <1>1 DEF CoExists, CoInv, CoTypes, CoTypeOK
    <1>3. /\ coFrames[r] \in Seq(CoFrame) /\ n \in Nat /\ n >= 1 /\ n <= CoDepth
          /\ coStatus[r] = "running"
      BY <1>1 DEF CoInv, CoTypes, CoTurns
    <1>4. /\ rest \in Seq(CoFrame) /\ Len(rest) = n - 1
          /\ \A p \in 1..(n - 1) : rest[p] = coFrames[r][p]
      BY <1>3
    <1> HIDE DEF rest
    <1>5. \A j \in CoExists : coFrames'[j] = IF j = r THEN rest ELSE coFrames[j]
      BY <1>1, <1>2
    <1>6. CoTypes'
      <2>1. \A j \in CoExists : coFrames'[j] \in Seq(CoFrame) /\ Len(coFrames'[j]) <= CoDepth
        <3>1. n - 1 <= CoDepth
          BY <1>3
        <3>2. QED
          BY <1>4, <1>5, <3>1 DEF CoInv, CoTypes
      <2>2. DOMAIN coFrames' = CoExists
        BY <1>1, <1>2
      <2>3. QED
        BY <1>1, <1>2, <2>1, <2>2 DEF CoInv, CoTypes, CoTypeOK
    <1>7. CoTurns'
      BY <1>1, <1>2 DEF CoInv, CoTurns
    <1>8. CoSaved'
      <2>1. ASSUME NEW p \in 1..(n - 1)
            PROVE  coStack[p] = rest[p]
        <3>1. p \in 1..n
          BY <1>3, <2>1
        <3>2. QED
          BY <1>1, <1>3, <1>4, <3>1 DEF CoInv, CoSaved
      <2>2. ASSUME NEW j \in CoExists, j # r
            PROVE  coFrames'[j] = coFrames[j] /\ coStatus[j] # "running"
        BY <1>5, <2>2 DEF CoInv, CoTurns
      <2>3. QED
        BY <1>1, <1>2, <1>3, <1>4, <1>5, <2>1, <2>2 DEF CoInv, CoSaved
    <1>9. QED
      BY <1>6, <1>7, <1>8 DEF CoInv

\* When only the main program resumes coroutines, whoever executes is the
\* current coroutine and finds its own frames on the shared stack, for every
\* number of coroutines and ids and every depth of their stacks (Dispatch::
\* CreateCoroutine, CoroutineResume, CoroutineYield, DeleteCurCoroutine).
THEOREM FramesStayIntact == ASSUME ~CoNested PROVE CoSpec => []StackIntact
    <1>1. CoInv /\ [CoNext]_coVars => CoInv'
      <2> SUFFICES ASSUME CoInv, [CoNext]_coVars PROVE CoInv'
        OBVIOUS
      <2>1. CASE UNCHANGED coVars
        <3>1. CoTypes'
          BY <2>1 DEF coVars, CoInv, CoTypes, CoTypeOK, CoExists
        <3>2. CoTurns' /\ CoSaved'
          BY <2>1 DEF coVars, CoInv, CoTurns, CoSaved, CoExists
        <3>3. QED
          BY <3>1, <3>2 DEF CoInv
      <2>2. QED
        BY <2>1, CreateStep, ResumeStep, YieldStep, FinishStep, CallStep, ReturnStep DEF CoNext
    <1>2. CoInv => StackIntact
      <2> SUFFICES ASSUME CoInv PROVE StackIntact
        OBVIOUS
      <2>1. ASSUME coRunning # 0
            PROVE  \A p \in DOMAIN coFrames[coRunning] : coStack[p] = coFrames[coRunning][p]
        <3>1. coRunning \in CoExists /\ coFrames[coRunning] \in Seq(CoFrame)
          BY <2>1 DEF CoInv, CoTypes, CoTypeOK
        <3>2. DOMAIN coFrames[coRunning] = 1..Len(coFrames[coRunning])
          BY <3>1
        <3>3. QED
          BY <3>1, <3>2 DEF CoInv, CoTurns, CoSaved
      <2>2. QED
        BY <2>1 DEF CoInv, CoTypes, CoTurns, StackIntact
    <1>3. QED
      BY <1>1, <1>2, CoInvInit, PTL DEF CoSpec

-----------------------------------------------------------------------------
\* The older server: the inductive invariant

\* The types of what AnswersInOrder does not type.
CsPart == CsReqs \X Nat
CsConnRec == [fd : CsFds \cup {0}, state : CsConnStates, left : Nat, content : Seq(CsPart)]
CsTypes ==
    /\ CsTypeOK
    /\ csLen \in [CsReqs -> Nat]
    /\ csSent \in [CsConns -> (0..CsMaxReqs) \X Nat]
    /\ csWire \in [CsConns -> Seq(CsPart)]
    /\ csAnswers \in [CsConns -> Seq(Seq(CsPart))]
    /\ csQueue \in [CsWorkers -> Seq(CsConns)]
    /\ csMap \in [CsWorkers -> [CsFds -> CsConnRec]]

\* A connection has one place: the queue of a worker or its loop, or none
\* before it is accepted and after it is closed; and a descriptor belongs to
\* one connection.
Queued(w, c) == c \in ToSet(csQueue[w])
CsPlaces ==
    /\ \A c \in CsConns : c > csAccepted =>
          csFd[c] = 0 /\ \A w \in CsWorkers : ~Queued(w, c) /\ c \notin csLoop[w]
    /\ \A c, d \in CsConns : csFd[c] = csFd[d] /\ csFd[c] # 0 => c = d
    /\ \A w, v \in CsWorkers, c \in CsConns :
          /\ Queued(w, c) => csFd[c] # 0 /\ c \notin csLoop[v] /\ (Queued(v, c) => w = v)
          /\ c \in csLoop[w] => csFd[c] # 0 /\ (c \in csLoop[v] => w = v)

\* The state of a descriptor in conns_ is that of the connection which has it,
\* except between the close of the descriptor and the erase.
CsOwned ==
    \A w \in CsWorkers :
        /\ \A f \in CsFds : csMap[w][f] # NoConn =>
              csClosing[w] = f \/ \E c \in csLoop[w] : csFd[c] = f
        /\ \A c \in csLoop[w] : csFd[c] # csClosing[w]

\* With the lengths len of the bodies: the size of a request, the part that
\* follows a part, and a stream s of parts that goes on from part q and whose
\* last part is r.
SizeOf(len, k) == IF k = 0 THEN 0 ELSE CsHead + len[k]
After(len, q) == IF q[2] < SizeOf(len, q[1]) THEN <<q[1], q[2] + 1>> ELSE <<q[1] + 1, 1>>
Follows(len, s, q) == \A i \in 1..Len(s) : s[i] = After(len, IF i = 1 THEN q ELSE s[i - 1])
LastOf(s, q) == IF Len(s) = 0 THEN q ELSE s[Len(s)]
Stream(len, s, q, r) == Follows(len, s, q) /\ r = LastOf(s, q)

\* The parts of request k after part p.
PartsFrom(s, k, p) == \A i \in 1..Len(s) : s[i] = <<k, p + i>>

\* What a handler that has answered n requests keeps of the next one, and the
\* part that it read last.
WellRead(len, conn, n) ==
    \/ conn.state \in {"kConnCmd", "kConnWrite"}
    \/ /\ conn.state = "kConnWait" /\ n + 1 \in CsReqs
       /\ Len(conn.content) \in 1..(CsHead - 1) /\ conn.left = CsHead - Len(conn.content)
       /\ PartsFrom(conn.content, n + 1, 0)
    \/ /\ conn.state = "kConnRead" /\ n + 1 \in CsReqs
       /\ conn.left + Len(conn.content) = len[n + 1]
       /\ PartsFrom(conn.content, n + 1, CsHead)
LastRead(len, conn, n) ==
    CASE conn.state \in {"kConnCmd", "kConnWrite"} -> <<n, SizeOf(len, n)>>
      [] conn.state = "kConnWait" -> <<n + 1, Len(conn.content)>>
      [] conn.state = "kConnRead" -> <<n + 1, CsHead + Len(conn.content)>>

\* Nothing of a stream is lost or read twice: what waits on the wire goes on
\* where the handler stopped, and ends with what was sent last.
InStep(len, conn, wire, sent, n) ==
    WellRead(len, conn, n) /\ Stream(len, wire, LastRead(len, conn, n), sent)
CsStreams ==
    /\ \A c \in CsConns : c > csAccepted \/ (\E w \in CsWorkers : Queued(w, c)) =>
          csAnswers[c] = <<>> /\ Stream(csLen, csWire[c], <<0, 0>>, csSent[c])
    /\ \A w \in CsWorkers : \A c \in csLoop[w] :
          InStep(csLen, csMap[w][csFd[c]], csWire[c], csSent[c], Len(csAnswers[c]))

CsAnswered ==
    \A c \in CsConns : \A i \in 1..Len(csAnswers[c]) :
        i \in CsReqs /\ csAnswers[c][i] = [j \in 1..csLen[i] |-> <<i, CsHead + j>>]

CsInv == CsTypes /\ CsPlaces /\ CsOwned /\ CsStreams /\ CsAnswered

-----------------------------------------------------------------------------
\* The older server: streams of parts

\* The numbers of the server.
LEMMA CsConstants ==
    /\ CsMaxConns \in Nat /\ CsMaxReqs \in Nat /\ CsHead \in Nat /\ CsHead >= 1
    /\ CsReqs = 1..CsMaxReqs /\ CsConns = 1..CsMaxConns /\ 0 \notin CsFds
    BY CsAssumption DEF CsReqs, CsConns

\* The size of a request.
LEMMA SizeType ==
    ASSUME NEW len \in [CsReqs -> Nat], NEW k \in 0..CsMaxReqs
    PROVE  SizeOf(len, k) \in Nat /\ (k # 0 => SizeOf(len, k) = CsHead + len[k] /\ len[k] \in Nat)
    <1>1. CASE k = 0
      BY <1>1 DEF SizeOf
    <1>2. CASE k # 0
      <2>1. k \in CsReqs
        BY <1>2, CsConstants
      <2>2. len[k] \in Nat
        BY <2>1
      <2>3. QED
        BY <1>2, <2>2, CsConstants DEF SizeOf
    <1>3. QED
      BY <1>1, <1>2

\* A stream that goes on from part p of a request holds the parts after it,
\* as far as the request goes.
LEMMA StreamParts ==
    ASSUME NEW len \in [CsReqs -> Nat], NEW s \in Seq(CsPart), NEW k \in CsReqs, NEW p \in Nat,
           NEW m \in 0..Len(s), p + m <= SizeOf(len, k), Follows(len, s, <<k, p>>)
    PROVE  \A i \in 1..m : s[i] = <<k, p + i>>
    <1> USE CsConstants
    <1>0. k \in Nat /\ SizeOf(len, k) \in Nat /\ Len(s) \in Nat /\ m \in Nat
      BY SizeType, SMTT(30)
    <1> DEFINE Bad == {i \in 1..m : s[i] # <<k, p + i>>}
    <1>1. SUFFICES ASSUME Bad # {} PROVE FALSE
      OBVIOUS
    <1>2. Bad \in SUBSET Nat
      OBVIOUS
    <1>3. PICK x \in Bad : \A y \in Bad : x <= y
      BY <1>1, <1>2, LeastElement
    <1>4. x \in 1..m /\ x \in 1..Len(s) /\ s[x] # <<k, p + x>>
      BY <1>0, <1>3
    <1>5. CASE x = 1
      <2>1. s[1] = After(len, <<k, p>>)
        BY <1>4, <1>5 DEF Follows
      <2>2. p < SizeOf(len, k)
        BY <1>0, <1>4, <1>5
      <2>3. After(len, <<k, p>>) = <<k, p + 1>>
        BY <2>2 DEF After
      <2>4. QED
        BY <1>4, <1>5, <2>1, <2>3
    <1>6. CASE x # 1
      <2>1. x - 1 \in 1..m /\ ~(x <= x - 1)
        BY <1>0, <1>4, <1>6, SMTT(30)
      <2>2. x - 1 \notin Bad
        BY <1>3, <2>1
      <2>3. s[x - 1] = <<k, p + (x - 1)>>
        BY <2>1, <2>2
      <2>4. s[x] = After(len, s[x - 1])
        BY <1>4, <1>6 DEF Follows
      <2>5. p + (x - 1) < SizeOf(len, k) /\ p + (x - 1) + 1 = p + x
        BY <1>0, <1>4
      <2>6. After(len, <<k, p + (x - 1)>>) = <<k, p + (x - 1) + 1>>
        BY <2>5 DEF After
      <2>7. QED
        BY <1>4, <2>3, <2>4, <2>5, <2>6
    <1>7. QED
      BY <1>5, <1>6

\* A stream that goes on from the end of a request starts with the next one.
LEMMA StreamNext ==
    ASSUME NEW len \in [CsReqs -> Nat], NEW s \in Seq(CsPart), NEW n \in 0..CsMaxReqs,
           Len(s) >= 1, Follows(len, s, <<n, SizeOf(len, n)>>)
    PROVE  n + 1 \in CsReqs /\ Follows(len, s, <<n + 1, 0>>)
    <1> USE CsConstants
    <1>1. SizeOf(len, n) \in Nat /\ Len(s) \in Nat
      BY SizeType
    <1>2. 1 \in 1..Len(s)
      BY <1>1
    <1>3. s[1] = After(len, <<n, SizeOf(len, n)>>)
      BY <1>2 DEF Follows
    <1>4. s[1] = <<n + 1, 1>>
      BY <1>1, <1>3 DEF After
    <1>5. s[1] \in CsPart
      BY <1>2, ElementOfSeq
    <1>6. n + 1 \in CsReqs
      BY <1>4, <1>5 DEF CsPart
    <1>7. SizeOf(len, n + 1) \in Nat /\ SizeOf(len, n + 1) >= 1
      <2>1. n + 1 \in 0..CsMaxReqs /\ n + 1 # 0
        BY <1>6
      <2>2. SizeOf(len, n + 1) = CsHead + len[n + 1] /\ len[n + 1] \in Nat
        BY <2>1, SizeType, Zenon
      <2>3. QED
        BY <2>2
    <1>8. After(len, <<n + 1, 0>>) = <<n + 1, 1>>
      BY <1>7 DEF After
    <1>9. QED
      BY <1>3, <1>4, <1>6, <1>8 DEF Follows

\* What is left of a stream goes on from the last part taken.
LEMMA StreamTake ==
    ASSUME NEW len, NEW s \in Seq(CsPart), NEW q, NEW r, NEW m \in 0..Len(s), Stream(len, s, q, r),
           NEW u, u = IF m = 0 THEN q ELSE s[m]
    PROVE  /\ SubSeq(s, m + 1, Len(s)) \in Seq(CsPart)
           /\ Stream(len, SubSeq(s, m + 1, Len(s)), u, r)
    <1> DEFINE t == SubSeq(s, m + 1, Len(s))
    <1>1. Len(s) \in Nat /\ m \in Nat /\ m <= Len(s)
      OBVIOUS
    <1>2. t \in Seq(CsPart) /\ Len(t) = Len(s) - m /\ \A i \in 1..(Len(s) - m) : t[i] = s[m + i]
      <2>1. \A i \in (m + 1)..Len(s) : s[i] \in CsPart
        BY <1>1, ElementOfSeq
      <2>2. /\ SubSeq(s, m + 1, Len(s)) \in Seq(CsPart)
            /\ Len(SubSeq(s, m + 1, Len(s))) = IF m + 1 <= Len(s) THEN Len(s) - (m + 1) + 1 ELSE 0
            /\ \A i \in 1..(Len(s) - (m + 1) + 1) : SubSeq(s, m + 1, Len(s))[i] = s[(m + 1) + i - 1]
        BY <1>1, <2>1, SubSeqProperties
      <2>3. QED
        BY <1>1, <2>2
    <1> HIDE DEF t
    <1>3. ASSUME NEW i \in 1..Len(t)
          PROVE  t[i] = After(len, IF i = 1 THEN u ELSE t[i - 1])
      <2>1. i \in 1..(Len(s) - m) /\ m + i \in 1..Len(s) /\ t[i] = s[m + i]
        BY <1>1, <1>2
      <2>2. s[m + i] = After(len, IF m + i = 1 THEN q ELSE s[m + i - 1])
        BY <2>1 DEF Stream, Follows
      <2>3. CASE i = 1 /\ m = 0
        BY <2>1, <2>2, <2>3
      <2>4. CASE i = 1 /\ m # 0
        <3>1. m + i # 1 /\ m + i - 1 = m
          BY <1>1, <2>4
        <3>2. QED
          BY <2>1, <2>2, <2>4, <3>1
      <2>5. CASE i # 1
        <3>1. i - 1 \in 1..(Len(s) - m) /\ m + (i - 1) = m + i - 1 /\ m + i # 1
          BY <1>1, <2>1, <2>5
        <3>2. t[i - 1] = s[m + i - 1]
          BY <1>2, <3>1
        <3>3. QED
          BY <2>1, <2>2, <2>5, <3>1, <3>2
      <2>6. QED
        BY <2>3, <2>4, <2>5
    <1>4. r = LastOf(t, u)
      <2>1. r = LastOf(s, q)
        BY DEF Stream
      <2>2. CASE Len(t) = 0
        <3>1. m = Len(s)
          BY <1>1, <1>2, <2>2
        <3>2. QED
          BY <2>1, <2>2, <3>1 DEF LastOf
      <2>3. CASE Len(t) # 0
        <3>1. Len(t) \in 1..(Len(s) - m) /\ m + Len(t) = Len(s) /\ Len(s) # 0
          BY <1>1, <1>2, <2>3
        <3>2. t[Len(t)] = s[Len(s)]
          BY <1>2, <3>1
        <3>3. QED
          BY <2>1, <2>3, <3>1, <3>2 DEF LastOf
      <2>4. QED
        BY <2>2, <2>3
    <1>5. QED
      BY <1>2, <1>3, <1>4 DEF Stream, Follows, t

\* The client adds the part that follows.
LEMMA StreamAppend ==
    ASSUME NEW len, NEW s \in Seq(CsPart), NEW q, NEW r, NEW a \in CsPart, a = After(len, r),
           Stream(len, s, q, r)
    PROVE  Stream(len, Append(s, a), q, a)
    <1> DEFINE t == Append(s, a)
    <1>1. /\ Len(s) \in Nat /\ Len(t) = Len(s) + 1 /\ t[Len(s) + 1] = a
          /\ \A i \in 1..Len(s) : t[i] = s[i]
      OBVIOUS
    <1> HIDE DEF t
    <1>2. ASSUME NEW i \in 1..Len(t)
          PROVE  t[i] = After(len, IF i = 1 THEN q ELSE t[i - 1])
      <2>1. CASE i \in 1..Len(s)
        <3>1. s[i] = After(len, IF i = 1 THEN q ELSE s[i - 1])
          BY <2>1 DEF Stream, Follows
        <3>2. i # 1 => i - 1 \in 1..Len(s)
          BY <1>1, <2>1
        <3>3. QED
          BY <1>1, <2>1, <3>1, <3>2
      <2>2. CASE i = Len(s) + 1
        <3>1. r = IF Len(s) = 0 THEN q ELSE s[Len(s)]
          BY DEF Stream, LastOf
        <3>2. CASE Len(s) = 0
          BY <1>1, <2>2, <3>1, <3>2
        <3>3. CASE Len(s) # 0
          <4>1. i # 1 /\ i - 1 = Len(s) /\ Len(s) \in 1..Len(s)
            BY <1>1, <2>2, <3>3
          <4>2. t[i - 1] = r
            BY <1>1, <3>1, <3>3, <4>1
          <4>3. QED
            BY <1>1, <2>2, <4>1, <4>2
        <3>4. QED
          BY <3>2, <3>3
      <2>3. QED
        BY <1>1, <2>1, <2>2
    <1>3. a = LastOf(t, q)
      BY <1>1 DEF LastOf
    <1>4. QED
      BY <1>2, <1>3 DEF Stream, Follows, t

\* A read of m parts adds the next ones to what was collected of a request.
Collecting(len, s, k, b, had, m) ==
    /\ len \in [CsReqs -> Nat] /\ s \in Seq(CsPart) /\ k \in CsReqs /\ b \in Nat
    /\ had \in Seq(CsPart) /\ PartsFrom(had, k, b) /\ m \in 0..Len(s)
    /\ b + Len(had) + m <= SizeOf(len, k) /\ Follows(len, s, <<k, b + Len(had)>>)
LEMMA Collects ==
    ASSUME NEW len, NEW s, NEW k, NEW b, NEW had, NEW m, Collecting(len, s, k, b, had, m)
    PROVE  /\ SubSeq(s, 1, m) \in Seq(CsPart) /\ Len(SubSeq(s, 1, m)) = m
           /\ had \o SubSeq(s, 1, m) \in Seq(CsPart)
           /\ Len(had \o SubSeq(s, 1, m)) = Len(had) + m
           /\ PartsFrom(had \o SubSeq(s, 1, m), k, b)
           /\ m # 0 => s[m] = <<k, b + Len(had) + m>>
    <1> DEFINE t == SubSeq(s, 1, m)
               u == had \o t
    <1> USE DEF Collecting
    <1>1. Len(s) \in Nat /\ m \in Nat /\ m <= Len(s) /\ Len(had) \in Nat /\ b + Len(had) \in Nat
      OBVIOUS
    <1>2. t \in Seq(CsPart) /\ Len(t) = m /\ \A i \in 1..m : t[i] = s[i]
      <2>1. \A i \in 1..m : s[i] \in CsPart
        BY <1>1, ElementOfSeq
      <2>2. /\ SubSeq(s, 1, m) \in Seq(CsPart)
            /\ Len(SubSeq(s, 1, m)) = IF 1 <= m THEN m - 1 + 1 ELSE 0
            /\ \A i \in 1..(m - 1 + 1) : SubSeq(s, 1, m)[i] = s[1 + i - 1]
        BY <1>1, <2>1, SubSeqProperties
      <2>3. QED
        BY <1>1, <2>2
    <1> HIDE DEF t
    <1>3. \A i \in 1..m : s[i] = <<k, b + Len(had) + i>>
      <2>1. ASSUME NEW p \in Nat, p = b + Len(had)
            PROVE  \A i \in 1..m : s[i] = <<k, p + i>>
        <3>1. p + m <= SizeOf(len, k) /\ Follows(len, s, <<k, p>>)
          BY <2>1
        <3>2. QED
          BY <3>1, StreamParts, Zenon
      <2>2. QED
        BY <1>1, <2>1, Zenon
    <1>4. /\ u \in Seq(CsPart) /\ Len(u) = Len(had) + m
          /\ \A i \in 1..Len(had) : u[i] = had[i]
          /\ \A i \in 1..(Len(had) + m) : i > Len(had) => u[i] = t[i - Len(had)]
      <2>1. /\ had \o t \in Seq(CsPart) /\ Len(had \o t) = Len(had) + Len(t)
            /\ \A i \in 1..Len(had) + Len(t) :
                  (had \o t)[i] = IF i <= Len(had) THEN had[i] ELSE t[i - Len(had)]
        BY <1>2, ConcatProperties
      <2> HIDE DEF u
      <2>2. /\ u \in Seq(CsPart) /\ Len(u) = Len(had) + m
            /\ \A i \in 1..Len(had) + m :
                  u[i] = IF i <= Len(had) THEN had[i] ELSE t[i - Len(had)]
        BY <1>2, <2>1 DEF u
      <2>3. QED
        BY <1>1, <2>2
    <1> HIDE DEF u
    <1>5. ASSUME NEW i \in 1..Len(u)
          PROVE  u[i] = <<k, b + i>>
      <2>1. CASE i <= Len(had)
        <3>1. i \in 1..Len(had)
          BY <1>1, <1>4, <2>1
        <3>2. QED
          BY <1>4, <3>1 DEF PartsFrom
      <2>2. CASE i > Len(had)
        <3>1. i - Len(had) \in 1..m /\ i \in 1..(Len(had) + m) /\ b + Len(had) + (i - Len(had)) = b + i
          BY <1>1, <1>4, <2>2
        <3>2. u[i] = s[i - Len(had)]
          BY <1>2, <1>4, <2>2, <3>1
        <3>3. QED
          BY <1>3, <3>1, <3>2
      <2>3. QED
        BY <1>1, <1>4, <2>1, <2>2
    <1>6. m # 0 => s[m] = <<k, b + Len(had) + m>>
      BY <1>1, <1>3
    <1>7. QED
      BY <1>2, <1>4, <1>5, <1>6 DEF PartsFrom, t, u

\* What the handler makes of the parts it reads.
ReadsOn(conn, parts) ==
    IF conn.state = "kConnRead" THEN BodyRead(conn, parts) ELSE HeadRead(conn, parts)

\* A collected head is decoded: its first part names the request.
LEMMA HeadNames ==
    ASSUME NEW s \in Seq(CsPart), NEW k \in CsReqs, PartsFrom(s, k, 0), Len(s) >= 1
    PROVE  Head(s)[1] = k
    <1>1. Len(s) \in Nat /\ 1 \in 1..Len(s) /\ Head(s) = s[1]
      OBVIOUS
    <1>2. s[1] = <<k, 0 + 1>>
      BY <1>1 DEF PartsFrom
    <1>3. QED
      BY <1>1, <1>2

\* A connection's state with some fields changed, and with its name as well.
Filled(conn, x, y) == [conn EXCEPT !.content = x, !.left = y]
Moved(conn, x, y, z) == [conn EXCEPT !.content = x, !.left = y, !.state = z]
LEMMA ConnFilled ==
    ASSUME NEW conn \in CsConnRec, NEW x \in Seq(CsPart), NEW y \in Nat
    PROVE  /\ Filled(conn, x, y) \in CsConnRec /\ Filled(conn, x, y).content = x
           /\ Filled(conn, x, y).left = y /\ Filled(conn, x, y).state = conn.state
    BY DEF CsConnRec, Filled
LEMMA ConnMoved ==
    ASSUME NEW conn \in CsConnRec, NEW x \in Seq(CsPart), NEW y \in Nat, NEW z \in CsConnStates
    PROVE  /\ Moved(conn, x, y, z) \in CsConnRec /\ Moved(conn, x, y, z).content = x
           /\ Moved(conn, x, y, z).left = y /\ Moved(conn, x, y, z).state = z
    BY DEF CsConnRec, Moved

\* What the handler makes of the parts, as such a change.
LEMMA ReadsMoved ==
    ASSUME NEW conn, NEW parts
    PROVE  /\ conn.state = "kConnRead" =>
                LET next == Filled(conn, conn.content \o parts, conn.left - Len(parts))
                IN  ReadsOn(conn, parts) = IF next.left = 0 THEN Reply(next) ELSE next
           /\ conn.state # "kConnRead" =>
                LET had == IF conn.state = "kConnCmd" THEN <<>> ELSE conn.content
                IN  ReadsOn(conn, parts) =
                      IF Len(parts) < Want(conn)
                      THEN Moved(conn, had \o parts, Want(conn) - Len(parts), "kConnWait")
                      ELSE Moved(conn, <<>>, csLen[Head(had \o parts)[1]], "kConnRead")
    BY Zenon DEF ReadsOn, BodyRead, HeadRead, Filled, Moved

\* Whatever is read, the state keeps its type, and a read that is short answers
\* nothing.
LEMMA ReadTyped ==
    ASSUME csLen \in [CsReqs -> Nat], NEW conn \in CsConnRec, NEW parts \in Seq(CsPart),
           conn.state \in {"kConnCmd", "kConnWait", "kConnRead"}, Len(parts) <= Want(conn),
           conn.state # "kConnRead" => Want(conn) >= 1
    PROVE  /\ ReadsOn(conn, parts) \in CsConnRec
           /\ Len(parts) < Want(conn) => ReadsOn(conn, parts).state # "kConnWrite"
    <1>1. /\ conn.fd \in CsFds \cup {0} /\ conn.left \in Nat /\ conn.content \in Seq(CsPart)
          /\ Len(parts) \in Nat /\ Want(conn) \in Nat /\ <<>> \in Seq(CsPart)
      BY CsConstants DEF CsConnRec, Want
    <1>2. CASE conn.state = "kConnRead"
      <2> DEFINE next == Filled(conn, conn.content \o parts, conn.left - Len(parts))
      <2>1. next \in CsConnRec /\ next.state = "kConnRead" /\ next.left = conn.left - Len(parts)
        <3>1. conn.content \o parts \in Seq(CsPart)
          BY <1>1, ConcatProperties
        <3>2. conn.left - Len(parts) \in Nat
          BY <1>1, <1>2 DEF Want
        <3>3. ASSUME NEW x \in Seq(CsPart), NEW y \in Nat
              PROVE  /\ Filled(conn, x, y) \in CsConnRec /\ Filled(conn, x, y).left = y
                     /\ Filled(conn, x, y).state = conn.state
          BY ConnFilled
        <3>4. QED
          BY <1>2, <3>1, <3>2, <3>3
      <2>2. ReadsOn(conn, parts) = IF next.left = 0 THEN Reply(next) ELSE next
        BY <1>2, ReadsMoved
      <2> HIDE DEF next
      <2>3. Reply(next) \in CsConnRec
        BY <2>1 DEF Reply, CsConnRec, CsConnStates
      <2>4. Len(parts) < Want(conn) => next.left # 0
        BY <1>1, <1>2, <2>1 DEF Want
      <2>5. QED
        BY <2>1, <2>2, <2>3, <2>4
    <1>3. CASE conn.state # "kConnRead"
      <2> DEFINE had == IF conn.state = "kConnCmd" THEN <<>> ELSE conn.content
      <2>1. had \in Seq(CsPart)
        BY <1>1
      <2>2. ReadsOn(conn, parts) =
              IF Len(parts) < Want(conn)
              THEN Moved(conn, had \o parts, Want(conn) - Len(parts), "kConnWait")
              ELSE Moved(conn, <<>>, csLen[Head(had \o parts)[1]], "kConnRead")
        BY <1>3, ReadsMoved
      <2> HIDE DEF had
      <2>3. had \o parts \in Seq(CsPart) /\ Len(had \o parts) >= Len(parts)
        <3>1. had \o parts \in Seq(CsPart) /\ Len(had \o parts) = Len(had) + Len(parts)
          BY <2>1, ConcatProperties
        <3>2. QED
          BY <1>1, <2>1, <3>1
      <2>4. CASE Len(parts) < Want(conn)
        <3>1. Want(conn) - Len(parts) \in Nat /\ "kConnWait" \in CsConnStates
          BY <1>1, <2>4 DEF CsConnStates
        <3> DEFINE r == Moved(conn, had \o parts, Want(conn) - Len(parts), "kConnWait")
        <3>2. r \in CsConnRec /\ r.state = "kConnWait"
          <4>1. ASSUME NEW x \in Seq(CsPart), NEW y \in Nat
                PROVE  /\ Moved(conn, x, y, "kConnWait") \in CsConnRec
                       /\ Moved(conn, x, y, "kConnWait").state = "kConnWait"
            BY <3>1, ConnMoved
          <4>2. QED
            BY <2>3, <3>1, <4>1
        <3>3. ReadsOn(conn, parts) = r
          BY <2>2, <2>4
        <3> HIDE DEF r
        <3>4. QED
          BY <3>2, <3>3
      <2>5. CASE ~(Len(parts) < Want(conn))
        <3>1. Len(had \o parts) >= 1
          BY <1>1, <1>3, <2>3, <2>5
        <3>2. Head(had \o parts) \in CsPart
          BY <2>3, <3>1
        <3>3. csLen[Head(had \o parts)[1]] \in Nat
          BY <3>2 DEF CsPart
        <3>4. "kConnRead" \in CsConnStates
          BY DEF CsConnStates
        <3> DEFINE r == Moved(conn, <<>>, csLen[Head(had \o parts)[1]], "kConnRead")
        <3>5. r \in CsConnRec
          BY <1>1, <3>3, <3>4, ConnMoved, Zenon
        <3>6. ReadsOn(conn, parts) = r
          BY <2>2, <2>5
        <3> HIDE DEF r
        <3>7. QED
          BY <2>5, <3>5, <3>6
      <2>6. QED
        BY <2>4, <2>5
    <1>4. QED
      BY <1>2, <1>3

\* The numbers of a head and of a body that is read in pieces.
HeadNumbers(h, w, m, size) ==
    /\ h \in Nat /\ w \in Nat /\ m \in Nat /\ size \in Nat /\ h + w = size /\ m >= 1 /\ m < w
LEMMA HeadRest ==
    ASSUME NEW h, NEW w, NEW m, NEW size, HeadNumbers(h, w, m, size)
    PROVE  h + m \in 1..(size - 1) /\ w - m = size - (h + m) /\ w - m \in Nat
    BY DEF HeadNumbers
BodyNumbers(l, h, m, len, size) ==
    /\ l \in Nat /\ h \in Nat /\ m \in Nat /\ len \in Nat /\ size \in Nat /\ l + h = len /\ m <= l
LEMMA BodyRest ==
    ASSUME NEW l, NEW h, NEW m, NEW len, NEW size, BodyNumbers(l, h, m, len, size)
    PROVE  /\ l - m \in Nat /\ (l - m) + (h + m) = len /\ size + (h + m) = size + h + m
           /\ l - m = 0 => h + m = len /\ size + h + m = size + len
    BY DEF BodyNumbers

\* The state that a head is followed by.
Movable(conn, x, y, z) ==
    conn \in CsConnRec /\ x \in Seq(CsPart) /\ y \in Nat /\ z \in CsConnStates
LEMMA ConnGoesOn ==
    ASSUME NEW conn, NEW x, NEW y, NEW z, Movable(conn, x, y, z)
    PROVE  /\ Moved(conn, x, y, z).content = x /\ Moved(conn, x, y, z).left = y
           /\ Moved(conn, x, y, z).state = z
    BY DEF Movable, Moved, CsConnRec

\* A sequence is the function of its elements.
LEMMA SeqAsFunction ==
    ASSUME NEW S, NEW q \in Seq(S)
    PROVE  q = [j \in 1..Len(q) |-> q[j]]
    OBVIOUS

\* A head, of which had was collected, and m parts of the wire s are read.
HeadAt(conn, n, had, s, m) ==
    /\ csLen \in [CsReqs -> Nat] /\ conn \in CsConnRec /\ n \in Nat /\ n + 1 \in CsReqs
    /\ conn.state \in {"kConnCmd", "kConnWait"} /\ had \in Seq(CsPart)
    /\ had = IF conn.state = "kConnCmd" THEN <<>> ELSE conn.content
    /\ PartsFrom(had, n + 1, 0) /\ Len(had) + Want(conn) = CsHead
    /\ s \in Seq(CsPart) /\ Follows(csLen, s, <<n + 1, Len(had)>>)
    /\ m \in 0..Len(s) /\ m <= Want(conn) /\ m >= 1

\* Reading a head, or the rest of one.
LEMMA HeadAdvances ==
    ASSUME NEW conn, NEW n, NEW had, NEW s, NEW m, HeadAt(conn, n, had, s, m), NEW next,
           next = ReadsOn(conn, SubSeq(s, 1, m))
    PROVE  next.state # "kConnWrite" /\ WellRead(csLen, next, n) /\ LastRead(csLen, next, n) = s[m]
    <1> DEFINE t == SubSeq(s, 1, m)
               w == Want(conn)
               k == n + 1
    <1>1. csLen \in [CsReqs -> Nat] /\ conn \in CsConnRec /\ n \in Nat /\ k \in CsReqs
      BY DEF HeadAt
    <1>2. had \in Seq(CsPart) /\ PartsFrom(had, k, 0) /\ s \in Seq(CsPart) /\ m \in 0..Len(s)
      BY DEF HeadAt
    <1>3. Follows(csLen, s, <<k, Len(had)>>)
      BY DEF HeadAt
    <1>4. Len(had) \in Nat /\ w \in Nat /\ Len(s) \in Nat /\ m \in Nat /\ CsHead \in Nat
      BY <1>1, <1>2, CsConstants DEF CsConnRec, Want
    <1>5. Len(had) + w = CsHead /\ m <= w /\ m >= 1
      BY DEF HeadAt
    <1>6. conn.state # "kConnRead" /\ had = IF conn.state = "kConnCmd" THEN <<>> ELSE conn.content
      BY DEF HeadAt
    <1> HIDE DEF k
    <1>7. SizeOf(csLen, k) = CsHead + csLen[k] /\ csLen[k] \in Nat
      <2>1. k \in 0..CsMaxReqs /\ k # 0
        BY <1>1, CsConstants
      <2>2. QED
        BY <1>1, <2>1, SizeType, Zenon
    <1>8. 0 + Len(had) + m <= SizeOf(csLen, k) /\ 0 + Len(had) = Len(had)
      BY <1>4, <1>5, <1>7
    <1>9. /\ t \in Seq(CsPart) /\ Len(t) = m /\ had \o t \in Seq(CsPart)
          /\ Len(had \o t) = Len(had) + m /\ PartsFrom(had \o t, k, 0)
          /\ s[m] = <<k, Len(had) + m>>
      <2>1. Follows(csLen, s, <<k, 0 + Len(had)>>) /\ 0 \in Nat
        BY <1>3, <1>8
      <2>2. /\ t \in Seq(CsPart) /\ Len(t) = m /\ had \o t \in Seq(CsPart)
            /\ Len(had \o t) = Len(had) + m /\ PartsFrom(had \o t, k, 0)
            /\ m # 0 => s[m] = <<k, 0 + Len(had) + m>>
        <3>1. Collecting(csLen, s, k, 0, had, m)
          BY <1>1, <1>2, <1>8, <2>1 DEF Collecting
        <3>2. QED
          BY <3>1, Collects
      <2>3. QED
        BY <1>4, <1>5, <1>8, <2>2
    <1>10. next = IF Len(t) < w THEN Moved(conn, had \o t, w - Len(t), "kConnWait")
                  ELSE Moved(conn, <<>>, csLen[Head(had \o t)[1]], "kConnRead")
      BY <1>6, ReadsMoved
    <1> HIDE DEF t, w
    <1>11. CASE m < w
      <2>1. w - m \in Nat /\ Len(had) + m \in 1..(CsHead - 1) /\ w - m = CsHead - (Len(had) + m)
        <3>1. HeadNumbers(Len(had), w, m, CsHead)
          BY <1>4, <1>5, <1>11 DEF HeadNumbers
        <3>2. QED
          BY <3>1, HeadRest
      <2>2. next = Moved(conn, had \o t, w - m, "kConnWait")
        BY <1>9, <1>10, <1>11
      <2>3. next.content = had \o t /\ next.left = w - m /\ next.state = "kConnWait"
        <3>1. Movable(conn, had \o t, w - m, "kConnWait")
          BY <1>1, <1>9, <2>1 DEF Movable, CsConnStates
        <3>2. ASSUME NEW x, NEW y, Movable(conn, x, y, "kConnWait"),
                     next = Moved(conn, x, y, "kConnWait")
              PROVE  next.content = x /\ next.left = y /\ next.state = "kConnWait"
          BY <3>2, ConnGoesOn
        <3>3. QED
          BY <2>2, <3>1, <3>2
      <2>4. Len(next.content) = Len(had) + m /\ PartsFrom(next.content, k, 0)
        BY <1>9, <2>3
      <2>5. WellRead(csLen, next, n)
        BY <1>1, <2>1, <2>3, <2>4 DEF WellRead, k
      <2>6. LastRead(csLen, next, n) = <<k, Len(next.content)>>
        BY <2>3 DEF LastRead, k
      <2>7. QED
        BY <1>9, <2>3, <2>4, <2>5, <2>6
    <1>12. CASE ~(m < w)
      <2>1. Len(had) + m = CsHead /\ Len(had) + m >= 1
        BY <1>4, <1>5, <1>12
      <2>2. Head(had \o t)[1] = k
        <3>1. Len(had \o t) >= 1
          BY <1>9, <2>1
        <3>2. QED
          BY <1>1, <1>9, <3>1, HeadNames, Zenon
      <2>3. next = Moved(conn, <<>>, csLen[k], "kConnRead") /\ <<>> \in Seq(CsPart)
        <3>1. next = Moved(conn, <<>>, csLen[Head(had \o t)[1]], "kConnRead")
          BY <1>9, <1>10, <1>12
        <3>2. next = Moved(conn, <<>>, csLen[k], "kConnRead")
          BY <2>2, <3>1, Zenon
        <3>3. QED
          BY <3>2, EmptySeq
      <2>4. next.content = <<>> /\ next.left = csLen[k] /\ next.state = "kConnRead"
        <3>1. Movable(conn, <<>>, csLen[k], "kConnRead")
          BY <1>1, <1>7, <2>3 DEF Movable, CsConnStates
        <3>2. QED
          BY <2>3, <3>1, ConnGoesOn
      <2>5. Len(next.content) = 0 /\ PartsFrom(next.content, k, CsHead)
        BY <2>4 DEF PartsFrom
      <2>6. next.left + Len(next.content) = csLen[k] /\ CsHead + Len(next.content) = CsHead
        BY <1>4, <1>7, <2>4, <2>5
      <2>7. WellRead(csLen, next, n)
        BY <1>1, <2>4, <2>5, <2>6 DEF WellRead, k
      <2>8. LastRead(csLen, next, n) = <<k, CsHead + Len(next.content)>>
        BY <2>4 DEF LastRead, k
      <2>9. QED
        BY <1>9, <2>1, <2>4, <2>6, <2>7, <2>8
    <1>13. QED
      BY <1>11, <1>12

\* A body, and m parts of the wire s are read.
BodyAt(conn, n, s, m) ==
    /\ csLen \in [CsReqs -> Nat] /\ conn \in CsConnRec /\ n \in Nat
    /\ conn.state = "kConnRead" /\ WellRead(csLen, conn, n)
    /\ s \in Seq(CsPart) /\ Follows(csLen, s, LastRead(csLen, conn, n))
    /\ m \in 0..Len(s) /\ m <= conn.left

\* Reading a body, or the rest of one: the last read answers the whole of it.
LEMMA BodyAdvances ==
    ASSUME NEW conn, NEW n, NEW s, NEW m, BodyAt(conn, n, s, m), NEW next,
           next = ReadsOn(conn, SubSeq(s, 1, m)), NEW last,
           last = IF m = 0 THEN LastRead(csLen, conn, n) ELSE s[m]
    PROVE  /\ n + 1 \in CsReqs
           /\ \/ /\ next.state = "kConnWrite" /\ last = <<n + 1, SizeOf(csLen, n + 1)>>
                 /\ next.content = [j \in 1..csLen[n + 1] |-> <<n + 1, CsHead + j>>]
              \/ /\ next.state = "kConnRead" /\ WellRead(csLen, next, n)
                 /\ LastRead(csLen, next, n) = last
    <1> DEFINE t == SubSeq(s, 1, m)
               k == n + 1
               had == conn.content
               left == conn.left
               fill == Filled(conn, had \o t, left - Len(t))
    <1>1. csLen \in [CsReqs -> Nat] /\ conn \in CsConnRec /\ n \in Nat /\ conn.state = "kConnRead"
      BY DEF BodyAt
    <1>2. had \in Seq(CsPart) /\ left \in Nat
      BY <1>1 DEF CsConnRec
    <1>3. k \in CsReqs /\ left + Len(had) = csLen[k] /\ PartsFrom(had, k, CsHead)
      BY <1>1 DEF BodyAt, WellRead
    <1>4. LastRead(csLen, conn, n) = <<k, CsHead + Len(had)>>
      BY <1>1 DEF LastRead
    <1>5. s \in Seq(CsPart) /\ m \in 0..Len(s) /\ m <= left
      BY DEF BodyAt
    <1>6. Follows(csLen, s, <<k, CsHead + Len(had)>>)
      BY <1>4 DEF BodyAt
    <1>7. next = IF fill.left = 0 THEN Reply(fill) ELSE fill
      BY <1>1, ReadsMoved
    <1> HIDE DEF k, had, left, fill
    <1>8. Len(had) \in Nat /\ Len(s) \in Nat /\ m \in Nat /\ CsHead \in Nat
      BY <1>2, <1>5, CsConstants
    <1>9. SizeOf(csLen, k) = CsHead + csLen[k] /\ csLen[k] \in Nat
      <2>1. k \in 0..CsMaxReqs /\ k # 0
        BY <1>3, CsConstants
      <2>2. QED
        BY <1>1, <2>1, SizeType, Zenon
    <1>10. CsHead + Len(had) + m <= SizeOf(csLen, k) /\ CsHead + Len(had) + 0 = CsHead + Len(had)
      BY <1>2, <1>3, <1>5, <1>8, <1>9
    <1>11. /\ t \in Seq(CsPart) /\ Len(t) = m /\ had \o t \in Seq(CsPart)
           /\ Len(had \o t) = Len(had) + m /\ PartsFrom(had \o t, k, CsHead)
           /\ m # 0 => s[m] = <<k, CsHead + Len(had) + m>>
      <2>1. Collecting(csLen, s, k, CsHead, had, m)
        BY <1>1, <1>2, <1>3, <1>5, <1>6, <1>8, <1>10 DEF Collecting
      <2>2. QED
        BY <2>1, Collects
    <1>12. last = <<k, CsHead + Len(had) + m>>
      BY <1>4, <1>10, <1>11
    <1> HIDE DEF t
    <1>13. /\ left - m \in Nat /\ (left - m) + (Len(had) + m) = csLen[k]
           /\ CsHead + (Len(had) + m) = CsHead + Len(had) + m
           /\ left - m = 0 => Len(had) + m = csLen[k] /\ CsHead + Len(had) + m = CsHead + csLen[k]
      <2>1. BodyNumbers(left, Len(had), m, csLen[k], CsHead)
        BY <1>2, <1>3, <1>5, <1>8, <1>9 DEF BodyNumbers
      <2>2. QED
        BY <2>1, BodyRest
    <1>14. /\ fill \in CsConnRec /\ fill.content = had \o t /\ fill.left = left - m
           /\ fill.state = "kConnRead"
      <2>1. fill = Filled(conn, had \o t, left - m)
        BY <1>11 DEF fill
      <2>2. QED
        BY <1>1, <1>11, <1>13, <2>1, ConnFilled, ZenonT(60)
    <1>15. CASE fill.left = 0
      <2>1. next.state = "kConnWrite" /\ next.content = had \o t
        BY <1>7, <1>14, <1>15 DEF Reply, CsConnRec
      <2>2. left - m = 0
        BY <1>14, <1>15
      <2>3. Len(had) + m = csLen[k] /\ CsHead + Len(had) + m = SizeOf(csLen, k)
        BY <1>9, <1>13, <2>2
      <2>4. had \o t = [j \in 1..csLen[k] |-> <<k, CsHead + j>>]
        <3>1. Len(had \o t) = csLen[k]
          BY <1>11, <2>3
        <3>2. \A j \in 1..csLen[k] : (had \o t)[j] = <<k, CsHead + j>>
          BY <1>11, <3>1 DEF PartsFrom
        <3>3. had \o t = [j \in 1..csLen[k] |-> (had \o t)[j]]
          BY <1>11, <3>1, SeqAsFunction
        <3>4. QED
          BY <3>2, <3>3
      <2>5. QED
        BY <1>3, <1>12, <2>1, <2>3, <2>4 DEF k
    <1>16. CASE fill.left # 0
      <2>1. next = fill
        BY <1>7, <1>16
      <2>2. next.state = "kConnRead" /\ next.content = had \o t /\ next.left = left - m
        BY <1>14, <2>1
      <2>3. Len(next.content) = Len(had) + m /\ PartsFrom(next.content, k, CsHead)
        BY <1>11, <2>2
      <2>4. next.left + Len(next.content) = csLen[k]
        BY <1>13, <2>2, <2>3
      <2>5. WellRead(csLen, next, n)
        BY <1>3, <2>2, <2>3, <2>4 DEF WellRead, k
      <2>6. LastRead(csLen, next, n) = <<k, CsHead + Len(next.content)>>
        BY <2>2 DEF LastRead, k
      <2>7. QED
        BY <1>3, <1>12, <1>13, <2>2, <2>3, <2>5, <2>6 DEF k
    <1>17. QED
      BY <1>15, <1>16

\* A readable event of a connection: m parts of its wire s are read.
ReadAt(conn, n, s, m) ==
    /\ csLen \in [CsReqs -> Nat] /\ conn \in CsConnRec /\ n \in 0..CsMaxReqs
    /\ conn.state \in {"kConnCmd", "kConnWait", "kConnRead"} /\ WellRead(csLen, conn, n)
    /\ s \in Seq(CsPart) /\ Follows(csLen, s, LastRead(csLen, conn, n))
    /\ m \in 0..Len(s) /\ m <= Want(conn) /\ (m = Want(conn) \/ m >= 1)

\* What is read is the next of the stream, whatever the handler was reading.
LEMMA ReadAdvances ==
    ASSUME NEW conn, NEW n, NEW s, NEW m, ReadAt(conn, n, s, m), NEW next,
           next = ReadsOn(conn, SubSeq(s, 1, m)), NEW last,
           last = IF m = 0 THEN LastRead(csLen, conn, n) ELSE s[m]
    PROVE  \/ /\ next.state = "kConnWrite" /\ n + 1 \in CsReqs
              /\ last = <<n + 1, SizeOf(csLen, n + 1)>>
              /\ next.content = [j \in 1..csLen[n + 1] |-> <<n + 1, CsHead + j>>]
           \/ /\ next.state # "kConnWrite" /\ WellRead(csLen, next, n)
              /\ LastRead(csLen, next, n) = last
    <1>1. /\ csLen \in [CsReqs -> Nat] /\ conn \in CsConnRec /\ n \in 0..CsMaxReqs
          /\ s \in Seq(CsPart) /\ m \in 0..Len(s)
      BY DEF ReadAt
    <1>2. m <= Want(conn) /\ (m = Want(conn) \/ m >= 1) /\ WellRead(csLen, conn, n)
      BY DEF ReadAt
    <1>3. Follows(csLen, s, LastRead(csLen, conn, n))
      BY DEF ReadAt
    <1>4. n \in Nat /\ m \in Nat /\ Len(s) \in Nat /\ CsHead \in Nat /\ CsHead >= 1 /\ m <= Len(s)
      BY <1>1, CsConstants
    <1>5. CASE conn.state = "kConnRead"
      <2>1. BodyAt(conn, n, s, m)
        BY <1>1, <1>2, <1>3, <1>4, <1>5 DEF BodyAt, Want
      <2>2. QED
        BY <2>1, BodyAdvances
    <1>6. CASE conn.state = "kConnWait"
      <2> DEFINE had == conn.content
      <2>1. /\ n + 1 \in CsReqs /\ Len(had) \in 1..(CsHead - 1) /\ conn.left = CsHead - Len(had)
            /\ PartsFrom(had, n + 1, 0)
        BY <1>2, <1>6 DEF WellRead
      <2>2. had \in Seq(CsPart) /\ Want(conn) = conn.left
        BY <1>1, <1>6 DEF CsConnRec, Want
      <2>3. LastRead(csLen, conn, n) = <<n + 1, Len(had)>>
        BY <1>6 DEF LastRead
      <2>4. Follows(csLen, s, <<n + 1, Len(had)>>)
        BY <1>3, <2>3
      <2>5. Len(had) + Want(conn) = CsHead /\ m >= 1 /\ m # 0
        BY <1>2, <1>4, <2>1, <2>2
      <2> HIDE DEF had
      <2>6. HeadAt(conn, n, had, s, m)
        <3>1. had = IF conn.state = "kConnCmd" THEN <<>> ELSE conn.content
          BY <1>6 DEF had
        <3>2. QED
          BY <1>1, <1>2, <1>4, <1>6, <2>1, <2>2, <2>4, <2>5, <3>1 DEF HeadAt
      <2>7. next.state # "kConnWrite" /\ WellRead(csLen, next, n) /\ LastRead(csLen, next, n) = s[m]
        BY <2>6, HeadAdvances
      <2>8. QED
        BY <2>5, <2>7
    <1>7. CASE conn.state = "kConnCmd"
      <2>1. Want(conn) = CsHead /\ m >= 1 /\ m # 0 /\ Len(s) >= 1
        BY <1>2, <1>4, <1>7 DEF Want
      <2>2. LastRead(csLen, conn, n) = <<n, SizeOf(csLen, n)>>
        BY <1>7 DEF LastRead
      <2>3. n + 1 \in CsReqs /\ Follows(csLen, s, <<n + 1, 0>>)
        <3>1. Follows(csLen, s, <<n, SizeOf(csLen, n)>>)
          BY <1>3, <2>2
        <3>2. QED
          BY <1>1, <2>1, <3>1, StreamNext
      <2> DEFINE had == <<>>
      <2>4. had \in Seq(CsPart) /\ Len(had) = 0
        BY EmptySeq
      <2>5. had = IF conn.state = "kConnCmd" THEN <<>> ELSE conn.content
        BY <1>7
      <2> HIDE DEF had
      <2>6. PartsFrom(had, n + 1, 0) /\ Len(had) + Want(conn) = CsHead
        BY <1>4, <2>1, <2>4 DEF PartsFrom
      <2>7. HeadAt(conn, n, had, s, m)
        BY <1>1, <1>2, <1>4, <1>7, <2>1, <2>3, <2>4, <2>5, <2>6 DEF HeadAt
      <2>8. next.state # "kConnWrite" /\ WellRead(csLen, next, n) /\ LastRead(csLen, next, n) = s[m]
        BY <2>7, HeadAdvances
      <2>9. QED
        BY <2>1, <2>8
    <1>8. QED
      BY <1>5, <1>6, <1>7 DEF ReadAt

-----------------------------------------------------------------------------
\* The older server: the steps

\* It holds at the start.
LEMMA CsInvInit == CsInit => CsInv
    <1> SUFFICES ASSUME CsInit PROVE CsInv
      OBVIOUS
    <1>1. CsTypes
      <2>1. NoConn \in CsConnRec
        BY DEF NoConn, CsConnRec, CsConnStates
      <2>2. csLen \in [CsReqs -> Nat]
        BY CsAssumption DEF CsInit, CsReqs
      <2>3. <<0, 0>> \in (0..CsMaxReqs) \X Nat
        BY CsConstants
      <2>4. CsTypeOK
        BY CsAssumption, <2>1 DEF CsInit, CsTypeOK, NoConn, CsConnStates
      <2>5. QED
        BY <2>1, <2>2, <2>3, <2>4 DEF CsInit, CsTypes
    <1>2. \A w \in CsWorkers, c \in CsConns : ~Queued(w, c) /\ c \notin csLoop[w]
      BY DEF CsInit, Queued, ToSet
    <1>3. CsPlaces
      BY <1>2 DEF CsInit, CsPlaces
    <1>4. CsOwned
      BY DEF CsInit, CsOwned
    <1>5. CsStreams
      <2>1. Stream(csLen, <<>>, <<0, 0>>, <<0, 0>>)
        BY DEF Stream, Follows, LastOf
      <2>2. QED
        BY <2>1 DEF CsInit, CsStreams
    <1>6. CsAnswered
      BY DEF CsInit, CsAnswered
    <1>7. QED
      BY <1>1, <1>3, <1>4, <1>5, <1>6 DEF CsInv

\* Adding to a queue.
LEMMA QueueGrows ==
    ASSUME NEW S, NEW s \in Seq(S), NEW a \in S
    PROVE  ToSet(Append(s, a)) = ToSet(s) \cup {a}
    <1>1. /\ Len(s) \in Nat /\ DOMAIN s = 1..Len(s) /\ DOMAIN Append(s, a) = 1..(Len(s) + 1)
          /\ Append(s, a)[Len(s) + 1] = a /\ \A i \in 1..Len(s) : Append(s, a)[i] = s[i]
      OBVIOUS
    <1>2. QED
      BY <1>1 DEF ToSet

\* The client sends the next part of its stream.
LEMMA SendKeeps == ASSUME CsInv, NEW c \in CsConns, Send(c) PROVE CsInv'
    <1> DEFINE a == NextPart(c)
               q == csSent[c]
    <1>1. /\ csLen \in [CsReqs -> Nat] /\ q \in (0..CsMaxReqs) \X Nat /\ csWire[c] \in Seq(CsPart)
          /\ csWire \in [CsConns -> Seq(CsPart)] /\ csSent \in [CsConns -> (0..CsMaxReqs) \X Nat]
      BY DEF CsInv, CsTypes
    <1>2. /\ csSent' = [csSent EXCEPT ![c] = a] /\ csWire' = [csWire EXCEPT ![c] = Append(@, a)]
          /\ a[1] \in CsReqs
      BY DEF Send
    <1>3. a = After(csLen, q)
      BY DEF NextPart, After, Length, SizeOf
    <1>4. a \in CsPart /\ a \in (0..CsMaxReqs) \X Nat
      <2>1. q[2] + 1 \in Nat /\ 1 \in Nat
        BY <1>1
      <2>2. \E k : a = <<k, q[2] + 1>> \/ a = <<k, 1>>
        BY <1>3 DEF After
      <2>3. PICK k : a = <<k, q[2] + 1>> \/ a = <<k, 1>>
        BY <2>2
      <2>4. k \in CsReqs
        BY <1>2, <2>3
      <2>5. k \in 0..CsMaxReqs
        BY <2>4, CsConstants
      <2>6. QED
        BY <2>1, <2>3, <2>4, <2>5 DEF CsPart
    <1> HIDE DEF a, q
    <1>5. UNCHANGED <<csFd, csLen, csGone, csAccepted, csAnswers, csQueue, csPipe, csLoop, csActions,
                      csMap, csClosing>>
      BY DEF Send
    <1>6. CsTypes'
      <2>1. csSent' \in [CsConns -> (0..CsMaxReqs) \X Nat]
        BY <1>1, <1>2, <1>4
      <2>2. csWire' \in [CsConns -> Seq(CsPart)]
        BY <1>1, <1>2, <1>4
      <2>3. QED
        BY <1>5, <2>1, <2>2 DEF CsInv, CsTypes, CsTypeOK
    <1>7. CsPlaces' /\ CsOwned' /\ CsAnswered'
      BY <1>5 DEF CsInv, CsPlaces, CsOwned, CsAnswered, Queued
    <1>8. ASSUME NEW p, Stream(csLen, csWire[c], p, csSent[c])
          PROVE  Stream(csLen, csWire'[c], p, csSent'[c])
      <2>1. csWire'[c] = Append(csWire[c], a) /\ csSent'[c] = a
        BY <1>1, <1>2
      <2>2. a = After(csLen, csSent[c])
        BY <1>3 DEF q
      <2>3. QED
        BY <1>1, <1>4, <1>8, <2>1, <2>2, StreamAppend
    <1>9. \A d \in CsConns : d # c => csWire'[d] = csWire[d] /\ csSent'[d] = csSent[d]
      BY <1>1, <1>2
    <1>10. ASSUME NEW d \in CsConns, NEW p, Stream(csLen, csWire[d], p, csSent[d])
           PROVE  Stream(csLen, csWire'[d], p, csSent'[d])
      BY <1>8, <1>9, <1>10
    <1>11. CsStreams'
      <2>1. ASSUME NEW d \in CsConns, d > csAccepted \/ \E w \in CsWorkers : Queued(w, d)
            PROVE  csAnswers[d] = <<>> /\ Stream(csLen, csWire'[d], <<0, 0>>, csSent'[d])
        BY <1>10, <2>1 DEF CsInv, CsStreams
      <2>2. ASSUME NEW w \in CsWorkers, NEW d \in csLoop[w]
            PROVE  InStep(csLen, csMap[w][csFd[d]], csWire'[d], csSent'[d], Len(csAnswers[d]))
        <3>1. d \in CsConns
          BY DEF CsInv, CsTypes, CsTypeOK
        <3>2. InStep(csLen, csMap[w][csFd[d]], csWire[d], csSent[d], Len(csAnswers[d]))
          BY DEF CsInv, CsStreams
        <3>3. QED
          BY <1>10, <3>1, <3>2 DEF InStep
      <2>3. QED
        BY <1>5, <2>1, <2>2 DEF CsStreams, Queued
    <1>12. QED
      BY <1>6, <1>7, <1>11 DEF CsInv

\* The client's end of the stream.
LEMMA LeaveKeeps == ASSUME CsInv, NEW c \in CsConns, Leave(c) PROVE CsInv'
    <1>1. CsTypes'
      BY DEF CsInv, Leave, CsTypes, CsTypeOK
    <1>2. CsPlaces' /\ CsOwned' /\ CsAnswered'
      BY DEF CsInv, Leave, CsPlaces, CsOwned, CsAnswered, Queued
    <1>3. CsStreams'
      BY DEF CsInv, Leave, CsStreams, Queued
    <1>4. QED
      BY <1>1, <1>2, <1>3 DEF CsInv

\* A connection is accepted and queued: it has no descriptor and no place yet.
LEMMA AcceptKeeps ==
    ASSUME CsInv, NEW v \in CsWorkers, NEW fd \in CsFds, AcceptEvent(v, fd)
    PROVE  CsInv'
    <1> DEFINE c == csAccepted + 1
    <1>1. /\ csAccepted \in 0..CsMaxConns /\ csFd \in [CsConns -> CsFds \cup {0}]
          /\ csQueue \in [CsWorkers -> Seq(CsConns)] /\ csPipe \in [CsWorkers -> 0..CsPipeCap]
          /\ csLoop \in [CsWorkers -> SUBSET CsConns]
      BY DEF CsInv, CsTypes, CsTypeOK
    <1>2. /\ csAccepted' = c /\ csFd' = [csFd EXCEPT ![c] = fd]
          /\ csQueue' = [csQueue EXCEPT ![v] = Append(@, c)]
          /\ csPipe' = [csPipe EXCEPT ![v] = IF @ < CsPipeCap THEN @ + 1 ELSE @]
          /\ csAccepted < CsMaxConns /\ \A d \in CsConns : csFd[d] # fd
      BY DEF AcceptEvent, AddClientFdAndNotify
    <1>3. UNCHANGED <<csWire, csSent, csLen, csGone, csAnswers, csLoop, csActions, csMap, csClosing>>
      BY DEF AcceptEvent
    <1>4. c \in CsConns /\ c > csAccepted /\ c \in 0..CsMaxConns /\ \A d \in CsConns : d > c => d > csAccepted
      BY <1>1, <1>2, CsConstants
    <1>5. csFd[c] = 0 /\ \A w \in CsWorkers : ~Queued(w, c) /\ c \notin csLoop[w]
      BY <1>4 DEF CsInv, CsPlaces
    <1>6. fd # 0
      BY CsConstants
    <1>7. \A d \in CsConns : csFd'[d] = IF d = c THEN fd ELSE csFd[d]
      BY <1>1, <1>2
    <1>8. ASSUME NEW w \in CsWorkers, NEW d \in CsConns
          PROVE  Queued(w, d)' <=> Queued(w, d) \/ (w = v /\ d = c)
      <2>1. CASE w = v
        <3>1. csQueue'[w] = Append(csQueue[w], c) /\ csQueue[w] \in Seq(CsConns)
          BY <1>1, <1>2, <2>1
        <3>2. ToSet(csQueue'[w]) = ToSet(csQueue[w]) \cup {c}
          BY <1>4, <3>1, QueueGrows
        <3>3. QED
          BY <2>1, <3>2 DEF Queued
      <2>2. CASE w # v
        <3>1. csQueue'[w] = csQueue[w]
          BY <1>1, <1>2, <2>2
        <3>2. QED
          BY <2>2, <3>1 DEF Queued
      <2>3. QED
        BY <2>1, <2>2
    <1>9. \A d \in CsConns : d > c => d # c
      BY <1>1
    <1> HIDE DEF c
    <1>10. CsTypes'
      <2>1. csFd' \in [CsConns -> CsFds \cup {0}]
        BY <1>1, <1>2
      <2>2. csQueue' \in [CsWorkers -> Seq(CsConns)]
        BY <1>1, <1>2, <1>4
      <2>3. csPipe' \in [CsWorkers -> 0..CsPipeCap]
        BY <1>1, <1>2, CsAssumption
      <2>4. csAccepted' \in 0..CsMaxConns
        BY <1>2, <1>4
      <2>5. QED
        BY <1>3, <2>1, <2>2, <2>3, <2>4 DEF CsInv, CsTypes, CsTypeOK
    <1>11. CsPlaces'
      <2>1. ASSUME NEW d \in CsConns, d > csAccepted'
            PROVE  csFd'[d] = 0 /\ \A w \in CsWorkers : ~Queued(w, d)' /\ d \notin csLoop'[w]
        <3>1. d # c /\ d > csAccepted
          BY <1>2, <1>4, <1>9, <2>1
        <3>2. csFd[d] = 0 /\ \A w \in CsWorkers : ~Queued(w, d) /\ d \notin csLoop[w]
          BY <3>1 DEF CsInv, CsPlaces
        <3>3. QED
          BY <1>3, <1>7, <1>8, <3>1, <3>2
      <2>2. ASSUME NEW d \in CsConns, NEW e \in CsConns, csFd'[d] = csFd'[e], csFd'[d] # 0
            PROVE  d = e
        BY <1>2, <1>7, <2>2 DEF CsInv, CsPlaces
      <2>3. ASSUME NEW w \in CsWorkers, NEW u \in CsWorkers, NEW d \in CsConns
            PROVE  /\ Queued(w, d)' => csFd'[d] # 0 /\ d \notin csLoop'[u] /\ (Queued(u, d)' => w = u)
                   /\ d \in csLoop'[w] => csFd'[d] # 0 /\ (d \in csLoop'[u] => w = u)
        <3>1. /\ Queued(w, d) => csFd[d] # 0 /\ d \notin csLoop[u] /\ (Queued(u, d) => w = u)
              /\ d \in csLoop[w] => csFd[d] # 0 /\ (d \in csLoop[u] => w = u)
          BY DEF CsInv, CsPlaces
        <3>2. CASE d = c
          BY <1>3, <1>5, <1>6, <1>7, <1>8, <3>2
        <3>3. CASE d # c
          BY <1>3, <1>7, <1>8, <3>1, <3>3
        <3>4. QED
          BY <3>2, <3>3
      <2>4. QED
        BY <2>1, <2>2, <2>3 DEF CsPlaces, Queued
    <1>12. \A w \in CsWorkers : \A d \in csLoop[w] : d \in CsConns /\ csFd'[d] = csFd[d]
      BY <1>1, <1>5, <1>7
    <1>13. CsOwned'
      <2>1. ASSUME NEW w \in CsWorkers
            PROVE  /\ \A f \in CsFds : csMap[w][f] # NoConn =>
                         csClosing[w] = f \/ \E d \in csLoop[w] : csFd'[d] = f
                   /\ \A d \in csLoop[w] : csFd'[d] # csClosing[w]
        BY <1>12 DEF CsInv, CsOwned
      <2>2. QED
        BY <1>3, <2>1 DEF CsOwned
    <1>14. CsStreams'
      <2>1. ASSUME NEW d \in CsConns, d > csAccepted' \/ \E w \in CsWorkers : Queued(w, d)'
            PROVE  csAnswers[d] = <<>> /\ Stream(csLen, csWire[d], <<0, 0>>, csSent[d])
        <3>1. d > csAccepted \/ \E w \in CsWorkers : Queued(w, d)
          BY <1>2, <1>4, <1>8, <2>1
        <3>2. QED
          BY <3>1 DEF CsInv, CsStreams
      <2>2. ASSUME NEW w \in CsWorkers, NEW d \in csLoop[w]
            PROVE  InStep(csLen, csMap[w][csFd'[d]], csWire[d], csSent[d], Len(csAnswers[d]))
        BY <1>12 DEF CsInv, CsStreams
      <2>3. QED
        BY <1>3, <2>1, <2>2 DEF CsStreams, Queued
    <1>15. CsAnswered'
      BY <1>3 DEF CsInv, CsAnswered
    <1>16. QED
      BY <1>10, <1>11, <1>13, <1>14, <1>15 DEF CsInv

\* The entry of a new connection.
FreshConn(f) == [NoConn EXCEPT !.fd = f, !.state = "kConnCmd"]
LEMMA FreshType ==
    ASSUME NEW f \in CsFds
    PROVE  FreshConn(f) \in CsConnRec /\ FreshConn(f).state = "kConnCmd" /\ FreshConn(f) # NoConn
    <1>1. NoConn \in CsConnRec /\ NoConn.state = "none"
      BY DEF NoConn, CsConnRec, CsConnStates
    <1>2. ASSUME NEW r \in CsConnRec
          PROVE  /\ [r EXCEPT !.fd = f, !.state = "kConnCmd"] \in CsConnRec
                 /\ [r EXCEPT !.fd = f, !.state = "kConnCmd"].state = "kConnCmd"
      BY DEF CsConnRec, CsConnStates
    <1>3. FreshConn(f) \in CsConnRec /\ FreshConn(f).state = "kConnCmd"
      BY <1>1, <1>2 DEF FreshConn
    <1>4. QED
      BY <1>1, <1>3

\* The queue is taken over: conns_ has no entry for the descriptors in it.
LEMMA NotifyKeeps == ASSUME CsInv, NEW v \in CsWorkers, NotifyEvent(v) PROVE CsInv'
    <1> DEFINE new == ToSet(csQueue[v])
               fds == {csFd[c] : c \in new}
    <1>1. /\ csFd \in [CsConns -> CsFds \cup {0}] /\ csMap \in [CsWorkers -> [CsFds -> CsConnRec]]
          /\ csQueue \in [CsWorkers -> Seq(CsConns)] /\ csPipe \in [CsWorkers -> 0..CsPipeCap]
          /\ csLoop \in [CsWorkers -> SUBSET CsConns] /\ csActions \in [CsWorkers -> SUBSET CsFds]
      BY DEF CsInv, CsTypes, CsTypeOK
    <1>2. /\ csPipe[v] > 0 /\ csClosing[v] = 0 /\ csPipe' = [csPipe EXCEPT ![v] = @ - 1]
          /\ csQueue' = [csQueue EXCEPT ![v] = <<>>] /\ csLoop' = [csLoop EXCEPT ![v] = @ \cup new]
          /\ csActions' = [csActions EXCEPT ![v] = @ \cup fds]
          /\ csMap' = [csMap EXCEPT ![v] = [f \in CsFds |->
                          IF f \in fds /\ @[f] = NoConn
                          THEN [NoConn EXCEPT !.fd = f, !.state = "kConnCmd"] ELSE @[f]]]
      BY DEF NotifyEvent
    <1>3. UNCHANGED <<csFd, csWire, csAnswers, csClosing, csSent, csLen, csGone, csAccepted>>
      BY DEF NotifyEvent, csClient
    <1>4. new \subseteq CsConns
      <2>1. csQueue[v] \in Seq(CsConns)
        BY <1>1
      <2>2. QED
        BY <2>1, ElementOfSeq DEF ToSet
    <1>5. \A c \in CsConns : c \in new <=> Queued(v, c)
      BY DEF Queued
    <1>6. \A c \in new : csFd[c] # 0 /\ csFd[c] \in CsFds /\ \A w \in CsWorkers : c \notin csLoop[w]
      BY <1>1, <1>4, <1>5 DEF CsInv, CsPlaces
    <1> HIDE DEF new
    <1>7. fds \subseteq CsFds
      BY <1>6
    <1>8. \A f \in fds : csMap[v][f] = NoConn
      <2>1. SUFFICES ASSUME NEW c \in new, csMap[v][csFd[c]] # NoConn PROVE FALSE
        OBVIOUS
      <2>2. csFd[c] # 0 /\ csFd[c] \in CsFds /\ c \notin csLoop[v] /\ c \in CsConns
        BY <1>4, <1>6
      <2>3. PICK d \in csLoop[v] : csFd[d] = csFd[c]
        BY <1>2, <2>1, <2>2 DEF CsInv, CsOwned
      <2>4. d \in CsConns
        BY <1>1
      <2>5. d = c
        BY <2>2, <2>3, <2>4 DEF CsInv, CsPlaces
      <2>6. QED
        BY <2>2, <2>5
    <1> HIDE DEF fds
    <1>0. csMap' = [csMap EXCEPT ![v] = [f \in CsFds |->
                       IF f \in fds /\ @[f] = NoConn THEN FreshConn(f) ELSE @[f]]]
      BY <1>2 DEF FreshConn
    <1>9. \A f \in CsFds : csMap'[v][f] = IF f \in fds THEN FreshConn(f) ELSE csMap[v][f]
      BY <1>0, <1>1, <1>8
    <1>10. \A w \in CsWorkers : w # v => /\ csMap'[w] = csMap[w] /\ csLoop'[w] = csLoop[w]
                                         /\ csQueue'[w] = csQueue[w]
      BY <1>1, <1>2
    <1>11. csLoop'[v] = csLoop[v] \cup new /\ csQueue'[v] = <<>>
      BY <1>1, <1>2
    <1>12. \A f \in CsFds : FreshConn(f) \in CsConnRec /\ FreshConn(f).state = "kConnCmd" /\ FreshConn(f) # NoConn
      BY FreshType
    <1>13. \A c \in CsConns : ~Queued(v, c)'
      BY <1>11 DEF Queued, ToSet
    <1>14. \A w \in CsWorkers, c \in CsConns : w # v => (Queued(w, c)' <=> Queued(w, c))
      BY <1>10 DEF Queued
    <1>15. CsTypes'
      <2>1. csPipe' \in [CsWorkers -> 0..CsPipeCap]
        <3>1. csPipe[v] \in 0..CsPipeCap /\ CsPipeCap \in Nat
          BY <1>1, CsAssumption
        <3>4. csPipe[v] > 0 /\ csPipe' = [csPipe EXCEPT ![v] = @ - 1]
          BY <1>2
        <3>2. csPipe[v] - 1 \in 0..CsPipeCap /\ csPipe' = [csPipe EXCEPT ![v] = @ - 1]
          BY <3>1, <3>4
        <3>3. QED
          BY <1>1, <3>2
      <2>2. csQueue' \in [CsWorkers -> Seq(CsConns)]
        <3>1. csQueue' = [csQueue EXCEPT ![v] = <<>>] /\ <<>> \in Seq(CsConns)
          BY <1>2, EmptySeq
        <3>2. QED
          BY <1>1, <3>1
      <2>3. csLoop' \in [CsWorkers -> SUBSET CsConns]
        BY <1>1, <1>2, <1>4
      <2>4. csActions' \in [CsWorkers -> SUBSET CsFds]
        BY <1>1, <1>2, <1>7
      <2>5. csMap' \in [CsWorkers -> [CsFds -> CsConnRec]]
        <3> DEFINE m == [f \in CsFds |-> IF f \in fds /\ csMap[v][f] = NoConn THEN FreshConn(f)
                                         ELSE csMap[v][f]]
        <3>1. m \in [CsFds -> CsConnRec]
          BY <1>1, <1>12
        <3>2. csMap' = [csMap EXCEPT ![v] = m]
          BY <1>0
        <3> HIDE DEF m
        <3>3. QED
          BY <1>1, <3>1, <3>2
      <2>6. \A w \in CsWorkers, f \in CsFds : csMap'[w][f].state \in CsConnStates /\ csMap'[w][f].left \in Nat
        BY <2>5 DEF CsConnRec
      <2>7. QED
        BY <1>3, <2>1, <2>2, <2>3, <2>4, <2>5, <2>6 DEF CsInv, CsTypes, CsTypeOK
    <1>16. CsPlaces'
      <2>1. ASSUME NEW d \in CsConns, d > csAccepted
            PROVE  csFd[d] = 0 /\ \A w \in CsWorkers : ~Queued(w, d)' /\ d \notin csLoop'[w]
        <3>1. csFd[d] = 0 /\ \A w \in CsWorkers : ~Queued(w, d) /\ d \notin csLoop[w]
          BY <2>1 DEF CsInv, CsPlaces
        <3>2. QED
          BY <1>5, <1>10, <1>11, <1>13, <1>14, <3>1
      <2>2. ASSUME NEW w \in CsWorkers, NEW u \in CsWorkers, NEW d \in CsConns
            PROVE  /\ Queued(w, d)' => csFd[d] # 0 /\ d \notin csLoop'[u] /\ (Queued(u, d)' => w = u)
                   /\ d \in csLoop'[w] => csFd[d] # 0 /\ (d \in csLoop'[u] => w = u)
        <3>1. /\ Queued(w, d) => csFd[d] # 0 /\ d \notin csLoop[u] /\ (Queued(u, d) => w = u)
              /\ d \in csLoop[w] => csFd[d] # 0 /\ (d \in csLoop[u] => w = u)
              /\ Queued(v, d) => d \notin csLoop[w] /\ d \notin csLoop[u] /\ (Queued(w, d) => w = v)
          BY DEF CsInv, CsPlaces
        <3>2. QED
          BY <1>5, <1>6, <1>10, <1>11, <1>13, <1>14, <3>1
      <2>3. QED
        BY <1>3, <2>1, <2>2 DEF CsInv, CsPlaces, Queued
    <1>17. CsOwned'
      <2>1. ASSUME NEW w \in CsWorkers, NEW f \in CsFds, csMap'[w][f] # NoConn
            PROVE  csClosing[w] = f \/ \E c \in csLoop'[w] : csFd[c] = f
        <3>1. CASE w = v /\ f \in fds
          BY <1>11, <3>1 DEF fds
        <3>2. CASE ~(w = v /\ f \in fds)
          <4>1. csMap[w][f] # NoConn
            BY <1>9, <1>10, <2>1, <3>2
          <4>2. csClosing[w] = f \/ \E c \in csLoop[w] : csFd[c] = f
            BY <4>1 DEF CsInv, CsOwned
          <4>3. csLoop[w] \subseteq csLoop'[w]
            BY <1>10, <1>11
          <4>4. QED
            BY <4>2, <4>3
        <3>3. QED
          BY <3>1, <3>2
      <2>2. ASSUME NEW w \in CsWorkers, NEW c \in csLoop'[w]
            PROVE  csFd[c] # csClosing[w]
        BY <1>2, <1>6, <1>10, <1>11, ZenonT(60) DEF CsInv, CsOwned
      <2>3. QED
        BY <1>3, <2>1, <2>2 DEF CsOwned
    <1>18. CsStreams'
      <2>1. ASSUME NEW d \in CsConns, d > csAccepted \/ \E w \in CsWorkers : Queued(w, d)'
            PROVE  csAnswers[d] = <<>> /\ Stream(csLen, csWire[d], <<0, 0>>, csSent[d])
        <3>1. d > csAccepted \/ \E w \in CsWorkers : Queued(w, d)
          BY <1>13, <1>14, <2>1
        <3>2. QED
          BY <3>1 DEF CsInv, CsStreams
      <2>2. ASSUME NEW w \in CsWorkers, NEW d \in csLoop'[w]
            PROVE  InStep(csLen, csMap'[w][csFd[d]], csWire[d], csSent[d], Len(csAnswers[d]))
        <3>1. CASE w = v /\ d \in new
          <4>1. csMap'[w][csFd[d]] = FreshConn(csFd[d]) /\ csMap'[w][csFd[d]].state = "kConnCmd"
            <5>1. csFd[d] \in fds /\ csFd[d] \in CsFds
              BY <1>6, <3>1 DEF fds
            <5>2. QED
              BY <1>9, <1>12, <3>1, <5>1
          <4>2. csAnswers[d] = <<>> /\ Stream(csLen, csWire[d], <<0, 0>>, csSent[d])
            BY <1>4, <1>5, <3>1 DEF CsInv, CsStreams
          <4>3. Len(csAnswers[d]) = 0
            BY <4>2
          <4>4. LastRead(csLen, csMap'[w][csFd[d]], 0) = <<0, 0>>
            BY <4>1 DEF LastRead, SizeOf
          <4>5. QED
            BY <4>1, <4>2, <4>3, <4>4 DEF InStep, WellRead
        <3>2. CASE d \in csLoop[w]
          <4>1. d \in CsConns /\ csFd[d] \in CsFds
            BY <1>1, <3>2 DEF CsInv, CsPlaces
          <4>2. csMap'[w][csFd[d]] = csMap[w][csFd[d]]
            <5>1. CASE w = v
              <6>1. csFd[d] \notin fds
                <7>1. SUFFICES ASSUME NEW e \in new, csFd[e] = csFd[d] PROVE FALSE
                  BY DEF fds
                <7>2. e \in CsConns /\ csFd[e] # 0 /\ e \notin csLoop[w]
                  BY <1>4, <1>6
                <7>3. e = d
                  BY <4>1, <7>1, <7>2 DEF CsInv, CsPlaces
                <7>4. QED
                  BY <3>2, <7>2, <7>3
              <6>2. QED
                BY <1>9, <4>1, <5>1, <6>1
            <5>2. CASE w # v
              BY <1>10, <5>2
            <5>3. QED
              BY <5>1, <5>2
          <4>3. QED
            BY <3>2, <4>2 DEF CsInv, CsStreams
        <3>3. QED
          BY <1>10, <1>11, <3>1, <3>2
      <2>3. QED
        BY <1>3, <2>1, <2>2 DEF CsStreams, Queued
    <1>19. CsAnswered'
      BY <1>3 DEF CsInv, CsAnswered
    <1>20. QED
      BY <1>15, <1>16, <1>17, <1>18, <1>19 DEF CsInv

\* The entry of a closed descriptor is erased; no connection of this worker has
\* the descriptor again.
LEMMA EraseKeeps == ASSUME CsInv, NEW v \in CsWorkers, EraseConn(v) PROVE CsInv'
    <1> DEFINE g == csClosing[v]
    <1>1. /\ csFd \in [CsConns -> CsFds \cup {0}] /\ csMap \in [CsWorkers -> [CsFds -> CsConnRec]]
          /\ csLoop \in [CsWorkers -> SUBSET CsConns] /\ csActions \in [CsWorkers -> SUBSET CsFds]
          /\ csClosing \in [CsWorkers -> CsFds \cup {0}]
      BY DEF CsInv, CsTypes, CsTypeOK
    <1>2. {c \in csLoop[v] : csFd[c] = g} = {}
      BY DEF CsInv, CsOwned
    <1>3. /\ g # 0 /\ csMap' = [csMap EXCEPT ![v][g] = NoConn]
          /\ csLoop' = [csLoop EXCEPT ![v] = @ \ {c \in csLoop[v] : csFd[c] = g}]
          /\ csActions' = [csActions EXCEPT ![v] = IF {c \in csLoop[v] : csFd[c] = g} = {} THEN @
                                                   ELSE @ \ {g}]
          /\ csClosing' = [csClosing EXCEPT ![v] = 0]
      BY DEF EraseConn
    <1>4. UNCHANGED <<csFd, csWire, csAnswers, csQueue, csPipe, csSent, csLen, csGone, csAccepted>>
      BY DEF EraseConn, csClient
    <1>5. csLoop' = csLoop
      BY <1>1, <1>2, <1>3
    <1>6. csActions' = csActions
      BY <1>1, <1>2, <1>3
    <1>7. g \in CsFds
      BY <1>1, <1>3
    <1>8. /\ \A w \in CsWorkers : w # v => csMap'[w] = csMap[w] /\ csClosing'[w] = csClosing[w]
          /\ csClosing'[v] = 0
      BY <1>1, <1>3
    <1>9. csMap'[v][g] = NoConn /\ \A f \in CsFds : f # g => csMap'[v][f] = csMap[v][f]
      BY <1>1, <1>3
    <1> HIDE DEF g
    <1>10. CsTypes'
      <2>1. NoConn \in CsConnRec
        BY DEF NoConn, CsConnRec, CsConnStates
      <2>2. csMap' \in [CsWorkers -> [CsFds -> CsConnRec]]
        BY <1>1, <1>3, <2>1
      <2>3. \A w \in CsWorkers, f \in CsFds : csMap'[w][f].state \in CsConnStates /\ csMap'[w][f].left \in Nat
        BY <2>2 DEF CsConnRec
      <2>4. csClosing' \in [CsWorkers -> CsFds \cup {0}]
        BY <1>1, <1>3
      <2>5. QED
        BY <1>4, <1>5, <1>6, <2>2, <2>3, <2>4 DEF CsInv, CsTypes, CsTypeOK
    <1>11. CsPlaces'
      BY <1>4, <1>5 DEF CsInv, CsPlaces, Queued
    <1>12. \A w \in CsWorkers : \A c \in csLoop[w] : c \in CsConns /\ csFd[c] \in CsFds
      BY <1>1 DEF CsInv, CsPlaces
    <1>13. CsOwned'
      <2>1. ASSUME NEW w \in CsWorkers, NEW f \in CsFds, csMap'[w][f] # NoConn
            PROVE  csClosing'[w] = f \/ \E c \in csLoop[w] : csFd[c] = f
        <3>1. csMap[w][f] # NoConn /\ (w = v => f # g)
          BY <1>8, <1>9, <2>1
        <3>2. csClosing[w] = f \/ \E c \in csLoop[w] : csFd[c] = f
          BY <3>1 DEF CsInv, CsOwned
        <3>3. QED
          BY <1>8, <3>1, <3>2 DEF g
      <2>2. ASSUME NEW w \in CsWorkers, NEW c \in csLoop[w]
            PROVE  csFd[c] # csClosing'[w]
        BY <1>8, <1>12, CsConstants DEF CsInv, CsOwned
      <2>3. QED
        BY <1>4, <1>5, <2>1, <2>2 DEF CsOwned
    <1>14. CsStreams'
      <2>1. ASSUME NEW w \in CsWorkers, NEW c \in csLoop[w]
            PROVE  csMap'[w][csFd[c]] = csMap[w][csFd[c]]
        <3>1. w = v => csFd[c] # g
          BY DEF CsInv, CsOwned, g
        <3>2. QED
          BY <1>8, <1>9, <1>12, <3>1
      <2>2. QED
        BY <1>4, <1>5, <2>1 DEF CsInv, CsStreams, Queued
    <1>15. CsAnswered'
      BY <1>4 DEF CsInv, CsAnswered
    <1>16. QED
      BY <1>10, <1>11, <1>13, <1>14, <1>15 DEF CsInv

\* A connection leaves its place when it is closed.
LEMMA ClosePlaces ==
    ASSUME CsInv, NEW v \in CsWorkers, NEW c \in csLoop[v], csClosing[v] = 0,
           CloseConn(v, c) \/ UNCHANGED <<csClosing, csFd, csLoop>>,
           UNCHANGED <<csQueue, csAccepted>>
    PROVE  /\ CsPlaces' /\ csFd' \in [CsConns -> CsFds \cup {0}]
           /\ csLoop' \in [CsWorkers -> SUBSET CsConns]
           /\ csClosing' \in [CsWorkers -> CsFds \cup {0}]
           /\ \A w \in CsWorkers : csLoop'[w] \subseteq csLoop[w]
           /\ \A w \in CsWorkers : \A d \in csLoop'[w] : csFd'[d] = csFd[d]
           /\ \A w \in CsWorkers : w # v => csLoop'[w] = csLoop[w] /\ csClosing'[w] = csClosing[w]
           /\ \A d \in csLoop[v] : d # c => d \in csLoop'[v]
           /\ csClosing'[v] = csFd[c] \/ (csClosing'[v] = 0 /\ c \in csLoop'[v])
           /\ \A d \in csLoop'[v] : csFd'[d] # csClosing'[v]
    <1>1. /\ csFd \in [CsConns -> CsFds \cup {0}] /\ csLoop \in [CsWorkers -> SUBSET CsConns]
          /\ csClosing \in [CsWorkers -> CsFds \cup {0}]
      BY DEF CsInv, CsTypes, CsTypeOK
    <1>2. c \in CsConns /\ csFd[c] # 0 /\ csFd[c] \in CsFds
      BY <1>1 DEF CsInv, CsPlaces
    <1>3. \A d \in csLoop[v] : d \in CsConns /\ csFd[d] # 0 /\ (csFd[d] = csFd[c] => d = c)
      BY <1>1, <1>2 DEF CsInv, CsPlaces
    <1>4. \A w \in CsWorkers, d \in CsConns : Queued(w, d)' <=> Queued(w, d)
      BY DEF Queued
    <1>5. CASE UNCHANGED <<csClosing, csFd, csLoop>>
      <2>1. CsPlaces'
        BY <1>5 DEF CsInv, CsPlaces, Queued
      <2>2. QED
        BY <1>1, <1>3, <1>5, <2>1
    <1>6. CASE CloseConn(v, c)
      <2>1. /\ csClosing' = [csClosing EXCEPT ![v] = csFd[c]] /\ csFd' = [csFd EXCEPT ![c] = 0]
            /\ csLoop' = [csLoop EXCEPT ![v] = @ \ {c}]
        BY <1>6 DEF CloseConn
      <2>2. \A d \in CsConns : csFd'[d] = IF d = c THEN 0 ELSE csFd[d]
        BY <1>1, <2>1
      <2>3. csLoop'[v] = csLoop[v] \ {c} /\ \A w \in CsWorkers : w # v => csLoop'[w] = csLoop[w]
        BY <1>1, <2>1
      <2>4. csClosing'[v] = csFd[c] /\ \A w \in CsWorkers : w # v => csClosing'[w] = csClosing[w]
        BY <1>1, <2>1
      <2>5. \A w \in CsWorkers : ~Queued(w, c) /\ (c \in csLoop[w] => w = v)
        BY <1>2 DEF CsInv, CsPlaces
      <2>6. CsPlaces'
        <3>1. ASSUME NEW d \in CsConns, d > csAccepted
              PROVE  csFd'[d] = 0 /\ \A w \in CsWorkers : ~Queued(w, d)' /\ d \notin csLoop'[w]
          <4>1. csFd[d] = 0 /\ \A w \in CsWorkers : ~Queued(w, d) /\ d \notin csLoop[w]
            BY <3>1 DEF CsInv, CsPlaces
          <4>2. QED
            BY <1>4, <2>2, <2>3, <4>1
        <3>2. ASSUME NEW d \in CsConns, NEW e \in CsConns, csFd'[d] = csFd'[e], csFd'[d] # 0
              PROVE  d = e
          BY <2>2, <3>2 DEF CsInv, CsPlaces
        <3>3. ASSUME NEW w \in CsWorkers, NEW u \in CsWorkers, NEW d \in CsConns
              PROVE  /\ Queued(w, d)' => csFd'[d] # 0 /\ d \notin csLoop'[u] /\ (Queued(u, d)' => w = u)
                     /\ d \in csLoop'[w] => csFd'[d] # 0 /\ (d \in csLoop'[u] => w = u)
          <4>1. /\ Queued(w, d) => csFd[d] # 0 /\ d \notin csLoop[u] /\ (Queued(u, d) => w = u)
                /\ d \in csLoop[w] => csFd[d] # 0 /\ (d \in csLoop[u] => w = u)
            BY DEF CsInv, CsPlaces
          <4>2. CASE d = c
            <5>1. ~Queued(w, d)' /\ d \notin csLoop'[w]
              BY <1>4, <2>3, <2>5, <4>2
            <5>2. QED
              BY <5>1
          <4>3. CASE d # c
            BY <1>4, <2>2, <2>3, <4>1, <4>3
          <4>4. QED
            BY <4>2, <4>3
        <3>4. QED
          BY <3>1, <3>2, <3>3 DEF CsPlaces, Queued
      <2>7. csFd' \in [CsConns -> CsFds \cup {0}] /\ csLoop' \in [CsWorkers -> SUBSET CsConns]
        BY <1>1, <2>1
      <2>8. csClosing' \in [CsWorkers -> CsFds \cup {0}]
        BY <1>1, <1>2, <2>1
      <2>9. \A w \in CsWorkers : \A d \in csLoop'[w] : d \in CsConns /\ d # c
        BY <1>1, <2>3, <2>5
      <2>10. \A d \in csLoop'[v] : csFd'[d] # csClosing'[v]
        BY <1>3, <2>2, <2>3, <2>4
      <2>11. QED
        BY <2>2, <2>3, <2>4, <2>6, <2>7, <2>8, <2>9, <2>10
    <1>7. QED
      BY <1>5, <1>6

\* An event of a connection: its entry becomes next, and it may be closed.
Event(v, c, next) ==
    /\ v \in CsWorkers /\ c \in csLoop[v] /\ csClosing[v] = 0 /\ next \in CsConnRec
    /\ CloseConn(v, c) \/ UNCHANGED <<csClosing, csFd, csLoop>>
    /\ csMap' = [csMap EXCEPT ![v][csFd[c]] = next]
    /\ UNCHANGED <<csQueue, csAccepted, csLen, csSent>>

\* It changes this entry only.
LEMMA EventOwned ==
    ASSUME CsInv, NEW v \in CsWorkers, NEW c \in csLoop[v], NEW next \in CsConnRec,
           Event(v, c, next)
    PROVE  /\ CsOwned' /\ csMap' \in [CsWorkers -> [CsFds -> CsConnRec]]
           /\ csMap'[v][csFd[c]] = next
           /\ \A w \in CsWorkers : \A d \in csLoop'[w] :
                 d # c => d \in csLoop[w] /\ csMap'[w][csFd'[d]] = csMap[w][csFd[d]]
    <1>1. /\ csFd \in [CsConns -> CsFds \cup {0}] /\ csLoop \in [CsWorkers -> SUBSET CsConns]
          /\ csMap \in [CsWorkers -> [CsFds -> CsConnRec]]
      BY DEF CsInv, CsTypes, CsTypeOK
    <1>2. \A w \in CsWorkers : \A d \in csLoop[w] : d \in CsConns /\ csFd[d] # 0 /\ csFd[d] \in CsFds
      BY <1>1 DEF CsInv, CsPlaces
    <1>3. \A w \in CsWorkers : \A d \in csLoop[w] : (csFd[d] = csFd[c] => d = c) /\ (d = c => w = v)
      BY <1>2 DEF CsInv, CsPlaces
    <1>4. /\ \A w \in CsWorkers : csLoop'[w] \subseteq csLoop[w]
          /\ \A w \in CsWorkers : \A d \in csLoop'[w] : csFd'[d] = csFd[d]
          /\ \A w \in CsWorkers : w # v => csLoop'[w] = csLoop[w] /\ csClosing'[w] = csClosing[w]
          /\ \A d \in csLoop[v] : d # c => d \in csLoop'[v]
          /\ csClosing'[v] = csFd[c] \/ (csClosing'[v] = 0 /\ c \in csLoop'[v])
          /\ \A d \in csLoop'[v] : csFd'[d] # csClosing'[v]
      <2>1. /\ csClosing[v] = 0 /\ (CloseConn(v, c) \/ UNCHANGED <<csClosing, csFd, csLoop>>)
            /\ UNCHANGED <<csQueue, csAccepted>>
        BY DEF Event
      <2>2. QED
        BY <2>1, ClosePlaces
    <1>5. csFd[c] \in CsFds /\ csMap' = [csMap EXCEPT ![v][csFd[c]] = next] /\ csClosing[v] = 0
      BY <1>2 DEF Event
    <1>6. /\ csMap'[v][csFd[c]] = next /\ \A f \in CsFds : f # csFd[c] => csMap'[v][f] = csMap[v][f]
          /\ \A w \in CsWorkers : w # v => csMap'[w] = csMap[w]
      BY <1>1, <1>5
    <1>7. csMap' \in [CsWorkers -> [CsFds -> CsConnRec]]
      BY <1>1, <1>5
    <1>8. ASSUME NEW w \in CsWorkers, NEW f \in CsFds, csMap'[w][f] # NoConn
          PROVE  csClosing'[w] = f \/ \E d \in csLoop'[w] : csFd'[d] = f
      <2>1. CASE w = v /\ f = csFd[c]
        BY <1>4, <2>1
      <2>2. CASE ~(w = v /\ f = csFd[c])
        <3>1. csMap[w][f] # NoConn
          BY <1>6, <1>8, <2>2
        <3>2. csClosing[w] = f \/ \E d \in csLoop[w] : csFd[d] = f
          BY <3>1 DEF CsInv, CsOwned
        <3>3. CASE csClosing[w] = f
          BY <1>4, <1>5, <3>3, CsConstants
        <3>4. CASE \E d \in csLoop[w] : csFd[d] = f
          <4>1. PICK d \in csLoop[w] : csFd[d] = f
            BY <3>4
          <4>2. d \in csLoop'[w]
            BY <1>4, <2>2, <4>1
          <4>3. QED
            BY <1>4, <4>1, <4>2
        <3>5. QED
          BY <3>2, <3>3, <3>4
      <2>3. QED
        BY <2>1, <2>2
    <1>9. ASSUME NEW w \in CsWorkers, NEW d \in csLoop'[w]
          PROVE  csFd'[d] # csClosing'[w]
      <2>1. CASE w = v
        BY <1>4, <2>1
      <2>2. CASE w # v
        BY <1>4, <2>2 DEF CsInv, CsOwned
      <2>3. QED
        BY <2>1, <2>2
    <1>10. CsOwned'
      BY <1>8, <1>9 DEF CsOwned
    <1>11. ASSUME NEW w \in CsWorkers, NEW d \in csLoop'[w], d # c
           PROVE  d \in csLoop[w] /\ csMap'[w][csFd'[d]] = csMap[w][csFd[d]]
      <2>1. d \in csLoop[w] /\ csFd'[d] = csFd[d]
        BY <1>4
      <2>2. csFd[d] \in CsFds /\ csFd[d] # csFd[c]
        BY <1>2, <1>3, <1>11, <2>1
      <2>3. QED
        BY <1>6, <2>1, <2>2
    <1>12. QED
      BY <1>6, <1>7, <1>10, <1>11

\* What an event leaves of the streams of the other connections.
LEMMA EventStreams ==
    ASSUME CsInv, NEW v \in CsWorkers, NEW c \in csLoop[v], NEW next \in CsConnRec,
           Event(v, c, next),
           \A d \in CsConns : d # c => csWire'[d] = csWire[d] /\ csAnswers'[d] = csAnswers[d],
           c \in csLoop'[v] => InStep(csLen, next, csWire'[c], csSent[c], Len(csAnswers'[c]))
    PROVE  CsStreams'
    <1>1. c \in CsConns /\ csLoop[v] \subseteq CsConns
      BY DEF CsInv, CsTypes, CsTypeOK
    <1>2. c <= csAccepted /\ \A w \in CsWorkers : ~Queued(w, c) /\ (c \in csLoop[w] => w = v)
      <2>1. csAccepted \in Nat /\ c \in Nat
        BY <1>1, CsConstants DEF CsInv, CsTypes, CsTypeOK
      <2>2. QED
        BY <1>1, <2>1 DEF CsInv, CsPlaces
    <1>3. ASSUME NEW d \in CsConns, d > csAccepted \/ \E w \in CsWorkers : Queued(w, d)
          PROVE  csAnswers'[d] = <<>> /\ Stream(csLen, csWire'[d], <<0, 0>>, csSent[d])
      <2>1. csAccepted \in Nat /\ c \in Nat
        BY <1>1, CsConstants DEF CsInv, CsTypes, CsTypeOK
      <2>2. d # c
        BY <1>2, <1>3, <2>1
      <2>3. csAnswers[d] = <<>> /\ Stream(csLen, csWire[d], <<0, 0>>, csSent[d])
        BY <1>3 DEF CsInv, CsStreams
      <2>4. QED
        BY <2>2, <2>3
    <1>4. /\ \A w \in CsWorkers : csLoop'[w] \subseteq csLoop[w]
          /\ \A w \in CsWorkers : \A d \in csLoop'[w] : csFd'[d] = csFd[d]
      <2>1. /\ csClosing[v] = 0 /\ (CloseConn(v, c) \/ UNCHANGED <<csClosing, csFd, csLoop>>)
            /\ UNCHANGED <<csQueue, csAccepted>>
        BY DEF Event
      <2>2. QED
        BY <2>1, ClosePlaces
    <1>5. /\ csMap'[v][csFd[c]] = next
          /\ \A w \in CsWorkers : \A d \in csLoop'[w] :
                d # c => d \in csLoop[w] /\ csMap'[w][csFd'[d]] = csMap[w][csFd[d]]
      BY EventOwned
    <1>6. ASSUME NEW w \in CsWorkers, NEW d \in csLoop'[w]
          PROVE  InStep(csLen, csMap'[w][csFd'[d]], csWire'[d], csSent[d], Len(csAnswers'[d]))
      <2>1. CASE d = c
        <3>1. w = v /\ csFd'[c] = csFd[c]
          BY <1>2, <1>4, <2>1
        <3>2. QED
          BY <1>5, <2>1, <3>1
      <2>2. CASE d # c
        <3>1. d \in csLoop[w] /\ csMap'[w][csFd'[d]] = csMap[w][csFd[d]]
          BY <1>5, <2>2
        <3>2. d \in CsConns
          BY <3>1 DEF CsInv, CsTypes, CsTypeOK
        <3>3. InStep(csLen, csMap[w][csFd[d]], csWire[d], csSent[d], Len(csAnswers[d]))
          BY <3>1 DEF CsInv, CsStreams
        <3>4. QED
          BY <2>2, <3>1, <3>2, <3>3
      <2>3. QED
        BY <2>1, <2>2
    <1>7. QED
      BY <1>3, <1>6 DEF CsStreams, Queued, Event

\* The types after an event.
LEMMA EventTypes ==
    ASSUME CsInv, UNCHANGED <<csQueue, csPipe, csActions, csSent, csLen, csGone, csAccepted>>,
           csFd' \in [CsConns -> CsFds \cup {0}], csLoop' \in [CsWorkers -> SUBSET CsConns],
           csClosing' \in [CsWorkers -> CsFds \cup {0}],
           csMap' \in [CsWorkers -> [CsFds -> CsConnRec]],
           csWire' \in [CsConns -> Seq(CsPart)], csAnswers' \in [CsConns -> Seq(Seq(CsPart))]
    PROVE  CsTypes'
    <1>1. \A w \in CsWorkers, f \in CsFds : csMap'[w][f].state \in CsConnStates /\ csMap'[w][f].left \in Nat
      BY DEF CsConnRec
    <1>2. QED
      BY <1>1 DEF CsInv, CsTypes, CsTypeOK

\* The answer goes out, or the connection is closed.
LEMMA WriteKeeps == ASSUME CsInv, NEW v \in CsWorkers, NEW c \in CsConns, WriteEvent(v, c) PROVE CsInv'
    <1> DEFINE fd == csFd[c]
               conn == csMap[v][fd]
               sent == [conn EXCEPT !.state = "kConnCmd", !.left = 0, !.content = <<>>]
    <1>1. c \in csLoop[v] /\ csClosing[v] = 0 /\ conn.state = "kConnWrite"
      BY DEF WriteEvent
    <1>2. UNCHANGED <<csWire, csAnswers, csQueue, csPipe, csActions, csSent, csLen, csGone, csAccepted>>
      BY DEF WriteEvent, csClient
    <1>3. /\ csMap \in [CsWorkers -> [CsFds -> CsConnRec]] /\ csFd \in [CsConns -> CsFds \cup {0}]
          /\ csWire \in [CsConns -> Seq(CsPart)] /\ csAnswers \in [CsConns -> Seq(Seq(CsPart))]
      BY DEF CsInv, CsTypes, CsTypeOK
    <1>4. fd \in CsFds /\ conn \in CsConnRec
      <2>1. fd \in CsFds
        BY <1>1, <1>3 DEF CsInv, CsPlaces
      <2>2. QED
        BY <1>3, <2>1
    <1>5. sent \in CsConnRec /\ sent.state = "kConnCmd"
      <2>1. ASSUME NEW r \in CsConnRec, NEW x \in Seq(CsPart)
            PROVE  /\ [r EXCEPT !.state = "kConnCmd", !.left = 0, !.content = x] \in CsConnRec
                   /\ [r EXCEPT !.state = "kConnCmd", !.left = 0, !.content = x].state = "kConnCmd"
        BY DEF CsConnRec, CsConnStates
      <2>2. <<>> \in Seq(CsPart)
        BY EmptySeq
      <2>3. QED
        BY <1>4, <2>1, <2>2
    <1>6. InStep(csLen, conn, csWire[c], csSent[c], Len(csAnswers[c]))
      BY <1>1 DEF CsInv, CsStreams
    <1>7. InStep(csLen, sent, csWire[c], csSent[c], Len(csAnswers[c]))
      <2> HIDE DEF sent
      <2>1. LastRead(csLen, sent, Len(csAnswers[c])) = LastRead(csLen, conn, Len(csAnswers[c]))
        BY <1>1, <1>5 DEF LastRead
      <2>2. QED
        BY <1>5, <1>6, <2>1 DEF InStep, WellRead
    <1>8. PICK next \in CsConnRec : /\ csMap' = [csMap EXCEPT ![v][csFd[c]] = next]
                                    /\ CloseConn(v, c) \/ UNCHANGED <<csClosing, csFd, csLoop>>
                                    /\ InStep(csLen, next, csWire[c], csSent[c], Len(csAnswers[c]))
      <2>1. CASE csMap' = [csMap EXCEPT ![v][fd] = sent] /\ UNCHANGED <<csClosing, csFd, csLoop>>
        BY <1>5, <1>7, <2>1
      <2>2. CASE CloseConn(v, c) /\ UNCHANGED csMap
        <3>1. csMap' = [csMap EXCEPT ![v][fd] = conn]
          BY <1>3, <1>4, <2>2
        <3>2. QED
          BY <1>4, <1>6, <2>2, <3>1
      <2>3. QED
        BY <2>1, <2>2 DEF WriteEvent
    <1>9. /\ CsPlaces' /\ csFd' \in [CsConns -> CsFds \cup {0}]
          /\ csLoop' \in [CsWorkers -> SUBSET CsConns] /\ csClosing' \in [CsWorkers -> CsFds \cup {0}]
      BY <1>1, <1>2, <1>8, ClosePlaces
    <1>0. Event(v, c, next)
      BY <1>1, <1>2, <1>8 DEF Event
    <1>10. CsOwned' /\ csMap' \in [CsWorkers -> [CsFds -> CsConnRec]]
      BY <1>0, <1>1, <1>8, EventOwned
    <1>11. CsTypes'
      BY <1>2, <1>3, <1>9, <1>10, EventTypes
    <1>12. CsStreams'
      <2>1. /\ \A d \in CsConns : d # c => csWire'[d] = csWire[d] /\ csAnswers'[d] = csAnswers[d]
            /\ InStep(csLen, next, csWire'[c], csSent[c], Len(csAnswers'[c]))
        BY <1>2, <1>8
      <2>2. QED
        BY <1>0, <1>1, <1>8, <2>1, EventStreams
    <1>13. CsAnswered'
      BY <1>2 DEF CsInv, CsAnswered
    <1>14. QED
      BY <1>9, <1>10, <1>11, <1>12, <1>13 DEF CsInv

\* The numbers of what is there and what is wanted.
LEMMA Availables ==
    ASSUME NEW w \in Nat, NEW l \in Nat, NEW m, m = IF w < l THEN w ELSE l
    PROVE  m \in 0..l /\ m <= w /\ (m = w \/ (m < w /\ m = l))
    OBVIOUS

\* A piece of a request is read.
LEMMA ReadKeeps == ASSUME CsInv, NEW v \in CsWorkers, NEW c \in CsConns, ReadEvent(v, c) PROVE CsInv'
    <1> DEFINE fd == csFd[c]
               conn == csMap[v][fd]
               s == csWire[c]
               m == Available(c, Want(conn))
               parts == Take(c, Want(conn))
               next == ReadsOn(conn, parts)
               n == Len(csAnswers[c])
               last == IF m = 0 THEN LastRead(csLen, conn, n) ELSE s[m]
    <1>1. /\ c \in csLoop[v] /\ csClosing[v] = 0 /\ (s # <<>> \/ c \in csGone)
          /\ conn.state \in {"kConnCmd", "kConnWait", "kConnRead"}
      BY DEF ReadEvent
    <1>2. UNCHANGED <<csQueue, csPipe, csActions, csSent, csLen, csGone, csAccepted>>
      BY DEF ReadEvent, csClient
    <1>3. /\ csMap \in [CsWorkers -> [CsFds -> CsConnRec]] /\ csFd \in [CsConns -> CsFds \cup {0}]
          /\ csWire \in [CsConns -> Seq(CsPart)] /\ csAnswers \in [CsConns -> Seq(Seq(CsPart))]
          /\ csLen \in [CsReqs -> Nat]
      BY DEF CsInv, CsTypes, CsTypeOK
    <1>4. fd \in CsFds /\ conn \in CsConnRec
      <2>1. fd \in CsFds
        BY <1>1, <1>3 DEF CsInv, CsPlaces
      <2>2. QED
        BY <1>3, <2>1
    <1>5. s \in Seq(CsPart) /\ csAnswers[c] \in Seq(Seq(CsPart)) /\ n \in Nat /\ Len(s) \in Nat
      <2>1. s \in Seq(CsPart) /\ csAnswers[c] \in Seq(Seq(CsPart))
        BY <1>3
      <2>2. QED
        BY <2>1
    <1>6. parts = SubSeq(s, 1, m)
      BY DEF Take
    <1>7. /\ csWire' = [csWire EXCEPT ![c] = SubSeq(@, Len(parts) + 1, Len(@))]
          /\ csMap' = [csMap EXCEPT ![v][csFd[c]] = next]
          /\ csAnswers' = [csAnswers EXCEPT ![c] = IF next.state = "kConnWrite"
                                                   THEN Append(@, next.content) ELSE @]
          /\ IF Len(parts) < Want(conn) /\ c \in csGone THEN CloseConn(v, c)
             ELSE UNCHANGED <<csClosing, csFd, csLoop>>
      BY DEF ReadEvent, ReadsOn
    <1>8. InStep(csLen, conn, s, csSent[c], n)
      BY <1>1 DEF CsInv, CsStreams
    <1>9. n \in 0..CsMaxReqs
      <2>1. CASE n = 0
        BY <2>1, CsConstants
      <2>2. CASE n # 0
        <3>1. n \in 1..n
          BY <1>5, <2>2
        <3>2. n \in CsReqs
          BY <3>1 DEF CsInv, CsAnswered
        <3>3. QED
          BY <3>2, CsConstants
      <2>3. QED
        BY <2>1, <2>2
    <1>10. Want(conn) \in Nat /\ (conn.state # "kConnRead" => Want(conn) >= 1)
      <2>1. CASE conn.state = "kConnCmd"
        BY <2>1, CsConstants DEF Want
      <2>2. CASE conn.state = "kConnRead"
        BY <1>4, <2>2 DEF Want, CsConnRec
      <2>3. CASE conn.state = "kConnWait"
        <3>1. Len(conn.content) \in 1..(CsHead - 1) /\ conn.left = CsHead - Len(conn.content)
          BY <1>8, <2>3 DEF InStep, WellRead
        <3>2. Want(conn) = conn.left
          BY <2>3 DEF Want
        <3>3. QED
          BY <3>1, <3>2, CsConstants
      <2>4. QED
        BY <1>1, <2>1, <2>2, <2>3
    <1>11. m = IF Want(conn) < Len(s) THEN Want(conn) ELSE Len(s)
      BY DEF Available
    <1> HIDE DEF m, s, conn, n, fd, parts
    <1>12. m \in 0..Len(s) /\ m <= Want(conn) /\ (m = Want(conn) \/ (m < Want(conn) /\ m = Len(s)))
      BY <1>5, <1>10, <1>11, Availables
    <1>13. parts \in Seq(CsPart) /\ Len(parts) = m
      <2>1. m \in Nat /\ m <= Len(s)
        BY <1>5, <1>12
      <2>2. \A i \in 1..m : s[i] \in CsPart
        BY <1>5, <2>1, ElementOfSeq
      <2>3. SubSeq(s, 1, m) \in Seq(CsPart) /\ Len(SubSeq(s, 1, m)) = IF 1 <= m THEN m - 1 + 1 ELSE 0
        BY <1>5, <2>1, <2>2, SubSeqProperties
      <2>4. QED
        BY <1>6, <2>1, <2>3
    <1>14. next \in CsConnRec /\ (m < Want(conn) => next.state # "kConnWrite")
      <2>1. Len(parts) <= Want(conn)
        BY <1>12, <1>13
      <2>2. ReadsOn(conn, parts) \in CsConnRec /\ (Len(parts) < Want(conn) => ReadsOn(conn, parts).state # "kConnWrite")
        BY <1>1, <1>3, <1>4, <1>10, <1>13, <2>1, ReadTyped
      <2>3. QED
        BY <1>13, <2>2
    <1>15. CloseConn(v, c) \/ UNCHANGED <<csClosing, csFd, csLoop>>
      BY <1>7
    <1>16. \/ m < Want(conn) /\ CloseConn(v, c)
           \/ m = Want(conn) \/ m >= 1
      <2>1. CASE m < Want(conn) /\ c \in csGone
        BY <1>7, <1>13, <2>1
      <2>2. CASE m < Want(conn) /\ c \notin csGone
        <3>1. m = Len(s) /\ s # <<>>
          BY <1>1, <1>5, <1>12, <2>2
        <3>2. Len(s) # 0
          BY <1>5, <3>1
        <3>3. QED
          BY <1>5, <3>1, <3>2
      <2>3. QED
        BY <1>12, <2>1, <2>2
    <1>17. m = Want(conn) \/ m >= 1 =>
              \/ /\ next.state = "kConnWrite" /\ n + 1 \in CsReqs
                 /\ last = <<n + 1, SizeOf(csLen, n + 1)>>
                 /\ next.content = [j \in 1..csLen[n + 1] |-> <<n + 1, CsHead + j>>]
              \/ /\ next.state # "kConnWrite" /\ WellRead(csLen, next, n)
                 /\ LastRead(csLen, next, n) = last
      <2>1. SUFFICES ASSUME m = Want(conn) \/ m >= 1
                     PROVE  \/ /\ next.state = "kConnWrite" /\ n + 1 \in CsReqs
                               /\ last = <<n + 1, SizeOf(csLen, n + 1)>>
                               /\ next.content = [j \in 1..csLen[n + 1] |-> <<n + 1, CsHead + j>>]
                            \/ /\ next.state # "kConnWrite" /\ WellRead(csLen, next, n)
                               /\ LastRead(csLen, next, n) = last
        OBVIOUS
      <2>2. WellRead(csLen, conn, n) /\ Follows(csLen, s, LastRead(csLen, conn, n))
        BY <1>8 DEF InStep, Stream
      <2>3. ReadAt(conn, n, s, m)
        BY <1>1, <1>3, <1>4, <1>5, <1>9, <1>12, <2>1, <2>2 DEF ReadAt
      <2>4. next = ReadsOn(conn, SubSeq(s, 1, m))
        BY <1>6
      <2>5. last = IF m = 0 THEN LastRead(csLen, conn, n) ELSE s[m]
        OBVIOUS
      <2> HIDE DEF next, last
      <2>6. QED
        BY <2>3, <2>4, <2>5, ReadAdvances
    <1>18. csWire'[c] \in Seq(CsPart) /\ Stream(csLen, csWire'[c], last, csSent[c])
      <2>1. csWire'[c] = SubSeq(s, m + 1, Len(s))
        BY <1>3, <1>7, <1>13 DEF s
      <2>2. Stream(csLen, s, LastRead(csLen, conn, n), csSent[c])
        BY <1>8 DEF InStep
      <2>3. last = IF m = 0 THEN LastRead(csLen, conn, n) ELSE s[m]
        OBVIOUS
      <2> HIDE DEF last
      <2>4. QED
        BY <1>5, <1>12, <2>1, <2>2, <2>3, StreamTake
    <1> HIDE DEF next, last
    <1>19. csAnswers'[c] = IF next.state = "kConnWrite" THEN Append(csAnswers[c], next.content)
                           ELSE csAnswers[c]
      BY <1>3, <1>7
    <1>20. \A d \in CsConns : d # c => csWire'[d] = csWire[d] /\ csAnswers'[d] = csAnswers[d]
      BY <1>3, <1>7
    <1>21. csWire' \in [CsConns -> Seq(CsPart)]
      <2>1. csWire' = [csWire EXCEPT ![c] = csWire'[c]]
        BY <1>3, <1>7
      <2>2. QED
        BY <1>3, <1>18, <2>1
    <1>22. csAnswers' \in [CsConns -> Seq(Seq(CsPart))]
      <2>1. next.content \in Seq(CsPart)
        BY <1>14 DEF CsConnRec
      <2>2. csAnswers'[c] \in Seq(Seq(CsPart))
        BY <1>5, <1>19, <2>1
      <2>3. csAnswers' = [csAnswers EXCEPT ![c] = csAnswers'[c]]
        BY <1>3, <1>7
      <2>4. QED
        BY <1>3, <2>2, <2>3
    <1>23. /\ CsPlaces' /\ csFd' \in [CsConns -> CsFds \cup {0}]
           /\ csLoop' \in [CsWorkers -> SUBSET CsConns] /\ csClosing' \in [CsWorkers -> CsFds \cup {0}]
      BY <1>1, <1>2, <1>15, ClosePlaces
    <1>0. Event(v, c, next)
      BY <1>1, <1>2, <1>7, <1>14, <1>15 DEF Event
    <1>24. CsOwned' /\ csMap' \in [CsWorkers -> [CsFds -> CsConnRec]]
      BY <1>0, <1>1, <1>14, EventOwned
    <1>25. CsTypes'
      BY <1>2, <1>21, <1>22, <1>23, <1>24, EventTypes
    <1>26. CsStreams'
      <2>1. ASSUME c \in csLoop'[v]
            PROVE  InStep(csLen, next, csWire'[c], csSent[c], Len(csAnswers'[c]))
        <3>1. m = Want(conn) \/ m >= 1
          <4>1. ~CloseConn(v, c)
            <5>1. SUFFICES ASSUME CloseConn(v, c) PROVE FALSE
              OBVIOUS
            <5>2. csLoop' = [csLoop EXCEPT ![v] = @ \ {c}] /\ csLoop \in [CsWorkers -> SUBSET CsConns]
              BY <5>1 DEF CloseConn, CsInv, CsTypes, CsTypeOK
            <5>3. QED
              BY <2>1, <5>2
          <4>2. QED
            BY <1>16, <4>1
        <3>2. CASE next.state = "kConnWrite"
          <4>1. last = <<n + 1, SizeOf(csLen, n + 1)>>
            BY <1>17, <3>1, <3>2
          <4>2. Len(csAnswers'[c]) = n + 1
            <5>1. csAnswers'[c] = Append(csAnswers[c], next.content) /\ next.content \in Seq(CsPart)
              BY <1>14, <1>19, <3>2 DEF CsConnRec
            <5>2. QED
              BY <1>5, <5>1 DEF n
          <4>3. LastRead(csLen, next, n + 1) = last
            BY <3>2, <4>1 DEF LastRead
          <4>4. QED
            BY <1>18, <3>2, <4>2, <4>3 DEF InStep, WellRead
        <3>3. CASE next.state # "kConnWrite"
          <4>1. WellRead(csLen, next, n) /\ LastRead(csLen, next, n) = last
            BY <1>17, <3>1, <3>3
          <4>2. Len(csAnswers'[c]) = n
            BY <1>19, <3>3 DEF n
          <4>3. QED
            BY <1>18, <4>1, <4>2 DEF InStep
        <3>4. QED
          BY <3>2, <3>3
      <2>2. QED
        BY <1>0, <1>1, <1>14, <1>20, <2>1, EventStreams
    <1>27. CsAnswered'
      <2>1. SUFFICES ASSUME NEW d \in CsConns, NEW i \in 1..Len(csAnswers'[d])
                     PROVE  i \in CsReqs /\ csAnswers'[d][i] = [j \in 1..csLen[i] |-> <<i, CsHead + j>>]
        BY <1>2 DEF CsAnswered
      <2>2. CASE csAnswers'[d] = csAnswers[d]
        BY <2>2 DEF CsInv, CsAnswered
      <2>3. CASE csAnswers'[d] # csAnswers[d]
        <3>1. d = c /\ next.state = "kConnWrite"
          BY <1>19, <1>20, <2>3
        <3>2. m = Want(conn) \/ m >= 1
          BY <1>14, <1>16, <3>1
        <3>3. n + 1 \in CsReqs /\ next.content = [j \in 1..csLen[n + 1] |-> <<n + 1, CsHead + j>>]
          BY <1>17, <3>1, <3>2
        <3>4. csAnswers'[c] = Append(csAnswers[c], next.content) /\ next.content \in Seq(CsPart)
          BY <1>14, <1>19, <3>1 DEF CsConnRec
        <3>5. /\ Len(csAnswers'[c]) = n + 1 /\ csAnswers'[c][n + 1] = next.content
              /\ \A k \in 1..n : csAnswers'[c][k] = csAnswers[c][k]
          BY <1>5, <3>4 DEF n
        <3>6. CASE i = n + 1
          BY <3>1, <3>3, <3>5, <3>6
        <3>7. CASE i # n + 1
          <4>1. i \in 1..n
            BY <1>5, <3>1, <3>5, <3>7
          <4>2. csAnswers'[c][i] = csAnswers[c][i]
            BY <3>5, <4>1
          <4>3. i \in CsReqs /\ csAnswers[c][i] = [j \in 1..csLen[i] |-> <<i, CsHead + j>>]
            BY <4>1 DEF CsInv, CsAnswered, n
          <4>4. QED
            BY <3>1, <4>2, <4>3
        <3>8. QED
          BY <3>6, <3>7
      <2>4. QED
        BY <2>2, <2>3
    <1>28. QED
      BY <1>23, <1>24, <1>25, <1>26, <1>27 DEF CsInv

-----------------------------------------------------------------------------
\* The invariant is inductive.
LEMMA CsInvNext == CsInv /\ [CsNext]_csVars => CsInv'
    <1> SUFFICES ASSUME CsInv, [CsNext]_csVars PROVE CsInv'
      OBVIOUS
    <1>1. ASSUME NEW c \in CsConns, Send(c) \/ Leave(c) PROVE CsInv'
      BY <1>1, SendKeeps, LeaveKeeps
    <1>2. ASSUME NEW w \in CsWorkers, NEW fd \in CsFds, AcceptEvent(w, fd) PROVE CsInv'
      BY <1>2, AcceptKeeps
    <1>3. ASSUME NEW w \in CsWorkers, CsWorkerNext(w) PROVE CsInv'
      BY <1>3, NotifyKeeps, EraseKeeps, ReadKeeps, WriteKeeps DEF CsWorkerNext
    <1>4. CASE UNCHANGED csVars
      <2>1. CsTypes'
        BY <1>4 DEF CsInv, csVars, CsTypes, CsTypeOK
      <2>2. CsPlaces' /\ CsOwned' /\ CsAnswered'
        BY <1>4 DEF CsInv, csVars, CsPlaces, CsOwned, CsAnswered, Queued
      <2>3. CsStreams'
        BY <1>4 DEF CsInv, csVars, CsStreams, Queued
      <2>4. QED
        BY <2>1, <2>2, <2>3 DEF CsInv
    <1>5. QED
      BY <1>1, <1>2, <1>3, <1>4 DEF CsNext

\* However the workers' events, the accepts and the client's pieces are
\* interleaved, the older server answers the requests of a connection in their
\* order, each from exactly its own body; for every number of workers and
\* connections and all lengths.
THEOREM AnsweredInOrder == CsSpec => []AnswersInOrder
    <1>1. CsInv => AnswersInOrder
      BY DEF CsInv, CsTypes, CsAnswered, AnswersInOrder
    <1>2. QED
      BY <1>1, CsInvInit, CsInvNext, PTL DEF CsSpec

-----------------------------------------------------------------------------
\* EventPoll: Balance

EpTable == [EpIdx -> [fd : EpFds \cup {-1}, ready : BOOLEAN]]
Low(u) == 0..(u - 1)
HolesIn(A, u) == {i \in Low(u) : A[i].fd = -1}
FullIn(A, u) == {i \in Low(u) : A[i].fd # -1}

\* TableExact, for any table of which u slots are in use.
ExactIn(A, u, d, acts) ==
    /\ \A i \in Low(u) : A[i].fd # -1 => A[i].fd \in acts
    /\ \A fd \in acts : fd # -1 /\ \E i \in Low(u) : A[i].fd = fd
    /\ \A i, j \in Low(u) : i # j /\ A[i].fd # -1 => A[i].fd # A[j].fd
    /\ Cardinality(HolesIn(A, u)) = d

\* Events are only in slots of descriptors that poll was given.
FreshIn(A, u, polled) == \A i \in Low(u) : A[i].fd # -1 /\ A[i].ready => A[i].fd \in polled

GoodTable(A, u, d, acts, polled) ==
    A \in EpTable /\ u \in 0..EpSize /\ ExactIn(A, u, d, acts) /\ FreshIn(A, u, polled)

\* Every hole is behind every descriptor.
Sorted(A, u) == \A i, j \in Low(u) : A[i].fd = -1 /\ A[j].fd # -1 => j < i

\* The slots in use are slots of the array.
LEMMA LowSlots ==
    ASSUME NEW u \in 0..EpSize
    PROVE  Low(u) \subseteq EpIdx /\ Low(u) \subseteq Nat /\ u \in Nat /\ EpSize \in Nat
    BY EpAssumption DEF Low, EpIdx

\* A set of slots is finite.
LEMMA HolesFinite ==
    ASSUME NEW u \in 0..EpSize, NEW S \in SUBSET Low(u)
    PROVE  IsFiniteSet(S) /\ Cardinality(S) \in Nat /\ Cardinality(S) <= u
    <1>1. u \in Nat /\ 0 \in Int /\ u - 1 \in Int
      BY LowSlots
    <1>2. IsFiniteSet(Low(u)) /\ Cardinality(Low(u)) = IF 0 > u - 1 THEN 0 ELSE u - 1 - 0 + 1
      BY <1>1, FS_Interval DEF Low
    <1>3. Cardinality(Low(u)) = u
      BY <1>1, <1>2
    <1>4. IsFiniteSet(S) /\ Cardinality(S) <= Cardinality(Low(u))
      BY <1>2, FS_Subset
    <1>5. QED
      BY <1>3, <1>4, FS_CardinalityType

\* A set of slots that is not empty has a greatest element.
LEMMA GreatestSlot ==
    ASSUME NEW u \in Nat, NEW S \in SUBSET Low(u), S # {}
    PROVE  \E x \in S : \A y \in S : x >= y
    <1> DEFINE D == {u - i : i \in S}
    <1>1. \A i \in S : i \in Nat /\ i < u
      BY DEF Low
    <1>2. D \in SUBSET Nat /\ D # {}
      BY <1>1
    <1>3. PICK m \in D : \A y \in D : m <= y
      BY <1>2, LeastElement
    <1>4. PICK x \in S : m = u - x
      BY <1>3
    <1>5. ASSUME NEW y \in S
          PROVE  x >= y
      <2>1. u - y \in D
        OBVIOUS
      <2>2. u - x <= u - y
        BY <1>3, <1>4, <2>1
      <2>3. QED
        BY <1>1, <2>2
    <1>6. QED
      BY <1>5

\* A round swaps the first hole with the last descriptor, or finds the table sorted.
IsSwap(A, B, u, lo, hi) ==
    /\ lo \in HolesIn(A, u) /\ hi \in FullIn(A, u) /\ lo < hi
    /\ \A j \in HolesIn(A, u) : lo <= j
    /\ B = [A EXCEPT ![lo] = A[hi], ![hi] = A[lo]]

\* Which of the two a round does.
LEMMA RoundIs ==
    ASSUME NEW u \in 0..EpSize, NEW A \in EpTable, NEW B, B = BalanceRound(A, u)
    PROVE  \/ Sorted(A, u) /\ B = A
           \/ \E lo, hi \in Low(u) : IsSwap(A, B, u, lo, hi)
    <1> DEFINE holes == {i \in 0..(u - 1) : A[i].fd = -1}
               full == {i \in 0..(u - 1) : A[i].fd # -1}
               lo == CHOOSE i \in holes : \A j \in holes : i <= j
               hi == CHOOSE i \in full : \A j \in full : i >= j
    <1>1. B = IF holes = {} \/ full = {} THEN A
              ELSE IF lo > hi THEN A
              ELSE [A EXCEPT ![lo] = A[hi], ![hi] = A[lo]]
      BY Zenon DEF BalanceRound
    <1>2. holes = HolesIn(A, u) /\ full = FullIn(A, u)
      BY DEF HolesIn, FullIn, Low
    <1>3. holes \in SUBSET Low(u) /\ full \in SUBSET Low(u) /\ Low(u) \subseteq Nat /\ u \in Nat
      BY LowSlots DEF Low
    <1>4. CASE holes = {} \/ full = {}
      <2>1. B = A
        BY <1>1, <1>4
      <2>2. Sorted(A, u)
        BY <1>4 DEF Sorted, Low
      <2>3. QED
        BY <2>1, <2>2
    <1>5. CASE holes # {} /\ full # {}
      <2>1. \E i \in holes : \A j \in holes : i <= j
        BY <1>3, <1>5, LeastElement
      <2>2. lo \in holes /\ \A j \in holes : lo <= j
        BY <2>1, Zenon
      <2>3. \E i \in full : \A j \in full : i >= j
        BY <1>3, <1>5, GreatestSlot
      <2>4. hi \in full /\ \A j \in full : hi >= j
        BY <2>3, Zenon
      <2>5. PICK a, b : a = lo /\ b = hi
        OBVIOUS
      <2>6. B = IF a > b THEN A ELSE [A EXCEPT ![a] = A[b], ![b] = A[a]]
        BY <1>1, <1>5, <2>5, Zenon
      <2>7. a \in holes /\ b \in full /\ \A j \in holes : a <= j
        BY <2>2, <2>4, <2>5, Zenon
      <2>7a. \A j \in full : b >= j
        BY <2>4, <2>5, Zenon
      <2> HIDE DEF lo, hi
      <2>8. a \in Nat /\ b \in Nat /\ a # b
        BY <1>3, <2>7
      <2>9. CASE a > b
        <3>1. B = A
          BY <2>6, <2>9
        <3>2. ASSUME NEW i \in Low(u), NEW j \in Low(u), A[i].fd = -1, A[j].fd # -1
              PROVE  j < i
          <4>1. i \in holes /\ j \in full
            BY <3>2 DEF Low
          <4>2. a <= i /\ b >= j
            BY <2>7, <2>7a, <4>1
          <4>3. QED
            BY <1>3, <2>8, <2>9, <4>2
        <3>3. QED
          BY <3>1, <3>2 DEF Sorted
      <2>10. CASE ~ (a > b)
        <3>1. B = [A EXCEPT ![a] = A[b], ![b] = A[a]]
          BY <2>6, <2>10
        <3>2. a < b
          BY <2>8, <2>10
        <3>3. IsSwap(A, B, u, a, b)
          BY <1>2, <2>7, <3>1, <3>2 DEF IsSwap
        <3>4. a \in Low(u) /\ b \in Low(u)
          BY <1>3, <2>7
        <3>5. QED
          BY <3>3, <3>4
      <2>11. QED
        BY <2>9, <2>10
    <1>6. QED
      BY <1>4, <1>5

\* What is where after a swap.
Exchanged(A, B, u, lo, hi) ==
    /\ lo # hi /\ A[lo].fd = -1 /\ A[hi].fd # -1
    /\ \A i \in Low(u) : B[i] = IF i = lo THEN A[hi] ELSE IF i = hi THEN A[lo] ELSE A[i]

\* The slots after a swap.
LEMMA SwapSlots ==
    ASSUME NEW u \in 0..EpSize, NEW A \in EpTable, NEW B, NEW lo \in Low(u), NEW hi \in Low(u), IsSwap(A, B, u, lo, hi)
    PROVE  B \in EpTable /\ Exchanged(A, B, u, lo, hi)
    <1>1. Low(u) \subseteq EpIdx /\ Low(u) \subseteq Nat
      BY LowSlots
    <1>2. A[lo] \in [fd : EpFds \cup {-1}, ready : BOOLEAN] /\ A[hi] \in [fd : EpFds \cup {-1}, ready : BOOLEAN]
      BY <1>1 DEF EpTable
    <1>3. lo # hi /\ lo \in EpIdx /\ hi \in EpIdx
      BY <1>1 DEF IsSwap
    <1>4. B = [A EXCEPT ![lo] = A[hi], ![hi] = A[lo]]
      BY DEF IsSwap
    <1>5. B \in EpTable
      BY <1>2, <1>3, <1>4 DEF EpTable
    <1>6. A[lo].fd = -1 /\ A[hi].fd # -1
      BY DEF IsSwap, HolesIn, FullIn
    <1>7. ASSUME NEW i \in Low(u)
          PROVE  B[i] = IF i = lo THEN A[hi] ELSE IF i = hi THEN A[lo] ELSE A[i]
      BY <1>1, <1>3, <1>4 DEF EpTable
    <1>8. QED
      BY <1>3, <1>5, <1>6, <1>7 DEF Exchanged

\* Where each slot has gone.
SwapPlace(lo, hi, i) == IF i = lo THEN hi ELSE IF i = hi THEN lo ELSE i

\* A swap keeps the table good.
LEMMA SwapKeeps ==
    ASSUME NEW u, NEW A, NEW d, NEW acts, NEW polled, GoodTable(A, u, d, acts, polled), NEW B,
           NEW lo \in Low(u), NEW hi \in Low(u), IsSwap(A, B, u, lo, hi)
    PROVE  GoodTable(B, u, d, acts, polled)
    <1>1. u \in 0..EpSize /\ A \in EpTable /\ ExactIn(A, u, d, acts) /\ FreshIn(A, u, polled)
      BY DEF GoodTable
    <1>2. /\ B \in EpTable /\ lo # hi /\ A[lo].fd = -1 /\ A[hi].fd # -1
          /\ \A i \in Low(u) : B[i] = IF i = lo THEN A[hi] ELSE IF i = hi THEN A[lo] ELSE A[i]
      <2>1. B \in EpTable /\ Exchanged(A, B, u, lo, hi)
        BY <1>1, SwapSlots
      <2>2. QED
        BY <2>1 DEF Exchanged
    <1>3. \A i \in Low(u) : SwapPlace(lo, hi, i) \in Low(u) /\ B[i] = A[SwapPlace(lo, hi, i)]
      BY <1>2 DEF SwapPlace
    <1>4. \A i, j \in Low(u) : i # j => SwapPlace(lo, hi, i) # SwapPlace(lo, hi, j)
      BY <1>2 DEF SwapPlace
    <1>5. \A i \in Low(u) : SwapPlace(lo, hi, SwapPlace(lo, hi, i)) = i
      BY <1>2 DEF SwapPlace
    <1>6. \A i \in Low(u) : B[i].fd # -1 => B[i].fd \in acts
      BY <1>1, <1>3 DEF ExactIn
    <1>7. ASSUME NEW fd \in acts
          PROVE  fd # -1 /\ \E i \in Low(u) : B[i].fd = fd
      <2>1. fd # -1 /\ \E i \in Low(u) : A[i].fd = fd
        BY <1>1 DEF ExactIn
      <2>2. PICK i \in Low(u) : A[i].fd = fd
        BY <2>1
      <2>3. SwapPlace(lo, hi, i) \in Low(u) /\ B[SwapPlace(lo, hi, i)] = A[i]
        BY <1>3, <1>5
      <2>4. QED
        BY <2>1, <2>2, <2>3
    <1>8. ASSUME NEW i \in Low(u), NEW j \in Low(u), i # j, B[i].fd # -1
          PROVE  B[i].fd # B[j].fd
      <2>1. PICK a, b : a = SwapPlace(lo, hi, i) /\ b = SwapPlace(lo, hi, j)
        OBVIOUS
      <2>2. a \in Low(u) /\ b \in Low(u) /\ a # b /\ B[i] = A[a] /\ B[j] = A[b]
        BY <1>3, <1>4, <1>8, <2>1
      <2>3. QED
        BY <1>1, <1>8, <2>2 DEF ExactIn
    <1>9. Cardinality(HolesIn(B, u)) = d
      <2>1. HolesIn(B, u) = (HolesIn(A, u) \ {lo}) \cup {hi}
        BY <1>2 DEF HolesIn
      <2>2. HolesIn(A, u) \in SUBSET Low(u)
        BY DEF HolesIn
      <2>3. IsFiniteSet(HolesIn(A, u)) /\ Cardinality(HolesIn(A, u)) \in Nat
        BY <1>1, <2>2, HolesFinite
      <2>4. lo \in HolesIn(A, u) /\ hi \notin HolesIn(A, u)
        BY <1>2 DEF HolesIn
      <2>5. PICK T : T = HolesIn(A, u) \ {lo}
        OBVIOUS
      <2>6. IsFiniteSet(T) /\ Cardinality(T) = Cardinality(HolesIn(A, u)) - 1
        BY <2>3, <2>4, <2>5, FS_RemoveElement
      <2>7. hi \notin T
        BY <2>4, <2>5
      <2>8. Cardinality(T \cup {hi}) = Cardinality(T) + 1
        BY <2>6, <2>7, FS_AddElement
      <2>9. Cardinality(HolesIn(A, u)) = d
        BY <1>1 DEF ExactIn
      <2>10. QED
        BY <2>1, <2>3, <2>5, <2>6, <2>8, <2>9
    <1>10. FreshIn(B, u, polled)
      BY <1>1, <1>3 DEF FreshIn
    <1>11. ExactIn(B, u, d, acts)
      BY <1>6, <1>7, <1>8, <1>9 DEF ExactIn
    <1>12. QED
      BY <1>1, <1>2, <1>10, <1>11 DEF GoodTable

\* The first n slots in use are no holes.
FullTo(A, u, n) == \A i \in Low(u) : i < n => A[i].fd # -1

\* A round makes one more slot full, unless the table is sorted.
LEMMA RoundStep ==
    ASSUME NEW u, NEW A, NEW d, NEW acts, NEW polled, GoodTable(A, u, d, acts, polled), NEW B, B = BalanceRound(A, u),
           NEW n \in Nat, Sorted(A, u) \/ FullTo(A, u, n)
    PROVE  GoodTable(B, u, d, acts, polled) /\ (Sorted(B, u) \/ FullTo(B, u, n + 1))
    <1>1. u \in 0..EpSize /\ A \in EpTable
      BY DEF GoodTable
    <1>2. CASE Sorted(A, u) /\ B = A
      BY <1>2
    <1>3. CASE \E lo, hi \in Low(u) : IsSwap(A, B, u, lo, hi)
      <2>1. PICK lo, hi \in Low(u) : IsSwap(A, B, u, lo, hi)
        BY <1>3
      <2>2. GoodTable(B, u, d, acts, polled)
        BY <2>1, SwapKeeps
      <2>3. /\ lo # hi /\ A[lo].fd = -1 /\ A[hi].fd # -1
            /\ \A i \in Low(u) : B[i] = IF i = lo THEN A[hi] ELSE IF i = hi THEN A[lo] ELSE A[i]
        <3>1. Exchanged(A, B, u, lo, hi)
          BY <1>1, <2>1, SwapSlots
        <3>2. QED
          BY <3>1 DEF Exchanged
      <2>4. lo < hi /\ \A j \in HolesIn(A, u) : lo <= j
        BY <2>1 DEF IsSwap
      <2>5. Low(u) \subseteq Nat
        BY <1>1, LowSlots
      <2>6. ~ Sorted(A, u)
        <3>1. ~ (hi < lo)
          BY <2>4, <2>5
        <3>2. QED
          BY <2>3, <3>1 DEF Sorted
      <2>7. FullTo(A, u, n)
        BY <2>6
      <2>8. ASSUME NEW i \in Low(u), i < n + 1
            PROVE  B[i].fd # -1
        <3>1. n <= lo
          BY <2>3, <2>5, <2>7 DEF FullTo
        <3>2. i # hi
          BY <2>4, <2>5, <2>8, <3>1
        <3>3. CASE i = lo
          BY <2>3, <3>3
        <3>4. CASE i # lo
          <4>1. B[i] = A[i] /\ i < lo
            BY <2>3, <2>5, <2>8, <3>1, <3>2, <3>4
          <4>2. i \notin HolesIn(A, u)
            BY <2>4, <2>5, <4>1
          <4>3. QED
            BY <4>1, <4>2 DEF HolesIn
        <3>5. QED
          BY <3>3, <3>4
      <2>9. FullTo(B, u, n + 1)
        BY <2>8 DEF FullTo
      <2>10. QED
        BY <2>2, <2>9
    <1>4. QED
      BY <1>1, <1>2, <1>3, RoundIs

\* The loop of Balance, round by round.
SwapLoop(A, u) == CHOOSE g : g = [n \in 0..u |-> IF n = 0 THEN A ELSE BalanceRound(g[n - 1], u)]
IsSwapLoop(g, A, u, n) == g[0] = A /\ \A j \in 1..n : g[j] = BalanceRound(g[j - 1], u)

\* The equation of the loop has a solution.
LEMMA SwapLoopExists ==
    ASSUME NEW A, NEW u, NEW n \in Nat
    PROVE  \E g : IsSwapLoop(g, A, u, n)
    <1> DEFINE Bad == {m \in Nat : ~ \E g : IsSwapLoop(g, A, u, m)}
    <1>1. ASSUME Bad # {}
          PROVE  FALSE
      <2>1. PICK m \in Bad : \A y \in Bad : m <= y
        BY <1>1, LeastElement
      <2>2. m \in Nat /\ ~ \E g : IsSwapLoop(g, A, u, m)
        BY <2>1
      <2>3. CASE m = 0
        <3>1. IsSwapLoop([j \in {0} |-> A], A, u, 0)
          BY DEF IsSwapLoop
        <3>2. QED
          BY <2>2, <2>3, <3>1
      <2>4. CASE m # 0
        <3>1. m - 1 \in Nat /\ m - 1 < m
          BY <2>2, <2>4
        <3>2. m - 1 \notin Bad
          BY <2>1, <3>1
        <3>3. PICK g : IsSwapLoop(g, A, u, m - 1)
          BY <3>1, <3>2
        <3> DEFINE h == [j \in 0..m |-> IF j = m THEN BalanceRound(g[m - 1], u) ELSE g[j]]
        <3>4. h[0] = A
          BY <2>2, <2>4, <3>3 DEF IsSwapLoop
        <3>5. ASSUME NEW j \in 1..m
              PROVE  h[j] = BalanceRound(h[j - 1], u)
          <4>1. j \in Nat /\ j - 1 \in 0..m /\ j - 1 # m /\ j \in 0..m
            BY <2>2
          <4>2. h[j - 1] = g[j - 1]
            BY <4>1
          <4>3. CASE j = m
            BY <4>1, <4>2, <4>3
          <4>4. CASE j # m
            <5>1. j \in 1..(m - 1)
              BY <2>2, <4>1, <4>4
            <5>2. g[j] = BalanceRound(g[j - 1], u)
              BY <3>3, <5>1 DEF IsSwapLoop
            <5>3. QED
              BY <4>1, <4>2, <4>4, <5>2
          <4>5. QED
            BY <4>3, <4>4
        <3>6. IsSwapLoop(h, A, u, m)
          BY <3>4, <3>5 DEF IsSwapLoop
        <3>7. QED
          BY <2>2, <3>6
      <2>5. QED
        BY <2>3, <2>4
    <1>2. QED
      BY <1>1

\* The recursive function solves it.
LEMMA SwapLoopUnfolds ==
    ASSUME NEW A, NEW u \in Nat
    PROVE  IsSwapLoop(SwapLoop(A, u), A, u, u)
    <1>1. PICK h : IsSwapLoop(h, A, u, u)
      BY SwapLoopExists
    <1>2. \E v : v = [j \in 0..u |-> IF j = 0 THEN A ELSE BalanceRound(v[j - 1], u)]
      <2>1. PICK v : v = [j \in 0..u |-> h[j]]
        OBVIOUS
      <2>2. ASSUME NEW j \in 0..u
            PROVE  h[j] = IF j = 0 THEN A ELSE BalanceRound(v[j - 1], u)
        <3>2. CASE j = 0
          BY <1>1, <3>2 DEF IsSwapLoop
        <3>3. CASE j # 0
          <4>1. j \in 1..u /\ j - 1 \in 0..u
            BY <3>3
          <4>2. v[j - 1] = h[j - 1]
            BY <2>1, <4>1
          <4>3. QED
            BY <1>1, <3>3, <4>1, <4>2 DEF IsSwapLoop
        <3>4. QED
          BY <3>2, <3>3
      <2>4. v = [j \in 0..u |-> IF j = 0 THEN A ELSE BalanceRound(v[j - 1], u)]
        BY <2>1, <2>2, Zenon
      <2>5. QED
        BY <2>4, Zenon
    <1>3. PICK f : f = SwapLoop(A, u)
      OBVIOUS
    <1>4. f = [j \in 0..u |-> IF j = 0 THEN A ELSE BalanceRound(f[j - 1], u)]
      BY <1>2, <1>3, Zenon DEF SwapLoop
    <1>5. \A j \in 0..u : f[j] = IF j = 0 THEN A ELSE BalanceRound(f[j - 1], u)
      BY <1>4, Zenon
    <1>6. f[0] = A
      BY <1>5
    <1>7. ASSUME NEW j \in 1..u
          PROVE  f[j] = BalanceRound(f[j - 1], u)
      <2>1. j \in 0..u /\ j # 0
        OBVIOUS
      <2>2. QED
        BY <1>5, <2>1
    <1>8. QED
      BY <1>3, <1>6, <1>7 DEF IsSwapLoop

\* Balance keeps the table good and sorts it.
LEMMA BalanceSorts ==
    ASSUME NEW u, NEW A, NEW d, NEW acts, NEW polled, GoodTable(A, u, d, acts, polled)
    PROVE  GoodTable(Swapped(A, u), u, d, acts, polled) /\ Sorted(Swapped(A, u), u)
    <1>1. u \in 0..EpSize /\ u \in Nat
      BY LowSlots DEF GoodTable
    <1>2. PICK g : g = SwapLoop(A, u)
      OBVIOUS
    <1>3. IsSwapLoop(g, A, u, u)
      BY <1>1, <1>2, SwapLoopUnfolds
    <1>4. Swapped(A, u) = g[u]
      BY <1>2, Zenon DEF Swapped, SwapLoop
    <1> DEFINE Fine(n) == GoodTable(g[n], u, d, acts, polled) /\ (Sorted(g[n], u) \/ FullTo(g[n], u, n))
               Bad == {n \in Nat : n \in 0..u /\ ~ Fine(n)}
    <1>5. ASSUME Bad # {}
          PROVE  FALSE
      <2>1. PICK n \in Bad : \A y \in Bad : n <= y
        BY <1>5, LeastElement
      <2>2. n \in Nat /\ n \in 0..u /\ ~ Fine(n)
        BY <2>1
      <2>3. CASE n = 0
        <3>1. g[n] = A
          BY <1>3, <2>3 DEF IsSwapLoop
        <3>2. FullTo(A, u, n)
          BY <1>1, <2>3 DEF FullTo, Low
        <3>3. QED
          BY <2>2, <3>1, <3>2
      <2>4. CASE n # 0
        <3>1. PICK m \in Nat : n = m + 1
          BY <2>2, <2>4
        <3>2. m \in 0..u /\ m < n /\ n \in 1..u /\ n - 1 = m
          BY <1>1, <2>2, <3>1
        <3>3. m \notin Bad
          BY <2>1, <3>1, <3>2
        <3>4. Fine(m)
          BY <3>1, <3>2, <3>3
        <3>5. g[n] = BalanceRound(g[m], u)
          BY <1>3, <3>2 DEF IsSwapLoop
        <3>6. GoodTable(g[m], u, d, acts, polled)
          BY <3>4
        <3>7. Sorted(g[m], u) \/ FullTo(g[m], u, m)
          BY <3>4
        <3>8. GoodTable(g[n], u, d, acts, polled) /\ (Sorted(g[n], u) \/ FullTo(g[n], u, m + 1))
          BY <3>1, <3>5, <3>6, <3>7, RoundStep
        <3>9. QED
          BY <2>2, <3>1, <3>8
      <2>5. QED
        BY <2>3, <2>4
    <1>6. u \in 0..u
      BY <1>1
    <1>7. Fine(u)
      BY <1>1, <1>5, <1>6
    <1>8. FullTo(g[u], u, u) => Sorted(g[u], u)
      BY <1>1 DEF FullTo, Sorted, Low
    <1>9. QED
      BY <1>4, <1>7, <1>8

\* In a sorted table the descriptors come first, then the holes.
LEMMA SortedTail ==
    ASSUME NEW u \in 0..EpSize, NEW A, Sorted(A, u), NEW d, d = Cardinality(HolesIn(A, u))
    PROVE  d \in 0..u /\ \A i \in Low(u) : A[i].fd = -1 <=> i >= u - d
    <1>1. u \in Nat /\ HolesIn(A, u) \in SUBSET Low(u) /\ Low(u) \subseteq Nat
      BY LowSlots DEF HolesIn
    <1>2. CASE HolesIn(A, u) = {}
      <2>1. d = 0
        BY <1>2, FS_EmptySet
      <2>2. \A i \in Low(u) : A[i].fd # -1 /\ ~ (i >= u - 0)
        BY <1>1, <1>2 DEF HolesIn, Low
      <2>3. QED
        BY <1>1, <2>1, <2>2
    <1>3. CASE HolesIn(A, u) # {}
      <2>1. HolesIn(A, u) \in SUBSET Nat
        BY <1>1
      <2>2. PICK lo \in HolesIn(A, u) : \A y \in HolesIn(A, u) : lo <= y
        BY <1>3, <2>1, LeastElement
      <2>3. lo \in Nat /\ lo \in Low(u) /\ A[lo].fd = -1 /\ lo < u
        BY <1>1, <2>2 DEF HolesIn, Low
      <2>4. ASSUME NEW i \in Low(u)
            PROVE  A[i].fd = -1 <=> i >= lo
        <3>1. i \in Nat
          BY <1>1
        <3>2. A[i].fd = -1 => i >= lo
          BY <2>2, <2>3, <3>1 DEF HolesIn
        <3>3. A[i].fd # -1 => i < lo
          BY <2>3 DEF Sorted
        <3>4. QED
          BY <2>3, <3>1, <3>2, <3>3
      <2>5. HolesIn(A, u) = lo..(u - 1)
        BY <1>1, <2>3, <2>4 DEF HolesIn, Low
      <2>6. lo \in Int /\ u - 1 \in Int /\ ~ (lo > u - 1)
        BY <1>1, <2>3
      <2>7. Cardinality(lo..(u - 1)) = u - 1 - lo + 1
        BY <2>6, FS_Interval
      <2>8. d = u - lo
        BY <1>1, <2>3, <2>5, <2>7
      <2>9. u - d = lo /\ d \in 0..u
        BY <1>1, <2>3, <2>8
      <2>10. QED
        BY <2>4, <2>9
    <1>4. QED
      BY <1>2, <1>3

\* After Balance the slots that stay in use are those of the descriptors.
LEMMA Balanced ==
    ASSUME NEW u, NEW A, NEW d, NEW acts, NEW polled, GoodTable(A, u, d, acts, polled)
    PROVE  d \in 0..u /\ GoodTable(Swapped(A, u), u - d, 0, acts, polled)
    <1>1. PICK B : B = Swapped(A, u)
      OBVIOUS
    <1>2. GoodTable(B, u, d, acts, polled) /\ Sorted(B, u)
      BY <1>1, BalanceSorts
    <1>3. u \in 0..EpSize /\ B \in EpTable /\ ExactIn(B, u, d, acts) /\ FreshIn(B, u, polled)
      BY <1>2 DEF GoodTable
    <1>4. d = Cardinality(HolesIn(B, u))
      BY <1>3 DEF ExactIn
    <1>5. d \in 0..u /\ \A i \in Low(u) : B[i].fd = -1 <=> i >= u - d
      BY <1>2, <1>3, <1>4, SortedTail
    <1>6. u \in Nat /\ d \in Nat /\ EpSize \in Nat
      BY <1>3, <1>5, LowSlots
    <1>7. PICK v \in 0..EpSize : v = u - d
      BY <1>3, <1>5, <1>6
    <1>8. \A i \in Low(v) : i \in Low(u) /\ B[i].fd # -1
      BY <1>5, <1>6, <1>7 DEF Low
    <1>9. \A i \in Low(u) : B[i].fd # -1 => i \in Low(v)
      BY <1>5, <1>6, <1>7 DEF Low
    <1>10. HolesIn(B, v) = {}
      BY <1>8 DEF HolesIn
    <1>11. Cardinality(HolesIn(B, v)) = 0
      BY <1>10, FS_EmptySet
    <1>12. ExactIn(B, v, 0, acts)
      <2>1. \A i \in Low(v) : B[i].fd # -1 => B[i].fd \in acts
        BY <1>3, <1>8 DEF ExactIn
      <2>2. \A fd \in acts : fd # -1 /\ \E i \in Low(v) : B[i].fd = fd
        BY <1>3, <1>9 DEF ExactIn
      <2>3. \A i, j \in Low(v) : i # j /\ B[i].fd # -1 => B[i].fd # B[j].fd
        BY <1>3, <1>8 DEF ExactIn
      <2>4. QED
        BY <1>11, <2>1, <2>2, <2>3 DEF ExactIn
    <1>13. FreshIn(B, v, polled)
      BY <1>3, <1>8 DEF FreshIn
    <1>14. QED
      BY <1>1, <1>3, <1>5, <1>7, <1>12, <1>13 DEF GoodTable

-----------------------------------------------------------------------------
\* EventPoll: what the operations do to the table

\* A descriptor in a new slot.
LEMMA AddSlot ==
    ASSUME NEW u, NEW A, NEW d, NEW acts, NEW polled, GoodTable(A, u, d, acts, polled), u < EpSize,
           NEW fd \in EpFds, fd \notin acts, NEW B, B = [A EXCEPT ![u] = NewSlot(@, fd)]
    PROVE  GoodTable(B, u + 1, d, acts \cup {fd}, polled)
    <1>1. u \in 0..EpSize /\ A \in EpTable /\ ExactIn(A, u, d, acts) /\ FreshIn(A, u, polled)
      BY DEF GoodTable
    <1>2. u \in Nat /\ EpSize \in Nat /\ u \in EpIdx /\ u + 1 \in 0..EpSize /\ fd # -1
      BY <1>1, LowSlots, EpAssumption DEF EpIdx
    <1>3. B \in EpTable /\ B[u].fd = fd /\ B[u].ready = FALSE
      BY <1>1, <1>2 DEF EpTable, NewSlot
    <1>4. Low(u + 1) = Low(u) \cup {u} /\ u \notin Low(u)
      BY <1>2 DEF Low
    <1>5. \A i \in Low(u) : B[i] = A[i]
      BY <1>1, <1>4, LowSlots DEF EpTable
    <1>6. HolesIn(B, u + 1) = HolesIn(A, u)
      BY <1>2, <1>3, <1>4, <1>5 DEF HolesIn
    <1>7. \A i \in Low(u) : A[i].fd # fd
      BY <1>1, <1>2 DEF ExactIn
    <1>8. ExactIn(B, u + 1, d, acts \cup {fd})
      <2>1. \A i \in Low(u + 1) : B[i].fd # -1 => B[i].fd \in acts \cup {fd}
        BY <1>1, <1>3, <1>4, <1>5 DEF ExactIn
      <2>2. \A a \in acts \cup {fd} : a # -1 /\ \E i \in Low(u + 1) : B[i].fd = a
        BY <1>1, <1>2, <1>3, <1>4, <1>5 DEF ExactIn
      <2>3. \A i, j \in Low(u + 1) : i # j /\ B[i].fd # -1 => B[i].fd # B[j].fd
        BY <1>1, <1>3, <1>4, <1>5, <1>7 DEF ExactIn
      <2>4. Cardinality(HolesIn(B, u + 1)) = d
        BY <1>1, <1>6 DEF ExactIn
      <2>5. QED
        BY <2>1, <2>2, <2>3, <2>4 DEF ExactIn
    <1>9. FreshIn(B, u + 1, polled)
      BY <1>1, <1>3, <1>4, <1>5 DEF FreshIn
    <1>10. QED
      BY <1>2, <1>3, <1>8, <1>9 DEF GoodTable

\* The slot of a descriptor becomes a hole.
LEMMA DelSlot ==
    ASSUME NEW u, NEW A, NEW d, NEW acts, NEW polled, GoodTable(A, u, d, acts, polled),
           NEW s \in Low(u), NEW fd, fd # -1, A[s].fd = fd, NEW B, B = [A EXCEPT ![s].fd = -1]
    PROVE  GoodTable(B, u, d + 1, acts \ {fd}, polled \ {fd})
    <1>1. u \in 0..EpSize /\ A \in EpTable /\ ExactIn(A, u, d, acts) /\ FreshIn(A, u, polled)
      BY DEF GoodTable
    <1>2. s \in EpIdx /\ Low(u) \subseteq EpIdx
      BY <1>1, LowSlots
    <1>3. B \in EpTable /\ B[s].fd = -1
      BY <1>1, <1>2 DEF EpTable
    <1>4. \A i \in Low(u) : i # s => B[i] = A[i]
      BY <1>1, <1>2 DEF EpTable
    <1>5. \A i \in Low(u) : i # s => A[i].fd # fd
      BY <1>1 DEF ExactIn
    <1>6. HolesIn(B, u) = HolesIn(A, u) \cup {s} /\ s \notin HolesIn(A, u)
      BY <1>3, <1>4 DEF HolesIn
    <1>7. Cardinality(HolesIn(B, u)) = d + 1
      <2>1. HolesIn(A, u) \in SUBSET Low(u)
        BY DEF HolesIn
      <2>2. IsFiniteSet(HolesIn(A, u))
        BY <1>1, <2>1, HolesFinite
      <2>3. Cardinality(HolesIn(A, u) \cup {s}) = Cardinality(HolesIn(A, u)) + 1
        BY <1>6, <2>2, FS_AddElement
      <2>4. QED
        BY <1>1, <1>6, <2>3 DEF ExactIn
    <1>8. ExactIn(B, u, d + 1, acts \ {fd})
      <2>1. \A i \in Low(u) : B[i].fd # -1 => B[i].fd \in acts \ {fd}
        BY <1>1, <1>3, <1>4, <1>5 DEF ExactIn
      <2>2. ASSUME NEW a \in acts \ {fd}
            PROVE  a # -1 /\ \E i \in Low(u) : B[i].fd = a
        <3>1. a # -1 /\ \E i \in Low(u) : A[i].fd = a
          BY <1>1 DEF ExactIn
        <3>2. PICK i \in Low(u) : A[i].fd = a
          BY <3>1
        <3>3. i # s
          BY <3>2
        <3>4. QED
          BY <1>4, <3>1, <3>2, <3>3
      <2>3. \A i, j \in Low(u) : i # j /\ B[i].fd # -1 => B[i].fd # B[j].fd
        BY <1>1, <1>3, <1>4 DEF ExactIn
      <2>4. QED
        BY <1>7, <2>1, <2>2, <2>3 DEF ExactIn
    <1>9. FreshIn(B, u, polled \ {fd})
      BY <1>1, <1>3, <1>4, <1>5 DEF FreshIn
    <1>10. QED
      BY <1>1, <1>3, <1>8, <1>9 DEF GoodTable

\* The descriptors in use, and the table that poll leaves.
FdsIn(A, u) == {A[i].fd : i \in {j \in EpIdx : j < u}}
PolledInto(A, u, ready) ==
    [i \in EpIdx |-> IF i < u THEN [A[i] EXCEPT !.ready = A[i].fd \in ready] ELSE A[i]]

\* poll keeps the table exact, and what it has seen is fresh.
LEMMA PollSlots ==
    ASSUME NEW u, NEW A, NEW acts, NEW polled, GoodTable(A, u, 0, acts, polled), NEW ready \in SUBSET FdsIn(A, u)
    PROVE  /\ GoodTable(PolledInto(A, u, ready), u, 0, acts, FdsIn(A, u))
           /\ FdsIn(A, u) \subseteq EpFds /\ Cardinality(ready) \in 0..EpSize
    <1>1. u \in 0..EpSize /\ A \in EpTable /\ ExactIn(A, u, 0, acts) /\ FreshIn(A, u, polled)
      BY DEF GoodTable
    <1>2. {j \in EpIdx : j < u} = Low(u) /\ u \in Nat /\ EpSize \in Nat /\ Low(u) \subseteq EpIdx
      BY <1>1, LowSlots DEF EpIdx, Low
    <1>3. FdsIn(A, u) = {A[i].fd : i \in Low(u)}
      BY <1>2 DEF FdsIn
    <1>4. HolesIn(A, u) = {}
      <2>1. HolesIn(A, u) \in SUBSET Low(u)
        BY DEF HolesIn
      <2>2. IsFiniteSet(HolesIn(A, u))
        BY <1>1, <2>1, HolesFinite
      <2>3. Cardinality(HolesIn(A, u)) = 0
        BY <1>1 DEF ExactIn
      <2>4. QED
        BY <2>2, <2>3, FS_EmptySet
    <1>5. \A i \in Low(u) : A[i].fd # -1 /\ A[i].fd \in EpFds
      BY <1>1, <1>2, <1>4 DEF HolesIn, EpTable
    <1>6. FdsIn(A, u) \subseteq EpFds
      BY <1>3, <1>5
    <1>7. Cardinality(ready) \in 0..EpSize
      <2>1. IsFiniteSet(Low(u)) /\ Cardinality(Low(u)) \in Nat /\ Cardinality(Low(u)) <= u
        BY <1>1, HolesFinite
      <2>2. PICK f : f = [i \in Low(u) |-> A[i].fd]
        OBVIOUS
      <2>3. f \in Surjection(Low(u), FdsIn(A, u))
        BY <1>3, <2>2 DEF Surjection
      <2>4. IsFiniteSet(FdsIn(A, u)) /\ Cardinality(FdsIn(A, u)) <= Cardinality(Low(u))
        BY <2>1, <2>3, FS_Surjection
      <2>5. IsFiniteSet(ready) /\ Cardinality(ready) <= Cardinality(FdsIn(A, u))
        BY <2>4, FS_Subset
      <2>6. Cardinality(ready) \in Nat /\ Cardinality(FdsIn(A, u)) \in Nat
        BY <2>4, <2>5, FS_CardinalityType
      <2>7. QED
        BY <1>1, <1>2, <2>1, <2>4, <2>5, <2>6
    <1>8. PICK B : B = PolledInto(A, u, ready)
      OBVIOUS
    <1>9. B \in EpTable
      <2>1. ASSUME NEW i \in EpIdx
            PROVE  (IF i < u THEN [A[i] EXCEPT !.ready = A[i].fd \in ready] ELSE A[i])
                   \in [fd : EpFds \cup {-1}, ready : BOOLEAN]
        <3>1. A[i] \in [fd : EpFds \cup {-1}, ready : BOOLEAN]
          BY <1>1 DEF EpTable
        <3>2. (A[i].fd \in ready) \in BOOLEAN
          OBVIOUS
        <3>3. [A[i] EXCEPT !.ready = A[i].fd \in ready] \in [fd : EpFds \cup {-1}, ready : BOOLEAN]
          BY <3>1, <3>2
        <3>4. QED
          BY <3>1, <3>3
      <2>2. QED
        BY <1>8, <2>1, Zenon DEF EpTable, PolledInto
    <1>10. \A i \in Low(u) : B[i].fd = A[i].fd
      BY <1>1, <1>2, <1>8 DEF EpTable, PolledInto
    <1>11. HolesIn(B, u) = HolesIn(A, u)
      BY <1>10 DEF HolesIn
    <1>12. ExactIn(B, u, 0, acts)
      <2>1. Cardinality(HolesIn(B, u)) = 0
        BY <1>1, <1>11 DEF ExactIn
      <2>2. \A i \in Low(u) : B[i].fd # -1 => B[i].fd \in acts
        BY <1>1, <1>10 DEF ExactIn
      <2>3. \A fd \in acts : fd # -1 /\ \E i \in Low(u) : B[i].fd = fd
        BY <1>1, <1>10 DEF ExactIn
      <2>4. \A i, j \in Low(u) : i # j /\ B[i].fd # -1 => B[i].fd # B[j].fd
        BY <1>1, <1>10 DEF ExactIn
      <2>5. QED
        BY <2>1, <2>2, <2>3, <2>4 DEF ExactIn
    <1>13. FreshIn(B, u, FdsIn(A, u))
      BY <1>3, <1>10 DEF FreshIn
    <1>14. QED
      BY <1>1, <1>6, <1>7, <1>8, <1>9, <1>12, <1>13 DEF GoodTable

-----------------------------------------------------------------------------
\* EventPoll: the inductive invariant

EpInv == EpTypeOK /\ GoodTable(epSlots, epUsed, epDel, epActions, epPolled)

\* It is TableExact, and that events are only where poll saw them.
LEMMA GoodIsExact ==
    ASSUME EpTypeOK, GoodTable(epSlots, epUsed, epDel, epActions, epPolled)
    PROVE  TableExact
    <1>1. InUse = Low(epUsed)
      BY LowSlots DEF EpTypeOK, InUse, Low, EpIdx
    <1>2. ExactIn(epSlots, epUsed, epDel, epActions)
      BY DEF GoodTable
    <1>3. {epSlots[i].fd : i \in InUse} \ {-1} = epActions
      BY <1>1, <1>2 DEF ExactIn
    <1>4. \A i, j \in InUse : (i # j /\ epSlots[i].fd # -1) => epSlots[i].fd # epSlots[j].fd
      BY <1>1, <1>2 DEF ExactIn
    <1>5. SlotsOf(-1) = HolesIn(epSlots, epUsed)
      BY <1>1 DEF SlotsOf, HolesIn
    <1>6. QED
      BY <1>2, <1>3, <1>4, <1>5 DEF TableExact, ExactIn

\* A new loop has an empty table.
LEMMA EpInitially == EpInit => EpInv
    <1> SUFFICES ASSUME EpInit
                 PROVE  EpInv
      OBVIOUS
    <1>1. EpSize \in Nat /\ EpSize >= 1 /\ 0 \in 0..EpSize
      BY EpAssumption
    <1>2. epSlots \in EpTable
      BY DEF EpInit, EpTable, Hole
    <1>3. Low(0) = {}
      BY DEF Low
    <1>4. HolesIn(epSlots, 0) = {}
      BY <1>3 DEF HolesIn
    <1>5. Cardinality(HolesIn(epSlots, 0)) = 0
      BY <1>4, FS_EmptySet
    <1>6. ExactIn(epSlots, 0, 0, {}) /\ FreshIn(epSlots, 0, {})
      BY <1>3, <1>5 DEF ExactIn, FreshIn
    <1>7. GoodTable(epSlots, epUsed, epDel, epActions, epPolled)
      BY <1>1, <1>2, <1>6 DEF EpInit, GoodTable
    <1>8. EpTypeOK
      BY <1>1, <1>2 DEF EpInit, EpTypeOK, EpTable
    <1>9. QED
      BY <1>7, <1>8 DEF EpInv

\* The table's part of the types, and the rest.
EpRest == /\ epEvents \in 0..EpSize /\ epTaken \in 0..EpSize /\ epAt \in 0..EpSize
          /\ epActions \subseteq EpFds /\ epPolled \subseteq EpFds
          /\ epPc \in {"wait", "events", "callback"} /\ epOut \in EpFds \cup {-1}

\* The counters follow from the table.
LEMMA TypesFromTable ==
    ASSUME GoodTable(epSlots, epUsed, epDel, epActions, epPolled)', EpRest'
    PROVE  EpInv'
    <1>1. PICK A, u, d, acts : A = epSlots' /\ u = epUsed' /\ d = epDel' /\ acts = epActions'
      OBVIOUS
    <1>2. A \in EpTable /\ u \in 0..EpSize /\ ExactIn(A, u, d, acts)
      BY <1>1 DEF GoodTable
    <1>3. HolesIn(A, u) \in SUBSET Low(u)
      BY DEF HolesIn
    <1>4. Cardinality(HolesIn(A, u)) \in Nat /\ Cardinality(HolesIn(A, u)) <= u
      BY <1>2, <1>3, HolesFinite
    <1>5. d = Cardinality(HolesIn(A, u))
      BY <1>2 DEF ExactIn
    <1>6. d \in 0..u
      BY <1>2, <1>4, <1>5
    <1>7. EpTypeOK'
      BY <1>1, <1>2, <1>6 DEF EpTypeOK, EpRest, EpTable
    <1>8. QED
      BY <1>7 DEF EpInv

\* The parts of the invariant.
LEMMA EpParts ==
    ASSUME EpInv
    PROVE  /\ GoodTable(epSlots, epUsed, epDel, epActions, epPolled) /\ EpRest
           /\ epUsed \in Nat /\ epDel \in Nat /\ epDel <= epUsed /\ epUsed \in 0..EpSize /\ EpSize \in Nat
           /\ InUse = Low(epUsed) /\ epSlots \in EpTable
    <1>1. EpTypeOK /\ GoodTable(epSlots, epUsed, epDel, epActions, epPolled)
      BY DEF EpInv
    <1>2. EpSize \in Nat /\ epUsed \in 0..EpSize /\ epDel \in 0..epUsed
      BY <1>1, EpAssumption DEF EpTypeOK
    <1>3. epUsed \in Nat /\ epDel \in Nat /\ epDel <= epUsed
      BY <1>2
    <1>4. InUse = Low(epUsed)
      BY <1>2 DEF InUse, Low, EpIdx
    <1>5. QED
      BY <1>1, <1>2, <1>3, <1>4 DEF EpTypeOK, EpRest, EpTable

\* Add keeps the invariant.
LEMMA EpAddKeeps ==
    ASSUME EpInv, NEW fd \in EpFds, EpAdd(fd)
    PROVE  EpInv'
    <1> DEFINE balance == epDel > 0 /\ epUsed >= EpSize
    <1>1. /\ GoodTable(epSlots, epUsed, epDel, epActions, epPolled) /\ EpRest
          /\ epUsed \in Nat /\ epDel \in Nat /\ epDel <= epUsed /\ epUsed \in 0..EpSize /\ EpSize \in Nat
          /\ InUse = Low(epUsed) /\ epSlots \in EpTable
      BY EpParts
    <1>2. PICK A, u, d : /\ A = IF balance THEN Swapped(epSlots, epUsed) ELSE epSlots
                         /\ u = IF balance THEN epUsed - epDel ELSE epUsed
                         /\ d = IF balance THEN 0 ELSE epDel
      OBVIOUS
    <1>3. GoodTable(A, u, d, epActions, epPolled)
      <2>1. GoodTable(Swapped(epSlots, epUsed), epUsed - epDel, 0, epActions, epPolled)
        BY <1>1, Balanced
      <2>2. CASE balance
        BY <1>2, <2>1, <2>2
      <2>3. CASE ~ balance
        BY <1>1, <1>2, <2>3
      <2>4. QED
        BY <2>2, <2>3
    <1>4. fd \notin epActions
      <2>1. \A i \in Low(epUsed) : epSlots[i].fd # fd
        BY <1>1 DEF EpAdd, SlotsOf
      <2>2. QED
        BY <1>1, <2>1 DEF GoodTable, ExactIn
    <1>5. /\ epSlots' = IF u < EpSize THEN [A EXCEPT ![u] = NewSlot(@, fd)] ELSE A
          /\ epUsed' = IF u < EpSize THEN u + 1 ELSE u
          /\ epDel' = d
          /\ epActions' = IF u < EpSize THEN epActions \cup {fd} ELSE epActions
          /\ UNCHANGED <<epEvents, epTaken, epAt, epPc, epOut, epPolled>>
      BY <1>2, Zenon DEF EpAdd, HolesLeft
    <1>6. GoodTable(epSlots', epUsed', epDel', epActions', epPolled')
      <2>1. CASE u < EpSize
        <3>1. PICK B : B = [A EXCEPT ![u] = NewSlot(@, fd)]
          OBVIOUS
        <3>2. GoodTable(B, u + 1, d, epActions \cup {fd}, epPolled)
          BY <1>3, <1>4, <2>1, <3>1, AddSlot
        <3>3. epSlots' = B /\ epUsed' = u + 1 /\ epDel' = d /\ epActions' = epActions \cup {fd} /\ epPolled' = epPolled
          BY <1>5, <2>1, <3>1
        <3>4. QED
          BY <3>2, <3>3
      <2>2. CASE ~ (u < EpSize)
        BY <1>3, <1>5, <2>2
      <2>3. QED
        BY <2>1, <2>2
    <1>7. EpRest'
      BY <1>1, <1>5 DEF EpRest
    <1>8. QED
      BY <1>6, <1>7, TypesFromTable

\* Del keeps it.
LEMMA EpDeleteKeeps ==
    ASSUME EpInv, NEW fd \in EpFds, EpDelete(fd)
    PROVE  EpInv'
    <1>1. /\ GoodTable(epSlots, epUsed, epDel, epActions, epPolled) /\ EpRest
          /\ InUse = Low(epUsed) /\ epUsed \in 0..EpSize
      BY EpParts
    <1>2. SlotsOf(fd) # {} /\ SlotsOf(fd) \in SUBSET Low(epUsed) /\ SlotsOf(fd) \in SUBSET Nat
      BY <1>1, LowSlots DEF EpDelete, SlotsOf
    <1>3. \E i \in SlotsOf(fd) : \A j \in SlotsOf(fd) : i <= j
      BY <1>2, LeastElement
    <1>4. PICK s : s = CHOOSE i \in SlotsOf(fd) : \A j \in SlotsOf(fd) : i <= j
      OBVIOUS
    <1>5. s \in SlotsOf(fd)
      BY <1>3, <1>4, Zenon
    <1>6. s \in Low(epUsed) /\ epSlots[s].fd = fd
      BY <1>2, <1>5 DEF SlotsOf
    <1>7. epSlots' = [epSlots EXCEPT ![s].fd = -1]
      BY <1>4, Zenon DEF EpDelete
    <1>8. fd # -1
      BY EpAssumption
    <1>9. GoodTable(epSlots', epUsed, epDel + 1, epActions \ {fd}, epPolled \ {fd})
      BY <1>1, <1>6, <1>7, <1>8, DelSlot
    <1>10. /\ epUsed' = epUsed /\ epDel' = epDel + 1 /\ epActions' = epActions \ {fd} /\ epPolled' = epPolled \ {fd}
           /\ UNCHANGED <<epEvents, epTaken, epAt, epPc, epOut>>
      BY DEF EpDelete
    <1>11. GoodTable(epSlots', epUsed', epDel', epActions', epPolled')
      BY <1>9, <1>10
    <1>12. EpRest'
      BY <1>1, <1>10 DEF EpRest
    <1>13. QED
      BY <1>11, <1>12, TypesFromTable

\* Wait keeps it.
LEMMA EpWaitKeeps ==
    ASSUME EpInv, EpWait
    PROVE  EpInv'
    <1>1. /\ GoodTable(epSlots, epUsed, epDel, epActions, epPolled) /\ EpRest
          /\ epUsed \in Nat /\ epDel \in Nat /\ epDel <= epUsed /\ epUsed \in 0..EpSize /\ EpSize \in Nat
      BY EpParts
    <1>2. PICK A, u : A = (IF epDel > 0 THEN Swapped(epSlots, epUsed) ELSE epSlots) /\ u = epUsed - epDel
      OBVIOUS
    <1>3. GoodTable(A, u, 0, epActions, epPolled)
      <2>1. CASE epDel > 0
        BY <1>1, <1>2, <2>1, Balanced
      <2>2. CASE ~ (epDel > 0)
        <3>1. epDel = 0 /\ u = epUsed /\ A = epSlots
          BY <1>1, <1>2, <2>2
        <3>2. QED
          BY <1>1, <3>1
      <2>3. QED
        BY <2>1, <2>2
    <1>4. PICK ready \in SUBSET FdsIn(A, u) :
              /\ epSlots' = PolledInto(A, u, ready) /\ epEvents' = Cardinality(ready)
              /\ IF ready = {} THEN UNCHANGED <<epTaken, epAt, epPc>>
                               ELSE epTaken' = 0 /\ epAt' = 0 /\ epPc' = "events"
      BY <1>2, Zenon DEF EpWait, FdsIn, PolledInto
    <1>5. epDel' = 0 /\ epUsed' = u /\ epPolled' = FdsIn(A, u) /\ epActions' = epActions /\ epOut' = epOut
      BY <1>2, Zenon DEF EpWait, FdsIn
    <1>6. /\ GoodTable(PolledInto(A, u, ready), u, 0, epActions, FdsIn(A, u))
          /\ FdsIn(A, u) \subseteq EpFds /\ Cardinality(ready) \in 0..EpSize
      BY <1>3, PollSlots
    <1>7. GoodTable(epSlots', epUsed', epDel', epActions', epPolled')
      BY <1>4, <1>5, <1>6
    <1>8. EpRest'
      BY <1>1, <1>4, <1>5, <1>6 DEF EpRest
    <1>9. QED
      BY <1>7, <1>8, TypesFromTable

\* What GetEvents reports was in the table that poll was given.
LEMMA EpGetEventsKeeps ==
    ASSUME EpInv, EpGetEvents
    PROVE  EpInv' /\ (epTaken' > epTaken => epOut' \in epPolled)
    <1> DEFINE found == IF epTaken < epEvents THEN NextReady(epAt) ELSE {}
    <1>1. /\ GoodTable(epSlots, epUsed, epDel, epActions, epPolled) /\ EpRest
          /\ epUsed \in Nat /\ epUsed \in 0..EpSize /\ EpSize \in Nat /\ InUse = Low(epUsed) /\ epSlots \in EpTable
      BY EpParts
    <1>2. UNCHANGED <<epSlots, epUsed, epDel, epEvents, epActions, epPolled>>
      BY DEF EpGetEvents
    <1>3. GoodTable(epSlots', epUsed', epDel', epActions', epPolled')
      BY <1>1, <1>2
    <1>4. epTaken \in Nat /\ epTaken \in 0..EpSize /\ epAt \in 0..EpSize /\ epEvents \in 0..EpSize
      BY <1>1 DEF EpRest
    <1>5. CASE found = {}
      <2>1. /\ epPc' = "wait" /\ epTaken' = epTaken /\ epOut' = epOut
            /\ epAt' = IF epTaken < epEvents /\ epAt < epUsed THEN epUsed ELSE epAt
        BY <1>5 DEF EpGetEvents
      <2>2. EpRest'
        BY <1>1, <1>2, <2>1 DEF EpRest
      <2>3. ~ (epTaken' > epTaken)
        BY <1>4, <2>1
      <2>4. QED
        BY <1>3, <2>2, <2>3, TypesFromTable
    <1>6. CASE found # {}
      <2>1. PICK s : s = CHOOSE i \in found : \A j \in found : i <= j
        OBVIOUS
      <2>2. epTaken < epEvents /\ found = NextReady(epAt)
        BY <1>6
      <2>3. found \in SUBSET Low(epUsed) /\ found \in SUBSET Nat
        BY <1>1, <2>2, LowSlots DEF NextReady
      <2>4. \E i \in found : \A j \in found : i <= j
        BY <1>6, <2>3, LeastElement
      <2>5. s \in found
        BY <2>1, <2>4, Zenon
      <2>6. /\ epOut' = epSlots[s].fd /\ epAt' = s + 1 /\ epTaken' = epTaken + 1
            /\ epPc' = IF epSlots[s].fd \in epActions THEN "callback" ELSE "events"
        BY <1>6, <2>1, Zenon DEF EpGetEvents
      <2>7. s \in Low(epUsed) /\ epSlots[s].fd # -1 /\ epSlots[s].ready
        BY <2>2, <2>3, <2>5 DEF NextReady
      <2>8. epSlots[s].fd \in epPolled
        BY <1>1, <2>7 DEF GoodTable, FreshIn
      <2>9. s + 1 \in 0..EpSize /\ epTaken + 1 \in 0..EpSize
        BY <1>1, <1>4, <2>2, <2>7 DEF Low
      <2>10. epSlots[s].fd \in EpFds
        BY <1>1, <2>8 DEF EpRest
      <2>11. EpRest'
        BY <1>1, <1>2, <2>6, <2>9, <2>10 DEF EpRest
      <2>12. QED
        BY <1>3, <2>6, <2>8, <2>11, TypesFromTable
    <1>7. QED
      BY <1>5, <1>6

\* Every step keeps the invariant, and reports no stale event.
LEMMA EpStep ==
    ASSUME EpInv, [EpNext]_epVars
    PROVE  EpInv' /\ (epTaken' > epTaken => epOut' \in epPolled)
    <1>1. epTaken \in Nat
      BY EpAssumption DEF EpInv, EpTypeOK
    <1>2. CASE \E fd \in EpFds : EpAdd(fd)
      <2>1. epTaken' = epTaken
        BY <1>2 DEF EpAdd
      <2>2. QED
        BY <1>1, <1>2, <2>1, EpAddKeeps
    <1>3. CASE \E fd \in EpFds : EpDelete(fd)
      <2>1. epTaken' = epTaken
        BY <1>3 DEF EpDelete
      <2>2. QED
        BY <1>1, <1>3, <2>1, EpDeleteKeeps
    <1>4. CASE EpReturn
      <2>1. /\ epPc' \in {"wait", "events", "callback"}
            /\ UNCHANGED <<epSlots, epUsed, epDel, epEvents, epTaken, epAt, epActions, epOut, epPolled>>
        BY <1>4 DEF EpReturn
      <2>2. EpInv'
        BY <2>1 DEF EpInv, EpTypeOK
      <2>3. QED
        BY <1>1, <2>1, <2>2
    <1>5. CASE EpWait
      <2>1. epTaken' \in {0, epTaken}
        BY <1>5 DEF EpWait
      <2>2. QED
        BY <1>1, <1>5, <2>1, EpWaitKeeps
    <1>6. CASE EpGetEvents
      BY <1>6, EpGetEventsKeeps
    <1>7. CASE UNCHANGED epVars
      <2>1. EpInv' /\ epTaken' = epTaken
        BY <1>7 DEF EpInv, EpTypeOK, epVars
      <2>2. QED
        BY <1>1, <2>1
    <1>8. QED
      BY <1>2, <1>3, <1>4, <1>5, <1>6, <1>7 DEF EpNext

\* The event loop over poll reports only events that poll saw on the descriptor as
\* it is registered now, and its array stays exact, for any set of descriptors, size of
\* the array and sequence of Add, Del and Wait, also from the callbacks of the events
\* that are being walked (EventPoll::Balance, GetEvents; EventLoop::Run).
THEOREM EventsStayFresh == EpSpec => NoStaleEvent
    <1>1. EpInit => EpInv
      BY EpInitially
    <1>2. EpInv /\ [EpNext]_epVars => EpInv'
      BY EpStep
    <1>3. EpInv' => EpTypeOK' /\ TableExact'
      <2>1. EpInv => EpTypeOK /\ TableExact
        BY GoodIsExact DEF EpInv
      <2>2. QED
        BY <2>1, PTL
    <1>4. EpInv /\ [EpNext]_epVars =>
             [EpTypeOK' /\ TableExact' /\ (epTaken' > epTaken => epOut' \in epPolled)]_epVars
      BY <1>3, EpStep
    <1>5. QED
      BY <1>1, <1>2, <1>4, PTL DEF EpSpec, NoStaleEvent

=============================================================================
